--------------------- MODULE MainWindowViewModelProofs ---------------------
(***************************************************************************)
(* Theorems about the view model for every number of solves in flight, of  *)
(* graphs and message boxes, every set of titles, ranges and qualities:    *)
(*                                                                         *)
(*   TypeCorrect     TypeOK;                                               *)
(*   AxesOfGraphs    AxesMatchGraphs;                                      *)
(*   GraphsAdded     AnswersAreKept;                                       *)
(*   ChartOfGraphs   NoLostRedraw;                                         *)
(*   ChartInRange    NoStaleRange, when all problems have the same axes.   *)
(*                                                                         *)
(* The first three follow from Inv: the list of axes is the longest of the *)
(* graphs', and the number in a graph's name is its place in the storage.  *)
(* A redraw that is entered while another waits at its box clears what the *)
(* other has painted.  RedrawInv says why nothing is lost all the same: as *)
(* long as nobody has raised _draw_anyway since, the redraw that began     *)
(* last is the innermost one, and what it has not painted it has to do.    *)
(***************************************************************************)
EXTENDS MainWindowViewModel, SequenceTheorems, WellFoundedInduction, TLAPS

\* A set of numbers that is not empty has a least one.
LEMMA LeastNumber ==
  ASSUME NEW T, T \subseteq Nat, T # {}
  PROVE  \E x \in T : \A y \in T : x <= y
<1> DEFINE R == {ss \in Nat \X Nat : ss[1] < ss[2]}
<1>1. IsWellFoundedOn(R, Nat)
  BY NatLessThanWellFounded DEF OpToRel
<1>2. \A x, y \in Nat : <<y, x>> \in R <=> y < x
  OBVIOUS
<1> HIDE DEF R
<1>3. PICK x \in T : \A y \in T : ~(<<y, x>> \in R)
  BY <1>1, WFMin
<1>4. \A y \in T : x <= y
  <2> TAKE y \in T
  <2>1. x \in Nat /\ y \in Nat /\ ~(<<y, x>> \in R)
    BY <1>3
  <2> QED
    BY <1>2, <2>1
<1> QED
  BY <1>4

SeriesType == [name : Name, x : Nat, y : Nat, range : Ranges, quality : Qualities]
Draw == [todo : Seq(Name), range : Ranges]

\* n is the greatest number of axes of the graphs of s.
Longest(s, n) == /\ n \in AxisCounts \cup {0}
                 /\ \A j \in 1..Len(s) : s[j].axes <= n
                 /\ n = 0 \/ \E j \in 1..Len(s) : s[j].axes = n

\* There is one such number, and a further graph raises it to its own or not.
LEMMA LongestIsAllAxes ==
  ASSUME NEW s \in Seq(Graph), NEW n, Longest(s, n)
  PROVE  AllAxes(s) = n
<1>1. \A m : Longest(s, m) => m = n
  <2> TAKE m
  <2> HAVE Longest(s, m)
  <2>1. n \in Nat /\ m \in Nat
    BY AxisAssumption DEF Longest
  <2>2. n <= m /\ m <= n
    BY <2>1 DEF Longest
  <2> QED
    BY <2>1, <2>2
<1>2. AllAxes(s) = CHOOSE m \in AxisCounts \cup {0} :
                     (\A j \in 1..Len(s) : s[j].axes <= m) /\ (m = 0 \/ \E j \in 1..Len(s) : s[j].axes = m)
  BY DEF AllAxes
<1> QED
  BY <1>1, <1>2 DEF Longest

LEMMA LongestOfMore ==
  ASSUME NEW s \in Seq(Graph), NEW n, Longest(s, n), NEW g \in Graph
  PROVE  Longest(Append(s, g), IF g.axes > n THEN g.axes ELSE n)
<1> DEFINE t == Append(s, g)
           m == IF g.axes > n THEN g.axes ELSE n
<1>1. /\ Len(t) = Len(s) + 1 /\ Len(s) \in Nat /\ t[Len(s) + 1] = g
      /\ \A j \in 1..Len(s) : t[j] = s[j]
  BY AppendProperties
<1>2. /\ n \in AxisCounts \cup {0} /\ g.axes \in AxisCounts /\ n \in Nat /\ g.axes \in Nat
      /\ \A j \in 1..Len(s) : s[j].axes <= n /\ s[j].axes \in Nat
  <2>1. \A j \in 1..Len(s) : s[j] \in Graph
    OBVIOUS
  <2>2. \A h \in Graph : h.axes \in AxisCounts /\ h.axes \in Nat
    BY AxisAssumption DEF Graph
  <2>3. n \in AxisCounts \cup {0} /\ \A j \in 1..Len(s) : s[j].axes <= n
    BY DEF Longest
  <2>4. n \in Nat
    BY <2>3, AxisAssumption
  <2> QED
    BY <2>1, <2>2, <2>3, <2>4
<1>3. \A j \in 1..Len(t) : t[j].axes <= m
  BY <1>1, <1>2
<1>4. m = 0 \/ \E j \in 1..Len(t) : t[j].axes = m
  <2>1. CASE g.axes > n
    BY <1>1, <2>1
  <2>2. CASE ~(g.axes > n) /\ n # 0
    <3>1. PICK j \in 1..Len(s) : s[j].axes = n
      BY <2>2 DEF Longest
    <3> QED
      BY <1>1, <2>2, <3>1
  <2> QED
    BY <2>1, <2>2
<1> QED
  BY <1>2, <1>3, <1>4 DEF Longest

\* The loop of a redraw paints what comes before a first name it cannot paint.
LEMMA DrawLoopStops ==
  ASSUME NEW todo \in Seq(Name), NEW r, NEW base, NEW outer, DrawLoop(todo, r, base, outer)
  PROVE  \E stop \in 1..(Len(todo) + 1) :
           /\ \A j \in 1..(stop - 1) : Paintable(todo[j])
           /\ chart' = base \cup {Series(todo[j], r) : j \in 1..(stop - 1)}
           /\ \/ stop = Len(todo) + 1 /\ last' = r /\ draws' = outer
              \/ /\ stop <= Len(todo) /\ ~Paintable(todo[stop]) /\ todo[stop] \in Names(storage)
                 /\ draws' = Append(outer, [todo |-> SubSeq(todo, stop + 1, Len(todo)), range |-> r])
                 /\ last' = last
              \/ /\ stop <= Len(todo) /\ todo[stop] \notin Names(storage)
                 /\ draws' = outer /\ last' = last
<1> DEFINE Stops == {j \in 1..Len(todo) : ~Paintable(todo[j])}
           stop  == IF Stops = {} THEN Len(todo) + 1
                    ELSE CHOOSE j \in Stops : \A k \in Stops : j <= k
<1>1. Len(todo) \in Nat
  OBVIOUS
<1>2. /\ chart' = base \cup {Series(todo[j], r) : j \in 1..(stop - 1)}
      /\ \/ /\ stop > Len(todo)
            /\ last' = r /\ draws' = outer
         \/ /\ stop <= Len(todo) /\ todo[stop] \in Names(storage)
            /\ draws' = Append(outer, [todo |-> SubSeq(todo, stop + 1, Len(todo)),
                                       range |-> r])
            /\ UNCHANGED last
         \/ /\ stop <= Len(todo) /\ todo[stop] \notin Names(storage)
            /\ draws' = outer
            /\ UNCHANGED last
  BY DEF DrawLoop
<1>3. CASE Stops = {}
  <2>1. stop = Len(todo) + 1 /\ \A j \in 1..Len(todo) : Paintable(todo[j])
    BY <1>3
  <2> HIDE DEF stop, Stops
  <2>2. \A j \in 1..(stop - 1) : Paintable(todo[j])
    BY <1>1, <2>1
  <2>3. stop \in 1..(Len(todo) + 1) /\ ~(stop <= Len(todo))
    BY <1>1, <2>1
  <2> QED
    BY <1>2, <2>1, <2>2, <2>3
<1>4. CASE Stops # {}
  <2>1. \E j \in Stops : \A k \in Stops : j <= k
    BY <1>4, LeastNumber, Stops \subseteq Nat
  <2>2. stop \in Stops /\ \A k \in Stops : stop <= k
    BY <1>4, <2>1
  <2> HIDE DEF stop
  <2>3. stop \in 1..Len(todo) /\ ~Paintable(todo[stop])
    BY <2>2
  <2>4. \A j \in 1..(stop - 1) : Paintable(todo[j])
    <3> TAKE j \in 1..(stop - 1)
    <3>1. j \in 1..Len(todo) /\ ~(stop <= j)
      BY <1>1, <2>3
    <3> QED
      BY <2>2, <3>1
  <2>5. stop \in 1..(Len(todo) + 1) /\ stop <= Len(todo) /\ ~(stop > Len(todo))
    BY <1>1, <2>3
  <2> HIDE DEF Stops
  <2> QED
    BY <1>2, <2>3, <2>4, <2>5
<1> QED
  BY <1>3, <1>4
-----------------------------------------------------------------------------
(* Types, axes and names.                                                  *)

AxesInv == /\ Longest(storage, available)
           /\ IF storage = <<>> THEN xAxis = NoAxis /\ yAxis = NoAxis
              ELSE {xAxis, yAxis} \subseteq 1..available
NamesInv == \A j \in 1..Len(storage) : storage[j].name[1] = j
Inv == TypeOK /\ AxesInv /\ NamesInv

\* No graph, no axes.
LEMMA NoGraphNoAxes ==
  ASSUME Inv, storage = <<>>
  PROVE  available = 0
BY DEF Inv, AxesInv, Longest

\* An answer adds a graph, under a name of its own.
LEMMA AnswerAdds ==
  ASSUME Inv, NEW s \in Solves, Answer(s)
  PROVE  Inv' /\ Len(storage') = Len(storage) + 1 /\ drawAnyway' = TRUE
<1> DEFINE g == [name |-> GraphName(storage, title), axes |-> solves[s]]
           m == IF g.axes > available THEN g.axes ELSE available
<1>1. /\ solves \in [Solves -> AxisCounts \cup {0}] /\ solves[s] \in AxisCounts
      /\ storage \in Seq(Graph) /\ Len(storage) \in Nat /\ Len(storage) < MaxGraphs
      /\ title \in Titles /\ MaxGraphs \in Nat /\ available \in Nat
  BY ValuesAssumption, AxisAssumption DEF Inv, TypeOK, Answer
<1>2. GraphName(storage, title) \in Name
  BY <1>1 DEF GraphName, Name
<1>3. g \in Graph /\ g.axes = solves[s] /\ g.axes \in Nat \ {0}
  BY <1>1, <1>2, AxisAssumption DEF Graph
<1>4. g.name \notin Names(storage)
  <2> SUFFICES ASSUME NEW j \in 1..Len(storage), storage[j].name = GraphName(storage, title)
               PROVE  FALSE
    BY DEF Names
  <2>1. storage[j].name[1] = j
    BY DEF Inv, NamesInv
  <2>2. GraphName(storage, title)[1] = Len(storage) + 1
    BY DEF GraphName
  <2> QED
    BY <1>1, <2>1, <2>2
<1>5. /\ storage' = Append(storage, g) /\ LoadAxes(storage') /\ UpdateScale(storage', xAxis', yAxis')
      /\ drawAnyway' = TRUE /\ solves' = [solves EXCEPT ![s] = 0]
      /\ UNCHANGED <<title, quality, last, chart, draws>>
  BY <1>4 DEF Answer
<1> HIDE DEF g
<1>6. /\ storage' \in Seq(Graph) /\ Len(storage') = Len(storage) + 1 /\ storage' # <<>>
      /\ storage'[Len(storage) + 1] = g
      /\ \A j \in 1..Len(storage) : storage'[j] = storage[j]
  BY <1>1, <1>3, <1>5, AppendProperties
<1>7. Longest(storage', m) /\ m \in Nat \ {0} /\ m >= available
  BY <1>1, <1>3, <1>5, LongestOfMore DEF Inv, AxesInv
<1>8. AllAxes(storage') = m
  BY <1>6, <1>7, LongestIsAllAxes
<1> HIDE DEF m
<1>9. available' = m /\ {xAxis', yAxis'} \subseteq 1..m
  <2>1. CASE m = available
    <3>1. storage # <<>>
      BY <1>7, <2>1, NoGraphNoAxes
    <3> QED
      BY <1>5, <1>8, <2>1, <3>1 DEF LoadAxes, Inv, AxesInv
  <2>2. CASE m # available
    <3>1. /\ available' = m
          /\ xAxis' = IF xAxis \in 1..m THEN xAxis ELSE 1
          /\ yAxis' = IF yAxis \in 1..m THEN yAxis ELSE IF m >= 2 THEN 2 ELSE xAxis'
      BY <1>5, <1>7, <1>8, <2>2 DEF LoadAxes
    <3>2. xAxis' \in 1..m
      BY <1>7, <3>1
    <3>3. yAxis' \in 1..m
      BY <1>7, <3>1, <3>2
    <3> QED
      BY <3>1, <3>2, <3>3
  <2> QED
    BY <2>1, <2>2
<1>10. AxesInv'
  BY <1>6, <1>7, <1>9 DEF AxesInv
<1>11. NamesInv'
  <2>1. g.name[1] = Len(storage) + 1
    BY DEF g, GraphName
  <2>2. \A j \in 1..Len(storage') : j \in 1..Len(storage) \/ j = Len(storage) + 1
    BY <1>1, <1>6
  <2> QED
    BY <1>6, <2>1, <2>2 DEF Inv, NamesInv
<1>12. TypeOK'
  <2>1. range' \in Ranges
    BY <1>5 DEF UpdateScale, Inv, TypeOK
  <2>2. solves' \in [Solves -> AxisCounts \cup {0}]
    BY <1>1, <1>5
  <2>3. Len(storage') <= MaxGraphs /\ {xAxis', yAxis'} \subseteq 0..m /\ m \in AxisCounts \cup {0}
    BY <1>1, <1>6, <1>7, <1>9 DEF Longest
  <2> QED
    BY <1>5, <1>6, <1>9, <2>1, <2>2, <2>3 DEF Inv, TypeOK
<1> QED
  BY <1>5, <1>6, <1>10, <1>11, <1>12 DEF Inv

\* A redraw, whole or a part of it, keeps the types.
LEMMA RedrawTypes ==
  ASSUME Inv, NEW todo \in Seq(Name), NEW r \in Ranges, NEW base \in SUBSET SeriesType,
         NEW outer \in Seq(Draw), Len(outer) < MaxBoxes, DrawLoop(todo, r, base, outer)
  PROVE  /\ chart' \subseteq SeriesType /\ last' \in Ranges \cup {NoRange}
         /\ draws' \in Seq(Draw) /\ Len(draws') <= MaxBoxes
<1>1. /\ xAxis \in Nat /\ yAxis \in Nat /\ quality \in Qualities /\ last \in Ranges \cup {NoRange}
      /\ Len(todo) \in Nat /\ MaxBoxes \in Nat /\ Len(outer) \in Nat
  BY ValuesAssumption, AxisAssumption DEF Inv, TypeOK
<1>2. PICK stop \in 1..(Len(todo) + 1) :
        /\ chart' = base \cup {Series(todo[j], r) : j \in 1..(stop - 1)}
        /\ \/ last' = r /\ draws' = outer
           \/ /\ stop <= Len(todo)
              /\ draws' = Append(outer, [todo |-> SubSeq(todo, stop + 1, Len(todo)), range |-> r])
              /\ last' = last
           \/ draws' = outer /\ last' = last
  BY DrawLoopStops
<1>3. \A j \in 1..(stop - 1) : Series(todo[j], r) \in SeriesType
  <2> TAKE j \in 1..(stop - 1)
  <2>1. j \in 1..Len(todo)
    BY <1>1
  <2> QED
    BY <1>1, <2>1 DEF Series, SeriesType
<1>4. [todo |-> SubSeq(todo, stop + 1, Len(todo)), range |-> r] \in Draw \/ stop > Len(todo)
  <2> SUFFICES ASSUME stop <= Len(todo) PROVE SubSeq(todo, stop + 1, Len(todo)) \in Seq(Name)
    BY <1>1 DEF Draw
  <2>1. stop + 1 \in 1..Len(todo) + 1 /\ Len(todo) \in stop..Len(todo)
    BY <1>1
  <2> QED
    BY <1>1, <2>1, SubSeqProperties
<1>5. last' \in Ranges \cup {NoRange}
  BY <1>1, <1>2
<1>6. draws' \in Seq(Draw) /\ Len(draws') <= MaxBoxes
  <2>1. CASE draws' = outer
    BY <1>1, <2>1
  <2>2. CASE stop <= Len(todo) /\ draws' = Append(outer, [todo |-> SubSeq(todo, stop + 1, Len(todo)), range |-> r])
    <3> DEFINE d == [todo |-> SubSeq(todo, stop + 1, Len(todo)), range |-> r]
    <3>1. d \in Draw
      BY <1>1, <1>4, <2>2
    <3> HIDE DEF d
    <3>2. draws' = Append(outer, d)
      BY <2>2 DEF d
    <3> QED
      BY <1>1, <3>1, <3>2, AppendProperties
  <2> QED
    BY <1>2, <2>1, <2>2
<1> QED
  BY <1>2, <1>3, <1>5, <1>6

LEMMA RedrawKeeps ==
  ASSUME Inv, DrawGraphs \/ CloseBox
  PROVE  Inv'
<1>1. /\ UNCHANGED <<solves, title, storage, available, xAxis, yAxis, range, quality>>
      /\ drawAnyway' \in BOOLEAN
  BY DEF DrawGraphs, CloseBox, Inv, TypeOK
<1>2. /\ chart' \subseteq SeriesType /\ last' \in Ranges \cup {NoRange}
      /\ draws' \in Seq(Draw) /\ Len(draws') <= MaxBoxes
  <2>1. /\ draws \in Seq(Draw) /\ Len(draws) \in Nat /\ Len(draws) <= MaxBoxes /\ MaxBoxes \in Nat
        /\ range \in Ranges /\ chart \in SUBSET SeriesType /\ {} \in SUBSET SeriesType
    BY ValuesAssumption DEF Inv, TypeOK, Draw, SeriesType
  <2>2. CASE DrawGraphs
    <3>1. AllNames \in Seq(Name)
      <4>1. \A j \in 1..Len(storage) : storage[j].name \in Name
        <5>1. \A j \in 1..Len(storage) : storage[j] \in Graph
          BY DEF Inv, TypeOK
        <5> QED
          BY <5>1 DEF Graph
      <4>2. Len(storage) \in Nat
        BY DEF Inv, TypeOK
      <4> QED
        BY <4>1, <4>2 DEF AllNames
    <3>2. Len(draws) < MaxBoxes /\ DrawLoop(AllNames, range, {}, draws)
      BY <2>2 DEF DrawGraphs
    <3> QED
      BY <2>1, <3>1, <3>2, RedrawTypes
  <2>3. CASE CloseBox
    <3> DEFINE top == draws[Len(draws)]
               outer == SubSeq(draws, 1, Len(draws) - 1)
    <3>1. draws # <<>> /\ DrawLoop(top.todo, top.range, chart, outer)
      BY <2>3 DEF CloseBox
    <3>2. Len(draws) \in 1..Len(draws)
      BY <2>1, <3>1
    <3>3. top \in Draw
      BY <2>1, <3>2
    <3>4. top.todo \in Seq(Name) /\ top.range \in Ranges
      BY <3>3 DEF Draw
    <3>5. outer \in Seq(Draw) /\ Len(outer) = Len(draws) - 1
      <4>1. 1 \in 1..(Len(draws) + 1) /\ Len(draws) - 1 \in (1 - 1)..Len(draws)
            /\ (Len(draws) - 1) - 1 + 1 = Len(draws) - 1
        BY <2>1, <3>2
      <4>2. \A k \in 1..Len(draws) - 1 : k \in 1..Len(draws)
        BY <2>1, <3>2
      <4> QED
        BY <2>1, <4>1, <4>2, SubSeqProperties
    <3>6. Len(outer) < MaxBoxes
      BY <2>1, <3>2, <3>5
    <3> HIDE DEF top, outer
    <3> QED
      BY <2>1, <3>1, <3>4, <3>5, <3>6, RedrawTypes
  <2> QED
    BY <2>2, <2>3
<1>3. TypeOK'
  BY <1>1, <1>2 DEF Inv, TypeOK, Draw, SeriesType
<1>4. AxesInv' /\ NamesInv'
  BY <1>1 DEF Inv, AxesInv, NamesInv, Longest
<1> QED
  BY <1>3, <1>4 DEF Inv

\* The choices and edits of the user.
LEMMA UserKeeps ==
  ASSUME Inv, UserStep
  PROVE  Inv'
<1>1. available \in Nat
  BY AxisAssumption DEF Inv, TypeOK
<1>2. CASE \E t \in Titles : EditTitle(t)
  BY <1>2 DEF EditTitle, Inv, TypeOK, AxesInv, NamesInv, Longest
<1>3. CASE \E s \in Solves, n \in AxisCounts : Solve(s, n)
  <2>1. solves' \in [Solves -> AxisCounts \cup {0}]
    BY <1>3 DEF Solve, Inv, TypeOK
  <2> QED
    BY <1>3, <2>1 DEF Solve, Inv, TypeOK, AxesInv, NamesInv, Longest
<1>4. CASE \E a \in 1..available : SelectXAxis(a) \/ SelectYAxis(a)
  <2> PICK a \in 1..available : SelectXAxis(a) \/ SelectYAxis(a)
    BY <1>4
  <2>1. /\ UNCHANGED <<solves, title, storage, available, quality, last, chart, draws>>
        /\ drawAnyway' = TRUE /\ range' \in Ranges
        /\ {xAxis', yAxis'} \subseteq {xAxis, yAxis, a}
    BY DEF SelectXAxis, SelectYAxis, UpdateScale, Inv, TypeOK
  <2>2. storage # <<>> /\ {xAxis, yAxis} \subseteq 1..available
    BY <1>1, NoGraphNoAxes DEF Inv, AxesInv
  <2>3. {xAxis', yAxis'} \subseteq 1..available' /\ {xAxis', yAxis'} \subseteq 0..available'
    BY <1>1, <2>1, <2>2
  <2>4. AxesInv' /\ NamesInv'
    BY <2>1, <2>2, <2>3 DEF Inv, AxesInv, NamesInv, Longest
  <2>5. TypeOK'
    BY <2>1, <2>3 DEF Inv, TypeOK
  <2> QED
    BY <2>4, <2>5 DEF Inv
<1>5. CASE DeleteCharts
  <2>1. /\ storage' = <<>> /\ available' = 0 /\ xAxis' = 0 /\ yAxis' = 0 /\ chart' = {}
        /\ drawAnyway' = TRUE /\ UNCHANGED <<solves, title, range, quality, last, draws>>
    BY <1>5 DEF DeleteCharts, NoAxis
  <2>2. AxesInv' /\ NamesInv'
    BY <2>1 DEF AxesInv, NamesInv, Longest, NoAxis
  <2>3. TypeOK'
    BY <2>1, ValuesAssumption DEF Inv, TypeOK
  <2> QED
    BY <2>2, <2>3 DEF Inv
<1>6. CASE \E q \in Qualities : SetQuality(q)
  BY <1>6 DEF SetQuality, Inv, TypeOK, AxesInv, NamesInv, Longest
<1>7. CASE \E r \in Ranges : Zoom(r)
  BY <1>7 DEF Zoom, Inv, TypeOK, AxesInv, NamesInv, Longest
<1> QED
  BY <1>2, <1>3, <1>4, <1>5, <1>6, <1>7 DEF UserStep

LEMMA FailureKeeps ==
  ASSUME Inv, NEW s \in Solves, AnswerFails(s)
  PROVE  Inv'
<1>1. solves' \in [Solves -> AxisCounts \cup {0}]
  BY DEF AnswerFails, Inv, TypeOK
<1> QED
  BY <1>1 DEF AnswerFails, Inv, TypeOK, AxesInv, NamesInv, Longest

LEMMA InvStarts == Init => Inv
<1> SUFFICES ASSUME Init PROVE Inv
  OBVIOUS
<1>1. TypeOK
  BY ValuesAssumption DEF Init, TypeOK, NoAxis, NoRange, Graph
<1>2. AxesInv /\ NamesInv
  BY DEF Init, AxesInv, NamesInv, Longest
<1> QED
  BY <1>1, <1>2 DEF Inv

LEMMA InvStep == Inv /\ [Next]_vars => Inv'
<1> SUFFICES ASSUME Inv, [Next]_vars PROVE Inv'
  OBVIOUS
<1>1. CASE UserStep
  BY <1>1, UserKeeps
<1>2. CASE \E s \in Solves : Answer(s) \/ AnswerFails(s)
  BY <1>2, AnswerAdds, FailureKeeps
<1>3. CASE DrawGraphs \/ CloseBox
  BY <1>3, RedrawKeeps
<1>4. CASE UNCHANGED vars
  BY <1>4 DEF vars, Inv, TypeOK, AxesInv, NamesInv, Longest
<1> QED
  BY <1>1, <1>2, <1>3, <1>4 DEF Next

LEMMA InvAlways == Spec => []Inv
BY InvStarts, InvStep, PTL DEF Spec

\* Every variable of the view model keeps its type.
THEOREM TypeCorrect == Spec => []TypeOK
<1>1. Inv => TypeOK
  BY DEF Inv
<1> QED
  BY <1>1, InvAlways, PTL

\* The axes LoadAxes offers are those of the graphs stored, and the choices are
\* among them, after answers and deletions in any order.
THEOREM AxesOfGraphs == Spec => []AxesMatchGraphs
<1>1. Inv => AxesMatchGraphs
  <2> SUFFICES ASSUME Inv PROVE AxesMatchGraphs
    OBVIOUS
  <2>1. AllAxes(storage) = available
    BY LongestIsAllAxes DEF Inv, TypeOK, AxesInv
  <2> QED
    BY <2>1 DEF Inv, AxesInv, AxesMatchGraphs
<1> QED
  BY <1>1, InvAlways, PTL

\* AddGraph never throws for a name in use: each good answer adds its graph.
THEOREM GraphsAdded == Spec => AnswersAreKept
<1>1. Inv /\ [Next]_vars => [\A s \in Solves : Answer(s) => Len(storage') = Len(storage) + 1]_vars
  BY AnswerAdds
<1> QED
  BY <1>1, InvAlways, PTL DEF Spec, AnswersAreKept
-----------------------------------------------------------------------------
(* The chart.                                                              *)

\* A graph with the chosen axes is on the chart or among the names todo, all of
\* which are stored.
LeftTo(todo) ==
  /\ \A j \in 1..Len(todo) : todo[j] \in Names(storage)
  /\ \A n \in Names(storage) : Paintable(n) => Shown(n) \/ \E j \in 1..Len(todo) : todo[j] = n

AllShown == \A n \in Names(storage) : Paintable(n) => Shown(n)

RedrawInv ==
  ~drawAnyway => AllShown \/ (draws # <<>> /\ LeftTo(draws[Len(draws)].todo))

\* A loop over the names left shows them, or leaves what is left to its box.
LEMMA LoopShows ==
  ASSUME Inv, NEW todo \in Seq(Name), NEW r \in Ranges, NEW base, NEW outer \in Seq(Draw),
         DrawLoop(todo, r, base, outer), UNCHANGED <<storage, xAxis, yAxis, quality>>,
         \A j \in 1..Len(todo) : todo[j] \in Names(storage),
         \A n \in Names(storage) : Paintable(n) => \/ \E q \in Ranges : Series(n, q) \in base
                                                   \/ \E j \in 1..Len(todo) : todo[j] = n
  PROVE  RedrawInv'
<1> DEFINE Rest(stop) == SubSeq(todo, stop + 1, Len(todo))
<1>1. PICK stop \in 1..(Len(todo) + 1) :
        /\ \A j \in 1..(stop - 1) : Paintable(todo[j])
        /\ chart' = base \cup {Series(todo[j], r) : j \in 1..(stop - 1)}
        /\ \/ stop = Len(todo) + 1 /\ last' = r /\ draws' = outer
           \/ /\ stop <= Len(todo) /\ ~Paintable(todo[stop]) /\ todo[stop] \in Names(storage)
              /\ draws' = Append(outer, [todo |-> Rest(stop), range |-> r])
              /\ last' = last
           \/ /\ stop <= Len(todo) /\ todo[stop] \notin Names(storage)
              /\ draws' = outer /\ last' = last
  BY DrawLoopStops
<1>2. Len(todo) \in Nat
  OBVIOUS
<1>3. \A n : (Paintable(n))' <=> Paintable(n)
  BY DEF Paintable, Names, GetGraph, HasAxes
<1>4. Names(storage)' = Names(storage)
  BY DEF Names
<1>5. \A n, q : Series(n, q) \in chart' /\ q \in Ranges => (Shown(n))'
  BY DEF Shown, Series
<1>6. \A j \in 1..(stop - 1) : (Shown(todo[j]))'
  BY <1>1, <1>5
<1>7. \A n \in Names(storage) : Paintable(n) =>
        \/ (Shown(n))'
        \/ \E j \in 1..Len(todo) : todo[j] = n /\ j >= stop
  <2> TAKE n \in Names(storage)
  <2> HAVE Paintable(n)
  <2>1. CASE \E q \in Ranges : Series(n, q) \in base
    BY <1>1, <1>5, <2>1
  <2>2. CASE \E j \in 1..Len(todo) : todo[j] = n
    <3> PICK j \in 1..Len(todo) : todo[j] = n
      BY <2>2
    <3>1. j \in 1..(stop - 1) \/ j >= stop
      BY <1>2
    <3> QED
      BY <1>6, <3>1
  <2> QED
    BY <2>1, <2>2
<1>8. CASE stop = Len(todo) + 1
  <2>1. \A j \in 1..Len(todo) : ~(j >= stop)
    BY <1>2, <1>8
  <2>2. AllShown'
    BY <1>3, <1>4, <1>7, <2>1 DEF AllShown
  <2> QED
    BY <2>2 DEF RedrawInv
<1>9. CASE /\ stop <= Len(todo) /\ ~Paintable(todo[stop])
           /\ draws' = Append(outer, [todo |-> Rest(stop), range |-> r])
  <2>1. /\ Len(Rest(stop)) = Len(todo) - stop
        /\ \A j \in 1..(Len(todo) - stop) : Rest(stop)[j] = todo[stop + j]
    BY <1>2, <1>9
  <2> HIDE DEF Rest
  <2>2. draws' # <<>> /\ draws'[Len(draws')] = [todo |-> Rest(stop), range |-> r]
    BY <1>9
  <2>3. draws'[Len(draws')].todo = Rest(stop)
    BY <2>2
  <2>4. \A j \in 1..Len(Rest(stop)) : Rest(stop)[j] \in Names(storage)
    <3> TAKE j \in 1..Len(Rest(stop))
    <3>1. stop + j \in 1..Len(todo) /\ Rest(stop)[j] = todo[stop + j]
      BY <1>2, <1>9, <2>1
    <3> QED
      BY <3>1
  <2>5. \A n \in Names(storage) : Paintable(n) =>
          (Shown(n))' \/ \E j \in 1..Len(Rest(stop)) : Rest(stop)[j] = n
    <3> TAKE n \in Names(storage)
    <3> HAVE Paintable(n)
    <3> SUFFICES ASSUME ~(Shown(n))' PROVE \E j \in 1..Len(Rest(stop)) : Rest(stop)[j] = n
      OBVIOUS
    <3>1. PICK j \in 1..Len(todo) : todo[j] = n /\ j >= stop
      BY <1>7
    <3>2. j - stop \in 1..Len(Rest(stop)) /\ Rest(stop)[j - stop] = n
      <4>1. j # stop
        BY <1>9, <3>1
      <4>2. j - stop \in 1..(Len(todo) - stop) /\ stop + (j - stop) = j
        BY <1>2, <3>1, <4>1
      <4> QED
        BY <2>1, <3>1, <4>2
    <3> QED
      BY <3>2
  <2>6. (LeftTo(draws[Len(draws)].todo))'
    BY <1>3, <1>4, <2>3, <2>4, <2>5 DEF LeftTo
  <2> QED
    BY <2>2, <2>6 DEF RedrawInv
<1> QED
  BY <1>1, <1>2, <1>8, <1>9

LEMMA RedrawStep ==
  ASSUME Inv, RedrawInv, [Next]_vars
  PROVE  RedrawInv'
<1>1. CASE DrawGraphs
  <2>1. /\ DrawLoop(AllNames, range, {}, draws)
        /\ UNCHANGED <<storage, xAxis, yAxis, quality>>
    BY <1>1 DEF DrawGraphs
  <2>2. /\ Len(storage) \in Nat /\ range \in Ranges /\ draws \in Seq(Draw)
        /\ \A j \in 1..Len(storage) : storage[j] \in Graph
    BY DEF Inv, TypeOK, Draw
  <2>3. AllNames \in Seq(Name) /\ Len(AllNames) = Len(storage)
        /\ \A j \in 1..Len(storage) : AllNames[j] = storage[j].name
    BY <2>2 DEF AllNames, Graph
  <2>4. /\ \A j \in 1..Len(AllNames) : AllNames[j] \in Names(storage)
        /\ \A n \in Names(storage) : \E j \in 1..Len(AllNames) : AllNames[j] = n
    BY <2>3 DEF Names
  <2> QED
    BY <2>1, <2>2, <2>3, <2>4, LoopShows
<1>2. CASE CloseBox
  <2> DEFINE top == draws[Len(draws)]
             outer == SubSeq(draws, 1, Len(draws) - 1)
  <2>1. /\ draws # <<>> /\ DrawLoop(top.todo, top.range, chart, outer)
        /\ UNCHANGED <<storage, xAxis, yAxis, quality, drawAnyway>>
    BY <1>2 DEF CloseBox
  <2>2. draws \in Seq(Draw) /\ Len(draws) \in Nat /\ Len(draws) \in 1..Len(draws)
    BY <2>1 DEF Inv, TypeOK, Draw
  <2>3. top.todo \in Seq(Name) /\ top.range \in Ranges
    <3>1. top \in Draw
      BY <2>2
    <3> HIDE DEF top
    <3> QED
      BY <3>1 DEF Draw
  <2>4. outer \in Seq(Draw)
    <3>1. 1 \in Int /\ Len(draws) - 1 \in Int /\ \A k \in 1..Len(draws) - 1 : draws[k] \in Draw
      BY <2>2
    <3> QED
      BY <3>1, SubSeqProperties
  <2>5. CASE AllShown
    <3>1. chart \subseteq chart'
      <4> HIDE DEF top, outer
      <4>1. PICK stop \in 1..(Len(top.todo) + 1) :
              chart' = chart \cup {Series(top.todo[j], top.range) : j \in 1..(stop - 1)}
        BY <2>1, <2>3, DrawLoopStops
      <4> QED
        BY <4>1
    <3>2. \A n : (Paintable(n))' <=> Paintable(n)
      BY <2>1 DEF Paintable, Names, GetGraph, HasAxes
    <3>3. \A n : Shown(n) => (Shown(n))'
      BY <2>1, <3>1 DEF Shown, Series
    <3>4. Names(storage)' = Names(storage)
      BY <2>1 DEF Names
    <3>5. AllShown'
      BY <2>5, <3>2, <3>3, <3>4 DEF AllShown
    <3> QED
      BY <3>5 DEF RedrawInv
  <2>6. CASE drawAnyway
    BY <2>1, <2>6 DEF RedrawInv
  <2>7. CASE LeftTo(top.todo)
    <3>1. /\ \A j \in 1..Len(top.todo) : top.todo[j] \in Names(storage)
          /\ \A n \in Names(storage) : Paintable(n) => \/ \E q \in Ranges : Series(n, q) \in chart
                                                       \/ \E j \in 1..Len(top.todo) : top.todo[j] = n
      BY <2>7 DEF LeftTo, Shown
    <3> HIDE DEF top, outer
    <3> QED
      BY <2>1, <2>3, <2>4, <3>1, LoopShows
  <2> QED
    BY <2>5, <2>6, <2>7 DEF RedrawInv
<1>3. CASE UNCHANGED <<storage, xAxis, yAxis, quality, drawAnyway, chart, draws>>
  <2>1. Names(storage)' = Names(storage)
    BY <1>3 DEF Names
  <2>2. \A n : (Paintable(n))' <=> Paintable(n)
    BY <1>3 DEF Paintable, Names, GetGraph, HasAxes
  <2>3. \A n : Shown(n) => (Shown(n))'
    BY <1>3 DEF Shown, Series
  <2>4. AllShown => AllShown'
    BY <2>1, <2>2, <2>3 DEF AllShown
  <2>5. draws' = draws /\ drawAnyway' = drawAnyway
    BY <1>3
  <2>6. LeftTo(draws[Len(draws)].todo) => (LeftTo(draws[Len(draws)].todo))'
    BY <2>1, <2>2, <2>3, <2>5 DEF LeftTo
  <2> QED
    BY <2>4, <2>5, <2>6 DEF RedrawInv
<1>4. CASE drawAnyway' = TRUE
  BY <1>4 DEF RedrawInv
<1>5. CASE UserStep
  BY <1>3, <1>4, <1>5 DEF UserStep, EditTitle, Solve, SelectXAxis, SelectYAxis, DeleteCharts, SetQuality, Zoom
<1>6. CASE \E s \in Solves : Answer(s) \/ AnswerFails(s)
  <2>1. CASE \E s \in Solves : Answer(s)
    BY <1>4, <2>1, AnswerAdds
  <2>2. CASE \E s \in Solves : AnswerFails(s)
    BY <1>3, <2>2 DEF AnswerFails
  <2> QED
    BY <1>6, <2>1, <2>2
<1>7. CASE UNCHANGED vars
  BY <1>3, <1>7 DEF vars
<1> QED
  BY <1>1, <1>2, <1>5, <1>6, <1>7 DEF Next

\* An idle chart shows every graph that has the chosen axes, whatever redraws
\* were entered inside one another and whatever changed while their boxes were
\* open.
THEOREM ChartOfGraphs == Spec => []NoLostRedraw
<1>1. Init => RedrawInv
  BY DEF Init, RedrawInv
<1>2. Inv /\ RedrawInv /\ [Next]_vars => RedrawInv'
  BY RedrawStep
<1>3. RedrawInv => NoLostRedraw
  BY DEF RedrawInv, AllShown, NoLostRedraw, Idle
<1> QED
  BY <1>1, <1>2, <1>3, InvAlways, PTL DEF Spec
-----------------------------------------------------------------------------
\* Where all problems have the same axes no box opens: every graph has the
\* chosen axes.
LEMMA AllPaintable ==
  ASSUME NEW k, AxisCounts = {k}, Inv, NEW n \in Names(storage)
  PROVE  Paintable(n)
<1>1. k \in Nat \ {0} /\ Len(storage) \in Nat /\ \A j \in 1..Len(storage) : storage[j] \in Graph
  BY AxisAssumption DEF Inv, TypeOK
<1>2. PICK j \in 1..Len(storage) : storage[j].name = n
  BY DEF Names
<1>3. \A i \in 1..Len(storage) : storage[i].axes = k
  BY <1>1 DEF Graph
<1>4. GetGraph(n).axes = k
  <2>1. \E g \in {storage[i] : i \in 1..Len(storage)} : g.name = n
    BY <1>2
  <2>2. GetGraph(n) \in {storage[i] : i \in 1..Len(storage)}
    BY <2>1 DEF GetGraph
  <2> QED
    BY <1>3, <2>2
<1>5. storage # <<>>
  BY <1>1, <1>2
<1>6. available = k
  BY <1>1, <1>2, <1>3 DEF Inv, AxesInv, Longest
<1>7. {xAxis, yAxis} \subseteq 1..k
  BY <1>5, <1>6 DEF Inv, AxesInv
<1> QED
  BY <1>4, <1>7 DEF Paintable, HasAxes

RangeInv == /\ draws = <<>>
            /\ ~drawAnyway => \A n \in Names(storage) : Series(n, last) \in chart

LEMMA RangeStep ==
  ASSUME NEW k, AxisCounts = {k}, Inv, RangeInv, [Next]_vars
  PROVE  RangeInv'
<1>1. CASE DrawGraphs
  <2>1. /\ DrawLoop(AllNames, range, {}, draws)
        /\ UNCHANGED <<storage, xAxis, yAxis, quality>>
    BY <1>1 DEF DrawGraphs
  <2>2. Len(storage) \in Nat /\ \A j \in 1..Len(storage) : storage[j] \in Graph
    BY DEF Inv, TypeOK
  <2>3. AllNames \in Seq(Name) /\ Len(AllNames) = Len(storage)
        /\ \A j \in 1..Len(storage) : AllNames[j] = storage[j].name
    BY <2>2 DEF AllNames, Graph
  <2>4. \A j \in 1..Len(AllNames) : AllNames[j] \in Names(storage) /\ Paintable(AllNames[j])
    <3>1. \A j \in 1..Len(AllNames) : AllNames[j] \in Names(storage)
      BY <2>3 DEF Names
    <3> QED
      BY <3>1, AllPaintable
  <2>5. /\ chart' = {Series(AllNames[j], range) : j \in 1..Len(AllNames)}
        /\ last' = range /\ draws' = draws
    <3>1. PICK stop \in 1..(Len(AllNames) + 1) :
            /\ \A j \in 1..(stop - 1) : Paintable(AllNames[j])
            /\ chart' = {} \cup {Series(AllNames[j], range) : j \in 1..(stop - 1)}
            /\ \/ stop = Len(AllNames) + 1 /\ last' = range /\ draws' = draws
               \/ /\ stop <= Len(AllNames) /\ ~Paintable(AllNames[stop]) /\ AllNames[stop] \in Names(storage)
                  /\ draws' = Append(draws, [todo |-> SubSeq(AllNames, stop + 1, Len(AllNames)), range |-> range])
                  /\ last' = last
               \/ /\ stop <= Len(AllNames) /\ AllNames[stop] \notin Names(storage)
                  /\ draws' = draws /\ last' = last
      BY <2>1, <2>3, DrawLoopStops
    <3>2. stop <= Len(AllNames) => stop \in 1..Len(AllNames)
      BY <2>2, <2>3
    <3>3. stop = Len(AllNames) + 1 /\ last' = range /\ draws' = draws
      BY <2>4, <3>1, <3>2
    <3>4. stop - 1 = Len(AllNames)
      BY <2>2, <2>3, <3>3
    <3> QED
      BY <3>1, <3>3, <3>4
  <2>6. \A n \in Names(storage)' : (Series(n, last))' \in chart'
    <3>1. Names(storage)' = {AllNames[j] : j \in 1..Len(AllNames)}
      BY <2>1, <2>3 DEF Names
    <3>2. \A n : (Series(n, last))' = Series(n, range)
      BY <2>1, <2>5 DEF Series
    <3> QED
      BY <2>5, <3>1, <3>2
  <2> QED
    BY <2>5, <2>6 DEF RangeInv
<1>2. CASE CloseBox
  BY <1>2 DEF CloseBox, RangeInv
<1>3. CASE UNCHANGED <<storage, xAxis, yAxis, quality, drawAnyway, chart, draws, last>>
  BY <1>3 DEF RangeInv, Series, Names
<1>4. CASE drawAnyway' = TRUE /\ UNCHANGED draws
  BY <1>4 DEF RangeInv
<1>5. CASE UserStep
  BY <1>3, <1>4, <1>5 DEF UserStep, EditTitle, Solve, SelectXAxis, SelectYAxis, DeleteCharts, SetQuality, Zoom
<1>6. CASE \E s \in Solves : Answer(s) \/ AnswerFails(s)
  <2>1. CASE \E s \in Solves : Answer(s)
    <3>1. drawAnyway' = TRUE /\ UNCHANGED draws
      BY <2>1, AnswerAdds DEF Answer
    <3> QED
      BY <1>4, <3>1
  <2>2. CASE \E s \in Solves : AnswerFails(s)
    BY <1>3, <2>2 DEF AnswerFails
  <2> QED
    BY <1>6, <2>1, <2>2
<1>7. CASE UNCHANGED vars
  BY <1>3, <1>7 DEF vars
<1> QED
  BY <1>1, <1>2, <1>5, <1>6, <1>7 DEF Next

\* If all problems have the same axes, the idle chart also shows every graph cut
\* to the range on the axis: comparing ranges finds every zoom.
THEOREM ChartInRange ==
  ASSUME NEW k, AxisCounts = {k}
  PROVE  Spec => []NoStaleRange
<1>1. Init => RangeInv
  BY DEF Init, RangeInv
<1>2. Inv /\ RangeInv /\ [Next]_vars => RangeInv'
  BY RangeStep
<1>3. RangeInv => NoStaleRange
  BY DEF RangeInv, NoStaleRange, Idle, ShownInRange
<1> QED
  BY <1>1, <1>2, <1>3, InvAlways, PTL DEF Spec
=============================================================================
