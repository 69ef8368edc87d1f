------------------------ MODULE MainWindowViewModel ------------------------
(***************************************************************************)
(* The client's view model (Client/ViewModels/MainWindowViewModel.cs) with *)
(* its GraphStorage and ChartManager: solves in flight, the graphs stored, *)
(* the axes chosen, and the periodic redraw of the chart.                  *)
(*                                                                         *)
(* Everything runs on the UI thread, one handler at a time, but a handler  *)
(* that awaits or opens a message box lets others run in the middle of it: *)
(* the answer of a solve is handled after its await, and DrawGraphs, which *)
(* shows a message box for a graph without the chosen axes, can be entered *)
(* again by the next tick of the timer.  draws is the stack of the redraws *)
(* that stand at such a box.                                               *)
(*                                                                         *)
(* A graph has the axes t, y0, y1, ..: they are the numbers 1..axes.  The  *)
(* visible range of the chart and the data's extent are members of Ranges. *)
(*                                                                         *)
(* Bounds: MaxGraphs stored graphs, MaxBoxes open message boxes.  The code *)
(* has neither: a tick with MaxBoxes boxes open is a step the model leaves *)
(* out, not one the timer does not take.  The safety properties lose only  *)
(* the states beyond it; ChartCatchesUp is stated so as not to rest on it. *)
(***************************************************************************)
EXTENDS Naturals, Sequences, FiniteSets

CONSTANTS
  Solves,     \* requests that can be in flight together
  AxisCounts, \* numbers of axes of the problems a user can choose
  Titles,     \* texts for a graph
  Ranges,     \* visible ranges of the X axis
  Qualities,  \* values of MAX_POINTS_PER_CHART
  MaxGraphs, MaxBoxes

ASSUME AxisAssumption == AxisCounts \cup Ranges \subseteq Nat \ {0}
ASSUME ValuesAssumption ==
  /\ Titles # {} /\ Ranges # {} /\ Qualities # {}
  /\ MaxGraphs \in Nat \ {0} /\ MaxBoxes \in Nat \ {0}

NoAxis == 0
NoRange == 0    \* the first _lastMin, _lastMax

VARIABLES
  solves,     \* the axes of the problem each request in flight is about, or 0
  title,      \* GraphTitle
  storage,    \* the graphs of GraphStorage in the order of their insertion
  available,  \* the length of AvailableAxes
  xAxis, yAxis,  \* SelectedXAxis, SelectedYAxis
  range,      \* Chart.AxisX: MinValue, MaxValue
  quality,    \* MAX_POINTS_PER_CHART
  drawAnyway, \* _draw_anyway
  last,       \* _lastMin, _lastMax
  chart,      \* the series of the chart
  draws       \* redraws waiting at a message box, innermost last

vars == <<solves, title, storage, available, xAxis, yAxis, range, quality,
          drawAnyway, last, chart, draws>>
-----------------------------------------------------------------------------
(* A definition whose comment starts with "Slip:" is not the code but a     *)
(* plausible mistake in it; it takes the place of the definition after it   *)
(* to see that a property fails (see the README).                           *)

Name == (1..MaxGraphs) \X Titles

Names(s) == {s[j].name : j \in 1..Len(s)}

GetGraph(n) == CHOOSE g \in {storage[j] : j \in 1..Len(storage)} : g.name = n

\* Both chosen axes are axes of the graph.
HasAxes(g, x, y) == {x, y} \subseteq 1..g.axes

GraphNameUnnumbered(s, t) == <<1, t>>    \* Slip: the title alone

GraphName(s, t) == <<Len(s) + 1, t>>

\* The longest list of axes of the graphs of s; the lists begin alike.
AllAxes(s) == CHOOSE n \in AxisCounts \cup {0} :
                /\ \A j \in 1..Len(s) : s[j].axes <= n
                /\ n = 0 \/ \E j \in 1..Len(s) : s[j].axes = n

\* LoadAxes: a choice that is no longer offered falls back to the first axes.
LoadAxes(s) ==
  LET n == AllAxes(s)
      x == IF xAxis \in 1..n THEN xAxis ELSE IF n = 0 THEN NoAxis ELSE 1
      y == IF yAxis \in 1..n THEN yAxis ELSE IF n >= 2 THEN 2 ELSE x
  IN  /\ available' = n
      /\ IF n = available THEN UNCHANGED <<xAxis, yAxis>>
         ELSE xAxis' = x /\ yAxis' = y

\* UpdateScale: the range becomes the padded extent of the data that has both
\* axes, and stays as it is when there is none.
UpdateScale(s, x, y) ==
  IF \E j \in 1..Len(s) : HasAxes(s[j], x, y) THEN range' \in Ranges
  ELSE UNCHANGED range
-----------------------------------------------------------------------------
\* A text box or the choice of a method changes the title.
EditTitle(t) ==
  /\ t # title
  /\ title' = t
  /\ UNCHANGED <<solves, storage, available, xAxis, yAxis, range, quality,
                 drawAnyway, last, chart, draws>>

\* Solve, up to the await: the request goes out with the problem chosen now.
Solve(s, n) ==
  /\ solves[s] = 0
  /\ solves' = [solves EXCEPT ![s] = n]
  /\ UNCHANGED <<title, storage, available, xAxis, yAxis, range, quality,
                 drawAnyway, last, chart, draws>>

\* Solve, after the await, with an answer that is a result document.
Answer(s) ==
  /\ solves[s] # 0 /\ Len(storage) < MaxGraphs
  /\ solves' = [solves EXCEPT ![s] = 0]
  /\ LET name == GraphName(storage, title)
     IN  IF name \in Names(storage)    \* AddGraph throws, the catch shows an error
         THEN UNCHANGED <<storage, available, xAxis, yAxis, range, drawAnyway>>
         ELSE /\ storage' = Append(storage, [name |-> name, axes |-> solves[s]])
              /\ LoadAxes(storage')
              /\ UpdateScale(storage', xAxis', yAxis')
              /\ drawAnyway' = TRUE
  /\ UNCHANGED <<title, quality, last, chart, draws>>

\* The same with an error text, or a document that does not parse: the
\* constructor of SimulationResult throws.
AnswerFails(s) ==
  /\ solves[s] # 0
  /\ solves' = [solves EXCEPT ![s] = 0]
  /\ UNCHANGED <<title, storage, available, xAxis, yAxis, range, quality,
                 drawAnyway, last, chart, draws>>

\* The setters of SelectedXAxis and SelectedYAxis, from the combo boxes.
SelectXAxis(x) ==
  /\ x \in 1..available /\ x # xAxis
  /\ xAxis' = x /\ drawAnyway' = TRUE
  /\ UpdateScale(storage, x, yAxis)
  /\ UNCHANGED <<solves, title, storage, available, yAxis, quality, last, chart, draws>>

\* Slip: _draw_anyway is not raised.
SelectYAxisQuietly(y) ==
  /\ y \in 1..available /\ y # yAxis
  /\ yAxis' = y
  /\ UpdateScale(storage, xAxis, y)
  /\ UNCHANGED <<solves, title, storage, available, xAxis, quality, drawAnyway,
                 last, chart, draws>>

SelectYAxis(y) ==
  /\ y \in 1..available /\ y # yAxis
  /\ yAxis' = y /\ drawAnyway' = TRUE
  /\ UpdateScale(storage, xAxis, y)
  /\ UNCHANGED <<solves, title, storage, available, xAxis, quality, last, chart, draws>>

\* Slips: AvailableAxes is left as it was; the choice for X is left.
DeleteChartsKeepsAxes ==
  /\ storage' = <<>> /\ chart' = {}
  /\ xAxis' = NoAxis /\ yAxis' = NoAxis
  /\ drawAnyway' = TRUE
  /\ UNCHANGED <<solves, title, available, range, quality, last, draws>>

DeleteChartsKeepsXAxis ==
  /\ storage' = <<>> /\ chart' = {}
  /\ available' = 0 /\ yAxis' = NoAxis
  /\ drawAnyway' = TRUE
  /\ UNCHANGED <<solves, title, xAxis, range, quality, last, draws>>

\* DeleteChartsCommand; the setters of the axes raise _draw_anyway.
DeleteCharts ==
  /\ storage' = <<>> /\ chart' = {}
  /\ available' = 0 /\ xAxis' = NoAxis /\ yAxis' = NoAxis
  /\ drawAnyway' = TRUE
  /\ UNCHANGED <<solves, title, range, quality, last, draws>>

\* The setter of MAX_POINTS_PER_CHART, from the quality commands.
SetQuality(q) ==
  /\ quality' = q /\ drawAnyway' = TRUE
  /\ UNCHANGED <<solves, title, storage, available, xAxis, yAxis, range, last, chart, draws>>

\* Zoom, the mouse and the text boxes move the axis; the redraw notices by
\* comparing ranges.
Zoom(r) ==
  /\ r # range
  /\ range' = r
  /\ UNCHANGED <<solves, title, storage, available, xAxis, yAxis, quality,
                 drawAnyway, last, chart, draws>>
-----------------------------------------------------------------------------
\* What AddChart shows of a graph: the axes now, the points in the range the
\* redraw computed when it began, thinned out to the quality now.
Series(n, r) == [name |-> n, x |-> xAxis, y |-> yAxis, range |-> r, quality |-> quality]

Paintable(n) == n \in Names(storage) /\ HasAxes(GetGraph(n), xAxis, yAxis)

\* Slip: the loop ends without remembering the range.
DrawLoopForgetsRange(todo, r, base, outer) ==
  LET Stops == {j \in 1..Len(todo) : ~Paintable(todo[j])}
      stop  == IF Stops = {} THEN Len(todo) + 1
               ELSE CHOOSE j \in Stops : \A k \in Stops : j <= k
  IN  /\ chart' = base \cup {Series(todo[j], r) : j \in 1..(stop - 1)}
      /\ draws' = outer
      /\ UNCHANGED last

\* The loop of DrawGraphs over the names todo, on a chart that shows base, under
\* the redraws outer: until a box opens, a graph is gone (GetGraph throws and
\* the timer swallows it), or the end, where the range is remembered.
DrawLoop(todo, r, base, outer) ==
  LET Stops == {j \in 1..Len(todo) : ~Paintable(todo[j])}
      stop  == IF Stops = {} THEN Len(todo) + 1
               ELSE CHOOSE j \in Stops : \A k \in Stops : j <= k
  IN  /\ chart' = base \cup {Series(todo[j], r) : j \in 1..(stop - 1)}
      /\ \/ /\ stop > Len(todo)
            /\ last' = r /\ draws' = outer
         \/ /\ stop <= Len(todo) /\ todo[stop] \in Names(storage)
            /\ draws' = Append(outer, [todo |-> SubSeq(todo, stop + 1, Len(todo)),
                                       range |-> r])
            /\ UNCHANGED last
         \/ /\ stop <= Len(todo) /\ todo[stop] \notin Names(storage)
            /\ draws' = outer
            /\ UNCHANGED last

AllNames == [j \in 1..Len(storage) |-> storage[j].name]

\* DrawGraphs, from the timer: nothing to do while the range is the last one
\* and nobody has raised _draw_anyway.  The first conjunct is the model's bound.
DrawGraphs ==
  /\ Len(draws) < MaxBoxes
  /\ range # last \/ drawAnyway
  /\ drawAnyway' = FALSE
  /\ DrawLoop(AllNames, range, {}, draws)
  /\ UNCHANGED <<solves, title, storage, available, xAxis, yAxis, range, quality>>

\* The user closes the innermost box and its redraw goes on.
CloseBox ==
  /\ draws # <<>>
  /\ LET top == draws[Len(draws)]
     IN  DrawLoop(top.todo, top.range, chart, SubSeq(draws, 1, Len(draws) - 1))
  /\ UNCHANGED <<solves, title, storage, available, xAxis, yAxis, range, quality,
                 drawAnyway>>
-----------------------------------------------------------------------------
\* After the constructor; MainWindow sets the axis to 0..10.
Init ==
  /\ solves = [s \in Solves |-> 0]
  /\ title \in Titles
  /\ storage = <<>> /\ available = 0
  /\ xAxis = NoAxis /\ yAxis = NoAxis
  /\ range \in Ranges
  /\ quality \in Qualities
  /\ drawAnyway = TRUE
  /\ last = NoRange
  /\ chart = {} /\ draws = <<>>

UserStep ==
  \/ \E t \in Titles : EditTitle(t)
  \/ \E s \in Solves, n \in AxisCounts : Solve(s, n)
  \/ \E a \in 1..available : SelectXAxis(a) \/ SelectYAxis(a)
  \/ DeleteCharts
  \/ \E q \in Qualities : SetQuality(q)
  \/ \E r \in Ranges : Zoom(r)

Next == \/ UserStep
        \/ \E s \in Solves : Answer(s) \/ AnswerFails(s)
        \/ DrawGraphs \/ CloseBox

\* The timer ticks again and again, and a user who sees a box closes it.
Fairness == WF_vars(DrawGraphs) /\ WF_vars(CloseBox)

Spec == Init /\ [][Next]_vars /\ Fairness
-----------------------------------------------------------------------------
Graph == [name : Name, axes : AxisCounts]

\* Every variable keeps its type; the list of axes is never longer than a
\* graph's, and no two choices are beyond it.
TypeOK ==
  /\ solves \in [Solves -> AxisCounts \cup {0}]
  /\ title \in Titles
  /\ storage \in Seq(Graph) /\ Len(storage) <= MaxGraphs
  /\ available \in AxisCounts \cup {0}
  /\ {xAxis, yAxis} \subseteq 0..available
  /\ range \in Ranges /\ last \in Ranges \cup {NoRange}
  /\ quality \in Qualities
  /\ drawAnyway \in BOOLEAN
  /\ chart \subseteq [name : Name, x : Nat, y : Nat, range : Ranges, quality : Qualities]
  /\ draws \in Seq([todo : Seq(Name), range : Ranges]) /\ Len(draws) <= MaxBoxes

\* A good answer adds a graph of its own, whatever was answered, renamed or
\* deleted while it was under way: no two solves in flight collide on a name.
AnswersAreKept ==
  [][\A s \in Solves : Answer(s) => Len(storage') = Len(storage) + 1]_vars

\* The axes offered are those of the graphs stored, and both choices are among
\* them as soon as there is a graph - after answers of different problems and
\* deletions in any order.
AxesMatchGraphs ==
  /\ available = AllAxes(storage)
  /\ IF storage = <<>> THEN xAxis = NoAxis /\ yAxis = NoAxis
     ELSE {xAxis, yAxis} \subseteq 1..available

\* A graph is on the chart with the axes and the quality chosen now; and with
\* the range shown now.
Shown(n) == \E r \in Ranges : Series(n, r) \in chart

ShownInRange(n) == Series(n, range) \in chart

\* The next tick would find nothing to do, and no redraw is under way.
Idle == draws = <<>> /\ ~drawAnyway /\ range = last

\* No redraw is lost: an idle chart shows every stored graph that has the
\* chosen axes, with these axes - also after redraws entered inside one another,
\* and whatever was chosen, answered or deleted while their boxes were open.
NoLostRedraw ==
  Idle => \A n \in Names(storage) : Paintable(n) => Shown(n)

\* Where all problems have the same axes, so that no box opens, the idle chart
\* also shows them cut to the range on the axis.  (With boxes it need not: a
\* redraw that ends late remembers the range it began with, which may be the
\* range of now again, and the one inside it has drawn another.)
NoStaleRange ==
  Idle => \A n \in Names(storage) : Paintable(n) => ShownInRange(n)

\* Eventually user and server are quiet.
Quiet == <>[][DrawGraphs \/ CloseBox]_vars

\* The graphs a redraw opens a box for.
Lacking == {n \in Names(storage) : ~Paintable(n)}

\* Once user and server are quiet, the boxes end and every graph is shown, if at
\* most one graph lacks the chosen axes, or if the boxes stay below some number.
\* With two such graphs they need not: every redraw opens two boxes and stores
\* its range only after the second, so that a tick while the first is open begins
\* a newer redraw with two boxes of its own, and so on without end.
ChartCatchesUp ==
  Quiet /\ (<>[](Cardinality(Lacking) <= 1) \/ <>[](Len(draws) < MaxBoxes)) =>
    <>[](Idle /\ \A n \in Names(storage) : Paintable(n) => Shown(n))
=============================================================================
