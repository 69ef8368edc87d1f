------------------------- MODULE SolveRequestProofs -------------------------
(***************************************************************************)
(* Proofs about SolveRequest, for all values typed, limits and numbers of   *)
(* edits, and for bodies that differ from a form's in up to two places: the *)
(* types, and the three properties of the run `requests'.                   *)
(*                                                                         *)
(* The argument follows a body through the thread.  Every read that does    *)
(* not throw establishes one part of Solvable and every read that fails     *)
(* refutes one (Passed), and the body of a form, which is frozen once it is *)
(* sent, is known to pass them all: its dictionary has the keys the server  *)
(* asks for, because the form keeps the keys of its equation (FormKept).    *)
(***************************************************************************)
EXTENDS SolveRequest, TLAPS, FiniteSetTheorems

\* The keys of the form for each equation, in the order of the table.
TableKeys(e) ==
  CASE e = "VanDerPol" -> <<"mu", "p", "y0_init", "y1_init", "t0", "t1", "tolerance">>
    [] e = "ForcedOscillator" ->
         <<"omega", "gamma", "F", "omega_k", "y0_init", "y1_init", "t0", "t1", "tolerance">>
    [] e = "RobertsonSystem" ->
         <<"k1", "k2", "k3", "y0_init", "y1_init", "y2_init", "t0", "t1", "tolerance">>

\* Editing and choosing keep the keys of the chosen equation.
FormKept ==
  /\ equation \in Equations /\ method \in SolutionMethods
  /\ flags \subseteq OfferedFlags /\ edits \in 0..MaxEdits
  /\ parameters \in Seq([key : FormKeys, value : Int])
  /\ Len(parameters) = Len(TableKeys(equation))
  /\ \A n \in 1..Len(parameters) : parameters[n].key = TableKeys(equation)[n]

\* A body of the form is what the form still says, and the form is valid.
BodyKept ==
  /\ IsBody(body)
  /\ pc = "form" => ~body.own /\ y0 = <<>>
  /\ body.own => body = TaskData /\ ValidateParameters

ConditionsRead ==
  /\ y0 \in Seq(Int) /\ Len(y0) = Cardinality({n \in 1..3 : Has(ConditionKey[n])})
  /\ body.own => y0 = [n \in 1..Dimension(equation) |-> ValueOf(ConditionKey[n])]

\* What the thread knows of the body at each of its labels.
Passed ==
  /\ pc \in {"form", "parse", "times", "load", "conditions", "task", "dispatch", "done"}
  /\ pc # "done" => answer = "none"
  /\ pc \in {"times", "load", "conditions", "task", "dispatch"} => body.Equation # "" /\ body.Method # ""
  /\ pc \in {"load", "conditions", "task", "dispatch"} => \A k \in {"t0", "t1", "tolerance"} : Has(k)
  /\ pc \in {"conditions", "task", "dispatch"} => \A k \in DOMAIN body.Parameters : IsNumber(k)
  /\ pc \in {"task", "dispatch"} => ConditionsRead
  /\ pc = "dispatch" => body.Equation \in Equations

\* The inductive invariant.
RequestInv ==
  /\ FormKept /\ BodyKept /\ Passed
  /\ answer \in {"none", "solving", "400", "500", "undefined"}
  /\ y0 \in Seq(Int)
  /\ FormIsUnderstood /\ SolvesTheFormsProblem /\ SolvesExactlyTheSolvable
-----------------------------------------------------------------------------
(* The form.                                                               *)

LEMMA ShortTuples ==
  ASSUME NEW S
  PROVE  /\ \A a, b, c \in S : <<a, b, c>> \in Seq(S)
         /\ \A a, b, c, d \in S : <<a, b, c, d>> \in Seq(S)
         /\ \A a, b, c, d, f, g \in S : <<a, b, c, d, f, g>> \in Seq(S)
OBVIOUS

\* The table of an equation has these keys, and numbers as its values.
LEMMA TableOfAnEquation ==
  ASSUME NEW e \in Equations
  PROVE  /\ UpdateEquationFormula(e) \in Seq([key : FormKeys, value : Int])
         /\ Len(UpdateEquationFormula(e)) = Len(TableKeys(e))
         /\ \A n \in 1..Len(TableKeys(e)) : UpdateEquationFormula(e)[n].key = TableKeys(e)[n]
<1> DEFINE U == UpdateEquationFormula(e)
<1>a. /\ Len(SpanParameters) = 3
      /\ SpanParameters[1].key = "t0"
      /\ SpanParameters[2].key = "t1"
      /\ SpanParameters[3].key = "tolerance"
  BY DEF SpanParameters, Entry
<1>b. SpanParameters \in Seq([key : FormKeys, value : Int])
  <2>1. {Entry("t0", 0), Entry("t1", 2), Entry("tolerance", 1)} \subseteq [key : FormKeys, value : Int]
    BY DEF Entry, FormKeys
  <2> QED BY <2>1, ShortTuples DEF SpanParameters
<1>c. ASSUME EquationParameters(e) \in Seq([key : FormKeys, value : Int])
      PROVE  /\ U \in Seq([key : FormKeys, value : Int])
             /\ Len(U) = Len(EquationParameters(e)) + 3
             /\ \A n \in 1..Len(EquationParameters(e)) + 3 :
                  U[n] = IF n <= Len(EquationParameters(e)) THEN EquationParameters(e)[n]
                         ELSE SpanParameters[n - Len(EquationParameters(e))]
  <2> DEFINE s == EquationParameters(e)
             t == SpanParameters
  <2>1. U = s \o t
    BY DEF UpdateEquationFormula
  <2>2. ASSUME NEW R, s \in Seq(R), t \in Seq(R)
        PROVE  s \o t \in Seq(R) /\ Len(s \o t) = Len(s) + Len(t)
               /\ \A n \in 1..Len(s) + Len(t) : (s \o t)[n] = IF n <= Len(s) THEN s[n] ELSE t[n - Len(s)]
    <3> HIDE DEF s, t
    <3> QED BY <2>2
  <2> HIDE DEF U
  <2> QED BY <1>a, <1>b, <1>c, <2>1, <2>2
<1> HIDE DEF U
<1>1. CASE e = "VanDerPol"
  <2>1. /\ Len(EquationParameters(e)) = 4
        /\ EquationParameters(e)[1].key = "mu"
        /\ EquationParameters(e)[2].key = "p"
        /\ EquationParameters(e)[3].key = "y0_init"
        /\ EquationParameters(e)[4].key = "y1_init"
    BY <1>1 DEF EquationParameters, Entry
  <2>2. EquationParameters(e) \in Seq([key : FormKeys, value : Int])
    <3>1. {Entry("mu", 2), Entry("p", 1), Entry("y0_init", 2), Entry("y1_init", 0)}
            \subseteq [key : FormKeys, value : Int]
      BY DEF Entry, FormKeys
    <3> QED BY <1>1, <3>1, ShortTuples DEF EquationParameters
  <2>3. /\ Len(TableKeys(e)) = 7
        /\ TableKeys(e)[1] = "mu"
        /\ TableKeys(e)[2] = "p"
        /\ TableKeys(e)[3] = "y0_init"
        /\ TableKeys(e)[4] = "y1_init"
        /\ TableKeys(e)[5] = "t0"
        /\ TableKeys(e)[6] = "t1"
        /\ TableKeys(e)[7] = "tolerance"
    BY <1>1 DEF TableKeys
  <2>4. Len(U) = 7 /\ U \in Seq([key : FormKeys, value : Int])
    BY <1>c, <2>1, <2>2
  <2>5. /\ U[1] = EquationParameters(e)[1]
        /\ U[2] = EquationParameters(e)[2]
        /\ U[3] = EquationParameters(e)[3]
        /\ U[4] = EquationParameters(e)[4]
        /\ U[5] = SpanParameters[1]
        /\ U[6] = SpanParameters[2]
        /\ U[7] = SpanParameters[3]
    BY <1>c, <2>1, <2>2
  <2>6. \A n \in 1..7 : n = 1 \/ n = 2 \/ n = 3 \/ n = 4 \/ n = 5 \/ n = 6 \/ n = 7
    OBVIOUS
  <2>7. \A n \in 1..7 : U[n].key = TableKeys(e)[n]
    BY <1>a, <2>1, <2>3, <2>5, <2>6
  <2> QED BY <2>3, <2>4, <2>7 DEF U
<1>2. CASE e = "ForcedOscillator"
  <2>1. /\ Len(EquationParameters(e)) = 6
        /\ EquationParameters(e)[1].key = "omega"
        /\ EquationParameters(e)[2].key = "gamma"
        /\ EquationParameters(e)[3].key = "F"
        /\ EquationParameters(e)[4].key = "omega_k"
        /\ EquationParameters(e)[5].key = "y0_init"
        /\ EquationParameters(e)[6].key = "y1_init"
    BY <1>2 DEF EquationParameters, Entry
  <2>2. EquationParameters(e) \in Seq([key : FormKeys, value : Int])
    <3>1. {Entry("omega", 2), Entry("gamma", 1), Entry("F", 1), Entry("omega_k", 1),
           Entry("y0_init", 1), Entry("y1_init", 0)}
            \subseteq [key : FormKeys, value : Int]
      BY DEF Entry, FormKeys
    <3> QED BY <1>2, <3>1, ShortTuples DEF EquationParameters
  <2>3. /\ Len(TableKeys(e)) = 9
        /\ TableKeys(e)[1] = "omega"
        /\ TableKeys(e)[2] = "gamma"
        /\ TableKeys(e)[3] = "F"
        /\ TableKeys(e)[4] = "omega_k"
        /\ TableKeys(e)[5] = "y0_init"
        /\ TableKeys(e)[6] = "y1_init"
        /\ TableKeys(e)[7] = "t0"
        /\ TableKeys(e)[8] = "t1"
        /\ TableKeys(e)[9] = "tolerance"
    BY <1>2 DEF TableKeys
  <2>4. Len(U) = 9 /\ U \in Seq([key : FormKeys, value : Int])
    BY <1>c, <2>1, <2>2
  <2>5. /\ U[1] = EquationParameters(e)[1]
        /\ U[2] = EquationParameters(e)[2]
        /\ U[3] = EquationParameters(e)[3]
        /\ U[4] = EquationParameters(e)[4]
        /\ U[5] = EquationParameters(e)[5]
        /\ U[6] = EquationParameters(e)[6]
        /\ U[7] = SpanParameters[1]
        /\ U[8] = SpanParameters[2]
        /\ U[9] = SpanParameters[3]
    BY <1>c, <2>1, <2>2
  <2>6. \A n \in 1..9 : n = 1 \/ n = 2 \/ n = 3 \/ n = 4 \/ n = 5 \/ n = 6 \/ n = 7 \/ n = 8 \/ n = 9
    OBVIOUS
  <2>7. \A n \in 1..9 : U[n].key = TableKeys(e)[n]
    BY <1>a, <2>1, <2>3, <2>5, <2>6
  <2> QED BY <2>3, <2>4, <2>7 DEF U
<1>3. CASE e = "RobertsonSystem"
  <2>1. /\ Len(EquationParameters(e)) = 6
        /\ EquationParameters(e)[1].key = "k1"
        /\ EquationParameters(e)[2].key = "k2"
        /\ EquationParameters(e)[3].key = "k3"
        /\ EquationParameters(e)[4].key = "y0_init"
        /\ EquationParameters(e)[5].key = "y1_init"
        /\ EquationParameters(e)[6].key = "y2_init"
    BY <1>3 DEF EquationParameters, Entry
  <2>2. EquationParameters(e) \in Seq([key : FormKeys, value : Int])
    <3>1. {Entry("k1", 1), Entry("k2", 2), Entry("k3", 2), Entry("y0_init", 1),
           Entry("y1_init", 0), Entry("y2_init", 0)}
            \subseteq [key : FormKeys, value : Int]
      BY DEF Entry, FormKeys
    <3> QED BY <1>3, <3>1, ShortTuples DEF EquationParameters
  <2>3. /\ Len(TableKeys(e)) = 9
        /\ TableKeys(e)[1] = "k1"
        /\ TableKeys(e)[2] = "k2"
        /\ TableKeys(e)[3] = "k3"
        /\ TableKeys(e)[4] = "y0_init"
        /\ TableKeys(e)[5] = "y1_init"
        /\ TableKeys(e)[6] = "y2_init"
        /\ TableKeys(e)[7] = "t0"
        /\ TableKeys(e)[8] = "t1"
        /\ TableKeys(e)[9] = "tolerance"
    BY <1>3 DEF TableKeys
  <2>4. Len(U) = 9 /\ U \in Seq([key : FormKeys, value : Int])
    BY <1>c, <2>1, <2>2
  <2>5. /\ U[1] = EquationParameters(e)[1]
        /\ U[2] = EquationParameters(e)[2]
        /\ U[3] = EquationParameters(e)[3]
        /\ U[4] = EquationParameters(e)[4]
        /\ U[5] = EquationParameters(e)[5]
        /\ U[6] = EquationParameters(e)[6]
        /\ U[7] = SpanParameters[1]
        /\ U[8] = SpanParameters[2]
        /\ U[9] = SpanParameters[3]
    BY <1>c, <2>1, <2>2
  <2>6. \A n \in 1..9 : n = 1 \/ n = 2 \/ n = 3 \/ n = 4 \/ n = 5 \/ n = 6 \/ n = 7 \/ n = 8 \/ n = 9
    OBVIOUS
  <2>7. \A n \in 1..9 : U[n].key = TableKeys(e)[n]
    BY <1>a, <2>1, <2>3, <2>5, <2>6
  <2> QED BY <2>3, <2>4, <2>7 DEF U
<1> QED BY <1>1, <1>2, <1>3 DEF Equations

\* No key stands twice in a table, and which keys there are.
LEMMA TableKeysDistinct ==
  ASSUME NEW e \in Equations
  PROVE  /\ Len(TableKeys(e)) \in Nat
         /\ \A m, n \in 1..Len(TableKeys(e)) : TableKeys(e)[m] = TableKeys(e)[n] => m = n
         /\ {TableKeys(e)[n] : n \in 1..Len(TableKeys(e))} \subseteq FormKeys
         /\ \A k \in TaskReads(e) \cup {"t0", "t1", "tolerance"}
                      \cup {ConditionKey[c] : c \in 1..Dimension(e)} :
              \E n \in 1..Len(TableKeys(e)) : TableKeys(e)[n] = k
         /\ \A c \in 1..3 :
              (\E n \in 1..Len(TableKeys(e)) : TableKeys(e)[n] = ConditionKey[c]) => c <= Dimension(e)
<1>1. CASE e = "VanDerPol"
  <2>1. /\ Len(TableKeys(e)) = 7
        /\ TableKeys(e)[1] = "mu"
        /\ TableKeys(e)[2] = "p"
        /\ TableKeys(e)[3] = "y0_init"
        /\ TableKeys(e)[4] = "y1_init"
        /\ TableKeys(e)[5] = "t0"
        /\ TableKeys(e)[6] = "t1"
        /\ TableKeys(e)[7] = "tolerance"
    BY <1>1 DEF TableKeys
  <2>2. \A n \in 1..7 : n = 1 \/ n = 2 \/ n = 3 \/ n = 4 \/ n = 5 \/ n = 6 \/ n = 7
    OBVIOUS
  <2>3. {TableKeys(e)[n] : n \in 1..7} =
          {"mu", "p", "y0_init", "y1_init", "t0", "t1", "tolerance"}
    BY <2>1, <2>2
  <2>4. \A m, n \in 1..7 : TableKeys(e)[m] = TableKeys(e)[n] => m = n
    BY <2>1, <2>2
  <2>5. /\ Dimension(e) = 2
        /\ ConditionKey[1] = "y0_init" /\ ConditionKey[2] = "y1_init" /\ ConditionKey[3] = "y2_init"
    BY <1>1 DEF Dimension, ConditionKey
  <2>6. TaskReads(e) = {"mu", "p"}
    BY <1>1 DEF TaskReads
  <2>7. \A c \in 1..3 : c = 1 \/ c = 2 \/ c = 3
    OBVIOUS
  <2>8. \A k \in TaskReads(e) \cup {"t0", "t1", "tolerance"} \cup {ConditionKey[c] : c \in 1..Dimension(e)} :
          k \in {TableKeys(e)[n] : n \in 1..7}
    BY <2>3, <2>5, <2>6, <2>7
  <2>9. \A c \in 1..3 : ConditionKey[c] \in {TableKeys(e)[n] : n \in 1..7} => c <= Dimension(e)
    BY <2>3, <2>5, <2>7
  <2>10. {TableKeys(e)[n] : n \in 1..7} \subseteq FormKeys
    BY <2>3 DEF FormKeys
  <2> QED BY <2>1, <2>4, <2>8, <2>9, <2>10
<1>2. CASE e = "ForcedOscillator"
  <2>1. /\ Len(TableKeys(e)) = 9
        /\ TableKeys(e)[1] = "omega"
        /\ TableKeys(e)[2] = "gamma"
        /\ TableKeys(e)[3] = "F"
        /\ TableKeys(e)[4] = "omega_k"
        /\ TableKeys(e)[5] = "y0_init"
        /\ TableKeys(e)[6] = "y1_init"
        /\ TableKeys(e)[7] = "t0"
        /\ TableKeys(e)[8] = "t1"
        /\ TableKeys(e)[9] = "tolerance"
    BY <1>2 DEF TableKeys
  <2>2. \A n \in 1..9 : n = 1 \/ n = 2 \/ n = 3 \/ n = 4 \/ n = 5 \/ n = 6 \/ n = 7 \/ n = 8 \/ n = 9
    OBVIOUS
  <2>3. {TableKeys(e)[n] : n \in 1..9} =
          {"omega", "gamma", "F", "omega_k", "y0_init", "y1_init", "t0", "t1", "tolerance"}
    BY <2>1, <2>2
  <2>4. \A m, n \in 1..9 : TableKeys(e)[m] = TableKeys(e)[n] => m = n
    BY <2>1, <2>2
  <2>5. /\ Dimension(e) = 2
        /\ ConditionKey[1] = "y0_init" /\ ConditionKey[2] = "y1_init" /\ ConditionKey[3] = "y2_init"
    BY <1>2 DEF Dimension, ConditionKey
  <2>6. TaskReads(e) = {"omega", "gamma", "F", "omega_k"}
    BY <1>2 DEF TaskReads
  <2>7. \A c \in 1..3 : c = 1 \/ c = 2 \/ c = 3
    OBVIOUS
  <2>8. \A k \in TaskReads(e) \cup {"t0", "t1", "tolerance"} \cup {ConditionKey[c] : c \in 1..Dimension(e)} :
          k \in {TableKeys(e)[n] : n \in 1..9}
    BY <2>3, <2>5, <2>6, <2>7
  <2>9. \A c \in 1..3 : ConditionKey[c] \in {TableKeys(e)[n] : n \in 1..9} => c <= Dimension(e)
    BY <2>3, <2>5, <2>7
  <2>10. {TableKeys(e)[n] : n \in 1..9} \subseteq FormKeys
    BY <2>3 DEF FormKeys
  <2> QED BY <2>1, <2>4, <2>8, <2>9, <2>10
<1>3. CASE e = "RobertsonSystem"
  <2>1. /\ Len(TableKeys(e)) = 9
        /\ TableKeys(e)[1] = "k1"
        /\ TableKeys(e)[2] = "k2"
        /\ TableKeys(e)[3] = "k3"
        /\ TableKeys(e)[4] = "y0_init"
        /\ TableKeys(e)[5] = "y1_init"
        /\ TableKeys(e)[6] = "y2_init"
        /\ TableKeys(e)[7] = "t0"
        /\ TableKeys(e)[8] = "t1"
        /\ TableKeys(e)[9] = "tolerance"
    BY <1>3 DEF TableKeys
  <2>2. \A n \in 1..9 : n = 1 \/ n = 2 \/ n = 3 \/ n = 4 \/ n = 5 \/ n = 6 \/ n = 7 \/ n = 8 \/ n = 9
    OBVIOUS
  <2>3. {TableKeys(e)[n] : n \in 1..9} =
          {"k1", "k2", "k3", "y0_init", "y1_init", "y2_init", "t0", "t1", "tolerance"}
    BY <2>1, <2>2
  <2>4. \A m, n \in 1..9 : TableKeys(e)[m] = TableKeys(e)[n] => m = n
    BY <2>1, <2>2
  <2>5. /\ Dimension(e) = 3
        /\ ConditionKey[1] = "y0_init" /\ ConditionKey[2] = "y1_init" /\ ConditionKey[3] = "y2_init"
    BY <1>3 DEF Dimension, ConditionKey
  <2>6. TaskReads(e) = {"k1", "k2", "k3"}
    BY <1>3 DEF TaskReads
  <2>7. \A c \in 1..3 : c = 1 \/ c = 2 \/ c = 3
    OBVIOUS
  <2>8. \A k \in TaskReads(e) \cup {"t0", "t1", "tolerance"} \cup {ConditionKey[c] : c \in 1..Dimension(e)} :
          k \in {TableKeys(e)[n] : n \in 1..9}
    BY <2>3, <2>5, <2>6, <2>7
  <2>9. \A c \in 1..3 : ConditionKey[c] \in {TableKeys(e)[n] : n \in 1..9} => c <= Dimension(e)
    BY <2>3, <2>5, <2>7
  <2>10. {TableKeys(e)[n] : n \in 1..9} \subseteq FormKeys
    BY <2>3 DEF FormKeys
  <2> QED BY <2>1, <2>4, <2>8, <2>9, <2>10
<1> QED BY <1>1, <1>2, <1>3 DEF Equations

LEMMA DomainOfTheForm ==
  ASSUME FormKept
  PROVE  /\ Len(parameters) \in Nat /\ DOMAIN parameters = 1..Len(parameters)
         /\ \A n \in 1..Len(parameters) : parameters[n] \in [key : FormKeys, value : Int]
<1>1. ASSUME NEW S, NEW q \in Seq(S)
      PROVE  Len(q) \in Nat /\ DOMAIN q = 1..Len(q) /\ \A n \in 1..Len(q) : q[n] \in S
  OBVIOUS
<1> QED BY <1>1 DEF FormKept

LEMMA FormInit == Init => FormKept
<1> SUFFICES ASSUME Init PROVE FormKept
  OBVIOUS
<1>1. equation \in Equations /\ method \in SolutionMethods
  BY DEF Init, Equations, SolutionMethods
<1>2. parameters = UpdateEquationFormula(equation)
  BY DEF Init, UpdateEquationFormula
<1>3. edits \in 0..MaxEdits /\ flags \subseteq OfferedFlags
  BY BoundsAssumption DEF Init
<1> QED BY <1>1, <1>2, <1>3, TableOfAnEquation DEF FormKept

\* Choosing another equation replaces the table; an edit changes a value only.
LEMMA FormStep ==
  ASSUME FormKept, [Next]_vars
  PROVE  FormKept'
<1>1. CASE UNCHANGED formVars
  BY <1>1 DEF FormKept, formVars
<1>2. ASSUME NEW e \in Equations, SelectEquation(e)
      PROVE  FormKept'
  BY <1>2, TableOfAnEquation DEF FormKept, SelectEquation
<1>3. ASSUME NEW m \in SolutionMethods, SelectMethod(m)
      PROVE  FormKept'
  BY <1>3 DEF FormKept, SelectMethod
<1>4. ASSUME NEW f \in Flags, ToggleFlag(f)
      PROVE  FormKept'
  BY <1>4, BoundsAssumption DEF FormKept, ToggleFlag
<1>5. ASSUME NEW n \in DOMAIN parameters, NEW v \in Values, EditValue(n, v)
      PROVE  FormKept'
  <2>1. n \in 1..Len(parameters) /\ v \in Int
    BY <1>5, ValuesAssumption DEF FormKept
  <2>2. \A i \in 1..Len(parameters) :
          parameters[i] \in [key : FormKeys, value : Int]
    BY DomainOfTheForm
  <2>3. parameters' = [parameters EXCEPT ![n].value = v]
    BY <1>5 DEF EditValue
  <2>4. /\ parameters' \in Seq([key : FormKeys, value : Int])
        /\ Len(parameters') = Len(parameters)
        /\ \A i \in 1..Len(parameters) : parameters'[i].key = parameters[i].key
    <3>1. DOMAIN parameters = 1..Len(parameters) /\ Len(parameters) \in Nat
      BY DomainOfTheForm
    <3>2. [parameters[n] EXCEPT !.value = v] \in [key : FormKeys, value : Int]
          /\ [parameters[n] EXCEPT !.value = v].key = parameters[n].key
      BY <2>1, <2>2
    <3>3. parameters' = [i \in 1..Len(parameters) |->
                           IF i = n THEN [parameters[n] EXCEPT !.value = v] ELSE parameters[i]]
      BY <2>1, <2>3, <3>1
    <3> HIDE DEF FormKept
    <3> QED BY <2>1, <2>2, <3>1, <3>2, <3>3
  <2>5. edits' \in 0..MaxEdits
    <3>1. edits' = edits + 1 /\ edits < MaxEdits
      BY <1>5 DEF EditValue
    <3> QED BY <3>1, BoundsAssumption DEF FormKept
  <2> QED BY <1>5, <2>4, <2>5 DEF FormKept, EditValue
<1> QED
  BY <1>1, <1>2, <1>3, <1>4, <1>5
  DEF Next, Client, vars, Solve, OtherClientSends, Parse, ReadTimes, LoadParameters,
      ExtractInitialConditions, GetTask, Dispatch

\* The value of a key of the form is the value that stands next to it.
LEMMA ValueOfAKey ==
  ASSUME FormKept, NEW n \in 1..Len(parameters)
  PROVE  ValueOf(TableKeys(equation)[n]) = parameters[n].value
<1> DEFINE k == TableKeys(equation)[n]
<1>1. {i \in 1..Len(parameters) : parameters[i].key = k} = {n}
  BY TableKeysDistinct DEF FormKept
<1>2. Min({n}) = n
  BY DEF Min, FormKept
<1>3. SelectInSeq(parameters, LAMBDA p : p.key = k) = n
  BY <1>1, <1>2 DEF SelectInSeq
<1> QED BY <1>3 DEF ValueOf

LEMMA KeysOfTheForm ==
  ASSUME FormKept
  PROVE  /\ KeysOf(parameters) = {TableKeys(equation)[n] : n \in 1..Len(TableKeys(equation))}
         /\ KeysOf(parameters) \subseteq FormKeys
         /\ \A k \in KeysOf(parameters) : ValueOf(k) \in Int
<1>1. DOMAIN parameters = 1..Len(parameters)
  BY DomainOfTheForm
<1>2. KeysOf(parameters) = {TableKeys(equation)[n] : n \in 1..Len(TableKeys(equation))}
  BY <1>1 DEF KeysOf, FormKept
<1>3. \A n \in 1..Len(parameters) : parameters[n].value \in Int
  BY DomainOfTheForm
<1> QED BY <1>2, <1>3, TableKeysDistinct, ValueOfAKey DEF FormKept

\* Solve does not throw, whatever was chosen and typed.
LEMMA FormIsAddable == ASSUME FormKept PROVE Addable
<1>1. KeysOf(parameters) \cap ({"I", "J", "K"} \cup OfferedFlags \cup DisabledFlags) = {}
  BY KeysOfTheForm DEF FormKeys, OfferedFlags, DisabledFlags
<1>2. \A m, n \in DOMAIN parameters : parameters[m].key = parameters[n].key => m = n
  BY TableKeysDistinct DEF FormKept
<1> QED BY <1>1, <1>2 DEF Addable

-----------------------------------------------------------------------------
(* The initial conditions.                                                 *)

LEMMA UpTo == ASSUME NEW d \in Nat PROVE IsFiniteSet(1..d) /\ Cardinality(1..d) = d
BY FS_Interval

\* A set of indices: how many there are, and a sequence that has them in order.
LEMMA SortedIndices ==
  ASSUME NEW S \in SUBSET (1..3)
  PROVE  /\ IsFiniteSet(S) /\ Cardinality(S) \in Nat
         /\ \E q \in SetToSeqs(S) : \A m, n \in DOMAIN q : m < n => q[m] < q[n]
<1>1. IsFiniteSet(S) /\ Cardinality(S) \in Nat
  <2>1. IsFiniteSet(1..3)
    <3>1. 3 \in Nat
      OBVIOUS
    <3> QED BY <3>1, UpTo
  <2> QED BY <2>1, FS_Subset, FS_CardinalityType
<1>2. /\ Cardinality({}) = 0 /\ \A a : Cardinality({a}) = 1
      /\ \A a, b : a # b => Cardinality({a, b}) = 2
      /\ \A a, b, c : a # b /\ a # c /\ b # c => Cardinality({a, b, c}) = 3
  <2>1. Cardinality({}) = 0 /\ \A a : IsFiniteSet({a}) /\ Cardinality({a}) = 1
    BY FS_EmptySet, FS_Singleton
  <2>2. ASSUME NEW a, NEW b
        PROVE  IsFiniteSet({a, b}) /\ (a # b => Cardinality({a, b}) = 2)
    <3>1. {a, b} = {a} \cup {b}
      OBVIOUS
    <3>2. /\ IsFiniteSet({a} \cup {b})
          /\ Cardinality({a} \cup {b}) = IF b \in {a} THEN Cardinality({a}) ELSE Cardinality({a}) + 1
      BY <2>1, FS_AddElement
    <3> QED BY <2>1, <3>1, <3>2
  <2>3. ASSUME NEW a, NEW b, NEW c, a # b /\ a # c /\ b # c
        PROVE  Cardinality({a, b, c}) = 3
    <3>1. {a, b, c} = {a, b} \cup {c}
      OBVIOUS
    <3>2. IsFiniteSet({a, b}) /\ Cardinality({a, b}) = 2
      BY <2>2, <2>3
    <3>3. Cardinality({a, b} \cup {c}) = IF c \in {a, b} THEN Cardinality({a, b}) ELSE Cardinality({a, b}) + 1
      BY <3>2, FS_AddElement
    <3> QED BY <2>3, <3>1, <3>2, <3>3
  <2> QED BY <2>1, <2>2, <2>3
<1>3. S \in {{}, {1}, {2}, {3}, {1, 2}, {1, 3}, {2, 3}, {1, 2, 3}}
  <2>1. 1..3 = {1, 2, 3}
    OBVIOUS
  <2> QED BY <2>1
<1>4. CASE S = {}
  <2>1. <<>> \in SetToSeqs(S)
    BY <1>2, <1>4 DEF SetToSeqs
  <2> QED BY <1>1, <2>1
<1>5. ASSUME NEW a \in 1..3, S = {a}
      PROVE  \E q \in SetToSeqs(S) : \A m, n \in DOMAIN q : m < n => q[m] < q[n]
  <2>1. <<a>> \in [1..1 -> S] /\ Cardinality(S) = 1
    <3>1. Cardinality(S) = 1
      BY <1>2, <1>5
    <3> QED BY <1>5, <3>1
  <2>2. <<a>> \in SetToSeqs(S) /\ DOMAIN <<a>> = 1..1
    BY <2>1 DEF SetToSeqs
  <2> QED BY <2>2
<1>6. ASSUME NEW a \in 1..3, NEW b \in 1..3, a < b, S = {a, b}
      PROVE  \E q \in SetToSeqs(S) : \A m, n \in DOMAIN q : m < n => q[m] < q[n]
  <2> DEFINE q == <<a, b>>
  <2>1. q \in [1..2 -> S] /\ q[1] = a /\ q[2] = b /\ Cardinality(S) = 2 /\ a # b
    <3>1. a # b
      BY <1>6
    <3>2. Cardinality(S) = 2
      BY <1>2, <1>6, <3>1, Zenon
    <3> QED BY <1>6, <3>1, <3>2
  <2> HIDE DEF q
  <2>2. q \in SetToSeqs(S) /\ DOMAIN q = 1..2
    BY <2>1 DEF SetToSeqs
  <2> QED BY <1>6, <2>1, <2>2
<1>7. ASSUME NEW a \in 1..3, NEW b \in 1..3, NEW c \in 1..3, a < b, b < c, S = {a, b, c}
      PROVE  \E q \in SetToSeqs(S) : \A m, n \in DOMAIN q : m < n => q[m] < q[n]
  <2> DEFINE q == <<a, b, c>>
  <2>1. q \in [1..3 -> S] /\ q[1] = a /\ q[2] = b /\ q[3] = c /\ Cardinality(S) = 3
    <3>1. a # b /\ a # c /\ b # c
      BY <1>7
    <3>2. Cardinality(S) = 3
      <4>1. Cardinality({a, b, c}) = 3
        BY <1>2, <3>1, Zenon
      <4> QED BY <1>7, <4>1
    <3> QED BY <1>7, <3>2
  <2> HIDE DEF q
  <2>2. q \in SetToSeqs(S) /\ DOMAIN q = 1..3
    BY <1>7, <2>1 DEF SetToSeqs
  <2> QED BY <1>7, <2>1, <2>2
<1> QED BY <1>1, <1>3, <1>4, <1>5, <1>6, <1>7

\* An order of the keys is a permutation of them; sorting it leaves as many.
LEMMA SortedConditions ==
  ASSUME NEW S \in SUBSET (1..3), NEW order \in SetToSeqs(S)
  PROVE  /\ order = <<>> <=> S = {}
         /\ \E q \in SetToSeqs(S) :
              /\ \A m, n \in DOMAIN q : m < n => q[m] < q[n]
              /\ Conditions(order) = [n \in 1..Cardinality(S) |-> body.Parameters[ConditionKey[q[n]]]]
<1>1. IsFiniteSet(S) /\ Cardinality(S) \in Nat
  BY SortedIndices
<1>2. order \in Injection(1..Cardinality(S), S)
  BY DEF SetToSeqs, Injection, IsInjective
<1>3. order \in Surjection(1..Cardinality(S), S)
  <2>1. Cardinality(1..Cardinality(S)) = Cardinality(S)
    BY <1>1, FS_Interval
  <2> QED BY <1>1, <1>2, <2>1, FS_Injection
<1>4. Range(order) = S /\ DOMAIN order = 1..Cardinality(S)
  BY <1>3 DEF Surjection, Range
<1>5. order = <<>> <=> S = {}
  <2>1. S = {} <=> Cardinality(S) = 0
    BY <1>1, FS_EmptySet
  <2>2. Cardinality(S) = 0 => order = <<>>
    BY <1>2 DEF Injection
  <2>3. order = <<>> => DOMAIN order = {}
    OBVIOUS
  <2> QED BY <1>1, <1>4, <2>1, <2>2, <2>3
<1> DEFINE q == CHOOSE p \in SetToSeqs(S) : \A m, n \in DOMAIN p : m < n => p[m] < p[n]
<1>6. q \in SetToSeqs(S) /\ \A m, n \in DOMAIN q : m < n => q[m] < q[n]
  BY SortedIndices
<1>7. DOMAIN q = 1..Cardinality(S)
  BY <1>6 DEF SetToSeqs
<1>8. Conditions(order) = [n \in DOMAIN q |-> body.Parameters[ConditionKey[q[n]]]]
  BY <1>4 DEF Conditions
<1> QED BY <1>5, <1>6, <1>7, <1>8

\* The one order of all indices up to d.
LEMMA InOrder ==
  ASSUME NEW d \in {2, 3}, NEW q \in SetToSeqs(1..d), \A m, n \in DOMAIN q : m < n => q[m] < q[n]
  PROVE  \A n \in 1..d : q[n] = n
<1>1. Cardinality(1..d) = d
  BY UpTo
<1>2. q \in [1..d -> 1..d]
  BY <1>1 DEF SetToSeqs
<1>3. CASE d = 2
  <2>1. q[1] \in 1..2 /\ q[2] \in 1..2 /\ q[1] < q[2]
    BY <1>2, <1>3
  <2> QED BY <1>3, <2>1
<1>4. CASE d = 3
  <2>1. q[1] \in 1..3 /\ q[2] \in 1..3 /\ q[3] \in 1..3 /\ q[1] < q[2] /\ q[2] < q[3]
    BY <1>2, <1>4
  <2> QED BY <1>4, <2>1
<1> QED BY <1>3, <1>4

-----------------------------------------------------------------------------
(* The bodies.                                                             *)

\* The dictionary of a form is all the server asks for, under the same names.
LEMMA FormsDictionary ==
  ASSUME FormKept
  PROVE  /\ IsBody(TaskData)
         /\ \A k \in DOMAIN ToDictionary : ToDictionary[k] \in Int
         /\ {"t0", "t1", "tolerance", "I", "J", "K"} \cup OfferedFlags \cup TaskReads(equation)
              \subseteq DOMAIN ToDictionary
         /\ {n \in 1..3 : ConditionKey[n] \in DOMAIN ToDictionary} = 1..Dimension(equation)
         /\ \A k \in {"t0", "t1"} \cup {ConditionKey[n] : n \in 1..Dimension(equation)} :
              ToDictionary[k] = ValueOf(k)
         /\ \A f \in OfferedFlags : ToDictionary[f] = IF f \in flags THEN 1 ELSE 0
<1> DEFINE Extra == {"I", "J", "K"} \cup OfferedFlags \cup DisabledFlags
<1>1. DOMAIN ToDictionary = KeysOf(parameters) \cup Extra
  BY DEF ToDictionary
<1>2. \A k \in KeysOf(parameters) : ToDictionary[k] = ValueOf(k) /\ ValueOf(k) \in Int
  BY KeysOfTheForm DEF ToDictionary
<1>3. KeysOf(parameters) \cap Extra = {}
  BY FormIsAddable DEF Addable
<1>4. \A k \in Extra : ToDictionary[k] = IF k \in flags THEN 1 ELSE 0
  BY <1>1, <1>3 DEF ToDictionary
<1>5. equation \in Equations /\ method \in SolutionMethods
  BY DEF FormKept
<1>6. /\ TaskReads(equation) \cup {"t0", "t1", "tolerance"} \subseteq KeysOf(parameters)
      /\ \A n \in 1..3 : ConditionKey[n] \in KeysOf(parameters) <=> n \in 1..Dimension(equation)
      /\ Dimension(equation) \in {2, 3}
  <2>1. Dimension(equation) \in {2, 3}
    BY DEF Dimension
  <2>2. 1..Dimension(equation) \subseteq 1..3
    BY <2>1
  <2>3. \A k : k \in KeysOf(parameters) <=> \E n \in 1..Len(TableKeys(equation)) : TableKeys(equation)[n] = k
    BY KeysOfTheForm
  <2>4. TaskReads(equation) \cup {"t0", "t1", "tolerance"} \subseteq KeysOf(parameters)
    BY <1>5, <2>3, TableKeysDistinct
  <2>5. \A n \in 1..Dimension(equation) : ConditionKey[n] \in KeysOf(parameters)
    BY <1>5, <2>3, TableKeysDistinct
  <2>6. \A n \in 1..3 : ConditionKey[n] \in KeysOf(parameters) => n <= Dimension(equation)
    BY <1>5, <2>3, TableKeysDistinct
  <2> QED BY <2>1, <2>2, <2>4, <2>5, <2>6
<1>7. \A n \in 1..3 : ConditionKey[n] \notin Extra
  <2>1. \A n \in 1..3 : ConditionKey[n] \in {"y0_init", "y1_init", "y2_init"}
    <3>1. ConditionKey[1] = "y0_init" /\ ConditionKey[2] = "y1_init" /\ ConditionKey[3] = "y2_init"
      BY DEF ConditionKey
    <3>2. \A n \in 1..3 : n = 1 \/ n = 2 \/ n = 3
      OBVIOUS
    <3> QED BY <3>1, <3>2
  <2>2. {"y0_init", "y1_init", "y2_init"} \cap Extra = {}
    BY DEF OfferedFlags, DisabledFlags
  <2> HIDE DEF Extra
  <2> QED BY <2>1, <2>2
<1>8. \A k \in DOMAIN ToDictionary : ToDictionary[k] \in Int
  <2> HIDE DEF Extra
  <2> QED BY <1>1, <1>2, <1>4
<1>9. IsBody(TaskData)
  <2>1. ToDictionary \in [DOMAIN ToDictionary -> Int \cup {NotANumber}]
    <3>1. ToDictionary = [k \in DOMAIN ToDictionary |-> ToDictionary[k]]
      BY DEF ToDictionary
    <3> QED BY <1>8, <3>1
  <2> QED BY <1>5, <2>1 DEF IsBody, TaskData
<1>10. {n \in 1..3 : ConditionKey[n] \in DOMAIN ToDictionary} = 1..Dimension(equation)
  <2>1. 1..Dimension(equation) \subseteq 1..3
    BY <1>6
  <2> HIDE DEF Extra
  <2> QED BY <1>1, <1>6, <1>7, <2>1
<1>11. {"t0", "t1", "tolerance", "I", "J", "K"} \cup OfferedFlags \cup TaskReads(equation)
         \subseteq DOMAIN ToDictionary
  BY <1>1, <1>6
<1>12. \A k \in {"t0", "t1"} \cup {ConditionKey[n] : n \in 1..Dimension(equation)} :
         ToDictionary[k] = ValueOf(k)
  <2>1. 1..Dimension(equation) \subseteq 1..3
    BY <1>6
  <2> QED BY <1>2, <1>6, <2>1
<1> QED BY <1>4, <1>8, <1>9, <1>10, <1>11, <1>12

\* A form can be solved unless it chooses DISPS and no scheme.
LEMMA FormIsSolvable ==
  ASSUME FormKept
  PROVE  Solvable(TaskData) <=> ~(method = "DISPS" /\ flags = {})
<1>1. /\ TaskData.Equation = equation /\ TaskData.Method = method /\ TaskData.Parameters = ToDictionary
      /\ equation \in Equations /\ method \in SolutionMethods /\ flags \subseteq OfferedFlags
  BY DEF TaskData, FormKept
<1>2. \A k \in DOMAIN ToDictionary : ToDictionary[k] # NotANumber
  BY FormsDictionary, NotANumberAssumption
<1>3. Cardinality({n \in 1..3 : ConditionKey[n] \in DOMAIN ToDictionary}) = Dimension(equation)
  <2>1. Dimension(equation) \in Nat
    BY DEF Dimension
  <2> QED BY <2>1, UpTo, FormsDictionary
<1>4. (\E f \in OfferedFlags : f \in DOMAIN ToDictionary /\ ToDictionary[f] = 1) <=> flags # {}
  BY <1>1, FormsDictionary
<1> QED BY <1>1, <1>2, <1>3, <1>4, FormsDictionary DEF Solvable

\* Whatever another client changes in a body leaves a body.
LEMMA VariantIsABody ==
  ASSUME NEW b, IsBody(b), NEW v \in Variants(b)
  PROVE  IsBody(v)
<1> DEFINE P == b.Parameters
<1>1. /\ b.Equation \in Equations \cup {"", "Lorenz"} /\ b.Method \in SolutionMethods \cup {"", "Adams"}
      /\ P \in [DOMAIN P -> Int \cup {NotANumber}] /\ b.own \in BOOLEAN
      /\ b = [Equation |-> b.Equation, Method |-> b.Method, Parameters |-> P, own |-> b.own]
  BY DEF IsBody
<1>2. ASSUME NEW Q, Q \in [DOMAIN Q -> Int \cup {NotANumber}],
             v = [b EXCEPT !.Parameters = Q]
      PROVE  IsBody(v)
  BY <1>1, <1>2 DEF IsBody
<1>3. ASSUME NEW D, v = [b EXCEPT !.Parameters = [j \in DOMAIN P \ D |-> P[j]]]
      PROVE  IsBody(v)
  BY <1>1, <1>2, <1>3
<1>4. ASSUME NEW k, v = [b EXCEPT !.Parameters = [j \in DOMAIN P |-> IF j = k THEN NotANumber ELSE P[j]]]
      PROVE  IsBody(v)
  BY <1>1, <1>2, <1>4
<1>5. ASSUME v = [b EXCEPT !.Parameters = [j \in DOMAIN P \cup {"y2_init"} |->
                                             IF j \in DOMAIN P THEN P[j] ELSE 0]]
      PROVE  IsBody(v)
  <2> DEFINE Q == [j \in DOMAIN P \cup {"y2_init"} |-> IF j \in DOMAIN P THEN P[j] ELSE 0]
  <2>1. \A j \in DOMAIN P : P[j] \in Int \cup {NotANumber}
    BY <1>1
  <2>2. Q \in [DOMAIN Q -> Int \cup {NotANumber}]
    BY <2>1
  <2> HIDE DEF Q
  <2> QED BY <1>2, <1>5, <2>2 DEF Q
<1>6. ASSUME NEW e \in {"", "Lorenz"}, v = [b EXCEPT !.Equation = e]
      PROVE  IsBody(v)
  BY <1>1, <1>6 DEF IsBody
<1>7. ASSUME NEW m \in {"", "Adams"}, v = [b EXCEPT !.Method = m]
      PROVE  IsBody(v)
  BY <1>1, <1>7 DEF IsBody
<1> DEFINE Without(D) == [b EXCEPT !.Parameters = [j \in DOMAIN P \ D |-> P[j]]]
           Bad(k) == [b EXCEPT !.Parameters = [j \in DOMAIN P |-> IF j = k THEN NotANumber ELSE P[j]]]
           More == [b EXCEPT !.Parameters = [j \in DOMAIN P \cup {"y2_init"} |->
                                               IF j \in DOMAIN P THEN P[j] ELSE 0]]
           Renamed(e) == [b EXCEPT !.Equation = e]
           Other(m) == [b EXCEPT !.Method = m]
           None == {"y0_init", "y1_init", "y2_init"}
<1>8. Variants(b) = {Without({k}) : k \in DOMAIN P} \cup {Bad(k) : k \in DOMAIN P} \cup {More}
                    \cup {Without(None)} \cup {Renamed(e) : e \in {"", "Lorenz"}} \cup {Other(m) : m \in {"", "Adams"}}
  BY Zenon DEF Variants
<1>9. (\A D : v = Without(D) => IsBody(v)) /\ (\A k : v = Bad(k) => IsBody(v)) /\ (v = More => IsBody(v))
  BY <1>3, <1>4, <1>5
<1>10. /\ \A e \in {"", "Lorenz"} : v = Renamed(e) => IsBody(v)
       /\ \A m \in {"", "Adams"} : v = Other(m) => IsBody(v)
  BY <1>6, <1>7
<1> HIDE DEF Without, Bad, More, Renamed, Other, None
<1> QED BY <1>8, <1>9, <1>10

-----------------------------------------------------------------------------
(* The thread.                                                             *)

\* A form's body passes every read.
LEMMA OwnBodyPasses ==
  ASSUME FormKept, BodyKept, body.own
  PROVE  /\ body.Equation = equation /\ equation \in Equations
         /\ body.Method = method /\ method \in SolutionMethods
         /\ \A k \in {"t0", "t1", "tolerance", "I", "J", "K"} : Has(k)
         /\ \A k \in DOMAIN body.Parameters : IsNumber(k)
         /\ {n \in 1..3 : Has(ConditionKey[n])} = 1..Dimension(equation)
         /\ \A n \in 1..Dimension(equation) : body.Parameters[ConditionKey[n]] = ValueOf(ConditionKey[n])
         /\ body.Parameters["t0"] < body.Parameters["t1"]
         /\ TaskReads(body.Equation) \subseteq DOMAIN body.Parameters
         /\ Solvable(body) <=> ~(body.Method = "DISPS" /\ flags = {})
<1>1. body = TaskData /\ ValidateParameters
  BY DEF BodyKept
<1>2. body.Equation = equation /\ body.Method = method /\ body.Parameters = ToDictionary
  BY <1>1 DEF TaskData
<1>3. equation \in Equations /\ method \in SolutionMethods
  BY DEF FormKept
<1>4. \A k : Has(k) <=> k \in DOMAIN ToDictionary
  BY <1>2 DEF Has
<1>5. \A k \in DOMAIN body.Parameters : IsNumber(k)
  BY <1>2, FormsDictionary, NotANumberAssumption DEF IsNumber
<1>6. body.Parameters["t0"] < body.Parameters["t1"]
  BY <1>1, <1>2, FormsDictionary DEF ValidateParameters
<1>7. Solvable(body) <=> ~(body.Method = "DISPS" /\ flags = {})
  BY <1>1, <1>2, FormIsSolvable
<1> QED BY <1>2, <1>3, <1>4, <1>5, <1>6, <1>7, FormsDictionary

\* While the thread reads, neither the form nor the body changes.
LEMMA ThreadFrame ==
  ASSUME FormKept, BodyKept, UNCHANGED <<formVars, body>>, pc # "form", pc' # "form"
  PROVE  /\ FormKept' /\ BodyKept'
         /\ Solvable(body)' <=> Solvable(body)
         /\ \A k : ValueOf(k)' = ValueOf(k)
<1>1. equation' = equation /\ method' = method /\ parameters' = parameters /\ flags' = flags
      /\ edits' = edits /\ body' = body
  BY DEF formVars
<1>2. \A k : ValueOf(k)' = ValueOf(k)
  BY <1>1 DEF ValueOf, SelectInSeq
<1>3. TaskData' = TaskData
  BY <1>1, <1>2 DEF TaskData, ToDictionary, KeysOf
<1>4. ValidateParameters' <=> ValidateParameters
  BY <1>1, <1>2 DEF ValidateParameters
<1>5. FormKept'
  BY <1>1 DEF FormKept
<1>6. BodyKept'
  BY <1>1, <1>3, <1>4 DEF BodyKept, IsBody
<1>7. Solvable(body)' <=> Solvable(body)
  BY <1>1 DEF Solvable
<1> QED BY <1>2, <1>5, <1>6, <1>7

\* The thread goes on: nothing is answered yet.
LEMMA GoingOn ==
  ASSUME RequestInv, UNCHANGED <<formVars, body>>, pc # "form", NEW l, l \notin {"form", "done"},
         Continues(l), pc # "done", y0' \in Seq(Int), Passed'
  PROVE  RequestInv'
<1>1. pc' = l /\ answer' = "none" /\ FormKept' /\ BodyKept'
  BY ThreadFrame DEF Continues, RequestInv, Passed
<1>2. (FormIsUnderstood /\ SolvesTheFormsProblem /\ SolvesExactlyTheSolvable)'
  BY <1>1 DEF FormIsUnderstood, SolvesTheFormsProblem, SolvesExactlyTheSolvable
<1> QED BY <1>1, <1>2 DEF RequestInv

\* The thread answers: the answer is right for the body.
LEMMA Answering ==
  ASSUME RequestInv, UNCHANGED <<formVars, body>>, pc # "form", y0' = y0,
         NEW a \in {"solving", "400", "500", "undefined"}, Answers(a),
         a = "solving" <=> Solvable(body),
         body.own => a \in {"solving", "500"},
         a = "solving" => ConditionsRead
  PROVE  RequestInv'
<1>1. pc' = "done" /\ answer' = a /\ FormKept' /\ BodyKept' /\ (Solvable(body)' <=> Solvable(body))
      /\ \A k : ValueOf(k)' = ValueOf(k)
  BY ThreadFrame DEF Answers, RequestInv
<1>2. body' = body /\ equation' = equation /\ flags' = flags /\ method' = method
  BY DEF formVars
<1>3. FormKept /\ BodyKept
  BY DEF RequestInv
<1>4. FormIsUnderstood'
  <2>1. body.own => IF body.Method = "DISPS" /\ flags = {} THEN a = "500"
                    ELSE a = "solving" /\ TaskReads(body.Equation) \subseteq DOMAIN body.Parameters
    BY <1>3, OwnBodyPasses
  <2> QED BY <1>1, <1>2, <2>1 DEF FormIsUnderstood
<1>5. SolvesTheFormsProblem'
  <2>1. a = "solving" /\ body.own => /\ y0 = [n \in 1..Dimension(equation) |-> ValueOf(ConditionKey[n])]
                                     /\ body.Parameters["t0"] < body.Parameters["t1"]
    BY <1>3, OwnBodyPasses DEF ConditionsRead
  <2> QED BY <1>1, <1>2, <2>1 DEF SolvesTheFormsProblem
<1>6. SolvesExactlyTheSolvable'
  BY <1>1 DEF SolvesExactlyTheSolvable
<1>7. Passed' /\ y0' \in Seq(Int)
  BY <1>1 DEF Passed, RequestInv
<1> QED BY <1>1, <1>4, <1>5, <1>6, <1>7 DEF RequestInv

LEMMA ParseKeeps == ASSUME RequestInv, Parse PROVE RequestInv'
<1>1. UNCHANGED <<formVars, body>> /\ y0' = y0 /\ pc = "parse" /\ FormKept /\ BodyKept
  BY DEF Parse, RequestInv
<1>2. CASE body.Equation # "" /\ body.Method # ""
  <2>1. Continues("times")
    BY <1>2 DEF Parse
  <2>2. Passed'
    BY <1>1, <1>2, <2>1 DEF Continues, RequestInv, Passed
  <2> QED BY <1>1, <2>1, <2>2, GoingOn DEF RequestInv
<1>3. CASE ~(body.Equation # "" /\ body.Method # "")
  <2>1. Answers("400")
    BY <1>3 DEF Parse
  <2>2. ~Solvable(body)
    BY <1>3 DEF Solvable, Equations, SolutionMethods
  <2>3. ~body.own
    BY <1>1, <1>3, OwnBodyPasses DEF Equations, SolutionMethods
  <2> QED BY <1>1, <2>1, <2>2, <2>3, Answering
<1> QED BY <1>2, <1>3

\* The first of the three keys that cannot be read, if there is one.
LEMMA FirstUnreadable ==
  LET n == SelectInSeq(SpanKeys, LAMBDA k : ~Has(k) \/ ~IsNumber(k))
  IN  /\ n = 0 => \A k \in {"t0", "t1", "tolerance"} : Has(k) /\ IsNumber(k)
      /\ n # 0 => SpanKeys[n] \in {"t0", "t1", "tolerance"} /\ (~Has(SpanKeys[n]) \/ ~IsNumber(SpanKeys[n]))
<1> DEFINE I == {i \in 1..Len(SpanKeys) : ~Has(SpanKeys[i]) \/ ~IsNumber(SpanKeys[i])}
           n == SelectInSeq(SpanKeys, LAMBDA k : ~Has(k) \/ ~IsNumber(k))
<1>1. n = IF I # {} THEN Min(I) ELSE 0
  BY DEF SelectInSeq
<1>2. Len(SpanKeys) = 3 /\ SpanKeys[1] = "t0" /\ SpanKeys[2] = "t1" /\ SpanKeys[3] = "tolerance"
  BY DEF SpanKeys
<1>3. ASSUME I # {} PROVE Min(I) \in I
  <2>1. \E x \in I : \A y \in I : x <= y
    <3>1. I \subseteq {1, 2, 3}
      BY <1>2
    <3> HIDE DEF I
    <3>2. CASE 1 \in I
      BY <3>1, <3>2
    <3>3. CASE 1 \notin I /\ 2 \in I
      BY <3>1, <3>3
    <3>4. CASE 1 \notin I /\ 2 \notin I
      <4>1. PICK x : x \in I
        BY <1>3
      <4>2. x = 3 /\ \A y \in I : y = 3
        BY <3>1, <3>4, <4>1
      <4> QED BY <4>1, <4>2
    <3> QED BY <3>2, <3>3, <3>4
  <2> HIDE DEF I
  <2> QED BY <2>1 DEF Min
<1>4. ASSUME I = {} PROVE \A k \in {"t0", "t1", "tolerance"} : Has(k) /\ IsNumber(k)
  <2>1. \A i \in 1..3 : Has(SpanKeys[i]) /\ IsNumber(SpanKeys[i])
    BY <1>2, <1>4
  <2> QED BY <1>2, <2>1
<1>5. \A i \in I : i # 0 /\ SpanKeys[i] \in {"t0", "t1", "tolerance"} /\ (~Has(SpanKeys[i]) \/ ~IsNumber(SpanKeys[i]))
  <2>1. \A i \in 1..3 : i = 1 \/ i = 2 \/ i = 3
    OBVIOUS
  <2> QED BY <1>2, <2>1
<1> HIDE DEF I, n
<1>6. /\ n = 0 => \A k \in {"t0", "t1", "tolerance"} : Has(k) /\ IsNumber(k)
      /\ n # 0 => SpanKeys[n] \in {"t0", "t1", "tolerance"} /\ (~Has(SpanKeys[n]) \/ ~IsNumber(SpanKeys[n]))
  BY <1>1, <1>3, <1>4, <1>5
<1> QED BY <1>6 DEF n

LEMMA ReadTimesKeeps == ASSUME RequestInv, ReadTimes PROVE RequestInv'
<1> DEFINE n == SelectInSeq(SpanKeys, LAMBDA k : ~Has(k) \/ ~IsNumber(k))
<1>1. UNCHANGED <<formVars, body>> /\ y0' = y0 /\ pc = "times" /\ FormKept /\ BodyKept
  BY DEF ReadTimes, RequestInv
<1>2. CASE n = 0
  <2>1. Continues("load")
    BY <1>2 DEF ReadTimes
  <2>2. \A k \in {"t0", "t1", "tolerance"} : Has(k)
    BY <1>2, FirstUnreadable
  <2>3. Passed'
    BY <1>1, <2>1, <2>2 DEF Continues, RequestInv, Passed, Has
  <2> QED BY <1>1, <2>1, <2>3, GoingOn DEF RequestInv
<1>3. CASE n # 0
  <2>1. Answers(IF Has(SpanKeys[n]) THEN "500" ELSE "undefined")
    BY <1>3 DEF ReadTimes
  <2>2. SpanKeys[n] \in {"t0", "t1", "tolerance"} /\ (~Has(SpanKeys[n]) \/ ~IsNumber(SpanKeys[n]))
    BY <1>3, FirstUnreadable
  <2> HIDE DEF n
  <2>3. ~Solvable(body)
    BY <2>2 DEF Solvable, Has, IsNumber
  <2>4. ~body.own
    BY <1>1, <2>2, OwnBodyPasses DEF Has
  <2> QED BY <1>1, <2>1, <2>3, <2>4, Answering
<1> QED BY <1>2, <1>3

LEMMA LoadParametersKeeps == ASSUME RequestInv, LoadParameters PROVE RequestInv'
<1>1. UNCHANGED <<formVars, body>> /\ y0' = y0 /\ pc = "load" /\ FormKept /\ BodyKept
  BY DEF LoadParameters, RequestInv
<1>2. CASE \A k \in DOMAIN body.Parameters : IsNumber(k)
  <2>1. Continues("conditions")
    BY <1>2 DEF LoadParameters
  <2>2. Passed'
    BY <1>1, <1>2, <2>1 DEF Continues, RequestInv, Passed, Has, IsNumber
  <2> QED BY <1>1, <2>1, <2>2, GoingOn DEF RequestInv
<1>3. CASE ~\A k \in DOMAIN body.Parameters : IsNumber(k)
  <2>1. Answers("500")
    BY <1>3 DEF LoadParameters
  <2>2. ~Solvable(body)
    BY <1>3 DEF Solvable, IsNumber
  <2>3. ~body.own
    BY <1>1, <1>3, OwnBodyPasses
  <2> QED BY <1>1, <2>1, <2>2, <2>3, Answering
<1> QED BY <1>2, <1>3

LEMMA ExtractInitialConditionsKeeps ==
  ASSUME RequestInv, ExtractInitialConditions
  PROVE  RequestInv'
<1> DEFINE S == {n \in 1..3 : Has(ConditionKey[n])}
<1>1. UNCHANGED <<formVars, body>> /\ pc = "conditions" /\ FormKept /\ BodyKept
  BY DEF ExtractInitialConditions, RequestInv
<1>2. PICK order \in SetToSeqs(S) :
        IF order = <<>> THEN Answers("500") /\ UNCHANGED y0
        ELSE Continues("task") /\ y0' = Conditions(order)
  BY DEF ExtractInitialConditions
<1>3. S \in SUBSET (1..3)
  OBVIOUS
<1>4. CASE order = <<>>
  <2>1. Answers("500") /\ y0' = y0 /\ S = {}
    BY <1>2, <1>3, <1>4, SortedConditions
  <2>2. ~Solvable(body)
    <3>1. Cardinality({n \in 1..3 : ConditionKey[n] \in DOMAIN body.Parameters}) = 0
      BY <2>1, FS_EmptySet DEF Has
    <3>2. Dimension(body.Equation) # 0
      BY DEF Dimension
    <3> QED BY <3>1, <3>2 DEF Solvable
  <2>3. ~body.own
    BY <1>1, <2>1, OwnBodyPasses DEF Dimension
  <2> QED BY <1>1, <2>1, <2>2, <2>3, Answering
<1>5. CASE order # <<>>
  <2>1. Continues("task") /\ y0' = Conditions(order)
    BY <1>2, <1>5
  <2>2. PICK q \in SetToSeqs(S) :
          /\ \A m, n \in DOMAIN q : m < n => q[m] < q[n]
          /\ Conditions(order) = [n \in 1..Cardinality(S) |-> body.Parameters[ConditionKey[q[n]]]]
    BY <1>2, <1>3, SortedConditions
  <2>3. Cardinality(S) \in Nat
    BY <1>3, SortedIndices
  <2>4. \A n \in 1..Cardinality(S) : body.Parameters[ConditionKey[q[n]]] \in Int
    <3>1. \A k \in DOMAIN body.Parameters : body.Parameters[k] \in Int
      BY <1>1 DEF RequestInv, Passed, BodyKept, IsBody, IsNumber
    <3>2. \A n \in 1..Cardinality(S) : q[n] \in S
      BY DEF SetToSeqs
    <3> QED BY <3>1, <3>2 DEF Has
  <2>5. y0' \in Seq(Int) /\ Len(y0') = Cardinality(S)
    <3> DEFINE c == Cardinality(S)
               F(n) == body.Parameters[ConditionKey[q[n]]]
    <3>1. y0' = [n \in 1..c |-> F(n)] /\ c \in Nat /\ \A n \in 1..c : F(n) \in Int
      BY <2>1, <2>2, <2>3, <2>4
    <3> HIDE DEF c, F
    <3>2. y0' \in Seq(Int) /\ Len(y0') = c
      BY <3>1
    <3> QED BY <3>2 DEF c
  <2>6. body.own => y0' = [n \in 1..Dimension(equation) |-> ValueOf(ConditionKey[n])]
    <3>1. SUFFICES ASSUME body.own
                   PROVE  y0' = [n \in 1..Dimension(equation) |-> ValueOf(ConditionKey[n])]
      OBVIOUS
    <3>2. Dimension(equation) \in {2, 3}
      BY DEF Dimension
    <3>3. S = 1..Dimension(equation) /\ Cardinality(S) = Dimension(equation)
      BY <1>1, <3>1, <3>2, OwnBodyPasses, UpTo
    <3>4. \A n \in 1..Dimension(equation) : q[n] = n
      <4>1. q \in SetToSeqs(1..Dimension(equation))
        BY <3>3
      <4> QED BY <2>2, <3>2, <4>1, InOrder
    <3>5. \A n \in 1..Dimension(equation) : body.Parameters[ConditionKey[n]] = ValueOf(ConditionKey[n])
      BY <1>1, <3>1, OwnBodyPasses
    <3> HIDE DEF S
    <3> QED BY <2>1, <2>2, <3>3, <3>4, <3>5
  <2>7. \A k : ValueOf(k)' = ValueOf(k)
    BY <1>1, <2>1, ThreadFrame DEF Continues
  <2>8. body' = body /\ equation' = equation
    BY <1>1 DEF formVars
  <2>9. ConditionsRead'
    BY <2>5, <2>6, <2>7, <2>8 DEF ConditionsRead, Has
  <2>10. Passed'
    BY <1>1, <2>1, <2>8, <2>9 DEF Continues, RequestInv, Passed, Has, IsNumber
  <2> QED BY <1>1, <2>1, <2>5, <2>10, GoingOn
<1> QED BY <1>4, <1>5

LEMMA GetTaskKeeps == ASSUME RequestInv, GetTask PROVE RequestInv'
<1>1. UNCHANGED <<formVars, body>> /\ y0' = y0 /\ pc = "task" /\ FormKept /\ BodyKept
  BY DEF GetTask, RequestInv
<1>2. CASE body.Equation \in Equations
  <2>1. Continues("dispatch")
    BY <1>2 DEF GetTask
  <2>2. \A k : ValueOf(k)' = ValueOf(k)
    BY <1>1, <2>1, ThreadFrame DEF Continues
  <2>3. body' = body /\ equation' = equation
    BY <1>1 DEF formVars
  <2>4. ConditionsRead'
    BY <1>1, <2>2, <2>3 DEF RequestInv, Passed, ConditionsRead, Has
  <2>5. Passed'
    BY <1>1, <1>2, <2>1, <2>3, <2>4 DEF Continues, RequestInv, Passed, Has, IsNumber
  <2> QED BY <1>1, <2>1, <2>5, GoingOn DEF RequestInv
<1>3. CASE body.Equation \notin Equations
  <2>1. Answers("500") /\ ~Solvable(body)
    BY <1>3 DEF GetTask, Solvable
  <2>2. ~body.own
    BY <1>1, <1>3, OwnBodyPasses
  <2> QED BY <1>1, <2>1, <2>2, Answering
<1> QED BY <1>2, <1>3

\* The solver is started for a body that meets all of Solvable, and only then.
LEMMA DispatchKeeps == ASSUME RequestInv, Dispatch PROVE RequestInv'
<1> DEFINE S == {n \in 1..3 : Has(ConditionKey[n])}
           Scheme == \E f \in OfferedFlags : f \in DOMAIN body.Parameters /\ body.Parameters[f] = 1
           Chosen == {"I", "J", "K"} \subseteq DOMAIN body.Parameters
<1>1. UNCHANGED <<formVars, body>> /\ y0' = y0 /\ pc = "dispatch" /\ FormKept /\ BodyKept
  BY DEF Dispatch, RequestInv
<1>2. /\ body.Equation \in Equations /\ ConditionsRead /\ Len(y0) = Cardinality(S)
      /\ \A k \in DOMAIN body.Parameters : body.Parameters[k] # NotANumber
      /\ {"t0", "t1", "tolerance"} \subseteq DOMAIN body.Parameters
  BY <1>1 DEF RequestInv, Passed, ConditionsRead, Has, IsNumber
<1>3. S = {n \in 1..3 : ConditionKey[n] \in DOMAIN body.Parameters}
  BY DEF Has
<1>4. Solvable(body) <=> /\ body.Method \in SolutionMethods
                         /\ Len(y0) = Dimension(body.Equation)
                         /\ body.Method = "DISPF" => Chosen
                         /\ body.Method = "DISPS" => Scheme
  <2> HIDE DEF S, Scheme, Chosen
  <2>1. Len(y0) = Cardinality({n \in 1..3 : ConditionKey[n] \in DOMAIN body.Parameters})
    BY <1>2, <1>3
  <2> QED BY <1>2, <2>1 DEF Solvable, Scheme, Chosen
<1>5. body.own => /\ body.Method \in SolutionMethods /\ Chosen
                  /\ Len(y0) = Dimension(body.Equation)
                  /\ Solvable(body) <=> ~(body.Method = "DISPS" /\ flags = {})
  <2>1. SUFFICES ASSUME body.own
                 PROVE  /\ body.Method \in SolutionMethods /\ Chosen
                        /\ Len(y0) = Dimension(body.Equation)
                        /\ Solvable(body) <=> ~(body.Method = "DISPS" /\ flags = {})
    OBVIOUS
  <2>2. /\ body.Method \in SolutionMethods /\ body.Equation = equation
        /\ \A k \in {"t0", "t1", "tolerance", "I", "J", "K"} : Has(k)
        /\ S = 1..Dimension(equation)
        /\ Solvable(body) <=> ~(body.Method = "DISPS" /\ flags = {})
    BY <1>1, <2>1, OwnBodyPasses
  <2>3. Dimension(equation) \in Nat
    BY DEF Dimension
  <2>4. Len(y0) = Dimension(body.Equation)
    BY <1>2, <2>2, <2>3, UpTo
  <2> QED BY <2>2, <2>4 DEF Has
<1>6. CASE body.Method \notin SolutionMethods
  <2>1. Answers("500")
    BY <1>6 DEF Dispatch
  <2> QED BY <1>1, <1>4, <1>5, <1>6, <2>1, Answering
<1>7. CASE body.Method \in SolutionMethods /\ body.Method = "DISPF" /\ ~Chosen
  <2>1. Answers("undefined")
    BY <1>7 DEF Dispatch, Has
  <2> QED BY <1>1, <1>4, <1>5, <1>7, <2>1, Answering
<1>8. CASE body.Method = "DISPS" /\ ~Scheme
  <2>1. ParseDispsFlags = {}
    BY <1>8 DEF ParseDispsFlags, Has
  <2>2. Answers("500")
    BY <1>8, <2>1 DEF Dispatch, SolutionMethods
  <2> QED BY <1>1, <1>4, <1>8, <2>2, Answering
<1>9. CASE /\ body.Method \in SolutionMethods
           /\ body.Method = "DISPF" => Chosen
           /\ body.Method = "DISPS" => Scheme
  <2>1. StartsSolver
    <3>1. body.Method = "DISPS" => ParseDispsFlags # {}
      BY <1>9 DEF ParseDispsFlags, Has
    <3>2. ~(body.Method = "DISPF" /\ \E k \in {"I", "J", "K"} : ~Has(k))
      BY <1>9 DEF Has
    <3> QED BY <1>9, <3>1, <3>2 DEF Dispatch
  <2>2. CASE Len(y0) = Dimension(body.Equation)
    <3>1. Answers("solving") /\ Solvable(body)
      BY <1>4, <1>9, <2>1, <2>2 DEF StartsSolver
    <3> QED BY <1>1, <1>2, <3>1, Answering
  <2>3. CASE Len(y0) # Dimension(body.Equation)
    <3>1. ~Solvable(body) /\ ~body.own
      BY <1>4, <1>5, <2>3
    <3>2. Answers("undefined") \/ Answers("500")
      BY <2>1, <2>3 DEF StartsSolver
    <3> QED BY <1>1, <3>1, <3>2, Answering
  <2> QED BY <2>2, <2>3
<1> QED BY <1>6, <1>7, <1>8, <1>9

\* The client sends: a body of its form, which then stays, or another's.
LEMMA SolveKeeps == ASSUME RequestInv, Solve PROVE RequestInv'
<1>1. /\ pc = "form" /\ ValidateParameters /\ FormKept /\ BodyKept /\ answer = "none"
      /\ body' = TaskData /\ pc' = "parse" /\ answer' = answer /\ y0' = y0 /\ UNCHANGED formVars
  BY FormIsAddable DEF Solve, RequestInv, Passed
<1>2. equation' = equation /\ method' = method /\ parameters' = parameters /\ flags' = flags
  BY <1>1 DEF formVars
<1>3. \A k : ValueOf(k)' = ValueOf(k)
  BY <1>2 DEF ValueOf, SelectInSeq
<1>4. TaskData' = TaskData /\ (ValidateParameters' <=> ValidateParameters)
  BY <1>2, <1>3 DEF TaskData, ToDictionary, KeysOf, ValidateParameters
<1>5. FormKept'
  BY <1>1, FormStep DEF Next, Client, FormKept, formVars
<1>6. BodyKept'
  <2>1. IsBody(body)'
    BY <1>1, FormsDictionary DEF IsBody
  <2> QED BY <1>1, <1>4, <2>1 DEF BodyKept
<1>7. (FormIsUnderstood /\ SolvesTheFormsProblem /\ SolvesExactlyTheSolvable)'
  BY <1>1 DEF FormIsUnderstood, SolvesTheFormsProblem, SolvesExactlyTheSolvable
<1>8. Passed'
  BY <1>1 DEF Passed
<1> QED BY <1>1, <1>5, <1>6, <1>7, <1>8 DEF RequestInv

LEMMA OtherClientSendsKeeps == ASSUME RequestInv, OtherClientSends PROVE RequestInv'
<1>1. /\ pc = "form" /\ FormKept /\ answer = "none" /\ y0 \in Seq(Int)
      /\ pc' = "parse" /\ answer' = answer /\ y0' = y0 /\ UNCHANGED formVars
  BY DEF OtherClientSends, RequestInv, Passed
<1>2. PICK first \in Variants(TaskData) : \E b \in {first} \cup Variants(first) :
        body' = [b EXCEPT !.own = FALSE]
  BY DEF OtherClientSends
<1>3. PICK b \in {first} \cup Variants(first) : body' = [b EXCEPT !.own = FALSE]
  BY <1>2
<1>4. IsBody(b)
  <2>1. IsBody(first)
    BY <1>1, <1>2, FormsDictionary, VariantIsABody
  <2> QED BY <1>3, <2>1, VariantIsABody
<1>5. IsBody(body)' /\ ~body'.own
  BY <1>3, <1>4 DEF IsBody
<1>6. FormKept'
  BY <1>1 DEF FormKept, formVars
<1>7. BodyKept'
  BY <1>1, <1>5 DEF BodyKept
<1>8. (FormIsUnderstood /\ SolvesTheFormsProblem /\ SolvesExactlyTheSolvable)'
  BY <1>1 DEF FormIsUnderstood, SolvesTheFormsProblem, SolvesExactlyTheSolvable
<1>9. Passed'
  BY <1>1 DEF Passed
<1> QED BY <1>1, <1>6, <1>7, <1>8, <1>9 DEF RequestInv

-----------------------------------------------------------------------------
LEMMA RequestInit == Init => RequestInv
<1> SUFFICES ASSUME Init PROVE RequestInv
  OBVIOUS
<1>1. /\ FormKept /\ body = NoBody /\ pc = "form" /\ y0 = <<>> /\ answer = "none"
  BY FormInit DEF Init
<1>2. IsBody(body) /\ ~body.own
  <2>1. <<>> \in [DOMAIN <<>> -> Int \cup {NotANumber}]
    OBVIOUS
  <2> QED BY <1>1, <2>1 DEF NoBody, IsBody
<1>3. BodyKept /\ Passed
  BY <1>1, <1>2 DEF BodyKept, Passed
<1> QED
  BY <1>1, <1>3 DEF RequestInv, FormIsUnderstood, SolvesTheFormsProblem, SolvesExactlyTheSolvable

\* In the form nothing is sent, so there is nothing that could be understood wrongly.
LEMMA EditingKeeps ==
  ASSUME RequestInv, FormKept', pc = "form", UNCHANGED <<body, pc, y0, answer>>
  PROVE  RequestInv'
<1>1. BodyKept' /\ Passed'
  BY DEF RequestInv, BodyKept, Passed, IsBody
<1> QED
  BY <1>1 DEF RequestInv, FormIsUnderstood, SolvesTheFormsProblem, SolvesExactlyTheSolvable, Passed

LEMMA RequestStep ==
  ASSUME RequestInv, [Next]_vars
  PROVE  RequestInv'
<1>1. FormKept'
  BY FormStep DEF RequestInv
<1>2. CASE UNCHANGED vars
  <2>1. /\ equation' = equation /\ method' = method /\ parameters' = parameters /\ flags' = flags
        /\ body' = body /\ pc' = pc /\ y0' = y0 /\ answer' = answer
    BY <1>2 DEF vars, formVars
  <2>2. \A k : ValueOf(k)' = ValueOf(k)
    BY <2>1 DEF ValueOf, SelectInSeq
  <2>3. TaskData' = TaskData /\ (ValidateParameters' <=> ValidateParameters)
    BY <2>1, <2>2 DEF TaskData, ToDictionary, KeysOf, ValidateParameters
  <2>4. BodyKept'
    BY <2>1, <2>3 DEF RequestInv, BodyKept, IsBody
  <2>5. Passed'
    BY <2>1, <2>2 DEF RequestInv, Passed, ConditionsRead, Has, IsNumber
  <2>6. FormIsUnderstood' /\ SolvesExactlyTheSolvable'
    BY <2>1 DEF RequestInv, FormIsUnderstood, SolvesExactlyTheSolvable, Solvable
  <2>7. SolvesTheFormsProblem'
    BY <2>1, <2>2 DEF RequestInv, SolvesTheFormsProblem
  <2> QED BY <1>1, <2>1, <2>4, <2>5, <2>6, <2>7 DEF RequestInv
<1>3. ASSUME NEW e \in Equations, SelectEquation(e)
      PROVE  RequestInv'
  BY <1>1, <1>3, EditingKeeps DEF SelectEquation
<1>4. ASSUME NEW m \in SolutionMethods, SelectMethod(m)
      PROVE  RequestInv'
  BY <1>1, <1>4, EditingKeeps DEF SelectMethod
<1>5. ASSUME NEW f \in Flags, ToggleFlag(f)
      PROVE  RequestInv'
  BY <1>1, <1>5, EditingKeeps DEF ToggleFlag
<1>6. ASSUME NEW n \in DOMAIN parameters, NEW v \in Values, EditValue(n, v)
      PROVE  RequestInv'
  BY <1>1, <1>6, EditingKeeps DEF EditValue
<1> QED
  BY <1>2, <1>3, <1>4, <1>5, <1>6, SolveKeeps, OtherClientSendsKeeps, ParseKeeps, ReadTimesKeeps,
     LoadParametersKeeps, ExtractInitialConditionsKeeps, GetTaskKeeps, DispatchKeeps
  DEF Next, Client

LEMMA RequestAlways == Spec => []RequestInv
<1>1. Init => RequestInv
  BY RequestInit
<1>2. RequestInv /\ [Next]_vars => RequestInv'
  BY RequestStep
<1> QED BY <1>1, <1>2, PTL DEF Spec

\* Types.  That y0 is numbers is the work of LoadParameters, which refuses any
\* other value before ExtractInitialConditions reads one.
THEOREM RequestTypes == Spec => []TypeOK
<1>1. RequestInv => TypeOK
  BY DEF RequestInv, TypeOK, FormKept, BodyKept, Passed
<1> QED BY <1>1, RequestAlways, PTL

\* A form is understood: Solve does not throw and the server asks for nothing
\* that the form does not have, whatever was chosen, typed and switched in it.
THEOREM FormUnderstood == Spec => []FormIsUnderstood
<1>1. RequestInv => FormIsUnderstood
  BY DEF RequestInv
<1> QED BY <1>1, RequestAlways, PTL

\* A form is solved from its conditions in their order, whatever order the
\* unordered_map has, and over a span from t0 to a later t1.
THEOREM FormSolved == Spec => []SolvesTheFormsProblem
<1>1. RequestInv => SolvesTheFormsProblem
  BY DEF RequestInv
<1> QED BY <1>1, RequestAlways, PTL

\* The reads of the thread, each of which may throw, let exactly the solvable
\* bodies through to a solver.
THEOREM SolvableSolved == Spec => []SolvesExactlyTheSolvable
<1>1. RequestInv => SolvesExactlyTheSolvable
  BY DEF RequestInv
<1> QED BY <1>1, RequestAlways, PTL
=============================================================================
