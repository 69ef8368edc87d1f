---------------------------- MODULE SolveRequest ----------------------------
(***************************************************************************)
(* What a /solve request says, from the client's form to the solver that   *)
(* is started: the form of MainWindowViewModel.cs and what Solve makes of   *)
(* it, and the reading of the body by the route (Routers.cpp), the         *)
(* TaskManager and ExtractInitialConditions.  The two sides share only the *)
(* names of the keys, in C# and in C++.                                    *)
(*                                                                         *)
(* Numbers are ranks that keep what is compared: the order of t0 and t1    *)
(* and the limits MinValue and MaxValue of the form.  The form is filled   *)
(* in and sent once; one that is sent later is another form.               *)
(*                                                                         *)
(* Bounds: the Values typed, MaxEdits of them, the check boxes Flags.      *)
(***************************************************************************)
EXTENDS Integers, Sequences, SequencesExt

CONSTANTS Values, MinValue, MaxValue, MaxEdits, Flags, NotANumber

OfferedFlags == {"Disps13", "Disps15", "Disps23", "Disps25", "Disps35", "Disps36"}
DisabledFlags == {"Disps16", "Disps26", "Disps33"}

ASSUME ValuesAssumption == /\ Values \subseteq Int
                           /\ {MinValue, MaxValue} \subseteq Int /\ {0, 1, 2} \subseteq MinValue..MaxValue
ASSUME BoundsAssumption == MaxEdits \in Nat /\ Flags \subseteq OfferedFlags
ASSUME NotANumberAssumption == NotANumber \notin Int

VARIABLES
  \* the form
  equation, method, parameters, flags, edits,
  \* the request, and how far it has come
  body,     \* Equation, Method, Parameters; own: made by the form
  pc,       \* "form", "parse", "times", "load", "conditions", "task", "dispatch", "done"
  y0,       \* what ExtractInitialConditions returned
  answer    \* "none", "solving", "400", "500", "undefined"; "thrown" by the client

formVars == <<equation, method, parameters, flags, edits>>
vars == <<formVars, body, pc, y0, answer>>
-----------------------------------------------------------------------------
(* The client.                                                             *)

Equations == {"VanDerPol", "ForcedOscillator", "RobertsonSystem"}
SolutionMethods == {"ExplicitEuler", "RungeKutta2", "RK23S", "STEKS", "DISPD", "DISPF", "DISPS"}

Entry(k, v) == [key |-> k, value |-> v]

\* The parameters of an equation, and those of all of them.
EquationParameters(e) ==
  CASE e = "VanDerPol" ->
         <<Entry("mu", 2), Entry("p", 1), Entry("y0_init", 2), Entry("y1_init", 0)>>
    [] e = "ForcedOscillator" ->
         <<Entry("omega", 2), Entry("gamma", 1), Entry("F", 1), Entry("omega_k", 1),
           Entry("y0_init", 1), Entry("y1_init", 0)>>
    [] e = "RobertsonSystem" ->
         <<Entry("k1", 1), Entry("k2", 2), Entry("k3", 2),
           Entry("y0_init", 1), Entry("y1_init", 0), Entry("y2_init", 0)>>
SpanParameters == <<Entry("t0", 0), Entry("t1", 2), Entry("tolerance", 1)>>

\* Slip: Parameters is not cleared.
UpdateEquationFormulaUncleared(e) == parameters \o EquationParameters(e) \o SpanParameters

\* UpdateEquationFormula
UpdateEquationFormula(e) == EquationParameters(e) \o SpanParameters

SelectEquation(e) ==
  /\ pc = "form" /\ e # equation
  /\ equation' = e
  /\ parameters' = UpdateEquationFormula(e)
  /\ UNCHANGED <<method, flags, edits, body, pc, y0, answer>>

SelectMethod(m) ==
  /\ pc = "form" /\ m # method
  /\ method' = m
  /\ UNCHANGED <<equation, parameters, flags, edits, body, pc, y0, answer>>

ToggleFlag(f) ==
  /\ pc = "form"
  /\ flags' = IF f \in flags THEN flags \ {f} ELSE flags \cup {f}
  /\ UNCHANGED <<equation, method, parameters, edits, body, pc, y0, answer>>

EditValue(n, v) ==
  /\ pc = "form" /\ edits < MaxEdits /\ parameters[n].value # v
  /\ parameters' = [parameters EXCEPT ![n].value = v]
  /\ edits' = edits + 1
  /\ UNCHANGED <<equation, method, flags, body, pc, y0, answer>>

\* FirstOrDefault(p => p.Key == k)?.Value
ValueOf(k) == parameters[SelectInSeq(parameters, LAMBDA p : p.key = k)].value

\* Slip: t1 may equal t0.
ValidateParametersLoosely ==
  /\ \A n \in DOMAIN parameters : parameters[n].value \in MinValue..MaxValue
  /\ ValueOf("t0") <= ValueOf("t1")

\* ValidateParameters: the limits, and t0 < t1; the tolerance has no check of its own.
ValidateParameters ==
  /\ \A n \in DOMAIN parameters : parameters[n].value \in MinValue..MaxValue
  /\ ValueOf("t0") < ValueOf("t1")

KeysOf(ps) == {ps[n].key : n \in DOMAIN ps}

\* ParameterConverter.ToDictionary and the Adds of Solve: keys not used twice.
Addable == KeysOf(parameters) \cap ({"I", "J", "K"} \cup OfferedFlags \cup DisabledFlags) = {}
           /\ \A m, n \in DOMAIN parameters : parameters[m].key = parameters[n].key => m = n

\* The dictionary of a task: the parameters, the choice of DISPF (any number is
\* as good as 0 here) and the nine check boxes, of which three are disabled.
ToDictionary ==
  [k \in KeysOf(parameters) \cup {"I", "J", "K"} \cup OfferedFlags \cup DisabledFlags |->
     IF k \in KeysOf(parameters) THEN ValueOf(k) ELSE IF k \in flags THEN 1 ELSE 0]

NoBody == [Equation |-> "", Method |-> "", Parameters |-> <<>>, own |-> FALSE]
TaskData == [Equation |-> equation, Method |-> method, Parameters |-> ToDictionary, own |-> TRUE]

\* Solve up to its await: a key used twice throws.
Solve ==
  /\ pc = "form" /\ ValidateParameters
  /\ IF Addable THEN body' = TaskData /\ pc' = "parse" /\ UNCHANGED answer
     ELSE pc' = "done" /\ answer' = "thrown" /\ UNCHANGED body
  /\ UNCHANGED <<formVars, y0>>

\* What a body of another client has different from a form's: a key is missing,
\* a value is no number (the array of the README's example), a name is missing
\* or unknown, a condition is one too many.
Variants(b) ==
  LET P == b.Parameters
  IN  {[b EXCEPT !.Parameters = [j \in DOMAIN P \ {k} |-> P[j]]] : k \in DOMAIN P}
      \cup {[b EXCEPT !.Parameters = [j \in DOMAIN P |-> IF j = k THEN NotANumber ELSE P[j]]]
              : k \in DOMAIN P}
      \cup {[b EXCEPT !.Parameters = [j \in DOMAIN P \cup {"y2_init"} |->
                                        IF j \in DOMAIN P THEN P[j] ELSE 0]]}
      \cup {[b EXCEPT !.Parameters = [j \in DOMAIN P \ {"y0_init", "y1_init", "y2_init"} |-> P[j]]]}
      \cup {[b EXCEPT !.Equation = e] : e \in {"", "Lorenz"}}
      \cup {[b EXCEPT !.Method = m] : m \in {"", "Adams"}}

\* Two such differences at most, so that the first failure decides.
OtherClientSends ==
  /\ pc = "form" /\ edits = 0
  /\ \E first \in Variants(TaskData) : \E b \in {first} \cup Variants(first) :
       body' = [b EXCEPT !.own = FALSE]
  /\ pc' = "parse"
  /\ UNCHANGED <<formVars, y0, answer>>
-----------------------------------------------------------------------------
(* The server.                                                             *)

Answers(a) == answer' = a /\ pc' = "done"
Continues(l) == pc' = l /\ UNCHANGED answer

Has(k) == k \in DOMAIN body.Parameters
IsNumber(k) == body.Parameters[k] # NotANumber

\* The handler: a name that is no string is answered 400, otherwise the thread starts.
Parse ==
  /\ pc = "parse"
  /\ IF body.Equation # "" /\ body.Method # "" THEN Continues("times") ELSE Answers("400")
  /\ UNCHANGED <<formVars, body, y0>>

SpanKeys == <<"t0", "t1", "tolerance">>

\* t0, t1 and tolerance in this order: a key that is missing from the const
\* json is undefined behaviour, a value that is no number throws.
ReadTimes ==
  /\ pc = "times"
  /\ LET n == SelectInSeq(SpanKeys, LAMBDA k : ~Has(k) \/ ~IsNumber(k))
     IN  IF n = 0 THEN Continues("load")
         ELSE Answers(IF Has(SpanKeys[n]) THEN "500" ELSE "undefined")
  /\ UNCHANGED <<formVars, body, y0>>

\* Slip: a value that is no number is passed over.
LoadParametersPassingOver ==
  /\ pc = "load"
  /\ Continues("conditions")
  /\ UNCHANGED <<formVars, body, y0>>

\* TaskManager::LoadParameters takes every value of Parameters as a double.
LoadParameters ==
  /\ pc = "load"
  /\ IF \A k \in DOMAIN body.Parameters : IsNumber(k) THEN Continues("conditions") ELSE Answers("500")
  /\ UNCHANGED <<formVars, body, y0>>

ConditionKey == <<"y0_init", "y1_init", "y2_init">>

\* Slip: the order of the unordered_map is kept.
ConditionsUnsorted(order) == [n \in DOMAIN order |-> body.Parameters[ConditionKey[order[n]]]]

\* The pairs (index, value) in the order of the map, sorted by their index.
Conditions(order) ==
  LET sorted == CHOOSE s \in SetToSeqs(Range(order)) :
                  \A m, n \in DOMAIN s : m < n => s[m] < s[n]
  IN  [n \in DOMAIN sorted |-> body.Parameters[ConditionKey[sorted[n]]]]

\* ExtractInitialConditions, for any order in which the map gives its keys.
ExtractInitialConditions ==
  /\ pc = "conditions"
  /\ \E order \in SetToSeqs({n \in 1..3 : Has(ConditionKey[n])}) :
       IF order = <<>> THEN Answers("500") /\ UNCHANGED y0
       ELSE Continues("task") /\ y0' = Conditions(order)
  /\ UNCHANGED <<formVars, body>>

GetTask ==
  /\ pc = "task"
  /\ IF body.Equation \in Equations THEN Continues("dispatch") ELSE Answers("500")
  /\ UNCHANGED <<formVars, body, y0>>

Dimension(e) == IF e = "RobertsonSystem" THEN 3 ELSE 2

\* The right side is called with y0: one that is too short is read past its
\* end, for one that is too long sums of vectors of two sizes throw or are read
\* past their end.
StartsSolver ==
  LET d == Dimension(body.Equation)
  IN  IF Len(y0) = d THEN Answers("solving")
      ELSE Answers("undefined") \/ (Len(y0) > d /\ Answers("500"))

\* ParseDispsFlags: six keys are read.
ParseDispsFlags == {f \in OfferedFlags : Has(f) /\ body.Parameters[f] = 1}

Dispatch ==
  /\ pc = "dispatch"
  /\ IF body.Method \notin SolutionMethods THEN Answers("500")
     ELSE IF body.Method = "DISPF" /\ \E k \in {"I", "J", "K"} : ~Has(k) THEN Answers("undefined")
     ELSE IF body.Method = "DISPS" /\ ParseDispsFlags = {} THEN Answers("500")
     ELSE StartsSolver
  /\ UNCHANGED <<formVars, body, y0>>
-----------------------------------------------------------------------------
Init ==
  /\ equation = "VanDerPol" /\ method = "ExplicitEuler"
  /\ parameters = EquationParameters("VanDerPol") \o SpanParameters
  /\ flags = {} /\ edits = 0
  /\ body = NoBody /\ pc = "form" /\ y0 = <<>> /\ answer = "none"

Client == \/ \E e \in Equations : SelectEquation(e)
          \/ \E m \in SolutionMethods : SelectMethod(m)
          \/ \E f \in Flags : ToggleFlag(f)
          \/ \E n \in DOMAIN parameters, v \in Values : EditValue(n, v)
          \/ Solve \/ OtherClientSends

Next == \/ Client
        \/ Parse \/ ReadTimes \/ LoadParameters \/ ExtractInitialConditions \/ GetTask \/ Dispatch

Spec == Init /\ [][Next]_vars
-----------------------------------------------------------------------------
\* The keys of all forms, and the bodies: names, and numbers or not.
FormKeys == {"mu", "p", "omega", "gamma", "F", "omega_k", "k1", "k2", "k3",
             "y0_init", "y1_init", "y2_init", "t0", "t1", "tolerance"}
IsBody(b) ==
  b \in [Equation : Equations \cup {"", "Lorenz"}, Method : SolutionMethods \cup {"", "Adams"},
         Parameters : [DOMAIN b.Parameters -> Int \cup {NotANumber}], own : BOOLEAN]

\* The type invariant.  Its last line is more than a type: what comes out of
\* ExtractInitialConditions is numbers, whatever the body had.
TypeOK ==
  /\ equation \in Equations /\ method \in SolutionMethods
  /\ parameters \in Seq([key : FormKeys, value : Int])
  /\ flags \subseteq OfferedFlags /\ edits \in 0..MaxEdits
  /\ IsBody(body)
  /\ pc \in {"form", "parse", "times", "load", "conditions", "task", "dispatch", "done"}
  /\ answer \in {"none", "solving", "400", "500", "undefined", "thrown"}
  /\ y0 \in Seq(Int)

\* What the right side of each equation reads from TaskManager::parameters,
\* where a key that is missing would be inserted as 0.
TaskReads(e) ==
  CASE e = "VanDerPol"        -> {"mu", "p"}
    [] e = "ForcedOscillator" -> {"omega", "gamma", "F", "omega_k"}
    [] e = "RobertsonSystem"  -> {"k1", "k2", "k3"}

\* Whatever is chosen, typed and switched in the form, in any order: Solve does
\* not throw, and the server understands what it sends - no 400, nothing
\* undefined, no parameter taken as 0 because the two sides name it differently -
\* except that DISPS without a scheme is answered 500.
FormIsUnderstood ==
  /\ answer # "thrown"
  /\ pc = "done" /\ body.own =>
       IF body.Method = "DISPS" /\ flags = {} THEN answer = "500"
       ELSE answer = "solving" /\ TaskReads(body.Equation) \subseteq DOMAIN body.Parameters

\* A form that is solved is solved over a span from t0 to a later t1, from the
\* conditions of the form in the order of the variables, whatever order the
\* server's unordered_map has.
SolvesTheFormsProblem ==
  answer = "solving" /\ body.own =>
    /\ y0 = [n \in 1..Dimension(equation) |-> ValueOf(ConditionKey[n])]
    /\ body.Parameters["t0"] < body.Parameters["t1"]

\* The bodies a solver is started for, of any client: known names, numbers
\* only, the three keys of the span, as many conditions as the system has
\* variables, and what the method reads.
Solvable(b) ==
  /\ b.Equation \in Equations /\ b.Method \in SolutionMethods
  /\ \A k \in DOMAIN b.Parameters : b.Parameters[k] # NotANumber
  /\ {"t0", "t1", "tolerance"} \subseteq DOMAIN b.Parameters
  /\ Cardinality({n \in 1..3 : ConditionKey[n] \in DOMAIN b.Parameters}) = Dimension(b.Equation)
  /\ b.Method = "DISPF" => {"I", "J", "K"} \subseteq DOMAIN b.Parameters
  /\ b.Method = "DISPS" => \E f \in OfferedFlags : f \in DOMAIN b.Parameters /\ b.Parameters[f] = 1

\* The thread's chain of reads, each of which may throw, starts a solver for
\* exactly these bodies.
SolvesExactlyTheSolvable == pc = "done" /\ answer # "thrown" => (answer = "solving" <=> Solvable(body))
=============================================================================
