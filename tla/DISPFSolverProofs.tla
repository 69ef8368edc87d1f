------------------------- MODULE DISPFSolverProofs -------------------------
(***************************************************************************)
(* Proofs about DISPFSolver for every span, initial and largest step, and  *)
(* every set of orders.                                                    *)
(***************************************************************************)
EXTENDS DISPFSolver, TLAPS

\* A step fits into what is left of the span: it was cut at the loop's head and
\* only shortened since.
StepFits == pc = "step" => t + h <= Span

\* What the last step left: f at its end, scaled by the next step, if it was one
\* of A or B; f at its start if it was one of C, and then B or C is next.
StageLeft ==
  /\ from \in {"A", "B"} =>
       first.scaled /\ 2 * first.at >= start + t /\ 9 * first.at + start <= 10 * t
  /\ from = "C" => method \in {"B", "C"} /\ first.at = start

LeftInOrder == pc = "loop" => StageLeft

IInv == TypeOK /\ OvershootBounded /\ FirstStageFollows /\ StepFits /\ LeftInOrder
-----------------------------------------------------------------------------
LEMMA InitInv ==
  ASSUME Init
  PROVE  IInv
<1>1. method \in {"A", "B", "C"}
  BY DEF Init, FirstMethod
<1>2. t \in Nat /\ h \in 1..MaxStep /\ t <= 2 * Span
  BY SpanAssumption DEF Init
<1>3. first \in [at : Nat, scaled : BOOLEAN]
  BY DEF Init, StageOf
<1> QED
  BY <1>1, <1>2, <1>3
  DEF Init, IInv, TypeOK, OvershootBounded, FirstStageFollows, StepFits, LeftInOrder, StageLeft, StageOf

(* Grow adds at most twice a step that fitted.                              *)
LEMMA GrowKeepsTime ==
  ASSUME IInv, Grow
  PROVE  /\ t' \in Nat /\ h' \in 1..MaxStep /\ pc' = "loop"
         /\ order' \in Orders /\ clipped' \in BOOLEAN /\ from' \in {"A", "B", "C"}
         /\ start' \in Nat
         /\ OvershootBounded' /\ StepFits' /\ FirstStageFollows'
<1>1. PICK a \in 1..MaxStep : a <= 2 * h /\ h' = a
  BY DEF Grow
<1>2. t \in Nat /\ h \in Nat /\ t + h <= Span /\ t' = t + h' /\ Span \in Nat
  BY SpanAssumption DEF IInv, TypeOK, StepFits, Grow
<1>3. t' \in Nat /\ t' <= 2 * Span
  BY <1>1, <1>2, SpanAssumption
<1> QED
  BY <1>1, <1>3
  DEF IInv, TypeOK, OvershootBounded, StepFits, FirstStageFollows, Grow

(* The step was scaled by a factor between 0.9 and 2 after A or B had        *)
(* evaluated f at its end.                                                 *)
LEMMA EndOfStepLeft ==
  ASSUME IInv, Grow, first' = StageOf(t + h), method \in {"A", "B"}
  PROVE  first' \in [at : Nat, scaled : BOOLEAN] /\ StageLeft'
<1>1. PICK a \in 1..MaxStep : a <= 2 * h /\ 10 * a >= 9 * h /\ h' = a
  BY DEF Grow
<1>2. /\ t \in Nat /\ h \in Nat /\ t' = t + a /\ start' = t
      /\ from' \in {"A", "B"}
  BY <1>1 DEF IInv, TypeOK, Grow
<1>3. first' \in [at : Nat, scaled : BOOLEAN] /\ first'.scaled /\ first'.at = t + h
  BY <1>2 DEF StageOf
<1>4. /\ 2 * (t + h) >= t + (t + a)
      /\ 9 * (t + h) + t <= 10 * (t + a)
  BY <1>1, <1>2, SpanAssumption
<1> QED
  BY <1>1, <1>2, <1>3, <1>4 DEF StageLeft

LEMMA StepInv ==
  ASSUME IInv, [Next]_vars
  PROVE  IInv'
<1> USE SpanAssumption
<1>1. CASE LoopHead
  <2>1. h' \in 1..MaxStep /\ t + h' <= Span
    BY <1>1 DEF IInv, TypeOK, LoopHead
  <2>2. clipped' \in BOOLEAN
    BY <1>1, Zenon DEF LoopHead
  <2>3. first' \in [at : Nat, scaled : BOOLEAN]
    BY <1>1, <2>1 DEF IInv, TypeOK, LoopHead, StageOf
  <2>4. FirstStageFollows'
    <3>1. CASE method = "C"
      BY <1>1, <3>1 DEF LoopHead, FirstStageFollows
    <3>2. CASE method # "C" /\ from \in {"A", "B"}
      <4>1. StageLeft
        BY <1>1 DEF IInv, LeftInOrder, LoopHead
      <4>2. first'.at = first.at /\ (first.scaled => first'.scaled \/ clipped')
        BY <1>1, <3>2 DEF IInv, TypeOK, LoopHead
      <4> QED
        BY <1>1, <3>2, <4>1, <4>2 DEF FirstStageFollows, StageLeft, LoopHead
    <3>3. CASE method # "C" /\ from = "C"
      <4>1. StageLeft
        BY <1>1 DEF IInv, LeftInOrder, LoopHead
      <4> QED
        BY <1>1, <3>3, <4>1 DEF IInv, TypeOK, FirstStageFollows, StageLeft, LoopHead
    <3>4. CASE method # "C" /\ from = "none"
      BY <1>1, <3>4 DEF FirstStageFollows, LoopHead
    <3> QED
      BY <3>1, <3>2, <3>3, <3>4 DEF IInv, TypeOK
  <2> QED
    BY <1>1, <2>1, <2>2, <2>3, <2>4
    DEF IInv, TypeOK, OvershootBounded, StepFits, LeftInOrder, LoopHead
<1>2. CASE Reject
  <2>1. h' \in 1..MaxStep /\ h' <= h
    BY <1>2 DEF IInv, TypeOK, Reject
  <2> QED
    BY <1>2, <2>1
    DEF IInv, TypeOK, OvershootBounded, FirstStageFollows, StepFits, LeftInOrder, Reject
<1>3. CASE AcceptA
  <2>1. method' \in {"A", "B"} /\ first' = StageOf(t + h) /\ Grow /\ method = "A"
    BY <1>3 DEF AcceptA
  <2> QED
    BY <2>1, GrowKeepsTime, EndOfStepLeft DEF IInv, TypeOK, LeftInOrder
<1>4. CASE AcceptB
  <2>1. method' \in {"A", "B", "C"} /\ first' = StageOf(t + h) /\ Grow /\ method = "B"
    BY <1>4 DEF AcceptB
  <2> QED
    BY <2>1, GrowKeepsTime, EndOfStepLeft DEF IInv, TypeOK, LeftInOrder
<1>5. CASE AcceptC
  <2>1. method' \in {"B", "C"} /\ Grow /\ method = "C"
    BY <1>5 DEF AcceptC
  <2>2. first' \in [at : Nat, scaled : BOOLEAN] /\ first'.at = first.at
    BY <1>5 DEF AcceptC, IInv, TypeOK
  <2>3. first.at = t
    BY <2>1 DEF IInv, FirstStageFollows, StageOf, Grow
  <2>4. from' = "C" /\ start' = t
    BY <2>1 DEF Grow
  <2> QED
    BY <2>1, <2>2, <2>3, <2>4, GrowKeepsTime
    DEF IInv, TypeOK, LeftInOrder, StageLeft
<1>6. CASE UNCHANGED vars
  BY <1>6
  DEF IInv, TypeOK, OvershootBounded, FirstStageFollows, StepFits, LeftInOrder,
      StageLeft, vars
<1> QED
  BY <1>1, <1>2, <1>3, <1>4, <1>5, <1>6 DEF Next

(* The inductive invariant holds in every reachable state of the solver.    *)
THEOREM Invariance == Spec => []IInv
<1>1. Init => IInv
  BY InitInv
<1>2. IInv /\ [Next]_vars => IInv'
  BY StepInv
<1> QED
  BY <1>1, <1>2, PTL DEF Spec

(* Every reachable state is well typed; a step never shrinks to nothing.    *)
THEOREM TypeCorrect == Spec => []TypeOK
BY Invariance, PTL DEF IInv

(* For every order asked for, and however steps are rejected, scaled and    *)
(* cut and the formulas changed: the first stage is f at the step's start   *)
(* in C and f at the end of the step before it after A and B, and it is     *)
(* scaled by the step unless the step was cut or came after C.              *)
THEOREM StageFollows == Spec => []FirstStageFollows
BY Invariance, PTL DEF IInv

(* No stored time lies beyond tEnd by more than the span.                   *)
THEOREM NoGreatOvershoot == Spec => []OvershootBounded
BY Invariance, PTL DEF IInv
-----------------------------------------------------------------------------
LEMMA OrderOfStep ==
  ASSUME TypeOK, [Next]_vars
  PROVE  [/\ ~Variable => method' = method
          /\ {method, method'} # {"A", "C"}]_vars
<1>1. CASE LoopHead \/ Reject
  BY <1>1 DEF TypeOK, LoopHead, Reject
<1>2. CASE AcceptA
  BY <1>2 DEF AcceptA
<1>3. CASE AcceptB
  BY <1>3 DEF AcceptB
<1>4. CASE AcceptC
  BY <1>4 DEF AcceptC
<1> QED
  BY <1>1, <1>2, <1>3, <1>4 DEF Next

(* A fixed order is kept to the end, and a variable one changes between 1   *)
(* and 5 only through 2.                                                    *)
THEOREM OrdersChange == Spec => OrdersFollow
<1>1. TypeOK /\ [Next]_vars =>
        [/\ ~Variable => method' = method
         /\ {method, method'} # {"A", "C"}]_vars
  BY OrderOfStep
<1> QED
  BY <1>1, TypeCorrect, PTL DEF Spec, OrdersFollow
=============================================================================
