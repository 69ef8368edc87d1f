----------------------- MODULE AdaptiveSolversProofs -----------------------
(***************************************************************************)
(* Proofs about AdaptiveSolvers for every span, initial step, number of    *)
(* retries and set of solvers.                                             *)
(***************************************************************************)
EXTENDS AdaptiveSolvers, TLAPS

\* An attempt fits into what is left of the span: it was cut at the loop's head
\* and only shortened since.
AttemptInv == pc = "step" => t + attempt <= Span

IInv == TypeOK /\ OvershootBounded /\ ClockWithinFactor /\ AttemptInv
-----------------------------------------------------------------------------
LEMMA FactorIs ==
  ASSUME NEW m
  PROVE  MaxFactor(m) = 2 \/ MaxFactor(m) = 5
BY DEF MaxFactor

(* What an accepted attempt is scaled to is a number of ticks within the    *)
(* factor.                                                                  *)
LEMMA ScaledBound ==
  ASSUME NEW m, NEW x \in Nat, NEW a \in Scaled(m, x)
  PROVE  a \in Nat /\ a <= MaxFactor(m) * x
<1>1. MaxFactor(m) * x \in Nat
  BY FactorIs
<1> QED
  BY <1>1 DEF Scaled

LEMMA InitInv ==
  ASSUME Init
  PROVE  IInv
BY SpanAssumption, FactorIs
DEF Init, IInv, TypeOK, OvershootBounded, ClockWithinFactor, AttemptInv

(* Accept adds a scaled attempt to t and the attempt to reached: the        *)
(* attempt was within the span, so the sum is within factor times the span. *)
LEMMA AcceptInv ==
  ASSUME IInv, Accept
  PROVE  IInv'
<1>1. PICK a \in Scaled(method, attempt) : attempt' = a /\ t' = t + a /\ h' = a
  BY DEF Accept
<1>2. reached' = reached + attempt /\ pc' = "loop" /\ UNCHANGED <<method, tries>>
  BY DEF Accept
<1>3. {t, attempt, reached, Span} \subseteq Nat /\ t + attempt <= Span
  BY SpanAssumption, FactorIs DEF IInv, TypeOK, AttemptInv, Accept
<1>4. a \in Nat /\ a <= MaxFactor(method) * attempt
  BY <1>3, ScaledBound
<1>5. CASE MaxFactor(method) = 2
  <2>1. a <= 2 * attempt /\ a <= 2 * Span /\ t + a <= 2 * Span
    BY <1>3, <1>4, <1>5
  <2>2. t + a <= 2 * (reached + attempt)
    BY <1>3, <1>4, <1>5 DEF IInv, ClockWithinFactor
  <2> QED
    BY <1>1, <1>2, <1>3, <1>4, <1>5, <2>1, <2>2
    DEF IInv, TypeOK, OvershootBounded, ClockWithinFactor, AttemptInv
<1>6. CASE MaxFactor(method) = 5
  <2>1. a <= 5 * attempt /\ a <= 5 * Span /\ t + a <= 5 * Span
    BY <1>3, <1>4, <1>6
  <2>2. t + a <= 5 * (reached + attempt)
    BY <1>3, <1>4, <1>6 DEF IInv, ClockWithinFactor
  <2> QED
    BY <1>1, <1>2, <1>3, <1>4, <1>6, <2>1, <2>2
    DEF IInv, TypeOK, OvershootBounded, ClockWithinFactor, AttemptInv
<1> QED
  BY <1>5, <1>6, FactorIs

LEMMA StepInv ==
  ASSUME IInv, [Next]_vars
  PROVE  IInv'
<1> USE SpanAssumption
<1>0. attempt \in Nat /\ h \in Nat /\ t \in Nat
  BY FactorIs DEF IInv, TypeOK
<1>1. CASE Attempt
  <2>1. Clip(h) \in Nat /\ t + Clip(h) <= Span
    BY <1>0, <1>1 DEF Attempt, Clip
  <2>2. attempt' \in 0..(MaxFactor(method) * Span) /\ t + attempt' <= Span
    BY <1>0, <1>1, <2>1, FactorIs DEF Attempt
  <2> QED
    BY <1>1, <2>2
    DEF IInv, TypeOK, OvershootBounded, ClockWithinFactor, AttemptInv, Attempt
<1>2. CASE Finish
  BY <1>2 DEF IInv, TypeOK, OvershootBounded, ClockWithinFactor, AttemptInv, Finish
<1>3. CASE Accept
  BY <1>3, AcceptInv
<1>4. CASE Reject
  <2>1. h' \in Nat
    BY <1>0, <1>4 DEF Reject
  <2> QED
    BY <1>4, <2>1
    DEF IInv, TypeOK, OvershootBounded, ClockWithinFactor, AttemptInv, Reject
<1>5. CASE Shorten
  <2>1. PICK a \in 0..attempt : attempt' = a
    BY <1>5 DEF Shorten
  <2>2. attempt' \in 0..(MaxFactor(method) * Span) /\ attempt' <= attempt
    BY <1>0, <2>1, FactorIs DEF IInv, TypeOK
  <2>3. tries' \in 0..Retries
    BY <1>5 DEF IInv, TypeOK, Shorten
  <2>4. AttemptInv'
    BY <1>0, <1>5, <2>2, FactorIs DEF IInv, AttemptInv, Shorten
  <2> QED
    BY <1>5, <2>2, <2>3, <2>4
    DEF IInv, TypeOK, OvershootBounded, ClockWithinFactor, Shorten
<1>6. CASE UNCHANGED vars
  BY <1>6 DEF IInv, TypeOK, OvershootBounded, ClockWithinFactor, AttemptInv, vars
<1> QED
  BY <1>1, <1>2, <1>3, <1>4, <1>5, <1>6 DEF Next

(* The inductive invariant holds in every reachable state of the loops.     *)
THEOREM Invariance == Safety => []IInv
<1>1. Init => IInv
  BY InitInv
<1>2. IInv /\ [Next]_vars => IInv'
  BY StepInv
<1> QED
  BY <1>1, <1>2, PTL DEF Safety

(* Every reachable state of every solver is well typed.                     *)
THEOREM TypeCorrect == Safety => []TypeOK
BY Invariance, PTL DEF IInv

(* No solver stores a time beyond its factor times the span, although each  *)
(* adds the scaled step to the time.                                        *)
THEOREM NoGreatOvershoot == Safety => []OvershootBounded
BY Invariance, PTL DEF IInv

(* The stored time never runs ahead of the integration by more than the     *)
(* factor.                                                                  *)
THEOREM ClockDrift == Safety => []ClockWithinFactor
BY Invariance, PTL DEF IInv
-----------------------------------------------------------------------------
(* Progress.                                                                *)

\* Solve enters Step with an attempt of a tick at least, cut from a base that is no
\* shorter.  Only DISPD shortens it inside Step, to nothing if need be; its base
\* stays.
BaseInv == pc = "step" /\ method # "RK2" =>
  /\ h > 0
  /\ method # "DISPD" => attempt > 0 /\ attempt <= h

LEMMA BaseStep ==
  ASSUME IInv, BaseInv, [Next]_vars
  PROVE  BaseInv'
<1> USE SpanAssumption
<1>0. t \in Nat /\ h \in Nat
  BY DEF IInv, TypeOK
<1>1. CASE Attempt
  <2>1. Clip(h) \in Nat /\ Clip(h) <= h
    BY <1>0, <1>1 DEF Attempt, Clip
  <2> HIDE DEF Clip
  <2> QED
    BY <1>0, <1>1, <2>1 DEF Attempt, BaseInv
<1>2. CASE Finish \/ Accept \/ Reject
  BY <1>2 DEF Finish, Accept, Reject, BaseInv
<1>3. CASE Shorten
  BY <1>3 DEF Shorten, BaseInv
<1>4. CASE UNCHANGED vars
  BY <1>4 DEF vars, BaseInv
<1> QED
  BY <1>1, <1>2, <1>3, <1>4 DEF Next

(* An accepted attempt moves the time on, unless it is scaled to nothing:   *)
(* then the next base is zero, and the last one was not.                    *)
LEMMA AcceptAdvances ==
  ASSUME IInv, BaseInv, Accept, method # "RK2"
  PROVE  Advances
<1>1. PICK a \in Scaled(method, attempt) : t' = t + a /\ h' = a
  BY DEF Accept
<1>2. t \in Nat /\ h \in Nat /\ h > 0 /\ attempt \in Nat
  BY SpanAssumption, FactorIs DEF IInv, TypeOK, BaseInv, Accept
<1>3. a \in Nat
  BY <1>2, ScaledBound
<1>4. CASE a = 0
  BY <1>1, <1>2, <1>4 DEF Advances
<1>5. CASE a > 0
  BY <1>1, <1>2, <1>3, <1>5 DEF Advances
<1> QED
  BY <1>3, <1>4, <1>5

(* A rejected attempt leaves the time and at most half of the base.         *)
LEMMA RejectAdvances ==
  ASSUME IInv, BaseInv, Reject, method # "RK2"
  PROVE  Advances
<1>1. h \in Nat /\ h > 0 /\ attempt \in Nat
  BY SpanAssumption, FactorIs DEF IInv, TypeOK, BaseInv, Reject
<1>2. CASE method \in {"Euler", "RK23S"}
  <2>1. PICK a \in 0..attempt : h' = a \div 2
    BY <1>2 DEF Reject
  <2>2. attempt > 0 /\ attempt <= h
    BY <1>2 DEF BaseInv, Reject
  <2>3. a \div 2 < attempt
    BY <1>1, <2>1, <2>2
  <2> QED
    BY <1>1, <2>1, <2>2, <2>3 DEF Advances, Reject
<1>3. CASE method \in {"STEKS", "DISPD"}
  <2>1. h' = h \div 2 /\ UNCHANGED t
    BY <1>3 DEF Reject
  <2>2. h \div 2 < h
    BY <1>1
  <2> QED
    BY <2>1, <2>2 DEF Advances
<1> QED
  BY <1>2, <1>3 DEF Reject

LEMMA StepAdvances ==
  ASSUME IInv, BaseInv, Next, method # "RK2"
  PROVE  Advances
<1>1. CASE Attempt \/ Finish
  BY <1>1 DEF Attempt, Finish, Advances
<1>2. CASE Shorten
  <2>1. tries \in Nat /\ tries' = tries + 1 /\ UNCHANGED <<t, h, pc>>
    BY <1>2, SpanAssumption DEF Shorten, IInv, TypeOK
  <2> QED
    BY <2>1 DEF Advances
<1> QED
  BY <1>1, <1>2, AcceptAdvances, RejectAdvances DEF Next

(* No loop of a solver other than RK2 goes round without using up a counter *)
(* that is bounded: the part of Terminates that is not about fairness.      *)
THEOREM Progress == Safety => StepsAdvance
<1>1. Init => IInv /\ BaseInv
  BY InitInv DEF Init, BaseInv
<1>2. IInv /\ BaseInv /\ [Next]_vars => IInv' /\ BaseInv'
  BY StepInv, BaseStep
<1>3. IInv /\ BaseInv /\ [Next]_vars => [method # "RK2" => Advances]_vars
  BY StepAdvances
<1> QED
  BY <1>1, <1>2, <1>3, PTL DEF Safety, StepsAdvance
=============================================================================
