------------------------- MODULE DISPSSolverProofs -------------------------
(***************************************************************************)
(* Proofs about DISPSSolver for every span, initial step and number of     *)
(* tries, and every choice of flags.                                       *)
(***************************************************************************)
EXTENDS DISPSSolver, TLAPS

\* An attempt fits into what is left of the span and has tries left.
AttemptInv ==
  pc = "step" => tries < MaxTries /\ t + attempt <= Span

\* Once the scheme has changed it is the best one.
SchemeInv == switches = 0 \/ (switches = 1 /\ IsBest(scheme))

IInv == TypeOK /\ WithinSpan /\ AttemptInv /\ SchemeInv
-----------------------------------------------------------------------------
(* The schemes differ in order or gamma, so that the best of the enabled    *)
(* ones is unique: a change from the best scheme changes nothing.           *)
LEMMA BestIsUnique ==
  ASSUME NEW v \in enabled, NEW w \in enabled, enabled \in SUBSET Variants,
         IsBest(v), IsBest(w)
  PROVE  v = w
<1>1. ~Better(v, w) /\ ~Better(w, v)
  BY DEF IsBest
<1>2. v \in Variants /\ w \in Variants
  OBVIOUS
<1> QED
  BY <1>1, <1>2 DEF Better, Variants, Variant

(* Whatever the scheme was, SwitchScheme leaves an enabled one that is the  *)
(* best, and has counted at most one change.                                *)
LEMMA SwitchKeepsOrder ==
  ASSUME TypeOK, SchemeInv, SwitchScheme, UNCHANGED enabled
  PROVE  /\ scheme' \in enabled' /\ switches' \in Nat
         /\ SchemeInv'
<1>1. scheme' \in enabled /\ IsBest(scheme')
  BY DEF SwitchScheme
<1>2. IsBest(scheme)'
  BY <1>1 DEF IsBest
<1>3. CASE switches = 0
  <2>1. switches' \in {0, 1}
    BY <1>3 DEF SwitchScheme
  <2> QED
    BY <1>1, <1>2, <2>1 DEF SchemeInv
<1>4. CASE switches = 1 /\ IsBest(scheme)
  <2>1. scheme' = scheme
    BY <1>1, <1>4, BestIsUnique DEF TypeOK
  <2>2. switches' = 1
    BY <1>4, <2>1 DEF SwitchScheme
  <2> QED
    BY <1>1, <1>2, <2>2 DEF SchemeInv
<1> QED
  BY <1>3, <1>4 DEF SchemeInv

LEMMA FloorIsNat ==
  ASSUME NEW x \in Nat
  PROVE  Floor(x \div 2) \in Nat
BY DEF Floor
-----------------------------------------------------------------------------
LEMMA InitInv ==
  ASSUME Init
  PROVE  IInv
BY SpanAssumption DEF Init, IInv, TypeOK, WithinSpan, AttemptInv, SchemeInv

(* Keep adds to t no more than was left, for whatever scheme.               *)
LEMMA KeepKeepsTime ==
  ASSUME IInv, Keep
  PROVE  /\ t' \in Nat /\ stepSize' \in Nat /\ attempt' \in Nat
         /\ tries' \in 0..MaxTries /\ pc' = "loop"
         /\ enabled' \in SUBSET Variants
         /\ WithinSpan'
<1>1. t' = t + attempt /\ t + attempt <= Span
  BY DEF IInv, AttemptInv, Keep
<1>2. stepSize' \in Nat
  <2>1. attempt \in Nat /\ Growth(scheme) \in {105, 110, 120}
    BY DEF IInv, TypeOK, Growth
  <2>2. (attempt * Growth(scheme) + 99) \div 100 \in Nat
    BY <2>1
  <2> QED
    BY <2>1, <2>2 DEF Keep
<1> QED
  BY <1>1, <1>2 DEF IInv, TypeOK, Keep, WithinSpan

LEMMA StepInv ==
  ASSUME IInv, [Next]_vars
  PROVE  IInv'
<1> USE SpanAssumption
<1>1. CASE Attempt
  <2>1. Clip(stepSize) \in Nat /\ t + Clip(stepSize) <= Span
    BY <1>1 DEF IInv, TypeOK, Attempt, Clip
  <2>2. SchemeInv'
    BY <1>1 DEF IInv, SchemeInv, Attempt, IsBest
  <2> QED
    BY <1>1, <2>1, <2>2 DEF IInv, TypeOK, WithinSpan, AttemptInv, Attempt
<1>2. CASE Finish
  BY <1>2 DEF IInv, TypeOK, WithinSpan, AttemptInv, SchemeInv, Finish, IsBest
<1>3. CASE Accept
  <2>1. UNCHANGED <<enabled, scheme, switches>> /\ SchemeInv'
    BY <1>3 DEF IInv, SchemeInv, Accept, Keep, IsBest
  <2> QED
    BY <1>3, <2>1, KeepKeepsTime DEF IInv, TypeOK, AttemptInv, Accept
<1>4. CASE AcceptUnstable
  <2>1. scheme' \in enabled' /\ switches' \in Nat /\ SchemeInv'
    BY <1>4, SwitchKeepsOrder DEF IInv, AcceptUnstable, Keep
  <2> QED
    BY <1>4, <2>1, KeepKeepsTime DEF IInv, TypeOK, AttemptInv, AcceptUnstable
<1>5. CASE Reject
  <2>1. UNCHANGED <<enabled, scheme, t, switches>> /\ SchemeInv'
    BY <1>5 DEF IInv, SchemeInv, Reject, IsBest
  <2>2. tries' \in 0..MaxTries /\ stepSize' \in Nat /\ attempt' \in Nat
        /\ (pc' = "loop" \/ (pc' = "step" /\ tries' < MaxTries /\ attempt' <= attempt))
    <3>1. tries' = tries + 1 /\ tries \in Nat /\ tries < MaxTries
      BY <1>5 DEF IInv, TypeOK, AttemptInv, Reject
    <3>2. PICK a \in 0..attempt :
            \/ tries' < MaxTries /\ attempt' = a /\ UNCHANGED <<stepSize, pc>>
            \/ tries' = MaxTries /\ GiveUp(a)
      BY <1>5 DEF Reject
    <3>3. a \in Nat /\ a <= attempt
      BY DEF IInv, TypeOK
    <3>4. CASE tries' < MaxTries /\ attempt' = a /\ UNCHANGED <<stepSize, pc>>
      BY <1>5, <3>1, <3>3, <3>4 DEF IInv, TypeOK, Reject
    <3>5. CASE tries' = MaxTries /\ GiveUp(a)
      BY <3>1, <3>3, <3>5, FloorIsNat DEF GiveUp
    <3> QED
      BY <3>2, <3>4, <3>5
  <2>3. AttemptInv'
    BY <1>5, <2>1, <2>2 DEF IInv, TypeOK, AttemptInv, Reject
  <2> QED
    BY <2>1, <2>2, <2>3 DEF IInv, TypeOK, WithinSpan
<1>6. CASE RejectBySwitch
  <2>1. scheme' \in enabled' /\ switches' \in Nat /\ SchemeInv'
    BY <1>6, SwitchKeepsOrder DEF IInv, RejectBySwitch
  <2>2. stepSize' \in Nat /\ attempt' \in Nat /\ pc' = "loop"
    BY <1>6, FloorIsNat DEF IInv, TypeOK, RejectBySwitch, GiveUp
  <2> QED
    BY <1>6, <2>1, <2>2 DEF IInv, TypeOK, WithinSpan, AttemptInv, RejectBySwitch
<1>7. CASE UNCHANGED vars
  BY <1>7 DEF IInv, TypeOK, WithinSpan, AttemptInv, SchemeInv, IsBest, vars
<1> QED
  BY <1>1, <1>2, <1>3, <1>4, <1>5, <1>6, <1>7 DEF Next

(* The inductive invariant holds in every reachable state of the solver.    *)
THEOREM Invariance == Spec => []IInv
<1>1. Init => IInv
  BY InitInv
<1>2. IInv /\ [Next]_vars => IInv'
  BY StepInv
<1> QED
  BY <1>1, <1>2, PTL DEF Spec

(* The scheme at work is always one whose flag the request set.             *)
THEOREM TypeCorrect == Spec => []TypeOK
BY Invariance, PTL DEF IInv

(* However steps are tried, shortened, given up and accepted, no stored     *)
(* time lies beyond tEnd.                                                   *)
THEOREM TimeWithinSpan == Spec => []WithinSpan
BY Invariance, PTL DEF IInv

(* For every choice of flags a solution changes its scheme at most once.    *)
THEOREM AtMostOneChange == Spec => []ChangesOnce
<1>1. IInv => ChangesOnce
  BY DEF IInv, SchemeInv, ChangesOnce
<1> QED
  BY Invariance, <1>1, PTL
=============================================================================
