---------------------------- MODULE DISPSSolver ----------------------------
(***************************************************************************)
(* DISPSSolver of odesolvers-lib: a solver put together from the schemes   *)
(* whose flags the request sets.  It tries a step up to MaxTries times,    *)
(* keeps or shortens it by an error estimate, and changes the scheme when  *)
(* an accepted step leaves the scheme's interval of stability or when      *)
(* Disps25 rejects a step.                                                 *)
(*                                                                         *)
(* The estimates are doubles that may come out either way.  Time is        *)
(* counted in ticks of 1e-10 from t0, the least step set after MaxTries    *)
(* rejections; a step of no tick is shorter than that.  Fractions of a     *)
(* tick are rounded either way.                                            *)
(*                                                                         *)
(* Bounds: Span ticks from t0 to tEnd, MaxTries attempts.                  *)
(***************************************************************************)
EXTENDS Naturals

CONSTANTS
  Span,         \* tEnd - t0
  InitialStep,  \* 0.001 in Routers.cpp
  MaxTries      \* 30 in the code

ASSUME SpanAssumption == Span \in Nat /\ InitialStep \in Nat \ {0} /\ MaxTries \in Nat \ {0}

VARIABLES
  enabled,   \* variants_, as a set: no two are alike
  scheme,    \* variants_[currentIndex_]
  t,
  stepSize,  \* stepSize_
  attempt,   \* hAttempt
  tries,
  pc,        \* "loop" (the while of Solve), "step" (the for in it), "done"
  switches   \* history: how often the scheme has changed

vars == <<enabled, scheme, t, stepSize, attempt, tries, pc, switches>>
-----------------------------------------------------------------------------
(* A definition whose comment starts with "Slip:" is not the code but a     *)
(* plausible mistake in it; it takes the place of the definition after it   *)
(* to see that a property fails (see the README).                           *)

Variant(s, o, g) == [stages |-> s, order |-> o, gamma |-> g]

\* The length of the interval of stability is in hundredths.
Variants == {Variant(3, 1, 1700), Variant(5, 1, 4680), Variant(3, 2, 600),
             Variant(5, 2, 1880), Variant(5, 3, 1030), Variant(6, 3, 1568)}

Disps25 == Variant(5, 2, 1880)

\* The variants are pushed by order, then by stages; the first one begins.
PushedBefore(v, w) == v.order < w.order \/ (v.order = w.order /\ v.stages <= w.stages)

Better(v, w) == v.order > w.order \/ (v.order = w.order /\ v.gamma < w.gamma)

IsBest(v) == \A w \in enabled : ~Better(w, v)

SwitchSchemeToBetter ==    \* Slip: the first better scheme, not the best one
  /\ scheme' \in {v \in enabled : Better(v, scheme) \/ IsBest(v)}
  /\ switches' = IF scheme' = scheme THEN switches ELSE switches + 1

SwitchSchemeToAny ==    \* Slip: among all schemes, not the enabled ones
  /\ scheme' \in {v \in Variants : IsBest(v)}
  /\ switches' = IF scheme' = scheme THEN switches ELSE switches + 1

\* A higher order, and within an order a shorter interval of stability.
SwitchScheme ==
  /\ scheme' \in {v \in enabled : IsBest(v)}
  /\ switches' = IF scheme' = scheme THEN switches ELSE switches + 1

Floor(x) == IF x >= 1 THEN x ELSE 1

ClipForgotten(x) == x    \* Slip: the step is not cut to what is left

Clip(x) == IF x <= Span - t THEN x ELSE Span - t

\* The head of the loop; an attempt below 1e-14 ends it.
Attempt ==
  /\ pc = "loop" /\ t < Span
  /\ attempt' = Clip(stepSize)
  /\ tries' = 0
  /\ \/ pc' = "step"
     \/ attempt' = 0 /\ pc' = "done"
  /\ UNCHANGED <<enabled, scheme, t, stepSize, switches>>

Finish ==
  /\ pc = "loop" /\ t >= Span
  /\ pc' = "done"
  /\ UNCHANGED <<enabled, scheme, t, stepSize, attempt, tries, switches>>

\* The growth of an accepted step, in hundredths.
Growth(v) == CASE v.order = 1 -> 120 [] v.order = 2 -> 110 [] OTHER -> 105

\* t goes on by the attempt; the step for the next one grows.
Keep ==
  /\ pc = "step"
  /\ t' = t + attempt
  /\ stepSize' \in attempt..((attempt * Growth(scheme) + 99) \div 100)
  /\ pc' = "loop"
  /\ UNCHANGED <<enabled, attempt, tries>>

Accept == Keep /\ UNCHANGED <<scheme, switches>>

\* The step was accepted outside the interval of stability (Vn > gamma).
AcceptUnstable == Keep /\ SwitchScheme

\* No step was accepted: half the last attempt, at least the floor.
GiveUp(a) ==
  /\ stepSize' = Floor(a \div 2)
  /\ attempt' = stepSize'
  /\ pc' = "loop"

\* The estimate exceeds the tolerance: the attempt shrinks to 0.8 at most.
Reject ==
  /\ pc = "step" /\ scheme # Disps25
  /\ tries' = tries + 1
  /\ \E a \in 0..attempt :
       /\ 5 * a <= 4 * attempt
       /\ \/ /\ tries' < MaxTries /\ attempt' = a
             /\ UNCHANGED <<stepSize, pc>>
          \/ tries' = MaxTries /\ GiveUp(a)
  /\ UNCHANGED <<enabled, scheme, t, switches>>

\* Disps25 changes the scheme instead and leaves the tries.
RejectBySwitch ==
  /\ pc = "step" /\ scheme = Disps25
  /\ SwitchScheme
  /\ GiveUp(attempt)
  /\ UNCHANGED <<enabled, t, tries>>
-----------------------------------------------------------------------------
\* Without a flag the constructor throws, and nothing is solved.
Init ==
  /\ enabled \in SUBSET Variants \ {{}}
  /\ scheme \in {v \in enabled : \A w \in enabled : PushedBefore(v, w)}
  /\ t = 0 /\ stepSize = InitialStep
  /\ attempt = 0 /\ tries = 0
  /\ pc = "loop"
  /\ switches = 0

Next == Attempt \/ Finish \/ Accept \/ AcceptUnstable \/ Reject \/ RejectBySwitch

Spec == Init /\ [][Next]_vars
-----------------------------------------------------------------------------
\* Every variable keeps its type: the scheme is one that the request enabled.
TypeOK ==
  /\ enabled \in SUBSET Variants
  /\ scheme \in enabled
  /\ {t, stepSize, attempt, switches} \subseteq Nat
  /\ tries \in 0..MaxTries
  /\ pc \in {"loop", "step", "done"}

\* Unlike in the other solvers no stored time lies beyond tEnd, whatever was
\* tried, shortened, given up and tried anew.
WithinSpan == t <= Span

\* The scheme changes at most once in a solution, however often an estimate
\* asks for it: from where the change leads there is no way on or back.
ChangesOnce == switches <= 1
=============================================================================
