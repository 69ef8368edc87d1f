-------------------------- MODULE AdaptiveSolvers --------------------------
(***************************************************************************)
(* The step-size loops of five solvers of odesolvers-lib: EulerSolver,     *)
(* RK2Solver, RK23SSolver, STEKSSolver and DISPDSolver.  Each Solve tries  *)
(* a step, keeps or rejects it by an error estimate, and adapts the step.  *)
(* What the estimate says is arbitrary here; the control around it is the  *)
(* code's.  A tolerance is positive: with another one the scale factors    *)
(* are no numbers, and the loops do as they like (see the README).         *)
(*                                                                         *)
(* Time is counted in ticks from t0; a step of no tick is one below the    *)
(* least step the solver distinguishes (1e-12, for Euler and RK2 zero).    *)
(* reached is a history variable: the time the accepted steps have really  *)
(* been integrated over, to compare with the t that the solver stores.     *)
(*                                                                         *)
(* Bounds: Span ticks from t0 to tEnd.  Everything else is bounded by the  *)
(* code, since no attempt is longer than what is left of the span.         *)
(***************************************************************************)
EXTENDS Naturals

CONSTANTS
  Methods,      \* the solvers of this instance
  Span,         \* tEnd - t0
  InitialStep,  \* stepSize, 0.001 in Routers.cpp
  Retries       \* attempts inside DISPDSolver::Step, 10 in the code

ASSUME MethodsAssumption == Methods \subseteq {"Euler", "RK2", "RK23S", "STEKS", "DISPD"}
ASSUME SpanAssumption == Span \in Nat /\ InitialStep \in Nat \ {0} /\ Retries \in Nat \ {0}

VARIABLES
  method,
  t,        \* the time stored with the last point
  h,        \* the base step
  attempt,  \* h_attempt (h_current in RK2)
  tries,    \* attempts made in the current call of Step
  pc,       \* "loop" (the while of Solve), "step" (in Step), "done"
  reached

vars == <<method, t, h, attempt, tries, pc, reached>>
-----------------------------------------------------------------------------
(* A definition whose comment starts with "Slip:" is not the code but a     *)
(* plausible mistake in it; it takes the place of the definition after it   *)
(* to see that a property fails (see the README).                           *)

\* The largest factor by which an accepted step grows.
MaxFactor(m) == IF m = "Euler" THEN 2 ELSE 5

ClipForgotten(x) == x    \* Slip: the step is not cut to what is left

\* min(h, tEnd - t)
Clip(x) == IF x <= Span - t THEN x ELSE Span - t

\* The head of Solve's loop: the next attempt, unless the end is reached or
\* (not in RK2) the attempt has become too small.
Attempt ==
  /\ pc = "loop" /\ t < Span
  /\ attempt' = Clip(h)
  /\ tries' = 0
  /\ pc' = IF attempt' = 0 /\ method # "RK2" THEN "done" ELSE "step"
  /\ UNCHANGED <<method, t, h, reached>>

Finish ==
  /\ pc = "loop" /\ t >= Span
  /\ pc' = "done"
  /\ UNCHANGED <<method, t, h, attempt, tries, reached>>

\* What an accepted attempt may be scaled to: by a fifth at least (Euler by any
\* factor, its estimate being offset by 1e-12), by MaxFactor at most.
Scaled(m, x) == {a \in 0..(MaxFactor(m) * x) : m = "Euler" \/ 5 * a >= x}

\* Slip: the time goes on by the base step and not by the attempt.
AcceptByBase ==
  /\ pc = "step" /\ (method = "DISPD" => tries < Retries)
  /\ reached' = reached + attempt
  /\ \E a \in Scaled(method, attempt) : attempt' = a /\ t' = t + h /\ h' = a
  /\ pc' = "loop"
  /\ UNCHANGED <<method, tries>>

\* The estimate is within the tolerance: y moves on over the attempt, Step
\* scales the attempt through its reference, and Solve adds the scaled value to
\* t, stores the point and takes it as the next base.
Accept ==
  /\ pc = "step" /\ (method = "DISPD" => tries < Retries)
  /\ reached' = reached + attempt
  /\ \E a \in Scaled(method, attempt) : attempt' = a /\ t' = t + a /\ h' = a
  /\ pc' = "loop"
  /\ UNCHANGED <<method, tries>>

\* Slip: the step that was tried is not shortened.
RejectSame ==
  /\ pc = "step"
  /\ method # "RK2"
  /\ h' = attempt
  /\ pc' = "loop"
  /\ UNCHANGED <<method, t, attempt, tries, reached>>

\* Step throws and the catch of Solve halves: Euler and RK23S the attempt that
\* Step has already shortened, STEKS and DISPD the base.
Reject ==
  /\ pc = "step"
  /\ \/ method \in {"Euler", "RK23S"} /\ \E a \in 0..attempt : h' = a \div 2
     \/ method = "STEKS" /\ h' = h \div 2
     \/ method = "DISPD" /\ tries = Retries /\ h' = h \div 2
  /\ pc' = "loop"
  /\ UNCHANGED <<method, t, attempt, tries, reached>>

\* Slip: one attempt too many.
ShortenOnceMore ==
  /\ pc = "step" /\ method = "DISPD"
  /\ tries <= Retries /\ tries' = tries + 1
  /\ \E a \in 0..attempt : (a < attempt \/ attempt = 0) /\ attempt' = a
  /\ UNCHANGED <<method, t, h, pc, reached>>

\* RK2 and DISPD shorten the attempt inside Step and try again, DISPD a limited
\* number of times.  RK2 counts nothing; its tries only show that it goes round.
Shorten ==
  /\ pc = "step"
  /\ \/ method = "RK2" /\ tries' = (tries + 1) % (Retries + 1)
     \/ method = "DISPD" /\ tries < Retries /\ tries' = tries + 1
  /\ \E a \in 0..attempt : (a < attempt \/ attempt = 0) /\ attempt' = a
  /\ UNCHANGED <<method, t, h, pc, reached>>
-----------------------------------------------------------------------------
Init ==
  /\ method \in Methods
  /\ t = 0 /\ h = InitialStep
  /\ attempt = 0 /\ tries = 0
  /\ pc = "loop"
  /\ reached = 0

Next == Attempt \/ Finish \/ Accept \/ Reject \/ Shorten

\* The worker thread that runs Solve is scheduled.
Fairness == WF_vars(Next)

Safety == Init /\ [][Next]_vars
Spec == Safety /\ Fairness
-----------------------------------------------------------------------------
\* Every variable keeps its type; no attempt ever exceeds the span by more than
\* the growth of one step.
TypeOK ==
  /\ method \in Methods
  /\ {t, h, reached} \subseteq Nat
  /\ attempt \in 0..(MaxFactor(method) * Span)
  /\ tries \in 0..Retries
  /\ pc \in {"loop", "step", "done"}

\* The last stored time may lie beyond tEnd, since the scaled step is added to
\* it, but never beyond MaxFactor times the span - whatever was rejected before.
OvershootBounded == t <= MaxFactor(method) * Span

\* The stored time never runs ahead of the integration by more than the
\* largest growth factor.
ClockWithinFactor == t <= MaxFactor(method) * reached

\* Every Solve but RK2's comes to an end, however many steps are rejected: the
\* halvings use up the step, or the accepted steps the span.  RK2 is left out
\* because its loop has no least step and no limit of attempts.
Terminates == method # "RK2" => <>(pc = "done")

\* What uses up a solve, the slowest counter first: the span, of which an overshoot
\* is bounded; the base step; the place in the loop; the attempts of one Step.
Advances ==
  \/ t' > t
  \/ t' = t /\ h' < h
  \/ UNCHANGED <<t, h>> /\ pc = "loop" /\ pc' # "loop"
  \/ UNCHANGED <<t, h, pc>> /\ tries' > tries

\* Every step of a solver other than RK2 brings the end closer, also a rejected one,
\* one whose estimate shortens the attempt to nothing, and an accepted one that
\* Euler scales to nothing: none of the loops of Solve and Step can go round and
\* leave all of the counters as they were.
StepsAdvance == [][method # "RK2" => Advances]_vars

\* RK2Solver.cpp on its last line: the scaled step becomes the base of the next
\* iteration ("Обновляем базовый шаг для следующей итерации").  Then
\* the time stored with a point is the time it was integrated to.
TimeIsIntegrated == t = reached
=============================================================================
