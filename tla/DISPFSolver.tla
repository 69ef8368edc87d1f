---------------------------- MODULE DISPFSolver ----------------------------
(***************************************************************************)
(* DISPFSolver of odesolvers-lib: three formulas A, B, C of orders 1, 2    *)
(* and 5 on the same six stages, the switching between them, and the first *)
(* stage k[..][0], which A and B take over from the step before them       *)
(* instead of computing it.                                                *)
(*                                                                         *)
(* The error estimates, the stability estimates and the Jacobian's are     *)
(* doubles: each comparison with them may come out either way.  gamma is 0 *)
(* in the server (Routers.cpp), so the test against it never holds, the    *)
(* count of unstable steps stays 0 and Solve does not break off: J and K   *)
(* change nothing and are left out.                                        *)
(*                                                                         *)
(* Time is counted in ticks from t0; rejections shorten the step to no     *)
(* less than one tick.  What the first stage holds is kept as the time f   *)
(* was evaluated at and whether it is f times the current step.  A and B   *)
(* evaluate f at the end of the step they made, and scale the step only    *)
(* then; Solve adds the scaled step to t.  So the next step does not start *)
(* at the time its first stage was evaluated at (of the server's problems  *)
(* only ForcedOscillator depends on t).                                    *)
(*                                                                         *)
(* Bounds: Span ticks from t0 to tEnd, MaxStep ticks per step.             *)
(***************************************************************************)
EXTENDS Naturals

CONSTANTS Orders,       \* values of I: 0 for a variable order, else a fixed one
          Span, InitialStep, MaxStep

ASSUME OrdersAssumption == Orders \subseteq Nat
ASSUME SpanAssumption == /\ Span \in Nat \ {0}
                         /\ InitialStep \in Nat \ {0} /\ MaxStep \in Nat \ {0}
                         /\ InitialStep <= MaxStep /\ Span <= MaxStep

VARIABLES
  order,    \* I
  method,   \* currentMethod: "A", "B", "C"
  t, h,
  first,    \* k[..][0]: [at : the time of f, scaled : whether by this h]
  pc,       \* "loop" (the while of Solve), "step" (in a StepDISPFx)
  clipped,  \* the step was cut to what is left of the span
  from,     \* history: the formula of the last accepted step, or "none"
  start     \* history: where the last accepted step started

vars == <<order, method, t, h, first, pc, clipped, from, start>>
-----------------------------------------------------------------------------
(* A definition whose comment starts with "Slip:" is not the code but a     *)
(* plausible mistake in it; it takes the place of the definition after it   *)
(* to see that a property fails (see the README).                           *)

Variable == order = 0

\* The constructor's choice; an order without a formula is taken for 1.
FirstMethod(I) == CASE I = 2 -> "B" [] I = 5 -> "C" [] OTHER -> "A"

\* f of the given time, times the step.
StageOf(time) == [at |-> time, scaled |-> TRUE]

LoopHeadUnclipped ==    \* Slip: the last step is not cut
  /\ pc = "loop" /\ t < Span
  /\ first' = IF method = "C" THEN StageOf(t) ELSE first
  /\ pc' = "step"
  /\ clipped' = FALSE
  /\ UNCHANGED <<order, method, t, h, from, start>>

\* The last step is cut so as to end at tEnd; the first stage is not rescaled.
\* StepDISPFC begins by computing it anew.
LoopHead ==
  /\ pc = "loop" /\ t < Span
  /\ \/ t + h <= Span /\ h' = h /\ clipped' = FALSE
     \/ t + h > Span /\ h' = Span - t /\ clipped' = TRUE
  /\ first' = IF method = "C" THEN StageOf(t)
              ELSE [first EXCEPT !.scaled = @ /\ ~clipped']
  /\ pc' = "step"
  /\ UNCHANGED <<order, method, t, from, start>>

RejectUnlimited ==    \* Slip: the factor has no lower bound
  /\ pc = "step"
  /\ h' \in 0..(h - 1)
  /\ UNCHANGED <<order, method, t, first, pc, clipped, from, start>>

\* Slip: a rejected step shortens h alone.
RejectStageKept ==
  /\ pc = "step"
  /\ \E a \in 1..h : a < h /\ 2 * a >= h /\ h' = a
  /\ first' = [first EXCEPT !.scaled = FALSE]
  /\ UNCHANGED <<order, method, t, pc, clipped, from, start>>

\* An error estimate exceeds the tolerance: h and the first stage are scaled by
\* the same factor between 0.5 and 0.9, and the formula is tried again (A and B
\* do so in a loop for the estimate after the second stage, and by calling
\* themselves for the one at the end).
Reject ==
  /\ pc = "step"
  /\ \E a \in 1..h : a < h /\ 2 * a >= h /\ h' = a
  /\ UNCHANGED <<order, method, t, first, pc, clipped, from, start>>

\* The step is kept: h is scaled by a factor between 0.9 and 2 for the next one,
\* and Solve adds the scaled h to t.  Both see the same h.
Grow == /\ pc = "step"
        /\ \E a \in 1..MaxStep : a <= 2 * h /\ 10 * a >= 9 * h /\ h' = a
        /\ t' = t + h' /\ start' = t
        /\ pc' = "loop"
        /\ from' = method
        /\ UNCHANGED <<order, clipped>>

\* The first stage of the next step is f at the end of this one, t + h with the
\* h it was made with, times the scaled h.
AcceptA ==
  /\ method = "A"
  /\ Grow
  /\ first' = StageOf(t + h)
  /\ method' \in (IF Variable THEN {"A", "B"} ELSE {"A"})

AcceptBAnyOrder ==    \* Slip: B switches whatever I says
  /\ method = "B"
  /\ Grow
  /\ first' = StageOf(t + h)
  /\ method' \in {"A", "B", "C"}

AcceptB ==
  /\ method = "B"
  /\ Grow
  /\ first' = StageOf(t + h)
  /\ method' \in (IF Variable THEN {"A", "B", "C"} ELSE {"B"})

\* C leaves the first stage of the step it has made, f at its start.
AcceptC ==
  /\ method = "C"
  /\ Grow
  /\ first' = [first EXCEPT !.scaled = h' = h]
  /\ method' \in (IF Variable THEN {"B", "C"} ELSE {"C"})
-----------------------------------------------------------------------------
Init ==
  /\ order \in Orders
  /\ method = FirstMethod(order)
  /\ t = 0 /\ h = InitialStep
  /\ first = StageOf(0)       \* zeros, read as such while from is "none"
  /\ pc = "loop"
  /\ clipped = FALSE
  /\ from = "none" /\ start = 0

Next == LoopHead \/ Reject \/ AcceptA \/ AcceptB \/ AcceptC

Spec == Init /\ [][Next]_vars
-----------------------------------------------------------------------------
\* Every variable keeps its type, and a step always has a length.
TypeOK ==
  /\ order \in Orders
  /\ method \in {"A", "B", "C"}
  /\ t \in Nat /\ h \in 1..MaxStep
  /\ first \in [at : Nat, scaled : BOOLEAN]
  /\ pc \in {"loop", "step"}
  /\ clipped \in BOOLEAN
  /\ from \in {"none", "A", "B", "C"}
  /\ start \in Nat

\* The first stage a step works with is never older than the step before it,
\* through every rejection, call of a formula by itself and change of formula:
\* in a step of C it is f at the step's start; after a step of A or B it is f at
\* that step's end, which lies in the step's second half as t counts it and at
\* most a ninth of it beyond t; only in the step of B after one of C is it f at
\* the start of the step before.  And it is scaled by the step, except there and
\* in a step of A or B cut to end at tEnd.  (Before the first step there is none.)
FirstStageFollows ==
  pc = "step" /\ (from # "none" \/ method = "C") =>
    /\ method = "C" => first = StageOf(t)
    /\ method # "C" /\ from # "C" =>
         /\ first.scaled \/ clipped
         /\ 2 * first.at >= start + t /\ 9 * first.at + start <= 10 * t
    /\ method # "C" /\ from = "C" => method = "B" /\ first.at = start

\* A fixed order is kept, and with a variable one the orders 1 and 5 follow one
\* another only through 2.
OrdersFollow ==
  [][/\ ~Variable => method' = method
     /\ {method, method'} # {"A", "C"}]_vars

\* The last stored time may lie beyond tEnd, since the scaled step is added to
\* it, but by no more than the span - whatever was rejected and scaled before.
OvershootBounded == t <= 2 * Span
=============================================================================
