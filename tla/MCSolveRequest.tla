--------------------------- MODULE MCSolveRequest ---------------------------
(***************************************************************************)
(* Values for TLC: -2 is below the least number the form accepts, -1; an   *)
(* edit of t0 or t1 to 0 or 1 makes them equal or puts them out of order.  *)
(***************************************************************************)
EXTENDS SolveRequest

TypedValues == {-2, 0, 1}
LeastValue == -1
=============================================================================
