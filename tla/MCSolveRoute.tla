---------------------------- MODULE MCSolveRoute ----------------------------
\* Instances of SolveRoute for TLC with several connections.
EXTENDS SolveRoute, TLC

Symmetry == Permutations(Conn)
=============================================================================
