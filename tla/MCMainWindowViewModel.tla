----------------------- MODULE MCMainWindowViewModel -----------------------
(***************************************************************************)
(* Values for TLC: titles are interchangeable in the run that checks no    *)
(* liveness.                                                               *)
(***************************************************************************)
EXTENDS MainWindowViewModel, TLC

Symmetry == Permutations(Titles)
=============================================================================
