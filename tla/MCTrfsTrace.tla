---------------------------- MODULE MCTrfsTrace ----------------------------
(* The trace pipeline for TLC.  A caller and a directory are as good as    *)
(* any other, which the safety runs use.                                   *)
EXTENDS TrfsTrace, TLC

CallerSymmetry == Permutations(Callers)
Symmetry == CallerSymmetry \cup Permutations(Dirs)
=============================================================================
