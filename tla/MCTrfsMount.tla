---------------------------- MODULE MCTrfsMount ----------------------------
(* The mount for TLC: callers are alike, and so are workqueues.            *)
EXTENDS TrfsMount, TLC

CallerSymmetry == Permutations(Callers)
Symmetry == CallerSymmetry \cup Permutations(Workqueues)

(* Every single call of trfs_read_super that may fail.                     *)
AllFaults == Failures
=============================================================================
