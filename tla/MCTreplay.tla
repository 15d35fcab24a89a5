----------------------------- MODULE MCTreplay -----------------------------
(* Tracing and replay for TLC.  Names and addresses are interchangeable.   *)
EXTENDS Treplay, TLC

Symmetry == Permutations(Names) \cup Permutations(Addrs)
=============================================================================
