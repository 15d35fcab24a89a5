----------------------------- MODULE MCTrfsSize -----------------------------
EXTENDS TrfsSize, TLC
Seeked == {-1, 1}
Symmetry == Permutations(Threads)
=============================================================================
