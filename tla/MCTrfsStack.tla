---------------------------- MODULE MCTrfsStack ----------------------------
EXTENDS TrfsStack, TLC
Symmetry == Permutations(Names)
=============================================================================
