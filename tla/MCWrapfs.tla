------------------------------ MODULE MCWrapfs ------------------------------
EXTENDS Wrapfs, TLC
Symmetry == Permutations(Names)
=============================================================================
