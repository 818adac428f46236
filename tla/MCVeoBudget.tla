---------------------------- MODULE MCVeoBudget ----------------------------
EXTENDS VeoBudget, TLC

Symmetry == Permutations(Jobs) \cup Permutations(Songs) \cup Permutations(Calls)
=============================================================================
