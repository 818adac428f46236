-------------------------- MODULE MCDemucsSemaphore --------------------------
EXTENDS DemucsSemaphore, TLC

Symmetry == Permutations(Leases)
=============================================================================
