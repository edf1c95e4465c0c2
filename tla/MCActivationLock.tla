-------------------------- MODULE MCActivationLock --------------------------
EXTENDS ActivationLock, TLC
Ids == Permutations(Procs)
=============================================================================
