------------------------------ MODULE MCShared ------------------------------
\* SharedRamRing for TLC.
EXTENDS SharedRamRing, TLC

ProducerSymmetry == Permutations(Producers)
AllCalls == DrainFunctions
DrainCalls == {"wait_and_drain_all"}
=============================================================================
