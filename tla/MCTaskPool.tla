----------------------------- MODULE MCTaskPool -----------------------------
EXTENDS TaskPool, TLC
MCQueues == 0..2
MCSymmetry == Permutations(Entries) \cup Permutations(Handles)
=============================================================================
