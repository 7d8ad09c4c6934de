--------------------------- MODULE MCWaitForChain ---------------------------
EXTENDS WaitForChain, TLC
CONSTANTS main, w1, w2, l1, l2, l3
Symmetry == Permutations({w1, w2}) \cup Permutations({l1, l2, l3})
=============================================================================
