---------------------------- MODULE MCSharedTask ----------------------------
EXTENDS SharedTaskPromise, TLC

Symmetry == Permutations(Threads) \cup Permutations(Clients \ {Creator})
=============================================================================
