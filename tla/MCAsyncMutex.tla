---------------------------- MODULE MCAsyncMutex ----------------------------
EXTENDS AsyncMutexFifo, TLC

Symmetry == Permutations(Threads) \cup Permutations(Coroutines)
=============================================================================
