-------------------------- MODULE MCAsyncMutexLock --------------------------
(* Instances of AsyncMutexLock for TLC.                                    *)
EXTENDS AsyncMutexLock, TLC

Symmetry == Permutations(Threads) \cup Permutations(Coroutines)
=============================================================================
