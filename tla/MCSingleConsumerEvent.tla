----------------------- MODULE MCSingleConsumerEvent ------------------------
(* Instances of SingleConsumerEvent for TLC.                               *)
EXTENDS SingleConsumerEventPromise, TLC

Symmetry == Permutations(Coroutines) \cup Permutations(Threads)
=============================================================================
