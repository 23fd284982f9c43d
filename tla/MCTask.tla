------------------------------- MODULE MCTask -------------------------------
(* Instances of Task for TLC.                                              *)
EXTENDS TaskPromise, TLC

Symmetry ==
  Permutations(Tasks) \cup Permutations(Coroutines \ Tasks) \cup Permutations(Threads)
=============================================================================
