-------------------------- MODULE SyncWaitPromise ---------------------------
(***************************************************************************)
(* sync_wait implements AsyncCall, with threads as the callers.            *)
(***************************************************************************)
EXTENDS SyncWait

Phase ==
  [k \in Coroutines |->
     IF pc[k] = "unborn" THEN "idle"
     ELSE IF pc[k] \in {"running", "parked"} THEN "called" ELSE "returned"]

Call == INSTANCE AsyncCall WITH
  Callers <- Threads, Calls <- Coroutines,
  phase <- Phase, outcome <- result, waiting <- call, result <- got

(* sync_wait is a call as well: the thread goes on once, after the         *)
(* awaitable has completed on whatever thread, with its result or          *)
(* exception.                                                              *)
ImplementsCall == Call!Spec

(* Every thread waits for an awaitable that is suspended, and none is left *)
(* to resume one.                                                          *)
AllBlocked == \A t \in Threads : call[t] # Null /\ Idle(t) /\ pc[call[t]] = "parked"

(* A thread returns from sync_wait if the awaitable completes: the store   *)
(* of set() is seen, however it falls relative to the loads of wait().     *)
(* The one exception is a program that has blocked its last thread.        *)
SyncWaitReturns == \A t \in Threads : call[t] # Null ~> call[t] = Null \/ AllBlocked
=============================================================================
