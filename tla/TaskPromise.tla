---------------------------- MODULE TaskPromise -----------------------------
(***************************************************************************)
(* Task implements AsyncCall.                                              *)
(***************************************************************************)
EXTENDS Task

Phase ==
  [k \in Tasks |-> IF k \in Done THEN "returned" ELSE IF k \in Started THEN "called" ELSE "idle"]

Call == INSTANCE AsyncCall
          WITH Callers <- Coroutines, Calls <- Tasks, phase <- Phase, waiting <- awaited

(* However awaiter and task interleave on their threads, co_await behaves  *)
(* like a procedure call: the awaiter continues once, after the task has   *)
(* completed, with the outcome of that task.                               *)
ImplementsCall == Call!Spec
=============================================================================
