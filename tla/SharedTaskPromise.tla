-------------------------- MODULE SharedTaskPromise --------------------------
(***************************************************************************)
(* shared_task implements LazyResult: m_waiters says how far the body is,  *)
(* and a client asks from await_ready to await_resume.                     *)
(***************************************************************************)
EXTENDS SharedTask

Phase ==
  IF m_waiters = NotStarted THEN "lazy" ELSE IF m_waiters = Ready THEN "ready" ELSE "computing"

Lazy == INSTANCE LazyResult WITH
  phase <- Phase,
  value <- IF m_waiters = Ready THEN outcome ELSE NoOutcome,
  asking <- Awaiting,
  given <- result

(* The body is started by the first client that awaits it and only once,   *)
(* all clients see the one outcome, and none continues before it is there. *)
ImplementsLazyResult == Lazy!Spec

(* Every co_await completes, once the body does.                           *)
AwaitContinues == \A c \in Clients : c \in Awaiting ~> pc[c] = "running"
=============================================================================
