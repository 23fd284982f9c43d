-------------------- MODULE AsyncManualResetEventPromise --------------------
(***************************************************************************)
(* async_manual_reset_event implements ManualResetEvent: the list m_state  *)
(* heads holds the waiting coroutines, and the lists that set() calls have *)
(* taken and not yet finished hold the released ones.                      *)
(***************************************************************************)
EXTENDS AsyncManualResetEvent, IntrusiveList

Waiting == NodesFrom(m_state, m_next)

Released == UNION {NodesFrom(current[c], m_next) : c \in Coroutines}

Event == INSTANCE ManualResetEvent WITH
  isSet <- m_state = SetState, waiting <- Waiting, released <- Released

(* A set() releases every coroutine waiting at the moment of its exchange, *)
(* each exactly once, and only these: a reset() or an await that overlaps  *)
(* the call neither takes a release away nor gains one.                    *)
ImplementsEvent == Event!Spec

(* The loop of await_suspend goes round again: a compare_exchange has found *)
(* neither what it expected nor a set event.                               *)
PushRetried(t, c) ==
  /\ Running(t, c) /\ pc[c] = "pushing"
  /\ m_state \notin {m_next[c], SetState}
  /\ AwaitPush(t, c)

(* A coroutine that set() has released runs again, as long as the ones     *)
(* resumed before it return.  The one obstacle is the loop of              *)
(* await_suspend, which is lock-free and not wait-free: a coroutine that   *)
(* awaits the event again inside set() may fail for ever, while others     *)
(* queue, set and reset the event between any two of its attempts.         *)
ReleasedResumes ==
  \A c \in Coroutines :
    \/ c \in Released ~> pc[c] = "running"
    \/ []<><<\E t \in Threads, d \in Coroutines : PushRetried(t, d)>>_vars
=============================================================================
