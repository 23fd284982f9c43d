--------------------- MODULE SingleConsumerEventPromise ---------------------
(***************************************************************************)
(* single_consumer_event implements ManualResetEvent: the consumer waits   *)
(* while m_state announces it, and is released by the exchange of set().   *)
(***************************************************************************)
EXTENDS SingleConsumerEvent

Waiting == {c \in Coroutines : pc[c] = "waiting" /\ m_state = "not_set_consumer_waiting"}

Released == {c \in Coroutines : pc[c] = "waiting" /\ m_state # "not_set_consumer_waiting"}

Event == INSTANCE ManualResetEvent WITH
  isSet <- m_state = "set", waiting <- Waiting, released <- Released

(* A set() releases the consumer if it waits at the moment of the exchange *)
(* and only then, whatever other set() and reset() calls overlap with it.  *)
ImplementsEvent == Event!Spec
=============================================================================
