------------------------ MODULE SingleConsumerEvent -------------------------
(***************************************************************************)
(* cppcoro::single_consumer_event (single_consumer_event.hpp): a manual    *)
(* reset event with room for one awaiting coroutine, which set() resumes   *)
(* inside the call.                                                        *)
(*                                                                         *)
(* Any number of threads may call set() and reset().  The clients see to   *)
(* it that one coroutine at a time awaits the event.  A step is one access *)
(* to the atomic m_state with the thread-local work around it.             *)
(***************************************************************************)
EXTENDS CoroutineRuntime

CONSTANT Null

ASSUME ConsumerConstants == Null \notin Coroutines

VARIABLES
  m_state,      (* not_set, not_set_consumer_waiting or set                *)
  m_awaiter,    (* the handle stored by the last await_suspend             *)
  pc            (* where each coroutine is                                 *)

vars == <<m_state, m_awaiter, pc, stack>>

States == {"not_set", "not_set_consumer_waiting", "set"}

(***************************************************************************)
(* parked     suspended on something else                                  *)
(* running    executing client code, or nested under it                    *)
(* unready    await_ready has returned false                               *)
(* storing    in await_suspend, before the compare_exchange                *)
(* waiting    suspended by await_suspend                                   *)
(* setting    in set(), whose exchange has found a consumer waiting        *)
(* resumed    in set(), inside m_awaiter.resume()                          *)
(***************************************************************************)
Locations == {"parked", "running", "unready", "storing", "waiting", "setting", "resumed"}

Awaiting == {c \in Coroutines : pc[c] \in {"unready", "storing", "waiting"}}

Init ==
  /\ m_state \in {"not_set", "set"}
  /\ m_awaiter = Null
  /\ pc = [c \in Coroutines |-> "parked"]
  /\ StackInit

-----------------------------------------------------------------------------
(* Coroutines suspend on other awaitables and are resumed on an idle       *)
(* thread or from a running coroutine.                                     *)
Enter(t, c) ==
  /\ Idle(t) \/ \E d \in Coroutines : Running(t, d) /\ pc[d] = "running"
  /\ pc[c] = "parked"
  /\ pc' = [pc EXCEPT ![c] = "running"]
  /\ Resume(t, c)
  /\ UNCHANGED <<m_state, m_awaiter>>

Leave(t, c) ==
  /\ Running(t, c) /\ pc[c] = "running"
  /\ pc' = [pc EXCEPT ![c] = "parked"]
  /\ Return(t)
  /\ UNCHANGED <<m_state, m_awaiter>>

(* The running coroutine awaits something that transfers to another one.   *)
Switch(t, c, d) ==
  /\ Running(t, c) /\ pc[c] = "running"
  /\ pc[d] = "parked"
  /\ pc' = [pc EXCEPT ![c] = "parked", ![d] = "running"]
  /\ Transfer(t, d)
  /\ UNCHANGED <<m_state, m_awaiter>>

-----------------------------------------------------------------------------
(* co_await event: await_ready; a set event does not suspend.              *)
AwaitReady(t, c) ==
  /\ Running(t, c) /\ pc[c] = "running"
  /\ Awaiting = {}
  /\ m_state # "set"
  /\ pc' = [pc EXCEPT ![c] = "unready"]
  /\ UNCHANGED <<m_state, m_awaiter, stack>>

(* await_suspend stores the handle, which nobody reads before m_state says *)
(* that a consumer waits.                                                  *)
StoreAwaiter(t, c) ==
  /\ Running(t, c) /\ pc[c] = "unready"
  /\ m_awaiter' = c
  /\ pc' = [pc EXCEPT ![c] = "storing"]
  /\ UNCHANGED <<m_state, stack>>

(* Mutant: a plain store announces the consumer.                           *)
AnnounceByStore(t, c) ==
  /\ Running(t, c) /\ pc[c] = "storing"
  /\ m_state' = "not_set_consumer_waiting"
  /\ pc' = [pc EXCEPT ![c] = "waiting"]
  /\ Return(t)
  /\ UNCHANGED m_awaiter

(* The compare_exchange_strong: the coroutine suspends, or goes on because *)
(* the event has been set meanwhile.                                       *)
AwaitSuspend(t, c) ==
  /\ Running(t, c) /\ pc[c] = "storing"
  /\ IF m_state = "not_set"
     THEN /\ m_state' = "not_set_consumer_waiting"
          /\ pc' = [pc EXCEPT ![c] = "waiting"]
          /\ Return(t)
     ELSE /\ pc' = [pc EXCEPT ![c] = "running"]
          /\ UNCHANGED <<m_state, stack>>
  /\ UNCHANGED m_awaiter

-----------------------------------------------------------------------------
(* Mutant: the handle is taken out of m_awaiter before it is resumed.      *)
SetClearing(t, c) ==
  /\ Running(t, c) /\ pc[c] = "running"
  /\ m_state' = "set"
  /\ IF m_state = "not_set_consumer_waiting"
     THEN m_awaiter' = Null /\ pc' = [pc EXCEPT ![c] = "setting"]
     ELSE UNCHANGED <<m_awaiter, pc>>
  /\ UNCHANGED stack

(* set(): the exchange.                                                    *)
Set(t, c) ==
  /\ Running(t, c) /\ pc[c] = "running"
  /\ m_state' = "set"
  /\ pc' = IF m_state = "not_set_consumer_waiting" THEN [pc EXCEPT ![c] = "setting"] ELSE pc
  /\ UNCHANGED <<m_awaiter, stack>>

(* m_awaiter.resume(), in which the consumer may await the event again.    *)
ResumeAwaiter(t, c) ==
  /\ Running(t, c) /\ pc[c] = "setting"
  /\ pc' = [pc EXCEPT ![c] = "resumed", ![m_awaiter] = "running"]
  /\ Resume(t, m_awaiter)
  /\ UNCHANGED <<m_state, m_awaiter>>

SetReturns(t, c) ==
  /\ Running(t, c) /\ pc[c] = "resumed"
  /\ pc' = [pc EXCEPT ![c] = "running"]
  /\ UNCHANGED <<m_state, m_awaiter, stack>>

(* Mutant: reset() stores not_set whatever the state.                      *)
ResetByStore(t, c) ==
  /\ Running(t, c) /\ pc[c] = "running"
  /\ m_state' = "not_set"
  /\ UNCHANGED <<m_awaiter, pc, stack>>

(* reset(): the compare_exchange only succeeds on an event that is set.    *)
Reset(t, c) ==
  /\ Running(t, c) /\ pc[c] = "running"
  /\ m_state = "set"
  /\ m_state' = "not_set"
  /\ UNCHANGED <<m_awaiter, pc, stack>>

Library(t, c) ==
  \/ StoreAwaiter(t, c) \/ AwaitSuspend(t, c)
  \/ ResumeAwaiter(t, c) \/ SetReturns(t, c)

Client(t, c) ==
  \/ Enter(t, c) \/ Leave(t, c) \/ (\E d \in Coroutines : Switch(t, c, d))
  \/ AwaitReady(t, c) \/ Set(t, c) \/ Reset(t, c)

Next == \E t \in Threads, c \in Coroutines : Library(t, c) \/ Client(t, c)

Spec == Init /\ [][Next]_vars
-----------------------------------------------------------------------------
TypeOK ==
  /\ m_state \in States
  /\ m_awaiter \in Coroutines \cup {Null}
  /\ pc \in [Coroutines -> Locations]
  /\ StackTypeOK

(* The consumer that waits is the one m_awaiter names, and it is announced *)
(* in m_state or is about to be resumed by exactly one set().              *)
ConsumerListed ==
  /\ \A c \in Coroutines : pc[c] = "waiting" =>
       /\ m_awaiter = c
       /\ m_state = "not_set_consumer_waiting" <=> \A d \in Coroutines : pc[d] # "setting"
  /\ m_state = "not_set_consumer_waiting" => \E c \in Coroutines : pc[c] = "waiting"
  /\ \A d, e \in Coroutines : pc[d] = "setting" /\ pc[e] = "setting" => d = e
=============================================================================
