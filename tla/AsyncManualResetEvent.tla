----------------------- MODULE AsyncManualResetEvent -----------------------
(***************************************************************************)
(* cppcoro::async_manual_reset_event (async_manual_reset_event.hpp and     *)
(* .cpp): coroutines wait until some thread calls set(), which resumes     *)
(* them one after the other inside the call.                               *)
(*                                                                         *)
(* A coroutine awaits the event with one operation at a time, which is     *)
(* named by its coroutine.  A step is one access to the atomic m_state     *)
(* with the thread-local work around it; a spurious failure of             *)
(* compare_exchange_weak reloads the same value and is a stuttering step.  *)
(***************************************************************************)
EXTENDS CoroutineRuntime

CONSTANTS
  SetState,     (* this: the event is set                                  *)
  Null

ASSUME EventConstants ==
  Null \notin Coroutines /\ SetState \notin Coroutines \cup {Null}

VARIABLES
  m_state,      (* SetState, Null or the most recently queued operation    *)
  m_next,       (* async_manual_reset_event_operation::m_next              *)
  current,      (* what a set() in progress has still to resume            *)
  pc            (* where each coroutine is                                 *)

vars == <<m_state, m_next, current, pc, stack>>

Pointer == Coroutines \cup {Null}

(***************************************************************************)
(* parked     suspended on something else                                  *)
(* running    executing client code, or nested under it                    *)
(* unready    await_ready has returned false                               *)
(* pushing    in the loop of await_suspend, m_next is written              *)
(* queued     suspended by await_suspend                                   *)
(* setting    in the loop of set(), or in a resume() it makes              *)
(***************************************************************************)
Locations == {"parked", "running", "unready", "pushing", "queued", "setting"}

Queued == {c \in Coroutines : pc[c] = "queued"}

(* The constructor takes the initial state as a parameter.                 *)
Init ==
  /\ m_state \in {SetState, Null}
  /\ m_next = [c \in Coroutines |-> Null]
  /\ current = [c \in Coroutines |-> Null]
  /\ pc = [c \in Coroutines |-> "parked"]
  /\ StackInit

-----------------------------------------------------------------------------
(* The client: coroutines run, suspend on other awaitables and are resumed *)
(* on an idle thread or from another coroutine.                            *)
Enter(t, c) ==
  /\ Idle(t) \/ \E d \in Coroutines : Running(t, d) /\ pc[d] = "running"
  /\ pc[c] = "parked"
  /\ pc' = [pc EXCEPT ![c] = "running"]
  /\ Resume(t, c)
  /\ UNCHANGED <<m_state, m_next, current>>

Leave(t, c) ==
  /\ Running(t, c) /\ pc[c] = "running"
  /\ pc' = [pc EXCEPT ![c] = "parked"]
  /\ Return(t)
  /\ UNCHANGED <<m_state, m_next, current>>

(* The running coroutine awaits something that transfers to another one.   *)
Switch(t, c, d) ==
  /\ Running(t, c) /\ pc[c] = "running"
  /\ pc[d] = "parked"
  /\ pc' = [pc EXCEPT ![c] = "parked", ![d] = "running"]
  /\ Transfer(t, d)
  /\ UNCHANGED <<m_state, m_next, current>>

-----------------------------------------------------------------------------
(* co_await event: await_ready reads m_state; a set event does not suspend. *)
AwaitReady(t, c) ==
  /\ Running(t, c) /\ pc[c] = "running"
  /\ m_state # SetState
  /\ pc' = [pc EXCEPT ![c] = "unready"]
  /\ UNCHANGED <<m_state, m_next, current, stack>>

(* Mutant: the value this, which means set, is taken for an operation.     *)
ExamineUntested(c) ==
  /\ pc' = [pc EXCEPT ![c] = "pushing"]
  /\ m_next' = [m_next EXCEPT ![c] = m_state]

(* A value read from m_state: the event is set and the coroutine goes on,  *)
(* or the value becomes m_next and is what the compare_exchange expects.   *)
Examine(c) ==
  IF m_state = SetState
  THEN /\ pc' = [pc EXCEPT ![c] = "running"]
       /\ m_next' = [m_next EXCEPT ![c] = Null]
  ELSE /\ pc' = [pc EXCEPT ![c] = "pushing"]
       /\ m_next' = [m_next EXCEPT ![c] = m_state]

AwaitLoad(t, c) ==
  /\ Running(t, c) /\ pc[c] = "unready"
  /\ Examine(c)
  /\ UNCHANGED <<m_state, current, stack>>

(* Mutant: a plain store publishes the operation.                          *)
PushByStore(t, c) ==
  /\ Running(t, c) /\ pc[c] = "pushing"
  /\ m_state' = c
  /\ pc' = [pc EXCEPT ![c] = "queued"]
  /\ Return(t)
  /\ UNCHANGED <<m_next, current>>

(* compare_exchange_weak: from its success on the coroutine is suspended   *)
(* and await_suspend does not touch the operation again.                   *)
AwaitPush(t, c) ==
  /\ Running(t, c) /\ pc[c] = "pushing"
  /\ IF m_state = m_next[c]
     THEN /\ m_state' = c
          /\ pc' = [pc EXCEPT ![c] = "queued"]
          /\ Return(t)
          /\ UNCHANGED m_next
     ELSE /\ Examine(c)
          /\ UNCHANGED <<m_state, stack>>
  /\ UNCHANGED current

-----------------------------------------------------------------------------
(* set(): the exchange, which does nothing to an event that is set.        *)
Set(t, c) ==
  /\ Running(t, c) /\ pc[c] = "running"
  /\ m_state # SetState
  /\ m_state' = SetState
  /\ current' = [current EXCEPT ![c] = m_state]
  /\ pc' = [pc EXCEPT ![c] = "setting"]
  /\ UNCHANGED <<m_next, stack>>

(* Mutant: the loop ends after one waiter.                                 *)
ResumeOne(t, c) ==
  /\ Running(t, c) /\ pc[c] = "setting"
  /\ current[c] # Null
  /\ current' = [current EXCEPT ![c] = Null]
  /\ m_next' = [m_next EXCEPT ![current[c]] = Null]
  /\ pc' = [pc EXCEPT ![current[c]] = "running"]
  /\ Resume(t, current[c])
  /\ UNCHANGED m_state

(* One iteration: the operation behind is read before the resume, during   *)
(* which the operation resumed dies or is used to await again.             *)
ResumeWaiter(t, c) ==
  /\ Running(t, c) /\ pc[c] = "setting"
  /\ current[c] # Null
  /\ LET w == current[c] IN
       /\ current' = [current EXCEPT ![c] = m_next[w]]
       /\ m_next' = [m_next EXCEPT ![w] = Null]
       /\ pc' = [pc EXCEPT ![w] = "running"]
       /\ Resume(t, w)
  /\ UNCHANGED m_state

SetReturns(t, c) ==
  /\ Running(t, c) /\ pc[c] = "setting"
  /\ current[c] = Null
  /\ pc' = [pc EXCEPT ![c] = "running"]
  /\ UNCHANGED <<m_state, m_next, current, stack>>

(* Mutant: reset() stores nullptr whatever the state.                      *)
ResetByStore(t, c) ==
  /\ Running(t, c) /\ pc[c] = "running"
  /\ m_state' = Null
  /\ UNCHANGED <<m_next, current, pc, stack>>

(* reset(): the compare_exchange only succeeds on an event that is set.    *)
Reset(t, c) ==
  /\ Running(t, c) /\ pc[c] = "running"
  /\ m_state = SetState
  /\ m_state' = Null
  /\ UNCHANGED <<m_next, current, pc, stack>>

Library(t, c) ==
  \/ AwaitLoad(t, c) \/ AwaitPush(t, c)
  \/ ResumeWaiter(t, c) \/ SetReturns(t, c)

Client(t, c) ==
  \/ Enter(t, c) \/ Leave(t, c) \/ (\E d \in Coroutines : Switch(t, c, d))
  \/ AwaitReady(t, c) \/ Set(t, c) \/ Reset(t, c)

Next == \E t \in Threads, c \in Coroutines : Library(t, c) \/ Client(t, c)

Spec == Init /\ [][Next]_vars

(* A thread inside the library keeps going, though its compare_exchange    *)
(* may fail each time: nothing that others do to the event is bounded.     *)
(* The client code that d has resumed returns to d sometime, however many  *)
(* coroutines take over from one another.  Nobody is obliged to call set(). *)
Fairness ==
  /\ \A t \in Threads : WF_vars(\E c \in Coroutines : Library(t, c))
  /\ \A d \in Coroutines :
       SF_vars(\E t \in Threads, c \in Coroutines : Nested(t, d) /\ Leave(t, c))

FairSpec == Spec /\ Fairness
-----------------------------------------------------------------------------
TypeOK ==
  /\ m_state \in Pointer \cup {SetState}
  /\ m_next \in [Coroutines -> Pointer]
  /\ current \in [Coroutines -> Pointer]
  /\ pc \in [Coroutines -> Locations]
  /\ StackTypeOK

(* Every pointer to an operation, in m_state, in a set() in progress or in *)
(* an operation of a list, leads to a coroutine that is still suspended.   *)
WaitersOnly ==
  /\ m_state \in Queued \cup {Null, SetState}
  /\ \A c \in Coroutines : current[c] \in Queued \cup {Null}
  /\ \A c \in Queued : m_next[c] \in Queued \cup {Null}

(* No waiter is in two lists, although a coroutine resumed by a set() may  *)
(* reset the event and await it again, or call set(), before the first     *)
(* set() goes on with its list.                                            *)
NoSharedWaiter ==
  /\ \A c \in Coroutines : current[c] \in Coroutines =>
       /\ current[c] # m_state
       /\ \A d \in Coroutines : current[d] = current[c] => d = c
  /\ \A c \in Queued : m_next[c] \in Coroutines =>
       /\ m_next[c] # m_state
       /\ \A d \in Coroutines : current[d] # m_next[c]
       /\ \A d \in Queued : m_next[d] = m_next[c] => d = c

(* No waiter is lost: no set of suspended coroutines is cut off from       *)
(* m_state and from the lists of the set() calls in progress.  While the   *)
(* event is set and nobody is inside set(), nobody waits.                  *)
NoLostWaiter ==
  \A lost \in SUBSET Queued : lost # {} =>
    \E w \in lost :
      \/ w = m_state
      \/ \E c \in Coroutines : pc[c] = "setting" /\ current[c] = w
      \/ \E d \in Queued \ lost : m_next[d] = w

(* The lists hold the suspended coroutines, all of them and each once: no   *)
(* await is missed by a set() and none is resumed twice, however set(),    *)
(* reset() and co_await overlap and nest.                                  *)
ListsExact == WaitersOnly /\ NoSharedWaiter /\ NoLostWaiter
=============================================================================
