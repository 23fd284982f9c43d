----------------------------- MODULE AsyncMutex -----------------------------
(***************************************************************************)
(* cppcoro::async_mutex (include/cppcoro/async_mutex.hpp,                  *)
(* lib/async_mutex.cpp): a lock-free mutex whose waiters are coroutines.   *)
(*                                                                         *)
(* A coroutine awaits at most one lock operation at a time, and the        *)
(* operation object lives in its frame, so an operation is named by its    *)
(* coroutine.  A step is one access to the atomic m_state together with    *)
(* the thread-local work and the accesses to memory only the lock holder   *)
(* touches that surround it.  A spurious failure of                        *)
(* compare_exchange_weak reloads the value it compared with and is a       *)
(* stuttering step.                                                        *)
(***************************************************************************)
EXTENDS CoroutineRuntime

CONSTANTS
  NotLocked,    (* async_mutex::not_locked                                 *)
  Null          (* nullptr; as an m_state value, locked_no_waiters         *)

ASSUME MutexConstants ==
  Null \notin Coroutines /\ NotLocked \notin Coroutines \cup {Null}

VARIABLES
  m_state,      (* NotLocked, Null or the most recently queued operation   *)
  m_waiters,    (* head of the holder's list, next to be resumed first     *)
  m_next,       (* async_mutex_lock_operation::m_next                      *)
  oldState,     (* local of await_suspend                                  *)
  waitersHead,  (* local of unlock                                         *)
  next,         (* local of unlock: what is left to reverse                *)
  pc            (* where each coroutine is                                 *)

vars == <<m_state, m_waiters, m_next, oldState, waitersHead, next, pc, stack>>

LockedNoWaiters == Null

Pointer == Coroutines \cup {Null}

(***************************************************************************)
(* parked     suspended on something else, without the lock                *)
(* running    executing (or nested under) client code, without the lock    *)
(* locking    in await_suspend, m_state has been read                      *)
(* queued     suspended by await_suspend                                   *)
(* critical   holds the lock, in client code                               *)
(* away       holds the lock, suspended on something else                  *)
(* takeover   in unlock, the compare_exchange has found new waiters        *)
(* reversing  in unlock, in the loop that reverses the new waiters         *)
(* handoff    in unlock, waitersHead is to be resumed                      *)
(* resuming   in unlock, inside waitersHead->m_awaiter.resume()            *)
(***************************************************************************)
Locations == {"parked", "running", "locking", "queued", "critical", "away",
              "takeover", "reversing", "handoff", "resuming"}

Holding == {"critical", "away", "takeover", "reversing", "handoff"}

Holders == {c \in Coroutines : pc[c] \in Holding}

Queued == {c \in Coroutines : pc[c] = "queued"}

Init ==
  /\ m_state = NotLocked
  /\ m_waiters = Null
  /\ m_next = [c \in Coroutines |-> Null]
  /\ oldState = [c \in Coroutines |-> Null]
  /\ waitersHead = [c \in Coroutines |-> Null]
  /\ next = [c \in Coroutines |-> Null]
  /\ pc = [c \in Coroutines |-> "parked"]
  /\ StackInit

-----------------------------------------------------------------------------
(* The client: coroutines that are started, suspended on other awaitables, *)
(* and resumed on whichever thread completes those, with or without the    *)
(* lock.                                                                   *)

InClientCode(t) == \E c \in Coroutines : Running(t, c) /\ pc[c] \in {"running", "critical"}

Enter(t, c) ==
  /\ Idle(t) \/ InClientCode(t)
  /\ \/ pc[c] = "parked" /\ pc' = [pc EXCEPT ![c] = "running"]
     \/ pc[c] = "away" /\ pc' = [pc EXCEPT ![c] = "critical"]
  /\ Resume(t, c)
  /\ UNCHANGED <<m_state, m_waiters, m_next, oldState, waitersHead, next>>

Leave(t, c) ==
  /\ Running(t, c)
  /\ \/ pc[c] = "running" /\ pc' = [pc EXCEPT ![c] = "parked"]
     \/ pc[c] = "critical" /\ pc' = [pc EXCEPT ![c] = "away"]
  /\ Return(t)
  /\ UNCHANGED <<m_state, m_waiters, m_next, oldState, waitersHead, next>>

(* The running coroutine awaits something that transfers to another one.   *)
Switch(t, c, d) ==
  /\ Running(t, c) /\ pc[c] \in {"running", "critical"} /\ pc[d] \in {"parked", "away"}
  /\ pc' = [pc EXCEPT ![c] = IF @ = "running" THEN "parked" ELSE "away",
                     ![d] = IF @ = "parked" THEN "running" ELSE "critical"]
  /\ Transfer(t, d)
  /\ UNCHANGED <<m_state, m_waiters, m_next, oldState, waitersHead, next>>

-----------------------------------------------------------------------------
(* Mutant: try_lock compares with locked_no_waiters.                       *)
TryLockOnLocked(t, c) ==
  /\ Running(t, c) /\ pc[c] = "running"
  /\ m_state = LockedNoWaiters
  /\ pc' = [pc EXCEPT ![c] = "critical"]
  /\ UNCHANGED <<m_state, m_waiters, m_next, oldState, waitersHead, next, stack>>

(* try_lock: a failed compare_exchange returns false and changes nothing.  *)
TryLock(t, c) ==
  /\ Running(t, c) /\ pc[c] = "running"
  /\ m_state = NotLocked
  /\ m_state' = LockedNoWaiters
  /\ pc' = [pc EXCEPT ![c] = "critical"]
  /\ UNCHANGED <<m_waiters, m_next, oldState, waitersHead, next, stack>>

(* co_await lock_async(): await_ready is false, await_suspend reads m_state. *)
LockAsync(t, c) ==
  /\ Running(t, c) /\ pc[c] = "running"
  /\ oldState' = [oldState EXCEPT ![c] = m_state]
  /\ pc' = [pc EXCEPT ![c] = "locking"]
  /\ UNCHANGED <<m_state, m_waiters, m_next, waitersHead, next, stack>>

(* The branch of the loop that saw not_locked: no suspension on success.   *)
AwaitAcquire(t, c) ==
  /\ Running(t, c) /\ pc[c] = "locking"
  /\ oldState[c] = NotLocked
  /\ IF m_state = oldState[c]
     THEN /\ m_state' = LockedNoWaiters
          /\ pc' = [pc EXCEPT ![c] = "critical"]
          /\ oldState' = [oldState EXCEPT ![c] = Null]
     ELSE /\ oldState' = [oldState EXCEPT ![c] = m_state]
          /\ UNCHANGED <<m_state, pc>>
  /\ UNCHANGED <<m_waiters, m_next, waitersHead, next, stack>>

(* Mutant: the branch is taken whatever was read from m_state.             *)
EnqueueUntested(t, c) ==
  /\ Running(t, c) /\ pc[c] = "locking"
  /\ m_next' = [m_next EXCEPT ![c] = oldState[c]]
  /\ m_state = oldState[c]
  /\ m_state' = c
  /\ pc' = [pc EXCEPT ![c] = "queued"]
  /\ oldState' = [oldState EXCEPT ![c] = Null]
  /\ Return(t)
  /\ UNCHANGED <<m_waiters, waitersHead, next>>

(* The other branch: push this operation.  From the moment the push        *)
(* succeeds the coroutine counts as suspended and await_suspend returns    *)
(* without touching the operation again.                                   *)
AwaitEnqueue(t, c) ==
  /\ Running(t, c) /\ pc[c] = "locking"
  /\ oldState[c] # NotLocked
  /\ m_next' = [m_next EXCEPT ![c] = oldState[c]]
  /\ IF m_state = oldState[c]
     THEN /\ m_state' = c
          /\ pc' = [pc EXCEPT ![c] = "queued"]
          /\ oldState' = [oldState EXCEPT ![c] = Null]
          /\ Return(t)
     ELSE /\ oldState' = [oldState EXCEPT ![c] = m_state]
          /\ UNCHANGED <<m_state, pc, stack>>
  /\ UNCHANGED <<m_waiters, waitersHead, next>>

-----------------------------------------------------------------------------
(* Mutant: m_waiters forgets the operations behind the one resumed.        *)
HandOffForgettingRest(t, c, w) ==
  /\ m_waiters' = Null
  /\ m_next' = [m_next EXCEPT ![w] = Null]
  /\ waitersHead' = [waitersHead EXCEPT ![c] = Null]
  /\ pc' = [pc EXCEPT ![c] = "resuming", ![w] = "critical"]
  /\ Resume(t, w)
  /\ UNCHANGED <<m_state, oldState, next>>

(* The end of unlock: w leaves the list and is resumed inside the call,    *)
(* which makes it the owner.  Its operation object dies with the co_await. *)
HandOff(t, c, w) ==
  /\ m_waiters' = m_next[w]
  /\ m_next' = [m_next EXCEPT ![w] = Null]
  /\ waitersHead' = [waitersHead EXCEPT ![c] = Null]
  /\ pc' = [pc EXCEPT ![c] = "resuming", ![w] = "critical"]
  /\ Resume(t, w)
  /\ UNCHANGED <<m_state, oldState, next>>

(* Mutant: a plain store of not_locked.                                    *)
ReleaseByStore(t, c) ==
  /\ Running(t, c) /\ pc[c] = "critical"
  /\ m_waiters = Null
  /\ m_state' = NotLocked
  /\ pc' = [pc EXCEPT ![c] = "running"]
  /\ UNCHANGED <<m_waiters, m_next, oldState, waitersHead, next, stack>>

(* unlock with m_waiters empty: release unless someone has queued.         *)
UnlockRelease(t, c) ==
  /\ Running(t, c) /\ pc[c] = "critical"
  /\ m_waiters = Null
  /\ IF m_state = LockedNoWaiters
     THEN /\ m_state' = NotLocked
          /\ pc' = [pc EXCEPT ![c] = "running"]
     ELSE /\ pc' = [pc EXCEPT ![c] = "takeover"]
          /\ UNCHANGED m_state
  /\ UNCHANGED <<m_waiters, m_next, oldState, waitersHead, next, stack>>

(* unlock with m_waiters non-empty never looks at m_state.                 *)
UnlockHandOff(t, c) ==
  /\ Running(t, c) /\ pc[c] = "critical"
  /\ m_waiters # Null
  /\ HandOff(t, c, m_waiters)

(* Mutants: the new waiters are read but left in m_state, or the exchange  *)
(* stores not_locked.                                                      *)
TakeStoring(t, c, s) ==
  /\ Running(t, c) /\ pc[c] = "takeover"
  /\ next' = [next EXCEPT ![c] = m_state]
  /\ m_state' = s
  /\ pc' = [pc EXCEPT ![c] = "reversing"]
  /\ UNCHANGED <<m_waiters, m_next, oldState, waitersHead, stack>>

TakeByLoad(t, c) == TakeStoring(t, c, m_state)

TakeUnlocking(t, c) == TakeStoring(t, c, NotLocked)

(* m_state.exchange(locked_no_waiters)                                     *)
TakeNewWaiters(t, c) ==
  /\ Running(t, c) /\ pc[c] = "takeover"
  /\ next' = [next EXCEPT ![c] = m_state]
  /\ m_state' = LockedNoWaiters
  /\ pc' = [pc EXCEPT ![c] = "reversing"]
  /\ UNCHANGED <<m_waiters, m_next, oldState, waitersHead, stack>>

(* Mutants: m_next is not rewritten, or the list is taken as it is.        *)
ReverseWithoutLink(t, c) ==
  /\ Running(t, c) /\ pc[c] = "reversing"
  /\ waitersHead' = [waitersHead EXCEPT ![c] = next[c]]
  /\ next' = [next EXCEPT ![c] = m_next[next[c]]]
  /\ pc' = [pc EXCEPT ![c] = IF m_next[next[c]] = Null THEN "handoff" ELSE @]
  /\ UNCHANGED <<m_state, m_waiters, m_next, oldState, stack>>

NoReversal(t, c) ==
  /\ Running(t, c) /\ pc[c] = "reversing"
  /\ waitersHead' = [waitersHead EXCEPT ![c] = next[c]]
  /\ next' = [next EXCEPT ![c] = Null]
  /\ pc' = [pc EXCEPT ![c] = "handoff"]
  /\ UNCHANGED <<m_state, m_waiters, m_next, oldState, stack>>

(* One iteration of the reversing loop.                                    *)
ReverseStep(t, c) ==
  /\ Running(t, c) /\ pc[c] = "reversing"
  /\ LET n == next[c] IN
       /\ m_next' = [m_next EXCEPT ![n] = waitersHead[c]]
       /\ waitersHead' = [waitersHead EXCEPT ![c] = n]
       /\ next' = [next EXCEPT ![c] = m_next[n]]
       /\ pc' = [pc EXCEPT ![c] = IF m_next[n] = Null THEN "handoff" ELSE @]
  /\ UNCHANGED <<m_state, m_waiters, oldState, stack>>

ResumeFirst(t, c) ==
  /\ Running(t, c) /\ pc[c] = "handoff"
  /\ HandOff(t, c, waitersHead[c])

(* The resumed coroutine has suspended or finished: unlock returns.        *)
UnlockReturns(t, c) ==
  /\ Running(t, c) /\ pc[c] = "resuming"
  /\ pc' = [pc EXCEPT ![c] = "running"]
  /\ UNCHANGED <<m_state, m_waiters, m_next, oldState, waitersHead, next, stack>>

Unlock(t, c) == UnlockRelease(t, c) \/ UnlockHandOff(t, c)

Library(t, c) ==
  \/ AwaitAcquire(t, c) \/ AwaitEnqueue(t, c)
  \/ TakeNewWaiters(t, c) \/ ReverseStep(t, c) \/ ResumeFirst(t, c)
  \/ UnlockReturns(t, c)

Client(t, c) ==
  \/ Enter(t, c) \/ Leave(t, c) \/ (\E d \in Coroutines : Switch(t, c, d))
  \/ TryLock(t, c) \/ LockAsync(t, c) \/ Unlock(t, c)

Next == \E t \in Threads, c \in Coroutines : Library(t, c) \/ Client(t, c)

Spec == Init /\ [][Next]_vars

(***************************************************************************)
(* A thread inside the library keeps going (weak fairness).  The client is *)
(* asked for what any lock user must grant: a coroutine without the lock   *)
(* that keeps its thread returns control sometime, and a holder is resumed *)
(* and unlocks sometime, however often others get in between (strong       *)
(* fairness).                                                              *)
(***************************************************************************)
Fairness ==
  /\ \A t \in Threads : WF_vars(\E c \in Coroutines : Library(t, c))
  /\ \A c \in Coroutines :
       /\ SF_vars(\E t \in Threads : pc[c] = "running" /\ Leave(t, c))
       /\ SF_vars(\E t \in Threads : pc[c] = "away" /\ Enter(t, c))
       /\ SF_vars(\E t \in Threads : Unlock(t, c))

FairSpec == Spec /\ Fairness
-----------------------------------------------------------------------------
TypeOK ==
  /\ m_state \in Pointer \cup {NotLocked}
  /\ m_waiters \in Pointer
  /\ m_next \in [Coroutines -> Pointer]
  /\ oldState \in [Coroutines -> Pointer \cup {NotLocked}]
  /\ waitersHead \in [Coroutines -> Pointer]
  /\ next \in [Coroutines -> Pointer]
  /\ pc \in [Coroutines -> Locations]
  /\ StackTypeOK

(* At most one coroutine holds the lock, counting the one that is inside   *)
(* unlock and has not yet handed it over.                                  *)
MutualExclusion == \A c, d \in Holders : c = d

(* No waiter is stranded: while a coroutine is queued there is an owner    *)
(* whose unlock will find it, so the lock is never free with a waiter.     *)
NoStrandedWaiter ==
  /\ Queued # {} => Holders # {}
  /\ m_state = NotLocked <=> Holders = {}

(* The assertions of async_mutex.cpp: at the start of unlock, after the    *)
(* exchange, before the resume, and those of the destructor, which may run *)
(* when no coroutine waits for the lock.                                   *)
SourceAssertions ==
  /\ \A c \in Coroutines :
       /\ pc[c] = "critical" => m_state # NotLocked
       /\ pc[c] = "takeover" => m_state \notin {LockedNoWaiters, NotLocked}
       /\ pc[c] = "handoff" => waitersHead[c] # Null
  /\ Queued = {} => m_state \in {NotLocked, LockedNoWaiters} /\ m_waiters = Null

(* The lists hold suspended coroutines only: whatever the mutex, the holder *)
(* inside unlock or a queued operation points to is still queued, so unlock *)
(* never resumes, or writes into the frame of, a coroutine that has moved   *)
(* on.                                                                      *)
WaitersOnly ==
  /\ m_state \in Queued \cup {LockedNoWaiters, NotLocked}
  /\ m_waiters \in Queued \cup {Null}
  /\ \A c \in Coroutines : {waitersHead[c], next[c]} \subseteq Queued \cup {Null}
  /\ \A c \in Queued : m_next[c] \in Queued \cup {Null}

(* No waiter is in two lists, or twice in one: two pointers to the same     *)
(* operation would resume its coroutine twice.                              *)
NoSharedWaiter ==
  /\ \A c \in Coroutines :
       /\ waitersHead[c] \in Coroutines => waitersHead[c] \notin {m_state, m_waiters, next[c]}
       /\ next[c] \in Coroutines => next[c] \notin {m_state, m_waiters}
  /\ m_waiters \in Coroutines => m_waiters # m_state
  /\ \A c \in Queued : m_next[c] \in Coroutines =>
       /\ m_next[c] \notin {m_state, m_waiters}
       /\ \A d \in Coroutines : m_next[c] \notin {waitersHead[d], next[d]}
       /\ \A d \in Queued : m_next[d] = m_next[c] => d = c

Heads ==
  {m_state, m_waiters} \cup {waitersHead[c] : c \in Coroutines} \cup {next[c] : c \in Coroutines}

(* No waiter is lost: no set of queued operations is cut off from the heads *)
(* of the lists, so following m_next from the heads meets every one of them *)
(* and there is no cycle.                                                   *)
NoLostWaiter ==
  \A lost \in SUBSET Queued : lost # {} =>
    \E w \in lost : w \in Heads \/ \E d \in Queued \ lost : m_next[d] = w

(* Under the fairness assumed of the client, a coroutine that has queued   *)
(* acquires the lock (one still in the compare_exchange loop may lose the  *)
(* race for ever: await_suspend is lock-free, not wait-free).              *)
QueuedAcquires ==
  \A c \in Coroutines : pc[c] = "queued" ~> pc[c] = "critical"

(* The lists hold the queued operations, all of them and each once: unlock *)
(* hands the mutex on to every one that asks for it, and only once.        *)
ListsExact == WaitersOnly /\ NoSharedWaiter /\ NoLostWaiter
=============================================================================
