------------------------------ MODULE SyncWait ------------------------------
(***************************************************************************)
(* cppcoro::sync_wait (sync_wait.hpp, detail/sync_wait_task.hpp) and the   *)
(* lightweight_manual_reset_event a thread waits on: a thread blocks until *)
(* an awaitable has completed.                                             *)
(*                                                                         *)
(* Coroutines are the sync_wait_tasks, one per call.  A thread calls       *)
(* sync_wait when it runs no coroutine; its event lives in the frame of    *)
(* that call, at an address that its next call reuses.  What the awaitable *)
(* does is left open: it suspends its sync_wait_task and resumes it on any *)
(* thread that is free, or from the awaitable of another call, and yields  *)
(* a result or throws.  A step is one access to an m_value with the        *)
(* thread-local work around it.                                            *)
(***************************************************************************)
EXTENDS CoroutineRuntime

CONSTANTS
  Outcomes,     (* results and exceptions                                  *)
  NoOutcome,
  Null

ASSUME SyncWaitConstants ==
  /\ NoOutcome \notin Outcomes
  /\ Null \notin Coroutines \cup Threads
  /\ Threads \cap Coroutines = {}

VARIABLES
  call,         (* the sync_wait_task of the call a thread is in           *)
  waited,       (* the threads that have returned from event.wait()        *)
  got,          (* what the last call of a thread has returned or thrown   *)
  m_value,      (* of the event of a thread                                *)
  m_event,      (* the thread whose event a promise points to              *)
  result,       (* m_result or m_exception of a promise                    *)
  pc            (* where each sync_wait_task is                            *)

threadVars == <<call, waited, got>>
promiseVars == <<m_event, result>>
vars == <<threadVars, m_value, promiseVars, pc, stack>>

(***************************************************************************)
(* unborn     not created yet                                              *)
(* running    executing the awaitable's code                               *)
(* parked     suspended by the awaitable                                   *)
(* notifying  at the final suspend point, before the store of set()        *)
(* waking     in set(), before the futex call                              *)
(* final      suspended at the final suspend point                         *)
(* destroyed  destroyed by ~sync_wait_task                                 *)
(* left       destroyed while a thread was still in set()                  *)
(***************************************************************************)
Locations ==
  {"unborn", "running", "parked", "notifying", "waking", "final", "destroyed", "left"}

Free(t) == Idle(t) /\ call[t] = Null

Init ==
  /\ call = [t \in Threads |-> Null]
  /\ waited = {}
  /\ got = [t \in Threads |-> NoOutcome]
  /\ m_value = [t \in Threads |-> 0]
  /\ m_event = [k \in Coroutines |-> Null]
  /\ result = [k \in Coroutines |-> NoOutcome]
  /\ pc = [k \in Coroutines |-> "unborn"]
  /\ StackInit

-----------------------------------------------------------------------------
(* Mutant: start() resumes the task without storing m_event.               *)
StartUnset(t, k) ==
  /\ Free(t)
  /\ pc[k] = "unborn"
  /\ call' = [call EXCEPT ![t] = k]
  /\ m_value' = [m_value EXCEPT ![t] = 0]
  /\ pc' = [pc EXCEPT ![k] = "running"]
  /\ Resume(t, k)
  /\ UNCHANGED <<waited, got, m_event, result>>

(* sync_wait(): creates task and event; start() runs the task until it     *)
(* suspends.                                                               *)
Start(t, k) ==
  /\ Free(t)
  /\ pc[k] = "unborn"
  /\ call' = [call EXCEPT ![t] = k]
  /\ m_value' = [m_value EXCEPT ![t] = 0]
  /\ m_event' = [m_event EXCEPT ![k] = t]
  /\ pc' = [pc EXCEPT ![k] = "running"]
  /\ Resume(t, k)
  /\ UNCHANGED <<waited, got, result>>

(* Mutant: wait() takes the return of the futex call for the event.        *)
WaitOnce(t) ==
  /\ call[t] # Null /\ Idle(t) /\ t \notin waited
  /\ waited' = waited \cup {t}
  /\ UNCHANGED <<call, got, m_value, promiseVars, pc, stack>>

(* event.wait(): a load that finds the event set.  The futex operation of  *)
(* wait() is FUTEX_WAKE_PRIVATE, which does not block and does not fail,   *)
(* so the loop loads again and again.  A load that finds 0 changes nothing.*)
Wait(t) ==
  /\ call[t] # Null /\ Idle(t) /\ t \notin waited
  /\ m_value[t] = 1
  /\ waited' = waited \cup {t}
  /\ UNCHANGED <<call, got, m_value, promiseVars, pc, stack>>

(* task.result() is returned or thrown; event and task are destroyed.      *)
Finish(t) ==
  /\ t \in waited
  /\ got' = [got EXCEPT ![t] = result[call[t]]]
  /\ pc' = [pc EXCEPT ![call[t]] = IF @ = "waking" THEN "left" ELSE "destroyed"]
  /\ call' = [call EXCEPT ![t] = Null]
  /\ waited' = waited \ {t}
  /\ UNCHANGED <<m_value, promiseVars, stack>>

-----------------------------------------------------------------------------
(* The awaitable suspends the task and resumes it.                         *)
Leave(t, k) ==
  /\ Running(t, k) /\ pc[k] = "running"
  /\ pc' = [pc EXCEPT ![k] = "parked"]
  /\ Return(t)
  /\ UNCHANGED <<threadVars, m_value, promiseVars>>

Enter(t, k) ==
  /\ Free(t) \/ \E l \in Coroutines : Running(t, l) /\ pc[l] = "running"
  /\ pc[k] = "parked"
  /\ pc' = [pc EXCEPT ![k] = "running"]
  /\ Resume(t, k)
  /\ UNCHANGED <<threadVars, m_value, promiseVars>>

(* It suspends the task k by transferring to the task l.                   *)
Switch(t, k, l) ==
  /\ Running(t, k) /\ pc[k] = "running"
  /\ pc[l] = "parked"
  /\ pc' = [pc EXCEPT ![k] = "parked", ![l] = "running"]
  /\ Transfer(t, l)
  /\ UNCHANGED <<threadVars, m_value, promiseVars>>

(* Mutant: the event is set before the result is stored.                   *)
CompleteAfterStore(t, k, o) ==
  /\ Running(t, k)
  /\ \/ /\ pc[k] = "running"
        /\ m_value' = [m_value EXCEPT ![m_event[k]] = 1]
        /\ pc' = [pc EXCEPT ![k] = "notifying"]
        /\ UNCHANGED <<result, stack>>
     \/ /\ pc[k] = "notifying"
        /\ result' = [result EXCEPT ![k] = o]
        /\ pc' = [pc EXCEPT ![k] = "final"]
        /\ Return(t)
        /\ UNCHANGED m_value
  /\ UNCHANGED <<threadVars, m_event>>

(* The awaitable completes: yield_value, return_void or                    *)
(* unhandled_exception, after all of which comes final_suspend.            *)
Complete(t, k, o) ==
  /\ Running(t, k) /\ pc[k] = "running"
  /\ result' = [result EXCEPT ![k] = o]
  /\ pc' = [pc EXCEPT ![k] = "notifying"]
  /\ UNCHANGED <<threadVars, m_value, m_event, stack>>

(* Mutant: the event is only set if the thread waits for it already.       *)
SetIfWaiting(t, k) ==
  /\ Running(t, k) /\ pc[k] = "notifying"
  /\ m_value' = IF Idle(m_event[k]) THEN [m_value EXCEPT ![m_event[k]] = 1] ELSE m_value
  /\ pc' = [pc EXCEPT ![k] = "waking"]
  /\ UNCHANGED <<threadVars, promiseVars, stack>>

(* completion_notifier: set() stores 1 in m_value.                         *)
SetStore(t, k) ==
  /\ Running(t, k) /\ pc[k] = "notifying"
  /\ m_value' = [m_value EXCEPT ![m_event[k]] = 1]
  /\ pc' = [pc EXCEPT ![k] = "waking"]
  /\ UNCHANGED <<threadVars, promiseVars, stack>>

(* The futex call of set() passes on the address of m_value and touches    *)
(* neither event nor promise, which may both be gone.                      *)
SetWake(t, k) ==
  /\ Running(t, k) /\ pc[k] \in {"waking", "left"}
  /\ pc' = [pc EXCEPT ![k] = IF @ = "left" THEN "destroyed" ELSE "final"]
  /\ Return(t)
  /\ UNCHANGED <<threadVars, m_value, promiseVars>>

Library(t) ==
  \/ Wait(t) \/ Finish(t)
  \/ \E k \in Coroutines : SetStore(t, k) \/ SetWake(t, k)

Next ==
  \E t \in Threads :
    \/ Library(t)
    \/ \E k, l \in Coroutines : Switch(t, k, l)
    \/ \E k \in Coroutines :
         Start(t, k) \/ Leave(t, k) \/ Enter(t, k) \/ \E o \in Outcomes : Complete(t, k, o)

Spec == Init /\ [][Next]_vars

(* A thread inside the library keeps going.  The awaitable completes if    *)
(* it gets to run often enough, and is resumed if threads are free often   *)
(* enough.                                                                 *)
Fairness ==
  /\ \A t \in Threads : WF_vars(Library(t))
  /\ \A k \in Coroutines :
       /\ SF_vars(\E t \in Threads : Enter(t, k))
       /\ SF_vars(\E t \in Threads, o \in Outcomes : Complete(t, k, o))

FairSpec == Spec /\ Fairness
-----------------------------------------------------------------------------
TypeOK ==
  /\ call \in [Threads -> Coroutines \cup {Null}]
  /\ waited \subseteq {t \in Threads : call[t] # Null}
  /\ got \in [Threads -> Outcomes \cup {NoOutcome}]
  /\ m_value \in [Threads -> {0, 1}]
  /\ m_event \in [Coroutines -> Threads \cup {Null}]
  /\ \A k \in Coroutines : pc[k] # "unborn" => m_event[k] # Null
  /\ result \in [Coroutines -> Outcomes \cup {NoOutcome}]
  /\ pc \in [Coroutines -> Locations]
  /\ StackTypeOK

(* A task that a thread still runs or will run, or that has yet to store   *)
(* into its event, has not been destroyed by ~sync_wait_task, and the      *)
(* event its m_event points to is the one of its own call, not of a later  *)
(* call of the same thread.  Only set() outlives the task, after its store.*)
NoUseAfterFree ==
  /\ \A t \in Threads : \A i \in 1..Len(stack[t]) : pc[stack[t][i]] # "destroyed"
  /\ \A k \in Coroutines : pc[k] \in {"running", "parked", "notifying"} =>
       call[m_event[k]] = k
=============================================================================
