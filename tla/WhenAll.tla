------------------------------ MODULE WhenAll -------------------------------
(***************************************************************************)
(* cppcoro::when_all and when_all_ready over a container or tuple of       *)
(* awaitables (when_all.hpp, when_all_ready.hpp, detail/when_all_*.hpp):   *)
(* a coroutine starts a set of tasks one after the other and suspends      *)
(* until the last of them has completed.                                   *)
(*                                                                         *)
(* when_all_counter counts the tasks and the awaiting coroutine; whoever   *)
(* brings m_count to zero makes the coroutine continue.  A step is one     *)
(* access to m_count with the thread-local work around it.                 *)
(***************************************************************************)
EXTENDS CoroutineRuntime, FiniteSets

CONSTANTS
  N,            (* upper bound of the number of awaitables                 *)
  Parent,       (* the coroutine that awaits                               *)
  Values,       (* what an awaitable may return                            *)
  Exceptions,   (* what it may throw                                       *)
  NoOutcome,
  Null

(* The when_all_task of the i-th awaitable.                                *)
Children == 1..N

ASSUME WhenAllConstants ==
  /\ N \in Nat
  /\ Coroutines = Children \cup {Parent}
  /\ Parent \notin Children /\ Null \notin Coroutines
  /\ Values \cap Exceptions = {} /\ NoOutcome \notin Values \cup Exceptions

VARIABLES
  size,         (* number of tasks                                         *)
  alive,        (* whether when_all_ready_awaitable exists, with its tasks *)
  m_count,
  m_awaiting_coroutine,
  index,        (* the next task that start_tasks has to start             *)
  outcome,      (* of a task: m_result or m_exception                      *)
  result,       (* what the co_await has returned or thrown                *)
  pc

objectVars == <<size, alive>>

counterVars == <<m_count, m_awaiting_coroutine>>

vars == <<objectVars, counterVars, index, outcome, result, pc, stack>>

Tasks == 1..size

(***************************************************************************)
(* parked     suspended on something else                                  *)
(* running    executing its own code, or nested under it                   *)
(* starting   the parent in start_tasks, or in a resume() it makes         *)
(* arriving   the parent in when_all_counter::try_await, the handle stored *)
(* awaiting   the parent, suspended by await_suspend                       *)
(* initial    a task at its initial suspend point, or not yet created      *)
(* completing a task in completion_notifier, before its fetch_sub          *)
(* resuming   the task whose fetch_sub was the last                        *)
(* final      that task, inside m_awaiting_coroutine.resume()              *)
(* done       a task, when completion_notifier has returned                *)
(***************************************************************************)
ParentLocations == {"parked", "running", "starting", "arriving", "awaiting"}

TaskLocations == {"initial", "running", "parked", "completing", "resuming", "final", "done"}

(* The tasks that have not yet counted themselves down.                    *)
Outstanding == {i \in Tasks : pc[i] \notin {"resuming", "final", "done"}}

Arrived == m_awaiting_coroutine # Null /\ pc[Parent] # "arriving"

Init ==
  /\ size = 0
  /\ alive = FALSE
  /\ m_count = 1
  /\ m_awaiting_coroutine = Null
  /\ index = 1
  /\ outcome = [i \in Children |-> NoOutcome]
  /\ result = NoOutcome
  /\ pc = [c \in Coroutines |-> IF c = Parent THEN "parked" ELSE "initial"]
  /\ StackInit

-----------------------------------------------------------------------------
(* Coroutines suspend on other awaitables and are resumed on an idle       *)
(* thread or from a running coroutine.                                     *)
Enter(t, c) ==
  /\ Idle(t) \/ \E d \in Coroutines : Running(t, d) /\ pc[d] = "running"
  /\ pc[c] = "parked"
  /\ pc' = [pc EXCEPT ![c] = "running"]
  /\ Resume(t, c)
  /\ UNCHANGED <<objectVars, counterVars, index, outcome, result>>

Leave(t, c) ==
  /\ Running(t, c) /\ pc[c] = "running"
  /\ pc' = [pc EXCEPT ![c] = "parked"]
  /\ Return(t)
  /\ UNCHANGED <<objectVars, counterVars, index, outcome, result>>

(* The running coroutine awaits something that transfers to another one.   *)
Switch(t, c, d) ==
  /\ Running(t, c) /\ pc[c] = "running"
  /\ pc[d] = "parked"
  /\ pc' = [pc EXCEPT ![c] = "parked", ![d] = "running"]
  /\ Transfer(t, d)
  /\ UNCHANGED <<objectVars, counterVars, index, outcome, result>>

-----------------------------------------------------------------------------
(* Mutant: the counter does not count the awaiting coroutine.              *)
CreateUncounted(t, n) ==
  /\ Running(t, Parent) /\ pc[Parent] = "running"
  /\ ~alive /\ size = 0 /\ m_awaiting_coroutine = Null
  /\ alive' = TRUE
  /\ size' = n
  /\ m_count' = n
  /\ UNCHANGED <<m_awaiting_coroutine, index, outcome, result, pc, stack>>

(* when_all_ready of n awaitables.  The parent of the model awaits one     *)
(* object only: it is not made again after it has been awaited.            *)
Create(t, n) ==
  /\ Running(t, Parent) /\ pc[Parent] = "running"
  /\ ~alive /\ size = 0 /\ m_awaiting_coroutine = Null
  /\ alive' = TRUE
  /\ size' = n
  /\ m_count' = n + 1
  /\ UNCHANGED <<m_awaiting_coroutine, index, outcome, result, pc, stack>>

(* The object goes out of scope, awaited or not, and the frames of its     *)
(* tasks with it.                                                          *)
Destroy(t) ==
  /\ Running(t, Parent) /\ pc[Parent] = "running"
  /\ alive
  /\ alive' = FALSE
  /\ UNCHANGED <<size, counterVars, index, outcome, result, pc, stack>>

-----------------------------------------------------------------------------
(* when_all collects the results of all tasks and throws if it finds one   *)
(* that has thrown: the first of a vector; the order in which a tuple is   *)
(* evaluated is unspecified.  Which one it is is left open here.           *)
Failed == {i \in Tasks : outcome[i] \in Exceptions}

(* Mutant: only the tasks that have not thrown are collected.              *)
CollectedValues == {[i \in Tasks \ Failed |-> outcome[i]]}

Collected ==
  IF Failed = {}
  THEN {[i \in Tasks |-> outcome[i]]}
  ELSE {outcome[i] : i \in Failed}

(* await_resume, and the function that when_all maps over it.              *)
Continues(locations) ==
  /\ pc' = [locations EXCEPT ![Parent] = "running"]
  /\ result' \in Collected

(* co_await of an object that has been awaited already.                    *)
AwaitReady(t) ==
  /\ Running(t, Parent) /\ pc[Parent] = "running"
  /\ alive /\ m_awaiting_coroutine # Null
  /\ Continues(pc)
  /\ UNCHANGED <<objectVars, counterVars, index, outcome, stack>>

Await(t) ==
  /\ Running(t, Parent) /\ pc[Parent] = "running"
  /\ alive /\ m_awaiting_coroutine = Null
  /\ pc' = [pc EXCEPT ![Parent] = "starting"]
  /\ UNCHANGED <<objectVars, counterVars, index, outcome, result, stack>>

(* start_tasks: one iteration, in which the task runs until it suspends.   *)
StartTask(t) ==
  /\ Running(t, Parent) /\ pc[Parent] = "starting"
  /\ index \in Tasks
  /\ index' = index + 1
  /\ pc' = [pc EXCEPT ![index] = "running"]
  /\ Resume(t, index)
  /\ UNCHANGED <<objectVars, counterVars, outcome, result>>

(* try_await stores the handle, which nobody reads before m_count is zero. *)
StoreAwaiting(t) ==
  /\ Running(t, Parent) /\ pc[Parent] = "starting"
  /\ index \notin Tasks
  /\ m_awaiting_coroutine' = Parent
  /\ pc' = [pc EXCEPT ![Parent] = "arriving"]
  /\ UNCHANGED <<objectVars, m_count, index, outcome, result, stack>>

(* Mutants: try_await suspends, or does not suspend, whatever is left.     *)
ArriveSuspending(t) ==
  /\ Running(t, Parent) /\ pc[Parent] = "arriving"
  /\ m_count' = m_count - 1
  /\ pc' = [pc EXCEPT ![Parent] = "awaiting"]
  /\ Return(t)
  /\ UNCHANGED <<objectVars, m_awaiting_coroutine, index, outcome, result>>

ArriveContinuing(t) ==
  /\ Running(t, Parent) /\ pc[Parent] = "arriving"
  /\ m_count' = m_count - 1
  /\ Continues(pc)
  /\ UNCHANGED <<objectVars, m_awaiting_coroutine, index, outcome, stack>>

(* The fetch_sub of try_await: the parent suspends if tasks are left.      *)
Arrive(t) ==
  /\ Running(t, Parent) /\ pc[Parent] = "arriving"
  /\ m_count' = m_count - 1
  /\ IF m_count > 1
     THEN /\ pc' = [pc EXCEPT ![Parent] = "awaiting"]
          /\ Return(t)
          /\ UNCHANGED result
     ELSE /\ Continues(pc)
          /\ UNCHANGED stack
  /\ UNCHANGED <<objectVars, m_awaiting_coroutine, index, outcome>>

-----------------------------------------------------------------------------
(* The awaitable of the task returns or throws: yield_value, return_void   *)
(* or unhandled_exception, and on to completion_notifier.                  *)
Complete(t, i) ==
  /\ Running(t, i) /\ pc[i] = "running"
  /\ \E o \in Values \cup Exceptions : outcome' = [outcome EXCEPT ![i] = o]
  /\ pc' = [pc EXCEPT ![i] = "completing"]
  /\ UNCHANGED <<objectVars, counterVars, index, result, stack>>

(* Mutant: only a task that has not thrown counts itself down.             *)
NotifyOnValue(t, i) ==
  /\ Running(t, i) /\ pc[i] = "completing"
  /\ m_count' = IF outcome[i] \in Values THEN m_count - 1 ELSE m_count
  /\ IF m_count = 1
     THEN /\ pc' = [pc EXCEPT ![i] = "resuming"]
          /\ UNCHANGED stack
     ELSE /\ pc' = [pc EXCEPT ![i] = "done"]
          /\ Return(t)
  /\ UNCHANGED <<objectVars, m_awaiting_coroutine, index, outcome, result>>

(* notify_awaitable_completed: the fetch_sub.  When it is not the last,    *)
(* the task and the counter may be gone at once.                           *)
Notify(t, i) ==
  /\ Running(t, i) /\ pc[i] = "completing"
  /\ m_count' = m_count - 1
  /\ IF m_count = 1
     THEN /\ pc' = [pc EXCEPT ![i] = "resuming"]
          /\ UNCHANGED stack
     ELSE /\ pc' = [pc EXCEPT ![i] = "done"]
          /\ Return(t)
  /\ UNCHANGED <<objectVars, m_awaiting_coroutine, index, outcome, result>>

(* m_awaiting_coroutine.resume(), in which the object may be destroyed.    *)
ResumeAwaiting(t, i) ==
  /\ Running(t, i) /\ pc[i] = "resuming"
  /\ Continues([pc EXCEPT ![i] = "final"])
  /\ Resume(t, m_awaiting_coroutine)
  /\ UNCHANGED <<objectVars, counterVars, index, outcome>>

NotifyReturns(t, i) ==
  /\ Running(t, i) /\ pc[i] = "final"
  /\ pc' = [pc EXCEPT ![i] = "done"]
  /\ Return(t)
  /\ UNCHANGED <<objectVars, counterVars, index, outcome, result>>

TryAwait(t) == StartTask(t) \/ StoreAwaiting(t) \/ Arrive(t)

Final(t, i) == Notify(t, i) \/ ResumeAwaiting(t, i) \/ NotifyReturns(t, i)

Client(t) == (\E n \in 0..N : Create(t, n)) \/ Destroy(t) \/ AwaitReady(t) \/ Await(t)

Next ==
  \E t \in Threads :
    \/ TryAwait(t) \/ Client(t)
    \/ \E c \in Coroutines : Enter(t, c) \/ Leave(t, c) \/ \E d \in Coroutines : Switch(t, c, d)
    \/ \E i \in Children : Complete(t, i) \/ Final(t, i)

Spec == Init /\ [][Next]_vars

(***************************************************************************)
(* A thread inside the library keeps going.  A task that has started is    *)
(* resumed whenever it waits for something else and completes sometime; a  *)
(* parent that runs suspends sometime.                                     *)
(***************************************************************************)
Fairness ==
  /\ \A t \in Threads : WF_vars(TryAwait(t) \/ \E i \in Children : Final(t, i))
  /\ SF_vars(\E t \in Threads : Leave(t, Parent))
  /\ \A i \in Children :
       /\ SF_vars(\E t \in Threads : Enter(t, i))
       /\ SF_vars(\E t \in Threads : Complete(t, i))

FairSpec == Spec /\ Fairness
-----------------------------------------------------------------------------
TypeOK ==
  /\ size \in 0..N
  /\ alive \in BOOLEAN
  /\ m_count \in 0..N + 1
  /\ m_awaiting_coroutine \in {Parent, Null}
  /\ index \in 1..size + 1
  /\ outcome \in [Children -> Values \cup Exceptions \cup {NoOutcome}]
  /\ pc \in [Coroutines -> ParentLocations \cup TaskLocations]
  /\ pc[Parent] \in ParentLocations
  /\ \A i \in Children : pc[i] \in TaskLocations
  /\ StackTypeOK

(* The counter is exact: it counts the tasks that have not notified it,    *)
(* and the awaiting coroutine until it has arrived.                        *)
CountExact == m_count = Cardinality(Outstanding) + (IF Arrived THEN 0 ELSE 1)

(* The awaitable and its tasks are there for everyone who still uses them. *)
NoUseAfterFree ==
  \/ pc[Parent] \in {"starting", "arriving", "awaiting"}
  \/ \E i \in Tasks : pc[i] \in {"running", "parked", "completing", "resuming"}
  => alive

(* The awaiting coroutine goes on only after all tasks have completed.     *)
JoinAfterAll ==
  m_awaiting_coroutine # Null /\ pc[Parent] \in {"running", "parked"} =>
    \A i \in Tasks : pc[i] \in {"final", "done"}

(* A suspended awaiting coroutine is going to be resumed, by a task that   *)
(* is the last or by one that has not completed yet.                       *)
NoLostParent ==
  pc[Parent] = "awaiting" => \E i \in Tasks : pc[i] \notin {"initial", "final", "done"}
=============================================================================
