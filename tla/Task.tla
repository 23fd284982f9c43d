-------------------------------- MODULE Task --------------------------------
(***************************************************************************)
(* cppcoro::task (task.hpp): a coroutine that starts when it is awaited,   *)
(* resumes its awaiter when it completes, and whose frame lives as long as *)
(* the task object.                                                        *)
(*                                                                         *)
(* Tasks are awaited by the coroutine that owns the task object.  With     *)
(* symmetric transfer (Clang) await_suspend and final_awaitable return the *)
(* coroutine to run next.  Without it (GCC) await_suspend runs the task in *)
(* a nested resume(), and the exchanges of m_state decide whether awaiter  *)
(* or task comes last and makes the awaiter continue.                      *)
(*                                                                         *)
(* A step is one access to m_state with the thread-local work around it.   *)
(***************************************************************************)
EXTENDS CoroutineRuntime

CONSTANTS
  Tasks,              (* coroutines of type task; the others are clients   *)
  Outcomes,           (* values tasks return, exceptions they throw        *)
  NoOutcome,
  Null

ASSUME TaskConstants ==
  /\ Tasks \subseteq Coroutines /\ Null \notin Coroutines
  /\ NoOutcome \notin Outcomes

VARIABLES
  symmetricTransfer, (* the compiler supports it; else GCC's variant       *)
  owner,           (* who holds the task object; Null: there is no frame   *)
  m_continuation,
  m_state,         (* one of awaiter and task has arrived at the exchange  *)
  outcome,         (* m_result_type with m_value or m_exception            *)
  awaited,         (* the task a coroutine is in co_await of               *)
  result,          (* what the last co_await returned or threw             *)
  pc

promiseVars == <<m_continuation, m_state, outcome>>

vars == <<symmetricTransfer, owner, promiseVars, awaited, result, pc, stack>>

(***************************************************************************)
(* parked     suspended on something else                                  *)
(* running    executing its own code, or nested under it                   *)
(* starting   in await_suspend, inside m_coroutine.resume()                *)
(* awaiting   suspended by await_suspend                                   *)
(* unborn     a task whose coroutine function has not been called          *)
(* initial    a task at its initial suspend point                          *)
(* completing a task at its final suspend point, before its exchange       *)
(* resuming   a task whose exchange has found the awaiter suspended        *)
(* final      a task inside m_continuation.resume()                        *)
(* done       a task, when final_awaitable has returned                    *)
(***************************************************************************)
AwaiterLocations == {"parked", "running", "starting", "awaiting"}

TaskLocations == {"unborn", "initial", "completing", "resuming", "final", "done"}

(* coroutine_handle::done(): suspended at the final suspend point.         *)
Done == {k \in Tasks : pc[k] \in {"completing", "resuming", "final", "done"}}

Started == {k \in Tasks : pc[k] \notin {"unborn", "initial"}}

Init ==
  /\ symmetricTransfer \in BOOLEAN
  /\ owner = [k \in Tasks |-> Null]
  /\ m_continuation = [k \in Tasks |-> Null]
  /\ m_state = [k \in Tasks |-> FALSE]
  /\ outcome = [k \in Tasks |-> NoOutcome]
  /\ awaited = [c \in Coroutines |-> Null]
  /\ result = [c \in Coroutines |-> NoOutcome]
  /\ pc = [c \in Coroutines |-> IF c \in Tasks THEN "unborn" ELSE "parked"]
  /\ StackInit

-----------------------------------------------------------------------------
(* Coroutines suspend on other awaitables and are resumed on an idle       *)
(* thread or from another coroutine.                                       *)
Enter(t, c) ==
  /\ Idle(t) \/ \E d \in Coroutines : Running(t, d) /\ pc[d] = "running"
  /\ pc[c] = "parked"
  /\ pc' = [pc EXCEPT ![c] = "running"]
  /\ Resume(t, c)
  /\ UNCHANGED <<symmetricTransfer, owner, promiseVars, awaited, result>>

Leave(t, c) ==
  /\ Running(t, c) /\ pc[c] = "running"
  /\ pc' = [pc EXCEPT ![c] = "parked"]
  /\ Return(t)
  /\ UNCHANGED <<symmetricTransfer, owner, promiseVars, awaited, result>>

(* The running coroutine awaits something that transfers to another one.   *)
Switch(t, c, d) ==
  /\ symmetricTransfer
  /\ Running(t, c) /\ pc[c] = "running"
  /\ pc[d] = "parked"
  /\ pc' = [pc EXCEPT ![c] = "parked", ![d] = "running"]
  /\ Transfer(t, d)
  /\ UNCHANGED <<symmetricTransfer, owner, promiseVars, awaited, result>>

-----------------------------------------------------------------------------
(* Mutant: initial_suspend does not suspend.                               *)
CreateRunning(t, c, k) ==
  /\ Running(t, c) /\ pc[c] = "running"
  /\ pc[k] = "unborn"
  /\ pc' = [pc EXCEPT ![k] = "running"]
  /\ owner' = [owner EXCEPT ![k] = c]
  /\ Resume(t, k)
  /\ UNCHANGED <<symmetricTransfer, promiseVars, awaited, result>>

(* c calls the coroutine function and holds the task it returns.           *)
Create(t, c, k) ==
  /\ Running(t, c) /\ pc[c] = "running"
  /\ pc[k] = "unborn"
  /\ pc' = [pc EXCEPT ![k] = "initial"]
  /\ owner' = [owner EXCEPT ![k] = c]
  /\ UNCHANGED <<symmetricTransfer, promiseVars, awaited, result, stack>>

(* task(task&&): c passes the task k to the task d as a parameter, which   *)
(* lives in the frame of d.                                                *)
Move(t, c, k, d) ==
  /\ Running(t, c) /\ pc[c] = "running"
  /\ owner[k] = c /\ owner[d] = c /\ d # k
  /\ pc[d] = "initial"
  /\ owner' = [owner EXCEPT ![k] = d]
  /\ UNCHANGED <<symmetricTransfer, promiseVars, awaited, result, pc, stack>>

(* The tasks whose frames go with the frame of k: k, the tasks held in     *)
(* that frame, the tasks held in theirs, and so on.                        *)
Held(k) ==
  {e \in Tasks : \A S \in SUBSET Tasks :
     k \in S /\ (\A d \in Tasks : owner[d] \in S => d \in S) => e \in S}

(* ~task(), or the assignment of another task to the object.               *)
Destroy(t, c, k) ==
  /\ Running(t, c) /\ pc[c] = "running"
  /\ owner[k] = c
  /\ owner' = [e \in Tasks |-> IF e \in Held(k) THEN Null ELSE owner[e]]
  /\ UNCHANGED <<symmetricTransfer, promiseVars, awaited, result, pc, stack>>

-----------------------------------------------------------------------------
(* await_resume returns or throws what the task has stored.                *)
Continues(c, k, locations) ==
  /\ pc' = [locations EXCEPT ![c] = "running"]
  /\ awaited' = [awaited EXCEPT ![c] = Null]
  /\ result' = [result EXCEPT ![c] = outcome[k]]

(* Mutant: await_ready does not ask whether the task is done.              *)
AwaitUnasked(t, c, k) ==
  /\ Running(t, c) /\ pc[c] = "running"
  /\ owner[k] = c
  /\ Continues(c, k, pc)
  /\ UNCHANGED <<symmetricTransfer, owner, promiseVars, stack>>

(* co_await of a task that is done: await_ready.                           *)
AwaitDone(t, c, k) ==
  /\ Running(t, c) /\ pc[c] = "running"
  /\ owner[k] = c /\ k \in Done
  /\ Continues(c, k, pc)
  /\ UNCHANGED <<symmetricTransfer, owner, promiseVars, stack>>

(* co_await of a task that is not: await_suspend transfers to the task.    *)
AwaitTransfer(t, c, k) ==
  /\ symmetricTransfer
  /\ Running(t, c) /\ pc[c] = "running"
  /\ owner[k] = c /\ k \notin Done
  /\ m_continuation' = [m_continuation EXCEPT ![k] = c]
  /\ awaited' = [awaited EXCEPT ![c] = k]
  /\ pc' = [pc EXCEPT ![c] = "awaiting", ![k] = "running"]
  /\ Transfer(t, k)
  /\ UNCHANGED <<symmetricTransfer, owner, m_state, outcome, result>>

(* Mutant: the continuation is set before the task runs, which then always *)
(* resumes its awaiter.                                                    *)
AwaitSetFirst(t, c, k) ==
  /\ ~symmetricTransfer
  /\ Running(t, c) /\ pc[c] = "running"
  /\ owner[k] = c /\ k \notin Done
  /\ m_continuation' = [m_continuation EXCEPT ![k] = c]
  /\ m_state' = [m_state EXCEPT ![k] = TRUE]
  /\ awaited' = [awaited EXCEPT ![c] = k]
  /\ pc' = [pc EXCEPT ![c] = "awaiting", ![k] = "running"]
  /\ Resume(t, k)
  /\ UNCHANGED <<symmetricTransfer, owner, outcome, result>>

(* co_await of a task that is not: await_suspend resumes the task.         *)
AwaitResume(t, c, k) ==
  /\ ~symmetricTransfer
  /\ Running(t, c) /\ pc[c] = "running"
  /\ owner[k] = c /\ k \notin Done
  /\ awaited' = [awaited EXCEPT ![c] = k]
  /\ pc' = [pc EXCEPT ![c] = "starting", ![k] = "running"]
  /\ Resume(t, k)
  /\ UNCHANGED <<symmetricTransfer, owner, promiseVars, result>>

(* Mutants: the awaiter continues, or suspends, whoever comes last.        *)
TrySetAndContinue(t, c) ==
  /\ Running(t, c) /\ pc[c] = "starting"
  /\ m_continuation' = [m_continuation EXCEPT ![awaited[c]] = c]
  /\ m_state' = [m_state EXCEPT ![awaited[c]] = TRUE]
  /\ Continues(c, awaited[c], pc)
  /\ UNCHANGED <<symmetricTransfer, owner, outcome, stack>>

TrySetAndSuspend(t, c) ==
  /\ Running(t, c) /\ pc[c] = "starting"
  /\ m_continuation' = [m_continuation EXCEPT ![awaited[c]] = c]
  /\ m_state' = [m_state EXCEPT ![awaited[c]] = TRUE]
  /\ pc' = [pc EXCEPT ![c] = "awaiting"]
  /\ Return(t)
  /\ UNCHANGED <<symmetricTransfer, owner, outcome, awaited, result>>

(* The task has suspended or completed.  try_set_continuation stores the   *)
(* continuation and exchanges m_state: the awaiter suspends if it comes    *)
(* first, and continues if the task has.                                   *)
TrySetContinuation(t, c) ==
  /\ Running(t, c) /\ pc[c] = "starting"
  /\ m_continuation' = [m_continuation EXCEPT ![awaited[c]] = c]
  /\ m_state' = [m_state EXCEPT ![awaited[c]] = TRUE]
  /\ IF m_state[awaited[c]]
     THEN /\ Continues(c, awaited[c], pc)
          /\ UNCHANGED stack
     ELSE /\ pc' = [pc EXCEPT ![c] = "awaiting"]
          /\ Return(t)
          /\ UNCHANGED <<awaited, result>>
  /\ UNCHANGED <<symmetricTransfer, owner, outcome>>

-----------------------------------------------------------------------------
(* The body of the task returns or throws.                                 *)
Complete(t, k) ==
  /\ Running(t, k) /\ pc[k] = "running"
  /\ \E o \in Outcomes : outcome' = [outcome EXCEPT ![k] = o]
  /\ pc' = [pc EXCEPT ![k] = "completing"]
  /\ UNCHANGED <<symmetricTransfer, owner, m_continuation, m_state, awaited, result, stack>>

(* final_awaitable, which returns the continuation.                        *)
FinalTransfer(t, k) ==
  /\ symmetricTransfer
  /\ Running(t, k) /\ pc[k] = "completing"
  /\ Continues(m_continuation[k], k, [pc EXCEPT ![k] = "done"])
  /\ Transfer(t, m_continuation[k])
  /\ UNCHANGED <<symmetricTransfer, owner, promiseVars>>

(* Mutants: the result of the exchange is negated; the task only looks for *)
(* a continuation and leaves m_state alone.                                *)
FinalNegated(t, k) ==
  /\ ~symmetricTransfer
  /\ Running(t, k) /\ pc[k] = "completing"
  /\ m_state' = [m_state EXCEPT ![k] = TRUE]
  /\ IF ~m_state[k]
     THEN /\ pc' = [pc EXCEPT ![k] = "resuming"]
          /\ UNCHANGED stack
     ELSE /\ pc' = [pc EXCEPT ![k] = "done"]
          /\ Return(t)
  /\ UNCHANGED <<symmetricTransfer, owner, m_continuation, outcome, awaited, result>>

FinalLoad(t, k) ==
  /\ ~symmetricTransfer
  /\ Running(t, k) /\ pc[k] = "completing"
  /\ IF m_continuation[k] # Null
     THEN /\ pc' = [pc EXCEPT ![k] = "resuming"]
          /\ UNCHANGED <<m_state, stack>>
     ELSE /\ pc' = [pc EXCEPT ![k] = "done"]
          /\ Return(t)
          /\ UNCHANGED m_state
  /\ UNCHANGED <<symmetricTransfer, owner, m_continuation, outcome, awaited, result>>

(* final_awaitable: the exchange.  A task that comes first leaves its      *)
(* awaiter to continue by itself, and its frame with it.                   *)
FinalExchange(t, k) ==
  /\ ~symmetricTransfer
  /\ Running(t, k) /\ pc[k] = "completing"
  /\ m_state' = [m_state EXCEPT ![k] = TRUE]
  /\ IF m_state[k]
     THEN /\ pc' = [pc EXCEPT ![k] = "resuming"]
          /\ UNCHANGED stack
     ELSE /\ pc' = [pc EXCEPT ![k] = "done"]
          /\ Return(t)
  /\ UNCHANGED <<symmetricTransfer, owner, m_continuation, outcome, awaited, result>>

(* m_continuation.resume(): while it lasts the frame may be destroyed.     *)
FinalResume(t, k) ==
  /\ Running(t, k) /\ pc[k] = "resuming"
  /\ Continues(m_continuation[k], k, [pc EXCEPT ![k] = "final"])
  /\ Resume(t, m_continuation[k])
  /\ UNCHANGED <<symmetricTransfer, owner, promiseVars>>

FinalReturns(t, k) ==
  /\ Running(t, k) /\ pc[k] = "final"
  /\ pc' = [pc EXCEPT ![k] = "done"]
  /\ Return(t)
  /\ UNCHANGED <<symmetricTransfer, owner, promiseVars, awaited, result>>

Await(t, c) ==
  \/ TrySetContinuation(t, c)
  \/ \E k \in Tasks : AwaitDone(t, c, k) \/ AwaitTransfer(t, c, k) \/ AwaitResume(t, c, k)

Final(t, k) ==
  FinalTransfer(t, k) \/ FinalExchange(t, k) \/ FinalResume(t, k) \/ FinalReturns(t, k)

Objects(t, c) ==
  \E k \in Tasks :
    \/ Create(t, c, k) \/ Destroy(t, c, k)
    \/ \E d \in Tasks : Move(t, c, k, d)

Next ==
  \E t \in Threads :
    \/ \E c, d \in Coroutines : Switch(t, c, d)
    \/ \E c \in Coroutines : Enter(t, c) \/ Leave(t, c) \/ Await(t, c) \/ Objects(t, c)
    \/ \E k \in Tasks : Complete(t, k) \/ Final(t, k)

Spec == Init /\ [][Next]_vars
-----------------------------------------------------------------------------
TypeOK ==
  /\ symmetricTransfer \in BOOLEAN
  /\ owner \in [Tasks -> Coroutines \cup {Null}]
  /\ m_continuation \in [Tasks -> Coroutines \cup {Null}]
  /\ m_state \in [Tasks -> BOOLEAN]
  /\ outcome \in [Tasks -> Outcomes \cup {NoOutcome}]
  /\ awaited \in [Coroutines -> Tasks \cup {Null}]
  /\ result \in [Coroutines -> Outcomes \cup {NoOutcome}]
  /\ pc \in [Coroutines -> AwaiterLocations \cup TaskLocations]
  /\ \A c \in Coroutines \ Tasks : pc[c] \in AwaiterLocations
  /\ StackTypeOK

(* Until a task has made the last access to its promise its frame exists,  *)
(* although the awaiter is free to destroy it as soon as it continues.     *)
NoUseAfterFree ==
  \A k \in Started : pc[k] \notin {"final", "done"} => owner[k] # Null

(* Tasks are structured: while a task is under way its owner is suspended  *)
(* in co_await of that very task.                                          *)
OwnerAwaits ==
  \A k \in Started \ Done :
    owner[k] \in Coroutines /\ awaited[owner[k]] = k /\ pc[owner[k]] \in {"starting", "awaiting"}

(* Of awaiter and task the last one to arrive makes the awaiter continue:  *)
(* a suspended awaiter has a task that is going to resume it.              *)
NoLostContinuation ==
  \A c \in Coroutines : pc[c] = "awaiting" =>
    /\ m_continuation[awaited[c]] = c
    /\ awaited[c] \in Started /\ pc[awaited[c]] \notin {"final", "done"}

(* Tasks that complete synchronously do not pile up: of the tasks that     *)
(* have resumed the same awaiter a thread has at most one on its stack.    *)
NoPileUp ==
  \A t \in Threads : \A i, j \in 1..Len(stack[t]) :
    LET k == stack[t][i]  l == stack[t][j] IN
      {k, l} \subseteq Tasks /\ pc[k] = "final" /\ pc[l] = "final"
        /\ m_continuation[k] = m_continuation[l] => i = j
=============================================================================
