----------------------------- MODULE TaskEvent ------------------------------
(***************************************************************************)
(* task and single_consumer_event together, as in the test of a task that  *)
(* completes asynchronously: tasks await the event, which clients set.     *)
(*                                                                         *)
(* Both components resume and suspend coroutines of the same stacks, and a *)
(* coroutine is at one place of the code of either.  The steps here are    *)
(* whole steps of the one or the other, with the guards of that component  *)
(* only: that they respect what the other one relies on is to be checked.  *)
(***************************************************************************)
EXTENDS CoroutineRuntime

CONSTANTS
  Tasks, Outcomes, NoOutcome, Null,
  Setter        (* a client that only sets and resets the event            *)

VARIABLES
  symmetricTransfer, owner, m_continuation, m_state, outcome, awaited, result,
  pc,
  eventState,   (* m_state of the event                                    *)
  m_awaiter

taskVars == <<symmetricTransfer, owner, m_continuation, m_state, outcome, awaited, result>>

eventVars == <<eventState, m_awaiter>>

vars == <<taskVars, eventVars, pc, stack>>

T == INSTANCE Task

E == INSTANCE SingleConsumerEvent WITH m_state <- eventState

Clients == Coroutines \ Tasks

ASSUME TaskEventConstants == Setter \in Clients

Init == T!Init /\ eventState \in {"not_set", "set"} /\ m_awaiter = Null

-----------------------------------------------------------------------------
(* Coroutines suspend on other awaitables, too.                            *)
Enter(t, c) == T!Enter(t, c) /\ UNCHANGED eventVars

Leave(t, c) == T!Leave(t, c) /\ UNCHANGED eventVars

Switch(t, c, d) == T!Switch(t, c, d) /\ UNCHANGED eventVars

(* co_await of a task, and the objects.                                    *)
AwaitTask(t, c) == T!Await(t, c) /\ UNCHANGED eventVars

HoldTask(t, c) == T!Objects(t, c) /\ UNCHANGED eventVars

Complete(t, k) == T!Complete(t, k) /\ UNCHANGED eventVars

Final(t, k) == T!Final(t, k) /\ UNCHANGED eventVars

(* co_await of the event in a task, set() and reset() in a client.         *)
AwaitEvent(t, k) == E!AwaitReady(t, k) /\ UNCHANGED taskVars

InEvent(t, c) == E!Library(t, c) /\ UNCHANGED taskVars

Set(t, c) == E!Set(t, c) /\ UNCHANGED taskVars

Reset(t, c) == E!Reset(t, c) /\ UNCHANGED taskVars

Next ==
  \E t \in Threads :
    \/ \E c, d \in Coroutines : Switch(t, c, d)
    \/ \E c \in Coroutines : Enter(t, c) \/ Leave(t, c) \/ InEvent(t, c)
    \/ \E c \in Coroutines \ {Setter} : AwaitTask(t, c) \/ HoldTask(t, c)
    \/ \E k \in Tasks : AwaitEvent(t, k) \/ Complete(t, k) \/ Final(t, k)
    \/ \E c \in Clients : Set(t, c) \/ Reset(t, c)

Spec == Init /\ [][Next]_vars

(***************************************************************************)
(* A thread inside the library keeps going, and clients that run return to *)
(* their resumer sometime.  Tasks that wait for something else than a task *)
(* or the event are resumed, and complete sometime.  The setter runs again *)
(* and again, and sets the event sometime.                                 *)
(***************************************************************************)
Fairness ==
  /\ \A t \in Threads :
       /\ WF_vars(\E c \in Coroutines : T!TrySetContinuation(t, c) /\ UNCHANGED eventVars)
       /\ WF_vars(\E c \in Coroutines : InEvent(t, c))
       /\ WF_vars(\E k \in Tasks : Final(t, k))
  /\ \A c \in Clients : SF_vars(\E t \in Threads : Leave(t, c))
  /\ \A k \in Tasks :
       /\ SF_vars(\E t \in Threads : Enter(t, k))
       /\ SF_vars(\E t \in Threads : Complete(t, k))
  /\ SF_vars(\E t \in Threads : Enter(t, Setter))
  /\ SF_vars(\E t \in Threads : Set(t, Setter))

FairSpec == Spec /\ Fairness
-----------------------------------------------------------------------------
(* What a coroutine is doing as task sees it, and as the event sees it.    *)
TaskView ==
  [c \in Coroutines |->
     CASE pc[c] \in {"unready", "storing", "setting", "resumed"} -> "running"
       [] pc[c] = "waiting" -> "parked"
       [] OTHER -> pc[c]]

EventView ==
  [c \in Coroutines |->
     CASE pc[c] \in {"starting", "completing", "resuming", "final"} -> "running"
       [] pc[c] \in {"unborn", "initial", "awaiting", "done"} -> "parked"
       [] OTHER -> pc[c]]

AsTask == INSTANCE Task WITH pc <- TaskView

AsEvent == INSTANCE SingleConsumerEvent WITH m_state <- eventState, pc <- EventView

(* Each of the two is to the other what clients may be: set() resumes      *)
(* tasks only where they are suspended on something else than a task, and  *)
(* tasks start, suspend and resume coroutines, under a set() too, only as  *)
(* the event allows for.                                                   *)
HonoursContracts == AsTask!Spec /\ AsEvent!Spec

(* An awaiter whose task has started continues sometime, though the task   *)
(* depends on an event that is set, and reset, by others.                  *)
AwaiterContinues == \A c \in Coroutines : awaited[c] # Null ~> awaited[c] = Null
=============================================================================
