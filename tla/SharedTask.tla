----------------------------- MODULE SharedTask -----------------------------
(***************************************************************************)
(* cppcoro::shared_task (shared_task.hpp): a lazily started coroutine, the *)
(* body, whose result any number of coroutines, the clients, await.  The   *)
(* first to await starts the body; the others queue in a list headed by    *)
(* m_waiters and are resumed when the body completes.  The coroutine frame *)
(* is counted by the shared_task objects that refer to it.                 *)
(*                                                                         *)
(* The model has one shared coroutine.  A client owns at most one          *)
(* shared_task that refers to it and awaits it at most once at a time, so  *)
(* an object and a shared_task_waiter are named by their client.  A step   *)
(* is one access to an atomic with the thread-local work around it; a      *)
(* spurious failure of compare_exchange_weak is a stuttering step.         *)
(***************************************************************************)
EXTENDS CoroutineRuntime

CONSTANTS
  Body,         (* the coroutine shared                                    *)
  NotStarted,   (* &promise.m_waiters                                      *)
  Ready,        (* &promise: the value is ready                            *)
  Null,
  Outcomes,     (* values the body may return, exceptions it may throw     *)
  NoOutcome,
  Creator       (* the client that calls the coroutine function            *)

Clients == Coroutines \ {Body}

ASSUME SharedTaskConstants ==
  /\ Body \in Coroutines /\ Creator \in Clients
  /\ Null \notin Coroutines
  /\ NotStarted \notin Coroutines \cup {Null}
  /\ Ready \notin Coroutines \cup {Null, NotStarted}
  /\ NoOutcome \notin Outcomes

VARIABLES
  m_waiters,    (* NotStarted, Null, Ready or the newest waiter            *)
  m_next,       (* shared_task_waiter::m_next                              *)
  m_refCount,
  owners,       (* clients whose shared_task refers to the coroutine       *)
  frame,        (* whether the coroutine frame exists                      *)
  outcome,      (* of the body: m_valueStorage or m_exception              *)
  waiter,       (* local of final_awaiter: the next waiter to resume       *)
  result,       (* what a client's last co_await returned or threw         *)
  synced,       (* clients that the completion happens-before              *)
  pc

taskVars == <<m_refCount, owners, frame, outcome, waiter>>

vars == <<m_waiters, m_next, m_refCount, owners, frame, outcome, waiter, result, synced, pc, stack>>

(***************************************************************************)
(* parked     suspended on something else                                  *)
(* running    executing or nested under client code; the body likewise     *)
(* unready    await_ready has returned false                               *)
(* starting   in try_await, m_waiters was NotStarted                       *)
(* started    in try_await, inside coroutine.resume()                      *)
(* pushing    in the loop of try_await, m_next is written                  *)
(* queued     suspended by await_suspend                                   *)
(* initial    the body, at its initial suspend point                       *)
(* completing the body, before the exchange of final_awaiter               *)
(* final      the body, suspended for good: its waiters are being resumed  *)
(* done       the body, when final_awaiter has returned                    *)
(***************************************************************************)
ClientLocations == {"parked", "running", "unready", "starting", "started", "pushing", "queued"}

BodyLocations == {"initial", "running", "parked", "completing", "final", "done"}

Queued == {c \in Clients : pc[c] = "queued"}

Awaiting == {c \in Clients : pc[c] \in {"unready", "starting", "started", "pushing", "queued"}}

(* The coroutine function has returned its shared_task to the creator.     *)
Init ==
  /\ m_waiters = NotStarted
  /\ m_next = [c \in Clients |-> Null]
  /\ m_refCount = 1
  /\ owners = {Creator}
  /\ frame = TRUE
  /\ outcome = NoOutcome
  /\ waiter = Null
  /\ result = [c \in Clients |-> NoOutcome]
  /\ synced = {}
  /\ pc = [c \in Coroutines |-> IF c = Body THEN "initial" ELSE "parked"]
  /\ StackInit

-----------------------------------------------------------------------------
(* Coroutines, the body included once it is started, suspend on other      *)
(* awaitables and are resumed on an idle thread or from a running one.     *)
Enter(t, c) ==
  /\ Idle(t) \/ \E d \in Coroutines : Running(t, d) /\ pc[d] = "running"
  /\ pc[c] = "parked"
  /\ pc' = [pc EXCEPT ![c] = "running"]
  /\ Resume(t, c)
  /\ UNCHANGED <<m_waiters, m_next, taskVars, result, synced>>

Leave(t, c) ==
  /\ Running(t, c) /\ pc[c] = "running"
  /\ pc' = [pc EXCEPT ![c] = "parked"]
  /\ Return(t)
  /\ UNCHANGED <<m_waiters, m_next, taskVars, result, synced>>

(* The running coroutine awaits something that transfers to another one.   *)
Switch(t, c, d) ==
  /\ Running(t, c) /\ pc[c] = "running"
  /\ pc[d] = "parked"
  /\ pc' = [pc EXCEPT ![c] = "parked", ![d] = "running"]
  /\ Transfer(t, d)
  /\ UNCHANGED <<m_waiters, m_next, taskVars, result, synced>>

-----------------------------------------------------------------------------
(* Mutant: the copy constructor forgets add_ref.                           *)
CopyUncounted(t, c, d) ==
  /\ Running(t, c) /\ pc[c] = "running"
  /\ c \in owners /\ d \notin owners
  /\ owners' = owners \cup {d}
  /\ UNCHANGED <<m_waiters, m_next, m_refCount, frame, outcome, waiter, result, synced, pc, stack>>

(* The shared_task objects.  A client copies or moves its object into that *)
(* of another client: assignment to one that already refers to the         *)
(* coroutine changes nothing (copy) or drops one reference (move).         *)
CopyTask(t, c, d) ==
  /\ Running(t, c) /\ pc[c] = "running"
  /\ c \in owners /\ d \notin owners
  /\ owners' = owners \cup {d}
  /\ m_refCount' = m_refCount + 1
  /\ UNCHANGED <<m_waiters, m_next, frame, outcome, waiter, result, synced, pc, stack>>

MoveTask(t, c, d) ==
  /\ Running(t, c) /\ pc[c] = "running"
  /\ c \in owners /\ d \notin owners
  /\ owners' = (owners \ {c}) \cup {d}
  /\ UNCHANGED <<m_waiters, m_next, m_refCount, frame, outcome, waiter, result, synced, pc, stack>>

(* Mutant: try_detach compares the count that is left with 1.              *)
DropAtOne(t, c) ==
  /\ Running(t, c) /\ pc[c] = "running"
  /\ c \in owners
  /\ owners' = owners \ {c}
  /\ m_refCount' = m_refCount - 1
  /\ frame' = (frame /\ m_refCount' # 1)
  /\ UNCHANGED <<m_waiters, m_next, outcome, waiter, result, synced, pc, stack>>

(* destroy(): the last reference destroys the frame.                       *)
DropTask(t, c) ==
  /\ Running(t, c) /\ pc[c] = "running"
  /\ c \in owners
  /\ owners' = owners \ {c}
  /\ m_refCount' = m_refCount - 1
  /\ frame' = (m_refCount # 1)
  /\ UNCHANGED <<m_waiters, m_next, outcome, waiter, result, synced, pc, stack>>

-----------------------------------------------------------------------------
(* The client goes on: await_resume reads the outcome.  The read is        *)
(* ordered after the completion if the value of m_waiters that let it go   *)
(* on was read with acquire semantics.                                     *)
Continue(c, acquired) ==
  /\ pc' = [pc EXCEPT ![c] = "running"]
  /\ m_next' = [m_next EXCEPT ![c] = Null]
  /\ result' = [result EXCEPT ![c] = outcome]
  /\ synced' = IF acquired THEN synced \cup {c} ELSE synced

(* Mutant: the value ready is taken for a waiter.                          *)
ExamineUntested(c, acquired) ==
  /\ pc' = [pc EXCEPT ![c] = "pushing"]
  /\ m_next' = [m_next EXCEPT ![c] = m_waiters]
  /\ UNCHANGED <<result, synced>>

(* The top of the loop of try_await, with a value read from m_waiters.     *)
Examine(c, acquired) ==
  IF m_waiters = Ready
  THEN Continue(c, acquired)
  ELSE /\ pc' = [pc EXCEPT ![c] = "pushing"]
       /\ m_next' = [m_next EXCEPT ![c] = m_waiters]
       /\ UNCHANGED <<result, synced>>

(* co_await task: await_ready.                                             *)
AwaitReady(t, c) ==
  /\ Running(t, c) /\ pc[c] = "running"
  /\ c \in owners
  /\ IF m_waiters = Ready
     THEN Continue(c, TRUE)
     ELSE /\ pc' = [pc EXCEPT ![c] = "unready"]
          /\ UNCHANGED <<m_next, result, synced>>
  /\ UNCHANGED <<m_waiters, taskVars, stack>>

(* An empty shared_task is ready, and throws broken_promise: the client    *)
(* goes on at once.  It changes nothing and is left out.                   *)

TryAwaitLoad(t, c) ==
  /\ Running(t, c) /\ pc[c] = "unready"
  /\ IF m_waiters = NotStarted
     THEN /\ pc' = [pc EXCEPT ![c] = "starting"]
          /\ UNCHANGED <<m_next, result, synced>>
     ELSE Examine(c, TRUE)
  /\ UNCHANGED <<m_waiters, taskVars, stack>>

(* The compare_exchange_strong that elects the client to start the body.   *)
(* Both its orders are relaxed: when it fails, the value it has read is    *)
(* examined without acquire semantics.                                     *)
StartBody(t, c) ==
  /\ Running(t, c) /\ pc[c] = "starting"
  /\ IF m_waiters = NotStarted
     THEN /\ m_waiters' = Null
          /\ pc' = [pc EXCEPT ![c] = "started", ![Body] = "running"]
          /\ Resume(t, Body)
          /\ UNCHANGED <<m_next, result, synced>>
     ELSE /\ Examine(c, FALSE)
          /\ UNCHANGED <<m_waiters, stack>>
  /\ UNCHANGED taskVars

(* Mutant: the body is taken to have completed when resume() returns.      *)
ContinueAfterStart(t, c) ==
  /\ Running(t, c) /\ pc[c] = "started"
  /\ Continue(c, TRUE)
  /\ UNCHANGED <<m_waiters, taskVars, stack>>

(* The body has suspended or completed: m_waiters is read again.           *)
ReloadAfterStart(t, c) ==
  /\ Running(t, c) /\ pc[c] = "started"
  /\ Examine(c, TRUE)
  /\ UNCHANGED <<m_waiters, taskVars, stack>>

(* Mutant: a plain store publishes the waiter.                             *)
PushByStore(t, c) ==
  /\ Running(t, c) /\ pc[c] = "pushing"
  /\ m_waiters' = c
  /\ pc' = [pc EXCEPT ![c] = "queued"]
  /\ Return(t)
  /\ UNCHANGED <<m_next, result, synced, taskVars>>

(* compare_exchange_weak: from its success on the client is suspended.     *)
TryAwaitPush(t, c) ==
  /\ Running(t, c) /\ pc[c] = "pushing"
  /\ IF m_waiters = m_next[c]
     THEN /\ m_waiters' = c
          /\ pc' = [pc EXCEPT ![c] = "queued"]
          /\ Return(t)
          /\ UNCHANGED <<m_next, result, synced>>
     ELSE /\ Examine(c, TRUE)
          /\ UNCHANGED <<m_waiters, stack>>
  /\ UNCHANGED taskVars

-----------------------------------------------------------------------------
(* The body returns a value or throws.                                     *)
BodyCompletes(t) ==
  /\ Running(t, Body) /\ pc[Body] = "running"
  /\ outcome' \in Outcomes
  /\ pc' = [pc EXCEPT ![Body] = "completing"]
  /\ UNCHANGED <<m_waiters, m_next, m_refCount, owners, frame, waiter, result, synced, stack>>

(* final_awaiter: the exchange.  From here on the frame may be destroyed   *)
(* by a client, on another thread or in one of the resume() calls below.   *)
FinalExchange(t) ==
  /\ Running(t, Body) /\ pc[Body] = "completing"
  /\ m_waiters' = Ready
  /\ waiter' = m_waiters
  /\ pc' = [pc EXCEPT ![Body] = "final"]
  /\ UNCHANGED <<m_next, m_refCount, owners, frame, outcome, result, synced, stack>>

(* Mutant: m_next is to be read after the resume.                          *)
FinalNextReadLate(t) ==
  /\ Running(t, Body) /\ pc[Body] = "final"
  /\ waiter # Null
  /\ waiter' = waiter
  /\ Continue(waiter, TRUE)
  /\ Resume(t, waiter)
  /\ UNCHANGED <<m_waiters, m_refCount, owners, frame, outcome>>

(* The next waiter is read before the resume, in which a waiter may die.   *)
FinalResume(t) ==
  /\ Running(t, Body) /\ pc[Body] = "final"
  /\ waiter # Null
  /\ waiter' = m_next[waiter]
  /\ Continue(waiter, TRUE)
  /\ Resume(t, waiter)
  /\ UNCHANGED <<m_waiters, m_refCount, owners, frame, outcome>>

FinalReturns(t) ==
  /\ Running(t, Body) /\ pc[Body] = "final"
  /\ waiter = Null
  /\ pc' = [pc EXCEPT ![Body] = "done"]
  /\ Return(t)
  /\ UNCHANGED <<m_waiters, m_next, taskVars, result, synced>>

Await(t, c) ==
  TryAwaitLoad(t, c) \/ StartBody(t, c) \/ ReloadAfterStart(t, c) \/ TryAwaitPush(t, c)

Final(t) == FinalExchange(t) \/ FinalResume(t) \/ FinalReturns(t)

Client(t, c) ==
  \/ AwaitReady(t, c) \/ DropTask(t, c)
  \/ \E d \in Clients : CopyTask(t, c, d) \/ MoveTask(t, c, d)

Next ==
  \E t \in Threads :
    \/ Final(t) \/ BodyCompletes(t)
    \/ \E c \in Coroutines : Enter(t, c) \/ Leave(t, c) \/ \E d \in Coroutines : Switch(t, c, d)
    \/ \E c \in Clients : Await(t, c) \/ Client(t, c)

Spec == Init /\ [][Next]_vars

(***************************************************************************)
(* A thread inside the library keeps going.  The clients that d has resumed *)
(* return to d sometime, however many of them take over from one another;  *)
(* the body, once started, is resumed whenever it waits for something      *)
(* else, and completes sometime.                                           *)
(***************************************************************************)
Fairness ==
  /\ \A t \in Threads : WF_vars(Final(t) \/ \E c \in Clients : Await(t, c))
  /\ \A d \in Coroutines :
       SF_vars(\E t \in Threads, c \in Clients : Nested(t, d) /\ Leave(t, c))
  /\ SF_vars(\E t \in Threads : Enter(t, Body))
  /\ SF_vars(\E t \in Threads : BodyCompletes(t))

FairSpec == Spec /\ Fairness
-----------------------------------------------------------------------------
TypeOK ==
  /\ m_waiters \in Clients \cup {NotStarted, Ready, Null}
  /\ m_next \in [Clients -> Clients \cup {Null}]
  /\ m_refCount \in Nat
  /\ owners \in SUBSET Clients
  /\ frame \in BOOLEAN
  /\ outcome \in Outcomes \cup {NoOutcome}
  /\ waiter \in Clients \cup {Null}
  /\ result \in [Clients -> Outcomes \cup {NoOutcome}]
  /\ synced \in SUBSET Clients
  /\ pc \in [Coroutines -> ClientLocations \cup BodyLocations]
  /\ \A c \in Clients : pc[c] \in ClientLocations
  /\ pc[Body] \in BodyLocations
  /\ StackTypeOK

(* The frame is there for everyone who reads it: for clients inside        *)
(* co_await and for the body until it has published its result, although   *)
(* no reference is counted for the running body itself.                    *)
NoUseAfterFree ==
  (Awaiting # {} \/ pc[Body] \in {"running", "parked", "completing"}) => frame

(* The frame is destroyed exactly when no shared_task refers to it.        *)
FrameCounted == frame <=> owners # {}

(* m_waiters, the loop of final_awaiter and the list behind them lead to   *)
(* suspended clients only.                                                 *)
WaitersOnly ==
  /\ m_waiters \in Queued \cup {NotStarted, Ready, Null}
  /\ waiter \in Queued \cup {Null}
  /\ \A c \in Queued : m_next[c] \in Queued \cup {Null}

(* No client is in the list of waiters twice.                              *)
NoSharedWaiter ==
  /\ waiter \in Clients => waiter # m_waiters
  /\ \A c \in Queued : m_next[c] \in Clients =>
       /\ m_next[c] \notin {m_waiters, waiter}
       /\ \A d \in Queued : m_next[d] = m_next[c] => d = c

(* No waiter is lost: every suspended client can be reached from m_waiters *)
(* or from the loop of final_awaiter.  So nobody waits for a body that has *)
(* not been started, nor after it is done.                                 *)
NoLostWaiter ==
  \A lost \in SUBSET Queued : lost # {} =>
    \E w \in lost : w \in {m_waiters, waiter} \/ \E d \in Queued \ lost : m_next[d] = w

(* The list of waiters holds the suspended clients, all of them and each   *)
(* once, before, while and after the body completes.                       *)
ListsExact == WaitersOnly /\ NoSharedWaiter /\ NoLostWaiter

(* What final_awaiter's comment asks of its exchange: an awaiter that goes *)
(* on has visibility of the result.                                        *)
ResultVisible == \A c \in Clients : result[c] # NoOutcome => c \in synced
=============================================================================
