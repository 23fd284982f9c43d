----------------------------- MODULE TaskProofs -----------------------------
(***************************************************************************)
(* task, proved for any number of threads, coroutines and tasks, with and  *)
(* without symmetric transfer: co_await of a task is a procedure call, the *)
(* frame outlives the last access to the promise, and tasks that complete  *)
(* synchronously do not pile up on a stack.                                *)
(*                                                                         *)
(* The argument: a task that has started and has not yet let its awaiter   *)
(* go on is awaited by its owner, who can therefore not destroy it, nor    *)
(* anything that holds it.  m_state tells which of awaiter and task has    *)
(* arrived at the exchange: the awaiter if it is suspended, the task if it *)
(* is done.                                                                *)
(***************************************************************************)
EXTENDS TaskPromise, CoroutineRuntimeProofs

Live == {k \in Started : pc[k] \notin {"final", "done"}}

InAwait == \A c \in Coroutines : awaited[c] # Null <=> pc[c] \in {"starting", "awaiting"}

AwaitsOwn ==
  \A c \in Coroutines : awaited[c] # Null =>
    owner[awaited[c]] = c /\ awaited[c] \in Started /\ pc[awaited[c]] # "final"

LiveAwaited == \A k \in Live : owner[k] \in Coroutines /\ awaited[owner[k]] = k

AwaiterFirst ==
  \A c \in Coroutines : pc[c] = "awaiting" =>
    /\ m_continuation[awaited[c]] = c
    /\ pc[awaited[c]] # "done"
    /\ symmetricTransfer \/ m_state[awaited[c]]

AwaiterLast ==
  \A c \in Coroutines : pc[c] = "starting" =>
    /\ ~symmetricTransfer
    /\ pc[awaited[c]] # "resuming"
    /\ m_state[awaited[c]] <=> pc[awaited[c]] = "done"

NotExchanged == \A k \in Tasks : k \notin Started => m_state[k] = FALSE

Protocol == InAwait /\ AwaitsOwn /\ LiveAwaited /\ AwaiterFirst /\ AwaiterLast /\ NotExchanged

IInv == TypeOK /\ Protocol

LEMMA InitIInv == Init => IInv
<1> SUFFICES ASSUME Init PROVE IInv  OBVIOUS
<1> USE TaskConstants DEF Init, Started
<1>1. TypeOK
  <2>1. StackTypeOK  BY DEF StackTypeOK, StackInit
  <2>2. pc \in [Coroutines -> AwaiterLocations \cup TaskLocations]
    BY DEF AwaiterLocations, TaskLocations
  <2>3. \A c \in Coroutines \ Tasks : pc[c] \in AwaiterLocations  BY DEF AwaiterLocations
  <2> QED  BY <2>1, <2>2, <2>3 DEF TypeOK
<1>2. Protocol
  BY DEF Protocol, InAwait, AwaitsOwn, LiveAwaited, Live, AwaiterFirst, AwaiterLast, NotExchanged
<1> QED  BY <1>1, <1>2 DEF IInv

(* What a task at the end of its body knows of its awaiter.                *)
LEMMA AwaiterOf ==
  ASSUME IInv, NEW k \in Tasks,
         \/ pc[k] = "resuming"
         \/ pc[k] = "completing" /\ (symmetricTransfer \/ m_state[k])
  PROVE  /\ m_continuation[k] \in Coroutines /\ m_continuation[k] = owner[k]
         /\ pc[m_continuation[k]] = "awaiting" /\ awaited[m_continuation[k]] = k
         /\ m_continuation[k] # k
<1> USE TaskConstants DEF IInv, Protocol
<1>1. k \in Live  BY DEF Live, Started, TypeOK
<1>2. owner[k] \in Coroutines /\ awaited[owner[k]] = k  BY <1>1 DEF LiveAwaited
<1>3. pc[owner[k]] \in {"starting", "awaiting"}  BY <1>2 DEF InAwait
<1>4. pc[owner[k]] # "starting"  BY <1>2 DEF AwaiterLast
<1> QED  BY <1>2, <1>3, <1>4 DEF AwaiterFirst

(* Only tasks that nobody awaits go with the frame of a task that its      *)
(* owner, who is running, destroys.                                        *)
LEMMA HeldNotAwaited ==
  ASSUME IInv, NEW c \in Coroutines, NEW k \in Tasks, pc[c] = "running", owner[k] = c,
         NEW b \in Coroutines, awaited[b] # Null
  PROVE  awaited[b] \notin Held(k)
<1> USE TaskConstants DEF IInv, Protocol
<1> DEFINE S == {e \in Tasks : \A d \in Coroutines : awaited[d] # e}
<1>1. k \in S
  <2> SUFFICES ASSUME NEW d \in Coroutines, awaited[d] = k PROVE FALSE  OBVIOUS
  <2>1. owner[k] = d  BY DEF AwaitsOwn
  <2> QED  BY <2>1 DEF InAwait
<1>2. ASSUME NEW d \in Tasks, owner[d] \in S, d \notin S PROVE FALSE
  <2>1. PICK a \in Coroutines : awaited[a] = d  BY <1>2
  <2>2. owner[d] = a /\ pc[a] \in {"starting", "awaiting"} /\ a \in Tasks
    BY <1>2, <2>1 DEF AwaitsOwn, InAwait
  <2>3. a \in Live  BY <2>2 DEF Live, Started
  <2>4. owner[a] \in Coroutines /\ awaited[owner[a]] = a  BY <2>3 DEF LiveAwaited
  <2> QED  BY <1>2, <2>2, <2>4
<1>3. S \in SUBSET Tasks /\ k \in S /\ \A d \in Tasks : owner[d] \in S => d \in S
  BY <1>1, <1>2
<1>4. Held(k) \subseteq S  BY <1>3 DEF Held
<1> QED  BY <1>4

-----------------------------------------------------------------------------
LEMMA NextTypeOK == IInv /\ [Next]_vars => TypeOK'
<1> SUFFICES ASSUME IInv, [Next]_vars PROVE TypeOK'  OBVIOUS
<1>0. TypeOK /\ StackTypeOK  BY DEF IInv, TypeOK
<1> USE TaskConstants, <1>0 DEF TypeOK, AwaiterLocations, TaskLocations, promiseVars
<1>1. CASE UNCHANGED vars  BY <1>1 DEF vars, StackTypeOK
<1>2. ASSUME NEW t \in Threads, NEW c \in Coroutines, NEW d \in Coroutines, Switch(t, c, d)
      PROVE  TypeOK'
  BY <1>2, StackTypes DEF Switch
<1>3. ASSUME NEW t \in Threads, NEW c \in Coroutines, Enter(t, c) \/ Leave(t, c) PROVE TypeOK'
  BY <1>3, StackTypes DEF Enter, Leave
<1>4. ASSUME NEW t \in Threads, NEW c \in Coroutines, NEW k \in Tasks,
             Create(t, c, k) \/ Destroy(t, c, k)
      PROVE  TypeOK'
  BY <1>4, StackTypes DEF Create, Destroy
<1>5. ASSUME NEW t \in Threads, NEW c \in Coroutines, NEW k \in Tasks, NEW d \in Tasks,
             Move(t, c, k, d)
      PROVE  TypeOK'
  BY <1>5, StackTypes DEF Move
<1>6. ASSUME NEW t \in Threads, NEW c \in Coroutines, NEW k \in Tasks,
             AwaitDone(t, c, k) \/ AwaitTransfer(t, c, k) \/ AwaitResume(t, c, k)
      PROVE  TypeOK'
  BY <1>6, StackTypes DEF AwaitDone, AwaitTransfer, AwaitResume, Continues
<1>7. ASSUME NEW t \in Threads, NEW c \in Coroutines, TrySetContinuation(t, c) PROVE TypeOK'
  <2>1. awaited[c] \in Tasks  BY <1>7 DEF TrySetContinuation, IInv, Protocol, InAwait
  <2> QED  BY <1>7, <2>1, StackTypes DEF TrySetContinuation, Continues
<1>8. ASSUME NEW t \in Threads, NEW k \in Tasks,
             Complete(t, k) \/ FinalExchange(t, k) \/ FinalReturns(t, k)
      PROVE  TypeOK'
  <2>0. k \in Coroutines  OBVIOUS
  <2>1. CASE Complete(t, k)  BY <2>1 DEF Complete, StackTypeOK
  <2>2. CASE FinalExchange(t, k)  BY <2>0, <2>2, StackTypes DEF FinalExchange
  <2>3. CASE FinalReturns(t, k)  BY <2>0, <2>3, StackTypes DEF FinalReturns
  <2> QED  BY <1>8, <2>1, <2>2, <2>3
<1>9. ASSUME NEW t \in Threads, NEW k \in Tasks, FinalTransfer(t, k) \/ FinalResume(t, k)
      PROVE  TypeOK'
  <2>1. m_continuation[k] \in Coroutines /\ m_continuation[k] # k
    BY <1>9, AwaiterOf DEF FinalTransfer, FinalResume
  <2> QED  BY <1>9, <2>1, StackTypes DEF FinalTransfer, FinalResume, Continues
<1> QED
  BY <1>1, <1>2, <1>3, <1>4, <1>5, <1>6, <1>7, <1>8, <1>9 DEF Next, Await, Objects, Final

-----------------------------------------------------------------------------
(* Coroutines that come and go, and the end of final_awaitable.            *)
LEMMA ClientKeepsProtocol ==
  ASSUME IInv, UNCHANGED <<symmetricTransfer, owner, promiseVars, awaited>>,
         \A c \in Coroutines :
           \/ pc'[c] = pc[c]
           \/ pc[c] \in {"running", "parked"} /\ pc'[c] \in {"running", "parked"}
           \/ pc[c] = "final" /\ pc'[c] = "done"
  PROVE  Protocol'
<1> USE TaskConstants
<1>0. TypeOK /\ Protocol /\ UNCHANGED <<m_continuation, m_state>>
  BY DEF IInv, promiseVars
<1>1. Started' = Started /\ Live' = Live  BY DEF Started, Live
<1>2. InAwait'  BY <1>0 DEF Protocol, InAwait
<1>3. AwaitsOwn'
  <2> SUFFICES ASSUME NEW c \in Coroutines, awaited[c] # Null
               PROVE  owner[awaited[c]] = c /\ awaited[c] \in Started /\ pc'[awaited[c]] # "final"
    BY <1>0, <1>1 DEF AwaitsOwn
  <2>1. owner[awaited[c]] = c /\ awaited[c] \in Started /\ pc[awaited[c]] # "final"
    BY <1>0 DEF Protocol, AwaitsOwn
  <2> QED  BY <2>1 DEF Started
<1>4. LiveAwaited'  BY <1>0, <1>1 DEF Protocol, LiveAwaited
<1>5. ASSUME NEW c \in Coroutines, pc'[c] \in {"starting", "awaiting"}
      PROVE  /\ pc[c] = pc'[c] /\ awaited[c] \in Tasks
             /\ pc'[awaited[c]] = "done" <=> pc[awaited[c]] = "done"
             /\ pc'[awaited[c]] = "resuming" <=> pc[awaited[c]] = "resuming"
  <2>1. pc[c] = pc'[c] /\ awaited[c] # Null  BY <1>0, <1>5 DEF Protocol, InAwait
  <2>2. awaited[c] \in Started /\ pc[awaited[c]] # "final"
    BY <1>0, <2>1 DEF Protocol, AwaitsOwn
  <2> QED  BY <2>1, <2>2 DEF Started
<1>6. AwaiterFirst' /\ AwaiterLast'
  BY <1>0, <1>5 DEF Protocol, AwaiterFirst, AwaiterLast
<1>7. NotExchanged'  BY <1>0, <1>1 DEF Protocol, NotExchanged
<1> QED  BY <1>2, <1>3, <1>4, <1>6, <1>7 DEF Protocol

(* Task objects change hands and are destroyed.                            *)
LEMMA OwnersKeepProtocol ==
  ASSUME IInv, UNCHANGED <<symmetricTransfer, promiseVars, awaited, pc>>,
         \A c \in Coroutines : awaited[c] # Null => owner'[awaited[c]] = owner[awaited[c]]
  PROVE  Protocol'
<1> USE TaskConstants
<1>0. TypeOK /\ Protocol /\ UNCHANGED <<m_continuation, m_state>>
  BY DEF IInv, promiseVars
<1>1. Started' = Started /\ Live' = Live  BY DEF Started, Live
<1>2. InAwait' /\ AwaiterFirst' /\ AwaiterLast' /\ NotExchanged'
  BY <1>0, <1>1 DEF Protocol, InAwait, AwaiterFirst, AwaiterLast, NotExchanged
<1>3. AwaitsOwn'  BY <1>0, <1>1 DEF Protocol, AwaitsOwn
<1>4. LiveAwaited'
  <2> SUFFICES ASSUME NEW k \in Live PROVE owner'[k] \in Coroutines /\ awaited[owner'[k]] = k
    BY <1>0, <1>1 DEF LiveAwaited
  <2>1. owner[k] \in Coroutines /\ awaited[owner[k]] = k /\ k \in Tasks
    BY <1>0 DEF Protocol, LiveAwaited, Live, Started
  <2> QED  BY <2>1
<1> QED  BY <1>2, <1>3, <1>4 DEF Protocol

LEMMA ObjectsKeepProtocol ==
  ASSUME IInv, NEW t \in Threads, NEW c \in Coroutines, Objects(t, c)
  PROVE  Protocol'
<1> USE TaskConstants
<1>0. TypeOK /\ Protocol  BY DEF IInv
<1>1. ASSUME NEW k \in Tasks, Create(t, c, k) PROVE Protocol'
  <2>1. ASSUME NEW b \in Coroutines, awaited[b] # Null
        PROVE  awaited[b] \in Tasks /\ awaited[b] # k /\ owner'[awaited[b]] = owner[awaited[b]]
    <3>1. awaited[b] \in Started  BY <1>0, <2>1 DEF Protocol, AwaitsOwn
    <3> QED  BY <1>0, <1>1, <3>1 DEF Create, Started, TypeOK
  <2>2. k \notin Started /\ k \notin Live /\ UNCHANGED <<m_continuation, m_state, awaited>>
    BY <1>1 DEF Create, Started, Live, promiseVars
  <2>3. Started' = Started /\ Live' = Live
    BY <1>0, <1>1 DEF Create, Started, Live, TypeOK
  <2>4. \A b \in Coroutines : b # k => pc'[b] = pc[b]  BY <1>0, <1>1 DEF Create, TypeOK
  <2>5. pc[k] = "unborn" /\ pc'[k] = "initial" /\ k \in Coroutines
    BY <1>0, <1>1 DEF Create, TypeOK
  <2>6. symmetricTransfer' = symmetricTransfer  BY <1>1 DEF Create
  <2>7. InAwait'  BY <1>0, <2>2, <2>4, <2>5 DEF Protocol, InAwait
  <2>8. AwaitsOwn'  BY <1>0, <2>1, <2>2, <2>3, <2>4 DEF Protocol, AwaitsOwn
  <2>9. LiveAwaited'
    <3> SUFFICES ASSUME NEW e \in Live PROVE owner'[e] \in Coroutines /\ awaited[owner'[e]] = e
      BY <2>2, <2>3 DEF LiveAwaited
    <3>1. owner[e] \in Coroutines /\ awaited[owner[e]] = e /\ e \in Tasks /\ e # k
      BY <1>0, <2>2 DEF Protocol, LiveAwaited, Live, Started
    <3> QED  BY <1>0, <1>1, <3>1 DEF Create, TypeOK
  <2>10. AwaiterFirst' /\ AwaiterLast'
    <3>1. ASSUME NEW b \in Coroutines, pc'[b] \in {"starting", "awaiting"}
          PROVE  pc'[b] = pc[b] /\ pc'[awaited[b]] = pc[awaited[b]]
      <4>1. b # k /\ pc'[b] = pc[b]  BY <2>4, <2>5, <3>1
      <4>2. awaited[b] # Null  BY <1>0, <3>1, <4>1 DEF Protocol, InAwait
      <4> QED  BY <2>1, <2>4, <4>1, <4>2
    <3> QED  BY <1>0, <2>2, <2>6, <3>1 DEF Protocol, AwaiterFirst, AwaiterLast
  <2>11. NotExchanged'  BY <1>0, <2>2, <2>3 DEF Protocol, NotExchanged
  <2> QED  BY <2>7, <2>8, <2>9, <2>10, <2>11 DEF Protocol
<1>2. ASSUME NEW k \in Tasks, Destroy(t, c, k) PROVE Protocol'
  <2>1. \A b \in Coroutines : awaited[b] # Null => awaited[b] \in Tasks /\ awaited[b] \notin Held(k)
    BY <1>0, <1>2, HeldNotAwaited DEF Destroy, TypeOK
  <2> QED  BY <1>2, <2>1, OwnersKeepProtocol DEF Destroy
<1>3. ASSUME NEW k \in Tasks, NEW d \in Tasks, Move(t, c, k, d) PROVE Protocol'
  <2>1. ASSUME NEW b \in Coroutines, awaited[b] # Null
        PROVE  awaited[b] # k /\ owner'[awaited[b]] = owner[awaited[b]]
    <3>1. awaited[b] # k
      <4> SUFFICES ASSUME awaited[b] = k PROVE FALSE  OBVIOUS
      <4>1. owner[k] = b  BY <1>0, <2>1 DEF Protocol, AwaitsOwn
      <4> QED  BY <1>0, <1>3, <2>1, <4>1 DEF Move, Protocol, InAwait
    <3> QED  BY <1>0, <1>3, <3>1 DEF Move, TypeOK
  <2> QED  BY <1>3, <2>1, OwnersKeepProtocol DEF Move
<1> QED  BY <1>1, <1>2, <1>3 DEF Objects

-----------------------------------------------------------------------------
(* A coroutine that runs awaits a task that it owns and that is not done:  *)
(* the task has not started.                                               *)
LEMMA AwaitedIsFresh ==
  ASSUME IInv, NEW c \in Coroutines, NEW k \in Tasks,
         pc[c] = "running", owner[k] = c, k \notin Done
  PROVE  /\ k \notin Started /\ k # c /\ m_state[k] = FALSE
         /\ \A b \in Coroutines : awaited[b] # k
<1> USE TaskConstants
<1>0. TypeOK /\ Protocol  BY DEF IInv
<1>1. k \notin Started
  <2> SUFFICES ASSUME k \in Started PROVE FALSE  OBVIOUS
  <2>1. k \in Live  BY DEF Live, Done
  <2>2. awaited[c] = k  BY <1>0, <2>1 DEF Protocol, LiveAwaited
  <2> QED  BY <1>0, <2>2 DEF Protocol, InAwait
<1>2. \A b \in Coroutines : awaited[b] # k  BY <1>0, <1>1 DEF Protocol, AwaitsOwn
<1> QED  BY <1>0, <1>1, <1>2 DEF Protocol, NotExchanged, Started

(* The awaiter of a task that starts, with or without symmetric transfer.  *)
LEMMA StartKeepsProtocol ==
  ASSUME IInv, NEW t \in Threads, NEW c \in Coroutines, NEW k \in Tasks,
         AwaitTransfer(t, c, k) \/ AwaitResume(t, c, k)
  PROVE  Protocol'
<1> USE TaskConstants
<1>0. TypeOK /\ Protocol  BY DEF IInv
<1>1. /\ k \notin Started /\ k # c /\ m_state[k] = FALSE
      /\ \A b \in Coroutines : awaited[b] # k
      /\ pc[c] = "running" /\ owner[k] = c
  BY AwaitedIsFresh DEF AwaitTransfer, AwaitResume
<1>2. /\ UNCHANGED <<symmetricTransfer, owner, m_state>>
      /\ awaited' = [awaited EXCEPT ![c] = k]
      /\ \A e \in Tasks : e # k => m_continuation'[e] = m_continuation[e]
      /\ \A b \in Coroutines : b # c /\ b # k => pc'[b] = pc[b]
      /\ pc'[k] = "running"
      /\ \/ symmetricTransfer /\ pc'[c] = "awaiting" /\ m_continuation'[k] = c
         \/ ~symmetricTransfer /\ pc'[c] = "starting"
  BY <1>0, <1>1 DEF AwaitTransfer, AwaitResume, promiseVars, TypeOK
<1>3. k \in Coroutines /\ k # Null /\ pc[k] \in {"unborn", "initial"}  BY <1>1 DEF Started
<1>4. Started' = Started \cup {k} /\ Live' = Live \cup {k}
  BY <1>1, <1>2, <1>3 DEF Started, Live
<1>5. awaited'[c] = k /\ \A b \in Coroutines : b # c => awaited'[b] = awaited[b]
  BY <1>0, <1>2 DEF TypeOK
<1>6. awaited[c] = Null  BY <1>0, <1>1 DEF Protocol, InAwait
<1>7. InAwait'  BY <1>0, <1>1, <1>2, <1>3, <1>5 DEF Protocol, InAwait
<1>8. \A b \in Coroutines : awaited[b] # Null =>
         /\ awaited[b] \in Started /\ awaited[b] # k
         /\ owner[awaited[b]] = b /\ pc[awaited[b]] # "final"
  BY <1>0, <1>1 DEF Protocol, AwaitsOwn
<1>9. \A b \in Coroutines : awaited[b] # Null =>
         /\ awaited[b] \in Tasks /\ awaited[b] # k
         /\ \/ pc'[awaited[b]] = pc[awaited[b]]
            \/ pc[awaited[b]] = "running" /\ pc'[awaited[b]] \in {"starting", "awaiting"}
  BY <1>1, <1>2, <1>8 DEF Started
<1>10. AwaitsOwn'
  BY <1>1, <1>2, <1>4, <1>5, <1>8, <1>9 DEF AwaitsOwn
<1>11. LiveAwaited'
  <2>1. ASSUME NEW e \in Live PROVE owner[e] \in Coroutines /\ awaited'[owner[e]] = e
    BY <1>0, <1>5, <1>6, <2>1 DEF Protocol, LiveAwaited, Live, Started
  <2> QED  BY <1>1, <1>2, <1>4, <1>5, <2>1 DEF LiveAwaited
<1>12. ASSUME NEW b \in Coroutines, b # c, pc'[b] \in {"starting", "awaiting"}
       PROVE  /\ pc'[b] = pc[b] /\ awaited'[b] = awaited[b]
              /\ awaited[b] # k /\ awaited[b] \in Tasks
              /\ pc'[awaited[b]] = "done" <=> pc[awaited[b]] = "done"
              /\ pc'[awaited[b]] = "resuming" <=> pc[awaited[b]] = "resuming"
  <2>1. pc'[b] = pc[b] /\ awaited'[b] = awaited[b]  BY <1>2, <1>5, <1>12
  <2>2. awaited[b] # Null  BY <1>0, <1>12, <2>1 DEF Protocol, InAwait
  <2> QED  BY <1>9, <2>1, <2>2
<1>13. AwaiterFirst'
  BY <1>0, <1>2, <1>5, <1>12 DEF Protocol, AwaiterFirst
<1>14. AwaiterLast'
  BY <1>0, <1>1, <1>2, <1>5, <1>12 DEF Protocol, AwaiterLast
<1>15. NotExchanged'  BY <1>0, <1>2, <1>4 DEF Protocol, NotExchanged
<1> QED  BY <1>7, <1>10, <1>11, <1>13, <1>14, <1>15 DEF Protocol

(* try_set_continuation.                                                   *)
LEMMA TrySetKeepsProtocol ==
  ASSUME IInv, NEW t \in Threads, NEW c \in Coroutines, TrySetContinuation(t, c)
  PROVE  Protocol'
<1> USE TaskConstants
<1> DEFINE k == awaited[c]
<1>0. TypeOK /\ Protocol  BY DEF IInv
<1>1. pc[c] = "starting" /\ ~symmetricTransfer  BY <1>0 DEF TrySetContinuation, Protocol, AwaiterLast
<1>2. /\ k \in Tasks /\ k # Null /\ owner[k] = c /\ k \in Started
      /\ pc[k] # "final" /\ pc[k] # "resuming" /\ (m_state[k] <=> pc[k] = "done")
  BY <1>0, <1>1 DEF Protocol, InAwait, AwaitsOwn, AwaiterLast, TypeOK
<1>3. /\ UNCHANGED <<symmetricTransfer, owner>>
      /\ m_continuation'[k] = c /\ m_state'[k] = TRUE
      /\ \A e \in Tasks : e # k => m_continuation'[e] = m_continuation[e] /\ m_state'[e] = m_state[e]
      /\ \A b \in Coroutines : b # c => pc'[b] = pc[b] /\ awaited'[b] = awaited[b]
      /\ \/ m_state[k] = TRUE /\ pc'[c] = "running" /\ awaited'[c] = Null
         \/ m_state[k] = FALSE /\ pc'[c] = "awaiting" /\ awaited'[c] = k
  BY <1>0, <1>2 DEF TrySetContinuation, Continues, TypeOK
<1>4. \A b \in Coroutines : awaited[b] = k => b = c
  BY <1>0, <1>2 DEF Protocol, AwaitsOwn
<1> HIDE DEF k
<1>k. k = awaited[c]  BY DEF k
<1>5. Started' = Started /\ Live' = Live
  BY <1>1, <1>3 DEF Started, Live
<1>6. InAwait'  BY <1>0, <1>2, <1>3 DEF Protocol, InAwait
<1>7. ASSUME NEW b \in Coroutines, awaited[b] # Null
      PROVE  /\ awaited[b] \in Tasks /\ (awaited[b] = k => b = c)
             /\ \/ pc'[awaited[b]] = pc[awaited[b]]
                \/ pc[awaited[b]] = "starting" /\ pc'[awaited[b]] \in {"running", "awaiting"}
  BY <1>0, <1>1, <1>3, <1>4, <1>7 DEF TypeOK
<1>8. AwaitsOwn'
  BY <1>0, <1>3, <1>5, <1>7, <1>k DEF Protocol, AwaitsOwn
<1>9. LiveAwaited'
  <2> SUFFICES ASSUME NEW e \in Live PROVE owner[e] \in Coroutines /\ awaited'[owner[e]] = e
    BY <1>3, <1>5 DEF LiveAwaited
  <2>1. owner[e] \in Coroutines /\ awaited[owner[e]] = e  BY <1>0 DEF Protocol, LiveAwaited
  <2>2. CASE owner[e] = c
    <3>1. e = k /\ pc[k] # "done"  BY <1>k, <2>1, <2>2 DEF Live
    <3> QED  BY <1>2, <1>3, <2>1, <3>1
  <2> QED  BY <1>3, <2>1, <2>2
<1>10. ASSUME NEW b \in Coroutines, b # c, pc'[b] \in {"starting", "awaiting"}
       PROVE  /\ pc'[b] = pc[b] /\ awaited'[b] = awaited[b]
              /\ awaited[b] # k /\ awaited[b] \in Tasks
              /\ pc'[awaited[b]] = "done" <=> pc[awaited[b]] = "done"
              /\ pc'[awaited[b]] = "resuming" <=> pc[awaited[b]] = "resuming"
  <2>1. pc'[b] = pc[b] /\ awaited'[b] = awaited[b]  BY <1>3, <1>10
  <2>2. awaited[b] # Null  BY <1>0, <1>10, <2>1 DEF Protocol, InAwait
  <2> QED  BY <1>7, <1>10, <2>1, <2>2
<1>11. pc'[k] = "done" <=> pc[k] = "done"
  BY <1>1, <1>2, <1>3
<1>12. AwaiterFirst'
  BY <1>0, <1>2, <1>3, <1>10, <1>11 DEF Protocol, AwaiterFirst
<1>13. AwaiterLast'
  BY <1>0, <1>3, <1>10 DEF Protocol, AwaiterLast
<1>14. NotExchanged'  BY <1>0, <1>2, <1>3, <1>5 DEF Protocol, NotExchanged
<1> QED  BY <1>6, <1>8, <1>9, <1>12, <1>13, <1>14 DEF Protocol

(* The awaiter of the task k, suspended by await_suspend, goes on.         *)
LEMMA ContinueKeepsProtocol ==
  ASSUME IInv, NEW t \in Threads, NEW k \in Tasks, FinalTransfer(t, k) \/ FinalResume(t, k)
  PROVE  Protocol'
<1> USE TaskConstants
<1> DEFINE c == m_continuation[k]
<1>0. TypeOK /\ Protocol  BY DEF IInv
<1>1. pc[k] \in {"completing", "resuming"}  BY DEF FinalTransfer, FinalResume
<1>2. /\ c \in Coroutines /\ c = owner[k] /\ c # k
      /\ pc[c] = "awaiting" /\ awaited[c] = k
  BY AwaiterOf DEF FinalTransfer, FinalResume
<1>3. /\ UNCHANGED <<symmetricTransfer, owner, m_continuation, m_state>>
      /\ awaited' = [awaited EXCEPT ![c] = Null]
      /\ pc'[c] = "running" /\ pc'[k] \in {"final", "done"}
      /\ \A b \in Coroutines : b # c /\ b # k => pc'[b] = pc[b]
  BY <1>0, <1>2 DEF FinalTransfer, FinalResume, Continues, promiseVars, TypeOK
<1> HIDE DEF c
<1>4. awaited'[c] = Null /\ \A b \in Coroutines : b # c => awaited'[b] = awaited[b]
  BY <1>0, <1>2, <1>3 DEF TypeOK
<1>5. Started' = Started /\ Live' = Live \ {k}
  BY <1>1, <1>2, <1>3 DEF Started, Live
<1>6. InAwait'  BY <1>0, <1>1, <1>2, <1>3, <1>4 DEF Protocol, InAwait
<1>7. ASSUME NEW b \in Coroutines, b # c, awaited[b] # Null
      PROVE  /\ awaited[b] \in Tasks /\ awaited[b] # k
             /\ \/ pc'[awaited[b]] = pc[awaited[b]]
                \/ pc[awaited[b]] = "awaiting" /\ pc'[awaited[b]] = "running"
  <2>1. awaited[b] # k  BY <1>0, <1>2, <1>7 DEF Protocol, AwaitsOwn
  <2> QED  BY <1>0, <1>2, <1>3, <1>7, <2>1 DEF TypeOK
<1>8. AwaitsOwn'
  BY <1>0, <1>3, <1>4, <1>5, <1>7 DEF Protocol, AwaitsOwn
<1>9. LiveAwaited'
  <2> SUFFICES ASSUME NEW e \in Live, e # k
               PROVE  owner[e] \in Coroutines /\ awaited'[owner[e]] = e
    BY <1>3, <1>5 DEF LiveAwaited
  <2>1. owner[e] \in Coroutines /\ awaited[owner[e]] = e  BY <1>0 DEF Protocol, LiveAwaited
  <2> QED  BY <1>2, <1>4, <2>1
<1>10. ASSUME NEW b \in Coroutines, pc'[b] \in {"starting", "awaiting"}
       PROVE  /\ pc'[b] = pc[b] /\ awaited'[b] = awaited[b]
              /\ awaited[b] \in Tasks
              /\ pc'[awaited[b]] = "done" <=> pc[awaited[b]] = "done"
              /\ pc'[awaited[b]] = "resuming" <=> pc[awaited[b]] = "resuming"
  <2>1. b # c /\ b # k /\ pc'[b] = pc[b] /\ awaited'[b] = awaited[b]
    BY <1>3, <1>4, <1>10
  <2>2. awaited[b] # Null  BY <1>0, <1>10, <2>1 DEF Protocol, InAwait
  <2> QED  BY <1>7, <2>1, <2>2
<1>11. AwaiterFirst' /\ AwaiterLast'
  BY <1>0, <1>3, <1>10 DEF Protocol, AwaiterFirst, AwaiterLast
<1>12. NotExchanged'  BY <1>0, <1>3, <1>5 DEF Protocol, NotExchanged
<1> QED  BY <1>6, <1>8, <1>9, <1>11, <1>12 DEF Protocol

(* The task completes, and exchanges m_state.                              *)
LEMMA FinishKeepsProtocol ==
  ASSUME IInv, NEW t \in Threads, NEW k \in Tasks, Complete(t, k) \/ FinalExchange(t, k)
  PROVE  Protocol'
<1> USE TaskConstants
<1>0. TypeOK /\ Protocol  BY DEF IInv
<1>1. /\ UNCHANGED <<symmetricTransfer, owner, m_continuation, awaited>>
      /\ \A b \in Coroutines : b # k => pc'[b] = pc[b]
      /\ \A e \in Tasks : e # k => m_state'[e] = m_state[e]
      /\ \/ pc[k] = "running" /\ pc'[k] = "completing" /\ m_state'[k] = m_state[k]
         \/ /\ ~symmetricTransfer /\ m_state'[k] = TRUE /\ pc[k] = "completing"
            /\ pc'[k] = IF m_state[k] THEN "resuming" ELSE "done"
  BY <1>0 DEF Complete, FinalExchange, TypeOK
<1>2. k \in Live /\ k \in Coroutines  BY <1>0, <1>1 DEF Live, Started, TypeOK
<1>3. owner[k] \in Coroutines /\ awaited[owner[k]] = k  BY <1>0, <1>2 DEF Protocol, LiveAwaited
<1>4. Started' = Started /\ Live' \subseteq Live
  BY <1>1, <1>2 DEF Started, Live
<1>5. InAwait'  BY <1>0, <1>1 DEF Protocol, InAwait
<1>6. ASSUME NEW b \in Coroutines, awaited[b] # Null
      PROVE  /\ awaited[b] \in Tasks /\ awaited[b] \in Started /\ pc[awaited[b]] # "final"
             /\ owner[awaited[b]] = b
  BY <1>0, <1>6 DEF Protocol, AwaitsOwn, TypeOK
<1>7. ASSUME NEW b \in Coroutines, awaited[b] # Null PROVE pc'[awaited[b]] # "final"
  <2>1. CASE awaited[b] = k  BY <1>1, <2>1
  <2>2. CASE awaited[b] # k  BY <1>1, <1>6, <1>7, <2>2
  <2> QED  BY <2>1, <2>2
<1>8. AwaitsOwn'  BY <1>1, <1>4, <1>6, <1>7 DEF AwaitsOwn
<1>9. LiveAwaited'  BY <1>0, <1>1, <1>4 DEF Protocol, LiveAwaited
<1>10. ASSUME NEW b \in Coroutines, pc'[b] \in {"starting", "awaiting"}
       PROVE  /\ pc'[b] = pc[b] /\ awaited[b] \in Tasks
              /\ awaited[b] # k => /\ pc'[awaited[b]] = pc[awaited[b]]
                                   /\ m_state'[awaited[b]] = m_state[awaited[b]]
  <2>1. pc'[b] = pc[b]  BY <1>1, <1>10
  <2>2. awaited[b] # Null  BY <1>0, <1>10, <2>1 DEF Protocol, InAwait
  <2> QED  BY <1>1, <1>6, <2>1, <2>2
<1>11. AwaiterFirst'
  <2> SUFFICES ASSUME NEW b \in Coroutines, pc'[b] = "awaiting"
               PROVE  /\ m_continuation[awaited[b]] = b /\ pc'[awaited[b]] # "done"
                      /\ symmetricTransfer \/ m_state'[awaited[b]]
    BY <1>1 DEF AwaiterFirst
  <2>1. /\ m_continuation[awaited[b]] = b /\ pc[awaited[b]] # "done"
        /\ symmetricTransfer \/ m_state[awaited[b]]
    BY <1>0, <1>10 DEF Protocol, AwaiterFirst
  <2> QED  BY <1>1, <1>10, <2>1
<1>12. AwaiterLast'
  <2> SUFFICES ASSUME NEW b \in Coroutines, pc'[b] = "starting"
               PROVE  /\ ~symmetricTransfer /\ pc'[awaited[b]] # "resuming"
                      /\ m_state'[awaited[b]] <=> pc'[awaited[b]] = "done"
    BY <1>1 DEF AwaiterLast
  <2>1. /\ ~symmetricTransfer /\ pc[awaited[b]] # "resuming"
        /\ m_state[awaited[b]] <=> pc[awaited[b]] = "done"
    BY <1>0, <1>10 DEF Protocol, AwaiterLast
  <2> QED  BY <1>1, <1>10, <2>1
<1>13. NotExchanged'  BY <1>0, <1>1, <1>2, <1>4 DEF Protocol, NotExchanged, Live
<1> QED  BY <1>5, <1>8, <1>9, <1>11, <1>12, <1>13 DEF Protocol

LEMMA NextProtocol == IInv /\ [Next]_vars => Protocol'
<1> SUFFICES ASSUME IInv, [Next]_vars PROVE Protocol'  OBVIOUS
<1>0. TypeOK /\ Protocol  BY DEF IInv
<1>1. CASE UNCHANGED vars  BY <1>1, ClientKeepsProtocol DEF vars
<1>2. ASSUME NEW t \in Threads, NEW c \in Coroutines, NEW d \in Coroutines, Switch(t, c, d)
      PROVE  Protocol'
  BY <1>0, <1>2, ClientKeepsProtocol DEF Switch, TypeOK
<1>3. ASSUME NEW t \in Threads, NEW c \in Coroutines, Enter(t, c) \/ Leave(t, c)
      PROVE  Protocol'
  BY <1>0, <1>3, ClientKeepsProtocol DEF Enter, Leave, TypeOK
<1>4. ASSUME NEW t \in Threads, NEW c \in Coroutines, NEW k \in Tasks, AwaitDone(t, c, k)
      PROVE  Protocol'
  <2>1. awaited[c] = Null  BY <1>0, <1>4 DEF AwaitDone, Protocol, InAwait
  <2>2. awaited' = awaited /\ pc' = pc
    BY <1>0, <1>4, <2>1 DEF AwaitDone, Continues, TypeOK
  <2> QED  BY <1>4, <2>2, ClientKeepsProtocol DEF AwaitDone
<1>5. ASSUME NEW t \in Threads, NEW k \in Tasks, FinalReturns(t, k) PROVE Protocol'
  BY <1>0, <1>5, ClientKeepsProtocol DEF FinalReturns, TypeOK
<1> QED
  BY <1>1, <1>2, <1>3, <1>4, <1>5, ObjectsKeepProtocol, StartKeepsProtocol, TrySetKeepsProtocol,
     ContinueKeepsProtocol, FinishKeepsProtocol DEF Next, Await, Final

LEMMA Invariance == Spec => []IInv
<1>1. IInv /\ [Next]_vars => IInv'  BY NextTypeOK, NextProtocol DEF IInv
<1> QED  BY InitIInv, <1>1, PTL DEF Spec

(* task is type correct: a task only ever resumes its awaiter.             *)
THEOREM TypeCorrect == Spec => []TypeOK
<1>1. IInv => TypeOK  BY DEF IInv
<1> QED  BY <1>1, Invariance, PTL

(* The frame of a task exists until the last access to its promise.        *)
THEOREM MemorySafe == Spec => []NoUseAfterFree
<1>1. IInv => NoUseAfterFree
  BY TaskConstants DEF IInv, Protocol, LiveAwaited, Live, NoUseAfterFree
<1> QED  BY <1>1, Invariance, PTL

(* While a task is under way its owner is suspended in co_await of it, so  *)
(* that the owner's locals, and the task itself, outlive the task.         *)
THEOREM Structured == Spec => []OwnerAwaits
<1>1. IInv => OwnerAwaits
  <2> SUFFICES ASSUME IInv, NEW k \in Started \ Done
               PROVE  /\ owner[k] \in Coroutines /\ awaited[owner[k]] = k
                      /\ pc[owner[k]] \in {"starting", "awaiting"}
    BY DEF OwnerAwaits
  <2>1. k \in Live /\ k \in Tasks /\ k # Null
    BY TaskConstants DEF Live, Started, Done
  <2>2. owner[k] \in Coroutines /\ awaited[owner[k]] = k
    BY <2>1 DEF IInv, Protocol, LiveAwaited
  <2> QED  BY <2>1, <2>2 DEF IInv, Protocol, InAwait
<1> QED  BY <1>1, Invariance, PTL

(* A suspended awaiter has a task that is going to resume it.              *)
THEOREM NothingLost == Spec => []NoLostContinuation
<1>1. IInv => NoLostContinuation
  <2> SUFFICES ASSUME IInv, NEW c \in Coroutines, pc[c] = "awaiting"
               PROVE  /\ m_continuation[awaited[c]] = c /\ awaited[c] \in Started
                      /\ pc[awaited[c]] \notin {"final", "done"}
    BY DEF NoLostContinuation
  <2> QED  BY DEF IInv, Protocol, InAwait, AwaitsOwn, AwaiterFirst
<1> QED  BY <1>1, Invariance, PTL

-----------------------------------------------------------------------------
(* A coroutine on a stack runs, or is in a resume() call, and is there     *)
(* once.                                                                   *)
Active ==
  {c \in Coroutines : pc[c] \in {"running", "starting", "completing", "resuming", "final"}}

ActiveStacked == \A t \in Threads : \A i \in 1..Len(stack[t]) : stack[t][i] \in Active

(* Without symmetric transfer, what runs on top of a task inside           *)
(* m_continuation.resume() has been resumed by its continuation, which is  *)
(* nowhere below.                                                          *)
FinalBelow(t, i) ==
  pc[stack[t][i]] = "final" =>
    /\ i = 1 \/ stack[t][i - 1] = m_continuation[stack[t][i]]
    /\ \A j \in i..Len(stack[t]) : stack[t][j] # m_continuation[stack[t][i]]

FinalStacked == \A t \in Threads : \A i \in 1..Len(stack[t]) : FinalBelow(t, i)

NestedOnly == \A k \in Coroutines : pc[k] \in {"resuming", "final"} => ~symmetricTransfer

StackInv == NoDoubleResume /\ ActiveStacked /\ FinalStacked /\ NestedOnly

(* Steps that neither push a coroutine nor make a task final.              *)
LEMMA FinalsOnly ==
  ASSUME TypeOK, FinalStacked,
         \A c \in Coroutines : pc'[c] = "final" =>
           pc[c] = "final" /\ m_continuation'[c] = m_continuation[c],
         \/ UNCHANGED stack
         \/ \E t \in Threads, c \in Coroutines : Running(t, c) /\ Return(t)
  PROVE  FinalStacked'
<1>0. StackTypeOK  BY DEF TypeOK
<1>1. ASSUME NEW u \in Threads, NEW i \in 1..Len(stack[u])
      PROVE  stack[u][i] \in Coroutines /\ Len(stack[u]) \in Nat /\ FinalBelow(u, i)
  BY <1>0 DEF StackTypeOK, FinalStacked
<1>2. CASE UNCHANGED stack
  BY <1>1, <1>2 DEF FinalStacked, FinalBelow
<1>3. ASSUME NEW t \in Threads, NEW c \in Coroutines, Running(t, c), Return(t)
      PROVE  FinalStacked'
  <2>0. StackTypeOK'  BY <1>0, <1>3, StackTypes
  <2>1. \A u \in Threads : Len(stack[u]) \in Nat /\ Len(stack'[u]) \in Nat
    BY <1>0, <2>0 DEF StackTypeOK
  <2>2. ASSUME NEW u \in Threads, NEW i \in 1..Len(stack'[u])
        PROVE  \/ u = t /\ i + 1 \in 1..Len(stack[u]) /\ stack'[u][i] = stack[u][i + 1]
               \/ u # t /\ i \in 1..Len(stack[u]) /\ stack'[u][i] = stack[u][i]
    BY <1>0, <1>3, StackEntries
  <2> SUFFICES ASSUME NEW u \in Threads, NEW i \in 1..Len(stack'[u]), pc'[stack'[u][i]] = "final"
               PROVE  /\ i = 1 \/ stack'[u][i - 1] = m_continuation'[stack'[u][i]]
                      /\ \A j \in i..Len(stack'[u]) : stack'[u][j] # m_continuation'[stack'[u][i]]
    BY DEF FinalStacked, FinalBelow
  <2> DEFINE n == IF u = t THEN i + 1 ELSE i
  <2>3. n \in 1..Len(stack[u]) /\ stack'[u][i] = stack[u][n]  BY <2>2
  <2>4. /\ pc[stack[u][n]] = "final" /\ m_continuation'[stack[u][n]] = m_continuation[stack[u][n]]
        /\ FinalBelow(u, n)
    BY <1>1, <2>3
  <2>5. i = 1 \/ stack'[u][i - 1] = m_continuation[stack[u][n]]
    <3>1. CASE i # 1
      <4>1. i - 1 \in 1..Len(stack'[u]) /\ n # 1 /\ stack'[u][i - 1] = stack[u][n - 1]
        BY <2>1, <2>2, <3>1
      <4> QED  BY <2>4, <4>1 DEF FinalBelow
    <3> QED  BY <3>1
  <2>6. ASSUME NEW j \in i..Len(stack'[u]) PROVE stack'[u][j] # m_continuation[stack[u][n]]
    <3>1. \E l \in n..Len(stack[u]) : stack'[u][j] = stack[u][l]
      <4>1. j \in 1..Len(stack'[u])  BY <2>1
      <4> QED  BY <2>1, <2>2, <4>1
    <3> QED  BY <2>4, <3>1 DEF FinalBelow
  <2> QED  BY <2>3, <2>4, <2>5, <2>6
<1> QED  BY <1>2, <1>3

(* c, which is suspended, is resumed on t, by a coroutine in its own code  *)
(* or by the task c has awaited.                                           *)
LEMMA FinalsPush ==
  ASSUME TypeOK, StackInv, NEW t \in Threads, NEW c \in Coroutines, Resume(t, c), c \notin Active,
         Len(stack[t]) > 0 => pc[stack[t][1]] # "final",
         \A e \in Coroutines : pc'[e] = "final" =>
           /\ m_continuation'[e] = m_continuation[e]
           /\ \/ pc[e] = "final"
              \/ Len(stack[t]) > 0 /\ e = stack[t][1] /\ m_continuation[e] = c
  PROVE  FinalStacked'
<1>0. StackTypeOK  BY DEF TypeOK
<1>1. \A u \in Threads : Len(stack[u]) \in Nat /\ Len(stack'[u]) \in Nat
  <2>1. StackTypeOK'  BY <1>0, StackTypes
  <2> QED  BY <1>0, <2>1 DEF StackTypeOK
<1>2. ASSUME NEW u \in Threads, NEW i \in 1..Len(stack'[u])
      PROVE  \/ u = t /\ i = 1 /\ stack'[u][i] = c
             \/ u = t /\ i - 1 \in 1..Len(stack[u]) /\ stack'[u][i] = stack[u][i - 1]
             \/ u # t /\ i \in 1..Len(stack[u]) /\ stack'[u][i] = stack[u][i]
  BY <1>0, StackEntries
<1>3. ASSUME NEW u \in Threads, NEW i \in 1..Len(stack[u])
      PROVE  /\ stack[u][i] \in Coroutines /\ stack[u][i] # c /\ FinalBelow(u, i)
             /\ Len(stack[t]) > 0 /\ stack[u][i] = stack[t][1] => u = t /\ i = 1
  <2>1. Len(stack[t]) > 0 => 1 \in 1..Len(stack[t])  BY <1>1
  <2> QED
    BY <1>0, <2>1 DEF StackTypeOK, StackInv, ActiveStacked, FinalStacked, NoDoubleResume
<1> SUFFICES ASSUME NEW u \in Threads, NEW i \in 1..Len(stack'[u]), pc'[stack'[u][i]] = "final"
             PROVE  /\ i = 1 \/ stack'[u][i - 1] = m_continuation'[stack'[u][i]]
                    /\ \A j \in i..Len(stack'[u]) : stack'[u][j] # m_continuation'[stack'[u][i]]
  BY DEF FinalStacked, FinalBelow
<1> DEFINE n == IF u = t THEN i - 1 ELSE i
<1>4. pc[c] # "final" /\ (Len(stack[t]) > 0 => c # stack[t][1])
  <2>1. Len(stack[t]) > 0 => 1 \in 1..Len(stack[t])  BY <1>1
  <2> QED  BY <1>3, <2>1 DEF Active
<1>5. stack'[u][i] # c  BY <1>4
<1>6. n \in 1..Len(stack[u]) /\ stack'[u][i] = stack[u][n]  BY <1>2, <1>5
<1>7. /\ m_continuation'[stack[u][n]] = m_continuation[stack[u][n]]
      /\ \/ pc[stack[u][n]] = "final" /\ (u = t => n # 1)
         \/ u = t /\ n = 1 /\ m_continuation[stack[u][n]] = c
  BY <1>1, <1>3, <1>6
<1>8. i = 1 \/ stack'[u][i - 1] = m_continuation[stack[u][n]]
  <2>1. CASE u = t /\ n = 1
    <3>1. i = 2 /\ 1 \in 1..Len(stack'[u])  BY <1>1, <2>1
    <3>2. stack'[u][1] = c  BY <1>2, <2>1, <3>1
    <3> QED  BY <1>3, <1>6, <1>7, <2>1, <3>1, <3>2
  <2>2. CASE i # 1 /\ n # 1
    <3>1. i - 1 \in 1..Len(stack'[u])  BY <1>1, <2>2
    <3>2. stack'[u][i - 1] = stack[u][n - 1]  BY <1>2, <2>2, <3>1
    <3>3. pc[stack[u][n]] = "final"  BY <1>7, <2>2
    <3> QED  BY <1>3, <1>6, <2>2, <3>2, <3>3 DEF FinalBelow
  <2> QED  BY <1>1, <2>1, <2>2
<1>9. ASSUME NEW j \in i..Len(stack'[u]) PROVE stack'[u][j] # m_continuation[stack[u][n]]
  <2>1. PICK l \in n..Len(stack[u]) : stack'[u][j] = stack[u][l]
    <3>1. j \in 1..Len(stack'[u])  BY <1>1
    <3>2. CASE u = t
      <4>1. n = i - 1 /\ n >= 1 /\ j # 1  BY <1>1, <1>6, <3>2
      <4>2. j - 1 \in 1..Len(stack[u]) /\ stack'[u][j] = stack[u][j - 1]
        BY <1>2, <3>1, <3>2, <4>1
      <4>3. j - 1 \in n..Len(stack[u])  BY <1>1, <4>1, <4>2
      <4> QED  BY <4>2, <4>3
    <3>3. CASE u # t
      <4>1. n = i  BY <3>3
      <4> QED  BY <1>1, <1>2, <3>1, <3>3, <4>1
    <3> QED  BY <3>2, <3>3
  <2>2. l \in 1..Len(stack[u])  BY <1>1, <1>6
  <2> QED  BY <1>3, <1>6, <1>7, <2>1, <2>2 DEF FinalBelow
<1> QED  BY <1>6, <1>7, <1>8, <1>9

(* Steps of one of three kinds.                                            *)
LEMMA StackStep ==
  ASSUME IInv, StackInv, NestedOnly', NEW t \in Threads, NEW c \in Coroutines,
         \/ UNCHANGED stack /\ Active \subseteq Active'
         \/ Running(t, c) /\ Return(t) /\ Active \ {c} \subseteq Active',
         \A e \in Coroutines : pc'[e] = "final" =>
           pc[e] = "final" /\ m_continuation'[e] = m_continuation[e]
  PROVE  StackInv'
<1>0. TypeOK /\ StackTypeOK  BY DEF IInv, TypeOK
<1>1. NoDoubleResume' /\ ActiveStacked'
  BY <1>0, StacksFollow DEF StackInv, ActiveStacked
<1>2. FinalStacked'  BY <1>0, FinalsOnly DEF StackInv
<1> QED  BY <1>1, <1>2 DEF StackInv

LEMMA PushStep ==
  ASSUME IInv, StackInv, NestedOnly', NEW t \in Threads, NEW c \in Coroutines,
         Resume(t, c), c \notin Active, c \in Active', Active \subseteq Active',
         \A d \in Coroutines : Running(t, d) => pc[d] # "final",
         \A e \in Coroutines : pc'[e] = "final" =>
           /\ m_continuation'[e] = m_continuation[e]
           /\ pc[e] = "final" \/ (Running(t, e) /\ m_continuation[e] = c)
  PROVE  StackInv'
<1>0. TypeOK /\ StackTypeOK /\ stack[t] \in Seq(Coroutines)  BY DEF IInv, TypeOK, StackTypeOK
<1>1. NoDoubleResume' /\ ActiveStacked'
  BY <1>0, StacksFollow DEF StackInv, ActiveStacked
<1>2. /\ Idle(t) => ~(Len(stack[t]) > 0)
      /\ \A d \in Coroutines : Running(t, d) => Len(stack[t]) > 0 /\ d = stack[t][1]
      /\ Len(stack[t]) > 0 => stack[t][1] \in Coroutines /\ Running(t, stack[t][1])
  BY <1>0 DEF Idle, Running
<1>3. Len(stack[t]) > 0 => pc[stack[t][1]] # "final"  BY <1>2
<1>4. \A e \in Coroutines : pc'[e] = "final" =>
        /\ m_continuation'[e] = m_continuation[e]
        /\ \/ pc[e] = "final"
           \/ Len(stack[t]) > 0 /\ e = stack[t][1] /\ m_continuation[e] = c
  BY <1>2
<1>5. FinalStacked'  BY <1>0, <1>3, <1>4, FinalsPush
<1> QED  BY <1>1, <1>5 DEF StackInv

LEMMA TransferStep ==
  ASSUME IInv, StackInv, symmetricTransfer, symmetricTransfer',
         NEW t \in Threads, NEW b \in Coroutines, NEW c \in Coroutines,
         Running(t, b), Transfer(t, c), c \notin Active, c \in Active', Active \ {b} \subseteq Active',
         \A e \in Coroutines : pc'[e] \in {"resuming", "final"} => pc[e] \in {"resuming", "final"}
  PROVE  StackInv'
<1>0. TypeOK /\ StackTypeOK  BY DEF IInv, TypeOK
<1>1. NoDoubleResume' /\ ActiveStacked'
  BY <1>0, StacksFollow DEF StackInv, ActiveStacked
<1>2. \A e \in Coroutines : pc'[e] \notin {"resuming", "final"}  BY DEF StackInv, NestedOnly
<1>3. NestedOnly'  BY <1>2 DEF NestedOnly
<1>4. FinalStacked'
  <2>1. StackTypeOK'  BY <1>0, StackTypes
  <2> QED  BY <1>2, <2>1 DEF FinalStacked, FinalBelow, StackTypeOK
<1> QED  BY <1>1, <1>3, <1>4 DEF StackInv

LEMMA NextKeepsStacks == IInv /\ StackInv /\ [Next]_vars => StackInv'
<1> SUFFICES ASSUME IInv, StackInv, [Next]_vars PROVE StackInv'  OBVIOUS
<1>0. TypeOK /\ NestedOnly  BY DEF IInv, StackInv
<1> USE TaskConstants, <1>0 DEF TypeOK, Active, NestedOnly
<1>1. CASE UNCHANGED vars
  <2>1. UNCHANGED <<pc, m_continuation, stack, symmetricTransfer>>
    BY <1>1 DEF vars, promiseVars
  <2> QED
    BY <2>1 DEF StackInv, NoDoubleResume, ActiveStacked, FinalStacked, FinalBelow
<1>2. ASSUME NEW t \in Threads, NEW c \in Coroutines, NEW d \in Coroutines, Switch(t, c, d)
      PROVE  StackInv'
  BY <1>2, TransferStep DEF Switch
<1>3. ASSUME NEW t \in Threads, NEW c \in Coroutines, Enter(t, c) PROVE StackInv'
  <2>1. c \notin Active /\ c \in Active' /\ Active \subseteq Active' /\ NestedOnly'  BY <1>3 DEF Enter
  <2>2. Resume(t, c) /\ \A d \in Coroutines : Running(t, d) => pc[d] # "final"
    BY <1>3 DEF Enter, Idle, Running
  <2>3. \A e \in Coroutines : pc'[e] = "final" =>
           m_continuation'[e] = m_continuation[e] /\ pc[e] = "final"
    BY <1>3 DEF Enter, promiseVars
  <2> HIDE DEF TypeOK, Active, NestedOnly
  <2> QED  BY <1>3, <2>1, <2>2, <2>3, PushStep
<1>4. ASSUME NEW t \in Threads, NEW c \in Coroutines, Leave(t, c) PROVE StackInv'
  BY <1>4, StackStep DEF Leave, promiseVars
<1>5. ASSUME NEW t \in Threads, NEW c \in Coroutines, Objects(t, c) PROVE StackInv'
  <2>1. ASSUME NEW k \in Tasks, Create(t, c, k) PROVE StackInv'
    <3>1. UNCHANGED stack /\ Active \subseteq Active'  BY <2>1 DEF Create
    <3> QED  BY <2>1, <3>1, StackStep DEF Create, promiseVars
  <2>2. ASSUME NEW k \in Tasks, Destroy(t, c, k) PROVE StackInv'
    BY <2>2, StackStep DEF Destroy, promiseVars
  <2>3. ASSUME NEW k \in Tasks, NEW d \in Tasks, Move(t, c, k, d) PROVE StackInv'
    BY <2>3, StackStep DEF Move, promiseVars
  <2> QED  BY <1>5, <2>1, <2>2, <2>3 DEF Objects
<1>6. ASSUME NEW t \in Threads, NEW c \in Coroutines, NEW k \in Tasks, AwaitDone(t, c, k)
      PROVE  StackInv'
  <2>1. UNCHANGED <<pc, stack, m_continuation, symmetricTransfer>>
    BY <1>6 DEF AwaitDone, Continues, promiseVars
  <2> QED  BY <1>6, <2>1, StackStep
<1>7. ASSUME NEW t \in Threads, NEW c \in Coroutines, NEW k \in Tasks, AwaitTransfer(t, c, k)
      PROVE  StackInv'
  <2>1. k \notin Started /\ k # c /\ k \in Coroutines  BY <1>7, AwaitedIsFresh DEF AwaitTransfer
  <2>2. k \notin Active  BY <2>1 DEF Started
  <2>3. k \in Active' /\ Active \ {c} \subseteq Active'  BY <1>7, <2>1 DEF AwaitTransfer
  <2> QED  BY <1>7, <2>1, <2>2, <2>3, TransferStep DEF AwaitTransfer
<1>8. ASSUME NEW t \in Threads, NEW c \in Coroutines, NEW k \in Tasks, AwaitResume(t, c, k)
      PROVE  StackInv'
  <2>1. k \notin Started /\ k # c /\ k \in Coroutines  BY <1>8, AwaitedIsFresh DEF AwaitResume
  <2>2. k \notin Active  BY <2>1 DEF Started
  <2>3. k \in Active' /\ Active \subseteq Active' /\ NestedOnly'  BY <1>8, <2>1 DEF AwaitResume
  <2>4. Resume(t, k) /\ \A d \in Coroutines : Running(t, d) => pc[d] # "final"
    BY <1>8 DEF AwaitResume, Running
  <2>5. \A e \in Coroutines : pc'[e] = "final" =>
           m_continuation'[e] = m_continuation[e] /\ pc[e] = "final"
    BY <1>8, <2>1 DEF AwaitResume, promiseVars
  <2> HIDE DEF TypeOK, Active, NestedOnly
  <2> QED  BY <1>8, <2>1, <2>2, <2>3, <2>4, <2>5, PushStep
<1>9. ASSUME NEW t \in Threads, NEW c \in Coroutines, TrySetContinuation(t, c) PROVE StackInv'
  <2>1. awaited[c] \in Tasks /\ pc[awaited[c]] # "final"
    BY <1>9 DEF TrySetContinuation, IInv, Protocol, InAwait, AwaitsOwn
  <2>2. \A e \in Coroutines : pc'[e] = "final" =>
           pc[e] = "final" /\ m_continuation'[e] = m_continuation[e]
    BY <1>9, <2>1 DEF TrySetContinuation, Continues
  <2>3. NestedOnly'  BY <1>9 DEF TrySetContinuation, Continues
  <2>4. \/ UNCHANGED stack /\ Active \subseteq Active'
        \/ Running(t, c) /\ Return(t) /\ Active \ {c} \subseteq Active'
    BY <1>9 DEF TrySetContinuation, Continues
  <2> QED  BY <2>2, <2>3, <2>4, StackStep
<1>10. ASSUME NEW t \in Threads, NEW k \in Tasks,
              Complete(t, k) \/ FinalExchange(t, k) \/ FinalReturns(t, k)
       PROVE  StackInv'
  <2>0. k \in Coroutines  OBVIOUS
  <2>1. CASE Complete(t, k)  BY <2>0, <2>1, StackStep DEF Complete
  <2>2. CASE FinalExchange(t, k)
    <3>1. NestedOnly'  BY <2>2 DEF FinalExchange
    <3>2. \A e \in Coroutines : pc'[e] = "final" =>
             pc[e] = "final" /\ m_continuation'[e] = m_continuation[e]
      BY <2>2 DEF FinalExchange
    <3>3. \/ UNCHANGED stack /\ Active \subseteq Active'
          \/ Running(t, k) /\ Return(t) /\ Active \ {k} \subseteq Active'
      BY <2>2 DEF FinalExchange
    <3> QED  BY <2>0, <3>1, <3>2, <3>3, StackStep
  <2>3. CASE FinalReturns(t, k)  BY <2>0, <2>3, StackStep DEF FinalReturns, promiseVars
  <2> QED  BY <1>10, <2>1, <2>2, <2>3
<1>11. ASSUME NEW t \in Threads, NEW k \in Tasks, FinalTransfer(t, k) PROVE StackInv'
  <2> DEFINE c == m_continuation[k]
  <2>1. c \in Coroutines /\ c # k /\ pc[c] = "awaiting" /\ k \in Coroutines
    BY <1>11, AwaiterOf DEF FinalTransfer
  <2>2. /\ pc' = [[pc EXCEPT ![k] = "done"] EXCEPT ![c] = "running"]
        /\ Running(t, k) /\ Transfer(t, c) /\ symmetricTransfer /\ symmetricTransfer'
    BY <1>11 DEF FinalTransfer, Continues
  <2> HIDE DEF c
  <2>3. c \notin Active /\ c \in Active' /\ Active \ {k} \subseteq Active'
    BY <2>1, <2>2
  <2>4. \A e \in Coroutines : pc'[e] \in {"resuming", "final"} => pc[e] \in {"resuming", "final"}
    BY <2>1, <2>2
  <2> QED  BY <2>1, <2>2, <2>3, <2>4, TransferStep
<1>12. ASSUME NEW t \in Threads, NEW k \in Tasks, FinalResume(t, k) PROVE StackInv'
  <2> DEFINE c == m_continuation[k]
  <2>1. c \in Coroutines /\ c # k /\ pc[c] = "awaiting" /\ k \in Coroutines
    BY <1>12, AwaiterOf DEF FinalResume
  <2>2. /\ pc' = [[pc EXCEPT ![k] = "final"] EXCEPT ![c] = "running"]
        /\ Running(t, k) /\ Resume(t, c) /\ pc[k] = "resuming"
        /\ UNCHANGED <<symmetricTransfer, m_continuation>>
    BY <1>12 DEF FinalResume, Continues, promiseVars
  <2>c. c = m_continuation[k]  OBVIOUS
  <2> HIDE DEF c
  <2>3. c \notin Active /\ c \in Active' /\ Active \subseteq Active'  BY <2>1, <2>2
  <2>4. NestedOnly'  BY <2>1, <2>2
  <2>5. \A e \in Coroutines : pc'[e] = "final" => pc[e] = "final" \/ e = k
    BY <2>1, <2>2
  <2>6. \A e \in Coroutines : pc'[e] = "final" =>
           /\ m_continuation'[e] = m_continuation[e]
           /\ pc[e] = "final" \/ (Running(t, e) /\ m_continuation[e] = c)
    BY <2>c, <2>2, <2>5
  <2>7. \A d \in Coroutines : Running(t, d) => pc[d] # "final"  BY <2>2 DEF Running
  <2>8. Resume(t, c) /\ c \in Coroutines  BY <2>1, <2>2
  <2> HIDE DEF TypeOK, Active, NestedOnly
  <2> QED  BY <1>12, <2>3, <2>4, <2>6, <2>7, <2>8, PushStep
<1> QED
  BY <1>1, <1>2, <1>3, <1>4, <1>5, <1>6, <1>7, <1>8, <1>9, <1>10, <1>11, <1>12
  DEF Next, Await, Final

LEMMA StackInvariance == Spec => []StackInv
<1>1. Init => StackInv
  BY TaskConstants DEF Init, StackInit, StackInv, NoDoubleResume, ActiveStacked, FinalStacked,
     NestedOnly
<1> QED  BY <1>1, NextKeepsStacks, Invariance, PTL DEF Spec

(* A task and its awaiter are only ever resumed while they are suspended.  *)
THEOREM ResumesSuspended == Spec => []NoDoubleResume
<1>1. StackInv => NoDoubleResume  BY DEF StackInv
<1> QED  BY <1>1, StackInvariance, PTL

(* A loop that awaits tasks which complete synchronously runs in constant  *)
(* stack space: no two tasks that have resumed the same awaiter are on one *)
(* stack.                                                                  *)
THEOREM StackBounded == Spec => []NoPileUp
<1>1. ASSUME IInv, StackInv PROVE NoPileUp
  <2> SUFFICES ASSUME NEW t \in Threads, NEW i \in 1..Len(stack[t]), NEW j \in 1..Len(stack[t]),
                      pc[stack[t][i]] = "final", pc[stack[t][j]] = "final",
                      m_continuation[stack[t][i]] = m_continuation[stack[t][j]], i < j
               PROVE  FALSE
    <3>1. \A u \in Threads : \A m, n \in 1..Len(stack[u]) : m < n \/ n < m \/ m = n
      BY <1>1 DEF IInv, TypeOK, StackTypeOK
    <3> QED  BY <3>1 DEF NoPileUp
  <2>1. Len(stack[t]) \in Nat  BY <1>1 DEF IInv, TypeOK, StackTypeOK
  <2>2. FinalBelow(t, i) /\ FinalBelow(t, j)  BY <1>1 DEF StackInv, FinalStacked
  <2>3. stack[t][j - 1] = m_continuation[stack[t][j]] /\ j - 1 \in i..Len(stack[t])
    BY <2>1, <2>2 DEF FinalBelow
  <2> QED  BY <2>2, <2>3 DEF FinalBelow
<1> QED  BY <1>1, Invariance, StackInvariance, PTL

-----------------------------------------------------------------------------
(* Steps that are none of the caller's business.                           *)
LEMMA SamePhase ==
  ASSUME UNCHANGED <<outcome, awaited, result>>,
         \A k \in Tasks : (k \in Done <=> k \in Done') /\ (k \in Started <=> k \in Started')
  PROVE  UNCHANGED Call!vars
<1>1. Phase' = Phase  BY DEF Phase
<1> QED  BY <1>1 DEF Call!vars

LEMMA MayCall ==
  ASSUME IInv, NEW c \in Coroutines, pc[c] = "running"
  PROVE  Call!MayCall(c)
<1>1. awaited[c] = Null  BY DEF IInv, Protocol, InAwait
<1>2. c \in Tasks => Phase[c] = "called"  BY DEF Phase, Done, Started
<1> QED  BY <1>1, <1>2 DEF Call!MayCall

LEMMA CallStep ==
  ASSUME IInv, NEW c \in Coroutines, NEW k \in Tasks, pc[c] = "running", owner[k] = c, k \notin Done,
         awaited' = [awaited EXCEPT ![c] = k], UNCHANGED <<outcome, result>>,
         pc' = [pc EXCEPT ![c] = "starting", ![k] = "running"]
           \/ pc' = [pc EXCEPT ![c] = "awaiting", ![k] = "running"]
  PROVE  Call!Next
<1>1. k \notin Started /\ k # c  BY AwaitedIsFresh
<1>2. Phase[k] = "idle"  BY <1>1 DEF Phase
<1>3. Phase' = [Phase EXCEPT ![k] = "called"]
  <2>1. \A e \in Tasks \ {k} : e = c \/ pc'[e] = pc[e]
    BY <1>1, TaskConstants DEF IInv, TypeOK
  <2>2. pc'[k] = "running" /\ pc'[c] \in {"starting", "awaiting"}
    BY <1>1, TaskConstants DEF IInv, TypeOK
  <2>3. Done' = Done /\ Started' = Started \cup {k}  BY <1>1, <2>1, <2>2 DEF Done, Started
  <2> QED  BY <1>1, <2>3 DEF Phase
<1>4. Call!Call(c, k)  BY <1>2, <1>3, MayCall DEF Call!Call
<1> QED  BY <1>4 DEF Call!Next

LEMMA ContinueStep ==
  ASSUME IInv, NEW c \in Coroutines, NEW k \in Tasks, NEW locations, c # k,
         awaited[c] = k, k \in Done, Continues(c, k, locations), UNCHANGED outcome,
         locations = pc \/ locations = [pc EXCEPT ![k] = "done"]
           \/ locations = [pc EXCEPT ![k] = "final"]
  PROVE  Call!Next
<1>1. pc[c] \in {"starting", "awaiting"}  BY TaskConstants DEF IInv, Protocol, InAwait
<1>2. Phase' = Phase
  <2>1. \A e \in Tasks :
          \/ pc'[e] = pc[e]
          \/ e = c /\ pc'[e] = "running"
          \/ e = k /\ pc'[e] \in {"done", "final"}
    <3>1. pc \in [Coroutines -> AwaiterLocations \cup TaskLocations] /\ k \in Coroutines
      BY TaskConstants DEF IInv, TypeOK
    <3>2. \A e \in Coroutines : locations[e] = pc[e]
                              \/ (e = k /\ locations[e] \in {"done", "final"})
      BY <3>1
    <3>3. \A e \in Coroutines : pc'[e] = IF e = c THEN "running" ELSE locations[e]
      <4>1. DOMAIN locations = Coroutines  BY <3>1
      <4> QED  BY <4>1 DEF Continues
    <3> QED  BY <3>2, <3>3, TaskConstants
  <2>2. Done' = Done /\ Started' = Started  BY <1>1, <2>1 DEF Done, Started
  <2> QED  BY <2>2 DEF Phase
<1>3. Phase[k] = "returned"  BY DEF Phase
<1>4. Call!Continue(c, k)  BY <1>2, <1>3 DEF Call!Continue, Continues
<1> QED  BY <1>4 DEF Call!Next

LEMMA StepImplements == IInv /\ [Next]_vars => [Call!Next]_Call!vars
<1> SUFFICES ASSUME IInv, [Next]_vars PROVE [Call!Next]_Call!vars  OBVIOUS
<1>0. TypeOK  BY DEF IInv
<1> USE TaskConstants, <1>0 DEF TypeOK
<1>1. CASE UNCHANGED vars
  BY <1>1, SamePhase DEF vars, promiseVars, Done, Started
<1>2. ASSUME NEW t \in Threads, NEW c \in Coroutines, NEW d \in Coroutines, Switch(t, c, d)
      PROVE  UNCHANGED Call!vars
  BY <1>2, SamePhase DEF Switch, promiseVars, Done, Started
<1>3. ASSUME NEW t \in Threads, NEW c \in Coroutines, Enter(t, c) \/ Leave(t, c)
      PROVE  UNCHANGED Call!vars
  BY <1>3, SamePhase DEF Enter, Leave, promiseVars, Done, Started
<1>4. ASSUME NEW t \in Threads, NEW c \in Coroutines, Objects(t, c) PROVE UNCHANGED Call!vars
  <2>1. UNCHANGED <<outcome, awaited, result>>
    BY <1>4 DEF Objects, Create, Destroy, Move, promiseVars
  <2>2. \A k \in Tasks : pc'[k] = pc[k] \/ (pc[k] = "unborn" /\ pc'[k] = "initial")
    BY <1>4 DEF Objects, Create, Destroy, Move
  <2> QED  BY <2>1, <2>2, SamePhase DEF Done, Started
<1>5. ASSUME NEW t \in Threads, NEW c \in Coroutines, TrySetContinuation(t, c)
      PROVE  [Call!Next]_Call!vars
  <2> DEFINE k == awaited[c]
  <2>1. k \in Tasks /\ pc[c] = "starting"
    BY <1>5 DEF TrySetContinuation, IInv, Protocol, InAwait
  <2>2. m_state[k] <=> pc[k] = "done"  BY <1>5, <2>1 DEF IInv, Protocol, AwaiterLast
  <2>3. CASE m_state[k]
    <3>1. k \in Done /\ c # k  BY <2>1, <2>2, <2>3 DEF Done
    <3>2. Continues(c, k, pc) /\ UNCHANGED outcome  BY <1>5, <2>3 DEF TrySetContinuation
    <3> HIDE DEF k
    <3>3. awaited[c] = k  BY DEF k
    <3> QED  BY <1>5, <2>1, <3>1, <3>2, <3>3, ContinueStep
  <2>4. CASE ~m_state[k]
    <3>1. UNCHANGED <<outcome, awaited, result>>  BY <1>5, <2>4 DEF TrySetContinuation
    <3>2. pc' = [pc EXCEPT ![c] = "awaiting"]  BY <1>5, <2>4 DEF TrySetContinuation
    <3> QED  BY <2>1, <3>1, <3>2, SamePhase DEF Done, Started
  <2> QED  BY <2>3, <2>4
<1>6. ASSUME NEW t \in Threads, NEW c \in Coroutines, NEW k \in Tasks, AwaitDone(t, c, k)
      PROVE  Call!Next
  <2>1. UNCHANGED <<outcome, awaited>> /\ pc' = pc /\ result' = [result EXCEPT ![c] = outcome[k]]
    <3>1. awaited[c] = Null  BY <1>6 DEF AwaitDone, IInv, Protocol, InAwait
    <3> QED  BY <1>6, <3>1 DEF AwaitDone, Continues, promiseVars
  <2>2. Phase' = Phase /\ Phase[k] = "returned"
    BY <1>6, <2>1 DEF AwaitDone, Phase, Done, Started
  <2>3. Call!MayCall(c)  BY <1>6, MayCall DEF AwaitDone
  <2>4. Call!AskAgain(c, k)  BY <2>1, <2>2, <2>3 DEF Call!AskAgain
  <2> QED  BY <2>4 DEF Call!Next
<1>7. ASSUME NEW t \in Threads, NEW c \in Coroutines, NEW k \in Tasks,
             AwaitTransfer(t, c, k) \/ AwaitResume(t, c, k)
      PROVE  Call!Next
  BY <1>7, CallStep DEF AwaitTransfer, AwaitResume, promiseVars
<1>8. ASSUME NEW t \in Threads, NEW k \in Tasks, Complete(t, k) PROVE Call!Next
  <2>1. PICK o \in Outcomes : outcome' = [outcome EXCEPT ![k] = o]  BY <1>8 DEF Complete
  <2>2. Phase[k] = "called" /\ Phase' = [Phase EXCEPT ![k] = "returned"]
    BY <1>8 DEF Complete, Phase, Done, Started
  <2>3. awaited[k] = Null  BY <1>8 DEF Complete, IInv, Protocol, InAwait
  <2>4. Call!Return(k, o)  BY <1>8, <2>1, <2>2, <2>3 DEF Complete, Call!Return
  <2> QED  BY <2>4 DEF Call!Next
<1>9. ASSUME NEW t \in Threads, NEW k \in Tasks, FinalExchange(t, k) \/ FinalReturns(t, k)
      PROVE  UNCHANGED Call!vars
  <2>1. UNCHANGED <<outcome, awaited, result>>
    BY <1>9 DEF FinalExchange, FinalReturns, promiseVars
  <2>2. \A e \in Tasks :
          \/ pc'[e] = pc[e]
          \/ pc[e] \in {"completing", "final"} /\ pc'[e] \in {"resuming", "done"}
    BY <1>9 DEF FinalExchange, FinalReturns
  <2> QED  BY <2>1, <2>2, SamePhase DEF Done, Started
<1>10. ASSUME NEW t \in Threads, NEW k \in Tasks, FinalTransfer(t, k) \/ FinalResume(t, k)
       PROVE  Call!Next
  <2> DEFINE c == m_continuation[k]
  <2>1. c \in Coroutines /\ c # k /\ awaited[c] = k /\ k \in Done
    BY <1>10, AwaiterOf DEF FinalTransfer, FinalResume, Done
  <2>2. PICK location \in {"done", "final"} : Continues(c, k, [pc EXCEPT ![k] = location])
    BY <1>10 DEF FinalTransfer, FinalResume
  <2>3. UNCHANGED outcome  BY <1>10 DEF FinalTransfer, FinalResume, promiseVars
  <2> HIDE DEF c
  <2> QED  BY <1>10, <2>1, <2>2, <2>3, ContinueStep
<1> QED
  BY <1>1, <1>2, <1>3, <1>4, <1>5, <1>6, <1>7, <1>8, <1>9, <1>10 DEF Next, Await, Final

(* co_await of a task behaves like a procedure call, with either variant   *)
(* of await_suspend, whichever of awaiter and task comes last.             *)
THEOREM Implements == Spec => ImplementsCall
<1>1. Init => Call!Init
  BY TaskConstants DEF Init, Call!Init, Phase, Done, Started
<1> QED  BY <1>1, StepImplements, Invariance, PTL DEF Spec, ImplementsCall, Call!Spec
=============================================================================
