-------------------------- MODULE SharedTaskProofs --------------------------
(***************************************************************************)
(* shared_task, proved for any number of threads and clients, orders of    *)
(* memory accesses aside.                                                  *)
(*                                                                         *)
(* The argument: m_waiters tells how far the body is.  From the start of   *)
(* the body until it is ready no client gets past co_await, so the client  *)
(* that has started it is still there, and its reference keeps the frame   *)
(* alive.  The lists are sound as those of async_manual_reset_event are.   *)
(***************************************************************************)
EXTENDS SharedTaskPromise, CoroutineRuntimeProofs, FiniteSetTheorems

BodyStarted == m_waiters = NotStarted <=> pc[Body] = "initial"

BodyReady == m_waiters = Ready <=> pc[Body] \in {"final", "done"}

LoopOfFinal == waiter # Null => pc[Body] = "final"

OutcomeStored == pc[Body] \in {"completing", "final", "done"} => outcome \in Outcomes

PastStart == \A c \in Clients : pc[c] \in {"started", "pushing", "queued"} => m_waiters # NotStarted

SomeoneAwaits == m_waiters \notin {NotStarted, Ready} => Awaiting # {}

Progress ==
  BodyStarted /\ BodyReady /\ LoopOfFinal /\ OutcomeStored /\ PastStart /\ SomeoneAwaits

References ==
  /\ IsFiniteSet(owners) /\ m_refCount = Cardinality(owners)
  /\ FrameCounted
  /\ Awaiting \subseteq owners

IInv == TypeOK /\ Progress /\ References /\ ListsExact

LEMMA InitIInv == Init => IInv
<1> SUFFICES ASSUME Init PROVE IInv  OBVIOUS
<1> USE SharedTaskConstants DEF Init, Clients
<1>1. TypeOK
  <2>1. StackTypeOK  BY DEF StackTypeOK, StackInit
  <2>2. pc \in [Coroutines -> ClientLocations \cup BodyLocations]
    BY DEF ClientLocations, BodyLocations
  <2>3. /\ \A c \in Clients : pc[c] \in ClientLocations
        /\ pc[Body] \in BodyLocations
    BY DEF ClientLocations, BodyLocations
  <2> QED  BY <2>1, <2>2, <2>3 DEF TypeOK
<1>2. Progress
  BY DEF Progress, BodyStarted, BodyReady, LoopOfFinal, OutcomeStored, PastStart, SomeoneAwaits
<1>3. References
  <2>1. IsFiniteSet({Creator}) /\ Cardinality({Creator}) = 1  BY FS_Singleton
  <2> QED  BY <2>1 DEF References, FrameCounted, Awaiting
<1>4. ListsExact
  BY DEF ListsExact, WaitersOnly, NoSharedWaiter, NoLostWaiter, Queued
<1> QED  BY <1>1, <1>2, <1>3, <1>4 DEF IInv

-----------------------------------------------------------------------------
(* The steps of co_await that leave m_waiters alone.                       *)
Asks(t, c) ==
  \/ AwaitReady(t, c) \/ TryAwaitLoad(t, c) \/ ReloadAfterStart(t, c)
  \/ StartBody(t, c) /\ m_waiters # NotStarted
  \/ TryAwaitPush(t, c) /\ m_waiters # m_next[c]

AskStep(t, c) ==
  /\ Running(t, c) /\ c \in owners
  /\ pc[c] \in {"running", "unready", "starting", "started", "pushing"}
  /\ \/ pc' = [pc EXCEPT ![c] = "running"] /\ m_waiters = Ready
     \/ pc' = [pc EXCEPT ![c] = "pushing"] /\ m_waiters \notin {NotStarted, Ready}
     \/ pc' = [pc EXCEPT ![c] = "unready"] /\ m_waiters # Ready
     \/ pc' = [pc EXCEPT ![c] = "starting"] /\ m_waiters # Ready
  /\ \E n \in Clients \cup {Null} : m_next' = [m_next EXCEPT ![c] = n]
  /\ result' = IF m_waiters = Ready THEN [result EXCEPT ![c] = outcome] ELSE result
  /\ synced \subseteq synced' /\ synced' \subseteq synced \cup {c}
  /\ UNCHANGED <<m_waiters, taskVars, stack>>

LEMMA AsksStep ==
  ASSUME IInv, NEW t \in Threads, NEW c \in Clients, Asks(t, c)
  PROVE  AskStep(t, c)
<1> USE SharedTaskConstants DEF IInv, TypeOK, Clients
<1>1. m_waiters \notin {NotStarted, Ready} => m_waiters \in Clients \cup {Null}  OBVIOUS
<1>2. \E n \in Clients \cup {Null} : m_next = [m_next EXCEPT ![c] = n]
  <2>1. m_next = [m_next EXCEPT ![c] = m_next[c]]  OBVIOUS
  <2> QED  BY <2>1
<1>3. ASSUME NEW acquired, Examine(c, acquired), Running(t, c), c \in owners,
             pc[c] \in {"unready", "starting", "started", "pushing"}, m_waiters # NotStarted,
             UNCHANGED <<m_waiters, taskVars, stack>>
      PROVE  AskStep(t, c)
  <2>1. CASE m_waiters = Ready
    BY <1>3, <2>1 DEF Examine, Continue, AskStep
  <2>2. CASE m_waiters # Ready
    BY <1>1, <1>3, <2>2 DEF Examine, AskStep
  <2> QED  BY <2>1, <2>2
<1>4. CASE AwaitReady(t, c)
  <2>1. CASE m_waiters = Ready
    BY <1>4, <2>1 DEF AwaitReady, Continue, AskStep
  <2>2. CASE m_waiters # Ready
    BY <1>2, <1>4, <2>2 DEF AwaitReady, AskStep
  <2> QED  BY <2>1, <2>2
<1>5. pc[c] \in {"unready", "starting", "started", "pushing"} => c \in owners
  BY DEF References, Awaiting
<1>6. CASE TryAwaitLoad(t, c)
  <2>1. CASE m_waiters = NotStarted
    BY <1>2, <1>5, <1>6, <2>1 DEF TryAwaitLoad, AskStep
  <2>2. CASE m_waiters # NotStarted
    BY <1>3, <1>5, <1>6, <2>2 DEF TryAwaitLoad
  <2> QED  BY <2>1, <2>2
<1>7. pc[c] \in {"started", "pushing"} => m_waiters # NotStarted  BY DEF Progress, PastStart
<1>8. CASE ReloadAfterStart(t, c)
  BY <1>3, <1>5, <1>7, <1>8 DEF ReloadAfterStart
<1>9. CASE StartBody(t, c) /\ m_waiters # NotStarted
  BY <1>3, <1>5, <1>9 DEF StartBody
<1>10. CASE TryAwaitPush(t, c) /\ m_waiters # m_next[c]
  BY <1>3, <1>5, <1>7, <1>10 DEF TryAwaitPush
<1> QED  BY <1>4, <1>6, <1>8, <1>9, <1>10 DEF Asks

(* Steps that leave the lists alone.                                       *)
LEMMA ListsUntouched ==
  ASSUME IInv, UNCHANGED <<m_waiters, waiter>>, Queued' = Queued,
         \A d \in Queued : m_next'[d] = m_next[d]
  PROVE  ListsExact'
<1> USE DEF IInv, ListsExact
<1>1. WaitersOnly'  BY DEF WaitersOnly
<1>2. NoSharedWaiter'  BY DEF NoSharedWaiter
<1>3. NoLostWaiter'
  <2> SUFFICES ASSUME NEW lost \in SUBSET Queued, lost # {}
               PROVE  \E w \in lost : w \in {m_waiters, waiter} \/ \E d \in Queued \ lost : m_next[d] = w
    BY DEF NoLostWaiter
  <2> QED  BY DEF NoLostWaiter
<1> QED  BY <1>1, <1>2, <1>3

(* Steps that leave the objects and the frame alone.                       *)
LEMMA ReferencesUntouched ==
  ASSUME References, UNCHANGED <<m_refCount, owners, frame>>, Awaiting' \subseteq owners
  PROVE  References'
BY DEF References, FrameCounted

LEMMA ComeAndGoKeepIInv ==
  ASSUME IInv, NEW t \in Threads, NEW c \in Coroutines,
         Enter(t, c) \/ Leave(t, c) \/ \E d \in Coroutines : Switch(t, c, d)
  PROVE  IInv'
<1> USE SharedTaskConstants DEF Clients
<1>0. TypeOK /\ StackTypeOK  BY DEF IInv, TypeOK
<1>1. /\ UNCHANGED <<m_waiters, m_next, taskVars, result, synced>>
      /\ pc' \in [Coroutines -> ClientLocations \cup BodyLocations]
      /\ \A e \in Coroutines :
           \/ pc'[e] = pc[e]
           \/ pc[e] \in {"running", "parked"} /\ pc'[e] \in {"running", "parked"}
  BY <1>0 DEF Enter, Leave, Switch, TypeOK, ClientLocations, BodyLocations
<1>2. StackTypeOK'  BY <1>0, StackTypes DEF Enter, Leave, Switch
<1>3. /\ Queued' = Queued /\ Awaiting' = Awaiting
      /\ \A c1 \in Clients : pc'[c1] \in {"started", "pushing", "queued"} => pc'[c1] = pc[c1]
      /\ pc'[Body] \notin {"running", "parked"} \/ pc[Body] \notin {"running", "parked"}
           => pc'[Body] = pc[Body]
  BY <1>1 DEF Queued, Awaiting
<1>4. TypeOK'
  <2>1. /\ \A e \in Clients : pc'[e] \in ClientLocations
        /\ pc'[Body] \in BodyLocations
    BY <1>0, <1>1 DEF TypeOK, ClientLocations, BodyLocations
  <2> QED  BY <1>0, <1>1, <1>2, <2>1 DEF TypeOK, taskVars
<1>5. Progress'
  BY <1>1, <1>3 DEF IInv, Progress, BodyStarted, BodyReady, LoopOfFinal, OutcomeStored, PastStart,
     SomeoneAwaits, taskVars
<1>6. References'
  BY <1>1, <1>3, ReferencesUntouched DEF IInv, taskVars, References
<1>7. ListsExact'  BY <1>1, <1>3, ListsUntouched DEF taskVars
<1> QED  BY <1>4, <1>5, <1>6, <1>7 DEF IInv

(* The last shared_task takes the frame with it.                           *)
LEMMA ObjectsKeepIInv ==
  ASSUME IInv, NEW t \in Threads, NEW c \in Clients,
         DropTask(t, c) \/ \E d \in Clients : CopyTask(t, c, d) \/ MoveTask(t, c, d)
  PROVE  IInv'
<1>0. TypeOK /\ StackTypeOK /\ References  BY DEF IInv, TypeOK
<1>1. /\ UNCHANGED <<m_waiters, m_next, outcome, waiter, result, synced, pc, stack>>
      /\ pc[c] = "running" /\ c \in owners
  BY DEF DropTask, CopyTask, MoveTask
<1>2. UNCHANGED <<Queued, Awaiting, StackTypeOK>>
  BY <1>1 DEF Queued, Awaiting, StackTypeOK
<1>3. c \notin Awaiting /\ Awaiting \subseteq owners
  BY <1>0, <1>1 DEF Awaiting, References
<1>4. References' /\ m_refCount' \in Nat /\ owners' \in SUBSET Clients /\ frame' \in BOOLEAN
  <2> USE <1>0, <1>3 DEF TypeOK
  <2>1. IsFiniteSet(owners) /\ m_refCount = Cardinality(owners) /\ (frame <=> owners # {})
    BY DEF References, FrameCounted
  <2>2. /\ IsFiniteSet(owners \ {c})
        /\ Cardinality(owners \ {c}) = m_refCount - 1 /\ m_refCount - 1 \in Nat
    <3>1. /\ IsFiniteSet(owners \ {c})
          /\ Cardinality(owners \ {c}) = Cardinality(owners) - 1
      BY <1>1, <2>1, FS_RemoveElement
    <3>2. Cardinality(owners \ {c}) \in Nat  BY <3>1, FS_CardinalityType
    <3> QED  BY <2>1, <3>1, <3>2
  <2>3. CASE DropTask(t, c)
    <3>1. owners' = owners \ {c} /\ m_refCount' = m_refCount - 1 /\ frame' = (m_refCount # 1)
      BY <2>3 DEF DropTask
    <3>2. m_refCount = 1 <=> owners' = {}
      <4>1. Cardinality(owners \ {c}) = 0 <=> owners \ {c} = {}  BY <2>2, FS_EmptySet
      <4>2. m_refCount - 1 = 0 <=> m_refCount = 1  OBVIOUS
      <4> QED  BY <2>2, <3>1, <4>1, <4>2
    <3> QED  BY <1>2, <2>2, <3>1, <3>2 DEF References, FrameCounted
  <2>4. ASSUME NEW d \in Clients, CopyTask(t, c, d)
        PROVE  References' /\ m_refCount' \in Nat /\ owners' \in SUBSET Clients /\ frame' \in BOOLEAN
    <3>1. owners' = owners \cup {d} /\ d \notin owners /\ m_refCount' = m_refCount + 1 /\ frame' = frame
      BY <2>4 DEF CopyTask
    <3>2. IsFiniteSet(owners') /\ Cardinality(owners') = m_refCount + 1
      BY <2>1, <3>1, FS_AddElement
    <3> QED  BY <1>1, <1>2, <2>1, <3>1, <3>2 DEF References, FrameCounted
  <2>5. ASSUME NEW d \in Clients, MoveTask(t, c, d)
        PROVE  References' /\ m_refCount' \in Nat /\ owners' \in SUBSET Clients /\ frame' \in BOOLEAN
    <3>1. /\ owners' = (owners \ {c}) \cup {d} /\ d \notin owners
          /\ UNCHANGED <<m_refCount, frame>>
      BY <2>5 DEF MoveTask
    <3>2. IsFiniteSet(owners') /\ Cardinality(owners') = (m_refCount - 1) + 1
      BY <2>2, <3>1, FS_AddElement
    <3> QED  BY <1>1, <1>2, <2>1, <3>1, <3>2 DEF References, FrameCounted
  <2> QED  BY <2>3, <2>4, <2>5
<1>5. TypeOK'  BY <1>0, <1>1, <1>2, <1>4 DEF TypeOK
<1>6. Progress'
  BY <1>1, <1>2 DEF IInv, Progress, BodyStarted, BodyReady, LoopOfFinal, OutcomeStored, PastStart,
     SomeoneAwaits
<1>7. ListsExact'  BY <1>1, <1>2, ListsUntouched
<1> QED  BY <1>4, <1>5, <1>6, <1>7 DEF IInv

LEMMA AsksKeepIInv ==
  ASSUME IInv, NEW t \in Threads, NEW c \in Clients, Asks(t, c)
  PROVE  IInv'
<1> USE SharedTaskConstants DEF Clients
<1>0. TypeOK /\ StackTypeOK  BY DEF IInv, TypeOK
<1>1. AskStep(t, c)  BY AsksStep
<1>2. /\ UNCHANGED <<m_waiters, taskVars, stack>> /\ c \in owners
      /\ pc' \in [Coroutines -> ClientLocations \cup BodyLocations]
      /\ pc[c] # "queued" /\ pc'[c] \in {"running", "pushing", "unready", "starting"}
      /\ pc'[c] = "running" => m_waiters = Ready
      /\ pc'[c] = "pushing" => m_waiters # NotStarted
      /\ \A e \in Coroutines : e # c => pc'[e] = pc[e]
  BY <1>0, <1>1 DEF AskStep, TypeOK, ClientLocations
<1>3. m_next' \in [Clients -> Clients \cup {Null}] /\ \A e \in Clients : e # c => m_next'[e] = m_next[e]
  BY <1>0, <1>1 DEF AskStep, TypeOK
<1>4. Queued' = Queued /\ Awaiting \ {c} \subseteq Awaiting' /\ Awaiting' \subseteq Awaiting \cup {c}
  BY <1>2 DEF Queued, Awaiting
<1>5. pc'[Body] = pc[Body] /\ (m_waiters # Ready => Awaiting \subseteq Awaiting')
  BY <1>2, <1>4 DEF Awaiting
<1>6. TypeOK'
  <2>1. result' \in [Clients -> Outcomes \cup {NoOutcome}] /\ synced' \in SUBSET Clients
    BY <1>0, <1>1 DEF AskStep, TypeOK
  <2>2. /\ \A e \in Clients : pc'[e] \in ClientLocations
        /\ pc'[Body] \in BodyLocations
    BY <1>0, <1>2, <1>5 DEF TypeOK, ClientLocations
  <2>3. StackTypeOK'  BY <1>0, <1>2 DEF StackTypeOK
  <2> QED  BY <1>0, <1>2, <1>3, <2>1, <2>2, <2>3 DEF TypeOK, taskVars
<1>7. Progress'
  BY <1>2, <1>4, <1>5 DEF IInv, Progress, BodyStarted, BodyReady, LoopOfFinal, OutcomeStored,
     PastStart, SomeoneAwaits, taskVars
<1>8. References'
  <2>1. Awaiting' \subseteq owners  BY <1>2, <1>4 DEF IInv, References
  <2> QED  BY <1>2, <2>1, ReferencesUntouched DEF IInv, taskVars
<1>9. ListsExact'
  <2>1. \A d \in Queued : m_next'[d] = m_next[d]  BY <1>2, <1>3 DEF Queued
  <2> QED  BY <1>2, <1>4, <2>1, ListsUntouched DEF taskVars
<1> QED  BY <1>6, <1>7, <1>8, <1>9 DEF IInv

-----------------------------------------------------------------------------
LEMMA StartKeepsIInv ==
  ASSUME IInv, NEW t \in Threads, NEW c \in Clients, StartBody(t, c), m_waiters = NotStarted
  PROVE  IInv'
<1> USE SharedTaskConstants DEF Clients
<1>0. TypeOK /\ StackTypeOK  BY DEF IInv, TypeOK
<1>1. /\ pc[c] = "starting" /\ pc' = [pc EXCEPT ![c] = "started", ![Body] = "running"]
      /\ m_waiters' = Null /\ Resume(t, Body)
      /\ UNCHANGED <<m_next, result, synced, m_refCount, owners, frame, outcome, waiter>>
  BY DEF StartBody, taskVars
<1>2. /\ pc'[c] = "started" /\ pc'[Body] = "running"
      /\ \A e \in Coroutines : e \notin {c, Body} => pc'[e] = pc[e]
  BY <1>0, <1>1 DEF TypeOK
<1>3. Queued' = Queued /\ Awaiting' = Awaiting /\ c \in Awaiting
  BY <1>1, <1>2 DEF Queued, Awaiting
<1>4. Queued = {} /\ waiter = Null
  BY <1>0 DEF IInv, Progress, PastStart, LoopOfFinal, BodyStarted, Queued, TypeOK
<1>5. TypeOK'
  <2>1. StackTypeOK'  BY <1>0, <1>1, StackTypes
  <2>2. /\ \A e \in Clients : pc'[e] \in ClientLocations
        /\ pc'[Body] \in BodyLocations
        /\ pc' \in [Coroutines -> ClientLocations \cup BodyLocations]
    BY <1>0, <1>1, <1>2 DEF TypeOK, ClientLocations, BodyLocations
  <2> QED  BY <1>0, <1>1, <2>1, <2>2 DEF TypeOK
<1>6. Progress'
  BY <1>1, <1>2, <1>3, <1>4 DEF Progress, BodyStarted, BodyReady, LoopOfFinal, OutcomeStored,
     PastStart, SomeoneAwaits
<1>7. References'  BY <1>1, <1>3, ReferencesUntouched DEF IInv, References
<1>8. ListsExact'
  BY <1>1, <1>3, <1>4 DEF ListsExact, WaitersOnly, NoSharedWaiter, NoLostWaiter
<1> QED  BY <1>5, <1>6, <1>7, <1>8 DEF IInv

(* A waiter is pushed in front of the list that m_waiters heads.           *)
LEMMA PushKeepsIInv ==
  ASSUME IInv, NEW t \in Threads, NEW c \in Clients, TryAwaitPush(t, c), m_waiters = m_next[c]
  PROVE  IInv'
<1> USE SharedTaskConstants DEF Clients
<1>0. TypeOK /\ StackTypeOK /\ ListsExact  BY DEF IInv, TypeOK
<1>1. /\ pc[c] = "pushing" /\ pc' = [pc EXCEPT ![c] = "queued"] /\ m_waiters' = c
      /\ Running(t, c) /\ Return(t)
      /\ UNCHANGED <<m_next, result, synced, m_refCount, owners, frame, outcome, waiter>>
  BY DEF TryAwaitPush, taskVars
<1>2. pc'[c] = "queued" /\ \A e \in Coroutines : e # c => pc'[e] = pc[e]
  BY <1>0, <1>1 DEF TypeOK
<1>3. /\ c \notin Queued /\ Queued' = Queued \cup {c} /\ Queued \subseteq Clients
      /\ Awaiting' = Awaiting
  BY <1>1, <1>2 DEF Queued, Awaiting
<1>4. m_waiters \in Queued \cup {Null} /\ m_waiters # c
  BY <1>0, <1>3 DEF ListsExact, WaitersOnly, TypeOK
<1>5. c # waiter /\ \A d \in Queued : c # m_next[d]
  BY <1>0, <1>3 DEF ListsExact, WaitersOnly
<1>6. TypeOK'
  <2>1. StackTypeOK'  BY <1>0, <1>1, StackTypes
  <2>2. /\ \A e \in Clients : pc'[e] \in ClientLocations
        /\ pc'[Body] \in BodyLocations
        /\ pc' \in [Coroutines -> ClientLocations \cup BodyLocations]
    BY <1>0, <1>1, <1>2 DEF TypeOK, ClientLocations, BodyLocations
  <2> QED  BY <1>0, <1>1, <2>1, <2>2 DEF TypeOK
<1>7. Progress'
  <2>1. m_waiters \notin {NotStarted, Ready} /\ pc'[Body] = pc[Body] /\ c \in Awaiting
    BY <1>1, <1>2, <1>3, <1>4 DEF Awaiting
  <2> QED
    BY <1>1, <1>2, <1>3, <2>1 DEF IInv, Progress, BodyStarted, BodyReady, LoopOfFinal,
       OutcomeStored, PastStart, SomeoneAwaits
<1>8. References'  BY <1>1, <1>3, ReferencesUntouched DEF IInv, References
<1>9. ListsExact'
  <2>1. WaitersOnly'  BY <1>0, <1>1, <1>3, <1>4 DEF ListsExact, WaitersOnly
  <2>2. NoSharedWaiter'
    <3>1. /\ waiter \in Clients => waiter # m_waiters
          /\ \A d \in Queued : m_next[d] \in Clients => m_next[d] # m_waiters
      BY <1>0 DEF ListsExact, NoSharedWaiter
    <3> QED
      BY <1>0, <1>1, <1>3, <1>4, <1>5, <3>1 DEF ListsExact, NoSharedWaiter
  <2>3. NoLostWaiter'
    <3> SUFFICES ASSUME NEW lost \in SUBSET Queued', lost # {}
                 PROVE  \E w \in lost :
                          w \in {c, waiter} \/ \E d \in Queued' \ lost : m_next[d] = w
      BY <1>1 DEF NoLostWaiter
    <3>1. CASE c \in lost  BY <3>1
    <3>2. CASE c \notin lost
      <4>1. PICK w \in lost :
              w \in {m_waiters, waiter} \/ \E d \in Queued \ lost : m_next[d] = w
        BY <1>0, <1>3, <3>2 DEF ListsExact, NoLostWaiter
      <4> QED  BY <1>3, <3>2, <4>1
    <3> QED  BY <3>1, <3>2
  <2> QED  BY <2>1, <2>2, <2>3 DEF ListsExact
<1> QED  BY <1>6, <1>7, <1>8, <1>9 DEF IInv

LEMMA CompletesKeepsIInv ==
  ASSUME IInv, NEW t \in Threads, BodyCompletes(t) \/ FinalReturns(t)
  PROVE  IInv'
<1> USE SharedTaskConstants DEF Clients
<1>0. TypeOK /\ StackTypeOK  BY DEF IInv, TypeOK
<1>1. /\ UNCHANGED <<m_waiters, m_next, m_refCount, owners, frame, waiter, result, synced>>
      /\ \/ /\ pc[Body] = "running" /\ outcome' \in Outcomes
            /\ pc' = [pc EXCEPT ![Body] = "completing"]
         \/ /\ pc[Body] = "final" /\ waiter = Null /\ UNCHANGED outcome
            /\ pc' = [pc EXCEPT ![Body] = "done"]
  BY DEF BodyCompletes, FinalReturns, taskVars
<1>2. /\ \A e \in Coroutines : e # Body => pc'[e] = pc[e]
      /\ pc' \in [Coroutines -> ClientLocations \cup BodyLocations]
      /\ \/ pc[Body] = "running" /\ pc'[Body] = "completing" /\ outcome' \in Outcomes
         \/ pc[Body] = "final" /\ pc'[Body] = "done" /\ waiter = Null /\ UNCHANGED outcome
  BY <1>0, <1>1 DEF TypeOK, BodyLocations
<1>3. Queued' = Queued /\ Awaiting' = Awaiting  BY <1>2 DEF Queued, Awaiting
<1>4. TypeOK'
  <2>1. StackTypeOK'  BY <1>0, StackTypes DEF BodyCompletes, FinalReturns
  <2>2. /\ \A e \in Clients : pc'[e] \in ClientLocations
        /\ pc'[Body] \in BodyLocations
    BY <1>0, <1>2 DEF TypeOK, BodyLocations
  <2> QED  BY <1>0, <1>1, <1>2, <2>1, <2>2 DEF TypeOK
<1>5. Progress'
  BY <1>1, <1>2, <1>3 DEF IInv, Progress, BodyStarted, BodyReady, LoopOfFinal, OutcomeStored,
     PastStart, SomeoneAwaits
<1>6. References'  BY <1>1, <1>3, ReferencesUntouched DEF IInv, References
<1>7. ListsExact'  BY <1>1, <1>3, ListsUntouched
<1> QED  BY <1>4, <1>5, <1>6, <1>7 DEF IInv

(* final_awaiter takes the list.                                           *)
LEMMA ExchangeKeepsIInv ==
  ASSUME IInv, NEW t \in Threads, FinalExchange(t)
  PROVE  IInv'
<1> USE SharedTaskConstants DEF Clients
<1>0. TypeOK /\ StackTypeOK /\ ListsExact  BY DEF IInv, TypeOK
<1>1. /\ pc[Body] = "completing" /\ pc' = [pc EXCEPT ![Body] = "final"]
      /\ m_waiters' = Ready /\ waiter' = m_waiters
      /\ UNCHANGED <<m_next, m_refCount, owners, frame, outcome, result, synced, stack>>
  BY DEF FinalExchange
<1>2. pc'[Body] = "final" /\ \A e \in Coroutines : e # Body => pc'[e] = pc[e]
  BY <1>0, <1>1 DEF TypeOK
<1>3. Queued' = Queued /\ Awaiting' = Awaiting /\ Queued \subseteq Clients
  BY <1>2 DEF Queued, Awaiting
<1>4. m_waiters \in Queued \cup {Null} /\ waiter = Null
  BY <1>0, <1>1 DEF ListsExact, WaitersOnly, IInv, Progress, BodyStarted, BodyReady, LoopOfFinal
<1>5. TypeOK'
  <2>1. StackTypeOK'  BY <1>0, <1>1 DEF StackTypeOK
  <2>2. /\ \A e \in Clients : pc'[e] \in ClientLocations
        /\ pc'[Body] \in BodyLocations
        /\ pc' \in [Coroutines -> ClientLocations \cup BodyLocations]
    BY <1>0, <1>1, <1>2 DEF TypeOK, BodyLocations
  <2> QED  BY <1>0, <1>1, <1>3, <1>4, <2>1, <2>2 DEF TypeOK
<1>6. Progress'
  BY <1>1, <1>2 DEF IInv, Progress, BodyStarted, BodyReady, LoopOfFinal, OutcomeStored, PastStart,
     SomeoneAwaits
<1>7. References'  BY <1>1, <1>3, ReferencesUntouched DEF IInv, References
<1>8. ListsExact'
  <2>1. WaitersOnly'  BY <1>0, <1>1, <1>3, <1>4 DEF ListsExact, WaitersOnly
  <2>2. NoSharedWaiter'
    BY <1>0, <1>1, <1>3, <1>4 DEF ListsExact, NoSharedWaiter
  <2>3. NoLostWaiter'
    <3> SUFFICES ASSUME NEW lost \in SUBSET Queued, lost # {}
                 PROVE  \E w \in lost :
                          w = m_waiters \/ \E d \in Queued \ lost : m_next[d] = w
      BY <1>1, <1>3 DEF NoLostWaiter
    <3>1. Null \notin lost  BY <1>3
    <3> QED  BY <1>0, <1>4, <3>1 DEF ListsExact, NoLostWaiter
  <2> QED  BY <2>1, <2>2, <2>3 DEF ListsExact
<1> QED  BY <1>5, <1>6, <1>7, <1>8 DEF IInv

(* The first waiter of the list of final_awaiter leaves it and runs.       *)
LEMMA ResumeKeepsIInv ==
  ASSUME IInv, NEW t \in Threads, FinalResume(t)
  PROVE  IInv'
<1> USE SharedTaskConstants DEF Clients
<1>0. TypeOK /\ StackTypeOK /\ ListsExact  BY DEF IInv, TypeOK
<1> DEFINE w == waiter  x == m_next[w]
<1>1. /\ pc[Body] = "final" /\ w # Null /\ pc' = [pc EXCEPT ![w] = "running"]
      /\ waiter' = x /\ m_next' = [m_next EXCEPT ![w] = Null]
      /\ result' = [result EXCEPT ![w] = outcome] /\ synced' = synced \cup {w}
      /\ Resume(t, w) /\ UNCHANGED <<m_waiters, m_refCount, owners, frame, outcome>>
  BY DEF FinalResume, Continue
<1>2. m_waiters = Ready  BY <1>1 DEF IInv, Progress, BodyReady
<1>3. Queued \subseteq Clients /\ w \in Queued /\ x \in Queued \cup {Null} /\ pc[w] = "queued"
  BY <1>0, <1>1 DEF Queued, ListsExact, WaitersOnly
<1>4. /\ \A e \in Coroutines : pc'[e] = IF e = w THEN "running" ELSE pc[e]
      /\ \A e \in Clients : m_next'[e] = IF e = w THEN Null ELSE m_next[e]
  BY <1>0, <1>1, <1>3 DEF TypeOK
<1>5. /\ Queued' = Queued \ {w} /\ Awaiting' \subseteq Awaiting /\ pc'[Body] = pc[Body]
  BY <1>3, <1>4 DEF Queued, Awaiting
<1>6. /\ x # w /\ \A d \in Queued : m_next[d] # w
      /\ x # Null => \A d \in Queued : m_next[d] = x => d = w
  BY <1>0, <1>3 DEF ListsExact, NoSharedWaiter
<1>7. TypeOK'
  <2>1. StackTypeOK'  BY <1>0, <1>1, <1>3, StackTypes
  <2>2. /\ \A e \in Clients : pc'[e] \in ClientLocations
        /\ pc'[Body] \in BodyLocations
        /\ pc' \in [Coroutines -> ClientLocations \cup BodyLocations]
    BY <1>0, <1>1, <1>3, <1>4 DEF TypeOK, ClientLocations, BodyLocations
  <2> QED  BY <1>0, <1>1, <1>3, <2>1, <2>2 DEF TypeOK
<1>8. Progress'
  <2>1. \A e \in Clients : pc'[e] \in {"started", "pushing", "queued"} => pc'[e] = pc[e]
    BY <1>4
  <2> QED
    BY <1>1, <1>2, <1>5, <2>1 DEF IInv, Progress, BodyStarted, BodyReady, LoopOfFinal,
       OutcomeStored, PastStart, SomeoneAwaits
<1>9. References'  BY <1>1, <1>5, ReferencesUntouched DEF IInv, References
<1>10. ListsExact'
  <2>1. WaitersOnly'
    BY <1>0, <1>1, <1>2, <1>3, <1>4, <1>5, <1>6 DEF ListsExact, WaitersOnly
  <2>2. NoSharedWaiter'
    BY <1>0, <1>1, <1>2, <1>3, <1>4, <1>5, <1>6 DEF ListsExact, NoSharedWaiter
  <2>3. NoLostWaiter'
    <3> SUFFICES ASSUME NEW lost \in SUBSET Queued', lost # {}
                 PROVE  \E v \in lost :
                          v = x \/ \E d \in Queued' \ lost : m_next'[d] = v
      BY <1>1 DEF NoLostWaiter
    <3>1. lost \in SUBSET Queued /\ w \notin lost /\ m_waiters \notin lost
      BY <1>2, <1>3, <1>5
    <3>2. PICK v \in lost : \E d \in Queued \ lost : m_next[d] = v
      BY <1>0, <3>1 DEF ListsExact, NoLostWaiter
    <3>3. PICK d \in Queued \ lost : m_next[d] = v  BY <3>2
    <3>4. CASE d = w  BY <3>3, <3>4
    <3>5. CASE d # w  BY <1>3, <1>4, <1>5, <3>3, <3>5
    <3> QED  BY <3>4, <3>5
  <2> QED  BY <2>1, <2>2, <2>3 DEF ListsExact
<1> QED  BY <1>7, <1>8, <1>9, <1>10 DEF IInv

LEMMA StutterKeepsIInv == IInv /\ UNCHANGED vars => IInv'
<1> SUFFICES ASSUME IInv, UNCHANGED vars PROVE IInv'  OBVIOUS
<1>1. UNCHANGED <<m_waiters, m_next, m_refCount, owners, frame, outcome, waiter, result, synced,
                  pc, stack>>
  BY DEF vars
<1>2. Queued' = Queued /\ Awaiting' = Awaiting  BY <1>1 DEF Queued, Awaiting
<1>3. TypeOK'  BY <1>1 DEF IInv, TypeOK, StackTypeOK
<1>4. Progress'
  BY <1>1, <1>2 DEF IInv, Progress, BodyStarted, BodyReady, LoopOfFinal, OutcomeStored, PastStart,
     SomeoneAwaits
<1>5. References'  BY <1>1, <1>2, ReferencesUntouched DEF IInv, References
<1>6. ListsExact'  BY <1>1, <1>2, ListsUntouched
<1> QED  BY <1>3, <1>4, <1>5, <1>6 DEF IInv

LEMMA NextKeepsIInv == IInv /\ [Next]_vars => IInv'
<1> SUFFICES ASSUME IInv, [Next]_vars PROVE IInv'  OBVIOUS
<1>1. CASE UNCHANGED vars  BY <1>1, StutterKeepsIInv
<1>2. ASSUME NEW t \in Threads, Final(t) \/ BodyCompletes(t) PROVE IInv'
  BY <1>2, CompletesKeepsIInv, ExchangeKeepsIInv, ResumeKeepsIInv DEF Final
<1>3. ASSUME NEW t \in Threads, NEW c \in Coroutines,
             Enter(t, c) \/ Leave(t, c) \/ \E d \in Coroutines : Switch(t, c, d)
      PROVE  IInv'
  BY <1>3, ComeAndGoKeepIInv
<1>4. ASSUME NEW t \in Threads, NEW c \in Clients, Await(t, c) \/ Client(t, c) PROVE IInv'
  <2>1. \/ Asks(t, c)
        \/ StartBody(t, c) /\ m_waiters = NotStarted
        \/ TryAwaitPush(t, c) /\ m_waiters = m_next[c]
        \/ DropTask(t, c) \/ \E d \in Clients : CopyTask(t, c, d) \/ MoveTask(t, c, d)
    BY <1>4 DEF Await, Client, Asks
  <2> QED  BY <2>1, AsksKeepIInv, StartKeepsIInv, PushKeepsIInv, ObjectsKeepIInv
<1> QED  BY <1>1, <1>2, <1>3, <1>4 DEF Next

LEMMA Invariance == Spec => []IInv
<1> QED  BY InitIInv, NextKeepsIInv, PTL DEF Spec

-----------------------------------------------------------------------------
(* Type correctness: final_awaiter only dereferences waiters.              *)
THEOREM TypeCorrect == Spec => []TypeOK
<1>1. IInv => TypeOK  BY DEF IInv
<1> QED  BY <1>1, Invariance, PTL

(* The frame outlives everyone who reads it, although the body holds no    *)
(* reference to itself.                                                    *)
THEOREM MemorySafe == Spec => []NoUseAfterFree
<1>1. ASSUME IInv PROVE NoUseAfterFree
  <2>1. Awaiting # {} => frame  BY <1>1 DEF IInv, References, FrameCounted
  <2>2. pc[Body] \in {"running", "parked", "completing"} => m_waiters \notin {NotStarted, Ready}
    BY <1>1 DEF IInv, Progress, BodyStarted, BodyReady
  <2> QED  BY <1>1, <2>1, <2>2 DEF IInv, Progress, SomeoneAwaits, NoUseAfterFree
<1> QED  BY <1>1, Invariance, PTL

(* Copies, moves and destructions of shared_task objects by any number of  *)
(* clients destroy the frame with the last object and not before.          *)
THEOREM FrameWithLastOwner == Spec => []FrameCounted
<1>1. IInv => FrameCounted  BY DEF IInv, References
<1> QED  BY <1>1, Invariance, PTL

(* The waiters are the suspended clients, all of them, and none twice: the *)
(* body resumes each that has queued, whoever starts it and however late.  *)
THEOREM ListsSound == Spec => []ListsExact
<1>1. IInv => ListsExact  BY DEF IInv
<1> QED  BY <1>1, Invariance, PTL

-----------------------------------------------------------------------------
Active == {c \in Coroutines : pc[c] \notin {"parked", "queued", "initial", "done"}}

ActiveStacked == \A t \in Threads : \A i \in 1..Len(stack[t]) : stack[t][i] \in Active

LEMMA NextKeepsStacks ==
  IInv /\ NoDoubleResume /\ ActiveStacked /\ [Next]_vars => NoDoubleResume' /\ ActiveStacked'
<1> SUFFICES ASSUME IInv, NoDoubleResume, ActiveStacked, [Next]_vars
             PROVE  NoDoubleResume' /\ ActiveStacked'
  OBVIOUS
<1>0. TypeOK /\ StackTypeOK  BY DEF IInv, TypeOK
<1>1. CASE UNCHANGED vars
  BY <1>1 DEF vars, NoDoubleResume, ActiveStacked, Active
<1>2. ASSUME NEW t \in Threads, NEW c \in Coroutines,
             \/ UNCHANGED stack /\ Active \subseteq Active'
             \/ Resume(t, c) /\ c \notin Active /\ Active \cup {c} \subseteq Active'
             \/ Running(t, c) /\ Return(t) /\ Active \ {c} \subseteq Active'
             \/ \E b \in Coroutines :
                  /\ Running(t, b) /\ Transfer(t, c)
                  /\ c \notin Active /\ c \in Active' /\ Active \ {b} \subseteq Active'
      PROVE  NoDoubleResume' /\ ActiveStacked'
  BY <1>0, <1>2, StacksFollow DEF ActiveStacked
<1> USE <1>0, SharedTaskConstants DEF TypeOK, Active, Clients
<1>3. ASSUME NEW t \in Threads, NEW c \in Coroutines, Enter(t, c) PROVE NoDoubleResume' /\ ActiveStacked'
  <2>1. Resume(t, c) /\ c \notin Active /\ Active \cup {c} \subseteq Active'
    BY <1>3 DEF Enter
  <2> QED  BY <1>2, <1>3, <2>1
<1>4. ASSUME NEW t \in Threads, NEW c \in Coroutines, Leave(t, c) PROVE NoDoubleResume' /\ ActiveStacked'
  <2>1. Running(t, c) /\ Return(t) /\ Active \ {c} \subseteq Active'
    BY <1>4 DEF Leave
  <2> QED  BY <1>2, <1>4, <2>1
<1>5. ASSUME NEW t \in Threads, NEW c \in Coroutines, NEW d \in Coroutines, Switch(t, c, d)
      PROVE  NoDoubleResume' /\ ActiveStacked'
  <2>1. /\ Running(t, c) /\ Transfer(t, d)
        /\ d \notin Active /\ d \in Active' /\ Active \ {c} \subseteq Active'
    BY <1>5 DEF Switch
  <2> QED  BY <1>2, <1>5, <2>1
<1>6. ASSUME NEW t \in Threads, NEW c \in Clients, Client(t, c) \/ Asks(t, c)
      PROVE  NoDoubleResume' /\ ActiveStacked'
  <2>1. UNCHANGED stack /\ Active \subseteq Active'
    <3>1. CASE Asks(t, c)  BY <1>6, <3>1, AsksStep DEF AskStep
    <3>2. CASE ~Asks(t, c)
      BY <1>6, <3>2 DEF Client, Asks, DropTask, CopyTask, MoveTask
    <3> QED  BY <3>1, <3>2
  <2> QED  BY <1>2, <1>6, <2>1
<1>7. ASSUME NEW t \in Threads, NEW c \in Clients, StartBody(t, c), m_waiters = NotStarted
      PROVE  NoDoubleResume' /\ ActiveStacked'
  <2>1. pc[Body] = "initial"  BY <1>7 DEF IInv, Progress, BodyStarted
  <2>2. Resume(t, Body) /\ Body \notin Active /\ Active \cup {Body} \subseteq Active'
    BY <1>7, <2>1 DEF StartBody
  <2> QED  BY <1>2, <1>7, <2>2
<1>8. ASSUME NEW t \in Threads, NEW c \in Clients, TryAwaitPush(t, c), m_waiters = m_next[c]
      PROVE  NoDoubleResume' /\ ActiveStacked'
  <2>1. Running(t, c) /\ Return(t) /\ Active \ {c} \subseteq Active'
    BY <1>8 DEF TryAwaitPush
  <2> QED  BY <1>2, <1>8, <2>1
<1>9. ASSUME NEW t \in Threads, BodyCompletes(t) \/ FinalExchange(t)
      PROVE  NoDoubleResume' /\ ActiveStacked'
  <2>1. UNCHANGED stack /\ Active \subseteq Active'
    BY <1>9 DEF BodyCompletes, FinalExchange
  <2> QED  BY <1>2, <1>9, <2>1
<1>10. ASSUME NEW t \in Threads, FinalReturns(t) PROVE NoDoubleResume' /\ ActiveStacked'
  <2>1. Running(t, Body) /\ Return(t) /\ Active \ {Body} \subseteq Active'
    BY <1>10 DEF FinalReturns
  <2> QED  BY <1>2, <1>10, <2>1
<1>11. ASSUME NEW t \in Threads, FinalResume(t) PROVE NoDoubleResume' /\ ActiveStacked'
  <2> DEFINE w == waiter
  <2>1. w \in Coroutines /\ pc[w] = "queued"
    BY <1>11 DEF FinalResume, IInv, ListsExact, WaitersOnly, Queued
  <2>2. Resume(t, w) /\ w \notin Active /\ Active \cup {w} \subseteq Active'
    BY <1>11, <2>1 DEF FinalResume, Continue
  <2> HIDE DEF w
  <2> QED  BY <1>2, <1>11, <2>1, <2>2
<1>12. ASSUME NEW t \in Threads, NEW c \in Clients, Await(t, c) PROVE NoDoubleResume' /\ ActiveStacked'
  <2>1. \/ Asks(t, c)
        \/ StartBody(t, c) /\ m_waiters = NotStarted
        \/ TryAwaitPush(t, c) /\ m_waiters = m_next[c]
    BY <1>12 DEF Await, Asks
  <2> QED  BY <1>6, <1>7, <1>8, <1>12, <2>1
<1> HIDE DEF TypeOK, Active, Clients
<1> QED
  BY <1>1, <1>3, <1>4, <1>5, <1>6, <1>9, <1>10, <1>11, <1>12 DEF Next, Final

(* Neither the body nor a waiter is resumed unless it is suspended: the    *)
(* body is started once, and each waiter is resumed once for its co_await. *)
THEOREM ResumesSuspended == Spec => []NoDoubleResume
<1>1. Init => NoDoubleResume /\ ActiveStacked
  BY DEF Init, StackInit, NoDoubleResume, ActiveStacked
<1> QED  BY <1>1, NextKeepsStacks, Invariance, PTL DEF Spec

-----------------------------------------------------------------------------
(* Steps that are none of the clients' business.                           *)
LEMMA SameRequests ==
  ASSUME UNCHANGED <<m_waiters, outcome, Awaiting, result>>
  PROVE  UNCHANGED Lazy!vars
BY DEF Lazy!vars, Phase

LEMMA GiveStep ==
  ASSUME IInv, NEW c \in Clients, m_waiters = Ready, UNCHANGED <<m_waiters, outcome>>,
         pc' = [pc EXCEPT ![c] = "running"], result' = [result EXCEPT ![c] = outcome]
  PROVE  Lazy!Next
<1> USE SharedTaskConstants
<1>1. Awaiting' = Awaiting \ {c}  BY DEF Awaiting, IInv, TypeOK, Clients
<1>2. Lazy!Give(c)  BY <1>1 DEF Lazy!Give, Phase
<1> QED  BY <1>2 DEF Lazy!Next

LEMMA StepImplements == IInv /\ [Next]_vars => [Lazy!Next]_Lazy!vars
<1> SUFFICES ASSUME IInv, [Next]_vars PROVE [Lazy!Next]_Lazy!vars  OBVIOUS
<1>0. TypeOK  BY DEF IInv
<1> USE SharedTaskConstants, <1>0 DEF TypeOK, Clients
<1>1. CASE UNCHANGED vars
  <2>1. UNCHANGED Awaiting  BY <1>1 DEF vars, Awaiting
  <2> QED  BY <1>1, <2>1, SameRequests DEF vars
<1>2. ASSUME NEW t \in Threads, NEW c \in Coroutines,
             Enter(t, c) \/ Leave(t, c) \/ \E d \in Coroutines : Switch(t, c, d)
      PROVE  UNCHANGED Lazy!vars
  <2>1. Awaiting' = Awaiting  BY <1>2 DEF Enter, Leave, Switch, Awaiting
  <2> QED  BY <1>2, <2>1, SameRequests DEF Enter, Leave, Switch, taskVars
<1>3. ASSUME NEW t \in Threads, NEW c \in Clients,
             DropTask(t, c) \/ \E d \in Clients : CopyTask(t, c, d) \/ MoveTask(t, c, d)
      PROVE  UNCHANGED Lazy!vars
  <2>1. UNCHANGED Awaiting  BY <1>3 DEF DropTask, CopyTask, MoveTask, Awaiting
  <2> QED  BY <1>3, <2>1, SameRequests DEF DropTask, CopyTask, MoveTask
<1>4. ASSUME NEW t \in Threads, NEW c \in Clients, Asks(t, c)
      PROVE  [Lazy!Next]_Lazy!vars
  <2>1. AskStep(t, c)  BY <1>4, AsksStep
  <2>2. UNCHANGED <<m_waiters, outcome>>  BY <2>1 DEF AskStep, taskVars
  <2>3. CASE pc' = [pc EXCEPT ![c] = "running"] /\ m_waiters = Ready
    <3>1. result' = [result EXCEPT ![c] = outcome]  BY <2>1, <2>3 DEF AskStep
    <3> QED  BY <1>4, <2>2, <2>3, <3>1, GiveStep
  <2>4. CASE m_waiters # Ready /\ pc'[c] \in {"pushing", "unready", "starting"}
    <3>1. result' = result  BY <2>1, <2>4 DEF AskStep
    <3>2. Awaiting' = Awaiting \cup {c}
      <4>1. \A e \in Clients : e # c => pc'[e] = pc[e]  BY <2>1 DEF AskStep
      <4> QED  BY <1>4, <2>4, <4>1 DEF Awaiting
    <3>3. CASE c \in Awaiting  BY <2>2, <3>1, <3>2, <3>3, SameRequests
    <3>4. CASE c \notin Awaiting
      <4>1. Lazy!Ask(c)  BY <2>2, <3>1, <3>2, <3>4 DEF Lazy!Ask, Phase
      <4> QED  BY <1>4, <4>1 DEF Lazy!Next
    <3> QED  BY <3>3, <3>4
  <2> QED  BY <2>1, <2>3, <2>4 DEF AskStep
<1>5. ASSUME NEW t \in Threads, NEW c \in Clients, StartBody(t, c), m_waiters = NotStarted
      PROVE  Lazy!Next
  <2>1. Awaiting' = Awaiting /\ c \in Awaiting  BY <1>5 DEF StartBody, Awaiting
  <2>2. m_waiters' = Null /\ UNCHANGED <<outcome, result>>  BY <1>5 DEF StartBody, taskVars
  <2>3. Lazy!Start  BY <1>5, <2>1, <2>2 DEF Lazy!Start, Phase
  <2> QED  BY <2>3 DEF Lazy!Next
<1>6. ASSUME NEW t \in Threads, NEW c \in Clients, TryAwaitPush(t, c), m_waiters = m_next[c]
      PROVE  UNCHANGED Lazy!vars
  <2>1. Awaiting' = Awaiting  BY <1>6 DEF TryAwaitPush, Awaiting
  <2>2. m_waiters' = c /\ m_waiters \in Clients \cup {Null} /\ UNCHANGED <<outcome, result>>
    BY <1>6 DEF TryAwaitPush, taskVars
  <2>3. Phase' = Phase  BY <2>2 DEF Phase
  <2> QED  BY <2>1, <2>2, <2>3 DEF Lazy!vars
<1>7. ASSUME NEW t \in Threads, BodyCompletes(t) PROVE UNCHANGED Lazy!vars
  <2>1. Awaiting' = Awaiting  BY <1>7 DEF BodyCompletes, Awaiting
  <2>2. m_waiters # Ready  BY <1>7 DEF BodyCompletes, IInv, Progress, BodyReady
  <2> QED  BY <1>7, <2>1, <2>2 DEF BodyCompletes, Lazy!vars, Phase
<1>8. ASSUME NEW t \in Threads, FinalExchange(t) PROVE Lazy!Next
  <2>1. Awaiting' = Awaiting  BY <1>8 DEF FinalExchange, Awaiting
  <2>2. m_waiters \notin {NotStarted, Ready} /\ outcome \in Outcomes
    BY <1>8 DEF FinalExchange, IInv, Progress, BodyReady, BodyStarted, OutcomeStored
  <2>3. Lazy!Publish  BY <1>8, <2>1, <2>2 DEF FinalExchange, Lazy!Publish, Phase
  <2> QED  BY <2>3 DEF Lazy!Next
<1>9. ASSUME NEW t \in Threads, FinalResume(t) PROVE Lazy!Next
  <2> DEFINE w == waiter
  <2>1. w \in Clients /\ m_waiters = Ready
    BY <1>9 DEF FinalResume, IInv, Progress, BodyReady
  <2>2. /\ pc' = [pc EXCEPT ![w] = "running"] /\ result' = [result EXCEPT ![w] = outcome]
        /\ UNCHANGED <<m_waiters, outcome>>
    BY <1>9 DEF FinalResume, Continue
  <2> HIDE DEF w
  <2> QED  BY <2>1, <2>2, GiveStep
<1>10. ASSUME NEW t \in Threads, FinalReturns(t) PROVE UNCHANGED Lazy!vars
  <2>1. Awaiting' = Awaiting  BY <1>10 DEF FinalReturns, Awaiting
  <2> QED  BY <1>10, <2>1, SameRequests DEF FinalReturns, taskVars
<1>11. ASSUME NEW t \in Threads, NEW c \in Clients, Await(t, c) \/ Client(t, c)
       PROVE  [Lazy!Next]_Lazy!vars
  <2>1. \/ Asks(t, c)
        \/ StartBody(t, c) /\ m_waiters = NotStarted
        \/ TryAwaitPush(t, c) /\ m_waiters = m_next[c]
        \/ DropTask(t, c) \/ \E d \in Clients : CopyTask(t, c, d) \/ MoveTask(t, c, d)
    BY <1>11 DEF Await, Client, Asks
  <2> QED  BY <1>3, <1>4, <1>5, <1>6, <1>11, <2>1
<1> HIDE DEF TypeOK, Clients
<1> QED  BY <1>1, <1>2, <1>7, <1>8, <1>9, <1>10, <1>11 DEF Next, Final

(* shared_task computes its result once, when it is first asked for, and   *)
(* gives it to every client that awaits it, and to each only once it is    *)
(* there.                                                                  *)
THEOREM Implements == Spec => ImplementsLazyResult
<1>1. Init => Lazy!Init
  BY SharedTaskConstants DEF Init, Lazy!Init, Phase, Awaiting, Clients
<1> QED  BY <1>1, StepImplements, Invariance, PTL DEF Spec, ImplementsLazyResult, Lazy!Spec
=============================================================================
