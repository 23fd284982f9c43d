--------------------- MODULE SingleConsumerEventProofs ---------------------
(***************************************************************************)
(* single_consumer_event, proved sound for any number of threads and       *)
(* coroutines: the consumer is resumed by exactly one set(), and the event *)
(* implements ManualResetEvent.  What the states of m_state say of the     *)
(* consumer is inductive once one knows that there is one consumer at a    *)
(* time, that it has stored its handle before the compare_exchange, and    *)
(* that it still waits when a set() comes to resume it.                    *)
(*                                                                         *)
(* The second part is about TaskEvent, the event with tasks that await it: *)
(* the invariants of the two, each with the coroutines where that one sees *)
(* them, are preserved together, and each step is one of both.             *)
(***************************************************************************)
EXTENDS SingleConsumerEventPromise, CoroutineRuntimeProofs

OneConsumer == \A c, d \in Awaiting : c = d

StoredAwaiter == \A c \in Coroutines : pc[c] = "storing" => m_awaiter = c

ConsumerResumed ==
  \A d \in Coroutines : pc[d] = "setting" => m_awaiter \in Coroutines /\ pc[m_awaiter] = "waiting"

(* What m_state and m_awaiter say of the consumer.                         *)
Consumer == OneConsumer /\ StoredAwaiter /\ ConsumerResumed /\ ConsumerListed

IInv == TypeOK /\ Consumer

LEMMA InitIInv == Init => IInv
<1> SUFFICES ASSUME Init PROVE IInv  OBVIOUS
<1>1. TypeOK  BY DEF Init, StackInit, TypeOK, States, Locations, StackTypeOK
<1>2. Consumer
  BY DEF Init, Consumer, OneConsumer, Awaiting, StoredAwaiter, ConsumerResumed, ConsumerListed
<1> QED  BY <1>1, <1>2 DEF IInv

LEMMA NextTypeOK == IInv /\ [Next]_vars => TypeOK'
<1> SUFFICES ASSUME IInv, [Next]_vars PROVE TypeOK'  OBVIOUS
<1>0. TypeOK /\ StackTypeOK  BY DEF IInv, TypeOK
<1>1. CASE UNCHANGED vars  BY <1>0, <1>1 DEF vars, TypeOK, StackTypeOK
<1>2. ASSUME NEW t \in Threads, NEW c \in Coroutines, Library(t, c) \/ Client(t, c)
      PROVE  TypeOK'
  <2> USE <1>0 DEF TypeOK, States, Locations
  <2>1. CASE Enter(t, c) \/ Leave(t, c)  BY <2>1, StackTypes DEF Enter, Leave
  <2>2. CASE AwaitReady(t, c) \/ StoreAwaiter(t, c) \/ Set(t, c) \/ SetReturns(t, c) \/ Reset(t, c)
    BY <2>2, StackTypes DEF AwaitReady, StoreAwaiter, Set, SetReturns, Reset
  <2>3. CASE AwaitSuspend(t, c)  BY <2>3, StackTypes DEF AwaitSuspend
  <2>4. CASE ResumeAwaiter(t, c)
    <3>1. m_awaiter \in Coroutines  BY <2>4 DEF ResumeAwaiter, IInv, Consumer, ConsumerResumed
    <3> QED  BY <2>4, <3>1, StackTypes DEF ResumeAwaiter
  <2>5. ASSUME NEW d \in Coroutines, Switch(t, c, d) PROVE TypeOK'
    BY <2>5, StackTypes DEF Switch
  <2> QED  BY <1>2, <2>1, <2>2, <2>3, <2>4, <2>5 DEF Library, Client
<1> QED  BY <1>1, <1>2 DEF Next

(* The steps of the event, and of clients that leave it alone, wherever    *)
(* else the coroutines may be.                                             *)
LEMMA EventKeepsConsumer ==
  ASSUME NEW Places, pc \in [Coroutines -> Places], Consumer,
         NEW t \in Threads, NEW c \in Coroutines,
         AwaitReady(t, c) \/ Set(t, c) \/ Reset(t, c) \/ Library(t, c)
  PROVE  Consumer'
<1> USE DEF Consumer, OneConsumer, Awaiting, StoredAwaiter, ConsumerResumed, ConsumerListed
<1>1. CASE SetReturns(t, c)  BY <1>1 DEF SetReturns
<1>2. CASE AwaitReady(t, c)  BY <1>2 DEF AwaitReady
<1>3. CASE StoreAwaiter(t, c)  BY <1>3 DEF StoreAwaiter
<1>4. CASE AwaitSuspend(t, c)
  <2>1. CASE m_state = "not_set"  BY <1>4, <2>1 DEF AwaitSuspend
  <2>2. CASE m_state # "not_set"  BY <1>4, <2>2 DEF AwaitSuspend
  <2> QED  BY <2>1, <2>2
<1>5. CASE Set(t, c)
  <2>1. CASE m_state = "not_set_consumer_waiting"  BY <1>5, <2>1 DEF Set
  <2>2. CASE m_state # "not_set_consumer_waiting"  BY <1>5, <2>2 DEF Set
  <2> QED  BY <2>1, <2>2
<1>6. CASE ResumeAwaiter(t, c)
  <2>1. m_awaiter \in Coroutines /\ pc[m_awaiter] = "waiting" /\ pc[c] = "setting"
    BY <1>6 DEF ResumeAwaiter
  <2> QED  BY <1>6, <2>1 DEF ResumeAwaiter
<1>7. CASE Reset(t, c)  BY <1>7 DEF Reset
<1> QED  BY <1>1, <1>2, <1>3, <1>4, <1>5, <1>6, <1>7 DEF Library

LEMMA ClientsKeepConsumer ==
  ASSUME Consumer, UNCHANGED <<m_state, m_awaiter>>,
         \A c \in Coroutines :
           \/ pc'[c] = pc[c]
           \/ {pc[c], pc'[c]} \cap {"unready", "storing", "waiting", "setting"} = {}
  PROVE  Consumer'
BY DEF Consumer, OneConsumer, Awaiting, StoredAwaiter, ConsumerResumed, ConsumerListed

LEMMA NextConsumer == IInv /\ [Next]_vars => Consumer'
<1> SUFFICES ASSUME IInv, [Next]_vars PROVE Consumer'  OBVIOUS
<1>0. pc \in [Coroutines -> Locations] /\ Consumer  BY DEF IInv, TypeOK
<1>1. CASE UNCHANGED vars  BY <1>0, <1>1, ClientsKeepConsumer DEF vars
<1>2. ASSUME NEW t \in Threads, NEW c \in Coroutines, Library(t, c) \/ Client(t, c)
      PROVE  Consumer'
  <2>1. CASE Enter(t, c) \/ Leave(t, c)
    BY <1>0, <2>1, ClientsKeepConsumer DEF Enter, Leave
  <2>2. ASSUME NEW d \in Coroutines, Switch(t, c, d) PROVE Consumer'
    BY <1>0, <2>2, ClientsKeepConsumer DEF Switch
  <2>3. CASE AwaitReady(t, c) \/ Set(t, c) \/ Reset(t, c) \/ Library(t, c)
    BY <1>0, <2>3, EventKeepsConsumer
  <2> QED  BY <1>2, <2>1, <2>2, <2>3 DEF Client
<1> QED  BY <1>1, <1>2 DEF Next

LEMMA Invariance == Spec => []IInv
<1>1. IInv /\ [Next]_vars => IInv'  BY NextTypeOK, NextConsumer DEF IInv
<1> QED  BY InitIInv, <1>1, PTL DEF Spec

(* m_awaiter and the stacks only ever hold coroutines where set() and      *)
(* await_suspend use them.                                                 *)
THEOREM TypeCorrect == Spec => []TypeOK
<1>1. IInv => TypeOK  BY DEF IInv
<1> QED  BY <1>1, Invariance, PTL

(* A suspended consumer is the one m_awaiter names, and m_state announces  *)
(* it or exactly one set() is about to resume it.                          *)
THEOREM ConsumerSound == Spec => []ConsumerListed
<1>1. IInv => ConsumerListed  BY DEF IInv, Consumer
<1> QED  BY <1>1, Invariance, PTL

-----------------------------------------------------------------------------
(* No coroutine is on two stacks, and none that is suspended is on one.    *)
Active == {c \in Coroutines : pc[c] \notin {"parked", "waiting"}}

ActiveStacked == \A t \in Threads : \A i \in 1..Len(stack[t]) : stack[t][i] \in Active

LEMMA NextKeepsStacks ==
  IInv /\ NoDoubleResume /\ ActiveStacked /\ [Next]_vars => NoDoubleResume' /\ ActiveStacked'
<1> SUFFICES ASSUME IInv, NoDoubleResume, ActiveStacked, [Next]_vars
             PROVE  NoDoubleResume' /\ ActiveStacked'
  OBVIOUS
<1>0. TypeOK /\ StackTypeOK  BY DEF IInv, TypeOK
<1>1. CASE UNCHANGED vars
  BY <1>1 DEF vars, NoDoubleResume, ActiveStacked, Active
<1>2. ASSUME NEW t \in Threads, NEW c \in Coroutines,
             \/ UNCHANGED stack /\ Active \subseteq Active'
             \/ Resume(t, c) /\ c \notin Active /\ Active \cup {c} \subseteq Active'
             \/ Running(t, c) /\ Return(t) /\ Active \ {c} \subseteq Active'
             \/ \E b \in Coroutines :
                  /\ Running(t, b) /\ Transfer(t, c)
                  /\ c \notin Active /\ c \in Active' /\ Active \ {b} \subseteq Active'
      PROVE  NoDoubleResume' /\ ActiveStacked'
  BY <1>0, <1>2, StacksFollow DEF ActiveStacked
<1>3. ASSUME NEW t \in Threads, NEW c \in Coroutines, Library(t, c) \/ Client(t, c)
      PROVE  NoDoubleResume' /\ ActiveStacked'
  <2> USE <1>0 DEF TypeOK, Active
  <2>1. CASE \/ AwaitReady(t, c) \/ StoreAwaiter(t, c)
             \/ Set(t, c) \/ SetReturns(t, c) \/ Reset(t, c)
    <3>1. UNCHANGED stack /\ Active \subseteq Active'
      BY <2>1 DEF AwaitReady, StoreAwaiter, Set, SetReturns, Reset
    <3> QED  BY <1>2, <3>1
  <2>2. CASE Enter(t, c)
    <3>1. Resume(t, c) /\ c \notin Active /\ Active \cup {c} \subseteq Active'
      BY <2>2 DEF Enter
    <3> QED  BY <1>2, <3>1
  <2>3. CASE Leave(t, c)
    <3>1. Running(t, c) /\ Return(t) /\ Active \ {c} \subseteq Active'
      BY <2>3 DEF Leave
    <3> QED  BY <1>2, <3>1
  <2>4. CASE AwaitSuspend(t, c)
    <3>1. \/ UNCHANGED stack /\ Active \subseteq Active'
          \/ Running(t, c) /\ Return(t) /\ Active \ {c} \subseteq Active'
      BY <2>4 DEF AwaitSuspend
    <3> QED  BY <1>2, <3>1
  <2>5. CASE ResumeAwaiter(t, c)
    <3>1. m_awaiter \in Coroutines /\ pc[m_awaiter] = "waiting"
      BY <2>5 DEF ResumeAwaiter, IInv, Consumer, ConsumerResumed
    <3>2. /\ Resume(t, m_awaiter)
          /\ m_awaiter \notin Active /\ Active \cup {m_awaiter} \subseteq Active'
      BY <2>5, <3>1 DEF ResumeAwaiter
    <3> QED  BY <1>2, <3>1, <3>2
  <2>6. ASSUME NEW d \in Coroutines, Switch(t, c, d)
        PROVE  NoDoubleResume' /\ ActiveStacked'
    <3>1. /\ Running(t, c) /\ Transfer(t, d)
          /\ d \notin Active /\ d \in Active' /\ Active \ {c} \subseteq Active'
      BY <2>6 DEF Switch
    <3> QED  BY <1>2, <3>1
  <2> QED  BY <1>3, <2>1, <2>2, <2>3, <2>4, <2>5, <2>6 DEF Library, Client
<1> QED  BY <1>1, <1>3 DEF Next

(* set() resumes a consumer that is suspended, never one that has gone on  *)
(* because its compare_exchange failed.                                    *)
THEOREM ResumesSuspended == Spec => []NoDoubleResume
<1>1. Init => NoDoubleResume /\ ActiveStacked
  BY DEF Init, StackInit, NoDoubleResume, ActiveStacked
<1>2. IInv /\ NoDoubleResume /\ ActiveStacked /\ [Next]_vars => NoDoubleResume' /\ ActiveStacked'
  BY NextKeepsStacks
<1> QED  BY <1>1, <1>2, Invariance, PTL DEF Spec

-----------------------------------------------------------------------------
(* Steps that neither suspend nor release a consumer.                      *)
LEMMA Stutters ==
  ASSUME IInv, UNCHANGED m_state,
         \A d \in Coroutines : pc'[d] = "waiting" <=> pc[d] = "waiting"
  PROVE  UNCHANGED Event!vars
BY DEF Event!vars, Waiting, Released

LEMMA StepImplements == IInv /\ [Next]_vars => [Event!Next]_Event!vars
<1> SUFFICES ASSUME IInv, [Next]_vars PROVE [Event!Next]_Event!vars  OBVIOUS
<1>0. /\ pc \in [Coroutines -> Locations] /\ m_state \in States
      /\ OneConsumer /\ ConsumerResumed /\ ConsumerListed
  BY DEF IInv, TypeOK, Consumer
<1>1. CASE UNCHANGED vars  BY <1>1, Stutters DEF vars
<1>2. ASSUME NEW t \in Threads, NEW c \in Coroutines, Library(t, c) \/ Client(t, c)
      PROVE  [Event!Next]_Event!vars
  <2>1. CASE \/ Enter(t, c) \/ Leave(t, c) \/ AwaitReady(t, c) \/ StoreAwaiter(t, c)
             \/ SetReturns(t, c)
    BY <1>0, <2>1, Stutters DEF Enter, Leave, AwaitReady, StoreAwaiter, SetReturns
  <2>2. CASE AwaitSuspend(t, c)
    <3>1. CASE m_state # "not_set"
      BY <1>0, <2>2, <3>1, Stutters DEF AwaitSuspend
    <3>2. CASE m_state = "not_set"
      <4>1. \A d \in Coroutines : pc[d] # "waiting"
        BY <1>0, <2>2 DEF AwaitSuspend, OneConsumer, Awaiting
      <4>2. m_state' = "not_set_consumer_waiting" /\ pc' = [pc EXCEPT ![c] = "waiting"]
        BY <2>2, <3>2 DEF AwaitSuspend
      <4>3. Waiting = {} /\ Waiting' = {c} /\ Released = {} /\ Released' = {}
        BY <1>0, <3>2, <4>1, <4>2 DEF Waiting, Released
      <4>4. Event!Await(c)  BY <3>2, <4>2, <4>3 DEF Event!Await
      <4> QED  BY <4>4 DEF Event!Next
    <3> QED  BY <3>1, <3>2
  <2>3. CASE Set(t, c)
    <3>1. /\ m_state' = "set"
          /\ \A d \in Coroutines : pc'[d] = "waiting" <=> pc[d] = "waiting"
      BY <1>0, <2>3 DEF Set
    <3>2. CASE m_state = "set"  BY <3>1, <3>2, Stutters
    <3>3. CASE m_state # "set"
      <4>1. Waiting' = {} /\ Released' = Released \cup Waiting
        <5>1. CASE m_state = "not_set_consumer_waiting"
          BY <3>1, <5>1 DEF Waiting, Released
        <5>2. CASE m_state # "not_set_consumer_waiting"
          BY <3>1, <5>2 DEF Waiting, Released
        <5> QED  BY <5>1, <5>2
      <4>2. Event!Set  BY <3>1, <3>3, <4>1 DEF Event!Set
      <4> QED  BY <4>2 DEF Event!Next
    <3> QED  BY <3>2, <3>3
  <2>4. CASE ResumeAwaiter(t, c)
    <3>1. m_awaiter \in Coroutines /\ pc[m_awaiter] = "waiting"
      BY <1>0, <2>4 DEF ResumeAwaiter, ConsumerResumed
    <3>2. m_state # "not_set_consumer_waiting"
      BY <1>0, <2>4, <3>1 DEF ResumeAwaiter, ConsumerListed
    <3>3. /\ m_state' = m_state
          /\ \A d \in Coroutines : pc'[d] = "waiting" <=> pc[d] = "waiting" /\ d # m_awaiter
      BY <1>0, <2>4, <3>1 DEF ResumeAwaiter
    <3>4. /\ m_awaiter \in Released /\ Released' = Released \ {m_awaiter}
          /\ Waiting' = Waiting
      BY <3>1, <3>2, <3>3 DEF Waiting, Released
    <3>5. Event!Continue(m_awaiter)  BY <3>3, <3>4 DEF Event!Continue
    <3> QED  BY <3>1, <3>5 DEF Event!Next
  <2>5. CASE Reset(t, c)
    <3>1. Waiting' = Waiting /\ Released' = Released
      BY <2>5 DEF Reset, Waiting, Released
    <3>2. Event!Reset  BY <2>5, <3>1 DEF Reset, Event!Reset
    <3> QED  BY <3>2 DEF Event!Next
  <2>6. ASSUME NEW d \in Coroutines, Switch(t, c, d) PROVE UNCHANGED Event!vars
    BY <1>0, <2>6, Stutters DEF Switch
  <2> QED  BY <1>2, <2>1, <2>2, <2>3, <2>4, <2>5, <2>6 DEF Library, Client
<1> QED  BY <1>1, <1>2 DEF Next

(* set() releases the consumer exactly if it waits at the moment of the    *)
(* exchange, however many set() and reset() calls overlap.                 *)
THEOREM Implements == Spec => ImplementsEvent
<1>1. Init => Event!Init
  BY DEF Init, Event!Init, Waiting, Released
<1>2. IInv /\ [Next]_vars => [Event!Next]_Event!vars  BY StepImplements
<1> QED  BY <1>1, <1>2, Invariance, PTL DEF Spec, ImplementsEvent, Event!Spec

-----------------------------------------------------------------------------
(***************************************************************************)
(* TaskEvent.  The coroutines are those of the event, and are at a place   *)
(* in the code of task or of the event.                                    *)
(***************************************************************************)
CONSTANTS Tasks, Outcomes, NoOutcome, Setter

VARIABLES
  symmetricTransfer, owner, m_continuation, outcome, awaited, result,
  exchanged     (* m_state of the tasks                                    *)

(* What Task assumes of them.                                              *)
ConstantsOfTask == Tasks \subseteq Coroutines /\ NoOutcome \notin Outcomes

TE == INSTANCE TaskEvent WITH eventState <- m_state, m_state <- exchanged

TP == INSTANCE TaskProofs WITH pc <- TE!TaskView, m_state <- exchanged

Places == Locations \cup TP!AwaiterLocations \cup TP!TaskLocations

(* The invariants of both, as each of them sees the coroutines.            *)
JointInv ==
  /\ pc \in [Coroutines -> Places]
  /\ m_state \in States /\ m_awaiter \in Coroutines \cup {Null}
  /\ Consumer
  /\ TP!IInv

(* What task sees of a step that takes one or two coroutines elsewhere.    *)
LEMMA SeenByTask ==
  ASSUME pc \in [Coroutines -> Places], NEW c \in Coroutines
  PROVE  /\ pc[c] = "waiting" => TE!TaskView[c] = "parked"
         /\ pc[c] \in {"unready", "storing", "setting", "resumed"} => TE!TaskView[c] = "running"
         /\ pc[c] \in TP!AwaiterLocations \cup TP!TaskLocations => TE!TaskView[c] = pc[c]
         /\ TE!TaskView[c] \notin {"parked", "running"} => pc[c] = TE!TaskView[c]
         /\ TE!TaskView[c] \in TP!AwaiterLocations \cup TP!TaskLocations
BY DEF TE!TaskView, Places, Locations, TP!AwaiterLocations, TP!TaskLocations

LEMMA MoveSeenByTask ==
  ASSUME pc \in [Coroutines -> Places],
         NEW c \in Coroutines, NEW p \in TP!AwaiterLocations \cup TP!TaskLocations,
         pc' = [pc EXCEPT ![c] = p]
  PROVE  TE!TaskView' = [TE!TaskView EXCEPT ![c] = p] /\ pc' \in [Coroutines -> Places]
BY DEF TE!TaskView, Places, Locations, TP!AwaiterLocations, TP!TaskLocations

LEMMA MovesSeenByTask ==
  ASSUME pc \in [Coroutines -> Places], NEW c \in Coroutines, NEW d \in Coroutines,
         NEW p \in TP!AwaiterLocations \cup TP!TaskLocations,
         NEW q \in TP!AwaiterLocations \cup TP!TaskLocations,
         pc' = [pc EXCEPT ![c] = p, ![d] = q]
  PROVE  /\ TE!TaskView' = [TE!TaskView EXCEPT ![c] = p, ![d] = q]
         /\ pc' \in [Coroutines -> Places]
<1>1. p \in Places /\ q \in Places  BY DEF Places
<1>2. /\ pc' \in [Coroutines -> Places]
      /\ \A b \in Coroutines : pc'[b] = IF b = d THEN q ELSE IF b = c THEN p ELSE pc[b]
  BY <1>1
<1>3. ASSUME NEW b \in Coroutines
      PROVE  TE!TaskView'[b] = IF b = d THEN q ELSE IF b = c THEN p ELSE TE!TaskView[b]
  <2>1. \A r \in TP!AwaiterLocations \cup TP!TaskLocations : pc'[b] = r => TE!TaskView'[b] = r
    BY DEF TE!TaskView, TP!AwaiterLocations, TP!TaskLocations
  <2>2. pc'[b] = pc[b] => TE!TaskView'[b] = TE!TaskView[b]  BY DEF TE!TaskView
  <2> QED  BY <1>2, <2>1, <2>2
<1>4. /\ TE!TaskView = [b \in Coroutines |-> TE!TaskView[b]]
      /\ TE!TaskView' = [b \in Coroutines |-> TE!TaskView'[b]]
  BY DEF TE!TaskView
<1> HIDE DEF TE!TaskView
<1> QED  BY <1>2, <1>3, <1>4

-----------------------------------------------------------------------------
(* A step of task in the composition is that step as task sees it.         *)
LEMMA TaskTakesStep ==
  ASSUME JointInv, NEW t \in Threads, NEW c \in Coroutines,
         \/ TE!T!Enter(t, c) \/ TE!T!Leave(t, c) \/ TE!T!TrySetContinuation(t, c)
         \/ \E d \in Coroutines : TE!T!Switch(t, c, d)
  PROVE  TP!Next /\ pc' \in [Coroutines -> Places]
<1> USE DEF JointInv, TE!T!Idle, TP!Idle, TE!T!Running, TP!Running, TE!T!Resume, TP!Resume,
        TE!T!Return, TP!Return, TE!T!Transfer, TP!Transfer, TE!T!promiseVars, TP!promiseVars
<1>0. /\ "running" \in TP!AwaiterLocations /\ "parked" \in TP!AwaiterLocations
      /\ "awaiting" \in TP!AwaiterLocations /\ "starting" \in TP!AwaiterLocations
  BY DEF TP!AwaiterLocations
<1>1. \A b \in Coroutines :
         pc[b] \in TP!AwaiterLocations \cup TP!TaskLocations => TE!TaskView[b] = pc[b]
  BY SeenByTask
<1>2. CASE TE!T!Enter(t, c)
  <2>1. TE!TaskView' = [TE!TaskView EXCEPT ![c] = "running"] /\ pc' \in [Coroutines -> Places]
    BY <1>0, <1>2, MoveSeenByTask DEF TE!T!Enter
  <2>2. TP!Enter(t, c)  BY <1>0, <1>1, <1>2, <2>1 DEF TE!T!Enter, TP!Enter
  <2> QED  BY <2>1, <2>2 DEF TP!Next
<1>3. CASE TE!T!Leave(t, c)
  <2>1. TE!TaskView' = [TE!TaskView EXCEPT ![c] = "parked"] /\ pc' \in [Coroutines -> Places]
    BY <1>0, <1>3, MoveSeenByTask DEF TE!T!Leave
  <2>2. TP!Leave(t, c)  BY <1>0, <1>1, <1>3, <2>1 DEF TE!T!Leave, TP!Leave
  <2> QED  BY <2>1, <2>2 DEF TP!Next
<1>4. ASSUME NEW d \in Coroutines, TE!T!Switch(t, c, d)
      PROVE  TP!Next /\ pc' \in [Coroutines -> Places]
  <2>1. /\ TE!TaskView' = [TE!TaskView EXCEPT ![c] = "parked", ![d] = "running"]
        /\ pc' \in [Coroutines -> Places]
    <3>1. pc' = [pc EXCEPT ![c] = "parked", ![d] = "running"]  BY <1>4 DEF TE!T!Switch
    <3> QED  BY <1>0, <3>1, MovesSeenByTask
  <2>2. TP!Switch(t, c, d)  BY <1>0, <1>1, <1>4, <2>1 DEF TE!T!Switch, TP!Switch
  <2> QED  BY <2>1, <2>2 DEF TP!Next
<1>5. CASE TE!T!TrySetContinuation(t, c)
  <2>1. /\ exchanged[awaited[c]] => TE!TaskView' = [TE!TaskView EXCEPT ![c] = "running"]
        /\ ~exchanged[awaited[c]] => TE!TaskView' = [TE!TaskView EXCEPT ![c] = "awaiting"]
        /\ pc' \in [Coroutines -> Places]
    BY <1>0, <1>5, MoveSeenByTask DEF TE!T!TrySetContinuation, TE!T!Continues
  <2>2. TP!TrySetContinuation(t, c)
    BY <1>0, <1>1, <1>5, <2>1
       DEF TE!T!TrySetContinuation, TE!T!Continues, TP!TrySetContinuation, TP!Continues
  <2> QED  BY <2>1, <2>2 DEF TP!Next, TP!Await
<1> QED  BY <1>2, <1>3, <1>4, <1>5

LEMMA SameDone == pc \in [Coroutines -> Places] /\ ConstantsOfTask => TE!T!Done = TP!Done
<1> SUFFICES ASSUME pc \in [Coroutines -> Places], ConstantsOfTask,
                    NEW k \in Tasks
             PROVE  LET final == {"completing", "resuming", "final", "done"} IN
                    pc[k] \in final <=> TE!TaskView[k] \in final
  BY DEF TE!T!Done, TP!Done
<1> QED  BY SeenByTask DEF ConstantsOfTask, TP!AwaiterLocations, TP!TaskLocations

LEMMA AwaitTakesStep ==
  ASSUME JointInv, ConstantsOfTask,
         NEW t \in Threads, NEW c \in Coroutines, NEW k \in Tasks,
         TE!T!AwaitDone(t, c, k) \/ TE!T!AwaitTransfer(t, c, k) \/ TE!T!AwaitResume(t, c, k)
  PROVE  TP!Next /\ pc' \in [Coroutines -> Places]
<1> USE DEF ConstantsOfTask, JointInv, TE!T!Running, TP!Running, TE!T!Resume, TP!Resume,
        TE!T!Transfer, TP!Transfer, TE!T!promiseVars, TP!promiseVars
<1>0. /\ "running" \in TP!AwaiterLocations
      /\ "awaiting" \in TP!AwaiterLocations /\ "starting" \in TP!AwaiterLocations
  BY DEF TP!AwaiterLocations
<1>1. /\ k \in TE!T!Done <=> k \in TP!Done
      /\ \A b \in Coroutines :
           pc[b] \in TP!AwaiterLocations \cup TP!TaskLocations => TE!TaskView[b] = pc[b]
  BY SeenByTask, SameDone
<1>2. CASE TE!T!AwaitDone(t, c, k)
  <2>1. TE!TaskView' = [TE!TaskView EXCEPT ![c] = "running"] /\ pc' \in [Coroutines -> Places]
    BY <1>0, <1>2, MoveSeenByTask DEF TE!T!AwaitDone, TE!T!Continues
  <2>2. TP!AwaitDone(t, c, k)
    BY <1>0, <1>1, <1>2, <2>1 DEF TE!T!AwaitDone, TE!T!Continues, TP!AwaitDone, TP!Continues
  <2> QED  BY <2>1, <2>2 DEF TP!Next, TP!Await
<1>3. CASE TE!T!AwaitTransfer(t, c, k)
  <2>1. pc' = [pc EXCEPT ![c] = "awaiting", ![k] = "running"]
    BY <1>3 DEF TE!T!AwaitTransfer
  <2>2. /\ TE!TaskView' = [TE!TaskView EXCEPT ![c] = "awaiting", ![k] = "running"]
        /\ pc' \in [Coroutines -> Places]
    BY <1>0, <2>1, MovesSeenByTask
  <2>3. TP!AwaitTransfer(t, c, k)
    BY <1>0, <1>1, <1>3, <2>2 DEF TE!T!AwaitTransfer, TP!AwaitTransfer
  <2> QED  BY <2>2, <2>3 DEF TP!Next, TP!Await
<1>4. CASE TE!T!AwaitResume(t, c, k)
  <2>1. pc' = [pc EXCEPT ![c] = "starting", ![k] = "running"]
    BY <1>4 DEF TE!T!AwaitResume
  <2>2. /\ TE!TaskView' = [TE!TaskView EXCEPT ![c] = "starting", ![k] = "running"]
        /\ pc' \in [Coroutines -> Places]
    BY <1>0, <2>1, MovesSeenByTask
  <2>3. TP!AwaitResume(t, c, k)
    BY <1>0, <1>1, <1>4, <2>2 DEF TE!T!AwaitResume, TP!AwaitResume
  <2> QED  BY <2>2, <2>3 DEF TP!Next, TP!Await
<1> QED  BY <1>2, <1>3, <1>4

LEMMA ObjectsTakeStep ==
  ASSUME JointInv, ConstantsOfTask,
         NEW t \in Threads, NEW c \in Coroutines, TE!T!Objects(t, c)
  PROVE  TP!Next /\ pc' \in [Coroutines -> Places]
<1> USE DEF ConstantsOfTask, JointInv, TE!T!Running, TP!Running, TE!T!promiseVars, TP!promiseVars
<1>0. /\ "running" \in TP!AwaiterLocations
      /\ "unborn" \in TP!TaskLocations /\ "initial" \in TP!TaskLocations
  BY DEF TP!AwaiterLocations, TP!TaskLocations
<1>1. \A b \in Coroutines :
         pc[b] \in TP!AwaiterLocations \cup TP!TaskLocations => TE!TaskView[b] = pc[b]
  BY SeenByTask
<1>2. ASSUME NEW k \in Tasks, TE!T!Create(t, c, k) PROVE TP!Next /\ pc' \in [Coroutines -> Places]
  <2>1. TE!TaskView' = [TE!TaskView EXCEPT ![k] = "initial"] /\ pc' \in [Coroutines -> Places]
    BY <1>0, <1>2, MoveSeenByTask DEF TE!T!Create
  <2>2. TP!Create(t, c, k)  BY <1>0, <1>1, <1>2, <2>1 DEF TE!T!Create, TP!Create
  <2> QED  BY <2>1, <2>2 DEF TP!Next, TP!Objects
<1>3. ASSUME NEW k \in Tasks, TE!T!Destroy(t, c, k) PROVE TP!Next /\ pc' \in [Coroutines -> Places]
  <2>1. TE!TaskView' = TE!TaskView /\ pc' = pc  BY <1>3 DEF TE!T!Destroy, TE!TaskView
  <2>2. TE!T!Held(k) = TP!Held(k)  BY DEF TE!T!Held, TP!Held
  <2>3. TP!Destroy(t, c, k)  BY <1>0, <1>1, <1>3, <2>1, <2>2 DEF TE!T!Destroy, TP!Destroy
  <2> QED  BY <2>1, <2>3 DEF TP!Next, TP!Objects
<1>4. ASSUME NEW k \in Tasks, NEW d \in Tasks, TE!T!Move(t, c, k, d)
      PROVE  TP!Next /\ pc' \in [Coroutines -> Places]
  <2>1. TE!TaskView' = TE!TaskView /\ pc' = pc  BY <1>4 DEF TE!T!Move, TE!TaskView
  <2>2. TP!Move(t, c, k, d)  BY <1>0, <1>1, <1>4, <2>1 DEF TE!T!Move, TP!Move
  <2> QED  BY <2>1, <2>2 DEF TP!Next, TP!Objects
<1> QED  BY <1>2, <1>3, <1>4 DEF TE!T!Objects

LEMMA TaskEnds ==
  ASSUME JointInv, ConstantsOfTask,
         NEW t \in Threads, NEW k \in Tasks, TE!T!Complete(t, k) \/ TE!T!Final(t, k)
  PROVE  TP!Next /\ pc' \in [Coroutines -> Places]
<1> USE DEF ConstantsOfTask, JointInv, TE!T!Running, TP!Running, TE!T!Resume, TP!Resume, TE!T!Return, TP!Return,
        TE!T!Transfer, TP!Transfer, TE!T!promiseVars, TP!promiseVars
<1>0. /\ "running" \in TP!AwaiterLocations /\ k \in Coroutines
      /\ {"completing", "resuming", "final", "done"} \subseteq TP!TaskLocations
  BY DEF TP!AwaiterLocations, TP!TaskLocations
<1>1. \A b \in Coroutines :
         pc[b] \in TP!AwaiterLocations \cup TP!TaskLocations => TE!TaskView[b] = pc[b]
  BY SeenByTask
<1>2. CASE TE!T!Complete(t, k)
  <2>1. TE!TaskView' = [TE!TaskView EXCEPT ![k] = "completing"] /\ pc' \in [Coroutines -> Places]
    BY <1>0, <1>2, MoveSeenByTask DEF TE!T!Complete
  <2>2. TP!Complete(t, k)  BY <1>0, <1>1, <1>2, <2>1 DEF TE!T!Complete, TP!Complete
  <2> QED  BY <2>1, <2>2 DEF TP!Next
<1>3. CASE TE!T!FinalExchange(t, k)
  <2>1. /\ exchanged[k] => TE!TaskView' = [TE!TaskView EXCEPT ![k] = "resuming"]
        /\ ~exchanged[k] => TE!TaskView' = [TE!TaskView EXCEPT ![k] = "done"]
        /\ pc' \in [Coroutines -> Places]
    BY <1>0, <1>3, MoveSeenByTask DEF TE!T!FinalExchange
  <2>2. TP!FinalExchange(t, k)  BY <1>0, <1>1, <1>3, <2>1 DEF TE!T!FinalExchange, TP!FinalExchange
  <2> QED  BY <2>1, <2>2 DEF TP!Next, TP!Final
<1>4. CASE TE!T!FinalReturns(t, k)
  <2>1. TE!TaskView' = [TE!TaskView EXCEPT ![k] = "done"] /\ pc' \in [Coroutines -> Places]
    BY <1>0, <1>4, MoveSeenByTask DEF TE!T!FinalReturns
  <2>2. TP!FinalReturns(t, k)  BY <1>0, <1>1, <1>4, <2>1 DEF TE!T!FinalReturns, TP!FinalReturns
  <2> QED  BY <2>1, <2>2 DEF TP!Next, TP!Final
<1>5. CASE TE!T!FinalTransfer(t, k) \/ TE!T!FinalResume(t, k)
  <2>1. m_continuation[k] \in Coroutines
    BY <1>0, <1>1, <1>5, TP!AwaiterOf, ConsumerConstants DEF TE!T!FinalTransfer, TE!T!FinalResume
  <2>2. CASE TE!T!FinalTransfer(t, k)
    <3>1. pc' = [pc EXCEPT ![k] = "done", ![m_continuation[k]] = "running"]
      BY <2>2 DEF TE!T!FinalTransfer, TE!T!Continues
    <3>2. /\ TE!TaskView' = [TE!TaskView EXCEPT ![k] = "done", ![m_continuation[k]] = "running"]
          /\ pc' \in [Coroutines -> Places]
      BY <1>0, <2>1, <3>1, MovesSeenByTask
    <3>3. TP!FinalTransfer(t, k)
      BY <1>0, <1>1, <2>2, <3>2
         DEF TE!T!FinalTransfer, TE!T!Continues, TP!FinalTransfer, TP!Continues
    <3> QED  BY <3>2, <3>3 DEF TP!Next, TP!Final
  <2>3. CASE TE!T!FinalResume(t, k)
    <3>1. pc' = [pc EXCEPT ![k] = "final", ![m_continuation[k]] = "running"]
      BY <2>3 DEF TE!T!FinalResume, TE!T!Continues
    <3>2. /\ TE!TaskView' = [TE!TaskView EXCEPT ![k] = "final", ![m_continuation[k]] = "running"]
          /\ pc' \in [Coroutines -> Places]
      BY <1>0, <2>1, <3>1, MovesSeenByTask
    <3>3. TP!FinalResume(t, k)
      BY <1>0, <1>1, <2>3, <3>2
         DEF TE!T!FinalResume, TE!T!Continues, TP!FinalResume, TP!Continues
    <3> QED  BY <3>2, <3>3 DEF TP!Next, TP!Final
  <2> QED  BY <1>5, <2>2, <2>3
<1> QED  BY <1>2, <1>3, <1>4, <1>5 DEF TE!T!Final

-----------------------------------------------------------------------------
(* To task, what the event does is nothing, or what its clients do: a      *)
(* consumer suspends, and set() resumes one that is suspended.             *)
LEMMA EventIsClientOfTask ==
  ASSUME JointInv, NEW t \in Threads, NEW c \in Coroutines, UNCHANGED TE!taskVars,
         AwaitReady(t, c) \/ Set(t, c) \/ Reset(t, c) \/ Library(t, c)
  PROVE  /\ [TP!Next]_TP!vars
         /\ pc' \in [Coroutines -> Places]
         /\ m_state' \in States /\ m_awaiter' \in Coroutines \cup {Null}
<1> USE DEF JointInv, TE!taskVars, TP!promiseVars, TP!vars, States
<1>0. /\ "running" \in TP!AwaiterLocations /\ "parked" \in TP!AwaiterLocations
      /\ Locations \subseteq Places
  BY DEF TP!AwaiterLocations, Places
<1>1. ASSUME NEW b \in Coroutines, NEW p \in {"unready", "storing", "setting", "running"},
             pc[b] \in {"running", "unready", "storing", "resumed"},
             pc' = [pc EXCEPT ![b] = p]
      PROVE  TE!TaskView' = TE!TaskView
  BY <1>1 DEF TE!TaskView
<1>2. CASE AwaitReady(t, c) \/ StoreAwaiter(t, c) \/ Reset(t, c) \/ SetReturns(t, c)
  <2>1. TE!TaskView' = TE!TaskView
    <3>1. CASE Reset(t, c)  BY <3>1 DEF Reset, TE!TaskView
    <3>2. CASE AwaitReady(t, c) \/ StoreAwaiter(t, c) \/ SetReturns(t, c)
      BY <1>1, <3>2 DEF AwaitReady, StoreAwaiter, SetReturns
    <3> QED  BY <1>2, <3>1, <3>2
  <2> QED  BY <1>0, <1>2, <2>1 DEF AwaitReady, StoreAwaiter, Reset, SetReturns, Locations
<1>3. CASE Set(t, c)
  <2>1. TE!TaskView' = TE!TaskView
    <3>1. CASE m_state = "not_set_consumer_waiting"  BY <1>1, <1>3, <3>1 DEF Set
    <3>2. CASE m_state # "not_set_consumer_waiting"  BY <1>3, <3>2 DEF Set, TE!TaskView
    <3> QED  BY <3>1, <3>2
  <2> QED  BY <1>0, <1>3, <2>1 DEF Set, Locations
<1>4. CASE AwaitSuspend(t, c) /\ m_state # "not_set"
  <2>1. TE!TaskView' = TE!TaskView  BY <1>1, <1>4 DEF AwaitSuspend
  <2> QED  BY <1>0, <1>4, <2>1 DEF AwaitSuspend, Locations
<1>5. CASE AwaitSuspend(t, c) /\ m_state = "not_set"
  <2>1. pc' = [pc EXCEPT ![c] = "waiting"] /\ pc[c] = "storing"  BY <1>5 DEF AwaitSuspend
  <2>2. TE!TaskView' = [TE!TaskView EXCEPT ![c] = "parked"] /\ TE!TaskView[c] = "running"
    BY <2>1 DEF TE!TaskView
  <2>3. TP!Leave(t, c)
    BY <1>5, <2>2 DEF AwaitSuspend, TP!Leave, Running, TP!Running, Return, TP!Return
  <2>4. TP!Next  BY <2>3 DEF TP!Next
  <2> QED  BY <1>0, <1>5, <2>1, <2>4 DEF AwaitSuspend, Locations
<1>6. CASE ResumeAwaiter(t, c)
  <2>1. m_awaiter \in Coroutines /\ pc[m_awaiter] = "waiting" /\ pc[c] = "setting"
    BY <1>6 DEF ResumeAwaiter, Consumer, ConsumerResumed
  <2>2. pc' = [pc EXCEPT ![c] = "resumed", ![m_awaiter] = "running"]
    BY <1>6 DEF ResumeAwaiter
  <2>3. /\ TE!TaskView' = [TE!TaskView EXCEPT ![m_awaiter] = "running"]
        /\ TE!TaskView[m_awaiter] = "parked" /\ TE!TaskView[c] = "running"
    BY <2>1, <2>2 DEF TE!TaskView
  <2>4. TP!Enter(t, m_awaiter)
    BY <1>6, <2>3 DEF ResumeAwaiter, TP!Enter, Running, TP!Running, Resume, TP!Resume
  <2>5. TP!Next  BY <2>1, <2>4 DEF TP!Next
  <2> QED  BY <1>0, <1>6, <2>1, <2>2, <2>5 DEF ResumeAwaiter, Locations
<1> QED  BY <1>2, <1>3, <1>4, <1>5, <1>6 DEF Library

-----------------------------------------------------------------------------
(* Where the event sees a coroutine that is at p.                          *)
EventPlace(p) ==
  CASE p \in {"starting", "completing", "resuming", "final"} -> "running"
    [] p \in {"unborn", "initial", "awaiting", "done"} -> "parked"
    [] OTHER -> p

LEMMA SeenByEvent == \A c \in Coroutines : TE!EventView[c] = EventPlace(pc[c])
BY DEF TE!EventView, EventPlace

LEMMA MoveSeenByEvent ==
  ASSUME pc \in [Coroutines -> Places], NEW c \in Coroutines, NEW p, pc' = [pc EXCEPT ![c] = p]
  PROVE  TE!EventView' = [TE!EventView EXCEPT ![c] = EventPlace(p)]
BY DEF TE!EventView, EventPlace

(* A step of the event in the composition is that step as the event sees   *)
(* it.                                                                     *)
LEMMA EventTakesStep ==
  ASSUME JointInv, NEW t \in Threads, NEW c \in Coroutines,
         AwaitReady(t, c) \/ Set(t, c) \/ Reset(t, c) \/ Library(t, c)
  PROVE  TE!AsEvent!Next
<1> USE SeenByEvent
    DEF JointInv, EventPlace, Running, TE!AsEvent!Running, Return, TE!AsEvent!Return
<1> SUFFICES \/ TE!AsEvent!AwaitReady(t, c) \/ TE!AsEvent!Set(t, c) \/ TE!AsEvent!Reset(t, c)
             \/ TE!AsEvent!Library(t, c)
  BY DEF TE!AsEvent!Next, TE!AsEvent!Client
<1>1. CASE AwaitReady(t, c)
  <2>1. TE!EventView' = [TE!EventView EXCEPT ![c] = "unready"]
    BY <1>1, MoveSeenByEvent DEF AwaitReady
  <2>2. TE!AsEvent!Awaiting = {}  BY <1>1 DEF AwaitReady, Awaiting, TE!AsEvent!Awaiting
  <2> QED  BY <1>1, <2>1, <2>2 DEF AwaitReady, TE!AsEvent!AwaitReady
<1>2. CASE Set(t, c)
  <2>1. TE!EventView' = IF m_state = "not_set_consumer_waiting"
                        THEN [TE!EventView EXCEPT ![c] = "setting"] ELSE TE!EventView
    <3>1. CASE m_state = "not_set_consumer_waiting"  BY <1>2, <3>1, MoveSeenByEvent DEF Set
    <3>2. CASE m_state # "not_set_consumer_waiting"  BY <1>2, <3>2 DEF Set, TE!EventView
    <3> QED  BY <3>1, <3>2
  <2> QED  BY <1>2, <2>1 DEF Set, TE!AsEvent!Set
<1>3. CASE Reset(t, c)
  <2>1. TE!EventView' = TE!EventView  BY <1>3 DEF Reset, TE!EventView
  <2> QED  BY <1>3, <2>1 DEF Reset, TE!AsEvent!Reset
<1>4. CASE StoreAwaiter(t, c)
  <2>1. TE!EventView' = [TE!EventView EXCEPT ![c] = "storing"]
    BY <1>4, MoveSeenByEvent DEF StoreAwaiter
  <2> QED  BY <1>4, <2>1 DEF StoreAwaiter, TE!AsEvent!StoreAwaiter, TE!AsEvent!Library
<1>5. CASE AwaitSuspend(t, c)
  <2>1. TE!EventView' = IF m_state = "not_set" THEN [TE!EventView EXCEPT ![c] = "waiting"]
                        ELSE [TE!EventView EXCEPT ![c] = "running"]
    <3>1. CASE m_state = "not_set"  BY <1>5, <3>1, MoveSeenByEvent DEF AwaitSuspend
    <3>2. CASE m_state # "not_set"  BY <1>5, <3>2, MoveSeenByEvent DEF AwaitSuspend
    <3> QED  BY <3>1, <3>2
  <2> QED  BY <1>5, <2>1 DEF AwaitSuspend, TE!AsEvent!AwaitSuspend, TE!AsEvent!Library
<1>6. CASE ResumeAwaiter(t, c)
  <2>1. m_awaiter \in Coroutines
    BY <1>6 DEF ResumeAwaiter, Consumer, ConsumerResumed
  <2>2. pc' = [pc EXCEPT ![c] = "resumed", ![m_awaiter] = "running"]
    BY <1>6 DEF ResumeAwaiter
  <2>3. TE!EventView' = [TE!EventView EXCEPT ![c] = "resumed", ![m_awaiter] = "running"]
    BY <2>1, <2>2 DEF TE!EventView
  <2> QED  BY <1>6, <2>3 DEF ResumeAwaiter, Resume, TE!AsEvent!Resume, TE!AsEvent!ResumeAwaiter,
                             TE!AsEvent!Library
<1>7. CASE SetReturns(t, c)
  <2>1. TE!EventView' = [TE!EventView EXCEPT ![c] = "running"]
    BY <1>7, MoveSeenByEvent DEF SetReturns
  <2> QED  BY <1>7, <2>1 DEF SetReturns, TE!AsEvent!SetReturns, TE!AsEvent!Library
<1> QED  BY <1>1, <1>2, <1>3, <1>4, <1>5, <1>6, <1>7 DEF Library

-----------------------------------------------------------------------------
(* To the event, what task does is nothing, or what its clients do: they   *)
(* are resumed, suspend, and transfer to one another.                      *)
Busy == {"running", "starting", "completing", "resuming", "final"}

Away == {"parked", "unborn", "initial", "awaiting", "done"}

ClientStep == [TE!AsEvent!Next]_TE!AsEvent!vars /\ Consumer'

LEMMA ClientStays ==
  ASSUME JointInv, UNCHANGED <<m_state, m_awaiter, stack>>,
         NEW c \in Coroutines, NEW p,
         {pc[c], p} \subseteq Busy \/ {pc[c], p} \subseteq Away,
         pc' = [pc EXCEPT ![c] = p]
  PROVE  ClientStep
<1> USE DEF JointInv, Busy, Away
<1>1. TE!EventView' = TE!EventView  BY DEF TE!EventView
<1>2. Consumer'  BY ClientsKeepConsumer
<1> QED  BY <1>1, <1>2 DEF ClientStep, TE!AsEvent!vars

LEMMA ClientLeaves ==
  ASSUME JointInv, UNCHANGED <<m_state, m_awaiter>>, NEW t \in Threads,
         NEW c \in Coroutines, NEW p \in Away,
         Running(t, c), pc[c] \in Busy, pc' = [pc EXCEPT ![c] = p], Return(t)
  PROVE  ClientStep
<1> USE DEF JointInv, Busy, Away
<1>1. TE!EventView[c] = "running" /\ TE!EventView' = [TE!EventView EXCEPT ![c] = "parked"]
  BY DEF TE!EventView
<1>2. TE!AsEvent!Leave(t, c)
  BY <1>1 DEF TE!AsEvent!Leave, Running, TE!AsEvent!Running, Return, TE!AsEvent!Return
<1>3. Consumer'  BY ClientsKeepConsumer
<1> QED  BY <1>2, <1>3 DEF ClientStep, TE!AsEvent!Next, TE!AsEvent!Client

LEMMA ClientEnters ==
  ASSUME JointInv, UNCHANGED <<m_state, m_awaiter>>, NEW t \in Threads,
         NEW c \in Coroutines, pc[c] \in Away, Resume(t, c),
         \/ /\ Idle(t) \/ \E d \in Coroutines : Running(t, d) /\ pc[d] \in Busy
            /\ pc' = [pc EXCEPT ![c] = "running"]
         \/ \E d \in Coroutines, p \in Busy :
              Running(t, d) /\ pc[d] \in Busy /\ pc' = [pc EXCEPT ![d] = p, ![c] = "running"]
  PROVE  ClientStep
<1> USE DEF JointInv, Busy, Away
<1>1. /\ TE!EventView[c] = "parked" /\ TE!EventView' = [TE!EventView EXCEPT ![c] = "running"]
      /\ Idle(t) \/ \E d \in Coroutines : Running(t, d) /\ TE!EventView[d] = "running"
  BY DEF TE!EventView
<1>2. TE!AsEvent!Enter(t, c)
  BY <1>1 DEF TE!AsEvent!Enter, Idle, TE!AsEvent!Idle, Running, TE!AsEvent!Running,
              Resume, TE!AsEvent!Resume
<1>3. Consumer'  BY ClientsKeepConsumer
<1> QED  BY <1>2, <1>3 DEF ClientStep, TE!AsEvent!Next, TE!AsEvent!Client

LEMMA ClientTransfers ==
  ASSUME JointInv, UNCHANGED <<m_state, m_awaiter>>, NEW t \in Threads,
         NEW c \in Coroutines, NEW d \in Coroutines, NEW p \in Away,
         Running(t, c), pc[c] \in Busy, pc[d] \in Away, Transfer(t, d),
         pc' = [pc EXCEPT ![c] = p, ![d] = "running"]
  PROVE  ClientStep
<1> USE DEF JointInv, Busy, Away
<1>1. /\ TE!EventView[c] = "running" /\ TE!EventView[d] = "parked"
      /\ TE!EventView' = [TE!EventView EXCEPT ![c] = "parked", ![d] = "running"]
  BY DEF TE!EventView
<1>2. TE!AsEvent!Switch(t, c, d)
  BY <1>1 DEF TE!AsEvent!Switch, Running, TE!AsEvent!Running, Transfer, TE!AsEvent!Transfer
<1>3. Consumer'  BY ClientsKeepConsumer
<1> QED  BY <1>2, <1>3 DEF ClientStep, TE!AsEvent!Next, TE!AsEvent!Client

LEMMA ComingIsClientStep ==
  ASSUME JointInv, UNCHANGED TE!eventVars, NEW t \in Threads, NEW c \in Coroutines,
         \/ TE!T!Enter(t, c) \/ TE!T!Leave(t, c) \/ TE!T!TrySetContinuation(t, c)
         \/ \E d \in Coroutines : TE!T!Switch(t, c, d)
  PROVE  ClientStep
<1>0. UNCHANGED <<m_state, m_awaiter>>  BY DEF TE!eventVars
<1> USE <1>0 DEF Busy, Away, Idle, TE!T!Idle, Running, TE!T!Running, Return, TE!T!Return
<1>1. CASE TE!T!Enter(t, c)
  BY <1>1, ClientEnters DEF TE!T!Enter, Resume, TE!T!Resume
<1>2. CASE TE!T!Leave(t, c)
  BY <1>2, ClientLeaves DEF TE!T!Leave
<1>3. ASSUME NEW d \in Coroutines, TE!T!Switch(t, c, d) PROVE ClientStep
  BY <1>3, ClientTransfers DEF TE!T!Switch, Transfer, TE!T!Transfer
<1>4. CASE TE!T!TrySetContinuation(t, c)
  <2>1. CASE exchanged[awaited[c]]
    BY <1>4, <2>1, ClientStays DEF TE!T!TrySetContinuation, TE!T!Continues
  <2>2. CASE ~exchanged[awaited[c]]
    BY <1>4, <2>2, ClientLeaves DEF TE!T!TrySetContinuation
  <2> QED  BY <2>1, <2>2
<1> QED  BY <1>1, <1>2, <1>3, <1>4

LEMMA AwaitIsClientStep ==
  ASSUME JointInv, ConstantsOfTask, UNCHANGED TE!eventVars,
         NEW t \in Threads, NEW c \in Coroutines, NEW k \in Tasks,
         TE!T!AwaitDone(t, c, k) \/ TE!T!AwaitTransfer(t, c, k) \/ TE!T!AwaitResume(t, c, k)
  PROVE  ClientStep
<1>0. UNCHANGED <<m_state, m_awaiter>>  BY DEF TE!eventVars
<1> USE <1>0 DEF Busy, Away, Running, TE!T!Running
<1>1. CASE TE!T!AwaitDone(t, c, k)
  BY <1>1, ClientStays DEF TE!T!AwaitDone, TE!T!Continues
<1>2. CASE TE!T!AwaitTransfer(t, c, k) \/ TE!T!AwaitResume(t, c, k)
  <2>1. pc[c] = "running" /\ owner[k] = c /\ k \notin TE!T!Done /\ k \in Coroutines
    BY <1>2 DEF TE!T!AwaitTransfer, TE!T!AwaitResume, ConstantsOfTask
  <2>2. TE!TaskView[c] = "running" /\ k \notin TP!Done
    BY <2>1, SeenByTask, SameDone DEF JointInv, TP!AwaiterLocations
  <2>3. k \notin TP!Started
    BY <2>1, <2>2, TP!AwaitedIsFresh, ConsumerConstants DEF JointInv, ConstantsOfTask
  <2>4. pc[k] \in Away
    BY <2>1, <2>3, SeenByTask DEF JointInv, TP!Started
  <2>5. CASE TE!T!AwaitTransfer(t, c, k)
    BY <2>1, <2>4, <2>5, ClientTransfers DEF TE!T!AwaitTransfer, Transfer, TE!T!Transfer
  <2>6. CASE TE!T!AwaitResume(t, c, k)
    BY <2>1, <2>4, <2>6, ClientEnters DEF TE!T!AwaitResume, Resume, TE!T!Resume
  <2> QED  BY <1>2, <2>5, <2>6
<1> QED  BY <1>1, <1>2

LEMMA ObjectsAreClientSteps ==
  ASSUME JointInv, ConstantsOfTask, UNCHANGED TE!eventVars,
         NEW t \in Threads, NEW c \in Coroutines, TE!T!Objects(t, c)
  PROVE  ClientStep
<1>0. UNCHANGED <<m_state, m_awaiter>>  BY DEF TE!eventVars
<1>1. ASSUME NEW k \in Tasks, TE!T!Create(t, c, k) PROVE ClientStep
  <2>1. k \in Coroutines  BY DEF ConstantsOfTask
  <2> QED  BY <1>0, <1>1, <2>1, ClientStays DEF TE!T!Create, Busy, Away
<1>2. ASSUME UNCHANGED <<pc, stack>> PROVE ClientStep
  <2>1. Consumer'  BY <1>0, <1>2, ClientsKeepConsumer DEF JointInv
  <2> QED  BY <1>0, <1>2, <2>1 DEF ClientStep, TE!AsEvent!vars, TE!EventView
<1>3. ASSUME NEW k \in Tasks, NEW d \in Tasks, TE!T!Destroy(t, c, k) \/ TE!T!Move(t, c, k, d)
      PROVE  ClientStep
  BY <1>2, <1>3 DEF TE!T!Destroy, TE!T!Move
<1> QED  BY <1>1, <1>3 DEF TE!T!Objects

LEMMA EndIsClientStep ==
  ASSUME JointInv, ConstantsOfTask, UNCHANGED TE!eventVars,
         NEW t \in Threads, NEW k \in Tasks, TE!T!Complete(t, k) \/ TE!T!Final(t, k)
  PROVE  ClientStep
<1>0. UNCHANGED <<m_state, m_awaiter>> /\ k \in Coroutines
  BY DEF TE!eventVars, ConstantsOfTask
<1> USE <1>0 DEF Busy, Away, Running, TE!T!Running, Return, TE!T!Return
<1>1. CASE TE!T!Complete(t, k)
  BY <1>1, ClientStays DEF TE!T!Complete
<1>2. CASE TE!T!FinalExchange(t, k)
  <2>1. CASE exchanged[k]  BY <1>2, <2>1, ClientStays DEF TE!T!FinalExchange
  <2>2. CASE ~exchanged[k]  BY <1>2, <2>2, ClientLeaves DEF TE!T!FinalExchange
  <2> QED  BY <2>1, <2>2
<1>3. CASE TE!T!FinalReturns(t, k)
  BY <1>3, ClientLeaves DEF TE!T!FinalReturns
<1>4. CASE TE!T!FinalTransfer(t, k) \/ TE!T!FinalResume(t, k)
  <2>1. TE!TaskView[k] = pc[k]
    BY <1>4, SeenByTask DEF TE!T!FinalTransfer, TE!T!FinalResume, JointInv, TP!TaskLocations
  <2>2. m_continuation[k] \in Coroutines /\ TE!TaskView[m_continuation[k]] = "awaiting"
    BY <1>4, <2>1, TP!AwaiterOf, ConsumerConstants
       DEF TE!T!FinalTransfer, TE!T!FinalResume, JointInv, ConstantsOfTask
  <2>3. pc[m_continuation[k]] = "awaiting"  BY <2>2, SeenByTask DEF JointInv
  <2>4. CASE TE!T!FinalTransfer(t, k)
    <3>1. pc' = [pc EXCEPT ![k] = "done", ![m_continuation[k]] = "running"]
      BY <2>4 DEF TE!T!FinalTransfer, TE!T!Continues
    <3> QED
      BY <2>2, <2>3, <2>4, <3>1, ClientTransfers DEF TE!T!FinalTransfer, Transfer, TE!T!Transfer
  <2>5. CASE TE!T!FinalResume(t, k)
    <3>1. pc' = [pc EXCEPT ![k] = "final", ![m_continuation[k]] = "running"]
      BY <2>5 DEF TE!T!FinalResume, TE!T!Continues
    <3> QED
      BY <2>2, <2>3, <2>5, <3>1, ClientEnters DEF TE!T!FinalResume, Resume, TE!T!Resume
  <2> QED  BY <1>4, <2>4, <2>5
<1> QED  BY <1>1, <1>2, <1>3, <1>4 DEF TE!T!Final

-----------------------------------------------------------------------------
(* Every step of the composition is one of task, or of what task allows    *)
(* its coroutines, and one of the event, or of what it allows its clients. *)
BothStep ==
  /\ [TP!Next]_TP!vars /\ [TE!AsEvent!Next]_TE!AsEvent!vars
  /\ pc' \in [Coroutines -> Places]
  /\ m_state' \in States /\ m_awaiter' \in Coroutines \cup {Null}
  /\ Consumer'

LEMMA EventBothStep ==
  ASSUME JointInv, UNCHANGED TE!taskVars, NEW t \in Threads, NEW c \in Coroutines,
         TE!E!AwaitReady(t, c) \/ TE!E!Set(t, c) \/ TE!E!Reset(t, c) \/ TE!E!Library(t, c)
  PROVE  BothStep
<1>1. AwaitReady(t, c) \/ Set(t, c) \/ Reset(t, c) \/ Library(t, c)
  <2> USE DEF Running, TE!E!Running, Return, TE!E!Return, Resume, TE!E!Resume
  <2>1. TE!E!AwaitReady(t, c) => AwaitReady(t, c)
    BY DEF AwaitReady, TE!E!AwaitReady, Awaiting, TE!E!Awaiting
  <2>2. TE!E!Set(t, c) => Set(t, c)  BY DEF Set, TE!E!Set
  <2>3. TE!E!Reset(t, c) => Reset(t, c)  BY DEF Reset, TE!E!Reset
  <2>4. TE!E!Library(t, c) => Library(t, c)
    BY DEF Library, TE!E!Library, StoreAwaiter, TE!E!StoreAwaiter, AwaitSuspend,
           TE!E!AwaitSuspend, ResumeAwaiter, TE!E!ResumeAwaiter, SetReturns, TE!E!SetReturns
  <2> QED  BY <2>1, <2>2, <2>3, <2>4
<1>2. Consumer'  BY <1>1, EventKeepsConsumer DEF JointInv
<1> QED  BY <1>1, <1>2, EventIsClientOfTask, EventTakesStep DEF BothStep

LEMMA TaskBothStep ==
  ASSUME JointInv, UNCHANGED TE!eventVars, TP!Next, pc' \in [Coroutines -> Places], ClientStep
  PROVE  BothStep
BY DEF JointInv, TE!eventVars, ClientStep, BothStep

LEMMA JointStep == JointInv /\ ConstantsOfTask /\ [TE!Next]_TE!vars => BothStep /\ JointInv'
<1> SUFFICES ASSUME JointInv, ConstantsOfTask, [TE!Next]_TE!vars PROVE BothStep /\ JointInv'
  OBVIOUS
<1>1. BothStep
  <2>1. CASE UNCHANGED TE!vars
    <3>1. UNCHANGED <<m_state, m_awaiter, pc, stack>> /\ UNCHANGED TE!taskVars
      BY <2>1 DEF TE!vars, TE!eventVars
    <3>2. Consumer'  BY <3>1, ClientsKeepConsumer DEF JointInv
    <3>3. UNCHANGED TP!vars /\ UNCHANGED TE!AsEvent!vars
      BY <3>1 DEF TP!vars, TP!promiseVars, TE!taskVars, TE!AsEvent!vars, TE!TaskView, TE!EventView
    <3> QED  BY <3>1, <3>2, <3>3 DEF BothStep, JointInv
  <2>2. ASSUME NEW t \in Threads, NEW c \in Coroutines,
               TE!Enter(t, c) \/ TE!Leave(t, c) \/ \E d \in Coroutines : TE!Switch(t, c, d)
        PROVE  BothStep
    BY <2>2, TaskTakesStep, ComingIsClientStep, TaskBothStep
       DEF TE!Enter, TE!Leave, TE!Switch
  <2>3. ASSUME NEW t \in Threads, NEW c \in Coroutines, TE!AwaitTask(t, c) PROVE BothStep
    <3>1. CASE TE!T!TrySetContinuation(t, c)
      BY <2>3, <3>1, TaskTakesStep, ComingIsClientStep, TaskBothStep DEF TE!AwaitTask
    <3>2. ASSUME NEW k \in Tasks,
                 \/ TE!T!AwaitDone(t, c, k) \/ TE!T!AwaitTransfer(t, c, k)
                 \/ TE!T!AwaitResume(t, c, k)
          PROVE  BothStep
      BY <2>3, <3>2, AwaitTakesStep, AwaitIsClientStep, TaskBothStep DEF TE!AwaitTask
    <3> QED  BY <2>3, <3>1, <3>2 DEF TE!AwaitTask, TE!T!Await
  <2>4. ASSUME NEW t \in Threads, NEW c \in Coroutines, TE!HoldTask(t, c) PROVE BothStep
    BY <2>4, ObjectsTakeStep, ObjectsAreClientSteps, TaskBothStep DEF TE!HoldTask
  <2>5. ASSUME NEW t \in Threads, NEW k \in Tasks, TE!Complete(t, k) \/ TE!Final(t, k)
        PROVE  BothStep
    BY <2>5, TaskEnds, EndIsClientStep, TaskBothStep DEF TE!Complete, TE!Final
  <2>6. ASSUME NEW t \in Threads, NEW c \in Coroutines,
               TE!AwaitEvent(t, c) \/ TE!InEvent(t, c) \/ TE!Set(t, c) \/ TE!Reset(t, c)
        PROVE  BothStep
    BY <2>6, EventBothStep DEF TE!AwaitEvent, TE!InEvent, TE!Set, TE!Reset
  <2> QED
    BY <2>1, <2>2, <2>3, <2>4, <2>5, <2>6 DEF TE!Next, TE!Clients, ConstantsOfTask
<1>2. TP!IInv'
  BY <1>1, TP!NextTypeOK, TP!NextProtocol, ConsumerConstants
     DEF JointInv, BothStep, TP!IInv, ConstantsOfTask
<1> QED  BY <1>1, <1>2 DEF JointInv, BothStep

LEMMA InitJoint ==
  ConstantsOfTask /\ TE!Init => JointInv /\ TP!Init /\ TE!AsEvent!Init
<1> SUFFICES ASSUME ConstantsOfTask, TE!Init PROVE JointInv /\ TP!Init /\ TE!AsEvent!Init
  OBVIOUS
<1> USE DEF TE!Init, TE!T!Init
<1>1. pc = [c \in Coroutines |-> IF c \in Tasks THEN "unborn" ELSE "parked"]  OBVIOUS
<1>2. TE!TaskView = pc /\ TE!EventView = [c \in Coroutines |-> "parked"]
  BY <1>1 DEF TE!TaskView, TE!EventView
<1>3. TP!Init  BY <1>1, <1>2 DEF TP!Init, TE!T!StackInit, TP!StackInit
<1>4. TE!AsEvent!Init  BY <1>2 DEF TE!AsEvent!Init, TE!T!StackInit, TE!AsEvent!StackInit
<1>5. pc \in [Coroutines -> Places] /\ m_state \in States /\ m_awaiter \in Coroutines \cup {Null}
  BY <1>1 DEF Places, TP!AwaiterLocations, TP!TaskLocations, States
<1>6. Consumer
  BY <1>1 DEF Consumer, OneConsumer, Awaiting, StoredAwaiter, ConsumerResumed, ConsumerListed
<1>7. TP!IInv  BY <1>3, TP!InitIInv, ConsumerConstants DEF ConstantsOfTask
<1> QED  BY <1>3, <1>4, <1>5, <1>6, <1>7 DEF JointInv

(* TE and TP speak of the same task.                                       *)
LEMMA SameTask ==
  /\ TP!Init => TE!AsTask!Init
  /\ [TP!Next]_TP!vars => [TE!AsTask!Next]_TE!AsTask!vars
<1> USE DEF TP!Idle, TE!AsTask!Idle, TP!Running, TE!AsTask!Running, TP!Resume, TE!AsTask!Resume,
        TP!Return, TE!AsTask!Return, TP!Transfer, TE!AsTask!Transfer,
        TP!promiseVars, TE!AsTask!promiseVars, TP!Continues, TE!AsTask!Continues,
        TP!Done, TE!AsTask!Done
<1>1. TP!Init => TE!AsTask!Init
  BY DEF TP!Init, TE!AsTask!Init, TP!StackInit, TE!AsTask!StackInit
<1>2. UNCHANGED TP!vars => UNCHANGED TE!AsTask!vars  BY DEF TP!vars, TE!AsTask!vars
<1>3. ASSUME NEW t, NEW c, NEW d
      PROVE  /\ TP!Switch(t, c, d) => TE!AsTask!Switch(t, c, d)
             /\ TP!Enter(t, c) => TE!AsTask!Enter(t, c)
             /\ TP!Leave(t, c) => TE!AsTask!Leave(t, c)
             /\ TP!Complete(t, c) => TE!AsTask!Complete(t, c)
             /\ TP!TrySetContinuation(t, c) => TE!AsTask!TrySetContinuation(t, c)
  BY DEF TP!Switch, TE!AsTask!Switch, TP!Enter, TE!AsTask!Enter, TP!Leave, TE!AsTask!Leave,
         TP!Complete, TE!AsTask!Complete, TP!TrySetContinuation, TE!AsTask!TrySetContinuation
<1>4. ASSUME NEW t, NEW c, NEW k
      PROVE  /\ TP!AwaitDone(t, c, k) => TE!AsTask!AwaitDone(t, c, k)
             /\ TP!AwaitTransfer(t, c, k) => TE!AsTask!AwaitTransfer(t, c, k)
             /\ TP!AwaitResume(t, c, k) => TE!AsTask!AwaitResume(t, c, k)
             /\ TP!Create(t, c, k) => TE!AsTask!Create(t, c, k)
             /\ TP!Destroy(t, c, k) => TE!AsTask!Destroy(t, c, k)
             /\ \A d : TP!Move(t, c, k, d) => TE!AsTask!Move(t, c, k, d)
  BY DEF TP!AwaitDone, TE!AsTask!AwaitDone, TP!AwaitTransfer, TE!AsTask!AwaitTransfer,
         TP!AwaitResume, TE!AsTask!AwaitResume, TP!Create, TE!AsTask!Create,
         TP!Held, TE!AsTask!Held, TP!Destroy, TE!AsTask!Destroy, TP!Move, TE!AsTask!Move
<1>5. ASSUME NEW t, NEW k, TP!Final(t, k) PROVE TE!AsTask!Final(t, k)
  BY <1>5 DEF TP!Final, TE!AsTask!Final, TP!FinalTransfer, TE!AsTask!FinalTransfer,
     TP!FinalExchange, TE!AsTask!FinalExchange, TP!FinalResume, TE!AsTask!FinalResume,
     TP!FinalReturns, TE!AsTask!FinalReturns
<1>6. ASSUME NEW t, NEW c
      PROVE  /\ TP!Await(t, c) => TE!AsTask!Await(t, c)
             /\ TP!Objects(t, c) => TE!AsTask!Objects(t, c)
  <2>1. TP!Await(t, c) => TE!AsTask!Await(t, c)
    BY <1>3, <1>4, Zenon DEF TP!Await, TE!AsTask!Await
  <2>2. TP!Objects(t, c) => TE!AsTask!Objects(t, c)
    BY <1>4, Zenon DEF TP!Objects, TE!AsTask!Objects
  <2> QED  BY <2>1, <2>2
<1>7. TP!Next => TE!AsTask!Next
  BY <1>3, <1>5, <1>6, Zenon DEF TP!Next, TE!AsTask!Next
<1> QED  BY <1>1, <1>2, <1>7

(* Tasks that await the event, and coroutines that await them and set it,  *)
(* keep to what task asks of coroutines and the event of its clients, for  *)
(* any number of tasks, clients and threads: a set() resumes tasks only    *)
(* where they are suspended on the event, whatever completes, transfers or *)
(* starts inside it.                                                       *)
THEOREM ContractsHonoured == ConstantsOfTask => (TE!Spec => TE!HonoursContracts)
<1>1. ConstantsOfTask /\ TE!Init => JointInv /\ TE!AsTask!Init /\ TE!AsEvent!Init
  BY InitJoint, SameTask
<1>2. ConstantsOfTask /\ JointInv /\ [TE!Next]_TE!vars =>
        /\ JointInv' /\ [TE!AsTask!Next]_TE!AsTask!vars /\ [TE!AsEvent!Next]_TE!AsEvent!vars
  BY JointStep, SameTask DEF BothStep
<1>3. ConstantsOfTask => []ConstantsOfTask  OBVIOUS
<1> QED
  BY <1>1, <1>2, <1>3, PTL DEF TE!Spec, TE!HonoursContracts, TE!AsTask!Spec, TE!AsEvent!Spec

(* So what task promises holds for tasks that await the event: co_await of *)
(* them is a procedure call, and no coroutine is resumed that runs or is   *)
(* on a stack, be it by task or by set().                                  *)
THEOREM CallsThroughEvent ==
  ConstantsOfTask => (TE!Spec => TP!ImplementsCall /\ []NoDoubleResume)
<1>1. ConstantsOfTask /\ TE!Init => JointInv /\ TP!Init  BY InitJoint
<1>2. ConstantsOfTask /\ JointInv /\ [TE!Next]_TE!vars => JointInv' /\ [TP!Next]_TP!vars
  BY JointStep DEF BothStep
<1>3. ConstantsOfTask => []ConstantsOfTask  OBVIOUS
<1>4. ConstantsOfTask => (TP!Spec => TP!ImplementsCall)
  BY TP!Implements, ConsumerConstants DEF ConstantsOfTask
<1>5. ConstantsOfTask => (TP!Spec => []TP!NoDoubleResume)
  BY TP!ResumesSuspended, ConsumerConstants DEF ConstantsOfTask
<1>6. TP!NoDoubleResume <=> NoDoubleResume  BY DEF TP!NoDoubleResume, NoDoubleResume
<1> QED  BY <1>1, <1>2, <1>3, <1>4, <1>5, <1>6, PTL DEF TE!Spec, TP!Spec
=============================================================================
