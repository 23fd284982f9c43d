--------------------------- MODULE SyncWaitProofs ---------------------------
(***************************************************************************)
(* sync_wait, proved for any number of threads and calls: the set() that   *)
(* outlives its event touches neither event nor task, and a call returns   *)
(* once, with the outcome of its own awaitable.  The argument: the event   *)
(* of a call is that of its own promise, and once wait() can return, the   *)
(* task is past its store and nobody but the waiting thread uses it.       *)
(***************************************************************************)
EXTENDS SyncWaitPromise, CoroutineRuntimeProofs

OwnEvent ==
  \A t \in Threads : call[t] # Null =>
    m_event[call[t]] = t /\ pc[call[t]] \notin {"unborn", "left", "destroyed"}

SetPastStore ==
  \A t \in Threads : call[t] # Null /\ (m_value[t] = 1 \/ t \in waited) =>
    pc[call[t]] \in {"waking", "final"}

EventAlive ==
  \A k \in Coroutines : pc[k] \in {"running", "parked", "notifying"} => call[m_event[k]] = k

Active == {k \in Coroutines : pc[k] \in {"running", "notifying", "waking", "left"}}

ActiveStacked == \A t \in Threads : \A i \in 1..Len(stack[t]) : stack[t][i] \in Active

IInv ==
  /\ TypeOK
  /\ OwnEvent
  /\ SetPastStore
  /\ EventAlive
  /\ NoDoubleResume
  /\ ActiveStacked

LEMMA InitIInv == Init => IInv
<1> SUFFICES ASSUME Init PROVE IInv  OBVIOUS
<1>1. TypeOK  BY DEF Init, StackInit, TypeOK, Locations, StackTypeOK
<1>2. OwnEvent /\ SetPastStore /\ EventAlive
  BY DEF Init, OwnEvent, SetPastStore, EventAlive
<1>3. NoDoubleResume /\ ActiveStacked
  BY DEF Init, StackInit, NoDoubleResume, ActiveStacked
<1> QED  BY <1>1, <1>2, <1>3 DEF IInv

LEMMA NextTypeOK == IInv /\ [Next]_vars => TypeOK'
<1> SUFFICES ASSUME IInv, [Next]_vars PROVE TypeOK'  OBVIOUS
<1>0. TypeOK /\ StackTypeOK  BY DEF IInv, TypeOK
<1> USE SyncWaitConstants
<1>1. CASE UNCHANGED vars
  BY <1>0, <1>1 DEF vars, threadVars, promiseVars, TypeOK, StackTypeOK
<1>2. ASSUME NEW t \in Threads, NEW k \in Coroutines, Start(t, k) PROVE TypeOK'
  BY <1>0, <1>2, StackTypes DEF TypeOK, Locations, Start, Free
<1>3. ASSUME NEW t \in Threads, Wait(t) PROVE TypeOK'
  BY <1>0, <1>3 DEF TypeOK, StackTypeOK, Wait, promiseVars
<1>4. ASSUME NEW t \in Threads, Finish(t) PROVE TypeOK'
  <2>1. call[t] \in Coroutines /\ m_event[call[t]] # Null
    BY <1>0, <1>4 DEF Finish, TypeOK, IInv, OwnEvent
  <2> QED  BY <1>0, <1>4, <2>1 DEF TypeOK, StackTypeOK, Locations, Finish, promiseVars
<1>5. ASSUME NEW t \in Threads, NEW k \in Coroutines, Leave(t, k) \/ Enter(t, k) PROVE TypeOK'
  BY <1>0, <1>5, StackTypes DEF TypeOK, Locations, Leave, Enter, threadVars, promiseVars
<1>6. ASSUME NEW t \in Threads, NEW k \in Coroutines, NEW o \in Outcomes, Complete(t, k, o)
      PROVE  TypeOK'
  BY <1>0, <1>6, StackTypes DEF TypeOK, Locations, Complete, threadVars
<1>7. ASSUME NEW t \in Threads, NEW k \in Coroutines, SetStore(t, k) PROVE TypeOK'
  BY <1>0, <1>7, StackTypes DEF TypeOK, Locations, SetStore, threadVars, promiseVars
<1>8. ASSUME NEW t \in Threads, NEW k \in Coroutines, SetWake(t, k) PROVE TypeOK'
  BY <1>0, <1>8, StackTypes DEF TypeOK, Locations, SetWake, threadVars, promiseVars
<1>9. ASSUME NEW t \in Threads, NEW k \in Coroutines, NEW l \in Coroutines, Switch(t, k, l)
      PROVE  TypeOK'
  BY <1>0, <1>9, StackTypes DEF TypeOK, Locations, Switch, threadVars, promiseVars
<1> QED  BY <1>1, <1>2, <1>3, <1>4, <1>5, <1>6, <1>7, <1>8, <1>9 DEF Next, Library

(* Who waits on which event.                                               *)
LEMMA NextEvents == IInv /\ [Next]_vars => OwnEvent' /\ SetPastStore' /\ EventAlive'
<1> SUFFICES ASSUME IInv, [Next]_vars PROVE OwnEvent' /\ SetPastStore' /\ EventAlive'
  OBVIOUS
<1>0. TypeOK /\ OwnEvent /\ SetPastStore /\ EventAlive  BY DEF IInv
<1> USE SyncWaitConstants, <1>0 DEF TypeOK, OwnEvent, SetPastStore, EventAlive
<1>1. CASE UNCHANGED vars
  BY <1>1 DEF vars, threadVars, promiseVars
<1>2. ASSUME NEW t \in Threads, NEW k \in Coroutines, Start(t, k)
      PROVE  OwnEvent' /\ SetPastStore' /\ EventAlive'
  BY <1>2 DEF Start, Free
<1>3. ASSUME NEW t \in Threads, Wait(t) PROVE OwnEvent' /\ SetPastStore' /\ EventAlive'
  BY <1>3 DEF Wait, promiseVars
<1>4. ASSUME NEW t \in Threads, Finish(t) PROVE OwnEvent' /\ SetPastStore' /\ EventAlive'
  <2>1. call[t] \in Coroutines /\ pc[call[t]] \in {"waking", "final"}
    BY <1>4 DEF Finish
  <2> QED  BY <1>4, <2>1 DEF Finish, promiseVars
<1>5. ASSUME NEW t \in Threads, NEW k \in Coroutines, Leave(t, k) \/ Enter(t, k)
      PROVE  OwnEvent' /\ SetPastStore' /\ EventAlive'
  BY <1>5 DEF Leave, Enter, threadVars, promiseVars
<1>6. ASSUME NEW t \in Threads, NEW k \in Coroutines, NEW o \in Outcomes, Complete(t, k, o)
      PROVE  OwnEvent' /\ SetPastStore' /\ EventAlive'
  BY <1>6 DEF Complete, threadVars
<1>7. ASSUME NEW t \in Threads, NEW k \in Coroutines, SetStore(t, k)
      PROVE  OwnEvent' /\ SetPastStore' /\ EventAlive'
  BY <1>7 DEF SetStore, threadVars, promiseVars
<1>8. ASSUME NEW t \in Threads, NEW k \in Coroutines, SetWake(t, k)
      PROVE  OwnEvent' /\ SetPastStore' /\ EventAlive'
  BY <1>8 DEF SetWake, threadVars, promiseVars
<1>9. ASSUME NEW t \in Threads, NEW k \in Coroutines, NEW l \in Coroutines, Switch(t, k, l)
      PROVE  OwnEvent' /\ SetPastStore' /\ EventAlive'
  BY <1>9 DEF Switch, threadVars, promiseVars
<1> QED  BY <1>1, <1>2, <1>3, <1>4, <1>5, <1>6, <1>7, <1>8, <1>9 DEF Next, Library

(* A task on a stack is running, or in set().                              *)
LEMMA NextStacks == IInv /\ [Next]_vars => NoDoubleResume' /\ ActiveStacked'
<1> SUFFICES ASSUME IInv, [Next]_vars PROVE NoDoubleResume' /\ ActiveStacked'  OBVIOUS
<1>0. TypeOK /\ StackTypeOK /\ NoDoubleResume /\ ActiveStacked  BY DEF IInv, TypeOK
<1>1. CASE UNCHANGED vars
  BY <1>0, <1>1 DEF vars, NoDoubleResume, ActiveStacked, Active
<1>2. ASSUME UNCHANGED stack, Active \subseteq Active' PROVE NoDoubleResume' /\ ActiveStacked'
  BY <1>0, <1>2 DEF NoDoubleResume, ActiveStacked
<1>3. ASSUME NEW t \in Threads, NEW k \in Coroutines,
             \/ Resume(t, k) /\ k \notin Active /\ Active \cup {k} \subseteq Active'
             \/ Running(t, k) /\ Return(t) /\ Active \ {k} \subseteq Active'
      PROVE  NoDoubleResume' /\ ActiveStacked'
  BY <1>0, <1>3, StacksFollow DEF ActiveStacked
<1>4. ASSUME NEW t \in Threads, Wait(t) \/ Finish(t) PROVE NoDoubleResume' /\ ActiveStacked'
  <2>1. Active \subseteq Active'
    <3>1. CASE Wait(t)  BY <3>1 DEF Wait, Active
    <3>2. CASE Finish(t)
      <4>1. call[t] \in Coroutines /\ pc[call[t]] \in {"waking", "final"}
        BY <1>0, <3>2 DEF Finish, IInv, SetPastStore, TypeOK
      <4> QED  BY <1>0, <3>2, <4>1 DEF Finish, Active, TypeOK
    <3> QED  BY <1>4, <3>1, <3>2
  <2> QED  BY <1>2, <1>4, <2>1 DEF Wait, Finish
<1>5. ASSUME NEW t \in Threads, NEW k \in Coroutines,
             \/ Start(t, k) \/ Enter(t, k) \/ Leave(t, k) \/ SetStore(t, k) \/ SetWake(t, k)
             \/ \E o \in Outcomes : Complete(t, k, o)
      PROVE  NoDoubleResume' /\ ActiveStacked'
  <2> USE <1>0 DEF TypeOK, Active
  <2>1. CASE Start(t, k) \/ Enter(t, k)
    <3>1. Resume(t, k) /\ k \notin Active /\ Active \cup {k} \subseteq Active'
      BY <2>1 DEF Start, Enter
    <3> QED  BY <1>3, <3>1
  <2>2. CASE Leave(t, k) \/ SetWake(t, k)
    <3>1. Running(t, k) /\ Return(t) /\ Active \ {k} \subseteq Active'
      BY <2>2 DEF Leave, SetWake
    <3> QED  BY <1>3, <3>1
  <2>3. CASE SetStore(t, k) \/ \E o \in Outcomes : Complete(t, k, o)
    <3>1. UNCHANGED stack /\ Active \subseteq Active'
      BY <2>3 DEF SetStore, Complete
    <3> QED  BY <1>2, <3>1
  <2> QED  BY <1>5, <2>1, <2>2, <2>3
<1>6. ASSUME NEW t \in Threads, NEW k \in Coroutines, NEW l \in Coroutines, Switch(t, k, l)
      PROVE  NoDoubleResume' /\ ActiveStacked'
  <2>1. /\ Running(t, k) /\ Transfer(t, l)
        /\ l \notin Active /\ l \in Active' /\ Active \ {k} \subseteq Active'
    BY <1>0, <1>6 DEF Switch, Active, TypeOK
  <2> QED  BY <1>0, <2>1, StacksFollow DEF ActiveStacked
<1> QED  BY <1>1, <1>4, <1>5, <1>6 DEF Next, Library

LEMMA Invariance == Spec => []IInv
<1>1. IInv /\ [Next]_vars => IInv'  BY NextTypeOK, NextEvents, NextStacks DEF IInv
<1> QED  BY InitIInv, <1>1, PTL DEF Spec

(* sync_wait is type correct; m_event is set before it is used.            *)
THEOREM TypeCorrect == Spec => []TypeOK
<1>1. IInv => TypeOK  BY DEF IInv
<1> QED  BY <1>1, Invariance, PTL

(* The task of a call is started once, and no coroutine it awaits is       *)
(* resumed while it runs, though a set() may outlive its call.             *)
THEOREM ResumesSuspended == Spec => []NoDoubleResume
<1>1. IInv => NoDoubleResume  BY DEF IInv
<1> QED  BY <1>1, Invariance, PTL

(* The event and the task of a call are destroyed after the store of       *)
(* set(), and nothing uses them from then on.                              *)
THEOREM MemorySafe == Spec => []NoUseAfterFree
<1>1. IInv => NoUseAfterFree
  BY DEF IInv, NoUseAfterFree, EventAlive, ActiveStacked, Active
<1> QED  BY <1>1, Invariance, PTL

-----------------------------------------------------------------------------
LEMMA StepImplements == IInv /\ [Next]_vars => [Call!Next]_Call!vars
<1> SUFFICES ASSUME IInv, [Next]_vars PROVE [Call!Next]_Call!vars  OBVIOUS
<1>0. TypeOK /\ SetPastStore  BY DEF IInv
<1> USE SyncWaitConstants, <1>0 DEF TypeOK
<1>1. ASSUME UNCHANGED <<threadVars, result>>,
             \A k \in Coroutines :
               \/ pc'[k] = pc[k]
               \/ pc[k] \in {"running", "parked"} /\ pc'[k] \in {"running", "parked"}
               \/ /\ pc[k] \in {"notifying", "waking", "final", "left", "destroyed"}
                  /\ pc'[k] \in {"notifying", "waking", "final", "left", "destroyed"}
      PROVE  [Call!Next]_Call!vars
  <2>1. Phase' = Phase  BY <1>1 DEF Phase
  <2> QED  BY <1>1, <2>1 DEF Call!vars, threadVars
<1>2. CASE UNCHANGED vars
  BY <1>1, <1>2 DEF vars, promiseVars, threadVars
<1>3. ASSUME NEW t \in Threads, NEW k \in Coroutines, Start(t, k) PROVE Call!Next
  <2>1. Phase[k] = "idle" /\ Phase' = [Phase EXCEPT ![k] = "called"]
    BY <1>3 DEF Start, Phase
  <2>2. Call!MayCall(t)  BY <1>3 DEF Start, Free, Call!MayCall
  <2>3. Call!Call(t, k)  BY <1>3, <2>1, <2>2 DEF Start, Call!Call
  <2> QED  BY <2>3 DEF Call!Next
<1>4. ASSUME NEW t \in Threads, Wait(t) PROVE [Call!Next]_Call!vars
  <2>1. UNCHANGED <<call, got, result, pc>>  BY <1>4 DEF Wait, promiseVars
  <2> QED  BY <2>1 DEF Call!vars, Phase
<1>5. ASSUME NEW t \in Threads, Finish(t) PROVE Call!Next
  <2> DEFINE k == call[t]
  <2>1. k \in Coroutines /\ pc[k] \in {"waking", "final"}
    BY <1>5 DEF Finish, SetPastStore
  <2>2. Phase[k] = "returned" /\ Phase' = Phase  BY <1>5, <2>1 DEF Finish, Phase
  <2>3. Call!Continue(t, k)
    BY <1>5, <2>1, <2>2 DEF Finish, promiseVars, Call!Continue
  <2> HIDE DEF k
  <2> QED  BY <2>1, <2>3 DEF Call!Next
<1>6. ASSUME NEW t \in Threads, NEW k \in Coroutines,
             Leave(t, k) \/ Enter(t, k) \/ SetStore(t, k) \/ SetWake(t, k)
      PROVE  [Call!Next]_Call!vars
  <2>1. UNCHANGED <<threadVars, result>>
    BY <1>6 DEF Leave, Enter, SetStore, SetWake, promiseVars
  <2>2. CASE Leave(t, k) \/ Enter(t, k)
    BY <1>1, <2>1, <2>2 DEF Leave, Enter
  <2>3. CASE SetStore(t, k) \/ SetWake(t, k)
    BY <1>1, <2>1, <2>3 DEF SetStore, SetWake
  <2> QED  BY <1>6, <2>2, <2>3
<1>7. ASSUME NEW t \in Threads, NEW k \in Coroutines, NEW o \in Outcomes, Complete(t, k, o)
      PROVE  Call!Next
  <2>1. Phase[k] = "called" /\ Phase' = [Phase EXCEPT ![k] = "returned"]
    BY <1>7 DEF Complete, Phase
  <2>2. Call!Return(k, o)
    BY <1>7, <2>1 DEF Complete, threadVars, Call!Return
  <2> QED  BY <2>2 DEF Call!Next
<1>8. ASSUME NEW t \in Threads, NEW k \in Coroutines, NEW l \in Coroutines, Switch(t, k, l)
      PROVE  [Call!Next]_Call!vars
  BY <1>1, <1>8 DEF Switch, promiseVars
<1> QED  BY <1>2, <1>3, <1>4, <1>5, <1>6, <1>7, <1>8 DEF Next, Library

(* sync_wait is a procedure call: the thread goes on once, after the       *)
(* awaitable has completed, with its result or exception.                  *)
THEOREM Implements == Spec => ImplementsCall
<1>1. Init => Call!Init
  BY DEF Init, Call!Init, Phase
<1> QED  BY <1>1, StepImplements, Invariance, PTL DEF Spec, ImplementsCall, Call!Spec
=============================================================================
