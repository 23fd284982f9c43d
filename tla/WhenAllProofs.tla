--------------------------- MODULE WhenAllProofs ----------------------------
(***************************************************************************)
(* The counter of when_all, proved exact for any number of tasks and       *)
(* threads.  From it follows that the awaiting coroutine and the last task *)
(* agree on who of them goes on: m_count is zero only when every task has  *)
(* notified it and the awaiting coroutine has stored its handle.           *)
(***************************************************************************)
EXTENDS WhenAllPromise, CoroutineRuntimeProofs, FiniteSetTheorems

(* start_tasks starts the tasks in order.                                  *)
TasksInOrder == \A i \in Children : pc[i] # "initial" <=> i < index

ParentPhases ==
  /\ pc[Parent] \in {"starting", "arriving", "awaiting"} => alive
  /\ pc[Parent] = "starting" => m_awaiting_coroutine = Null
  /\ pc[Parent] \in {"arriving", "awaiting"} => m_awaiting_coroutine # Null
  /\ m_awaiting_coroutine = Null /\ pc[Parent] # "starting" => index = 1
  /\ m_awaiting_coroutine # Null => index = size + 1

(* One task, the last, resumes the awaiting coroutine.                     *)
LastResumes ==
  /\ \A i \in Tasks : pc[i] = "resuming" =>
       /\ m_count = 0 /\ pc[Parent] = "awaiting"
       /\ \A j \in Tasks : pc[j] = "resuming" => j = i
  /\ pc[Parent] = "awaiting" /\ m_count = 0 => \E i \in Tasks : pc[i] = "resuming"

IInv ==
  /\ TypeOK
  /\ TasksInOrder
  /\ ParentPhases
  /\ CountExact
  /\ LastResumes
  /\ JoinAfterAll

-----------------------------------------------------------------------------
(* Outstanding is finite; it loses the task that notifies the counter.     *)
LEMMA OutstandingCount ==
  ASSUME TypeOK
  PROVE  /\ IsFiniteSet(Outstanding)
         /\ Cardinality(Outstanding) \in Nat
         /\ Cardinality(Outstanding) <= size
         /\ Cardinality(Outstanding) = 0 <=> Outstanding = {}
         /\ \A i \in Outstanding : Cardinality(Outstanding \ {i}) = Cardinality(Outstanding) - 1
<1>1. size \in Nat  BY WhenAllConstants DEF TypeOK
<1>2. IsFiniteSet(Tasks) /\ Cardinality(Tasks) = size  BY <1>1, FS_Interval DEF Tasks
<1>3. Outstanding \in SUBSET Tasks  BY DEF Outstanding
<1>4. IsFiniteSet(Outstanding) /\ Cardinality(Outstanding) <= size  BY <1>2, <1>3, FS_Subset
<1>5. Cardinality(Outstanding) \in Nat  BY <1>4, FS_CardinalityType
<1>6. Cardinality(Outstanding) = 0 <=> Outstanding = {}  BY <1>4, FS_EmptySet
<1>7. \A i \in Outstanding : Cardinality(Outstanding \ {i}) = Cardinality(Outstanding) - 1
  BY <1>4, FS_RemoveElement
<1> QED  BY <1>4, <1>5, <1>6, <1>7

LEMMA InitIInv == Init => IInv
<1> SUFFICES ASSUME Init PROVE IInv  OBVIOUS
<1> USE WhenAllConstants DEF Init, Children, Tasks
<1>1. TypeOK
  <2>1. StackTypeOK  BY DEF StackTypeOK, StackInit
  <2>2. m_count \in 0..N + 1 /\ index \in 1..size + 1 /\ size \in 0..N  OBVIOUS
  <2> QED  BY <2>1, <2>2 DEF TypeOK, ParentLocations, TaskLocations
<1>2. TasksInOrder /\ ParentPhases /\ LastResumes /\ JoinAfterAll
  BY DEF TasksInOrder, ParentPhases, LastResumes, JoinAfterAll
<1>3. Outstanding = {} /\ ~Arrived  BY DEF Outstanding, Arrived
<1>4. CountExact  BY <1>3, FS_EmptySet DEF CountExact
<1> QED  BY <1>1, <1>2, <1>4 DEF IInv

(* Steps that leave the counter alone.                                     *)
LEMMA CountUntouched ==
  ASSUME IInv, UNCHANGED <<size, m_count>>, Arrived' = Arrived,
         \A i \in Tasks :
           pc'[i] \in {"resuming", "final", "done"} <=> pc[i] \in {"resuming", "final", "done"}
  PROVE  CountExact' /\ Outstanding' = Outstanding
<1>1. Outstanding' = Outstanding  BY DEF Outstanding, Tasks
<1> QED  BY <1>1 DEF IInv, CountExact

(* Coroutines that come and go, tasks that complete, and the end of a      *)
(* resume() of the awaiting coroutine.                                     *)
LEMMA ClientKeepsIInv ==
  ASSUME IInv, NEW t \in Threads, NEW c \in Coroutines,
         \/ Enter(t, c) \/ Leave(t, c)
         \/ c \in Children /\ (Complete(t, c) \/ NotifyReturns(t, c))
  PROVE  IInv'
<1> USE WhenAllConstants DEF IInv
<1>0. /\ UNCHANGED <<objectVars, counterVars, index>>
      /\ pc' = [pc EXCEPT ![c] = pc'[c]]
      /\ \/ pc[c] = "parked" /\ pc'[c] = "running"
         \/ pc[c] = "running" /\ pc'[c] = "parked"
         \/ c \in Children /\ pc[c] = "running" /\ pc'[c] = "completing"
         \/ c \in Children /\ pc[c] = "final" /\ pc'[c] = "done"
  BY DEF Enter, Leave, Complete, NotifyReturns, TypeOK
<1>u. UNCHANGED <<size, alive, m_count, m_awaiting_coroutine, index>>
  BY <1>0 DEF objectVars, counterVars
<1>p. \A d \in Coroutines : d # c => pc'[d] = pc[d]  BY <1>0 DEF TypeOK
<1>1. TypeOK'
  <2>1. StackTypeOK'
    BY StackTypes DEF TypeOK, Enter, Leave, Complete, NotifyReturns
  <2>2. outcome' \in [Children -> Values \cup Exceptions \cup {NoOutcome}]
    BY DEF TypeOK, Enter, Leave, Complete, NotifyReturns
  <2> QED  BY <1>0, <1>u, <2>1, <2>2 DEF TypeOK, ParentLocations, TaskLocations
<1>2. TasksInOrder'  BY <1>0, <1>u, <1>p DEF TasksInOrder
<1>3. ParentPhases'  BY <1>0, <1>u, <1>p DEF ParentPhases
<1>t. Tasks' = Tasks /\ Tasks \subseteq Children  BY <1>u DEF Tasks, Children, TypeOK
<1>4. CountExact'
  <2>1. Arrived' = Arrived  BY <1>0, <1>u, <1>p DEF Arrived
  <2>2. \A i \in Tasks :
          pc'[i] \in {"resuming", "final", "done"} <=> pc[i] \in {"resuming", "final", "done"}
    BY <1>0, <1>p, <1>t
  <2> QED  BY <1>u, <2>1, <2>2, CountUntouched
<1>5. LastResumes'  BY <1>0, <1>u, <1>p, <1>t DEF LastResumes
<1>6. JoinAfterAll'
  BY <1>0, <1>u, <1>p, <1>t DEF JoinAfterAll
<1> QED  BY <1>1, <1>2, <1>3, <1>4, <1>5, <1>6

LEMMA SwitchKeepsIInv ==
  ASSUME IInv, NEW t \in Threads, NEW c \in Coroutines, NEW d \in Coroutines, Switch(t, c, d)
  PROVE  IInv'
<1> USE WhenAllConstants DEF IInv, Switch
<1>0. /\ UNCHANGED <<size, alive, m_count, m_awaiting_coroutine, index, outcome, result>>
      /\ pc[c] = "running" /\ pc[d] = "parked" /\ pc'[c] = "parked" /\ pc'[d] = "running"
      /\ \A e \in Coroutines : e \notin {c, d} => pc'[e] = pc[e]
  BY DEF objectVars, counterVars, TypeOK
<1>1. TypeOK'
  <2>1. StackTypeOK'  BY StackTypes DEF TypeOK
  <2>2. pc' \in [Coroutines -> ParentLocations \cup TaskLocations]
    BY DEF TypeOK, ParentLocations, TaskLocations
  <2>3. pc'[Parent] \in ParentLocations /\ \A i \in Children : pc'[i] \in TaskLocations
    BY <1>0 DEF TypeOK, ParentLocations, TaskLocations
  <2> QED  BY <1>0, <2>1, <2>2, <2>3 DEF TypeOK
<1>2. TasksInOrder' /\ ParentPhases'  BY <1>0 DEF TasksInOrder, ParentPhases
<1>t. Tasks' = Tasks /\ Tasks \subseteq Children  BY <1>0 DEF Tasks, Children, TypeOK
<1>4. CountExact'
  <2>1. Arrived' = Arrived  BY <1>0 DEF Arrived
  <2>2. \A i \in Tasks :
          pc'[i] \in {"resuming", "final", "done"} <=> pc[i] \in {"resuming", "final", "done"}
    BY <1>0, <1>t
  <2> QED  BY <1>0, <2>1, <2>2, CountUntouched
<1>p. ASSUME NEW e \in Coroutines
      PROVE  \/ pc'[e] = pc[e]
             \/ pc[e] \in {"running", "parked"} /\ pc'[e] \in {"running", "parked"}
  <2>1. CASE e \in {c, d}  BY <1>0, <2>1
  <2> QED  BY <1>0, <2>1
<1>5. LastResumes' /\ JoinAfterAll'
  <2>1. LastResumes /\ JoinAfterAll /\ UNCHANGED <<m_count, m_awaiting_coroutine>>  BY <1>0
  <2>2. /\ \A i \in Tasks : pc'[i] = "resuming" <=> pc[i] = "resuming"
        /\ \A i \in Tasks : pc[i] \in {"final", "done"} => pc'[i] \in {"final", "done"}
        /\ pc'[Parent] = "awaiting" <=> pc[Parent] = "awaiting"
        /\ pc'[Parent] \in {"running", "parked"} <=> pc[Parent] \in {"running", "parked"}
    BY <1>p, <1>t
  <2>3. LastResumes'  BY <1>t, <2>1, <2>2 DEF LastResumes
  <2>4. JoinAfterAll'  BY <1>t, <2>1, <2>2 DEF JoinAfterAll
  <2> QED  BY <2>3, <2>4
<1> QED  BY <1>1, <1>2, <1>4, <1>5

(* when_all_ready sets the counter to one more than there are tasks.       *)
LEMMA CreateKeepsIInv ==
  ASSUME IInv, NEW t \in Threads, NEW n \in 0..N, Create(t, n)
  PROVE  IInv'
<1> USE WhenAllConstants DEF IInv, Create
<1>0. index = 1 /\ \A i \in Children : pc[i] = "initial"
  BY DEF ParentPhases, TasksInOrder, Children, TypeOK
<1>1. TypeOK'  BY <1>0 DEF TypeOK, StackTypeOK
<1>2. TasksInOrder' /\ ParentPhases' /\ JoinAfterAll'
  BY DEF TasksInOrder, ParentPhases, JoinAfterAll
<1>3. Tasks' = 1..n /\ 1..n \subseteq Children  BY DEF Tasks, Children
<1>4. LastResumes'  BY <1>0, <1>3 DEF LastResumes
<1>5. CountExact'
  <2>1. Outstanding' = 1..n  BY <1>0, <1>3 DEF Outstanding
  <2>2. Cardinality(1..n) = n  BY FS_Interval
  <2> QED  BY <2>1, <2>2 DEF CountExact, Arrived
<1> QED  BY <1>1, <1>2, <1>4, <1>5

(* The steps of the awaiting coroutine that do not touch m_count.          *)
LEMMA ParentKeepsIInv ==
  ASSUME IInv, NEW t \in Threads,
         Destroy(t) \/ AwaitReady(t) \/ Await(t) \/ StoreAwaiting(t)
  PROVE  IInv'
<1> USE WhenAllConstants DEF IInv
<1>0. /\ UNCHANGED <<size, m_count, index, outcome, stack>>
      /\ \A i \in Children : pc'[i] = pc[i]
      /\ Tasks' = Tasks /\ Tasks \subseteq Children
  BY DEF Destroy, AwaitReady, Await, StoreAwaiting, Continues, objectVars, counterVars,
         Tasks, Children, TypeOK
<1>1. TypeOK'
  BY <1>0 DEF TypeOK, StackTypeOK, ParentLocations, TaskLocations, Destroy, AwaitReady, Await,
              StoreAwaiting, Continues, objectVars, counterVars
<1>2. TasksInOrder'  BY <1>0 DEF TasksInOrder
<1>3. ParentPhases'
  <2>1. CASE StoreAwaiting(t)
    <3>1. index = size + 1
      BY <2>1 DEF StoreAwaiting, Tasks, TypeOK
    <3> QED  BY <2>1, <3>1 DEF StoreAwaiting, ParentPhases, objectVars, TypeOK
  <2>2. CASE Destroy(t)  BY <2>2 DEF Destroy, ParentPhases, counterVars
  <2>3. CASE AwaitReady(t)
    BY <2>3 DEF AwaitReady, Continues, ParentPhases, objectVars, counterVars, TypeOK
  <2>4. CASE Await(t)
    BY <2>4 DEF Await, ParentPhases, objectVars, counterVars, TypeOK
  <2> QED  BY <2>1, <2>2, <2>3, <2>4
<1>4. Arrived' = Arrived
  BY DEF Destroy, AwaitReady, Await, StoreAwaiting, Continues, counterVars, Arrived, TypeOK,
         ParentPhases
<1>5. CountExact'  BY <1>0, <1>4, CountUntouched
<1>6. LastResumes'
  <2>1. pc[Parent] # "awaiting" /\ pc'[Parent] # "awaiting"
    BY DEF Destroy, AwaitReady, Await, StoreAwaiting, Continues, TypeOK
  <2> QED  BY <1>0, <2>1 DEF LastResumes
<1>7. JoinAfterAll'
  BY <1>0 DEF JoinAfterAll, Destroy, AwaitReady, Await, StoreAwaiting, Continues, counterVars, TypeOK
<1> QED  BY <1>1, <1>2, <1>3, <1>5, <1>6, <1>7

LEMMA StartTaskKeepsIInv ==
  ASSUME IInv, NEW t \in Threads, StartTask(t)
  PROVE  IInv'
<1> USE WhenAllConstants DEF IInv
<1>0. /\ index \in Tasks /\ index' = index + 1 /\ pc' = [pc EXCEPT ![index] = "running"]
      /\ UNCHANGED <<size, alive, m_count, m_awaiting_coroutine, outcome>>
      /\ pc[Parent] = "starting" /\ Resume(t, index)
  BY DEF StartTask, objectVars, counterVars
<1>1. /\ Tasks' = Tasks /\ Tasks \subseteq Children /\ index \in Children
      /\ index # Parent /\ pc[index] = "initial" /\ size \in Nat /\ index \in Nat /\ index <= size
  BY <1>0 DEF Tasks, Children, TypeOK, TasksInOrder
<1>p. \A d \in Coroutines : pc'[d] = IF d = index THEN "running" ELSE pc[d]
  BY <1>0, <1>1 DEF TypeOK
<1>2. TypeOK'
  <2>1. StackTypeOK'  BY <1>0, <1>1, StackTypes DEF TypeOK
  <2>2. index' \in 1..size' + 1  BY <1>0, <1>1 DEF Tasks
  <2> QED  BY <1>0, <1>1, <2>1, <2>2 DEF TypeOK, TaskLocations, ParentLocations
<1>3. TasksInOrder'
  <2>1. ASSUME NEW i \in Children PROVE pc'[i] # "initial" <=> i < index'
    <3>1. i \in Nat  BY DEF Children
    <3> QED  BY <1>0, <1>1, <1>p, <3>1 DEF TasksInOrder
  <2> QED  BY <2>1 DEF TasksInOrder
<1>4. ParentPhases'  BY <1>0, <1>1, <1>p DEF ParentPhases
<1>5. CountExact'
  <2>1. Arrived' = Arrived  BY <1>0, <1>1, <1>p DEF Arrived
  <2>2. \A i \in Tasks :
          pc'[i] \in {"resuming", "final", "done"} <=> pc[i] \in {"resuming", "final", "done"}
    BY <1>1, <1>p
  <2> QED  BY <1>0, <2>1, <2>2, CountUntouched
<1>6. LastResumes' /\ JoinAfterAll'
  BY <1>0, <1>1, <1>p DEF LastResumes, JoinAfterAll
<1> QED  BY <1>2, <1>3, <1>4, <1>5, <1>6

(* The fetch_sub of the awaiting coroutine.                                *)
LEMMA ArriveKeepsIInv ==
  ASSUME IInv, NEW t \in Threads, Arrive(t)
  PROVE  IInv'
<1> USE WhenAllConstants DEF IInv
<1>0. /\ UNCHANGED <<size, alive, m_awaiting_coroutine, index, outcome>>
      /\ m_count' = m_count - 1 /\ pc[Parent] = "arriving"
      /\ IF m_count > 1
         THEN pc' = [pc EXCEPT ![Parent] = "awaiting"] /\ Running(t, Parent) /\ Return(t)
         ELSE pc' = [pc EXCEPT ![Parent] = "running"] /\ UNCHANGED stack
  BY DEF Arrive, Continues, objectVars
<1>1. /\ Tasks' = Tasks /\ Tasks \subseteq Children
      /\ \A i \in Children : pc'[i] = pc[i]
      /\ pc'[Parent] = IF m_count > 1 THEN "awaiting" ELSE "running"
  BY <1>0 DEF Tasks, Children, TypeOK
<1>2. Outstanding' = Outstanding  BY <1>1 DEF Outstanding
<1>3. m_count = Cardinality(Outstanding) + 1 /\ m_awaiting_coroutine # Null
  BY <1>0 DEF CountExact, Arrived, ParentPhases
<1>4. /\ Cardinality(Outstanding) \in Nat /\ Cardinality(Outstanding) <= size
      /\ Cardinality(Outstanding) = 0 <=> Outstanding = {}
  BY OutstandingCount
<1>5. TypeOK'
  <2>1. StackTypeOK'  BY <1>0, StackTypes DEF TypeOK, StackTypeOK
  <2>2. m_count' \in 0..N + 1  BY <1>0, <1>3, <1>4 DEF TypeOK
  <2> QED  BY <1>0, <2>1, <2>2 DEF TypeOK, ParentLocations, TaskLocations
<1>6. TasksInOrder' /\ ParentPhases'
  BY <1>0, <1>1, <1>3 DEF TasksInOrder, ParentPhases
<1>7. CountExact'  BY <1>0, <1>1, <1>2, <1>3, <1>4 DEF CountExact, Arrived
<1>8. \A i \in Tasks : pc[i] # "resuming"  BY <1>0 DEF LastResumes
<1>9. LastResumes'  BY <1>0, <1>1, <1>3, <1>4, <1>8 DEF LastResumes
<1>10. JoinAfterAll'
  <2>1. CASE m_count > 1  BY <1>1, <2>1 DEF JoinAfterAll
  <2>2. CASE ~(m_count > 1)
    <3>1. Outstanding = {}  BY <1>3, <1>4, <2>2
    <3> QED  BY <1>1, <1>8, <3>1 DEF JoinAfterAll, Outstanding
  <2> QED  BY <2>1, <2>2
<1> QED  BY <1>5, <1>6, <1>7, <1>9, <1>10

(* The fetch_sub of a task.                                                *)
LEMMA NotifyKeepsIInv ==
  ASSUME IInv, NEW t \in Threads, NEW i \in Children, Notify(t, i)
  PROVE  IInv'
<1> USE WhenAllConstants DEF IInv
<1>0. /\ UNCHANGED <<size, alive, m_awaiting_coroutine, index, outcome>>
      /\ m_count' = m_count - 1 /\ pc[i] = "completing"
      /\ IF m_count = 1
         THEN pc' = [pc EXCEPT ![i] = "resuming"] /\ UNCHANGED stack
         ELSE pc' = [pc EXCEPT ![i] = "done"] /\ Running(t, i) /\ Return(t)
  BY DEF Notify, objectVars
<1>1. /\ Tasks' = Tasks /\ Tasks \subseteq Children /\ i \in Tasks /\ i \in Outstanding
  <2>1. i < index /\ index <= size + 1 /\ i \in Nat /\ i >= 1 /\ index \in Nat /\ size \in Nat
    BY <1>0 DEF TasksInOrder, Children, TypeOK
  <2>2. i \in Tasks  BY <2>1 DEF Tasks
  <2> QED  BY <1>0, <2>2 DEF Tasks, Children, TypeOK, Outstanding
<1>p. /\ \A j \in Coroutines : j # i => pc'[j] = pc[j]
      /\ pc'[i] = IF m_count = 1 THEN "resuming" ELSE "done"
      /\ pc'[Parent] = pc[Parent]
  BY <1>0 DEF TypeOK
<1>2. Outstanding' = Outstanding \ {i}  BY <1>1, <1>p DEF Outstanding
<1>3. /\ Cardinality(Outstanding) \in Nat /\ Cardinality(Outstanding) <= size
      /\ Cardinality(Outstanding \ {i}) = Cardinality(Outstanding) - 1
      /\ Cardinality(Outstanding) # 0
  BY <1>1, OutstandingCount
<1>4. m_count = Cardinality(Outstanding) + (IF Arrived THEN 0 ELSE 1) /\ m_count \in Nat
  BY <1>3 DEF CountExact
<1>5. TypeOK'
  <2>1. StackTypeOK'  BY <1>0, StackTypes DEF TypeOK, StackTypeOK
  <2>2. m_count' \in 0..N + 1  BY <1>0, <1>3, <1>4 DEF TypeOK
  <2> QED  BY <1>0, <2>1, <2>2 DEF TypeOK, ParentLocations, TaskLocations
<1>6. TasksInOrder' /\ ParentPhases'
  BY <1>0, <1>p DEF TasksInOrder, ParentPhases
<1>7. CountExact'
  <2>1. Arrived' = Arrived  BY <1>0, <1>p DEF Arrived
  <2> QED  BY <1>0, <1>2, <1>3, <1>4, <2>1 DEF CountExact
<1>8. \A j \in Tasks : pc[j] # "resuming"  BY <1>3, <1>4 DEF LastResumes
<1>9. LastResumes'
  <2>1. CASE m_count = 1
    <3>1. Arrived  BY <1>3, <1>4, <2>1
    <3>2. pc[Parent] = "awaiting"
      BY <1>0, <1>1, <3>1 DEF Arrived, JoinAfterAll, ParentPhases, TypeOK, ParentLocations
    <3> QED  BY <1>0, <1>1, <1>p, <1>8, <2>1, <3>2 DEF LastResumes
  <2>2. CASE m_count # 1
    BY <1>0, <1>1, <1>4, <1>p, <1>8, <2>2 DEF LastResumes
  <2> QED  BY <2>1, <2>2
<1>10. JoinAfterAll'  BY <1>0, <1>1, <1>p DEF JoinAfterAll
<1> QED  BY <1>5, <1>6, <1>7, <1>9, <1>10

(* The last task resumes the awaiting coroutine.                           *)
LEMMA ResumeKeepsIInv ==
  ASSUME IInv, NEW t \in Threads, NEW i \in Children, ResumeAwaiting(t, i)
  PROVE  IInv'
<1> USE WhenAllConstants DEF IInv
<1>0. /\ UNCHANGED <<size, alive, m_count, m_awaiting_coroutine, index, outcome>>
      /\ pc' = [[pc EXCEPT ![i] = "final"] EXCEPT ![Parent] = "running"]
      /\ pc[i] = "resuming" /\ Resume(t, m_awaiting_coroutine)
  BY DEF ResumeAwaiting, Continues, objectVars, counterVars
<1>1. /\ Tasks' = Tasks /\ Tasks \subseteq Children /\ i \in Tasks
  <2>1. i < index /\ index <= size + 1 /\ i \in Nat /\ i >= 1 /\ index \in Nat /\ size \in Nat
    BY <1>0 DEF TasksInOrder, Children, TypeOK
  <2> QED  BY <1>0, <2>1 DEF Tasks, Children, TypeOK
<1>p. /\ \A j \in Children : pc'[j] = IF j = i THEN "final" ELSE pc[j]
      /\ pc'[Parent] = "running"
  BY <1>0 DEF TypeOK
<1>2. /\ m_count = 0 /\ pc[Parent] = "awaiting"
      /\ \A j \in Tasks : pc[j] = "resuming" => j = i
  BY <1>0, <1>1 DEF LastResumes
<1>3. m_awaiting_coroutine = Parent  BY <1>2 DEF ParentPhases, TypeOK
<1>4. Outstanding = {}
  <2>1. Cardinality(Outstanding) \in Nat /\ (Cardinality(Outstanding) = 0 <=> Outstanding = {})
    BY OutstandingCount
  <2> QED  BY <1>2, <2>1 DEF CountExact
<1>5. \A j \in Tasks : pc'[j] \in {"final", "done"}
  BY <1>1, <1>2, <1>4, <1>p DEF Outstanding
<1>6. TypeOK'
  <2>1. StackTypeOK'  BY <1>0, <1>3, StackTypes DEF TypeOK
  <2> QED  BY <1>0, <1>p, <2>1 DEF TypeOK, ParentLocations, TaskLocations
<1>7. TasksInOrder' /\ ParentPhases'
  <2>1. ASSUME NEW j \in Children PROVE pc'[j] # "initial" <=> j < index'
    <3>1. pc[i] = "resuming"  BY <1>0
    <3>2. CASE j = i
      <4>1. i < index /\ index' = index  BY <1>0 DEF TasksInOrder
      <4>2. pc'[i] = "final"  BY <1>p
      <4> QED  BY <3>2, <4>1, <4>2
    <3>3. CASE j # i
      <4>1. pc'[j] = pc[j]  BY <1>p, <3>3
      <4> QED  BY <1>0, <4>1 DEF TasksInOrder
    <3> QED  BY <3>2, <3>3
  <2>2. m_awaiting_coroutine # Null /\ index = size + 1
    BY <1>2 DEF ParentPhases
  <2>3. ParentPhases'  BY <1>0, <1>p, <2>2 DEF ParentPhases
  <2> QED  BY <2>1, <2>3 DEF TasksInOrder
<1>8. CountExact'
  <2>1. Arrived' = Arrived  BY <1>0, <1>2, <1>p DEF Arrived
  <2>2. \A j \in Tasks :
          pc'[j] \in {"resuming", "final", "done"} <=> pc[j] \in {"resuming", "final", "done"}
    BY <1>0, <1>1, <1>p
  <2> QED  BY <1>0, <2>1, <2>2, CountUntouched
<1>9. LastResumes' /\ JoinAfterAll'
  BY <1>1, <1>5, <1>p DEF LastResumes, JoinAfterAll
<1> QED  BY <1>6, <1>7, <1>8, <1>9

LEMMA NextKeepsIInv == IInv /\ [Next]_vars => IInv'
<1> SUFFICES ASSUME IInv, [Next]_vars PROVE IInv'  OBVIOUS
<1>1. CASE UNCHANGED vars
  <2> USE <1>1 DEF vars, objectVars, counterVars, IInv
  <2>1. TypeOK' /\ TasksInOrder' /\ ParentPhases'
    BY DEF TypeOK, StackTypeOK, TasksInOrder, ParentPhases
  <2>2. LastResumes' /\ JoinAfterAll'  BY DEF LastResumes, JoinAfterAll, Tasks
  <2>3. Arrived' = Arrived  BY DEF Arrived
  <2> QED  BY <2>1, <2>2, <2>3, CountUntouched
<1>2. ASSUME NEW t \in Threads, TryAwait(t) PROVE IInv'
  BY <1>2, StartTaskKeepsIInv, ParentKeepsIInv, ArriveKeepsIInv DEF TryAwait
<1>3. ASSUME NEW t \in Threads, Client(t) PROVE IInv'
  BY <1>3, CreateKeepsIInv, ParentKeepsIInv DEF Client
<1>4. ASSUME NEW t \in Threads, NEW c \in Coroutines, Enter(t, c) \/ Leave(t, c) PROVE IInv'
  BY <1>4, ClientKeepsIInv
<1>5. ASSUME NEW t \in Threads, NEW i \in Children, Complete(t, i) \/ Final(t, i) PROVE IInv'
  <2>1. i \in Coroutines  BY WhenAllConstants
  <2> QED  BY <1>5, <2>1, ClientKeepsIInv, NotifyKeepsIInv, ResumeKeepsIInv DEF Final
<1>6. ASSUME NEW t \in Threads, NEW c \in Coroutines, NEW d \in Coroutines, Switch(t, c, d)
      PROVE  IInv'
  BY <1>6, SwitchKeepsIInv
<1> QED  BY <1>1, <1>2, <1>3, <1>4, <1>5, <1>6 DEF Next

LEMMA Invariance == Spec => []IInv
<1> QED  BY InitIInv, NextKeepsIInv, PTL DEF Spec

-----------------------------------------------------------------------------
(* when_all is type correct: m_count never underflows.                     *)
THEOREM TypeCorrect == Spec => []TypeOK
<1>1. IInv => TypeOK  BY DEF IInv
<1> QED  BY <1>1, Invariance, PTL

(* m_count is the number of tasks that have not notified the counter, plus *)
(* one until the awaiting coroutine has arrived.                           *)
THEOREM Counts == Spec => []CountExact
<1>1. IInv => CountExact  BY DEF IInv
<1> QED  BY <1>1, Invariance, PTL

(* Nobody uses the awaitable or one of its tasks after the awaiting        *)
(* coroutine has destroyed them.                                           *)
THEOREM MemorySafe == Spec => []NoUseAfterFree
<1>1. IInv => NoUseAfterFree
  <2> SUFFICES ASSUME IInv, NEW i \in Tasks,
                      pc[i] \in {"running", "parked", "completing", "resuming"}
               PROVE  pc[Parent] \in {"starting", "arriving", "awaiting"}
    BY DEF IInv, ParentPhases, NoUseAfterFree
  <2>1. i \in Children /\ index # 1
    BY WhenAllConstants DEF IInv, TypeOK, TasksInOrder, Tasks, Children
  <2> QED  BY <2>1 DEF IInv, ParentPhases, JoinAfterAll, TypeOK, ParentLocations
<1> QED  BY <1>1, Invariance, PTL

(* The awaiting coroutine goes on only after all tasks have completed, and *)
(* while it is suspended there is a task that is going to resume it.       *)
THEOREM JoinSound == Spec => [](JoinAfterAll /\ NoLostParent)
<1>1. IInv => JoinAfterAll /\ NoLostParent
  <2> SUFFICES ASSUME IInv, pc[Parent] = "awaiting"
               PROVE  \E i \in Tasks : pc[i] \notin {"initial", "final", "done"}
    BY DEF IInv, NoLostParent
  <2> USE DEF IInv
  <2>1. CASE m_count = 0  BY <2>1 DEF LastResumes
  <2>2. CASE m_count # 0
    <3>1. Outstanding # {}
      <4>1. Arrived  BY DEF Arrived, ParentPhases
      <4> QED  BY <2>2, <4>1, OutstandingCount DEF CountExact
    <3>2. PICK i \in Tasks : i \in Outstanding  BY <3>1 DEF Outstanding
    <3>3. pc[i] # "initial"
      <4>1. i \in Children /\ i < index
        BY WhenAllConstants DEF ParentPhases, Tasks, Children, TypeOK
      <4> QED  BY <4>1 DEF TasksInOrder
    <3> QED  BY <3>2, <3>3 DEF Outstanding
  <2> QED  BY <2>1, <2>2
<1> QED  BY <1>1, Invariance, PTL

-----------------------------------------------------------------------------
(* No coroutine is on two stacks, and none that is suspended is on one.    *)
Active == {c \in Coroutines : pc[c] \notin {"parked", "awaiting", "initial", "done"}}

ActiveStacked == \A t \in Threads : \A i \in 1..Len(stack[t]) : stack[t][i] \in Active

LEMMA NextKeepsStacks ==
  IInv /\ NoDoubleResume /\ ActiveStacked /\ [Next]_vars => NoDoubleResume' /\ ActiveStacked'
<1> SUFFICES ASSUME IInv, NoDoubleResume, ActiveStacked, [Next]_vars
             PROVE  NoDoubleResume' /\ ActiveStacked'
  OBVIOUS
<1>0. TypeOK /\ StackTypeOK  BY DEF IInv, TypeOK
<1>1. CASE UNCHANGED vars
  BY <1>1 DEF vars, NoDoubleResume, ActiveStacked, Active
<1>2. ASSUME NEW t \in Threads, NEW c \in Coroutines,
             \/ UNCHANGED stack /\ Active \subseteq Active'
             \/ Resume(t, c) /\ c \notin Active /\ Active \cup {c} \subseteq Active'
             \/ Running(t, c) /\ Return(t) /\ Active \ {c} \subseteq Active'
             \/ \E b \in Coroutines :
                  /\ Running(t, b) /\ Transfer(t, c)
                  /\ c \notin Active /\ c \in Active' /\ Active \ {b} \subseteq Active'
      PROVE  NoDoubleResume' /\ ActiveStacked'
  BY <1>0, <1>2, StacksFollow DEF ActiveStacked
<1>p. Parent \in Coroutines /\ Children \subseteq Coroutines /\ Parent \notin Children
  BY WhenAllConstants
<1> USE <1>0 DEF TypeOK, Active
<1>3. ASSUME NEW t \in Threads, TryAwait(t) \/ Client(t)
      PROVE  NoDoubleResume' /\ ActiveStacked'
  <2>1. CASE Client(t) \/ StoreAwaiting(t)
    <3>1. UNCHANGED stack /\ Active \subseteq Active'
      BY <1>p, <2>1 DEF Client, StoreAwaiting, Create, Destroy, AwaitReady, Await, Continues
    <3> QED  BY <1>2, <1>p, <3>1
  <2>2. CASE StartTask(t)
    <3>1. index \in Children /\ pc[index] = "initial"
      BY <2>2, WhenAllConstants DEF StartTask, IInv, TasksInOrder, Tasks, Children
    <3>2. Resume(t, index) /\ index \notin Active /\ Active \cup {index} \subseteq Active'
      BY <1>p, <2>2, <3>1 DEF StartTask
    <3> QED  BY <1>2, <1>p, <3>1, <3>2
  <2>3. CASE Arrive(t)
    <3>1. \/ UNCHANGED stack /\ Active \subseteq Active'
          \/ Running(t, Parent) /\ Return(t) /\ Active \ {Parent} \subseteq Active'
      BY <1>p, <2>3 DEF Arrive, Continues
    <3> QED  BY <1>2, <1>p, <3>1
  <2> QED  BY <1>3, <2>1, <2>2, <2>3 DEF TryAwait
<1>4. ASSUME NEW t \in Threads, NEW c \in Coroutines,
             Enter(t, c) \/ Leave(t, c) \/ \E d \in Coroutines : Switch(t, c, d)
      PROVE  NoDoubleResume' /\ ActiveStacked'
  <2>1. CASE Enter(t, c)
    <3>1. Resume(t, c) /\ c \notin Active /\ Active \cup {c} \subseteq Active'
      BY <2>1 DEF Enter
    <3> QED  BY <1>2, <3>1
  <2>2. CASE Leave(t, c)
    <3>1. Running(t, c) /\ Return(t) /\ Active \ {c} \subseteq Active'
      BY <2>2 DEF Leave
    <3> QED  BY <1>2, <3>1
  <2>3. ASSUME NEW d \in Coroutines, Switch(t, c, d)
        PROVE  NoDoubleResume' /\ ActiveStacked'
    <3>1. /\ Running(t, c) /\ Transfer(t, d)
          /\ d \notin Active /\ d \in Active' /\ Active \ {c} \subseteq Active'
      BY <2>3 DEF Switch
    <3> QED  BY <1>2, <3>1
  <2> QED  BY <1>4, <2>1, <2>2, <2>3
<1>5. ASSUME NEW t \in Threads, NEW i \in Children, Complete(t, i) \/ Final(t, i)
      PROVE  NoDoubleResume' /\ ActiveStacked'
  <2>1. CASE Complete(t, i)
    <3>1. UNCHANGED stack /\ Active \subseteq Active'  BY <1>p, <2>1 DEF Complete
    <3> QED  BY <1>2, <1>p, <3>1
  <2>2. CASE Notify(t, i) \/ NotifyReturns(t, i)
    <3>1. \/ UNCHANGED stack /\ Active \subseteq Active'
          \/ Running(t, i) /\ Return(t) /\ Active \ {i} \subseteq Active'
      BY <1>p, <2>2 DEF Notify, NotifyReturns
    <3> QED  BY <1>2, <1>p, <3>1
  <2>3. CASE ResumeAwaiting(t, i)
    <3>1. i \in Tasks
      <4>1. i < index /\ index <= size + 1 /\ i \in Nat /\ i >= 1 /\ index \in Nat /\ size \in Nat
        BY <2>3, WhenAllConstants DEF ResumeAwaiting, IInv, TasksInOrder, Children
      <4> QED  BY <4>1 DEF Tasks
    <3>2. pc[Parent] = "awaiting" /\ m_awaiting_coroutine = Parent
      BY <2>3, <3>1 DEF ResumeAwaiting, IInv, LastResumes, ParentPhases
    <3>3. Resume(t, Parent) /\ Parent \notin Active /\ Active \cup {Parent} \subseteq Active'
      BY <1>p, <2>3, <3>2 DEF ResumeAwaiting, Continues
    <3> QED  BY <1>2, <1>p, <3>3
  <2> QED  BY <1>5, <2>1, <2>2, <2>3 DEF Final
<1> QED  BY <1>1, <1>3, <1>4, <1>5 DEF Next

(* Every task is started once, and the last of them resumes a coroutine    *)
(* that is suspended: the two never both go on.                            *)
THEOREM ResumesSuspended == Spec => []NoDoubleResume
<1>1. Init => NoDoubleResume /\ ActiveStacked
  BY DEF Init, StackInit, NoDoubleResume, ActiveStacked
<1>2. IInv /\ NoDoubleResume /\ ActiveStacked /\ [Next]_vars => NoDoubleResume' /\ ActiveStacked'
  BY NextKeepsStacks
<1> QED  BY <1>1, <1>2, Invariance, PTL DEF Spec

-----------------------------------------------------------------------------
(* A task that has completed, and no other, has an outcome.                *)
OutcomeKept ==
  \A i \in Children :
    outcome[i] # NoOutcome <=> pc[i] \in {"completing", "resuming", "final", "done"}

(* Only forked tasks run.                                                  *)
LEMMA RunningIsForked ==
  ASSUME IInv, NEW i \in Children, pc[i] \in {"running", "completing", "resuming"}
  PROVE  i \in Tasks /\ Phase = "forked"
<1> USE WhenAllConstants DEF IInv, TypeOK, Tasks, Children
<1>1. i < index /\ index # 1  BY DEF TasksInOrder
<1>2. i \in Tasks  BY <1>1
<1>3. pc[Parent] \in {"starting", "arriving", "awaiting"}
  BY <1>1, <1>2 DEF ParentPhases, JoinAfterAll, ParentLocations
<1> QED  BY <1>2, <1>3 DEF Phase

(* The steps of the awaiting coroutine, and those of others, between two   *)
(* outcomes.                                                               *)
LEMMA NextKeepsOutcomes == IInv /\ OutcomeKept /\ [Next]_vars => OutcomeKept'
<1> SUFFICES ASSUME IInv, OutcomeKept, [Next]_vars PROVE OutcomeKept'  OBVIOUS
<1>0. TypeOK  BY DEF IInv
<1> USE WhenAllConstants, <1>0 DEF TypeOK, OutcomeKept
<1>1. CASE UNCHANGED vars  BY <1>1 DEF vars
<1>2. ASSUME NEW t \in Threads, Client(t) PROVE OutcomeKept'
  BY <1>2 DEF Client, Create, Destroy, AwaitReady, Await, Continues
<1>3. ASSUME NEW t \in Threads, StartTask(t) PROVE OutcomeKept'
  <2>1. index \in Children /\ pc[index] = "initial"
    BY <1>3 DEF StartTask, Tasks, Children, IInv, TasksInOrder
  <2> QED  BY <1>3, <2>1 DEF StartTask
<1>4. ASSUME NEW t \in Threads, StoreAwaiting(t) \/ Arrive(t) PROVE OutcomeKept'
  BY <1>4 DEF StoreAwaiting, Arrive, Continues
<1>5. ASSUME NEW t \in Threads, NEW c \in Coroutines,
             Enter(t, c) \/ Leave(t, c) \/ \E d \in Coroutines : Switch(t, c, d)
      PROVE  OutcomeKept'
  BY <1>5 DEF Enter, Leave, Switch
<1>6. ASSUME NEW t \in Threads, NEW i \in Children, Complete(t, i) PROVE OutcomeKept'
  BY <1>6 DEF Complete
<1>7. ASSUME NEW t \in Threads, NEW i \in Children, Notify(t, i) \/ NotifyReturns(t, i)
      PROVE  OutcomeKept'
  BY <1>7 DEF Notify, NotifyReturns
<1>8. ASSUME NEW t \in Threads, NEW i \in Children, ResumeAwaiting(t, i) PROVE OutcomeKept'
  BY <1>8 DEF ResumeAwaiting, Continues
<1> HIDE DEF OutcomeKept
<1> QED  BY <1>1, <1>2, <1>3, <1>4, <1>5, <1>6, <1>7, <1>8 DEF Next, TryAwait, Final

(* The awaiting coroutine goes on, which makes the join.                   *)
LEMMA JoinStep ==
  ASSUME IInv, IInv', OutcomeKept', Phase \in {"forked", "joined"},
         m_awaiting_coroutine' # Null, pc'[Parent] = "running",
         result' \in Collected, UNCHANGED <<size, outcome>>
  PROVE  Join!Next
<1> USE WhenAllConstants
<1>1. Tasks' = Tasks /\ Tasks \subseteq Children /\ size \in 0..N
  BY DEF Tasks, Children, IInv, TypeOK
<1>2. \A i \in Tasks : pc'[i] \in {"final", "done"}  BY <1>1 DEF IInv, JoinAfterAll
<1>3. \A i \in Tasks : outcome[i] \in Values \cup Exceptions
  BY <1>1, <1>2 DEF OutcomeKept, IInv, TypeOK
<1>4. Phase' = "joined"  BY DEF Phase
<1>5. \/ result' = [i \in Tasks |-> outcome[i]] /\ \A i \in Tasks : outcome[i] \in Values
      \/ result' \in {outcome[i] : i \in Tasks} \cap Exceptions
  <2>1. CASE Failed = {}
    BY <1>3, <2>1 DEF Collected, Failed
  <2>2. CASE Failed # {}
    BY <2>2 DEF Collected, Failed
  <2> QED  BY <2>1, <2>2
<1>6. Join!Join  BY <1>3, <1>4, <1>5 DEF Join!Join, Tasks
<1> QED  BY <1>6 DEF Join!Next

LEMMA StepImplements ==
  IInv /\ IInv' /\ OutcomeKept /\ OutcomeKept' /\ [Next]_vars => [Join!Next]_Join!vars
<1> SUFFICES ASSUME IInv, IInv', OutcomeKept, OutcomeKept', [Next]_vars
             PROVE  [Join!Next]_Join!vars
  OBVIOUS
<1>0. TypeOK  BY DEF IInv
<1> USE WhenAllConstants, <1>0 DEF TypeOK
<1>1. ASSUME UNCHANGED <<size, outcome, result, m_awaiting_coroutine>>,
             \/ pc'[Parent] = pc[Parent]
             \/ pc[Parent] \in {"running", "parked"} /\ pc'[Parent] \in {"running", "parked"}
      PROVE  UNCHANGED Join!vars
  BY <1>1 DEF Join!vars, Phase
<1>2. CASE UNCHANGED vars
  BY <1>1, <1>2 DEF vars, objectVars, counterVars
<1>3. ASSUME NEW t \in Threads, NEW n \in 0..N, Create(t, n) PROVE Join!Next
  <2>1. Phase = "idle" /\ Phase' = "idle"  BY <1>3 DEF Create, Phase
  <2>2. Join!Choose  BY <1>3, <2>1 DEF Create, Join!Choose
  <2> QED  BY <2>2 DEF Join!Next
<1>4. ASSUME NEW t \in Threads, Destroy(t) PROVE UNCHANGED Join!vars
  BY <1>1, <1>4 DEF Destroy, counterVars
<1>5. ASSUME NEW t \in Threads, AwaitReady(t) PROVE Join!Next
  <2>1. Phase = "joined"  BY <1>5 DEF AwaitReady, Phase
  <2> QED  BY <1>5, <2>1, JoinStep DEF AwaitReady, Continues, objectVars, counterVars
<1>6. ASSUME NEW t \in Threads, Await(t) PROVE Join!Next
  <2>1. Phase = "idle" /\ Phase' = "forked"  BY <1>6 DEF Await, Phase
  <2>2. Join!Fork  BY <1>6, <2>1 DEF Await, Join!Fork, objectVars
  <2> QED  BY <2>2 DEF Join!Next
<1>7. ASSUME NEW t \in Threads, StartTask(t) PROVE UNCHANGED Join!vars
  <2>1. index \in Children  BY <1>7 DEF StartTask, Tasks, Children
  <2>2. pc'[Parent] = pc[Parent]  BY <1>7, <2>1 DEF StartTask
  <2> QED  BY <1>1, <1>7, <2>2 DEF StartTask, objectVars, counterVars
<1>8. ASSUME NEW t \in Threads, StoreAwaiting(t) PROVE UNCHANGED Join!vars
  BY <1>8 DEF StoreAwaiting, objectVars, Join!vars, Phase
<1>9. ASSUME NEW t \in Threads, Arrive(t) PROVE [Join!Next]_Join!vars
  <2>1. Phase = "forked" /\ m_awaiting_coroutine # Null /\ UNCHANGED <<size, outcome, m_awaiting_coroutine>>
    BY <1>9 DEF Arrive, Phase, objectVars, IInv, ParentPhases
  <2>2. CASE m_count > 1
    BY <1>9, <2>1, <2>2 DEF Arrive, Join!vars, Phase
  <2>3. CASE ~(m_count > 1)
    BY <1>9, <2>1, <2>3, JoinStep DEF Arrive, Continues
  <2> QED  BY <2>2, <2>3
<1>10. ASSUME NEW t \in Threads, NEW c \in Coroutines,
              Enter(t, c) \/ Leave(t, c) \/ \E d \in Coroutines : Switch(t, c, d)
       PROVE  UNCHANGED Join!vars
  BY <1>1, <1>10 DEF Enter, Leave, Switch, objectVars, counterVars
<1>11. ASSUME NEW t \in Threads, NEW i \in Children, Complete(t, i) PROVE Join!Next
  <2>1. i \in Tasks /\ Phase = "forked"  BY <1>11, RunningIsForked DEF Complete
  <2>2. pc'[Parent] = pc[Parent]  BY <1>11 DEF Complete
  <2>3. Phase' = Phase  BY <1>11, <2>2 DEF Complete, counterVars, Phase
  <2>4. outcome[i] = NoOutcome  BY <1>11 DEF Complete, OutcomeKept
  <2>5. Join!Finish(i)  BY <1>11, <2>1, <2>3, <2>4 DEF Complete, Join!Finish, objectVars
  <2> QED  BY <2>1, <2>5 DEF Join!Next, Tasks
<1>12. ASSUME NEW t \in Threads, NEW i \in Children, Notify(t, i) \/ NotifyReturns(t, i)
       PROVE  UNCHANGED Join!vars
  BY <1>1, <1>12 DEF Notify, NotifyReturns, objectVars, counterVars
<1>13. ASSUME NEW t \in Threads, NEW i \in Children, ResumeAwaiting(t, i) PROVE Join!Next
  <2>1. i \in Tasks /\ Phase = "forked"  BY <1>13, RunningIsForked DEF ResumeAwaiting
  <2>2. m_awaiting_coroutine # Null
    BY <1>13, <2>1 DEF ResumeAwaiting, IInv, LastResumes, ParentPhases
  <2>3. pc'[Parent] = "running"  BY <1>13 DEF ResumeAwaiting, Continues
  <2> QED
    BY <1>13, <2>1, <2>2, <2>3, JoinStep DEF ResumeAwaiting, Continues, objectVars, counterVars
<1> HIDE DEF TypeOK
<1> QED
  BY <1>2, <1>3, <1>4, <1>5, <1>6, <1>7, <1>8, <1>9, <1>10, <1>11, <1>12, <1>13
  DEF Next, TryAwait, Client, Final

(* when_all joins its tasks after the last of them, on whatever thread     *)
(* that is, with all their values or one of their exceptions.              *)
THEOREM Implements == Spec => ImplementsForkJoin
<1>1. Init => Join!Init /\ OutcomeKept
  BY WhenAllConstants DEF Init, Join!Init, Phase, OutcomeKept, Children
<1> QED
  BY <1>1, NextKeepsOutcomes, StepImplements, Invariance, PTL DEF Spec, ImplementsForkJoin, Join!Spec
=============================================================================
