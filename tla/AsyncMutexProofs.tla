-------------------------- MODULE AsyncMutexProofs --------------------------
(***************************************************************************)
(* Every action of AsyncMutex preserves IInv (one lemma per group of       *)
(* actions with the same effect on the lists), so IInv is an invariant and *)
(* implies the safety properties.  The second part adds the guards of      *)
(* AsyncMutexLock, with GuardInv for IInv.  The third shows that the mutex *)
(* is a first-come-first-served lock, by the order of its lists.           *)
(***************************************************************************)
EXTENDS AsyncMutexFifo, AsyncMutexLock, CoroutineRuntimeProofs, FiniteSetTheorems

LEMMA InitIInv == Init => IInv
<1> SUFFICES ASSUME Init PROVE IInv  OBVIOUS
<1> USE MutexConstants DEF Init, Holders, Holding, Queued
<1>1. TypeOK  BY DEF TypeOK, Pointer, Locations, StackTypeOK, StackInit
<1>2. MutualExclusion  BY DEF MutualExclusion
<1>3. LockedIffHeld  BY DEF LockedIffHeld
<1>4. UnlockPhases  BY DEF UnlockPhases
<1>5. WaitersOnly  BY DEF WaitersOnly
<1>6. NoSharedWaiter  BY DEF NoSharedWaiter
<1>7. NoLostWaiter  BY DEF NoLostWaiter
<1> QED  BY <1>1, <1>2, <1>3, <1>4, <1>5, <1>6, <1>7 DEF IInv

(* Coroutines that come and go, with or without the lock.                  *)
LEMMA ClientKeepsIInv ==
  ASSUME IInv, NEW t \in Threads, NEW c \in Coroutines,
         Enter(t, c) \/ Leave(t, c) \/ LockAsync(t, c) \/ UnlockReturns(t, c)
  PROVE  IInv'
<1> USE MutexConstants DEF IInv, Holders, Holding, Queued
<1>0. Holders' = Holders /\ Queued' = Queued
  BY DEF Enter, Leave, LockAsync, UnlockReturns, TypeOK
<1>1. TypeOK'
  <2>1. StackTypeOK'  BY StackTypes DEF TypeOK, Enter, Leave, LockAsync, UnlockReturns
  <2> QED  BY <2>1 DEF TypeOK, Enter, Leave, LockAsync, UnlockReturns, Pointer, Locations
<1>u. UNCHANGED <<m_state, m_waiters, m_next, waitersHead, next>>
  BY DEF Enter, Leave, LockAsync, UnlockReturns
<1>2. MutualExclusion'  BY <1>0 DEF MutualExclusion
<1>3. LockedIffHeld'  BY <1>0, <1>u DEF LockedIffHeld
<1>4. UnlockPhases'
  BY DEF UnlockPhases, Enter, Leave, LockAsync, UnlockReturns, TypeOK
<1>5. WaitersOnly'  BY <1>0, <1>u DEF WaitersOnly
<1>6. NoSharedWaiter'  BY <1>0, <1>u DEF NoSharedWaiter
<1>7. NoLostWaiter'  BY <1>0, <1>u DEF NoLostWaiter, Heads
<1> QED  BY <1>1, <1>2, <1>3, <1>4, <1>5, <1>6, <1>7 DEF IInv

LEMMA SwitchKeepsIInv ==
  ASSUME IInv, NEW t \in Threads, NEW c \in Coroutines, NEW d \in Coroutines, Switch(t, c, d)
  PROVE  IInv'
<1> USE MutexConstants DEF IInv, Switch
<1>0. /\ pc[c] \in {"running", "critical"} /\ pc[d] \in {"parked", "away"}
      /\ pc'[c] = IF pc[c] = "running" THEN "parked" ELSE "away"
      /\ pc'[d] = IF pc[d] = "parked" THEN "running" ELSE "critical"
      /\ \A e \in Coroutines : e # c /\ e # d => pc'[e] = pc[e]
      /\ UNCHANGED <<m_state, m_waiters, m_next, oldState, waitersHead, next>>
  BY DEF TypeOK
<1>p. ASSUME NEW e \in Coroutines
      PROVE  \/ pc'[e] = pc[e]
             \/ pc[e] \in {"running", "parked"} /\ pc'[e] \in {"running", "parked"}
             \/ pc[e] \in {"critical", "away"} /\ pc'[e] \in {"critical", "away"}
  <2>1. CASE e = c  BY <1>0, <2>1
  <2>2. CASE e = d  BY <1>0, <2>2
  <2> QED  BY <1>0, <2>1, <2>2
<1>1. TypeOK'
  <2>1. StackTypeOK'  BY StackTypes DEF TypeOK
  <2>2. pc' \in [Coroutines -> Locations]  BY DEF TypeOK, Locations
  <2> QED  BY <2>1, <2>2 DEF TypeOK
<1>2. Holders' = Holders /\ Queued' = Queued
  BY <1>p DEF Holders, Holding, Queued
<1>3. MutualExclusion' /\ LockedIffHeld'  BY <1>2 DEF MutualExclusion, LockedIffHeld
<1>4. UnlockPhases'
  <2>1. UnlockPhases /\ UNCHANGED <<m_state, m_waiters, waitersHead, next>>  BY <1>0
  <2> QED  BY <1>p, <2>1 DEF UnlockPhases
<1>5. WaitersOnly' /\ NoSharedWaiter'  BY <1>2 DEF WaitersOnly, NoSharedWaiter
<1>6. NoLostWaiter'  BY <1>2 DEF NoLostWaiter, Heads
<1> QED  BY <1>1, <1>3, <1>4, <1>5, <1>6

(* The lock is taken free, by either operation.                            *)
LEMMA AcquireKeepsIInv ==
  ASSUME IInv, NEW t \in Threads, NEW c \in Coroutines,
         TryLock(t, c) \/ AwaitAcquire(t, c)
  PROVE  IInv'
<1> USE MutexConstants DEF IInv
<1>1. TypeOK'
  <2>1. StackTypeOK'  BY StackTypes DEF TypeOK, TryLock, AwaitAcquire
  <2> QED  BY <2>1 DEF TypeOK, TryLock, AwaitAcquire, Pointer, Locations, LockedNoWaiters
<1>u. UNCHANGED <<m_waiters, m_next, waitersHead, next>>
  BY DEF TryLock, AwaitAcquire
<1>q. Queued' = Queued
  BY DEF TryLock, AwaitAcquire, Queued, TypeOK
<1>a. CASE UNCHANGED <<m_state, pc>>
  <2>1. Holders' = Holders  BY <1>a DEF Holders
  <2>2. MutualExclusion' /\ LockedIffHeld'  BY <1>a, <1>u, <2>1 DEF MutualExclusion, LockedIffHeld
  <2>3. UnlockPhases'  BY <1>a, <1>u DEF UnlockPhases
  <2>4. WaitersOnly' /\ NoSharedWaiter'  BY <1>a, <1>u, <1>q DEF WaitersOnly, NoSharedWaiter
  <2>5. NoLostWaiter'  BY <1>a, <1>u, <1>q DEF NoLostWaiter, Heads
  <2> QED  BY <1>1, <2>2, <2>3, <2>4, <2>5 DEF IInv
<1>b. CASE m_state = NotLocked /\ m_state' = LockedNoWaiters /\ pc' = [pc EXCEPT ![c] = "critical"]
  <2>0. pc[c] \in {"running", "locking"}  BY DEF TryLock, AwaitAcquire
  <2>1. Holders = {} /\ Holders' = {c}
    BY <1>b DEF LockedIffHeld, Holders, Holding, TypeOK
  <2>2. MutualExclusion'  BY <2>1 DEF MutualExclusion
  <2>3. LockedIffHeld'  BY <1>b, <2>1 DEF LockedIffHeld, LockedNoWaiters
  <2>4. UnlockPhases'  BY <1>b, <1>u, <2>0, <2>1 DEF UnlockPhases, TypeOK, Holders, Holding
  <2>5. WaitersOnly'  BY <1>b, <1>u, <1>q DEF WaitersOnly
  <2>6. NoSharedWaiter'  BY <1>b, <1>u, <1>q DEF NoSharedWaiter, LockedNoWaiters
  <2>7. NoLostWaiter'
    <3> SUFFICES ASSUME NEW lost \in SUBSET Queued, lost # {}
                 PROVE  \E w \in lost : w \in Heads' \/ \E d \in Queued \ lost : m_next[d] = w
      BY <1>q, <1>u DEF NoLostWaiter
    <3>1. PICK w \in lost : w \in Heads \/ \E d \in Queued \ lost : m_next[d] = w
      BY DEF NoLostWaiter
    <3>2. w # NotLocked  BY DEF Queued
    <3> QED  BY <1>b, <1>u, <3>1, <3>2 DEF Heads
  <2> QED  BY <1>1, <2>2, <2>3, <2>4, <2>5, <2>6, <2>7 DEF IInv
<1> QED  BY <1>a, <1>b DEF TryLock, AwaitAcquire

(* A waiter joins the list, or the compare_exchange fails and is retried.  *)
LEMMA EnqueueKeepsIInv ==
  ASSUME IInv, NEW t \in Threads, NEW c \in Coroutines, AwaitEnqueue(t, c)
  PROVE  IInv'
<1> USE MutexConstants DEF IInv
<1>0. pc[c] = "locking" /\ m_next' = [m_next EXCEPT ![c] = oldState[c]]
      /\ UNCHANGED <<m_waiters, waitersHead, next>> /\ oldState[c] # NotLocked
  BY DEF AwaitEnqueue
<1>1. TypeOK'
  <2>1. StackTypeOK'  BY StackTypes DEF TypeOK, AwaitEnqueue
  <2> QED  BY <2>1 DEF TypeOK, AwaitEnqueue, Pointer, Locations
<1>n. \A d \in Coroutines : d # c => m_next'[d] = m_next[d]  BY <1>0 DEF TypeOK
<1>a. CASE UNCHANGED <<m_state, pc>>
  <2>1. Holders' = Holders /\ Queued' = Queued /\ c \notin Queued  BY <1>0, <1>a DEF Holders, Queued
  <2>2. MutualExclusion' /\ LockedIffHeld'  BY <1>0, <1>a, <2>1 DEF MutualExclusion, LockedIffHeld
  <2>3. UnlockPhases'  BY <1>a, <1>0 DEF UnlockPhases
  <2>n. \A d \in Queued : d \in Coroutines /\ m_next'[d] = m_next[d]
    BY <1>n, <2>1 DEF Queued
  <2>4. WaitersOnly'  BY <1>a, <1>0, <2>1, <2>n DEF WaitersOnly
  <2>5. NoSharedWaiter'  BY <1>a, <1>0, <2>1, <2>n DEF NoSharedWaiter
  <2>6. NoLostWaiter'  BY <1>a, <1>0, <2>1, <2>n DEF NoLostWaiter, Heads
  <2> QED  BY <1>1, <2>2, <2>3, <2>4, <2>5, <2>6 DEF IInv
<1>b. CASE m_state = oldState[c] /\ m_state' = c /\ pc' = [pc EXCEPT ![c] = "queued"]
  <2>1. Holders' = Holders  BY <1>0, <1>b DEF Holders, Holding, TypeOK
  <2>2. c \notin Queued /\ Queued' = Queued \cup {c} /\ Queued \subseteq Coroutines
    BY <1>0, <1>b DEF Queued, TypeOK
  <2>3. MutualExclusion'  BY <2>1 DEF MutualExclusion
  <2>4. LockedIffHeld'  BY <1>0, <1>b, <2>1 DEF LockedIffHeld
  <2>5. UnlockPhases'  BY <1>0, <1>b DEF UnlockPhases, TypeOK, LockedNoWaiters
  <2>n. m_next'[c] = m_state /\ \A d \in Queued : m_next'[d] = m_next[d]
    BY <1>0, <1>b, <1>n, <2>2 DEF TypeOK
  <2>6. WaitersOnly'  BY <1>0, <1>b, <2>2, <2>n DEF WaitersOnly, LockedNoWaiters
  <2>7. NoSharedWaiter'
    <3>1. \A d \in Coroutines : c \notin {m_waiters, waitersHead[d], next[d]}
          /\ (d \in Queued => c # m_next[d])
      BY <2>2 DEF WaitersOnly
    <3>2. m_state \in Coroutines =>
            /\ m_waiters # m_state
            /\ \A d \in Coroutines : m_state \notin {waitersHead[d], next[d]}
            /\ \A d \in Queued : m_next[d] # m_state
      BY DEF NoSharedWaiter
    <3>3. \A d \in Coroutines :
            /\ waitersHead[d] \in Coroutines => waitersHead[d] \notin {c, m_waiters, next[d]}
            /\ next[d] \in Coroutines => next[d] \notin {c, m_waiters}
      BY <3>1 DEF NoSharedWaiter
    <3>4. ASSUME NEW q \in Queued, m_next[q] \in Coroutines
          PROVE  /\ m_next[q] \notin {c, m_waiters, m_state}
                 /\ \A d \in Coroutines : m_next[q] \notin {waitersHead[d], next[d]}
                 /\ \A d \in Queued : m_next[d] = m_next[q] => d = q
      BY <2>2, <3>1, <3>4 DEF NoSharedWaiter
    <3>5. m_waiters \in Coroutines => m_waiters # c
      BY <3>1
    <3>6. ASSUME NEW q \in Queued', m_next'[q] \in Coroutines
          PROVE  /\ m_next'[q] \notin {m_state', m_waiters}
                 /\ \A d \in Coroutines : m_next'[q] \notin {waitersHead[d], next[d]}
                 /\ \A d \in Queued' : m_next'[d] = m_next'[q] => d = q
      <4>1. CASE q = c
        <5>1. m_state # c  BY <2>2 DEF WaitersOnly, LockedNoWaiters
        <5> QED  BY <4>1, <1>b, <2>2, <2>n, <3>2, <3>6, <5>1
      <4>2. CASE q # c  BY <4>2, <1>b, <2>2, <2>n, <3>2, <3>4, <3>6
      <4> QED  BY <4>1, <4>2
    <3> QED  BY <1>0, <1>b, <3>3, <3>5, <3>6 DEF NoSharedWaiter
  <2>8. NoLostWaiter'
    <3> SUFFICES ASSUME NEW lost \in SUBSET Queued', lost # {}
                 PROVE  \E w \in lost : w \in Heads' \/ \E d \in Queued' \ lost : m_next'[d] = w
      BY DEF NoLostWaiter
    <3>1. CASE c \in lost  BY <1>b, <3>1 DEF Heads
    <3>2. CASE c \notin lost
      <4>1. PICK w \in lost : w \in Heads \/ \E d \in Queued \ lost : m_next[d] = w
        BY <2>2, <3>2 DEF NoLostWaiter
      <4>2. CASE w = m_state  BY <2>2, <2>n, <3>2, <4>2
      <4>3. CASE w \in Heads /\ w # m_state  BY <1>0, <4>3 DEF Heads
      <4>4. CASE \E d \in Queued \ lost : m_next[d] = w  BY <2>2, <2>n, <4>4
      <4> QED  BY <4>1, <4>2, <4>3, <4>4
    <3> QED  BY <3>1, <3>2
  <2> QED  BY <1>1, <2>3, <2>4, <2>5, <2>6, <2>7, <2>8 DEF IInv
<1> QED  BY <1>a, <1>b DEF AwaitEnqueue

(* unlock without a list: the lock is released, or new waiters are noticed.*)
LEMMA ReleaseKeepsIInv ==
  ASSUME IInv, NEW t \in Threads, NEW c \in Coroutines, UnlockRelease(t, c)
  PROVE  IInv'
<1> USE MutexConstants DEF IInv
<1>0. pc[c] = "critical" /\ m_waiters = Null /\ UNCHANGED <<m_waiters, m_next, waitersHead, next>>
  BY DEF UnlockRelease
<1>1. TypeOK'
  <2>1. StackTypeOK'  BY StackTypes DEF TypeOK, UnlockRelease
  <2> QED  BY <2>1 DEF TypeOK, UnlockRelease, Pointer, Locations
<1>2. Queued' = Queued  BY <1>0 DEF UnlockRelease, Queued, TypeOK
<1>3. Holders = {c}  BY <1>0 DEF MutualExclusion, Holders, Holding
<1>4. Holders' \subseteq {c}  BY <1>3 DEF UnlockRelease, Holders, Holding, TypeOK
<1>5. MutualExclusion'  BY <1>4 DEF MutualExclusion
<1>6. LockedIffHeld'
  BY <1>0, <1>3 DEF LockedIffHeld, UnlockRelease, Holders, Holding, TypeOK, LockedNoWaiters
<1>7. UnlockPhases'
  BY <1>0, <1>3 DEF UnlockPhases, UnlockRelease, TypeOK, LockedNoWaiters, Holders, Holding
<1>8. WaitersOnly'  BY <1>0, <1>2 DEF WaitersOnly, UnlockRelease
<1>9. NoSharedWaiter'  BY <1>0, <1>2 DEF NoSharedWaiter, UnlockRelease
<1>10. NoLostWaiter'
  <2> SUFFICES ASSUME NEW lost \in SUBSET Queued, lost # {}
               PROVE  \E w \in lost : w \in Heads' \/ \E d \in Queued \ lost : m_next[d] = w
    BY <1>0, <1>2 DEF NoLostWaiter
  <2>1. PICK w \in lost : w \in Heads \/ \E d \in Queued \ lost : m_next[d] = w
    BY DEF NoLostWaiter
  <2>2. w # LockedNoWaiters  BY DEF Queued, LockedNoWaiters
  <2> QED  BY <1>0, <2>1, <2>2 DEF Heads, UnlockRelease
<1> QED  BY <1>1, <1>5, <1>6, <1>7, <1>8, <1>9, <1>10 DEF IInv

(* The new waiters become a private list of the holder.                    *)
LEMMA TakeKeepsIInv ==
  ASSUME IInv, NEW t \in Threads, NEW c \in Coroutines, TakeNewWaiters(t, c)
  PROVE  IInv'
<1> USE MutexConstants DEF IInv
<1>0. /\ pc[c] = "takeover" /\ pc' = [pc EXCEPT ![c] = "reversing"]
      /\ m_state' = LockedNoWaiters /\ next' = [next EXCEPT ![c] = m_state]
      /\ UNCHANGED <<m_waiters, m_next, oldState, waitersHead, stack>>
  BY DEF TakeNewWaiters
<1>1. Queued' = Queued /\ Holders' = Holders /\ Holders = {c}
  BY <1>0 DEF Queued, Holders, Holding, TypeOK, MutualExclusion
<1>2. m_state \in Queued /\ Queued \subseteq Coroutines
  BY <1>0, <1>1 DEF LockedIffHeld, UnlockPhases, WaitersOnly, Queued
<1>3. \A d \in Coroutines : waitersHead[d] = Null /\ next[d] = Null
  BY <1>0, <1>1 DEF UnlockPhases, Holders, Holding, TypeOK
<1>4. m_waiters = Null  BY <1>0 DEF UnlockPhases
<1>5. \A d \in Coroutines : next'[d] = IF d = c THEN m_state ELSE Null
  BY <1>0, <1>3 DEF TypeOK
<1>6. TypeOK'
  <2>1. StackTypeOK'  BY <1>0, StackTypes DEF TypeOK
  <2> QED  BY <1>0, <1>2, <2>1 DEF TypeOK, Pointer, Locations, LockedNoWaiters
<1>7. MutualExclusion'  BY <1>1 DEF MutualExclusion
<1>8. LockedIffHeld'  BY <1>0, <1>1 DEF LockedIffHeld, LockedNoWaiters
<1>9. UnlockPhases'
  BY <1>0, <1>1, <1>2, <1>3, <1>4, <1>5 DEF UnlockPhases, TypeOK, Holders, Holding
<1>10. WaitersOnly'  BY <1>0, <1>1, <1>2, <1>5 DEF WaitersOnly
<1>11. NoSharedWaiter'
  BY <1>0, <1>1, <1>2, <1>3, <1>4, <1>5 DEF NoSharedWaiter, LockedNoWaiters
<1>12. NoLostWaiter'
  <2> SUFFICES ASSUME NEW lost \in SUBSET Queued, lost # {}
               PROVE  \E w \in lost : w \in Heads' \/ \E d \in Queued \ lost : m_next[d] = w
    BY <1>0, <1>1 DEF NoLostWaiter
  <2>1. PICK w \in lost : w \in Heads \/ \E d \in Queued \ lost : m_next[d] = w
    BY DEF NoLostWaiter
  <2>2. w \in Coroutines  BY <1>2
  <2>3. w \in Heads => w = m_state  BY <1>3, <1>4, <2>2 DEF Heads
  <2>4. m_state \in Heads'  BY <1>5 DEF Heads
  <2> QED  BY <2>1, <2>3, <2>4
<1> QED  BY <1>6, <1>7, <1>8, <1>9, <1>10, <1>11, <1>12 DEF IInv

(* One waiter moves from the new list to the front of the reversed one.    *)
LEMMA ReverseKeepsIInv ==
  ASSUME IInv, NEW t \in Threads, NEW c \in Coroutines, ReverseStep(t, c)
  PROVE  IInv'
<1> USE MutexConstants DEF IInv
<1> DEFINE n == next[c]  h == waitersHead[c]  x == m_next[n]
<1>0. /\ pc[c] = "reversing" /\ pc' = [pc EXCEPT ![c] = IF x = Null THEN "handoff" ELSE @]
      /\ m_next' = [m_next EXCEPT ![n] = h]
      /\ waitersHead' = [waitersHead EXCEPT ![c] = n]
      /\ next' = [next EXCEPT ![c] = x]
      /\ UNCHANGED <<m_state, m_waiters, oldState, stack>>
  BY DEF ReverseStep
<1>1. Queued' = Queued /\ Holders' = Holders /\ Holders = {c} /\ Queued \subseteq Coroutines
  BY <1>0 DEF Queued, Holders, Holding, TypeOK, MutualExclusion
<1>2. n \in Queued /\ x \in Queued \cup {Null} /\ h \in Queued \cup {Null}
  BY <1>0, <1>1 DEF UnlockPhases, WaitersOnly
<1>3. m_waiters = Null /\ \A d \in Coroutines : d # c => waitersHead[d] = Null /\ next[d] = Null
  BY <1>0, <1>1 DEF UnlockPhases, Holders, Holding, TypeOK
<1>4. \A d \in Coroutines :
        /\ waitersHead'[d] = IF d = c THEN n ELSE Null
        /\ next'[d] = IF d = c THEN x ELSE Null
        /\ m_next'[d] = IF d = n THEN h ELSE m_next[d]
  BY <1>0, <1>1, <1>2, <1>3 DEF TypeOK
<1>5. /\ n # m_state /\ n # h /\ n # x /\ \A d \in Queued : m_next[d] # n
      /\ h # Null => h # m_state /\ h # x /\ \A d \in Queued : m_next[d] # h
      /\ x # Null => x # m_state /\ \A d \in Queued : m_next[d] = x => d = n
  BY <1>1, <1>2 DEF NoSharedWaiter
<1>6. TypeOK'
  <2>1. StackTypeOK'  BY <1>0, StackTypes DEF TypeOK
  <2> QED  BY <1>0, <1>1, <1>2, <2>1 DEF TypeOK, Pointer, Locations
<1>7. MutualExclusion'  BY <1>1 DEF MutualExclusion
<1>8. LockedIffHeld'  BY <1>0, <1>1 DEF LockedIffHeld
<1>9. UnlockPhases'
  BY <1>0, <1>1, <1>2, <1>3, <1>4 DEF UnlockPhases, TypeOK, Holders, Holding
<1>10. WaitersOnly'
  BY <1>0, <1>1, <1>2, <1>4 DEF WaitersOnly
<1>11. NoSharedWaiter'
  <2>1. \A d \in Queued : m_next[d] \in Coroutines =>
          m_next[d] # m_state /\ \A e \in Queued : m_next[e] = m_next[d] => e = d
    BY <1>1 DEF NoSharedWaiter
  <2>2. \A d \in Queued : m_next'[d] \in Coroutines =>
          /\ m_next'[d] \notin {m_state, n, x}
          /\ \A e \in Queued : m_next'[e] = m_next'[d] => e = d
    BY <1>1, <1>2, <1>4, <1>5, <2>1
  <2> QED
    BY <1>0, <1>1, <1>2, <1>3, <1>4, <1>5, <2>2 DEF NoSharedWaiter
<1>12. NoLostWaiter'
  <2> SUFFICES ASSUME NEW lost \in SUBSET Queued, lost # {}
               PROVE  \E w \in lost : w \in Heads' \/ \E d \in Queued \ lost : m_next'[d] = w
    BY <1>1 DEF NoLostWaiter
  <2>h. n \in Heads' /\ x \in Heads' /\ m_state \in Heads'  BY <1>0, <1>4 DEF Heads
  <2>1. PICK w \in lost : w \in Heads \/ \E d \in Queued \ lost : m_next[d] = w
    BY DEF NoLostWaiter
  <2>2. CASE n \in lost  BY <2>2, <2>h
  <2>3. CASE n \notin lost
    <3>1. w \in Coroutines /\ w # n  BY <1>1, <2>3
    <3>2. w \in Heads => w = m_state \/ w = h  BY <1>1, <1>3, <3>1 DEF Heads
    <3>3. CASE w = h  BY <1>1, <1>2, <1>4, <2>3, <3>3
    <3>4. CASE \E d \in Queued \ lost : m_next[d] = w
      <4>1. PICK d \in Queued \ lost : m_next[d] = w  BY <3>4
      <4>2. CASE d = n  BY <2>h, <4>1, <4>2
      <4>3. CASE d # n  BY <1>1, <1>4, <4>1, <4>3
      <4> QED  BY <4>2, <4>3
    <3> QED  BY <2>1, <2>h, <3>2, <3>3, <3>4
  <2> QED  BY <2>2, <2>3
<1> QED  BY <1>6, <1>7, <1>8, <1>9, <1>10, <1>11, <1>12 DEF IInv

(* The first waiter of a list leaves it and becomes the owner.             *)
LEMMA HandOffKeepsIInv ==
  ASSUME IInv, NEW t \in Threads, NEW c \in Coroutines, NEW w, HandOff(t, c, w),
         \/ pc[c] = "critical" /\ w = m_waiters /\ m_waiters # Null
         \/ pc[c] = "handoff" /\ w = waitersHead[c]
  PROVE  IInv'
<1> USE MutexConstants DEF IInv
<1> DEFINE x == m_next[w]
<1>1. Holders = {c} /\ Queued \subseteq Coroutines
  BY DEF Queued, Holders, Holding, TypeOK, MutualExclusion
<1>2. w \in Queued /\ x \in Queued \cup {Null} /\ w # c /\ c \notin Queued
  BY <1>1 DEF UnlockPhases, WaitersOnly, Queued
<1>0. /\ m_waiters' = x
      /\ m_next' = [m_next EXCEPT ![w] = Null]
      /\ waitersHead' = [waitersHead EXCEPT ![c] = Null]
      /\ pc' = [pc EXCEPT ![c] = "resuming", ![w] = "critical"]
      /\ UNCHANGED <<m_state, oldState, next>>
  BY DEF HandOff
<1>3. Queued' = Queued \ {w} /\ Holders' = {w}
  BY <1>0, <1>1, <1>2 DEF Queued, Holders, Holding, TypeOK
<1>4. \A d \in Coroutines :
        /\ next[d] = Null
        /\ waitersHead[d] = IF d = c /\ pc[c] = "handoff" THEN w ELSE Null
        /\ waitersHead'[d] = Null
        /\ m_next'[d] = IF d = w THEN Null ELSE m_next[d]
  BY <1>0, <1>1 DEF UnlockPhases, Holders, Holding, TypeOK
<1>5. m_waiters \in {w, Null}  BY DEF UnlockPhases
<1>6. /\ w # m_state /\ w # x /\ \A d \in Queued : m_next[d] # w
      /\ x # Null => x # m_state /\ \A d \in Queued : m_next[d] = x => d = w
  BY <1>1, <1>2 DEF NoSharedWaiter
<1>7. TypeOK'
  <2>1. StackTypeOK'  BY <1>1, <1>2, StackTypes DEF TypeOK, HandOff
  <2> QED  BY <1>0, <1>1, <1>2, <2>1 DEF TypeOK, Pointer, Locations
<1>8. MutualExclusion'  BY <1>3 DEF MutualExclusion
<1>9. LockedIffHeld'  BY <1>0, <1>1, <1>3 DEF LockedIffHeld
<1>10. UnlockPhases'
  BY <1>0, <1>1, <1>2, <1>4 DEF UnlockPhases, TypeOK, Holders, Holding
<1>11. WaitersOnly'
  BY <1>0, <1>1, <1>2, <1>3, <1>4, <1>6 DEF WaitersOnly
<1>12. NoSharedWaiter'
  <2>1. \A d \in Queued : m_next[d] \in Coroutines =>
          m_next[d] # m_state /\ \A e \in Queued : m_next[e] = m_next[d] => e = d
    BY <1>1 DEF NoSharedWaiter
  <2>2. \A d \in Queued' : m_next'[d] \in Coroutines =>
          /\ m_next'[d] \notin {m_state, x}
          /\ \A e \in Queued' : m_next'[e] = m_next'[d] => e = d
    BY <1>1, <1>2, <1>3, <1>4, <1>6, <2>1
  <2> QED  BY <1>0, <1>1, <1>3, <1>4, <1>6, <2>2 DEF NoSharedWaiter
<1>13. NoLostWaiter'
  <2> SUFFICES ASSUME NEW lost \in SUBSET Queued', lost # {}
               PROVE  \E v \in lost : v \in Heads' \/ \E d \in Queued' \ lost : m_next'[d] = v
    BY DEF NoLostWaiter
  <2>h. x \in Heads' /\ m_state \in Heads'  BY <1>0 DEF Heads
  <2>1. PICK v \in lost : v \in Heads \/ \E d \in Queued \ lost : m_next[d] = v
    BY <1>3 DEF NoLostWaiter
  <2>2. v \in Coroutines /\ v # w  BY <1>1, <1>3
  <2>3. v \in Heads => v = m_state  BY <1>4, <1>5, <2>2 DEF Heads
  <2>4. CASE \E d \in Queued \ lost : m_next[d] = v
    <3>1. PICK d \in Queued \ lost : m_next[d] = v  BY <2>4
    <3>2. CASE d = w  BY <2>h, <3>1, <3>2
    <3>3. CASE d # w  BY <1>1, <1>3, <1>4, <3>1, <3>3
    <3> QED  BY <3>2, <3>3
  <2> QED  BY <2>1, <2>h, <2>3, <2>4
<1> QED  BY <1>7, <1>8, <1>9, <1>10, <1>11, <1>12, <1>13 DEF IInv

LEMMA StutterKeepsIInv == IInv /\ UNCHANGED vars => IInv'
BY DEF IInv, vars, TypeOK, StackTypeOK, MutualExclusion, LockedIffHeld, UnlockPhases,
       WaitersOnly, NoSharedWaiter, NoLostWaiter, Heads, Holders, Holding, Queued

LEMMA NextKeepsIInv == IInv /\ [Next]_vars => IInv'
<1> SUFFICES ASSUME IInv, [Next]_vars PROVE IInv'  OBVIOUS
<1>1. CASE UNCHANGED vars  BY <1>1, StutterKeepsIInv
<1>2. ASSUME NEW t \in Threads, NEW c \in Coroutines, Library(t, c) \/ Client(t, c)
      PROVE  IInv'
  <2>1. CASE Enter(t, c) \/ Leave(t, c) \/ LockAsync(t, c) \/ UnlockReturns(t, c)
    BY <2>1, ClientKeepsIInv
  <2>2. CASE TryLock(t, c) \/ AwaitAcquire(t, c)  BY <2>2, AcquireKeepsIInv
  <2>3. CASE AwaitEnqueue(t, c)  BY <2>3, EnqueueKeepsIInv
  <2>4. CASE UnlockRelease(t, c)  BY <2>4, ReleaseKeepsIInv
  <2>5. CASE TakeNewWaiters(t, c)  BY <2>5, TakeKeepsIInv
  <2>6. CASE ReverseStep(t, c)  BY <2>6, ReverseKeepsIInv
  <2>7. CASE UnlockHandOff(t, c)  BY <2>7, HandOffKeepsIInv DEF UnlockHandOff
  <2>8. CASE ResumeFirst(t, c)  BY <2>8, HandOffKeepsIInv DEF ResumeFirst
  <2>9. ASSUME NEW d \in Coroutines, Switch(t, c, d) PROVE IInv'
    BY <2>9, SwitchKeepsIInv
  <2> QED
    BY <1>2, <2>1, <2>2, <2>3, <2>4, <2>5, <2>6, <2>7, <2>8, <2>9 DEF Library, Client, Unlock
<1> QED  BY <1>1, <1>2 DEF Next

THEOREM Invariance == Spec => []IInv
<1>1. IInv /\ [Next]_vars => IInv'  BY NextKeepsIInv
<1> QED  BY <1>1, InitIInv, PTL DEF Spec

-----------------------------------------------------------------------------
(* What follows from the inductive invariant.                              *)

(* Type correctness: unlock only ever dereferences lock operations, also   *)
(* in its reversing loop.                                                  *)
THEOREM TypeCorrect == Spec => []TypeOK
<1>1. IInv => TypeOK  BY DEF IInv
<1> QED  BY <1>1, Invariance, PTL

(* The mutex excludes: two coroutines never hold the lock, whatever the    *)
(* number of threads, coroutines and waiters.                              *)
THEOREM Exclusion == Spec => []MutualExclusion
<1>1. IInv => MutualExclusion  BY DEF IInv
<1> QED  BY <1>1, Invariance, PTL

(* The lists of async_mutex are sound: they hold the queued operations,    *)
(* all of them, and each of them once.                                     *)
THEOREM ListsSound == Spec => []ListsExact
<1>1. IInv => ListsExact  BY DEF IInv, ListsExact
<1> QED  BY <1>1, Invariance, PTL

LEMMA HeldWhileQueued == IInv => NoStrandedWaiter
<1> SUFFICES ASSUME IInv PROVE NoStrandedWaiter  OBVIOUS
<1>1. ASSUME Holders = {} PROVE Queued = {}
  <2>1. Heads \subseteq {NotLocked, Null}
    BY <1>1 DEF Heads, IInv, LockedIffHeld, UnlockPhases, Holders, Holding
  <2>2. \A w \in Queued : w \notin Heads  BY <2>1, MutexConstants DEF Queued
  <2> QED  BY <2>2 DEF IInv, NoLostWaiter
<1> QED  BY <1>1 DEF NoStrandedWaiter, IInv, LockedIffHeld

LEMMA NoAssertionFails == IInv => SourceAssertions
<1> SUFFICES ASSUME IInv PROVE SourceAssertions  OBVIOUS
<1>1. \A c \in Holders : m_state # NotLocked  BY DEF IInv, LockedIffHeld
<1> QED
  BY <1>1 DEF IInv, SourceAssertions, UnlockPhases, WaitersOnly, Holders, Holding

(* The lock is never released over the head of a coroutine that waits.     *)
THEOREM NobodyStranded == Spec => []NoStrandedWaiter
<1> QED  BY HeldWhileQueued, Invariance, PTL

(* The assertions of async_mutex.cpp never fail.                           *)
THEOREM AssertionsHold == Spec => []SourceAssertions
<1> QED  BY NoAssertionFails, Invariance, PTL

-----------------------------------------------------------------------------
(* No coroutine is on two stacks, and none that is suspended is on one.    *)
LEMMA NextKeepsStackInv == IInv /\ StackInv /\ [Next]_vars => StackInv'
<1> SUFFICES ASSUME IInv, StackInv, [Next]_vars PROVE StackInv'  OBVIOUS
<1> DEFINE Suspended == {"parked", "queued", "away"}
<1>0. TypeOK /\ StackTypeOK  BY DEF IInv, TypeOK
<1>t. \A u \in Threads : Len(stack[u]) \in Nat /\ \A i \in 1..Len(stack[u]) : stack[u][i] \in Coroutines
  BY <1>0 DEF StackTypeOK
<1>1. CASE UNCHANGED vars
  BY <1>1 DEF vars, StackInv, NoDoubleResume, OnlyRunnableStacked
<1>2. ASSUME NEW t \in Threads, NEW c \in Coroutines, UNCHANGED stack,
             \/ UNCHANGED pc
             \/ \E l \in Locations \ Suspended : pc' = [pc EXCEPT ![c] = l]
      PROVE  StackInv'
  <2>1. \A d \in Coroutines : pc[d] \notin Suspended => pc'[d] \notin Suspended
    BY <1>0, <1>2 DEF TypeOK
  <2> QED  BY <1>2, <1>t, <2>1 DEF StackInv, NoDoubleResume, OnlyRunnableStacked
<1>3. ASSUME NEW t \in Threads, NEW c \in Coroutines, pc[c] \in Suspended, pc'[c] \notin Suspended,
             \A d \in Coroutines : pc[d] \notin Suspended => pc'[d] \notin Suspended,
             Resume(t, c)
      PROVE  StackInv'
  <2>1. \A u \in Threads : \A i \in 1..Len(stack[u]) : stack[u][i] # c
    BY <1>3 DEF StackInv, OnlyRunnableStacked
  <2>2. NoDoubleResume'  BY <1>0, <1>3, <2>1, ResumeKeepsStacks DEF StackInv
  <2>3. ASSUME NEW u \in Threads, NEW i \in 1..Len(stack'[u])
        PROVE  pc'[stack'[u][i]] \notin Suspended
    <3>1. \/ stack'[u][i] = c
          \/ \E k \in 1..Len(stack[u]) : stack'[u][i] = stack[u][k]
      BY <1>0, <1>3, StackEntries
    <3>2. ASSUME NEW k \in 1..Len(stack[u]), stack'[u][i] = stack[u][k]
          PROVE  pc'[stack'[u][i]] \notin Suspended
      <4>1. stack[u][k] \in Coroutines /\ pc[stack[u][k]] \notin Suspended
        BY <1>t DEF StackInv, OnlyRunnableStacked
      <4> QED  BY <1>3, <3>2, <4>1
    <3> QED  BY <1>3, <3>1, <3>2
  <2> QED  BY <2>2, <2>3 DEF StackInv, OnlyRunnableStacked
<1>4. ASSUME NEW t \in Threads, NEW c \in Coroutines, Running(t, c), Return(t),
             \A d \in Coroutines : d # c => pc'[d] = pc[d]
      PROVE  StackInv'
  <2>1. NoDoubleResume' /\ \A u \in Threads : \A i \in 1..Len(stack'[u]) : stack'[u][i] # c
    BY <1>0, <1>4, ReturnKeepsStacks DEF StackInv
  <2>2. ASSUME NEW u \in Threads, NEW i \in 1..Len(stack'[u])
        PROVE  pc'[stack'[u][i]] \notin Suspended
    <3>1. PICK k \in 1..Len(stack[u]) : stack'[u][i] = stack[u][k]
      BY <1>0, <1>4, StackEntries
    <3>2. stack[u][k] \in Coroutines /\ pc[stack[u][k]] \notin Suspended
      BY <1>t DEF StackInv, OnlyRunnableStacked
    <3> QED  BY <1>4, <2>1, <3>1, <3>2
  <2> QED  BY <2>1, <2>2 DEF StackInv, OnlyRunnableStacked
<1>5. ASSUME NEW t \in Threads, NEW c \in Coroutines, Library(t, c) \/ Client(t, c)
      PROVE  StackInv'
  <2> USE <1>0 DEF TypeOK, Locations
  <2>1. CASE TryLock(t, c) \/ LockAsync(t, c) \/ UnlockRelease(t, c)
    BY <1>2, <2>1 DEF TryLock, LockAsync, UnlockRelease
  <2>2. CASE AwaitAcquire(t, c) \/ TakeNewWaiters(t, c) \/ UnlockReturns(t, c)
    BY <1>2, <2>2 DEF AwaitAcquire, TakeNewWaiters, UnlockReturns
  <2>3. CASE ReverseStep(t, c)
    <3>1. pc' = [pc EXCEPT ![c] = IF m_next[next[c]] = Null THEN "handoff" ELSE "reversing"]
      BY <2>3 DEF ReverseStep
    <3> QED  BY <1>2, <2>3, <3>1 DEF ReverseStep
  <2>4. CASE Enter(t, c)  BY <1>3, <2>4 DEF Enter
  <2>5. CASE Leave(t, c)  BY <1>4, <2>5 DEF Leave
  <2>6. CASE AwaitEnqueue(t, c)
    <3>1. CASE UNCHANGED <<pc, stack>>  BY <1>2, <3>1
    <3>2. CASE pc' = [pc EXCEPT ![c] = "queued"] /\ Return(t)
      BY <1>4, <2>6, <3>2 DEF AwaitEnqueue
    <3> QED  BY <2>6, <3>1, <3>2 DEF AwaitEnqueue
  <2>7. ASSUME NEW w \in Queued, HandOff(t, c, w) PROVE StackInv'
    BY <1>3, <2>7 DEF HandOff, Queued
  <2>8. CASE UnlockHandOff(t, c)
    <3>1. m_waiters \in Queued  BY <2>8 DEF UnlockHandOff, IInv, WaitersOnly
    <3> QED  BY <2>7, <2>8, <3>1 DEF UnlockHandOff
  <2>9. CASE ResumeFirst(t, c)
    <3>1. waitersHead[c] \in Queued
      BY <2>9 DEF ResumeFirst, IInv, UnlockPhases, WaitersOnly
    <3> QED  BY <2>7, <2>9, <3>1 DEF ResumeFirst
  <2>10. ASSUME NEW d \in Coroutines, Switch(t, c, d) PROVE StackInv'
    <3>1. /\ Running(t, c) /\ Transfer(t, d) /\ pc[d] \in Suspended /\ pc'[d] \notin Suspended
          /\ \A e \in Coroutines : e \notin {c, d} => pc'[e] = pc[e]
      BY <2>10 DEF Switch
    <3>2. \A u \in Threads : \A i \in 1..Len(stack[u]) : stack[u][i] # d
      BY <3>1 DEF StackInv, OnlyRunnableStacked
    <3>3. /\ NoDoubleResume'
          /\ \A u \in Threads : \A i \in 1..Len(stack'[u]) :
               \/ stack'[u][i] = d
               \/ stack'[u][i] # c /\ \E k \in 1..Len(stack[u]) : stack'[u][i] = stack[u][k]
      BY <3>1, <3>2, TransferKeepsStacks DEF StackInv
    <3>4. ASSUME NEW u \in Threads, NEW k \in 1..Len(stack[u])
          PROVE  stack[u][k] \in Coroutines /\ pc[stack[u][k]] \notin Suspended
      BY <1>t DEF StackInv, OnlyRunnableStacked
    <3>5. ASSUME NEW u \in Threads, NEW i \in 1..Len(stack'[u])
          PROVE  pc'[stack'[u][i]] \notin Suspended
      BY <3>1, <3>3, <3>4
    <3> QED  BY <3>3, <3>5 DEF StackInv, OnlyRunnableStacked
  <2> QED
    BY <1>5, <2>1, <2>2, <2>3, <2>4, <2>5, <2>6, <2>8, <2>9, <2>10 DEF Library, Client, Unlock
<1> QED  BY <1>1, <1>5 DEF Next

(* async_mutex never resumes a coroutine that is already running: every    *)
(* resume() of unlock and of the client finds a suspended coroutine.       *)
THEOREM ResumesSuspended == Spec => []NoDoubleResume
<1>1. Init => StackInv
  BY DEF Init, StackInit, StackInv, NoDoubleResume, OnlyRunnableStacked
<1>2. IInv /\ StackInv /\ [Next]_vars => StackInv'  BY NextKeepsStackInv
<1>3. StackInv => NoDoubleResume  BY DEF StackInv
<1> QED  BY <1>1, <1>2, <1>3, Invariance, PTL DEF Spec

-----------------------------------------------------------------------------
(* The lists of IntrusiveList.  Climb is induction on the length of a walk: *)
(* a set with 0 that is closed under successor has every number, or adding *)
(* one would map its members injectively to fewer.                         *)
LEMMA Climb ==
  ASSUME NEW n \in Nat, NEW T, 0 \in T, \A i \in 0..(n - 1) : i \in T => i + 1 \in T
  PROVE  n \in T
<1> DEFINE S == T \cap (0..n)
<1>1. IsFiniteSet(0..n)  BY FS_Interval
<1>2. IsFiniteSet(S)  BY <1>1, FS_Subset, S \subseteq 0..n
<1> SUFFICES ASSUME n \notin T PROVE FALSE  OBVIOUS
<1> DEFINE f == [i \in S |-> i + 1]
<1>3. 0 \in S  OBVIOUS
<1>4. \A i \in S : i \in 0..(n-1) /\ i + 1 \in S \ {0}  OBVIOUS
<1>5. f \in Injection(S, S \ {0})
  <2>1. f \in [S -> S \ {0}]  BY <1>4
  <2>2. \A i, j \in S : f[i] = f[j] => i = j  BY <1>4
  <2> QED  BY <2>1, <2>2 DEF Injection, IsInjective
<1>6. IsFiniteSet(S \ {0}) /\ Cardinality(S \ {0}) = Cardinality(S) - 1  BY <1>2, <1>3, FS_RemoveElement
<1> HIDE DEF f, S
<1>7. Cardinality(S) <= Cardinality(S \ {0})  BY <1>5, <1>6, FS_Injection
<1>8. Cardinality(S) \in Nat  BY <1>2, FS_CardinalityType
<1> QED  BY <1>6, <1>7, <1>8

(* ListFrom finds the list: the recursive walk is the function that runs   *)
(* through the list and stays at its end.                                  *)
LEMMA ListIs ==
  ASSUME NEW s, NEW head, NEW link, IsFiniteSet(DOMAIN link), IsList(s, head, link)
  PROVE  ListFrom(head, link) = s
<1> DEFINE D == DOMAIN link
           N == Cardinality(D)
           rest == IF s = <<>> THEN head ELSE link[s[Len(s)]]
           g == [i \in 0..N |-> IF i < Len(s) THEN s[i + 1] ELSE rest]
           Step(w) == [i \in 0..N |-> IF i = 0 THEN head
                                      ELSE IF w[i - 1] \in D THEN link[w[i - 1]] ELSE w[i - 1]]
           walk == CHOOSE w : w = Step(w)
<1>1. s \in Seq(D) /\ Len(s) \in Nat /\ \A i \in 1..Len(s) : s[i] \in D
  BY DEF IsList
<1>2. N \in Nat /\ Len(s) <= N
  <2>1. s \in Injection(1..Len(s), D)  BY <1>1 DEF IsList, Injection, IsInjective
  <2>2. Cardinality(1..Len(s)) = Len(s)
    <3> DEFINE n == Len(s)
    <3>1. n \in Nat  BY <1>1
    <3> HIDE DEF n
    <3>2. Cardinality(1..n) = n  BY <3>1, FS_Interval
    <3> QED  BY <3>2 DEF n
  <2> HIDE DEF D
  <2> QED  BY <1>1, <2>1, <2>2, FS_Injection, FS_CardinalityType DEF D
<1>3. rest \notin D  BY <1>1 DEF IsList
<1>4. g = Step(g)
  <2>1. ASSUME NEW i \in 0..N PROVE g[i] = Step(g)[i]
    <3>1. CASE i = 0  BY <1>1, <1>2, <3>1 DEF IsList
    <3>2. CASE i # 0 /\ i < Len(s)  BY <1>1, <1>2, <3>2 DEF IsList
    <3>3. CASE i # 0 /\ i = Len(s)  BY <1>1, <1>2, <3>3 DEF IsList
    <3>4. CASE i # 0 /\ i > Len(s)  BY <1>1, <1>2, <1>3, <3>4
    <3> QED  BY <1>1, <1>2, <3>1, <3>2, <3>3, <3>4
  <2> QED  BY <2>1
<1>5. walk = Step(walk)  BY <1>4
<1>6. walk = g
  <2> HIDE DEF walk, g
  <2>1. ASSUME NEW n \in 0..N PROVE walk[n] = g[n]
    <3> DEFINE T == {i \in 0..N : walk[i] = g[i]}
    <3>1. 0 \in T  BY <1>2, <1>4, <1>5
    <3>2. \A i \in 0..(n - 1) : i \in T => i + 1 \in T  BY <1>2, <1>4, <1>5
    <3> HIDE DEF T
    <3>3. n \in T  BY <1>2, <3>1, <3>2, Climb
    <3> QED  BY <3>3 DEF T
  <2> QED  BY <1>4, <1>5, <2>1
<1>7. {i \in DOMAIN walk : walk[i] \in D} = 0..(Len(s) - 1)
  <2>1. DOMAIN g = 0..N  OBVIOUS
  <2>2. \A i \in 0..N : g[i] \in D <=> i < Len(s)  BY <1>1, <1>2, <1>3
  <2> HIDE DEF g, walk
  <2> QED  BY <1>1, <1>2, <1>6, <2>1, <2>2
<1>8. Cardinality({i \in DOMAIN walk : walk[i] \in D}) = Len(s)
  <2> DEFINE n == Len(s)
  <2>1. n \in Nat  BY <1>1
  <2> HIDE DEF n, walk
  <2>2. Cardinality(0..(n - 1)) = n  BY <2>1, FS_Interval
  <2> QED  BY <1>7, <2>2 DEF n
<1>9. ListFrom(head, link) = [i \in 1..Len(s) |-> walk[i - 1]]
  BY <1>8 DEF ListFrom
<1>10. \A i \in 1..Len(s) : walk[i - 1] = s[i]
  <2>1. \A i \in 1..Len(s) : g[i - 1] = s[i]  BY <1>1, <1>2
  <2> QED  BY <1>6, <2>1
<1>11. [i \in 1..Len(s) |-> walk[i - 1]] = s  BY <1>1, <1>10
<1> QED  BY <1>9, <1>11

(* What the steps of async_mutex do to a list: nothing, if the node that is *)
(* written is not in it; push; and pop.                                    *)
LEMMA NoList ==
  ASSUME NEW head, NEW link, head \notin DOMAIN link
  PROVE  IsList(<<>>, head, link) /\ \A s : IsList(s, head, link) => s = <<>>
<1>1. IsList(<<>>, head, link)  BY DEF IsList
<1>2. ASSUME NEW s, IsList(s, head, link) PROVE s = <<>>
  <2>1. s # <<>> => s[1] \in DOMAIN link  BY <1>2 DEF IsList
  <2> QED  BY <1>2, <2>1 DEF IsList
<1> QED  BY <1>1, <1>2

LEMMA ListElsewhere ==
  ASSUME NEW s, NEW head, NEW link, NEW n, NEW x, IsList(s, head, link), n \notin Range(s)
  PROVE  IsList(s, head, [link EXCEPT ![n] = x])
<1>1. s \in Seq(DOMAIN link) /\ Len(s) \in Nat /\ \A i \in 1..Len(s) : s[i] \in DOMAIN link /\ s[i] # n
  BY DEF IsList, Range
<1> DEFINE other == [link EXCEPT ![n] = x]
<1>2. DOMAIN other = DOMAIN link /\ \A i \in 1..Len(s) : other[s[i]] = link[s[i]]
  BY <1>1
<1> HIDE DEF other
<1>3. IsList(s, head, other)  BY <1>2 DEF IsList
<1> QED  BY <1>3 DEF other

LEMMA ListPushed ==
  ASSUME NEW s, NEW head, NEW link, NEW n \in DOMAIN link, IsList(s, head, link), n \notin Range(s)
  PROVE  IsList(<<n>> \o s, n, [link EXCEPT ![n] = head])
<1> DEFINE other == [link EXCEPT ![n] = head]
           r == <<n>> \o s
<1>1. s \in Seq(DOMAIN link) /\ Len(s) \in Nat /\ \A i \in 1..Len(s) : s[i] \in DOMAIN link /\ s[i] # n
  BY DEF IsList, Range
<1>2. DOMAIN other = DOMAIN link /\ other[n] = head /\ \A i \in 1..Len(s) : other[s[i]] = link[s[i]]
  BY <1>1
<1>3. r \in Seq(DOMAIN link) /\ Len(r) = Len(s) + 1 /\ r # <<>>  BY <1>1
<1>4. r[1] = n /\ \A i \in 1..Len(s) : r[i + 1] = s[i]  BY <1>1
<1> HIDE DEF other, r
<1>5. \A i \in 1..Len(r) : i = 1 \/ (i - 1 \in 1..Len(s) /\ r[i] = s[i - 1])
  BY <1>1, <1>3, <1>4
<1>6. \A i, j \in 1..Len(r) : r[i] = r[j] => i = j
  <2> SUFFICES ASSUME NEW i \in 1..Len(r), NEW j \in 1..Len(r), r[i] = r[j] PROVE i = j
    OBVIOUS
  <2>1. CASE i = 1 \/ j = 1  BY <1>1, <1>4, <1>5, <2>1
  <2>2. CASE i # 1 /\ j # 1
    <3>1. i - 1 \in 1..Len(s) /\ j - 1 \in 1..Len(s) /\ s[i - 1] = s[j - 1]  BY <1>5, <2>2
    <3>2. i - 1 = j - 1  BY <3>1 DEF IsList
    <3> QED  BY <1>3, <3>2
  <2> QED  BY <2>1, <2>2
<1>7. ASSUME NEW i \in 1..Len(r)
      PROVE  IF i < Len(r) THEN other[r[i]] = r[i + 1] ELSE other[r[i]] \notin DOMAIN other
  <2>1. CASE i = 1
    <3>1. CASE s = <<>>  BY <1>1, <1>2, <1>3, <1>4, <2>1, <3>1 DEF IsList
    <3>2. CASE s # <<>>
      <4>1. Len(s) > 0 /\ head = s[1]  BY <1>1, <3>2 DEF IsList
      <4> QED  BY <1>2, <1>3, <1>4, <2>1, <4>1
    <3> QED  BY <3>1, <3>2
  <2>2. CASE i # 1
    <3>1. i - 1 \in 1..Len(s) /\ r[i] = s[i - 1]  BY <1>5, <2>2
    <3>2. IF i - 1 < Len(s) THEN link[s[i - 1]] = s[i] ELSE link[s[i - 1]] \notin DOMAIN link
      BY <1>1, <3>1 DEF IsList
    <3>3. i < Len(r) => r[i + 1] = s[i]  BY <1>1, <1>3, <1>4, <3>1
    <3> QED  BY <1>1, <1>2, <1>3, <3>1, <3>2, <3>3
  <2> QED  BY <2>1, <2>2
<1>8. IsList(r, n, other)  BY <1>2, <1>3, <1>4, <1>6, <1>7 DEF IsList
<1> QED  BY <1>8 DEF r, other

LEMMA ListPopped ==
  ASSUME NEW s, NEW head, NEW link, head \in DOMAIN link, IsList(s, head, link)
  PROVE  /\ s # <<>> /\ Head(s) = head
         /\ IsList(Tail(s), link[head], link)
         /\ Range(s) = {head} \cup Range(Tail(s)) /\ head \notin Range(Tail(s))
<1> DEFINE r == Tail(s)
<1>1. s \in Seq(DOMAIN link) /\ s # <<>> /\ head = s[1]  BY DEF IsList
<1>2. Len(s) \in Nat \ {0} /\ r \in Seq(DOMAIN link) /\ Len(r) = Len(s) - 1 /\ Head(s) = head
      /\ \A i \in 1..Len(r) : r[i] = s[i + 1]
  BY <1>1
<1> HIDE DEF r
<1>3. \A i \in 1..Len(r) : r[i] # head  BY <1>1, <1>2 DEF IsList
<1>4. IsList(r, link[head], link)
  <2>1. \A i, j \in 1..Len(r) : r[i] = r[j] => i = j  BY <1>2 DEF IsList
  <2>2. IF r = <<>> THEN link[head] \notin DOMAIN link ELSE link[head] = r[1]
    <3>1. CASE Len(s) = 1  BY <1>1, <1>2, <3>1 DEF IsList
    <3>2. CASE Len(s) > 1  BY <1>1, <1>2, <3>2 DEF IsList
    <3> QED  BY <1>2, <3>1, <3>2
  <2>3. \A i \in 1..Len(r) :
          IF i < Len(r) THEN link[r[i]] = r[i + 1] ELSE link[r[i]] \notin DOMAIN link
    BY <1>2 DEF IsList
  <2> QED  BY <1>2, <2>1, <2>2, <2>3 DEF IsList
<1>5. Range(s) = {head} \cup Range(r)
  <2>1. \A i \in 1..Len(s) : i = 1 \/ (i - 1 \in 1..Len(r) /\ s[i] = r[i - 1])  BY <1>2
  <2>2. DOMAIN s = 1..Len(s) /\ DOMAIN r = 1..Len(r)  BY <1>1, <1>2
  <2>3. \A i \in 1..Len(r) : i + 1 \in 1..Len(s)  BY <1>2
  <2>4. 1 \in 1..Len(s)  BY <1>2
  <2>5. ASSUME NEW x \in Range(s) PROVE x \in {head} \cup Range(r)
    <3>1. PICK i \in 1..Len(s) : x = s[i]  BY <2>2, <2>5 DEF Range
    <3> QED  BY <1>1, <2>1, <2>2, <3>1 DEF Range
  <2>6. head \in Range(s)  BY <1>1, <2>2, <2>4 DEF Range
  <2>7. ASSUME NEW x \in Range(r) PROVE x \in Range(s)
    <3>1. PICK i \in 1..Len(r) : x = r[i]  BY <2>2, <2>7 DEF Range
    <3> QED  BY <1>2, <2>2, <2>3, <3>1 DEF Range
  <2> QED  BY <2>5, <2>6, <2>7
<1>6. head \notin Range(r)  BY <1>2, <1>3 DEF Range
<1> QED  BY <1>1, <1>2, <1>4, <1>5, <1>6 DEF r

(* What they do to the queue: waiters are pushed on lists that are read     *)
(* backwards, and moved one by one to the list that is read forwards.      *)
LEMMA ReverseType ==
  ASSUME NEW S, NEW s \in Seq(S)
  PROVE  /\ Reverse(s) \in Seq(S) /\ Len(Reverse(s)) = Len(s)
         /\ \A i \in 1..Len(s) : Reverse(s)[i] = s[(Len(s) - i) + 1]
<1>1. Len(s) \in Nat /\ \A i \in 1..Len(s) : (Len(s) - i) + 1 \in 1..Len(s)  OBVIOUS
<1>2. Reverse(s) \in [1..Len(s) -> S]  BY <1>1 DEF Reverse
<1>3. Reverse(s) \in Seq(S)  BY <1>1, <1>2
<1> QED  BY <1>1, <1>2, <1>3 DEF Reverse

LEMMA ReversePushed ==
  ASSUME NEW S, NEW s \in Seq(S), NEW n \in S
  PROVE  Reverse(<<n>> \o s) = Append(Reverse(s), n)
<1> DEFINE r == <<n>> \o s
<1>1. r \in Seq(S) /\ Len(s) \in Nat /\ Len(r) = Len(s) + 1  OBVIOUS
<1>2. r[1] = n /\ \A i \in 1..Len(s) : r[i + 1] = s[i]  OBVIOUS
<1> HIDE DEF r
<1> DEFINE a == Reverse(r)  b == Append(Reverse(s), n)
<1>3. a \in Seq(S) /\ Len(a) = Len(s) + 1 /\ \A i \in 1..Len(r) : a[i] = r[(Len(r) - i) + 1]
  BY <1>1, ReverseType
<1>4. b \in Seq(S) /\ Len(b) = Len(s) + 1 /\ b[Len(s) + 1] = n /\ \A i \in 1..Len(s) : b[i] = s[(Len(s) - i) + 1]
  <2>1. Reverse(s) \in Seq(S) /\ Len(Reverse(s)) = Len(s) /\ \A i \in 1..Len(s) : Reverse(s)[i] = s[(Len(s) - i) + 1]
    BY ReverseType
  <2> QED  BY <2>1
<1> HIDE DEF a, b
<1>5. ASSUME NEW i \in 1..Len(a) PROVE a[i] = b[i]
  <2>1. CASE i = Len(s) + 1  BY <1>1, <1>2, <1>3, <1>4, <2>1
  <2>2. CASE i # Len(s) + 1
    <3>1. i \in 1..Len(s) /\ (Len(s) - i) + 1 \in 1..Len(s) /\ a[i] = r[((Len(s) - i) + 1) + 1]
      BY <1>1, <1>3, <2>2
    <3> QED  BY <1>2, <1>4, <3>1
  <2> QED  BY <2>1, <2>2
<1>6. a = b  BY <1>3, <1>4, <1>5
<1> QED  BY <1>6 DEF a, b, r

LEMMA PushedHead ==
  ASSUME NEW S, NEW s \in Seq(S), s # <<>>
  PROVE  Head(s) \in S /\ Tail(s) \in Seq(S) /\ s = <<Head(s)>> \o Tail(s)
OBVIOUS

LEMMA ReverseMoved ==
  ASSUME NEW S, NEW u \in Seq(S), NEW w \in Seq(S), u # <<>>
  PROVE  Reverse(u) \o w = Reverse(Tail(u)) \o (<<Head(u)>> \o w)
<1> DEFINE n == Head(u)  r == Reverse(Tail(u))
<1>1. n \in S /\ Tail(u) \in Seq(S) /\ u = <<n>> \o Tail(u)  BY PushedHead
<1>2. Reverse(u) = Append(r, n)
  <2> DEFINE v == Tail(u)
  <2>1. v \in Seq(S) /\ u = <<n>> \o v  BY <1>1
  <2> HIDE DEF n, v
  <2>2. Reverse(<<n>> \o v) = Append(Reverse(v), n)  BY <1>1, <2>1, ReversePushed
  <2> QED  BY <2>1, <2>2 DEF v
<1>3. r \in Seq(S)  BY <1>1, ReverseType
<1> HIDE DEF n, r
<1>4. Append(r, n) \o w = r \o (<<n>> \o w)  BY <1>1, <1>3
<1> QED  BY <1>2, <1>4 DEF n, r

LEMMA PushedRange ==
  ASSUME NEW S, NEW s \in Seq(S), NEW n \in S
  PROVE  Range(<<n>> \o s) = {n} \cup Range(s)
<1> DEFINE r == <<n>> \o s
<1>1. r \in Seq(S) /\ Len(s) \in Nat /\ Len(r) = Len(s) + 1  OBVIOUS
<1>2. r[1] = n /\ \A i \in 1..Len(s) : r[i + 1] = s[i]  OBVIOUS
<1>3. DOMAIN r = 1..Len(r) /\ DOMAIN s = 1..Len(s)  BY <1>1
<1> HIDE DEF r
<1>4. \A i \in 1..Len(r) : i = 1 \/ (i - 1 \in 1..Len(s) /\ r[i] = s[i - 1])
  BY <1>1, <1>2
<1>5. ASSUME NEW x \in Range(r) PROVE x \in {n} \cup Range(s)
  <2>1. PICK i \in 1..Len(r) : x = r[i]  BY <1>3, <1>5 DEF Range
  <2> QED  BY <1>2, <1>3, <1>4, <2>1 DEF Range
<1>6. n \in Range(r)
  <2>1. 1 \in DOMAIN r  BY <1>1, <1>3
  <2> QED  BY <1>2, <2>1 DEF Range
<1>7. ASSUME NEW x \in Range(s) PROVE x \in Range(r)
  <2>1. PICK i \in 1..Len(s) : x = s[i]  BY <1>3, <1>7 DEF Range
  <2>2. i + 1 \in DOMAIN r  BY <1>1, <1>3
  <2> QED  BY <1>2, <2>1, <2>2 DEF Range
<1> QED  BY <1>5, <1>6, <1>7 DEF r

-----------------------------------------------------------------------------
(* The queue of the abstract lock, as the steps of unlock and of           *)
(* await_suspend change it.                                                *)
LEMMA QueueType ==
  ASSUME NEW S, NEW u \in Seq(S), NEW w \in Seq(S), NEW v \in Seq(S), NEW z \in Seq(S)
  PROVE  InOrder(u, w, v, z) \in Seq(S)
BY ReverseType DEF InOrder

LEMMA NothingReversed == Reverse(<<>>) = <<>>
<1>1. <<>> \in Seq({}) /\ Len(<<>>) = 0  OBVIOUS
<1>2. Reverse(<<>>) \in Seq({}) /\ Len(Reverse(<<>>)) = 0  BY <1>1, ReverseType
<1> QED  BY <1>2

LEMMA QueueOfOne ==
  ASSUME NEW S, NEW z \in Seq(S)
  PROVE  /\ InOrder(<<>>, <<>>, <<>>, z) = Reverse(z)
         /\ InOrder(z, <<>>, <<>>, <<>>) = Reverse(z)
<1>1. Reverse(z) \in Seq(S)  BY ReverseType
<1> QED  BY <1>1, NothingReversed DEF InOrder

LEMMA QueueOfNone == InOrder(<<>>, <<>>, <<>>, <<>>) = <<>>
<1>1. <<>> \in Seq({})  OBVIOUS
<1> QED  BY <1>1, QueueOfOne, NothingReversed

LEMMA QueueMoved ==
  ASSUME NEW S, NEW u \in Seq(S), NEW w \in Seq(S), NEW v, NEW z, u # <<>>
  PROVE  InOrder(Tail(u), <<Head(u)>> \o w, v, z) = InOrder(u, w, v, z)
BY ReverseMoved DEF InOrder

LEMMA QueuePopped ==
  ASSUME NEW S, NEW w \in Seq(S), NEW z \in Seq(S), w # <<>>
  PROVE  /\ InOrder(<<>>, w, <<>>, z) = InOrder(<<>>, <<>>, w, z)
         /\ InOrder(<<>>, <<>>, w, z) # <<>>
         /\ Head(InOrder(<<>>, <<>>, w, z)) = Head(w)
         /\ Tail(InOrder(<<>>, <<>>, w, z)) = InOrder(<<>>, <<>>, Tail(w), z)
<1> DEFINE r == Reverse(z)
<1>1. r \in Seq(S)  BY ReverseType
<1>2. Reverse(<<>>) = <<>>  BY NothingReversed
<1> HIDE DEF r
<1>3. /\ <<>> \o w \o <<>> \o r = w \o r
      /\ <<>> \o <<>> \o w \o r = w \o r
      /\ <<>> \o <<>> \o Tail(w) \o r = Tail(w) \o r
  BY <1>1
<1>4. w \o r # <<>> /\ Head(w \o r) = Head(w)  BY <1>1
<1>5. Tail(w \o r) = Tail(w) \o r  BY <1>1
<1> QED  BY <1>2, <1>3, <1>4, <1>5 DEF InOrder, r

(* Whose unlock the mapping looks into.                                    *)
LEMMA TheOwner ==
  /\ Holders = {} => Owner = Null
  /\ Holders' = {} => Owner' = Null
  /\ \A c : (Holders = {c} => Owner = c) /\ (Holders' = {c} => Owner' = c)
BY DEF Owner

(* Lists that satisfy Chains are the ones List finds.                      *)
LEMMA ChainsFound ==
  ASSUME TypeOK', NEW u, NEW w, NEW v, NEW z, Chains(u, w, v, z)'
  PROVE  ChainsInv' /\ WaitQueue' = InOrder(u, w, v, z)
<1>1. IsFiniteSet(DOMAIN m_next')  BY FiniteCoroutines DEF TypeOK
<1>2. List(InUnlock(next))' = u  BY <1>1, ListIs DEF List, Chains
<1>3. List(InUnlock(waitersHead))' = w  BY <1>1, ListIs DEF List, Chains
<1>4. List(m_waiters)' = v  BY <1>1, ListIs DEF List, Chains
<1>5. List(m_state)' = z  BY <1>1, ListIs DEF List, Chains
<1> QED  BY <1>2, <1>3, <1>4, <1>5 DEF ChainsInv, WaitQueue

LEMMA ChainTypes ==
  ASSUME TypeOK, NEW u, NEW w, NEW v, NEW z, Chains(u, w, v, z)
  PROVE  /\ DOMAIN m_next = Coroutines
         /\ u \in Seq(Coroutines) /\ w \in Seq(Coroutines)
         /\ v \in Seq(Coroutines) /\ z \in Seq(Coroutines)
BY DEF TypeOK, Chains, IsList

LEMMA ChainsOfQueued ==
  ASSUME TypeOK, NEW u, NEW w, NEW v, NEW z, Chains(u, w, v, z)
  PROVE  u \in Seq(Queued) /\ w \in Seq(Queued) /\ v \in Seq(Queued) /\ z \in Seq(Queued)
<1>1. ASSUME NEW s \in Seq(Coroutines), Range(s) \subseteq Queued PROVE s \in Seq(Queued)
  <2>1. Len(s) \in Nat /\ s \in [1..Len(s) -> Coroutines] /\ \A i \in 1..Len(s) : s[i] \in Queued
    BY <1>1 DEF Range
  <2> QED  BY <2>1
<1> QED  BY <1>1, ChainTypes DEF Chains

-----------------------------------------------------------------------------
(* Every step of async_mutex is one of FifoLock, or none.                  *)
FifoStep == ChainsInv' /\ [FIFO!Next]_(FIFO!vars)

(* Nothing in the lists, nobody in the queue.                              *)
LEMMA NobodyQueued ==
  ASSUME TypeOK, m_state \in {NotLocked, Null}, m_waiters = Null,
         \A c \in Coroutines : next[c] = Null /\ waitersHead[c] = Null,
         Owner \in Coroutines \cup {Null}
  PROVE  Chains(<<>>, <<>>, <<>>, <<>>) /\ (ChainsInv => WaitQueue = <<>>)
<1>1. /\ m_state \notin DOMAIN m_next /\ m_waiters \notin DOMAIN m_next
      /\ InUnlock(next) \notin DOMAIN m_next /\ InUnlock(waitersHead) \notin DOMAIN m_next
  BY MutexConstants DEF TypeOK, InUnlock
<1>2. Chains(<<>>, <<>>, <<>>, <<>>)
  <2>1. Range(<<>>) = {}  BY DEF Range
  <2> QED  BY <1>1, <2>1, NoList DEF Chains
<1>3. ASSUME ChainsInv PROVE WaitQueue = <<>>
  <2>1. /\ List(InUnlock(next)) = <<>> /\ List(InUnlock(waitersHead)) = <<>>
        /\ List(m_waiters) = <<>> /\ List(m_state) = <<>>
    BY <1>1, <1>3, NoList DEF ChainsInv, Chains
  <2> QED  BY <2>1, QueueOfNone DEF WaitQueue
<1> QED  BY <1>2, <1>3

LEMMA NobodyQueuedNext ==
  ASSUME TypeOK', m_state' \in {NotLocked, Null}, m_waiters' = Null,
         \A c \in Coroutines : next'[c] = Null /\ waitersHead'[c] = Null,
         Owner' \in Coroutines \cup {Null}
  PROVE  ChainsInv' /\ WaitQueue' = <<>>
<1>1. /\ m_state' \notin DOMAIN m_next' /\ m_waiters' \notin DOMAIN m_next'
      /\ InUnlock(next)' \notin DOMAIN m_next' /\ InUnlock(waitersHead)' \notin DOMAIN m_next'
  BY MutexConstants DEF TypeOK, InUnlock
<1>2. Range(<<>>) = {}  BY DEF Range
<1>3. Chains(<<>>, <<>>, <<>>, <<>>)'  BY <1>1, <1>2, NoList DEF Chains
<1> QED  BY <1>3, QueueOfNone, ChainsFound

(* Steps that leave the lists alone, but for the m_next of a coroutine     *)
(* that is not queued.                                                     *)
LEMMA ListsLeftAlone ==
  ASSUME TypeOK, TypeOK', ChainsInv,
         Holders' = Holders, Queued' = Queued,
         UNCHANGED <<m_state, m_waiters, waitersHead, next>>,
         NEW n \in Coroutines, n \notin Queued, NEW x,
         UNCHANGED m_next \/ m_next' = [m_next EXCEPT ![n] = x]
  PROVE  FifoStep
<1>1. PICK u, w, v, z : Chains(u, w, v, z) /\ WaitQueue = InOrder(u, w, v, z)
  BY DEF ChainsInv, WaitQueue
<1>2. Owner' = Owner  BY DEF Owner
<1>3. InUnlock(next)' = InUnlock(next) /\ InUnlock(waitersHead)' = InUnlock(waitersHead)
  BY <1>2 DEF InUnlock
<1>4. n \notin Range(u) \cup Range(w) \cup Range(v) \cup Range(z)  BY <1>1 DEF Chains
<1>5. ASSUME NEW s, NEW head, IsList(s, head, m_next), n \notin Range(s)
      PROVE  IsList(s, head, m_next')
  BY <1>5, ListElsewhere
<1>6. Chains(u, w, v, z)'  BY <1>1, <1>3, <1>4, <1>5 DEF Chains
<1>7. ChainsInv' /\ WaitQueue' = WaitQueue  BY <1>1, <1>6, ChainsFound
<1> QED  BY <1>2, <1>7 DEF FifoStep, FIFO!vars

(* try_lock and the compare_exchange of lock_async that finds the mutex    *)
(* free are the Acquire of the abstract lock.                              *)
LEMMA AcquireIsFifo ==
  ASSUME IInv, IInv', ChainsInv, NEW t \in Threads, NEW c \in Coroutines,
         TryLock(t, c) \/ AwaitAcquire(t, c), m_state = NotLocked, m_state' = LockedNoWaiters
  PROVE  FifoStep
<1> USE MutexConstants DEF IInv, LockedNoWaiters
<1>0. /\ UNCHANGED <<m_waiters, m_next, waitersHead, next>>
      /\ pc' = [pc EXCEPT ![c] = "critical"]
  BY DEF TryLock, AwaitAcquire
<1>1. Holders = {} /\ m_waiters = Null  BY DEF LockedIffHeld
<1>2. Holders' = {c}  BY <1>0, <1>1 DEF Holders, Holding, TypeOK
<1>3. Owner = Null /\ Owner' = c  BY <1>1, <1>2, TheOwner
<1>4. \A d \in Coroutines : next[d] = Null /\ waitersHead[d] = Null
  BY <1>1 DEF UnlockPhases, Holders, Holding
<1>5. WaitQueue = <<>>  BY <1>1, <1>3, <1>4, NobodyQueued
<1>6. ChainsInv' /\ WaitQueue' = <<>>  BY <1>0, <1>1, <1>3, <1>4, NobodyQueuedNext
<1>7. FIFO!Acquire(c)  BY <1>3, <1>5, <1>6 DEF FIFO!Acquire
<1> QED  BY <1>6, <1>7 DEF FifoStep, FIFO!Next

(* The compare_exchange of unlock that finds no waiters is its Release.    *)
LEMMA ReleaseIsFifo ==
  ASSUME IInv, IInv', ChainsInv, NEW t \in Threads, NEW c \in Coroutines, UnlockRelease(t, c)
  PROVE  FifoStep
<1> USE MutexConstants DEF IInv, LockedNoWaiters
<1>0. /\ pc[c] = "critical" /\ m_waiters = Null
      /\ UNCHANGED <<m_waiters, m_next, waitersHead, next>>
  BY DEF UnlockRelease
<1>1. Holders = {c} /\ Owner = c
  <2>1. Holders = {c}  BY <1>0 DEF MutualExclusion, Holders, Holding
  <2> QED  BY <2>1, TheOwner
<1>a. CASE m_state = Null /\ m_state' = NotLocked /\ pc' = [pc EXCEPT ![c] = "running"]
  <2>1. Holders' = {}  BY <1>a, <1>1 DEF Holders, Holding, TypeOK
  <2>2. Owner' = Null  BY <2>1, TheOwner
  <2>3. \A d \in Coroutines : next[d] = Null /\ waitersHead[d] = Null
    BY <1>0, <1>1 DEF UnlockPhases, Holders, Holding
  <2>4. WaitQueue = <<>>  BY <1>0, <1>1, <1>a, <2>3, NobodyQueued
  <2>5. ChainsInv' /\ WaitQueue' = <<>>  BY <1>0, <1>a, <2>2, <2>3, NobodyQueuedNext
  <2>6. FIFO!Release  BY <1>1, <2>2, <2>4, <2>5 DEF FIFO!Release
  <2> QED  BY <2>5, <2>6 DEF FifoStep, FIFO!Next
<1>b. CASE pc' = [pc EXCEPT ![c] = "takeover"] /\ UNCHANGED m_state
  <2>1. Queued' = Queued /\ c \notin Queued  BY <1>0, <1>b DEF Queued, TypeOK
  <2>2. Holders' = Holders  BY <1>0, <1>b DEF Holders, Holding, TypeOK
  <2> QED  BY <1>0, <1>b, <2>1, <2>2, ListsLeftAlone
<1> QED  BY <1>a, <1>b DEF UnlockRelease

(* The compare_exchange of await_suspend that pushes the operation is the  *)
(* Enqueue of the abstract lock: the coroutine is last in its queue.       *)
LEMMA EnqueueIsFifo ==
  ASSUME IInv, IInv', ChainsInv, NEW t \in Threads, NEW c \in Coroutines, AwaitEnqueue(t, c)
  PROVE  FifoStep
<1> USE MutexConstants DEF IInv
<1>0. /\ pc[c] = "locking" /\ m_next' = [m_next EXCEPT ![c] = oldState[c]]
      /\ UNCHANGED <<m_waiters, waitersHead, next>> /\ oldState[c] # NotLocked
  BY DEF AwaitEnqueue
<1>1. c \notin Queued /\ c \notin Holders  BY <1>0 DEF Queued, Holders, Holding
<1>a. CASE UNCHANGED <<m_state, pc>>
  <2>1. Holders' = Holders /\ Queued' = Queued  BY <1>a DEF Holders, Queued
  <2> QED  BY <1>0, <1>1, <1>a, <2>1, ListsLeftAlone
<1>b. CASE m_state = oldState[c] /\ m_state' = c /\ pc' = [pc EXCEPT ![c] = "queued"]
  <2>1. PICK u, w, v, z : Chains(u, w, v, z) /\ WaitQueue = InOrder(u, w, v, z)
    BY DEF ChainsInv, WaitQueue
  <2>2. Holders' = Holders /\ Queued' = Queued \cup {c}
    BY <1>0, <1>b DEF Holders, Holding, Queued, TypeOK
  <2>3. Owner' = Owner  BY <2>2 DEF Owner
  <2>4. InUnlock(next)' = InUnlock(next) /\ InUnlock(waitersHead)' = InUnlock(waitersHead)
    BY <1>0, <2>3 DEF InUnlock
  <2>5. /\ DOMAIN m_next = Coroutines
        /\ u \in Seq(Coroutines) /\ w \in Seq(Coroutines)
        /\ v \in Seq(Coroutines) /\ z \in Seq(Coroutines)
    BY <2>1, ChainTypes
  <2>6. c \notin Range(u) /\ c \notin Range(w) /\ c \notin Range(v) /\ c \notin Range(z)
    BY <1>1, <2>1 DEF Chains
  <2>7. ASSUME NEW s, NEW head, IsList(s, head, m_next), c \notin Range(s)
        PROVE  IsList(s, head, m_next')
    BY <1>0, <2>7, ListElsewhere
  <2>8. PICK x : x = <<c>> \o z  OBVIOUS
  <2>9. IsList(x, c, m_next') /\ Range(x) = {c} \cup Range(z)
    <3>1. IsList(z, m_state, m_next)  BY <2>1 DEF Chains
    <3>2. IsList(x, c, m_next')  BY <1>0, <1>b, <2>5, <2>6, <2>8, <3>1, ListPushed
    <3> QED  BY <2>5, <2>8, <3>2, PushedRange
  <2>10. Chains(u, w, v, x)'
    BY <1>0, <1>b, <2>1, <2>2, <2>4, <2>6, <2>7, <2>9 DEF Chains
  <2>11. ChainsInv' /\ WaitQueue' = InOrder(u, w, v, x)  BY <2>10, ChainsFound
  <2>12. WaitQueue' = Append(WaitQueue, c)
    <3>1. PICK p, r : p = Reverse(u) \o w \o v /\ r = Reverse(z)  OBVIOUS
    <3>2. p \in Seq(Coroutines) /\ r \in Seq(Coroutines)  BY <2>5, <3>1, ReverseType
    <3>3. Reverse(x) = Append(r, c)  BY <2>5, <2>8, <3>1, ReversePushed
    <3>4. p \o Append(r, c) = Append(p \o r, c)  BY <3>2
    <3> QED  BY <2>1, <2>11, <3>1, <3>3, <3>4 DEF InOrder
  <2>13. \A i \in DOMAIN WaitQueue : WaitQueue[i] # c
    <3>1. u \in Seq(Queued) /\ w \in Seq(Queued) /\ v \in Seq(Queued) /\ z \in Seq(Queued)
      BY <2>1, ChainsOfQueued
    <3>2. WaitQueue \in Seq(Queued)  BY <2>1, <3>1, QueueType
    <3> QED  BY <1>1, <3>2
  <2>14. Owner \notin {Null, c}
    <3>1. PICK h \in Coroutines : Holders = {h}
      BY <1>0, <1>b DEF LockedIffHeld, MutualExclusion, Holders
    <3> QED  BY <1>1, <3>1, TheOwner
  <2>15. FIFO!Enqueue(c)  BY <2>3, <2>12, <2>13, <2>14 DEF FIFO!Enqueue
  <2> QED  BY <2>11, <2>15 DEF FifoStep, FIFO!Next
<1> QED  BY <1>a, <1>b DEF AwaitEnqueue

(* The exchange of unlock and its reversing loop only move the waiters     *)
(* from list to list.                                                      *)
LEMMA TakeIsFifo ==
  ASSUME IInv, IInv', ChainsInv, NEW t \in Threads, NEW c \in Coroutines, TakeNewWaiters(t, c)
  PROVE  FifoStep
<1> USE MutexConstants DEF IInv, LockedNoWaiters
<1>0. /\ pc[c] = "takeover" /\ pc' = [pc EXCEPT ![c] = "reversing"]
      /\ m_state' = Null /\ next' = [next EXCEPT ![c] = m_state]
      /\ UNCHANGED <<m_waiters, m_next, waitersHead>>
  BY DEF TakeNewWaiters
<1>1. Holders = {c} /\ Holders' = {c} /\ Queued' = Queued
  BY <1>0 DEF Queued, Holders, Holding, TypeOK, MutualExclusion
<1>2. Owner = c /\ Owner' = c  BY <1>1, TheOwner
<1>3. m_waiters = Null /\ waitersHead[c] = Null /\ next[c] = Null
  BY <1>0 DEF UnlockPhases
<1>4. InUnlock(next) = Null /\ InUnlock(next)' = m_state
      /\ InUnlock(waitersHead) = Null /\ InUnlock(waitersHead)' = Null
  BY <1>0, <1>2, <1>3 DEF InUnlock, TypeOK
<1>5. PICK u, w, v, z : Chains(u, w, v, z) /\ WaitQueue = InOrder(u, w, v, z)
  BY DEF ChainsInv, WaitQueue
<1>6. DOMAIN m_next = Coroutines /\ z \in Seq(Coroutines)  BY <1>5, ChainTypes
<1>7. Null \notin DOMAIN m_next  BY <1>6
<1>8. u = <<>> /\ w = <<>> /\ v = <<>>  BY <1>3, <1>4, <1>5, <1>7, NoList DEF Chains
<1>9. IsList(<<>>, Null, m_next)  BY <1>7, NoList
<1>10. Range(<<>>) = {}  BY DEF Range
<1>11. Chains(z, <<>>, <<>>, <<>>)'
  BY <1>0, <1>1, <1>3, <1>4, <1>5, <1>9, <1>10 DEF Chains
<1>12. ChainsInv' /\ WaitQueue' = InOrder(z, <<>>, <<>>, <<>>)  BY <1>11, ChainsFound
<1>13. WaitQueue' = WaitQueue  BY <1>5, <1>6, <1>8, <1>12, QueueOfOne
<1> QED  BY <1>2, <1>12, <1>13 DEF FifoStep, FIFO!vars

LEMMA ReverseIsFifo ==
  ASSUME IInv, IInv', ChainsInv, NEW t \in Threads, NEW c \in Coroutines, ReverseStep(t, c)
  PROVE  FifoStep
<1> USE MutexConstants DEF IInv
<1>n. PICK n, h : n = next[c] /\ h = waitersHead[c]  OBVIOUS
<1>0. /\ pc[c] = "reversing"
      /\ pc' = [pc EXCEPT ![c] = IF m_next[n] = Null THEN "handoff" ELSE @]
      /\ m_next' = [m_next EXCEPT ![n] = h]
      /\ waitersHead' = [waitersHead EXCEPT ![c] = n]
      /\ next' = [next EXCEPT ![c] = m_next[n]]
      /\ UNCHANGED <<m_state, m_waiters>>
  BY <1>n DEF ReverseStep
<1>1. Holders = {c} /\ Holders' = {c} /\ Queued' = Queued
  BY <1>0 DEF Queued, Holders, Holding, TypeOK, MutualExclusion
<1>2. Owner = c /\ Owner' = c  BY <1>1, TheOwner
<1>3. m_waiters = Null /\ n # Null  BY <1>0, <1>n DEF UnlockPhases
<1>4. InUnlock(next) = n /\ InUnlock(next)' = m_next[n]
      /\ InUnlock(waitersHead) = h /\ InUnlock(waitersHead)' = n
  BY <1>0, <1>2, <1>n DEF InUnlock, TypeOK
<1>5. PICK u, w, v, z : Chains(u, w, v, z) /\ WaitQueue = InOrder(u, w, v, z)
  BY DEF ChainsInv, WaitQueue
<1>6. /\ DOMAIN m_next = Coroutines
      /\ u \in Seq(Coroutines) /\ w \in Seq(Coroutines) /\ z \in Seq(Coroutines)
  BY <1>5, ChainTypes
<1>7. n \in DOMAIN m_next  BY <1>3, <1>6, <1>n DEF TypeOK, Pointer
<1>8. /\ u # <<>> /\ Head(u) = n /\ IsList(Tail(u), m_next[n], m_next)
      /\ Range(u) = {n} \cup Range(Tail(u)) /\ n \notin Range(Tail(u))
  <2>1. IsList(u, n, m_next)  BY <1>4, <1>5 DEF Chains
  <2> QED  BY <1>7, <2>1, ListPopped
<1>9. n \notin Range(w) /\ n \notin Range(z)  BY <1>5, <1>8 DEF Chains
<1>10. v = <<>> /\ IsList(<<>>, Null, m_next')
  <2>1. Null \notin DOMAIN m_next /\ Null \notin DOMAIN m_next'  BY <1>0, <1>6
  <2> QED  BY <1>3, <1>5, <2>1, NoList DEF Chains
<1>11. Range(<<>>) = {}  BY DEF Range
<1>12. IsList(Tail(u), m_next[n], m_next')  BY <1>0, <1>8, ListElsewhere
<1>13. IsList(z, m_state, m_next')  BY <1>0, <1>5, <1>9, ListElsewhere DEF Chains
<1>14. IsList(<<n>> \o w, n, m_next')
  <2>1. IsList(w, h, m_next)  BY <1>4, <1>5 DEF Chains
  <2> QED  BY <1>0, <1>7, <1>9, <2>1, ListPushed
<1>15. Range(<<n>> \o w) = {n} \cup Range(w)  BY <1>6, <1>7, PushedRange
<1>16. Chains(Tail(u), <<n>> \o w, <<>>, z)'
  <2>1. /\ IsList(Tail(u), InUnlock(next)', m_next')
        /\ IsList(<<n>> \o w, InUnlock(waitersHead)', m_next')
        /\ IsList(<<>>, m_waiters', m_next')
        /\ IsList(z, m_state', m_next')
    BY <1>0, <1>3, <1>4, <1>10, <1>12, <1>13, <1>14
  <2>2. /\ Range(u) \cup Range(w) \cup Range(z) \subseteq Queued
        /\ Range(u) \cap Range(w) = {} /\ (Range(u) \cup Range(w)) \cap Range(z) = {}
    BY <1>5 DEF Chains
  <2>3. /\ Range(Tail(u)) \cup Range(<<n>> \o w) \cup Range(<<>>) \cup Range(z) \subseteq Queued'
        /\ Range(Tail(u)) \cap Range(<<n>> \o w) = {}
        /\ (Range(Tail(u)) \cup Range(<<n>> \o w) \cup Range(<<>>)) \cap Range(z) = {}
    BY <1>1, <1>8, <1>11, <1>15, <2>2
  <2> QED  BY <2>1, <2>3 DEF Chains
<1>17. ChainsInv' /\ WaitQueue' = InOrder(Tail(u), <<n>> \o w, <<>>, z)
  <2>1. PICK r, x : r = Tail(u) /\ x = <<n>> \o w  OBVIOUS
  <2>2. Chains(r, x, <<>>, z)'  BY <1>16, <2>1 DEF Chains
  <2> QED  BY <2>1, <2>2, ChainsFound
<1>18. WaitQueue' = WaitQueue  BY <1>5, <1>6, <1>8, <1>10, <1>17, QueueMoved
<1> QED  BY <1>2, <1>17, <1>18 DEF FifoStep, FIFO!vars

(* Resuming the first waiter is HandOver: it was first in the queue, and   *)
(* it is the next owner.                                                   *)
LEMMA HandOffIsFifo ==
  ASSUME IInv, IInv', ChainsInv, NEW t \in Threads, NEW c \in Coroutines, NEW n, HandOff(t, c, n),
         \/ pc[c] = "critical" /\ n = m_waiters /\ m_waiters # Null
         \/ pc[c] = "handoff" /\ n = waitersHead[c]
  PROVE  FifoStep
<1> USE MutexConstants DEF IInv
<1>0. /\ m_waiters' = m_next[n]
      /\ m_next' = [m_next EXCEPT ![n] = Null]
      /\ waitersHead' = [waitersHead EXCEPT ![c] = Null]
      /\ pc' = [pc EXCEPT ![c] = "resuming", ![n] = "critical"]
      /\ UNCHANGED <<m_state, next>>
  BY DEF HandOff
<1>1. Holders = {c}  BY DEF Holders, Holding, TypeOK, MutualExclusion
<1>2. n \in Queued /\ n # c  BY <1>1 DEF UnlockPhases, WaitersOnly, Queued
<1>3. Queued' = Queued \ {n} /\ Holders' = {n}
  BY <1>0, <1>1, <1>2 DEF Queued, Holders, Holding, TypeOK
<1>4. Owner = c /\ Owner' = n  BY <1>1, <1>3, TheOwner
<1>5. /\ \A d \in Coroutines : next[d] = Null /\ (d # c => waitersHead[d] = Null)
      /\ waitersHead'[n] = Null
  BY <1>0, <1>1, <1>2 DEF UnlockPhases, Holders, Holding, Queued, TypeOK
<1>6. PICK u, w, v, z : Chains(u, w, v, z) /\ WaitQueue = InOrder(u, w, v, z)
  BY DEF ChainsInv, WaitQueue
<1>7. /\ DOMAIN m_next = Coroutines /\ n \in DOMAIN m_next /\ n \in Coroutines
      /\ w \in Seq(Coroutines) /\ v \in Seq(Coroutines) /\ z \in Seq(Coroutines)
  BY <1>2, <1>6, ChainTypes DEF Queued
<1>8. Null \notin DOMAIN m_next /\ Null \notin DOMAIN m_next'  BY <1>0, <1>7
<1>9. InUnlock(next) = Null /\ InUnlock(next)' = Null /\ InUnlock(waitersHead)' = Null
  BY <1>0, <1>4, <1>5, <1>7 DEF InUnlock
<1>10. u = <<>>  BY <1>6, <1>8, <1>9, NoList DEF Chains
(* s is the list of the waiter that is resumed.                            *)
<1>11. PICK s : /\ IsList(s, n, m_next) /\ s \in Seq(Coroutines)
                /\ WaitQueue = InOrder(<<>>, <<>>, s, z)
                /\ Range(s) \subseteq Queued /\ Range(s) \cap Range(z) = {}
  <2>1. CASE pc[c] = "critical" /\ n = m_waiters
    <3>1. waitersHead[c] = Null  BY <2>1 DEF UnlockPhases
    <3>2. InUnlock(waitersHead) = Null  BY <1>4, <3>1 DEF InUnlock
    <3>3. w = <<>>  BY <1>6, <1>8, <3>2, NoList DEF Chains
    <3> QED  BY <1>6, <1>7, <1>10, <2>1, <3>3 DEF Chains
  <2>2. CASE pc[c] = "handoff" /\ n = waitersHead[c]
    <3>1. m_waiters = Null  BY <2>2 DEF UnlockPhases
    <3>2. v = <<>>  BY <1>6, <1>8, <3>1, NoList DEF Chains
    <3>3. InUnlock(waitersHead) = n  BY <1>4, <2>2 DEF InUnlock
    <3>4. IsList(w, n, m_next)  BY <1>6, <3>3 DEF Chains
    <3>5. w # <<>>  BY <1>7, <3>4 DEF IsList
    <3>6. InOrder(<<>>, w, <<>>, z) = InOrder(<<>>, <<>>, w, z)  BY <1>7, <3>5, QueuePopped
    <3> QED  BY <1>6, <1>7, <1>10, <3>2, <3>4, <3>6 DEF Chains
  <2> QED  BY <2>1, <2>2
<1>12. /\ s # <<>> /\ Head(s) = n /\ IsList(Tail(s), m_next[n], m_next)
       /\ Range(s) = {n} \cup Range(Tail(s)) /\ n \notin Range(Tail(s))
  BY <1>7, <1>11, ListPopped
<1>13. IsList(Tail(s), m_next[n], m_next')  BY <1>0, <1>12, ListElsewhere
<1>14. IsList(z, m_state, m_next')
  <2>1. n \notin Range(z) /\ IsList(z, m_state, m_next)  BY <1>6, <1>11, <1>12 DEF Chains
  <2> QED  BY <1>0, <2>1, ListElsewhere
<1>15. IsList(<<>>, Null, m_next') /\ Range(<<>>) = {}  BY <1>8, NoList DEF Range
<1>16. PICK r : r = Tail(s)  OBVIOUS
<1>17. Chains(<<>>, <<>>, r, z)'
  <2>1. Range(z) \subseteq Queued  BY <1>6 DEF Chains
  <2> QED  BY <1>0, <1>3, <1>9, <1>11, <1>12, <1>13, <1>14, <1>15, <1>16, <2>1 DEF Chains
<1>18. ChainsInv' /\ WaitQueue' = InOrder(<<>>, <<>>, r, z)  BY <1>17, ChainsFound
<1>19. WaitQueue # <<>> /\ Head(WaitQueue) = n /\ Tail(WaitQueue) = InOrder(<<>>, <<>>, r, z)
  BY <1>7, <1>11, <1>12, <1>16, QueuePopped
<1>20. FIFO!HandOver  BY <1>4, <1>7, <1>18, <1>19 DEF FIFO!HandOver
<1> QED  BY <1>18, <1>20 DEF FifoStep, FIFO!Next

LEMMA NextIsFifo == IInv /\ IInv' /\ ChainsInv /\ [Next]_vars => FifoStep
<1> SUFFICES ASSUME IInv, IInv', ChainsInv, [Next]_vars PROVE FifoStep  OBVIOUS
<1>1. CASE UNCHANGED vars
  <2>1. PICK u, w, v, z : Chains(u, w, v, z) /\ WaitQueue = InOrder(u, w, v, z)
    BY DEF ChainsInv, WaitQueue
  <2>2. Owner' = Owner  BY <1>1 DEF vars, Owner, Holders
  <2>3. InUnlock(next)' = InUnlock(next) /\ InUnlock(waitersHead)' = InUnlock(waitersHead)
    BY <1>1, <2>2 DEF vars, InUnlock
  <2>4. Chains(u, w, v, z)'  BY <1>1, <2>1, <2>3 DEF vars, Chains, Queued
  <2>5. ChainsInv' /\ WaitQueue' = WaitQueue  BY <2>1, <2>4, ChainsFound DEF IInv
  <2> QED  BY <2>2, <2>5 DEF FifoStep, FIFO!vars
<1>2. ASSUME NEW t \in Threads, NEW c \in Coroutines, Library(t, c) \/ Client(t, c)
      PROVE  FifoStep
  <2> USE DEF IInv
  <2>1. ASSUME NEW n \in Coroutines, n \notin Queued, Holders' = Holders, Queued' = Queued,
               UNCHANGED <<m_state, m_waiters, m_next, waitersHead, next>>
        PROVE  FifoStep
    BY <2>1, ListsLeftAlone
  <2>2. CASE Enter(t, c) \/ Leave(t, c) \/ LockAsync(t, c) \/ UnlockReturns(t, c)
    <3>1. Holders' = Holders /\ Queued' = Queued /\ c \notin Queued
      BY <2>2 DEF Enter, Leave, LockAsync, UnlockReturns, Holders, Holding, Queued, TypeOK
    <3> QED  BY <2>1, <2>2, <3>1 DEF Enter, Leave, LockAsync, UnlockReturns
  <2>3. ASSUME NEW d \in Coroutines, Switch(t, c, d) PROVE FifoStep
    <3>1. /\ pc[c] \in {"running", "critical"} /\ pc[d] \in {"parked", "away"}
          /\ pc'[c] = IF pc[c] = "running" THEN "parked" ELSE "away"
          /\ pc'[d] = IF pc[d] = "parked" THEN "running" ELSE "critical"
          /\ \A e \in Coroutines : e # c /\ e # d => pc'[e] = pc[e]
      BY <2>3 DEF Switch, TypeOK
    <3>2. ASSUME NEW e \in Coroutines
          PROVE  (pc'[e] \in Holding <=> pc[e] \in Holding) /\ (pc'[e] = "queued" <=> pc[e] = "queued")
      BY <3>1 DEF Holding
    <3>3. Holders' = Holders /\ Queued' = Queued /\ c \notin Queued
      BY <3>1, <3>2 DEF Holders, Queued
    <3> QED  BY <2>1, <2>3, <3>3 DEF Switch
  <2>4. CASE TryLock(t, c) \/ AwaitAcquire(t, c)
    <3>1. CASE UNCHANGED <<m_state, pc>>
      <4>1. Holders' = Holders /\ Queued' = Queued /\ c \notin Queued
        BY <2>4, <3>1 DEF TryLock, AwaitAcquire, Holders, Queued
      <4> QED  BY <2>1, <2>4, <3>1, <4>1 DEF TryLock, AwaitAcquire
    <3>2. CASE m_state = NotLocked /\ m_state' = LockedNoWaiters  BY <2>4, <3>2, AcquireIsFifo
    <3> QED  BY <2>4, <3>1, <3>2 DEF TryLock, AwaitAcquire
  <2>5. CASE AwaitEnqueue(t, c)  BY <2>5, EnqueueIsFifo
  <2>6. CASE UnlockRelease(t, c)  BY <2>6, ReleaseIsFifo
  <2>7. CASE TakeNewWaiters(t, c)  BY <2>7, TakeIsFifo
  <2>8. CASE ReverseStep(t, c)  BY <2>8, ReverseIsFifo
  <2>9. CASE UnlockHandOff(t, c)  BY <2>9, HandOffIsFifo DEF UnlockHandOff
  <2>10. CASE ResumeFirst(t, c)  BY <2>10, HandOffIsFifo DEF ResumeFirst
  <2> HIDE DEF IInv
  <2> QED
    BY <1>2, <2>2, <2>3, <2>4, <2>5, <2>6, <2>7, <2>8, <2>9, <2>10 DEF Library, Client, Unlock
<1> QED  BY <1>1, <1>2 DEF Next

(* async_mutex is a first-come-first-served lock, whatever the number of   *)
(* threads, coroutines and waiters: the coroutines that queue get it in    *)
(* the order of their compare_exchange, nobody overtakes them, and a lock  *)
(* with waiters is handed over without being free in between.              *)
THEOREM MutexIsFifoLock == Spec => ImplementsFifoLock
<1>1. Init => FIFO!Init /\ ChainsInv
  <2> SUFFICES ASSUME Init PROVE FIFO!Init /\ ChainsInv  OBVIOUS
  <2>1. TypeOK  BY InitIInv DEF IInv
  <2>2. Owner = Null
    <3>1. Holders = {}  BY DEF Init, Holders, Holding
    <3> QED  BY <3>1, TheOwner
  <2>3. Chains(<<>>, <<>>, <<>>, <<>>) /\ (ChainsInv => WaitQueue = <<>>)
    BY <2>1, <2>2, NobodyQueued DEF Init
  <2>4. ChainsInv
    <3>1. IsFiniteSet(DOMAIN m_next)  BY <2>1, FiniteCoroutines DEF TypeOK
    <3>2. /\ List(InUnlock(next)) = <<>> /\ List(InUnlock(waitersHead)) = <<>>
          /\ List(m_waiters) = <<>> /\ List(m_state) = <<>>
      BY <2>3, <3>1, ListIs DEF List, Chains
    <3> QED  BY <2>3, <3>2 DEF ChainsInv
  <2> QED  BY <2>2, <2>3, <2>4 DEF FIFO!Init
<1>2. IInv /\ IInv' /\ ChainsInv /\ [Next]_vars => ChainsInv' /\ [FIFO!Next]_(FIFO!vars)
  BY NextIsFifo DEF FifoStep
<1> QED  BY <1>1, <1>2, Invariance, PTL DEF Spec, ImplementsFifoLock, FIFO!Spec

-----------------------------------------------------------------------------
(* AsyncMutexLock.  A guard that passes the lock on is the one step that   *)
(* is none of AsyncMutex.                                                  *)
LEMMA PassKeepsIInv ==
  ASSUME IInv, NEW t \in Threads, NEW c \in Coroutines, NEW i, NEW d \in Coroutines,
         pc[c] = "critical", Pass(t, c, i, d)
  PROVE  IInv'
<1> USE MutexConstants DEF IInv
<1>0. /\ pc' = [pc EXCEPT ![c] = "running", ![d] = "away"] /\ pc[d] = "parked"
      /\ UNCHANGED <<m_state, m_waiters, m_next, oldState, waitersHead, next, stack>>
  BY DEF Pass
<1>p. /\ pc'[c] = "running" /\ pc'[d] = "away"
      /\ \A e \in Coroutines : e # c /\ e # d => pc'[e] = pc[e]
  BY <1>0 DEF TypeOK
<1>1. TypeOK'  BY <1>0 DEF TypeOK, StackTypeOK, Locations
<1>2. Queued' = Queued  BY <1>0, <1>p DEF Queued
<1>3. Holders = {c}  BY DEF MutualExclusion, Holders, Holding
<1>4. Holders' = {d}  BY <1>0, <1>p, <1>3 DEF Holders, Holding
<1>5. MutualExclusion' /\ LockedIffHeld'
  BY <1>0, <1>3, <1>4 DEF MutualExclusion, LockedIffHeld
<1>6. UnlockPhases'
  <2> SUFFICES ASSUME NEW e \in Coroutines
               PROVE  \/ pc'[e] = pc[e]
                      \/ /\ pc[e] \notin {"takeover", "reversing", "handoff"}
                         /\ pc'[e] \notin {"takeover", "reversing", "handoff"}
    BY <1>0 DEF UnlockPhases
  <2> QED  BY <1>0, <1>p
<1>7. WaitersOnly' /\ NoSharedWaiter'  BY <1>0, <1>2 DEF WaitersOnly, NoSharedWaiter
<1>8. NoLostWaiter'  BY <1>0, <1>2 DEF NoLostWaiter, Heads
<1> QED  BY <1>1, <1>5, <1>6, <1>7, <1>8

(* The inductive invariant of the guards: a coroutine that keeps the lock  *)
(* in client code has one guard, or none and then the lock without, and    *)
(* nobody else has either.                                                 *)
GuardTypes ==
  /\ guards \in [Coroutines -> Seq(GuardStates)]
  /\ \A c \in Coroutines : Len(guards[c]) <= MaxGuards
  /\ bare \subseteq Coroutines
  /\ \A c \in scoped :
       c \in Coroutines /\ pc[c] \in {"locking", "queued"} /\ Len(guards[c]) < MaxGuards

Keeps(c) == pc[c] \in {"critical", "away"}

Has(c, i) ==
  \/ i \in 1..Len(guards[c]) /\ guards[c][i] = "owning"
  \/ i = 0 /\ c \in bare

GuardInv ==
  /\ GuardTypes
  /\ \A c, d \in Coroutines, i, j \in Nat : Has(c, i) /\ Has(d, j) => c = d /\ i = j
  /\ \A c \in Coroutines : Keeps(c) <=> \E i \in Nat : Has(c, i)

(* A guard is constructed behind those of the frame.                       *)
LEMMA OneMore ==
  ASSUME NEW s \in Seq(GuardStates), NEW r, r = Append(s, "owning")
  PROVE  /\ r \in Seq(GuardStates)
         /\ Len(s) \in Nat /\ Len(r) = Len(s) + 1 /\ r[Len(s) + 1] = "owning"
         /\ \A i \in 1..Len(s) : r[i] = s[i]
BY DEF GuardStates

LEMMA FirstOnes ==
  ASSUME NEW s \in Seq(GuardStates), NEW n \in Nat, n <= Len(s)
  PROVE  /\ SubSeq(s, 1, n) \in Seq(GuardStates) /\ Len(SubSeq(s, 1, n)) = n
         /\ \A i \in 1..n : SubSeq(s, 1, n)[i] = s[i]
<1>1. SubSeq(s, 1, n) \in Seq(GuardStates)  OBVIOUS
<1>2. Len(SubSeq(s, 1, n)) = n  OBVIOUS
<1>3. \A i \in 1..n : SubSeq(s, 1, n)[i] = s[i]  OBVIOUS
<1> QED  BY <1>1, <1>2, <1>3

(* What moving a guard does to the frames.                                 *)
Moved(g, c, i, d, h) ==
  \/ c = d /\ h = [g EXCEPT ![c] = Append([g[c] EXCEPT ![i] = "empty"], "owning")]
  \/ c # d /\ h = [g EXCEPT ![c] = [g[c] EXCEPT ![i] = "empty"], ![d] = Append(g[d], "owning")]

LEMMA OneMoved ==
  ASSUME NEW g \in [Coroutines -> Seq(GuardStates)], NEW c \in Coroutines, NEW d \in Coroutines,
         NEW i \in DOMAIN g[c], NEW h, Moved(g, c, i, d, h)
  PROVE  /\ h \in [Coroutines -> Seq(GuardStates)]
         /\ Len(g[d]) \in Nat /\ Len(h[d]) = Len(g[d]) + 1 /\ h[d][Len(g[d]) + 1] = "owning"
         /\ h[c][i] = "empty"
         /\ \A e \in Coroutines : e # d => Len(h[e]) = Len(g[e])
         /\ \A e \in Coroutines : \A j \in 1..Len(g[e]) : e # c \/ j # i => h[e][j] = g[e][j]
<1> DEFINE s == [g[c] EXCEPT ![i] = "empty"]
<1>1. g[c] \in Seq(GuardStates) /\ i \in 1..Len(g[c]) /\ Len(g[c]) \in Nat  OBVIOUS
<1>2. /\ s \in Seq(GuardStates) /\ Len(s) = Len(g[c]) /\ s[i] = "empty"
      /\ \A j \in 1..Len(g[c]) : j # i => s[j] = g[c][j]
  BY <1>1 DEF GuardStates
<1> HIDE DEF s
<1>3. CASE c = d
  <2>1. h = [g EXCEPT ![c] = Append(s, "owning")]  BY <1>3 DEF Moved, s
  <2>2. Append(s, "owning") \in Seq(GuardStates)  BY <1>2, OneMore
  <2>3. h \in [Coroutines -> Seq(GuardStates)]  BY <2>1, <2>2
  <2>4. h[c] = Append(s, "owning") /\ \A e \in Coroutines : e # c => h[e] = g[e]  BY <2>1
  <2>5. /\ Len(h[c]) = Len(g[c]) + 1 /\ h[c][Len(g[c]) + 1] = "owning"
        /\ \A j \in 1..Len(g[c]) : h[c][j] = s[j]
    BY <1>2, <2>3, <2>4
  <2> QED  BY <1>1, <1>2, <1>3, <2>3, <2>4, <2>5
<1>4. CASE c # d
  <2>1. h = [g EXCEPT ![c] = s, ![d] = Append(g[d], "owning")]  BY <1>4 DEF Moved, s
  <2>2. Append(g[d], "owning") \in Seq(GuardStates)  BY OneMore
  <2>3. h \in [Coroutines -> Seq(GuardStates)]  BY <1>2, <2>1, <2>2
  <2>4. /\ h[c] = s /\ h[d] = Append(g[d], "owning")
        /\ \A e \in Coroutines : e # c /\ e # d => h[e] = g[e]
    BY <1>4, <2>1
  <2>5. /\ Len(g[d]) \in Nat /\ Len(h[d]) = Len(g[d]) + 1 /\ h[d][Len(g[d]) + 1] = "owning"
        /\ \A j \in 1..Len(g[d]) : h[d][j] = g[d][j]
    BY <2>3, <2>4
  <2> QED  BY <1>1, <1>2, <1>4, <2>3, <2>4, <2>5
<1> QED  BY <1>3, <1>4

LEMMA GuardsUntouched ==
  ASSUME GuardInv, UNCHANGED <<guards, bare>>,
         \A c \in Coroutines : Keeps(c)' <=> Keeps(c),
         \A c \in scoped' :
           c \in Coroutines /\ pc'[c] \in {"locking", "queued"} /\ Len(guards[c]) < MaxGuards
  PROVE  GuardInv'
BY DEF GuardInv, GuardTypes, Has

(* Nobody keeps the lock, and a step gives it to w, guarded or not.        *)
LEMMA GuardsGranted ==
  ASSUME GuardTypes, NEW g \in [Coroutines -> Seq(GuardStates)],
         \A c \in Coroutines : Len(g[c]) <= Len(guards[c]) /\ \A i \in 1..Len(g[c]) : g[c][i] # "owning",
         AwaitResume(g, {}), NEW w \in Coroutines, Acquires = {w},
         \A c \in Coroutines : Keeps(c)' <=> c = w,
         \A c \in scoped \ {w} : pc'[c] = pc[c]
  PROVE  GuardInv'
<1> USE GuardConstants DEF GuardTypes
<1>1. CASE w \in scoped
  <2>1. /\ guards' = [c \in Coroutines |-> IF c = w THEN Append(g[c], "owning") ELSE g[c]]
        /\ bare' = {} /\ scoped' = scoped \ {w}
    BY <1>1 DEF AwaitResume
  <2>2. guards'[w] = Append(g[w], "owning") /\ \A c \in Coroutines : c # w => guards'[c] = g[c]
    BY <2>1
  <2>3. /\ Len(guards'[w]) = Len(g[w]) + 1 /\ guards'[w][Len(g[w]) + 1] = "owning"
        /\ \A i \in 1..Len(g[w]) : guards'[w][i] = g[w][i]
    BY <2>2
  <2>4. GuardTypes'
    <3>1. Append(g[w], "owning") \in Seq(GuardStates)  BY OneMore
    <3>2. guards' \in [Coroutines -> Seq(GuardStates)]  BY <2>1, <3>1
    <3>3. \A c \in Coroutines : Len(g[c]) \in Nat /\ Len(guards[c]) \in Nat  OBVIOUS
    <3>4. Len(guards'[w]) <= MaxGuards  BY <1>1, <2>3, <3>3
    <3>5. \A c \in Coroutines : c # w => Len(guards'[c]) <= MaxGuards  BY <2>2, <3>3
    <3>6. \A c \in scoped' :
            c \in scoped /\ c # w /\ c \in Coroutines /\ pc'[c] = pc[c] /\ guards'[c] = g[c]
      BY <2>1, <2>2
    <3>7. \A c \in scoped' : pc'[c] \in {"locking", "queued"} /\ Len(guards'[c]) < MaxGuards
      BY <3>3, <3>6
    <3> QED  BY <2>1, <3>2, <3>4, <3>5, <3>6, <3>7
  <2>5. \A c \in Coroutines, i \in Nat : Has(c, i)' <=> c = w /\ i = Len(g[w]) + 1
    BY <2>1, <2>2, <2>3 DEF Has
  <2>6. Len(g[w]) + 1 \in Nat  OBVIOUS
  <2> QED  BY <2>4, <2>5, <2>6 DEF GuardInv
<1>2. CASE w \notin scoped
  <2>1. guards' = g /\ bare' = {w} /\ scoped' = scoped \ {w}
    BY <1>2 DEF AwaitResume
  <2>2. GuardTypes'
    <3>3. \A c \in Coroutines : Len(g[c]) \in Nat /\ Len(guards[c]) \in Nat  OBVIOUS
    <3> QED  BY <1>2, <2>1, <3>3
  <2>3. \A c \in Coroutines, i \in Nat : Has(c, i)' <=> c = w /\ i = 0
    BY <2>1 DEF Has
  <2> QED  BY <2>2, <2>3 DEF GuardInv
<1> QED  BY <1>1, <1>2

(* The same when the step gives it to nobody.                              *)
LEMMA GuardsReleased ==
  ASSUME GuardTypes, NEW g \in [Coroutines -> Seq(GuardStates)],
         \A c \in Coroutines : Len(g[c]) <= Len(guards[c]) /\ \A i \in 1..Len(g[c]) : g[c][i] # "owning",
         AwaitResume(g, {}), Acquires = {},
         \A c \in Coroutines : ~Keeps(c)',
         \A c \in scoped : pc'[c] = pc[c]
  PROVE  GuardInv'
<1>1. guards' = g /\ bare' = {} /\ scoped' = scoped  BY DEF AwaitResume
<1>2. \A c \in Coroutines : Len(g[c]) \in Nat /\ Len(guards[c]) \in Nat  BY DEF GuardTypes
<1>3. GuardTypes'  BY <1>1, <1>2, GuardConstants DEF GuardTypes
<1>4. \A c \in Coroutines, i \in Nat : ~Has(c, i)'  BY <1>1 DEF Has
<1> QED  BY <1>3, <1>4 DEF GuardInv

(* unlock(), in a destructor or not, when g are the guards it leaves and   *)
(* none of them has the lock.                                              *)
LEMMA UnlockKeepsGuards ==
  ASSUME IInv, GuardTypes, NEW t \in Threads, NEW c \in Coroutines, Unlock(t, c),
         NEW g \in [Coroutines -> Seq(GuardStates)],
         \A d \in Coroutines : Len(g[d]) <= Len(guards[d]) /\ \A i \in 1..Len(g[d]) : g[d][i] # "owning",
         AwaitResume(g, {})
  PROVE  GuardInv'
<1>0. TypeOK /\ pc[c] = "critical" /\ \A d \in Coroutines : Keeps(d) => d = c
  BY DEF IInv, Unlock, UnlockRelease, UnlockHandOff, HandOff, MutualExclusion, Holders, Holding,
         Keeps
<1>s. \A d \in scoped : d \in Coroutines /\ d # c  BY <1>0 DEF GuardTypes
<1>1. CASE UnlockRelease(t, c)
  <2>1. PICK l \in {"running", "takeover"} : pc' = [pc EXCEPT ![c] = l]
    BY <1>1 DEF UnlockRelease
  <2>2. pc'[c] = l /\ \A d \in Coroutines : d # c => pc'[d] = pc[d]
    BY <1>0, <2>1 DEF TypeOK
  <2>3. Acquires = {}  BY <1>0, <2>2 DEF Acquires
  <2>4. \A d \in Coroutines : ~Keeps(d)'  BY <1>0, <2>2 DEF Keeps
  <2> QED  BY <1>s, <2>2, <2>3, <2>4, GuardsReleased
<1>2. CASE UnlockHandOff(t, c)
  <2>1. m_waiters \in Queued  BY <1>2 DEF UnlockHandOff, IInv, WaitersOnly
  <2>2. PICK w \in Queued : pc' = [pc EXCEPT ![c] = "resuming", ![w] = "critical"]
    BY <1>2, <2>1 DEF UnlockHandOff, HandOff
  <2>3. w \in Coroutines /\ pc[w] = "queued"  BY DEF Queued
  <2>4. /\ pc'[c] = "resuming" /\ pc'[w] = "critical"
        /\ \A d \in Coroutines : d # c /\ d # w => pc'[d] = pc[d]
    BY <1>0, <2>2, <2>3 DEF TypeOK
  <2>5. Acquires = {w}  BY <2>3, <2>4 DEF Acquires
  <2>6. \A d \in Coroutines : Keeps(d)' <=> d = w  BY <1>0, <2>4 DEF Keeps
  <2> QED  BY <1>s, <2>3, <2>4, <2>5, <2>6, GuardsGranted
<1> QED  BY <1>1, <1>2 DEF Unlock

(* Where there is one guard with a pointer, or one lock without a guard,   *)
(* there is no other, and its coroutine alone keeps the lock.              *)
LEMMA OwnedOnce ==
  ASSUME IInv, GuardInv, NEW c \in Coroutines, NEW i \in Nat, Has(c, i)
  PROVE  /\ Keeps(c)
         /\ \A d \in Coroutines, j \in Nat : Has(d, j) => d = c /\ j = i
         /\ \A d \in Coroutines : Keeps(d) => d = c
BY DEF GuardInv

LEMMA AdoptKeepsGuards ==
  ASSUME IInv, GuardInv, NEW t \in Threads, NEW c \in Coroutines, Adopt(t, c)
  PROVE  GuardInv'
<1> DEFINE n == Len(guards[c]) + 1
<1>1. Has(c, 0)  BY DEF Adopt, Has
<1>2. /\ guards \in [Coroutines -> Seq(GuardStates)] /\ n \in Nat /\ 0 < n /\ n <= MaxGuards
      /\ pc' = pc /\ scoped' = scoped /\ bare' = bare \ {c}
      /\ guards' = [guards EXCEPT ![c] = Append(guards[c], "owning")]
  BY GuardConstants DEF GuardInv, GuardTypes, Adopt, vars
<1>3. /\ guards' \in [Coroutines -> Seq(GuardStates)]
      /\ Len(guards'[c]) = n /\ guards'[c][n] = "owning"
      /\ \A i \in 1..Len(guards[c]) : guards'[c][i] = guards[c][i]
      /\ \A d \in Coroutines : d # c => guards'[d] = guards[d]
  <2>1. guards'[c] = Append(guards[c], "owning") /\ Append(guards[c], "owning") \in Seq(GuardStates)
    BY <1>2, OneMore
  <2>2. guards' \in [Coroutines -> Seq(GuardStates)]  BY <1>2, <2>1
  <2> QED  BY <1>2, <2>1, <2>2
<1>4. \A d \in Coroutines, i \in Nat : Has(d, i) <=> d = c /\ i = 0  BY <1>1, OwnedOnce
<1>5. \A d \in Coroutines, i \in Nat : Has(d, i)' <=> d = c /\ i = n
  <2>1. \A d \in Coroutines : d \in bare => d = c  BY <1>4 DEF Has
  <2>2. \A d \in Coroutines : \A i \in 1..Len(guards[d]) : guards[d][i] # "owning"
    BY <1>2, <1>4 DEF Has
  <2> QED  BY <1>2, <1>3, <2>1, <2>2 DEF Has
<1>6. \A d \in scoped : d # c  BY DEF GuardInv, GuardTypes, Adopt, InScope
<1>7. GuardTypes'  BY <1>2, <1>3, <1>6 DEF GuardInv, GuardTypes
<1>8. \A d \in Coroutines : Keeps(d)' <=> d = c
  BY <1>1, <1>2, OwnedOnce DEF Keeps
<1> QED  BY <1>2, <1>5, <1>7, <1>8 DEF GuardInv

(* The pointer of a guard of c moves into a new guard, of c or of d.       *)
LEMMA MovedKeepsGuards ==
  ASSUME IInv, GuardInv, NEW c \in Coroutines, NEW d \in Coroutines,
         NEW i \in DOMAIN guards[c], guards[c][i] = "owning", Len(guards[d]) < MaxGuards,
         Moved(guards, c, i, d, guards'), UNCHANGED <<bare, scoped>>,
         \A e \in scoped : e # d /\ pc'[e] = pc[e],
         \A e \in Coroutines : Keeps(e)' <=> e = d
  PROVE  GuardInv'
<1> DEFINE n == Len(guards[d]) + 1
<1>1. guards \in [Coroutines -> Seq(GuardStates)] /\ \A e \in Coroutines : Len(guards[e]) \in Nat
  BY DEF GuardInv, GuardTypes
<1>2. /\ guards' \in [Coroutines -> Seq(GuardStates)]
      /\ Len(guards'[d]) = n /\ guards'[d][n] = "owning"
      /\ guards'[c][i] = "empty"
      /\ \A e \in Coroutines : e # d => Len(guards'[e]) = Len(guards[e])
      /\ \A e \in Coroutines : \A j \in 1..Len(guards[e]) :
           e # c \/ j # i => guards'[e][j] = guards[e][j]
  <2>1. guards' \in [Coroutines -> Seq(GuardStates)]  BY <1>1, OneMoved
  <2>2. Len(guards'[d]) = n /\ guards'[d][n] = "owning" /\ guards'[c][i] = "empty"
    BY <1>1, OneMoved
  <2>3. \A e \in Coroutines : e # d => Len(guards'[e]) = Len(guards[e])
    BY <1>1, OneMoved
  <2>4. \A e \in Coroutines : \A j \in 1..Len(guards[e]) :
          e # c \/ j # i => guards'[e][j] = guards[e][j]
    BY <1>1, OneMoved
  <2> QED  BY <2>1, <2>2, <2>3, <2>4
<1>3. i \in 1..Len(guards[c]) /\ i \in Nat /\ n \in Nat /\ 0 < n /\ n <= MaxGuards
  BY <1>1, GuardConstants
<1>4. Has(c, i)  BY <1>3 DEF Has
<1>5. \A e \in Coroutines, j \in Nat : Has(e, j) => e = c /\ j = i
  BY <1>3, <1>4, OwnedOnce
<1>6. bare = {}
  <2>1. \A e \in Coroutines : e \notin bare  BY <1>3, <1>5 DEF Has
  <2> QED  BY <2>1 DEF GuardInv, GuardTypes
<1>7. ASSUME NEW e \in Coroutines, NEW j \in 1..Len(guards[e]) PROVE guards'[e][j] # "owning"
  <2>1. CASE e = c /\ j = i  BY <1>2, <2>1
  <2>2. CASE e # c \/ j # i
    <3>1. ~Has(e, j)  BY <1>1, <1>5, <2>2
    <3> QED  BY <1>2, <2>2, <3>1 DEF Has
  <2> QED  BY <2>1, <2>2
<1>8. ASSUME NEW e \in Coroutines, NEW j \in Nat
      PROVE  Has(e, j)' <=> e = d /\ j = n
  <2>1. CASE e = d
    <3>1. j \in 1..Len(guards'[d]) => j \in 1..Len(guards[d]) \/ j = n  BY <1>1, <1>2, <1>3
    <3>2. n \in 1..Len(guards'[d])  BY <1>2, <1>3
    <3> QED  BY <1>2, <1>3, <1>6, <1>7, <2>1, <3>1, <3>2 DEF Has
  <2>2. CASE e # d  BY <1>2, <1>6, <1>7, <2>2 DEF Has
  <2> QED  BY <2>1, <2>2
<1>9. GuardTypes'  BY <1>2, <1>3 DEF GuardInv, GuardTypes
<1> QED  BY <1>3, <1>8, <1>9 DEF GuardInv

LEMMA MoveKeepsGuards ==
  ASSUME IInv, GuardInv, NEW t \in Threads, NEW c \in Coroutines,
         NEW i \in DOMAIN guards[c], Move(t, c, i)
  PROVE  GuardInv'
<1>1. guards \in [Coroutines -> Seq(GuardStates)]  BY DEF GuardInv, GuardTypes
<1>2. /\ guards[c][i] = "owning" /\ Len(guards[c]) < MaxGuards /\ pc[c] \in {"running", "critical"}
      /\ pc' = pc /\ UNCHANGED <<bare, scoped>>
  BY DEF Move, InScope, vars
<1>3. Moved(guards, c, i, c, guards')  BY DEF Move, Moved
<1>4. Has(c, i) /\ i \in Nat  BY <1>1, <1>2 DEF Has
<1>5. \A e \in Coroutines : Keeps(e)' <=> e = c  BY <1>2, <1>4, OwnedOnce DEF Keeps
<1>6. \A e \in scoped : e # c /\ pc'[e] = pc[e]  BY <1>2 DEF GuardInv, GuardTypes
<1> QED  BY <1>2, <1>3, <1>5, <1>6, MovedKeepsGuards

LEMMA PassKeepsGuards ==
  ASSUME IInv, GuardInv, NEW t \in Threads, NEW c \in Coroutines, NEW d \in Coroutines,
         NEW i \in DOMAIN guards[c], Pass(t, c, i, d)
  PROVE  GuardInv' /\ pc[c] = "critical"
<1>1. guards \in [Coroutines -> Seq(GuardStates)] /\ pc \in [Coroutines -> Locations]
  BY DEF GuardInv, GuardTypes, IInv, TypeOK
<1>2. /\ guards[c][i] = "owning" /\ Len(guards[d]) < MaxGuards
      /\ pc[c] \in {"running", "critical"} /\ pc[d] = "parked" /\ c # d
      /\ pc' = [pc EXCEPT ![c] = "running", ![d] = "away"] /\ UNCHANGED <<bare, scoped>>
  BY DEF Pass, InScope
<1>3. Moved(guards, c, i, d, guards')  BY <1>2 DEF Pass, Moved
<1>4. Has(c, i) /\ i \in Nat  BY <1>1, <1>2 DEF Has
<1>5. \A e \in Coroutines : Keeps(e)' <=> e = d
  BY <1>1, <1>2, <1>4, OwnedOnce DEF Keeps
<1>6. \A e \in scoped : e # d /\ pc'[e] = pc[e]
  BY <1>1, <1>2 DEF GuardInv, GuardTypes
<1>7. pc[c] = "critical"  BY <1>2, <1>4, OwnedOnce DEF Keeps
<1> QED  BY <1>2, <1>3, <1>5, <1>6, <1>7, MovedKeepsGuards

LEMMA OneDestroyed ==
  ASSUME GuardTypes, NEW c \in Coroutines, guards[c] # <<>>, NEW g, g = Destroyed(c)
  PROVE  /\ g \in [Coroutines -> Seq(GuardStates)]
         /\ Len(guards[c]) \in Nat \ {0} /\ Len(g[c]) = Len(guards[c]) - 1
         /\ \A i \in 1..Len(g[c]) : g[c][i] = guards[c][i]
         /\ \A d \in Coroutines : d # c => g[d] = guards[d]
<1> DEFINE n == Len(guards[c]) - 1
<1>1. guards \in [Coroutines -> Seq(GuardStates)] /\ guards[c] \in Seq(GuardStates)
  BY DEF GuardTypes
<1>2. Len(guards[c]) \in Nat \ {0} /\ n \in Nat  BY <1>1
<1>3. /\ SubSeq(guards[c], 1, n) \in Seq(GuardStates) /\ Len(SubSeq(guards[c], 1, n)) = n
      /\ \A i \in 1..n : SubSeq(guards[c], 1, n)[i] = guards[c][i]
  <2>1. n <= Len(guards[c])  BY <1>2
  <2> QED  BY <1>1, <1>2, <2>1, FirstOnes
<1>4. g = [guards EXCEPT ![c] = SubSeq(guards[c], 1, n)]  BY DEF Destroyed
<1>5. g[c] = SubSeq(guards[c], 1, n) /\ \A d \in Coroutines : d # c => g[d] = guards[d]
  BY <1>1, <1>4
<1>6. g \in [Coroutines -> Seq(GuardStates)]  BY <1>1, <1>3, <1>4
<1> QED  BY <1>2, <1>3, <1>5, <1>6

LEMMA DestroyOwningKeepsGuards ==
  ASSUME IInv, GuardInv, NEW t \in Threads, NEW c \in Coroutines, DestroyOwning(t, c)
  PROVE  GuardInv'
<1> DEFINE n == Len(guards[c])
<1>1. /\ GuardTypes /\ guards[c] # <<>> /\ guards[c][n] = "owning"
      /\ Unlock(t, c) /\ AwaitResume(Destroyed(c), bare)
  BY DEF GuardInv, DestroyOwning
<1>2. PICK g : g = Destroyed(c)  OBVIOUS
<1>3. /\ g \in [Coroutines -> Seq(GuardStates)] /\ n \in Nat /\ 0 < n /\ Len(g[c]) = n - 1
      /\ \A i \in 1..Len(g[c]) : g[c][i] = guards[c][i]
      /\ \A d \in Coroutines : d # c => g[d] = guards[d]
  BY <1>1, <1>2, OneDestroyed
<1>4. Has(c, n)  BY <1>1, <1>3 DEF Has
<1>5. \A d \in Coroutines, j \in Nat : Has(d, j) => d = c /\ j = n  BY <1>3, <1>4, OwnedOnce
<1>6. bare = {}
  <2>1. \A d \in Coroutines : d \notin bare  BY <1>3, <1>5 DEF Has
  <2> QED  BY <1>1, <2>1 DEF GuardTypes
<1>7. \A d \in Coroutines : Len(guards[d]) \in Nat  BY <1>1 DEF GuardTypes
<1>8. ASSUME NEW d \in Coroutines
      PROVE  Len(g[d]) <= Len(guards[d]) /\ \A i \in 1..Len(g[d]) : g[d][i] # "owning"
  <2>1. Len(g[d]) <= Len(guards[d])  BY <1>3, <1>7
  <2>2. ASSUME NEW i \in 1..Len(g[d]) PROVE g[d][i] # "owning"
    <3>1. i \in Nat /\ i \in 1..Len(guards[d]) /\ g[d][i] = guards[d][i] /\ (d = c => i # n)
      BY <1>3, <1>7, <2>1
    <3> QED  BY <1>5, <3>1 DEF Has
  <2> QED  BY <2>1, <2>2
<1> QED  BY <1>1, <1>2, <1>3, <1>6, <1>8, UnlockKeepsGuards

LEMMA UnlockBareKeepsGuards ==
  ASSUME IInv, GuardInv, NEW t \in Threads, NEW c \in Coroutines, UnlockBare(t, c)
  PROVE  GuardInv'
<1>1. GuardTypes /\ c \in bare /\ Unlock(t, c) /\ AwaitResume(guards, bare \ {c})
  BY DEF GuardInv, UnlockBare
<1>2. Has(c, 0)  BY <1>1 DEF Has
<1>3. \A d \in Coroutines, j \in Nat : Has(d, j) => d = c /\ j = 0  BY <1>2, OwnedOnce
<1>4. bare \ {c} = {}
  <2>1. \A d \in Coroutines : d \in bare => d = c  BY <1>3 DEF Has
  <2> QED  BY <1>1, <2>1 DEF GuardTypes
<1>5. guards \in [Coroutines -> Seq(GuardStates)] /\ \A d \in Coroutines : Len(guards[d]) \in Nat
  BY <1>1 DEF GuardTypes
<1>6. \A d \in Coroutines :
        Len(guards[d]) <= Len(guards[d]) /\ \A i \in 1..Len(guards[d]) : guards[d][i] # "owning"
  BY <1>3, <1>5 DEF Has
<1> QED  BY <1>1, <1>4, <1>5, <1>6, UnlockKeepsGuards

LEMMA DestroyEmptyKeepsGuards ==
  ASSUME IInv, GuardInv, NEW t \in Threads, NEW c \in Coroutines, DestroyEmpty(t, c)
  PROVE  GuardInv'
<1> DEFINE n == Len(guards[c])
<1>1. /\ GuardTypes /\ guards[c] # <<>> /\ guards[c][n] = "empty" /\ guards' = Destroyed(c)
      /\ UNCHANGED <<pc, bare, scoped>>
  BY DEF GuardInv, DestroyEmpty, vars
<1>2. PICK g : g = Destroyed(c)  OBVIOUS
<1>3. /\ g \in [Coroutines -> Seq(GuardStates)] /\ n \in Nat /\ 0 < n /\ Len(g[c]) = n - 1
      /\ \A i \in 1..Len(g[c]) : g[c][i] = guards[c][i]
      /\ \A d \in Coroutines : d # c => g[d] = guards[d]
  BY <1>1, <1>2, OneDestroyed
<1>4. guards' = g  BY <1>1, <1>2
<1>5. ASSUME NEW d \in Coroutines, NEW j \in Nat PROVE Has(d, j)' <=> Has(d, j)
  <2>1. CASE d # c  BY <1>1, <1>3, <1>4, <2>1 DEF Has
  <2>2. CASE d = c
    <3>1. j \in 1..n <=> j \in 1..Len(g[c]) \/ j = n  BY <1>3
    <3>2. n \notin 1..Len(g[c])  BY <1>3
    <3> QED  BY <1>1, <1>3, <1>4, <2>2, <3>1, <3>2 DEF Has
  <2> QED  BY <2>1, <2>2
<1>6. \A d \in Coroutines : Len(g[d]) \in Nat /\ Len(g[d]) <= Len(guards[d]) /\ Len(guards[d]) \in Nat
  BY <1>1, <1>3 DEF GuardTypes
<1>7. GuardTypes'  BY <1>1, <1>3, <1>4, <1>6, GuardConstants DEF GuardTypes
<1>8. \A d \in Coroutines : Keeps(d)' <=> Keeps(d)  BY <1>1 DEF Keeps
<1> QED  BY <1>5, <1>7, <1>8 DEF GuardInv

(* While nobody keeps the lock in client code, there is no guard with a    *)
(* pointer and nobody holds it without one.                                *)
LEMMA NothingOwned ==
  ASSUME GuardInv, \A c \in Coroutines : ~Keeps(c)
  PROVE  /\ bare = {}
         /\ guards \in [Coroutines -> Seq(GuardStates)]
         /\ \A c \in Coroutines :
              Len(guards[c]) <= Len(guards[c]) /\ \A i \in 1..Len(guards[c]) : guards[c][i] # "owning"
<1>1. \A c \in Coroutines, i \in Nat : ~Has(c, i)  BY DEF GuardInv
<1>2. guards \in [Coroutines -> Seq(GuardStates)] /\ \A c \in Coroutines : Len(guards[c]) \in Nat
  BY DEF GuardInv, GuardTypes
<1>3. bare = {}
  <2>1. \A c \in Coroutines : c \notin bare  BY <1>1 DEF Has
  <2> QED  BY <2>1 DEF GuardInv, GuardTypes
<1>4. \A c \in Coroutines : \A i \in 1..Len(guards[c]) : guards[c][i] # "owning"
  BY <1>1, <1>2 DEF Has
<1> QED  BY <1>2, <1>3, <1>4

(* A step that gives nobody the lock leaves the guards alone.              *)
LEMMA NobodyGranted ==
  ASSUME GuardInv, AwaitResume(guards, bare),
         \A c \in Coroutines : pc'[c] # "critical" \/ pc'[c] = pc[c],
         \A c \in Coroutines : Keeps(c)' <=> Keeps(c),
         \A c \in scoped : pc'[c] \in {"locking", "queued"}
  PROVE  GuardInv'
<1>1. Acquires = {}  BY DEF Acquires
<1>2. guards \in [Coroutines -> Seq(GuardStates)]  BY DEF GuardInv, GuardTypes
<1>3. UNCHANGED <<guards, bare, scoped>>  BY <1>1, <1>2 DEF AwaitResume
<1> QED  BY <1>3, GuardsUntouched DEF GuardInv, GuardTypes

LEMMA LibraryKeepsGuards ==
  ASSUME IInv, GuardInv, NEW t \in Threads, NEW c \in Coroutines, InLibrary(t, c)
  PROVE  GuardInv'
<1>0. TypeOK /\ GuardTypes /\ Library(t, c) /\ AwaitResume(guards, bare)
  BY DEF InLibrary, IInv, GuardInv
<1>1. ASSUME NEW l \in Locations, pc' = [pc EXCEPT ![c] = l], l \notin {"critical", "away"}, ~Keeps(c),
             c \in scoped => l \in {"locking", "queued"}
      PROVE  GuardInv'
  <2>1. pc'[c] = l /\ \A d \in Coroutines : d # c => pc'[d] = pc[d]
    BY <1>0, <1>1 DEF TypeOK
  <2>2. \A d \in Coroutines : pc'[d] # "critical" \/ pc'[d] = pc[d]  BY <1>1, <2>1
  <2>3. \A d \in Coroutines : Keeps(d)' <=> Keeps(d)  BY <1>1, <2>1 DEF Keeps
  <2>4. \A d \in scoped : pc'[d] \in {"locking", "queued"}  BY <1>0, <1>1, <2>1 DEF GuardTypes
  <2> QED  BY <1>0, <2>2, <2>3, <2>4, NobodyGranted
<1>2. CASE UNCHANGED pc
  BY <1>0, <1>2, NobodyGranted DEF Keeps, GuardTypes
<1>s. c \in scoped => pc[c] \in {"locking", "queued"}  BY <1>0 DEF GuardTypes
<1>3. CASE AwaitAcquire(t, c)
  <2>1. CASE m_state = NotLocked /\ pc' = [pc EXCEPT ![c] = "critical"]
    <3>1. \A d \in Coroutines : ~Keeps(d)
      BY <2>1 DEF IInv, LockedIffHeld, Holders, Holding, Keeps
    <3>2. pc[c] = "locking" /\ pc'[c] = "critical" /\ \A d \in Coroutines : d # c => pc'[d] = pc[d]
      BY <1>0, <1>3, <2>1 DEF AwaitAcquire, TypeOK
    <3>3. Acquires = {c}  BY <3>1, <3>2 DEF Acquires, Keeps
    <3>4. \A d \in Coroutines : Keeps(d)' <=> d = c  BY <3>1, <3>2 DEF Keeps
    <3>5. \A d \in scoped \ {c} : pc'[d] = pc[d]  BY <1>0, <3>2 DEF GuardTypes
    <3>6. AwaitResume(guards, {})  BY <1>0, <3>1, NothingOwned
    <3> QED  BY <1>0, <3>1, <3>3, <3>4, <3>5, <3>6, NothingOwned, GuardsGranted
  <2> QED  BY <1>2, <1>3, <2>1 DEF AwaitAcquire
<1>4. CASE AwaitEnqueue(t, c)
  <2>1. pc[c] = "locking" /\ (pc' = [pc EXCEPT ![c] = "queued"] \/ UNCHANGED pc)
    BY <1>4 DEF AwaitEnqueue
  <2> QED  BY <1>1, <1>2, <2>1 DEF Keeps, Locations
<1>5. CASE TakeNewWaiters(t, c)
  BY <1>1, <1>5, <1>s DEF TakeNewWaiters, Keeps, Locations
<1>6. CASE UnlockReturns(t, c)
  BY <1>1, <1>6, <1>s DEF UnlockReturns, Keeps, Locations
<1>7. CASE ReverseStep(t, c)
  <2>1. pc[c] = "reversing" /\ \E l \in {"handoff", "reversing"} : pc' = [pc EXCEPT ![c] = l]
    BY <1>7 DEF ReverseStep
  <2> QED  BY <1>1, <1>s, <2>1 DEF Keeps, Locations
<1>8. CASE ResumeFirst(t, c)
  <2>1. pc[c] = "handoff" /\ waitersHead[c] \in Queued
    BY <1>8 DEF ResumeFirst, IInv, UnlockPhases, WaitersOnly
  <2>2. PICK w \in Queued : pc' = [pc EXCEPT ![c] = "resuming", ![w] = "critical"]
    BY <1>8, <2>1 DEF ResumeFirst, HandOff
  <2>3. w \in Coroutines /\ pc[w] = "queued"  BY DEF Queued
  <2>4. /\ pc'[c] = "resuming" /\ pc'[w] = "critical"
        /\ \A d \in Coroutines : d # c /\ d # w => pc'[d] = pc[d]
    BY <1>0, <2>1, <2>2, <2>3 DEF TypeOK
  <2>5. \A d \in Coroutines : ~Keeps(d)
    BY <2>1 DEF IInv, MutualExclusion, Holders, Holding, Keeps
  <2>6. Acquires = {w}  BY <2>3, <2>4, <2>5 DEF Acquires, Keeps
  <2>7. \A d \in Coroutines : Keeps(d)' <=> d = w  BY <2>4, <2>5 DEF Keeps
  <2>8. \A d \in scoped \ {w} : pc'[d] = pc[d]  BY <1>0, <1>s, <2>1, <2>4 DEF GuardTypes
  <2>9. AwaitResume(guards, {})  BY <1>0, <2>5, NothingOwned
  <2> QED  BY <1>0, <2>3, <2>5, <2>6, <2>7, <2>8, <2>9, NothingOwned, GuardsGranted
<1> QED  BY <1>0, <1>3, <1>4, <1>5, <1>6, <1>7, <1>8 DEF Library

LEMMA ClientKeepsGuards ==
  ASSUME IInv, GuardInv, NEW t \in Threads,
         \/ ClientSteps(t)
         \/ \E c \in Coroutines : TryLockBare(t, c) \/ BeginLock(t, c) \/ BeginScopedLock(t, c)
  PROVE  GuardInv'
<1>0. TypeOK /\ GuardTypes  BY DEF IInv, GuardInv
<1>1. CASE ClientSteps(t)
  <2>1. /\ UNCHANGED <<guards, bare, scoped>>
        /\ \E c, d \in Coroutines : Enter(t, c) \/ Leave(t, c) \/ Switch(t, c, d)
    BY <1>1 DEF ClientSteps, guardVars
  <2>2. ASSUME NEW e \in Coroutines
        PROVE  \/ pc'[e] = pc[e]
               \/ pc[e] \in {"running", "parked"} /\ pc'[e] \in {"running", "parked"}
               \/ pc[e] \in {"critical", "away"} /\ pc'[e] \in {"critical", "away"}
    <3>1. PICK c, d \in Coroutines : Enter(t, c) \/ Leave(t, c) \/ Switch(t, c, d)  BY <2>1
    <3>2. CASE Enter(t, c) \/ Leave(t, c)  BY <1>0, <3>2 DEF Enter, Leave, TypeOK
    <3>3. CASE Switch(t, c, d)
      <4>1. /\ pc[c] \in {"running", "critical"} /\ pc[d] \in {"parked", "away"}
            /\ pc'[c] = IF pc[c] = "running" THEN "parked" ELSE "away"
            /\ pc'[d] = IF pc[d] = "parked" THEN "running" ELSE "critical"
            /\ \A f \in Coroutines : f # c /\ f # d => pc'[f] = pc[f]
        BY <1>0, <3>3 DEF Switch, TypeOK
      <4>2. CASE e = c  BY <4>1, <4>2
      <4>3. CASE e = d  BY <4>1, <4>3
      <4> QED  BY <4>1, <4>2, <4>3
    <3> QED  BY <3>1, <3>2, <3>3
  <2>3. \A e \in Coroutines : Keeps(e)' <=> Keeps(e)  BY <2>2 DEF Keeps
  <2>4. \A e \in scoped' :
          e \in Coroutines /\ pc'[e] \in {"locking", "queued"} /\ Len(guards[e]) < MaxGuards
    BY <1>0, <2>1, <2>2 DEF GuardTypes
  <2> QED  BY <2>1, <2>3, <2>4, GuardsUntouched
<1>2. ASSUME NEW c \in Coroutines, TryLockBare(t, c) PROVE GuardInv'
  <2>1. /\ m_state = NotLocked /\ pc[c] = "running" /\ pc' = [pc EXCEPT ![c] = "critical"]
        /\ bare' = bare \cup {c} /\ UNCHANGED <<guards, scoped>>
    BY <1>2 DEF TryLockBare, TryLock
  <2>2. \A d \in Coroutines : ~Keeps(d)
    BY <2>1 DEF IInv, LockedIffHeld, Holders, Holding, Keeps
  <2>3. pc'[c] = "critical" /\ \A d \in Coroutines : d # c => pc'[d] = pc[d]
    BY <1>0, <2>1 DEF TypeOK
  <2>4. \A d \in Coroutines : Keeps(d)' <=> d = c  BY <2>2, <2>3 DEF Keeps
  <2>5. \A d \in Coroutines, i \in Nat : Has(d, i)' <=> d = c /\ i = 0
    BY <2>1, <2>2, NothingOwned DEF Has
  <2>6. GuardTypes'  BY <1>0, <2>1, <2>3 DEF GuardTypes
  <2> QED  BY <2>4, <2>5, <2>6 DEF GuardInv
<1>3. ASSUME NEW c \in Coroutines, BeginLock(t, c) \/ BeginScopedLock(t, c) PROVE GuardInv'
  <2>1. /\ pc[c] = "running" /\ pc' = [pc EXCEPT ![c] = "locking"] /\ UNCHANGED <<guards, bare>>
        /\ \/ scoped' = scoped
           \/ scoped' = scoped \cup {c} /\ Len(guards[c]) < MaxGuards
    BY <1>3 DEF BeginLock, BeginScopedLock, LockAsync
  <2>2. pc'[c] = "locking" /\ \A d \in Coroutines : d # c => pc'[d] = pc[d]
    BY <1>0, <2>1 DEF TypeOK
  <2>3. \A e \in Coroutines : Keeps(e)' <=> Keeps(e)  BY <2>1, <2>2 DEF Keeps
  <2>4. \A e \in scoped' :
          e \in Coroutines /\ pc'[e] \in {"locking", "queued"} /\ Len(guards[e]) < MaxGuards
    BY <1>0, <2>1, <2>2 DEF GuardTypes
  <2> QED  BY <2>1, <2>3, <2>4, GuardsUntouched
<1> QED  BY <1>1, <1>2, <1>3

LEMMA LockNextKeepsInv == IInv /\ GuardInv /\ [LockNext]_lockVars => IInv' /\ GuardInv'
<1> SUFFICES ASSUME IInv, GuardInv, [LockNext]_lockVars PROVE IInv' /\ GuardInv'  OBVIOUS
<1>1. CASE UNCHANGED lockVars
  <2>1. UNCHANGED vars /\ UNCHANGED <<guards, bare, scoped>> /\ UNCHANGED pc
    BY <1>1 DEF lockVars, guardVars, vars
  <2> QED  BY <2>1, StutterKeepsIInv, GuardsUntouched DEF GuardInv, GuardTypes, Keeps
<1>2. ASSUME NEW t \in Threads,
             \/ ClientSteps(t)
             \/ \E c \in Coroutines : TryLockBare(t, c) \/ BeginLock(t, c) \/ BeginScopedLock(t, c)
      PROVE  IInv' /\ GuardInv'
  <2>1. \E c \in Coroutines : Client(t, c)
    BY <1>2 DEF ClientSteps, TryLockBare, BeginLock, BeginScopedLock, Client
  <2> QED  BY <1>2, <2>1, ClientKeepsGuards, NextKeepsIInv DEF Next
<1>3. ASSUME NEW t \in Threads, NEW c \in Coroutines, InLibrary(t, c) PROVE IInv' /\ GuardInv'
  <2>1. Library(t, c)  BY <1>3 DEF InLibrary
  <2> QED  BY <1>3, <2>1, LibraryKeepsGuards, NextKeepsIInv DEF Next
<1>4. ASSUME NEW t \in Threads, NEW c \in Coroutines, UnlockBare(t, c) \/ DestroyOwning(t, c)
      PROVE  IInv' /\ GuardInv'
  <2>1. Client(t, c)  BY <1>4 DEF UnlockBare, DestroyOwning, Client
  <2> QED
    BY <1>4, <2>1, UnlockBareKeepsGuards, DestroyOwningKeepsGuards, NextKeepsIInv DEF Next
<1>5. ASSUME NEW t \in Threads, NEW c \in Coroutines,
             \/ Adopt(t, c) \/ DestroyEmpty(t, c)
             \/ \E i \in DOMAIN guards[c] : Move(t, c, i)
      PROVE  IInv' /\ GuardInv'
  <2>1. UNCHANGED vars  BY <1>5 DEF Adopt, DestroyEmpty, Move
  <2> QED
    BY <1>5, <2>1, StutterKeepsIInv, AdoptKeepsGuards, DestroyEmptyKeepsGuards, MoveKeepsGuards
<1>6. ASSUME NEW t \in Threads, NEW c \in Coroutines, NEW d \in Coroutines,
             NEW i \in DOMAIN guards[c], Pass(t, c, i, d)
      PROVE  IInv' /\ GuardInv'
  <2>1. GuardInv' /\ pc[c] = "critical"  BY <1>6, PassKeepsGuards
  <2> QED  BY <1>6, <2>1, PassKeepsIInv
<1> QED  BY <1>1, <1>2, <1>3, <1>4, <1>5, <1>6 DEF LockNext, Guards

THEOREM GuardInvariance == LockSpec => [](IInv /\ GuardInv)
<1>1. LockInit => IInv /\ GuardInv
  <2> SUFFICES ASSUME LockInit PROVE IInv /\ GuardInv  OBVIOUS
  <2>1. Init /\ guards = [c \in Coroutines |-> <<>>] /\ bare = {} /\ scoped = {}
    BY DEF LockInit
  <2>2. \A c \in Coroutines : guards[c] = <<>> /\ Len(guards[c]) = 0  BY <2>1
  <2>3. GuardTypes  BY <2>1, <2>2, GuardConstants DEF GuardTypes
  <2>4. \A c \in Coroutines, i \in Nat : ~Has(c, i)  BY <2>1, <2>2 DEF Has
  <2>5. \A c \in Coroutines : ~Keeps(c)  BY <2>1 DEF Init, Keeps
  <2> QED  BY <2>1, <2>3, <2>4, <2>5, InitIInv DEF GuardInv
<1> QED  BY <1>1, LockNextKeepsInv, PTL DEF LockSpec

(* However guards are moved, passed on and destroyed, the mutex is to be   *)
(* unlocked by exactly one of them, or one coroutine, while it is locked   *)
(* and nobody is inside unlock().                                          *)
THEOREM GuardsUnlockOnce == LockSpec => []UnlockedOnce
<1>1. ASSUME IInv, GuardInv PROVE UnlockedOnce
  <2>1. ASSUME NEW h \in Holds
        PROVE  h = <<h[1], h[2]>> /\ h[1] \in Coroutines /\ h[2] \in Nat /\ Has(h[1], h[2])
    <3>1. CASE h \in bare \X {0}  BY <1>1, <3>1 DEF Has, GuardInv, GuardTypes
    <3>2. CASE h \notin bare \X {0}
      <4>1. /\ h \in Coroutines \X (1..MaxGuards)
            /\ h[2] \in DOMAIN guards[h[1]] /\ guards[h[1]][h[2]] = "owning"
        BY <3>2 DEF Holds
      <4>2. h = <<h[1], h[2]>> /\ h[1] \in Coroutines /\ h[2] \in 1..MaxGuards  BY <4>1
      <4>3. DOMAIN guards[h[1]] = 1..Len(guards[h[1]])
        BY <1>1, <4>2 DEF GuardInv, GuardTypes
      <4> QED  BY <4>1, <4>2, <4>3, GuardConstants DEF Has
    <3> QED  BY <3>1, <3>2
  <2>2. \A h, k \in Holds : h = k
    <3> SUFFICES ASSUME NEW h \in Holds, NEW k \in Holds PROVE h = k  OBVIOUS
    <3>1. h[1] = k[1] /\ h[2] = k[2]  BY <1>1, <2>1 DEF GuardInv
    <3> QED  BY <2>1, <3>1
  <2>3. \A h \in Holds : pc[h[1]] \in {"critical", "away"}
    BY <1>1, <2>1 DEF GuardInv, Keeps
  <2>4. ASSUME NEW c \in Coroutines, Keeps(c) PROVE Holds # {}
    <3>1. PICK i \in Nat : Has(c, i)  BY <1>1, <2>4 DEF GuardInv
    <3>2. CASE i = 0 /\ c \in bare
      <4>1. <<c, 0>> \in Holds  BY <3>2 DEF Holds
      <4> QED  BY <4>1
    <3>3. CASE i \in 1..Len(guards[c]) /\ guards[c][i] = "owning"
      <4>1. DOMAIN guards[c] = 1..Len(guards[c]) /\ i \in 1..MaxGuards
        BY <1>1, <3>3, GuardConstants DEF GuardInv, GuardTypes
      <4>2. <<c, i>> \in Holds  BY <3>3, <4>1 DEF Holds
      <4> QED  BY <4>2
    <3> QED  BY <3>1, <3>2, <3>3 DEF Has
  <2>5. m_state # NotLocked <=> \E c \in Coroutines : pc[c] \in Holding
    BY <1>1 DEF IInv, LockedIffHeld, Holders
  <2>6. (\E c \in Coroutines : Keeps(c)) <=> Holds # {}
    BY <2>1, <2>3, <2>4 DEF Keeps
  <2> QED  BY <2>2, <2>3, <2>5, <2>6 DEF UnlockedOnce, Keeps, Holding
<1> QED  BY <1>1, GuardInvariance, PTL

(* The lists stay exact when guards carry the lock from one coroutine to   *)
(* another, which async_mutex does not see.                                *)
THEOREM GuardedListsSound == LockSpec => []ListsExact
<1>1. IInv => ListsExact  BY DEF IInv, ListsExact
<1> QED  BY <1>1, GuardInvariance, PTL

(* Nor does the mutex suffer otherwise: two coroutines never both hold the *)
(* lock, nobody is stranded, and no assertion of async_mutex.cpp fails.    *)
THEOREM GuardedMutexSound == LockSpec => [](MutualExclusion /\ NoStrandedWaiter /\ SourceAssertions)
<1>1. IInv => MutualExclusion  BY DEF IInv
<1> QED  BY <1>1, HeldWhileQueued, NoAssertionFails, GuardInvariance, PTL
=============================================================================
