-------------------- MODULE AsyncManualResetEventProofs --------------------
(***************************************************************************)
(* The lists of async_manual_reset_event, proved sound for any number of   *)
(* threads and coroutines.  TypeOK and the three properties of the lists   *)
(* are inductive together with ListsOfSetters: only a coroutine inside     *)
(* set() has a list, so the loop of set() ends with nothing left.          *)
(***************************************************************************)
EXTENDS AsyncManualResetEventPromise, CoroutineRuntimeProofs

ListsOfSetters == \A c \in Coroutines : current[c] # Null => pc[c] = "setting"

IInv ==
  /\ TypeOK
  /\ ListsOfSetters
  /\ WaitersOnly
  /\ NoSharedWaiter
  /\ NoLostWaiter

LEMMA InitIInv == Init => IInv
<1> SUFFICES ASSUME Init PROVE IInv  OBVIOUS
<1> USE EventConstants DEF Init, Queued
<1>1. TypeOK  BY DEF TypeOK, Pointer, Locations, StackTypeOK, StackInit
<1>2. ListsOfSetters  BY DEF ListsOfSetters
<1>3. WaitersOnly  BY DEF WaitersOnly
<1>4. NoSharedWaiter  BY DEF NoSharedWaiter
<1>5. NoLostWaiter  BY DEF NoLostWaiter
<1> QED  BY <1>1, <1>2, <1>3, <1>4, <1>5 DEF IInv

(* Steps that leave the lists alone, also those in which a coroutine that  *)
(* is not queued writes its own m_next.                                    *)
LEMMA ListsUntouched ==
  ASSUME IInv, TypeOK', UNCHANGED <<m_state, current>>, Queued' = Queued,
         \A d \in Queued : m_next'[d] = m_next[d],
         \A d \in Coroutines : current[d] # Null => pc'[d] = pc[d]
  PROVE  IInv'
<1> USE DEF IInv
<1>1. ListsOfSetters'  BY DEF ListsOfSetters
<1>2. WaitersOnly'  BY DEF WaitersOnly
<1>3. NoSharedWaiter'  BY DEF NoSharedWaiter
<1>4. NoLostWaiter'
  <2> SUFFICES ASSUME NEW lost \in SUBSET Queued, lost # {}
               PROVE  \E w \in lost :
                        \/ w = m_state
                        \/ \E c \in Coroutines : pc'[c] = "setting" /\ current[c] = w
                        \/ \E d \in Queued \ lost : m_next[d] = w
    BY DEF NoLostWaiter
  <2>1. PICK w \in lost :
          \/ w = m_state
          \/ \E c \in Coroutines : pc[c] = "setting" /\ current[c] = w
          \/ \E d \in Queued \ lost : m_next[d] = w
    BY DEF NoLostWaiter
  <2>2. w # Null  BY EventConstants DEF Queued
  <2> QED  BY <2>1, <2>2
<1> QED  BY <1>1, <1>2, <1>3, <1>4

LEMMA OthersKeepIInv ==
  ASSUME IInv, NEW t \in Threads, NEW c \in Coroutines,
         \/ Enter(t, c) \/ Leave(t, c) \/ AwaitReady(t, c) \/ AwaitLoad(t, c)
         \/ SetReturns(t, c)
         \/ AwaitPush(t, c) /\ m_state # m_next[c]
  PROVE  IInv'
<1> USE DEF IInv
<1>1. TypeOK'
  <2>1. StackTypeOK'
    BY StackTypes DEF TypeOK, Enter, Leave, AwaitReady, AwaitLoad, SetReturns, AwaitPush
  <2>2. m_state # SetState => m_state \in Pointer  BY DEF TypeOK
  <2>3. m_next' \in [Coroutines -> Pointer] /\ pc' \in [Coroutines -> Locations]
    BY <2>2 DEF TypeOK, Pointer, Locations, Enter, Leave, AwaitReady, AwaitLoad, SetReturns,
                AwaitPush, Examine
  <2> QED
    BY <2>1, <2>3 DEF TypeOK, Enter, Leave, AwaitReady, AwaitLoad, SetReturns, AwaitPush
<1>2. pc[c] \notin {"queued"} /\ pc'[c] # "queued" /\ \A d \in Coroutines : d # c => pc'[d] = pc[d]
  BY DEF TypeOK, Enter, Leave, AwaitReady, AwaitLoad, SetReturns, AwaitPush, Examine
<1>3. \A d \in Coroutines : d # c => m_next'[d] = m_next[d]
  BY DEF TypeOK, Enter, Leave, AwaitReady, AwaitLoad, SetReturns, AwaitPush, Examine
<1>4. Queued' = Queued  BY <1>2 DEF Queued
<1>5. \A d \in Queued : m_next'[d] = m_next[d]  BY <1>2, <1>3 DEF Queued
<1>6. UNCHANGED <<m_state, current>>
  BY DEF Enter, Leave, AwaitReady, AwaitLoad, SetReturns, AwaitPush
<1>7. current[c] = Null
  BY DEF ListsOfSetters, Enter, Leave, AwaitReady, AwaitLoad, SetReturns, AwaitPush
<1> QED  BY <1>1, <1>2, <1>4, <1>5, <1>6, <1>7, ListsUntouched

LEMMA SwitchKeepsIInv ==
  ASSUME IInv, NEW t \in Threads, NEW c \in Coroutines, NEW d \in Coroutines, Switch(t, c, d)
  PROVE  IInv'
<1> USE DEF IInv, Switch
<1>1. TypeOK'
  <2>1. StackTypeOK'  BY StackTypes DEF TypeOK
  <2> QED  BY <2>1 DEF TypeOK, Locations
<1>2. /\ pc[c] = "running" /\ pc[d] = "parked" /\ pc'[c] # "queued" /\ pc'[d] # "queued"
      /\ \A e \in Coroutines : e \notin {c, d} => pc'[e] = pc[e]
  BY DEF TypeOK
<1>3. Queued' = Queued  BY <1>2 DEF Queued
<1>4. current[c] = Null /\ current[d] = Null  BY <1>2 DEF ListsOfSetters
<1> QED  BY <1>1, <1>2, <1>3, <1>4, ListsUntouched

(* A waiter is pushed in front of the list that m_state heads.             *)
LEMMA PushKeepsIInv ==
  ASSUME IInv, NEW t \in Threads, NEW c \in Coroutines,
         AwaitPush(t, c), m_state = m_next[c]
  PROVE  IInv'
<1> USE EventConstants DEF IInv
<1>0. /\ pc[c] = "pushing" /\ pc' = [pc EXCEPT ![c] = "queued"] /\ m_state' = c
      /\ UNCHANGED <<m_next, current>>
  BY DEF AwaitPush
<1>1. TypeOK'
  <2>1. StackTypeOK'  BY StackTypes DEF TypeOK, AwaitPush
  <2> QED  BY <1>0, <2>1 DEF TypeOK, Pointer, Locations
<1>2. c \notin Queued /\ Queued' = Queued \cup {c} /\ Queued \subseteq Coroutines
  BY <1>0 DEF Queued, TypeOK
<1>3. \A d \in Coroutines : c # current[d] /\ (d \in Queued => c # m_next[d])
  BY <1>2 DEF WaitersOnly
<1>4. m_state \in Queued \cup {Null} /\ m_state # c
  BY <1>2 DEF WaitersOnly, TypeOK, Pointer
<1>5. ListsOfSetters'  BY <1>0 DEF ListsOfSetters, TypeOK
<1>6. WaitersOnly'  BY <1>0, <1>2, <1>4 DEF WaitersOnly
<1>7. NoSharedWaiter'
  <2>1. \A d \in Coroutines : current[d] \in Coroutines => current[d] # m_state
    BY DEF NoSharedWaiter
  <2>2. \A d \in Queued : m_next[d] \in Coroutines => m_next[d] # m_state
    BY DEF NoSharedWaiter
  <2> QED  BY <1>0, <1>2, <1>3, <1>4, <2>1, <2>2 DEF NoSharedWaiter
<1>8. NoLostWaiter'
  <2> SUFFICES ASSUME NEW lost \in SUBSET Queued', lost # {}
               PROVE  \E w \in lost :
                        \/ w = c
                        \/ \E d \in Coroutines : pc'[d] = "setting" /\ current[d] = w
                        \/ \E d \in Queued' \ lost : m_next[d] = w
    BY <1>0 DEF NoLostWaiter
  <2>1. CASE c \in lost  BY <2>1
  <2>2. CASE c \notin lost
    <3>1. PICK w \in lost :
            \/ w = m_state
            \/ \E d \in Coroutines : pc[d] = "setting" /\ current[d] = w
            \/ \E d \in Queued \ lost : m_next[d] = w
      BY <1>2, <2>2 DEF NoLostWaiter
    <3>2. \A d \in Coroutines : pc[d] = "setting" => pc'[d] = "setting"
      BY <1>0 DEF TypeOK
    <3> QED  BY <1>2, <2>2, <3>1, <3>2
  <2> QED  BY <2>1, <2>2
<1> QED  BY <1>1, <1>5, <1>6, <1>7, <1>8

(* set() takes the list, and reset() finds none.                           *)
LEMMA SetKeepsIInv ==
  ASSUME IInv, NEW t \in Threads, NEW c \in Coroutines, Set(t, c)
  PROVE  IInv'
<1> USE EventConstants DEF IInv
<1>0. /\ pc[c] = "running" /\ pc' = [pc EXCEPT ![c] = "setting"]
      /\ m_state # SetState /\ m_state' = SetState
      /\ current' = [current EXCEPT ![c] = m_state] /\ UNCHANGED <<m_next, stack>>
  BY DEF Set
<1>1. TypeOK'
  <2>1. StackTypeOK'  BY <1>0, StackTypes DEF TypeOK
  <2> QED  BY <1>0, <2>1 DEF TypeOK, Pointer, Locations
<1>2. Queued' = Queued /\ Queued \subseteq Coroutines  BY <1>0 DEF Queued, TypeOK
<1>3. \A d \in Coroutines : current'[d] = IF d = c THEN m_state ELSE current[d]
  BY <1>0 DEF TypeOK
<1>4. current[c] = Null  BY <1>0 DEF ListsOfSetters
<1>5. ListsOfSetters'  BY <1>0, <1>3 DEF ListsOfSetters, TypeOK
<1>6. WaitersOnly'  BY <1>0, <1>2, <1>3 DEF WaitersOnly
<1>7. NoSharedWaiter'
  <2>1. \A d \in Coroutines : current'[d] \in Coroutines =>
          current'[d] # SetState /\ \A e \in Coroutines : current'[e] = current'[d] => e = d
    BY <1>3 DEF NoSharedWaiter
  <2>2. \A d \in Queued : m_next[d] \in Coroutines =>
          m_next[d] # SetState /\ \A e \in Coroutines : current'[e] # m_next[d]
    BY <1>2, <1>3 DEF NoSharedWaiter
  <2> QED  BY <1>0, <1>2, <2>1, <2>2 DEF NoSharedWaiter
<1>8. NoLostWaiter'
  <2> SUFFICES ASSUME NEW lost \in SUBSET Queued, lost # {}
               PROVE  \E w \in lost :
                        \/ \E d \in Coroutines : pc'[d] = "setting" /\ current'[d] = w
                        \/ \E d \in Queued \ lost : m_next[d] = w
    BY <1>0, <1>2 DEF NoLostWaiter
  <2>1. PICK w \in lost :
          \/ w = m_state
          \/ \E d \in Coroutines : pc[d] = "setting" /\ current[d] = w
          \/ \E d \in Queued \ lost : m_next[d] = w
    BY DEF NoLostWaiter
  <2>2. \A d \in Coroutines : pc[d] = "setting" => pc'[d] = "setting" /\ current'[d] = current[d]
    BY <1>0, <1>3 DEF TypeOK
  <2>3. pc'[c] = "setting" /\ current'[c] = m_state  BY <1>0, <1>3 DEF TypeOK
  <2> QED  BY <2>1, <2>2, <2>3
<1> QED  BY <1>1, <1>5, <1>6, <1>7, <1>8

LEMMA ResetKeepsIInv ==
  ASSUME IInv, NEW t \in Threads, NEW c \in Coroutines, Reset(t, c)
  PROVE  IInv'
<1> USE EventConstants DEF IInv
<1>0. m_state = SetState /\ m_state' = Null /\ UNCHANGED <<m_next, current, pc, stack>>
  BY DEF Reset
<1>1. TypeOK'
  <2>1. StackTypeOK'  BY <1>0, StackTypes DEF TypeOK
  <2> QED  BY <1>0, <2>1 DEF TypeOK, Pointer
<1>2. Queued' = Queued /\ Queued \subseteq Coroutines  BY <1>0 DEF Queued
<1>3. ListsOfSetters'  BY <1>0 DEF ListsOfSetters
<1>4. WaitersOnly'  BY <1>0, <1>2 DEF WaitersOnly
<1>5. NoSharedWaiter'  BY <1>0, <1>2 DEF NoSharedWaiter
<1>6. NoLostWaiter'
  <2>1. SetState \notin Queued  BY <1>2
  <2> QED  BY <1>0, <1>2, <2>1 DEF NoLostWaiter
<1> QED  BY <1>1, <1>3, <1>4, <1>5, <1>6

(* The first waiter of a set() leaves its list and runs.                   *)
LEMMA ResumeKeepsIInv ==
  ASSUME IInv, NEW t \in Threads, NEW c \in Coroutines, ResumeWaiter(t, c)
  PROVE  IInv'
<1> USE EventConstants DEF IInv
<1> DEFINE w == current[c]  x == m_next[w]
<1>0. /\ pc[c] = "setting" /\ w # Null /\ pc' = [pc EXCEPT ![w] = "running"]
      /\ current' = [current EXCEPT ![c] = x]
      /\ m_next' = [m_next EXCEPT ![w] = Null] /\ UNCHANGED m_state
  BY DEF ResumeWaiter
<1>1. Queued \subseteq Coroutines /\ w \in Queued /\ x \in Queued \cup {Null} /\ w # c
  BY <1>0 DEF Queued, WaitersOnly
<1>2. Queued' = Queued \ {w}  BY <1>0, <1>1 DEF Queued, TypeOK
<1>3. \A d \in Coroutines :
        /\ current'[d] = IF d = c THEN x ELSE current[d]
        /\ m_next'[d] = IF d = w THEN Null ELSE m_next[d]
        /\ pc'[d] = IF d = w THEN "running" ELSE pc[d]
  BY <1>0, <1>1 DEF TypeOK
<1>4. /\ w # m_state /\ x # w
      /\ \A d \in Coroutines : current[d] = w => d = c
      /\ \A d \in Queued : m_next[d] # w
      /\ x # Null =>
           /\ x # m_state /\ \A d \in Coroutines : current[d] # x
           /\ \A d \in Queued : m_next[d] = x => d = w
  BY <1>1 DEF NoSharedWaiter
<1>5. TypeOK'
  <2>1. StackTypeOK'  BY <1>1, StackTypes DEF TypeOK, ResumeWaiter
  <2> QED  BY <1>0, <1>1, <2>1 DEF TypeOK, Pointer, Locations
<1>6. ListsOfSetters'
  <2>1. current[w] = Null  BY <1>1 DEF ListsOfSetters, Queued
  <2> QED  BY <1>0, <1>1, <1>3, <2>1 DEF ListsOfSetters
<1>7. WaitersOnly'
  <2>1. m_state' \in Queued' \cup {Null, SetState}  BY <1>0, <1>2, <1>4 DEF WaitersOnly
  <2>2. \A d \in Coroutines : current'[d] \in Queued' \cup {Null}
    BY <1>1, <1>2, <1>3, <1>4 DEF WaitersOnly
  <2>3. \A d \in Queued' : m_next'[d] \in Queued' \cup {Null}
    BY <1>1, <1>2, <1>3, <1>4 DEF WaitersOnly
  <2> QED  BY <2>1, <2>2, <2>3 DEF WaitersOnly
<1>8. NoSharedWaiter'
  <2>1. \A d \in Coroutines : current'[d] \in Coroutines =>
          current'[d] # m_state /\ \A e \in Coroutines : current'[e] = current'[d] => e = d
    BY <1>1, <1>3, <1>4 DEF NoSharedWaiter
  <2>2. \A d \in Queued' : m_next'[d] \in Coroutines =>
          /\ m_next'[d] # m_state
          /\ \A e \in Coroutines : current'[e] # m_next'[d]
          /\ \A e \in Queued' : m_next'[e] = m_next'[d] => e = d
    BY <1>1, <1>2, <1>3, <1>4 DEF NoSharedWaiter
  <2> QED  BY <1>0, <2>1, <2>2 DEF NoSharedWaiter
<1>9. NoLostWaiter'
  <2> SUFFICES ASSUME NEW lost \in SUBSET Queued', lost # {}
               PROVE  \E v \in lost :
                        \/ v = m_state
                        \/ \E d \in Coroutines : pc'[d] = "setting" /\ current'[d] = v
                        \/ \E d \in Queued' \ lost : m_next'[d] = v
    BY <1>0 DEF NoLostWaiter
  <2>1. PICK v \in lost :
          \/ v = m_state
          \/ \E d \in Coroutines : pc[d] = "setting" /\ current[d] = v
          \/ \E d \in Queued \ lost : m_next[d] = v
    BY <1>2 DEF NoLostWaiter
  <2>2. v # w /\ v \in Coroutines  BY <1>1, <1>2
  <2>3. CASE \E d \in Coroutines : pc[d] = "setting" /\ current[d] = v
    <3>1. PICK d \in Coroutines : pc[d] = "setting" /\ current[d] = v  BY <2>3
    <3>2. d # c /\ d # w  BY <1>1, <2>2, <3>1 DEF Queued
    <3> QED  BY <1>3, <3>1, <3>2
  <2>4. CASE \E d \in Queued \ lost : m_next[d] = v
    <3>1. PICK d \in Queued \ lost : m_next[d] = v  BY <2>4
    <3>2. CASE d = w  BY <1>0, <1>1, <1>3, <3>1, <3>2
    <3>3. CASE d # w  BY <1>1, <1>2, <1>3, <3>1, <3>3
    <3> QED  BY <3>2, <3>3
  <2> QED  BY <2>1, <2>3, <2>4
<1> QED  BY <1>5, <1>6, <1>7, <1>8, <1>9

LEMMA StutterKeepsIInv == IInv /\ UNCHANGED vars => IInv'
BY DEF IInv, vars, TypeOK, StackTypeOK, ListsOfSetters, WaitersOnly, NoSharedWaiter,
       NoLostWaiter, Queued

LEMMA NextKeepsIInv == IInv /\ [Next]_vars => IInv'
<1> SUFFICES ASSUME IInv, [Next]_vars PROVE IInv'  OBVIOUS
<1>1. CASE UNCHANGED vars  BY <1>1, StutterKeepsIInv
<1>2. ASSUME NEW t \in Threads, NEW c \in Coroutines, Library(t, c) \/ Client(t, c)
      PROVE  IInv'
  <2>1. CASE AwaitPush(t, c) /\ m_state = m_next[c]  BY <2>1, PushKeepsIInv
  <2>2. CASE Set(t, c)  BY <2>2, SetKeepsIInv
  <2>3. CASE ResumeWaiter(t, c)  BY <2>3, ResumeKeepsIInv
  <2>4. CASE Reset(t, c)  BY <2>4, ResetKeepsIInv
  <2>5. ASSUME NEW d \in Coroutines, Switch(t, c, d) PROVE IInv'
    BY <2>5, SwitchKeepsIInv
  <2> QED  BY <1>2, <2>1, <2>2, <2>3, <2>4, <2>5, OthersKeepIInv DEF Library, Client
<1> QED  BY <1>1, <1>2 DEF Next

THEOREM Invariance == Spec => []IInv
<1>1. IInv /\ [Next]_vars => IInv'  BY NextKeepsIInv
<1> QED  BY <1>1, InitIInv, PTL DEF Spec

-----------------------------------------------------------------------------
(* The lists of async_manual_reset_event hold suspended coroutines only,   *)
(* all of them, and none twice: no await is missed by a set() and none is  *)
(* resumed twice, however set(), reset() and co_await overlap and nest.    *)
THEOREM ListsSound == Spec => []ListsExact
<1>1. IInv => ListsExact  BY DEF IInv, ListsExact
<1> QED  BY <1>1, Invariance, PTL

(* Type correctness: set() only dereferences operations.                   *)
THEOREM TypeCorrect == Spec => []TypeOK
<1>1. IInv => TypeOK  BY DEF IInv
<1> QED  BY <1>1, Invariance, PTL

-----------------------------------------------------------------------------
(* No coroutine is on two stacks, and none that is suspended is on one.    *)
Active == {c \in Coroutines : pc[c] \notin {"parked", "queued"}}

ActiveStacked == \A t \in Threads : \A i \in 1..Len(stack[t]) : stack[t][i] \in Active

LEMMA NextKeepsStacks ==
  IInv /\ NoDoubleResume /\ ActiveStacked /\ [Next]_vars => NoDoubleResume' /\ ActiveStacked'
<1> SUFFICES ASSUME IInv, NoDoubleResume, ActiveStacked, [Next]_vars
             PROVE  NoDoubleResume' /\ ActiveStacked'
  OBVIOUS
<1>0. TypeOK /\ StackTypeOK  BY DEF IInv, TypeOK
<1>1. CASE UNCHANGED vars
  BY <1>1 DEF vars, NoDoubleResume, ActiveStacked, Active
<1>2. ASSUME NEW t \in Threads, NEW c \in Coroutines,
             \/ UNCHANGED stack /\ Active \subseteq Active'
             \/ Resume(t, c) /\ c \notin Active /\ Active \cup {c} \subseteq Active'
             \/ Running(t, c) /\ Return(t) /\ Active \ {c} \subseteq Active'
             \/ \E b \in Coroutines :
                  /\ Running(t, b) /\ Transfer(t, c)
                  /\ c \notin Active /\ c \in Active' /\ Active \ {b} \subseteq Active'
      PROVE  NoDoubleResume' /\ ActiveStacked'
  BY <1>0, <1>2, StacksFollow DEF ActiveStacked
<1>3. ASSUME NEW t \in Threads, NEW c \in Coroutines, Library(t, c) \/ Client(t, c)
      PROVE  NoDoubleResume' /\ ActiveStacked'
  <2> USE <1>0 DEF TypeOK, Active
  <2>1. CASE AwaitReady(t, c) \/ AwaitLoad(t, c) \/ Set(t, c) \/ SetReturns(t, c) \/ Reset(t, c)
    <3>1. UNCHANGED stack /\ Active \subseteq Active'
      BY <2>1 DEF AwaitReady, AwaitLoad, Examine, Set, SetReturns, Reset
    <3> QED  BY <1>2, <3>1
  <2>2. CASE Enter(t, c)
    <3>1. Resume(t, c) /\ c \notin Active /\ Active \cup {c} \subseteq Active'
      BY <2>2 DEF Enter
    <3> QED  BY <1>2, <3>1
  <2>3. CASE Leave(t, c)
    <3>1. Running(t, c) /\ Return(t) /\ Active \ {c} \subseteq Active'
      BY <2>3 DEF Leave
    <3> QED  BY <1>2, <3>1
  <2>4. CASE AwaitPush(t, c)
    <3>1. \/ UNCHANGED stack /\ Active \subseteq Active'
          \/ Running(t, c) /\ Return(t) /\ Active \ {c} \subseteq Active'
      BY <2>4 DEF AwaitPush, Examine
    <3> QED  BY <1>2, <3>1
  <2>5. CASE ResumeWaiter(t, c)
    <3> DEFINE w == current[c]
    <3>1. w \in Coroutines /\ pc[w] = "queued"
      BY <2>5 DEF ResumeWaiter, IInv, WaitersOnly, Queued
    <3>2. Resume(t, w) /\ w \notin Active /\ Active \cup {w} \subseteq Active'
      BY <2>5, <3>1 DEF ResumeWaiter
    <3> HIDE DEF w
    <3> QED  BY <1>2, <3>1, <3>2
  <2>6. ASSUME NEW d \in Coroutines, Switch(t, c, d)
        PROVE  NoDoubleResume' /\ ActiveStacked'
    <3>1. /\ Running(t, c) /\ Transfer(t, d)
          /\ d \notin Active /\ d \in Active' /\ Active \ {c} \subseteq Active'
      BY <2>6 DEF Switch
    <3> QED  BY <1>2, <3>1
  <2> QED  BY <1>3, <2>1, <2>2, <2>3, <2>4, <2>5, <2>6 DEF Library, Client
<1> QED  BY <1>1, <1>3 DEF Next

(* async_manual_reset_event never resumes a coroutine that is already      *)
(* running: every resume() of set() finds a suspended coroutine.           *)
THEOREM ResumesSuspended == Spec => []NoDoubleResume
<1>1. Init => NoDoubleResume /\ ActiveStacked
  BY DEF Init, StackInit, NoDoubleResume, ActiveStacked
<1>2. IInv /\ NoDoubleResume /\ ActiveStacked /\ [Next]_vars => NoDoubleResume' /\ ActiveStacked'
  BY NextKeepsStacks
<1> QED  BY <1>1, <1>2, Invariance, PTL DEF Spec

-----------------------------------------------------------------------------
(* Nothing is reached but through nodes of a set Q that links do not leave, *)
(* and links outside Q do not matter.                                      *)
LEMMA NodesWithin ==
  ASSUME NEW head, NEW link, NEW other, DOMAIN other = DOMAIN link,
         NEW Q \in SUBSET DOMAIN link, head \in DOMAIN link => head \in Q,
         \A m \in Q : other[m] = link[m] /\ (link[m] \in DOMAIN link => link[m] \in Q)
  PROVE  NodesFrom(head, link) \subseteq Q /\ NodesFrom(head, other) = NodesFrom(head, link)
<1>1. NodesFrom(head, link) \subseteq Q /\ NodesFrom(head, other) \subseteq Q
  BY DEF NodesFrom
<1>2. ASSUME NEW n \in NodesFrom(head, link) PROVE n \in NodesFrom(head, other)
  <2> SUFFICES ASSUME NEW S \in SUBSET DOMAIN link, head \in DOMAIN link => head \in S,
                      \A m \in S : other[m] \in DOMAIN link => other[m] \in S
               PROVE  n \in S
    BY DEF NodesFrom
  <2>1. S \cap Q \in SUBSET DOMAIN link  OBVIOUS
  <2>2. \A m \in S \cap Q : link[m] \in DOMAIN link => link[m] \in S \cap Q  OBVIOUS
  <2> QED  BY <2>1, <2>2 DEF NodesFrom
<1>3. ASSUME NEW n \in NodesFrom(head, other) PROVE n \in NodesFrom(head, link)
  <2> SUFFICES ASSUME NEW S \in SUBSET DOMAIN link, head \in DOMAIN link => head \in S,
                      \A m \in S : link[m] \in DOMAIN link => link[m] \in S
               PROVE  n \in S
    BY DEF NodesFrom
  <2>1. S \cap Q \in SUBSET DOMAIN other  OBVIOUS
  <2>2. \A m \in S \cap Q : other[m] \in DOMAIN other => other[m] \in S \cap Q  OBVIOUS
  <2> QED  BY <2>1, <2>2 DEF NodesFrom
<1> QED  BY <1>1, <1>2, <1>3

(* A list is its first node and the list behind it.                        *)
LEMMA NodesUnfold ==
  ASSUME NEW link, NEW head \in DOMAIN link
  PROVE  NodesFrom(head, link) = {head} \cup NodesFrom(link[head], link)
<1> DEFINE N == {head} \cup NodesFrom(link[head], link)
<1>1. head \in NodesFrom(head, link)  BY DEF NodesFrom
<1>2. NodesFrom(link[head], link) \subseteq NodesFrom(head, link)  BY DEF NodesFrom
<1>3. \A m \in N : link[m] \in DOMAIN link => link[m] \in N
  <2>1. link[head] \in DOMAIN link => link[head] \in NodesFrom(link[head], link)
    BY DEF NodesFrom
  <2>2. \A m \in NodesFrom(link[head], link) :
          link[m] \in DOMAIN link => link[m] \in NodesFrom(link[head], link)
    BY DEF NodesFrom
  <2> QED  BY <2>1, <2>2
<1>4. N \in SUBSET DOMAIN link  BY DEF NodesFrom
<1>5. NodesFrom(head, link) \subseteq N  BY <1>3, <1>4 DEF NodesFrom
<1> QED  BY <1>1, <1>2, <1>5

LEMMA NoNodes ==
  ASSUME NEW link, NEW head, head \notin DOMAIN link
  PROVE  NodesFrom(head, link) = {}
<1>1. {} \in SUBSET DOMAIN link /\ \A m \in {} : link[m] \in DOMAIN link => link[m] \in {}
  OBVIOUS
<1> QED  BY <1>1 DEF NodesFrom

(* The lists consist of queued coroutines, and stay as they are in a step  *)
(* that keeps the links between these.                                     *)
LEMMA ListsStay ==
  ASSUME IInv, m_next' \in [Coroutines -> Pointer], NEW Q \in SUBSET Queued,
         \A q \in Q : m_next'[q] = m_next[q] /\ m_next[q] \in Q \cup {Null},
         NEW p \in Q \cup {Null, SetState}
  PROVE  NodesFrom(p, m_next) \subseteq Q /\ NodesFrom(p, m_next') = NodesFrom(p, m_next)
<1> USE EventConstants
<1>1. DOMAIN m_next = Coroutines /\ DOMAIN m_next' = Coroutines /\ Q \subseteq Coroutines
  BY DEF IInv, TypeOK, Queued
<1>2. p \in Coroutines => p \in Q  OBVIOUS
<1>3. \A q \in Q : m_next[q] \in Coroutines => m_next[q] \in Q  OBVIOUS
<1> QED  BY <1>1, <1>2, <1>3, NodesWithin

LEMMA ListsQueued == IInv => Waiting \cup Released \subseteq Queued
<1> SUFFICES ASSUME IInv, NEW p \in Queued \cup {Null, SetState}
             PROVE  NodesFrom(p, m_next) \subseteq Queued
  BY DEF IInv, WaitersOnly, Waiting, Released
<1>1. DOMAIN m_next = Coroutines /\ Queued \subseteq Coroutines  BY DEF IInv, TypeOK, Queued
<1>2. \A q \in Queued : m_next[q] \in Coroutines => m_next[q] \in Queued
  BY EventConstants DEF IInv, WaitersOnly
<1> QED  BY EventConstants, <1>1, <1>2, NodesWithin

LEMMA UntouchedRefines ==
  ASSUME IInv, IInv', UNCHANGED <<m_state, current>>, \A d \in Queued : m_next'[d] = m_next[d]
  PROVE  UNCHANGED Event!vars
<1>1. m_next' \in [Coroutines -> Pointer]  BY DEF IInv, TypeOK
<1>2. \A q \in Queued : m_next[q] \in Queued \cup {Null}  BY DEF IInv, WaitersOnly
<1>3. \A p \in Queued \cup {Null, SetState} : NodesFrom(p, m_next') = NodesFrom(p, m_next)
  BY <1>1, <1>2, ListsStay
<1>4. Waiting' = Waiting  BY <1>3 DEF Waiting, IInv, WaitersOnly
<1>5. \A c \in Coroutines : NodesFrom(current[c], m_next') = NodesFrom(current[c], m_next)
  BY <1>3 DEF IInv, WaitersOnly
<1>6. Released' = Released  BY <1>5 DEF Released
<1> QED  BY <1>4, <1>6 DEF Event!vars

LEMMA PushRefines ==
  ASSUME IInv, NEW t \in Threads, NEW c \in Coroutines, AwaitPush(t, c), m_state = m_next[c]
  PROVE  Event!Await(c)
<1> USE EventConstants
<1>1. m_state # SetState /\ m_state' = c /\ c \notin Queued /\ UNCHANGED <<m_next, current>>
  BY DEF AwaitPush, IInv, TypeOK, Pointer, Queued
<1>2. c \notin Waiting \cup Released  BY <1>1, ListsQueued
<1>3. c \in DOMAIN m_next  BY DEF IInv, TypeOK
<1>4. Waiting' = Waiting \cup {c}
  BY <1>1, <1>3, NodesUnfold DEF Waiting
<1>5. Released' = Released  BY <1>1 DEF Released
<1> QED  BY <1>1, <1>2, <1>4, <1>5 DEF Event!Await

LEMMA SetRefines ==
  ASSUME IInv, NEW t \in Threads, NEW c \in Coroutines, Set(t, c)
  PROVE  Event!Set
<1> USE EventConstants
<1>1. DOMAIN m_next = Coroutines  BY DEF IInv, TypeOK
<1>2. m_state # SetState /\ m_state' = SetState /\ m_next' = m_next  BY DEF Set
<1>3. Waiting' = {}  BY <1>1, <1>2, NoNodes DEF Waiting
<1>4. current[c] = Null  BY DEF Set, IInv, ListsOfSetters
<1>5. NodesFrom(current[c], m_next) = {}  BY <1>1, <1>4, NoNodes
<1>6. \A d \in Coroutines : current'[d] = IF d = c THEN m_state ELSE current[d]
  BY DEF Set, IInv, TypeOK
<1>7. Released' = Released \cup Waiting
  BY <1>2, <1>5, <1>6 DEF Released, Waiting
<1> QED  BY <1>2, <1>3, <1>7 DEF Event!Set

LEMMA ResetRefines ==
  ASSUME IInv, NEW t \in Threads, NEW c \in Coroutines, Reset(t, c)
  PROVE  Event!Reset
<1> USE EventConstants
<1>1. DOMAIN m_next = Coroutines  BY DEF IInv, TypeOK
<1>2. m_state = SetState /\ m_state' = Null /\ UNCHANGED <<m_next, current>>  BY DEF Reset
<1>3. Waiting' = {} /\ Waiting = {}  BY <1>1, <1>2, NoNodes DEF Waiting
<1>4. Released' = Released  BY <1>2 DEF Released
<1> QED  BY <1>2, <1>3, <1>4 DEF Event!Reset

(* The coroutine that is resumed leaves the released ones, and no other    *)
(* list leads through it.                                                  *)
LEMMA ResumeRefines ==
  ASSUME IInv, IInv', NEW t \in Threads, NEW c \in Coroutines, ResumeWaiter(t, c)
  PROVE  Event!Continue(current[c])
<1> USE EventConstants
<1> DEFINE w == current[c]  x == m_next[w]  Q == Queued \ {w}
<1>1. w \in Queued /\ w \in Coroutines /\ x \in Queued \cup {Null}
  BY DEF ResumeWaiter, IInv, WaitersOnly, Queued
<1>2. /\ m_state' = m_state
      /\ \A d \in Coroutines : current'[d] = IF d = c THEN x ELSE current[d]
      /\ \A d \in Coroutines : m_next'[d] = IF d = w THEN Null ELSE m_next[d]
  BY <1>1 DEF ResumeWaiter, IInv, TypeOK
<1>3. /\ m_state \in Q \cup {Null, SetState} /\ x \in Q \cup {Null}
      /\ \A d \in Coroutines \ {c} : current[d] \in Q \cup {Null}
      /\ \A q \in Queued : m_next[q] \in Q \cup {Null}
  BY <1>1 DEF IInv, WaitersOnly, NoSharedWaiter
<1>4. \A p \in Q \cup {Null, SetState} :
        w \notin NodesFrom(p, m_next) /\ NodesFrom(p, m_next') = NodesFrom(p, m_next)
  <2>1. m_next' \in [Coroutines -> Pointer]  BY DEF IInv, TypeOK
  <2>2. \A q \in Q : m_next'[q] = m_next[q] /\ m_next[q] \in Q \cup {Null}
    BY <1>2, <1>3 DEF Queued
  <2>3. Q \in SUBSET Queued /\ w \notin Q  OBVIOUS
  <2> HIDE DEF Q, w
  <2> QED  BY <2>1, <2>2, <2>3, ListsStay
<1>5. Waiting' = Waiting  BY <1>2, <1>3, <1>4 DEF Waiting
<1>6. NodesFrom(w, m_next) = {w} \cup NodesFrom(x, m_next)
  BY <1>1, NodesUnfold DEF IInv, TypeOK
<1> HIDE DEF w, x, Q
<1>7. Released' = UNION {NodesFrom(IF d = c THEN x ELSE current[d], m_next') : d \in Coroutines}
  BY <1>2 DEF Released
<1>8. Released' = Released \ {w}
  <2>1. ASSUME NEW n \in Released' PROVE n \in Released \ {w}
    <3>1. PICK d \in Coroutines : n \in NodesFrom(IF d = c THEN x ELSE current[d], m_next')
      BY <1>7
    <3>2. n \in NodesFrom(IF d = c THEN x ELSE current[d], m_next) /\ n # w
      BY <1>3, <1>4, <3>1
    <3>3. n \in NodesFrom(current[d], m_next)  BY <1>6, <3>2 DEF w
    <3> QED  BY <3>2, <3>3 DEF Released
  <2>2. ASSUME NEW n \in Released \ {w} PROVE n \in Released'
    <3>1. PICK d \in Coroutines : n \in NodesFrom(current[d], m_next)  BY DEF Released
    <3>2. n \in NodesFrom(IF d = c THEN x ELSE current[d], m_next)  BY <1>6, <3>1 DEF w
    <3>3. n \in NodesFrom(IF d = c THEN x ELSE current[d], m_next')
      BY <1>3, <1>4, <3>2
    <3> QED  BY <1>7, <3>3
  <2> QED  BY <2>1, <2>2
<1>9. w \in Released  BY <1>6 DEF Released, w
<1> QED  BY <1>2, <1>5, <1>8, <1>9 DEF Event!Continue, w

LEMMA NextRefines == IInv /\ IInv' /\ [Next]_vars => [Event!Next]_(Event!vars)
<1> SUFFICES ASSUME IInv, IInv', [Next]_vars PROVE [Event!Next]_(Event!vars)  OBVIOUS
<1>1. CASE UNCHANGED vars  BY <1>1, UntouchedRefines DEF vars
<1>2. ASSUME NEW t \in Threads, NEW c \in Coroutines, Library(t, c) \/ Client(t, c)
      PROVE  [Event!Next]_(Event!vars)
  <2>1. CASE AwaitPush(t, c) /\ m_state = m_next[c]  BY <2>1, PushRefines DEF Event!Next
  <2>2. CASE Set(t, c)  BY <2>2, SetRefines DEF Event!Next
  <2>3. CASE Reset(t, c)  BY <2>3, ResetRefines DEF Event!Next
  <2>4. CASE ResumeWaiter(t, c)
    <3>1. current[c] \in Coroutines  BY <2>4 DEF ResumeWaiter, IInv, TypeOK, Pointer
    <3> QED  BY <2>4, <3>1, ResumeRefines DEF Event!Next
  <2>5. CASE \/ Enter(t, c) \/ Leave(t, c) \/ (\E d \in Coroutines : Switch(t, c, d))
             \/ AwaitReady(t, c) \/ AwaitLoad(t, c) \/ SetReturns(t, c)
             \/ AwaitPush(t, c) /\ m_state # m_next[c]
    <3>1. UNCHANGED <<m_state, current>>
      BY <2>5 DEF Enter, Leave, Switch, AwaitReady, AwaitLoad, SetReturns, AwaitPush
    <3>2. \A d \in Queued : m_next'[d] = m_next[d]
      BY <2>5 DEF IInv, TypeOK, Queued, Enter, Leave, Switch, AwaitReady, AwaitLoad, SetReturns,
                  AwaitPush, Examine
    <3> QED  BY <3>1, <3>2, UntouchedRefines
  <2> QED  BY <1>2, <2>1, <2>2, <2>3, <2>4, <2>5 DEF Library, Client
<1> QED  BY <1>1, <1>2 DEF Next

(* Every step of async_manual_reset_event is a step of ManualResetEvent or *)
(* none: a set() releases the coroutines that wait at that moment, each of *)
(* them continues once, and no other one does.                             *)
THEOREM Implements == Spec => ImplementsEvent
<1>1. Init => Event!Init
  <2> SUFFICES ASSUME Init PROVE Event!Init  OBVIOUS
  <2>1. DOMAIN m_next = Coroutines /\ m_state \notin Coroutines  BY EventConstants DEF Init
  <2>2. Waiting = {}  BY <2>1, NoNodes DEF Waiting
  <2>3. \A c \in Coroutines : NodesFrom(current[c], m_next) = {}
    BY <2>1, NoNodes, EventConstants DEF Init
  <2>4. Released = {}  BY <2>3 DEF Released
  <2> QED  BY <2>2, <2>4 DEF Event!Init
<1>2. IInv /\ IInv' /\ [Next]_vars => [Event!Next]_(Event!vars)  BY NextRefines
<1> QED  BY <1>1, <1>2, Invariance, PTL DEF Spec, Event!Spec, ImplementsEvent
=============================================================================
