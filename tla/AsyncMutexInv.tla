--------------------------- MODULE AsyncMutexInv ---------------------------
(***************************************************************************)
(* The inductive invariant of AsyncMutex: TypeOK and the properties that   *)
(* relate the lists to the coroutines that are queued, strengthened by     *)
(* what unlock knows at each of its steps.                                 *)
(***************************************************************************)
EXTENDS AsyncMutex

(* m_state says whether the lock is held, and only a holder keeps a list.  *)
LockedIffHeld ==
  /\ m_state = NotLocked <=> Holders = {}
  /\ m_state = NotLocked => m_waiters = Null

(* The locals of unlock, and m_waiters while they hold the list.           *)
UnlockPhases ==
  \A c \in Coroutines :
    /\ pc[c] = "takeover" => m_state # LockedNoWaiters
    /\ pc[c] = "reversing" <=> next[c] # Null
    /\ pc[c] = "handoff" => waitersHead[c] # Null
    /\ waitersHead[c] # Null => pc[c] \in {"reversing", "handoff"}
    /\ pc[c] \in {"takeover", "reversing", "handoff"} => m_waiters = Null

IInv ==
  /\ TypeOK
  /\ MutualExclusion
  /\ LockedIffHeld
  /\ UnlockPhases
  /\ WaitersOnly
  /\ NoSharedWaiter
  /\ NoLostWaiter

(* The coroutines on a stack are those that are not suspended.             *)
OnlyRunnableStacked ==
  \A t \in Threads : \A i \in 1..Len(stack[t]) :
    pc[stack[t][i]] \notin {"parked", "queued", "away"}

StackInv == NoDoubleResume /\ OnlyRunnableStacked
=============================================================================
