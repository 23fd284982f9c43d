--------------------------- MODULE AsyncMutexLock ---------------------------
(***************************************************************************)
(* async_mutex_lock (async_mutex.hpp), the scope guard of async_mutex, and *)
(* scoped_lock_async, which returns one.                                   *)
(*                                                                         *)
(* Coroutines take the mutex with a guard or without, guard a lock they    *)
(* hold already, and move guards within their frame or into the frame of   *)
(* another coroutine, and with them the lock: async_mutex does not know    *)
(* who holds it.  The destructor of a guard runs all of unlock().          *)
(***************************************************************************)
EXTENDS AsyncMutex

CONSTANT MaxGuards    \* bound on the guards alive in one frame

ASSUME GuardConstants == MaxGuards \in Nat \ {0}

(* What m_mutex of a guard is: the mutex or nullptr.                       *)
GuardStates == {"owning", "empty"}

VARIABLES
  guards,       (* the guards in each frame, in the order of construction   *)
  bare,         (* coroutines that hold the lock without a guard           *)
  scoped        (* coroutines in co_await of a scoped lock operation       *)

guardVars == <<guards, bare, scoped>>

lockVars == <<vars, guardVars>>

LockInit ==
  /\ Init
  /\ guards = [c \in Coroutines |-> <<>>]
  /\ bare = {}
  /\ scoped = {}

-----------------------------------------------------------------------------
ClientSteps(t) ==
  /\ \E c, d \in Coroutines : Enter(t, c) \/ Leave(t, c) \/ Switch(t, c, d)
  /\ UNCHANGED guardVars

TryLockBare(t, c) ==
  /\ TryLock(t, c)
  /\ bare' = bare \cup {c}
  /\ UNCHANGED <<guards, scoped>>

BeginLock(t, c) ==
  /\ LockAsync(t, c)
  /\ UNCHANGED <<guards, bare, scoped>>

BeginScopedLock(t, c) ==
  /\ Len(guards[c]) < MaxGuards
  /\ LockAsync(t, c)
  /\ scoped' = scoped \cup {c}
  /\ UNCHANGED <<guards, bare>>

(* Who is given the mutex in this step.                                    *)
Acquires == {c \in Coroutines : pc[c] \in {"locking", "queued"} /\ pc'[c] = "critical"}

(* await_resume, for whoever is given the mutex by a step that leaves the  *)
(* guards g and the locks b without a guard: a scoped operation returns a  *)
(* guard that adopts the lock.                                             *)
AwaitResume(g, b) ==
  /\ guards' = [c \in Coroutines |->
       IF c \in Acquires \cap scoped THEN Append(g[c], "owning") ELSE g[c]]
  /\ bare' = b \cup (Acquires \ scoped)
  /\ scoped' = scoped \ Acquires

InLibrary(t, c) == Library(t, c) /\ AwaitResume(guards, bare)

UnlockBare(t, c) ==
  /\ c \in bare
  /\ Unlock(t, c)
  /\ AwaitResume(guards, bare \ {c})

-----------------------------------------------------------------------------
InScope(t, c) == Running(t, c) /\ pc[c] \in {"running", "critical"}

(* async_mutex_lock{mutex, std::adopt_lock}                                *)
Adopt(t, c) ==
  /\ InScope(t, c)
  /\ c \in bare /\ Len(guards[c]) < MaxGuards
  /\ guards' = [guards EXCEPT ![c] = Append(@, "owning")]
  /\ bare' = bare \ {c}
  /\ UNCHANGED <<vars, scoped>>

(* Mutant: the moved-from guard keeps its pointer.                         *)
MoveKeeping(t, c, i) ==
  /\ InScope(t, c)
  /\ guards[c][i] = "owning" /\ Len(guards[c]) < MaxGuards
  /\ guards' = [guards EXCEPT ![c] = Append(@, "owning")]
  /\ UNCHANGED <<vars, bare, scoped>>

(* async_mutex_lock(async_mutex_lock&&) within the frame.                  *)
Move(t, c, i) ==
  /\ InScope(t, c)
  /\ guards[c][i] = "owning" /\ Len(guards[c]) < MaxGuards
  /\ guards' = [guards EXCEPT ![c] = Append([@ EXCEPT ![i] = "empty"], "owning")]
  /\ UNCHANGED <<vars, bare, scoped>>

(* The same into the frame of d, as a parameter or as what c returns to d: *)
(* d goes on as the one that holds the lock.                               *)
Pass(t, c, i, d) ==
  /\ InScope(t, c) /\ pc[d] = "parked"
  /\ guards[c][i] = "owning" /\ Len(guards[d]) < MaxGuards
  /\ guards' = [guards EXCEPT ![c][i] = "empty", ![d] = Append(@, "owning")]
  /\ pc' = [pc EXCEPT ![c] = "running", ![d] = "away"]
  /\ UNCHANGED <<m_state, m_waiters, m_next, oldState, waitersHead, next, stack, bare, scoped>>

(* ~async_mutex_lock() of the guard constructed last.                      *)
Destroyed(c) == [guards EXCEPT ![c] = SubSeq(@, 1, Len(@) - 1)]

DestroyOwning(t, c) ==
  /\ guards[c] # <<>> /\ guards[c][Len(guards[c])] = "owning"
  /\ Unlock(t, c)
  /\ AwaitResume(Destroyed(c), bare)

DestroyEmpty(t, c) ==
  /\ InScope(t, c)
  /\ guards[c] # <<>> /\ guards[c][Len(guards[c])] = "empty"
  /\ guards' = Destroyed(c)
  /\ UNCHANGED <<vars, bare, scoped>>

Guards(t, c) ==
  \/ Adopt(t, c) \/ DestroyOwning(t, c) \/ DestroyEmpty(t, c)
  \/ \E i \in DOMAIN guards[c] : Move(t, c, i) \/ \E d \in Coroutines : Pass(t, c, i, d)

LockNext ==
  \E t \in Threads :
    \/ ClientSteps(t)
    \/ \E c \in Coroutines :
         \/ TryLockBare(t, c) \/ BeginLock(t, c) \/ BeginScopedLock(t, c)
         \/ InLibrary(t, c) \/ UnlockBare(t, c)
         \/ Guards(t, c)

LockSpec == LockInit /\ [][LockNext]_lockVars
-----------------------------------------------------------------------------
(* Who is to unlock the mutex: guards with a pointer to it, and coroutines *)
(* that hold it without.                                                   *)
Holds ==
  {h \in Coroutines \X (1..MaxGuards) : h[2] \in DOMAIN guards[h[1]] /\ guards[h[1]][h[2]] = "owning"}
    \cup (bare \X {0})

(* However guards are moved, passed on and destroyed, one of them or one   *)
(* coroutine is to unlock the mutex as long as it is locked and nobody is  *)
(* inside unlock(), and none while it is not: what a moved-from guard, or  *)
(* a resumption inside a destructor, could break.                          *)
UnlockedOnce ==
  /\ \A h, k \in Holds : h = k
  /\ \A h \in Holds : pc[h[1]] \in {"critical", "away"}
  /\ m_state # NotLocked <=>
       Holds # {} \/ \E c \in Coroutines : pc[c] \in {"takeover", "reversing", "handoff"}

=============================================================================
