--------------------------- MODULE AsyncMutexFifo ---------------------------
(***************************************************************************)
(* async_mutex implements FifoLock.  The queue of the abstract lock is     *)
(* spread over the lists of async_mutex: the holder's list m_waiters comes *)
(* first, and the list m_state heads, which is in most-recently-queued     *)
(* order, comes last and backwards.  Inside unlock the new waiters are     *)
(* split between the part that is already reversed and the rest.           *)
(***************************************************************************)
EXTENDS AsyncMutexInv, IntrusiveList, SequencesExt

(* The queue of a mutex is finite: ListFrom counts what a walk can meet.   *)
ASSUME FiniteCoroutines == IsFiniteSet(Coroutines)

List(p) == ListFrom(p, m_next)

Owner == IF Holders = {} THEN Null ELSE CHOOSE c \in Holders : TRUE

(* A local variable of the unlock the owner is in.                         *)
InUnlock(local) == IF Owner = Null THEN Null ELSE local[Owner]

(* The waiters in the order in which they queued: what is left to reverse, *)
(* what has been reversed, the holder's list, and those in m_state.        *)
InOrder(left, reversed, held, new) ==
  Reverse(left) \o reversed \o held \o Reverse(new)

WaitQueue ==
  InOrder(List(InUnlock(next)), List(InUnlock(waitersHead)), List(m_waiters), List(m_state))

FIFO == INSTANCE FifoLock WITH owner <- Owner, queue <- WaitQueue, NoOwner <- Null

(* async_mutex is a first-come-first-served lock: queued coroutines get it *)
(* in the order of their successful compare_exchange, nobody overtakes     *)
(* them through try_lock or lock_async, and it is handed over locked.      *)
ImplementsFifoLock == FIFO!Spec
-----------------------------------------------------------------------------
(* What the mapping needs besides IInv: every walk ends, meets waiters     *)
(* only, and no two walks meet the same one (the holder's list is empty    *)
(* while unlock works on the other two).                                   *)
Chains(left, reversed, held, new) ==
  /\ IsList(left, InUnlock(next), m_next)
  /\ IsList(reversed, InUnlock(waitersHead), m_next)
  /\ IsList(held, m_waiters, m_next)
  /\ IsList(new, m_state, m_next)
  /\ Range(left) \cup Range(reversed) \cup Range(held) \cup Range(new) \subseteq Queued
  /\ Range(left) \cap Range(reversed) = {}
  /\ (Range(left) \cup Range(reversed) \cup Range(held)) \cap Range(new) = {}

ChainsInv ==
  Chains(List(InUnlock(next)), List(InUnlock(waitersHead)), List(m_waiters), List(m_state))
=============================================================================
