------------------------------ MODULE FifoLock ------------------------------
(***************************************************************************)
(* What async_mutex promises: one owner at a time, and a queue of waiting  *)
(* coroutines that are given the lock in the order in which they joined    *)
(* the queue.  A release with a non-empty queue hands the lock over: it is *)
(* never free in between, so nobody can overtake the queue.                *)
(***************************************************************************)
EXTENDS Sequences

CONSTANTS Coroutines, NoOwner   \* NoOwner is not a coroutine

VARIABLES owner, queue

vars == <<owner, queue>>

Init == owner = NoOwner /\ queue = <<>>

Acquire(c) ==
  /\ owner = NoOwner
  /\ owner' = c
  /\ UNCHANGED queue

Enqueue(c) ==
  /\ owner \notin {NoOwner, c}
  /\ \A i \in DOMAIN queue : queue[i] # c
  /\ queue' = Append(queue, c)
  /\ UNCHANGED owner

Release ==
  /\ owner # NoOwner
  /\ queue = <<>>
  /\ owner' = NoOwner
  /\ UNCHANGED queue

HandOver ==
  /\ owner # NoOwner
  /\ queue # <<>>
  /\ owner' = Head(queue)
  /\ queue' = Tail(queue)

Next == (\E c \in Coroutines : Acquire(c) \/ Enqueue(c)) \/ Release \/ HandOver

Spec == Init /\ [][Next]_vars
=============================================================================
