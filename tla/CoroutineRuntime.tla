-------------------------- MODULE CoroutineRuntime --------------------------
(***************************************************************************)
(* The part of the C++ coroutine runtime every component of the library    *)
(* relies on: coroutine_handle::resume() is an ordinary call that runs the *)
(* coroutine on the calling thread and returns when the coroutine next     *)
(* suspends.  A resume() made by a running coroutine therefore nests, and  *)
(* each thread carries a stack of coroutines of which only the innermost   *)
(* one executes.                                                           *)
(***************************************************************************)
EXTENDS Sequences, Naturals

CONSTANTS
  Threads,      (* threads of the process                                  *)
  Coroutines    (* coroutines of the program, each with its own frame      *)

VARIABLE stack  (* stack[t]: the nested resume() calls of t, innermost first *)

StackInit == stack = [t \in Threads |-> <<>>]

StackTypeOK == stack \in [Threads -> Seq(Coroutines)]

Idle(t) == stack[t] = <<>>

Running(t, c) == stack[t] # <<>> /\ Head(stack[t]) = c

(* handle.resume(): c starts to run on t, on top of whoever called.        *)
Resume(t, c) == stack' = [stack EXCEPT ![t] = <<c>> \o @]

(* The running coroutine of t suspends: its resume() call returns.         *)
Return(t) == stack' = [stack EXCEPT ![t] = Tail(@)]

(* await_suspend returns a handle: the running coroutine of t suspends and *)
(* c runs in its place (symmetric transfer).                               *)
Transfer(t, c) == stack' = [stack EXCEPT ![t] = <<c>> \o Tail(@)]

(* The running coroutine of t has been resumed by d, or has taken over from *)
(* the one that was.                                                       *)
Nested(t, d) == Len(stack[t]) > 1 /\ stack[t][2] = d

(***************************************************************************)
(* Resuming a coroutine that is not suspended is undefined behaviour.  A   *)
(* coroutine that were resumed twice would be on two stacks, or twice on   *)
(* one.                                                                    *)
(***************************************************************************)
NoDoubleResume ==
  \A t, u \in Threads : \A i \in 1..Len(stack[t]), j \in 1..Len(stack[u]) :
    stack[t][i] = stack[u][j] => t = u /\ i = j
=============================================================================
