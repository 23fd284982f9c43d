----------------------------- MODULE AsyncCall ------------------------------
(***************************************************************************)
(* What a task promises: co_await of a task is a procedure call.  The      *)
(* awaiter is held up while the task runs, continues once, after the task  *)
(* has returned, and gets what it has returned or thrown.                  *)
(***************************************************************************)
CONSTANTS Callers, Calls, Outcomes, NoOutcome, Null

VARIABLES
  phase,      (* of a call: idle, called or returned                       *)
  outcome,    (* of a call that has returned                               *)
  waiting,    (* the call a caller is in                                   *)
  result      (* of the last call of a caller                              *)

vars == <<phase, outcome, waiting, result>>

Init ==
  /\ phase = [k \in Calls |-> "idle"]
  /\ outcome = [k \in Calls |-> NoOutcome]
  /\ waiting = [c \in Callers |-> Null]
  /\ result = [c \in Callers |-> NoOutcome]

(* Calls nest: one that calls is itself under way.                         *)
MayCall(c) == waiting[c] = Null /\ (c \in Calls => phase[c] = "called")

Call(c, k) ==
  /\ MayCall(c)
  /\ phase[k] = "idle"
  /\ phase' = [phase EXCEPT ![k] = "called"]
  /\ waiting' = [waiting EXCEPT ![c] = k]
  /\ UNCHANGED <<outcome, result>>

Return(k, o) ==
  /\ phase[k] = "called"
  /\ k \in Callers => waiting[k] = Null
  /\ phase' = [phase EXCEPT ![k] = "returned"]
  /\ outcome' = [outcome EXCEPT ![k] = o]
  /\ UNCHANGED <<waiting, result>>

Continue(c, k) ==
  /\ waiting[c] = k
  /\ phase[k] = "returned"
  /\ waiting' = [waiting EXCEPT ![c] = Null]
  /\ result' = [result EXCEPT ![c] = outcome[k]]
  /\ UNCHANGED <<phase, outcome>>

(* The outcome stays and can be asked for again.                           *)
AskAgain(c, k) ==
  /\ MayCall(c)
  /\ phase[k] = "returned"
  /\ result' = [result EXCEPT ![c] = outcome[k]]
  /\ UNCHANGED <<phase, outcome, waiting>>

Next ==
  \E k \in Calls :
    \/ \E o \in Outcomes : Return(k, o)
    \/ \E c \in Callers : Call(c, k) \/ Continue(c, k) \/ AskAgain(c, k)

Spec == Init /\ [][Next]_vars
=============================================================================
