------------------------------ MODULE ForkJoin ------------------------------
(***************************************************************************)
(* What when_all promises: the tasks are forked together, run in any       *)
(* order, and are joined after the last of them.  The join returns all     *)
(* their values, or throws what one of them has thrown.  (That the one who *)
(* joins does not go on twice is NoDoubleResume of CoroutineRuntime.)      *)
(***************************************************************************)
EXTENDS Naturals

CONSTANTS N, Values, Exceptions, NoOutcome

VARIABLES
  phase,      (* idle, forked or joined                                    *)
  size,       (* number of tasks                                           *)
  outcome,    (* of the tasks that have completed                          *)
  result      (* of the join                                               *)

vars == <<phase, size, outcome, result>>

Init ==
  /\ phase = "idle"
  /\ size = 0
  /\ outcome = [i \in 1..N |-> NoOutcome]
  /\ result = NoOutcome

Choose ==
  /\ phase = "idle" /\ size = 0
  /\ size' \in 0..N
  /\ UNCHANGED <<phase, outcome, result>>

Fork ==
  /\ phase = "idle"
  /\ phase' = "forked"
  /\ UNCHANGED <<size, outcome, result>>

Finish(i) ==
  /\ phase = "forked"
  /\ outcome[i] = NoOutcome
  /\ \E o \in Values \cup Exceptions : outcome' = [outcome EXCEPT ![i] = o]
  /\ UNCHANGED <<phase, size, result>>

(* Asking again for the result of a join that is over gives a result of    *)
(* the same tasks.                                                         *)
Join ==
  /\ phase \in {"forked", "joined"}
  /\ \A i \in 1..size : outcome[i] # NoOutcome
  /\ phase' = "joined"
  /\ \/ result' = [i \in 1..size |-> outcome[i]] /\ \A i \in 1..size : outcome[i] \in Values
     \/ result' \in {outcome[i] : i \in 1..size} \cap Exceptions
  /\ UNCHANGED <<size, outcome>>

Next == Choose \/ Fork \/ Join \/ \E i \in 1..size : Finish(i)

Spec == Init /\ [][Next]_vars
=============================================================================
