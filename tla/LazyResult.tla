----------------------------- MODULE LazyResult -----------------------------
(***************************************************************************)
(* What shared_task promises: nothing runs before a client asks for the    *)
(* result; it is computed once; a client is given this result, and never   *)
(* before it is there.                                                     *)
(***************************************************************************)
CONSTANTS Clients, Outcomes, NoOutcome

VARIABLES
  phase,        (* "lazy", "computing" or "ready"                          *)
  value,        (* the result, once it is ready                            *)
  asking,       (* clients that wait for the result                        *)
  given         (* what each client was given last                         *)

vars == <<phase, value, asking, given>>

Init ==
  /\ phase = "lazy" /\ value = NoOutcome
  /\ asking = {} /\ given = [c \in Clients |-> NoOutcome]

Ask(c) ==
  /\ c \notin asking
  /\ asking' = asking \cup {c}
  /\ UNCHANGED <<phase, value, given>>

Start ==
  /\ phase = "lazy" /\ asking # {}
  /\ phase' = "computing"
  /\ UNCHANGED <<value, asking, given>>

Publish ==
  /\ phase = "computing"
  /\ phase' = "ready"
  /\ value' \in Outcomes
  /\ UNCHANGED <<asking, given>>

(* A client that asks when the result is ready is given it at once.        *)
Give(c) ==
  /\ phase = "ready"
  /\ asking' = asking \ {c}
  /\ given' = [given EXCEPT ![c] = value]
  /\ UNCHANGED <<phase, value>>

Next == Start \/ Publish \/ \E c \in Clients : Ask(c) \/ Give(c)

Spec == Init /\ [][Next]_vars
=============================================================================
