-------------------------- MODULE ManualResetEvent --------------------------
(***************************************************************************)
(* What async_manual_reset_event promises.  An await joins the waiting     *)
(* coroutines only while the event is not set; set() releases all that are *)
(* waiting at that moment, in one atomic step, whatever reset() and new    *)
(* awaits follow; a coroutine continues only after such a release.         *)
(***************************************************************************)
CONSTANT Coroutines

VARIABLES isSet, waiting, released

vars == <<isSet, waiting, released>>

Init == isSet \in BOOLEAN /\ waiting = {} /\ released = {}

Await(c) ==
  /\ ~isSet
  /\ c \notin waiting \cup released
  /\ waiting' = waiting \cup {c}
  /\ UNCHANGED <<isSet, released>>

Set ==
  /\ ~isSet
  /\ isSet' = TRUE
  /\ waiting' = {}
  /\ released' = released \cup waiting

Reset ==
  /\ isSet
  /\ isSet' = FALSE
  /\ UNCHANGED <<waiting, released>>

Continue(c) ==
  /\ c \in released
  /\ released' = released \ {c}
  /\ UNCHANGED <<isSet, waiting>>

Next == Set \/ Reset \/ \E c \in Coroutines : Await(c) \/ Continue(c)

Spec == Init /\ [][Next]_vars
=============================================================================
