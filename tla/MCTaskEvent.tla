---------------------------- MODULE MCTaskEvent -----------------------------
(* Instances of TaskEvent for TLC.                                         *)
EXTENDS TaskEvent
=============================================================================
