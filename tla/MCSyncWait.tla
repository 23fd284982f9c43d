----------------------------- MODULE MCSyncWait -----------------------------
(* Instances of SyncWait for TLC.                                          *)
EXTENDS SyncWaitPromise
=============================================================================
