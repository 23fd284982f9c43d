----------------------------- MODULE MCWhenAll ------------------------------
(* Instances of WhenAll for TLC.                                           *)
EXTENDS WhenAllPromise
=============================================================================
