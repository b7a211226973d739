----------------------------- MODULE MCRecovery -----------------------------
(* A small instance of Recovery for the model checker. *)
EXTENDS Recovery

CONSTANTS a1, a2, f1
=============================================================================
