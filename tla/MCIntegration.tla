--------------------------- MODULE MCIntegration ---------------------------
(* Small instances of Integration for the model checker.                   *)
EXTENDS Integration

CONSTANTS p1, a1, a2, f1
=============================================================================
