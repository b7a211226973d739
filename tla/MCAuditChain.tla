---------------------------- MODULE MCAuditChain ----------------------------
(* Small instances of AuditChain for the model checker.                    *)
EXTENDS AuditChain

CONSTANTS s1, s2, w1, w2
=============================================================================
