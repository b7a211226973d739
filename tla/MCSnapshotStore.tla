-------------------------- MODULE MCSnapshotStore --------------------------
(* Small instances of SnapshotStore for the model checker. *)
EXTENDS SnapshotStore

CONSTANTS p1, p2, t1, t2
=============================================================================
