----------------------------- MODULE MCWorkflow -----------------------------
(* A small instance of Workflow for the model checker. *)
EXTENDS Workflow, TLC

CONSTANTS w1, w2

\* Workers do the same work; no property that is checked under symmetry is about
\* what must happen.
MCSymmetry == Permutations(Workers)
=============================================================================
