------------------------- MODULE MCRequirementsRuns -------------------------
(* Small instances of RequirementsRuns for the model checker.              *)
EXTENDS RequirementsRuns, TLC

CONSTANTS w1, w2, j1, j2

MCServes      == [w \in Workers |-> Jobs]
MCPriority    == [j \in Jobs |-> 100]
MCMaxAttempts == [j \in Jobs |-> AttemptLimit]

\* Jobs have one priority and one budget, workers one profile: each of the two
\* sets is symmetric, and only invariants are checked under symmetry.
MCSymmetry    == Permutations(Workers) \cup Permutations(Jobs)
=============================================================================
