----------------------------- MODULE MCJobQueue -----------------------------
(* Small instances of JobQueue for the model checker.                      *)
EXTENDS JobQueue

CONSTANTS w1, w2, j1, j2

\* Both workers run one profile; j1 goes before j2.
MCServes == [w \in Workers |-> Jobs]
MCPriority == [j \in Jobs |-> IF j = j1 THEN 50 ELSE 100]

\* An integration job has one attempt, the others may be retried.
MCMaxAttempts == [j \in Jobs |-> IF j = j1 THEN AttemptLimit ELSE 1]
=============================================================================
