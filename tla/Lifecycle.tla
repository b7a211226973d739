----------------------------- MODULE Lifecycle -----------------------------
(***************************************************************************)
(* What the history of a workflow promises, with jobs, locks and services  *)
(* left out: the workflow is in one state at a time, every version of its  *)
(* context is one legal step behind the one before it, and only a relink   *)
(* takes it out of failure or back from its execution.                     *)
(***************************************************************************)
EXTENDS Naturals

CONSTANT Last     \* the number of document phases

VARIABLES
  stage,          \* 0 created, 1..Last documents, then execution, review, integration
  at,             \* how the workflow stands in its stage, or how it ended
  version         \* the number of contexts so far

Underway == {"running", "waiting"}
Ended    == {"failed", "cancelled", "completed"}

Moves(s, a, v) == stage' = s /\ at' = a /\ version' = version + v

Init == stage = 0 /\ at = "unlinked" /\ version = 0

Start == at = "unlinked" /\ Moves(0, "running", 1)

\* A phase or an integration attempt that people have to approve.
Await ==
  /\ at = "running" /\ stage \in 1..Last
  /\ Moves(stage, "waiting", 1)

Proceed ==
  /\ at \in Underway /\ stage \in 0..(Last + 1)
  /\ Moves(stage + 1, "running", 1)

Accept    == at = "running" /\ stage = Last + 2 /\ Moves(Last + 3, "waiting", 1)
Integrate == at = "waiting" /\ stage = Last + 3 /\ Moves(Last + 3, "running", 1)
Complete  == at = "running" /\ stage = Last + 3 /\ Moves(0, "completed", 1)

Fail   == at \in Underway \cup {"manual"} /\ Moves(0, "failed", 1)
Cancel == at \in Underway \cup {"manual"} /\ Moves(0, "cancelled", 2)

Relink ==
  /\ at \in {"unlinked", "failed"} \/ stage = Last + 1
  /\ \E s \in 0..(Last + 2), a \in Underway \cup {"failed", "manual"} : Moves(s, a, 1)

Next == Start \/ Await \/ Proceed \/ Accept \/ Integrate \/ Complete \/ Fail \/ Cancel \/ Relink

Spec == Init /\ [][Next]_<<stage, at, version>>
=============================================================================
