----------------------------- MODULE JobLedger ------------------------------
(***************************************************************************)
(* What the job queue promises to the rest of the platform, with workers,  *)
(* leases, clocks and crashes left out: every job has an append-only log   *)
(* of at most Budget attempts.  At most one attempt is open, an attempt is *)
(* closed once and with one outcome, a success ends the job, a failure of  *)
(* the handler may end it, and an attempt lost to the infrastructure ends  *)
(* it only when the budget is spent.                                       *)
(***************************************************************************)
EXTENDS Integers

CONSTANTS Jobs, Budget, AttemptLimit

VARIABLES
  phase,   \* phase[j]: where job j stands
  log      \* log[j][n]: how its n-th attempt went

ledgerVars == <<phase, log>>

Slots == 1..AttemptLimit

Open(j)   == {n \in Slots : log[j][n] = "running"}
Unused(j) == {n \in Slots : log[j][n] = "none"}

Init ==
  /\ phase = [j \in Jobs |-> "absent"]
  /\ log = [j \in Jobs |-> [n \in Slots |-> "none"]]

\* Row n of the log of j, and no other, becomes `outcome'.
Writes(j, n, outcome) == log'[j] = [log[j] EXCEPT ![n] = outcome]

Submit(j) ==
  /\ phase[j] = "absent" /\ phase'[j] = "waiting"
  /\ log'[j] = log[j]

\* The next attempt is opened: all slots before it have an outcome.
Start(j) ==
  /\ phase[j] = "waiting" /\ phase'[j] = "running"
  /\ \E n \in Unused(j) :
       /\ n <= Budget[j] /\ \A m \in 1..(n - 1) : log[j][m] \notin {"none", "running"}
       /\ Writes(j, n, "running")

Succeed(j) ==
  /\ phase[j] = "running" /\ phase'[j] = "done"
  /\ \E n \in Open(j) : Writes(j, n, "succeeded")

\* An attempt ends without success; a spent budget always ends the job.
Fail(j) ==
  /\ phase[j] = "running"
  /\ \E n \in Open(j) : \E outcome \in {"failed", "timed_out", "abandoned"} :
       /\ Writes(j, n, outcome)
       /\ \/ n < Budget[j] /\ phase'[j] = "waiting"
          \/ (n = Budget[j] \/ outcome = "failed") /\ phase'[j] = "dead"

JobStep(j) == Submit(j) \/ Start(j) \/ Succeed(j) \/ Fail(j)

Stays(j) == phase'[j] = phase[j] /\ log'[j] = log[j]

\* A transaction of the queue may move several jobs, each by one step.
Next == \A j \in Jobs : JobStep(j) \/ Stays(j)

Spec == Init /\ [][Next]_ledgerVars
=============================================================================
