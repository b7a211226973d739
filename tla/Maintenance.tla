----------------------------- MODULE Maintenance -----------------------------
(***************************************************************************)
(* Who looks for expired leases (worker.py).  JobQueue has a step          *)
(* RecoverExpired that somebody takes; here it is the maintenance task of  *)
(* each worker process.  The task is started with the process, nobody      *)
(* awaits it before the process ends, and a round of it that raises is its *)
(* last one: the process then goes on claiming jobs and recovers nothing.  *)
(* The registrations of workers, which a round renews and marks offline    *)
(* too, are for people to look at and are left out.                        *)
(***************************************************************************)
EXTENDS JobQueue

VARIABLE loop   \* loop[w]: the maintenance task of process w

maintenanceVars == <<vars, loop>>

\* Somebody looks for expired leases.
Sweeping == \E w \in Workers : loop[w] = "on"

MaintenanceInit ==
  /\ Init
  /\ loop = [w \in Workers |-> "off"]

\* run_worker registers and recovers; then its task is created.
BeginProcess(w) ==
  /\ StartWorker(w)
  /\ loop' = [loop EXCEPT ![w] = "on"]

EndProcess(w) ==
  /\ Crash(w)
  /\ loop' = [loop EXCEPT ![w] = "off"]

\* Mutant of Round: a process looks after the jobs of its own only.
RoundOfOwn(w) ==
  /\ loop[w] = "on"
  /\ \E j \in Jobs : job[j].owner = w
  /\ RecoverExpired
  /\ UNCHANGED loop

\* One round of _maintenance_loop that finds something.
Round(w) ==
  /\ loop[w] = "on"
  /\ RecoverExpired
  /\ UNCHANGED loop

\* The round raises: its transaction is rolled back and the task is over.
RoundRaises(w) ==
  /\ loop[w] = "on"
  /\ loop' = [loop EXCEPT ![w] = "broken"]
  /\ UNCHANGED vars

\* POST /recover-expired.
OperatorRecovers == RecoverExpired /\ UNCHANGED loop

Works(w) ==
  \/ \E j \in Jobs : ClaimNext(w, j)
  \/ Extend(w) \/ HeartbeatLost(w)
  \/ HandlerEnds(w) \/ DiscardOutput(w) \/ Finishes(w)

MaintenanceNext ==
  \/ \E w \in Workers :
       \/ BeginProcess(w) \/ EndProcess(w)
       \/ Round(w) \/ RoundRaises(w)
       \/ Works(w) /\ UNCHANGED loop
  \/ \E j \in Jobs : Enqueue(j) /\ UNCHANGED loop
  \/ OperatorRecovers
  \/ Tick /\ UNCHANGED loop

MaintenanceSpec == MaintenanceInit /\ [][MaintenanceNext]_maintenanceVars

\* A task that is not over comes to its next round.  Operators do as they like.
FairMaintenanceSpec ==
  /\ MaintenanceSpec
  /\ Fairness
  /\ \A w \in Workers : WF_maintenanceVars(Round(w))
-----------------------------------------------------------------------------
LoopTypeOK == loop \in [Workers -> {"off", "on", "broken"}]

\* Every job ends although processes die, leases are lost and tasks break, as
\* long as again and again there is one process whose task is not broken.
\* Without that premise it is not so: when the task of every process is broken
\* and no process ends, the job of one that was restarted before stays leased.
SweptQueueEnds == []<>Sweeping => EventuallyTerminal
=============================================================================
