-------------------------- MODULE RequirementsRuns --------------------------
(***************************************************************************)
(* The requirements phase of one project, executed through the job queue:  *)
(* crew runs, revision cycles, the project's status and its workflow       *)
(* (application/project_workflow.py, application/requirements_revision,    *)
(* the revision-cycle part of the job repository and of recover_expired,   *)
(* WorkflowService.notify and dead_letter).                                *)
(*                                                                         *)
(* Job j of JobQueue is here the run_requirements_crew job of crew run j.  *)
(* Every action of JobQueue is taken together with what the same           *)
(* transaction does to these tables; the handler, one step there, is its   *)
(* own sequence of transactions here.                                      *)
(***************************************************************************)
EXTENDS JobQueue

CONSTANT Original   \* the crew run of the artifact that is first reviewed

ASSUME RunsAssumption == Original \notin Jobs

VARIABLES
  project,   \* projects.status, its requirements part
  workflow,  \* workflow_instances.state: going on or failed
  run,       \* run[j]: crew_runs.status of the run of job j
  cycle,     \* cycle[j]: status of the revision cycle job j names, or none
  base,      \* base[j]: the run whose artifact that cycle revises
  artifacts, \* artifacts[j]: requirements artifacts stored for run j
  notified,  \* notified[j]: the workflow was told that run j has its artifact
  stage,     \* stage[w]: how far the handler of worker w has come
  request    \* what a person's request, not committed yet, is going to do

pipeline == <<project, workflow, run, cycle, base, artifacts, notified, stage, request>>
allVars  == <<vars, pipeline>>

ActiveCycle(j) == cycle[j] \in {"pending", "executing"}

ProjectStates == {"awaiting_approval", "rejected", "approved", "queued", "running", "failed"}
Requests == {"none", "approved", "rejected", "queued"}
Stages == {"none", "loading", "loaded", "reloaded", "crew", "stored", "doubted",
           "notified", "broken", "refused"}

RunsInit ==
  /\ Init
  /\ project = "awaiting_approval"
  /\ workflow = "running"
  /\ run = [j \in Jobs |-> "absent"]
  /\ cycle = [j \in Jobs |-> "none"]
  /\ base = [j \in Jobs |-> Original]
  /\ artifacts = [j \in Jobs |-> 0]
  /\ notified = [j \in Jobs |-> FALSE]
  /\ stage = [w \in Workers |-> "none"]
  /\ request = "none"
-----------------------------------------------------------------------------
(***************************************************************************)
(* People.                                                                 *)
(***************************************************************************)

\* approve_requirements and queue_requirements_run check the project's status
\* without a lock on its row; the commit, later, does not look again.
ReadProject(kind) ==
  /\ request = "none"
  /\ \/ kind \in {"approved", "rejected"} /\ project = "awaiting_approval"
     \/ kind = "queued" /\ project \in {"failed", "rejected"}
  /\ request' = kind
  /\ UNCHANGED <<vars, project, workflow, run, cycle, base, artifacts, notified, stage>>

\* approve_requirements commits the decision.
Review ==
  /\ request \in {"approved", "rejected"}
  /\ project' = request
  /\ request' = "none"
  /\ UNCHANGED <<vars, workflow, run, cycle, base, artifacts, notified, stage>>

\* queue_requirements_run commits a run without a revision cycle, and its job.
QueueRun(j) ==
  /\ request = "queued"
  /\ Enqueue(j)
  /\ project' = "queued"
  /\ run' = [run EXCEPT ![j] = "queued"]
  /\ request' = "none"
  /\ UNCHANGED <<workflow, cycle, base, artifacts, notified, stage>>

\* request_changes to the artifact of run b, any artifact of the project: the
\* review, the cycle, the run and the job are written in one transaction.
RequestChanges(j, b) ==
  /\ project \in {"awaiting_approval", "rejected"}
  /\ b \in {Original} \cup {k \in Jobs : artifacts[k] > 0}
  /\ \A k \in Jobs : ActiveCycle(k) => base[k] # b
  /\ Enqueue(j)
  /\ project' = "queued"
  /\ run' = [run EXCEPT ![j] = "queued"]
  /\ cycle' = [cycle EXCEPT ![j] = "pending"]
  /\ base' = [base EXCEPT ![j] = b]
  /\ UNCHANGED <<workflow, artifacts, notified, stage, request>>
-----------------------------------------------------------------------------
(***************************************************************************)
(* The worker around the handler.                                          *)
(***************************************************************************)

\* claim_next also moves the cycle of the job from pending to executing.
ClaimRun(w, j) ==
  /\ ClaimNext(w, j)
  /\ cycle[j] \in {"none", "pending"}
  /\ cycle' = [cycle EXCEPT ![j] = IF @ = "none" THEN @ ELSE "executing"]
  /\ stage' = [stage EXCEPT ![w] = "loading"]
  /\ UNCHANGED <<project, workflow, run, base, artifacts, notified, request>>

\* claim_next raises when that cycle is not pending: the claim is rolled back
\* and the exception leaves process_one_job and run_worker.
ClaimDies(w) ==
  /\ worker[w].pc = "idle"
  /\ \E o \in Offsets, j \in Jobs :
       FirstClaimable(w, j, o) /\ cycle[j] \notin {"none", "pending"}
  /\ worker' = [worker EXCEPT ![w] = Free("down")]
  /\ UNCHANGED <<job, ttl, wait, attempt, pipeline>>

\* The handler forgets its place when the worker leaves it.
Leaves(w) == stage' = [stage EXCEPT ![w] = "none"]

\* Mutant of RunReturns: dispatch returns before it notified the workflow.
RunReturnsEarly(w) ==
  /\ stage[w] \in {"stored", "notified"} /\ HandlerReturns(w)
  /\ Leaves(w)
  /\ UNCHANGED <<project, workflow, run, cycle, base, artifacts, notified, request>>

\* dispatch came back: the artifact is stored and the workflow notified.
RunReturns(w) ==
  /\ stage[w] = "notified" /\ HandlerReturns(w)
  /\ Leaves(w)
  /\ UNCHANGED <<project, workflow, run, cycle, base, artifacts, notified, request>>

\* dispatch raised: the crew's error, an error of the database at any point (the
\* lost reply of notify's commit is the last), or the state error of a run that
\* may not execute (unexpected_error, which is not retryable); or the deadline
\* passed.
RunRaises(w, verdict) ==
  /\ verdict = "retryable" => stage[w] # "refused"
  /\ HandlerRaises(w, verdict)
  /\ Leaves(w)
  /\ UNCHANGED <<project, workflow, run, cycle, base, artifacts, notified, request>>

DiscardRun(w) ==
  /\ DiscardOutput(w)
  /\ Leaves(w)
  /\ UNCHANGED <<project, workflow, run, cycle, base, artifacts, notified, request>>

CrashRun(w) ==
  /\ Crash(w)
  /\ Leaves(w)
  /\ UNCHANGED <<project, workflow, run, cycle, base, artifacts, notified, request>>

\* Mutants of CycleReleased: the cycle is forgotten; it gets the status of the job.
CycleForgotten(j) == cycle[j]

CycleCopied(j) == IF cycle[j] = "none" THEN "none" ELSE job'[j].status

\* The cycle of a job that gave up its lease without success, as mark_failed
\* and recover_expired write it, whatever the cycle's status was.
CycleReleased(j) ==
  IF cycle[j] = "none" THEN "none"
  ELSE IF job'[j].status = "dead_letter" THEN "failed" ELSE "pending"

\* Mutant of FailRunJob: the workflow is not told of a dead letter.
FailRunJobSilently(w) ==
  LET j == worker[w].job IN
  /\ MarkFailed(w)
  /\ cycle' = [cycle EXCEPT ![j] = CycleReleased(j)]
  /\ UNCHANGED <<project, workflow, run, base, artifacts, notified, stage, request>>

\* mark_failed; the same transaction fails the workflow of a dead letter.
FailRunJob(w) ==
  LET j == worker[w].job IN
  /\ MarkFailed(w)
  /\ cycle' = [cycle EXCEPT ![j] = CycleReleased(j)]
  /\ workflow' = IF job'[j].status = "dead_letter" THEN "failed" ELSE workflow
  /\ UNCHANGED <<project, run, base, artifacts, notified, stage, request>>

\* recover_expired does the same to the cycles and leaves the workflow alone.
CyclesRecovered ==
  /\ cycle' = [j \in Jobs |-> IF job'[j] # job[j] THEN CycleReleased(j) ELSE cycle[j]]
  /\ UNCHANGED <<project, workflow, run, base, artifacts, notified, stage, request>>

RecoverRuns   == RecoverExpired /\ CyclesRecovered
StartRuns(w)  == StartWorker(w) /\ CyclesRecovered

\* Steps of the queue that touch none of these tables.
QueueOnly(w) ==
  /\ \/ Extend(w) \/ HeartbeatLost(w) \/ MarkSucceeded(w) \/ DiscardResult(w)
     \/ \E verdict \in Verdicts : CompletionFails(w, verdict)
  /\ UNCHANGED pipeline
-----------------------------------------------------------------------------
(***************************************************************************)
(* The handler: execute_requirements_run, then notify.  None of its writes *)
(* looks at the lease of the worker.                                       *)
(***************************************************************************)
\* A handler told to stop takes no further step: a commit under way when the
\* heartbeat spoke is one that came before it.
Executing(w) == worker[w].pc = "executing" /\ ~worker[w].lost

\* The run and the project are read, and the run's status is checked ...
LoadRun(w) ==
  LET j == worker[w].job IN
  /\ Executing(w) /\ stage[w] = "loading"
  /\ stage' = [stage EXCEPT ![w] =
       IF run[j] \notin {"queued", "failed"} THEN "refused"
       ELSE IF project = "running" THEN "reloaded" ELSE "loaded"]
  /\ UNCHANGED <<vars, project, workflow, run, cycle, base, artifacts, notified, request>>

\* ... and, in a later commit, set running without a second look.  The session
\* writes the project only when the status it read was another one.
BeginRun(w) ==
  /\ Executing(w) /\ stage[w] \in {"loaded", "reloaded"}
  /\ run' = [run EXCEPT ![worker[w].job] = "running"]
  /\ project' = IF stage[w] = "loaded" THEN "running" ELSE project
  /\ stage' = [stage EXCEPT ![w] = "crew"]
  /\ UNCHANGED <<vars, workflow, cycle, base, artifacts, notified, request>>

\* The crew has answered: artifact, cycle, run and project in one commit.  When
\* its reply is lost the handler takes it for one that failed.
StoreArtifact(w) ==
  LET j == worker[w].job IN
  /\ Executing(w) /\ stage[w] = "crew"
  /\ cycle[j] = "none" \/ ActiveCycle(j)
  /\ artifacts' = [artifacts EXCEPT ![j] = @ + 1]
  /\ cycle' = [cycle EXCEPT ![j] = IF @ = "none" THEN @ ELSE "completed"]
  /\ run' = [run EXCEPT ![j] = "succeeded"]
  /\ \E outcome \in {"awaiting_approval", "approved"} : project' = outcome
  /\ \E reply \in {"stored", "doubted"} : stage' = [stage EXCEPT ![w] = reply]
  /\ UNCHANGED <<vars, workflow, base, notified, request>>

\* The crew, or one of the two commits, raised: what is not committed is rolled
\* back and the run is failed; an artifact that is committed stays.
RecordFailure(w) ==
  /\ Executing(w) /\ stage[w] \in {"loaded", "reloaded", "crew", "doubted"}
  /\ run' = [run EXCEPT ![worker[w].job] = "failed"]
  /\ project' = "failed"
  /\ stage' = [stage EXCEPT ![w] = "broken"]
  /\ UNCHANGED <<vars, workflow, cycle, base, artifacts, notified, request>>

\* WorkflowService.notify queues an advance_workflow job, unless it is over.
Notify(w) ==
  /\ Executing(w) /\ stage[w] = "stored"
  /\ notified' = [notified EXCEPT ![worker[w].job] = @ \/ workflow # "failed"]
  /\ stage' = [stage EXCEPT ![w] = "notified"]
  /\ UNCHANGED <<vars, project, workflow, run, cycle, base, artifacts, request>>
-----------------------------------------------------------------------------
HandlerStep(w) ==
  LoadRun(w) \/ BeginRun(w) \/ StoreArtifact(w) \/ RecordFailure(w) \/ Notify(w)

HandlerLeaves(w) ==
  RunReturns(w) \/ DiscardRun(w) \/ \E verdict \in Verdicts : RunRaises(w, verdict)

RunsNext ==
  \/ \E kind \in Requests : ReadProject(kind)
  \/ Review
  \/ \E j \in Jobs : QueueRun(j)
  \/ \E j \in Jobs, b \in Jobs \cup {Original} : RequestChanges(j, b)
  \/ \E w \in Workers :
       \/ \E j \in Jobs : ClaimRun(w, j)
       \/ ClaimDies(w) \/ StartRuns(w) \/ CrashRun(w)
       \/ HandlerStep(w) \/ HandlerLeaves(w)
       \/ FailRunJob(w) \/ QueueOnly(w)
  \/ RecoverRuns
  \/ Tick /\ UNCHANGED pipeline

RunsSpec == RunsInit /\ [][RunsNext]_allVars

\* As in JobQueue; a handler's own steps are taken before its deadline or not.
RunsFairness ==
  /\ WF_allVars(Tick /\ UNCHANGED pipeline)
  /\ WF_allVars(RecoverRuns)
  /\ \A w \in Workers :
       /\ WF_allVars(StartRuns(w))
       /\ SF_allVars(\E j \in Jobs : ClaimRun(w, j))
       /\ WF_allVars(HandlerLeaves(w))
       /\ WF_allVars(FailRunJob(w) \/ (Finishes(w) /\ QueueOnly(w)))

FairRunsSpec == RunsSpec /\ RunsFairness
-----------------------------------------------------------------------------
RunsTypeOK ==
  /\ TypeOK
  /\ project \in ProjectStates
  /\ workflow \in {"running", "failed"}
  /\ run \in [Jobs -> {"absent", "queued", "running", "succeeded", "failed"}]
  /\ cycle \in [Jobs -> {"none", "pending", "executing", "completed", "failed"}]
  /\ base \in [Jobs -> Jobs \cup {Original}]
  /\ artifacts \in [Jobs -> Nat]
  /\ notified \in [Jobs -> BOOLEAN]
  /\ stage \in [Workers -> Stages]
  /\ request \in Requests

\* An active revision cycle blocks every other request for its artifact, so it
\* must have a job that will still end it: a pending cycle has a job that waits
\* to be claimed, an executing one a job under lease, whatever crashed or was
\* given up in between.
ActiveCycleHasLiveJob ==
  \A j \in Jobs :
    /\ cycle[j] = "pending" => job[j].status \in Waiting
    /\ cycle[j] = "executing" => job[j].status = "leased"

\* A job that succeeded left what its success stands for: an artifact, its
\* cycle completed, and a workflow that was told or is over.  The three are
\* written by other transactions than the one that marks the job.
SuccessHasResult ==
  \A j \in Jobs : job[j].status = "succeeded" =>
    /\ artifacts[j] > 0
    /\ cycle[j] \in {"none", "completed"}
    /\ notified[j] \/ workflow = "failed"

\* A dead letter whose last attempt a worker reported has failed the workflow,
\* and the workflow fails for no other reason.
ReportedDeathFailsWorkflow ==
  workflow = "failed" <=>
    \E j \in Jobs : /\ job[j].status = "dead_letter"
                    /\ attempt[j][job[j].attempts].status # "abandoned"

\* A worker writes the run, the project or an artifact only while it holds the
\* lease of the job.  Not so: the handler's commits look at no lease.
OnlyHolderWrites ==
  [][\A w \in Workers : stage[w] # "none" /\ stage'[w] # stage[w]
        /\ <<run, artifacts, project>>' # <<run, artifacts, project>> =>
       LET j == worker[w].job IN
       job[j].status = "leased" /\ job[j].owner = w
         /\ job[j].version = worker[w].version]_allVars

\* One run stores at most one artifact.  Not so: two handlers can both have
\* read the run as queued before one of them began it.
OneArtifactPerRun == \A j \in Jobs : artifacts[j] <= 1

\* A job whose attempts are used up leaves a run that failed.  Not so:
\* recover_expired, and a timeout, leave the run running.
ExhaustedRunsFail ==
  \A j \in Jobs : job[j].status = "dead_letter" /\ artifacts[j] = 0 => run[j] = "failed"

\* A crash of the worker is retried: while attempts are left, a job is not given
\* up because an earlier attempt was lost.  Not so: the lost attempt left the
\* run running, and the next one is refused for it.
LostAttemptIsRetried ==
  [][\A j \in Jobs :
       job[j].status # "dead_letter" /\ job'[j].status = "dead_letter" =>
         Exhausted(j) \/ run[j] # "running"]_allVars

\* A run has at most one active revision cycle.  Not so: recover_expired makes
\* a cycle pending that a late or crashed worker had completed.
OneActiveCycle ==
  \A j, k \in Jobs : j # k /\ ActiveCycle(j) /\ ActiveCycle(k) => base[j] # base[k]

\* The queue heals after restarts: every run job is one day done or dead.  Not
\* so: a cycle completed by a worker that had lost its lease makes every later
\* claim of the job end the claiming process.
QueueHeals == \A j \in Jobs : job[j].status = "queued" ~> job[j].status \in Terminal
=============================================================================
