# A verification project for the AI Enterprise platform

TLA+ modules beside the code of `apps/api/src/ai_enterprise`, checked by TLC on
small instances and, where marked, proved by TLAPS for all values of the
constants.  `PROJECT.json` maps every definition to the source lines it
translates and lists the runs, the mutants, the findings, the hazards and the
theorems.

## The system

The platform turns a project description into reviewed and integrated changes.
A FastAPI process accepts requests and writes PostgreSQL; everything slow (LLM
crews, sandboxed executions, git pushes) is done by worker processes that take
jobs from a table.  All coordination goes through the database: row locks,
leases with fencing tokens, status columns, and several commits per operation.

| Component | State | Operations | What is hard |
|---|---|---|---|
| Job queue (`infrastructure/jobs`) | `jobs`, `job_execution_attempts` | enqueue, claim, extend, succeed, fail, recover | races for a lease, clocks, lost replies, crashes |
| Workers (`worker.py`) | memory of a process, `worker_instances` | start, poll, heartbeat, execute, maintenance | heartbeat against completion, deadline, restart |
| Requirements runs (`application/project_workflow.py`, `requirements_revision`) | `projects`, `crew_runs`, `artifacts`, revision cycles | queue, execute, approve, request changes | unfenced commits of handlers, retries of half-done runs |
| Workflow engine (`application/workflow`) | `workflow_instances`, contexts, checkpoints | start, advance, notify, dead letter, cancel, relink | nested commits, lock released half way |
| Architecture and planning runs | `projects`, runs, work packages | queue, execute, approve | the same as for requirements |
| Integration (`application/integration`, `infrastructure/integration`) | eligibility, approvals, attempts, rollback records; the protected branch of the remote | evaluate, approve, create attempt, process, push, verify, record | races for the head of the branch, lost push answers, threads that outlive their worker |
| Recovery of integrations (`application/recovery`) | incidents, recovery attempts | assess, approve, process, reconcile | uncertain push, retry of what was done |
| Snapshot store of the execution broker (`infrastructure/execution_broker/store.py`) | directories of staged trees, objects and quarantine; a SQLite table | construct (reconcile, quarantine), register, resolve | crash or power loss between file system steps, store objects of many processes |
| Audit chain (`application/audit`, `infrastructure/foundation.py`) | `audit_events`, `audit_chain_records` | append an event in the caller's transaction, verify | many transactions behind one last record, rollback, deadlock |
| Patch review, execution workflow, the broker's engine and evidence | review and execution runs, tickets | start, record, decide | partial failures, stale evidence |
| Decomposition, change management, resilience, agent runtime | own tables | state machines under optimistic versions | concurrent writers |
| Knowledge, cognitive, ecosystem, federation, specification, runtime generations r4-r22, queries, routes, web UI, tools | own tables or none | sequential | little; see `PROJECT.json` |

Components interact by enqueuing jobs (`JobRepository.enqueue`), by the
dispatcher calling services inside a worker, and by reading and writing each
other's rows.  The hazards of the code are listed with their lines in
`PROJECT.json`.

## Modules

`JobQueue` models the two job tables and the worker processes.  One action is
one transaction, or one step of a worker's event loop between two transactions:

| Action | Code |
|---|---|
| `Enqueue`, `ClaimNext`, `Extend`, `MarkSucceeded`, `MarkFailed` | the methods of `JobRepository` |
| `HeartbeatLost` | the two exits of `_heartbeat_job`: lease gone, or an exception |
| `HandlerReturns`, `HandlerRaises`, `DiscardOutput` | the outcome of `asyncio.wait` in `process_one_job` |
| `CompletionFails`, `DiscardResult` | the completion transaction raises, or its reply is lost, and the worker goes on to a failure or a timeout; the fence refuses it |
| `RecoverExpired`, `StartWorker` | `recover_expired` in the maintenance loop and at start |
| `Crash` | the process ends anywhere |
| `Tick` | time |

`job[j]` is a row of `jobs`, `attempt[j][n]` the attempt with number `n`,
`worker[w]` what the process knows (the version it claimed, its retry count, the
`lease_lost` event).  The lease token is fresh whenever the lease version is, so
the version stands for both.  Time is relative: `ttl[j]` is the time left on the
lease and `wait[j]` the time until the job is available; both stop at `-Skew`,
where no clock can tell them from less.  Every transaction takes its `now` from a
host's clock before its row lock is granted: `Offsets` is the error.  A batch of
recovery takes all expired rows (the code's limit is 100); a row skipped because
it is locked is one that another action moved first.  The job types that a
worker may claim (`Serves`) stay fixed during a run.

`JobLedger` is what the queue promises, with workers, leases and clocks left out:
an append-only log of attempts per job.  `JobQueue` implements it under the
refinement `Phase`, `Log`; `KeepsLedger` is that statement.

`Maintenance` extends `JobQueue` with the question who looks for expired leases.
`loop[w]` is the maintenance task of process `w`:

| Action | Code |
|---|---|
| `BeginProcess`, `EndProcess` | `run_worker` up to the creation of the task; its `finally` clause, or the death of the process |
| `Round`, `RoundRaises` | one round of `_maintenance_loop` that finds something; one that raises, which ends the task while the process works on |
| `OperatorRecovers` | the route `/recover-expired` |
| `Works` | the steps of `process_one_job` |

A round that finds nothing changes nothing but the registration of the worker, and
no decision about jobs reads registrations, so they are left out.

`RequirementsRuns` extends `JobQueue` with the requirements phase of a project:
the handler of a job, atomic in `JobQueue`, becomes the sequence of commits of
`execute_requirements_run` and `notify`, and `mark_failed`, `recover_expired` and
`claim_next` get their effects on revision cycles and on the workflow.  Two
abstractions of the ORM matter and are kept: checks without a lock are steps of
their own (`ReadProject`, `LoadRun`), and a column is written only if it differs
from the value that was read (`BeginRun`).  The commit that stores the artifact may be made and its
reply lost (`StoreArtifact`, stage "doubted"): the except clause then fails a run
whose result is on record.  The model starts when the first artifact is under review.

`Integration` models what happens to a candidate patch after its review, up to the
branch of a remote repository that other people push to:

| Action | Code |
|---|---|
| `Produce`, `ReviewEnds` | an execution and its reviews, as `evaluate_eligibility` sees them |
| `EvaluateReads`, `EvaluateWrites` | `evaluate_eligibility`: the unlocked read, and the commit |
| `Approve`, `CreateAttempt` | `approve`, `create_attempt` of the integration service |
| `ClaimAndLoad`, `ClaimRefused` | `claim_and_load` of the attempt store |
| `Transition`, `Fail` | the steps of `IntegrationProcessor.process`, and its except clause with `store.fail` |
| `CheckHead`, `PushLands`, `PushFails` | the thread that runs `RestrictedPusher.push`, and the remote |
| `PushCompleted`, `RemoteVerified`, `RecordRollback`, `Complete` | the processor after the push |
| `Cancel`, `Crash` | deadline or lost lease; end of the process |
| `PushByOthers` | a push of somebody else |

`stage[a]` is the last event committed for attempt `a`; it is finer than the row's
status, which shows "tested" as testing and "pushed", "verified" and "recorded" as
pushing.  An approval admits one attempt (the column is unique), so one identifier
serves for the approval, the attempt and the commit.  A cancelled coroutine runs
no `except Exception`, but its push runs in a thread and goes on; a crash takes
the thread along, before or after the remote took the commit.  Of every commit the
worker may not learn that it was made (worker "doubting"): the except clause then
records the failure of the stage before it (`Standing`), also over an attempt that is
integrated.  The job of an
attempt has one delivery, so `worker[a]` needs no queue.  `create_attempt` reads the
eligibility without a lock; as `claim_and_load` reads it again, the action is
atomic.  Snapshot, patch application, tests and commit are steps that succeed or
raise: no property looks inside them.  The revision service, which marks a patch
superseded, belongs to a later part.

`PatchLedger` is its abstract specification: a log of what is on the branch, and a
set of granted patches, each of which lands at most once.  `KeepsPatchLedger` is the
refinement under `PatchLog`, `Granted`.

`AuditChain` models both `append_event` methods under concurrent transactions of
PostgreSQL at READ COMMITTED.  One action is one statement:

| Action | Code |
|---|---|
| `AppendEvent` | the select of the last record: it sees what was committed when it began and what its own transaction wrote |
| `LockLast` | its FOR UPDATE is granted; a select that waited returns the row it had chosen |
| `InsertRecord`, `InsertFails` | the flush, against `uq_audit_chain_sequence` |
| `Commit`, `Rollback`, `DeadlockVictim` | how the caller's transaction ends; the detector of the database |

The model is written from what PostgreSQL does, because the correctness of the
writer rests on it: the lock does not exist for the first event of a stream, and a
waiter's choice of the last record is stale when it gets its lock.  What keeps the
chain whole then is the unique key.  A hash is abstracted to the identity of the
event it is made of, which is fresh.  `AuditLog` is the promise: per stream a log
that only grows, numbered without gaps.

`Recovery` models the revert of an integration that went wrong:

| Action | Code |
|---|---|
| `Assess`, `Approve`, `CreateAttempt` | `RecoveryService`: the people's part |
| `ClaimAndLoad`, `LeaseExpires` | `claim_and_load` of the attempt store, with its claim of one hour |
| `PrepareWorkspace` ... `BeginPush` | the stages of `RecoveryProcessor.process`; each is a `transition` or a record, fenced by run and claim |
| `CheckHead`, `PushLands`, `PushFails` | the thread that pushes, and the remote |
| `VerifyRemote`, `Examine`, `ExamineRaises`, `Reconcile` | what the processor asks the remote after a push, and in `_reconcile_only` |
| `BeginFinish`, `RecordRemote`, `Complete`, `Fail`, `FenceLost` | the end of a run; a run that is no longer the latest |
| `Cancel`, `Crash`, `PushByOthers` | deadline or lost lease; end of the process; other people |

`at[<<a, n>>]` is where run `n` of attempt `a` stands and `status[a]` the row; the two
can differ as soon as the claim has expired or a second run goes on beside the first.
`InEffectAt` says whether a commit's content holds the change, which is what makes
`git revert` find something to do.  One thing the model has that the
program does not make: a second run of an attempt.  The job is enqueued with
`max_attempts` = 1 (`application/recovery/service.py:342`) and nothing queues it
again, while the store, its claims, its fence and its tests are written for
redelivery.  The attempts in `Redelivered` may have a second run; those outside it
are what the program does today.  What holds with them holds without them, and
`_reconcile_only`, the store's refusal of stale runs and `TestsCollide` are
reached only through them.  An approval's expiry after an hour is left out: it only narrows `CreateAttempt`.
`RollbackLedger` is the promise: the branch grows, and a revert gets into it only
when it was granted and the change is in effect.

`Workflow` models the engine of `application/workflow` together with everything it
waits for: the document phases, the execution, its review and the integration.

| Action | Code |
|---|---|
| `QueueByHand`, `StartRun`, `RunSucceeds`, `RunFails`, `Decide` | a document phase: queue, execute, approve or reject |
| `ExecuteByHand`, `ReviewByHand`, `ExecutionEnds`, `ReviewEnds`, `BeginIntegration`, `IntegrationEnds` | the services of execution, review and integration, as the engine sees them |
| `Advance`, `Conflicts` | `advance` when one transaction is enough; when the execution of its key is of another package |
| `BeginWork`, `CommitRun`, `CommitExecution`, `CommitReview`, `Refused` | `advance` when it calls a service: that service commits, which gives the row lock away |
| `AppendTransition` | the rest of `advance`, which writes what was computed before; the unique key on the version of the context admits it or not |
| `Notify`, `DeadLetter` | the calls that tell the engine, in a commit after the one they are about |
| `Start`, `Cancel`, `RelinkReads`, `RelinkWrites` | the requests of people; a relink reads without a lock |
| `WorkerCrashes`, `NotifyLost`, `DeadLetterLost` | a process dies between two of its commits |

The phases requirements, architecture and work package follow one protocol and are
numbered.  `wf` is the row with its newest context, `view[w]` what a worker has read
of it, and `rejected` says which documents people have rejected: `advance` asks for a
decision on each document and not for an approval (`Decided`).  It reads the
documents in no order, so that a workflow whose evidence is complete may be left where
it is (`MayMiss`).  A patch may have several approvals and attempts to integrate it,
of which one at most lands (`Lands`, which `Integration` shows).  The engine's
execution and review are found by keys that name the workflow only: one for another
package ends the advance (`Conflicts`), and one of an older execution is taken.
`EngineQueuesOnce` is limited to histories without works
begun by hand, without crashes and without rejected requirements, because the code
gives no more.  An `advance` that dies after it queued the requirements is tried
again, and a failed run that waits for its retry is queued a second time.  The same
comes, with three workers, of an `advance` that is slow to write what it began: the
run succeeds and people reject it, a second `advance` still finds the workflow at its
start and begins the requirements anew, that run fails and waits for its retry, and a
third `advance` begins them once more.  `Lifecycle` is the promise: the legal histories of
one workflow.  Left out are the checkpoints, the step attempts and the contents of
contexts.  Facts the model shows beside its properties: a relink to created or to
manual is a dead end, and a relink that creates the workflow never enqueues an
advance.

`SnapshotStore` models the store of the restricted broker, down to the points
between two file system calls at which a crash leaves something different:

| Action | Code |
|---|---|
| `Look`, `FirstStart`, `FirstStartRaises` | `__init__` on a root without a database, before the lock |
| `Construct`, `RecoverIntent`, `IntentDangles`, `EndRecovery` | the rest of `__init__` and `_recover_quarantine_intents` |
| `Intend`, `Move`, `MoveCollides`, `FileEvidence`, `SyncSource` | `_quarantine_entry` for the next entry that `_reconcile` chooses (`Due`) |
| `EndReconcile`, `Close` | the end of `_reconcile`; the end of the job that made the store object |
| `BeginRegister`, `WriteReady`, `Seal`, `Publish`, `Reuse`, `SyncObjects`, `Insert`, `Return`, `Fail` | `register` under the lock, and its except clause |
| `Stop`, `PowerLoss`, `Damage` | a killed process; the whole machine; somebody who writes to an object |

A killed process leaves everything it did to the directories.  A loss of power tears
trees that were never synced and may also undo any rename that no fsync has followed,
whoever made it and whether or not that process still lives: `unsynced` and `unfiled`
are those renames, among the objects and to the quarantine, and `SyncAll` and
`SyncQuarantine` what the code's calls of `_fsync_directory` settle.  Assumed: a rename
is undone as a whole or not at all and is on the disk once one of its two
directories was synced (`Undoable`, `Found`), and a removed staging directory does not
come back.

So a registered tree can be lost: one process dies between the rename and the fsync
of objects (`store.py:142-146`), another one finds the tree there, verifies it and
registers it without an fsync (`store.py:148-150`), and the power fails.  `adopted`
holds the trees that were registered in this way until a later fsync of the objects
makes them safe.  `RegisteredIsWhole` and the ledger except them by name, beside the
trees that somebody damaged; `RegisteredOutlivesPower` is the statement without that
exception, and does not hold.  A database that is missing from a store in use is
modelled as far as the code can make one: `__init__` looks for it before it takes
the lock, so that of two first starts the slower one may find the report of the
other and raise (`FirstStartRaises`), and a database that was just created may not
outlive a loss of power.

The checks of `resolve` (owner, request) and of the contents of manifests are left
out.  An intent whose entry was damaged and then moved for another reason stays behind and lets every later start raise (`IntentDangles`); it
takes a damaged object to get there.  `SnapshotLedger` is the promise:
registrations stay, and registered content is not withdrawn unless it was damaged or
is adopted.

`JobQueueProofs`, `MaintenanceProofs`, `RequirementsRunsProofs`, `IntegrationProofs`,
`RecoveryProofs`, `AuditChainProofs`, `WorkflowProofs` and `SnapshotStoreProofs` hold
the theorems.  The `MC` modules give the constants values for TLC.

Definitions with "Mutant of" in their comment are not part of the model: each is
a plausible bug, used to see that a property can fail.

## Runs

| Run | Instance | Shows |
|---|---|---|
| `jobqueue_safety` | 2 workers, 1 job, 3 attempts, lease 2, skew 1 | `TypeOK`, `LeaseMatchesAttempt`, `NoLimbo`, `DeadLetterHasCause`, `KeepsLedger`, `LeaseTakenOnlyWhenExpired`, `SuccessComesFromHolder` |
| `jobqueue_live` | 2 workers whose maintenance tasks may break, 2 jobs of 2 and 1 attempts, different priority, no skew, with fairness | `SweptQueueEnds` |
| `requirements_safety` | 2 workers, 1 job, 3 attempts | `RunsTypeOK`, `ActiveCycleHasLiveJob`, `SuccessHasResult`, `ReportedDeathFailsWorkflow` |
| `poisoned_claim` | the instance that shows it | `QueueHeals` is violated |
| `integration` | 1 patch, 2 attempts, 1 foreign commit, with fairness | `LandsOnce`, `LandsOnApprovedBase`, `PushIsAnnounced`, `EvidenceIsTrue`, `KeepsPatchLedger`, `NothingLandsAfterOutcome`, `Settles` |
| `uncertain_push` | the instance that shows it | `PushFailureIsCertain` is violated |
| `audit_chain` | 2 transactions, 2 streams, 5 events, with fairness | `TypeOK`, `ChainVerifies`, `OneAppender`, `KeepsAuditLog`, `TransactionsEnd` |
| `recovery` | 2 attempts, one of them with a second run, 1 foreign commit that restores the change | `TypeOK`, `LandsOnApprovedHead`, `FailureIsCertain`, `RecoveredIsTrue`, `UncertainHasCommit`, `KeepsRollbackLedger` |
| `workflow` | 2 workers, 2 document phases, 2 executions, 2 attempts to integrate, 1 trouble, worker symmetry | `TypeOK`, `EngineQueuesOnce`, `CompletedIsIntegrated`, `KeepsLifecycle` |
| `workflow_stranded` | 1 worker, with fairness | `Resumes` is violated |
| `snapshot_store` | 2 processes, 2 trees, 3 registrations, 1 kill, 1 power loss, 1 damage | `TypeOK`, `RegisteredIsWhole`, `RegistrationUndisturbed`, `EvidenceIsTrue`, `PublishedIsKept`, `KeepsSnapshotLedger` |
| `snapshot_start` | the instance that shows it | `StartReconciles` is violated |

Bounds.  Two workers are enough for a stale holder and a new one; three attempts
give a first, a middle and a last one, so that "attempts left", "the last attempt"
and "none left" differ.  A lease of two ticks lets a beat come before or after half
of it, and a skew of one makes two clocks disagree about expiry in both
directions.  Two jobs are needed for batches, for priorities and for one run to
revise the artifact of another; one job suffices for the races about a lease.
For integration, two attempts are a race for the head of the branch, as two
approvals of the same patch; with a foreign commit somebody else can push
before the base is chosen, between the check of the head and the push, or between
the push and its verification.  A third attempt could only repeat one of these
positions, and two patches on one base or one on top of the other are covered by
the theorems, which hold for any number.
For the audit chain, two transactions are a race for a record and two streams a
deadlock between them; five events let one of them append twice behind the other
and roll back in between.  For recovery, two approvals are two reverts of one
change, the second of which must find nothing to do; two runs of one attempt are a
stale and a current claim, more than today's queue makes; the foreign commit brings the change back between them.
For the workflow, two phases are one behind which the next is a document and one
behind which it is code; two workers are a stale and a current view; two executions
are the engine's and one begun by hand, two attempts two approvals of one patch; one
trouble is
a relink, a work begun by hand or a death of a process (`MaxTroubles` counts them
together; what takes two, such as a relink to an execution begun by hand, is not in the
run, see `ReviewsItsExecution` below), and `MaxWaiting` keeps one call or failure and one job waiting at a time.
For the snapshot store, two processes are a start beside a registration; of three
registrations, two can share a tree and a third can follow a reconciliation; each
fault happens once, before, between or after the others, so that a death, an adoption
and a loss of power follow each other.
Workers, and jobs of equal priority and budget, are interchangeable, so runs that
check safety only, invariants and `[][A]_v`, use symmetry where it is worth it.

Fairness (`Fairness`, `RunsFairness`, `FairMaintenanceSpec`).  Time passes; a
maintenance task that has not been broken comes to its next round, every minute
(`RunsFairness`, which only a violation run uses, has a recovery step that is weakly
fair); operators do as they like; a dead process is restarted
(`StartWorker`, as the deployment's restart policy does); the event loop takes the
steps that are ready; a handler ends by `worker_execution_timeout_seconds`.
`ClaimNext` is strongly fair for each worker: a process that keeps coming back
to its poll while a job can be claimed does claim one day, that is, not every
poll is hit by a crash.  Crashes themselves, beats and heartbeat failures are not
fair, and handlers need not succeed.  In `Integration`, `FairSpec` is weak fairness
of `WorkerStep`: the processor awaits nothing but git calls and tests, which have
timeouts, so it goes on unless it is cancelled or killed.  Cancellations, crashes,
evaluations, approvals and deliveries are not fair.
`AuditChain` has weak fairness of `WriterStep`: statements return, callers commit, and
the database breaks a deadlock; nobody has to append.  `Workflow` has weak fairness
of `Notify`, a handler that succeeded goes on to call it, and strong fairness of
`DeadLetter` and of each worker's `Advances`, which wait for a lock that others take and
give back; that people decide is not assumed.  `Recovery` and `SnapshotStore` claim
no liveness.

## Findings

Each is a violation run; the lines and quotations are in `PROJECT.json`.

1. `QueueHeals`: a job whose cycle is not pending ends every process that claims it.
2. `PushFailureIsCertain`: a push whose answer is lost is recorded as failed, and
   the remote is not asked.
3. `Resumes`: an approval and the call that tells the workflow are two commits; a
   process that dies between them leaves a workflow that nothing moves, and
   `relink_project` does not touch it.
4. `StartReconciles`: a tree that is orphaned a second time collides with its first
   copy in the quarantine.  Every job makes a store object of its own, so from then
   on no job of the restricted provider gets one.

The modules state more that does not hold, each marked "Not so" in its comment and
without a run of its own, as it is a step towards one of these or a design
that no document contradicts.  Named as invariants or properties in a configuration,
TLC shows their traces.

* `RequirementsRuns`: `OnlyHolderWrites` (the commits of a handler are not fenced by the
  lease), `LostAttemptIsRetried` (a run that was running when its worker died refuses
  the retry), `OneActiveCycle` (recovery makes a completed cycle pending again),
  `OneArtifactPerRun` (two attempts can both store an artifact), `ExhaustedRunsFail`
  (`recover_expired` dead-letters a job and leaves its run running).
* `JobQueue`: `EventuallyTerminal` without the premise of `SweptQueueEnds` (an
  exception in one round ends a maintenance task for good, and its process, which
  goes on, is not restarted).
* `Integration`: `IntegratedIsFinal` (reading the eligibility of an integrated patch
  makes it eligible again).
* `Workflow`: `ReviewsItsExecution` (the review's key names the workflow only: after a
  relink to an execution begun by hand the engine waits for the review of the old
  one; `verify_completeness`, which compares them, keeps it from completing).  It needs
  two executions and `MaxTroubles = 2`.
* `SnapshotStore`: `RegisteredOutlivesPower` (a tree that was found in place before its
  rename was synced is registered and then lost with the power).

A workflow can be stranded without any fault, too: with two workers a fast run
ends and is advanced before the worker that began it has written its transition.

## Proofs

`JobQueueProofs` proves, for any sets of workers and jobs, any budgets, delays,
lease time and skew, from `QueueAssumption` alone:

* `TypeCorrect`, `LeaseAgrees`, `WaitingIsClaimable`, `DeathHasCause`: the
  invariants of `jobqueue_safety`;
* `OnlyHolderSucceeds`, `LeaseIsRespected`: its action properties;
* `QueueImplementsLedger`: `Spec => KeepsLedger`, the refinement of `JobLedger`.

The argument.  `QueueInv` adds to the type invariant, for each job, that its
version equals its number of attempts, that it is owned exactly when leased, and
that attempt `n` exists, with version `n`, exactly for `n` up to that number.
`LeaseMatchesAttempt` alone is not inductive: closing "the attempts whose version
is the lease's" touches only the newest one because versions are numbered
without gaps.  `StepMoves` then reduces every action, for every job, to one of four moves
(kept, entered, opened, ended); the invariant (`InvStep`) and the refinement
(`LedgerMove`) follow from the moves, not from the actions.

`MaintenanceProofs` proves `MaintainedQueue`: every behaviour of the queue with tasks
that start, break and die with their processes is one of `JobQueue`, so that all of
the above holds of it, `KeepsLedger` by name.

`RequirementsRunsProofs` proves, from `QueueAssumption` and `RunsAssumption` alone, the
four invariants of `requirements_safety` (`RunsTyped`, `ActiveCyclesLive`,
`SuccessAlwaysHasResult`, `ReportedDeathsFailWorkflow`), and `RunsQueue`: every
behaviour of the requirements phase is one of `JobQueue`, so that all of the above
holds of it, too.

The argument.  A commit of a handler is not fenced, so none of the four can rest on the
handler having the lease.  `HandlerInv` says what a handler may rely on at each stage
also after it lost the lease (an artifact is stored, the workflow was told), and what
only while it `Holds` it (the cycle is its own).  `WorkerMoves` reduces every step to
seven moves of a worker and `CycleMoves` to six moves of a job with its cycle;
`HoldsKept` says that the lease is lost for good once it is lost, because the
version only grows.  A late handler can complete a cycle that recovery made pending
(`CycleDone`), which is harmless for these four and is what `QueueHeals` shows to be harmful.

`IntegrationProofs` proves, from `IntegrationAssumption` alone, the safety
properties of the integration run, `CommitsSitOnApprovedBase`, `PatchLandsOnce`,
`PushesAreAnnounced`, `RecoveryEvidenceIsTrue`, `OutcomesAreSettled`, the refinement
`IntegrationImplementsLedger`, and `IntegrationTyped` (its `TypeOK`), which no run checks
any more because it is proved.

The argument.  Two approvals of a patch land once not because a table forbids the
second, but because both name the same base and the branch never returns to a
head it has left.  That needs more than `LandsOnApprovedBase`: `BranchInv` adds that
no commit is on the branch twice.  Two commits with one base would each come right
after it, hence in the same place.  `AttemptInv` ties each attempt's stage, worker, thread and decision
together: a commit can be on the branch only after its thread got to send, the
thread starts with the transition to pushing, and an outcome is written only when
the thread is done or was never started; that also holds of a worker that does not
know how far it has come.  `BranchMoves` reduces every action to three: the branch is
kept, takes a foreign commit, or takes the commit of an attempt at its approved
base; the properties of the branch follow from those.

`RecoveryProofs` proves, from `RecoveryAssumption` alone, for any approvals, foreign
commits and number of runs: `RecoveryTyped`, `AlwaysLandsOnApprovedHead`,
`FailureIsAlwaysCertain`, `RecoveredIsAlwaysTrue`, `UncertainAlwaysHasCommit` and the
refinement `RecoveryKeepsRollbackLedger`.

The argument.  A second run of an attempt may go on beside the first, so a stage says
nothing by itself.  `AttemptInv` says that of all runs of an attempt at most one has
ever pushed: a run can announce its push only as the latest and only while nothing was
announced, and every later run then only asks the branch.  From this follows that a
failure is certain: either the run that writes it is the one that was to push, and found
that the head had moved, or nobody has announced a push, and whoever would is fenced off
from then on.  A commit on the branch has a thread that landed it, hence an announcement,
hence an attempt and a consumed approval.  For the refinement, that there is something to
revert is known where the revert is made, and has to be carried to the push (`RunInv`):
it is a fact about the approved head, whose content stays what it is while the branch
grows, and the push lands only right behind that head.

`AuditChainProofs` proves, from `AuditAssumption` alone, for any streams, sessions
and number of events: `ChainTypes`, `ChainsVerify`, `NoForks` and the refinement
`ChainImplementsLog`.

The argument.  That the committed chain verifies is not inductive: it says nothing
of what a transaction is about to commit.  The invariant follows the record through
its transaction instead.  What a session has chosen or inserted continues a
record that it sees, with no number missing below it; and no two records, of whatever
session, share a key or an event.  From these two follows that a record behind a stale
choice finds its key taken, so a commit extends the chain by exactly what its transaction has built on
top of it.  That no lock is held for the first event of a stream does not matter:
the proof uses the key and never the lock, which only saves retries.

`WorkflowProofs` proves, from `WorkflowAssumption` and `NoViewAssumption` (the marker for
no view is none), for any workers, phases and bounds: `WorkflowTyped`,
`CompletedAlwaysIntegrated`, `EngineAlwaysQueuesOnce` and the refinement
`WorkflowKeepsLifecycle`.

The argument.  A worker that is about to commit holds the lock, so what it has read of
the row is the row (`Committing`).  One that is about to append has given the lock
away, and a relink never had it; what they have computed is one legal step behind the
version it was computed from, and every write makes a new version.  So either nobody
has written since and the step is legal, or the key of the context refuses it
(`Appending`, `RelinkingInv`).  `CompletedInv` holds because evidence is never taken
back: accepted reviews, verified attempts and approved documents stay so (`Kept`).
That the documents are approved is not what `verify_completeness` asks; it
follows from `DocumentsInv`: a phase is begun only behind approved ones, code only behind
all of them, and a stale reading of the project that said "approved" is still right
(`Backed`).  For
`EngineQueuesOnce`, the engine begins a phase only when the one before it is approved,
and then no run is under way (`CrewInv`, `ReadInv`).  The requirements are the
exception: a failed run may be begun anew while the workflow stands at its start.
`BeforeInv` and `FirstInv` say that before that begin is written down there is one job
or one worker with it, and afterwards no job and no call that could make
another worker look, because a run that is going to be tried again has told nobody.
This is the part that fails without the premises of the property.

`SnapshotStoreProofs` proves, from `SnapshotAssumption` alone, for any processes,
trees, registrations and faults: `StoreTyped`, `RegisteredStaysWhole`,
`NobodyDisturbs`, `EvidenceTrue`, `PublishedKept` and the refinement
`StoreImplementsLedger`.

The argument.  `StoreInv` ties what the holder of the lock knows to the directories:
what it stages is as far as its place says and not registered (`Stages`), what it has
published is there (`Publishes`), and what it moves away was unregistered or
damaged before (`Intends`, `Moves`).  `Exclusive` makes this survive the steps of the
others (`OthersOutside`), and a process that stops forgets it.  `RegisteredIsWhole`
alone is not inductive, for two reasons.  An object might be there with contents that
a loss of power tears, so `ObjectsSound` says that whatever is published was synced
first.  And its rename might be undone, so `ObjectsUnsynced` says that a rename which
is not on the disk made an object that is not registered, damaged or adopted, and
`EntriesUnfiled` that what comes back from the quarantine is as sound as it was and
still has its intent.  An fsync only makes these sets smaller (`Settling`).
`PowerLossFacts` says what undoing some of the renames does to one name,
`PowerLossSpares` that a settled registered tree is not among them.  `StepEffect` then
reduces all actions to what they do to the objects (nothing, adopt, quarantine, add,
damage, lose power), and `PublishedKept` and the refinement (`ContentMoves`, with
`Turns` for the trees that stop being adopted) follow from those six.

Every invariant, action property and refinement that a passing run checks is proved.
Left to TLC: liveness under fairness (`SweptQueueEnds`, `Settles`, `TransactionsEnd`),
which is out of the prover's reach, and the violation runs.

## Not modelled

`record_setup_blockers` and failure messages (text columns only); the registry of
workers; priorities among more than one worker profile; manual retry of a failed
workflow; the revision service's superseding of patches; the expiry of a recovery's
approval; checkpoints, step attempts and the contents of contexts of a workflow, the
double approval of one document, and which of two documents of a kind
`verify_completeness` is given (`MayMiss` allows both outcomes); the broker's engine, its evidence of finished runs and its
nonces; the components listed as `not_modelled` in `PROJECT.json`.

## Plan

1. `JobQueue`, `JobLedger`, `JobQueueProofs`: done.
2. `RequirementsRuns`, `RequirementsRunsProofs`: done.
3. `Integration`, `PatchLedger`, `IntegrationProofs`: done.
4. `AuditChain`, `AuditLog`, `AuditChainProofs`: done.
5. `Recovery`, `RollbackLedger`, `RecoveryProofs`: done.
6. `Workflow`, `Lifecycle`, `WorkflowProofs`: done.
7. `SnapshotStore`, `SnapshotLedger`, `SnapshotStoreProofs`: done.
8. `Maintenance`, `MaintenanceProofs`: done.
9. The handoff of execution evidence, `PatchReview` with the superseding of patches,
   `ChangeManagement`, `Resilience`, in that order.
