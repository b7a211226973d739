---------------------------- MODULE Integration ----------------------------
(***************************************************************************)
(* Controlled integration: a reviewed patch becomes eligible, a human      *)
(* approves it, an attempt consumes the approval, and an integration       *)
(* worker applies, tests, commits and pushes it to the protected branch of *)
(* a remote repository that other people push to as well                   *)
(* (application/integration, infrastructure/integration).                  *)
(*                                                                         *)
(* One action is one transaction or one call to the remote repository.  A  *)
(* push runs in a thread of its own: a cancelled worker (deadline, lost    *)
(* lease) leaves it running, a crashed one takes it along.  An approval    *)
(* admits one attempt, so a is both; the commit of attempt a is written a  *)
(* as well, for it is a function of the approval and the attempt.          *)
(***************************************************************************)
EXTENDS Naturals, Sequences

CONSTANTS
  Patches,    \* execution runs that produced a candidate patch
  Attempts,   \* approvals, their attempts and their commits
  Foreign,    \* commits that other people push to the branch
  Root,       \* the first commit of the branch
  NoCommit,   \* no base commit: the execution has not run
  NoPatch,    \* the approval does not exist
  NoReading   \* no evaluation of the patch is under way

ASSUME IntegrationAssumption ==
  /\ Root \notin Attempts \cup Foreign
  /\ Attempts \cap Foreign = {}
  /\ NoCommit \notin Attempts \cup Foreign \cup {Root}
  /\ NoPatch \notin Patches
  /\ Patches \cap (Foreign \cup {Root}) = {}

VARIABLES
  branch,      \* the commits of the remote branch, oldest first
  base,        \* base[p]: the commit that patch p was made against
  evidence,    \* evidence[p]: reviews, findings and tests are in order
  eligible,    \* eligible[p]: the stored decision on p
  patchStatus, \* patchStatus[p]: execution_runs.patch_status
  reading,     \* reading[p]: what an evaluation of p has read so far
  patchOf,     \* patchOf[a]: the patch that approval a is bound to
  decision,    \* decision[a]: the decision on the approval
  stage,       \* stage[a]: the last event committed for attempt a
  worker,      \* worker[a]: the one delivery of the attempt's job
  push,        \* push[a]: the thread that pushes the commit of a
  records      \* attempts with an integration commit and a rollback record

patchVars == <<base, evidence, eligible, patchStatus, reading>>
grants    == <<patchOf, decision>>
vars      == <<branch, patchVars, grants, stage, worker, push, records>>

Commits == Attempts \cup Foreign \cup {Root}

PatchStatuses == {"generated", "integration_eligible", "integration_approved",
                  "integrating", "integration_failed", "integrated"}

\* The events of an attempt in order.  The row shows "tested" as testing, and
\* "pushed", "verified" and "recorded" as pushing.
Preparing == {"verifying", "snapshot_ready", "applying_patch", "patch_applied",
              "testing", "tested", "commit_creating", "commit_created"}
Pushing   == {"pushing", "pushed", "verified", "recorded"}
Failures  == {"verification_failed", "patch_apply_failed", "tests_failed",
              "commit_failed", "push_failed"}
Settled   == Failures \cup {"integrated"}
Stages    == {"none", "queued"} \cup Preparing \cup Pushing \cup Settled

NextStage ==
  [verifying |-> "snapshot_ready", snapshot_ready |-> "applying_patch",
   applying_patch |-> "patch_applied", patch_applied |-> "testing",
   testing |-> "tested", tested |-> "commit_creating",
   commit_creating |-> "commit_created", commit_created |-> "pushing"]

\* Mutant of FailureStatus: failure_status is not moved on to push_failed before the push.
FailureStatusLate ==
  [s \in Preparing \cup Pushing |->
     IF s = "verifying" THEN "verification_failed" ELSE "commit_failed"]

\* failure_status as the processor has it after each event.
FailureStatus ==
  [verifying |-> "verification_failed", snapshot_ready |-> "patch_apply_failed",
   applying_patch |-> "patch_apply_failed", patch_applied |-> "tests_failed",
   testing |-> "tests_failed", tested |-> "commit_failed",
   commit_creating |-> "commit_failed", commit_created |-> "push_failed",
   pushing |-> "push_failed", pushed |-> "push_failed",
   verified |-> "push_failed", recorded |-> "push_failed"]

\* A worker doubts when the reply to its last commit was lost.
Workers == {"none", "waiting", "running", "doubting", "stopped", "ended"}
Threads == {"idle", "checking", "sending", "accepted", "refused", "dead"}

Readings == [eligible : BOOLEAN, was : PatchStatuses]

OnBranch(c)     == \E i \in 1..Len(branch) : branch[i] = c
RemoteHead      == branch[Len(branch)]
ApprovedBase(a) == base[patchOf[a]]

TypeOK ==
  /\ branch \in Seq(Commits)
  /\ base \in [Patches -> Commits \cup {NoCommit}]
  /\ evidence \in [Patches -> BOOLEAN]
  /\ eligible \in [Patches -> BOOLEAN]
  /\ patchStatus \in [Patches -> PatchStatuses]
  /\ reading \in [Patches -> Readings \cup {NoReading}]
  /\ patchOf \in [Attempts -> Patches \cup {NoPatch}]
  /\ decision \in [Attempts -> {"none", "approved", "consumed"}]
  /\ stage \in [Attempts -> Stages]
  /\ worker \in [Attempts -> Workers]
  /\ push \in [Attempts -> Threads]
  /\ records \subseteq Attempts

Init ==
  /\ branch = <<Root>>
  /\ base = [p \in Patches |-> NoCommit]
  /\ evidence = [p \in Patches |-> FALSE]
  /\ eligible = [p \in Patches |-> FALSE]
  /\ patchStatus = [p \in Patches |-> "generated"]
  /\ reading = [p \in Patches |-> NoReading]
  /\ patchOf = [a \in Attempts |-> NoPatch]
  /\ decision = [a \in Attempts |-> "none"]
  /\ stage = [a \in Attempts |-> "none"]
  /\ worker = [a \in Attempts |-> "none"]
  /\ push = [a \in Attempts |-> "idle"]
  /\ records = {}

(***************************************************************************)
(* The patch and what is decided about it.                                 *)
(***************************************************************************)

\* An execution made against a commit of the branch, possibly an older one,
\* ends with a candidate patch.
Produce(p) ==
  /\ base[p] = NoCommit
  /\ \E i \in 1..Len(branch) : base' = [base EXCEPT ![p] = branch[i]]
  /\ UNCHANGED <<branch, evidence, eligible, patchStatus, reading, grants,
                 stage, worker, push, records>>

\* A review of the patch ends.  The latest accepted one counts, and an open
\* finding in it spoils the evidence that an earlier one had completed.
ReviewEnds(p) ==
  /\ base[p] # NoCommit
  /\ evidence' = [evidence EXCEPT ![p] = ~@]
  /\ UNCHANGED <<branch, base, eligible, patchStatus, reading, grants, stage,
                 worker, push, records>>

\* evaluate_eligibility, which every GET of the eligibility runs: it reads the
\* execution and the evidence without a lock ...
EvaluateReads(p) ==
  /\ base[p] # NoCommit
  /\ reading[p] = NoReading
  /\ reading' = [reading EXCEPT
       ![p] = [eligible |-> evidence[p], was |-> patchStatus[p]]]
  /\ UNCHANGED <<branch, base, evidence, eligible, patchStatus, grants, stage,
                 worker, push, records>>

\* The status an evaluation leaves behind.  The session writes the column only
\* when it differs from the value it read.
StatusEvaluated(p, r) ==
  IF r.eligible /\ r.was # "integration_eligible"
  THEN "integration_eligible" ELSE patchStatus[p]

\* ... and commits the decision, whatever happened to the patch in between.
EvaluateWrites(p) ==
  /\ reading[p] # NoReading
  /\ eligible' = [eligible EXCEPT ![p] = reading[p].eligible]
  /\ patchStatus' = [patchStatus EXCEPT ![p] = StatusEvaluated(p, reading[p])]
  /\ reading' = [reading EXCEPT ![p] = NoReading]
  /\ UNCHANGED <<branch, base, evidence, grants, stage, worker, push, records>>

\* approve: every call on an eligible patch stores another approval.
Approve(a, p) ==
  /\ decision[a] = "none"
  /\ eligible[p]
  /\ decision' = [decision EXCEPT ![a] = "approved"]
  /\ patchOf' = [patchOf EXCEPT ![a] = p]
  /\ patchStatus' = [patchStatus EXCEPT ![p] = "integration_approved"]
  /\ UNCHANGED <<branch, base, evidence, eligible, reading, stage, worker,
                 push, records>>

\* create_attempt: consume the approval, store the attempt and enqueue its job,
\* which is delivered once (max_attempts = 1).
CreateAttempt(a) ==
  /\ decision[a] = "approved"
  /\ eligible[patchOf[a]]
  /\ decision' = [decision EXCEPT ![a] = "consumed"]
  /\ stage' = [stage EXCEPT ![a] = "queued"]
  /\ worker' = [worker EXCEPT ![a] = "waiting"]
  /\ patchStatus' = [patchStatus EXCEPT ![patchOf[a]] = "integrating"]
  /\ UNCHANGED <<branch, base, evidence, eligible, reading, patchOf, push,
                 records>>

(***************************************************************************)
(* The worker up to the push.                                              *)
(***************************************************************************)

\* claim_and_load with its checks satisfied.
ClaimAndLoad(a) ==
  /\ worker[a] = "waiting"
  /\ stage[a] = "queued"
  /\ decision[a] = "consumed"
  /\ eligible[patchOf[a]]
  /\ worker' = [worker EXCEPT ![a] = "running"]
  /\ stage' = [stage EXCEPT ![a] = "verifying"]
  /\ UNCHANGED <<branch, patchVars, grants, push, records>>

\* claim_and_load raises before the try block: the job fails and the attempt
\* stays queued.
ClaimRefused(a) ==
  /\ worker[a] = "waiting"
  /\ ~eligible[patchOf[a]]
  /\ worker' = [worker EXCEPT ![a] = "ended"]
  /\ UNCHANGED <<branch, patchVars, grants, stage, push, records>>

\* The next step succeeds: its work on the snapshot and the transition that
\* commits it, of which the worker learns or not.  The transition to pushing
\* starts the thread.
Transition(a) ==
  /\ worker[a] = "running"
  /\ stage[a] \in Preparing
  /\ stage' = [stage EXCEPT ![a] = NextStage[stage[a]]]
  /\ \/ /\ worker' = worker
        /\ push' = [push EXCEPT ![a] = IF stage'[a] = "pushing" THEN "checking" ELSE @]
     \/ /\ worker' = [worker EXCEPT ![a] = "doubting"]
        /\ UNCHANGED push
  /\ UNCHANGED <<branch, patchVars, grants, records>>

\* Mutant of Raises: the failure of a cancelled worker is recorded as well, with its push
\* still under way (except BaseException).
RaisesAnywhere(a) ==
  /\ worker[a] = "running"
  /\ stage[a] \in Preparing \cup Pushing

\* A step raises, or its transaction does.  The worker learns of a failed push
\* when its thread is done.
Raises(a) ==
  \/ worker[a] = "doubting"
  \/ /\ worker[a] = "running"
     /\ stage[a] \in Preparing \cup Pushing
     /\ stage[a] = "pushing" => push[a] \in {"accepted", "refused"}

\* The worker of a took failure_status from stage s last: it has not come to do
\* so again when it does not know of the stage that it has reached.
Standing(a, s) ==
  \/ worker[a] = "running" /\ stage[a] = s
  \/ worker[a] = "doubting" /\ s \in Preparing /\ stage[a] = NextStage[s]
  \/ worker[a] = "doubting" /\ s = "recorded" /\ stage[a] = "integrated"

\* Mutant of Fail: the exception leaves the handler with nothing recorded.
FailSilently(a) ==
  /\ Raises(a)
  /\ worker' = [worker EXCEPT ![a] = "ended"]
  /\ UNCHANGED <<branch, patchVars, grants, stage, push, records>>

\* ... and store.fail commits the failure of the step, over whatever the row says.
Fail(a) ==
  /\ Raises(a)
  /\ \E s \in Preparing \cup Pushing :
       Standing(a, s) /\ stage' = [stage EXCEPT ![a] = FailureStatus[s]]
  /\ worker' = [worker EXCEPT ![a] = "ended"]
  /\ patchStatus' = [patchStatus EXCEPT ![patchOf[a]] = "integration_failed"]
  /\ UNCHANGED <<branch, base, evidence, eligible, reading, grants, push,
                 records>>

(***************************************************************************)
(* The push, and the worker after it.                                      *)
(***************************************************************************)

\* RestrictedPusher.push: the head of the branch must be the approved base ...
CheckHead(a) ==
  /\ push[a] = "checking"
  /\ push' = [push EXCEPT
       ![a] = IF RemoteHead = ApprovedBase(a) THEN "sending" ELSE "refused"]
  /\ UNCHANGED <<branch, patchVars, grants, stage, worker, records>>

\* Mutant of PushResults: the pusher merges or rebases when the branch has moved.
PushMerged(a) == {Append(branch, a)}

\* What a plain git push makes of the branch: it only moves forward, and the
\* parent of the commit is the approved base.
PushResults(a) ==
  IF RemoteHead = ApprovedBase(a) THEN {Append(branch, a)} ELSE {}

\* ... when the push arrives.  The answer may get lost on its way back.
PushLands(a) ==
  /\ push[a] = "sending"
  /\ branch' \in PushResults(a)
  /\ \E answer \in {"accepted", "refused"} : push' = [push EXCEPT ![a] = answer]
  /\ UNCHANGED <<patchVars, grants, stage, worker, records>>

\* The remote refuses, or a git call fails or times out before anything moved.
PushFails(a) ==
  /\ push[a] \in {"checking", "sending"}
  /\ push' = [push EXCEPT ![a] = "refused"]
  /\ UNCHANGED <<branch, patchVars, grants, stage, worker, records>>

PushCompleted(a) ==
  /\ worker[a] = "running"
  /\ stage[a] = "pushing"
  /\ push[a] = "accepted"
  /\ stage' = [stage EXCEPT ![a] = "pushed"]
  /\ UNCHANGED <<branch, patchVars, grants, worker, push, records>>

\* RemoteVerifier.verify: the commit must still be the head of the branch.
RemoteVerified(a) ==
  /\ worker[a] = "running"
  /\ stage[a] = "pushed"
  /\ RemoteHead = a
  /\ stage' = [stage EXCEPT ![a] = "verified"]
  /\ UNCHANGED <<branch, patchVars, grants, worker, push, records>>

\* Mutant of RecordsWith: the null hook in place of the rollback hook.
RecordsNothing(a) == records

\* The rollback hook commits the integration commit and the rollback record.
RecordsWith(a) == records \cup {a}

RecordRollback(a) ==
  /\ worker[a] = "running"
  /\ stage[a] = "verified"
  /\ records' = RecordsWith(a)
  /\ stage' = [stage EXCEPT ![a] = "recorded"]
  /\ UNCHANGED <<branch, patchVars, grants, worker, push>>

Complete(a) ==
  /\ worker[a] = "running"
  /\ stage[a] = "recorded"
  /\ stage' = [stage EXCEPT ![a] = "integrated"]
  /\ \E w \in {"ended", "doubting"} : worker' = [worker EXCEPT ![a] = w]
  /\ patchStatus' = [patchStatus EXCEPT ![patchOf[a]] = "integrated"]
  /\ UNCHANGED <<branch, base, evidence, eligible, reading, grants, push,
                 records>>

(***************************************************************************)
(* What can happen to a worker, and who else uses the branch.              *)
(***************************************************************************)

\* The deadline or a lost lease cancels the handler: no except clause runs, and
\* a push that is under way goes on.  A store.fail that raises itself looks the
\* same, and a claim_and_load whose reply is lost.
Cancel(a) ==
  /\ worker[a] \in {"waiting", "running", "doubting"}
  /\ worker' = [worker EXCEPT ![a] = "stopped"]
  /\ UNCHANGED <<branch, patchVars, grants, stage, push, records>>

\* The process dies with its threads.
Crash(a) ==
  /\ worker[a] \in {"waiting", "running", "doubting"}
  /\ worker' = [worker EXCEPT ![a] = "stopped"]
  /\ push' = [push EXCEPT ![a] = IF @ = "idle" THEN "idle" ELSE "dead"]
  /\ UNCHANGED <<branch, patchVars, grants, stage, records>>

PushByOthers(c) ==
  /\ ~OnBranch(c)
  /\ branch' = Append(branch, c)
  /\ UNCHANGED <<patchVars, grants, stage, worker, push, records>>

WorkerStep(a) ==
  \/ Transition(a)
  \/ Fail(a)
  \/ CheckHead(a)
  \/ PushLands(a)
  \/ PushFails(a)
  \/ PushCompleted(a)
  \/ RemoteVerified(a)
  \/ RecordRollback(a)
  \/ Complete(a)

PatchStep(p) ==
  \/ Produce(p)
  \/ ReviewEnds(p)
  \/ EvaluateReads(p)
  \/ EvaluateWrites(p)

Next ==
  \/ \E p \in Patches : PatchStep(p)
  \/ \E a \in Attempts, p \in Patches : Approve(a, p)
  \/ \E a \in Attempts :
       \/ CreateAttempt(a)
       \/ ClaimAndLoad(a)
       \/ ClaimRefused(a)
       \/ WorkerStep(a)
       \/ Cancel(a)
       \/ Crash(a)
  \/ \E c \in Foreign : PushByOthers(c)

Spec == Init /\ [][Next]_vars

\* Git calls and tests have timeouts, so a worker that is neither cancelled nor
\* killed goes on to its next step.
FairSpec == Spec /\ \A a \in Attempts : WF_vars(WorkerStep(a))

(***************************************************************************)
(* What must be true.                                                      *)
(***************************************************************************)

\* A commit of ours on the branch has the commit its approval names right
\* before it, whoever else pushes or races for the branch
\* (RestrictedPusher.push).
LandsOnApprovedBase ==
  \A i \in 2..Len(branch) :
    branch[i] \in Attempts => branch[i - 1] = ApprovedBase(branch[i])

\* However many approvals a patch collects, it reaches the branch once: nothing
\* in the tables forbids a second attempt, only the race for the head does.
LandsOnce ==
  \A i, j \in 1..Len(branch) :
    /\ branch[i] \in Attempts
    /\ branch[j] \in Attempts
    /\ patchOf[branch[i]] = patchOf[branch[j]]
    => i = j

\* Before a commit can be on the branch the attempt's row says so: whatever
\* stops the worker, a row outside these stages means an untouched remote
\* (the order of transitions and failure_status in the processor).
PushIsAnnounced ==
  \A a \in Attempts :
    OnBranch(a) => stage[a] \in Pushing \cup {"push_failed", "integrated"}

\* An attempt that is integrated has its recovery evidence, and the evidence is
\* about a commit of the branch.
EvidenceIsTrue ==
  /\ \A a \in Attempts : stage[a] = "integrated" => a \in records
  /\ \A a \in records : OnBranch(a)

\* Once an attempt has an outcome, its commit does not reach the branch any
\* more: the outcome is written after the push thread is done.
NothingLandsAfterOutcome ==
  [][ \A a \in Attempts :
        stage[a] \in Settled /\ ~OnBranch(a) => ~OnBranch(a)' ]_vars

\* What the branch holds and what was granted, as the ledger sees them.
PatchLog ==
  [i \in 1..Len(branch) |->
     IF branch[i] \in Attempts THEN patchOf[branch[i]] ELSE branch[i]]
Granted ==
  {p \in Patches : \E a \in Attempts : decision[a] = "consumed" /\ patchOf[a] = p}

Ledger == INSTANCE PatchLedger
          WITH Others <- Foreign, First <- Root, log <- PatchLog, granted <- Granted

\* Approvals, attempts, races and lost answers together implement a log that
\* takes a granted patch once.
KeepsPatchLedger == Ledger!Spec

\* An attempt whose worker runs gets an outcome, unless the worker is cancelled
\* or dies.
Settles ==
  \A a \in Attempts :
    worker[a] = "running" ~> stage[a] \in Settled \/ worker[a] = "stopped"

\* What the design of the pipeline says and the code does not keep: an attempt
\* that reports a failed push has not pushed (the remote is asked first) ...
PushFailureIsCertain ==
  \A a \in Attempts : stage[a] = "push_failed" => ~OnBranch(a)

\* ... and integrated is the last status of a patch, which evaluate_eligibility
\* sets back to integration_eligible whenever it is asked.
IntegratedIsFinal ==
  [][ \A p \in Patches :
        patchStatus[p] = "integrated" => patchStatus'[p] = "integrated" ]_vars
=============================================================================
