------------------------------ MODULE Recovery ------------------------------
(***************************************************************************)
(* Controlled recovery: an integration that went wrong is assessed, a      *)
(* human approves its revert for the head the branch had then, an attempt  *)
(* consumes the approval, and a recovery worker reverts, tests, commits    *)
(* and pushes (application/recovery, infrastructure/recovery).             *)
(*                                                                         *)
(* Every delivery of an attempt's job is a run with a lease of one hour.   *)
(* Today a job has one delivery: create_attempt enqueues it with           *)
(* max_attempts = 1 and nothing queues it again.  The store is written for *)
(* more, with its claims, run numbers and fence, so the model lets some    *)
(* attempts have a second run: more than the program does, never less.     *)
(* What a run writes is fenced by the lease and by the number of the run;  *)
(* what it does to the remote is not.  One action is one transaction or    *)
(* one look at the remote.  The push runs in a thread of its own, which    *)
(* outlives a worker that is cancelled but not a process that dies.        *)
(* An approval admits one attempt and the commit is a function of both (its *)
(* time stamp is that of the approval), so that a stands for all three.    *)
(***************************************************************************)
EXTENDS Naturals, Sequences

CONSTANTS
  Attempts,   \* approvals, their attempts and their commits
  Foreign,    \* commits that other people push to the branch
  Restoring,  \* those of them that put the reverted change back
  Target,     \* the integration commit that is to be reverted
  NoCommit,   \* no head: the incident is not assessed
  Redelivered, \* bound: attempts whose job may be delivered more than once
  MaxRuns     \* bound: deliveries of the job of such an attempt

ASSUME RecoveryAssumption ==
  /\ MaxRuns \in Nat \ {0}
  /\ Attempts \cap Foreign = {}
  /\ Restoring \subseteq Foreign
  /\ Redelivered \subseteq Attempts
  /\ Target \notin Attempts \cup Foreign
  /\ NoCommit \notin Attempts \cup Foreign \cup {Target}

VARIABLES
  branch,     \* the commits of the remote branch since Target, oldest first
  expected,   \* expected[a]: the head that the assessment and approval a name
  approval,   \* approval[a]: how far the people are
  status,     \* status[a]: the attempt's row
  announced,  \* attempts with push_started_at
  tested,     \* attempts with test rows
  recorded,   \* attempts with a recovery commit row
  confirmed,  \* attempts with a remote verification row
  runs,       \* runs[a]: the number of the latest run
  lease,      \* lease[a]: the claim of the latest run
  at,         \* at[<<a, n>>]: what run n of a has done
  push        \* push[<<a, n>>]: the thread in which run n of a pushes

people   == <<expected, approval>>
rows     == <<status, announced, tested, recorded, confirmed>>
claims   == <<runs, lease>>
vars     == <<branch, people, rows, claims, at, push>>

Commits == Attempts \cup Foreign \cup {Target}
Runs    == 1..MaxRuns

\* RecoveryAttemptStatus: the ways to fail, the last stages, the safe ones.
Failures  == {"remote_state_changed", "revert_conflict", "test_failed",
              "commit_failed", "push_uncertain", "remote_verification_failed"}
Certain   == {"remote_state_changed", "revert_conflict", "test_failed", "commit_failed"}
SafeToRestart == {"queued", "claimed", "preparing_workspace", "creating_revert",
                  "running_tests", "creating_commit"}
Settled   == Failures \cup {"recovered"}
Statuses  == {"none", "pushing", "verifying_remote_result"} \cup SafeToRestart \cup Settled

Reverting  == {"claimed", "preparing", "cloned", "reverting", "reverted", "testing",
               "tested", "committing", "committed", "pushing"}
Finishing  == {"verified", "finishing", "confirmed"}
Reconciling == {"uncertain", "examined"}
Running    == Reverting \cup Finishing \cup Reconciling
Places     == {"none", "stopped", "ended"} \cup Running
Threads    == {"idle", "checking", "sending", "accepted", "refused", "advanced", "dead"}

OnBranch(c) == \E i \in 1..Len(branch) : branch[i] = c
RemoteHead  == branch[Len(branch)]

\* The content of the branch at its i-th commit has the change of Target.
InEffectAt(i) ==
  \E j \in 1..i :
    /\ branch[j] \in Restoring \cup {Target}
    /\ \A k \in (j + 1)..i : branch[k] \notin Attempts

\* Mutant of Failure: one status for all failures.
FailureCollapsed(a, n) == "failed"

\* Mutant of Failure: the commit may not be recorded yet when it is called uncertain.
FailureEarly(a, n) ==
  IF at[<<a, n>>] \in {"tested", "committing", "committed", "pushing"} \cup Finishing \cup Reconciling
  THEN "push_uncertain" ELSE "revert_conflict"

\* Mutant of Failure: a push that was not accepted is taken to have moved nothing.
FailureByAnswer(a, n) ==
  IF push[<<a, n>>] = "accepted" THEN "remote_verification_failed" ELSE "remote_state_changed"

\* failure_status as the processor has it where run n of a is.
Failure(a, n) ==
  CASE at[<<a, n>>] \in {"claimed", "preparing", "cloned"} -> "remote_state_changed"
    [] at[<<a, n>>] = "reverting"                          -> "revert_conflict"
    [] at[<<a, n>>] \in {"reverted", "testing"}            -> "test_failed"
    [] at[<<a, n>>] \in {"tested", "committing"}           -> "commit_failed"
    [] push[<<a, n>>] = "advanced"                         -> "remote_state_changed"
    [] push[<<a, n>>] = "accepted"                         -> "remote_verification_failed"
    [] OTHER                                           -> "push_uncertain"

TypeOK ==
  /\ branch \in Seq(Commits)
  /\ expected \in [Attempts -> Commits \cup {NoCommit}]
  /\ approval \in [Attempts -> {"none", "assessed", "active", "consumed"}]
  /\ status \in [Attempts -> Statuses]
  /\ announced \subseteq Attempts
  /\ tested \subseteq Attempts
  /\ recorded \subseteq Attempts
  /\ confirmed \subseteq Attempts
  /\ runs \in [Attempts -> 0..MaxRuns]
  /\ lease \in [Attempts -> {"none", "live", "expired", "closed"}]
  /\ at \in [Attempts \X Runs -> Places]
  /\ push \in [Attempts \X Runs -> Threads]

Init ==
  /\ branch = <<Target>>
  /\ expected = [a \in Attempts |-> NoCommit]
  /\ approval = [a \in Attempts |-> "none"]
  /\ status = [a \in Attempts |-> "none"]
  /\ announced = {}
  /\ tested = {}
  /\ recorded = {}
  /\ confirmed = {}
  /\ runs = [a \in Attempts |-> 0]
  /\ lease = [a \in Attempts |-> "none"]
  /\ at = [r \in Attempts \X Runs |-> "none"]
  /\ push = [r \in Attempts \X Runs |-> "idle"]

(***************************************************************************)
(* The control plane: people assess, approve and begin.                    *)
(***************************************************************************)

\* The integration commit is always an ancestor of the head, also when it has
\* been reverted, so that the policy finds a direct revert possible.
Assess(a) ==
  /\ approval[a] = "none"
  /\ approval' = [approval EXCEPT ![a] = "assessed"]
  /\ expected' = [expected EXCEPT ![a] = RemoteHead]
  /\ UNCHANGED <<branch, rows, claims, at, push>>

\* Every assessment can be approved, any number of times: two a's that name
\* the same head are two approvals.
Approve(a) ==
  /\ approval[a] = "assessed"
  /\ approval' = [approval EXCEPT ![a] = "active"]
  /\ UNCHANGED <<branch, expected, rows, claims, at, push>>

CreateAttempt(a) ==
  /\ approval[a] = "active"
  /\ approval' = [approval EXCEPT ![a] = "consumed"]
  /\ status' = [status EXCEPT ![a] = "queued"]
  /\ UNCHANGED <<branch, expected, announced, tested, recorded, confirmed, claims,
                 at, push>>

(***************************************************************************)
(* The claim.                                                              *)
(***************************************************************************)

\* The push may have happened: the branch is to be asked and not to be pushed.
MustReconcile(a) ==
  \/ status[a] \in {"pushing", "push_uncertain"}
  \/ a \in announced /\ status[a] # "recovered"

Restartable(a) == status[a] \in SafeToRestart

\* claim_and_load: the next run takes over when no run holds a live claim.  Only
\* the first one comes from a job of this program; see Redelivered.
ClaimAndLoad(a) ==
  /\ runs[a] < IF a \in Redelivered THEN MaxRuns ELSE 1
  /\ lease[a] # "live"
  /\ MustReconcile(a) \/ Restartable(a)
  /\ runs' = [runs EXCEPT ![a] = @ + 1]
  /\ lease' = [lease EXCEPT ![a] = "live"]
  /\ status' = [status EXCEPT
       ![a] = IF MustReconcile(a) THEN "push_uncertain" ELSE "claimed"]
  /\ at' = [at EXCEPT
       ![<<a, runs[a] + 1>>] = IF MustReconcile(a) THEN "uncertain" ELSE "claimed"]
  /\ UNCHANGED <<branch, people, announced, tested, recorded, confirmed, push>>

\* An hour without a call of the store: the claim can be taken over.
LeaseExpires(a) ==
  /\ lease[a] = "live"
  /\ lease' = [lease EXCEPT ![a] = "expired"]
  /\ UNCHANGED <<branch, people, rows, runs, at, push>>

\* _locked: the own run is open and its claim has not expired.
Fence(a, n) == lease[a] = "live" /\ runs[a] = n

At(a, n, place)   == at[<<a, n>>] = place
Goes(a, n, place) == at' = [at EXCEPT ![<<a, n>>] = place]

(***************************************************************************)
(* The revert, its tests and its commit.                                   *)
(***************************************************************************)

\* transition: the run moves on, and so does the row.
Transition(a, n, from, to, s) ==
  /\ At(a, n, from)
  /\ Fence(a, n)
  /\ Goes(a, n, to)
  /\ status' = [status EXCEPT ![a] = s]
  /\ UNCHANGED <<branch, people, tested, recorded, confirmed, claims>>

PrepareWorkspace(a, n) ==
  /\ Transition(a, n, "claimed", "preparing", "preparing_workspace")
  /\ UNCHANGED <<announced, push>>

\* The snapshot is made if the branch still has the approved head.
Clone(a, n) ==
  /\ At(a, n, "preparing")
  /\ RemoteHead = expected[a]
  /\ Goes(a, n, "cloned")
  /\ UNCHANGED <<branch, people, rows, claims, push>>

BeginRevert(a, n) ==
  /\ Transition(a, n, "cloned", "reverting", "creating_revert")
  /\ UNCHANGED <<announced, push>>

\* Mutant of NothingToRevert: the workspace verifier lets an empty change pass.
NeverEmpty(a) == FALSE

\* EMPTY_PATCH: the content of the approved head is without the change already.
NothingToRevert(a) ==
  \E i \in 1..Len(branch) : branch[i] = expected[a] /\ ~InEffectAt(i)

\* git revert and the verification of the workspace; a conflict raises.
Revert(a, n) ==
  /\ At(a, n, "reverting")
  /\ ~NothingToRevert(a)
  /\ Goes(a, n, "reverted")
  /\ UNCHANGED <<branch, people, rows, claims, push>>

BeginTests(a, n) ==
  /\ Transition(a, n, "reverted", "testing", "running_tests")
  /\ UNCHANGED <<announced, push>>

\* record_tests inserts a row for each command, once for an attempt.
RecordTests(a, n) ==
  /\ At(a, n, "testing")
  /\ Fence(a, n)
  /\ a \notin tested
  /\ tested' = tested \cup {a}
  /\ Goes(a, n, "tested")
  /\ UNCHANGED <<branch, people, status, announced, recorded, confirmed, claims, push>>

\* uq_recovery_test_command: an earlier run has stored them.  The session can
\* not be used after that, store.fail included.
TestsCollide(a, n) ==
  /\ At(a, n, "testing")
  /\ Fence(a, n)
  /\ a \in tested
  /\ Goes(a, n, "ended")
  /\ UNCHANGED <<branch, people, rows, claims, push>>

BeginCommit(a, n) ==
  /\ Transition(a, n, "tested", "committing", "creating_commit")
  /\ UNCHANGED <<announced, push>>

\* The commit is made anew or found as an earlier run has recorded it.
RecordCommit(a, n) ==
  /\ At(a, n, "committing")
  /\ Fence(a, n)
  /\ recorded' = recorded \cup {a}
  /\ Goes(a, n, "committed")
  /\ UNCHANGED <<branch, people, status, announced, tested, confirmed, claims, push>>

\* The push is announced, and then its thread starts.
BeginPush(a, n) ==
  /\ Transition(a, n, "committed", "pushing", "pushing")
  /\ announced' = announced \cup {a}
  /\ push' = [push EXCEPT ![<<a, n>>] = "checking"]

(***************************************************************************)
(* The push.                                                               *)
(***************************************************************************)

\* RestrictedPusher.push: the head of the branch must be the approved one ...
CheckHead(a, n) ==
  /\ push[<<a, n>>] = "checking"
  /\ push' = [push EXCEPT
       ![<<a, n>>] = IF RemoteHead = expected[a] THEN "sending" ELSE "advanced"]
  /\ UNCHANGED <<branch, people, rows, claims, at>>

\* Mutant of PushResults: the commit is rebased when the branch has moved.
PushRebased(a) == {Append(branch, a)}

\* A git push moves the branch forward; the parent of the commit is the head
\* that was approved.
PushResults(a) ==
  IF RemoteHead = expected[a] THEN {Append(branch, a)} ELSE {}

\* ... when the push arrives.  The answer may get lost on its way back.
PushLands(a, n) ==
  /\ push[<<a, n>>] = "sending"
  /\ branch' \in PushResults(a)
  /\ \E answer \in {"accepted", "refused"} : push' = [push EXCEPT ![<<a, n>>] = answer]
  /\ UNCHANGED <<people, rows, claims, at>>

\* The remote refuses, or a git call fails before anything moved.
PushFails(a, n) ==
  /\ push[<<a, n>>] \in {"checking", "sending"}
  /\ push' = [push EXCEPT ![<<a, n>>] = "refused"]
  /\ UNCHANGED <<branch, people, rows, claims, at>>

(***************************************************************************)
(* What the remote shows, and the end of a run.                            *)
(***************************************************************************)

\* Mutant of Confirms: the answer of the push is taken for the evidence.
ConfirmsByAnswer(a) == TRUE

\* RemoteVerifier.verify: the commit is the head of the branch.
Confirms(a) == RemoteHead = a

\* After a push with an answer, or in _try_reconcile after one without.
VerifyRemote(a, n) ==
  /\ At(a, n, "pushing")
  /\ push[<<a, n>>] \in {"accepted", "refused"}
  /\ Confirms(a)
  /\ Goes(a, n, "verified")
  /\ UNCHANGED <<branch, people, rows, claims, push>>

\* _reconcile_only: the snapshot of the commit needs it to be the head ...
Examine(a, n) ==
  /\ At(a, n, "uncertain")
  /\ RemoteHead = a
  /\ Goes(a, n, "examined")
  /\ UNCHANGED <<branch, people, rows, claims, push>>

\* ... or raises outside the try: nothing is written and the claim stays.
ExamineRaises(a, n) ==
  /\ At(a, n, "uncertain")
  /\ Goes(a, n, "ended")
  /\ UNCHANGED <<branch, people, rows, claims, push>>

Reconcile(a, n) ==
  /\ At(a, n, "examined")
  /\ Confirms(a)
  /\ Goes(a, n, "verified")
  /\ UNCHANGED <<branch, people, rows, claims, push>>

BeginFinish(a, n) ==
  /\ Transition(a, n, "verified", "finishing", "verifying_remote_result")
  /\ UNCHANGED <<announced, push>>

RecordRemote(a, n) ==
  /\ At(a, n, "finishing")
  /\ Fence(a, n)
  /\ a \in recorded
  /\ confirmed' = confirmed \cup {a}
  /\ Goes(a, n, "confirmed")
  /\ UNCHANGED <<branch, people, status, announced, tested, recorded, claims, push>>

\* The row gets its last status and the run is closed.
Close(a, n, s) ==
  /\ status' = [status EXCEPT ![a] = s]
  /\ lease' = [lease EXCEPT ![a] = "closed"]
  /\ Goes(a, n, "ended")
  /\ UNCHANGED <<branch, people, announced, tested, recorded, confirmed, runs, push>>

Complete(a, n) ==
  /\ At(a, n, "confirmed")
  /\ Fence(a, n)
  /\ Close(a, n, "recovered")

\* A worker knows of a push when its thread is done.
AwaitsPush(a, n) == push[<<a, n>>] \in {"checking", "sending"}

\* A step raises, or its transaction does, and store.fail commits the failure.
Fail(a, n) ==
  /\ at[<<a, n>>] \in Running \ {"uncertain"}
  /\ ~AwaitsPush(a, n)
  /\ Fence(a, n)
  /\ Close(a, n, Failure(a, n))

\* RECOVERY_CLAIM_FENCE_LOST: no call of the store succeeds any more.
FenceLost(a, n) ==
  /\ at[<<a, n>>] \in Running
  /\ ~AwaitsPush(a, n)
  /\ ~Fence(a, n)
  /\ Goes(a, n, "ended")
  /\ UNCHANGED <<branch, people, rows, claims, push>>

\* Deadline or lost job lease: no except clause runs and the push goes on.
Cancel(a, n) ==
  /\ at[<<a, n>>] \in Running
  /\ Goes(a, n, "stopped")
  /\ UNCHANGED <<branch, people, rows, claims, push>>

\* The process dies, with its thread.
Crash(a, n) ==
  /\ at[<<a, n>>] \in Running
  /\ Goes(a, n, "stopped")
  /\ push' = [push EXCEPT ![<<a, n>>] = IF AwaitsPush(a, n) THEN "dead" ELSE @]
  /\ UNCHANGED <<branch, people, rows, claims>>

PushByOthers(c) ==
  /\ ~OnBranch(c)
  /\ branch' = Append(branch, c)
  /\ UNCHANGED <<people, rows, claims, at, push>>

WorkerStep(a, n) ==
  \/ PrepareWorkspace(a, n) \/ Clone(a, n) \/ BeginRevert(a, n) \/ Revert(a, n)
  \/ BeginTests(a, n) \/ RecordTests(a, n) \/ TestsCollide(a, n)
  \/ BeginCommit(a, n) \/ RecordCommit(a, n) \/ BeginPush(a, n)
  \/ CheckHead(a, n) \/ PushLands(a, n) \/ PushFails(a, n)
  \/ VerifyRemote(a, n) \/ Examine(a, n) \/ ExamineRaises(a, n) \/ Reconcile(a, n)
  \/ BeginFinish(a, n) \/ RecordRemote(a, n) \/ Complete(a, n)
  \/ Fail(a, n) \/ FenceLost(a, n)

Next ==
  \/ \E a \in Attempts :
       Assess(a) \/ Approve(a) \/ CreateAttempt(a) \/ ClaimAndLoad(a) \/ LeaseExpires(a)
  \/ \E a \in Attempts, n \in Runs : WorkerStep(a, n) \/ Cancel(a, n) \/ Crash(a, n)
  \/ \E c \in Foreign : PushByOthers(c)

Spec == Init /\ [][Next]_vars
-----------------------------------------------------------------------------
(***************************************************************************)
(* What must be true.                                                      *)
(***************************************************************************)

\* The commit of an attempt sits right on the head that its approval names,
\* whoever pushes in between.
LandsOnApprovedHead ==
  \A i \in 1..Len(branch) :
    branch[i] \in Attempts => i > 1 /\ branch[i - 1] = expected[branch[i]]

\* A failure that is called certain is certain, although the answer of a push
\* can get lost and its thread go on without the run: the commit is not on the
\* branch and no thread is left that could bring it there.
FailureIsCertain ==
  \A a \in Attempts :
    status[a] \in Certain =>
      ~OnBranch(a) /\ \A n \in Runs : ~AwaitsPush(a, n)

\* A recovered integration has its evidence, and the evidence is true.
RecoveredIsTrue ==
  /\ \A a \in Attempts : status[a] = "recovered" => a \in tested \cap confirmed
  /\ \A a \in confirmed : a \in recorded /\ OnBranch(a)

\* An uncertain push can be settled: the commit to look for is on record.
UncertainHasCommit ==
  \A a \in Attempts : MustReconcile(a) => a \in recorded

Ledger == INSTANCE RollbackLedger
          WITH Reverts <- Attempts, Others <- Foreign, First <- Target,
               log <- branch, granted <- {a \in Attempts : approval[a] = "consumed"}

\* Approvals, runs, threads and other people's pushes implement a branch on
\* which a change is reverted only while it is in effect.
KeepsRollbackLedger == Ledger!Spec
=============================================================================
