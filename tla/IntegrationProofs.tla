------------------------- MODULE IntegrationProofs -------------------------
(***************************************************************************)
(* Theorems about Integration, for every set of patches, attempts and      *)
(* foreign commits.                                                        *)
(***************************************************************************)
EXTENDS Integration, TLAPS

\* The stages in which a push may have been started.
Announced == Pushing \cup {"push_failed", "integrated"}

\* One attempt: how its stage, its push thread, its commit and its evidence
\* hang together.
AttemptInv(a) ==
  /\ push[a] # "idle" => stage[a] \in Announced
  /\ push[a] \in {"checking", "sending"} => stage[a] = "pushing" /\ ~OnBranch(a)
  /\ OnBranch(a) => push[a] # "idle"
  /\ push[a] = "accepted" => OnBranch(a)
  /\ stage[a] \in {"pushed", "verified", "recorded", "integrated"} => OnBranch(a)
  /\ stage[a] \in {"recorded", "integrated"} => a \in records
  /\ a \in records => OnBranch(a)
  /\ stage[a] # "none" => decision[a] = "consumed"
  /\ decision[a] # "none" => patchOf[a] \in Patches
  /\ worker[a] = "doubting" /\ stage[a] # "integrated" => push[a] = "idle"

\* The branch has no commit twice, and ours sit on their approved bases.
BranchInv ==
  /\ Len(branch) >= 1
  /\ branch[1] = Root
  /\ \A i, j \in 1..Len(branch) : branch[i] = branch[j] => i = j
  /\ LandsOnApprovedBase

IntegrationInv == TypeOK /\ BranchInv /\ \A a \in Attempts : AttemptInv(a)
-----------------------------------------------------------------------------
(***************************************************************************)
(* The operators.                                                          *)
(***************************************************************************)

LEMMA AppendFacts ==
  ASSUME NEW S, NEW s \in Seq(S), NEW e \in S
  PROVE  /\ Append(s, e) \in Seq(S)
         /\ Len(Append(s, e)) = Len(s) + 1
         /\ \A i \in 1..Len(s) : Append(s, e)[i] = s[i]
         /\ Append(s, e)[Len(s) + 1] = e
  OBVIOUS

\* Every stage of the pipeline leads to a stage, and so does its failure.
LEMMA StagesClosed ==
  /\ \A s \in Preparing : NextStage[s] \in Preparing \cup {"pushing"}
  /\ \A s \in Preparing \cup Pushing : FailureStatus[s] \in Failures
  BY DEF Preparing, Pushing, NextStage, FailureStatus, Failures

\* A failure after the push was announced is a failed push.
LEMMA LateFailure ==
  \A s \in Pushing : FailureStatus[s] = "push_failed"
  BY DEF Pushing, FailureStatus
-----------------------------------------------------------------------------
(***************************************************************************)
(* Types.                                                                  *)
(***************************************************************************)
LEMMA TypeInit == Init => TypeOK
  BY DEF Init, TypeOK, Commits, PatchStatuses, Readings, Stages, Workers, Threads

LEMMA PatchTypes ==
  ASSUME TypeOK, NEW p \in Patches, PatchStep(p)
  PROVE  TypeOK'
<1>1. CASE Produce(p)
  <2>1. \A i \in 1..Len(branch) : branch[i] \in Commits
    BY DEF TypeOK
  <2>2. base' \in [Patches -> Commits \cup {NoCommit}]
    BY <1>1, <2>1 DEF Produce, TypeOK
  <2>3. QED
    BY <1>1, <2>2 DEF Produce, TypeOK, grants
<1>2. CASE ReviewEnds(p)
  BY <1>2 DEF ReviewEnds, TypeOK, grants
<1>3. CASE EvaluateReads(p)
  <2>1. [eligible |-> evidence[p], was |-> patchStatus[p]] \in Readings
    BY DEF TypeOK, Readings
  <2>2. reading' \in [Patches -> Readings \cup {NoReading}]
    BY <1>3, <2>1 DEF EvaluateReads, TypeOK
  <2>3. QED
    BY <1>3, <2>2 DEF EvaluateReads, TypeOK, grants
<1>4. CASE EvaluateWrites(p)
  <2>1. reading[p] \in Readings
    BY <1>4 DEF EvaluateWrites, TypeOK
  <2>2. reading[p].eligible \in BOOLEAN
    BY <2>1 DEF Readings
  <2>3. StatusEvaluated(p, reading[p]) \in PatchStatuses
    BY DEF StatusEvaluated, PatchStatuses, TypeOK
  <2>4. eligible' \in [Patches -> BOOLEAN]
    BY <1>4, <2>2 DEF EvaluateWrites, TypeOK
  <2>5. patchStatus' \in [Patches -> PatchStatuses]
    BY <1>4, <2>3 DEF EvaluateWrites, TypeOK
  <2>6. reading' \in [Patches -> Readings \cup {NoReading}]
    BY <1>4 DEF EvaluateWrites, TypeOK
  <2>7. QED
    BY <1>4, <2>4, <2>5, <2>6 DEF EvaluateWrites, TypeOK, grants
<1>5. QED
  BY <1>1, <1>2, <1>3, <1>4 DEF PatchStep

LEMMA GrantTypes ==
  ASSUME TypeOK, NEW a \in Attempts,
         (\E p \in Patches : Approve(a, p)) \/ CreateAttempt(a)
  PROVE  TypeOK'
<1>1. ASSUME NEW p \in Patches, Approve(a, p) PROVE TypeOK'
  <2>1. patchStatus' \in [Patches -> PatchStatuses]
    BY <1>1 DEF Approve, TypeOK, PatchStatuses
  <2>2. QED
    BY <1>1, <2>1 DEF Approve, TypeOK
<1>2. CASE CreateAttempt(a)
  <2>1. patchStatus' \in [Patches -> PatchStatuses]
    BY <1>2 DEF CreateAttempt, TypeOK, PatchStatuses
  <2>2. stage' \in [Attempts -> Stages]
    BY <1>2 DEF CreateAttempt, TypeOK, Stages
  <2>3. QED
    BY <1>2, <2>1, <2>2 DEF CreateAttempt, TypeOK, Workers
<1>3. QED
  BY <1>1, <1>2

\* A push leaves the branch as it was, with the commit on top of its base.
LEMMA PushAppends ==
  ASSUME TypeOK, NEW a \in Attempts, PushLands(a)
  PROVE  /\ branch' = Append(branch, a)
         /\ RemoteHead = ApprovedBase(a)
         /\ push' = [push EXCEPT ![a] = push'[a]]
         /\ push'[a] \in {"accepted", "refused"}
<1>1. branch' \in PushResults(a)
  BY DEF PushLands
<1>2. branch' = Append(branch, a) /\ RemoteHead = ApprovedBase(a)
  BY <1>1 DEF PushResults
<1>3. push' = [push EXCEPT ![a] = push'[a]] /\ push'[a] \in {"accepted", "refused"}
  BY DEF PushLands, TypeOK
<1>4. QED
  BY <1>2, <1>3

LEMMA WorkerTypes ==
  ASSUME TypeOK, NEW a \in Attempts, WorkerStep(a)
  PROVE  TypeOK'
<1> USE DEF patchVars, grants
<1>1. CASE Transition(a)
  <2>1. NextStage[stage[a]] \in Stages
    BY <1>1, StagesClosed DEF Transition, Stages, Pushing
  <2>2. stage' \in [Attempts -> Stages]
    BY <1>1, <2>1 DEF Transition, TypeOK
  <2>3. push' \in [Attempts -> Threads]
    BY <1>1 DEF Transition, TypeOK, Threads
  <2>4. worker' \in [Attempts -> Workers]
    BY <1>1 DEF Transition, TypeOK, Workers
  <2>5. QED
    BY <1>1, <2>2, <2>3, <2>4 DEF Transition, TypeOK
<1>2. CASE Fail(a)
  <2>1. \A s \in Preparing \cup Pushing : FailureStatus[s] \in Stages
    BY StagesClosed DEF Stages, Settled
  <2>2. stage' \in [Attempts -> Stages]
    BY <1>2, <2>1 DEF Fail, TypeOK
  <2>3. patchStatus' \in [Patches -> PatchStatuses]
    BY <1>2 DEF Fail, TypeOK, PatchStatuses
  <2>4. worker' \in [Attempts -> Workers]
    BY <1>2 DEF Fail, TypeOK, Workers
  <2>5. QED
    BY <1>2, <2>2, <2>3, <2>4 DEF Fail, TypeOK
<1>3. CASE CheckHead(a)
  BY <1>3 DEF CheckHead, TypeOK, Threads
<1>4. CASE PushLands(a)
  <2>1. branch' \in Seq(Commits)
    <3>1. branch \in Seq(Commits) /\ a \in Commits
      BY DEF TypeOK, Commits
    <3>2. branch' = Append(branch, a)
      BY <1>4, PushAppends
    <3>3. QED
      BY <3>1, <3>2, AppendFacts
  <2>2. push' \in [Attempts -> Threads]
    BY <1>4 DEF PushLands, TypeOK, Threads
  <2>3. QED
    BY <1>4, <2>1, <2>2 DEF PushLands, TypeOK
<1>5. CASE PushFails(a)
  BY <1>5 DEF PushFails, TypeOK, Threads
<1>6. CASE PushCompleted(a)
  BY <1>6 DEF PushCompleted, TypeOK, Stages, Pushing
<1>7. CASE RemoteVerified(a)
  BY <1>7 DEF RemoteVerified, TypeOK, Stages, Pushing
<1>8. CASE RecordRollback(a)
  BY <1>8 DEF RecordRollback, RecordsWith, TypeOK, Stages, Pushing
<1>9. CASE Complete(a)
  <2>1. stage' \in [Attempts -> Stages]
    BY <1>9 DEF Complete, TypeOK, Stages, Settled
  <2>2. patchStatus' \in [Patches -> PatchStatuses]
    BY <1>9 DEF Complete, TypeOK, PatchStatuses
  <2>3. worker' \in [Attempts -> Workers]
    BY <1>9 DEF Complete, TypeOK, Workers
  <2>4. QED
    BY <1>9, <2>1, <2>2, <2>3 DEF Complete, TypeOK
<1>10. QED
  BY <1>1, <1>2, <1>3, <1>4, <1>5, <1>6, <1>7, <1>8, <1>9 DEF WorkerStep

LEMMA OutsideTypes ==
  ASSUME TypeOK,
         \/ \E a \in Attempts :
              ClaimAndLoad(a) \/ ClaimRefused(a) \/ Cancel(a) \/ Crash(a)
         \/ \E c \in Foreign : PushByOthers(c)
  PROVE  TypeOK'
<1> USE DEF patchVars, grants
<1>1. ASSUME NEW a \in Attempts, ClaimAndLoad(a) PROVE TypeOK'
  BY <1>1 DEF ClaimAndLoad, TypeOK, Stages, Preparing, Workers
<1>2. ASSUME NEW a \in Attempts, ClaimRefused(a) PROVE TypeOK'
  BY <1>2 DEF ClaimRefused, TypeOK, Workers
<1>3. ASSUME NEW a \in Attempts, Cancel(a) PROVE TypeOK'
  BY <1>3 DEF Cancel, TypeOK, Workers
<1>4. ASSUME NEW a \in Attempts, Crash(a) PROVE TypeOK'
  BY <1>4 DEF Crash, TypeOK, Workers, Threads
<1>5. ASSUME NEW c \in Foreign, PushByOthers(c) PROVE TypeOK'
  <2>1. branch' \in Seq(Commits)
    BY <1>5, AppendFacts DEF PushByOthers, TypeOK, Commits
  <2>2. QED
    BY <1>5, <2>1 DEF PushByOthers, TypeOK
<1>6. QED
  BY <1>1, <1>2, <1>3, <1>4, <1>5

LEMMA TypeStep == TypeOK /\ [Next]_vars => TypeOK'
<1> SUFFICES ASSUME TypeOK, [Next]_vars PROVE TypeOK'
  OBVIOUS
<1>1. CASE UNCHANGED vars
  BY <1>1 DEF vars, patchVars, grants, TypeOK
<1>2. CASE Next
  BY <1>2, PatchTypes, GrantTypes, WorkerTypes, OutsideTypes DEF Next
<1>3. QED
  BY <1>1, <1>2

\* The rows, the branch and the threads keep their types.
THEOREM IntegrationTyped == Spec => []TypeOK
  BY TypeInit, TypeStep, PTL DEF Spec
-----------------------------------------------------------------------------
(***************************************************************************)
(* One attempt.                                                            *)
(***************************************************************************)

\* An attempt is left alone by a step that changes nothing the invariant reads.
LEMMA AttemptKept ==
  ASSUME NEW a \in Attempts, AttemptInv(a),
         stage'[a] = stage[a], push'[a] = push[a], decision'[a] = decision[a],
         patchOf'[a] = patchOf[a], (a \in records)' <=> a \in records,
         OnBranch(a)' <=> OnBranch(a),
         worker'[a] = worker[a] \/ worker'[a] # "doubting"
  PROVE  AttemptInv(a)'
  BY DEF AttemptInv

\* A commit put on top of the branch is the only one that joins it.
LEMMA OnTop ==
  ASSUME TypeOK, NEW c \in Commits, branch' = Append(branch, c), NEW x
  PROVE  OnBranch(x)' <=> OnBranch(x) \/ x = c
<1>1. branch \in Seq(Commits)
  BY DEF TypeOK
<1>2. /\ Len(branch') = Len(branch) + 1
      /\ \A i \in 1..Len(branch) : branch'[i] = branch[i]
      /\ branch'[Len(branch) + 1] = c
  BY <1>1, AppendFacts
<1>3. Len(branch) \in Nat
  BY <1>1
<1>4. QED
  BY <1>2, <1>3 DEF OnBranch

LEMMA SameBranch ==
  ASSUME branch' = branch, NEW x
  PROVE  OnBranch(x)' <=> OnBranch(x)
  BY DEF OnBranch

LEMMA PatchKeepsAttempt ==
  ASSUME NEW p \in Patches, PatchStep(p), NEW a \in Attempts, AttemptInv(a)
  PROVE  AttemptInv(a)'
<1>1. /\ branch' = branch /\ stage' = stage /\ push' = push /\ records' = records
      /\ decision' = decision /\ patchOf' = patchOf /\ worker' = worker
  BY DEF PatchStep, Produce, ReviewEnds, EvaluateReads, EvaluateWrites, grants
<1>2. QED
  BY <1>1, SameBranch, AttemptKept

LEMMA GrantKeepsAttempt ==
  ASSUME TypeOK, NEW b \in Attempts,
         (\E p \in Patches : Approve(b, p)) \/ CreateAttempt(b),
         NEW a \in Attempts, AttemptInv(a), AttemptInv(b)
  PROVE  AttemptInv(a)'
<1>1. branch' = branch /\ push' = push /\ records' = records
  BY DEF Approve, CreateAttempt
<1>2. OnBranch(a)' <=> OnBranch(a)
  BY <1>1, SameBranch
<1>3. CASE a # b
  <2>1. /\ stage'[a] = stage[a] /\ decision'[a] = decision[a] /\ patchOf'[a] = patchOf[a]
        /\ worker'[a] = worker[a]
    BY <1>3 DEF Approve, CreateAttempt, TypeOK
  <2>2. QED
    BY <1>1, <1>2, <2>1, AttemptKept
<1>4. ASSUME a = b, NEW p \in Patches, Approve(b, p) PROVE AttemptInv(a)'
  <2>1. stage' = stage /\ stage[a] = "none" /\ patchOf'[a] = p /\ worker' = worker
    BY <1>4 DEF Approve, AttemptInv, TypeOK
  <2>2. QED
    BY <1>1, <1>2, <2>1 DEF AttemptInv
<1>5. CASE a = b /\ CreateAttempt(b)
  <2>1. /\ stage'[a] = "queued" /\ decision'[a] = "consumed"
        /\ patchOf' = patchOf /\ decision[a] = "approved" /\ worker'[a] = "waiting"
    BY <1>5 DEF CreateAttempt, TypeOK
  <2>2. stage[a] = "none" /\ push[a] = "idle" /\ ~OnBranch(a)
    BY <2>1 DEF AttemptInv, Announced, Pushing
  <2>3. QED
    BY <1>1, <1>2, <2>1, <2>2 DEF AttemptInv
<1>6. QED
  BY <1>3, <1>4, <1>5

\* Claims, cancellations and crashes.
LEMMA DeliveryKeepsAttempt ==
  ASSUME TypeOK, NEW b \in Attempts,
         ClaimAndLoad(b) \/ ClaimRefused(b) \/ Cancel(b) \/ Crash(b),
         NEW a \in Attempts, AttemptInv(a)
  PROVE  AttemptInv(a)'
<1>1. /\ branch' = branch /\ records' = records
      /\ decision' = decision /\ patchOf' = patchOf
  BY DEF ClaimAndLoad, ClaimRefused, Cancel, Crash, grants
<1>2. OnBranch(a)' <=> OnBranch(a)
  BY <1>1, SameBranch
<1>3. CASE a # b
  <2>1. stage'[a] = stage[a] /\ push'[a] = push[a] /\ worker'[a] = worker[a]
    BY <1>3 DEF ClaimAndLoad, ClaimRefused, Cancel, Crash, TypeOK
  <2>2. QED
    BY <1>1, <1>2, <2>1, AttemptKept
<1>4. CASE a = b /\ ClaimAndLoad(b)
  <2>1. /\ stage[a] = "queued" /\ stage'[a] = "verifying" /\ push' = push
        /\ decision[a] = "consumed" /\ worker'[a] = "running"
    BY <1>4 DEF ClaimAndLoad, TypeOK
  <2>2. push[a] = "idle" /\ ~OnBranch(a)
    BY <2>1 DEF AttemptInv, Announced, Pushing
  <2>3. QED
    BY <1>1, <1>2, <2>1, <2>2 DEF AttemptInv
<1>5. CASE ClaimRefused(b) \/ Cancel(b)
  <2>1. stage' = stage /\ push' = push /\ (worker'[a] = worker[a] \/ worker'[a] # "doubting")
    BY <1>5 DEF ClaimRefused, Cancel, TypeOK
  <2>2. QED
    BY <1>1, <1>2, <2>1, AttemptKept
<1>6. CASE a = b /\ Crash(b)
  <2>1. /\ stage' = stage
        /\ push[a] = "idle" => push'[a] = "idle"
        /\ push[a] # "idle" => push'[a] = "dead"
        /\ worker'[a] = "stopped"
    BY <1>6 DEF Crash, TypeOK
  <2>2. QED
    BY <1>1, <1>2, <2>1 DEF AttemptInv
<1>7. QED
  BY <1>3, <1>4, <1>5, <1>6

\* The steps of a worker and of its push thread.
LEMMA WorkerKeepsAttempt ==
  ASSUME TypeOK, NEW b \in Attempts, WorkerStep(b),
         NEW a \in Attempts, AttemptInv(a), AttemptInv(b)
  PROVE  AttemptInv(a)'
<1>1. decision' = decision /\ patchOf' = patchOf
  BY DEF WorkerStep, Transition, Fail, CheckHead, PushLands, PushFails,
         PushCompleted, RemoteVerified, RecordRollback, Complete, grants
<1>2. CASE PushLands(b)
  <2>1. /\ \A x : OnBranch(x)' <=> OnBranch(x) \/ x = b
        /\ stage' = stage /\ records' = records
    <3>1. branch' = Append(branch, b) /\ b \in Commits
      BY <1>2, PushAppends DEF Commits
    <3>2. QED
      BY <1>2, <3>1, OnTop DEF PushLands
  <2>2. CASE a # b
    <3>1. push'[a] = push[a] /\ worker'[a] = worker[a]
      BY <1>2, <2>2 DEF PushLands, TypeOK
    <3>2. QED
      BY <1>1, <2>1, <2>2, <3>1, AttemptKept
  <2>3. CASE a = b
    <3>1. push[a] = "sending" /\ push'[a] \in {"accepted", "refused"} /\ worker' = worker
      BY <1>2, <2>3 DEF PushLands, TypeOK
    <3>2. QED
      BY <1>1, <2>1, <2>3, <3>1 DEF AttemptInv
  <2>4. QED
    BY <2>2, <2>3
<1>3. ASSUME ~PushLands(b) PROVE branch' = branch
  BY <1>3 DEF WorkerStep, Transition, Fail, CheckHead, PushFails,
         PushCompleted, RemoteVerified, RecordRollback, Complete
<1>4. ASSUME ~PushLands(b) PROVE OnBranch(a)' <=> OnBranch(a)
  BY <1>3, <1>4, SameBranch
<1>5. CASE ~PushLands(b) /\ a # b
  <2>1. stage'[a] = stage[a] /\ push'[a] = push[a] /\ worker'[a] = worker[a]
    BY <1>5 DEF WorkerStep, Transition, Fail, CheckHead, PushFails,
         PushCompleted, RemoteVerified, RecordRollback, Complete, TypeOK
  <2>2. (a \in records)' <=> a \in records
    BY <1>5 DEF WorkerStep, Transition, Fail, CheckHead, PushFails,
         PushCompleted, RemoteVerified, RecordRollback, RecordsWith, Complete
  <2>3. QED
    BY <1>1, <1>4, <1>5, <2>1, <2>2, AttemptKept
<1>6. CASE ~PushLands(b) /\ a = b /\ Transition(b)
  <2>1. /\ stage[a] \in Preparing /\ records' = records
        /\ stage'[a] = NextStage[stage[a]]
        /\ \/ /\ worker'[a] = "running"
              /\ push'[a] = IF stage'[a] = "pushing" THEN "checking" ELSE push[a]
           \/ worker'[a] = "doubting" /\ push'[a] = push[a]
    BY <1>6 DEF Transition, TypeOK
  <2>2. push[a] = "idle" /\ ~OnBranch(a) /\ decision[a] = "consumed" /\ a \notin records
    BY <2>1 DEF AttemptInv, Announced, Preparing, Pushing
  <2>3. stage'[a] \in Preparing \cup {"pushing"}
    BY <2>1, StagesClosed
  <2>4. CASE stage'[a] = "pushing"
    BY <1>1, <1>4, <1>6, <2>1, <2>2, <2>4 DEF AttemptInv, Announced, Pushing
  <2>5. CASE stage'[a] # "pushing"
    <3>1. stage'[a] \notin {"none", "pushed", "verified", "recorded", "integrated"}
      BY <2>3, <2>5 DEF Preparing
    <3>2. push'[a] = "idle"
      BY <2>1, <2>2, <2>5
    <3>3. QED
      BY <1>1, <1>4, <1>6, <2>1, <2>2, <3>1, <3>2 DEF AttemptInv
  <2>6. QED
    BY <2>4, <2>5
<1>7. CASE ~PushLands(b) /\ a = b /\ Fail(b)
  <2>1. PICK s \in Preparing \cup Pushing : Standing(a, s) /\ stage'[a] = FailureStatus[s]
    BY <1>7 DEF Fail, TypeOK
  <2>8. /\ push' = push /\ records' = records /\ worker'[a] = "ended"
        /\ worker[a] # "doubting" /\ stage[a] = "pushing" => push[a] \in {"accepted", "refused"}
        /\ stage[a] \in Preparing \cup Pushing \cup {"integrated"}
    BY <1>7, <2>1, StagesClosed DEF Fail, Raises, Standing, TypeOK, Pushing
  <2>2. stage'[a] \in Failures
    BY <2>1, StagesClosed
  <2>3. push[a] \notin {"checking", "sending"}
    BY <2>8 DEF AttemptInv
  <2>4. push[a] # "idle" => stage'[a] = "push_failed"
    <3>1. push[a] # "idle" => stage[a] \in Announced /\ (worker[a] = "doubting" => stage[a] = "integrated")
      BY DEF AttemptInv
    <3>2. push[a] # "idle" => s \in Pushing
      BY <2>1, <3>1 DEF Standing, Announced, Preparing, Pushing, NextStage
    <3>3. QED
      BY <2>1, <3>2, LateFailure
  <2>5. stage'[a] \notin {"none", "pushed", "verified", "recorded", "integrated"}
    BY <2>2 DEF Failures
  <2>6. decision[a] = "consumed"
    BY <2>8 DEF AttemptInv, Preparing, Pushing
  <2>7. QED
    BY <1>1, <1>4, <1>7, <2>8, <2>3, <2>4, <2>5, <2>6 DEF AttemptInv, Announced
<1>8. CASE ~PushLands(b) /\ a = b /\ (CheckHead(b) \/ PushFails(b))
  <2>1. /\ stage' = stage /\ records' = records
        /\ push[a] \in {"checking", "sending"}
        /\ push'[a] \in {"sending", "refused"} /\ worker' = worker
    BY <1>8 DEF CheckHead, PushFails, TypeOK
  <2>2. QED
    BY <1>1, <1>4, <1>8, <2>1 DEF AttemptInv
<1>9. CASE /\ ~PushLands(b) /\ a = b
           /\ PushCompleted(b) \/ RemoteVerified(b) \/ RecordRollback(b) \/ Complete(b)
  <2>1. /\ push' = push
        /\ stage'[a] \in {"pushed", "verified", "recorded", "integrated"}
        /\ stage[a] \in Pushing
        /\ stage[a] = "pushing" => push[a] = "accepted"
        /\ worker'[a] = "doubting" => stage'[a] = "integrated"
    BY <1>9 DEF PushCompleted, RemoteVerified, RecordRollback, Complete, TypeOK, Pushing
  <2>2. OnBranch(a) /\ push[a] \notin {"checking", "sending"} /\ decision[a] = "consumed"
    BY <2>1 DEF AttemptInv, Pushing
  <2>3. stage'[a] \in {"recorded", "integrated"} => a \in records'
    <3>1. CASE PushCompleted(b) \/ RemoteVerified(b)
      BY <1>9, <3>1 DEF PushCompleted, RemoteVerified, TypeOK
    <3>2. CASE RecordRollback(b)
      BY <1>9, <3>2 DEF RecordRollback, RecordsWith
    <3>3. CASE Complete(b)
      BY <1>9, <3>3 DEF Complete, AttemptInv
    <3>4. QED
      BY <1>9, <3>1, <3>2, <3>3
  <2>4. QED
    BY <1>1, <1>4, <1>9, <2>1, <2>2, <2>3 DEF AttemptInv, Announced, Pushing
<1>10. QED
  BY <1>2, <1>5, <1>6, <1>7, <1>8, <1>9 DEF WorkerStep

LEMMA OthersKeepAttempt ==
  ASSUME TypeOK, NEW c \in Foreign, PushByOthers(c), NEW a \in Attempts, AttemptInv(a)
  PROVE  AttemptInv(a)'
<1>1. branch' = Append(branch, c) /\ c \in Commits /\ c # a
  BY IntegrationAssumption DEF PushByOthers, Commits
<1>2. OnBranch(a)' <=> OnBranch(a)
  BY <1>1, OnTop
<1>3. /\ stage' = stage /\ push' = push /\ records' = records /\ worker' = worker
      /\ decision' = decision /\ patchOf' = patchOf
  BY DEF PushByOthers, grants
<1>4. QED
  BY <1>2, <1>3, AttemptKept

LEMMA AttemptStep ==
  ASSUME TypeOK, \A a \in Attempts : AttemptInv(a), [Next]_vars
  PROVE  \A a \in Attempts : AttemptInv(a)'
<1> SUFFICES ASSUME NEW a \in Attempts PROVE AttemptInv(a)'
  OBVIOUS
<1>1. AttemptInv(a)
  OBVIOUS
<1>2. CASE UNCHANGED vars
  BY <1>1, <1>2, SameBranch, AttemptKept DEF vars, grants
<1>3. ASSUME NEW p \in Patches, PatchStep(p) PROVE AttemptInv(a)'
  BY <1>1, <1>3, PatchKeepsAttempt
<1>4. ASSUME NEW b \in Attempts, NEW p \in Patches, Approve(b, p) PROVE AttemptInv(a)'
  BY <1>1, <1>4, GrantKeepsAttempt
<1>5. ASSUME NEW b \in Attempts, CreateAttempt(b) PROVE AttemptInv(a)'
  BY <1>1, <1>5, GrantKeepsAttempt
<1>6. ASSUME NEW b \in Attempts,
             ClaimAndLoad(b) \/ ClaimRefused(b) \/ Cancel(b) \/ Crash(b)
      PROVE AttemptInv(a)'
  BY <1>1, <1>6, DeliveryKeepsAttempt
<1>7. ASSUME NEW b \in Attempts, WorkerStep(b) PROVE AttemptInv(a)'
  BY <1>1, <1>7, WorkerKeepsAttempt
<1>8. ASSUME NEW c \in Foreign, PushByOthers(c) PROVE AttemptInv(a)'
  BY <1>1, <1>8, OthersKeepAttempt
<1>9. QED
  BY <1>2, <1>3, <1>4, <1>5, <1>6, <1>7, <1>8 DEF Next
-----------------------------------------------------------------------------
(***************************************************************************)
(* The branch.                                                             *)
(***************************************************************************)

\* The base that an approval of a commit on the branch names never changes.
LEMMA BaseKept ==
  ASSUME TypeOK, [Next]_vars, NEW a \in Attempts, AttemptInv(a), OnBranch(a),
         ApprovedBase(a) \in Commits
  PROVE  ApprovedBase(a)' = ApprovedBase(a)
<1>1. decision[a] = "consumed" /\ patchOf[a] \in Patches
  BY DEF AttemptInv, Announced, Pushing
<1>2. base[patchOf[a]] # NoCommit
  BY IntegrationAssumption DEF ApprovedBase, Commits
<1>3. patchOf'[a] = patchOf[a]
  <2>1. ASSUME NEW b \in Attempts, NEW p \in Patches, Approve(b, p)
        PROVE  patchOf'[a] = patchOf[a]
    BY <1>1, <2>1 DEF Approve, TypeOK
  <2>2. CASE ~\E b \in Attempts, p \in Patches : Approve(b, p)
    BY <2>2 DEF Next, vars, grants, PatchStep, Produce, ReviewEnds, EvaluateReads,
         EvaluateWrites, CreateAttempt, ClaimAndLoad, ClaimRefused, Cancel, Crash,
         PushByOthers, WorkerStep, Transition, Fail, CheckHead, PushLands,
         PushFails, PushCompleted, RemoteVerified, RecordRollback, Complete
  <2>3. QED
    BY <2>1, <2>2
<1>4. base'[patchOf[a]] = base[patchOf[a]]
  <2>1. ASSUME NEW p \in Patches, Produce(p)
        PROVE  base'[patchOf[a]] = base[patchOf[a]]
    BY <1>1, <1>2, <2>1 DEF Produce, TypeOK
  <2>2. CASE ~\E p \in Patches : Produce(p)
    BY <2>2 DEF Next, vars, patchVars, PatchStep, ReviewEnds, EvaluateReads,
         EvaluateWrites, Approve, CreateAttempt, ClaimAndLoad, ClaimRefused, Cancel,
         Crash, PushByOthers, WorkerStep, Transition, Fail, CheckHead, PushLands,
         PushFails, PushCompleted, RemoteVerified, RecordRollback, Complete
  <2>3. QED
    BY <2>1, <2>2
<1>5. QED
  BY <1>3, <1>4 DEF ApprovedBase

\* The branch stays, or a commit that was not on it joins on top: a foreign one
\* or one of ours that finds its base at the head.
LEMMA BranchMoves ==
  ASSUME TypeOK, \A a \in Attempts : AttemptInv(a), [Next]_vars
  PROVE  \/ branch' = branch
         \/ \E c \in Foreign : ~OnBranch(c) /\ branch' = Append(branch, c)
         \/ \E a \in Attempts :
              /\ ~OnBranch(a)
              /\ branch' = Append(branch, a)
              /\ RemoteHead = ApprovedBase(a)
              /\ ApprovedBase(a)' = ApprovedBase(a)
<1>1. ASSUME NEW a \in Attempts, PushLands(a)
      PROVE  /\ ~OnBranch(a)
             /\ branch' = Append(branch, a)
             /\ RemoteHead = ApprovedBase(a)
             /\ ApprovedBase(a)' = ApprovedBase(a)
  <2>1. push[a] = "sending" /\ base' = base /\ patchOf' = patchOf
    BY <1>1 DEF PushLands, patchVars, grants
  <2>2. ~OnBranch(a)
    BY <2>1 DEF AttemptInv
  <2>3. QED
    BY <1>1, <2>1, <2>2, PushAppends DEF ApprovedBase
<1>2. ASSUME NEW c \in Foreign, PushByOthers(c)
      PROVE  ~OnBranch(c) /\ branch' = Append(branch, c)
  BY <1>2 DEF PushByOthers
<1>3. CASE /\ ~\E a \in Attempts : PushLands(a)
           /\ ~\E c \in Foreign : PushByOthers(c)
  <2>1. branch' = branch
    BY <1>3 DEF Next, vars, PatchStep, Produce, ReviewEnds, EvaluateReads,
         EvaluateWrites, Approve, CreateAttempt, ClaimAndLoad, ClaimRefused, Cancel,
         Crash, WorkerStep, Transition, Fail, CheckHead,
         PushFails, PushCompleted, RemoteVerified, RecordRollback, Complete
  <2>2. QED
    BY <2>1
<1>4. QED
  BY <1>1, <1>2, <1>3

\* What an appended commit does to the facts about the branch.
LEMMA AppendKeepsBranch ==
  ASSUME TypeOK, BranchInv, NEW c \in Commits, ~OnBranch(c),
         branch' = Append(branch, c)
  PROVE  /\ Len(branch') = Len(branch) + 1
         /\ \A i \in 1..Len(branch) : branch'[i] = branch[i]
         /\ branch'[Len(branch')] = c
         /\ branch'[1] = Root
         /\ \A i, j \in 1..Len(branch') : branch'[i] = branch'[j] => i = j
<1>1. branch \in Seq(Commits) /\ Len(branch) \in Nat
  BY DEF TypeOK
<1>2. /\ Len(branch') = Len(branch) + 1
      /\ \A i \in 1..Len(branch) : branch'[i] = branch[i]
      /\ branch'[Len(branch) + 1] = c
  BY <1>1, AppendFacts
<1>3. branch'[1] = Root
  BY <1>1, <1>2 DEF BranchInv
<1>4. \A i, j \in 1..Len(branch') : branch'[i] = branch'[j] => i = j
  BY <1>1, <1>2 DEF BranchInv, OnBranch
<1>5. QED
  BY <1>2, <1>3, <1>4

LEMMA BranchStep ==
  ASSUME TypeOK, BranchInv, \A a \in Attempts : AttemptInv(a), [Next]_vars
  PROVE  BranchInv'
<1>1. branch \in Seq(Commits) /\ Len(branch) \in Nat
  BY DEF TypeOK
\* Every commit of ours that is on the branch still has its base before it.
<1>2. \A i \in 2..Len(branch) :
        branch[i] \in Attempts => branch[i - 1] = base'[patchOf'[branch[i]]]
  <2> SUFFICES ASSUME NEW i \in 2..Len(branch), branch[i] \in Attempts
               PROVE  branch[i - 1] = base'[patchOf'[branch[i]]]
    OBVIOUS
  <2> DEFINE a == branch[i]
  <2>1. OnBranch(a)
    BY <1>1 DEF OnBranch
  <2>2. branch[i - 1] = ApprovedBase(a) /\ branch[i - 1] \in Commits
    BY <1>1 DEF BranchInv, LandsOnApprovedBase
  <2>3. PICK b \in Attempts : b = a
    OBVIOUS
  <2>4. ApprovedBase(b)' = ApprovedBase(b)
    BY <2>1, <2>2, <2>3, BaseKept
  <2>5. QED
    BY <2>2, <2>3, <2>4 DEF ApprovedBase
<1>3. CASE branch' = branch
  BY <1>2, <1>3 DEF BranchInv, LandsOnApprovedBase, ApprovedBase
<1>4. ASSUME NEW c \in Foreign, ~OnBranch(c), branch' = Append(branch, c)
      PROVE  BranchInv'
  <2>1. c \in Commits /\ c \notin Attempts
    BY IntegrationAssumption DEF Commits
  <2>2. /\ Len(branch') = Len(branch) + 1
        /\ \A i \in 1..Len(branch) : branch'[i] = branch[i]
        /\ branch'[Len(branch')] = c
        /\ branch'[1] = Root
        /\ \A i, j \in 1..Len(branch') : branch'[i] = branch'[j] => i = j
    BY <1>4, <2>1, AppendKeepsBranch
  <2>3. LandsOnApprovedBase'
    BY <1>1, <1>2, <2>1, <2>2 DEF LandsOnApprovedBase, ApprovedBase
  <2>4. QED
    BY <1>1, <2>2, <2>3 DEF BranchInv
<1>5. ASSUME NEW a \in Attempts, ~OnBranch(a), branch' = Append(branch, a),
             RemoteHead = ApprovedBase(a), ApprovedBase(a)' = ApprovedBase(a)
      PROVE  BranchInv'
  <2>1. /\ Len(branch') = Len(branch) + 1
        /\ \A i \in 1..Len(branch) : branch'[i] = branch[i]
        /\ branch'[Len(branch')] = a
        /\ branch'[1] = Root
        /\ \A i, j \in 1..Len(branch') : branch'[i] = branch'[j] => i = j
    BY <1>5, AppendKeepsBranch DEF Commits
  <2>2. branch'[Len(branch)] = ApprovedBase(a)'
    BY <1>1, <1>5, <2>1 DEF RemoteHead, BranchInv
  <2>3. LandsOnApprovedBase'
    BY <1>1, <1>2, <2>1, <2>2 DEF LandsOnApprovedBase, ApprovedBase
  <2>4. QED
    BY <1>1, <2>1, <2>3 DEF BranchInv
<1>6. QED
  BY <1>3, <1>4, <1>5, BranchMoves
-----------------------------------------------------------------------------
(***************************************************************************)
(* The theorems.                                                           *)
(***************************************************************************)
LEMMA InvInit == Init => IntegrationInv
<1> SUFFICES ASSUME Init PROVE IntegrationInv
  OBVIOUS
<1>1. branch = <<Root>> /\ Len(branch) = 1 /\ branch[1] = Root
  BY DEF Init
<1>2. BranchInv
  BY <1>1 DEF BranchInv, LandsOnApprovedBase
<1>3. ASSUME NEW a \in Attempts PROVE AttemptInv(a)
  <2>1. ~OnBranch(a)
    BY <1>1, IntegrationAssumption DEF OnBranch
  <2>2. QED
    BY <2>1 DEF Init, AttemptInv
<1>4. QED
  BY <1>2, <1>3, TypeInit DEF IntegrationInv

LEMMA InvStep == IntegrationInv /\ [Next]_vars => IntegrationInv'
  BY TypeStep, BranchStep, AttemptStep DEF IntegrationInv

THEOREM Invariance == Spec => []IntegrationInv
  BY InvInit, InvStep, PTL DEF Spec

\* Our commits sit right on the commit that their approval names.
THEOREM CommitsSitOnApprovedBase == Spec => []LandsOnApprovedBase
<1>1. IntegrationInv => LandsOnApprovedBase
  BY DEF IntegrationInv, BranchInv
<1>2. QED
  BY <1>1, Invariance, PTL

\* However often it is approved and attempted, a patch is pushed once: two of its
\* commits would have the same commit before them, and no commit is there twice.
THEOREM PatchLandsOnce == Spec => []LandsOnce
<1>1. IntegrationInv => LandsOnce
  <2> SUFFICES ASSUME IntegrationInv,
                      NEW i \in 1..Len(branch), NEW j \in 1..Len(branch),
                      branch[i] \in Attempts, branch[j] \in Attempts,
                      patchOf[branch[i]] = patchOf[branch[j]]
               PROVE  i = j
    BY DEF LandsOnce
  <2>1. Len(branch) \in Nat
    BY DEF IntegrationInv, TypeOK
  <2>2. i # 1 /\ j # 1
    BY IntegrationAssumption DEF IntegrationInv, BranchInv
  <2>3. branch[i - 1] = branch[j - 1]
    BY <2>1, <2>2 DEF IntegrationInv, BranchInv, LandsOnApprovedBase, ApprovedBase
  <2>4. i - 1 = j - 1
    BY <2>1, <2>2, <2>3 DEF IntegrationInv, BranchInv
  <2>5. QED
    BY <2>4
<1>2. QED
  BY <1>1, Invariance, PTL

\* A commit on the branch is announced by the row of its attempt, so a row that
\* announces nothing means that the remote was not touched.
THEOREM PushesAreAnnounced == Spec => []PushIsAnnounced
<1>1. IntegrationInv => PushIsAnnounced
  BY DEF IntegrationInv, AttemptInv, PushIsAnnounced, Announced
<1>2. QED
  BY <1>1, Invariance, PTL

\* Integrated attempts have recovery evidence, and all evidence is about commits
\* that are on the branch.
THEOREM RecoveryEvidenceIsTrue == Spec => []EvidenceIsTrue
<1>1. IntegrationInv => EvidenceIsTrue
  BY DEF IntegrationInv, AttemptInv, EvidenceIsTrue, TypeOK
<1>2. QED
  BY <1>1, Invariance, PTL

\* An attempt with an outcome has no push under way that could still land.
THEOREM OutcomesAreSettled == Spec => NothingLandsAfterOutcome
<1>1. IntegrationInv /\ [Next]_vars
      => [ \A a \in Attempts :
             stage[a] \in Settled /\ ~OnBranch(a) => ~OnBranch(a)' ]_vars
  <2> SUFFICES ASSUME IntegrationInv, [Next]_vars, NEW a \in Attempts,
                      stage[a] \in Settled, ~OnBranch(a)
               PROVE  ~OnBranch(a)'
    OBVIOUS
  <2>1. TypeOK
    BY DEF IntegrationInv
  <2>2. push[a] \notin {"checking", "sending"}
    BY DEF IntegrationInv, AttemptInv, Settled, Failures
  <2>3. ASSUME NEW b \in Attempts, PushLands(b) PROVE ~OnBranch(a)'
    <3>1. a # b
      BY <2>2, <2>3 DEF PushLands
    <3>2. branch' = Append(branch, b) /\ b \in Commits
      BY <2>1, <2>3, PushAppends DEF Commits
    <3>3. QED
      BY <2>1, <3>1, <3>2, OnTop
  <2>4. ASSUME NEW c \in Foreign, PushByOthers(c) PROVE ~OnBranch(a)'
    <3>1. branch' = Append(branch, c) /\ c \in Commits /\ c # a
      BY <2>4, IntegrationAssumption DEF PushByOthers, Commits
    <3>2. QED
      BY <2>1, <3>1, OnTop
  <2>5. CASE /\ ~\E b \in Attempts : PushLands(b)
             /\ ~\E c \in Foreign : PushByOthers(c)
    <3>1. branch' = branch
      BY <2>5 DEF Next, vars, PatchStep, Produce, ReviewEnds, EvaluateReads,
           EvaluateWrites, Approve, CreateAttempt, ClaimAndLoad, ClaimRefused,
           Cancel, Crash, WorkerStep, Transition, Fail, CheckHead, PushFails,
           PushCompleted, RemoteVerified, RecordRollback, Complete
    <3>2. QED
      BY <3>1, SameBranch
  <2>6. QED
    BY <2>3, <2>4, <2>5
<1>2. QED
  BY <1>1, Invariance, PTL DEF Spec, NothingLandsAfterOutcome
-----------------------------------------------------------------------------
(***************************************************************************)
(* The ledger of patches.                                                  *)
(***************************************************************************)

\* A patch is in the log only through the commit of one of its attempts.
LEMMA LoggedPatch ==
  ASSUME IntegrationInv, NEW p \in Patches
  PROVE  /\ Len(PatchLog) = Len(branch)
         /\ Ledger!Logged(p) <=> \E a \in Attempts : OnBranch(a) /\ patchOf[a] = p
<1>1. branch \in Seq(Commits) /\ Len(branch) \in Nat
  BY DEF IntegrationInv, TypeOK
<1>2. Len(PatchLog) = Len(branch) /\ DOMAIN PatchLog = 1..Len(branch)
  BY <1>1 DEF PatchLog
<1>3. ASSUME NEW i \in 1..Len(branch), PatchLog[i] = p
      PROVE  branch[i] \in Attempts /\ patchOf[branch[i]] = p
  BY <1>1, <1>3, IntegrationAssumption DEF PatchLog, Commits
<1>4. ASSUME NEW i \in 1..Len(branch), branch[i] \in Attempts, patchOf[branch[i]] = p
      PROVE  PatchLog[i] = p
  BY <1>4 DEF PatchLog
<1>5. QED
  BY <1>2, <1>3, <1>4 DEF Ledger!Logged, OnBranch

\* Another commit is in the log exactly when it is on the branch.
LEMMA LoggedOther ==
  ASSUME IntegrationInv, NEW c \in Foreign
  PROVE  Ledger!Logged(c) => OnBranch(c)
<1>1. branch \in Seq(Commits) /\ Len(branch) \in Nat
  BY DEF IntegrationInv, TypeOK
<1>2. Len(PatchLog) = Len(branch)
  BY <1>1 DEF PatchLog
<1>3. ASSUME NEW i \in 1..Len(branch), PatchLog[i] = c
      PROVE  branch[i] = c
  <2>1. CASE branch[i] \in Attempts
    <3>1. OnBranch(branch[i])
      BY DEF OnBranch
    <3>2. PICK a \in Attempts : a = branch[i]
      BY <2>1
    <3>3. patchOf[a] \in Patches
      BY <3>1, <3>2 DEF IntegrationInv, AttemptInv, Announced, Pushing
    <3>4. patchOf[a] = c
      BY <1>3, <2>1, <3>2 DEF PatchLog
    <3>5. QED
      BY <3>3, <3>4, IntegrationAssumption
  <2>2. CASE branch[i] \notin Attempts
    BY <1>3, <2>2 DEF PatchLog
  <2>3. QED
    BY <2>1, <2>2
<1>4. QED
  BY <1>2, <1>3 DEF Ledger!Logged, OnBranch

\* The patch of an attempt that is on the branch, or whose approval is consumed,
\* never changes, and a consumed approval stays consumed.
LEMMA PatchKept ==
  ASSUME TypeOK, [Next]_vars, NEW a \in Attempts, decision[a] = "consumed"
  PROVE  patchOf'[a] = patchOf[a] /\ decision'[a] = "consumed"
<1>1. ASSUME NEW b \in Attempts, NEW p \in Patches, Approve(b, p)
      PROVE  patchOf'[a] = patchOf[a] /\ decision'[a] = "consumed"
  BY <1>1 DEF Approve, TypeOK
<1>2. ASSUME NEW b \in Attempts, CreateAttempt(b)
      PROVE  patchOf'[a] = patchOf[a] /\ decision'[a] = "consumed"
  BY <1>2 DEF CreateAttempt, TypeOK
<1>3. CASE /\ ~\E b \in Attempts, p \in Patches : Approve(b, p)
           /\ ~\E b \in Attempts : CreateAttempt(b)
  BY <1>3 DEF Next, vars, grants, PatchStep, Produce, ReviewEnds, EvaluateReads,
       EvaluateWrites, ClaimAndLoad, ClaimRefused, Cancel, Crash,
       PushByOthers, WorkerStep, Transition, Fail, CheckHead, PushLands,
       PushFails, PushCompleted, RemoteVerified, RecordRollback, Complete
<1>4. QED
  BY <1>1, <1>2, <1>3

\* Without a new commit the log is the same: the patch of a commit on the branch
\* stays what it is.
LEMMA LogKept ==
  ASSUME IntegrationInv, [Next]_vars, NEW i \in 1..Len(branch)
  PROVE  (IF branch[i] \in Attempts THEN patchOf'[branch[i]] ELSE branch[i])
         = PatchLog[i]
<1>1. CASE branch[i] \in Attempts
  <2>1. PICK a \in Attempts : a = branch[i]
    BY <1>1
  <2>2. OnBranch(a)
    BY <2>1 DEF OnBranch
  <2>3. decision[a] = "consumed"
    BY <2>2 DEF IntegrationInv, AttemptInv, Announced, Pushing
  <2>4. patchOf'[a] = patchOf[a]
    BY <2>3, PatchKept DEF IntegrationInv
  <2>5. QED
    BY <1>1, <2>1, <2>4 DEF PatchLog
<1>2. CASE branch[i] \notin Attempts
  BY <1>2 DEF PatchLog
<1>3. QED
  BY <1>1, <1>2

\* A step that leaves the branch alone grants a patch or changes nothing here.
LEMMA GrantMove ==
  ASSUME IntegrationInv, [Next]_vars, branch' = branch
  PROVE  (\E p \in Patches : Ledger!Grant(p)) \/ UNCHANGED Ledger!ledgerVars
<1>1. PatchLog' = PatchLog
  <2>1. \A i \in 1..Len(branch) : PatchLog'[i] = PatchLog[i]
    BY LogKept DEF PatchLog
  <2>2. QED
    BY <2>1 DEF PatchLog
<1>2. ASSUME NEW b \in Attempts, CreateAttempt(b)
      PROVE  \E p \in Patches : Ledger!Grant(p)
  <2>1. /\ decision[b] = "approved" /\ patchOf' = patchOf
        /\ decision' = [decision EXCEPT ![b] = "consumed"]
        /\ decision \in [Attempts -> {"none", "approved", "consumed"}]
    BY <1>2 DEF CreateAttempt, IntegrationInv, TypeOK
  <2>2. patchOf[b] \in Patches
    BY <2>1 DEF IntegrationInv, AttemptInv
  <2>3. Granted' = Granted \cup {patchOf[b]}
    BY <2>1, <2>2 DEF Granted
  <2>4. QED
    BY <1>1, <2>2, <2>3 DEF Ledger!Grant
<1>3. ASSUME NEW b \in Attempts, NEW p \in Patches, Approve(b, p)
      PROVE  Granted' = Granted
  <2>1. /\ decision[b] = "none"
        /\ \A a \in Attempts : decision'[a] = IF a = b THEN "approved" ELSE decision[a]
        /\ \A a \in Attempts : patchOf'[a] = IF a = b THEN p ELSE patchOf[a]
    BY <1>3 DEF Approve, IntegrationInv, TypeOK
  <2>2. QED
    BY <2>1 DEF Granted
<1>4. ASSUME ~\E b \in Attempts, p \in Patches : Approve(b, p),
             ~\E b \in Attempts : CreateAttempt(b)
      PROVE  Granted' = Granted
  <2>1. decision' = decision /\ patchOf' = patchOf
    BY <1>4 DEF Next, vars, grants, PatchStep, Produce, ReviewEnds, EvaluateReads,
         EvaluateWrites, ClaimAndLoad, ClaimRefused, Cancel, Crash,
         PushByOthers, WorkerStep, Transition, Fail, CheckHead, PushLands,
         PushFails, PushCompleted, RemoteVerified, RecordRollback, Complete
  <2>2. QED
    BY <2>1 DEF Granted
<1>5. QED
  BY <1>1, <1>2, <1>3, <1>4 DEF Ledger!ledgerVars

\* A commit on top of the branch is an entry on top of the log.
LEMMA LogAppended ==
  ASSUME IntegrationInv, [Next]_vars, NEW c \in Commits, branch' = Append(branch, c),
         decision' = decision, patchOf' = patchOf
  PROVE  /\ PatchLog' = Append(PatchLog, IF c \in Attempts THEN patchOf[c] ELSE c)
         /\ Granted' = Granted
<1> DEFINE e == IF c \in Attempts THEN patchOf[c] ELSE c
<1>1. branch \in Seq(Commits) /\ Len(branch) \in Nat
  BY DEF IntegrationInv, TypeOK
<1>2. /\ Len(branch') = Len(branch) + 1
      /\ \A i \in 1..Len(branch) : branch'[i] = branch[i]
      /\ branch'[Len(branch) + 1] = c
  BY <1>1, AppendFacts
<1>3. PatchLog \in Seq({PatchLog[i] : i \in 1..Len(branch)} \cup {e})
  BY <1>1 DEF PatchLog
<1>4. Len(PatchLog) = Len(branch)
  BY <1>1 DEF PatchLog
<1>5. /\ Append(PatchLog, e) \in Seq({PatchLog[i] : i \in 1..Len(branch)} \cup {e})
      /\ Len(Append(PatchLog, e)) = Len(branch) + 1
      /\ \A i \in 1..Len(branch) : Append(PatchLog, e)[i] = PatchLog[i]
      /\ Append(PatchLog, e)[Len(branch) + 1] = e
  BY <1>3, <1>4, AppendFacts
<1>6. PatchLog' = [i \in 1..(Len(branch) + 1) |->
                     IF branch'[i] \in Attempts THEN patchOf[branch'[i]] ELSE branch'[i]]
  BY <1>2 DEF PatchLog
<1>7. \A i \in 1..(Len(branch) + 1) : PatchLog'[i] = Append(PatchLog, e)[i]
  <2>1. ASSUME NEW i \in 1..Len(branch) PROVE PatchLog'[i] = Append(PatchLog, e)[i]
    <3>1. i \in 1..(Len(branch) + 1)
      BY <1>1
    <3>2. PatchLog'[i] = PatchLog[i]
      BY <1>2, <1>6, <2>1, <3>1 DEF PatchLog
    <3>3. QED
      BY <1>5, <3>2
  <2>2. PatchLog'[Len(branch) + 1] = e
    BY <1>1, <1>2, <1>6
  <2>3. QED
    BY <1>1, <1>5, <2>1, <2>2
<1>8. PatchLog' = Append(PatchLog, e)
  BY <1>1, <1>5, <1>6, <1>7
<1>9. QED
  BY <1>8 DEF Granted

LEMMA LedgerStep ==
  ASSUME IntegrationInv, [Next]_vars
  PROVE  [Ledger!Next]_(Ledger!ledgerVars)
<1>1. TypeOK /\ BranchInv /\ branch \in Seq(Commits) /\ Len(branch) \in Nat
  BY DEF IntegrationInv, TypeOK
<1>2. ASSUME NEW c \in Foreign, PushByOthers(c) PROVE Ledger!Other(c)
  <2>1. /\ ~OnBranch(c) /\ branch' = Append(branch, c)
        /\ decision' = decision /\ patchOf' = patchOf
        /\ c \in Commits /\ c \notin Attempts
    BY <1>2, IntegrationAssumption DEF PushByOthers, grants, Commits
  <2>2. PatchLog' = Append(PatchLog, c) /\ Granted' = Granted
    BY <2>1, LogAppended
  <2>3. ~Ledger!Logged(c)
    BY <2>1, LoggedOther
  <2>4. QED
    BY <2>2, <2>3 DEF Ledger!Other
<1>3. ASSUME NEW a \in Attempts, PushLands(a) PROVE Ledger!Land(patchOf[a])
  <2>1. /\ branch' = Append(branch, a) /\ RemoteHead = ApprovedBase(a)
        /\ decision' = decision /\ patchOf' = patchOf
        /\ push[a] = "sending" /\ a \in Commits
    BY <1>1, <1>3, PushAppends DEF PushLands, grants, Commits
  <2>2. decision[a] = "consumed" /\ patchOf[a] \in Patches
    BY <2>1 DEF IntegrationInv, AttemptInv, Announced, Pushing
  <2>3. PatchLog' = Append(PatchLog, patchOf[a]) /\ Granted' = Granted
    BY <2>1, LogAppended
  \* An earlier commit of the patch would have the head of the branch before it.
  <2>4. ASSUME NEW b \in Attempts, OnBranch(b), patchOf[b] = patchOf[a] PROVE FALSE
    <3>1. PICK i \in 1..Len(branch) : branch[i] = b
      BY <2>4 DEF OnBranch
    <3>2. i \in 2..Len(branch)
      BY <1>1, <3>1, IntegrationAssumption DEF BranchInv
    <3>3. branch[i - 1] = branch[Len(branch)]
      BY <1>1, <2>1, <2>4, <3>1, <3>2
      DEF BranchInv, LandsOnApprovedBase, ApprovedBase, RemoteHead
    <3>4. i - 1 = Len(branch)
      BY <1>1, <3>2, <3>3 DEF BranchInv
    <3>5. QED
      BY <1>1, <3>2, <3>4
  <2>5. ~Ledger!Logged(patchOf[a])
    BY <2>2, <2>4, LoggedPatch
  <2>6. patchOf[a] \in Granted
    BY <2>2 DEF Granted
  <2>7. QED
    BY <2>3, <2>5, <2>6 DEF Ledger!Land
<1>4. CASE branch' = branch
  BY <1>4, GrantMove DEF Ledger!Next
<1>5. CASE branch' # branch
  <2>1. \/ \E c \in Foreign : PushByOthers(c)
        \/ \E a \in Attempts : PushLands(a)
    BY <1>5 DEF Next, vars, PatchStep, Produce, ReviewEnds, EvaluateReads,
         EvaluateWrites, Approve, CreateAttempt, ClaimAndLoad, ClaimRefused, Cancel,
         Crash, WorkerStep, Transition, Fail, CheckHead,
         PushFails, PushCompleted, RemoteVerified, RecordRollback, Complete
  <2>2. ASSUME NEW a \in Attempts, PushLands(a) PROVE patchOf[a] \in Patches
    BY <2>2 DEF PushLands, IntegrationInv, AttemptInv, Announced, Pushing
  <2>3. QED
    BY <1>2, <1>3, <2>1, <2>2 DEF Ledger!Next
<1>6. QED
  BY <1>4, <1>5

LEMMA LedgerInit == Init => Ledger!Init
<1> SUFFICES ASSUME Init PROVE Ledger!Init
  OBVIOUS
<1>1. branch = <<Root>> /\ Root \notin Attempts
  BY IntegrationAssumption DEF Init
<1>2. PatchLog = <<Root>>
  BY <1>1 DEF PatchLog
<1>3. Granted = {}
  BY DEF Init, Granted
<1>4. QED
  BY <1>2, <1>3 DEF Ledger!Init

\* Approvals, attempts, workers that stop anywhere, lost answers and other
\* people's pushes together behave as a log that takes a granted patch once.
THEOREM IntegrationImplementsLedger == Spec => KeepsPatchLedger
  BY LedgerInit, LedgerStep, Invariance, PTL DEF Spec, KeepsPatchLedger, Ledger!Spec
=============================================================================
