--------------------------- MODULE RecoveryProofs ---------------------------
(***************************************************************************)
(* Theorems about Recovery, for every set of attempts and foreign commits  *)
(* and any number of deliveries.                                           *)
(***************************************************************************)
EXTENDS Recovery, TLAPS

\* What a run that has come to a place can rely on.
BeforePush == {"claimed", "preparing", "cloned", "reverting", "reverted", "testing",
               "tested", "committing", "committed"}
HasRevert  == {"reverted", "testing", "tested", "committing", "committed", "pushing"}
HasTests   == {"tested", "committing", "committed", "pushing"} \cup Finishing \cup Reconciling
HasCommit  == {"committed", "pushing"} \cup Finishing \cup Reconciling

\* Some run of a has brought the commit to the branch.
Landed(a) == \E n \in Runs : push[<<a, n>>] \in {"accepted", "refused"}

\* One run: a run that has not pushed yet is the latest only while nothing was
\* announced, and what it has done is on record.
RunInv(a, n) ==
  /\ n > runs[a] => at[<<a, n>>] = "none" /\ push[<<a, n>>] = "idle"
  /\ at[<<a, n>>] \in BeforePush => push[<<a, n>>] = "idle" /\ (n = runs[a] => a \notin announced)
  /\ push[<<a, n>>] # "idle" => a \in announced
  /\ at[<<a, n>>] \in HasRevert \/ AwaitsPush(a, n) => ~NothingToRevert(a)
  /\ at[<<a, n>>] \in HasTests => a \in tested
  /\ at[<<a, n>>] \in HasCommit => a \in recorded
  /\ at[<<a, n>>] \in Finishing => OnBranch(a)
  /\ at[<<a, n>>] = "confirmed" => a \in confirmed

\* One attempt: its rows agree with each other and with the branch, and of all
\* its runs at most one has ever pushed.
AttemptInv(a) ==
  /\ approval[a] # "none" => OnBranch(expected[a])
  /\ status[a] # "none" => approval[a] = "consumed"
  /\ runs[a] # 0 => status[a] # "none"
  /\ a \in announced => status[a] # "none" /\ a \in recorded
  /\ a \in recorded => a \in tested
  /\ a \in confirmed => a \in recorded /\ OnBranch(a)
  /\ status[a] \in {"pushing", "push_uncertain"} => a \in recorded
  /\ status[a] = "recovered" => a \in confirmed
  /\ status[a] \in Certain => ~OnBranch(a) /\ \A n \in Runs : ~AwaitsPush(a, n)
  /\ OnBranch(a) => Landed(a)
  /\ \A m, n \in Runs : push[<<a, m>>] # "idle" /\ push[<<a, n>>] # "idle" => m = n

AttemptsInv == \A a \in Attempts : AttemptInv(a) /\ \A n \in Runs : RunInv(a, n)

\* Our commits sit right on the heads that were approved for them.
BranchInv ==
  /\ Len(branch) >= 1
  /\ branch[1] = Target
  /\ LandsOnApprovedHead

RecoveryInv == TypeOK /\ BranchInv /\ AttemptsInv
-----------------------------------------------------------------------------
(***************************************************************************)
(* Types.                                                                  *)
(***************************************************************************)

LEMMA AppendFacts ==
  ASSUME NEW S, NEW s \in Seq(S), NEW e \in S
  PROVE  /\ Append(s, e) \in Seq(S)
         /\ Len(Append(s, e)) = Len(s) + 1
         /\ \A i \in 1..Len(s) : Append(s, e)[i] = s[i]
         /\ Append(s, e)[Len(s) + 1] = e
  OBVIOUS

LEMMA TypeInit == Init => TypeOK
<1> SUFFICES ASSUME Init PROVE TypeOK
  OBVIOUS
<1>1. branch \in Seq(Commits)
  BY DEF Init, Commits
<1>2. runs \in [Attempts -> 0..MaxRuns]
  BY RecoveryAssumption DEF Init
<1>3. at \in [Attempts \X Runs -> Places] /\ push \in [Attempts \X Runs -> Threads]
  BY DEF Init, Places, Threads
<1> QED
  BY <1>1, <1>2, <1>3 DEF Init, TypeOK, Statuses

LEMMA PeopleTypes ==
  ASSUME TypeOK, Len(branch) >= 1, NEW a \in Attempts,
         Assess(a) \/ Approve(a) \/ CreateAttempt(a) \/ ClaimAndLoad(a) \/ LeaseExpires(a)
  PROVE  TypeOK'
<1> USE DEF people, rows, claims
<1>1. CASE Assess(a)
  <2>1. branch \in Seq(Commits)
    BY DEF TypeOK
  <2>2. RemoteHead \in Commits \cup {NoCommit}
    BY <2>1 DEF RemoteHead
  <2> QED
    BY <1>1, <2>2 DEF Assess, TypeOK
<1>2. CASE Approve(a)
  BY <1>2 DEF Approve, TypeOK
<1>3. CASE CreateAttempt(a)
  BY <1>3 DEF CreateAttempt, TypeOK, Statuses, SafeToRestart
<1>4. CASE ClaimAndLoad(a)
  <2>1. runs[a] \in 0..MaxRuns /\ runs[a] + 1 \in Runs /\ runs[a] + 1 \in 0..MaxRuns
    BY <1>4, RecoveryAssumption DEF ClaimAndLoad, TypeOK, Runs
  <2>2. runs' \in [Attempts -> 0..MaxRuns]
    BY <1>4, <2>1 DEF ClaimAndLoad, TypeOK
  <2>3. at' \in [Attempts \X Runs -> Places]
    BY <1>4, <2>1 DEF ClaimAndLoad, TypeOK, Places, Running, Reverting, Reconciling
  <2>4. status' \in [Attempts -> Statuses]
    BY <1>4 DEF ClaimAndLoad, TypeOK, Statuses, SafeToRestart, Settled, Failures
  <2> QED
    BY <1>4, <2>2, <2>3, <2>4 DEF ClaimAndLoad, TypeOK
<1>5. CASE LeaseExpires(a)
  BY <1>5 DEF LeaseExpires, TypeOK
<1> QED
  BY <1>1, <1>2, <1>3, <1>4, <1>5

\* A run goes to one of its places.
LEMMA GoesTypes ==
  ASSUME TypeOK, NEW a \in Attempts, NEW n \in Runs, NEW place \in Places,
         Goes(a, n, place)
  PROVE  at' \in [Attempts \X Runs -> Places]
  BY DEF Goes, TypeOK

LEMMA FailureTypes ==
  ASSUME NEW a, NEW n
  PROVE  Failure(a, n) \in Failures
  BY DEF Failure, Failures

LEMMA TransitionTypes ==
  ASSUME TypeOK, NEW a \in Attempts, NEW n \in Runs, NEW from, NEW to \in Places,
         NEW s \in Statuses, Transition(a, n, from, to, s)
  PROVE  /\ at' \in [Attempts \X Runs -> Places] /\ status' \in [Attempts -> Statuses]
         /\ UNCHANGED <<branch, expected, approval, tested, recorded, confirmed, runs, lease>>
  BY GoesTypes DEF Transition, TypeOK, people, claims

LEMMA CloseTypes ==
  ASSUME TypeOK, NEW a \in Attempts, NEW n \in Runs, NEW s \in Statuses, Close(a, n, s)
  PROVE  TypeOK'
<1>1. "ended" \in Places
  BY DEF Places
<1>2. at' \in [Attempts \X Runs -> Places]
  BY <1>1, GoesTypes DEF Close
<1> QED
  BY <1>2 DEF Close, TypeOK, people

LEMMA WorkerTypes ==
  ASSUME TypeOK, NEW a \in Attempts, NEW n \in Runs, WorkerStep(a, n)
  PROVE  TypeOK'
<1> USE DEF people, rows, claims
<1>1. \A place \in Running \cup {"ended"} : place \in Places
  BY DEF Places
<1>2. \A place \in Running \cup {"ended"} :
        Goes(a, n, place) => at' \in [Attempts \X Runs -> Places]
  BY <1>1, GoesTypes
<1>3. CASE PrepareWorkspace(a, n)
  BY <1>3, TransitionTypes DEF PrepareWorkspace, TypeOK, Places, Running, Reverting, Statuses, SafeToRestart
<1>4. CASE Clone(a, n)
  BY <1>2, <1>4 DEF Clone, TypeOK, Running, Reverting
<1>5. CASE BeginRevert(a, n)
  BY <1>5, TransitionTypes DEF BeginRevert, TypeOK, Places, Running, Reverting, Statuses, SafeToRestart
<1>6. CASE Revert(a, n)
  BY <1>2, <1>6 DEF Revert, TypeOK, Running, Reverting
<1>7. CASE BeginTests(a, n)
  BY <1>7, TransitionTypes DEF BeginTests, TypeOK, Places, Running, Reverting, Statuses, SafeToRestart
<1>8. CASE RecordTests(a, n)
  BY <1>2, <1>8 DEF RecordTests, TypeOK, Running, Reverting
<1>9. CASE TestsCollide(a, n)
  BY <1>2, <1>9 DEF TestsCollide, TypeOK
<1>10. CASE BeginCommit(a, n)
  BY <1>10, TransitionTypes DEF BeginCommit, TypeOK, Places, Running, Reverting, Statuses, SafeToRestart
<1>11. CASE RecordCommit(a, n)
  BY <1>2, <1>11 DEF RecordCommit, TypeOK, Running, Reverting
<1>12. CASE BeginPush(a, n)
  <2>1. push' \in [Attempts \X Runs -> Threads]
    BY <1>12 DEF BeginPush, TypeOK, Threads
  <2> QED
    BY <1>12, <2>1, TransitionTypes DEF BeginPush, TypeOK, Places, Running, Reverting, Statuses
<1>13. CASE CheckHead(a, n)
  BY <1>13 DEF CheckHead, TypeOK, Threads
<1>14. CASE PushLands(a, n)
  <2>1. branch' = Append(branch, a)
    BY <1>14 DEF PushLands, PushResults
  <2>2. branch' \in Seq(Commits)
    BY <2>1, AppendFacts DEF TypeOK, Commits
  <2>3. push' \in [Attempts \X Runs -> Threads]
    BY <1>14 DEF PushLands, TypeOK, Threads
  <2> QED
    BY <1>14, <2>2, <2>3 DEF PushLands, TypeOK
<1>15. CASE PushFails(a, n)
  BY <1>15 DEF PushFails, TypeOK, Threads
<1>16. CASE VerifyRemote(a, n)
  BY <1>2, <1>16 DEF VerifyRemote, TypeOK, Running, Finishing
<1>17. CASE Examine(a, n)
  BY <1>2, <1>17 DEF Examine, TypeOK, Running, Reconciling
<1>18. CASE ExamineRaises(a, n)
  BY <1>2, <1>18 DEF ExamineRaises, TypeOK
<1>19. CASE Reconcile(a, n)
  BY <1>2, <1>19 DEF Reconcile, TypeOK, Running, Finishing
<1>20. CASE BeginFinish(a, n)
  BY <1>20, TransitionTypes DEF BeginFinish, TypeOK, Places, Running, Finishing, Statuses
<1>21. CASE RecordRemote(a, n)
  BY <1>2, <1>21 DEF RecordRemote, TypeOK, Running, Finishing
<1>22. CASE Complete(a, n)
  BY <1>22, CloseTypes DEF Complete, Statuses, Settled
<1>23. CASE Fail(a, n)
  <2>1. Failure(a, n) \in Statuses
    BY FailureTypes DEF Statuses, Settled
  <2> QED
    BY <1>23, <2>1, CloseTypes DEF Fail
<1>24. CASE FenceLost(a, n)
  BY <1>2, <1>24 DEF FenceLost, TypeOK
<1> QED
  BY <1>3, <1>4, <1>5, <1>6, <1>7, <1>8, <1>9, <1>10, <1>11, <1>12, <1>13, <1>14, <1>15,
     <1>16, <1>17, <1>18, <1>19, <1>20, <1>21, <1>22, <1>23, <1>24 DEF WorkerStep

LEMMA OutsideTypes ==
  ASSUME TypeOK,
         \/ \E a \in Attempts, n \in Runs : Cancel(a, n) \/ Crash(a, n)
         \/ \E c \in Foreign : PushByOthers(c)
  PROVE  TypeOK'
<1> USE DEF people, rows, claims
<1>1. "stopped" \in Places
  BY DEF Places
<1>2. ASSUME NEW a \in Attempts, NEW n \in Runs, Cancel(a, n) PROVE TypeOK'
  BY <1>1, <1>2, GoesTypes DEF Cancel, TypeOK
<1>3. ASSUME NEW a \in Attempts, NEW n \in Runs, Crash(a, n) PROVE TypeOK'
  <2>1. push' \in [Attempts \X Runs -> Threads]
    BY <1>3 DEF Crash, TypeOK, Threads
  <2> QED
    BY <1>1, <1>3, <2>1, GoesTypes DEF Crash, TypeOK
<1>4. ASSUME NEW c \in Foreign, PushByOthers(c) PROVE TypeOK'
  <2>1. branch' \in Seq(Commits)
    BY <1>4, AppendFacts DEF PushByOthers, TypeOK, Commits
  <2> QED
    BY <1>4, <2>1 DEF PushByOthers, TypeOK
<1> QED
  BY <1>2, <1>3, <1>4

LEMMA TypeStep ==
  ASSUME TypeOK, Len(branch) >= 1, [Next]_vars
  PROVE  TypeOK'
<1>1. CASE UNCHANGED vars
  BY <1>1 DEF vars, people, rows, claims, TypeOK
<1>2. CASE Next
  BY <1>2, PeopleTypes, WorkerTypes, OutsideTypes DEF Next
<1> QED
  BY <1>1, <1>2
-----------------------------------------------------------------------------
(***************************************************************************)
(* The branch.                                                             *)
(***************************************************************************)

\* A commit put on top of the branch is the only one that joins it.
LEMMA OnTop ==
  ASSUME TypeOK, NEW c \in Commits, branch' = Append(branch, c), NEW x
  PROVE  OnBranch(x)' <=> OnBranch(x) \/ x = c
<1>1. branch \in Seq(Commits) /\ Len(branch) \in Nat
  BY DEF TypeOK
<1>2. /\ Len(branch') = Len(branch) + 1
      /\ \A i \in 1..Len(branch) : branch'[i] = branch[i]
      /\ branch'[Len(branch) + 1] = c
  BY <1>1, AppendFacts
<1> QED
  BY <1>1, <1>2 DEF OnBranch

\* Whether the change is in effect somewhere depends on what is below only.
LEMMA EffectKept ==
  ASSUME TypeOK, NEW c \in Commits, branch' = Append(branch, c), NEW i \in 1..Len(branch)
  PROVE  InEffectAt(i)' <=> InEffectAt(i)
<1>1. branch \in Seq(Commits) /\ Len(branch) \in Nat
  BY DEF TypeOK
<1>2. \A k \in 1..i : branch'[k] = branch[k]
  BY <1>1, AppendFacts
<1>3. \A j \in 1..i : \A k \in (j + 1)..i : k \in 1..i
  BY <1>1
<1> QED
  BY <1>2, <1>3 DEF InEffectAt

\* What an approved revert finds is not changed by commits on top of its head.
LEMMA SomethingKept ==
  ASSUME TypeOK, NEW a \in Attempts, expected'[a] = expected[a],
         \/ branch' = branch
         \/ \E c \in Commits : branch' = Append(branch, c) /\ expected[a] # c
  PROVE  NothingToRevert(a)' <=> NothingToRevert(a)
<1>1. CASE branch' = branch
  BY <1>1 DEF NothingToRevert, InEffectAt
<1>2. ASSUME NEW c \in Commits, branch' = Append(branch, c), expected[a] # c
      PROVE  NothingToRevert(a)' <=> NothingToRevert(a)
  <2>1. branch \in Seq(Commits) /\ Len(branch) \in Nat
    BY DEF TypeOK
  <2>2. /\ Len(branch') = Len(branch) + 1
        /\ \A i \in 1..Len(branch) : branch'[i] = branch[i]
        /\ branch'[Len(branch) + 1] = c
    BY <1>2, <2>1, AppendFacts
  <2>3. \A i \in 1..Len(branch) : InEffectAt(i)' <=> InEffectAt(i)
    BY <1>2, EffectKept
  <2>4. ASSUME NEW i \in 1..Len(branch'), branch'[i] = expected[a]
        PROVE  i \in 1..Len(branch) /\ branch[i] = expected[a]
    BY <1>2, <2>1, <2>2, <2>4
  <2>5. \A i \in 1..Len(branch) : i \in 1..Len(branch')
    BY <2>1, <2>2
  <2> QED
    BY <2>2, <2>3, <2>4, <2>5 DEF NothingToRevert
<1> QED
  BY <1>1, <1>2
-----------------------------------------------------------------------------
(***************************************************************************)
(* One attempt.                                                            *)
(***************************************************************************)

Inv(a) == AttemptInv(a) /\ \A n \in Runs : RunInv(a, n)

\* The rows and runs of an attempt are left alone.
Untouched(a) ==
  /\ expected'[a] = expected[a] /\ approval'[a] = approval[a]
  /\ status'[a] = status[a] /\ runs'[a] = runs[a]
  /\ (a \in announced') <=> (a \in announced)
  /\ (a \in tested') <=> (a \in tested)
  /\ (a \in recorded') <=> (a \in recorded)
  /\ (a \in confirmed') <=> (a \in confirmed)
  /\ \A n \in Runs : at'[<<a, n>>] = at[<<a, n>>] /\ push'[<<a, n>>] = push[<<a, n>>]

LEMMA UntouchedKept ==
  ASSUME TypeOK, NEW a \in Attempts, Inv(a), Untouched(a),
         \/ branch' = branch
         \/ \E c \in Commits \ {a} : ~OnBranch(c) /\ branch' = Append(branch, c)
  PROVE  Inv(a)'
<1>1. OnBranch(a)' <=> OnBranch(a)
  BY OnTop DEF OnBranch
<1>2. OnBranch(expected[a]) => OnBranch(expected[a])'
  <2>1. PICK e : e = expected[a]
    OBVIOUS
  <2>2. OnBranch(e) => OnBranch(e)'
    BY OnTop DEF OnBranch
  <2> QED
    BY <2>1, <2>2 DEF OnBranch, Untouched
<1>3. Landed(a)' <=> Landed(a)
  BY DEF Landed, Untouched
<1>4. \A n \in Runs : AwaitsPush(a, n)' <=> AwaitsPush(a, n)
  BY DEF AwaitsPush, Untouched
<1>5. AttemptInv(a)'
  BY <1>1, <1>2, <1>3, <1>4 DEF Inv, AttemptInv, Untouched
<1>6. ASSUME NEW n \in Runs PROVE RunInv(a, n)'
  <2>1. CASE approval[a] = "none"
    <3>1. runs[a] = 0
      BY <2>1 DEF Inv, AttemptInv
    <3>2. n > runs[a]
      BY <3>1 DEF Runs
    <3>3. at[<<a, n>>] = "none" /\ push[<<a, n>>] = "idle"
      BY <3>2 DEF Inv, RunInv
    <3> QED
      BY <3>3 DEF Untouched, RunInv, BeforePush, HasRevert, HasTests, HasCommit,
         Finishing, Reconciling, AwaitsPush
  <2>2. CASE approval[a] # "none"
    <3>1. OnBranch(expected[a])
      BY <2>2 DEF Inv, AttemptInv
    <3>2. NothingToRevert(a)' <=> NothingToRevert(a)
      BY <3>1, SomethingKept DEF Untouched
    <3> QED
      BY <1>1, <1>4, <3>2 DEF Inv, Untouched, RunInv
  <2> QED
    BY <2>1, <2>2
<1> QED
  BY <1>5, <1>6 DEF Inv

\* A run that has begun is not one that is yet to come.
LEMMA Begun ==
  ASSUME TypeOK, NEW a \in Attempts, NEW n \in Runs, RunInv(a, n),
         at[<<a, n>>] # "none" \/ push[<<a, n>>] # "idle"
  PROVE  n <= runs[a] /\ runs[a] # 0 /\ runs[a] \in Runs
<1>1. ~(n > runs[a])
  BY DEF RunInv
<1>2. MaxRuns \in Nat
  BY RecoveryAssumption
<1>3. runs[a] \in 0..MaxRuns /\ n \in 1..MaxRuns
  BY DEF TypeOK, Runs
<1> QED
  BY <1>1, <1>2, <1>3 DEF Runs

\* Run n of a goes to a place that its history allows, and the rows follow.
LEMMA RunGoes ==
  ASSUME TypeOK, NEW a \in Attempts, Inv(a), NEW n \in Runs, branch' = branch,
         UNCHANGED <<expected, approval, runs, announced, push>>,
         tested \subseteq tested', recorded \subseteq recorded', confirmed \subseteq confirmed',
         a \in recorded' => a \in tested',
         a \in confirmed' => a \in recorded' /\ OnBranch(a),
         NEW place \in Places, Goes(a, n, place), at[<<a, n>>] # "none", place # "none",
         place \in BeforePush => at[<<a, n>>] \in BeforePush,
         place \in HasRevert => at[<<a, n>>] \in HasRevert \/ ~NothingToRevert(a),
         place \in HasTests => a \in tested',
         place \in HasCommit => a \in recorded',
         place \in Finishing => OnBranch(a),
         place = "confirmed" => a \in confirmed',
         status'[a] # "none",
         status'[a] \in {"pushing", "push_uncertain"} => a \in recorded',
         status'[a] = "recovered" => a \in confirmed',
         status'[a] \in Certain => ~OnBranch(a) /\ \A m \in Runs : ~AwaitsPush(a, m)
  PROVE  Inv(a)'
<1>1. /\ OnBranch(a)' <=> OnBranch(a)
      /\ OnBranch(expected[a])' <=> OnBranch(expected[a])
      /\ Landed(a)' <=> Landed(a)
      /\ \A m \in Runs : AwaitsPush(a, m)' <=> AwaitsPush(a, m)
      /\ NothingToRevert(a)' <=> NothingToRevert(a)
  BY DEF OnBranch, Landed, AwaitsPush, NothingToRevert, InEffectAt
<1>2. at'[<<a, n>>] = place /\ \A m \in Runs \ {n} : at'[<<a, m>>] = at[<<a, m>>]
  BY DEF Goes, TypeOK
<1>3. n <= runs[a] /\ runs[a] # 0
  BY Begun DEF Inv
<1>4. status[a] # "none" /\ approval[a] = "consumed"
  BY <1>3 DEF Inv, AttemptInv
<1>5. AttemptInv(a)'
  BY <1>1, <1>4 DEF Inv, AttemptInv
<1>6. RunInv(a, n)'
  BY <1>1, <1>2, <1>3 DEF Inv, RunInv, TypeOK, Runs
<1>7. ASSUME NEW m \in Runs \ {n} PROVE RunInv(a, m)'
  BY <1>1, <1>2 DEF Inv, RunInv
<1> QED
  BY <1>5, <1>6, <1>7 DEF Inv

\* What a thread finds changes while nothing of the rest does.
LEMMA ThreadGoes ==
  ASSUME TypeOK, NEW a \in Attempts, Inv(a), NEW n \in Runs,
         UNCHANGED <<expected, approval, status, runs, announced, tested, recorded,
                     confirmed, at>>,
         AwaitsPush(a, n), NEW t \in Threads \ {"idle"},
         push' = [push EXCEPT ![<<a, n>>] = t],
         \/ branch' = branch /\ t \notin {"accepted", "refused"}
         \/ branch' = branch /\ t = "refused"
         \/ branch' = Append(branch, a) /\ t \in {"accepted", "refused"}
  PROVE  Inv(a)'
<1>1. push'[<<a, n>>] = t /\ \A m \in Runs \ {n} : push'[<<a, m>>] = push[<<a, m>>]
  BY DEF TypeOK
<1>2. a \in announced /\ status[a] # "none" /\ approval[a] # "none"
  BY DEF Inv, RunInv, AttemptInv, AwaitsPush
<1>3. ~OnBranch(a)
  BY DEF Inv, AttemptInv, Landed, AwaitsPush
<1>4. OnBranch(expected[a]) /\ expected[a] # a
  BY <1>2, <1>3 DEF Inv, AttemptInv
<1>5. a \in Commits
  BY DEF Commits
<1>6. NothingToRevert(a)' <=> NothingToRevert(a)
  BY <1>4, <1>5, SomethingKept
<1>7. OnBranch(expected[a])'
  <2>1. PICK e : e = expected[a]
    OBVIOUS
  <2>2. OnBranch(e)'
    BY <1>4, <1>5, <2>1, OnTop DEF OnBranch
  <2> QED
    BY <2>1, <2>2 DEF OnBranch
<1>8. OnBranch(a) => OnBranch(a)'
  BY <1>3
<1>9. OnBranch(a)' => t \in {"accepted", "refused"}
  BY <1>3 DEF OnBranch
<1>10. status[a] \notin Certain
  BY DEF Inv, AttemptInv
<1>11. OnBranch(a)' => Landed(a)'
  BY <1>1, <1>9 DEF Landed
<1>12. \A m, k \in Runs : push'[<<a, m>>] # "idle" /\ push'[<<a, k>>] # "idle" => m = k
  BY <1>1 DEF Inv, AttemptInv, AwaitsPush
<1>13. AttemptInv(a)'
  BY <1>2, <1>3, <1>7, <1>10, <1>11, <1>12 DEF Inv, AttemptInv
<1>14. ASSUME NEW m \in Runs PROVE RunInv(a, m)'
  <2>1. at[<<a, n>>] \notin BeforePush /\ ~(n > runs[a])
    BY DEF Inv, RunInv, AwaitsPush
  <2>2. AwaitsPush(a, m)' => AwaitsPush(a, m)
    BY <1>1 DEF AwaitsPush
  <2>3. push'[<<a, m>>] = "idle" <=> push[<<a, m>>] = "idle"
    BY <1>1 DEF AwaitsPush
  <2> QED
    BY <1>2, <1>3, <1>6, <1>8, <2>1, <2>2, <2>3 DEF Inv, RunInv
<1> QED
  BY <1>13, <1>14 DEF Inv

\* A run that looks at the remote, stops or ends writes no row.
LEMMA RunLooks ==
  ASSUME TypeOK, NEW a \in Attempts, Inv(a), NEW n \in Runs,
         NEW place \in Places \ BeforePush, Goes(a, n, place), at[<<a, n>>] # "none",
         place # "none",
         UNCHANGED <<branch, people, rows, claims, push>>,
         place \in HasRevert => at[<<a, n>>] \in HasRevert,
         place \in HasTests => at[<<a, n>>] \in HasTests,
         place \in HasCommit => at[<<a, n>>] \in HasCommit,
         place \in Finishing => OnBranch(a),
         place # "confirmed"
  PROVE  Inv(a)'
<1>1. /\ UNCHANGED <<branch, expected, approval, status, runs, announced, tested, recorded,
                     confirmed, push>>
  BY DEF people, rows, claims
<1>2. RunInv(a, n) /\ AttemptInv(a)
  BY DEF Inv
<1>3. status[a] # "none"
  BY <1>2, Begun DEF AttemptInv
<1>4. /\ place \in HasTests => a \in tested
      /\ place \in HasCommit => a \in recorded
  BY <1>2 DEF RunInv
<1>5. /\ a \in recorded => a \in tested
      /\ a \in confirmed => a \in recorded /\ OnBranch(a)
      /\ status[a] \in {"pushing", "push_uncertain"} => a \in recorded
      /\ status[a] = "recovered" => a \in confirmed
      /\ status[a] \in Certain => ~OnBranch(a) /\ \A m \in Runs : ~AwaitsPush(a, m)
  BY <1>2 DEF AttemptInv
<1> QED
  BY <1>1, <1>3, <1>4, <1>5, RunGoes

\* A look that the run takes before its push.
LEMMA RunPrepares ==
  ASSUME TypeOK, NEW a \in Attempts, Inv(a), NEW n \in Runs,
         NEW place \in {"cloned", "reverted"}, Goes(a, n, place),
         at[<<a, n>>] \in BeforePush,
         UNCHANGED <<branch, people, rows, claims, push>>,
         place = "reverted" => ~NothingToRevert(a)
  PROVE  Inv(a)'
<1>1. /\ UNCHANGED <<branch, expected, approval, status, runs, announced, tested, recorded,
                     confirmed, push>>
  BY DEF people, rows, claims
<1>2. RunInv(a, n) /\ AttemptInv(a) /\ at[<<a, n>>] # "none"
  BY DEF Inv, BeforePush
<1>3. status[a] # "none"
  BY <1>2, Begun DEF AttemptInv
<1>4. /\ place \in Places /\ place # "none" /\ place # "confirmed"
      /\ place \notin HasTests /\ place \notin HasCommit /\ place \notin Finishing
      /\ place \in HasRevert => place = "reverted"
  BY DEF Places, Running, Reverting, HasTests, HasCommit, Finishing, Reconciling, HasRevert
<1>5. /\ a \in recorded => a \in tested
      /\ a \in confirmed => a \in recorded /\ OnBranch(a)
      /\ status[a] \in {"pushing", "push_uncertain"} => a \in recorded
      /\ status[a] = "recovered" => a \in confirmed
      /\ status[a] \in Certain => ~OnBranch(a) /\ \A m \in Runs : ~AwaitsPush(a, m)
  BY <1>2 DEF AttemptInv
<1> QED
  BY <1>1, <1>2, <1>3, <1>4, <1>5, RunGoes

\* A transition to a stage of the row that promises nothing.
LEMMA RunAdvances ==
  ASSUME TypeOK, NEW a \in Attempts, Inv(a), NEW n \in Runs,
         NEW from \in Running, NEW to \in Running,
         NEW s \in (SafeToRestart \cup {"verifying_remote_result"}),
         Transition(a, n, from, to, s), UNCHANGED <<announced, push>>,
         to \in BeforePush => from \in BeforePush,
         to \in HasRevert => from \in HasRevert,
         to \in HasTests => from \in HasTests,
         to \in HasCommit => from \in HasCommit,
         to \in Finishing => from \in Finishing,
         to # "confirmed"
  PROVE  Inv(a)'
<1>1. /\ UNCHANGED <<branch, expected, approval, runs, announced, tested, recorded,
                     confirmed, push>>
      /\ Goes(a, n, to) /\ at[<<a, n>>] = from
      /\ status' = [status EXCEPT ![a] = s]
  BY DEF Transition, people, claims, At
<1>2. RunInv(a, n) /\ AttemptInv(a)
  BY DEF Inv
<1>3. to \in Places /\ from # "none" /\ to # "none"
  BY DEF Places, Running, Reverting, Finishing, Reconciling
<1>4. /\ status'[a] = s
      /\ s \notin {"none", "pushing", "push_uncertain", "recovered"} \cup Certain
  BY <1>1 DEF TypeOK, SafeToRestart, Certain
<1>5. /\ to \in HasTests => a \in tested
      /\ to \in HasCommit => a \in recorded
      /\ to \in Finishing => OnBranch(a)
  BY <1>1, <1>2 DEF RunInv
<1>6. /\ a \in recorded => a \in tested
      /\ a \in confirmed => a \in recorded /\ OnBranch(a)
  BY <1>2 DEF AttemptInv
<1> QED
  BY <1>1, <1>3, <1>4, <1>5, <1>6, RunGoes

\* While nothing was announced no thread has started and nothing is on the branch.
LEMMA NothingAnnounced ==
  ASSUME NEW a \in Attempts, Inv(a), a \notin announced
  PROVE  /\ \A m \in Runs : push[<<a, m>>] = "idle" /\ ~AwaitsPush(a, m)
         /\ ~OnBranch(a)
<1>1. \A m \in Runs : push[<<a, m>>] = "idle"
  BY DEF Inv, RunInv
<1> QED
  BY <1>1 DEF Inv, AttemptInv, Landed, AwaitsPush

\* What the status of a failure says, by the place of the run and its thread.
LEMMA FailureMeans ==
  ASSUME NEW a \in Attempts, NEW n \in Runs, at[<<a, n>>] \in Running \ {"uncertain"}
  PROVE  /\ Failure(a, n) \in Certain =>
              \/ at[<<a, n>>] \in BeforePush
              \/ push[<<a, n>>] = "advanced"
         /\ Failure(a, n) \in {"pushing", "push_uncertain"} => at[<<a, n>>] \in HasCommit
         /\ Failure(a, n) # "recovered" /\ Failure(a, n) # "none"
<1>1. at[<<a, n>>] \in HasCommit \/
      at[<<a, n>>] \in {"claimed", "preparing", "cloned", "reverting", "reverted", "testing",
                        "tested", "committing"}
  BY DEF Running, Reverting, Finishing, Reconciling, HasCommit
<1> QED
  BY <1>1 DEF Failure, Certain, BeforePush

LEMMA FailKept ==
  ASSUME TypeOK, NEW a \in Attempts, Inv(a), NEW n \in Runs, Fail(a, n)
  PROVE  Inv(a)'
<1>1. /\ UNCHANGED <<branch, expected, approval, runs, announced, tested, recorded,
                     confirmed, push>>
      /\ Goes(a, n, "ended")
      /\ status' = [status EXCEPT ![a] = Failure(a, n)]
      /\ at[<<a, n>>] \in Running \ {"uncertain"} /\ ~AwaitsPush(a, n)
      /\ runs[a] = n
  BY DEF Fail, Close, people, Fence
<1>2. RunInv(a, n) /\ AttemptInv(a)
  BY DEF Inv
<1>3. status'[a] = Failure(a, n)
  BY <1>1 DEF TypeOK
<1>4. Failure(a, n) \in Certain => ~OnBranch(a) /\ \A m \in Runs : ~AwaitsPush(a, m)
  <2>1. CASE at[<<a, n>>] \in BeforePush
    BY <1>1, <1>2, <2>1, NothingAnnounced DEF RunInv
  <2>2. CASE push[<<a, n>>] = "advanced"
    <3>1. \A m \in Runs : push[<<a, m>>] \in {"idle", "advanced"}
      BY <1>2, <2>2 DEF AttemptInv
    <3> QED
      BY <1>2, <3>1 DEF AttemptInv, Landed, AwaitsPush
  <2> QED
    BY <1>1, <2>1, <2>2, FailureMeans
<1>5. Failure(a, n) \in {"pushing", "push_uncertain"} => a \in recorded
  BY <1>1, <1>2, FailureMeans DEF RunInv
<1>6. Failure(a, n) # "recovered" /\ Failure(a, n) # "none"
  BY <1>1, FailureMeans
<1>7. /\ "ended" \in Places /\ at[<<a, n>>] # "none"
      /\ "ended" \notin BeforePush \cup HasRevert \cup HasTests \cup HasCommit \cup Finishing
  BY <1>1 DEF Places, Running, Reverting, Finishing, Reconciling, BeforePush, HasRevert,
     HasTests, HasCommit
<1>8. /\ a \in recorded => a \in tested
      /\ a \in confirmed => a \in recorded /\ OnBranch(a)
  BY <1>2 DEF AttemptInv
<1> QED
  BY <1>1, <1>3, <1>4, <1>5, <1>6, <1>7, <1>8, RunGoes

LEMMA CompleteKept ==
  ASSUME TypeOK, NEW a \in Attempts, Inv(a), NEW n \in Runs, Complete(a, n)
  PROVE  Inv(a)'
<1>1. /\ UNCHANGED <<branch, expected, approval, runs, announced, tested, recorded,
                     confirmed, push>>
      /\ Goes(a, n, "ended")
      /\ status' = [status EXCEPT ![a] = "recovered"]
      /\ at[<<a, n>>] = "confirmed"
  BY DEF Complete, Close, people, At
<1>2. RunInv(a, n) /\ AttemptInv(a)
  BY DEF Inv
<1>3. status'[a] = "recovered" /\ "recovered" \notin Certain
  BY <1>1 DEF TypeOK, Certain
<1>4. a \in confirmed
  BY <1>1, <1>2 DEF RunInv
<1>5. /\ "ended" \in Places /\ at[<<a, n>>] # "none"
      /\ "ended" \notin BeforePush \cup HasRevert \cup HasTests \cup HasCommit \cup Finishing
  BY <1>1 DEF Places, Finishing, Reconciling, BeforePush, HasRevert, HasTests, HasCommit
<1>6. /\ a \in recorded => a \in tested
      /\ a \in confirmed => a \in recorded /\ OnBranch(a)
  BY <1>2 DEF AttemptInv
<1> QED
  BY <1>1, <1>3, <1>4, <1>5, <1>6, RunGoes

\* A run records its tests, its commit or what the remote shows.
LEMMA RecordKept ==
  ASSUME TypeOK, NEW a \in Attempts, Inv(a), NEW n \in Runs,
         RecordTests(a, n) \/ RecordCommit(a, n) \/ RecordRemote(a, n)
  PROVE  Inv(a)'
<1> DEFINE place == IF RecordTests(a, n) THEN "tested"
                    ELSE IF RecordCommit(a, n) THEN "committed" ELSE "confirmed"
<1>1. RunInv(a, n) /\ AttemptInv(a)
  BY DEF Inv
<1>2. /\ UNCHANGED <<branch, expected, approval, status, runs, announced, push>>
      /\ Goes(a, n, place)
      /\ place = "tested" => /\ at[<<a, n>>] = "testing" /\ tested' = tested \cup {a}
                             /\ UNCHANGED <<recorded, confirmed>>
      /\ place = "committed" => /\ at[<<a, n>>] = "committing"
                                /\ recorded' = recorded \cup {a}
                                /\ UNCHANGED <<tested, confirmed>>
      /\ place = "confirmed" => /\ at[<<a, n>>] = "finishing" /\ a \in recorded
                                /\ confirmed' = confirmed \cup {a}
                                /\ UNCHANGED <<tested, recorded>>
  <2>1. CASE RecordTests(a, n)
    <3>1. place = "tested"
      BY <2>1
    <3> HIDE DEF place
    <3> QED
      BY <2>1, <3>1 DEF RecordTests, At, people, claims
  <2>2. CASE ~RecordTests(a, n) /\ RecordCommit(a, n)
    <3>1. place = "committed"
      BY <2>2
    <3> HIDE DEF place
    <3> QED
      BY <2>2, <3>1 DEF RecordCommit, At, people, claims
  <2>3. CASE ~RecordTests(a, n) /\ ~RecordCommit(a, n)
    <3>1. place = "confirmed" /\ RecordRemote(a, n)
      BY <2>3
    <3> HIDE DEF place
    <3> QED
      BY <3>1 DEF RecordRemote, At, people, claims
  <2> QED
    BY <2>1, <2>2, <2>3
<1>3. place \in {"tested", "committed", "confirmed"}
  OBVIOUS
<1> HIDE DEF place
<1>4. at[<<a, n>>] # "none" /\ place \in Places /\ place # "none"
  BY <1>2, <1>3 DEF Places, Running, Reverting, Finishing
<1>5. tested \subseteq tested' /\ recorded \subseteq recorded' /\ confirmed \subseteq confirmed'
  BY <1>2, <1>3
<1>6. CASE place = "tested"
  <2>1. at[<<a, n>>] \in BeforePush \cap HasRevert /\ a \in tested'
    BY <1>2, <1>6 DEF BeforePush, HasRevert
  <2>2. place \notin HasCommit \cup Finishing
    BY <1>6 DEF HasCommit, Finishing, Reconciling
  <2>3. status[a] # "none"
    BY <1>1, <1>4, Begun DEF AttemptInv
  <2> QED
    BY <1>1, <1>2, <1>4, <1>5, <1>6, <2>1, <2>2, <2>3, RunGoes DEF AttemptInv
<1>7. CASE place = "committed"
  <2>1. at[<<a, n>>] \in BeforePush \cap HasRevert \cap HasTests /\ a \in recorded'
    BY <1>2, <1>7 DEF BeforePush, HasRevert, HasTests
  <2>2. place \notin Finishing /\ a \in tested'
    BY <1>1, <1>2, <1>7, <2>1 DEF Finishing, RunInv
  <2>3. status[a] # "none"
    BY <1>1, <1>4, Begun DEF AttemptInv
  <2> QED
    BY <1>1, <1>2, <1>4, <1>5, <1>7, <2>1, <2>2, <2>3, RunGoes DEF AttemptInv
<1>8. CASE place = "confirmed"
  <2>1. at[<<a, n>>] \in HasTests \cap HasCommit \cap Finishing /\ a \in confirmed'
    BY <1>2, <1>8 DEF HasTests, HasCommit, Finishing
  <2>2. place \notin BeforePush \cup HasRevert
    BY <1>8 DEF BeforePush, HasRevert
  <2>3. status[a] # "none"
    BY <1>1, <1>4, Begun DEF AttemptInv
  <2>4. a \in tested /\ a \in recorded /\ OnBranch(a)
    BY <1>1, <2>1 DEF RunInv
  <2> QED
    BY <1>1, <1>2, <1>4, <1>5, <1>8, <2>1, <2>2, <2>3, <2>4, RunGoes DEF AttemptInv
<1> QED
  BY <1>3, <1>6, <1>7, <1>8

\* The announcement is the first and only one: the run is the latest one and
\* no run of the attempt has announced a push before.
LEMMA BeginPushKept ==
  ASSUME TypeOK, NEW a \in Attempts, Inv(a), NEW n \in Runs, BeginPush(a, n)
  PROVE  Inv(a)'
<1>1. /\ UNCHANGED <<branch, expected, approval, runs, tested, recorded, confirmed>>
      /\ at[<<a, n>>] = "committed" /\ runs[a] = n
      /\ status' = [status EXCEPT ![a] = "pushing"]
      /\ at' = [at EXCEPT ![<<a, n>>] = "pushing"]
      /\ push' = [push EXCEPT ![<<a, n>>] = "checking"]
      /\ announced' = announced \cup {a}
  BY DEF BeginPush, Transition, people, claims, At, Goes, Fence
<1>2. RunInv(a, n) /\ AttemptInv(a)
  BY DEF Inv
<1>3. a \notin announced
  BY <1>1, <1>2 DEF RunInv, BeforePush
<1>4. ~OnBranch(a) /\ \A m \in Runs : push[<<a, m>>] = "idle"
  BY <1>3, NothingAnnounced
<1>5. a \in recorded /\ a \in tested /\ ~NothingToRevert(a)
  BY <1>1, <1>2 DEF RunInv, HasCommit, HasTests, HasRevert
<1>6. /\ OnBranch(a)' <=> OnBranch(a)
      /\ OnBranch(expected[a])' <=> OnBranch(expected[a])
      /\ NothingToRevert(a)' <=> NothingToRevert(a)
  BY <1>1 DEF OnBranch, NothingToRevert, InEffectAt
<1>7. /\ status'[a] = "pushing" /\ a \in announced'
      /\ at'[<<a, n>>] = "pushing" /\ push'[<<a, n>>] = "checking"
      /\ \A m \in Runs \ {n} : at'[<<a, m>>] = at[<<a, m>>] /\ push'[<<a, m>>] = "idle"
  BY <1>1, <1>4 DEF TypeOK
<1>8. n <= runs[a] /\ runs[a] # 0
  BY <1>1, <1>2, Begun
<1>9. status[a] # "none"
  BY <1>2, <1>8 DEF AttemptInv
<1>10. AttemptInv(a)'
  <2>1. \A m, k \in Runs : push'[<<a, m>>] # "idle" /\ push'[<<a, k>>] # "idle" => m = k
    BY <1>7
  <2>2. ~OnBranch(a)' /\ "pushing" \notin Certain
    BY <1>4, <1>6 DEF Certain
  <2> QED
    BY <1>1, <1>2, <1>5, <1>6, <1>7, <1>9, <2>1, <2>2 DEF AttemptInv
<1>11. RunInv(a, n)'
  <2>1. ~(n > runs[a])
    BY <1>1, <1>2 DEF RunInv
  <2> QED
    BY <1>1, <1>5, <1>6, <1>7, <2>1 DEF RunInv, BeforePush, Finishing
<1>12. ASSUME NEW m \in Runs \ {n} PROVE RunInv(a, m)'
  <2>1. RunInv(a, m)
    BY DEF Inv
  <2>2. ~AwaitsPush(a, m)'
    BY <1>7 DEF AwaitsPush
  <2> QED
    BY <1>1, <1>6, <1>7, <2>1, <2>2 DEF RunInv
<1> QED
  BY <1>10, <1>11, <1>12 DEF Inv

\* A process dies and its thread with it: what was sent can not arrive any more.
LEMMA CrashKept ==
  ASSUME TypeOK, NEW a \in Attempts, Inv(a), NEW n \in Runs, Crash(a, n)
  PROVE  Inv(a)'
<1>1. /\ UNCHANGED <<branch, expected, approval, status, runs, lease, announced, tested,
                     recorded, confirmed>>
      /\ at' = [at EXCEPT ![<<a, n>>] = "stopped"]
      /\ at[<<a, n>>] \in Running
      /\ push' = [push EXCEPT ![<<a, n>>] = IF AwaitsPush(a, n) THEN "dead" ELSE @]
  BY DEF Crash, people, rows, claims, Goes
<1>2. RunInv(a, n) /\ AttemptInv(a)
  BY DEF Inv
<1>3. at[<<a, n>>] # "none"
  BY <1>1 DEF Running, Reverting, Finishing, Reconciling
<1>4. /\ "stopped" \notin BeforePush \cup HasRevert \cup HasTests \cup HasCommit \cup Finishing
      /\ "stopped" \in Places
  BY DEF BeforePush, HasRevert, HasTests, HasCommit, Finishing, Reconciling, Places
<1>5. CASE ~AwaitsPush(a, n)
  <2>1. push' = push
    BY <1>1, <1>5 DEF TypeOK
  <2> QED
    BY <1>1, <1>3, <1>4, <2>1, RunLooks DEF Goes, people, rows, claims
<1>6. CASE AwaitsPush(a, n)
  <2>1. /\ at'[<<a, n>>] = "stopped" /\ push'[<<a, n>>] = "dead"
        /\ \A m \in Runs \ {n} : at'[<<a, m>>] = at[<<a, m>>] /\ push'[<<a, m>>] = push[<<a, m>>]
    BY <1>1, <1>6 DEF TypeOK
  <2>2. push[<<a, n>>] # "idle" /\ a \in announced /\ \A m \in Runs \ {n} : push[<<a, m>>] = "idle"
    BY <1>2, <1>6 DEF RunInv, AttemptInv, AwaitsPush
  <2>3. ~OnBranch(a) /\ status[a] \notin Certain
    BY <1>2, <1>6, <2>2 DEF AttemptInv, Landed, AwaitsPush
  <2>4. /\ OnBranch(a)' <=> OnBranch(a)
        /\ OnBranch(expected[a])' <=> OnBranch(expected[a])
        /\ NothingToRevert(a)' <=> NothingToRevert(a)
    BY <1>1 DEF OnBranch, NothingToRevert, InEffectAt
  <2>5. \A m, k \in Runs : push'[<<a, m>>] # "idle" /\ push'[<<a, k>>] # "idle" => m = k
    BY <2>1, <2>2
  <2>6. AttemptInv(a)'
    BY <1>1, <1>2, <2>3, <2>4, <2>5 DEF AttemptInv
  <2>7. n <= runs[a]
    BY <1>2, <1>3, Begun
  <2>8. RunInv(a, n)'
    <3>1. ~(n > runs[a])
      BY <1>2, <1>3 DEF RunInv
    <3> QED
      BY <1>1, <1>4, <2>1, <2>2, <3>1 DEF RunInv, AwaitsPush
  <2>9. ASSUME NEW m \in Runs \ {n} PROVE RunInv(a, m)'
    <3>1. RunInv(a, m)
      BY DEF Inv
    <3>2. AwaitsPush(a, m)' <=> AwaitsPush(a, m)
      BY <2>1 DEF AwaitsPush
    <3> QED
      BY <1>1, <2>1, <2>4, <3>1, <3>2 DEF RunInv
  <2> QED
    BY <2>6, <2>8, <2>9 DEF Inv
<1> QED
  BY <1>5, <1>6

LEMMA ThreadKept ==
  ASSUME TypeOK, NEW a \in Attempts, Inv(a), NEW n \in Runs,
         CheckHead(a, n) \/ PushLands(a, n) \/ PushFails(a, n)
  PROVE  Inv(a)'
<1>1. /\ UNCHANGED <<expected, approval, status, runs, announced, tested, recorded,
                     confirmed, at>>
      /\ AwaitsPush(a, n)
  BY DEF CheckHead, PushLands, PushFails, people, rows, claims, AwaitsPush
<1>2. CASE CheckHead(a, n)
  <2>1. PICK t \in {"sending", "advanced"} : push' = [push EXCEPT ![<<a, n>>] = t]
    BY <1>2 DEF CheckHead
  <2>2. t \in Threads \ {"idle"} /\ t \notin {"accepted", "refused"} /\ branch' = branch
    BY <1>2 DEF CheckHead, Threads
  <2> QED
    BY <1>1, <2>1, <2>2, ThreadGoes
<1>3. CASE PushLands(a, n)
  <2>1. PICK t \in {"accepted", "refused"} : push' = [push EXCEPT ![<<a, n>>] = t]
    BY <1>3 DEF PushLands
  <2>2. t \in Threads \ {"idle"} /\ branch' = Append(branch, a)
    BY <1>3 DEF PushLands, PushResults, Threads
  <2> QED
    BY <1>1, <2>1, <2>2, ThreadGoes
<1>4. CASE PushFails(a, n)
  <2>1. "refused" \in Threads \ {"idle"} /\ branch' = branch
    BY <1>4 DEF PushFails, Threads
  <2>2. push' = [push EXCEPT ![<<a, n>>] = "refused"]
    BY <1>4 DEF PushFails
  <2> QED
    BY <1>1, <2>1, <2>2, ThreadGoes
<1> QED
  BY <1>2, <1>3, <1>4

\* An attempt that was not created has no run and nothing on record.
LEMMA NotCreated ==
  ASSUME TypeOK, NEW a \in Attempts, Inv(a), status[a] = "none"
  PROVE  /\ runs[a] = 0 /\ a \notin announced /\ ~OnBranch(a)
         /\ \A n \in Runs : at[<<a, n>>] = "none" /\ push[<<a, n>>] = "idle"
<1>1. runs[a] = 0 /\ a \notin announced
  BY DEF Inv, AttemptInv
<1>2. \A n \in Runs : n > runs[a]
  BY <1>1, RecoveryAssumption DEF Runs
<1> QED
  BY <1>1, <1>2, NothingAnnounced DEF Inv, RunInv

\* What is on the branch was approved, and the approval was used up.
LEMMA OnBranchApproved ==
  ASSUME NEW a \in Attempts, Inv(a), OnBranch(a)
  PROVE  approval[a] = "consumed"
<1>1. PICK n \in Runs : push[<<a, n>>] # "idle"
  BY DEF Inv, AttemptInv, Landed
<1> QED
  BY <1>1 DEF Inv, AttemptInv, RunInv

\* The people's steps before the first run.
LEMMA PeopleKept ==
  ASSUME TypeOK, Len(branch) >= 1, NEW a \in Attempts, Inv(a),
         Assess(a) \/ Approve(a) \/ CreateAttempt(a)
  PROVE  Inv(a)'
<1>1. /\ UNCHANGED <<branch, runs, announced, tested, recorded, confirmed, at, push>>
      /\ approval[a] # "consumed"
  BY DEF Assess, Approve, CreateAttempt, people, rows, claims
<1>2. AttemptInv(a)
  BY DEF Inv
<1>3. status[a] = "none"
  BY <1>1, <1>2 DEF AttemptInv
<1>4. /\ runs[a] = 0 /\ a \notin announced /\ ~OnBranch(a)
      /\ \A n \in Runs : at[<<a, n>>] = "none" /\ push[<<a, n>>] = "idle"
  BY <1>3, NotCreated
<1>5. /\ OnBranch(a)' <=> OnBranch(a)
      /\ \A x : OnBranch(x) => \E i \in 1..Len(branch') : branch'[i] = x
  BY <1>1 DEF OnBranch
<1>6. \A n \in Runs : RunInv(a, n)'
  <2>1. "none" \notin BeforePush \cup HasRevert \cup HasTests \cup HasCommit \cup Finishing
    BY DEF BeforePush, HasRevert, HasTests, HasCommit, Finishing, Reconciling
  <2> QED
    BY <1>1, <1>4, <2>1 DEF RunInv, AwaitsPush
<1>7. approval'[a] # "none" => OnBranch(expected[a])'
  <2>1. CASE Assess(a)
    <3>1. expected'[a] = branch[Len(branch)] /\ branch' = branch
      BY <2>1 DEF Assess, RemoteHead, TypeOK
    <3>2. Len(branch) \in 1..Len(branch)
      BY DEF TypeOK
    <3> QED
      BY <3>1, <3>2 DEF OnBranch
  <2>2. CASE Approve(a) \/ CreateAttempt(a)
    <3>1. approval[a] # "none" /\ expected' = expected
      BY <2>2 DEF Approve, CreateAttempt
    <3> QED
      BY <1>1, <1>2, <3>1 DEF AttemptInv, OnBranch
  <2> QED
    BY <2>1, <2>2
<1>8. /\ status'[a] \in {"none", "queued"}
      /\ status'[a] # "none" => approval'[a] = "consumed"
  BY <1>3 DEF Assess, Approve, CreateAttempt, TypeOK, rows
<1>9. AttemptInv(a)'
  BY <1>1, <1>2, <1>4, <1>5, <1>7, <1>8 DEF AttemptInv, Certain
<1> QED
  BY <1>6, <1>9 DEF Inv

\* The run that takes over asks the remote when an earlier one has announced
\* its push, and starts over only when none has.
LEMMA ClaimKept ==
  ASSUME TypeOK, NEW a \in Attempts, Inv(a), ClaimAndLoad(a)
  PROVE  Inv(a)'
<1> PICK n : n = runs[a] + 1
  OBVIOUS
<1>1. /\ UNCHANGED <<branch, expected, approval, announced, tested, recorded, confirmed, push>>
      /\ MustReconcile(a) \/ Restartable(a)
      /\ runs' = [runs EXCEPT ![a] = n]
      /\ status' = [status EXCEPT
           ![a] = IF MustReconcile(a) THEN "push_uncertain" ELSE "claimed"]
      /\ at' = [at EXCEPT ![<<a, n>>] = IF MustReconcile(a) THEN "uncertain" ELSE "claimed"]
  BY DEF ClaimAndLoad, people
<1>2. n \in Runs /\ runs[a] \in Nat
  <2>1. runs[a] < MaxRuns
    BY RecoveryAssumption DEF ClaimAndLoad, TypeOK
  <2>2. runs[a] \in 0..MaxRuns
    BY DEF TypeOK
  <2> QED
    BY <2>1, <2>2, RecoveryAssumption DEF Runs
<1>3. AttemptInv(a) /\ RunInv(a, n)
  BY <1>2 DEF Inv
<1>4. at[<<a, n>>] = "none" /\ push[<<a, n>>] = "idle"
  BY <1>2, <1>3 DEF RunInv
<1>5. /\ MustReconcile(a) => status'[a] = "push_uncertain" /\ at'[<<a, n>>] = "uncertain"
      /\ ~MustReconcile(a) => status'[a] = "claimed" /\ at'[<<a, n>>] = "claimed"
      /\ \A m \in Runs \ {n} : at'[<<a, m>>] = at[<<a, m>>]
      /\ runs'[a] = n
  BY <1>1, <1>2 DEF TypeOK
<1>6. MustReconcile(a) => a \in recorded /\ a \in tested
  BY <1>3 DEF MustReconcile, AttemptInv
<1>7. ~MustReconcile(a) => a \notin announced
  BY <1>1 DEF MustReconcile, Restartable, SafeToRestart
<1>8. status[a] # "none" /\ approval[a] = "consumed"
  BY <1>1, <1>3 DEF MustReconcile, Restartable, SafeToRestart, AttemptInv
<1>9. /\ OnBranch(a)' <=> OnBranch(a)
      /\ OnBranch(expected[a])' <=> OnBranch(expected[a])
      /\ NothingToRevert(a)' <=> NothingToRevert(a)
      /\ \A m \in Runs : AwaitsPush(a, m)' <=> AwaitsPush(a, m)
      /\ Landed(a)' <=> Landed(a)
  BY <1>1 DEF OnBranch, NothingToRevert, InEffectAt, AwaitsPush, Landed
<1>10. AttemptInv(a)'
  <2>1. status'[a] \notin {"none", "recovered", "pushing"} \cup Certain
    BY <1>5 DEF Certain
  <2>2. status'[a] = "push_uncertain" => a \in recorded
    BY <1>5, <1>6
  <2> QED
    BY <1>1, <1>3, <1>8, <1>9, <2>1, <2>2 DEF AttemptInv
<1>11. RunInv(a, n)'
  <2>1. ~(n > runs'[a])
    BY <1>2, <1>5
  <2>2. ~AwaitsPush(a, n)' /\ push'[<<a, n>>] = "idle"
    BY <1>1, <1>4 DEF AwaitsPush
  <2>3. /\ at'[<<a, n>>] \notin HasRevert \cup Finishing
        /\ at'[<<a, n>>] \in BeforePush \cup HasTests \cup HasCommit => at'[<<a, n>>] # "confirmed"
        /\ at'[<<a, n>>] \in BeforePush => ~MustReconcile(a)
        /\ at'[<<a, n>>] \in HasTests \cup HasCommit => MustReconcile(a)
        /\ at'[<<a, n>>] # "confirmed"
    BY <1>5 DEF HasRevert, Finishing, BeforePush, HasTests, HasCommit, Reconciling
  <2> QED
    BY <1>1, <1>6, <1>7, <2>1, <2>2, <2>3 DEF RunInv
<1>12. ASSUME NEW m \in Runs \ {n} PROVE RunInv(a, m)'
  <2>1. RunInv(a, m)
    BY DEF Inv
  <2>2. m > runs'[a] => m > runs[a]
    BY <1>2, <1>5 DEF Runs
  <2> QED
    BY <1>1, <1>5, <1>9, <2>1, <2>2 DEF RunInv
<1> QED
  BY <1>10, <1>11, <1>12 DEF Inv

LEMMA LeaseExpiresKept ==
  ASSUME TypeOK, NEW a \in Attempts, Inv(a), LeaseExpires(a)
  PROVE  Inv(a)'
<1>1. Untouched(a) /\ branch' = branch
  BY DEF LeaseExpires, people, rows, Untouched
<1> QED
  BY <1>1, UntouchedKept

\* A step of the run's own worker.
LEMMA WorkerKept ==
  ASSUME TypeOK, Len(branch) >= 1, NEW a \in Attempts, Inv(a), NEW n \in Runs,
         WorkerStep(a, n) \/ Cancel(a, n) \/ Crash(a, n)
  PROVE  Inv(a)'
<1> USE DEF Running, Reverting, Finishing, Reconciling, SafeToRestart, BeforePush, HasRevert,
            HasTests, HasCommit
<1>1. CASE PrepareWorkspace(a, n)
  BY <1>1, RunAdvances DEF PrepareWorkspace
<1>2. CASE BeginRevert(a, n)
  BY <1>2, RunAdvances DEF BeginRevert
<1>3. CASE BeginTests(a, n)
  BY <1>3, RunAdvances DEF BeginTests
<1>4. CASE BeginCommit(a, n)
  BY <1>4, RunAdvances DEF BeginCommit
<1>5. CASE BeginFinish(a, n)
  BY <1>5, RunAdvances DEF BeginFinish
<1>6. CASE Clone(a, n)
  BY <1>6, RunPrepares DEF Clone, At
<1>7. CASE Revert(a, n)
  BY <1>7, RunPrepares DEF Revert, At
<1>8. CASE RecordTests(a, n) \/ RecordCommit(a, n) \/ RecordRemote(a, n)
  BY <1>8, RecordKept
<1>9. CASE BeginPush(a, n)
  BY <1>9, BeginPushKept
<1>10. CASE CheckHead(a, n) \/ PushLands(a, n) \/ PushFails(a, n)
  BY <1>10, ThreadKept
<1>11. /\ \A place \in {"ended", "stopped", "verified", "examined"} :
            place \in Places \ BeforePush /\ place # "none" /\ place # "confirmed"
  BY DEF Places
<1>12. CASE TestsCollide(a, n) \/ ExamineRaises(a, n) \/ FenceLost(a, n)
  <2>1. /\ Goes(a, n, "ended") /\ at[<<a, n>>] # "none"
        /\ UNCHANGED <<branch, people, rows, claims, push>>
    BY <1>12 DEF TestsCollide, ExamineRaises, FenceLost, At
  <2> QED
    BY <1>11, <2>1, RunLooks
<1>13. CASE Cancel(a, n)
  <2>1. /\ Goes(a, n, "stopped") /\ at[<<a, n>>] # "none"
        /\ UNCHANGED <<branch, people, rows, claims, push>>
    BY <1>13 DEF Cancel
  <2> QED
    BY <1>11, <2>1, RunLooks
<1>14. RemoteHead = a => OnBranch(a)
  <2>1. Len(branch) \in 1..Len(branch)
    BY DEF TypeOK
  <2> QED
    BY <2>1 DEF RemoteHead, OnBranch
<1>15. CASE VerifyRemote(a, n) \/ Reconcile(a, n)
  <2>1. /\ Goes(a, n, "verified") /\ at[<<a, n>>] \in {"pushing", "examined"}
        /\ UNCHANGED <<branch, people, rows, claims, push>> /\ RemoteHead = a
    BY <1>15 DEF VerifyRemote, Reconcile, At, Confirms
  <2> QED
    BY <1>11, <1>14, <2>1, RunLooks
<1>16. CASE Examine(a, n)
  <2>1. /\ Goes(a, n, "examined") /\ at[<<a, n>>] = "uncertain"
        /\ UNCHANGED <<branch, people, rows, claims, push>>
    BY <1>16 DEF Examine, At
  <2> QED
    BY <1>11, <2>1, RunLooks
<1>17. CASE Complete(a, n)
  BY <1>17, CompleteKept
<1>18. CASE Fail(a, n)
  BY <1>18, FailKept
<1>19. CASE Crash(a, n)
  BY <1>19, CrashKept
<1> QED
  BY <1>1, <1>2, <1>3, <1>4, <1>5, <1>6, <1>7, <1>8, <1>9, <1>10, <1>12, <1>13, <1>15, <1>16,
     <1>17, <1>18, <1>19 DEF WorkerStep
-----------------------------------------------------------------------------
(***************************************************************************)
(* All attempts and the branch.                                            *)
(***************************************************************************)

\* A run touches its own attempt only.
LEMMA WorkerElsewhere ==
  ASSUME TypeOK, NEW a \in Attempts, NEW n \in Runs,
         WorkerStep(a, n) \/ Cancel(a, n) \/ Crash(a, n),
         NEW b \in Attempts \ {a}
  PROVE  Untouched(b)
<1> USE DEF people, rows, claims, Untouched, TypeOK
<1>1. CASE PrepareWorkspace(a, n) \/ BeginRevert(a, n) \/ BeginTests(a, n)
           \/ BeginCommit(a, n) \/ BeginFinish(a, n)
  <2>1. PICK from, to, s : Transition(a, n, from, to, s)
    BY <1>1 DEF PrepareWorkspace, BeginRevert, BeginTests, BeginCommit, BeginFinish
  <2>2. UNCHANGED <<announced, push>>
    BY <1>1 DEF PrepareWorkspace, BeginRevert, BeginTests, BeginCommit, BeginFinish
  <2> QED
    BY <2>1, <2>2 DEF Transition, Goes
<1>2. CASE Clone(a, n) \/ Revert(a, n)
  BY <1>2 DEF Clone, Revert, Goes
<1>3. CASE RecordTests(a, n)
  BY <1>3 DEF RecordTests, Goes
<1>4. CASE RecordCommit(a, n)
  BY <1>4 DEF RecordCommit, Goes
<1>5. CASE RecordRemote(a, n)
  BY <1>5 DEF RecordRemote, Goes
<1>6. CASE BeginPush(a, n)
  BY <1>6 DEF BeginPush, Transition, Goes
<1>7. CASE CheckHead(a, n) \/ PushFails(a, n)
  BY <1>7 DEF CheckHead, PushFails
<1>8. CASE PushLands(a, n)
  BY <1>8 DEF PushLands
<1>9. CASE \/ TestsCollide(a, n) \/ ExamineRaises(a, n) \/ FenceLost(a, n) \/ Cancel(a, n)
           \/ VerifyRemote(a, n) \/ Examine(a, n) \/ Reconcile(a, n)
  BY <1>9 DEF TestsCollide, ExamineRaises, FenceLost, Cancel, VerifyRemote, Examine, Reconcile,
     Goes
<1>10. CASE Complete(a, n) \/ Fail(a, n)
  <2>1. PICK s : Close(a, n, s)
    BY <1>10 DEF Complete, Fail
  <2> QED
    BY <2>1 DEF Close, Goes
<1>11. CASE Crash(a, n)
  BY <1>11 DEF Crash, Goes
<1> QED
  BY <1>1, <1>2, <1>3, <1>4, <1>5, <1>6, <1>7, <1>8, <1>9, <1>10, <1>11 DEF WorkerStep

\* A run leaves the branch alone but for its push, which finds the approved head.
LEMMA WorkerBranch ==
  ASSUME NEW a \in Attempts, NEW n \in Runs,
         WorkerStep(a, n) \/ Cancel(a, n) \/ Crash(a, n)
  PROVE  /\ UNCHANGED <<expected, approval>>
         /\ \/ branch' = branch
            \/ /\ PushLands(a, n)
               /\ branch' = Append(branch, a) /\ RemoteHead = expected[a]
<1> USE DEF people
<1>1. CASE PushLands(a, n)
  BY <1>1 DEF PushLands, PushResults
<1>2. CASE ~PushLands(a, n)
  BY <1>2 DEF WorkerStep, PrepareWorkspace, Clone, BeginRevert, Revert, BeginTests, RecordTests,
     TestsCollide, BeginCommit, RecordCommit, BeginPush, CheckHead, PushFails, VerifyRemote,
     Examine, ExamineRaises, Reconcile, BeginFinish, RecordRemote, Complete, Fail, FenceLost,
     Close, Transition, Cancel, Crash
<1> QED
  BY <1>1, <1>2

LEMMA PeopleElsewhere ==
  ASSUME TypeOK, NEW a \in Attempts,
         Assess(a) \/ Approve(a) \/ CreateAttempt(a) \/ ClaimAndLoad(a) \/ LeaseExpires(a),
         NEW b \in Attempts \ {a}
  PROVE  Untouched(b)
<1> USE DEF people, rows, claims, Untouched, TypeOK
<1>1. CASE Assess(a) \/ Approve(a) \/ CreateAttempt(a) \/ LeaseExpires(a)
  BY <1>1 DEF Assess, Approve, CreateAttempt, LeaseExpires
<1>2. CASE ClaimAndLoad(a)
  BY <1>2 DEF ClaimAndLoad
<1> QED
  BY <1>1, <1>2

\* While a thread of a is about to push, its commit is not on the branch.
LEMMA NotYetLanded ==
  ASSUME NEW a \in Attempts, Inv(a), NEW n \in Runs, AwaitsPush(a, n)
  PROVE  ~OnBranch(a) /\ ~NothingToRevert(a) /\ approval[a] = "consumed"
<1>1. push[<<a, n>>] # "idle" /\ push[<<a, n>>] \notin {"accepted", "refused"}
  BY DEF AwaitsPush
<1>2. \A m \in Runs \ {n} : push[<<a, m>>] = "idle"
  BY <1>1 DEF Inv, AttemptInv
<1>3. ~Landed(a)
  BY <1>1, <1>2 DEF Landed
<1> QED
  BY <1>1, <1>3 DEF Inv, AttemptInv, RunInv

LEMMA AttemptsStep ==
  ASSUME RecoveryInv, [Next]_vars
  PROVE  AttemptsInv'
<1>1. TypeOK /\ Len(branch) >= 1 /\ \A a \in Attempts : Inv(a)
  BY DEF RecoveryInv, BranchInv, AttemptsInv, Inv
<1> SUFFICES ASSUME NEW b \in Attempts PROVE Inv(b)'
  BY DEF AttemptsInv, Inv
<1>2. CASE UNCHANGED vars
  <2>1. Untouched(b) /\ branch' = branch
    BY <1>2 DEF vars, people, rows, claims, Untouched
  <2> QED
    BY <1>1, <2>1, UntouchedKept
<1>3. ASSUME NEW a \in Attempts,
             Assess(a) \/ Approve(a) \/ CreateAttempt(a) \/ ClaimAndLoad(a) \/ LeaseExpires(a)
      PROVE  Inv(b)'
  <2>1. CASE b = a
    BY <1>1, <1>3, <2>1, PeopleKept, ClaimKept, LeaseExpiresKept
  <2>2. CASE b # a
    <3>1. Untouched(b)
      BY <1>1, <1>3, <2>2, PeopleElsewhere
    <3>2. branch' = branch
      BY <1>3 DEF Assess, Approve, CreateAttempt, ClaimAndLoad, LeaseExpires
    <3> QED
      BY <1>1, <3>1, <3>2, UntouchedKept
  <2> QED
    BY <2>1, <2>2
<1>4. ASSUME NEW a \in Attempts, NEW n \in Runs,
             WorkerStep(a, n) \/ Cancel(a, n) \/ Crash(a, n)
      PROVE  Inv(b)'
  <2>1. CASE b = a
    BY <1>1, <1>4, <2>1, WorkerKept
  <2>2. CASE b # a
    <3>1. Untouched(b)
      BY <1>1, <1>4, <2>2, WorkerElsewhere
    <3>2. branch' = branch \/ (a \in Commits \ {b} /\ ~OnBranch(a) /\ branch' = Append(branch, a))
      <4>1. PushLands(a, n) => AwaitsPush(a, n)
        BY DEF PushLands, AwaitsPush
      <4>2. PushLands(a, n) => ~OnBranch(a)
        BY <1>1, <4>1, NotYetLanded
      <4> QED
        BY <1>4, <2>2, <4>2, WorkerBranch DEF Commits
    <3> QED
      BY <1>1, <3>1, <3>2, UntouchedKept
  <2> QED
    BY <2>1, <2>2
<1>5. ASSUME NEW c \in Foreign, PushByOthers(c) PROVE Inv(b)'
  <2>1. Untouched(b)
    BY <1>5 DEF PushByOthers, people, rows, claims, Untouched
  <2>2. c \in Commits \ {b} /\ ~OnBranch(c) /\ branch' = Append(branch, c)
    BY <1>5, RecoveryAssumption DEF PushByOthers, Commits
  <2> QED
    BY <1>1, <2>1, <2>2, UntouchedKept
<1> QED
  BY <1>2, <1>3, <1>4, <1>5 DEF Next

\* The head that an approval names does not change once it was given.
LEMMA ExpectedKept ==
  ASSUME TypeOK, [Next]_vars, NEW a \in Attempts, approval[a] # "none"
  PROVE  expected'[a] = expected[a]
<1>1. CASE UNCHANGED vars
  BY <1>1 DEF vars, people
<1>2. ASSUME NEW b \in Attempts,
             Assess(b) \/ Approve(b) \/ CreateAttempt(b) \/ ClaimAndLoad(b) \/ LeaseExpires(b)
      PROVE  expected'[a] = expected[a]
  BY <1>2 DEF Assess, Approve, CreateAttempt, ClaimAndLoad, LeaseExpires, people, TypeOK
<1>3. ASSUME NEW b \in Attempts, NEW n \in Runs,
             WorkerStep(b, n) \/ Cancel(b, n) \/ Crash(b, n)
      PROVE  expected'[a] = expected[a]
  BY <1>3, WorkerBranch
<1>4. ASSUME NEW c \in Foreign, PushByOthers(c) PROVE expected'[a] = expected[a]
  BY <1>4 DEF PushByOthers, people
<1> QED
  BY <1>1, <1>2, <1>3, <1>4 DEF Next

\* What a step does to the branch.
LEMMA BranchMoves ==
  ASSUME RecoveryInv, [Next]_vars
  PROVE  \/ branch' = branch
         \/ \E c \in Foreign : PushByOthers(c)
         \/ \E a \in Attempts, n \in Runs :
              /\ PushLands(a, n) /\ branch' = Append(branch, a) /\ RemoteHead = expected[a]
<1>1. CASE UNCHANGED vars
  BY <1>1 DEF vars
<1>2. CASE Next
  <2>1. ASSUME NEW b \in Attempts,
               Assess(b) \/ Approve(b) \/ CreateAttempt(b) \/ ClaimAndLoad(b) \/ LeaseExpires(b)
        PROVE  branch' = branch
    BY <2>1 DEF Assess, Approve, CreateAttempt, ClaimAndLoad, LeaseExpires
  <2> QED
    BY <1>2, <2>1, WorkerBranch DEF Next
<1> QED
  BY <1>1, <1>2

LEMMA BranchStep ==
  ASSUME RecoveryInv, [Next]_vars
  PROVE  BranchInv'
<1>1. /\ TypeOK /\ Len(branch) >= 1 /\ branch[1] = Target
      /\ LandsOnApprovedHead /\ \A a \in Attempts : Inv(a)
  BY DEF RecoveryInv, BranchInv, AttemptsInv, Inv
<1>2. branch \in Seq(Commits) /\ Len(branch) \in Nat
  BY <1>1 DEF TypeOK
<1>3. ASSUME NEW i \in 1..Len(branch), branch[i] \in Attempts
      PROVE  i > 1 /\ branch[i - 1] = expected'[branch[i]]
  <2>1. OnBranch(branch[i])
    BY DEF OnBranch
  <2>2. approval[branch[i]] = "consumed"
    BY <1>1, <1>3, <2>1, OnBranchApproved
  <2>3. expected'[branch[i]] = expected[branch[i]]
    BY <1>1, <1>3, <2>2, ExpectedKept
  <2> QED
    BY <1>1, <1>3, <2>3 DEF LandsOnApprovedHead
<1>4. CASE branch' = branch
  BY <1>1, <1>3, <1>4 DEF BranchInv, LandsOnApprovedHead
<1>5. ASSUME NEW c \in Commits, branch' = Append(branch, c),
             c \in Attempts => branch[Len(branch)] = expected'[c]
      PROVE  BranchInv'
  <2>1. /\ Len(branch') = Len(branch) + 1
        /\ \A i \in 1..Len(branch) : branch'[i] = branch[i]
        /\ branch'[Len(branch) + 1] = c
    BY <1>2, <1>5, AppendFacts
  <2>2. Len(branch') >= 1 /\ branch'[1] = Target
    BY <1>1, <1>2, <2>1
  <2>3. ASSUME NEW i \in 1..Len(branch'), branch'[i] \in Attempts
        PROVE  i > 1 /\ branch'[i - 1] = expected'[branch'[i]]
    <3>1. CASE i \in 1..Len(branch)
      <4>1. i > 1 /\ branch[i - 1] = expected'[branch[i]]
        BY <1>3, <2>1, <2>3, <3>1
      <4>2. i - 1 \in 1..Len(branch)
        BY <1>2, <3>1, <4>1
      <4> QED
        BY <2>1, <3>1, <4>1, <4>2
    <3>2. CASE i = Len(branch) + 1
      <4>1. branch'[i] = c /\ i - 1 = Len(branch) /\ i - 1 \in 1..Len(branch)
        BY <1>1, <1>2, <2>1, <3>2
      <4> QED
        BY <1>1, <1>2, <1>5, <2>1, <2>3, <3>2, <4>1
    <3> QED
      BY <1>2, <2>1, <3>1, <3>2
  <2> QED
    BY <2>2, <2>3 DEF BranchInv, LandsOnApprovedHead
<1>6. ASSUME NEW c \in Foreign, PushByOthers(c) PROVE BranchInv'
  <2>1. c \in Commits /\ c \notin Attempts /\ branch' = Append(branch, c)
    BY <1>6, RecoveryAssumption DEF Commits, PushByOthers
  <2> QED
    BY <1>5, <2>1
<1>7. ASSUME NEW a \in Attempts, NEW n \in Runs, PushLands(a, n),
             branch' = Append(branch, a), RemoteHead = expected[a]
      PROVE  BranchInv'
  <2>1. a \in Commits /\ expected'[a] = expected[a]
    BY <1>7 DEF Commits, PushLands, people
  <2> QED
    BY <1>5, <1>7, <2>1 DEF RemoteHead
<1> QED
  BY <1>4, <1>6, <1>7, BranchMoves
-----------------------------------------------------------------------------
(***************************************************************************)
(* The inductive invariant.                                                *)
(***************************************************************************)

LEMMA InvInit == Init => RecoveryInv
<1> SUFFICES ASSUME Init PROVE RecoveryInv
  OBVIOUS
<1>1. TypeOK
  BY TypeInit
<1>2. branch = <<Target>> /\ Len(branch) = 1 /\ branch[1] = Target
  BY DEF Init
<1>3. BranchInv
  BY <1>2, RecoveryAssumption DEF BranchInv, LandsOnApprovedHead
<1>4. ASSUME NEW a \in Attempts PROVE ~OnBranch(a)
  BY <1>2, <1>4, RecoveryAssumption DEF OnBranch
<1>5. ASSUME NEW a \in Attempts PROVE AttemptInv(a)
  BY <1>4, <1>5 DEF Init, AttemptInv, Certain
<1>6. ASSUME NEW a \in Attempts, NEW n \in Runs PROVE RunInv(a, n)
  <2>1. at[<<a, n>>] = "none" /\ push[<<a, n>>] = "idle"
    BY DEF Init
  <2> QED
    BY <2>1 DEF RunInv, BeforePush, HasRevert, HasTests, HasCommit, Finishing, Reconciling,
       AwaitsPush
<1> QED
  BY <1>1, <1>3, <1>5, <1>6 DEF RecoveryInv, AttemptsInv

LEMMA InvStep == RecoveryInv /\ [Next]_vars => RecoveryInv'
<1> SUFFICES ASSUME RecoveryInv, [Next]_vars PROVE RecoveryInv'
  OBVIOUS
<1>1. TypeOK'
  BY TypeStep DEF RecoveryInv, BranchInv
<1> QED
  BY <1>1, AttemptsStep, BranchStep DEF RecoveryInv

\* In every reachable state the rows of an attempt agree with its runs, its
\* threads and the branch, and of all its runs at most one has ever pushed.
THEOREM RecoveryInvariant == Spec => []RecoveryInv
  BY InvInit, InvStep, PTL DEF Spec

\* Recovery stays within its types, whatever runs, threads and people do.
THEOREM RecoveryTyped == Spec => []TypeOK
<1>1. RecoveryInv => TypeOK
  BY DEF RecoveryInv
<1> QED
  BY <1>1, RecoveryInvariant, PTL

\* RestrictedPusher: the revert of an attempt sits on the head its approval
\* names, for any number of attempts and pushes of other people.
THEOREM AlwaysLandsOnApprovedHead == Spec => []LandsOnApprovedHead
<1>1. RecoveryInv => LandsOnApprovedHead
  BY DEF RecoveryInv, BranchInv
<1> QED
  BY <1>1, RecoveryInvariant, PTL

\* store.fail: a failure that is called certain left nothing on the branch and
\* no thread that could still push, also when the answer of a push was lost.
THEOREM FailureIsAlwaysCertain == Spec => []FailureIsCertain
<1>1. RecoveryInv => FailureIsCertain
  BY DEF RecoveryInv, AttemptsInv, AttemptInv, FailureIsCertain
<1> QED
  BY <1>1, RecoveryInvariant, PTL

\* complete: a recovered attempt has its tests and its remote verification, and
\* the commit that was verified is on the branch.
THEOREM RecoveredIsAlwaysTrue == Spec => []RecoveredIsTrue
<1>1. RecoveryInv => RecoveredIsTrue
  BY DEF RecoveryInv, AttemptsInv, AttemptInv, RecoveredIsTrue, TypeOK
<1> QED
  BY <1>1, RecoveryInvariant, PTL

\* claim_and_load sends a run to _reconcile_only only with a commit to look for.
THEOREM UncertainAlwaysHasCommit == Spec => []UncertainHasCommit
<1>1. RecoveryInv => UncertainHasCommit
  BY DEF RecoveryInv, AttemptsInv, AttemptInv, UncertainHasCommit, MustReconcile
<1> QED
  BY <1>1, RecoveryInvariant, PTL
-----------------------------------------------------------------------------
(***************************************************************************)
(* The abstract specification: a branch on which a change is reverted only *)
(* when that was granted and only while the change is in effect.           *)
(***************************************************************************)

Granted == {a \in Attempts : approval[a] = "consumed"}

LEMMA LedgerInit == Init => Ledger!Init
<1> SUFFICES ASSUME Init PROVE Ledger!Init
  OBVIOUS
<1>1. branch = <<Target>> /\ Granted = {}
  BY DEF Init, Granted
<1> QED
  BY <1>1 DEF Ledger!Init, Granted

\* While there is something to revert at the approved head, and that is still
\* the head, the change is in effect on the branch.
LEMMA EffectAtHead ==
  ASSUME TypeOK, Len(branch) >= 1, NEW a \in Attempts,
         RemoteHead = expected[a], ~NothingToRevert(a)
  PROVE  Ledger!InEffect
<1>1. Len(branch) \in 1..Len(branch)
  BY DEF TypeOK
<1>2. InEffectAt(Len(branch))
  BY <1>1 DEF NothingToRevert, RemoteHead
<1> QED
  BY <1>2 DEF InEffectAt, Ledger!InEffect

LEMMA LedgerStep ==
  ASSUME RecoveryInv, [Next]_vars
  PROVE  [Ledger!Next]_(Ledger!ledgerVars)
<1> USE DEF Ledger!Next, Ledger!ledgerVars
<1>1. /\ TypeOK /\ Len(branch) >= 1 /\ \A a \in Attempts : Inv(a)
  BY DEF RecoveryInv, BranchInv, AttemptsInv, Inv
<1>2. ASSUME NEW a \in Attempts, CreateAttempt(a) PROVE Ledger!Grant(a)
  <2>1. branch' = branch /\ approval' = [approval EXCEPT ![a] = "consumed"]
    BY <1>2 DEF CreateAttempt
  <2>2. \A b \in Attempts : approval'[b] = "consumed" <=> (approval[b] = "consumed" \/ b = a)
    BY <1>1, <2>1 DEF TypeOK
  <2>3. {b \in Attempts : approval'[b] = "consumed"}
          = {b \in Attempts : approval[b] = "consumed"} \cup {a}
    BY <2>2
  <2> QED
    BY <2>1, <2>3 DEF Ledger!Grant
<1>3. ASSUME NEW c \in Foreign, PushByOthers(c) PROVE Ledger!Other(c)
  BY <1>3 DEF PushByOthers, people, OnBranch, Ledger!Other, Ledger!Logged
<1>4. ASSUME NEW a \in Attempts, NEW n \in Runs, PushLands(a, n) PROVE Ledger!Revert(a)
  <2>1. /\ branch' = Append(branch, a) /\ RemoteHead = expected[a]
        /\ AwaitsPush(a, n) /\ approval' = approval
    BY <1>4 DEF PushLands, PushResults, AwaitsPush, people
  <2>2. ~OnBranch(a) /\ ~NothingToRevert(a) /\ approval[a] = "consumed"
    BY <1>1, <2>1, NotYetLanded
  <2>3. Ledger!InEffect
    BY <1>1, <2>1, <2>2, EffectAtHead
  <2> QED
    BY <2>1, <2>2, <2>3 DEF Ledger!Revert, Ledger!Logged, OnBranch
<1>5. ASSUME NEW a \in Attempts, Assess(a) \/ Approve(a)
      PROVE  UNCHANGED Ledger!ledgerVars
  <2>1. branch' = branch
    BY <1>5 DEF Assess, Approve
  <2>2. \A b \in Attempts : approval'[b] = "consumed" <=> approval[b] = "consumed"
    BY <1>1, <1>5 DEF Assess, Approve, TypeOK
  <2> QED
    BY <2>1, <2>2
<1>6. ASSUME NEW a \in Attempts, ClaimAndLoad(a) \/ LeaseExpires(a)
      PROVE  UNCHANGED Ledger!ledgerVars
  BY <1>6 DEF ClaimAndLoad, LeaseExpires, people
<1>7. ASSUME NEW a \in Attempts, NEW n \in Runs, ~PushLands(a, n),
             WorkerStep(a, n) \/ Cancel(a, n) \/ Crash(a, n)
      PROVE  UNCHANGED Ledger!ledgerVars
  BY <1>7, WorkerBranch
<1>8. CASE UNCHANGED vars
  BY <1>8 DEF vars, people
<1> QED
  BY <1>2, <1>3, <1>4, <1>5, <1>6, <1>7, <1>8 DEF Next

\* Approvals, runs, threads and other people's pushes implement a branch to
\* which a revert is added only once, when granted and when there is something
\* to revert.
THEOREM RecoveryKeepsRollbackLedger == Spec => KeepsRollbackLedger
<1>1. RecoveryInv /\ [Next]_vars => [Ledger!Next]_(Ledger!ledgerVars)
  BY LedgerStep
<1> QED
  BY <1>1, LedgerInit, RecoveryInvariant, PTL DEF Spec, KeepsRollbackLedger, Ledger!Spec
=============================================================================
