--------------------------- MODULE JobQueueProofs ---------------------------
(***************************************************************************)
(* Theorems about JobQueue, for every set of workers and jobs, every       *)
(* budget, lease time and clock skew.                                      *)
(***************************************************************************)
EXTENDS JobQueue, TLAPS

\* One row of the jobs table: what its status says of its lease and counters.
JobInv(j) ==
  /\ job[j].status = "leased" <=> job[j].owner # NoWorker
  /\ job[j].status = "leased" => job[j].attempts > 0
  /\ job[j].version = job[j].attempts
  /\ job[j].attempts <= MaxAttempts[j]
  /\ job[j].status \in Waiting => job[j].attempts < MaxAttempts[j]
  /\ job[j].status = "absent" => job[j].attempts = 0
  /\ job[j].status = "dead_letter" =>
       job[j].attempts > 0 /\ (Exhausted(j) \/ attempt[j][job[j].attempts].status = "failed")

\* The attempts of one job: numbered without gaps, and open only under a lease.
AttemptInv(j) ==
  \A n \in AttemptNumbers :
    /\ n <= job[j].attempts => attempt[j][n].version = n /\ attempt[j][n].status # "none"
    /\ n > job[j].attempts => attempt[j][n] = NoAttempt
    /\ attempt[j][n].status = "running" <=> job[j].status = "leased" /\ n = job[j].attempts
    /\ attempt[j][n].status = "running" => attempt[j][n].worker = job[j].owner

QueueInv == TypeOK /\ \A j \in Jobs : JobInv(j) /\ AttemptInv(j)
-----------------------------------------------------------------------------
(***************************************************************************)
(* The operators of the repository.                                        *)
(***************************************************************************)

\* A retry delay is never negative: RetryPolicy.delay is capped from both sides.
LEMMA DelayNat == \A r : Delay(r) \in Nat
  BY QueueAssumption DEF Delay

LEMMA OffsetsInt == Offsets \subseteq Int
  BY QueueAssumption DEF Offsets

LEMMA SkewInt == -Skew \in Int
  BY QueueAssumption

LEMMA LimitNat ==
  /\ AttemptLimit \in Nat
  /\ \A j \in Jobs : MaxAttempts[j] \in 1..AttemptLimit
  BY QueueAssumption

\* The row a job has after it gave up its lease is a well-formed row.
LEMMA ReleasedRow ==
  ASSUME TypeOK, NEW j \in Jobs, NEW r \in BOOLEAN
  PROVE  Released(j, r) \in JobRows
<1>1. job[j] \in JobRows
  BY DEF TypeOK
<1>2. CASE r /\ ~Exhausted(j)
  <2>1. [job[j] EXCEPT !.status = "retry_wait", !.owner = NoWorker,
                       !.retries = @ + 1] \in JobRows
    <3>1. job[j].retries + 1 \in Nat
      BY <1>1 DEF JobRows
    <3>2. \A n \in Nat : [job[j] EXCEPT !.status = "retry_wait", !.owner = NoWorker,
                                        !.retries = n] \in JobRows
      BY <1>1 DEF JobRows, Waiting
    <3>3. QED
      BY <3>1, <3>2
  <2>2. QED
    BY <1>2, <2>1, Zenon DEF Released
<1>3. CASE ~(r /\ ~Exhausted(j))
  <2>1. [job[j] EXCEPT !.status = "dead_letter", !.owner = NoWorker] \in JobRows
    BY <1>1 DEF JobRows, Terminal
  <2>2. QED
    BY <1>3, <2>1, Zenon DEF Released
<1>4. QED
  BY <1>2, <1>3

\* Closing or abandoning attempts keeps the table well formed.
LEMMA ClosedRows ==
  ASSUME TypeOK, NEW j \in Jobs, NEW v,
         NEW outcome \in {"succeeded", "failed", "timed_out"}
  PROVE  /\ Closed(j, v, outcome) \in [AttemptNumbers -> AttemptRows]
         /\ Abandoned(j) \in [AttemptNumbers -> AttemptRows]
<1>1. \A n \in AttemptNumbers : attempt[j][n] \in AttemptRows
  BY DEF TypeOK
<1>2. \A n \in AttemptNumbers : \A s \in {"succeeded", "failed", "timed_out", "abandoned"} :
        [attempt[j][n] EXCEPT !.status = s] \in AttemptRows
  BY <1>1 DEF AttemptRows
<1>3. QED
  BY <1>1, <1>2 DEF Closed, Abandoned

LEMMA FreeState == \A pc \in {"down", "idle"} : Free(pc) \in WorkerStates
  BY DEF Free, WorkerStates

\* A worker that passes the fence holds an existing job.
LEMMA FenceJob ==
  ASSUME NEW w \in Workers, NEW o, Fence(w, o)
  PROVE  worker[w].job \in Jobs
  BY DEF Fence
-----------------------------------------------------------------------------
(***************************************************************************)
(* Type correctness.                                                       *)
(***************************************************************************)
LEMMA TypeInit == Init => TypeOK
<1> SUFFICES ASSUME Init PROVE TypeOK
  OBVIOUS
<1>1. job \in [Jobs -> JobRows]
  BY DEF Init, JobRows
<1>2. ttl \in [Jobs -> Int] /\ wait \in [Jobs -> Int]
  BY QueueAssumption DEF Init
<1>3. attempt \in [Jobs -> [AttemptNumbers -> AttemptRows]]
  BY DEF Init, NoAttempt, AttemptRows
<1>4. worker \in [Workers -> WorkerStates]
  BY FreeState DEF Init
<1>5. QED
  BY <1>1, <1>2, <1>3, <1>4 DEF TypeOK

LEMMA TypeRecovery ==
  ASSUME TypeOK, NEW o \in Offsets, Recovery(o)
  PROVE  /\ job' \in [Jobs -> JobRows]
         /\ ttl' \in [Jobs -> Int]
         /\ wait' \in [Jobs -> Int]
         /\ attempt' \in [Jobs -> [AttemptNumbers -> AttemptRows]]
<1>1. job' \in [Jobs -> JobRows]
  BY ReleasedRow DEF Recovery, TypeOK
<1>2. ttl' \in [Jobs -> Int]
  BY QueueAssumption DEF Recovery, TypeOK
<1>3. wait' \in [Jobs -> Int]
  <2>1. \A r : Delay(r) + o \in Int
    BY DelayNat, OffsetsInt
  <2>2. QED
    BY <2>1 DEF Recovery, TypeOK
<1>4. attempt' \in [Jobs -> [AttemptNumbers -> AttemptRows]]
  BY ClosedRows DEF Recovery, TypeOK
<1>5. QED
  BY <1>1, <1>2, <1>3, <1>4

\* A step of one worker's memory to a well-formed state.
LEMMA TypeWorker ==
  ASSUME TypeOK, NEW w \in Workers, NEW s \in WorkerStates,
         worker' = [worker EXCEPT ![w] = s]
  PROVE  worker' \in [Workers -> WorkerStates]
  BY DEF TypeOK

LEMMA TypeRaised ==
  ASSUME TypeOK, NEW w \in Workers, NEW v \in Verdicts,
         worker' = [worker EXCEPT ![w].pc = "raised", ![w].verdict = v]
  PROVE  worker' \in [Workers -> WorkerStates]
<1>1. [worker[w] EXCEPT !.pc = "raised", !.verdict = v] \in WorkerStates
  BY DEF TypeOK, WorkerStates
<1>2. worker' = [worker EXCEPT ![w] = [worker[w] EXCEPT !.pc = "raised", !.verdict = v]]
  BY DEF TypeOK, WorkerStates
<1>3. QED
  BY <1>1, <1>2, TypeWorker

LEMMA TypeClaim ==
  ASSUME TypeOK, NEW w \in Workers, NEW j \in Jobs, ClaimNext(w, j)
  PROVE  TypeOK'
<1>0. job[j] \in JobRows /\ job[j].attempts + 1 \in AttemptNumbers
  <2>1. job[j] \in JobRows
    BY DEF TypeOK
  <2>2. job[j].attempts \in Nat /\ job[j].attempts < MaxAttempts[j]
    BY <2>1 DEF ClaimNext, FirstClaimable, Claimable, JobRows
  <2>3. QED
    BY <2>1, <2>2, LimitNat DEF AttemptNumbers
<1>1. job' \in [Jobs -> JobRows]
  <2>1. \A v, a \in Nat : [job[j] EXCEPT !.status = "leased", !.owner = w,
                                        !.version = v, !.attempts = a] \in JobRows
    BY <1>0 DEF JobRows
  <2>2. job[j].version + 1 \in Nat /\ job[j].attempts + 1 \in Nat
    BY <1>0 DEF JobRows
  <2>3. job' = [job EXCEPT ![j] = [job[j] EXCEPT !.status = "leased", !.owner = w,
                  !.version = job[j].version + 1, !.attempts = job[j].attempts + 1]]
    BY <1>0 DEF ClaimNext, TypeOK, JobRows
  <2>4. QED
    BY <2>1, <2>2, <2>3 DEF TypeOK
<1>2. ttl' \in [Jobs -> Int]
  BY QueueAssumption, OffsetsInt DEF ClaimNext, TypeOK
<1>3. attempt' \in [Jobs -> [AttemptNumbers -> AttemptRows]]
  <2>1. [status |-> "running", worker |-> w, version |-> job[j].version + 1] \in AttemptRows
    BY <1>0 DEF AttemptRows, JobRows
  <2>2. QED
    BY <1>0, <2>1 DEF ClaimNext, TypeOK
<1>4. worker' \in [Workers -> WorkerStates]
  <2>1. [pc |-> "executing", job |-> j, version |-> job[j].version + 1,
         retries |-> job[j].retries, beating |-> TRUE, lost |-> FALSE,
         verdict |-> "none"] \in WorkerStates
    BY <1>0 DEF WorkerStates, JobRows
  <2>2. QED
    BY <2>1, TypeWorker DEF ClaimNext
<1>5. QED
  BY <1>1, <1>2, <1>3, <1>4 DEF ClaimNext, TypeOK

LEMMA TypeMarkSucceeded ==
  ASSUME TypeOK, NEW w \in Workers, MarkSucceeded(w)
  PROVE  TypeOK'
<1> DEFINE j == worker[w].job
<1>1. j \in Jobs
  BY FenceJob DEF MarkSucceeded
<1>2. job' \in [Jobs -> JobRows]
  <2>1. [job[j] EXCEPT !.status = "succeeded", !.owner = NoWorker] \in JobRows
    BY <1>1 DEF TypeOK, JobRows, Terminal
  <2>2. job' = [job EXCEPT ![j] = [job[j] EXCEPT !.status = "succeeded", !.owner = NoWorker]]
    BY <1>1 DEF MarkSucceeded, TypeOK, JobRows
  <2>3. QED
    BY <1>1, <2>1, <2>2 DEF TypeOK
<1>3. ttl' \in [Jobs -> Int]
  BY <1>1, SkewInt DEF MarkSucceeded, TypeOK
<1>4. attempt' \in [Jobs -> [AttemptNumbers -> AttemptRows]]
  BY <1>1, ClosedRows DEF MarkSucceeded, TypeOK
<1>5. worker' \in [Workers -> WorkerStates]
  <2>1. CASE worker' = [worker EXCEPT ![w] = Free("idle")]
    BY <2>1, FreeState, TypeWorker
  <2>2. CASE \E v \in Verdicts : worker' = [worker EXCEPT ![w].pc = "raised", ![w].verdict = v]
    BY <2>2, TypeRaised
  <2>3. QED
    BY <2>1, <2>2 DEF MarkSucceeded
<1>6. QED
  BY <1>2, <1>3, <1>4, <1>5 DEF MarkSucceeded, TypeOK

LEMMA TypeMarkFailed ==
  ASSUME TypeOK, NEW w \in Workers, MarkFailed(w)
  PROVE  TypeOK'
<1> DEFINE j == worker[w].job
<1>1. j \in Jobs
  BY FenceJob DEF MarkFailed
<1>2. job' \in [Jobs -> JobRows]
  BY <1>1, ReleasedRow DEF MarkFailed, TypeOK
<1>3. ttl' \in [Jobs -> Int]
  BY <1>1, SkewInt DEF MarkFailed, TypeOK
<1>4. wait' \in [Jobs -> Int]
  <2>1. PICK o \in Offsets :
          wait' = IF worker[w].verdict # "fatal" /\ ~Exhausted(j)
                    THEN [wait EXCEPT ![j] = Delay(worker[w].retries + 1) + o]
                    ELSE wait
    BY DEF MarkFailed
  <2>2. Delay(worker[w].retries + 1) + o \in Int
    <3>1. Delay(worker[w].retries + 1) \in Nat /\ o \in Int
      BY DelayNat, OffsetsInt
    <3>2. QED
      BY <3>1
  <2>3. wait \in [Jobs -> Int]
    BY DEF TypeOK
  <2>4. QED
    BY <2>1, <2>2, <2>3
<1>5. attempt' \in [Jobs -> [AttemptNumbers -> AttemptRows]]
  BY <1>1, ClosedRows DEF MarkFailed, TypeOK
<1>6. worker' \in [Workers -> WorkerStates]
  BY FreeState, TypeWorker DEF MarkFailed
<1>7. QED
  BY <1>2, <1>3, <1>4, <1>5, <1>6 DEF TypeOK

LEMMA TypeStep == TypeOK /\ [Next]_vars => TypeOK'
<1> SUFFICES ASSUME TypeOK, [Next]_vars PROVE TypeOK'
  OBVIOUS
<1>1. ASSUME NEW j \in Jobs, Enqueue(j) PROVE TypeOK'
  <2>1. [job[j] EXCEPT !.status = "queued"] \in JobRows
    BY DEF TypeOK, JobRows, Waiting
  <2>2. job' \in [Jobs -> JobRows]
    BY <1>1, <2>1 DEF Enqueue, TypeOK
  <2>3. QED
    BY <1>1, <2>2 DEF Enqueue, TypeOK
<1>2. ASSUME NEW w \in Workers, WorkerStep(w) PROVE TypeOK'
  <2>1. CASE StartWorker(w)
    <3>1. worker' \in [Workers -> WorkerStates]
      BY <2>1, FreeState, TypeWorker DEF StartWorker
    <3>2. QED
      BY <2>1, <3>1, TypeRecovery DEF StartWorker, TypeOK
  <2>2. CASE Crash(w) \/ DiscardOutput(w) \/ DiscardResult(w)
    <3>1. worker' \in [Workers -> WorkerStates]
      BY <2>2, FreeState, TypeWorker DEF Crash, DiscardOutput, DiscardResult
    <3>2. QED
      BY <2>2, <3>1 DEF Crash, DiscardOutput, DiscardResult, TypeOK
  <2>3. CASE \E j \in Jobs : ClaimNext(w, j)
    BY <2>3, TypeClaim
  <2>4. CASE Extend(w)
    <3>1. ttl' \in [Jobs -> Int]
      <4>1. PICK o \in Offsets : /\ Fence(w, o)
                                 /\ ttl' = [ttl EXCEPT ![worker[w].job] = LeaseTime + o]
        BY <2>4 DEF Extend
      <4>2. LeaseTime + o \in Int
        BY QueueAssumption, OffsetsInt
      <4>3. QED
        BY <4>1, <4>2, FenceJob DEF TypeOK
    <3>2. QED
      BY <2>4, <3>1 DEF Extend, TypeOK
  <2>5. CASE HeartbeatLost(w) \/ HandlerEnds(w) \/ \E v \in Verdicts : CompletionFails(w, v)
    <3>1. worker' \in [Workers -> WorkerStates]
      <4>1. CASE HeartbeatLost(w)
        <5>1. [worker[w] EXCEPT !.beating = FALSE, !.lost = TRUE] \in WorkerStates
          BY DEF TypeOK, WorkerStates
        <5>2. QED
          BY <4>1, <5>1 DEF HeartbeatLost, TypeOK
      <4>2. CASE HandlerReturns(w)
        <5>1. [worker[w] EXCEPT !.pc = "returned"] \in WorkerStates
          BY DEF TypeOK, WorkerStates
        <5>2. QED
          BY <4>2, <5>1 DEF HandlerReturns, TypeOK
      <4>3. CASE \E v \in Verdicts : HandlerRaises(w, v) \/ CompletionFails(w, v)
        BY <4>3, TypeRaised DEF HandlerRaises, CompletionFails
      <4>4. QED
        BY <2>5, <4>1, <4>2, <4>3 DEF HandlerEnds
    <3>2. QED
      BY <2>5, <3>1 DEF HeartbeatLost, HandlerEnds, HandlerReturns, HandlerRaises,
                        CompletionFails, TypeOK
  <2>6. CASE MarkSucceeded(w)
    BY <2>6, TypeMarkSucceeded
  <2>7. CASE MarkFailed(w)
    BY <2>7, TypeMarkFailed
  <2>8. QED
    BY <1>2, <2>1, <2>2, <2>3, <2>4, <2>5, <2>6, <2>7 DEF WorkerStep, Finishes
<1>3. CASE RecoverExpired
  BY <1>3, TypeRecovery DEF RecoverExpired, TypeOK
<1>4. CASE Tick
  BY <1>4 DEF Tick, TypeOK
<1>5. CASE UNCHANGED vars
  BY <1>5 DEF vars, TypeOK
<1>6. QED
  BY <1>1, <1>2, <1>3, <1>4, <1>5 DEF Next

\* Every table and every worker's memory keeps its type.
THEOREM TypeCorrect == Spec => []TypeOK
  BY TypeInit, TypeStep, PTL DEF Spec
-----------------------------------------------------------------------------
(***************************************************************************)
(* What one step does to one job: whatever the action, a job is left alone *)
(* or makes one of three moves.  The invariant and the refinement of the   *)
(* ledger both follow from the moves alone.                                *)
(***************************************************************************)
Kept(j) == job'[j] = job[j] /\ attempt'[j] = attempt[j]

Entered(j) ==
  /\ job[j].status = "absent"
  /\ job'[j] = [job[j] EXCEPT !.status = "queued"]
  /\ attempt'[j] = attempt[j]

Opened(j, w) ==
  /\ job[j].status \in Waiting /\ job[j].attempts < MaxAttempts[j]
  /\ job'[j].status = "leased" /\ job'[j].owner = w
  /\ job'[j].version = job[j].version + 1
  /\ job'[j].attempts = job[j].attempts + 1
  /\ attempt'[j] = [attempt[j] EXCEPT ![job[j].attempts + 1] =
       [status |-> "running", worker |-> w, version |-> job[j].version + 1]]

Ended(j, outcome) ==
  /\ job[j].status = "leased"
  /\ job'[j].status \in Waiting \cup Terminal /\ job'[j].owner = NoWorker
  /\ job'[j].attempts = job[j].attempts /\ job'[j].version = job[j].version
  /\ attempt'[j] = [attempt[j] EXCEPT ![job[j].attempts] =
                      [attempt[j][job[j].attempts] EXCEPT !.status = outcome]]
  /\ job'[j].status \in Waiting => ~Exhausted(j)
  /\ job'[j].status = "succeeded" <=> outcome = "succeeded"
  /\ job'[j].status = "dead_letter" => Exhausted(j) \/ outcome = "failed"

Outcomes == {"succeeded", "failed", "timed_out", "abandoned"}

Moves(j) ==
  Kept(j) \/ Entered(j) \/ (\E w \in Workers : Opened(j, w))
          \/ (\E outcome \in Outcomes : Ended(j, outcome))

\* Under a lease, exactly the newest attempt carries the version of the job.
LEMMA LeasedAttempt ==
  ASSUME QueueInv, NEW j \in Jobs, job[j].status = "leased"
  PROVE  /\ job[j].attempts \in AttemptNumbers
         /\ \A n \in AttemptNumbers :
              attempt[j][n].version = job[j].version <=> n = job[j].attempts
         /\ attempt[j][job[j].attempts].status = "running"
<1>1. job[j].attempts \in AttemptNumbers
  <2>1. job[j].attempts \in Nat
    BY DEF QueueInv, TypeOK, JobRows
  <2>2. job[j].attempts > 0 /\ job[j].attempts <= MaxAttempts[j]
    BY DEF QueueInv, JobInv
  <2>3. QED
    BY <2>1, <2>2, LimitNat DEF AttemptNumbers
<1>2. \A n \in AttemptNumbers :
        attempt[j][n].version = job[j].version <=> n = job[j].attempts
  BY LimitNat DEF QueueInv, TypeOK, JobRows, JobInv, AttemptInv, AttemptNumbers, NoAttempt
<1>3. QED
  BY <1>1, <1>2 DEF QueueInv, AttemptInv

\* Closing the attempts of the current lease closes the newest attempt only.
LEMMA ClosedNewest ==
  ASSUME QueueInv, NEW j \in Jobs, job[j].status = "leased", NEW outcome
  PROVE  /\ Closed(j, job[j].version, outcome) =
              [attempt[j] EXCEPT ![job[j].attempts] =
                 [attempt[j][job[j].attempts] EXCEPT !.status = outcome]]
         /\ Abandoned(j) =
              [attempt[j] EXCEPT ![job[j].attempts] =
                 [attempt[j][job[j].attempts] EXCEPT !.status = "abandoned"]]
<1>1. attempt[j] \in [AttemptNumbers -> AttemptRows]
  BY DEF QueueInv, TypeOK
<1>2. QED
  BY <1>1, LeasedAttempt DEF Closed, Abandoned

\* The fields of a row that gave up its lease.
LEMMA ReleasedFields ==
  ASSUME TypeOK, NEW j \in Jobs, NEW r \in BOOLEAN
  PROVE  /\ Released(j, r).status = IF r /\ ~Exhausted(j) THEN "retry_wait" ELSE "dead_letter"
         /\ Released(j, r).owner = NoWorker
         /\ Released(j, r).attempts = job[j].attempts
         /\ Released(j, r).version = job[j].version
<1>1. job[j] \in JobRows
  BY DEF TypeOK
<1>2. QED
  BY <1>1 DEF Released, JobRows
-----------------------------------------------------------------------------
LEMMA ClaimMoves ==
  ASSUME QueueInv, NEW w \in Workers, NEW k \in Jobs, ClaimNext(w, k), NEW j \in Jobs
  PROVE  Moves(j)
<1>1. job \in [Jobs -> JobRows] /\ attempt \in [Jobs -> [AttemptNumbers -> AttemptRows]]
  BY DEF QueueInv, TypeOK
<1>2. CASE j # k
  BY <1>1, <1>2 DEF ClaimNext, Moves, Kept
<1>3. CASE j = k
  <2>1. job[j].status \in Waiting /\ job[j].attempts < MaxAttempts[j]
    BY <1>3 DEF ClaimNext, FirstClaimable, Claimable
  <2>2. /\ job'[j].status = "leased" /\ job'[j].owner = w
        /\ job'[j].version = job[j].version + 1
        /\ job'[j].attempts = job[j].attempts + 1
    BY <1>1, <1>3 DEF ClaimNext, JobRows
  <2>3. attempt'[j] = [attempt[j] EXCEPT ![job[j].attempts + 1] =
          [status |-> "running", worker |-> w, version |-> job[j].version + 1]]
    BY <1>1, <1>3 DEF ClaimNext
  <2>4. QED
    BY <2>1, <2>2, <2>3 DEF Moves, Opened
<1>4. QED
  BY <1>2, <1>3

LEMMA SuccessMoves ==
  ASSUME QueueInv, NEW w \in Workers, MarkSucceeded(w), NEW j \in Jobs
  PROVE  Moves(j)
<1> DEFINE k == worker[w].job
<1>1. job \in [Jobs -> JobRows] /\ attempt \in [Jobs -> [AttemptNumbers -> AttemptRows]]
  BY DEF QueueInv, TypeOK
<1>2. k \in Jobs /\ job[k].status = "leased" /\ job[k].version = worker[w].version
  BY DEF MarkSucceeded, Fence
<1>3. CASE j # k
  BY <1>1, <1>3 DEF MarkSucceeded, Moves, Kept
<1>4. CASE j = k
  <2>1. /\ job'[j].status = "succeeded" /\ job'[j].owner = NoWorker
        /\ job'[j].attempts = job[j].attempts /\ job'[j].version = job[j].version
    BY <1>1, <1>2, <1>4 DEF MarkSucceeded, JobRows
  <2>2. attempt'[j] = [attempt[j] EXCEPT ![job[j].attempts] =
                        [attempt[j][job[j].attempts] EXCEPT !.status = "succeeded"]]
    <3>1. attempt'[j] = Closed(j, job[j].version, "succeeded")
      BY <1>1, <1>2, <1>4 DEF MarkSucceeded
    <3>2. QED
      BY <1>2, <1>4, <3>1, ClosedNewest
  <2>3. QED
    BY <1>2, <1>4, <2>1, <2>2 DEF Moves, Ended, Outcomes, Waiting, Terminal
<1>5. QED
  BY <1>3, <1>4

LEMMA FailureMoves ==
  ASSUME QueueInv, NEW w \in Workers, MarkFailed(w), NEW j \in Jobs
  PROVE  Moves(j)
<1> DEFINE k == worker[w].job
           retryable == worker[w].verdict # "fatal"
           outcome == IF worker[w].verdict = "timed_out" THEN "timed_out" ELSE "failed"
<1>1. job \in [Jobs -> JobRows] /\ attempt \in [Jobs -> [AttemptNumbers -> AttemptRows]]
  BY DEF QueueInv, TypeOK
<1>2. k \in Jobs /\ job[k].status = "leased" /\ job[k].version = worker[w].version
  BY DEF MarkFailed, Fence
<1>3. CASE j # k
  BY <1>1, <1>3 DEF MarkFailed, Moves, Kept
<1>4. CASE j = k
  <2>1. job'[j] = Released(j, retryable)
    BY <1>1, <1>2, <1>4 DEF MarkFailed
  <2>2. /\ job'[j].status = IF retryable /\ ~Exhausted(j) THEN "retry_wait" ELSE "dead_letter"
        /\ job'[j].owner = NoWorker
        /\ job'[j].attempts = job[j].attempts /\ job'[j].version = job[j].version
    BY <2>1, ReleasedFields DEF QueueInv
  <2>3. attempt'[j] = [attempt[j] EXCEPT ![job[j].attempts] =
                        [attempt[j][job[j].attempts] EXCEPT !.status = outcome]]
    <3>1. attempt'[j] = Closed(j, job[j].version, outcome)
      BY <1>1, <1>2, <1>4 DEF MarkFailed
    <3>2. QED
      BY <1>2, <1>4, <3>1, ClosedNewest
  <2>4. Ended(j, outcome)
    <3>1. outcome = "failed" \/ retryable
      OBVIOUS
    <3>2. QED
      BY <1>2, <1>4, <2>2, <2>3, <3>1 DEF Ended, Waiting, Terminal
  <2>5. QED
    BY <2>4 DEF Moves, Outcomes
<1>5. QED
  BY <1>3, <1>4

LEMMA RecoveryMoves ==
  ASSUME QueueInv, NEW o \in Offsets, Recovery(o), NEW j \in Jobs
  PROVE  Moves(j)
<1>1. CASE ~Expired(j, o)
  BY <1>1 DEF Recovery, Moves, Kept
<1>2. CASE Expired(j, o)
  <2>1. job'[j] = Released(j, TRUE) /\ attempt'[j] = Abandoned(j)
    BY <1>2 DEF Recovery
  <2>2. job[j].status = "leased"
    BY <1>2 DEF Expired
  <2>3. /\ job'[j].status = IF ~Exhausted(j) THEN "retry_wait" ELSE "dead_letter"
        /\ job'[j].owner = NoWorker
        /\ job'[j].attempts = job[j].attempts /\ job'[j].version = job[j].version
    BY <2>1, ReleasedFields DEF QueueInv
  <2>4. attempt'[j] = [attempt[j] EXCEPT ![job[j].attempts] =
                        [attempt[j][job[j].attempts] EXCEPT !.status = "abandoned"]]
    BY <2>1, <2>2, ClosedNewest
  <2>5. Ended(j, "abandoned")
    BY <2>2, <2>3, <2>4 DEF Ended, Waiting, Terminal
  <2>6. QED
    BY <2>5 DEF Moves, Outcomes
<1>3. QED
  BY <1>1, <1>2

LEMMA StepMoves ==
  ASSUME QueueInv, [Next]_vars, NEW j \in Jobs
  PROVE  Moves(j)
<1>1. ASSUME NEW k \in Jobs, Enqueue(k) PROVE Moves(j)
  BY <1>1 DEF Enqueue, QueueInv, TypeOK, Moves, Kept, Entered
<1>2. ASSUME NEW w \in Workers, WorkerStep(w) PROVE Moves(j)
  <2>1. CASE StartWorker(w)
    BY <2>1, RecoveryMoves DEF StartWorker
  <2>2. CASE \E k \in Jobs : ClaimNext(w, k)
    BY <2>2, ClaimMoves
  <2>3. CASE MarkSucceeded(w)
    BY <2>3, SuccessMoves
  <2>4. CASE MarkFailed(w)
    BY <2>4, FailureMoves
  <2>5. CASE \/ Crash(w) \/ Extend(w) \/ HeartbeatLost(w) \/ HandlerEnds(w)
             \/ DiscardOutput(w) \/ DiscardResult(w)
             \/ \E v \in Verdicts : CompletionFails(w, v)
    BY <2>5 DEF Crash, Extend, HeartbeatLost, HandlerEnds, HandlerReturns, HandlerRaises,
                DiscardOutput, DiscardResult, CompletionFails, Moves, Kept
  <2>6. QED
    BY <1>2, <2>1, <2>2, <2>3, <2>4, <2>5 DEF WorkerStep, Finishes
<1>3. CASE RecoverExpired
  BY <1>3, RecoveryMoves DEF RecoverExpired
<1>4. CASE Tick \/ UNCHANGED vars
  BY <1>4 DEF Tick, vars, Moves, Kept
<1>5. QED
  BY <1>1, <1>2, <1>3, <1>4 DEF Next
-----------------------------------------------------------------------------
(***************************************************************************)
(* The inductive invariant.                                                *)
(***************************************************************************)
LEMMA InvInit == Init => QueueInv
<1> SUFFICES ASSUME Init, NEW j \in Jobs PROVE JobInv(j) /\ AttemptInv(j)
  BY TypeInit DEF QueueInv
<1>1. JobInv(j)
  BY LimitNat DEF Init, JobInv, Waiting
<1>2. AttemptInv(j)
  BY LimitNat DEF Init, AttemptInv, AttemptNumbers, NoAttempt
<1>3. QED
  BY <1>1, <1>2

LEMMA OpenedInv ==
  ASSUME QueueInv, NEW j \in Jobs, NEW w \in Workers, Opened(j, w)
  PROVE  JobInv(j)' /\ AttemptInv(j)'
<1>1. /\ job[j].attempts \in Nat /\ job[j].version = job[j].attempts
      /\ attempt[j] \in [AttemptNumbers -> AttemptRows]
      /\ MaxAttempts[j] \in 1..AttemptLimit
  BY LimitNat DEF QueueInv, TypeOK, JobRows, JobInv
<1>2. JobInv(j)'
  BY <1>1, QueueAssumption DEF JobInv, Opened, Waiting
<1>3. AttemptInv(j)'
  <2> SUFFICES ASSUME NEW n \in AttemptNumbers
               PROVE  /\ n <= job'[j].attempts => attempt'[j][n].version = n
                                                   /\ attempt'[j][n].status # "none"
                      /\ n > job'[j].attempts => attempt'[j][n] = NoAttempt
                      /\ attempt'[j][n].status = "running" <=>
                           job'[j].status = "leased" /\ n = job'[j].attempts
                      /\ attempt'[j][n].status = "running" =>
                           attempt'[j][n].worker = job'[j].owner
    BY DEF AttemptInv
  <2>1. CASE n = job[j].attempts + 1
    BY <1>1, <2>1 DEF Opened
  <2>2. CASE n # job[j].attempts + 1
    <3>1. attempt'[j][n] = attempt[j][n] /\ n \in Nat
      BY <1>1, <2>2 DEF Opened, AttemptNumbers
    <3>2. attempt[j][n].status # "running"
      BY DEF Opened, Waiting, QueueInv, AttemptInv
    <3>3. QED
      BY <1>1, <2>2, <3>1, <3>2 DEF Opened, QueueInv, AttemptInv
  <2>3. QED
    BY <2>1, <2>2
<1>4. QED
  BY <1>2, <1>3

LEMMA EndedInv ==
  ASSUME QueueInv, NEW j \in Jobs, NEW outcome \in Outcomes, Ended(j, outcome)
  PROVE  JobInv(j)' /\ AttemptInv(j)'
<1> DEFINE a == job[j].attempts
<1>1. /\ a \in Nat /\ a > 0 /\ a <= MaxAttempts[j] /\ a \in AttemptNumbers
      /\ job[j].version = a /\ MaxAttempts[j] \in 1..AttemptLimit
      /\ attempt[j] \in [AttemptNumbers -> AttemptRows]
  BY LimitNat, LeasedAttempt DEF QueueInv, TypeOK, JobRows, JobInv, Ended
<1>2. /\ attempt'[j][a].status = outcome
      /\ attempt'[j][a].version = attempt[j][a].version
      /\ \A n \in AttemptNumbers : n # a => attempt'[j][n] = attempt[j][n]
  BY <1>1 DEF Ended, AttemptRows
<1>3. JobInv(j)'
  <2>1. Exhausted(j)' <=> Exhausted(j)
    BY DEF Exhausted, Ended
  <2>2. job'[j].attempts = a /\ attempt'[j][job'[j].attempts].status = outcome
    BY <1>2 DEF Ended
  <2>3. job'[j].status # "leased" /\ job'[j].status # "absent"
    BY DEF Ended, Waiting, Terminal
  <2>4. job'[j].status \in Waiting => a < MaxAttempts[j]
    BY <1>1 DEF Ended, Exhausted
  <2>5. QED
    BY <1>1, <2>1, <2>2, <2>3, <2>4 DEF JobInv, Ended
<1>4. AttemptInv(j)'
  BY <1>1, <1>2 DEF Ended, Outcomes, QueueInv, AttemptInv, Waiting, Terminal
<1>5. QED
  BY <1>3, <1>4

LEMMA InvStep == QueueInv /\ [Next]_vars => QueueInv'
<1> SUFFICES ASSUME QueueInv, [Next]_vars, NEW j \in Jobs
             PROVE  JobInv(j)' /\ AttemptInv(j)'
  BY TypeStep DEF QueueInv
<1>1. CASE Kept(j)
  BY <1>1 DEF QueueInv, Kept, JobInv, AttemptInv, Exhausted
<1>2. CASE Entered(j)
  <2>1. job[j] \in JobRows
    BY DEF QueueInv, TypeOK
  <2>2. /\ job'[j].status = "queued" /\ job'[j].owner = job[j].owner
        /\ job'[j].attempts = job[j].attempts /\ job'[j].version = job[j].version
    BY <1>2, <2>1 DEF Entered, JobRows
  <2>3. JobInv(j)'
    BY <1>2, <2>1, <2>2, LimitNat DEF QueueInv, JobInv, Entered, Waiting, JobRows
  <2>4. AttemptInv(j)'
    BY <1>2, <2>2 DEF QueueInv, AttemptInv, Entered
  <2>5. QED
    BY <2>3, <2>4
<1>3. CASE \E w \in Workers : Opened(j, w)
  BY <1>3, OpenedInv
<1>4. CASE \E outcome \in Outcomes : Ended(j, outcome)
  BY <1>4, EndedInv
<1>5. QED
  BY <1>1, <1>2, <1>3, <1>4, StepMoves DEF Moves

LEMMA Invariance == Spec => []QueueInv
  BY InvInit, InvStep, PTL DEF Spec

\* The lease of a job and its attempts never disagree.
THEOREM LeaseAgrees == Spec => []LeaseMatchesAttempt
<1>1. QueueInv => LeaseMatchesAttempt
  BY DEF QueueInv, AttemptInv, LeaseMatchesAttempt
<1>2. QED
  BY <1>1, Invariance, PTL

\* A job that waits has no owner and attempts left: claim_next can take it.
THEOREM WaitingIsClaimable == Spec => []NoLimbo
<1>1. QueueInv => NoLimbo
  BY DEF QueueInv, JobInv, NoLimbo, Waiting
<1>2. QED
  BY <1>1, Invariance, PTL

\* Infrastructure alone never dead-letters a job that has attempts left.
THEOREM DeathHasCause == Spec => []DeadLetterHasCause
<1>1. QueueInv => DeadLetterHasCause
  BY DEF QueueInv, JobInv, DeadLetterHasCause
<1>2. QED
  BY <1>1, Invariance, PTL
-----------------------------------------------------------------------------
(***************************************************************************)
(* What a step may never do.                                               *)
(***************************************************************************)
LEMMA SuccessStep ==
  ASSUME TypeOK, [Next]_vars, NEW j \in Jobs,
         job'[j].status = "succeeded", job[j].status # "succeeded"
  PROVE  \E w \in Workers : /\ worker[w].job = j
                            /\ worker[w].version = job[j].version
                            /\ worker[w].pc = "returned"
<1> USE DEF TypeOK
<1>1. ASSUME NEW k \in Jobs, Enqueue(k) PROVE FALSE
  BY <1>1 DEF Enqueue, JobRows
<1>2. ASSUME NEW o \in Offsets, Recovery(o) PROVE FALSE
  BY <1>2, ReleasedFields DEF Recovery
<1>3. ASSUME NEW w \in Workers, NEW k \in Jobs, ClaimNext(w, k) PROVE FALSE
  BY <1>3 DEF ClaimNext, JobRows
<1>4. ASSUME NEW w \in Workers, MarkFailed(w) PROVE FALSE
  <2>1. worker[w].job \in Jobs
    BY <1>4, FenceJob DEF MarkFailed
  <2>2. Released(worker[w].job, worker[w].verdict # "fatal").status # "succeeded"
    BY <2>1, ReleasedFields
  <2>3. QED
    BY <1>4, <2>1, <2>2 DEF MarkFailed
<1>5. ASSUME NEW w \in Workers, MarkSucceeded(w)
      PROVE  worker[w].job = j /\ worker[w].version = job[j].version /\ worker[w].pc = "returned"
  BY <1>5 DEF MarkSucceeded, Fence
<1>6. ASSUME UNCHANGED job PROVE FALSE
  BY <1>6
<1>7. QED
  BY <1>1, <1>2, <1>3, <1>4, <1>5, <1>6
  DEF Next, WorkerStep, Finishes, HandlerEnds, StartWorker, RecoverExpired, Crash, Extend,
      HeartbeatLost, HandlerReturns, HandlerRaises, DiscardOutput, DiscardResult,
      CompletionFails, Tick, vars

\* A worker whose lease was taken over, or whose handler did not return, never
\* makes a job succeed.
THEOREM OnlyHolderSucceeds == Spec => SuccessComesFromHolder
<1>1. TypeOK /\ [Next]_vars =>
        [\A j \in Jobs :
           job'[j].status = "succeeded" /\ job[j].status # "succeeded" =>
             \E w \in Workers : /\ worker[w].job = j
                                /\ worker[w].version = job[j].version
                                /\ worker[w].pc = "returned"]_vars
  BY SuccessStep
<1>2. QED
  BY <1>1, TypeCorrect, PTL DEF Spec, SuccessComesFromHolder

LEMMA TakenStep ==
  ASSUME TypeOK, [Next]_vars, NEW j \in Jobs,
         job[j].status = "leased", job'[j].status # "leased"
  PROVE  \/ ttl[j] <= Skew
         \/ \E w \in Workers :
              /\ worker[w].job = j /\ worker[w].version = job[j].version
              /\ worker[w].pc \in {"returned", "raised"} /\ worker'[w] # worker[w]
<1> USE DEF TypeOK
<1>1. ASSUME NEW k \in Jobs, Enqueue(k) PROVE FALSE
  BY <1>1 DEF Enqueue, JobRows
<1>2. ASSUME NEW o \in Offsets, Recovery(o) PROVE ttl[j] <= Skew
  <2>1. ttl[j] <= o
    BY <1>2 DEF Recovery, Expired
  <2>2. QED
    BY <2>1, QueueAssumption DEF Offsets
<1>3. ASSUME NEW w \in Workers, NEW k \in Jobs, ClaimNext(w, k) PROVE FALSE
  BY <1>3 DEF ClaimNext, JobRows
<1>4. ASSUME NEW w \in Workers, MarkSucceeded(w) \/ MarkFailed(w)
      PROVE  /\ worker[w].job = j /\ worker[w].version = job[j].version
             /\ worker[w].pc \in {"returned", "raised"} /\ worker'[w] # worker[w]
  <2>1. worker[w].job = j /\ worker[w].version = job[j].version
    BY <1>4 DEF MarkSucceeded, MarkFailed, Fence
  <2>2. worker[w].pc \in {"returned", "raised"} /\ worker'[w].pc # worker[w].pc
    BY <1>4 DEF MarkSucceeded, MarkFailed, Free, WorkerStates
  <2>3. QED
    BY <2>1, <2>2
<1>5. ASSUME UNCHANGED job PROVE FALSE
  BY <1>5
<1>6. QED
  BY <1>1, <1>2, <1>3, <1>4, <1>5
  DEF Next, WorkerStep, Finishes, HandlerEnds, StartWorker, RecoverExpired, Crash, Extend,
      HeartbeatLost, HandlerReturns, HandlerRaises, DiscardOutput, DiscardResult,
      CompletionFails, Tick, vars

\* A lease is taken away only after its time, up to the clock error; otherwise
\* it ends in the transaction in which its own holder finishes the job.
THEOREM LeaseIsRespected == Spec => LeaseTakenOnlyWhenExpired
<1>1. TypeOK /\ [Next]_vars =>
        [\A j \in Jobs :
           job[j].status = "leased" /\ job'[j].status # "leased" =>
             \/ ttl[j] <= Skew
             \/ \E w \in Workers :
                  /\ worker[w].job = j /\ worker[w].version = job[j].version
                  /\ worker[w].pc \in {"returned", "raised"} /\ worker'[w] # worker[w]]_vars
  BY TakenStep
<1>2. QED
  BY <1>1, TypeCorrect, PTL DEF Spec, LeaseTakenOnlyWhenExpired
-----------------------------------------------------------------------------
(***************************************************************************)
(* The queue implements its ledger.                                        *)
(***************************************************************************)
LEMMA LedgerInit == Init => Ledger!Init
  BY DEF Init, Ledger!Init, Ledger!Slots, Phase, Log, Waiting, NoAttempt, AttemptNumbers

\* Each move of a job is a step of its ledger.
LEMMA LedgerMove ==
  ASSUME QueueInv, QueueInv', NEW j \in Jobs, Moves(j)
  PROVE  Ledger!JobStep(j) \/ Ledger!Stays(j)
<1>1. /\ job[j] \in JobRows /\ job'[j] \in JobRows
      /\ attempt[j] \in [AttemptNumbers -> AttemptRows]
      /\ JobInv(j) /\ AttemptInv(j) /\ JobInv(j)'
      /\ MaxAttempts[j] \in 1..AttemptLimit
  BY LimitNat DEF QueueInv, TypeOK
<1>2. CASE Kept(j)
  BY <1>2 DEF Kept, Ledger!Stays, Phase, Log
<1>3. CASE Entered(j)
  <2>1. job'[j].status = "queued"
    BY <1>1, <1>3 DEF Entered, JobRows
  <2>2. Phase[j] = "absent" /\ Phase'[j] = "waiting" /\ Log'[j] = Log[j]
    BY <1>3, <2>1 DEF Entered, Phase, Log, Waiting
  <2>3. QED
    BY <2>2 DEF Ledger!JobStep, Ledger!Submit
<1>4. ASSUME NEW w \in Workers, Opened(j, w) PROVE Ledger!Start(j)
  <2> DEFINE n == job[j].attempts + 1
  <2>1. n \in AttemptNumbers /\ n <= MaxAttempts[j]
    BY <1>1, <1>4, LimitNat DEF Opened, JobRows, AttemptNumbers
  <2>2. Phase[j] = "waiting" /\ Phase'[j] = "running"
    BY <1>4 DEF Opened, Phase, Waiting
  <2>3. Log[j][n] = "none"
    BY <1>1, <2>1 DEF AttemptInv, Log, NoAttempt, JobRows
  <2>4. Log'[j] = [Log[j] EXCEPT ![n] = "running"]
    <3>1. attempt'[j][n].status = "running"
      BY <1>1, <1>4, <2>1 DEF Opened
    <3>2. \A m \in AttemptNumbers : m # n => attempt'[j][m] = attempt[j][m]
      BY <1>1, <1>4, <2>1 DEF Opened
    <3>3. QED
      BY <2>1, <3>1, <3>2 DEF Log
  <2>5. \A m \in 1..(n - 1) : Log[j][m] \notin {"none", "running"}
    <3> SUFFICES ASSUME NEW m \in 1..(n - 1) PROVE Log[j][m] \notin {"none", "running"}
      OBVIOUS
    <3>1. m \in AttemptNumbers /\ m <= job[j].attempts
      BY <1>1, <2>1, LimitNat DEF AttemptNumbers, JobRows
    <3>2. job[j].status # "leased"
      BY <1>4 DEF Opened, Waiting
    <3>3. QED
      BY <1>1, <3>1, <3>2 DEF AttemptInv, Log
  <2>6. QED
    BY <2>1, <2>2, <2>3, <2>4, <2>5
    DEF Ledger!Start, Ledger!Unused, Ledger!Slots, Ledger!Writes, AttemptNumbers
<1>5. ASSUME NEW outcome \in Outcomes, Ended(j, outcome)
      PROVE  Ledger!Succeed(j) \/ Ledger!Fail(j)
  <2> DEFINE n == job[j].attempts
  <2>1. n \in AttemptNumbers /\ n <= MaxAttempts[j] /\ attempt[j][n].status = "running"
    BY <1>1, <1>5, LeasedAttempt DEF Ended, JobInv
  <2>2. Phase[j] = "running" /\ n \in Ledger!Open(j)
    BY <1>5, <2>1 DEF Ended, Phase, Log, Waiting, Ledger!Open, Ledger!Slots, AttemptNumbers
  <2>3. Log'[j] = [Log[j] EXCEPT ![n] = outcome]
    BY <1>1, <1>5, <2>1 DEF Ended, Log, AttemptRows
  <2>4. Exhausted(j) <=> n = MaxAttempts[j]
    BY <1>1, <2>1 DEF Exhausted, JobRows
  <2>5. CASE outcome = "succeeded"
    <3>1. Phase'[j] = "done"
      BY <1>5, <2>5 DEF Ended, Phase, Waiting
    <3>2. QED
      BY <2>2, <2>3, <2>5, <3>1 DEF Ledger!Succeed, Ledger!Writes
  <2>6. CASE outcome # "succeeded"
    <3>1. \/ n < MaxAttempts[j] /\ Phase'[j] = "waiting"
          \/ (n = MaxAttempts[j] \/ outcome = "failed") /\ Phase'[j] = "dead"
      <4>1. job'[j].status \in Waiting \cup {"dead_letter"}
        BY <1>5, <2>6 DEF Ended, Terminal
      <4>2. CASE job'[j].status \in Waiting
        <5>1. n < MaxAttempts[j]
          BY <1>1, <1>5, <4>2 DEF Ended, Exhausted, JobRows
        <5>2. Phase'[j] = "waiting"
          BY <4>2 DEF Phase, Waiting
        <5>3. QED
          BY <5>1, <5>2
      <4>3. CASE job'[j].status = "dead_letter"
        BY <1>5, <2>4, <4>3 DEF Ended, Phase, Waiting
      <4>4. QED
        BY <4>1, <4>2, <4>3
    <3>2. QED
      BY <2>2, <2>3, <2>6, <3>1 DEF Ledger!Fail, Ledger!Writes, Outcomes
  <2>7. QED
    BY <2>5, <2>6
<1>6. QED
  BY <1>2, <1>3, <1>4, <1>5 DEF Moves, Ledger!JobStep

\* Whatever the interleaving, clocks and crashes, every job keeps its promise
\* of at most one open attempt and no attempt beyond the budget.
THEOREM QueueImplementsLedger == Spec => KeepsLedger
<1>1. QueueInv /\ QueueInv' /\ [Next]_vars => [Ledger!Next]_(Ledger!ledgerVars)
  BY StepMoves, LedgerMove DEF Ledger!Next
<1>2. QED
  BY <1>1, LedgerInit, Invariance, PTL DEF Spec, KeepsLedger, Ledger!Spec
=============================================================================
