------------------------------ MODULE JobQueue ------------------------------
(***************************************************************************)
(* The durable job queue of the platform: the jobs table, the table of     *)
(* execution attempts, and the worker processes that claim, execute and    *)
(* finish jobs under a lease (infrastructure/jobs/repository.py,           *)
(* infrastructure/jobs/recovery.py, worker.py).                            *)
(*                                                                         *)
(* One action is one database transaction, or one step of the event loop   *)
(* of a worker between two transactions.  What a handler does to the rest  *)
(* of the database is left to the modules that extend this one; here a     *)
(* handler returns, raises or runs out of time.                            *)
(*                                                                         *)
(* Time is relative: ttl[j] is lease_expires_at minus the true time and    *)
(* wait[j] is available_at minus the true time; Tick lowers both.  Every   *)
(* transaction compares with a `now' that Python read earlier or on        *)
(* another host, so its clock is off by a value of Offsets.                *)
(***************************************************************************)
EXTENDS Integers, FiniteSets

CONSTANTS
  Workers,       \* worker processes (a restarted one keeps its slot)
  Jobs,          \* rows of the jobs table
  NoWorker,      \* lease_owner IS NULL
  NoJob,         \* a worker that holds no job
  Serves,        \* the jobs whose type a worker's profile permits
  Priority,      \* priority of a job, lower first
  AttemptLimit,  \* bound on max_attempts over all jobs
  MaxAttempts,   \* max_attempts of a job
  LeaseTime,     \* worker_lease_seconds
  BaseDelay,     \* worker_retry_base_seconds
  MaximumDelay,  \* worker_retry_maximum_seconds
  Skew           \* largest error of a `now' against the true time

ASSUME QueueAssumption ==
  /\ NoWorker \notin Workers
  /\ NoJob \notin Jobs
  /\ Serves \in [Workers -> SUBSET Jobs]
  /\ Priority \in [Jobs -> Nat]
  /\ AttemptLimit \in Nat
  /\ MaxAttempts \in [Jobs -> 1..AttemptLimit]
  /\ LeaseTime \in Nat
  /\ BaseDelay \in Nat
  /\ MaximumDelay \in Nat
  /\ Skew \in Nat

VARIABLES
  job,      \* job[j]: the row's status, lease and counters
  ttl,      \* ttl[j]: time left on the lease of job j
  wait,     \* wait[j]: time left until job j is available
  attempt,  \* attempt[j][n]: the n-th execution attempt of job j
  worker    \* worker[w]: what process w holds in memory

vars == <<job, ttl, wait, attempt, worker>>

Offsets        == (-Skew)..Skew
AttemptNumbers == 1..AttemptLimit

Waiting  == {"queued", "retry_wait"}
Terminal == {"succeeded", "dead_letter"}
Verdicts == {"retryable", "fatal", "timed_out"}

JobRows ==
  [status : {"absent", "leased"} \cup Waiting \cup Terminal,
   owner : Workers \cup {NoWorker}, version : Nat, attempts : Nat, retries : Nat]

AttemptRows ==
  [status : {"none", "running", "succeeded", "failed", "timed_out", "abandoned"},
   worker : Workers \cup {NoWorker}, version : Nat]

WorkerStates ==
  [pc : {"down", "idle", "executing", "returned", "raised"},
   job : Jobs \cup {NoJob}, version : Nat, retries : Nat,
   beating : BOOLEAN, lost : BOOLEAN, verdict : Verdicts \cup {"none"}]

NoAttempt == [status |-> "none", worker |-> NoWorker, version |-> 0]

\* A worker between two jobs, or down.
Free(pc) ==
  [pc |-> pc, job |-> NoJob, version |-> 0, retries |-> 0,
   beating |-> FALSE, lost |-> FALSE, verdict |-> "none"]

Busy(w) == worker[w].pc \in {"executing", "returned", "raised"}

(***************************************************************************)
(* Operators of the repository.                                            *)
(***************************************************************************)

\* RetryPolicy.delay: base * 2^(retries - 1), capped.
Delay(retries) ==
  LET d == BaseDelay * 2^(IF retries > 0 THEN retries - 1 ELSE 0)
  IN  IF d \in 0..MaximumDelay THEN d ELSE MaximumDelay

\* The filters of claim_next, for a transaction whose clock is off by o.
Claimable(j, o) ==
  /\ job[j].status \in Waiting
  /\ job[j].attempts < MaxAttempts[j]
  /\ job[j].owner = NoWorker
  /\ wait[j] <= o

\* The row its ORDER BY returns; jobs of equal priority come in any order.
FirstClaimable(w, j, o) ==
  LET open == {k \in Serves[w] : Claimable(k, o)} IN
  j \in open /\ \A k \in open : Priority[j] <= Priority[k]

\* Mutant of Fence: a live lease on the job is enough, whoever holds it.
FenceByStatus(w, o) ==
  LET j == worker[w].job IN
  j \in Jobs /\ job[j].status = "leased" /\ ttl[j] > o

\* The WHERE clause of every fenced write: w still holds the lease it claimed.
Fence(w, o) ==
  LET j == worker[w].job IN
  /\ j \in Jobs
  /\ job[j].status = "leased"
  /\ job[j].owner = w
  /\ job[j].version = worker[w].version
  /\ ttl[j] > o

\* Mutant of Expired: every leased job counts as abandoned.
ExpiredByStatus(j, o) == job[j].status = "leased"

\* The filter of recover_expired.
Expired(j, o) == job[j].status = "leased" /\ ttl[j] <= o

Exhausted(j) == job[j].attempts >= MaxAttempts[j]

\* Mutants of Released: the budget is not looked at; it is off by one; a spent
\* budget is "failed"; the owner is left in the row.
ReleasedUnbounded(j, retryable) ==
  [job[j] EXCEPT !.status = IF retryable THEN "retry_wait" ELSE "dead_letter",
                 !.owner = NoWorker, !.retries = @ + 1]

ReleasedEarly(j, retryable) ==
  [job[j] EXCEPT !.status = IF retryable /\ job[j].attempts + 1 < MaxAttempts[j]
                              THEN "retry_wait" ELSE "dead_letter",
                 !.owner = NoWorker, !.retries = @ + 1]

ReleasedFailed(j, retryable) ==
  [job[j] EXCEPT !.status = IF retryable /\ ~Exhausted(j) THEN "retry_wait" ELSE "failed",
                 !.owner = NoWorker, !.retries = @ + 1]

\* The job row after its lease is given up without success.
Released(j, retryable) ==
  IF retryable /\ ~Exhausted(j)
    THEN [job[j] EXCEPT !.status = "retry_wait", !.owner = NoWorker,
                        !.retries = @ + 1]
    ELSE [job[j] EXCEPT !.status = "dead_letter", !.owner = NoWorker]

\* The attempts of j after the one opened under lease v is closed as `outcome'.
Closed(j, v, outcome) ==
  [n \in AttemptNumbers |->
     IF attempt[j][n].version = v
       THEN [attempt[j][n] EXCEPT !.status = outcome]
       ELSE attempt[j][n]]

\* Mutant of Abandoned: the attempt of a recovered job is left running.
AbandonedNever(j) == attempt[j]

\* The same, as recover_expired does it: only a running attempt is closed.
Abandoned(j) ==
  [n \in AttemptNumbers |->
     IF attempt[j][n].version = job[j].version /\ attempt[j][n].status = "running"
       THEN [attempt[j][n] EXCEPT !.status = "abandoned"]
       ELSE attempt[j][n]]
-----------------------------------------------------------------------------
Init ==
  /\ job = [j \in Jobs |-> [status |-> "absent", owner |-> NoWorker,
                            version |-> 0, attempts |-> 0, retries |-> 0]]
  /\ ttl = [j \in Jobs |-> -Skew]
  /\ wait = [j \in Jobs |-> -Skew]
  /\ attempt = [j \in Jobs |-> [n \in AttemptNumbers |-> NoAttempt]]
  /\ worker = [w \in Workers |-> Free("down")]

\* A service inserts a job; available_at defaults to the time of the insert.
Enqueue(j) ==
  /\ job[j].status = "absent"
  /\ job' = [job EXCEPT ![j].status = "queued"]
  /\ wait' = [wait EXCEPT ![j] = 0]
  /\ UNCHANGED <<ttl, attempt, worker>>

\* claim_next: the first claimable job of the worker's types is leased under a
\* fresh version (which stands for the fresh token too), an attempt is opened.
ClaimNext(w, j) ==
  /\ worker[w].pc = "idle"
  /\ \E o \in Offsets :
       /\ FirstClaimable(w, j, o)
       /\ ttl' = [ttl EXCEPT ![j] = LeaseTime + o]
  /\ job' = [job EXCEPT ![j].status = "leased", ![j].owner = w,
                        ![j].version = @ + 1, ![j].attempts = @ + 1]
  /\ attempt' = [attempt EXCEPT ![j][job[j].attempts + 1] =
                   [status |-> "running", worker |-> w, version |-> job[j].version + 1]]
  /\ worker' = [worker EXCEPT ![w] =
                  [pc |-> "executing", job |-> j, version |-> job[j].version + 1,
                   retries |-> job[j].retries, beating |-> TRUE, lost |-> FALSE,
                   verdict |-> "none"]]
  /\ UNCHANGED wait

\* _heartbeat_job: a beat that finds the lease still held extends it.
Extend(w) ==
  /\ Busy(w) /\ worker[w].beating
  /\ \E o \in Offsets :
       /\ Fence(w, o)
       /\ ttl' = [ttl EXCEPT ![worker[w].job] = LeaseTime + o]
  /\ UNCHANGED <<job, wait, attempt, worker>>

\* _heartbeat_job: a beat that finds the lease gone, or that fails on the
\* database, tells the worker so and is the last one.
HeartbeatLost(w) ==
  /\ Busy(w) /\ worker[w].beating
  /\ worker' = [worker EXCEPT ![w].beating = FALSE, ![w].lost = TRUE]
  /\ UNCHANGED <<job, ttl, wait, attempt>>

\* process_one_job: asyncio.wait returns because the handler ended.
HandlerReturns(w) ==
  /\ worker[w].pc = "executing" /\ ~worker[w].lost
  /\ worker' = [worker EXCEPT ![w].pc = "returned"]
  /\ UNCHANGED <<job, ttl, wait, attempt>>

\* The handler raised, classified by RetryPolicy, or the deadline passed.
HandlerRaises(w, verdict) ==
  /\ worker[w].pc = "executing" /\ ~worker[w].lost
  /\ worker' = [worker EXCEPT ![w].pc = "raised", ![w].verdict = verdict]
  /\ UNCHANGED <<job, ttl, wait, attempt>>

\* The heartbeat's signal is seen first, even when the handler is done too:
\* the handler is cancelled and the result discarded.
DiscardOutput(w) ==
  /\ worker[w].pc = "executing" /\ worker[w].lost
  /\ worker' = [worker EXCEPT ![w] = Free("idle")]
  /\ UNCHANGED <<job, ttl, wait, attempt>>

\* mark_succeeded, fenced.  The reply of the commit may be lost (`raised'), be it
\* by a timeout of the driver.
MarkSucceeded(w) ==
  LET j == worker[w].job IN
  /\ worker[w].pc = "returned"
  /\ \E o \in Offsets : Fence(w, o)
  /\ job' = [job EXCEPT ![j].status = "succeeded", ![j].owner = NoWorker]
  /\ ttl' = [ttl EXCEPT ![j] = -Skew]
  /\ attempt' = [attempt EXCEPT ![j] = Closed(j, worker[w].version, "succeeded")]
  /\ \/ worker' = [worker EXCEPT ![w] = Free("idle")]
     \/ \E verdict \in Verdicts :
          worker' = [worker EXCEPT ![w].pc = "raised", ![w].verdict = verdict]
  /\ UNCHANGED wait

\* The completion transaction fails: the exception is classified like one of
\* the handler, a TimeoutError of the driver too, and goes down the failure path.
CompletionFails(w, verdict) ==
  /\ worker[w].pc = "returned"
  /\ worker' = [worker EXCEPT ![w].pc = "raised", ![w].verdict = verdict]
  /\ UNCHANGED <<job, ttl, wait, attempt>>

\* mark_failed, fenced.
MarkFailed(w) ==
  LET j == worker[w].job
      retryable == worker[w].verdict # "fatal"
      outcome == IF worker[w].verdict = "timed_out" THEN "timed_out" ELSE "failed"
  IN
  /\ worker[w].pc = "raised"
  /\ \E o \in Offsets :
       /\ Fence(w, o)
       /\ wait' = IF retryable /\ ~Exhausted(j)
                    THEN [wait EXCEPT ![j] = Delay(worker[w].retries + 1) + o]
                    ELSE wait
  /\ job' = [job EXCEPT ![j] = Released(j, retryable)]
  /\ ttl' = [ttl EXCEPT ![j] = -Skew]
  /\ attempt' = [attempt EXCEPT ![j] = Closed(j, worker[w].version, outcome)]
  /\ worker' = [worker EXCEPT ![w] = Free("idle")]

\* mark_succeeded or mark_failed raises LeaseLostError: nothing is written.
DiscardResult(w) ==
  /\ worker[w].pc \in {"returned", "raised"}
  /\ \E o \in Offsets : ~Fence(w, o)
  /\ worker' = [worker EXCEPT ![w] = Free("idle")]
  /\ UNCHANGED <<job, ttl, wait, attempt>>

\* recover_expired: every expired row gives up its lease.  A row that another
\* transaction has locked (SKIP LOCKED) is one that moved before this step.
Recovery(o) ==
  LET batch == {j \in Jobs : Expired(j, o)} IN
  /\ job' = [j \in Jobs |-> IF j \in batch THEN Released(j, TRUE) ELSE job[j]]
  /\ ttl' = [j \in Jobs |-> IF j \in batch THEN -Skew ELSE ttl[j]]
  /\ wait' = [j \in Jobs |-> IF j \in batch /\ ~Exhausted(j)
                               THEN Delay(job[j].retries + 1) + o ELSE wait[j]]
  /\ attempt' = [j \in Jobs |-> IF j \in batch THEN Abandoned(j) ELSE attempt[j]]

\* The maintenance loop of a live worker, or the operator's route.
RecoverExpired ==
  /\ \E o \in Offsets : Recovery(o) /\ \E j \in Jobs : Expired(j, o)
  /\ UNCHANGED worker

\* run_worker: a process starts, recovers what it finds expired, then polls.
StartWorker(w) ==
  /\ worker[w].pc = "down"
  /\ \E o \in Offsets : Recovery(o)
  /\ worker' = [worker EXCEPT ![w] = Free("idle")]

\* The process dies, or leaves run_worker by an exception of a transaction;
\* what it held in memory is gone, the rows stay as they are.
Crash(w) ==
  /\ worker[w].pc # "down"
  /\ worker' = [worker EXCEPT ![w] = Free("down")]
  /\ UNCHANGED <<job, ttl, wait, attempt>>

\* True time passes; a timer stops where no offset can tell it from less.
Tick ==
  /\ \E j \in Jobs : ttl[j] > -Skew \/ wait[j] > -Skew
  /\ ttl' = [j \in Jobs |-> IF ttl[j] > -Skew THEN ttl[j] - 1 ELSE ttl[j]]
  /\ wait' = [j \in Jobs |-> IF wait[j] > -Skew THEN wait[j] - 1 ELSE wait[j]]
  /\ UNCHANGED <<job, attempt, worker>>
-----------------------------------------------------------------------------
HandlerEnds(w) == HandlerReturns(w) \/ \E verdict \in Verdicts : HandlerRaises(w, verdict)

Finishes(w) ==
  \/ MarkSucceeded(w) \/ MarkFailed(w) \/ DiscardResult(w)
  \/ \E verdict \in Verdicts : CompletionFails(w, verdict)

WorkerStep(w) ==
  \/ StartWorker(w) \/ Crash(w)
  \/ \E j \in Jobs : ClaimNext(w, j)
  \/ Extend(w) \/ HeartbeatLost(w)
  \/ HandlerEnds(w) \/ DiscardOutput(w) \/ Finishes(w)

Next ==
  \/ \E j \in Jobs : Enqueue(j)
  \/ \E w \in Workers : WorkerStep(w)
  \/ RecoverExpired
  \/ Tick

Spec == Init /\ [][Next]_vars

\* What the deployment keeps doing: time passes, a dead process is restarted, a
\* process that keeps being up polls, the event loop runs what is ready, and the
\* handler ends by its deadline.  Who looks for expired leases: see Maintenance.
Fairness ==
  /\ WF_vars(Tick)
  /\ \A w \in Workers :
       /\ WF_vars(StartWorker(w))
       /\ SF_vars(\E j \in Jobs : ClaimNext(w, j))
       /\ WF_vars(HandlerEnds(w) \/ DiscardOutput(w))
       /\ WF_vars(Finishes(w))
-----------------------------------------------------------------------------
TypeOK ==
  /\ job \in [Jobs -> JobRows]
  /\ ttl \in [Jobs -> Int]
  /\ wait \in [Jobs -> Int]
  /\ attempt \in [Jobs -> [AttemptNumbers -> AttemptRows]]
  /\ worker \in [Workers -> WorkerStates]

\* The lease of a job and its attempts agree: an attempt is running exactly
\* when the job is leased, it is the newest one, and its worker is the owner.
\* Two tables are written by claim_next, _finish_attempt and recover_expired.
LeaseMatchesAttempt ==
  \A j \in Jobs : \A n \in AttemptNumbers :
    attempt[j][n].status = "running" <=>
      /\ job[j].status = "leased"
      /\ n = job[j].attempts
      /\ attempt[j][n].worker = job[j].owner

\* A job that waits can be claimed once its delay is over: no path leaves it
\* with a lease column set or with its attempts used up, where every later
\* claim_next would pass it by for ever.
NoLimbo ==
  \A j \in Jobs : job[j].status \in Waiting =>
    job[j].owner = NoWorker /\ job[j].attempts < MaxAttempts[j]

\* A job is dead-lettered before its attempts are used up only for a failure of
\* its handler: a crash, a lost lease or a timeout alone never does it.
DeadLetterHasCause ==
  \A j \in Jobs : job[j].status = "dead_letter" =>
    \/ Exhausted(j)
    \/ attempt[j][job[j].attempts].status = "failed"

\* The queue as its ledger of attempts: phase and log of JobLedger.
Phase == [j \in Jobs |->
  CASE job[j].status \in Waiting        -> "waiting"
    [] job[j].status = "leased"         -> "running"
    [] job[j].status = "succeeded"      -> "done"
    [] job[j].status = "dead_letter"    -> "dead"
    [] OTHER                            -> "absent"]

Log == [j \in Jobs |-> [n \in AttemptNumbers |-> attempt[j][n].status]]

Ledger == INSTANCE JobLedger WITH phase <- Phase, log <- Log, Budget <- MaxAttempts

\* Whatever workers, leases and clocks do, the queue keeps the promise of the
\* ledger: at most one open attempt per job, opened in order and within the
\* budget, closed once, and no job ended by infrastructure before its budget.
KeepsLedger == Ledger!Spec

\* A lease is taken from a live holder only after it expired, and a job leaves
\* "leased" otherwise only in the step in which its holder finishes it.
LeaseTakenOnlyWhenExpired ==
  [][\A j \in Jobs :
       job[j].status = "leased" /\ job'[j].status # "leased" =>
         \/ ttl[j] <= Skew
         \/ \E w \in Workers :
              /\ worker[w].job = j /\ worker[w].version = job[j].version
              /\ worker[w].pc \in {"returned", "raised"} /\ worker'[w] # worker[w]]_vars

\* A job succeeds only because the worker that holds its current lease saw its
\* handler return: a worker that lost the lease cannot complete it.
SuccessComesFromHolder ==
  [][\A j \in Jobs :
       job'[j].status = "succeeded" /\ job[j].status # "succeeded" =>
         \E w \in Workers : /\ worker[w].job = j
                            /\ worker[w].version = job[j].version
                            /\ worker[w].pc = "returned"]_vars

\* Every job that is enqueued is one day done or dead-lettered, through any
\* crashes, lost leases and restarts.  It takes somebody who looks for expired
\* leases; Maintenance says when there is one.
EventuallyTerminal ==
  \A j \in Jobs : job[j].status = "queued" ~> job[j].status \in Terminal
=============================================================================
