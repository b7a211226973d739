----------------------- MODULE RequirementsRunsProofs -----------------------
(***************************************************************************)
(* Theorems about RequirementsRuns, for every set of workers and runs and  *)
(* every budget, lease time and clock skew.  What JobQueueProofs shows of  *)
(* the jobs and their attempts holds here too, since every step is one of  *)
(* the queue.                                                              *)
(***************************************************************************)
EXTENDS RequirementsRuns, JobQueueProofs

\* The worker still has the lease of its claim: nobody else touches the cycle.
Holds(w) ==
  LET j == worker[w].job IN
  job[j].status = "leased" /\ job[j].owner = w /\ job[j].version = worker[w].version

\* What a handler that has stored its artifact, or told the workflow, or has
\* returned, can rely on; the last two also when somebody else has the lease.
HandlerInv(w) ==
  LET j == worker[w].job IN
  /\ stage[w] # "none" => worker[w].pc = "executing"
  /\ worker[w].pc \in {"executing", "returned"} => j \in Jobs
  /\ stage[w] \in {"stored", "notified"} \/ worker[w].pc = "returned" =>
       artifacts[j] > 0 /\ (Holds(w) => cycle[j] \in {"none", "completed"})
  /\ stage[w] = "notified" \/ worker[w].pc = "returned" =>
       notified[j] \/ workflow = "failed"

HandlersInv == \A w \in Workers : HandlerInv(w)

RunsInv ==
  /\ QueueInv
  /\ RunsTypeOK
  /\ HandlersInv
  /\ ActiveCycleHasLiveJob
  /\ SuccessHasResult
  /\ ReportedDeathFailsWorkflow
-----------------------------------------------------------------------------
(***************************************************************************)
(* The queue.                                                              *)
(***************************************************************************)

\* Every step of the requirements phase is a step of the queue, or leaves it.
LEMMA RunsStepIsQueueStep ==
  ASSUME [RunsNext]_allVars
  PROVE  [Next]_vars
<1>1. CASE UNCHANGED allVars
  BY <1>1 DEF allVars
<1>2. CASE \/ \E kind \in Requests : ReadProject(kind)
           \/ Review \/ \E w \in Workers : HandlerStep(w)
  BY <1>2 DEF ReadProject, Review, HandlerStep, LoadRun, BeginRun, StoreArtifact, RecordFailure,
     Notify
<1>3. CASE \/ \E j \in Jobs : QueueRun(j)
           \/ \E j \in Jobs, b \in Jobs \cup {Original} : RequestChanges(j, b)
  BY <1>3 DEF QueueRun, RequestChanges, Next
<1>4. ASSUME NEW w \in Workers, NEW j \in Jobs, ClaimRun(w, j) PROVE Next
  BY <1>4 DEF ClaimRun, Next, WorkerStep
<1>5. ASSUME NEW w \in Workers, ClaimDies(w) PROVE Next
  <2>1. Crash(w)
    BY <1>5 DEF ClaimDies, Crash
  <2> QED
    BY <2>1 DEF Next, WorkerStep
<1>6. ASSUME NEW w \in Workers, StartRuns(w) \/ CrashRun(w) PROVE Next
  BY <1>6 DEF StartRuns, CrashRun, Next, WorkerStep
<1>7. ASSUME NEW w \in Workers, HandlerLeaves(w) PROVE Next
  <2>1. HandlerEnds(w) \/ DiscardOutput(w)
    BY <1>7 DEF HandlerLeaves, RunReturns, DiscardRun, RunRaises, HandlerEnds
  <2> QED
    BY <2>1 DEF Next, WorkerStep
<1>8. ASSUME NEW w \in Workers, FailRunJob(w) \/ QueueOnly(w) PROVE Next
  <2>1. Extend(w) \/ HeartbeatLost(w) \/ Finishes(w)
    BY <1>8 DEF FailRunJob, QueueOnly, Finishes
  <2> QED
    BY <2>1 DEF Next, WorkerStep
<1>9. CASE RecoverRuns \/ (Tick /\ UNCHANGED pipeline)
  BY <1>9 DEF RecoverRuns, Next
<1> QED
  BY <1>1, <1>2, <1>3, <1>4, <1>5, <1>6, <1>7, <1>8, <1>9 DEF RunsNext

\* Crew runs, cycles and projects do nothing to the jobs and their attempts
\* that JobQueue does not allow.
THEOREM RunsQueue == RunsSpec => Spec
<1>1. RunsInit => Init
  BY DEF RunsInit
<1> QED
  BY <1>1, RunsStepIsQueueStep, PTL DEF RunsSpec, Spec

LEMMA RunsQueueInv == QueueInv /\ [RunsNext]_allVars => QueueInv' /\ \A j \in Jobs : Moves(j)
  BY RunsStepIsQueueStep, InvStep, StepMoves
-----------------------------------------------------------------------------
(***************************************************************************)
(* Types.                                                                  *)
(***************************************************************************)
LEMMA RunsTypeInit == RunsInit => RunsTypeOK
  BY TypeInit DEF RunsInit, RunsTypeOK, ProjectStates, Stages, Requests

LEMMA ReleasedCycle ==
  ASSUME NEW j \in Jobs
  PROVE  CycleReleased(j) \in {"none", "failed", "pending"}
  BY DEF CycleReleased

\* The parts of the tables that a step writes keep their types.
LEMMA RunsTypeStep ==
  ASSUME RunsTypeOK, TypeOK', [RunsNext]_allVars
  PROVE  RunsTypeOK'
<1> USE DEF RunsTypeOK, pipeline
<1>1. CASE UNCHANGED allVars
  BY <1>1 DEF allVars
<1>2. ASSUME NEW kind \in Requests, ReadProject(kind) PROVE RunsTypeOK'
  BY <1>2 DEF ReadProject
<1>3. CASE Review
  BY <1>3 DEF Review, ProjectStates, Requests
<1>4. ASSUME NEW j \in Jobs, QueueRun(j) PROVE RunsTypeOK'
  BY <1>4 DEF QueueRun, ProjectStates, Requests
<1>5. ASSUME NEW j \in Jobs, NEW b \in Jobs \cup {Original}, RequestChanges(j, b)
      PROVE  RunsTypeOK'
  BY <1>5 DEF RequestChanges, ProjectStates
<1>6. ASSUME NEW w \in Workers, NEW j \in Jobs, ClaimRun(w, j) PROVE RunsTypeOK'
  BY <1>6 DEF ClaimRun, Stages
<1>7. ASSUME NEW w \in Workers, ClaimDies(w) PROVE RunsTypeOK'
  BY <1>7 DEF ClaimDies
<1>8. ASSUME CyclesRecovered PROVE RunsTypeOK'
  <2>1. cycle' \in [Jobs -> {"none", "pending", "executing", "completed", "failed"}]
    BY <1>8, ReleasedCycle DEF CyclesRecovered
  <2> QED
    BY <1>8, <2>1 DEF CyclesRecovered
<1>9. ASSUME NEW w \in Workers, HandlerLeaves(w) \/ CrashRun(w) PROVE RunsTypeOK'
  BY <1>9 DEF HandlerLeaves, RunReturns, DiscardRun, RunRaises, CrashRun, Leaves, Stages
<1>10. ASSUME NEW w \in Workers, FailRunJob(w) PROVE RunsTypeOK'
  <2>1. worker[w].job \in Jobs
    BY <1>10 DEF FailRunJob, MarkFailed, Fence
  <2>2. cycle' \in [Jobs -> {"none", "pending", "executing", "completed", "failed"}]
    BY <1>10, <2>1, ReleasedCycle DEF FailRunJob
  <2>3. workflow' \in {"running", "failed"}
    BY <1>10 DEF FailRunJob
  <2> QED
    BY <1>10, <2>2, <2>3 DEF FailRunJob
<1>11. ASSUME NEW w \in Workers, QueueOnly(w) \/ (Tick /\ UNCHANGED pipeline) PROVE RunsTypeOK'
  BY <1>11 DEF QueueOnly
<1>12. ASSUME NEW w \in Workers, LoadRun(w) PROVE RunsTypeOK'
  BY <1>12 DEF LoadRun, Stages
<1>13. ASSUME NEW w \in Workers, BeginRun(w) PROVE RunsTypeOK'
  BY <1>13 DEF BeginRun, Stages, ProjectStates
<1>14. ASSUME NEW w \in Workers, StoreArtifact(w) PROVE RunsTypeOK'
  <2>1. artifacts' \in [Jobs -> Nat]
    <3>1. PICK j : artifacts' = [artifacts EXCEPT ![j] = @ + 1]
      BY <1>14 DEF StoreArtifact
    <3>2. \A k \in Jobs : artifacts[k] \in Nat /\ artifacts[k] + 1 \in Nat
      OBVIOUS
    <3>3. \A k \in Jobs : artifacts'[k] = IF k = j THEN artifacts[k] + 1 ELSE artifacts[k]
      BY <3>1
    <3>4. artifacts' = [k \in Jobs |-> artifacts'[k]]
      BY <3>1
    <3>5. \A k \in Jobs : artifacts'[k] \in Nat
      BY <3>2, <3>3
    <3> QED
      BY <3>4, <3>5
  <2>2. cycle' \in [Jobs -> {"none", "pending", "executing", "completed", "failed"}]
    BY <1>14 DEF StoreArtifact
  <2>3. /\ run' \in [Jobs -> {"absent", "queued", "running", "succeeded", "failed"}]
        /\ stage' \in [Workers -> Stages] /\ project' \in ProjectStates
    BY <1>14 DEF StoreArtifact, Stages, ProjectStates
  <2> QED
    BY <1>14, <2>1, <2>2, <2>3 DEF StoreArtifact
<1>15. ASSUME NEW w \in Workers, RecordFailure(w) PROVE RunsTypeOK'
  BY <1>15 DEF RecordFailure, Stages, ProjectStates
<1>16. ASSUME NEW w \in Workers, Notify(w) PROVE RunsTypeOK'
  BY <1>16 DEF Notify, Stages
<1>17. CASE Tick /\ UNCHANGED pipeline
  BY <1>17
<1> QED
  BY <1>1, <1>2, <1>3, <1>4, <1>5, <1>6, <1>7, <1>8, <1>9, <1>10, <1>11, <1>12, <1>13, <1>14,
     <1>15, <1>16, <1>17 DEF RunsNext, HandlerStep, RecoverRuns, StartRuns
-----------------------------------------------------------------------------
(***************************************************************************)
(* What one step does to one worker, its handler included.                 *)
(***************************************************************************)
SameClaim(w) ==
  worker'[w].pc = worker[w].pc /\ worker'[w].job = worker[w].job
    /\ worker'[w].version = worker[w].version

Stands(w)  == SameClaim(w) /\ stage'[w] = stage[w]
Rests(w)   == worker'[w].pc \in {"down", "idle", "raised"} /\ stage'[w] = "none"
Claims(w)  == /\ worker'[w].pc = "executing" /\ worker'[w].job \in Jobs
              /\ stage'[w] = "loading"
Works(w)   == /\ SameClaim(w) /\ worker[w].pc = "executing"
              /\ stage'[w] \in {"loaded", "reloaded", "refused", "crew", "doubted", "broken"}
Stores(w)  == /\ SameClaim(w) /\ worker[w].pc = "executing" /\ stage'[w] = "stored"
              /\ artifacts'[worker[w].job] > 0
              /\ cycle'[worker[w].job] \in {"none", "completed"}
Tells(w)   == /\ SameClaim(w) /\ worker[w].pc = "executing"
              /\ stage[w] = "stored" /\ stage'[w] = "notified"
              /\ notified'[worker[w].job] \/ workflow' = "failed"
Returns(w) == /\ worker[w].pc = "executing" /\ worker'[w].pc = "returned"
              /\ worker'[w].job = worker[w].job /\ worker'[w].version = worker[w].version
              /\ stage[w] = "notified" /\ stage'[w] = "none"

WorkerMoves(w) ==
  Stands(w) \/ Rests(w) \/ Claims(w) \/ Works(w) \/ Stores(w) \/ Tells(w) \/ Returns(w)

\* What the fields of a worker are after its own step in the queue.
LEMMA WorkerFields ==
  ASSUME TypeOK, NEW w \in Workers
  PROVE  /\ worker[w] \in WorkerStates
         /\ \A pc \in {"down", "idle"} : Free(pc).pc = pc
         /\ Crash(w) => worker'[w].pc = "down"
         /\ StartWorker(w) => worker'[w].pc = "idle" /\ worker[w].pc = "down"
         /\ HandlerReturns(w) => /\ worker[w].pc = "executing" /\ worker'[w].pc = "returned"
                                 /\ worker'[w].job = worker[w].job
                                 /\ worker'[w].version = worker[w].version
         /\ \A verdict : HandlerRaises(w, verdict) => worker'[w].pc = "raised"
         /\ DiscardOutput(w) \/ DiscardResult(w) \/ MarkFailed(w) => worker'[w].pc = "idle"
         /\ DiscardResult(w) \/ MarkFailed(w) \/ MarkSucceeded(w) => worker[w].pc # "executing"
         /\ MarkSucceeded(w) => worker'[w].pc \in {"idle", "raised"}
         /\ \A verdict : CompletionFails(w, verdict) =>
              worker'[w].pc = "raised" /\ worker[w].pc # "executing"
         /\ Extend(w) \/ HeartbeatLost(w) => SameClaim(w)
<1> USE DEF TypeOK
<1>1. worker[w] \in WorkerStates /\ DOMAIN worker = Workers
  OBVIOUS
<1>2. \A pc \in {"down", "idle"} : Free(pc).pc = pc
  BY DEF Free
<1>3. /\ Crash(w) => worker'[w].pc = "down"
      /\ StartWorker(w) => worker'[w].pc = "idle" /\ worker[w].pc = "down"
      /\ DiscardOutput(w) \/ DiscardResult(w) \/ MarkFailed(w) => worker'[w].pc = "idle"
      /\ DiscardResult(w) \/ MarkFailed(w) \/ MarkSucceeded(w) => worker[w].pc # "executing"
  BY <1>1, <1>2 DEF Crash, StartWorker, DiscardOutput, DiscardResult, MarkFailed, MarkSucceeded
<1>4. HandlerReturns(w) => /\ worker[w].pc = "executing" /\ worker'[w].pc = "returned"
                           /\ worker'[w].job = worker[w].job
                           /\ worker'[w].version = worker[w].version
  BY <1>1 DEF HandlerReturns, WorkerStates
<1>5. \A verdict : HandlerRaises(w, verdict) => worker'[w].pc = "raised"
  BY <1>1 DEF HandlerRaises, WorkerStates
<1>6. MarkSucceeded(w) => worker'[w].pc \in {"idle", "raised"}
  BY <1>1, <1>2 DEF MarkSucceeded, WorkerStates
<1>7. \A verdict : CompletionFails(w, verdict) =>
        worker'[w].pc = "raised" /\ worker[w].pc # "executing"
  BY <1>1 DEF CompletionFails, WorkerStates
<1>8. Extend(w) \/ HeartbeatLost(w) => SameClaim(w)
  BY <1>1 DEF Extend, HeartbeatLost, SameClaim, WorkerStates
<1> QED
  BY <1>1, <1>2, <1>3, <1>4, <1>5, <1>6, <1>7, <1>8

\* A step of one worker leaves the others where they are.
LEMMA OthersStand ==
  ASSUME RunsTypeOK, NEW v \in Workers, NEW w \in Workers, v # w,
         \/ \E j \in Jobs : ClaimRun(v, j)
         \/ ClaimDies(v) \/ StartRuns(v) \/ CrashRun(v)
         \/ HandlerStep(v) \/ HandlerLeaves(v)
         \/ FailRunJob(v) \/ QueueOnly(v)
  PROVE  Stands(w)
<1> USE DEF RunsTypeOK, TypeOK
<1>1. worker'[w] = worker[w]
  BY DEF ClaimRun, ClaimDies, StartRuns, CrashRun, HandlerStep, HandlerLeaves, FailRunJob,
     QueueOnly, ClaimNext, StartWorker, Crash, LoadRun, BeginRun, StoreArtifact, RecordFailure,
     Notify, RunReturns, RunRaises, DiscardRun, HandlerReturns, HandlerRaises, DiscardOutput,
     MarkFailed, Extend, HeartbeatLost, MarkSucceeded, DiscardResult, CompletionFails, vars
<1>2. stage'[w] = stage[w]
  BY DEF ClaimRun, ClaimDies, StartRuns, CrashRun, HandlerStep, HandlerLeaves, FailRunJob,
     QueueOnly, LoadRun, BeginRun, StoreArtifact, RecordFailure,
     Notify, RunReturns, RunRaises, DiscardRun, Leaves, CyclesRecovered, pipeline
<1> QED
  BY <1>1, <1>2 DEF Stands, SameClaim

LEMMA WorkerStepMoves ==
  ASSUME RunsTypeOK, HandlersInv, [RunsNext]_allVars, NEW w \in Workers
  PROVE  WorkerMoves(w)
<1> USE DEF WorkerMoves
<1>1. TypeOK /\ stage \in [Workers -> Stages] /\ worker[w] \in WorkerStates
  BY DEF RunsTypeOK, TypeOK
<1>2. worker[w].pc # "executing" => stage[w] = "none"
  BY DEF HandlersInv, HandlerInv
<1>3. worker[w].pc \in {"executing", "returned"} => worker[w].job \in Jobs
  BY DEF HandlersInv, HandlerInv
<1>4. CASE UNCHANGED allVars
  BY <1>4 DEF allVars, vars, pipeline, Stands, SameClaim
<1>5. CASE \/ \E kind \in Requests : ReadProject(kind)
           \/ Review \/ \E j \in Jobs : QueueRun(j)
           \/ \E j \in Jobs, b \in Jobs \cup {Original} : RequestChanges(j, b)
           \/ RecoverRuns \/ (Tick /\ UNCHANGED pipeline)
  BY <1>5 DEF ReadProject, Review, QueueRun, RequestChanges, Enqueue, RecoverRuns, RecoverExpired,
     CyclesRecovered, Tick, vars, pipeline, Stands, SameClaim
<1>6. ASSUME NEW j \in Jobs, ClaimRun(w, j) PROVE Claims(w)
  BY <1>1, <1>6 DEF ClaimRun, ClaimNext, Claims, TypeOK
<1>7. ASSUME ClaimDies(w) \/ StartRuns(w) PROVE Rests(w)
  <2>1. worker[w].pc # "executing" /\ worker'[w].pc \in {"down", "idle"}
    BY <1>1, <1>7, WorkerFields DEF ClaimDies, StartRuns, TypeOK
  <2>2. stage' = stage
    BY <1>7 DEF ClaimDies, StartRuns, CyclesRecovered, pipeline
  <2> QED
    BY <1>2, <2>1, <2>2 DEF Rests
<1>8. ASSUME CrashRun(w) PROVE Rests(w)
  BY <1>1, <1>8, WorkerFields DEF CrashRun, Leaves, Rests
<1>9. ASSUME HandlerLeaves(w) PROVE Rests(w) \/ Returns(w)
  <2>1. CASE RunReturns(w)
    BY <1>1, <2>1, WorkerFields DEF RunReturns, Leaves, Returns
  <2>2. CASE DiscardRun(w)
    BY <1>1, <2>2, WorkerFields DEF DiscardRun, Leaves, Rests
  <2>3. CASE \E verdict \in Verdicts : RunRaises(w, verdict)
    BY <1>1, <2>3, WorkerFields DEF RunRaises, Leaves, Rests
  <2> QED
    BY <1>9, <2>1, <2>2, <2>3 DEF HandlerLeaves
<1>10. ASSUME FailRunJob(w) PROVE Rests(w)
  <2>1. worker[w].pc # "executing" /\ worker'[w].pc = "idle" /\ stage' = stage
    BY <1>1, <1>10, WorkerFields DEF FailRunJob
  <2> QED
    BY <1>2, <2>1 DEF Rests
<1>11. ASSUME QueueOnly(w) PROVE Rests(w) \/ Stands(w)
  <2>1. stage' = stage
    BY <1>11 DEF QueueOnly, pipeline
  <2>2. CASE Extend(w) \/ HeartbeatLost(w)
    BY <1>1, <2>1, <2>2, WorkerFields DEF Stands
  <2>3. CASE MarkSucceeded(w) \/ DiscardResult(w) \/ \E verdict \in Verdicts : CompletionFails(w, verdict)
    <3>1. worker[w].pc # "executing" /\ worker'[w].pc \in {"idle", "raised"}
      BY <1>1, <2>3, WorkerFields
    <3> QED
      BY <1>2, <2>1, <3>1 DEF Rests
  <2> QED
    BY <1>11, <2>2, <2>3 DEF QueueOnly
<1>12. ASSUME LoadRun(w) \/ BeginRun(w) \/ RecordFailure(w) PROVE Works(w)
  BY <1>1, <1>12 DEF LoadRun, BeginRun, RecordFailure, Works, SameClaim, vars, Executing
<1>13. ASSUME StoreArtifact(w) PROVE Stores(w) \/ Works(w)
  <2>1. SameClaim(w) /\ worker[w].pc = "executing" /\ stage'[w] \in {"stored", "doubted"}
    BY <1>1, <1>13 DEF StoreArtifact, SameClaim, vars, Executing
  <2>2. worker[w].job \in Jobs
    BY <1>3, <2>1
  <2>3. cycle'[worker[w].job] \in {"none", "completed"}
    BY <1>13, <2>2 DEF StoreArtifact, RunsTypeOK
  <2>4. artifacts'[worker[w].job] > 0
    BY <1>13, <2>2 DEF StoreArtifact, RunsTypeOK
  <2> QED
    BY <2>1, <2>3, <2>4 DEF Stores, Works
<1>14. ASSUME Notify(w) PROVE Tells(w)
  <2>1. /\ SameClaim(w) /\ worker[w].pc = "executing" /\ stage[w] = "stored"
        /\ stage'[w] = "notified"
    BY <1>1, <1>14 DEF Notify, SameClaim, vars, Executing
  <2>2. worker[w].job \in Jobs
    BY <1>3, <2>1
  <2>3. notified'[worker[w].job] \/ workflow' = "failed"
    BY <1>14, <2>2 DEF Notify, RunsTypeOK
  <2> QED
    BY <2>1, <2>3 DEF Tells
<1> QED
  BY <1>4, <1>5, <1>6, <1>7, <1>8, <1>9, <1>10, <1>11, <1>12, <1>13, <1>14, OthersStand
  DEF RunsNext, HandlerStep
-----------------------------------------------------------------------------
(***************************************************************************)
(* What one step does to one job and its cycle.                            *)
(***************************************************************************)
CycleStands(j)  == job'[j].status = job[j].status /\ cycle'[j] = cycle[j]
CycleEnters(j)  == job[j].status = "absent" /\ job'[j].status = "queued"
                     /\ cycle'[j] \in {cycle[j], "pending"}
CycleClaimed(j) == /\ job[j].status \in Waiting /\ job'[j].status = "leased"
                   /\ cycle'[j] \in {"none", "executing"}
                   /\ \E w \in Workers : job'[j].owner = w /\ Claims(w)
CycleEnds(j)    == /\ job[j].status = "leased"
                   /\ \/ job'[j].status = "retry_wait" /\ cycle'[j] \in {"none", "pending"}
                      \/ job'[j].status = "dead_letter" /\ cycle'[j] \in {"none", "failed"}
CycleDone(j)    == job'[j] = job[j] /\ cycle'[j] = "completed"
CycleServed(j)  == /\ job'[j].status = "succeeded" /\ cycle'[j] = cycle[j]
                   /\ \E w \in Workers : worker[w].pc = "returned" /\ worker[w].job = j /\ Holds(w)

CycleMoves(j) ==
  \/ CycleStands(j) \/ CycleEnters(j) \/ CycleClaimed(j) \/ CycleEnds(j) \/ CycleDone(j)
  \/ CycleServed(j)

\* The row and the cycle of a job that gave up its lease.
LEMMA ReleasedEnds ==
  ASSUME RunsTypeOK, NEW j \in Jobs, job[j].status = "leased", NEW r \in BOOLEAN,
         job'[j] = Released(j, r), cycle'[j] = CycleReleased(j)
  PROVE  CycleEnds(j)
<1>1. job'[j].status \in {"retry_wait", "dead_letter"}
  BY ReleasedFields DEF RunsTypeOK
<1> QED
  BY <1>1 DEF CycleEnds, CycleReleased

LEMMA RecoveryCycles ==
  ASSUME RunsTypeOK, NEW o \in Offsets, Recovery(o), CyclesRecovered, NEW j \in Jobs
  PROVE  CycleMoves(j)
<1>1. CASE Expired(j, o)
  <2>1. job[j].status = "leased" /\ job'[j] = Released(j, TRUE)
    BY <1>1 DEF Expired, Recovery
  <2>2. job'[j] # job[j]
    BY <2>1, ReleasedFields DEF RunsTypeOK
  <2>3. cycle'[j] = CycleReleased(j)
    BY <2>2 DEF CyclesRecovered
  <2> QED
    BY <2>1, <2>3, ReleasedEnds DEF CycleMoves
<1>2. CASE ~Expired(j, o)
  <2>1. job'[j] = job[j]
    BY <1>2 DEF Recovery
  <2> QED
    BY <2>1 DEF CyclesRecovered, CycleMoves, CycleStands
<1> QED
  BY <1>1, <1>2

LEMMA StepCycles ==
  ASSUME RunsTypeOK, HandlersInv, [RunsNext]_allVars, NEW j \in Jobs
  PROVE  CycleMoves(j)
<1> USE DEF CycleMoves
<1>1. TypeOK /\ job[j] \in JobRows /\ cycle \in [Jobs -> {"none", "pending", "executing", "completed", "failed"}]
  BY DEF RunsTypeOK, TypeOK
<1>2. CASE UNCHANGED allVars
  BY <1>2 DEF allVars, vars, pipeline, CycleStands
<1>3. CASE \/ \E kind \in Requests : ReadProject(kind)
           \/ Review \/ (Tick /\ UNCHANGED pipeline)
  BY <1>3 DEF ReadProject, Review, Tick, vars, pipeline, CycleStands
<1>4. ASSUME NEW k \in Jobs,
             QueueRun(k) \/ \E b \in Jobs \cup {Original} : RequestChanges(k, b)
      PROVE  CycleMoves(j)
  <2>1. job[k].status = "absent" /\ job' = [job EXCEPT ![k].status = "queued"]
    BY <1>4 DEF QueueRun, RequestChanges, Enqueue
  <2>2. cycle' = cycle \/ cycle' = [cycle EXCEPT ![k] = "pending"]
    BY <1>4 DEF QueueRun, RequestChanges
  <2>3. CASE j = k
    BY <1>1, <2>1, <2>2, <2>3 DEF CycleEnters, TypeOK, JobRows
  <2>4. CASE j # k
    BY <1>1, <2>1, <2>2, <2>4 DEF CycleStands, TypeOK
  <2> QED
    BY <2>3, <2>4
<1>5. ASSUME NEW w \in Workers, NEW k \in Jobs, ClaimRun(w, k) PROVE CycleMoves(j)
  <2>1. /\ job' = [job EXCEPT ![k].status = "leased", ![k].owner = w,
                              ![k].version = @ + 1, ![k].attempts = @ + 1]
        /\ job[k].status \in Waiting
    BY <1>5 DEF ClaimRun, ClaimNext, FirstClaimable, Claimable
  <2>2. /\ cycle[k] \in {"none", "pending"}
        /\ cycle' = [cycle EXCEPT ![k] = IF @ = "none" THEN @ ELSE "executing"]
    BY <1>5 DEF ClaimRun
  <2>3. CASE j = k
    <3>1. job'[j].status = "leased" /\ job'[j].owner = w
      BY <1>1, <2>1, <2>3 DEF TypeOK, JobRows
    <3>2. Claims(w)
      BY <1>1, <1>5 DEF ClaimRun, ClaimNext, Claims, RunsTypeOK, TypeOK
    <3> QED
      BY <1>1, <2>1, <2>2, <2>3, <3>1, <3>2 DEF CycleClaimed
  <2>4. CASE j # k
    BY <1>1, <2>1, <2>2, <2>4 DEF CycleStands, TypeOK
  <2> QED
    BY <2>3, <2>4
<1>6. ASSUME NEW w \in Workers, ClaimDies(w) \/ CrashRun(w) \/ HandlerLeaves(w)
      PROVE  CycleMoves(j)
  BY <1>6 DEF ClaimDies, CrashRun, Crash, HandlerLeaves, RunReturns, HandlerReturns, DiscardRun,
     DiscardOutput, RunRaises, HandlerRaises, pipeline, CycleStands
<1>7. ASSUME NEW w \in Workers, LoadRun(w) \/ BeginRun(w) \/ RecordFailure(w) \/ Notify(w)
      PROVE  CycleMoves(j)
  BY <1>7 DEF LoadRun, BeginRun, RecordFailure, Notify, vars, CycleStands
<1>8. ASSUME NEW w \in Workers, StoreArtifact(w) PROVE CycleMoves(j)
  <2>1. /\ job' = job
        /\ cycle' = [cycle EXCEPT ![worker[w].job] = IF @ = "none" THEN @ ELSE "completed"]
    BY <1>8 DEF StoreArtifact, vars
  <2> QED
    BY <1>1, <2>1 DEF CycleStands, CycleDone
<1>9. ASSUME NEW w \in Workers, FailRunJob(w) PROVE CycleMoves(j)
  <2> DEFINE k == worker[w].job
  <2>1. k \in Jobs /\ job[k].status = "leased"
    BY <1>9 DEF FailRunJob, MarkFailed, Fence
  <2>2. PICK r \in BOOLEAN : job' = [job EXCEPT ![k] = Released(k, r)]
    BY <1>9 DEF FailRunJob, MarkFailed
  <2>3. cycle' = [cycle EXCEPT ![k] = CycleReleased(k)]
    BY <1>9 DEF FailRunJob
  <2>4. CASE j = k
    BY <1>1, <2>1, <2>2, <2>3, <2>4, ReleasedEnds DEF TypeOK
  <2>5. CASE j # k
    BY <1>1, <2>1, <2>2, <2>3, <2>5 DEF TypeOK, CycleStands
  <2> QED
    BY <2>4, <2>5
<1>10. ASSUME NEW w \in Workers, QueueOnly(w) PROVE CycleMoves(j)
  <2>1. cycle' = cycle
    BY <1>10 DEF QueueOnly, pipeline
  <2>2. CASE MarkSucceeded(w)
    <3>1. /\ worker[w].pc = "returned" /\ worker[w].job \in Jobs /\ Holds(w)
          /\ job' = [job EXCEPT ![worker[w].job].status = "succeeded",
                                ![worker[w].job].owner = NoWorker]
      BY <2>2 DEF MarkSucceeded, Fence, Holds
    <3>2. CASE j = worker[w].job
      <4>1. job'[j].status = "succeeded"
        BY <1>1, <3>1, <3>2 DEF TypeOK, JobRows
      <4> QED
        BY <2>1, <3>1, <3>2, <4>1 DEF CycleServed
    <3>3. CASE j # worker[w].job
      BY <1>1, <2>1, <3>1, <3>3 DEF TypeOK, CycleStands
    <3> QED
      BY <3>2, <3>3
  <2>3. CASE ~MarkSucceeded(w)
    <3>1. job' = job
      BY <1>10, <2>3 DEF QueueOnly, Extend, HeartbeatLost, DiscardResult, CompletionFails
    <3> QED
      BY <2>1, <3>1 DEF CycleStands
  <2> QED
    BY <2>2, <2>3
<1>11. ASSUME RecoverRuns \/ \E w \in Workers : StartRuns(w) PROVE CycleMoves(j)
  BY <1>11, RecoveryCycles DEF RecoverRuns, StartRuns, RecoverExpired, StartWorker
<1> QED
  BY <1>2, <1>3, <1>4, <1>5, <1>6, <1>7, <1>8, <1>9, <1>10, <1>11 DEF RunsNext, HandlerStep

\* Artifacts, the news of them and the end of the workflow are not taken back.
LEMMA ResultsKept ==
  ASSUME RunsTypeOK, [RunsNext]_allVars, NEW j \in Jobs
  PROVE  /\ artifacts[j] > 0 => artifacts'[j] > 0
         /\ notified[j] => notified'[j]
         /\ workflow = "failed" => workflow' = "failed"
<1>1. artifacts[j] \in Nat /\ artifacts \in [Jobs -> Nat] /\ notified \in [Jobs -> BOOLEAN]
  BY DEF RunsTypeOK
<1>2. ASSUME NEW w \in Workers, StoreArtifact(w)
      PROVE  (artifacts[j] > 0 => artifacts'[j] > 0) /\ notified' = notified /\ workflow' = workflow
  BY <1>1, <1>2 DEF StoreArtifact
<1>3. ASSUME NEW w \in Workers, Notify(w)
      PROVE  artifacts' = artifacts /\ (notified[j] => notified'[j]) /\ workflow' = workflow
  BY <1>1, <1>3 DEF Notify
<1>4. ASSUME NEW w \in Workers, FailRunJob(w)
      PROVE  /\ artifacts' = artifacts /\ notified' = notified
             /\ workflow = "failed" => workflow' = "failed"
  BY <1>4 DEF FailRunJob
<1>5. CASE UNCHANGED <<artifacts, notified, workflow>>
  BY <1>5
<1> QED
  BY <1>2, <1>3, <1>4, <1>5
  DEF RunsNext, HandlerStep, allVars, pipeline, ReadProject, Review, QueueRun, RequestChanges,
      ClaimRun, ClaimDies, StartRuns, RecoverRuns, CyclesRecovered, CrashRun, LoadRun, BeginRun,
      RecordFailure, HandlerLeaves, RunReturns, DiscardRun, RunRaises, QueueOnly
-----------------------------------------------------------------------------
(***************************************************************************)
(* The inductive invariant.                                                *)
(***************************************************************************)

\* A worker that still has its lease after a step had it before, and nobody has
\* made the cycle of its job active meanwhile.
LEMMA HoldsKept ==
  ASSUME RunsInv, [RunsNext]_allVars, NEW w \in Workers, worker[w].job \in Jobs,
         worker'[w].job = worker[w].job, worker'[w].version = worker[w].version,
         ~Claims(w), Holds(w)'
  PROVE  Holds(w) /\ cycle'[worker[w].job] \in {cycle[worker[w].job], "completed"}
<1> PICK j \in Jobs : j = worker[w].job
  OBVIOUS
<1>1. CycleMoves(j) /\ Moves(j)
  BY StepCycles, RunsQueueInv DEF RunsInv
<1>2. job'[j].status = "leased" /\ job'[j].owner = w /\ job'[j].version = worker[w].version
  BY DEF Holds
<1>3. ~CycleClaimed(j)
  BY <1>2 DEF CycleClaimed
<1>4. job[j].status = "leased" /\ cycle'[j] \in {cycle[j], "completed"}
  BY <1>1, <1>2, <1>3 DEF CycleMoves, CycleStands, CycleEnters, CycleEnds, CycleDone, CycleServed
<1>5. job'[j] = job[j]
  BY <1>1, <1>2, <1>4 DEF Moves, Kept, Entered, Opened, Ended, Waiting, Terminal
<1> QED
  BY <1>2, <1>4, <1>5 DEF Holds

LEMMA HandlersStep ==
  ASSUME RunsInv, [RunsNext]_allVars
  PROVE  HandlersInv'
<1> SUFFICES ASSUME NEW w \in Workers PROVE HandlerInv(w)'
  BY DEF HandlersInv
<1>1. RunsTypeOK /\ HandlersInv /\ HandlerInv(w) /\ WorkerMoves(w)
  BY WorkerStepMoves DEF RunsInv, HandlersInv
<1>2. \A j \in Jobs : /\ artifacts[j] > 0 => artifacts'[j] > 0
                      /\ notified[j] => notified'[j]
                      /\ workflow = "failed" => workflow' = "failed"
  BY <1>1, ResultsKept
<1>3. CASE Stands(w)
  <2>1. Claims(w) => stage[w] = "loading" /\ worker[w].pc = "executing"
    BY <1>3 DEF Stands, Claims, SameClaim
  <2>2. CASE stage[w] \in {"stored", "notified"} \/ worker[w].pc = "returned"
    <3>1. worker[w].job \in Jobs /\ ~Claims(w)
      BY <1>1, <2>1, <2>2 DEF HandlerInv
    <3>2. Holds(w)' => Holds(w) /\ cycle'[worker[w].job] \in {cycle[worker[w].job], "completed"}
      BY <1>3, <3>1, HoldsKept DEF Stands, SameClaim
    <3> QED
      BY <1>1, <1>2, <1>3, <3>1, <3>2 DEF HandlerInv, Stands, SameClaim
  <2>3. CASE ~(stage[w] \in {"stored", "notified"} \/ worker[w].pc = "returned")
    BY <1>1, <1>3, <2>3 DEF HandlerInv, Stands, SameClaim
  <2> QED
    BY <2>2, <2>3
<1>4. CASE Rests(w)
  BY <1>4 DEF HandlerInv, Rests
<1>5. CASE Claims(w)
  BY <1>5 DEF HandlerInv, Claims
<1>6. CASE Works(w)
  BY <1>1, <1>6 DEF HandlerInv, Works, SameClaim
<1>7. CASE Stores(w)
  BY <1>1, <1>7 DEF HandlerInv, Stores, SameClaim
<1>8. CASE Tells(w) \/ Returns(w)
  <2>1. /\ worker[w].pc = "executing" /\ stage[w] \in {"stored", "notified"}
        /\ worker'[w].job = worker[w].job /\ worker'[w].version = worker[w].version
        /\ worker[w].job \in Jobs /\ ~Claims(w)
    BY <1>1, <1>8 DEF HandlerInv, Tells, Returns, SameClaim, Claims
  <2>2. Holds(w)' => Holds(w) /\ cycle'[worker[w].job] \in {cycle[worker[w].job], "completed"}
    BY <2>1, HoldsKept
  <2>3. notified'[worker[w].job] \/ workflow' = "failed"
    BY <1>1, <1>2, <1>8, <2>1 DEF HandlerInv, Tells, Returns
  <2> QED
    BY <1>1, <1>2, <1>8, <2>1, <2>2, <2>3 DEF HandlerInv, Tells, Returns, SameClaim
<1> QED
  BY <1>1, <1>3, <1>4, <1>5, <1>6, <1>7, <1>8 DEF WorkerMoves

LEMMA ActiveCycleStep ==
  ASSUME RunsInv, [RunsNext]_allVars
  PROVE  ActiveCycleHasLiveJob'
<1> SUFFICES ASSUME NEW j \in Jobs
             PROVE  /\ cycle'[j] = "pending" => job'[j].status \in Waiting
                    /\ cycle'[j] = "executing" => job'[j].status = "leased"
  BY DEF ActiveCycleHasLiveJob
<1>1. CycleMoves(j) /\ ActiveCycleHasLiveJob
  BY StepCycles DEF RunsInv
<1>2. CASE CycleServed(j)
  <2>1. cycle[j] \in {"none", "completed"}
    BY <1>2 DEF CycleServed, RunsInv, HandlersInv, HandlerInv
  <2> QED
    BY <1>2, <2>1 DEF CycleServed
<1>3. CASE ~CycleServed(j)
  BY <1>1, <1>3 DEF CycleMoves, CycleStands, CycleEnters, CycleClaimed, CycleEnds, CycleDone,
     ActiveCycleHasLiveJob, Waiting
<1> QED
  BY <1>2, <1>3

LEMMA SuccessStepHasResult ==
  ASSUME RunsInv, [RunsNext]_allVars
  PROVE  SuccessHasResult'
<1> SUFFICES ASSUME NEW j \in Jobs, job'[j].status = "succeeded"
             PROVE  /\ artifacts'[j] > 0 /\ cycle'[j] \in {"none", "completed"}
                    /\ notified'[j] \/ workflow' = "failed"
  BY DEF SuccessHasResult
<1>1. CycleMoves(j) /\ SuccessHasResult
  BY StepCycles DEF RunsInv
<1>2. /\ artifacts[j] > 0 => artifacts'[j] > 0
      /\ notified[j] => notified'[j]
      /\ workflow = "failed" => workflow' = "failed"
  BY ResultsKept DEF RunsInv
<1>3. CASE CycleServed(j)
  <2>1. /\ artifacts[j] > 0 /\ cycle[j] \in {"none", "completed"}
        /\ notified[j] \/ workflow = "failed"
    BY <1>3 DEF CycleServed, RunsInv, HandlersInv, HandlerInv
  <2> QED
    BY <1>2, <1>3, <2>1 DEF CycleServed
<1>4. CASE ~CycleServed(j)
  <2>1. job[j].status = "succeeded" /\ cycle'[j] \in {cycle[j], "completed"}
    BY <1>1, <1>4 DEF CycleMoves, CycleStands, CycleEnters, CycleClaimed, CycleEnds, CycleDone
  <2> QED
    BY <1>1, <1>2, <2>1 DEF SuccessHasResult
<1> QED
  BY <1>3, <1>4

\* A dead letter whose last attempt a worker reported.
Reported(j) ==
  job[j].status = "dead_letter" /\ attempt[j][job[j].attempts].status # "abandoned"

\* Dead letters stay, with their attempts.
LEMMA ReportedKept ==
  ASSUME RunsInv, [RunsNext]_allVars, NEW j \in Jobs, job[j].status = "dead_letter"
  PROVE  Reported(j)' <=> Reported(j)
<1>1. Kept(j)
  BY RunsQueueInv DEF RunsInv, Moves, Entered, Opened, Ended, Waiting
<1> QED
  BY <1>1 DEF Kept, Reported

\* What expires is abandoned, and nobody reported it.
LEMMA RecoveryReportsNone ==
  ASSUME RunsInv, NEW o \in Offsets, Recovery(o), NEW j \in Jobs, Reported(j)'
  PROVE  Reported(j)
<1>1. CASE Expired(j, o)
  <2>1. job[j].status = "leased" /\ job'[j] = Released(j, TRUE) /\ attempt'[j] = Abandoned(j)
    BY <1>1 DEF Expired, Recovery
  <2>2. /\ job[j].attempts \in AttemptNumbers /\ job'[j].attempts = job[j].attempts
        /\ attempt[j] \in [AttemptNumbers -> AttemptRows]
    BY <2>1, LeasedAttempt, ReleasedFields DEF RunsInv, QueueInv, TypeOK
  <2>3. attempt'[j] = [attempt[j] EXCEPT ![job[j].attempts] =
                        [attempt[j][job[j].attempts] EXCEPT !.status = "abandoned"]]
    BY <2>1, ClosedNewest DEF RunsInv
  <2>4. attempt'[j][job'[j].attempts].status = "abandoned"
    BY <2>2, <2>3 DEF AttemptRows
  <2> QED
    BY <2>4 DEF Reported
<1>2. CASE ~Expired(j, o)
  BY <1>2 DEF Recovery, Reported
<1> QED
  BY <1>1, <1>2

\* A worker that reports the last failure of a job fails the workflow with it.
LEMMA FailureIsReported ==
  ASSUME RunsInv, NEW w \in Workers, FailRunJob(w), NEW j \in Jobs
  PROVE  /\ Reported(j)' => Reported(j) \/ workflow' = "failed"
         /\ workflow' = "failed" => workflow = "failed" \/ \E k \in Jobs : Reported(k)'
<1> DEFINE outcome == IF worker[w].verdict = "timed_out" THEN "timed_out" ELSE "failed"
<1> PICK k : k = worker[w].job
  OBVIOUS
<1>1. k \in Jobs /\ job[k].status = "leased" /\ job[k].version = worker[w].version
  BY DEF FailRunJob, MarkFailed, Fence
<1>2. PICK r \in BOOLEAN : job' = [job EXCEPT ![k] = Released(k, r)]
  BY DEF FailRunJob, MarkFailed
<1>3. attempt' = [attempt EXCEPT ![k] = Closed(k, job[k].version, outcome)]
  BY <1>1 DEF FailRunJob, MarkFailed
<1>4. workflow' = IF job'[k].status = "dead_letter" THEN "failed" ELSE workflow
  BY DEF FailRunJob
<1>5. job \in [Jobs -> JobRows] /\ attempt \in [Jobs -> [AttemptNumbers -> AttemptRows]]
  BY DEF RunsInv, QueueInv, TypeOK
<1>6. Reported(k)' <=> job'[k].status = "dead_letter"
  <2>1. job'[k].attempts = job[k].attempts /\ job[k].attempts \in AttemptNumbers
    BY <1>1, <1>2, <1>5, LeasedAttempt, ReleasedFields DEF RunsInv, QueueInv
  <2>2. attempt'[k] = [attempt[k] EXCEPT ![job[k].attempts] =
                        [attempt[k][job[k].attempts] EXCEPT !.status = outcome]]
    BY <1>1, <1>3, <1>5, ClosedNewest DEF RunsInv
  <2>3. attempt'[k][job'[k].attempts].status = outcome
    BY <1>1, <1>5, <2>1, <2>2 DEF AttemptRows
  <2> QED
    BY <2>3 DEF Reported
<1>7. \A i \in Jobs \ {k} : Reported(i)' <=> Reported(i)
  BY <1>2, <1>3, <1>5 DEF Reported
<1> QED
  BY <1>1, <1>4, <1>6, <1>7

LEMMA ReportedStep ==
  ASSUME RunsInv, [RunsNext]_allVars
  PROVE  ReportedDeathFailsWorkflow'
<1>1. ReportedDeathFailsWorkflow <=> (workflow = "failed" <=> \E j \in Jobs : Reported(j))
  BY DEF ReportedDeathFailsWorkflow, Reported
<1>2. ReportedDeathFailsWorkflow' <=> (workflow' = "failed" <=> \E j \in Jobs : Reported(j)')
  BY DEF ReportedDeathFailsWorkflow, Reported
<1>3. \A j \in Jobs : Reported(j) => Reported(j)'
  BY ReportedKept DEF Reported
<1>4. workflow = "failed" => workflow' = "failed"
  BY ResultsKept, <1>1 DEF RunsInv
<1>5. ASSUME NEW w \in Workers, FailRunJob(w) PROVE ReportedDeathFailsWorkflow'
  <2>1. \A j \in Jobs : Reported(j)' => Reported(j) \/ workflow' = "failed"
    BY <1>5, FailureIsReported
  <2>2. workflow' = "failed" => workflow = "failed" \/ \E j \in Jobs : Reported(j)'
    <3>1. worker[w].job \in Jobs
      BY <1>5 DEF FailRunJob, MarkFailed, Fence
    <3> QED
      BY <1>5, <3>1, FailureIsReported
  <2> QED
    BY <1>1, <1>2, <1>3, <1>4, <2>1, <2>2 DEF RunsInv
<1>6. ASSUME workflow' = workflow, \A j \in Jobs : Reported(j)' => Reported(j)
      PROVE  ReportedDeathFailsWorkflow'
  BY <1>1, <1>2, <1>3, <1>6 DEF RunsInv
<1>7. ASSUME NEW o \in Offsets, Recovery(o), CyclesRecovered PROVE ReportedDeathFailsWorkflow'
  BY <1>6, <1>7, RecoveryReportsNone DEF CyclesRecovered
<1>8. ASSUME UNCHANGED <<workflow, job, attempt>> PROVE ReportedDeathFailsWorkflow'
  BY <1>6, <1>8 DEF Reported
<1>9. ASSUME workflow' = workflow,
             NEW k \in Jobs, Enqueue(k) \/ \E w \in Workers : ClaimNext(w, k)
      PROVE  ReportedDeathFailsWorkflow'
  <2>1. job \in [Jobs -> JobRows]
    BY DEF RunsInv, QueueInv, TypeOK
  <2>2. \A j \in Jobs \ {k} : job'[j] = job[j]
    BY <1>9, <2>1 DEF Enqueue, ClaimNext
  <2>3. job'[k].status \in {"queued", "leased"}
    <3>1. Enqueue(k) => job'[k].status = "queued"
      BY <2>1 DEF Enqueue, JobRows
    <3>2. \A w \in Workers : ClaimNext(w, k) => job'[k].status = "leased"
      BY <2>1 DEF ClaimNext, JobRows
    <3> QED
      BY <1>9, <3>1, <3>2
  <2>4. \A j \in Jobs : Reported(j)' => Reported(j)
    BY <2>2, <2>3, ReportedKept DEF Reported
  <2> QED
    BY <1>6, <1>9, <2>4
<1>10. ASSUME NEW w \in Workers, MarkSucceeded(w), workflow' = workflow
       PROVE  ReportedDeathFailsWorkflow'
  <2>1. worker[w].job \in Jobs
    BY <1>10, FenceJob DEF MarkSucceeded
  <2>2. \A j \in Jobs : job'[j].status = "dead_letter" => job'[j] = job[j]
    BY <1>10, <2>1 DEF MarkSucceeded, RunsInv, QueueInv, TypeOK, JobRows
  <2>3. \A j \in Jobs : Reported(j)' => Reported(j)
    BY <2>2, ReportedKept DEF Reported
  <2> QED
    BY <1>6, <1>10, <2>3
<1>11. ASSUME NEW w \in Workers, QueueOnly(w) PROVE ReportedDeathFailsWorkflow'
  <2>1. workflow' = workflow
    BY <1>11 DEF QueueOnly, pipeline
  <2>2. CASE MarkSucceeded(w)
    BY <1>10, <2>1, <2>2
  <2>3. CASE ~MarkSucceeded(w)
    <3>1. UNCHANGED <<job, attempt>>
      BY <1>11, <2>3 DEF QueueOnly, Extend, HeartbeatLost, DiscardResult, CompletionFails
    <3> QED
      BY <1>8, <2>1, <3>1
  <2> QED
    BY <2>2, <2>3
<1>12. ASSUME \/ UNCHANGED allVars \/ \E kind \in Requests : ReadProject(kind)
              \/ Review \/ (Tick /\ UNCHANGED pipeline)
              \/ \E w \in Workers : ClaimDies(w) \/ CrashRun(w) \/ HandlerLeaves(w) \/ HandlerStep(w)
       PROVE  ReportedDeathFailsWorkflow'
  <2>1. UNCHANGED <<workflow, job, attempt>>
    BY <1>12 DEF allVars, vars, pipeline, ReadProject, Review, Tick, ClaimDies, CrashRun, Crash,
       HandlerLeaves, RunReturns, HandlerReturns, DiscardRun, DiscardOutput, RunRaises,
       HandlerRaises, HandlerStep, LoadRun, BeginRun, StoreArtifact, RecordFailure, Notify
  <2> QED
    BY <1>8, <2>1
<1>13. ASSUME NEW k \in Jobs,
              \/ QueueRun(k) \/ \E b \in Jobs \cup {Original} : RequestChanges(k, b)
              \/ \E w \in Workers : ClaimRun(w, k)
       PROVE  ReportedDeathFailsWorkflow'
  BY <1>9, <1>13 DEF QueueRun, RequestChanges, ClaimRun
<1>14. ASSUME RecoverRuns \/ \E w \in Workers : StartRuns(w) PROVE ReportedDeathFailsWorkflow'
  BY <1>7, <1>14 DEF RecoverRuns, StartRuns, RecoverExpired, StartWorker
<1> QED
  BY <1>5, <1>11, <1>12, <1>13, <1>14 DEF RunsNext

LEMMA RunsInvInit == RunsInit => RunsInv
<1> SUFFICES ASSUME RunsInit PROVE RunsInv
  OBVIOUS
<1>1. Init /\ QueueInv /\ RunsTypeOK
  BY InvInit, RunsTypeInit DEF RunsInit
<1>2. \A w \in Workers : stage[w] = "none" /\ worker[w].pc = "down"
  BY DEF RunsInit, Init, Free
<1>3. HandlersInv
  BY <1>2 DEF HandlersInv, HandlerInv
<1>4. \A j \in Jobs : cycle[j] = "none" /\ job[j].status = "absent"
  BY DEF RunsInit, Init
<1> QED
  BY <1>1, <1>3, <1>4
  DEF RunsInit, RunsInv, ActiveCycleHasLiveJob, SuccessHasResult, ReportedDeathFailsWorkflow

LEMMA RunsInvStep == RunsInv /\ [RunsNext]_allVars => RunsInv'
<1> SUFFICES ASSUME RunsInv, [RunsNext]_allVars PROVE RunsInv'
  OBVIOUS
<1>1. QueueInv' /\ TypeOK'
  BY RunsQueueInv DEF RunsInv, QueueInv
<1>2. RunsTypeOK'
  BY <1>1, RunsTypeStep DEF RunsInv
<1> QED
  BY <1>1, <1>2, HandlersStep, ActiveCycleStep, SuccessStepHasResult, ReportedStep DEF RunsInv

\* In every reachable state the tables of the queue, the cycles, the artifacts
\* and the memory of the handlers agree as RunsInv says.
THEOREM RunsInvariant == RunsSpec => []RunsInv
  BY RunsInvInit, RunsInvStep, PTL DEF RunsSpec

\* The requirements phase stays within its types.
THEOREM RunsTyped == RunsSpec => []RunsTypeOK
<1>1. RunsInv => RunsTypeOK
  BY DEF RunsInv
<1> QED
  BY <1>1, RunsInvariant, PTL

\* _release_revision_cycle and recover_expired: an active revision cycle has a
\* job that will still end it, whatever workers lost, crashed or wrote late.
THEOREM ActiveCyclesLive == RunsSpec => []ActiveCycleHasLiveJob
<1>1. RunsInv => ActiveCycleHasLiveJob
  BY DEF RunsInv
<1> QED
  BY <1>1, RunsInvariant, PTL

\* A succeeded run job has an artifact, no open cycle and a workflow that was
\* told, although three other transactions wrote them.
THEOREM SuccessAlwaysHasResult == RunsSpec => []SuccessHasResult
<1>1. RunsInv => SuccessHasResult
  BY DEF RunsInv
<1> QED
  BY <1>1, RunsInvariant, PTL

\* mark_failed: the workflow is failed exactly when a worker reported the last
\* failure of a run job that is dead; an abandoned one leaves it running.
THEOREM ReportedDeathsFailWorkflow == RunsSpec => []ReportedDeathFailsWorkflow
<1>1. RunsInv => ReportedDeathFailsWorkflow
  BY DEF RunsInv
<1> QED
  BY <1>1, RunsInvariant, PTL
=============================================================================
