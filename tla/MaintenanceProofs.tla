-------------------------- MODULE MaintenanceProofs --------------------------
(***************************************************************************)
(* The queue with its maintenance tasks is the queue of JobQueue, for      *)
(* every value of the constants: what JobQueueProofs proves holds of it    *)
(* too.                                                                    *)
(***************************************************************************)
EXTENDS Maintenance, JobQueueProofs

\* Every step of a worker process, of its task, of an operator or of time is a
\* step of the queue, or does not touch it.
LEMMA MaintenanceStep ==
  ASSUME [MaintenanceNext]_maintenanceVars
  PROVE  [Next]_vars
<1>1. ASSUME NEW w \in Workers, BeginProcess(w) PROVE Next
  BY <1>1 DEF BeginProcess, WorkerStep, Next
<1>2. ASSUME NEW w \in Workers, EndProcess(w) PROVE Next
  BY <1>2 DEF EndProcess, WorkerStep, Next
<1>3. ASSUME NEW w \in Workers, Round(w) PROVE Next
  BY <1>3 DEF Round, Next
<1>4. ASSUME NEW w \in Workers, RoundRaises(w) PROVE UNCHANGED vars
  BY <1>4 DEF RoundRaises
<1>5. ASSUME NEW w \in Workers, Works(w) PROVE Next
  BY <1>5 DEF Works, WorkerStep, Next
<1>6. ASSUME NEW j \in Jobs, Enqueue(j) PROVE Next
  BY <1>6 DEF Next
<1>7. CASE OperatorRecovers
  BY <1>7 DEF OperatorRecovers, Next
<1>8. CASE Tick
  BY <1>8 DEF Next
<1>9. CASE UNCHANGED maintenanceVars
  BY <1>9 DEF maintenanceVars
<1> QED
  BY <1>1, <1>2, <1>3, <1>4, <1>5, <1>6, <1>7, <1>8, <1>9 DEF MaintenanceNext

\* Recovery by tasks that start with their process, that break and that die
\* with it does nothing to jobs and attempts that JobQueue does not allow.
THEOREM MaintainedQueue == MaintenanceSpec => Spec
<1>1. MaintenanceInit => Init
  BY DEF MaintenanceInit
<1> QED
  BY <1>1, MaintenanceStep, PTL DEF MaintenanceSpec, Spec

\* Whoever recovers expired leases, and whether or not anybody does, the queue
\* implements its ledger of attempts.
THEOREM MaintainedQueueKeepsLedger == MaintenanceSpec => KeepsLedger
  BY MaintainedQueue, QueueImplementsLedger
=============================================================================
