------------------------------ MODULE Workflow ------------------------------
(***************************************************************************)
(* The workflow engine (application/workflow): one row per project says how *)
(* far the project is, and advance_workflow jobs move it on when documents *)
(* are approved, the execution has succeeded, its patch is accepted and    *)
(* integrated.  Workers advance it; people approve, begin work by hand,    *)
(* cancel and relink.                                                      *)
(*                                                                         *)
(* advance locks the row and calls services that COMMIT, which gives the   *)
(* lock away; it goes on with what it read before.  The unique key on the  *)
(* version of the context is what notices.                                 *)
(*                                                                         *)
(* The document phases (requirements, architecture, work package) follow   *)
(* one protocol and are numbered; so are the stages of the workflow:       *)
(* 0 created, 1..Last the phases, then execution, review and integration.  *)
(* A request of a person is one step, except a relink.                     *)
(***************************************************************************)
EXTENDS Naturals, Sequences

CONSTANTS
  Workers,       \* workers that take advance_workflow jobs
  Last,          \* the number of document phases
  NoView,        \* a process that has read nothing
  MaxExecutions, \* bound: executions of the project
  MaxTroubles,   \* bound: relinks, works begun by hand and processes that die
  MaxWaiting     \* bound: calls and failures due, and jobs in the queue

ASSUME WorkflowAssumption ==
  /\ Last \in Nat \ {0}
  /\ MaxExecutions \in Nat \ {0}
  /\ MaxTroubles \in Nat
  /\ MaxWaiting \in Nat \ {0}

VARIABLES
  wf,        \* the workflow's row with its newest context
  project,   \* the status of the project: a phase and how it stands
  approved,  \* phases with an approval on record
  queued,    \* queued[p]: runs of phase p that wait for a worker
  running,   \* running[p]: runs of phase p that a worker executes
  execs,     \* the executions of the project, oldest first
  reviews,   \* the reviews of their patches, oldest first
  attempts,  \* the attempts to integrate them, oldest first
  jobs,      \* advance_workflow jobs in the queue
  owed,      \* owed[k]: calls of notify that are due
  dying,     \* jobs whose failure is still to be written
  view,      \* view[w]: what worker w has read of the workflow and the project
  at,        \* at[w]: what w is about to do
  relinking, \* the context that a relink is about to write
  relinks,   \* relinks so far
  byHand,    \* runs, executions and reviews that people have begun
  crashes,   \* processes that have died between two of their commits
  rejected   \* phases whose document people have rejected

work   == <<project, approved, queued, running, execs, reviews, attempts>>
queue  == <<jobs, owed, dying>>
engine == <<view, at>>
bounds == <<relinks, byHand, crashes>>
vars   == <<wf, work, queue, engine, relinking, bounds, rejected>>

Phases      == 1..Last
Execution   == Last + 1
Review      == Last + 2
Integration == Last + 3
Underway    == {"running", "waiting"}
Terminal    == {"failed", "cancelled", "completed"}
Stands      == {"underway", "awaiting", "approved", "rejected", "failed"}

\* Who calls notify: a handler whose job is taken again when its worker dies, or
\* a request or a handler with one attempt.
Callers == {"again", "once"}

Context == [stage : 0..Integration,
            at : Underway \cup Terminal \cup {"unlinked", "manual"},
            version : Nat,
            exec : 0..MaxExecutions, review : Nat, attempt : Nat]

Project == [phase : 0..Last, at : Stands]
Reading == [wf : Context, project : Project]  \* what a worker has read
Writing == [wf : Context, ready : BOOLEAN]    \* what a relink is about to write

ASSUME NoViewAssumption == NoView \notin Reading \cup Writing

In(c, s)  == c.stage = s /\ c.at \in Underway
Goes(c, s, a) == [c EXCEPT !.stage = s, !.at = a, !.version = @ + 1]
Stand(p, a) == [phase |-> p, at |-> a]

\* Started, and not in TERMINAL_STATES.
Alive == wf.at \notin Terminal \cup {"unlinked"}

\* Mutant of LockFree: advance reads the row without FOR UPDATE.
LockFreeAlways == TRUE

\* Nobody holds the lock on the workflow's row.
LockFree == \A w \in Workers : at[w] # "committing"

Troubles == relinks + byHand + crashes
Calm     == Troubles < MaxTroubles

TypeOK ==
  /\ wf \in Context
  /\ project \in Project
  /\ approved \subseteq Phases
  /\ queued \in [Phases -> Nat] /\ running \in [Phases -> Nat]
  /\ execs \in Seq([byWorkflow : BOOLEAN, status : {"pending", "succeeded", "failed"}])
  /\ reviews \in Seq([byWorkflow : BOOLEAN, exec : 1..MaxExecutions,
                      status : {"pending", "accepted", "refused", "failed"}])
  /\ attempts \in Seq([exec : 1..MaxExecutions, status : {"open", "verified", "failed"}])
  /\ jobs \in Nat /\ owed \in [Callers -> Nat] /\ dying \in Nat
  /\ view \in [Workers -> {NoView} \cup Reading]
  /\ at \in [Workers -> {"idle", "committing", "appending"}]
  /\ \A w \in Workers : view[w] = NoView <=> at[w] = "idle"
  /\ relinking \in {NoView} \cup Writing
  /\ relinks \in Nat /\ byHand \in Nat /\ crashes \in Nat /\ Troubles <= MaxTroubles
  /\ rejected \subseteq Phases

Init ==
  /\ wf = [stage |-> 0, at |-> "unlinked", version |-> 0, exec |-> 0, review |-> 0, attempt |-> 0]
  /\ project = Stand(0, "approved")
  /\ approved = {}
  /\ queued = [p \in Phases |-> 0] /\ running = [p \in Phases |-> 0]
  /\ execs = <<>> /\ reviews = <<>> /\ attempts = <<>>
  /\ jobs = 0 /\ owed = [k \in Callers |-> 0] /\ dying = 0
  /\ view = [w \in Workers |-> NoView] /\ at = [w \in Workers |-> "idle"]
  /\ relinking = NoView
  /\ relinks = 0 /\ byHand = 0 /\ crashes = 0 /\ rejected = {}

Owes(k) ==
  /\ \A c \in Callers : owed[c] < MaxWaiting
  /\ owed' = [owed EXCEPT ![k] = @ + 1]
  /\ UNCHANGED dying
Dies == dying < MaxWaiting /\ dying' = dying + 1 /\ UNCHANGED owed

(***************************************************************************)
(* Documents: a run is queued, executed and decided on.  Handlers write    *)
(* the project's status without looking at it.                             *)
(***************************************************************************)

\* The guard of queue_requirements_run, queue_architecture_run, queue_work_package_planning.
CanQueue(pr, p) ==
  \/ pr = Stand(p - 1, "approved")
  \/ pr = Stand(p, "failed")
  \/ pr = Stand(p, "rejected")

Queues(p) ==
  /\ project' = Stand(p, "underway")
  /\ queued' = [queued EXCEPT ![p] = @ + 1]

ByHand == Calm /\ byHand' = byHand + 1

QueueByHand(p) ==
  /\ ByHand
  /\ CanQueue(project, p)
  /\ Queues(p)
  /\ UNCHANGED <<wf, approved, running, execs, reviews, attempts, queue, engine, relinking,
                 relinks, crashes, rejected>>

StartRun(p) ==
  /\ queued[p] > 0
  /\ queued' = [queued EXCEPT ![p] = @ - 1]
  /\ running' = [running EXCEPT ![p] = @ + 1]
  /\ project' = Stand(p, "underway")
  /\ UNCHANGED <<wf, approved, execs, reviews, attempts, queue, engine, relinking, bounds, rejected>>

\* A document that is approved by policy or waits for people.
RunSucceeds(p) ==
  /\ running[p] > 0
  /\ running' = [running EXCEPT ![p] = @ - 1]
  /\ \/ project' = Stand(p, "awaiting") /\ UNCHANGED approved
     \/ project' = Stand(p, "approved") /\ approved' = approved \cup {p}
  /\ Owes("again")
  /\ UNCHANGED <<wf, queued, execs, reviews, attempts, jobs, engine, relinking, bounds, rejected>>

\* The job is tried again or was at its last attempt.
RunFails(p) ==
  /\ running[p] > 0
  /\ running' = [running EXCEPT ![p] = @ - 1]
  /\ project' = Stand(p, "failed")
  /\ \/ queued' = [queued EXCEPT ![p] = @ + 1] /\ UNCHANGED <<owed, dying>>
     \/ Dies /\ UNCHANGED queued
  /\ UNCHANGED <<wf, approved, execs, reviews, attempts, jobs, engine, relinking, bounds, rejected>>

Decide(p) ==
  /\ project = Stand(p, "awaiting")
  /\ \/ project' = Stand(p, "approved") /\ approved' = approved \cup {p} /\ UNCHANGED rejected
     \/ project' = Stand(p, "rejected") /\ rejected' = rejected \cup {p} /\ UNCHANGED approved
  /\ Owes("once")
  /\ UNCHANGED <<wf, queued, running, execs, reviews, attempts, jobs, engine, relinking, bounds>>

(***************************************************************************)
(* Code: executions, reviews of their patches, attempts to integrate them. *)
(***************************************************************************)

Adds(seq, row) == seq' = Append(seq, row)
Newest(S) == CHOOSE i \in S : \A j \in S : j <= i

Mine(seq)      == {i \in DOMAIN seq : seq[i].byWorkflow}
ReviewsOf(e)   == {i \in DOMAIN reviews : reviews[i].exec = e}
AcceptedOf(e)  == {i \in ReviewsOf(e) : reviews[i].status = "accepted"}
FinalOf(e)     == {i \in ReviewsOf(e) : reviews[i].status \in {"accepted", "refused"}}
AttemptsOf(e)  == {i \in DOMAIN attempts : attempts[i].exec = e}
Succeeded      == {e \in DOMAIN execs : execs[e].status = "succeeded"}

ExecuteByHand ==
  /\ ByHand
  /\ Len(execs) < MaxExecutions
  /\ project = Stand(Last, "approved")
  /\ Adds(execs, [byWorkflow |-> FALSE, status |-> "pending"])
  /\ UNCHANGED <<wf, project, approved, queued, running, reviews, attempts, queue, engine,
                 relinking, relinks, crashes, rejected>>

ReviewByHand(e) ==
  /\ ByHand
  /\ e \in Succeeded
  /\ FinalOf(e) = {}
  /\ Adds(reviews, [byWorkflow |-> FALSE, exec |-> e, status |-> "pending"])
  /\ UNCHANGED <<wf, project, approved, queued, running, execs, attempts, queue, engine,
                 relinking, relinks, crashes, rejected>>

\* A handler of a job with one attempt: it notifies, or its failure is dead-lettered.
Ends(seq, i, open, good, bad) ==
  /\ seq[i].status = open
  /\ \/ \E s \in good : seq' = [seq EXCEPT ![i].status = s] /\ Owes("once")
     \/ seq' = [seq EXCEPT ![i].status = bad] /\ Dies
  /\ UNCHANGED <<wf, project, approved, queued, running, jobs, engine, relinking, bounds, rejected>>

ExecutionEnds(e) == Ends(execs, e, "pending", {"succeeded"}, "failed") /\ UNCHANGED <<reviews, attempts>>

ReviewEnds(r) ==
  Ends(reviews, r, "pending", {"accepted", "refused"}, "failed") /\ UNCHANGED <<execs, attempts>>

\* An approval of the accepted patch is consumed.  A patch may have several, and
\* so several attempts under way.
BeginIntegration(e) ==
  /\ AcceptedOf(e) # {}
  /\ Len(attempts) < MaxExecutions
  /\ Adds(attempts, [exec |-> e, status |-> "open"])
  /\ Owes("once")
  /\ UNCHANGED <<wf, project, approved, queued, running, execs, reviews, jobs, engine,
                 relinking, bounds, rejected>>

\* A patch lands once (module Integration).
Lands(i) == \A k \in AttemptsOf(attempts[i].exec) : attempts[k].status # "verified"

IntegrationEnds(i) ==
  /\ Ends(attempts, i, "open", {s \in {"verified"} : Lands(i)}, "failed")
  /\ UNCHANGED <<execs, reviews>>

(***************************************************************************)
(* The engine: WorkflowService.advance, notify, dead_letter, cancel, relink *)
(***************************************************************************)

\* The work package is approved, as the project or as the packages say.
PackageApproved(c) ==
  /\ c.stage = Last
  /\ IF c.at = "running" THEN project = Stand(Last, "approved") ELSE Last \in approved

\* What is due for the context c so that a service has to commit: a document,
\* the execution or its review.
Due(c) ==
  \/ c.stage = 0 /\ c.at = "running"
  \/ c.stage \in 1..(Last - 1) /\ project = Stand(c.stage, "approved")
  \/ PackageApproved(c) /\ Mine(execs) = {}
  \/ c.stage = Execution /\ c.exec \in Succeeded /\ Mine(reviews) = {}

\* Every document has a decision on record; advance does not look which one.
Decided == Phases \subseteq approved \cup rejected

\* Mutant of Complete: the commit of the attempt need not be verified.
CompleteByCommit(c) ==
  attempts[c.attempt].exec = c.exec /\ c.review \in AcceptedOf(c.exec) /\ Decided

\* verify_completeness: the evidence of the context is there and agrees.
Complete(c) ==
  /\ attempts[c.attempt].status = "verified" /\ attempts[c.attempt].exec = c.exec
  /\ c.review \in AcceptedOf(c.exec)
  /\ Decided

\* The documents are listed in no order: of two of a kind the one that is listed
\* last counts, which may have no decision, or not be the patch that was reviewed.
MayMiss(c) == c.stage = Integration /\ c.at = "running"

\* The contexts that advance makes of c in one transaction.  What the workflow
\* has asked for is found by its idempotency key, whatever it was asked for.
Reached(c) ==
       {Goes(c, p, "waiting") : p \in
          {p \in Phases : p = c.stage /\ c.at = "running" /\ project = Stand(p, "awaiting")}}
  \cup {[Goes(c, Execution, "running") EXCEPT !.exec = e] : e \in
          {e \in Mine(execs) : PackageApproved(c)}}
  \cup {[Goes(c, Review, "running") EXCEPT !.review = r] : r \in
          {r \in Mine(reviews) : c.stage = Execution /\ c.exec \in Succeeded}}
  \cup {Goes(c, Integration, "waiting") : r \in
          {r \in DOMAIN reviews : c.stage = Review /\ r = c.review /\ reviews[r].status = "accepted"}}
  \cup {[Goes(c, Integration, "running") EXCEPT !.attempt = Newest(AttemptsOf(c.exec))] : i \in
          {i \in AttemptsOf(c.exec) : c.stage = Integration /\ c.at = "waiting"}}
  \cup {Goes(c, 0, "completed") : i \in
          {i \in {c.attempt} : c.stage = Integration /\ c.at = "running" /\ Complete(c)}}

\* A worker claims an advance_workflow job and locks the workflow's row.
Takes(w) ==
  /\ at[w] = "idle" /\ jobs > 0 /\ LockFree
  /\ jobs' = jobs - 1

Advance(w) ==
  /\ Takes(w)
  /\ ~Due(wf)
  /\ \/ wf' \in Reached(wf)
     \/ UNCHANGED wf /\ (Reached(wf) = {} \/ MayMiss(wf))
  /\ UNCHANGED <<work, owed, dying, engine, relinking, bounds, rejected>>

\* request_execution finds the execution the workflow has asked for before, but
\* of another package than the newest that is approved: no retry can help.
Conflicts(w) ==
  /\ Takes(w)
  /\ PackageApproved(wf) /\ Mine(execs) # {}
  /\ Dies
  /\ UNCHANGED <<wf, work, engine, relinking, bounds, rejected>>

BeginWork(w) ==
  /\ Takes(w)
  /\ Due(wf)
  /\ view' = [view EXCEPT ![w] = [wf |-> wf, project |-> project]]
  /\ at' = [at EXCEPT ![w] = "committing"]
  /\ UNCHANGED <<wf, work, owed, dying, relinking, bounds, rejected>>

\* Mutant of Leaves: what was read is kept.
LeavesView(w) == at' = [at EXCEPT ![w] = "idle"] /\ UNCHANGED view

Leaves(w) ==
  /\ at' = [at EXCEPT ![w] = "idle"]
  /\ view' = [view EXCEPT ![w] = NoView]

Continues(w, c) ==
  /\ at' = [at EXCEPT ![w] = "appending"]
  /\ view' = [view EXCEPT ![w].wf = c]
  /\ UNCHANGED <<wf, queue, relinking, bounds, rejected>>

\* queue_*_run commits the run, its job and the status it has not read again.
CommitRun(w) ==
  /\ at[w] = "committing"
  /\ LET c == view[w].wf
         p == c.stage + 1
     IN  /\ p \in Phases
         /\ CanQueue(view[w].project, p)
         /\ Queues(p)
         /\ Continues(w, Goes(c, p, "running"))
         /\ UNCHANGED <<approved, running, execs, reviews, attempts>>

CommitExecution(w) ==
  /\ at[w] = "committing"
  /\ LET c == view[w].wf
     IN  /\ c.stage = Last
         /\ view[w].project = Stand(Last, "approved")
         /\ Len(execs) < MaxExecutions
         /\ Adds(execs, [byWorkflow |-> TRUE, status |-> "pending"])
         /\ Continues(w, [Goes(c, Execution, "running") EXCEPT !.exec = Len(execs) + 1])
         /\ UNCHANGED <<project, approved, queued, running, reviews, attempts>>

CommitReview(w) ==
  /\ at[w] = "committing"
  /\ LET c == view[w].wf
     IN  /\ c.stage = Execution
         /\ FinalOf(c.exec) = {}
         /\ Adds(reviews, [byWorkflow |-> TRUE, exec |-> c.exec, status |-> "pending"])
         /\ Continues(w, [Goes(c, Review, "running") EXCEPT !.review = Len(reviews) + 1])
         /\ UNCHANGED <<project, approved, queued, running, execs, attempts>>

\* The service refuses: no retry of advance can help.
Refused(w) ==
  /\ at[w] = "committing"
  /\ LET c == view[w].wf
     IN  \/ c.stage + 1 \in Phases /\ ~CanQueue(view[w].project, c.stage + 1)
         \/ c.stage = Last /\ view[w].project # Stand(Last, "approved")
         \/ c.stage = Execution /\ FinalOf(c.exec) # {}
  /\ Leaves(w)
  /\ Dies
  /\ UNCHANGED <<wf, work, jobs, relinking, bounds, rejected>>

\* Mutant of NewVersion: the row is written whatever it has become.
NewVersionAlways(c) == TRUE

\* UNIQUE (workflow_id, version) of the contexts admits c.
NewVersion(c) == wf.version = c.version - 1

\* append_transition and the last commit of advance.  An IntegrityError is
\* retried or not, as its text happens to name an artifact.
AppendTransition(w) ==
  /\ at[w] = "appending" /\ LockFree
  /\ IF NewVersion(view[w].wf)
     THEN wf' = view[w].wf /\ UNCHANGED queue
     ELSE /\ UNCHANGED wf
          /\ \/ jobs' = jobs + 1 /\ UNCHANGED <<owed, dying>>
             \/ Dies /\ UNCHANGED jobs
  /\ Leaves(w)
  /\ UNCHANGED <<work, relinking, bounds, rejected>>

Called(k) == owed[k] > 0 /\ owed' = [owed EXCEPT ![k] = @ - 1]

Notify ==
  /\ \E k \in Callers : Called(k)
  /\ jobs < MaxWaiting
  /\ jobs' = IF Alive THEN jobs + 1 ELSE jobs
  /\ UNCHANGED <<wf, work, dying, engine, relinking, bounds, rejected>>

\* A job is dead-lettered and the workflow fails with it, in one transaction.
DeadLetter ==
  /\ dying > 0 /\ LockFree
  /\ dying' = dying - 1
  /\ wf' = IF Alive THEN Goes(wf, 0, "failed") ELSE wf
  /\ UNCHANGED <<work, jobs, owed, engine, relinking, bounds, rejected>>

Cancel ==
  /\ Alive /\ LockFree
  /\ wf' = [Goes(wf, 0, "cancelled") EXCEPT !.version = wf.version + 2]
  /\ UNCHANGED <<work, queue, engine, relinking, bounds, rejected>>

Start ==
  /\ wf.at = "unlinked"
  /\ wf' = Goes(wf, 0, "running")
  /\ jobs' = jobs + 1
  /\ UNCHANGED <<work, owed, dying, engine, relinking, bounds, rejected>>

\* workflow_relink_decision_for_project.
Decision(pr) ==
  CASE pr = Stand(0, "approved")            -> <<0, "running">>
    [] pr.at \in {"underway", "approved"} /\ pr.phase > 0 -> <<pr.phase, "running">>
    [] pr.at = "awaiting"                   -> <<pr.phase, "waiting">>
    [] pr.at = "rejected"                   -> <<0, "manual">>
    [] pr.at = "failed"                     -> <<0, "failed">>

\* The context a relink makes: a new one, with the newest execution that succeeded.
Relinked ==
  LET d == Decision(project)
      e == IF wf.at # "unlinked" /\ project = Stand(Last, "approved") /\ Succeeded # {}
           THEN Newest(Succeeded) ELSE 0
      r == IF e # 0 /\ AcceptedOf(e) # {} THEN Newest(AcceptedOf(e)) ELSE 0
  IN  [stage |-> IF r # 0 THEN Review ELSE IF e # 0 THEN Execution ELSE d[1],
       at |-> IF e # 0 THEN "running" ELSE d[2],
       version |-> wf.version + 1, exec |-> e, review |-> r, attempt |-> 0]

RelinkReads ==
  /\ relinking = NoView /\ Calm
  /\ wf.at \in {"unlinked", "failed"} \/ wf.stage = Execution
  /\ relinks' = relinks + 1
  /\ relinking' = [wf |-> Relinked,
                   ready |-> wf.at # "unlinked" /\ project.phase > 0 /\ project.at = "approved"]
  /\ UNCHANGED <<wf, work, queue, engine, byHand, crashes, rejected>>

\* A relink takes no lock before it writes; when it comes too late it is refused.
RelinkWrites ==
  /\ relinking # NoView /\ LockFree
  /\ IF NewVersion(relinking.wf)
     THEN wf' = relinking.wf /\ jobs' = IF relinking.ready THEN jobs + 1 ELSE jobs
     ELSE UNCHANGED <<wf, jobs>>
  /\ relinking' = NoView
  /\ UNCHANGED <<work, owed, dying, engine, bounds, rejected>>

(***************************************************************************)
(* Failures: a process dies between two of its commits.                    *)
(***************************************************************************)

Crash == Calm /\ crashes' = crashes + 1

\* The job is recovered and taken again, or it was at its last attempt.
WorkerCrashes(w) ==
  /\ Crash
  /\ at[w] # "idle"
  /\ Leaves(w)
  /\ jobs' \in {jobs, jobs + 1}
  /\ UNCHANGED <<wf, work, owed, dying, relinking, relinks, byHand, rejected>>

\* A job that is taken again is refused, as its run has ended.
NotifyLost ==
  /\ Crash
  /\ \/ Called("again") /\ dying' = dying + 1
     \/ Called("once") /\ UNCHANGED dying
  /\ UNCHANGED <<wf, work, jobs, engine, relinking, relinks, byHand, rejected>>

DeadLetterLost ==
  /\ Crash
  /\ dying > 0 /\ dying' = dying - 1
  /\ UNCHANGED <<wf, work, jobs, owed, engine, relinking, relinks, byHand, rejected>>

Documents ==
  \E p \in Phases : QueueByHand(p) \/ StartRun(p) \/ RunSucceeds(p) \/ RunFails(p) \/ Decide(p)

Code ==
  \/ ExecuteByHand
  \/ \E e \in DOMAIN execs : ReviewByHand(e) \/ ExecutionEnds(e) \/ BeginIntegration(e)
  \/ \E r \in DOMAIN reviews : ReviewEnds(r)
  \/ \E i \in DOMAIN attempts : IntegrationEnds(i)

Advances(w) ==
  Advance(w) \/ Conflicts(w) \/ BeginWork(w) \/ CommitRun(w) \/ CommitExecution(w) \/ CommitReview(w)
  \/ Refused(w) \/ AppendTransition(w)

Failing == NotifyLost \/ DeadLetterLost \/ \E w \in Workers : WorkerCrashes(w)

Next ==
  \/ Documents \/ Code
  \/ Notify \/ DeadLetter \/ Cancel \/ Start \/ RelinkReads \/ RelinkWrites
  \/ \E w \in Workers : Advances(w)
  \/ Failing

Spec == Init /\ [][Next]_vars

\* Workers go on taking jobs, a handler that has succeeded goes on to notify and
\* a worker that has failed goes on to say so.  Nobody has to decide anything.
Fairness ==
  /\ WF_vars(Notify) /\ SF_vars(DeadLetter)
  /\ \A w \in Workers : SF_vars(Advances(w))

FairSpec == Spec /\ Fairness

(***************************************************************************)
(* Properties.                                                             *)
(***************************************************************************)

Life == INSTANCE Lifecycle WITH stage <- wf.stage, at <- wf.at, version <- wf.version

\* The workflow's history is legal: a step that was computed before somebody
\* else cancelled, failed or relinked the workflow is never applied on top of
\* that (append_transition in a session that has lost its lock).
KeepsLifecycle == Life!Spec

Crews == {p \in Phases : queued[p] + running[p] > 0}

\* However many advance jobs there are, the engine has one run of one phase under
\* way at a time (advance, queue_architecture_run).  Not so when people begin runs
\* too, nor while the begin of the requirements is not yet written down, because
\* the advance that began them has died, or because people have rejected them so
\* fast that another advance begins them again: then a failed run whose job waits
\* for its next attempt is begun anew.
EngineQueuesOnce ==
  byHand = 0 /\ crashes = 0 /\ 1 \notin rejected =>
    /\ \A p \in Phases : queued[p] + running[p] <= 1
    /\ \A p, q \in Crews : p = q

\* A completed workflow stands for code: its patch is integrated, that patch was
\* accepted, and every document before it is approved.  verify_completeness asks
\* for a decision on each document only; that it is an approval rests on what may
\* be queued behind what, with readings that are stale by then.
CompletedIsIntegrated ==
  wf.at = "completed" =>
    /\ attempts[wf.attempt].status = "verified" /\ attempts[wf.attempt].exec = wf.exec
    /\ AcceptedOf(wf.exec) # {}
    /\ Phases \subseteq approved

\* The review that the workflow waits for is of the execution it names.  Not so:
\* its key names the workflow only, so that after a relink to another execution
\* the review of the old one is found.
ReviewsItsExecution == wf.stage = Review => reviews[wf.review].exec = wf.exec

\* The document of the workflow's stage is approved, so that it has to move on.
Approved(p) == In(wf, p) /\ project = Stand(p, "approved")

\* Not so: "After restart the workflow resumes exactly here" (P3.txt:492).  The
\* approval and the notify are two commits, and so are the next run and the
\* transition: a process that dies between them leaves a workflow that nothing
\* moves and that relink_project will not touch.
Resumes ==
  \A p \in Phases : Approved(p) ~> (~In(wf, p) \/ byHand > 0 \/ relinks > 0)
=============================================================================
