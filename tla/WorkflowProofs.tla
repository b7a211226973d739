--------------------------- MODULE WorkflowProofs ---------------------------
(***************************************************************************)
(* Theorems about Workflow, for every set of workers, number of document   *)
(* phases and bound on executions, troubles and queues.                    *)
(*                                                                         *)
(* A worker that is about to commit holds the lock, so that what it has    *)
(* read of the row is the row.  One that is about to append, and a relink  *)
(* that is about to write, has lost the lock or never had it: what it has  *)
(* computed is one legal step behind the version it was computed from, and *)
(* every write makes a new version.  So it is either still one legal step  *)
(* behind the row, or the version of the row tells that it is late.        *)
(***************************************************************************)
EXTENDS Workflow, SequenceTheorems, WellFoundedInduction, TLAPS

\* The types, and the executions a context can name.
TypeInv ==
  /\ TypeOK
  /\ project.phase = 0 => project.at = "approved"
  /\ Len(execs) <= MaxExecutions

\* Where a context can stand in its stage.
Legal(c) ==
  /\ c.stage >= 1 => c.at \in Underway
  /\ c.stage = Review => c.at = "running"
  /\ c.at # "unlinked" => c.version >= 1

\* The workflow has been started and nothing has been begun.
First(c) == c.stage = 0 /\ c.at = "running"

RowInv ==
  /\ Legal(wf)
  /\ wf.stage = Integration /\ wf.at = "running" => wf.attempt \in DOMAIN attempts

\* w has the lock.
Committing(w) ==
  at[w] = "committing" =>
    /\ view[w].wf = wf
    /\ wf.at \in Underway
    /\ wf.stage <= Execution
    /\ wf.stage = Execution => wf.exec \in Succeeded
    /\ \A v \in Workers : at[v] = "committing" => v = w

\* w has given the lock away.
Appending(w) ==
  at[w] = "appending" =>
    /\ view[w].wf.stage \in 1..Review /\ view[w].wf.at = "running"
    /\ view[w].wf.version - 1 \in 1..wf.version
    /\ NewVersion(view[w].wf) => wf.at \in Underway /\ view[w].wf.stage = wf.stage + 1

\* A relink computes without the lock.
RelinkingInv ==
  relinking # NoView =>
    /\ relinking.wf.stage <= Review
    /\ relinking.wf.at \in Underway \cup {"failed", "manual"}
    /\ Legal(relinking.wf)
    /\ relinking.wf.version - 1 \in 0..wf.version
    /\ NewVersion(relinking.wf) => wf.at \in {"unlinked", "failed"} \/ wf.stage = Execution

EngineInv == RowInv /\ RelinkingInv /\ \A w \in Workers : Committing(w) /\ Appending(w)

\* What a status of the project stands for: the phases before it are approved, and
\* so is its own when it says so.
Backed(pr) ==
  \A q \in Phases : q < pr.phase \/ (q = pr.phase /\ pr.at = "approved") => q \in approved

\* A phase is only begun behind approved ones, and code behind all of them.
DocumentsInv ==
  /\ Backed(project)
  /\ \A p, q \in Phases : queued[p] + running[p] > 0 /\ q < p => q \in approved
  /\ \A w \in Workers : at[w] = "committing" => Backed(view[w].project)
  /\ DOMAIN execs # {} \/ DOMAIN attempts # {} => Phases \subseteq approved

\* The evidence of a completed workflow, and that it is there to be looked at.
CompletedInv ==
  wf.at = "completed" =>
    /\ wf.attempt \in DOMAIN attempts
    /\ attempts[wf.attempt].status = "verified" /\ attempts[wf.attempt].exec = wf.exec
    /\ AcceptedOf(wf.exec) # {}
    /\ Phases \subseteq approved

RowsInv == TypeInv /\ EngineInv /\ DocumentsInv /\ CompletedInv
-----------------------------------------------------------------------------
(***************************************************************************)
(* Contexts and sequences.                                                 *)
(***************************************************************************)

\* The stages are numbered as the code orders them.
LEMMA Stages == Last \in Nat \ {0} /\ Execution = Last + 1 /\ Review = Last + 2 /\ Integration = Last + 3
  BY WorkflowAssumption DEF Execution, Review, Integration

\* Goes changes the stage, how it stands and the version, and keeps the evidence.
LEMMA GoesFields ==
  ASSUME NEW c \in Context, NEW s \in 0..Integration, NEW a \in Underway \cup Terminal
  PROVE  LET d == Goes(c, s, a) IN
           /\ d \in Context
           /\ d.stage = s /\ d.at = a /\ d.version = c.version + 1
           /\ d.exec = c.exec /\ d.review = c.review /\ d.attempt = c.attempt
<1>1. c.version + 1 \in Nat
  BY DEF Context
<1>2. Goes(c, s, a) = [c EXCEPT !.stage = s, !.at = a, !.version = c.version + 1]
  BY DEF Goes
<1> QED  BY <1>1, <1>2 DEF Context

\* A context with one field replaced.
LEMMA WithEvidence ==
  ASSUME NEW c \in Context
  PROVE  /\ \A e \in 0..MaxExecutions :
              LET d == [c EXCEPT !.exec = e] IN
                /\ d \in Context /\ d.stage = c.stage /\ d.at = c.at /\ d.version = c.version
                /\ d.exec = e /\ d.attempt = c.attempt
         /\ \A n \in Nat :
              LET d == [c EXCEPT !.review = n] IN
                /\ d \in Context /\ d.stage = c.stage /\ d.at = c.at /\ d.version = c.version
                /\ d.exec = c.exec /\ d.attempt = c.attempt
         /\ \A n \in Nat :
              LET d == [c EXCEPT !.attempt = n] IN
                /\ d \in Context /\ d.stage = c.stage /\ d.at = c.at /\ d.version = c.version
                /\ d.exec = c.exec /\ d.attempt = n
         /\ \A n \in Nat :
              LET d == [c EXCEPT !.version = n] IN
                /\ d \in Context /\ d.stage = c.stage /\ d.at = c.at /\ d.version = n
                /\ d.exec = c.exec /\ d.attempt = c.attempt
  BY DEF Context

\* Newest chooses an element: a set of indices has a largest one.
LEMMA NewestIsIn ==
  ASSUME NEW n \in Nat, NEW S \in SUBSET (1..n), S # {}
  PROVE  Newest(S) \in S
<1> DEFINE T == {n - s : s \in S}
<1>1. T \subseteq Nat /\ T # {}
  <2>1. \A s \in S : n - s \in Nat
    BY SMT
  <2>2. PICK s \in S : TRUE
    OBVIOUS
  <2>3. n - s \in T
    OBVIOUS
  <2> QED  BY <2>1, <2>3
<1>2. PICK t \in T : \A u \in T : ~ (<<u, t>> \in OpToRel(<, Nat))
  BY <1>1, NatLessThanWellFounded, WFMin
<1>3. PICK s \in S : t = n - s
  OBVIOUS
<1>4. \A j \in S : j <= s
  <2> SUFFICES ASSUME NEW j \in S, ~(j <= s) PROVE FALSE
    OBVIOUS
  <2>1. n - j \in T /\ n - j \in Nat /\ t \in Nat /\ n - j < t
    BY <1>3, SMT
  <2>2. <<n - j, t>> \in OpToRel(<, Nat)
    BY <2>1 DEF OpToRel
  <2> QED  BY <1>2, <2>1, <2>2
<1> QED  BY <1>4 DEF Newest

\* What Append does to a sequence of rows.
LEMMA Added ==
  ASSUME NEW R, NEW seq \in Seq(R), NEW row \in R
  PROVE  LET new == Append(seq, row) IN
           /\ new \in Seq(R) /\ Len(new) = Len(seq) + 1 /\ Len(seq) \in Nat
           /\ DOMAIN new = 1..(Len(seq) + 1) /\ DOMAIN seq = 1..Len(seq)
           /\ \A i \in DOMAIN seq : new[i] = seq[i]
           /\ new[Len(seq) + 1] = row
  OBVIOUS

\* What it does to a sequence of rows to replace one.
LEMMA Replaced ==
  ASSUME NEW R, NEW seq \in Seq(R), NEW i \in DOMAIN seq, NEW row \in R
  PROVE  LET new == [seq EXCEPT ![i] = row] IN
           /\ new \in Seq(R) /\ Len(new) = Len(seq) /\ DOMAIN new = DOMAIN seq
           /\ \A j \in DOMAIN seq : new[j] = IF j = i THEN row ELSE seq[j]
  BY ExceptSeq
-----------------------------------------------------------------------------
(***************************************************************************)
(* The code: rows are added and get an outcome, and nothing else happens to them. *)
(***************************************************************************)

ExecRows    == [byWorkflow : BOOLEAN, status : {"pending", "succeeded", "failed"}]
ReviewRows  == [byWorkflow : BOOLEAN, exec : 1..MaxExecutions,
                status : {"pending", "accepted", "refused", "failed"}]
AttemptRows == [exec : 1..MaxExecutions, status : {"open", "verified", "failed"}]

Kept ==
  /\ \A e \in Succeeded : e \in Succeeded'
  /\ \A i \in DOMAIN attempts :
       /\ i \in DOMAIN attempts'
       /\ attempts'[i].exec = attempts[i].exec
       /\ attempts[i].status = "verified" => attempts'[i].status = "verified"
  /\ \A e : \A r \in AcceptedOf(e) : r \in AcceptedOf(e)'

\* The types of the rows, one by one.
LEMMA CodeTyped ==
  ASSUME TypeInv
  PROVE  /\ execs \in Seq(ExecRows) /\ reviews \in Seq(ReviewRows) /\ attempts \in Seq(AttemptRows)
         /\ DOMAIN execs = 1..Len(execs) /\ Len(execs) \in 0..MaxExecutions
         /\ DOMAIN reviews = 1..Len(reviews) /\ Len(reviews) \in Nat
         /\ DOMAIN attempts = 1..Len(attempts) /\ Len(attempts) \in Nat
         /\ \A i \in DOMAIN execs : execs[i] \in ExecRows
         /\ \A i \in DOMAIN reviews : reviews[i] \in ReviewRows
         /\ \A i \in DOMAIN attempts : attempts[i] \in AttemptRows
<1>1. /\ execs \in Seq(ExecRows) /\ reviews \in Seq(ReviewRows) /\ attempts \in Seq(AttemptRows)
      /\ Len(execs) <= MaxExecutions /\ MaxExecutions \in Nat
  BY WorkflowAssumption DEF TypeInv, TypeOK, ExecRows, ReviewRows, AttemptRows
<1> QED  BY <1>1

CodeTypedNext ==
  /\ execs' \in Seq(ExecRows) /\ reviews' \in Seq(ReviewRows) /\ attempts' \in Seq(AttemptRows)
  /\ Len(execs') <= MaxExecutions

\* Rows that nobody touches.
LEMMA CodeUnchanged ==
  ASSUME TypeInv, UNCHANGED <<execs, reviews, attempts>>
  PROVE  CodeTypedNext /\ Kept
  BY CodeTyped DEF CodeTypedNext, Kept, TypeInv, Succeeded, AcceptedOf, ReviewsOf

\* An execution is created.
LEMMA ExecAdded ==
  ASSUME TypeInv, NEW row \in ExecRows, row.status = "pending", Len(execs) < MaxExecutions,
         Adds(execs, row), UNCHANGED <<reviews, attempts>>
  PROVE  CodeTypedNext /\ Kept
<1>1. execs' = Append(execs, row)
  BY DEF Adds
<1>2. /\ execs' \in Seq(ExecRows) /\ Len(execs') = Len(execs) + 1
      /\ DOMAIN execs' = 1..(Len(execs) + 1) /\ \A i \in DOMAIN execs : execs'[i] = execs[i]
  BY <1>1, CodeTyped, Added
<1>3. CodeTypedNext
  BY <1>2, CodeTyped, WorkflowAssumption DEF CodeTypedNext
<1>4. Kept
  BY <1>2, CodeTyped DEF Kept, Succeeded, AcceptedOf, ReviewsOf
<1> QED  BY <1>3, <1>4

\* A review is created.
LEMMA ReviewAdded ==
  ASSUME TypeInv, NEW row \in ReviewRows, Adds(reviews, row), UNCHANGED <<execs, attempts>>
  PROVE  CodeTypedNext /\ Kept
<1>1. reviews' = Append(reviews, row)
  BY DEF Adds
<1>2. /\ reviews' \in Seq(ReviewRows)
      /\ DOMAIN reviews' = 1..(Len(reviews) + 1) /\ \A i \in DOMAIN reviews : reviews'[i] = reviews[i]
  BY <1>1, CodeTyped, Added
<1>3. CodeTypedNext
  BY <1>2, CodeTyped DEF CodeTypedNext, TypeInv
<1>4. Kept
  BY <1>2, CodeTyped DEF Kept, Succeeded, AcceptedOf, ReviewsOf
<1> QED  BY <1>3, <1>4

\* An attempt to integrate is created.
LEMMA AttemptAdded ==
  ASSUME TypeInv, NEW row \in AttemptRows, Adds(attempts, row), UNCHANGED <<execs, reviews>>
  PROVE  CodeTypedNext /\ Kept
<1>1. attempts' = Append(attempts, row)
  BY DEF Adds
<1>2. /\ attempts' \in Seq(AttemptRows)
      /\ DOMAIN attempts' = 1..(Len(attempts) + 1)
      /\ \A i \in DOMAIN attempts : attempts'[i] = attempts[i]
  BY <1>1, CodeTyped, Added
<1>3. CodeTypedNext
  BY <1>2, CodeTyped DEF CodeTypedNext, TypeInv
<1>4. Kept
  BY <1>2, CodeTyped DEF Kept, Succeeded, AcceptedOf, ReviewsOf
<1> QED  BY <1>3, <1>4

\* An execution gets its outcome.
LEMMA ExecEnded ==
  ASSUME TypeInv, NEW i \in DOMAIN execs, NEW s \in {"succeeded", "failed"},
         execs[i].status = "pending", execs' = [execs EXCEPT ![i].status = s],
         UNCHANGED <<reviews, attempts>>
  PROVE  CodeTypedNext /\ Kept
<1> DEFINE row == [execs[i] EXCEPT !.status = s]
<1>1. row \in ExecRows /\ execs' = [execs EXCEPT ![i] = row]
  BY CodeTyped DEF ExecRows
<1> HIDE DEF row
<1>2. /\ execs' \in Seq(ExecRows) /\ Len(execs') = Len(execs) /\ DOMAIN execs' = DOMAIN execs
      /\ \A j \in DOMAIN execs : execs'[j] = IF j = i THEN row ELSE execs[j]
  BY <1>1, CodeTyped, Replaced
<1>3. CodeTypedNext
  BY <1>2, CodeTyped DEF CodeTypedNext
<1>4. Kept
  BY <1>2, CodeTyped DEF Kept, Succeeded, AcceptedOf, ReviewsOf
<1> QED  BY <1>3, <1>4

\* A review gets its outcome.
LEMMA ReviewEnded ==
  ASSUME TypeInv, NEW i \in DOMAIN reviews, NEW s \in {"accepted", "refused", "failed"},
         reviews[i].status = "pending", reviews' = [reviews EXCEPT ![i].status = s],
         UNCHANGED <<execs, attempts>>
  PROVE  CodeTypedNext /\ Kept
<1> DEFINE row == [reviews[i] EXCEPT !.status = s]
<1>1. row \in ReviewRows /\ reviews' = [reviews EXCEPT ![i] = row]
  BY CodeTyped DEF ReviewRows
<1> HIDE DEF row
<1>2. /\ reviews' \in Seq(ReviewRows) /\ Len(reviews') = Len(reviews) /\ DOMAIN reviews' = DOMAIN reviews
      /\ \A j \in DOMAIN reviews : reviews'[j] = IF j = i THEN row ELSE reviews[j]
  <2>1. reviews \in Seq(ReviewRows) /\ row \in ReviewRows
    BY <1>1, CodeTyped
  <2> QED  BY <1>1, <2>1, Replaced
<1>3. CodeTypedNext
  BY <1>2, CodeTyped DEF CodeTypedNext, TypeInv
<1>4. Kept
  BY <1>2, CodeTyped DEF Kept, Succeeded, AcceptedOf, ReviewsOf
<1> QED  BY <1>3, <1>4

\* An attempt gets its outcome.
LEMMA AttemptEnded ==
  ASSUME TypeInv, NEW i \in DOMAIN attempts, NEW s \in {"verified", "failed"},
         attempts[i].status = "open", attempts' = [attempts EXCEPT ![i].status = s],
         UNCHANGED <<execs, reviews>>
  PROVE  CodeTypedNext /\ Kept
<1> DEFINE row == [attempts[i] EXCEPT !.status = s]
<1>1. row \in AttemptRows /\ row.exec = attempts[i].exec /\ attempts' = [attempts EXCEPT ![i] = row]
  BY CodeTyped DEF AttemptRows
<1> HIDE DEF row
<1>2. /\ attempts' \in Seq(AttemptRows) /\ Len(attempts') = Len(attempts) /\ DOMAIN attempts' = DOMAIN attempts
      /\ \A j \in DOMAIN attempts : attempts'[j] = IF j = i THEN row ELSE attempts[j]
  <2>1. attempts \in Seq(AttemptRows) /\ row \in AttemptRows
    BY <1>1, CodeTyped
  <2> QED  BY <1>1, <2>1, Replaced
<1>3. CodeTypedNext
  BY <1>2, CodeTyped DEF CodeTypedNext, TypeInv
<1>4. Kept
  BY <1>1, <1>2, CodeTyped DEF Kept, Succeeded, AcceptedOf, ReviewsOf
<1> QED  BY <1>3, <1>4
-----------------------------------------------------------------------------
(***************************************************************************)
(* What advance and relink make of a context.                              *)
(***************************************************************************)

\* What advance makes of a context in one transaction is one of six moves.
LEMMA ReachedMoves ==
  ASSUME TypeInv, NEW c \in Context, NEW d \in Reached(c)
  PROVE  /\ d \in Context /\ d.version = c.version + 1
         /\ \/ /\ c.stage \in Phases /\ c.at = "running"
               /\ d.stage = c.stage /\ d.at = "waiting"
            \/ /\ c.stage = Last /\ d.stage = Execution /\ d.at = "running"
            \/ /\ c.stage = Execution /\ d.stage = Review /\ d.at = "running"
            \/ /\ c.stage = Review /\ d.stage = Integration /\ d.at = "waiting"
            \/ /\ c.stage = Integration /\ c.at = "waiting"
               /\ d.stage = Integration /\ d.at = "running" /\ d.attempt \in DOMAIN attempts
            \/ /\ c.stage = Integration /\ c.at = "running" /\ Complete(c)
               /\ d.stage = 0 /\ d.at = "completed" /\ d.exec = c.exec /\ d.attempt = c.attempt
<1>1. CASE \E p \in Phases : /\ p = c.stage /\ c.at = "running"
                             /\ d = Goes(c, p, "waiting")
  <2>1. PICK p \in Phases : p = c.stage /\ c.at = "running" /\ d = Goes(c, p, "waiting")
    BY <1>1
  <2>2. p \in 0..Integration /\ "waiting" \in Underway
    BY Stages DEF Underway, Phases
  <2> QED  BY <2>1, <2>2, GoesFields
<1>2. CASE \E e \in Mine(execs) : /\ PackageApproved(c)
                                  /\ d = [Goes(c, Execution, "running") EXCEPT !.exec = e]
  <2>1. PICK e \in Mine(execs) : /\ PackageApproved(c)
                                 /\ d = [Goes(c, Execution, "running") EXCEPT !.exec = e]
    BY <1>2
  <2>2. e \in 0..MaxExecutions
    BY CodeTyped, WorkflowAssumption DEF Mine
  <2>3. Execution \in 0..Integration /\ "running" \in Underway
    BY Stages DEF Underway
  <2> QED  BY <2>1, <2>2, <2>3, GoesFields, WithEvidence DEF PackageApproved
<1>3. CASE \E r \in Mine(reviews) : /\ c.stage = Execution
                                    /\ d = [Goes(c, Review, "running") EXCEPT !.review = r]
  <2>1. PICK r \in Mine(reviews) : /\ c.stage = Execution
                                   /\ d = [Goes(c, Review, "running") EXCEPT !.review = r]
    BY <1>3
  <2>2. r \in Nat
    BY CodeTyped DEF Mine
  <2>3. Review \in 0..Integration /\ "running" \in Underway
    BY Stages DEF Underway
  <2> QED  BY <2>1, <2>2, <2>3, GoesFields, WithEvidence
<1>4. CASE c.stage = Review /\ d = Goes(c, Integration, "waiting")
  <2>1. Integration \in 0..Integration /\ "waiting" \in Underway
    BY Stages DEF Underway
  <2> QED  BY <1>4, <2>1, GoesFields
<1>5. CASE /\ AttemptsOf(c.exec) # {} /\ c.stage = Integration /\ c.at = "waiting"
           /\ d = [Goes(c, Integration, "running") EXCEPT !.attempt = Newest(AttemptsOf(c.exec))]
  <2>1. Integration \in 0..Integration /\ "running" \in Underway
    BY Stages DEF Underway
  <2>2. AttemptsOf(c.exec) \in SUBSET (1..Len(attempts)) /\ Len(attempts) \in Nat
    BY CodeTyped DEF AttemptsOf
  <2>3. Newest(AttemptsOf(c.exec)) \in DOMAIN attempts /\ Newest(AttemptsOf(c.exec)) \in Nat
    BY <1>5, <2>2, NewestIsIn, CodeTyped
  <2> QED  BY <1>5, <2>1, <2>3, GoesFields, WithEvidence
<1>6. CASE /\ c.stage = Integration /\ c.at = "running" /\ Complete(c)
           /\ d = Goes(c, 0, "completed")
  <2>1. 0 \in 0..Integration /\ "completed" \in Terminal
    BY Stages DEF Terminal
  <2> QED  BY <1>6, <2>1, GoesFields
<1> QED  BY <1>1, <1>2, <1>3, <1>4, <1>5, <1>6, Zenon DEF Reached

\* The context that a relink makes is one a workflow can stand in.
LEMMA RelinkedFields ==
  ASSUME TypeInv
  PROVE  /\ Relinked \in Context
         /\ Relinked.version = wf.version + 1
         /\ Relinked.stage <= Review
         /\ Relinked.at \in Underway \cup {"failed", "manual"}
         /\ Legal(Relinked)
         /\ project.phase = 0 /\ wf.at = "unlinked" => First(Relinked)
         /\ First(Relinked) => project.phase = 0
<1> DEFINE d == Decision(project)
           e == IF wf.at # "unlinked" /\ project = Stand(Last, "approved") /\ Succeeded # {}
                THEN Newest(Succeeded) ELSE 0
           r == IF e # 0 /\ AcceptedOf(e) # {} THEN Newest(AcceptedOf(e)) ELSE 0
<1>1. /\ d[1] \in 0..Last /\ d[2] \in {"running", "waiting", "failed", "manual"}
      /\ d[1] >= 1 => d[2] \in Underway
      /\ project.phase = 0 => d = <<0, "running">>
      /\ d[1] = 0 /\ d[2] = "running" => project.phase = 0
  <2>1. project \in Project /\ (project.phase = 0 => project.at = "approved")
    BY DEF TypeInv, TypeOK
  <2> QED  BY <2>1, Stages DEF Decision, Project, Stands, Stand, Underway
<1>2. e \in 0..MaxExecutions
  <2>1. Succeeded \in SUBSET (1..Len(execs)) /\ Len(execs) \in 0..MaxExecutions
    BY CodeTyped DEF Succeeded
  <2>2. CASE Succeeded # {}
    <3>1. Len(execs) \in Nat
      BY CodeTyped
    <3>2. Newest(Succeeded) \in Succeeded
      BY <2>1, <2>2, <3>1, NewestIsIn, Zenon
    <3>3. Newest(Succeeded) \in 1..Len(execs)
      BY <2>1, <3>2, Zenon
    <3>4. Newest(Succeeded) \in 0..MaxExecutions
      BY <2>1, <3>3, WorkflowAssumption, SMT
    <3> QED  BY <3>4, WorkflowAssumption
  <2>3. CASE Succeeded = {}
    BY <2>3, WorkflowAssumption
  <2> QED  BY <2>2, <2>3
<1>3. r \in Nat /\ (r # 0 => e # 0)
  <2>1. AcceptedOf(e) \in SUBSET (1..Len(reviews)) /\ Len(reviews) \in Nat
    BY CodeTyped DEF AcceptedOf, ReviewsOf
  <2>2. CASE AcceptedOf(e) # {}
    <3> HIDE DEF e
    <3>1. Newest(AcceptedOf(e)) \in AcceptedOf(e)
      BY <2>1, <2>2, NewestIsIn, Zenon
    <3>2. Newest(AcceptedOf(e)) \in Nat
      BY <2>1, <3>1
    <3> QED  BY <3>2
  <2>3. CASE AcceptedOf(e) = {}
    BY <2>3
  <2> QED  BY <2>2, <2>3
<1>4. Relinked = [stage |-> IF r # 0 THEN Review ELSE IF e # 0 THEN Execution ELSE d[1],
                  at |-> IF e # 0 THEN "running" ELSE d[2],
                  version |-> wf.version + 1, exec |-> e, review |-> r, attempt |-> 0]
  BY DEF Relinked
<1>5. e # 0 => wf.at # "unlinked" /\ project.phase = Last
  BY DEF Stand
<1>6. wf.version \in Nat
  BY DEF TypeInv, TypeOK, Context
<1> HIDE DEF d, e, r
<1>7. Relinked \in Context
  BY <1>1, <1>2, <1>3, <1>4, <1>6, Stages DEF Context, Underway, Terminal
<1> QED  BY <1>1, <1>2, <1>3, <1>4, <1>5, <1>6, <1>7, Stages DEF Legal, First, Underway
-----------------------------------------------------------------------------
(***************************************************************************)
(* Types.                                                                  *)
(***************************************************************************)

\* No step takes an execution, an acceptance or a verification back.
LEMMA CodeStep ==
  ASSUME TypeInv, EngineInv, [Next]_vars
  PROVE  CodeTypedNext /\ Kept
<1>1. CASE UNCHANGED <<execs, reviews, attempts>>
  BY <1>1, CodeUnchanged
<1>2. CASE ExecuteByHand
  <2>1. [byWorkflow |-> FALSE, status |-> "pending"] \in ExecRows
    BY DEF ExecRows
  <2> QED  BY <1>2, <2>1, ExecAdded DEF ExecuteByHand
<1>3. CASE \E e \in DOMAIN execs : ReviewByHand(e)
  <2>1. PICK e \in DOMAIN execs : ReviewByHand(e)
    BY <1>3
  <2>2. [byWorkflow |-> FALSE, exec |-> e, status |-> "pending"] \in ReviewRows
    BY CodeTyped, WorkflowAssumption DEF ReviewRows
  <2> QED  BY <2>1, <2>2, ReviewAdded DEF ReviewByHand
<1>4. CASE \E e \in DOMAIN execs : ExecutionEnds(e)
  BY <1>4, ExecEnded DEF ExecutionEnds, Ends
<1>5. CASE \E e \in DOMAIN execs : BeginIntegration(e)
  <2>1. PICK e \in DOMAIN execs : BeginIntegration(e)
    BY <1>5
  <2>2. [exec |-> e, status |-> "open"] \in AttemptRows
    BY CodeTyped, WorkflowAssumption DEF AttemptRows
  <2> QED  BY <2>1, <2>2, AttemptAdded DEF BeginIntegration
<1>6. CASE \E r \in DOMAIN reviews : ReviewEnds(r)
  BY <1>6, ReviewEnded DEF ReviewEnds, Ends
<1>7. CASE \E i \in DOMAIN attempts : IntegrationEnds(i)
  BY <1>7, AttemptEnded DEF IntegrationEnds, Ends
<1>8. CASE \E w \in Workers : CommitExecution(w)
  <2>1. [byWorkflow |-> TRUE, status |-> "pending"] \in ExecRows
    BY DEF ExecRows
  <2> QED  BY <1>8, <2>1, ExecAdded DEF CommitExecution
<1>9. CASE \E w \in Workers : CommitReview(w)
  <2>1. PICK w \in Workers : CommitReview(w)
    BY <1>9
  <2>2. view[w].wf.exec \in DOMAIN execs
    BY <2>1 DEF CommitReview, EngineInv, Committing, Succeeded
  <2>3. [byWorkflow |-> TRUE, exec |-> view[w].wf.exec, status |-> "pending"] \in ReviewRows
    BY <2>2, CodeTyped, WorkflowAssumption DEF ReviewRows
  <2> QED  BY <2>1, <2>3, ReviewAdded DEF CommitReview
<1> QED
  <2>1. CASE UNCHANGED vars
    BY <2>1, <1>1 DEF vars, work
  <2>2. CASE Documents
    BY <2>2, <1>1 DEF Documents, QueueByHand, StartRun, RunSucceeds, RunFails, Decide
  <2>3. CASE Code
    BY <2>3, <1>2, <1>3, <1>4, <1>5, <1>6, <1>7 DEF Code
  <2>4. CASE Notify \/ DeadLetter \/ Cancel \/ Start \/ RelinkReads \/ RelinkWrites
    BY <2>4, <1>1 DEF Notify, DeadLetter, Cancel, Start, RelinkReads, RelinkWrites, work
  <2>5. CASE \E w \in Workers : Advances(w)
    BY <2>5, <1>1, <1>8, <1>9 DEF Advances, Advance, Conflicts, BeginWork, CommitRun, Refused, AppendTransition, work
  <2>6. CASE Failing
    BY <2>6, <1>1 DEF Failing, NotifyLost, DeadLetterLost, WorkerCrashes, work
  <2> QED  BY <2>1, <2>2, <2>3, <2>4, <2>5, <2>6 DEF Next

\* What TypeInv says of everything but the sequences.
RestTyped ==
  /\ wf \in Context /\ project \in Project
  /\ approved \subseteq Phases
  /\ queued \in [Phases -> Nat] /\ running \in [Phases -> Nat]
  /\ jobs \in Nat /\ owed \in [Callers -> Nat] /\ dying \in Nat
  /\ view \in [Workers -> {NoView} \cup Reading]
  /\ at \in [Workers -> {"idle", "committing", "appending"}]
  /\ \A w \in Workers : view[w] = NoView <=> at[w] = "idle"
  /\ relinking \in {NoView} \cup Writing
  /\ relinks \in Nat /\ byHand \in Nat /\ crashes \in Nat /\ Troubles <= MaxTroubles
  /\ rejected \subseteq Phases
  /\ project.phase = 0 => project.at = "approved"

LEMMA TypedParts == TypeInv => RestTyped
  BY DEF TypeInv, TypeOK, RestTyped

LEMMA TypedWhole == CodeTypedNext /\ RestTyped' => TypeInv'
  BY DEF TypeInv, TypeOK, RestTyped, CodeTypedNext, ExecRows, ReviewRows, AttemptRows

LEMMA StandTyped ==
  ASSUME NEW p \in 0..Last, NEW a \in Stands
  PROVE  Stand(p, a) \in Project /\ Stand(p, a).phase = p /\ Stand(p, a).at = a
  BY DEF Stand, Project

LEMMA OwesTyped ==
  ASSUME RestTyped, NEW k \in Callers, Owes(k)
  PROVE  owed' \in [Callers -> Nat] /\ dying' \in Nat
  BY DEF RestTyped, Owes

LEMMA DiesTyped ==
  ASSUME RestTyped, Dies
  PROVE  owed' \in [Callers -> Nat] /\ dying' \in Nat
  BY DEF RestTyped, Dies

LEMMA LeavesTyped ==
  ASSUME RestTyped, NEW w \in Workers, Leaves(w)
  PROVE  /\ view' \in [Workers -> {NoView} \cup Reading]
         /\ at' \in [Workers -> {"idle", "committing", "appending"}]
         /\ \A v \in Workers : view'[v] = NoView <=> at'[v] = "idle"
  BY DEF RestTyped, Leaves

\* Documents keep the types.
LEMMA DocumentsTyped == RestTyped /\ Documents => RestTyped'
<1> SUFFICES ASSUME RestTyped, NEW p \in Phases,
                    QueueByHand(p) \/ StartRun(p) \/ RunSucceeds(p) \/ RunFails(p) \/ Decide(p)
             PROVE  RestTyped'
  BY DEF Documents
<1> USE DEF RestTyped
<1>1. p \in 0..Last /\ p # 0
  BY Stages DEF Phases
<1>2. \A a \in Stands : Stand(p, a) \in Project /\ Stand(p, a).phase # 0
  BY <1>1, StandTyped
<1>3. CASE QueueByHand(p)
  BY <1>2, <1>3, WorkflowAssumption DEF QueueByHand, ByHand, Calm, Queues, Stands, Troubles, queue, engine
<1>4. CASE StartRun(p)
  BY <1>2, <1>4 DEF StartRun, Stands, Troubles, queue, engine, bounds
<1>5. CASE RunSucceeds(p)
  <2>1. "again" \in Callers
    BY DEF Callers
  <2> QED  BY <1>2, <1>5, <2>1, OwesTyped DEF RunSucceeds, Stands, Troubles, engine, bounds
<1>6. CASE RunFails(p)
  BY <1>2, <1>6, DiesTyped DEF RunFails, Stands, Troubles, engine, bounds
<1>7. CASE Decide(p)
  <2>1. "once" \in Callers
    BY DEF Callers
  <2> QED  BY <1>2, <1>7, <2>1, OwesTyped DEF Decide, Stands, Troubles, engine, bounds
<1> QED  BY <1>3, <1>4, <1>5, <1>6, <1>7

\* Code keeps the types.
LEMMA CodeStepTyped == RestTyped /\ Code => RestTyped'
<1> SUFFICES ASSUME RestTyped, Code PROVE RestTyped'
  OBVIOUS
<1> USE DEF RestTyped
<1> "once" \in Callers
  BY DEF Callers
<1>1. CASE ExecuteByHand
  BY <1>1, WorkflowAssumption DEF ExecuteByHand, ByHand, Calm, Troubles, queue, engine
<1>2. CASE \E e \in DOMAIN execs : ReviewByHand(e)
  BY <1>2, WorkflowAssumption DEF ReviewByHand, ByHand, Calm, Troubles, queue, engine
<1>3. CASE \E e \in DOMAIN execs : ExecutionEnds(e)
  BY <1>3, OwesTyped, DiesTyped DEF ExecutionEnds, Ends, Troubles, engine, bounds
<1>4. CASE \E e \in DOMAIN execs : BeginIntegration(e)
  BY <1>4, OwesTyped DEF BeginIntegration, Troubles, engine, bounds
<1>5. CASE \E r \in DOMAIN reviews : ReviewEnds(r)
  BY <1>5, OwesTyped, DiesTyped DEF ReviewEnds, Ends, Troubles, engine, bounds
<1>6. CASE \E i \in DOMAIN attempts : IntegrationEnds(i)
  BY <1>6, OwesTyped, DiesTyped DEF IntegrationEnds, Ends, Troubles, engine, bounds
<1> QED  BY <1>1, <1>2, <1>3, <1>4, <1>5, <1>6 DEF Code

\* A worker that is not idle has read the row and the project.
LEMMA ReadingParts ==
  ASSUME RestTyped, NEW w \in Workers, at[w] # "idle"
  PROVE  view[w] \in Reading /\ view[w].wf \in Context /\ view[w].project \in Project
  BY DEF RestTyped, Reading

\* What Continues leaves in the view.
LEMMA ContinuesTyped ==
  ASSUME RestTyped, NEW w \in Workers, at[w] # "idle", NEW c \in Context, Continues(w, c)
  PROVE  /\ view' \in [Workers -> {NoView} \cup Reading]
         /\ at' \in [Workers -> {"idle", "committing", "appending"}]
         /\ \A v \in Workers : view'[v] = NoView <=> at'[v] = "idle"
         /\ view'[w].wf = c /\ at'[w] = "appending"
         /\ \A v \in Workers : v # w => view'[v] = view[v] /\ at'[v] = at[v]
<1>1. view[w] \in Reading
  BY ReadingParts
<1> DEFINE new == [view[w] EXCEPT !.wf = c]
<1>2. new \in Reading /\ new.wf = c
  BY <1>1 DEF Reading
<1>3. view' = [view EXCEPT ![w] = new] /\ at' = [at EXCEPT ![w] = "appending"]
  BY DEF Continues
<1> HIDE DEF new
<1>4. new # NoView
  BY <1>2, NoViewAssumption
<1>5. view \in [Workers -> {NoView} \cup Reading]
      /\ at \in [Workers -> {"idle", "committing", "appending"}]
      /\ \A v \in Workers : view[v] = NoView <=> at[v] = "idle"
  BY DEF RestTyped
<1> QED  BY <1>2, <1>3, <1>4, <1>5

\* A service has committed for w, which is to append the context c.
Commits(w, c) ==
  \/ /\ CommitRun(w)
     /\ c = Goes(view[w].wf, view[w].wf.stage + 1, "running")
  \/ /\ CommitExecution(w)
     /\ c = [Goes(view[w].wf, Execution, "running") EXCEPT !.exec = Len(execs) + 1]
  \/ /\ CommitReview(w)
     /\ c = [Goes(view[w].wf, Review, "running") EXCEPT !.review = Len(reviews) + 1]

\* What a service leaves the worker with is one stage behind the row.
LEMMA CommitMakes ==
  ASSUME TypeInv, EngineInv, NEW w \in Workers, NEW c, Commits(w, c)
  PROVE  /\ at[w] = "committing" /\ Continues(w, c)
         /\ c \in Context /\ c.at = "running"
         /\ c.version = wf.version + 1 /\ c.stage = wf.stage + 1 /\ c.stage \in 1..Review
<1>1. at[w] = "committing" /\ Continues(w, c)
  BY DEF Commits, CommitRun, CommitExecution, CommitReview
<1>2. view[w].wf = wf /\ wf \in Context
  BY <1>1 DEF EngineInv, Committing, TypeInv, TypeOK
<1>3. CASE CommitRun(w) /\ c = Goes(wf, wf.stage + 1, "running")
  <2>1. wf.stage + 1 \in Phases
    BY <1>2, <1>3 DEF CommitRun
  <2>2. wf.stage + 1 \in 0..Integration /\ wf.stage + 1 \in 1..Review /\ "running" \in Underway
    BY <2>1, Stages DEF Phases, Underway
  <2> QED  BY <1>1, <1>2, <1>3, <2>2, GoesFields
<1>4. CASE CommitExecution(w) /\ c = [Goes(wf, Execution, "running") EXCEPT !.exec = Len(execs) + 1]
  <2>1. wf.stage = Last /\ Len(execs) < MaxExecutions
    BY <1>2, <1>4 DEF CommitExecution
  <2>2. Len(execs) + 1 \in 0..MaxExecutions
    BY <2>1, CodeTyped, WorkflowAssumption
  <2>3. Execution \in 0..Integration /\ Execution \in 1..Review /\ "running" \in Underway
        /\ Execution = Last + 1
    BY Stages DEF Underway
  <2> QED  BY <1>1, <1>2, <1>4, <2>1, <2>2, <2>3, GoesFields, WithEvidence
<1>5. CASE CommitReview(w) /\ c = [Goes(wf, Review, "running") EXCEPT !.review = Len(reviews) + 1]
  <2>1. wf.stage = Execution
    BY <1>2, <1>5 DEF CommitReview
  <2>2. Len(reviews) + 1 \in Nat
    BY CodeTyped
  <2>3. Review \in 0..Integration /\ Review \in 1..Review /\ "running" \in Underway
        /\ Review = Execution + 1
    BY Stages DEF Underway
  <2> QED  BY <1>1, <1>2, <1>5, <2>1, <2>2, <2>3, GoesFields, WithEvidence
<1> QED  BY <1>2, <1>3, <1>4, <1>5 DEF Commits

LEMMA CommitsSome ==
  ASSUME NEW w \in Workers, CommitRun(w) \/ CommitExecution(w) \/ CommitReview(w)
  PROVE  \E c : Commits(w, c)
  BY DEF Commits

\* Workers keep the types.
LEMMA AdvancesTyped ==
  ASSUME TypeInv, EngineInv, NEW w \in Workers, Advances(w)
  PROVE  RestTyped'
<1> RestTyped
  BY TypedParts
<1> USE DEF RestTyped
<1>1. CASE Advance(w)
  <2>1. wf' \in Context
    BY <1>1, ReachedMoves DEF Advance
  <2> QED  BY <1>1, <2>1 DEF Advance, Takes, Troubles, work, engine, bounds
<1>2. CASE BeginWork(w)
  <2>1. [wf |-> wf, project |-> project] \in Reading
    BY DEF Reading
  <2> QED  BY <1>2, <2>1, NoViewAssumption DEF BeginWork, Takes, Troubles, work, bounds
<1>3. CASE CommitRun(w)
  <2>1. view[w].wf.stage + 1 \in 1..Last
    BY <1>3 DEF CommitRun, Phases
  <2>2. project' \in Project /\ project'.phase # 0 /\ queued' \in [Phases -> Nat]
    BY <1>3, <2>1, StandTyped, Stages DEF CommitRun, Queues, Stands
  <2>3. /\ view' \in [Workers -> {NoView} \cup Reading]
        /\ at' \in [Workers -> {"idle", "committing", "appending"}]
        /\ \A v \in Workers : view'[v] = NoView <=> at'[v] = "idle"
    BY <1>3, CommitsSome, CommitMakes, ContinuesTyped
  <2> QED  BY <1>3, <2>2, <2>3 DEF CommitRun, Continues, Troubles, queue, bounds
<1>4. CASE CommitExecution(w)
  <2>1. /\ view' \in [Workers -> {NoView} \cup Reading]
        /\ at' \in [Workers -> {"idle", "committing", "appending"}]
        /\ \A v \in Workers : view'[v] = NoView <=> at'[v] = "idle"
    BY <1>4, CommitsSome, CommitMakes, ContinuesTyped
  <2> QED  BY <1>4, <2>1 DEF CommitExecution, Continues, Troubles, queue, bounds
<1>5. CASE CommitReview(w)
  <2>1. /\ view' \in [Workers -> {NoView} \cup Reading]
        /\ at' \in [Workers -> {"idle", "committing", "appending"}]
        /\ \A v \in Workers : view'[v] = NoView <=> at'[v] = "idle"
    BY <1>5, CommitsSome, CommitMakes, ContinuesTyped
  <2> QED  BY <1>5, <2>1 DEF CommitReview, Continues, Troubles, queue, bounds
<1>6. CASE Refused(w)
  BY <1>6, LeavesTyped, DiesTyped DEF Refused, Troubles, work, bounds
<1>7. CASE AppendTransition(w)
  <2>1. view[w].wf \in Context
    BY <1>7, ReadingParts DEF AppendTransition
  <2> QED  BY <1>7, <2>1, LeavesTyped, DiesTyped DEF AppendTransition, Troubles, work, queue, bounds
<1>8. CASE Conflicts(w)
  BY <1>8, DiesTyped DEF Conflicts, Takes, Troubles, work, engine, bounds
<1> QED  BY <1>1, <1>2, <1>3, <1>4, <1>5, <1>6, <1>7, <1>8 DEF Advances

\* Everybody else keeps the types.
LEMMA OthersTyped ==
  ASSUME TypeInv,
         \/ Notify \/ DeadLetter \/ Cancel \/ Start \/ RelinkReads \/ RelinkWrites
         \/ Failing \/ UNCHANGED vars
  PROVE  RestTyped'
<1> RestTyped
  BY TypedParts
<1> USE DEF RestTyped
<1>0. /\ 0 \in 0..Integration /\ "failed" \in Terminal /\ "cancelled" \in Terminal
      /\ "running" \in Underway
  BY Stages DEF Terminal, Underway
<1>1. CASE Notify
  BY <1>1 DEF Notify, Called, Troubles, work, engine, bounds
<1>2. CASE DeadLetter
  <2>1. wf' \in Context
    BY <1>0, <1>2, GoesFields DEF DeadLetter
  <2> QED  BY <1>2, <2>1 DEF DeadLetter, Troubles, work, engine, bounds
<1>3. CASE Cancel
  <2>1. wf.version + 2 \in Nat
    BY DEF Context
  <2>2. wf' \in Context
    BY <1>0, <1>3, <2>1, GoesFields, WithEvidence DEF Cancel
  <2> QED  BY <1>3, <2>2 DEF Cancel, Troubles, work, queue, engine, bounds
<1>4. CASE Start
  <2>1. wf' \in Context
    BY <1>0, <1>4, GoesFields DEF Start
  <2> QED  BY <1>4, <2>1 DEF Start, Troubles, work, engine, bounds
<1>5. CASE RelinkReads
  <2>1. relinking' \in Writing
    BY <1>5, RelinkedFields DEF RelinkReads, Writing
  <2> QED  BY <1>5, <2>1, WorkflowAssumption DEF RelinkReads, Calm, Troubles, work, queue, engine
<1>6. CASE RelinkWrites
  <2>1. relinking \in Writing
    BY <1>6 DEF RelinkWrites
  <2>2. wf' \in Context
    BY <1>6, <2>1 DEF RelinkWrites, Writing
  <2> QED  BY <1>6, <2>2 DEF RelinkWrites, Troubles, work, engine, bounds
<1>7. CASE \E w \in Workers : WorkerCrashes(w)
  BY <1>7, LeavesTyped, WorkflowAssumption DEF WorkerCrashes, Crash, Calm, Troubles, work
<1>8. CASE NotifyLost
  BY <1>8, WorkflowAssumption DEF NotifyLost, Called, Crash, Calm, Troubles, work, engine
<1>9. CASE DeadLetterLost
  BY <1>9, WorkflowAssumption DEF DeadLetterLost, Crash, Calm, Troubles, work, engine
<1>10. CASE UNCHANGED vars
  BY <1>10 DEF vars, Troubles, work, queue, engine, bounds
<1> QED  BY <1>1, <1>2, <1>3, <1>4, <1>5, <1>6, <1>7, <1>8, <1>9, <1>10 DEF Failing

\* Every step keeps the types.
LEMMA TypeStep ==
  ASSUME TypeInv, EngineInv, [Next]_vars
  PROVE  TypeInv'
<1>1. RestTyped'
  BY DocumentsTyped, CodeStepTyped, AdvancesTyped, OthersTyped, TypedParts DEF Next
<1> QED  BY <1>1, CodeStep, TypedWhole
-----------------------------------------------------------------------------
(***************************************************************************)
(* The row, the lock and what has been read.                               *)
(***************************************************************************)

Keeps(w) == at'[w] = at[w] /\ view'[w] = view[w]

\* In one step one worker at most begins, commits or leaves.
LEMMA WorkerMoves ==
  ASSUME TypeInv, EngineInv, [Next]_vars
  PROVE  \/ \A v \in Workers : Keeps(v)
         \/ \E w \in Workers :
              /\ \A v \in Workers : v # w => Keeps(v)
              /\ \/ BeginWork(w)
                 \/ \E c : Commits(w, c)
                 \/ at[w] # "idle" /\ at'[w] = "idle"
<1> RestTyped
  BY TypedParts
<1>1. CASE UNCHANGED engine
  BY <1>1 DEF engine, Keeps
<1>2. ASSUME NEW w \in Workers, Leaves(w), at[w] # "idle" PROVE
        (\A v \in Workers : v # w => Keeps(v)) /\ at'[w] = "idle"
  BY <1>2 DEF Leaves, RestTyped, Keeps
<1>3. ASSUME NEW w \in Workers, BeginWork(w) PROVE \A v \in Workers : v # w => Keeps(v)
  BY <1>3 DEF BeginWork, RestTyped, Keeps
<1>4. ASSUME NEW w \in Workers, NEW c, Commits(w, c) PROVE \A v \in Workers : v # w => Keeps(v)
  BY <1>4, CommitMakes, ContinuesTyped DEF Keeps
<1>5. CASE Documents
  BY <1>5, <1>1 DEF Documents, QueueByHand, StartRun, RunSucceeds, RunFails, Decide
<1>6. CASE Code
  BY <1>6, <1>1 DEF Code, ExecuteByHand, ReviewByHand, ExecutionEnds, BeginIntegration, ReviewEnds,
       IntegrationEnds, Ends
<1>7. CASE Notify \/ DeadLetter \/ Cancel \/ Start \/ RelinkReads \/ RelinkWrites
  BY <1>7, <1>1 DEF Notify, DeadLetter, Cancel, Start, RelinkReads, RelinkWrites
<1>8. ASSUME NEW w \in Workers, Advances(w) PROVE
        \/ UNCHANGED engine
        \/ BeginWork(w)
        \/ \E c : Commits(w, c)
        \/ Leaves(w) /\ at[w] # "idle"
  <2>1. CASE CommitRun(w) \/ CommitExecution(w) \/ CommitReview(w)
    BY <2>1, CommitsSome
  <2>2. CASE Advance(w) \/ Conflicts(w)
    BY <2>2 DEF Advance, Conflicts
  <2>3. CASE Refused(w) \/ AppendTransition(w)
    BY <2>3 DEF Refused, AppendTransition
  <2> QED  BY <1>8, <2>1, <2>2, <2>3 DEF Advances
<1>9. CASE Failing
  BY <1>9, <1>1, <1>2 DEF Failing, NotifyLost, DeadLetterLost, WorkerCrashes
<1>10. CASE UNCHANGED vars
  BY <1>10, <1>1 DEF vars
<1> QED
  <2>1. CASE \E w \in Workers : Advances(w)
    BY <2>1, <1>1, <1>2, <1>3, <1>4, <1>8
  <2> QED  BY <2>1, <1>5, <1>6, <1>7, <1>9, <1>10 DEF Next

\* Who writes the workflow's row, and what.
Rewrites ==
  \/ LockFree /\ wf' \in Reached(wf)
  \/ /\ LockFree
     /\ \E w \in Workers : at[w] = "appending" /\ NewVersion(view[w].wf) /\ wf' = view[w].wf
  \/ LockFree /\ Alive /\ wf' = Goes(wf, 0, "failed")
  \/ LockFree /\ Alive /\ wf' = [Goes(wf, 0, "cancelled") EXCEPT !.version = wf.version + 2]
  \/ wf.at = "unlinked" /\ wf' = Goes(wf, 0, "running")
  \/ LockFree /\ relinking # NoView /\ NewVersion(relinking.wf) /\ wf' = relinking.wf

\* Nobody else writes the row.
LEMMA RowMoves ==
  ASSUME [Next]_vars
  PROVE  UNCHANGED wf \/ Rewrites
<1>1. CASE Documents
  BY <1>1 DEF Documents, QueueByHand, StartRun, RunSucceeds, RunFails, Decide
<1>2. CASE Code
  BY <1>2 DEF Code, ExecuteByHand, ReviewByHand, ExecutionEnds, BeginIntegration, ReviewEnds,
       IntegrationEnds, Ends
<1>3. CASE Notify \/ DeadLetter \/ Cancel \/ Start \/ RelinkReads \/ RelinkWrites
  BY <1>3 DEF Rewrites, Notify, DeadLetter, Cancel, Start, RelinkReads, RelinkWrites
<1>4. CASE \E w \in Workers : Advances(w)
  <2>1. PICK w \in Workers : Advances(w)
    BY <1>4
  <2>2. CASE Advance(w)
    BY <2>2 DEF Rewrites, Advance, Takes
  <2>3. CASE AppendTransition(w)
    BY <2>3 DEF Rewrites, AppendTransition
  <2>4. CASE \/ Conflicts(w) \/ BeginWork(w) \/ CommitRun(w) \/ CommitExecution(w)
             \/ CommitReview(w) \/ Refused(w)
    BY <2>4 DEF Conflicts, BeginWork, CommitRun, CommitExecution, CommitReview, Refused, Continues
  <2> QED  BY <2>1, <2>2, <2>3, <2>4 DEF Advances
<1>5. CASE Failing
  BY <1>5 DEF Failing, NotifyLost, DeadLetterLost, WorkerCrashes
<1>6. CASE UNCHANGED vars
  BY <1>6 DEF vars
<1> QED  BY <1>1, <1>2, <1>3, <1>4, <1>5, <1>6 DEF Next

\* A rewritten row has a new version, and nobody is about to commit.
LEMMA RowGrows ==
  ASSUME TypeInv, EngineInv, Rewrites
  PROVE  /\ Life!Next
         /\ wf'.version \in {wf.version + 1, wf.version + 2}
         /\ Legal(wf')
         /\ wf'.stage = Integration /\ wf'.at = "running" => wf'.attempt \in DOMAIN attempts
         /\ \A w \in Workers : at[w] # "committing"
<1>0. /\ wf \in Context /\ 0 \in 0..Integration /\ "failed" \in Terminal
      /\ "cancelled" \in Terminal /\ "running" \in Underway /\ Life!Underway = Underway
      /\ Legal(wf)
  BY Stages DEF Terminal, Underway, Life!Underway, TypeInv, TypeOK, EngineInv, RowInv
<1>1. wf.version \in Nat /\ wf.at \in Underway \cup Terminal \cup {"unlinked", "manual"}
      /\ wf.stage \in 0..Integration
  BY <1>0 DEF Context
<1>2. CASE LockFree /\ wf' \in Reached(wf)
  <2>1. \/ Life!Await \/ Life!Proceed \/ Life!Accept \/ Life!Integrate \/ Life!Complete
    BY <1>2, <1>0, <1>1, ReachedMoves, Stages DEF Life!Await, Life!Proceed, Life!Accept,
       Life!Integrate, Life!Complete, Life!Moves, Legal, Phases
  <2>2. Legal(wf') /\ wf'.version = wf.version + 1
    BY <1>2, <1>0, <1>1, ReachedMoves, Stages DEF Legal, Phases, Underway
  <2>3. wf'.stage = Integration /\ wf'.at = "running" => wf'.attempt \in DOMAIN attempts
    BY <1>2, <1>0, <1>1, ReachedMoves, Stages DEF Phases
  <2> QED  BY <1>2, <2>1, <2>2, <2>3 DEF Life!Next, LockFree
<1>3. CASE /\ LockFree
           /\ \E w \in Workers : at[w] = "appending" /\ NewVersion(view[w].wf) /\ wf' = view[w].wf
  <2>1. PICK w \in Workers : at[w] = "appending" /\ NewVersion(view[w].wf) /\ wf' = view[w].wf
    BY <1>3
  <2>2. /\ wf'.stage \in 1..Review /\ wf'.at = "running"
        /\ wf.at \in Underway /\ wf'.stage = wf.stage + 1
    BY <2>1 DEF EngineInv, Appending
  <2>3. wf'.version = wf.version + 1
    <3>1. view[w].wf \in Context
      BY <2>1, ReadingParts, TypedParts
    <3> QED  BY <2>1, <3>1, <1>1 DEF NewVersion, Context
  <2>4. Life!Proceed
    BY <1>0, <1>1, <2>2, <2>3, Stages DEF Life!Proceed, Life!Moves
  <2> QED  BY <1>0, <1>1, <1>3, <2>2, <2>3, <2>4, Stages DEF Life!Next, Legal, LockFree
<1>4. CASE LockFree /\ Alive /\ wf' = Goes(wf, 0, "failed")
  <2>1. wf'.stage = 0 /\ wf'.at = "failed" /\ wf'.version = wf.version + 1
    BY <1>0, <1>4, GoesFields
  <2>2. Life!Fail
    BY <1>0, <1>1, <1>4, <2>1 DEF Life!Fail, Life!Moves, Alive
  <2> QED  BY <1>1, <1>4, <2>1, <2>2, Stages DEF Life!Next, Legal, LockFree
<1>5. CASE LockFree /\ Alive /\ wf' = [Goes(wf, 0, "cancelled") EXCEPT !.version = wf.version + 2]
  <2>1. wf'.stage = 0 /\ wf'.at = "cancelled" /\ wf'.version = wf.version + 2
    <3>1. wf.version + 2 \in Nat
      BY <1>1
    <3> QED  BY <1>0, <1>5, <3>1, GoesFields, WithEvidence
  <2>2. Life!Cancel
    BY <1>0, <1>1, <1>5, <2>1 DEF Life!Cancel, Life!Moves, Alive
  <2> QED  BY <1>1, <1>5, <2>1, <2>2, Stages DEF Life!Next, Legal, LockFree
<1>6. CASE wf.at = "unlinked" /\ wf' = Goes(wf, 0, "running")
  <2>1. wf'.stage = 0 /\ wf'.at = "running" /\ wf'.version = wf.version + 1
    BY <1>0, <1>6, GoesFields
  <2>2. Life!Start
    BY <1>6, <2>1 DEF Life!Start, Life!Moves
  <2>3. \A w \in Workers : at[w] # "committing"
    BY <1>6 DEF EngineInv, Committing, Underway
  <2> QED  BY <1>1, <2>1, <2>2, <2>3, Stages DEF Life!Next, Legal
<1>7. CASE LockFree /\ relinking # NoView /\ NewVersion(relinking.wf) /\ wf' = relinking.wf
  <2>1. /\ wf'.stage <= Review /\ wf'.at \in Underway \cup {"failed", "manual"}
        /\ Legal(wf')
        /\ wf.at \in {"unlinked", "failed"} \/ wf.stage = Execution
    BY <1>7 DEF EngineInv, RelinkingInv
  <2>2. relinking.wf \in Context
    BY <1>7 DEF TypeInv, TypeOK, Writing
  <2>3. wf'.version = wf.version + 1 /\ wf'.stage \in 0..Review
    BY <1>1, <1>7, <2>1, <2>2, Stages DEF NewVersion, Context
  <2>4. Life!Relink
    BY <1>0, <2>1, <2>3, Stages DEF Life!Relink, Life!Moves
  <2> QED  BY <1>1, <1>7, <2>1, <2>3, <2>4, Stages DEF Life!Next, LockFree
<1> QED  BY <1>2, <1>3, <1>4, <1>5, <1>6, <1>7 DEF Rewrites

\* Where a workflow stands for which a service has to commit.
LEMMA DueStages ==
  ASSUME TypeInv, EngineInv, Due(wf)
  PROVE  /\ wf.at \in Underway /\ wf.stage <= Execution
         /\ wf.stage = Execution => wf.exec \in Succeeded
<1>1. wf.stage \in 0..Integration /\ Legal(wf)
  BY DEF TypeInv, TypeOK, Context, EngineInv, RowInv
<1> QED  BY <1>1, Stages DEF Due, PackageApproved, Legal, Underway

\* As long as a worker is about to commit the row stays what it has read.
LEMMA CommittingStep ==
  ASSUME TypeInv, EngineInv, [Next]_vars, Kept, NEW w \in Workers
  PROVE  Committing(w)'
<1> SUFFICES ASSUME at'[w] = "committing" PROVE Committing(w)'
  BY DEF Committing
<1>1. CASE /\ Keeps(w)
           /\ \A v \in Workers : at'[v] = "committing" => at[v] = "committing"
  <2>1. at[w] = "committing" /\ Committing(w)
    BY <1>1 DEF Keeps, EngineInv
  <2>2. UNCHANGED wf
    BY <2>1, RowMoves, RowGrows
  <2> QED  BY <1>1, <2>1, <2>2 DEF Committing, Keeps, Kept
<1>2. CASE BeginWork(w) /\ \A v \in Workers : v # w => Keeps(v)
  <2>1. /\ at[w] = "idle" /\ Due(wf) /\ UNCHANGED wf /\ \A v \in Workers : at[v] # "committing"
    BY <1>2 DEF BeginWork, Takes, LockFree
  <2>2. view'[w] = [wf |-> wf, project |-> project]
    BY <1>2, TypedParts DEF BeginWork, RestTyped
  <2>3. view'[w].wf = wf
    BY <2>2
  <2>4. \A v \in Workers : at'[v] = "committing" => v = w
    BY <1>2, <2>1 DEF Keeps
  <2> QED  BY <2>1, <2>3, <2>4, DueStages DEF Committing, Kept
<1>3. CASE \E u \in Workers : u # w /\ BeginWork(u) /\ Keeps(w)
  BY <1>3 DEF BeginWork, Takes, LockFree, Keeps
<1> QED
  <2>1. ASSUME NEW u \in Workers, \E c : Commits(u, c) PROVE at'[u] = "appending"
    BY <2>1, CommitMakes, ContinuesTyped, TypedParts
  <2>2. CASE \A v \in Workers : Keeps(v)
    BY <2>2, <1>1 DEF Keeps
  <2>3. ASSUME NEW u \in Workers, \A v \in Workers : v # u => Keeps(v),
               BeginWork(u) \/ (\E c : Commits(u, c)) \/ (at[u] # "idle" /\ at'[u] = "idle")
        PROVE  Committing(w)'
    <3>1. CASE BeginWork(u)
      BY <2>3, <3>1, <1>2, <1>3
    <3>2. CASE at'[u] # "committing"
      BY <2>3, <3>2, <1>1 DEF Keeps
    <3> QED  BY <2>1, <2>3, <3>1, <3>2
  <2> QED  BY <2>2, <2>3, WorkerMoves

LEMMA VersionStep ==
  ASSUME TypeInv, EngineInv, [Next]_vars
  PROVE  wf.version <= wf'.version /\ wf.version \in Nat /\ wf'.version \in Nat
<1>1. wf.version \in Nat
  BY DEF TypeInv, TypeOK, Context
<1> QED  BY <1>1, RowMoves, RowGrows

\* What was computed behind some version of the row is behind the same row, or is late.
LEMMA LateStaysLate ==
  ASSUME TypeInv, EngineInv, [Next]_vars
  PROVE  \A c \in Context : wf'.version = c.version - 1 /\ c.version - 1 <= wf.version
                              => NewVersion(c) /\ UNCHANGED wf
  BY RowMoves, RowGrows, VersionStep DEF NewVersion

\* What a worker is about to append is one step behind the row, or late.
LEMMA AppendingStep ==
  ASSUME TypeInv, EngineInv, [Next]_vars, NEW w \in Workers
  PROVE  Appending(w)'
<1> SUFFICES ASSUME at'[w] = "appending" PROVE Appending(w)'
  BY DEF Appending
<1>1. CASE Keeps(w)
  <2>1. at[w] = "appending" /\ Appending(w) /\ view'[w].wf = view[w].wf
    BY <1>1 DEF Keeps, EngineInv
  <2>2. view[w].wf \in Context
    BY <2>1, ReadingParts, TypedParts
  <2>3. view[w].wf.version - 1 \in 1..wf'.version /\ view[w].wf.version - 1 <= wf.version
    BY <2>1, VersionStep DEF Appending
  <2>4. NewVersion(view[w].wf)' => NewVersion(view[w].wf) /\ UNCHANGED wf
    <3>1. NewVersion(view[w].wf)' <=> wf'.version = view[w].wf.version - 1
      BY <2>1 DEF NewVersion
    <3> QED  BY <2>2, <2>3, <3>1, LateStaysLate
  <2> QED  BY <2>1, <2>3, <2>4 DEF Appending
<1>2. ASSUME NEW c, Commits(w, c) PROVE Appending(w)'
  <2>1. /\ at[w] = "committing" /\ view'[w].wf = c
        /\ c \in Context /\ c.at = "running"
        /\ c.version = wf.version + 1 /\ c.stage = wf.stage + 1 /\ c.stage \in 1..Review
        /\ UNCHANGED wf
    BY <1>2, CommitMakes, ContinuesTyped, TypedParts DEF Continues
  <2>2. wf.at \in Underway /\ wf.version >= 1 /\ wf.version \in Nat
    BY <2>1, VersionStep DEF EngineInv, Committing, RowInv, Legal, Underway
  <2> QED  BY <2>1, <2>2 DEF Appending
<1> QED
  <2>1. ASSUME NEW u \in Workers, BeginWork(u) PROVE u # w \/ at'[w] = "committing"
    BY <2>1, TypedParts DEF BeginWork, RestTyped
  <2> QED  BY <1>1, <1>2, <2>1, WorkerMoves

LEMMA RelinkingMoves ==
  ASSUME [Next]_vars
  PROVE  UNCHANGED relinking \/ relinking' = NoView \/ RelinkReads
<1>1. CASE Documents
  BY <1>1 DEF Documents, QueueByHand, StartRun, RunSucceeds, RunFails, Decide
<1>2. CASE Code
  BY <1>2 DEF Code, ExecuteByHand, ReviewByHand, ExecutionEnds, BeginIntegration, ReviewEnds,
       IntegrationEnds, Ends
<1>3. CASE Notify \/ DeadLetter \/ Cancel \/ Start \/ RelinkReads \/ RelinkWrites
  BY <1>3 DEF Notify, DeadLetter, Cancel, Start, RelinkWrites
<1>4. CASE \E w \in Workers : Advances(w)
  BY <1>4 DEF Advances, Advance, Conflicts, BeginWork, CommitRun, CommitExecution, CommitReview, Refused,
       AppendTransition, Continues
<1>5. CASE Failing
  BY <1>5 DEF Failing, NotifyLost, DeadLetterLost, WorkerCrashes
<1>6. CASE UNCHANGED vars
  BY <1>6 DEF vars
<1> QED  BY <1>1, <1>2, <1>3, <1>4, <1>5, <1>6 DEF Next

\* What a relink is about to write replaces the row it has read, or is late.
LEMMA RelinkingStep ==
  ASSUME TypeInv, EngineInv, [Next]_vars
  PROVE  RelinkingInv'
<1>1. CASE relinking' = NoView
  BY <1>1 DEF RelinkingInv
<1>2. CASE RelinkReads
  <2>1. relinking'.wf = Relinked /\ UNCHANGED wf
        /\ (wf.at \in {"unlinked", "failed"} \/ wf.stage = Execution)
    BY <1>2 DEF RelinkReads
  <2> QED  BY <2>1, RelinkedFields, VersionStep DEF RelinkingInv, Legal, NewVersion
<1>3. CASE UNCHANGED relinking /\ relinking # NoView
  <2>1. relinking.wf \in Context
    BY <1>3 DEF TypeInv, TypeOK, Writing
  <2>2. relinking.wf.version - 1 \in 0..wf'.version /\ relinking.wf.version - 1 <= wf.version
    BY <1>3, VersionStep DEF EngineInv, RelinkingInv
  <2>3. NewVersion(relinking.wf)' => NewVersion(relinking.wf) /\ UNCHANGED wf
    <3>1. NewVersion(relinking.wf)' <=> wf'.version = relinking.wf.version - 1
      BY <1>3 DEF NewVersion
    <3> QED  BY <2>1, <2>2, <3>1, LateStaysLate
  <2> QED  BY <1>3, <2>2, <2>3 DEF EngineInv, RelinkingInv, Legal
<1> QED  BY <1>1, <1>2, <1>3, RelinkingMoves

LEMMA RowStep ==
  ASSUME TypeInv, EngineInv, [Next]_vars, Kept
  PROVE  RowInv'
  BY RowMoves, RowGrows DEF EngineInv, RowInv, Kept, Legal

\* Every step keeps the row, the lock and what has been read in agreement.
LEMMA EngineStep ==
  ASSUME TypeInv, EngineInv, [Next]_vars
  PROVE  EngineInv'
  BY CodeStep, RowStep, RelinkingStep, CommittingStep, AppendingStep DEF EngineInv
-----------------------------------------------------------------------------
(***************************************************************************)
(* Completion, and the theorems about the row.                             *)
(***************************************************************************)

\* No approval is taken back.
LEMMA ApprovalsKept == ASSUME [Next]_vars PROVE approved \subseteq approved'
<1>1. CASE Documents
  BY <1>1 DEF Documents, QueueByHand, StartRun, RunSucceeds, RunFails, Decide
<1>2. CASE Code
  BY <1>2 DEF Code, ExecuteByHand, ReviewByHand, ExecutionEnds, BeginIntegration, ReviewEnds,
       IntegrationEnds, Ends
<1>3. CASE Notify \/ DeadLetter \/ Cancel \/ Start \/ RelinkReads \/ RelinkWrites
  BY <1>3 DEF Notify, DeadLetter, Cancel, Start, RelinkReads, RelinkWrites, work
<1>4. CASE \E w \in Workers : Advances(w)
  BY <1>4 DEF Advances, Advance, Conflicts, BeginWork, CommitRun, CommitExecution, CommitReview, Refused,
       AppendTransition, work
<1>5. CASE Failing
  BY <1>5 DEF Failing, NotifyLost, DeadLetterLost, WorkerCrashes, work
<1>6. CASE UNCHANGED vars
  BY <1>6 DEF vars, work
<1> QED  BY <1>1, <1>2, <1>3, <1>4, <1>5, <1>6 DEF Next

\* A run is asked for, by an advance with an older reading too, when the phase before
\* it is approved or it is begun anew.
LEMMA CanQueueBacked ==
  ASSUME TypeInv, NEW pr \in Project, Backed(pr), NEW p \in Phases, CanQueue(pr, p)
  PROVE  \A q \in Phases : q < p => q \in approved
<1>1. pr.phase \in Nat /\ p \in Nat /\ \A q \in Phases : q \in Nat
  BY Stages DEF Project, Phases
<1>2. \/ pr.phase = p - 1 /\ pr.at = "approved"
      \/ pr.phase = p
  BY DEF CanQueue, Stand
<1>3. \A q \in Phases : q < p => q < p - 1 \/ q = p - 1
  BY <1>1
<1> QED  BY <1>1, <1>2, <1>3 DEF Backed

\* The package is approved behind every other document.
LEMMA LastBacked ==
  ASSUME NEW pr, Backed(pr), pr = Stand(Last, "approved")
  PROVE  Phases \subseteq approved
<1>1. \A q \in Phases : q < Last \/ q = Last
  BY Stages DEF Phases
<1> QED  BY <1>1 DEF Backed, Stand

\* Where neither a status nor a run nor a row appears, approvals stay behind them.
LEMMA DocumentsKept ==
  ASSUME TypeInv, DocumentsInv, approved \subseteq approved',
         UNCHANGED <<project, queued, running>>,
         \A w \in Workers : at'[w] = "committing" => at[w] = "committing" /\ view'[w] = view[w],
         DOMAIN execs' # {} \/ DOMAIN attempts' # {} =>
           Phases \subseteq approved \/ DOMAIN execs # {} \/ DOMAIN attempts # {}
  PROVE  DocumentsInv'
<1>1. Backed(project)'
  BY DEF DocumentsInv, Backed
<1>2. \A p, q \in Phases : queued'[p] + running'[p] > 0 /\ q < p => q \in approved'
  BY DEF DocumentsInv
<1>3. ASSUME NEW w \in Workers, at'[w] = "committing" PROVE Backed(view[w].project)'
  BY <1>3 DEF DocumentsInv, Backed
<1> QED  BY <1>1, <1>2, <1>3 DEF DocumentsInv

\* A run of phase p is queued, started or ended, and the project says so.
LEMMA DocumentsMove ==
  ASSUME TypeInv, DocumentsInv, approved \subseteq approved', NEW p \in Phases,
         \A q \in Phases : q < p => q \in approved,
         NEW a, project' = Stand(p, a), a = "approved" => p \in approved',
         \A q \in Phases : q # p => queued'[q] = queued[q] /\ running'[q] = running[q],
         \A w \in Workers : at'[w] = "committing" => at[w] = "committing" /\ view'[w] = view[w],
         UNCHANGED <<execs, attempts>>
  PROVE  DocumentsInv'
<1>1. Backed(project)'
  BY DEF Backed, Stand
<1>2. \A r, q \in Phases : queued'[r] + running'[r] > 0 /\ q < r => q \in approved'
  BY DEF DocumentsInv
<1>3. ASSUME NEW w \in Workers, at'[w] = "committing" PROVE Backed(view[w].project)'
  BY <1>3 DEF DocumentsInv, Backed
<1> QED  BY <1>1, <1>2, <1>3 DEF DocumentsInv

LEMMA DocumentsStep ==
  ASSUME TypeInv, EngineInv, DocumentsInv, [Next]_vars
  PROVE  DocumentsInv'
<1>1. /\ approved \subseteq approved' /\ project \in Project
      /\ queued \in [Phases -> Nat] /\ running \in [Phases -> Nat]
  BY ApprovalsKept DEF TypeInv, TypeOK
<1>2. CASE Documents
  <2>1. PICK p \in Phases : QueueByHand(p) \/ StartRun(p) \/ RunSucceeds(p) \/ RunFails(p) \/ Decide(p)
    BY <1>2 DEF Documents
  <2>2. UNCHANGED <<engine, execs, attempts>>
    BY <2>1 DEF QueueByHand, StartRun, RunSucceeds, RunFails, Decide
  <2>3. \A q \in Phases : q < p => q \in approved
    <3>1. CASE QueueByHand(p)
      BY <1>1, <3>1, CanQueueBacked DEF QueueByHand, DocumentsInv
    <3>2. CASE StartRun(p) \/ RunSucceeds(p) \/ RunFails(p)
      <4>1. queued[p] + running[p] > 0
        BY <1>1, <3>2 DEF StartRun, RunSucceeds, RunFails
      <4> QED  BY <4>1 DEF DocumentsInv
    <3>3. CASE Decide(p)
      BY <3>3 DEF Decide, DocumentsInv, Backed, Stand
    <3> QED  BY <2>1, <3>1, <3>2, <3>3
  <2>4. \A q \in Phases : q # p => queued'[q] = queued[q] /\ running'[q] = running[q]
    BY <1>1, <2>1 DEF QueueByHand, Queues, StartRun, RunSucceeds, RunFails, Decide
  <2>5. \E a : project' = Stand(p, a) /\ (a = "approved" => p \in approved')
    BY <2>1 DEF QueueByHand, Queues, StartRun, RunSucceeds, RunFails, Decide
  <2> QED  BY <1>1, <2>2, <2>3, <2>4, <2>5, DocumentsMove DEF engine
<1>3. CASE Code
  <2>1. UNCHANGED <<project, queued, running, engine>>
    BY <1>3 DEF Code, ExecuteByHand, ReviewByHand, ExecutionEnds, BeginIntegration, ReviewEnds,
         IntegrationEnds, Ends
  <2>2. DOMAIN execs' # {} \/ DOMAIN attempts' # {} =>
          Phases \subseteq approved \/ DOMAIN execs # {} \/ DOMAIN attempts # {}
    <3>1. CASE ExecuteByHand
      BY <3>1, LastBacked DEF ExecuteByHand, DocumentsInv
    <3>2. CASE DOMAIN execs # {} \/ DOMAIN attempts # {}
      BY <3>2
    <3>3. CASE ~ ExecuteByHand /\ UNCHANGED <<execs, attempts>>
      BY <3>3
    <3>4. CASE \E r \in DOMAIN reviews : ReviewEnds(r)
      BY <3>3, <3>4 DEF ReviewEnds, Ends
    <3> QED  BY <1>3, <3>1, <3>2, <3>3, <3>4 DEF Code
  <2> QED  BY <1>1, <2>1, <2>2, DocumentsKept DEF engine
<1>4. CASE Notify \/ DeadLetter \/ Cancel \/ Start \/ RelinkReads \/ RelinkWrites \/ UNCHANGED vars
  <2>1. UNCHANGED <<work, engine>>
    BY <1>4 DEF Notify, DeadLetter, Cancel, Start, RelinkReads, RelinkWrites, vars
  <2> QED  BY <1>1, <2>1, DocumentsKept DEF work, engine
<1>5. CASE Failing
  <2>1. UNCHANGED work
    BY <1>5 DEF Failing, NotifyLost, DeadLetterLost, WorkerCrashes
  <2>2. \A w \in Workers : at'[w] = "committing" => at[w] = "committing" /\ view'[w] = view[w]
    BY <1>5, TypedParts DEF Failing, NotifyLost, DeadLetterLost, WorkerCrashes, Leaves, engine, RestTyped
  <2> QED  BY <1>1, <2>1, <2>2, DocumentsKept DEF work
<1>6. ASSUME NEW w \in Workers, Advances(w) PROVE DocumentsInv'
  <2>1. CASE Advance(w) \/ Conflicts(w)
    BY <1>1, <2>1, DocumentsKept DEF Advance, Conflicts, work, engine
  <2>2. CASE BeginWork(w)
    <3>1. UNCHANGED work
      BY <2>2 DEF BeginWork
    <3>2. view' = [view EXCEPT ![w] = [wf |-> wf, project |-> project]]
          /\ \A v \in Workers : v # w => at'[v] = at[v]
      BY <2>2, TypedParts DEF BeginWork, RestTyped
    <3>3. view'[w].project = project /\ \A v \in Workers : v # w => view'[v] = view[v]
      BY <3>2, TypedParts DEF RestTyped
    <3> QED  BY <3>1, <3>2, <3>3 DEF DocumentsInv, Backed, work
  <2>3. ASSUME NEW c, Commits(w, c) PROVE
          /\ at[w] = "committing" /\ view[w].project \in Project
          /\ \A v \in Workers :
               at'[v] = "committing" => at[v] = "committing" /\ view'[v] = view[v]
    <3>1. at[w] = "committing"
      BY <2>3, CommitMakes
    <3>2. view[w] \in Reading
      BY <3>1, TypedParts DEF RestTyped
    <3> QED  BY <2>3, <3>1, <3>2, CommitMakes, ContinuesTyped, TypedParts DEF Reading
  <2>4. CASE CommitRun(w)
    <3>1. PICK c : Commits(w, c)
      BY <2>4, CommitsSome
    <3> DEFINE p == view[w].wf.stage + 1
    <3>2. /\ p \in Phases /\ CanQueue(view[w].project, p)
          /\ project' = Stand(p, "underway") /\ queued' = [queued EXCEPT ![p] = @ + 1]
          /\ UNCHANGED <<running, execs, attempts>>
      BY <2>4 DEF CommitRun, Queues
    <3>3. Backed(view[w].project)
      BY <2>3, <3>1 DEF DocumentsInv
    <3>4. \A q \in Phases : q < p => q \in approved
      BY <2>3, <3>1, <3>2, <3>3, CanQueueBacked
    <3>5. \A q \in Phases : q # p => queued'[q] = queued[q] /\ running'[q] = running[q]
      BY <1>1, <3>2
    <3> HIDE DEF p
    <3> QED  BY <1>1, <2>3, <3>1, <3>2, <3>4, <3>5, DocumentsMove
  <2>5. CASE CommitExecution(w)
    <3>1. PICK c : Commits(w, c)
      BY <2>5, CommitsSome
    <3>2. Phases \subseteq approved
      BY <2>3, <2>5, <3>1, LastBacked DEF CommitExecution, DocumentsInv
    <3> QED  BY <1>1, <2>3, <2>5, <3>1, <3>2, DocumentsKept DEF CommitExecution
  <2>6. CASE CommitReview(w)
    <3>1. PICK c : Commits(w, c)
      BY <2>6, CommitsSome
    <3> QED  BY <1>1, <2>3, <2>6, <3>1, DocumentsKept DEF CommitReview
  <2>7. CASE Refused(w) \/ AppendTransition(w)
    <3>1. UNCHANGED work
      BY <2>7 DEF Refused, AppendTransition
    <3>2. \A v \in Workers : at'[v] = "committing" => at[v] = "committing" /\ view'[v] = view[v]
      BY <2>7, TypedParts DEF Refused, AppendTransition, Leaves, RestTyped
    <3> QED  BY <1>1, <3>1, <3>2, DocumentsKept DEF work
  <2> QED  BY <1>6, <2>1, <2>2, <2>4, <2>5, <2>6, <2>7 DEF Advances
<1> QED  BY <1>2, <1>3, <1>4, <1>5, <1>6 DEF Next

\* Only advance completes a workflow, when the evidence is there, and it stays there.
LEMMA CompletedStep ==
  ASSUME TypeInv, EngineInv, DocumentsInv, CompletedInv, [Next]_vars
  PROVE  CompletedInv'
<1> SUFFICES ASSUME wf'.at = "completed" PROVE CompletedInv'
  BY DEF CompletedInv
<1>1. Kept /\ approved \subseteq approved'
  BY CodeStep, ApprovalsKept
<1> DEFINE Evidence(c) ==
             /\ c.attempt \in DOMAIN attempts
             /\ attempts[c.attempt].status = "verified" /\ attempts[c.attempt].exec = c.exec
             /\ AcceptedOf(c.exec) # {}
             /\ Phases \subseteq approved
<1>2. Evidence(wf')
  <2>1. CASE UNCHANGED wf
    BY <2>1 DEF CompletedInv
  <2>2. CASE LockFree /\ wf' \in Reached(wf)
    <3>1. wf \in Context
      BY DEF TypeInv, TypeOK
    <3>2. /\ wf.stage = Integration /\ wf.at = "running" /\ Complete(wf)
          /\ wf'.exec = wf.exec /\ wf'.attempt = wf.attempt
      BY <2>2, <3>1, ReachedMoves
    <3>3. wf.attempt \in DOMAIN attempts
      BY <3>2 DEF EngineInv, RowInv
    <3> QED  BY <3>2, <3>3 DEF Complete, DocumentsInv
  <2>3. CASE \E w \in Workers : at[w] = "appending" /\ NewVersion(view[w].wf) /\ wf' = view[w].wf
    BY <2>3 DEF EngineInv, Appending
  <2>4. CASE relinking # NoView /\ wf' = relinking.wf
    BY <2>4 DEF EngineInv, RelinkingInv, Underway
  <2>5. CASE wf' = Goes(wf, 0, "failed")
    <3>1. Goes(wf, 0, "failed").at = "failed"
      BY GoesFields, Stages DEF Terminal, TypeInv, TypeOK
    <3> QED  BY <2>5, <3>1
  <2>6. CASE wf' = [Goes(wf, 0, "cancelled") EXCEPT !.version = wf.version + 2]
    <3>1. Goes(wf, 0, "cancelled") \in Context /\ Goes(wf, 0, "cancelled").at = "cancelled"
      BY GoesFields, Stages DEF Terminal, TypeInv, TypeOK
    <3> QED  BY <2>6, <3>1 DEF Context
  <2>7. CASE wf' = Goes(wf, 0, "running")
    BY <2>7, GoesFields, Stages DEF Underway, TypeInv, TypeOK
  <2> QED  BY <2>1, <2>2, <2>3, <2>4, <2>5, <2>6, <2>7, RowMoves DEF Rewrites
<1> QED  BY <1>1, <1>2 DEF CompletedInv, Kept

\* The row, what has been read of it and the evidence agree in every reachable state
\* (append_transition, advance, relink_project, verify_completeness).
THEOREM WorkflowInvariant == Spec => []RowsInv
<1>1. Init => RowsInv
  <2> SUFFICES ASSUME Init PROVE RowsInv
    OBVIOUS
  <2>1. wf \in Context /\ wf.at = "unlinked" /\ wf.stage = 0 /\ wf.version = 0
    BY WorkflowAssumption, Stages DEF Init, Context
  <2>2. project \in Project /\ project.phase = 0 /\ project.at = "approved"
    BY StandTyped, Stages DEF Init, Stands
  <2>3. RestTyped
    BY <2>1, <2>2, NoViewAssumption, WorkflowAssumption DEF Init, RestTyped, Troubles
  <2>4. execs = <<>> /\ reviews = <<>> /\ attempts = <<>>
    BY DEF Init
  <2>5. TypeInv
    BY <2>3, <2>4, WorkflowAssumption DEF RestTyped, TypeInv, TypeOK
  <2>6. EngineInv
    BY <2>1, Stages DEF Init, EngineInv, RowInv, Legal, RelinkingInv, Committing, Appending
  <2>7. CompletedInv
    BY <2>1 DEF CompletedInv
  <2>8. DocumentsInv
    BY <2>2, <2>4, <2>6 DEF Init, DocumentsInv, Backed, Phases, Stand
  <2> QED  BY <2>5, <2>6, <2>7, <2>8 DEF RowsInv
<1>2. RowsInv /\ [Next]_vars => RowsInv'
  BY TypeStep, EngineStep, DocumentsStep, CompletedStep DEF RowsInv
<1> QED  BY <1>1, <1>2, PTL DEF Spec

\* Rows, queues and what workers have read keep their types: only a worker that goes
\* on after a commit keeps what it has read (advance).
THEOREM WorkflowTyped == Spec => []TypeOK
<1>1. RowsInv => TypeOK
  BY DEF RowsInv, TypeInv
<1> QED  BY <1>1, WorkflowInvariant, PTL

\* A completed workflow stands for code that was accepted and is integrated, with every
\* document approved, whatever was relinked, cancelled or lost (verify_completeness,
\* which takes any decision, and queue_*_run, which do not).
THEOREM CompletedAlwaysIntegrated == Spec => []CompletedIsIntegrated
<1>1. RowsInv => CompletedIsIntegrated
  BY DEF RowsInv, CompletedInv, CompletedIsIntegrated
<1> QED  BY <1>1, WorkflowInvariant, PTL

\* The workflow implements its lifecycle: every version is one legal step behind the
\* one before it, however late what was computed is written (append_transition).
THEOREM WorkflowKeepsLifecycle == Spec => KeepsLifecycle
<1>1. Init => Life!Init
  BY DEF Init, Life!Init
<1>2. RowsInv /\ [Next]_vars => [Life!Next]_<<wf.stage, wf.at, wf.version>>
  BY RowMoves, RowGrows DEF RowsInv
<1> QED  BY <1>1, <1>2, WorkflowInvariant, PTL DEF Spec, KeepsLifecycle, Life!Spec
-----------------------------------------------------------------------------
(***************************************************************************)
(* One run at a time.  As long as people only decide, and nobody dies, the *)
(* engine begins a phase when the one before it is approved, and then no   *)
(* run is under way.  The requirements are the exception, since a failed or *)
(* rejected run may be begun anew while the workflow still stands at its   *)
(* start: no job and no call of notify is left that would do so, because a *)
(* run that is going to be tried again has told nobody.                    *)
(***************************************************************************)

\* The hypothesis of EngineQueuesOnce.
OnlyEngine == byHand = 0 /\ crashes = 0 /\ 1 \notin rejected

NoCode == execs = <<>> /\ reviews = <<>> /\ attempts = <<>>
Quiet == \A k \in Callers : owed[k] = 0

\* A run that waits or is executed is of the phase the project is in.
CrewInv ==
  /\ \A p \in Phases : queued[p] + running[p] <= 1
  /\ \A p \in Crews : /\ project.phase = p
                      /\ project.at = "underway" \/ (project.at = "failed" /\ running[p] = 0)
  /\ project.phase = 1 /\ project.at = "rejected" => 1 \in rejected

\* Before the first run there is at most one job, or one worker that begins the run.
BeforeInv ==
  project.phase = 0 =>
    /\ NoCode /\ Quiet /\ dying = 0 /\ jobs <= 1
    /\ wf.at \in {"unlinked", "cancelled"} \/ First(wf)
    /\ wf.at = "unlinked" => jobs = 0 /\ wf.version = 0
    /\ relinking # NoView => First(relinking.wf) /\ ~relinking.ready
    /\ \A w \in Workers :
         /\ at[w] # "appending"
         /\ at[w] = "committing" => jobs = 0 /\ view[w].project = project

\* The first run is under way, or waits to be tried again, and its begin is not yet
\* written down: nothing is left that could make the engine look at the workflow.
FirstInv ==
  /\ wf.at = "unlinked" => project.phase = 0 /\ \A w \in Workers : at[w] = "idle"
  /\ First(wf) => wf.version = 1 /\ NoCode
  /\ First(wf) /\ project.phase = 1 /\ project.at \in {"underway", "failed"} =>
       jobs = 0 /\ Quiet /\ LockFree
  /\ relinking # NoView /\ First(relinking.wf) => relinking.wf.version = 1

\* What w has read of the project still says whether it may begin the next phase.
ReadInv(w) ==
  at[w] = "committing" =>
    /\ view[w].wf.stage = 0 =>
         /\ ~(view[w].project.phase = 1 /\ view[w].project.at \in {"failed", "rejected"})
         /\ view[w].project.phase = 0 => project.phase = 0
    /\ view[w].wf.stage \in 1..(Last - 1) =>
         /\ view[w].project.phase = view[w].wf.stage /\ view[w].project.at = "approved"
         /\ project = view[w].project

EngineAlone == CrewInv /\ BeforeInv /\ FirstInv /\ \A w \in Workers : ReadInv(w)

QueueInv == OnlyEngine => EngineAlone

LEMMA IsStand ==
  ASSUME NEW pr \in Project, NEW p, NEW a
  PROVE  pr = Stand(p, a) <=> pr.phase = p /\ pr.at = a
  BY DEF Project, Stand

LEMMA CrewPhase ==
  ASSUME TypeInv, CrewInv, NEW p \in Phases
  PROVE  /\ queued[p] \in Nat /\ running[p] \in Nat /\ queued[p] + running[p] <= 1
         /\ queued[p] > 0 => project.phase = p /\ project.at \in {"underway", "failed"}
         /\ running[p] > 0 => project.phase = p /\ project.at = "underway"
  BY DEF TypeInv, TypeOK, CrewInv, Crews

\* A run that starts, ends or is decided on leaves no second one.
LEMMA DocumentsAlone ==
  ASSUME TypeInv, EngineInv, EngineAlone, Documents, byHand' = 0, 1 \notin rejected'
  PROVE  EngineAlone'
<1>0. PICK p \in Phases : QueueByHand(p) \/ StartRun(p) \/ RunSucceeds(p) \/ RunFails(p) \/ Decide(p)
  BY DEF Documents
<1>1. p \in Nat /\ p >= 1 /\ p \in 0..Last
  BY Stages DEF Phases
<1>2. /\ queued \in [Phases -> Nat] /\ running \in [Phases -> Nat] /\ project \in Project
      /\ byHand \in Nat /\ CrewInv
  BY DEF TypeInv, TypeOK, EngineAlone
<1>3. /\ UNCHANGED <<wf, engine, relinking, execs, reviews, attempts, jobs>>
      /\ project.phase = p /\ project.at \in {"underway", "failed", "awaiting"}
      /\ project'.phase = p /\ project'.at \in Stands
      /\ project'.at \in {"underway", "failed"} =>
           project.at \in {"underway", "failed"} /\ UNCHANGED owed
      /\ CrewInv'
  <2>1. ~ QueueByHand(p)
    BY <1>2 DEF QueueByHand, ByHand
  <2>2. CASE StartRun(p)
    <3>1. project' = Stand(p, "underway")
      BY <2>2 DEF StartRun
    <3> QED  BY <1>1, <1>2, <2>2, <3>1, CrewPhase, StandTyped
             DEF StartRun, Stands, CrewInv, Crews, queue
  <2>3. CASE RunSucceeds(p)
    <3>1. project' = Stand(p, "awaiting") \/ project' = Stand(p, "approved")
      BY <2>3 DEF RunSucceeds
    <3> QED  BY <1>1, <1>2, <2>3, <3>1, CrewPhase, StandTyped
             DEF RunSucceeds, Stands, CrewInv, Crews
  <2>4. CASE RunFails(p)
    <3>1. project' = Stand(p, "failed")
      BY <2>4 DEF RunFails
    <3> QED  BY <1>1, <1>2, <2>4, <3>1, CrewPhase, StandTyped
             DEF RunFails, Stands, CrewInv, Crews, Dies
  <2>5. CASE Decide(p)
    <3>1. /\ project = Stand(p, "awaiting")
          /\ \/ project' = Stand(p, "approved")
             \/ project' = Stand(p, "rejected") /\ p \in rejected'
      BY <2>5 DEF Decide
    <3> QED  BY <1>1, <1>2, <2>5, <3>1, CrewPhase, StandTyped
             DEF Decide, Stands, CrewInv, Crews
  <2> QED  BY <1>0, <2>1, <2>2, <2>3, <2>4, <2>5
<1>4. BeforeInv'
  BY <1>1, <1>3 DEF BeforeInv
<1>5. FirstInv'
  BY <1>1, <1>3 DEF EngineAlone, FirstInv, First, NoCode, Quiet, LockFree, engine
<1>6. ASSUME NEW w \in Workers PROVE ReadInv(w)'
  BY <1>1, <1>3 DEF EngineAlone, ReadInv, engine
<1> QED  BY <1>3, <1>4, <1>5, <1>6 DEF EngineAlone

\* There is code only after the documents.
LEMMA CodeAlone ==
  ASSUME TypeInv, EngineInv, EngineAlone, Code, byHand' = 0
  PROVE  EngineAlone'
<1>1. /\ byHand \in Nat
      /\ DOMAIN execs # {} \/ DOMAIN reviews # {} \/ DOMAIN attempts # {} => ~NoCode
  BY DEF TypeInv, TypeOK, NoCode
<1>2. /\ UNCHANGED <<wf, project, queued, running, jobs, engine, relinking, rejected>>
      /\ ~NoCode
  <2>1. ~ ExecuteByHand /\ \A e \in DOMAIN execs : ~ ReviewByHand(e)
    BY <1>1 DEF ExecuteByHand, ReviewByHand, ByHand
  <2>2. ASSUME NEW e \in DOMAIN execs, ExecutionEnds(e) \/ BeginIntegration(e) PROVE
          UNCHANGED <<wf, project, queued, running, jobs, engine, relinking, rejected>>
    BY <2>2 DEF ExecutionEnds, BeginIntegration, Ends
  <2>3. ASSUME NEW r \in DOMAIN reviews, ReviewEnds(r) PROVE
          UNCHANGED <<wf, project, queued, running, jobs, engine, relinking, rejected>>
    BY <2>3 DEF ReviewEnds, Ends
  <2>4. ASSUME NEW i \in DOMAIN attempts, IntegrationEnds(i) PROVE
          UNCHANGED <<wf, project, queued, running, jobs, engine, relinking, rejected>>
    BY <2>4 DEF IntegrationEnds, Ends
  <2> QED  BY <1>1, <2>1, <2>2, <2>3, <2>4 DEF Code
<1>3. project.phase # 0 /\ ~First(wf) /\ wf.at # "unlinked"
  BY <1>2 DEF EngineAlone, BeforeInv, FirstInv
<1> QED  BY <1>2, <1>3 DEF EngineAlone, CrewInv, Crews, BeforeInv, FirstInv, First, ReadInv, engine

\* In its first stage a workflow only waits for the first run to be begun.
LEMMA FirstStage ==
  ASSUME TypeInv, EngineInv, wf.stage = 0
  PROVE  Reached(wf) = {} /\ (Due(wf) => First(wf))
<1>1. wf \in Context
  BY DEF TypeInv, TypeOK
<1>2. \A d \in Reached(wf) : FALSE
  BY <1>1, ReachedMoves, Stages DEF Phases
<1> QED  BY <1>2, Stages DEF Due, PackageApproved, First

\* Calls, failures, requests and relinks leave no second run.
LEMMA OthersAlone ==
  ASSUME TypeInv, EngineInv, EngineAlone,
         \/ Notify \/ DeadLetter \/ Cancel \/ Start \/ RelinkReads \/ RelinkWrites \/ UNCHANGED vars
  PROVE  EngineAlone'
<1>0. /\ wf \in Context /\ project \in Project /\ jobs \in Nat /\ dying \in Nat
      /\ owed \in [Callers -> Nat] /\ Legal(wf)
      /\ 0 \in 0..Integration /\ "failed" \in Terminal /\ "cancelled" \in Terminal
      /\ "running" \in Underway
  BY Stages DEF TypeInv, TypeOK, EngineInv, RowInv, Terminal, Underway
<1>1. CrewInv'
  BY DEF EngineAlone, CrewInv, Crews, Notify, DeadLetter, Cancel, Start, RelinkReads, RelinkWrites,
     vars, work
<1>2. \A w \in Workers : ReadInv(w)'
  BY DEF EngineAlone, ReadInv, Notify, DeadLetter, Cancel, Start, RelinkReads, RelinkWrites,
     vars, work, engine
<1> BeforeInv /\ FirstInv
  BY DEF EngineAlone
<1>3. CASE Notify
  <2>1. ~ Quiet
    BY <1>0, <1>3 DEF Quiet, Notify, Called
  <2>2. project.phase # 0 /\ wf.at # "unlinked"
        /\ ~(First(wf) /\ project.phase = 1 /\ project.at \in {"underway", "failed"})
    BY <2>1 DEF BeforeInv, FirstInv
  <2>3. UNCHANGED <<wf, project, relinking, execs, reviews, attempts>>
    BY <1>3 DEF Notify, work
  <2>4. BeforeInv' /\ FirstInv'
    BY <2>2, <2>3 DEF BeforeInv, FirstInv, First, NoCode
  <2> QED  BY <1>1, <1>2, <2>4 DEF EngineAlone
<1>4. CASE DeadLetter
  <2>1. project.phase # 0
    BY <1>0, <1>4 DEF BeforeInv, DeadLetter
  <2>2. wf' = wf \/ wf'.at = "failed"
    BY <1>0, <1>4, GoesFields DEF DeadLetter
  <2>3. BeforeInv' /\ FirstInv'
    BY <1>4, <2>1, <2>2 DEF BeforeInv, FirstInv, First, NoCode, Quiet, LockFree, DeadLetter,
       work, engine
  <2> QED  BY <1>1, <1>2, <2>3 DEF EngineAlone
<1>5. CASE Cancel
  <2>1. wf.version + 2 \in Nat
    BY <1>0 DEF Context
  <2>2. wf'.at = "cancelled"
    BY <1>0, <1>5, <2>1, GoesFields, WithEvidence DEF Cancel
  <2>3. BeforeInv' /\ FirstInv'
    BY <1>5, <2>2 DEF BeforeInv, FirstInv, First, NoCode, Quiet, LockFree, Cancel,
       work, engine, queue
  <2> QED  BY <1>1, <1>2, <2>3 DEF EngineAlone
<1>6. CASE Start
  <2>1. project.phase = 0 /\ wf.version = 0 /\ jobs = 0 /\ \A w \in Workers : at[w] = "idle"
    BY <1>6 DEF Start, BeforeInv, FirstInv
  <2>2. wf'.at = "running" /\ wf'.stage = 0 /\ wf'.version = 1
    BY <1>0, <1>6, <2>1, GoesFields DEF Start
  <2>3. BeforeInv' /\ FirstInv'
    BY <1>6, <2>1, <2>2 DEF BeforeInv, FirstInv, First, NoCode, Quiet, Start, work, engine
  <2> QED  BY <1>1, <1>2, <2>3 DEF EngineAlone
<1>7. CASE RelinkReads
  <2>1. /\ UNCHANGED <<wf, project, execs, reviews, attempts, jobs, owed, dying, view, at>>
        /\ relinking'.wf = Relinked /\ relinking'.ready = (wf.at # "unlinked" /\ project.phase > 0 /\ project.at = "approved")
        /\ wf.at \in {"unlinked", "failed"} \/ wf.stage = Execution
    BY <1>7 DEF RelinkReads, work, queue, engine
  <2>2. project.phase = 0 => wf.at = "unlinked" /\ wf.version = 0
    BY <1>0, <2>1, Stages DEF BeforeInv, First, Legal, Underway
  <2>3. project.phase = 0 => First(Relinked) /\ ~ relinking'.ready
    BY <2>1, <2>2, RelinkedFields
  <2>4. First(Relinked) => Relinked.version = 1
    BY <2>2, RelinkedFields
  <2>5. BeforeInv'
    BY <2>1, <2>3 DEF BeforeInv, First, NoCode, Quiet
  <2>6. FirstInv'
    BY <2>1, <2>4 DEF FirstInv, First, NoCode, Quiet, LockFree
  <2> QED  BY <1>1, <1>2, <2>5, <2>6 DEF EngineAlone
<1>8. CASE RelinkWrites
  <2>1. /\ UNCHANGED <<project, execs, reviews, attempts, owed, dying, view, at>>
        /\ relinking # NoView /\ relinking' = NoView
    BY <1>8 DEF RelinkWrites, work, engine
  <2>2. CASE ~ NewVersion(relinking.wf)
    <3>1. UNCHANGED <<wf, jobs>>
      BY <1>8, <2>2 DEF RelinkWrites
    <3>2. BeforeInv' /\ FirstInv'
      BY <2>1, <3>1 DEF BeforeInv, FirstInv, First, NoCode, Quiet, LockFree
    <3> QED  BY <1>1, <1>2, <3>2 DEF EngineAlone
  <2>3. CASE NewVersion(relinking.wf)
    <3>1. wf' = relinking.wf /\ jobs' = IF relinking.ready THEN jobs + 1 ELSE jobs
      BY <1>8, <2>3 DEF RelinkWrites
    <3>2. /\ wf.at \in {"unlinked", "failed"} \/ wf.stage = Execution
          /\ relinking.wf.at # "unlinked" /\ wf.version = relinking.wf.version - 1
      BY <2>1, <2>3 DEF EngineInv, RelinkingInv, NewVersion, Underway
    <3>3. project.phase = 0 => wf.at = "unlinked"
      BY <1>0, <3>2, Stages DEF BeforeInv, First, Legal, Underway
    <3>4. First(wf') => wf'.version = 1 /\ wf.at = "unlinked" /\ project.phase = 0
      <4>1. First(wf') => relinking.wf.version = 1
        BY <2>1, <3>1 DEF FirstInv
      <4>2. wf.version = 0 => wf.at = "unlinked"
        BY <1>0 DEF Legal
      <4> QED  BY <3>1, <3>2, <4>1, <4>2 DEF FirstInv
    <3>5. project.phase = 0 => First(wf') /\ jobs' = 0 /\ \A w \in Workers : at[w] = "idle"
      BY <2>1, <3>1, <3>3 DEF BeforeInv, FirstInv
    <3>6. BeforeInv'
      BY <2>1, <3>1, <3>2, <3>5 DEF BeforeInv, First, NoCode, Quiet
    <3>7. FirstInv'
      BY <2>1, <3>1, <3>2, <3>4, <3>5 DEF BeforeInv, FirstInv, First, NoCode
    <3> QED  BY <1>1, <1>2, <3>6, <3>7 DEF EngineAlone
  <2> QED  BY <2>2, <2>3
<1>9. CASE UNCHANGED vars
  <2>1. BeforeInv' /\ FirstInv'
    BY <1>9 DEF BeforeInv, FirstInv, First, NoCode, Quiet, LockFree, vars, work, queue, engine
  <2> QED  BY <1>1, <1>2, <2>1 DEF EngineAlone
<1> QED  BY <1>3, <1>4, <1>5, <1>6, <1>7, <1>8, <1>9

\* A service that has committed for w leaves a crew only where there was none.
LEMMA CommitRunAlone ==
  ASSUME TypeInv, EngineInv, EngineAlone, NEW w \in Workers, CommitRun(w)
  PROVE  /\ \A p \in Phases : queued[p] = 0 /\ running[p] = 0
         /\ wf.stage = 0 => First(wf) /\ project.phase = 0
         /\ wf.stage + 1 \in Phases
<1>1. at[w] = "committing" /\ view[w].wf = wf /\ wf.at \in Underway
  BY DEF CommitRun, EngineInv, Committing
<1>2. wf.stage + 1 \in Phases /\ CanQueue(view[w].project, wf.stage + 1)
  BY <1>1 DEF CommitRun
<1>3. view[w].project \in Project /\ project \in Project /\ wf.stage \in Nat /\ ReadInv(w) /\ CrewInv
  BY <1>1, ReadingParts, TypedParts DEF RestTyped, Context, EngineAlone
<1>4. \/ view[w].project.phase = wf.stage /\ view[w].project.at = "approved"
      \/ view[w].project.phase = wf.stage + 1 /\ view[w].project.at \in {"failed", "rejected"}
  BY <1>2, <1>3, IsStand DEF CanQueue
<1>5. CASE wf.stage = 0
  <2>1. project.phase = 0
    BY <1>1, <1>3, <1>4, <1>5 DEF ReadInv
  <2>2. First(wf)
    BY <1>1, <2>1 DEF EngineAlone, BeforeInv, Underway
  <2>3. \A p \in Phases : p # 0 /\ p \in Nat
    BY Stages DEF Phases
  <2> QED  BY <1>2, <1>3, <2>1, <2>2, <2>3, CrewPhase
<1>6. CASE wf.stage # 0
  <2>1. wf.stage \in 1..(Last - 1)
    BY <1>2, <1>3, <1>6, Stages DEF Phases
  <2>2. project.at = "approved"
    BY <1>1, <1>3, <2>1 DEF ReadInv
  <2> QED  BY <1>2, <1>3, <1>6, <2>2, CrewPhase
<1> QED  BY <1>5, <1>6

\* The engine leaves no second run.
LEMMA AdvancesAlone ==
  ASSUME TypeInv, EngineInv, EngineAlone, 1 \notin rejected, NEW w \in Workers, Advances(w)
  PROVE  EngineAlone'
<1>0. /\ wf \in Context /\ project \in Project /\ jobs \in Nat /\ Legal(wf)
      /\ project.phase = 0 => project.at = "approved"
      /\ queued \in [Phases -> Nat] /\ running \in [Phases -> Nat]
  BY DEF TypeInv, TypeOK, EngineInv, RowInv
<1> CrewInv /\ BeforeInv /\ FirstInv /\ RestTyped
  BY TypedParts DEF EngineAlone
<1>1. CASE Advance(w)
  <2>1. /\ UNCHANGED <<project, queued, running, execs, reviews, attempts, owed, dying, view, at,
                       relinking, rejected>>
        /\ ~ Due(wf) /\ LockFree /\ jobs > 0 /\ jobs' = jobs - 1
        /\ wf' = wf \/ wf' \in Reached(wf)
    BY <1>1 DEF Advance, Takes, work, engine
  <2>2. ~ First(wf) /\ wf.at # "unlinked"
    BY <2>1, Stages DEF Due, First, BeforeInv, FirstInv
  <2>3. project.phase = 0 => wf' = wf
    <3>1. project.phase = 0 => wf.stage = 0
      BY <1>0, <2>2, Stages DEF BeforeInv, Legal, Underway, Context
    <3> QED  BY <2>1, <3>1, FirstStage
  <2>4. ~ First(wf') /\ wf'.at # "unlinked"
    <3>1. CASE wf' \in Reached(wf)
      BY <1>0, <3>1, ReachedMoves, Stages DEF First, Phases
    <3> QED  BY <2>1, <2>2, <3>1
  <2>5. BeforeInv'
    BY <1>0, <2>1, <2>2, <2>3 DEF BeforeInv, First, NoCode, Quiet, LockFree
  <2>6. FirstInv'
    BY <2>1, <2>4 DEF FirstInv, First
  <2>7. CrewInv' /\ \A v \in Workers : ReadInv(v)'
    BY <2>1 DEF EngineAlone, CrewInv, Crews, ReadInv
  <2> QED  BY <2>5, <2>6, <2>7 DEF EngineAlone
<1>2. CASE BeginWork(w)
  <2>1. /\ UNCHANGED <<wf, project, queued, running, execs, reviews, attempts, owed, dying,
                       relinking, rejected>>
        /\ Due(wf) /\ (\A v \in Workers : at[v] # "committing") /\ jobs > 0 /\ jobs' = jobs - 1
    BY <1>2 DEF BeginWork, Takes, LockFree, work
  <2>2. /\ at'[w] = "committing" /\ view'[w] = [wf |-> wf, project |-> project]
        /\ \A v \in Workers : v # w => at'[v] = at[v] /\ view'[v] = view[v]
    BY <1>2 DEF BeginWork, RestTyped
  <2>3. view'[w].wf = wf /\ view'[w].project = project
    BY <2>2
  <2>4. wf.at # "unlinked"
    BY <2>1 DEF BeforeInv, FirstInv
  <2>5. ~(First(wf) /\ project.phase = 1 /\ project.at \in {"underway", "failed", "rejected"})
    BY <2>1 DEF FirstInv, CrewInv, First
  <2>6. BeforeInv'
    BY <1>0, <2>1, <2>2, <2>3, <2>4 DEF BeforeInv, First, NoCode, Quiet
  <2>7. FirstInv'
    BY <2>1, <2>4, <2>5 DEF FirstInv, First, NoCode
  <2>8. ReadInv(w)'
    <3>1. CASE wf.stage = 0
      BY <2>1, <2>3, <2>5, <3>1, FirstStage DEF ReadInv
    <3>2. CASE wf.stage \in 1..(Last - 1)
      <4>1. project = Stand(wf.stage, "approved")
        BY <2>1, <3>2, Stages DEF Due, PackageApproved, Execution
      <4> QED  BY <1>0, <2>1, <2>3, <3>2, <4>1, IsStand DEF ReadInv
    <3> QED  BY <2>3, <3>1, <3>2 DEF ReadInv
  <2>9. ASSUME NEW v \in Workers, v # w PROVE ReadInv(v)'
    BY <2>1, <2>2, <2>9 DEF ReadInv
  <2>10. CrewInv'
    BY <2>1 DEF CrewInv, Crews
  <2> QED  BY <2>6, <2>7, <2>8, <2>9, <2>10 DEF EngineAlone
<1>3. ASSUME NEW c, Commits(w, c) PROVE
        /\ \A v \in Workers : at'[v] # "committing"
        /\ wf.at \in Underway /\ UNCHANGED <<wf, jobs, owed, dying, relinking, rejected>>
        /\ at[w] = "committing"
  <2>1. /\ at[w] = "committing" /\ at'[w] = "appending"
        /\ \A v \in Workers : v # w => at'[v] = at[v]
        /\ UNCHANGED <<wf, jobs, owed, dying, relinking, rejected>>
    BY <1>3, CommitMakes, ContinuesTyped DEF Continues, queue
  <2> QED  BY <2>1 DEF EngineInv, Committing
<1>4. CASE CommitRun(w)
  <2>1. /\ \A v \in Workers : at'[v] # "committing"
        /\ wf.at \in Underway /\ UNCHANGED <<wf, jobs, owed, dying, relinking, rejected>>
        /\ at[w] = "committing" /\ view[w].wf = wf
    BY <1>3, <1>4, CommitsSome DEF EngineInv, Committing
  <2> DEFINE p == wf.stage + 1
  <2>2. /\ p \in Phases /\ p \in 0..Last /\ p >= 1 /\ p \in Nat
        /\ \A q \in Phases : queued[q] = 0 /\ running[q] = 0
        /\ wf.stage = 0 => First(wf) /\ project.phase = 0
    BY <1>4, CommitRunAlone, Stages DEF Phases
  <2>3. /\ project' = Stand(p, "underway") /\ queued' = [queued EXCEPT ![p] = @ + 1]
        /\ UNCHANGED <<running, execs, reviews, attempts>>
    BY <1>4, <2>1 DEF CommitRun, Queues
  <2>4. project'.phase = p /\ project'.at = "underway"
    BY <2>2, <2>3, StandTyped DEF Stands
  <2>5. CrewInv'
    BY <1>0, <2>2, <2>3, <2>4 DEF CrewInv, Crews
  <2>6. BeforeInv'
    BY <2>2, <2>4 DEF BeforeInv
  <2>7. FirstInv'
    <3>1. wf.at # "unlinked"
      BY <2>1 DEF Underway
    <3>2. p = 1 => jobs = 0 /\ Quiet
      <4>1. p = 1 => project.phase = 0
        BY <1>0, <2>2 DEF Context
      <4> QED  BY <2>1, <4>1 DEF BeforeInv
    <3> QED  BY <2>1, <2>3, <2>4, <3>1, <3>2 DEF FirstInv, First, NoCode, Quiet, LockFree
  <2>8. \A v \in Workers : ReadInv(v)'
    BY <2>1 DEF ReadInv
  <2> QED  BY <2>5, <2>6, <2>7, <2>8 DEF EngineAlone
<1>5. CASE CommitExecution(w) \/ CommitReview(w)
  <2>1. /\ \A v \in Workers : at'[v] # "committing"
        /\ wf.at \in Underway /\ UNCHANGED <<wf, jobs, owed, dying, relinking, rejected>>
        /\ at[w] = "committing" /\ view[w].wf = wf
    BY <1>3, <1>5, CommitsSome DEF EngineInv, Committing
  <2>2. UNCHANGED <<project, queued, running>> /\ wf.stage # 0
    BY <1>5, <2>1, Stages DEF CommitExecution, CommitReview
  <2>3. project.phase # 0 /\ ~ First(wf) /\ wf.at # "unlinked"
    BY <2>1, <2>2 DEF BeforeInv, First, Underway
  <2>4. CrewInv' /\ BeforeInv' /\ FirstInv' /\ \A v \in Workers : ReadInv(v)'
    BY <2>1, <2>2, <2>3 DEF CrewInv, Crews, BeforeInv, FirstInv, First, ReadInv
  <2> QED  BY <2>4 DEF EngineAlone
<1>6. CASE Refused(w)
  <2>1. /\ UNCHANGED <<wf, project, queued, running, execs, reviews, attempts, jobs, owed,
                       relinking, rejected>>
        /\ at[w] = "committing" /\ at'[w] = "idle"
        /\ \A v \in Workers : v # w => at'[v] = at[v] /\ view'[v] = view[v]
    BY <1>6 DEF Refused, Leaves, Dies, RestTyped, work
  <2>2. view[w].wf = wf /\ wf.at \in Underway
    BY <2>1 DEF EngineInv, Committing
  <2>3. project.phase # 0
    <3> SUFFICES ASSUME project.phase = 0 PROVE FALSE
      OBVIOUS
    <3>1. wf.stage = 0 /\ view[w].project = project
      BY <2>1, <2>2 DEF BeforeInv, First, Underway
    <3>2. project = Stand(0, "approved")
      BY <1>0, IsStand
    <3>3. CanQueue(project, 1)
      BY <3>2 DEF CanQueue
    <3> QED  BY <1>6, <2>2, <3>1, <3>3, Stages DEF Refused, Phases
  <2>4. BeforeInv' /\ CrewInv'
    BY <2>1, <2>3 DEF BeforeInv, CrewInv, Crews
  <2>5. FirstInv'
    BY <2>1, <2>3 DEF FirstInv, First, NoCode, Quiet, LockFree
  <2>6. \A v \in Workers : ReadInv(v)'
    BY <2>1 DEF EngineAlone, ReadInv
  <2> QED  BY <2>4, <2>5, <2>6 DEF EngineAlone
<1>7. CASE AppendTransition(w)
  <2>1. /\ UNCHANGED <<project, queued, running, execs, reviews, attempts, relinking, rejected>>
        /\ at[w] = "appending" /\ at'[w] = "idle"
        /\ \A v \in Workers : at[v] # "committing"
        /\ \A v \in Workers : v # w => at'[v] = at[v] /\ view'[v] = view[v]
    BY <1>7 DEF AppendTransition, LockFree, Leaves, RestTyped, work
  <2>2. project.phase # 0 /\ wf.at # "unlinked"
    BY <2>1 DEF BeforeInv, FirstInv
  <2>3. BeforeInv' /\ CrewInv'
    BY <2>1, <2>2 DEF BeforeInv, CrewInv, Crews
  <2>4. \A v \in Workers : ReadInv(v)'
    BY <2>1 DEF EngineAlone, ReadInv
  <2>5. CASE NewVersion(view[w].wf)
    <3>1. wf' = view[w].wf
      BY <1>7, <2>5 DEF AppendTransition
    <3>2. ~ First(wf') /\ wf'.at # "unlinked"
      BY <2>1, <3>1, Stages DEF EngineInv, Appending, First
    <3>3. FirstInv'
      BY <2>1, <3>2 DEF FirstInv, First
    <3> QED  BY <2>3, <2>4, <3>3 DEF EngineAlone
  <2>6. CASE ~ NewVersion(view[w].wf)
    <3>1. UNCHANGED wf
      BY <1>7, <2>6 DEF AppendTransition
    <3>2. ~ First(wf)
      <4>1. view[w].wf \in Context /\ view[w].wf.version - 1 \in 1..wf.version
        BY <2>1, ReadingParts DEF EngineInv, Appending
      <4>2. wf.version # 1
        BY <2>6, <4>1, <1>0 DEF NewVersion, Context
      <4> QED  BY <4>2 DEF FirstInv
    <3>3. FirstInv'
      BY <2>1, <2>2, <3>1, <3>2 DEF FirstInv, First
    <3> QED  BY <2>3, <2>4, <3>3 DEF EngineAlone
  <2> QED  BY <2>5, <2>6
<1>8. CASE Conflicts(w)
  <2>1. /\ UNCHANGED <<wf, project, queued, running, execs, reviews, attempts, owed, view, at,
                       relinking, rejected>>
        /\ wf.stage = Last /\ Mine(execs) # {}
    BY <1>8 DEF Conflicts, Dies, PackageApproved, work, engine
  <2>2. ~ NoCode /\ ~ First(wf)
    BY <2>1, Stages DEF NoCode, Mine, First
  <2>3. project.phase # 0 /\ wf.at # "unlinked"
    BY <2>2 DEF BeforeInv, FirstInv
  <2>4. CrewInv' /\ BeforeInv' /\ FirstInv' /\ \A v \in Workers : ReadInv(v)'
    BY <2>1, <2>2, <2>3 DEF EngineAlone, CrewInv, Crews, BeforeInv, FirstInv, First, ReadInv
  <2> QED  BY <2>4 DEF EngineAlone
<1> QED  BY <1>1, <1>2, <1>4, <1>5, <1>6, <1>7, <1>8 DEF Advances

\* Every step keeps it so.
LEMMA QueueStep ==
  ASSUME TypeInv, EngineInv, QueueInv, [Next]_vars
  PROVE  QueueInv'
<1> SUFFICES ASSUME OnlyEngine' PROVE EngineAlone'
  BY DEF QueueInv
<1>0. byHand' = 0 /\ crashes' = 0 /\ 1 \notin rejected'
  BY DEF OnlyEngine
<1>1. byHand \in Nat /\ crashes \in Nat
  BY DEF TypeInv, TypeOK
<1>2. ~ Failing
  BY <1>0, <1>1 DEF Failing, NotifyLost, DeadLetterLost, WorkerCrashes, Crash
<1>3. OnlyEngine
  <2>1. CASE Documents
    BY <1>0, <1>1, <2>1 DEF OnlyEngine, Documents, QueueByHand, ByHand, StartRun, RunSucceeds, RunFails,
       Decide, bounds
  <2>2. CASE Code
    <3>1. ~ ExecuteByHand /\ \A e \in DOMAIN execs : ~ ReviewByHand(e)
      BY <1>0, <1>1 DEF ExecuteByHand, ReviewByHand, ByHand
    <3>2. ASSUME NEW e \in DOMAIN execs, ExecutionEnds(e) \/ BeginIntegration(e)
          PROVE  UNCHANGED <<bounds, rejected>>
      BY <3>2 DEF ExecutionEnds, BeginIntegration, Ends
    <3>3. ASSUME NEW r \in DOMAIN reviews, ReviewEnds(r) PROVE UNCHANGED <<bounds, rejected>>
      BY <3>3 DEF ReviewEnds, Ends
    <3>4. ASSUME NEW i \in DOMAIN attempts, IntegrationEnds(i) PROVE UNCHANGED <<bounds, rejected>>
      BY <3>4 DEF IntegrationEnds, Ends
    <3>5. UNCHANGED <<bounds, rejected>>
      BY <2>2, <3>1, <3>2, <3>3, <3>4 DEF Code
    <3> QED  BY <1>0, <3>5 DEF OnlyEngine, bounds
  <2>3. CASE Notify \/ DeadLetter \/ Cancel \/ Start \/ RelinkReads \/ RelinkWrites
    BY <1>0, <2>3 DEF OnlyEngine, Notify, DeadLetter, Cancel, Start, RelinkReads, RelinkWrites, bounds
  <2>4. CASE \E w \in Workers : Advances(w)
    BY <1>0, <2>4 DEF OnlyEngine, Advances, Advance, Conflicts, BeginWork, CommitRun, CommitExecution,
       CommitReview, Refused, AppendTransition, Continues, bounds
  <2>5. CASE UNCHANGED vars
    BY <1>0, <2>5 DEF OnlyEngine, vars, bounds
  <2> QED  BY <1>2, <2>1, <2>2, <2>3, <2>4, <2>5 DEF Next
<1>4. EngineAlone
  BY <1>3 DEF QueueInv
<1> QED  BY <1>0, <1>2, <1>3, <1>4, DocumentsAlone, CodeAlone, OthersAlone, AdvancesAlone
         DEF Next, OnlyEngine

\* However many advance jobs and workers there are, the engine has at most one run of
\* one phase under way (advance, queue_architecture_run).
THEOREM EngineAlwaysQueuesOnce == Spec => []EngineQueuesOnce
<1>1. Init => QueueInv
  <2> SUFFICES ASSUME Init PROVE EngineAlone
    BY DEF QueueInv
  <2>1. project.phase = 0 /\ project.at = "approved"
    BY DEF Init, Stand
  <2>2. CrewInv
    BY <2>1 DEF Init, CrewInv, Crews
  <2>3. BeforeInv /\ FirstInv
    BY <2>1 DEF Init, BeforeInv, FirstInv, First, NoCode, Quiet
  <2>4. \A w \in Workers : ReadInv(w)
    BY DEF Init, ReadInv
  <2> QED  BY <2>2, <2>3, <2>4 DEF EngineAlone
<1>2. TypeInv /\ EngineInv /\ QueueInv /\ [Next]_vars => QueueInv'
  BY QueueStep
<1>3. RowsInv => TypeInv /\ EngineInv
  BY DEF RowsInv
<1>4. QueueInv => EngineQueuesOnce
  BY DEF QueueInv, OnlyEngine, EngineAlone, CrewInv, Crews, EngineQueuesOnce
<1> QED  BY <1>1, <1>2, <1>3, <1>4, WorkflowInvariant, PTL DEF Spec
=============================================================================
