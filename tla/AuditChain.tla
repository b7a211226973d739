----------------------------- MODULE AuditChain -----------------------------
(***************************************************************************)
(* The hash-chained audit trail (application/audit/writer.py and           *)
(* infrastructure/foundation.py): every transaction that changes something *)
(* appends events to streams, each event linked to the last one it saw.    *)
(* Many transactions append to one stream at a time; the row lock on the   *)
(* last record and the unique key (stream, sequence) are what is between   *)
(* them.                                                                   *)
(*                                                                         *)
(* One action is one statement.  PostgreSQL runs READ COMMITTED: a select  *)
(* sees what was committed when it began and what its own transaction      *)
(* wrote, and a SELECT ... FOR UPDATE that had to wait returns the row it  *)
(* had chosen, for that row was locked and not changed.  An event is       *)
(* written as the number of its draw, its record_hash (which covers the    *)
(* fresh event id) as the same number, and no hash as 0.                   *)
(***************************************************************************)
EXTENDS Naturals

CONSTANTS
  Streams,    \* audit streams: projects, changes, the reads of a service
  Writers,    \* database sessions, each in one transaction at a time
  MaxEvents   \* bound: how many events are drawn in all

ASSUME AuditAssumption == MaxEvents \in Nat \ {0}

VARIABLES
  rows,     \* the committed records of all streams
  drawn,    \* how many event ids have been drawn
  at,       \* at[w]: where w is in its transaction
  row,      \* row[w]: the record that append_event of w is about to write
  pending,  \* pending[w]: records the transaction of w has inserted
  locked    \* locked[w]: events whose chain record w holds locked

vars == <<rows, drawn, at, row, pending, locked>>

Events  == 1..MaxEvents
Records == [stream : Streams, seq : 0..MaxEvents, prev : 0..MaxEvents, event : 0..MaxEvents]
Places  == {"idle", "open", "locking", "inserting"}

Chain(s, rs) == {r \in rs : r.stream = s}

NoRecord(s) == [stream |-> s, seq |-> 0, prev |-> 0, event |-> 0]

\* ORDER BY sequence DESC LIMIT 1.
Last(s, rs) ==
  IF Chain(s, rs) = {} THEN NoRecord(s)
  ELSE CHOOSE r \in Chain(s, rs) : \A q \in Chain(s, rs) : q.seq <= r.seq

Visible(w) == rows \cup pending[w]

SameKey(q, r) == q.stream = r.stream /\ q.seq = r.seq

\* Mutant of NextRecord: the number comes from a serial, which rolled-back transactions consume.
NextRecordSerial(last, e) ==
  [stream |-> last.stream, seq |-> e, prev |-> last.event, event |-> e]

\* Mutant of NextRecord: the event number is added to the sequence.
NextRecordSummed(last, e) ==
  [stream |-> last.stream, seq |-> last.seq + e, prev |-> last.event, event |-> e]

\* The record that append_event makes of event e after the record last.
NextRecord(last, e) ==
  [stream |-> last.stream, seq |-> last.seq + 1, prev |-> last.event, event |-> e]

Init ==
  /\ rows = {}
  /\ drawn = 0
  /\ at = [w \in Writers |-> "idle"]
  /\ row \in [Writers -> {NoRecord(s) : s \in Streams}]
  /\ pending = [w \in Writers |-> {}]
  /\ locked = [w \in Writers |-> {}]

\* append_event begins: the event id is drawn, and the select chooses the last
\* record of the stream; until the lock is granted that choice stands.
AppendEvent(w, s) ==
  /\ at[w] \in {"idle", "open"}
  /\ drawn < MaxEvents
  /\ drawn' = drawn + 1
  /\ row' = [row EXCEPT ![w] = NextRecord(Last(s, Visible(w)), drawn + 1)]
  /\ at' = [at EXCEPT ![w] = "locking"]
  /\ UNCHANGED <<rows, pending, locked>>

LockHolders(w) == {v \in Writers \ {w} : row[w].prev \in locked[v]}

\* FOR UPDATE is granted: nobody else holds the row.  The first append to a
\* stream finds no row to lock.
LockLast(w) ==
  /\ at[w] = "locking"
  /\ LockHolders(w) = {}
  /\ locked' = [locked EXCEPT ![w] = @ \cup ({row[w].prev} \ {0})]
  /\ at' = [at EXCEPT ![w] = "inserting"]
  /\ UNCHANGED <<rows, drawn, row, pending>>

\* Mutant of Ended: a session goes back to the pool with its locks.
EndedLocked(w) ==
  /\ at' = [at EXCEPT ![w] = "idle"]
  /\ pending' = [pending EXCEPT ![w] = {}]
  /\ UNCHANGED <<drawn, row, locked>>

\* The transaction of w is over, one way or the other.
Ended(w) ==
  /\ at' = [at EXCEPT ![w] = "idle"]
  /\ pending' = [pending EXCEPT ![w] = {}]
  /\ locked' = [locked EXCEPT ![w] = {}]
  /\ UNCHANGED <<drawn, row>>

\* Mutant of KeyHolders: uniqueness is looked up and not a constraint.
KeyHoldersUnseen(w) == {}

\* An unfinished transaction that has inserted the same key makes w wait.
KeyHolders(w) == {v \in Writers \ {w} : \E q \in pending[v] : SameKey(q, row[w])}

\* Mutant of KeyTaken: audit_chain_records has no unique key.
KeyNeverTaken(w) == FALSE

\* uq_audit_chain_sequence: a record with this stream and sequence is there.
KeyTaken(w) == \E q \in Visible(w) : SameKey(q, row[w])

\* The flush inserts the event and its record ...
InsertRecord(w) ==
  /\ at[w] = "inserting"
  /\ KeyHolders(w) = {}
  /\ ~KeyTaken(w)
  /\ pending' = [pending EXCEPT ![w] = @ \cup {row[w]}]
  /\ at' = [at EXCEPT ![w] = "open"]
  /\ UNCHANGED <<rows, drawn, row, locked>>

\* ... or raises IntegrityError, which ends the whole transaction, with all that
\* the caller has written in it.
InsertFails(w) ==
  /\ at[w] = "inserting"
  /\ KeyHolders(w) = {}
  /\ KeyTaken(w)
  /\ Ended(w)
  /\ UNCHANGED rows

Commit(w) ==
  /\ at[w] = "open"
  /\ rows' = rows \cup pending[w]
  /\ Ended(w)

\* The caller raises, the client goes away or the process dies.
Rollback(w) ==
  /\ at[w] # "idle"
  /\ Ended(w)
  /\ UNCHANGED rows

WaitsFor(w) ==
  IF at[w] = "locking" THEN LockHolders(w)
  ELSE IF at[w] = "inserting" THEN KeyHolders(w) ELSE {}

\* w is in or behind a circle of transactions that wait for each other.
InDeadlock(w) ==
  \E ws \in SUBSET Writers :
    w \in ws /\ \A v \in ws : WaitsFor(v) \cap ws # {}

\* The deadlock detector of the database gives one of them an error.
DeadlockVictim(w) ==
  /\ InDeadlock(w)
  /\ Ended(w)
  /\ UNCHANGED rows

WriterStep(w) ==
  LockLast(w) \/ InsertRecord(w) \/ InsertFails(w) \/ Commit(w) \/ DeadlockVictim(w)

Next ==
  \E w \in Writers :
    WriterStep(w) \/ Rollback(w) \/ \E s \in Streams : AppendEvent(w, s)

Spec == Init /\ [][Next]_vars

\* Statements return and callers commit; nobody is obliged to append or fail.
FairSpec == Spec /\ \A w \in Writers : WF_vars(WriterStep(w))
-----------------------------------------------------------------------------
(***************************************************************************)
(* Properties.                                                             *)
(***************************************************************************)

\* Types of the tables and of the sessions.
TypeOK ==
  /\ rows \subseteq Records
  /\ drawn \in 0..MaxEvents
  /\ at \in [Writers -> Places]
  /\ row \in [Writers -> Records]
  /\ pending \in [Writers -> SUBSET Records]
  /\ locked \in [Writers -> SUBSET Events]

\* What AuditQueryService.integrity computes of a stream has no failure, and
\* there is nothing it could not see: whoever raced or failed meanwhile, the
\* committed records are numbered 1, 2, ... and each names its predecessor.
ChainVerifies ==
  \A r \in rows :
    /\ r.seq >= 1
    /\ \A q \in rows : SameKey(q, r) => q = r
    /\ IF r.seq = 1 THEN r.prev = 0
       ELSE \E q \in Chain(r.stream, rows) : q.seq = r.seq - 1 /\ q.event = r.prev

\* No two transactions are both about to add a record behind the same one: the
\* second to arrive waits or fails, it never forks the chain.
OneAppender ==
  \A v, w \in Writers : \A q \in pending[v], r \in pending[w] :
    q.prev = r.prev /\ q.stream = r.stream => q = r

\* The log that the committed records are.
CommittedLog ==
  [s \in Streams |->
     [k \in {r.seq : r \in Chain(s, rows)} |->
        (CHOOSE r \in Chain(s, rows) : r.seq = k).event]]

AuditTrail == INSTANCE AuditLog WITH log <- CommittedLog

\* Transactions, locks and the unique key implement the log of AuditLog: no
\* record is rewritten or lost, whatever is rolled back.
KeepsAuditLog == AuditTrail!Spec

\* A transaction that has begun ends: no wait for a row or a key lasts for ever.
TransactionsEnd == \A w \in Writers : at[w] # "idle" ~> at[w] = "idle"
=============================================================================
