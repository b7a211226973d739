-------------------------- MODULE AuditChainProofs --------------------------
(***************************************************************************)
(* Theorems about AuditChain, for every set of streams and sessions and    *)
(* every number of events.                                                 *)
(***************************************************************************)
EXTENDS AuditChain, WellFoundedInduction, TLAPS

\* Every record there is, committed or not.
AllRecords == rows \cup UNION {pending[w] : w \in Writers}

\* The record that r continues, in the records rs that its writer saw.
Linked(r, rs) ==
  \/ r.seq = 1 /\ r.prev = 0
  \/ \E q \in Chain(r.stream, rs) : q.seq = r.seq - 1 /\ q.event = r.prev

\* Every number below that of r is taken in its stream.
Filled(r, rs) ==
  \A k \in 1..(r.seq - 1) : \E q \in Chain(r.stream, rs) : q.seq = k

Continues(r, rs) == Linked(r, rs) /\ Filled(r, rs)

\* A record that was made of one of the first n events: its number does not exceed the event's,
\* for a stream holds no more records than events were drawn.
Made(r, n) ==
  /\ r \in Records
  /\ 1 <= r.seq
  /\ r.seq <= r.event
  /\ r.event <= n

Appending(w) == at[w] \in {"locking", "inserting"}

RowInv(w) ==
  Appending(w) =>
    /\ Made(row[w], drawn)
    /\ Continues(row[w], Visible(w))
    /\ \A q \in AllRecords : q.event # row[w].event
    /\ \A v \in Writers \ {w} : Appending(v) => row[v].event # row[w].event

ChainInv ==
  /\ TypeOK
  /\ \A r \in AllRecords : Made(r, drawn)
  /\ \A q, r \in AllRecords : SameKey(q, r) \/ q.event = r.event => q = r
  /\ \A r \in rows : Continues(r, rows)
  /\ \A w \in Writers : \A r \in pending[w] : r \notin rows /\ Continues(r, Visible(w))
  /\ \A v, w \in Writers : v # w => pending[v] \cap pending[w] = {}
  /\ \A w \in Writers : RowInv(w)
-----------------------------------------------------------------------------
(***************************************************************************)
(* The operators.                                                          *)
(***************************************************************************)

\* A nonempty set of naturals below a bound has a greatest element.
LEMMA GreatestNatural ==
  ASSUME NEW T \in SUBSET Nat, NEW n \in Nat, \A k \in T : k <= n, T # {}
  PROVE  \E m \in T : \A k \in T : k <= m
<1> DEFINE D == {n - k : k \in T}
<1>1. D \subseteq Nat /\ D # {}
  <2>1. \A k \in T : n - k \in Nat
    OBVIOUS
  <2>2. PICK k \in T : TRUE
    OBVIOUS
  <2>3. n - k \in D
    BY <2>2
  <2> QED
    BY <2>1, <2>3
<1>2. PICK d \in D : \A e \in D : ~ (<<e, d>> \in OpToRel(<, Nat))
  BY <1>1, WFMin, NatLessThanWellFounded
<1>3. PICK m \in T : d = n - m
  OBVIOUS
<1>4. \A k \in T : ~ (n - k < n - m)
  BY <1>1, <1>2, <1>3 DEF OpToRel
<1> QED
  BY <1>3, <1>4

\* The last record of a stream is a record of the stream with the greatest
\* number, and there is none only if the stream is empty.
LEMMA LastFacts ==
  ASSUME NEW s, NEW rs, \A r \in rs : r.seq \in 0..MaxEvents
  PROVE  \/ Chain(s, rs) = {} /\ Last(s, rs) = NoRecord(s)
         \/ /\ Last(s, rs) \in Chain(s, rs)
            /\ \A q \in Chain(s, rs) : q.seq <= Last(s, rs).seq
<1>1. CASE Chain(s, rs) = {}
  BY <1>1 DEF Last
<1>2. CASE Chain(s, rs) # {}
  <2> DEFINE T == {r.seq : r \in Chain(s, rs)}
  <2>1. T \in SUBSET Nat /\ T # {} /\ \A k \in T : k <= MaxEvents
    BY <1>2, AuditAssumption DEF Chain
  <2>2. PICK m \in T : \A k \in T : k <= m
    BY <2>1, GreatestNatural, AuditAssumption
  <2>3. \E r \in Chain(s, rs) : \A q \in Chain(s, rs) : q.seq <= r.seq
    BY <2>2
  <2> QED
    BY <1>2, <2>3 DEF Last
<1> QED
  BY <1>1, <1>2

\* A record that continues what its writer saw still does when more is seen.
LEMMA ContinuesGrows ==
  ASSUME NEW r, NEW rs, NEW qs, rs \subseteq qs, Continues(r, rs)
  PROVE  Continues(r, qs)
  BY DEF Continues, Linked, Filled, Chain
-----------------------------------------------------------------------------
(***************************************************************************)
(* The invariant.                                                          *)
(***************************************************************************)
LEMMA ChainInit == Init => ChainInv
<1> SUFFICES ASSUME Init PROVE ChainInv
  OBVIOUS
<1>1. AllRecords = {}
  BY DEF Init, AllRecords
<1>2. TypeOK
  BY AuditAssumption DEF Init, TypeOK, Places, Records, NoRecord
<1>3. \A w \in Writers : ~Appending(w)
  BY DEF Init, Appending
<1> QED
  BY <1>1, <1>2, <1>3 DEF Init, ChainInv, RowInv

\* What a writer sees is among all records.
LEMMA VisibleIsThere ==
  ASSUME NEW w \in Writers
  PROVE  Visible(w) \subseteq AllRecords
  BY DEF Visible, AllRecords

\* A transaction that ends, with its records committed or not, keeps the invariant.
LEMMA EndStep ==
  ASSUME ChainInv, NEW w \in Writers, Ended(w),
         \/ rows' = rows
         \/ at[w] = "open" /\ rows' = rows \cup pending[w]
  PROVE  ChainInv'
<1> USE DEF ChainInv
<1>1. TypeOK'
  BY AuditAssumption DEF Ended, TypeOK, Places
<1>2. AllRecords' \subseteq AllRecords
  BY <1>1 DEF AllRecords, Ended, TypeOK
<1>3. \A r : Made(r, drawn) => Made(r, drawn')
  BY DEF Made, Ended
<1>4. \A r \in AllRecords' : Made(r, drawn')
  BY <1>2, <1>3 DEF Made
<1>5. \A q, r \in AllRecords' : SameKey(q, r) \/ q.event = r.event => q = r
  BY <1>2
<1>6. \A r \in rows' : Continues(r, rows')
  BY ContinuesGrows DEF Visible
<1>7. rows \subseteq rows'
  OBVIOUS
<1>8. \A v \in Writers : v # w => pending'[v] = pending[v] /\ at'[v] = at[v]
  BY DEF Ended, TypeOK
<1>9. pending'[w] = {} /\ ~(Appending(w)')
  BY DEF Ended, TypeOK, Appending
<1>10. \A v \in Writers : v # w => Visible(v) \subseteq Visible(v)'
  BY <1>7, <1>8 DEF Visible
<1>11. \A v \in Writers : \A r \in pending'[v] : r \notin rows' /\ Continues(r, Visible(v)')
  BY <1>8, <1>9, <1>10, ContinuesGrows
<1>12. \A u, v \in Writers : u # v => pending'[u] \cap pending'[v] = {}
  BY <1>8, <1>9
<1>13. \A v \in Writers : RowInv(v)'
  <2> SUFFICES ASSUME NEW v \in Writers, Appending(v)'
               PROVE  /\ Made(row'[v], drawn')
                      /\ Continues(row'[v], Visible(v)')
                      /\ \A q \in AllRecords' : q.event # row'[v].event
                      /\ \A u \in Writers \ {v} : Appending(u)' => row'[u].event # row'[v].event
    BY DEF RowInv
  <2>1. v # w /\ Appending(v) /\ row' = row /\ drawn' = drawn
    BY <1>8, <1>9 DEF Appending, Ended
  <2>2. RowInv(v)
    OBVIOUS
  <2>3. \A u \in Writers \ {v} : Appending(u)' => Appending(u)
    BY <1>8, <1>9 DEF Appending
  <2> QED
    BY <1>2, <1>10, <2>1, <2>2, <2>3, ContinuesGrows DEF RowInv, Made
<1> QED
  BY <1>1, <1>4, <1>5, <1>6, <1>11, <1>12, <1>13

\* The select chose the last record the writer saw: what is made of it and the
\* event just drawn continues the stream.
LEMMA AppendStep ==
  ASSUME ChainInv, NEW w \in Writers, NEW s \in Streams, AppendEvent(w, s)
  PROVE  ChainInv'
<1> USE DEF ChainInv
<1> DEFINE last == Last(s, Visible(w))
           new  == NextRecord(last, drawn + 1)
<1>1. Visible(w) \subseteq AllRecords /\ \A r \in Visible(w) : r.seq \in 0..MaxEvents
  BY VisibleIsThere DEF Made, Records
<1>2. \/ Chain(s, Visible(w)) = {} /\ last = NoRecord(s)
      \/ last \in Chain(s, Visible(w)) /\ \A q \in Chain(s, Visible(w)) : q.seq <= last.seq
  <2> HIDE DEF last
  <2> QED
    BY <1>1, LastFacts DEF last
<1>3. /\ new.stream = s /\ new.seq = last.seq + 1
      /\ new.prev = last.event /\ new.event = drawn + 1
  <2>1. last.stream = s
    BY <1>2 DEF NoRecord, Chain
  <2> QED
    BY <2>1 DEF NextRecord
<1>4. /\ last.seq \in 0..MaxEvents /\ last.event \in 0..MaxEvents
      /\ last.seq <= drawn /\ last.event <= drawn
  BY <1>1, <1>2, AuditAssumption DEF NoRecord, Chain, Made, Records, TypeOK
<1>5. drawn' = drawn + 1 /\ drawn' \in 0..MaxEvents /\ drawn \in Nat
  BY AuditAssumption DEF AppendEvent, TypeOK
<1>6. new \in Records
  <2>1. new.seq \in 0..MaxEvents /\ new.prev \in 0..MaxEvents /\ new.event \in 0..MaxEvents
    BY <1>3, <1>4, <1>5, AuditAssumption
  <2>2. new = [stream |-> new.stream, seq |-> new.seq, prev |-> new.prev, event |-> new.event]
    BY DEF NextRecord
  <2> QED
    BY <1>3, <2>1, <2>2 DEF Records
<1>7. Made(new, drawn')
  BY <1>3, <1>4, <1>5, <1>6 DEF Made
<1>8. Linked(new, Visible(w))
  <2>1. CASE last = NoRecord(s)
    BY <1>3, <2>1 DEF Linked, NoRecord
  <2>2. CASE last \in Chain(s, Visible(w))
    <3>1. new.seq - 1 = last.seq
      BY <1>3, <1>4
    <3> QED
      BY <1>3, <2>2, <3>1 DEF Linked
  <2> QED
    BY <1>2, <2>1, <2>2
<1>9. Filled(new, Visible(w))
  <2> SUFFICES ASSUME NEW k \in 1..last.seq
               PROVE  \E q \in Chain(s, Visible(w)) : q.seq = k
    BY <1>3, <1>4 DEF Filled
  <2>1. last \in Chain(s, Visible(w)) /\ last.seq >= 1
    BY <1>2, <1>4 DEF NoRecord
  <2>2. Continues(last, Visible(w))
    BY <2>1, ContinuesGrows DEF Visible, Chain
  <2>3. CASE k = last.seq
    BY <2>1, <2>3
  <2>4. CASE k # last.seq
    <3>1. k \in 1..(last.seq - 1)
      BY <1>4, <2>4
    <3> QED
      BY <2>1, <2>2, <3>1 DEF Continues, Filled, Chain
  <2> QED
    BY <2>3, <2>4
<1> HIDE DEF last, new
<1>10. /\ rows' = rows /\ pending' = pending /\ AllRecords' = AllRecords
       /\ \A v \in Writers : Visible(v)' = Visible(v)
  BY DEF AppendEvent, AllRecords, Visible
<1>11. row' = [row EXCEPT ![w] = new] /\ at' = [at EXCEPT ![w] = "locking"]
  BY DEF AppendEvent, last, new
<1>12. TypeOK'
  BY <1>5, <1>6, <1>11 DEF AppendEvent, TypeOK, Places
<1>13. \A r : Made(r, drawn) => Made(r, drawn')
  BY <1>5 DEF Made, Records
<1>14. \A v \in Writers : RowInv(v)'
  <2>1. row'[w] = new /\ \A v \in Writers \ {w} : row'[v] = row[v] /\ at'[v] = at[v]
    BY <1>11 DEF TypeOK
  <2>2. \A r \in AllRecords : r.event # new.event
    BY <1>3, <1>5 DEF Made, Records
  <2>3. \A v \in Writers \ {w} : Appending(v) => row[v].event # new.event
    BY <1>3, <1>5 DEF RowInv, Made, Records
  <2>4. \A v \in Writers \ {w} : Appending(v)' => Appending(v)
    BY <2>1 DEF Appending
  <2>5. RowInv(w)'
    <3>1. Made(row'[w], drawn')
      BY <1>7, <2>1 DEF Made
    <3>2. Continues(row'[w], Visible(w)')
      BY <1>8, <1>9, <1>10, <2>1 DEF Continues
    <3> QED
      BY <1>10, <2>1, <2>2, <2>3, <2>4, <3>1, <3>2 DEF RowInv
  <2>6. \A v \in Writers \ {w} : RowInv(v)'
    <3> SUFFICES ASSUME NEW v \in Writers \ {w}, Appending(v)'
                 PROVE  /\ Made(row'[v], drawn')
                        /\ Continues(row'[v], Visible(v)')
                        /\ \A q \in AllRecords' : q.event # row'[v].event
                        /\ \A u \in Writers \ {v} :
                             Appending(u)' => row'[u].event # row'[v].event
      BY DEF RowInv
    <3>1. RowInv(v) /\ Appending(v)
      BY <2>4
    <3>2. Made(row'[v], drawn')
      BY <1>13, <2>1, <3>1 DEF RowInv, Made
    <3> QED
      BY <1>10, <2>1, <2>3, <2>4, <3>1, <3>2 DEF RowInv
  <2> QED
    BY <2>5, <2>6
<1>15. \A r \in AllRecords' : Made(r, drawn')
  BY <1>10, <1>13
<1>16. \A v \in Writers : \A r \in pending'[v] : r \notin rows' /\ Continues(r, Visible(v)')
  BY <1>10
<1> QED
  BY <1>10, <1>12, <1>14, <1>15, <1>16

LEMMA LockStep ==
  ASSUME ChainInv, NEW w \in Writers, LockLast(w)
  PROVE  ChainInv'
<1> USE DEF ChainInv
<1>1. RowInv(w) /\ Appending(w)
  BY DEF LockLast, Appending
<1>2. TypeOK'
  <2>1. {row[w].prev} \ {0} \subseteq Events
    BY AuditAssumption DEF TypeOK, Records, Events
  <2> QED
    BY <2>1 DEF LockLast, TypeOK, Places
<1>3. /\ rows' = rows /\ pending' = pending /\ row' = row /\ drawn' = drawn
      /\ AllRecords' = AllRecords /\ \A v \in Writers : Visible(v)' = Visible(v)
  BY DEF LockLast, AllRecords, Visible
<1>4. \A v \in Writers : Appending(v)' => Appending(v)
  BY DEF LockLast, Appending, TypeOK
<1>5. \A v \in Writers : RowInv(v)'
  BY <1>3, <1>4 DEF RowInv, Made
<1>6. \A r \in AllRecords' : Made(r, drawn')
  BY <1>3 DEF Made
<1> QED
  BY <1>2, <1>3, <1>5, <1>6

LEMMA InsertStep ==
  ASSUME ChainInv, NEW w \in Writers, InsertRecord(w)
  PROVE  ChainInv'
<1> USE DEF ChainInv
<1> DEFINE new == row[w]
<1>1. /\ at[w] = "inserting" /\ Appending(w) /\ RowInv(w)
      /\ Made(new, drawn) /\ Continues(new, Visible(w))
      /\ \A q \in AllRecords : q.event # new.event
  BY DEF InsertRecord, Appending, RowInv
<1>2. \A q \in AllRecords : ~SameKey(q, new)
  BY DEF InsertRecord, KeyHolders, KeyTaken, AllRecords, Visible
<1>3. /\ rows' = rows /\ row' = row /\ drawn' = drawn
      /\ pending' = [pending EXCEPT ![w] = @ \cup {new}]
      /\ at' = [at EXCEPT ![w] = "open"]
  BY DEF InsertRecord
<1> HIDE DEF new
<1>4. AllRecords' = AllRecords \cup {new}
  BY <1>3 DEF AllRecords, TypeOK
<1>5. /\ pending'[w] = pending[w] \cup {new} /\ ~(Appending(w)')
      /\ \A v \in Writers \ {w} : pending'[v] = pending[v] /\ at'[v] = at[v]
  BY <1>3 DEF TypeOK, Appending
<1>6. \A v \in Writers : Visible(v) \subseteq Visible(v)'
  BY <1>3, <1>5 DEF Visible
<1>7. TypeOK'
  BY <1>1, <1>3 DEF InsertRecord, TypeOK, Places, Made
<1>8. new \notin AllRecords
  BY <1>1
<1>9. \A r \in AllRecords' : Made(r, drawn')
  BY <1>1, <1>3, <1>4 DEF Made
<1>10. \A q, r \in AllRecords' : SameKey(q, r) \/ q.event = r.event => q = r
  <2>1. \A q \in AllRecords : ~SameKey(new, q) /\ q.event # new.event
    BY <1>1, <1>2 DEF SameKey
  <2> QED
    BY <1>2, <1>4, <2>1
<1>11. \A v \in Writers : \A r \in pending'[v] : r \notin rows' /\ Continues(r, Visible(v)')
  <2>1. new \notin rows
    BY <1>8 DEF AllRecords
  <2> QED
    BY <1>1, <1>3, <1>5, <1>6, <2>1, ContinuesGrows
<1>12. \A u, v \in Writers : u # v => pending'[u] \cap pending'[v] = {}
  BY <1>5, <1>8 DEF AllRecords
<1>13. \A v \in Writers : RowInv(v)'
  <2> SUFFICES ASSUME NEW v \in Writers, Appending(v)'
               PROVE  /\ Made(row'[v], drawn')
                      /\ Continues(row'[v], Visible(v)')
                      /\ \A q \in AllRecords' : q.event # row'[v].event
                      /\ \A u \in Writers \ {v} : Appending(u)' => row'[u].event # row'[v].event
    BY DEF RowInv
  <2>1. v # w /\ Appending(v) /\ RowInv(v)
    BY <1>5 DEF Appending
  <2>2. new.event # row[v].event
    BY <1>1, <2>1 DEF RowInv, new
  <2>3. \A u \in Writers \ {v} : Appending(u)' => Appending(u)
    BY <1>5 DEF Appending
  <2> QED
    BY <1>3, <1>4, <1>6, <2>1, <2>2, <2>3, ContinuesGrows DEF RowInv, Made
<1> QED
  BY <1>3, <1>7, <1>9, <1>10, <1>11, <1>12, <1>13

LEMMA ChainStep == ChainInv /\ [Next]_vars => ChainInv'
<1> SUFFICES ASSUME ChainInv, [Next]_vars PROVE ChainInv'
  OBVIOUS
<1>1. ASSUME NEW w \in Writers, NEW s \in Streams, AppendEvent(w, s) PROVE ChainInv'
  BY <1>1, AppendStep
<1>2. ASSUME NEW w \in Writers, LockLast(w) PROVE ChainInv'
  BY <1>2, LockStep
<1>3. ASSUME NEW w \in Writers, InsertRecord(w) PROVE ChainInv'
  BY <1>3, InsertStep
<1>4. ASSUME NEW w \in Writers, InsertFails(w) \/ Rollback(w) \/ DeadlockVictim(w)
      PROVE  ChainInv'
  BY <1>4, EndStep DEF InsertFails, Rollback, DeadlockVictim
<1>5. ASSUME NEW w \in Writers, Commit(w) PROVE ChainInv'
  BY <1>5, EndStep DEF Commit
<1>6. CASE UNCHANGED vars
  <2>1. /\ AllRecords' = AllRecords /\ \A v \in Writers : Visible(v)' = Visible(v)
        /\ \A v \in Writers : Appending(v)' <=> Appending(v)
    BY <1>6 DEF vars, AllRecords, Visible, Appending
  <2>2. TypeOK'
    BY <1>6 DEF vars, ChainInv, TypeOK
  <2>3. \A v \in Writers : RowInv(v)'
    BY <1>6, <2>1 DEF vars, ChainInv, RowInv, Made
  <2>4. \A r \in AllRecords' : Made(r, drawn')
    BY <1>6, <2>1 DEF vars, ChainInv, Made
  <2> QED
    BY <1>6, <2>1, <2>2, <2>3, <2>4 DEF vars, ChainInv
<1> QED
  BY <1>1, <1>2, <1>3, <1>4, <1>5, <1>6 DEF Next, WriterStep
-----------------------------------------------------------------------------
(***************************************************************************)
(* The theorems.                                                           *)
(***************************************************************************)

\* The invariant holds of every state of the audit trail.
THEOREM ChainInvariant == Spec => []ChainInv
<1>1. Init => ChainInv
  BY ChainInit
<1>2. ChainInv /\ [Next]_vars => ChainInv'
  BY ChainStep
<1> QED
  BY <1>1, <1>2, PTL DEF Spec

\* The tables and the sessions have their types.
THEOREM ChainTypes == Spec => []TypeOK
<1>1. ChainInv => TypeOK
  BY DEF ChainInv
<1> QED
  BY <1>1, ChainInvariant, PTL

LEMMA InvVerifies == ChainInv => ChainVerifies
<1> SUFFICES ASSUME ChainInv, NEW r \in rows
             PROVE  /\ r.seq >= 1
                    /\ \A q \in rows : SameKey(q, r) => q = r
                    /\ IF r.seq = 1 THEN r.prev = 0
                       ELSE \E q \in Chain(r.stream, rows) : q.seq = r.seq - 1 /\ q.event = r.prev
  BY DEF ChainVerifies
<1>1. rows \subseteq AllRecords /\ r \in AllRecords
  BY DEF AllRecords
<1>2. Made(r, drawn) /\ Continues(r, rows)
  BY <1>1 DEF ChainInv
<1>3. \A q \in rows : SameKey(q, r) => q = r
  BY <1>1 DEF ChainInv
<1>4. r.seq = 1 => r.prev = 0
  <2> SUFFICES ASSUME r.seq = 1, NEW q \in Chain(r.stream, rows), q.seq = r.seq - 1
               PROVE  FALSE
    BY <1>2 DEF Continues, Linked
  <2>1. Made(q, drawn)
    BY <1>1 DEF ChainInv, Chain
  <2> QED
    BY <2>1 DEF Made, Records
<1> QED
  BY <1>2, <1>3, <1>4 DEF Made, Records, Continues, Linked

\* The integrity check of any stream, at any time, finds nothing: no fork, no
\* gap and no broken link, whatever transactions race, wait, fail or are lost.
THEOREM ChainsVerify == Spec => []ChainVerifies
  BY InvVerifies, ChainInvariant, PTL

\* Of the transactions that are open, one at most extends a given record.
THEOREM NoForks == Spec => []OneAppender
<1>1. ChainInv => OneAppender
  <2> SUFFICES ASSUME ChainInv, NEW v \in Writers, NEW w \in Writers,
                      NEW q \in pending[v], NEW r \in pending[w],
                      q.prev = r.prev, q.stream = r.stream
               PROVE  q = r
    BY DEF OneAppender
  <2>1. q \in AllRecords /\ r \in AllRecords /\ Made(q, drawn) /\ Made(r, drawn)
    BY DEF AllRecords, ChainInv
  <2>2. Linked(q, Visible(v)) /\ Linked(r, Visible(w))
    BY DEF ChainInv, Continues
  <2>3. \A a, b \in AllRecords : a.event = b.event => a = b
    BY DEF ChainInv
  <2>4. \A a \in AllRecords : a.event # 0
    BY DEF ChainInv, Made, Records
  <2>5. q.seq = r.seq
    <3>1. q.seq \in Nat /\ r.seq \in Nat
      BY <2>1 DEF Made, Records
    <3> QED
      BY <2>1, <2>2, <2>3, <2>4, <3>1, VisibleIsThere DEF Linked, Chain
  <2> QED
    BY <2>1, <2>5 DEF ChainInv, SameKey
<1> QED
  BY <1>1, ChainInvariant, PTL
-----------------------------------------------------------------------------
(***************************************************************************)
(* The refinement.                                                         *)
(***************************************************************************)

\* Where the numbers of a stream are unique, the log holds the event of each record.
LogIsRight ==
  /\ \A s \in Streams : DOMAIN CommittedLog[s] = {r.seq : r \in Chain(s, rows)}
  /\ \A r \in rows : /\ r.stream \in Streams
                     /\ r.seq \in DOMAIN CommittedLog[r.stream]
                     /\ CommittedLog[r.stream][r.seq] = r.event

LEMMA LogFacts == ChainInv => LogIsRight
<1> SUFFICES ASSUME ChainInv PROVE LogIsRight
  OBVIOUS
<1>1. \A s \in Streams :
        /\ DOMAIN CommittedLog[s] = {r.seq : r \in Chain(s, rows)}
        /\ \A r \in Chain(s, rows) :
             CommittedLog[s][r.seq] = (CHOOSE q \in Chain(s, rows) : q.seq = r.seq).event
  BY DEF CommittedLog
<1>2. \A r \in rows : r.stream \in Streams /\ r \in Chain(r.stream, rows)
  BY DEF ChainInv, TypeOK, Records, Chain
<1>3. ASSUME NEW r \in rows
      PROVE  (CHOOSE q \in Chain(r.stream, rows) : q.seq = r.seq) = r
  <2>1. \A q \in Chain(r.stream, rows) : q.seq = r.seq => q = r
    BY DEF ChainInv, SameKey, Chain, AllRecords
  <2> QED
    BY <1>2, <2>1
<1> QED
  BY <1>1, <1>2, <1>3 DEF LogIsRight

\* The chain implements the log: what commits adds entries behind the last one
\* of each stream and changes none.
THEOREM ChainImplementsLog == Spec => KeepsAuditLog
<1>1. Init => AuditTrail!Init
  BY DEF Init, AuditTrail!Init, AuditTrail!Numbers, CommittedLog, Chain
<1>2. ChainInv /\ ChainInv' /\ [Next]_vars => [AuditTrail!Enter]_CommittedLog
  <2> SUFFICES ASSUME ChainInv, ChainInv', [Next]_vars
               PROVE  AuditTrail!Enter \/ CommittedLog' = CommittedLog
    OBVIOUS
  <2>1. rows \subseteq rows'
    BY DEF Next, vars, WriterStep, AppendEvent, LockLast, InsertRecord, InsertFails,
           Commit, Rollback, DeadlockVictim, Ended
  <2>2. LogIsRight
    BY LogFacts
  <2>3. LogIsRight'
    <3>1. ChainInv'
      OBVIOUS
    <3> QED
      BY <3>1, LogFacts, PTL
  <2>4. ASSUME NEW s \in Streams PROVE AuditTrail!Grows(s)
    BY <2>1, <2>2, <2>3 DEF AuditTrail!Grows, AuditTrail!Numbers, LogIsRight, Chain
  <2>5. AuditTrail!Numbered(CommittedLog')
    <3>1. ASSUME NEW r \in rows', NEW k \in 1..r.seq
          PROVE  r.seq >= 1 /\ \E q \in Chain(r.stream, rows') : q.seq = k
      <4>1. Continues(r, rows') /\ Made(r, drawn')
        BY DEF ChainInv, AllRecords
      <4>2. r.seq \in Nat /\ r \in Chain(r.stream, rows')
        BY <4>1 DEF Made, Records, Chain
      <4> QED
        BY <4>1, <4>2 DEF Continues, Filled, Made
    <3>2. \A r \in rows' : r.seq \in Nat /\ r.seq >= 1
      BY DEF ChainInv, AllRecords, Made, Records
    <3>3. ASSUME NEW s \in Streams, NEW k \in AuditTrail!Numbers(CommittedLog', s)
          PROVE  k >= 1 /\ 1..k \subseteq AuditTrail!Numbers(CommittedLog', s)
      <4>1. AuditTrail!Numbers(CommittedLog', s) = {r.seq : r \in Chain(s, rows')}
        BY <2>3 DEF AuditTrail!Numbers, LogIsRight
      <4>2. PICK r \in rows' : r.stream = s /\ r.seq = k
        BY <3>3, <4>1 DEF Chain
      <4> QED
        BY <3>1, <3>2, <4>1, <4>2
    <3> QED
      BY <3>3 DEF AuditTrail!Numbered
  <2>6. AuditTrail!EnteredOnce(CommittedLog')
    <3> SUFFICES ASSUME NEW q \in rows', NEW r \in rows', q.event = r.event
                 PROVE  q = r
      BY <2>3 DEF AuditTrail!EnteredOnce, AuditTrail!Numbers, LogIsRight, Chain
    <3> QED
      BY DEF ChainInv, AllRecords
  <2> QED
    BY <2>4, <2>5, <2>6 DEF AuditTrail!Enter
<1> QED
  BY <1>1, <1>2, ChainInvariant, PTL DEF Spec, KeepsAuditLog, AuditTrail!Spec
=============================================================================
