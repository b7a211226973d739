------------------------ MODULE SnapshotStoreProofs ------------------------
(***************************************************************************)
(* Theorems about SnapshotStore, for every set of processes and trees and  *)
(* every number of registrations and faults.                               *)
(***************************************************************************)
EXTENDS SnapshotStore, TLAPS

Inside == Reconciling \cup Staging \cup Published

\* The lock: two store objects are not inside it at one time.
Exclusive ==
  \A p, q \in Processes : at[p] \in Inside /\ at[q] \in Inside => p = q

\* What has been published is on the disk as a whole, or somebody damaged it.
Sound(t, content) == content = "synced" \/ (content = "partial" /\ t \in damaged)
ObjectsSound == \A t \in Trees : disk[t] # "none" => Sound(t, disk[t])

\* A registration has a tree, and the tree is there, was damaged or adopted.
RowsBacked ==
  \A r \in rows :
    tree[r] \in Trees /\ (disk[tree[r]] = "synced" \/ tree[r] \in damaged \cup adopted)

\* A rename that may be missing on the disk was made, and undoing it brings back
\* what was published, or an object that no registration rests upon.
ObjectsUnsynced ==
  \A u \in unsynced :
    /\ tree[u[2]] = u[1]
    /\ disk[u[1]] # "none"
    /\ Referenced(u[1]) => u[1] \in damaged \cup adopted
EntriesUnfiled ==
  \A b \in unfiled :
    /\ evidence[b[1]] = "intent"
    /\ payload[b[1]] # "none"
    /\ b[1][1] \in Trees => Sound(b[1][1], payload[b[1]])
    /\ b[2] \in Trees => b[2] = b[1][1]

\* What the holder of the lock knows of the entry that it works on.
StagedAs(p) ==
  CASE at[p] = "extracting" -> disk[ref[p]] = "partial"
    [] at[p] = "ready"      -> disk[ref[p]] = "ready"
    [] at[p] = "sealed"     -> disk[ref[p]] = "synced"

Stages(p) ==
  at[p] \in Staging =>
    ref[p] \in Refs /\ ref[p] \notin rows /\ Target(p) \in Trees /\ StagedAs(p)

Publishes(p) ==
  at[p] \in Published =>
    /\ ref[p] \in Refs /\ Target(p) \in Trees
    /\ disk[Target(p)] = "synced" \/ Target(p) \in damaged
    /\ at[p] # "inserted" => ref[p] \notin rows
    /\ at[p] # "renamed" /\ Unsettled(Target(p)) => Target(p) \in damaged \cup adopted

Intends(p) ==
  at[p] = "intended" =>
    /\ key[p] \in Keys /\ evidence[key[p]] = "intent"
    /\ disk[key[p][1]] # "none"
    /\ key[p][1] \in Trees /\ Referenced(key[p][1]) => disk[key[p][1]] = "partial"

Moves(p) ==
  at[p] = "moved" =>
    /\ key[p] \in Keys /\ evidence[key[p]] = "intent"
    /\ payload[key[p]] # "none"

Works(p) == Stages(p) /\ Publishes(p) /\ Intends(p) /\ Moves(p)

StoreInv ==
  /\ TypeOK
  /\ Exclusive
  /\ ObjectsSound
  /\ RowsBacked
  /\ ObjectsUnsynced
  /\ EntriesUnfiled
  /\ EvidenceIsTrue
  /\ \A p \in Processes : Works(p)
-----------------------------------------------------------------------------
(***************************************************************************)
(* The invariant.                                                          *)
(***************************************************************************)
LEMMA StoreInit == Init => StoreInv
<1> SUFFICES ASSUME Init PROVE StoreInv
  OBVIOUS
<1>1. TypeOK
  BY SnapshotAssumption DEF Init, TypeOK, Places
<1>2. /\ Exclusive /\ ObjectsSound /\ RowsBacked /\ EvidenceIsTrue
      /\ ObjectsUnsynced /\ EntriesUnfiled
  BY DEF Init, Exclusive, Inside, Reconciling, Staging, Published, ObjectsSound, RowsBacked,
         EvidenceIsTrue, Names, ObjectsUnsynced, EntriesUnfiled
<1>3. \A p \in Processes : Works(p)
  BY DEF Init, Works, Stages, Publishes, Intends, Moves, Staging, Published
<1> QED
  BY <1>1, <1>2, <1>3 DEF StoreInv

\* The holder of the lock is alone in it, and whoever takes it finds it free:
\* what the other processes know does not matter then.
LEMMA OthersOutside ==
  ASSUME StoreInv, NEW p \in Processes, NEW place \in Places, Goes(p, place),
         at[p] \in Inside \/ LockFree
  PROVE  Exclusive' /\ (\A q \in Processes \ {p} : Works(q)')
<1>1. \A q \in Processes \ {p} : at[q] \notin Inside /\ at'[q] = at[q]
  BY DEF StoreInv, TypeOK, Exclusive, LockFree, Inside, Goes
<1>2. Exclusive'
  BY <1>1 DEF Exclusive
<1>3. \A q \in Processes \ {p} : Works(q)'
  BY <1>1 DEF Works, Stages, Publishes, Intends, Moves, Inside, Reconciling
<1> QED
  BY <1>2, <1>3

\* What an fsync does to the renames: fewer may be missing, and what was adopted
\* is safe once none of an object is, and the object is there.
Settling ==
  /\ unsynced' \subseteq unsynced
  /\ unfiled' \subseteq unfiled
  /\ adopted' \subseteq adopted
  /\ adopted' # adopted => unsynced' = {} /\ \A t \in adopted \ adopted' : disk[t] # "none"

LEMMA SyncsSettle == SyncAll \/ SyncQuarantine \/ UNCHANGED renames => Settling
  BY DEF Settling, SyncAll, SyncQuarantine, renames

\* The objects and the registrations stay as they are.
LEMMA SettlingKeeps ==
  ASSUME StoreInv, Settling, UNCHANGED <<disk, tree, rows, damaged>>
  PROVE  (RowsBacked /\ ObjectsSound /\ ObjectsUnsynced)'
<1>1. ObjectsSound /\ RowsBacked /\ ObjectsUnsynced /\ adopted \subseteq Trees
  BY DEF StoreInv, TypeOK
<1>2. (\A t : Referenced(t)' <=> Referenced(t)) /\ ObjectsSound'
  BY <1>1 DEF Referenced, ObjectsSound, Sound
<1>3. RowsBacked'
  BY <1>1 DEF RowsBacked, Settling, ObjectsSound, Sound
<1>4. ObjectsUnsynced'
  BY <1>1, <1>2 DEF ObjectsUnsynced, Settling
<1> QED
  BY <1>2, <1>3, <1>4

\* A step that leaves the directories and the database alone keeps what the
\* processes know; only p goes somewhere, and may forget what it worked on.
LEMMA MoveOnly ==
  ASSUME StoreInv, NEW p \in Processes, NEW place \in Places, Goes(p, place),
         UNCHANGED <<disk, quarantine, database, damaged, losses, damages>>,
         Settling, registry' \in {"absent", "created", "reconciled"},
         kills' \in 0..MaxKills,
         ref' \in [Processes -> Refs \cup {0}], key' \in [Processes -> Keys \cup {NoKey}],
         \A q \in Processes \ {p} : key'[q] = key[q] /\ ref'[q] = ref[q],
         place \in Inside => at[p] \in Inside \/ LockFree,
         place \notin Staging \cup {"renamed", "inserted", "intended", "moved"},
         place \in Published => at[p] = "renamed" /\ ref'[p] = ref[p] /\ unsynced' = {}
  PROVE  StoreInv'
<1>0. UNCHANGED <<disk, evidence, payload, tree, rows, damaged, losses, damages>>
  BY DEF quarantine, database
<1>1. TypeOK'
  <2>1. unsynced' \subseteq Trees \X Refs /\ unfiled' \subseteq Keys \X Names /\ adopted' \subseteq Trees
    BY DEF StoreInv, TypeOK, Settling
  <2> QED
    BY <1>0, <2>1 DEF StoreInv, TypeOK, Goes
<1>2. Exclusive'
  BY DEF StoreInv, TypeOK, Exclusive, LockFree, Inside, Goes
<1>3. (ObjectsSound /\ RowsBacked /\ ObjectsUnsynced)'
  BY <1>0, SettlingKeeps
<1>6. (EvidenceIsTrue /\ EntriesUnfiled)'
  BY <1>0 DEF StoreInv, EvidenceIsTrue, EntriesUnfiled, Sound, Settling
<1>4. \A q \in Processes \ {p} : Works(q)'
  <2> TAKE q \in Processes \ {p}
  <2>1. at'[q] = at[q] /\ ref'[q] = ref[q] /\ key'[q] = key[q]
    BY DEF StoreInv, TypeOK, Goes
  <2>2. Works(q)
    BY DEF StoreInv
  <2>3. (\A t : Referenced(t)' <=> Referenced(t)) /\ Target(q)' = Target(q)
    BY <1>0, <2>1 DEF Referenced, Target
  <2>4. Stages(q)'
    BY <1>0, <2>1, <2>2, <2>3 DEF Works, Stages, StagedAs
  <2>6. Unsettled(Target(q))' => Unsettled(Target(q)) /\ adopted' = adopted
    BY <2>3 DEF Unsettled, Settling
  <2>7. Publishes(q)'
    BY <1>0, <2>1, <2>2, <2>3, <2>6 DEF Works, Publishes
  <2>5. Intends(q)' /\ Moves(q)'
    BY <1>0, <2>1, <2>2, <2>3 DEF Works, Intends, Moves, Sound
  <2> QED
    BY <2>4, <2>5, <2>7 DEF Works
<1>5. Works(p)'
  <2>1. at'[p] = place
    BY DEF StoreInv, TypeOK, Goes
  <2>2. Stages(p)' /\ Intends(p)' /\ Moves(p)'
    BY <2>1 DEF Stages, Intends, Moves
  <2>3. Publishes(p)'
    BY <1>0, <2>1 DEF StoreInv, Works, Publishes, Target, Published, Unsettled
  <2> QED
    BY <2>2, <2>3 DEF Works
<1> QED
  BY <1>1, <1>2, <1>3, <1>4, <1>5, <1>6 DEF StoreInv

\* The entry to be quarantined next, and why.
LEMMA DueFacts ==
  ASSUME StoreInv, NEW n \in Due
  PROVE  /\ n \in Names /\ <<n, Reason(n)>> \in Keys
         /\ disk[n] # "none"
         /\ n \in Trees /\ Referenced(n) => disk[n] = "partial"
<1>1. n \in Names /\ disk[n] # "none"
  BY DEF Due, Staged, Corrupt, Orphaned, Names
<1>2. Reason(n) \in Reasons
  BY DEF Reason, Reasons
<1>3. ASSUME n \in Trees, Referenced(n) PROVE disk[n] = "partial"
  <2>1. n \notin Refs
    BY <1>3, SnapshotAssumption
  <2>2. ~Whole(n)
    BY <1>3, <2>1 DEF Due, Staged, Corrupt, Orphaned
  <2> QED
    BY <1>1, <1>3, <2>2 DEF StoreInv, ObjectsSound, Sound, Whole
<1> QED
  BY <1>1, <1>2, <1>3 DEF Keys

\* Reconciliation keeps the invariant: what it moves away is not registered, or
\* was damaged, and the evidence comes before the move.
LEMMA ReconcileKeeps ==
  ASSUME StoreInv, NEW p \in Processes, Reconcile(p)
  PROVE  StoreInv'
<1> USE DEF StoreInv
<1>1. CASE \/ Look(p) \/ FirstStart(p) \/ FirstStartRaises(p) \/ Construct(p)
           \/ IntentDangles(p) \/ EndRecovery(p) \/ EndReconcile(p) \/ SyncSource(p)
  <2>1. PICK place \in {"looking", "starting", "recovering", "raised", "cleaning", "open"} :
          Goes(p, place) /\ UNCHANGED <<disk, quarantine, database, ref, faults>>
    BY <1>1 DEF Look, FirstStart, FirstStartRaises, Construct, IntentDangles, EndRecovery,
                EndReconcile, SyncSource, AfterReconcile
  <2>2. place \in Inside => at[p] \in Inside \/ LockFree
    BY <1>1, <2>1 DEF Look, FirstStart, FirstStartRaises, Construct, IntentDangles,
                      EndRecovery, EndReconcile, SyncSource, Inside, Reconciling, Staging,
                      Published, Goes, TypeOK, AfterReconcile
  <2>4. key' = key \/ key' = [key EXCEPT ![p] = NoKey]
    BY <1>1 DEF Look, FirstStart, FirstStartRaises, Construct, IntentDangles, EndRecovery,
                EndReconcile, SyncSource
  <2>5. Settling
    BY <1>1, SyncsSettle
    DEF Look, FirstStart, FirstStartRaises, Construct, IntentDangles, EndRecovery,
        EndReconcile, SyncSource, renames
  <2>6. registry' \in {"absent", "created", "reconciled"}
    BY <1>1 DEF Look, FirstStart, FirstStartRaises, Construct, IntentDangles, EndRecovery,
                EndReconcile, SyncSource, TypeOK
  <2>3. ref' \in [Processes -> Refs \cup {0}] /\ key' \in [Processes -> Keys \cup {NoKey}]
        /\ kills' \in 0..MaxKills /\ \A q \in Processes \ {p} : key'[q] = key[q]
    BY <2>1, <2>4 DEF TypeOK, faults
  <2> HIDE DEF StoreInv
  <2> QED
    BY <2>1, <2>2, <2>3, <2>5, <2>6, MoveOnly
    DEF faults, Places, Starting, Inside, Reconciling, Staging, Published
<1>2. CASE MoveCollides(p)
  <2>1. key' \in [Processes -> Keys \cup {NoKey}] /\ ref' \in [Processes -> Refs \cup {0}]
        /\ kills' \in 0..MaxKills /\ registry' \in {"absent", "created", "reconciled"}
        /\ \A q \in Processes \ {p} : key'[q] = key[q]
    BY <1>2 DEF MoveCollides, TypeOK, faults
  <2>2. Settling
    BY <1>2, SyncsSettle DEF MoveCollides
  <2>3. PICK place \in {"raised"} : Goes(p, place)
    BY <1>2 DEF MoveCollides
  <2>4. UNCHANGED <<disk, quarantine, database, ref, damaged, losses, damages>>
    BY <1>2 DEF MoveCollides, faults
  <2>5. place \in Places /\ place \notin Inside
    BY <2>3 DEF Places, Inside, Reconciling, Staging, Published
  <2> HIDE DEF StoreInv
  <2> QED
    BY <2>1, <2>2, <2>3, <2>4, <2>5, MoveOnly DEF Inside, Published
<1>3. ASSUME NEW k \in Keys, RecoverIntent(p, k) PROVE StoreInv'
  <2>1. UNCHANGED <<disk, payload, tree, rows, at, ref, key, damaged>>
        /\ \A q \in Processes : at[q] \notin {"intended", "moved"}
    BY <1>3 DEF RecoverIntent, database, faults, Exclusive, Inside, Reconciling
  <2>6. unfiled' = {} /\ UNCHANGED <<unsynced, adopted, registry>>
    BY <1>3 DEF RecoverIntent, SyncQuarantine
  <2>2. TypeOK'
    BY <1>3, <2>1, <2>6 DEF RecoverIntent, TypeOK, faults
  <2>3. (Exclusive /\ ObjectsSound /\ RowsBacked /\ ObjectsUnsynced /\ EntriesUnfiled)'
    BY <2>1, <2>6
    DEF Exclusive, ObjectsSound, RowsBacked, Sound, ObjectsUnsynced, EntriesUnfiled, Referenced
  <2>4. EvidenceIsTrue'
    BY <1>3, <2>1 DEF RecoverIntent, EvidenceIsTrue, Moved, TypeOK
  <2>5. \A q \in Processes : Works(q)'
    BY <2>1, <2>6
    DEF Works, Stages, Publishes, Intends, Moves, StagedAs, Target, Referenced, Sound, Unsettled
  <2> QED
    BY <2>2, <2>3, <2>4, <2>5
<1>4. ASSUME NEW n \in Names, Intend(p, n) PROVE StoreInv'
  <2> DEFINE k == <<n, Reason(n)>>
  <2>1. k \in Keys /\ disk[n] # "none" /\ (n \in Trees /\ Referenced(n) => disk[n] = "partial")
    BY <1>4, DueFacts DEF Intend
  <2>2. key' = [key EXCEPT ![p] = k] /\ evidence' = [evidence EXCEPT ![k] = "intent"]
    BY <1>4 DEF Intend
  <2>3. Exclusive' /\ \A q \in Processes \ {p} : Works(q)'
    BY <1>4, OthersOutside DEF Intend, Inside, Reconciling, Places
  <2>4. UNCHANGED <<disk, payload, tree, rows, ref, damaged, kills, losses, damages>>
        /\ at' = [at EXCEPT ![p] = "intended"] /\ k[1] = n
        /\ unfiled' = {} /\ UNCHANGED <<unsynced, adopted, registry>>
    BY <1>4 DEF Intend, database, faults, Goes, SyncQuarantine
  <2> HIDE DEF k
  <2>5. TypeOK'
    BY <2>1, <2>2, <2>4 DEF TypeOK, Places, Reconciling
  <2>6. (ObjectsSound /\ RowsBacked /\ EvidenceIsTrue)'
    BY <2>1, <2>2, <2>4 DEF ObjectsSound, RowsBacked, Sound, EvidenceIsTrue, TypeOK
  <2>8. (ObjectsUnsynced /\ EntriesUnfiled)'
    BY <2>4 DEF ObjectsUnsynced, EntriesUnfiled, Referenced
  <2>7. Works(p)'
    <3>1. at'[p] = "intended" /\ key'[p] = k /\ evidence'[k] = "intent"
      BY <2>1, <2>2, <2>4 DEF TypeOK
    <3>2. Referenced(n)' <=> Referenced(n)
      BY <2>4 DEF Referenced
    <3> QED
      BY <2>1, <2>4, <3>1, <3>2 DEF Works, Stages, Publishes, Intends, Moves, Staging, Published
  <2> QED
    BY <2>3, <2>5, <2>6, <2>7, <2>8
<1>5. CASE Move(p)
  <2>0. PICK k, n : k = key[p] /\ n = k[1]
    OBVIOUS
  <2>1. at[p] = "intended" /\ at' = [at EXCEPT ![p] = "moved"] /\ payload[k] = "none"
        /\ payload' = [payload EXCEPT ![k] = disk[n]] /\ disk' = [disk EXCEPT ![n] = "none"]
        /\ unsynced' = {u \in unsynced : u[1] # n}
        /\ unfiled' = unfiled \cup {<<k, n>>} \cup {<<k, u[2]>> : u \in {v \in unsynced : v[1] = n}}
        /\ UNCHANGED <<evidence, tree, rows, ref, key, damaged, kills, losses, damages>>
        /\ UNCHANGED <<registry, adopted>>
    BY <1>5, <2>0 DEF Move, database, faults, Goes
  <2>2. k \in Keys /\ evidence[k] = "intent" /\ disk[n] # "none"
        /\ (n \in Trees /\ Referenced(n) => disk[n] = "partial")
    BY <2>0, <2>1 DEF Works, Intends
  <2>3. n \in Names
    BY <2>0, <2>2 DEF Keys
  <2>4. Exclusive' /\ \A q \in Processes \ {p} : Works(q)'
    BY <1>5, OthersOutside DEF Move, Inside, Reconciling, Places
  <2>5. n \in Trees /\ Referenced(n) => n \in damaged
    BY <2>2 DEF ObjectsSound, Sound
  <2>6. TypeOK'
    <3>1. unsynced \subseteq Trees \X Refs
      BY DEF TypeOK
    <3>2. unsynced' \subseteq Trees \X Refs /\ unfiled' \subseteq Keys \X Names
      BY <2>1, <2>2, <2>3, <3>1 DEF TypeOK, Names
    <3> QED
      BY <2>1, <2>2, <2>3, <3>2 DEF TypeOK, Places, Reconciling
  <2>7. EvidenceIsTrue'
    <3>1. \A kk \in Keys : evidence'[kk] = evidence[kk]
                         /\ payload'[kk] = (IF kk = k THEN disk[n] ELSE payload[kk])
      BY <2>1 DEF TypeOK
    <3>2. EvidenceIsTrue
      OBVIOUS
    <3> HIDE DEF StoreInv
    <3> QED
      BY <2>2, <3>1, <3>2 DEF EvidenceIsTrue
  <2>10. \A t \in Names : disk'[t] = IF t = n THEN "none" ELSE disk[t]
    BY <2>1 DEF TypeOK
  <2>11. ObjectsSound'
    <3>1. ObjectsSound /\ damaged' = damaged
      BY <2>1
    <3> HIDE DEF StoreInv
    <3> QED
      BY <2>10, <3>1 DEF ObjectsSound, Sound, Names
  <2>8. RowsBacked'
    <3>1. RowsBacked /\ UNCHANGED <<damaged, adopted, tree, rows>>
      BY <2>1
    <3> HIDE DEF StoreInv
    <3> QED
      BY <2>10, <2>5, <3>1 DEF RowsBacked, Referenced, Names
  <2>12. \A kk \in Keys : payload'[kk] = (IF kk = k THEN disk[n] ELSE payload[kk])
    BY <2>1 DEF TypeOK
  <2>13. ObjectsUnsynced'
    <3>1. ObjectsUnsynced /\ unsynced \subseteq Trees \X Refs
      BY DEF TypeOK
    <3>2. \A t : Referenced(t)' <=> Referenced(t)
      BY <2>1 DEF Referenced
    <3> HIDE DEF StoreInv
    <3> QED
      BY <2>1, <2>10, <3>1, <3>2 DEF ObjectsUnsynced, Names
  <2>14. EntriesUnfiled'
    <3>1. n \in Trees => Sound(n, disk[n])
      BY <2>2 DEF ObjectsSound
    <3>2. EntriesUnfiled /\ unfiled \subseteq Keys \X Names /\ unsynced \subseteq Trees \X Refs
          /\ Refs \cap Trees = {}
      BY SnapshotAssumption DEF TypeOK
    <3> HIDE DEF StoreInv
    <3>3. ASSUME NEW b \in unfiled', b \notin unfiled
          PROVE  b[1] = k /\ (b[2] \in Trees => b[2] = n)
      BY <2>1, <3>2, <3>3
    <3>4. \A b \in unfiled : b[1] \in Keys /\ b[1] # k
      BY <2>1, <3>2 DEF EntriesUnfiled
    <3> QED
      BY <2>0, <2>1, <2>2, <2>12, <3>1, <3>2, <3>3, <3>4 DEF EntriesUnfiled, Sound
  <2>9. Works(p)'
    <3>1. at'[p] = "moved" /\ key'[p] = k /\ payload'[k] = disk[n]
      BY <2>0, <2>1, <2>2, <2>3 DEF TypeOK
    <3> HIDE DEF StoreInv
    <3> QED
      BY <2>1, <2>2, <3>1 DEF Works, Stages, Publishes, Intends, Moves, Staging, Published
  <2> QED
    BY <2>4, <2>6, <2>7, <2>8, <2>9, <2>11, <2>13, <2>14
<1>6. CASE FileEvidence(p)
  <2> DEFINE k == key[p]
  <2>1. at[p] = "moved" /\ at' = [at EXCEPT ![p] = "filed"]
        /\ evidence' = [evidence EXCEPT ![k] = "quarantined"]
        /\ unfiled' = {} /\ UNCHANGED <<unsynced, adopted, registry, key>>
        /\ UNCHANGED <<disk, payload, tree, rows, ref, damaged, kills, losses, damages>>
    BY <1>6 DEF FileEvidence, database, faults, Goes, SyncQuarantine
  <2>2. k \in Keys /\ payload[k] # "none"
    BY <2>1 DEF Works, Moves
  <2>3. Exclusive' /\ \A q \in Processes \ {p} : Works(q)'
    BY <1>6, OthersOutside DEF FileEvidence, Inside, Reconciling, Places
  <2> HIDE DEF k
  <2>4. TypeOK'
    BY <2>1, <2>2 DEF TypeOK, Places, Reconciling
  <2>5. (ObjectsSound /\ RowsBacked /\ EvidenceIsTrue)'
    BY <2>1, <2>2 DEF ObjectsSound, RowsBacked, Sound, EvidenceIsTrue, TypeOK
  <2>7. (ObjectsUnsynced /\ EntriesUnfiled)'
    BY <2>1 DEF ObjectsUnsynced, EntriesUnfiled, Referenced
  <2>6. Works(p)'
    BY <2>1 DEF Works, Stages, Publishes, Intends, Moves, Staging, Published, TypeOK
  <2> QED
    BY <2>3, <2>4, <2>5, <2>6, <2>7
<1> QED
  BY <1>1, <1>2, <1>3, <1>4, <1>5, <1>6 DEF Reconcile

\* A step of the holder of the lock, or of who takes it free, that leaves the
\* quarantine alone: what is left to show is what it does to its own entry.
LEMMA HolderStep ==
  ASSUME StoreInv, NEW p \in Processes, NEW place \in Places, Goes(p, place),
         at[p] \in Inside \/ LockFree,
         UNCHANGED <<quarantine, key, faults, registry>>,
         unsynced' \subseteq Trees \X Refs, unfiled' \subseteq unfiled, adopted' \subseteq Trees,
         disk' \in [Names -> {"none"} \cup Contents],
         tree' \in [Refs -> Trees \cup {NoTree}], rows' \subseteq Refs,
         ref' \in [Processes -> Refs \cup {0}],
         \A t \in Trees : disk'[t] # "none" => Sound(t, disk'[t]),
         RowsBacked', ObjectsUnsynced', Works(p)'
  PROVE  StoreInv'
<1>1. TypeOK'
  <2>1. unfiled' \subseteq Keys \X Names
    BY DEF StoreInv, TypeOK
  <2> QED
    BY <2>1 DEF StoreInv, TypeOK, Goes, quarantine, faults
<1>2. Exclusive' /\ \A q \in Processes \ {p} : Works(q)'
  BY OthersOutside
<1>3. EvidenceIsTrue' /\ ObjectsSound' /\ EntriesUnfiled'
  BY DEF StoreInv, EvidenceIsTrue, ObjectsSound, EntriesUnfiled, Sound, quarantine, faults
<1> QED
  BY <1>1, <1>2, <1>3 DEF StoreInv

LEMMA RegisterKeeps ==
  ASSUME StoreInv, NEW p \in Processes, Register(p)
  PROVE  StoreInv'
<1>0. /\ TypeOK /\ ObjectsSound /\ RowsBacked /\ ObjectsUnsynced /\ Stages(p) /\ Publishes(p)
      /\ Refs \subseteq Names /\ Trees \subseteq Names /\ Refs \cap Trees = {}
      /\ NoTree \notin Trees
  BY SnapshotAssumption DEF StoreInv, Works, Names
<1>1. ASSUME NEW r \in Refs, NEW t \in Trees, BeginRegister(p, r, t) PROVE StoreInv'
  <2>1. /\ tree[r] = NoTree /\ tree' = [tree EXCEPT ![r] = t] /\ ref' = [ref EXCEPT ![p] = r]
        /\ disk' = [disk EXCEPT ![r] = "partial"] /\ at' = [at EXCEPT ![p] = "extracting"]
        /\ UNCHANGED <<quarantine, rows, key, faults>> /\ LockFree
        /\ UNCHANGED <<registry, unsynced, unfiled, adopted>>
    BY <1>1 DEF BeginRegister, Goes, renames
  <2>2. r \notin rows
    BY <1>0, <2>1 DEF RowsBacked
  <2>3. RowsBacked'
    <3>1. \A q \in rows : tree'[q] = tree[q] /\ tree[q] \in Trees /\ disk'[tree[q]] = disk[tree[q]]
      BY <1>0, <2>1, <2>2 DEF TypeOK, RowsBacked
    <3> QED
      BY <1>0, <2>1, <3>1 DEF RowsBacked, faults
  <2>4. Works(p)'
    BY <1>0, <2>1, <2>2
    DEF Works, Stages, Publishes, Intends, Moves, StagedAs, Target, TypeOK, Staging, Published
  <2>5. \A u \in Trees : disk'[u] # "none" => Sound(u, disk'[u])
    BY <1>0, <2>1 DEF TypeOK, ObjectsSound, Sound
  <2>6. ObjectsUnsynced'
    <3>1. \A u \in unsynced : u[1] \in Trees /\ u[2] \in Refs /\ u[2] # r
      BY <1>0, <2>1 DEF TypeOK, ObjectsUnsynced
    <3>2. \A u \in Trees : Referenced(u)' <=> Referenced(u)
      BY <1>0, <2>1, <2>2 DEF TypeOK, Referenced
    <3> QED
      BY <1>0, <2>1, <3>1, <3>2 DEF TypeOK, ObjectsUnsynced, faults
  <2> QED
    BY <1>0, <2>1, <2>3, <2>4, <2>5, <2>6, HolderStep DEF TypeOK, Goes, Places, Staging, Contents
<1>2. ASSUME NEW from \in {"extracting", "ready"}, NEW to \in {"ready", "sealed"},
             NEW content \in {"ready", "synced"},
             at[p] = from, at' = [at EXCEPT ![p] = to],
             to = "ready" <=> content = "ready",
             disk' = [disk EXCEPT ![ref[p]] = content],
             UNCHANGED <<quarantine, database, registry, renames, ref, key, faults>>
      PROVE StoreInv'
  <2>1. ref[p] \in Refs /\ ref[p] \notin rows /\ Target(p) \in Trees
    BY <1>0, <1>2 DEF Stages, Staging
  <2>2. \A u \in Trees : disk'[u] = disk[u]
    BY <1>0, <1>2, <2>1 DEF TypeOK
  <2>3. (RowsBacked /\ ObjectsUnsynced)'
    BY <1>0, <1>2, <2>2
    DEF TypeOK, RowsBacked, ObjectsUnsynced, Referenced, faults, database, renames
  <2>4. Works(p)'
    BY <1>0, <1>2, <2>1
    DEF Works, Stages, Publishes, Intends, Moves, StagedAs, Target, TypeOK, Staging, Published,
        database
  <2>5. \A u \in Trees : disk'[u] # "none" => Sound(u, disk'[u])
    BY <1>0, <2>2 DEF ObjectsSound, Sound
  <2>6. disk' \in [Names -> {"none"} \cup Contents] /\ at[p] \in Inside /\ to \in Places
        /\ Goes(p, to)
    BY <1>0, <1>2 DEF TypeOK, Contents, Inside, Staging, Places, Goes
  <2> QED
    BY <1>0, <1>2, <2>3, <2>4, <2>5, <2>6, HolderStep DEF TypeOK, database, renames
<1>3. CASE WriteReady(p)
  BY <1>2, <1>3 DEF WriteReady, Goes
<1>4. CASE Seal(p)
  BY <1>2, <1>4 DEF Seal, Sealed, Goes
<1>5. ASSUME NEW to \in {"renamed", "published"},
             at[p] = "sealed", at' = [at EXCEPT ![p] = to],
             disk'[Target(p)] = "synced",
             \A u \in Trees \ {Target(p)} : disk'[u] = disk[u],
             to = "renamed" => disk[Target(p)] = "none",
             disk' \in [Names -> {"none"} \cup Contents],
             UNCHANGED <<quarantine, database, registry, unfiled, ref, key, faults>>,
             to = "renamed" => unsynced' = unsynced \cup {<<Target(p), ref[p]>>},
             to = "published" => unsynced' = unsynced,
             adopted' \subseteq Trees, adopted \subseteq adopted',
             to = "published" /\ Unsettled(Target(p)) => Target(p) \in adopted'
      PROVE StoreInv'
  <2>1. ref[p] \in Refs /\ ref[p] \notin rows /\ Target(p) \in Trees
    BY <1>0, <1>5 DEF Stages, Staging
  <2>2. UNCHANGED <<tree, rows, damaged>>
    BY <1>5 DEF database, faults
  <2>3. RowsBacked'
    BY <1>0, <1>5, <2>2 DEF RowsBacked
  <2>4. to = "renamed" /\ Referenced(Target(p)) => Target(p) \in damaged \cup adopted
    BY <1>0, <1>5 DEF RowsBacked, Referenced
  <2>9. ObjectsUnsynced'
    <3>1. \A u : Referenced(u)' <=> Referenced(u)
      BY <2>2 DEF Referenced
    <3>2. \A u \in unsynced : u[1] \in Trees /\ disk'[u[1]] # "none"
      BY <1>0, <1>5 DEF ObjectsUnsynced, TypeOK
    <3>3. CASE to = "renamed"
      BY <1>0, <1>5, <2>1, <2>2, <2>4, <3>1, <3>2, <3>3 DEF ObjectsUnsynced, Target
    <3>4. CASE to = "published"
      BY <1>0, <1>5, <2>2, <3>1, <3>2, <3>4 DEF ObjectsUnsynced
    <3> QED
      BY <3>3, <3>4
  <2>10. unsynced' \subseteq Trees \X Refs /\ adopted' \subseteq Trees
    BY <1>0, <1>5, <2>1 DEF TypeOK
  <2>5. at'[p] = to /\ ref'[p] = ref[p] /\ Target(p)' = Target(p)
        /\ (Referenced(Target(p))' <=> Referenced(Target(p)))
    BY <1>0, <1>5, <2>2 DEF TypeOK, Target, Referenced
  <2>6. Works(p)'
    BY <1>5, <2>1, <2>2, <2>5
    DEF Works, Stages, Publishes, Intends, Moves, Staging, Published, Unsettled
  <2>7. \A u \in Trees : disk'[u] # "none" => Sound(u, disk'[u])
    BY <1>0, <1>5 DEF ObjectsSound, Sound
  <2>8. at[p] \in Inside /\ to \in Places /\ Goes(p, to)
    BY <1>5 DEF Inside, Staging, Published, Places, Goes
  <2> QED
    BY <1>0, <1>5, <2>3, <2>6, <2>7, <2>8, <2>9, <2>10, HolderStep DEF TypeOK, database
<1>6. CASE Publish(p)
  <2>1. ref[p] \in Refs /\ Target(p) \in Trees /\ disk[ref[p]] = "synced"
    BY <1>0, <1>6 DEF Publish, Stages, StagedAs, Staging
  <2>2. /\ disk' \in [Names -> {"none"} \cup Contents]
        /\ disk'[Target(p)] = "synced"
        /\ \A u \in Trees \ {Target(p)} : disk'[u] = disk[u]
    BY <1>0, <1>6, <2>1 DEF Publish, TypeOK, Contents
  <2> QED
    BY <1>0, <1>5, <1>6, <2>2 DEF Publish, Goes, TypeOK
<1>7. CASE Reuse(p)
  <2>1. ref[p] \in Refs /\ Target(p) \in Trees
    BY <1>0, <1>7 DEF Reuse, Stages, Staging
  <2>2. disk[Target(p)] = "synced"
    BY <1>0, <1>7, <2>1 DEF Reuse, Whole, ObjectsSound, Sound
  <2>3. /\ disk' \in [Names -> {"none"} \cup Contents]
        /\ disk'[Target(p)] = "synced"
        /\ \A u \in Trees \ {Target(p)} : disk'[u] = disk[u]
    BY <1>0, <1>7, <2>1, <2>2 DEF Reuse, TypeOK, Contents
  <2> QED
    BY <1>0, <1>5, <1>7, <2>1, <2>3 DEF Reuse, Goes, TypeOK
<1>8. CASE SyncObjects(p) \/ Return(p)
  <2>1. PICK place \in {"published", "open"} :
          /\ Goes(p, place) /\ UNCHANGED <<disk, quarantine, database, key, faults>>
          /\ ref' = ref \/ ref' = [ref EXCEPT ![p] = 0]
          /\ at[p] \in {"renamed", "inserted"}
          /\ place = "published" => at[p] = "renamed" /\ ref' = ref /\ unsynced' = {}
          /\ UNCHANGED registry /\ (SyncAll \/ UNCHANGED renames)
    BY <1>8 DEF SyncObjects, Return, SyncAll
  <2>4. UNCHANGED <<disk, quarantine, database, damaged, losses, damages>>
    BY <2>1 DEF faults
  <2>5. /\ place \in Places /\ at[p] \in Inside
        /\ place \notin Staging \cup {"renamed", "inserted", "intended", "moved"}
        /\ place \in Published => at[p] = "renamed" /\ ref'[p] = ref[p] /\ unsynced' = {}
    BY <2>1 DEF Places, Inside, Staging, Published
  <2>2. ref' \in [Processes -> Refs \cup {0}] /\ key' \in [Processes -> Keys \cup {NoKey}]
        /\ kills' \in 0..MaxKills /\ registry' \in {"absent", "created", "reconciled"}
        /\ \A q \in Processes \ {p} : ref'[q] = ref[q]
    BY <1>0, <2>1 DEF TypeOK, faults
  <2>3. Settling
    BY <2>1, SyncsSettle
  <2>6. \A q \in Processes \ {p} : key'[q] = key[q] /\ ref'[q] = ref[q]
    BY <2>1, <2>2
  <2> QED
    BY <2>1, <2>2, <2>3, <2>4, <2>5, <2>6, MoveOnly
<1>9. CASE Insert(p)
  <2>1. /\ at[p] = "published" /\ rows' = rows \cup {ref[p]} /\ at' = [at EXCEPT ![p] = "inserted"]
        /\ UNCHANGED <<disk, quarantine, tree, ref, key, faults>> /\ damaged' = damaged
        /\ UNCHANGED <<registry, unsynced, unfiled, adopted>>
    BY <1>9 DEF Insert, Goes, faults, renames
  <2>2. /\ ref[p] \in Refs /\ Target(p) \in Trees
        /\ disk[Target(p)] = "synced" \/ Target(p) \in damaged
        /\ Unsettled(Target(p)) => Target(p) \in damaged \cup adopted
    BY <1>0, <2>1 DEF Publishes, Published
  <2>3. RowsBacked'
    BY <1>0, <2>1, <2>2 DEF RowsBacked, Target
  <2>6. ObjectsUnsynced'
    <3>1. \A u : Referenced(u)' => Referenced(u) \/ u = Target(p)
      BY <2>1 DEF Referenced, Target
    <3>2. \A u \in unsynced : Referenced(u[1])' => u[1] \in damaged \cup adopted
      <4> TAKE u \in unsynced
      <4>1. u = <<u[1], u[2]>> /\ u[2] \in Refs
        BY <1>0 DEF TypeOK
      <4>2. u[1] = Target(p) => Unsettled(Target(p))
        BY <4>1 DEF Unsettled
      <4> QED
        BY <1>0, <2>2, <3>1, <4>2 DEF ObjectsUnsynced
    <3> QED
      BY <1>0, <2>1, <3>2 DEF ObjectsUnsynced
  <2>4. Works(p)'
    BY <1>0, <2>1, <2>2
    DEF Works, Stages, Publishes, Intends, Moves, Target, TypeOK, Staging, Published, Unsettled
  <2>5. \A u \in Trees : disk'[u] # "none" => Sound(u, disk'[u])
    BY <1>0, <2>1 DEF ObjectsSound, Sound
  <2> QED
    BY <1>0, <2>1, <2>2, <2>3, <2>4, <2>5, <2>6, HolderStep
    DEF TypeOK, Goes, Places, Inside, Published
<1>10. CASE Fail(p)
  <2>1. /\ at[p] \in Staging \cup Published /\ at' = [at EXCEPT ![p] = "open"]
        /\ disk' = [n \in Names |-> IF n = ref[p] THEN "none" ELSE disk[n]]
        /\ ref' = [ref EXCEPT ![p] = 0]
        /\ UNCHANGED <<quarantine, database, registry, key, faults>>
        /\ UNCHANGED <<tree, rows, damaged>>
    BY <1>10 DEF Fail, Removed, Goes, database, faults
  <2>8. Settling
    BY <1>10, SyncsSettle DEF Fail
  <2>2. ref[p] \in Refs
    BY <1>0, <2>1 DEF Stages, Publishes
  <2>3. \A u \in Trees : disk'[u] = disk[u]
    BY <1>0, <2>1, <2>2
  <2>4. RowsBacked'
    BY <1>0, <2>1, <2>3, <2>8 DEF RowsBacked, Settling, ObjectsSound, Sound
  <2>9. ObjectsUnsynced'
    <3>1. \A u : Referenced(u)' <=> Referenced(u)
      BY <2>1 DEF Referenced
    <3> QED
      BY <1>0, <2>1, <2>3, <2>8, <3>1 DEF ObjectsUnsynced, Settling, TypeOK
  <2>10. unsynced' \subseteq Trees \X Refs /\ unfiled' \subseteq unfiled /\ adopted' \subseteq Trees
    BY <1>0, <2>8 DEF Settling, TypeOK
  <2>5. Works(p)'
    BY <1>0, <2>1 DEF Works, Stages, Publishes, Intends, Moves, TypeOK, Staging, Published
  <2>6. \A u \in Trees : disk'[u] # "none" => Sound(u, disk'[u])
    BY <1>0, <2>3 DEF ObjectsSound, Sound
  <2>7. disk' \in [Names -> {"none"} \cup Contents]
    BY <1>0, <2>1 DEF TypeOK
  <2> QED
    BY <1>0, <2>1, <2>4, <2>5, <2>6, <2>7, <2>9, <2>10, HolderStep
    DEF TypeOK, Goes, Places, Inside
<1> QED
  BY <1>1, <1>3, <1>4, <1>6, <1>7, <1>8, <1>9, <1>10 DEF Register

\* What a loss of power does to an object and to a payload of the quarantine:
\* nothing, or it undoes a rename that is not on the disk.
Sinks(t) == Unsettled(t) /\ disk'[t] = "none"

ComesBack(t) ==
  /\ disk[t] = "none" \/ Unsettled(t)
  /\ \E b \in unfiled : b[1][1] = t /\ disk'[t] = payload[b[1]]

LeavesQuarantine(k) ==
  /\ payload'[k] = "none"
  /\ \E b \in unfiled :
       b[1] = k /\ (b[2] \in Refs \/ (b[2] \in Trees /\ b[2] = k[1] /\ disk'[b[2]] = payload[k]))

LEMMA PowerLossFacts ==
  ASSUME StoreInv, PowerLoss
  PROVE  /\ disk' \in [Names -> {"none"} \cup Contents]
         /\ payload' \in [Keys -> {"none"} \cup Contents]
         /\ \A t \in Trees : disk'[t] = disk[t] \/ Sinks(t) \/ ComesBack(t)
         /\ \A k \in Keys : payload'[k] = payload[k] \/ LeavesQuarantine(k)
<1>0. /\ TypeOK /\ ObjectsSound /\ ObjectsUnsynced /\ EntriesUnfiled
      /\ Refs \subseteq Names /\ Trees \subseteq Names /\ Refs \cap Trees = {}
      /\ Names = Refs \cup Trees
  BY SnapshotAssumption DEF StoreInv, Names
<1>1. PICK sunk \in SUBSET unsynced, back \in SUBSET unfiled :
        /\ Undoable(sunk, back)
        /\ \E gone \in SUBSET {r \in Refs : Found(r, sunk, back) # "none"},
              torn \in SUBSET {n \in Names : Found(n, sunk, back) = "ready"} :
             disk' = [n \in Names |-> IF n \in gone THEN "none"
                                     ELSE IF n \in torn THEN "partial"
                                     ELSE Found(n, sunk, back)]
        /\ payload' = [k \in Keys |-> IF \E b \in back : b[1] = k THEN "none" ELSE payload[k]]
  BY DEF PowerLoss
<1>2. PICK gone \in SUBSET Refs, torn \in SUBSET {n \in Names : Found(n, sunk, back) = "ready"} :
        disk' = [n \in Names |-> IF n \in gone THEN "none"
                                ELSE IF n \in torn THEN "partial"
                                ELSE Found(n, sunk, back)]
  BY <1>1
<1>3. /\ \A u \in sunk : u \in unsynced /\ u[1] \in Trees /\ u[2] \in Refs /\ Unsettled(u[1])
                       /\ tree[u[2]] = u[1]
      /\ \A b \in back : b \in unfiled /\ b[1] \in Keys /\ b[2] \in Names
  <2>1. \A u \in sunk : u = <<u[1], u[2]>> /\ u[1] \in Trees /\ u[2] \in Refs
    BY <1>0 DEF TypeOK
  <2>2. \A u \in sunk : u \in unsynced /\ Unsettled(u[1]) /\ tree[u[2]] = u[1]
    BY <1>0, <2>1 DEF Unsettled, ObjectsUnsynced
  <2>3. \A b \in back : b \in unfiled /\ b[1] \in Keys /\ b[2] \in Names
    BY <1>0 DEF TypeOK
  <2> QED
    BY <2>1, <2>2, <2>3
\* What is found under a name when one of the renames led away from it.
<1>4. ASSUME NEW b \in back PROVE Found(b[2], sunk, back) = payload[b[1]]
  <2>1. PICK c \in back : c = (CHOOSE d \in back : d[2] = b[2]) /\ c[2] = b[2]
    OBVIOUS
  <2>2. c[1] = b[1]
    BY <1>1, <2>1 DEF Undoable
  <2> QED
    BY <2>1, <2>2 DEF Found
<1>5. ASSUME NEW n \in Names, \A b \in back : b[2] # n
      PROVE  \/ Found(n, sunk, back) = disk[n]
             \/ (\E u \in sunk : u[2] = n) /\ Found(n, sunk, back) = disk[tree[n]]
             \/ (\E u \in sunk : u[1] = n) /\ Found(n, sunk, back) = "none"
  BY <1>5 DEF Found
<1>6. \A n \in Names : Found(n, sunk, back) \in {"none"} \cup Contents
  <2> TAKE n \in Names
  <2>1. CASE \E b \in back : b[2] = n
    BY <1>0, <1>3, <1>4, <2>1 DEF TypeOK
  <2>2. CASE \A b \in back : b[2] # n
    <3>1. \A u \in sunk : u[2] = n => tree[n] \in Names
      BY <1>0, <1>3
    <3> QED
      BY <1>0, <1>5, <2>2, <3>1 DEF TypeOK
  <2> QED
    BY <2>1, <2>2
<1>7. disk' \in [Names -> {"none"} \cup Contents]
  BY <1>2, <1>6 DEF Contents
<1>8. payload' \in [Keys -> {"none"} \cup Contents]
  BY <1>0, <1>1 DEF TypeOK
<1>9. ASSUME NEW t \in Trees
      PROVE  /\ disk'[t] = Found(t, sunk, back)
             /\ disk'[t] = disk[t] \/ Sinks(t) \/ ComesBack(t)
  <2>1. CASE \E b \in back : b[2] = t
    <3>1. PICK b \in back : b[2] = t
      BY <2>1
    <3>2. b[1][1] = t /\ payload[b[1]] \in {"synced", "partial"}
      BY <1>0, <1>3, <3>1 DEF EntriesUnfiled, Sound
    <3>3. Found(t, sunk, back) = payload[b[1]]
      BY <1>4, <3>1
    <3>4. disk'[t] = payload[b[1]] /\ disk'[t] = Found(t, sunk, back)
      BY <1>0, <1>2, <3>2, <3>3
    <3>5. disk[t] = "none" \/ Unsettled(t)
      BY <1>1, <1>3, <3>1 DEF Undoable
    <3> QED
      BY <1>3, <3>2, <3>4, <3>5 DEF ComesBack
  <2>2. CASE \A b \in back : b[2] # t
    <3>1. \A u \in sunk : u[2] # t
      BY <1>0, <1>3
    <3>2. \/ Found(t, sunk, back) = disk[t]
          \/ (\E u \in sunk : u[1] = t) /\ Found(t, sunk, back) = "none"
      BY <1>0, <1>5, <2>2, <3>1
    <3>3. Found(t, sunk, back) # "ready"
      BY <1>0, <3>2 DEF ObjectsSound, Sound
    <3>4. disk'[t] = Found(t, sunk, back)
      BY <1>0, <1>2, <3>3
    <3> QED
      BY <1>3, <3>2, <3>4 DEF Sinks
  <2> QED
    BY <2>1, <2>2
<1>10. ASSUME NEW k \in Keys PROVE payload'[k] = payload[k] \/ LeavesQuarantine(k)
  <2>1. CASE \A b \in back : b[1] # k
    BY <1>1, <2>1
  <2>2. ASSUME NEW b \in back, b[1] = k PROVE LeavesQuarantine(k)
    <3>1. payload'[k] = "none"
      BY <1>1, <2>2
    <3>2. CASE b[2] \in Trees
      BY <1>0, <1>3, <1>4, <1>9, <2>2, <3>1, <3>2 DEF LeavesQuarantine, EntriesUnfiled
    <3>3. CASE b[2] \in Refs
      BY <1>3, <2>2, <3>1, <3>3 DEF LeavesQuarantine
    <3> QED
      BY <1>0, <1>3, <3>2, <3>3
  <2> QED
    BY <2>1, <2>2
<1> QED
  BY <1>7, <1>8, <1>9, <1>10

\* What a loss of power leaves of the objects: they are sound, one that was
\* settled is still there, and what is adopted from then on is gone.
LEMMA PowerLossSpares ==
  ASSUME StoreInv, PowerLoss, NEW t \in Trees
  PROVE  /\ disk'[t] # "none" => Sound(t, disk'[t])
         /\ Referenced(t) /\ disk[t] = "synced" /\ t \notin damaged \cup adopted
            => disk'[t] = "synced"
         /\ t \in adopted' <=> t \in adopted /\ disk'[t] = "none"
<1>1. ObjectsSound /\ ObjectsUnsynced /\ EntriesUnfiled /\ unsynced \subseteq Trees \X Refs
  BY DEF StoreInv, TypeOK
<1>2. disk'[t] = disk[t] \/ Sinks(t) \/ ComesBack(t)
  BY PowerLossFacts
<1>3. disk'[t] # "none" => Sound(t, disk'[t])
  BY <1>1, <1>2 DEF Sinks, ComesBack, ObjectsSound, EntriesUnfiled
<1>4. Referenced(t) /\ Unsettled(t) => t \in damaged \cup adopted
  BY <1>1 DEF Unsettled, ObjectsUnsynced
<1>5. Referenced(t) /\ disk[t] = "synced" /\ t \notin damaged \cup adopted => disk'[t] = "synced"
  BY <1>2, <1>4 DEF Sinks, ComesBack
<1> QED
  BY <1>3, <1>5 DEF PowerLoss

LEMMA FaultsKeep ==
  ASSUME StoreInv,
         PowerLoss \/ (\E t \in Trees : Damage(t)) \/ (\E p \in Processes : Close(p) \/ Stop(p))
  PROVE  StoreInv'
<1>0. /\ TypeOK /\ Exclusive /\ ObjectsSound /\ RowsBacked /\ EvidenceIsTrue
      /\ ObjectsUnsynced /\ EntriesUnfiled
      /\ (\A q \in Processes : Works(q))
      /\ Refs \subseteq Names /\ Trees \subseteq Names /\ Refs \cap Trees = {}
  BY SnapshotAssumption DEF StoreInv, Names
<1>1. ASSUME NEW p \in Processes, Close(p) \/ Stop(p) PROVE StoreInv'
  <2>1. /\ Goes(p, "off") /\ UNCHANGED <<disk, quarantine, database, damaged, losses, damages>>
        /\ ref' = ref \/ ref' = [ref EXCEPT ![p] = 0]
        /\ key' = key \/ key' = [key EXCEPT ![p] = NoKey]
        /\ kills' = kills \/ (kills < MaxKills /\ kills' = kills + 1)
        /\ UNCHANGED <<registry, renames>>
    BY <1>1 DEF Close, Stop, faults
  <2>2. ref' \in [Processes -> Refs \cup {0}] /\ key' \in [Processes -> Keys \cup {NoKey}]
        /\ \A q \in Processes \ {p} : ref'[q] = ref[q] /\ key'[q] = key[q]
    BY <1>0, <2>1 DEF TypeOK
  <2>3. kills' \in 0..MaxKills
    BY <1>0, <2>1, SnapshotAssumption DEF TypeOK
  <2>4. Settling /\ registry' \in {"absent", "created", "reconciled"}
    BY <1>0, <2>1, SyncsSettle DEF TypeOK
  <2> QED
    BY <2>1, <2>2, <2>3, <2>4, MoveOnly DEF Places, Inside, Reconciling, Staging, Published
<1>2. CASE PowerLoss
  <2>1. /\ losses < MaxPowerLosses /\ losses' = losses + 1
        /\ at' = [p \in Processes |-> "off"] /\ ref' = [p \in Processes |-> 0]
        /\ key' = [p \in Processes |-> NoKey]
        /\ UNCHANGED <<evidence, tree, rows, damaged, kills, damages>>
        /\ unsynced' = {} /\ unfiled' = {} /\ adopted' \subseteq Trees
        /\ registry' \in {"absent", "created", "reconciled"}
    BY <1>0, <1>2 DEF PowerLoss, database, TypeOK
  <2>2. /\ disk' \in [Names -> {"none"} \cup Contents]
        /\ payload' \in [Keys -> {"none"} \cup Contents]
        /\ \A k \in Keys : payload'[k] = payload[k] \/ LeavesQuarantine(k)
    BY <1>2, PowerLossFacts
  <2>3. losses' \in 0..MaxPowerLosses
    BY <1>0, <2>1, SnapshotAssumption DEF TypeOK
  <2>5. TypeOK'
    BY <1>0, <2>1, <2>2, <2>3 DEF TypeOK, Places
  <2>6. Exclusive' /\ \A q \in Processes : Works(q)'
    BY <2>1 DEF Exclusive, Works, Stages, Publishes, Intends, Moves, Inside, Reconciling,
                Staging, Published
  <2>7. (ObjectsSound /\ ObjectsUnsynced /\ EntriesUnfiled)'
    BY <1>2, <2>1, PowerLossSpares DEF ObjectsSound, ObjectsUnsynced, EntriesUnfiled, Sound
  <2>8. RowsBacked'
    <3> SUFFICES ASSUME NEW r \in rows
                 PROVE  tree[r] \in Trees /\ (disk'[tree[r]] = "synced" \/ tree[r] \in damaged \cup adopted')
      BY <2>1 DEF RowsBacked
    <3>1. PICK t \in Trees : t = tree[r] /\ (disk[t] = "synced" \/ t \in damaged \cup adopted)
      BY <1>0 DEF RowsBacked
    <3>2. Referenced(t)
      BY <3>1 DEF Referenced
    <3>3. t \in adopted \ adopted' => disk'[t] = "synced" \/ t \in damaged
      BY <1>2, PowerLossSpares DEF Sound
    <3> QED
      BY <1>2, <3>1, <3>2, <3>3, PowerLossSpares
  <2>9. EvidenceIsTrue'
    <3>1. \A k \in Keys : LeavesQuarantine(k) => evidence[k] = "intent" /\ payload'[k] = "none"
      BY <1>0 DEF LeavesQuarantine, EntriesUnfiled
    <3> QED
      BY <1>0, <2>1, <2>2, <3>1 DEF EvidenceIsTrue
  <2> QED
    BY <2>5, <2>6, <2>7, <2>8, <2>9 DEF StoreInv
<1>3. ASSUME NEW t \in Trees, Damage(t) PROVE StoreInv'
  <2>1. /\ Whole(t) /\ damages < MaxDamages /\ damages' = damages + 1
        /\ damaged' = damaged \cup {t} /\ disk' = [disk EXCEPT ![t] = "partial"]
        /\ UNCHANGED <<evidence, payload, tree, rows, at, ref, key, kills, losses>>
        /\ UNCHANGED <<registry, unsynced, unfiled, adopted>>
    BY <1>3 DEF Damage, quarantine, database, renames
  <2>2. \A n \in Names : disk'[n] = IF n = t THEN "partial" ELSE disk[n]
    BY <1>0, <2>1 DEF TypeOK
  <2>3. damages' \in 0..MaxDamages
    BY <1>0, <2>1, SnapshotAssumption DEF TypeOK
  <2>4. disk' \in [Names -> {"none"} \cup Contents]
    BY <1>0, <2>1 DEF TypeOK, Contents
  <2>5. TypeOK'
    BY <1>0, <2>1, <2>3, <2>4 DEF TypeOK
  <2>6. (Exclusive /\ EvidenceIsTrue)'
    BY <1>0, <2>1 DEF Exclusive, EvidenceIsTrue
  <2>7. (ObjectsSound /\ RowsBacked)'
    BY <1>0, <2>1, <2>2 DEF ObjectsSound, RowsBacked, Sound
  <2>9. (ObjectsUnsynced /\ EntriesUnfiled)'
    <3>1. \A u : Referenced(u)' <=> Referenced(u)
      BY <2>1 DEF Referenced
    <3>2. ObjectsUnsynced'
      BY <1>0, <2>1, <2>2, <3>1 DEF ObjectsUnsynced, TypeOK
    <3>3. EntriesUnfiled'
      BY <1>0, <2>1 DEF EntriesUnfiled, Sound
    <3> QED
      BY <3>2, <3>3
  <2>8. \A q \in Processes : Works(q)'
    <3> TAKE q \in Processes
    <3>1. Works(q) /\ Target(q)' = Target(q) /\ (\A u : Referenced(u)' <=> Referenced(u))
      BY <1>0, <2>1 DEF Target, Referenced
    <3>2. Stages(q)'
      BY <1>0, <2>1, <2>2, <3>1 DEF Works, Stages, StagedAs
    <3>3. Publishes(q)'
      BY <1>0, <2>1, <2>2, <3>1 DEF Works, Publishes, Unsettled
    <3>4. Intends(q)'
      BY <1>0, <2>1, <2>2, <3>1 DEF Works, Intends, Keys
    <3>5. Moves(q)'
      BY <1>0, <2>1, <2>2, <3>1 DEF Works, Moves, Sound, Whole, Keys
    <3> QED
      BY <3>2, <3>3, <3>4, <3>5 DEF Works
  <2> QED
    BY <2>5, <2>6, <2>7, <2>8, <2>9 DEF StoreInv
<1> QED
  BY <1>1, <1>2, <1>3

LEMMA StoreStep == StoreInv /\ [Next]_vars => StoreInv'
<1> SUFFICES ASSUME StoreInv, [Next]_vars PROVE StoreInv'
  OBVIOUS
<1>1. CASE UNCHANGED vars
  <2>1. UNCHANGED <<disk, evidence, payload, tree, rows, at, ref, key, damaged,
                    kills, losses, damages, registry, unsynced, unfiled, adopted>>
    BY <1>1 DEF vars, quarantine, database, faults, renames
  <2>2. (TypeOK /\ Exclusive /\ ObjectsSound /\ RowsBacked /\ EvidenceIsTrue)'
    BY <2>1 DEF StoreInv, TypeOK, Exclusive, ObjectsSound, RowsBacked, EvidenceIsTrue, Sound
  <2>4. (ObjectsUnsynced /\ EntriesUnfiled)'
    BY <2>1 DEF StoreInv, ObjectsUnsynced, EntriesUnfiled, Sound, Referenced
  <2>3. \A q \in Processes : Works(q)'
    BY <2>1 DEF StoreInv, Works, Stages, Publishes, Intends, Moves, StagedAs, Target,
                Referenced, Sound, Unsettled
  <2> QED
    BY <2>2, <2>3, <2>4 DEF StoreInv
<1> QED
  BY <1>1, ReconcileKeeps, RegisterKeeps, FaultsKeep DEF Next

LEMMA StoreAlways == Spec => []StoreInv
  BY StoreInit, StoreStep, PTL DEF Spec
-----------------------------------------------------------------------------
(***************************************************************************)
(* The properties of the runs.                                             *)
(***************************************************************************)

\* The variables have their types (the store of execution_broker/store.py).
THEOREM StoreTyped == Spec => []TypeOK
<1>1. StoreInv => TypeOK
  BY DEF StoreInv
<1> QED
  BY <1>1, StoreAlways, PTL

\* What resolve finds for a registration is a complete tree, or was damaged from
\* outside, or was adopted: found in place by register while the rename that had
\* published it was not on the disk, and not on the disk since.  For any number of
\* processes, deaths and losses of power, whoever made the renames they undo.
THEOREM RegisteredStaysWhole == Spec => []RegisteredIsWhole
<1>1. StoreInv => RegisteredIsWhole
  BY DEF StoreInv, RowsBacked, RegisteredIsWhole, Whole
<1> QED
  BY <1>1, StoreAlways, PTL

\* No store object that is made while another one registers takes away what
\* that one has staged or published: the lock of _exclusive covers register.
THEOREM NobodyDisturbs == Spec => []RegistrationUndisturbed
<1>1. StoreInv => RegistrationUndisturbed
  <2> SUFFICES ASSUME StoreInv, NEW p \in Processes
               PROVE  /\ at[p] \in Staging => disk[ref[p]] # "none"
                      /\ at[p] \in Published => Whole(Target(p)) \/ Target(p) \in damaged
    BY DEF RegistrationUndisturbed
  <2>1. Works(p)
    BY DEF StoreInv
  <2> QED
    BY <2>1 DEF Works, Stages, StagedAs, Publishes, Whole, Staging
<1> QED
  BY <1>1, StoreAlways, PTL

\* What the evidence files of _quarantine_entry say is true after any crash.
THEOREM EvidenceTrue == Spec => []EvidenceIsTrue
<1>1. StoreInv => EvidenceIsTrue
  BY DEF StoreInv
<1> QED
  BY <1>1, StoreAlways, PTL

\* What one step does to the objects, to the payloads of the quarantine and to what
\* is adopted, seen from outside.
Still == (\A t \in Trees : disk'[t] = disk[t]) /\ \A k \in Keys : payload'[k] = payload[k]

Quarantines(p) ==
  /\ at[p] = "intended" /\ key[p] \in Keys
  /\ \A t \in Trees : disk'[t] = IF t = key[p][1] THEN "none" ELSE disk[t]
  /\ \A k \in Keys : payload'[k] = IF k = key[p] THEN disk[key[p][1]] ELSE payload[k]

Adds(u) ==
  /\ u \in Trees /\ disk[u] = "none"
  /\ \A t \in Trees : disk'[t] = IF t = u THEN "synced" ELSE disk[t]
  /\ payload' = payload

Spoils(u) ==
  /\ u \in Trees /\ disk[u] # "none"
  /\ \A t \in Trees : disk'[t] = IF t = u THEN "partial" ELSE disk[t]
  /\ payload' = payload

Adopts(u) ==
  /\ u \in Trees /\ Whole(u)
  /\ Referenced(u) => u \in damaged \cup adopted
  /\ adopted' = adopted \cup {u}

LEMMA StepEffect ==
  ASSUME StoreInv, Next
  PROVE  \/ Still /\ UNCHANGED damaged /\ Settling
         \/ Still /\ UNCHANGED <<tree, rows, damaged>> /\ \E u \in Trees : Adopts(u)
         \/ UNCHANGED <<tree, rows, damaged, adopted>> /\ \E p \in Processes : Quarantines(p)
         \/ UNCHANGED <<tree, rows, damaged, adopted>> /\ \E u \in Trees : Adds(u)
         \/ UNCHANGED <<tree, rows, adopted>>
            /\ \E u \in Trees : Spoils(u) /\ damaged' = damaged \cup {u}
         \/ UNCHANGED <<tree, rows, damaged>> /\ losses' > losses /\ PowerLoss
<1>0. /\ TypeOK /\ ObjectsSound /\ ObjectsUnsynced /\ (\A q \in Processes : Works(q))
      /\ Refs \subseteq Names /\ Trees \subseteq Names /\ Refs \cap Trees = {}
  BY SnapshotAssumption DEF StoreInv, Names
<1>2. ASSUME NEW p \in Processes, Reconcile(p)
      PROVE  \/ Still /\ UNCHANGED damaged /\ Settling
             \/ UNCHANGED <<tree, rows, damaged, adopted>> /\ Quarantines(p)
  <2>1. CASE Move(p)
    <3>1. /\ at[p] = "intended" /\ UNCHANGED <<tree, rows, damaged, adopted>>
          /\ payload' = [payload EXCEPT ![key[p]] = disk[key[p][1]]]
          /\ disk' = [disk EXCEPT ![key[p][1]] = "none"]
      BY <2>1 DEF Move, database, faults
    <3>2. key[p] \in Keys
      BY <1>0, <3>1 DEF Works, Intends
    <3>3. PICK k : k = key[p]
      OBVIOUS
    <3>4. Quarantines(p)
      BY <1>0, <3>1, <3>2, <3>3 DEF Quarantines, TypeOK
    <3> QED
      BY <3>1, <3>4
  <2>2. CASE \/ Look(p) \/ FirstStart(p) \/ FirstStartRaises(p) \/ Construct(p)
             \/ IntentDangles(p) \/ EndRecovery(p) \/ SyncSource(p) \/ EndReconcile(p)
             \/ MoveCollides(p)
    <3>1. SyncAll \/ UNCHANGED renames
      BY <2>2 DEF Look, FirstStart, FirstStartRaises, Construct, IntentDangles, EndRecovery,
                  SyncSource, EndReconcile, MoveCollides
    <3> QED
      BY <2>2, <3>1, SyncsSettle
      DEF Look, FirstStart, FirstStartRaises, Construct, IntentDangles, EndRecovery,
          SyncSource, EndReconcile, MoveCollides, Still, quarantine, faults
  <2>3. CASE FileEvidence(p) \/ (\E k \in Keys : RecoverIntent(p, k))
             \/ (\E n \in Names : Intend(p, n))
    BY <2>3, SyncsSettle DEF FileEvidence, RecoverIntent, Intend, Still, faults
  <2> QED
    BY <1>2, <2>1, <2>2, <2>3 DEF Reconcile
<1>3. ASSUME NEW p \in Processes, Register(p)
      PROVE  \/ Still /\ UNCHANGED damaged /\ Settling
             \/ Still /\ UNCHANGED <<tree, rows, damaged>> /\ \E u \in Trees : Adopts(u)
             \/ UNCHANGED <<tree, rows, damaged, adopted>> /\ \E u \in Trees : Adds(u)
  <2>0. at[p] \in Staging \cup Published => ref[p] \in Refs
    BY <1>0 DEF Works, Stages, Publishes
  <2>1. CASE Publish(p)
    <3>1. ref[p] \in Refs /\ Target(p) \in Trees /\ disk[ref[p]] = "synced"
      BY <1>0, <2>1 DEF Publish, Works, Stages, StagedAs, Staging
    <3>2. Adds(Target(p)) /\ UNCHANGED <<tree, rows, damaged, adopted>>
      BY <1>0, <2>1, <3>1 DEF Publish, Adds, TypeOK, quarantine, database, faults
    <3> QED
      BY <3>1, <3>2
  <2>2. ASSUME NEW content, disk' = [disk EXCEPT ![ref[p]] = content], ref[p] \in Refs,
               UNCHANGED <<quarantine, faults>>
        PROVE  Still /\ UNCHANGED damaged
    BY <1>0, <2>2 DEF Still, TypeOK, quarantine, faults
  <2>6. CASE WriteReady(p) \/ Seal(p)
    <3>1. PICK content : disk' = [disk EXCEPT ![ref[p]] = content] /\ ref[p] \in Refs
                         /\ UNCHANGED <<quarantine, renames, faults>>
      BY <2>0, <2>6 DEF WriteReady, Seal, Staging
    <3> QED
      BY <2>2, <3>1, SyncsSettle
  <2>7. CASE Reuse(p)
    <3>1. disk' = [disk EXCEPT ![ref[p]] = "none"] /\ ref[p] \in Refs /\ Target(p) \in Trees
          /\ Whole(Target(p)) /\ UNCHANGED <<quarantine, database, unsynced, unfiled, faults>>
          /\ adopted' = IF Unsettled(Target(p)) THEN adopted \cup {Target(p)} ELSE adopted
      BY <1>0, <2>7 DEF Reuse, Works, Stages, Staging
    <3>2. Still /\ UNCHANGED damaged /\ UNCHANGED <<tree, rows>>
      BY <2>2, <3>1 DEF database
    <3>3. CASE Unsettled(Target(p))
      <4>1. Referenced(Target(p)) => Target(p) \in damaged \cup adopted
        BY <1>0, <3>3 DEF Unsettled, ObjectsUnsynced
      <4> QED
        BY <3>1, <3>2, <3>3, <4>1 DEF Adopts
    <3>4. CASE ~Unsettled(Target(p))
      BY <3>1, <3>2, <3>4 DEF Settling
    <3> QED
      BY <3>3, <3>4
  <2>3. CASE SyncObjects(p) \/ Insert(p) \/ Return(p)
    BY <2>3, SyncsSettle DEF SyncObjects, Insert, Return, Still, quarantine, faults
  <2>4. CASE Fail(p)
    BY <1>0, <2>0, <2>4, SyncsSettle DEF Fail, Removed, Still, quarantine, faults
  <2>5. ASSUME NEW r \in Refs, NEW t \in Trees, BeginRegister(p, r, t)
        PROVE  Still /\ UNCHANGED damaged /\ Settling
    BY <1>0, <2>5, SyncsSettle DEF BeginRegister, Still, TypeOK, quarantine, faults
  <2> QED
    BY <1>3, <2>1, <2>3, <2>4, <2>5, <2>6, <2>7 DEF Register
<1>4. ASSUME NEW p \in Processes, Close(p) \/ Stop(p)
      PROVE  Still /\ UNCHANGED damaged /\ Settling
  BY <1>4, SyncsSettle DEF Close, Stop, Still, quarantine, faults
<1>5. ASSUME NEW t \in Trees, Damage(t)
      PROVE  /\ UNCHANGED <<tree, rows, adopted>>
             /\ Spoils(t) /\ damaged' = damaged \cup {t}
  BY <1>0, <1>5 DEF Damage, Spoils, Whole, TypeOK, quarantine, database, renames
<1>6. CASE PowerLoss
  <2>1. losses' = losses + 1 /\ UNCHANGED <<tree, rows, damaged>>
    BY <1>6 DEF PowerLoss, database
  <2>2. losses' > losses
    BY <1>0, <2>1, SnapshotAssumption DEF TypeOK
  <2> QED
    BY <1>6, <2>1, <2>2
<1> QED
  BY <1>2, <1>3, <1>4, <1>5, <1>6 DEF Next

\* A published tree is evidence: no failure, death or restart deletes it, and a
\* loss of power undoes its publication only when that is not yet on the disk.
THEOREM PublishedKept == Spec => PublishedIsKept
<1>1. ASSUME StoreInv, [Next]_vars, NEW t \in Trees, Kept(t)
      PROVE  Kept(t)' \/ (Unpublished(t) /\ losses' > losses)
  <2>0. \A q \in Processes : Works(q)
    BY <1>1 DEF StoreInv
  <2>1. CASE Still \/ UNCHANGED vars
    <3>1. disk'[t] = disk[t] /\ \A k \in Keys : payload'[k] = payload[k]
      BY <2>1 DEF Still, vars, quarantine
    <3>2. \A reason \in Reasons : <<t, reason>> \in Keys
      BY DEF Keys, Names
    <3> QED
      BY <1>1, <3>1, <3>2 DEF Kept
  <2>2. ASSUME NEW p \in Processes, Quarantines(p) PROVE Kept(t)'
    <3>1. PICK n \in Names, why \in Reasons : key[p] = <<n, why>>
      BY <2>2 DEF Quarantines, Keys
    <3>2. disk[n] # "none"
      BY <2>0, <2>2, <3>1 DEF Quarantines, Works, Intends
    <3>3. \A reason \in Reasons : <<t, reason>> \in Keys
      BY DEF Keys, Names
    <3>4. CASE t = n
      <4>1. payload'[<<t, why>>] # "none"
        BY <2>2, <3>1, <3>2, <3>3, <3>4 DEF Quarantines
      <4> QED
        BY <4>1 DEF Kept
    <3>5. CASE t # n
      <4>1. disk'[t] = disk[t] /\ \A reason \in Reasons :
              payload'[<<t, reason>>] = payload[<<t, reason>>]
        BY <2>2, <3>1, <3>3, <3>5 DEF Quarantines
      <4> QED
        BY <1>1, <4>1 DEF Kept
    <3> QED
      BY <3>4, <3>5
  <2>3. ASSUME NEW u \in Trees, Adds(u) \/ Spoils(u) PROVE Kept(t)'
    BY <1>1, <2>3 DEF Adds, Spoils, Kept
  <2>4. ASSUME PowerLoss PROVE Kept(t)' \/ Unpublished(t)
    <3>0. EntriesUnfiled /\ unfiled \subseteq Keys \X Names
      BY <1>1 DEF StoreInv, TypeOK
    <3>1. CASE disk[t] # "none"
      BY <1>1, <2>4, <3>0, <3>1, PowerLossFacts
      DEF Sinks, ComesBack, EntriesUnfiled, Kept, Unpublished
    <3>2. ASSUME NEW reason \in Reasons, payload[<<t, reason>>] # "none"
          PROVE  Kept(t)' \/ Unpublished(t)
      <4>1. PICK k \in Keys : k = <<t, reason>>
        BY DEF Keys, Names
      <4>2. CASE payload'[k] = payload[k]
        BY <3>2, <4>1, <4>2 DEF Kept
      <4>3. CASE LeavesQuarantine(k)
        <5>1. PICK b \in unfiled : b[1] = k /\ (b[2] \in Refs \/ disk'[t] = payload[k])
          BY <4>1, <4>3 DEF LeavesQuarantine
        <5>2. CASE b[2] \in Refs
          <6>1. b = <<<<t, reason>>, b[2]>>
            BY <3>0, <4>1, <5>1
          <6> QED
            BY <5>2, <6>1 DEF Unpublished
        <5>3. CASE disk'[t] = payload[k]
          BY <3>2, <4>1, <5>3 DEF Kept
        <5> QED
          BY <5>1, <5>2, <5>3
      <4> QED
        BY <1>1, <2>4, <4>2, <4>3, PowerLossFacts
    <3> QED
      BY <1>1, <3>1, <3>2 DEF Kept
  <2> QED
    BY <1>1, <2>1, <2>2, <2>3, <2>4, StepEffect
<1>2. StoreInv /\ [Next]_vars =>
        [\A t \in Trees : Kept(t) => Kept(t)' \/ (Unpublished(t) /\ losses' > losses)]_vars
  BY <1>1
<1> QED
  BY <1>2, StoreAlways, PTL DEF Spec, PublishedIsKept
-----------------------------------------------------------------------------
(***************************************************************************)
(* The store implements the ledger.                                        *)
(***************************************************************************)
Content == {t \in Trees : Whole(t)}
Owned   == {<<r, tree[r]>> : r \in rows}

LEMMA LedgerOf ==
  ASSUME StoreInv
  PROVE  \A t \in Trees : Ledger!Registered(t) <=> Referenced(t)
  BY DEF StoreInv, TypeOK, Ledger!Registered, Referenced

\* What the set of whole trees and that of the adopted ones may do at one time.
LEMMA Turns ==
  ASSUME StoreInv, UNCHANGED <<tree, rows, damaged>>, adopted' \subseteq adopted,
         \A t \in Trees :
           /\ t \in adopted \ adopted' => Whole(t)' \/ t \in damaged
           /\ Whole(t) /\ Referenced(t) => Whole(t)' \/ t \in adopted' \cup damaged
  PROVE  Ledger!Next
<1>1. Owned' = Owned /\ adopted \subseteq Trees
  BY DEF Owned, StoreInv, TypeOK
<1>2. /\ Content' \in SUBSET Trees /\ adopted' \in SUBSET adopted
      /\ adopted \ adopted' \subseteq Content' \cup damaged
      /\ \A t \in Content : Referenced(t) => t \in Content' \cup adopted' \cup damaged
  BY <1>1 DEF Content
<1>3. Ledger!Turnover
  BY <1>1, <1>2, LedgerOf DEF Ledger!Turnover, Content, Owned
<1> QED
  BY <1>3 DEF Ledger!Next

\* What happens to the set of whole trees happens to it in the ledger too.
LEMMA ContentMoves ==
  ASSUME StoreInv, Next, UNCHANGED <<tree, rows>>
  PROVE  [Ledger!Next]_(Ledger!ledgerVars)
<1>0. TypeOK /\ ObjectsSound /\ \A q \in Processes : Works(q)
  BY DEF StoreInv
<1>1. Owned' = Owned
  BY DEF Owned
<1>2. CASE Still /\ UNCHANGED damaged /\ Settling
  <2>1. \A t \in Trees : (Whole(t)' <=> Whole(t)) /\ (disk[t] # "none" => Whole(t) \/ t \in damaged)
    BY <1>0, <1>2 DEF Still, Whole, ObjectsSound, Sound
  <2> QED
    BY <1>2, <2>1, Turns DEF Settling
<1>3. ASSUME NEW p \in Processes, Quarantines(p), UNCHANGED <<damaged, adopted>>
      PROVE  Ledger!Next
  <2>1. \A t \in Trees : Whole(t) /\ Referenced(t) => t # key[p][1]
    BY <1>0, <1>3 DEF Quarantines, Works, Intends, Whole
  <2>2. \A t \in Trees : t # key[p][1] => (Whole(t)' <=> Whole(t))
    BY <1>3 DEF Quarantines, Whole
  <2> QED
    BY <1>3, <2>1, <2>2, Turns
<1>4. ASSUME NEW u \in Trees, Adds(u), UNCHANGED <<damaged, adopted>>
      PROVE  Ledger!Next
  <2>1. \A t \in Trees : Whole(t) => Whole(t)'
    BY <1>4 DEF Adds, Whole
  <2> QED
    BY <1>4, <2>1, Turns
<1>5. ASSUME NEW u \in Trees, Spoils(u), damaged' = damaged \cup {u}, UNCHANGED adopted
      PROVE  Ledger!Next
  <2>1. Content' = Content \ {u}
    BY <1>5 DEF Spoils, Content, Whole
  <2>2. Ledger!Damage(u)
    BY <1>1, <1>5, <2>1 DEF Ledger!Damage, Content, Owned
  <2> QED
    BY <2>2 DEF Ledger!Next
<1>6. ASSUME NEW u \in Trees, Adopts(u), Still, UNCHANGED damaged
      PROVE  [Ledger!Next]_(Ledger!ledgerVars)
  <2>1. Content' = Content /\ u \in Content
    BY <1>6 DEF Still, Content, Whole, Adopts
  <2>2. CASE u \in adopted
    BY <1>1, <1>6, <2>1, <2>2 DEF Ledger!ledgerVars, Content, Owned, Adopts
  <2>3. CASE u \notin adopted
    <3>1. Ledger!Adopt(u)
      BY <1>1, <1>6, <2>1, <2>3, LedgerOf DEF Ledger!Adopt, Content, Owned, Adopts
    <3> QED
      BY <3>1 DEF Ledger!Next
  <2> QED
    BY <2>2, <2>3
<1>7. CASE PowerLoss
  <2>1. UNCHANGED damaged /\ adopted' \subseteq adopted
    BY <1>7 DEF PowerLoss
  <2>2. \A t \in Trees :
          /\ t \in adopted \ adopted' => Whole(t)' \/ t \in damaged
          /\ Whole(t) /\ Referenced(t) => Whole(t)' \/ t \in adopted' \cup damaged
    <3> TAKE t \in Trees
    <3>1. t \in adopted \ adopted' => Whole(t)' \/ t \in damaged
      BY <1>7, PowerLossSpares DEF Sound, Whole
    <3>2. Whole(t) => disk[t] = "synced"
      BY <1>0 DEF Whole, ObjectsSound, Sound
    <3>3. Whole(t) /\ Referenced(t) /\ t \notin damaged \cup adopted => Whole(t)'
      BY <1>7, <3>2, PowerLossSpares DEF Whole
    <3> QED
      BY <3>1, <3>3
  <2>3. UNCHANGED <<tree, rows, damaged>>
    BY <2>1
  <2> QED
    BY <2>1, <2>2, <2>3, Turns
<1> QED
  BY <1>2, <1>3, <1>4, <1>5, <1>6, <1>7, StepEffect

\* Staging, renames, reconciliation, deaths and losses of power implement a
\* ledger whose registrations stay and whose registered content stays, but for
\* what was damaged and for what was adopted and not safe yet.
THEOREM StoreImplementsLedger == Spec => KeepsSnapshotLedger
<1>1. Init => Ledger!Init
  BY DEF Init, Ledger!Init, Whole, Names
<1>2. ASSUME StoreInv, [Next]_vars PROVE [Ledger!Next]_(Ledger!ledgerVars)
  <2>0. TypeOK /\ RowsBacked /\ (\A q \in Processes : Works(q)) /\ NoTree \notin Trees
    BY <1>2, SnapshotAssumption DEF StoreInv
  <2>1. CASE UNCHANGED vars
    BY <2>1 DEF vars, quarantine, database, renames, faults, Whole, Ledger!ledgerVars
  <2>2. CASE Next /\ UNCHANGED <<tree, rows>>
    BY <1>2, <2>2, ContentMoves
  <2>3. ASSUME NEW p \in Processes, Insert(p) PROVE Ledger!Next
    <3>1. /\ at[p] = "published" /\ rows' = rows \cup {ref[p]}
          /\ UNCHANGED <<disk, tree, damaged, adopted>>
      BY <2>3 DEF Insert, renames, faults
    <3>2. /\ ref[p] \in Refs /\ ref[p] \notin rows /\ Target(p) \in Trees
          /\ disk[Target(p)] = "synced" \/ Target(p) \in damaged
      BY <2>0, <3>1 DEF Works, Publishes, Published
    <3>3. Owned' = Owned \cup {<<ref[p], Target(p)>>} /\ Content' = Content
      BY <3>1 DEF Owned, Content, Target, Whole
    <3>4. \A u \in Trees : <<ref[p], u>> \notin Owned
      BY <3>2 DEF Owned
    <3>5. Target(p) \in Content \cup damaged
      BY <3>2 DEF Content, Whole
    <3>6. PICK r \in Refs, t \in Trees : r = ref[p] /\ t = Target(p)
      BY <3>2
    <3>7. Ledger!Register(r, t)
      BY <3>1, <3>3, <3>4, <3>5, <3>6 DEF Ledger!Register, Content, Owned
    <3> QED
      BY <3>7 DEF Ledger!Next
  <2>4. ASSUME NEW p \in Processes, NEW r \in Refs, NEW t \in Trees, BeginRegister(p, r, t)
        PROVE  UNCHANGED Ledger!ledgerVars
    <3>1. /\ tree[r] = NoTree /\ tree' = [tree EXCEPT ![r] = t]
          /\ disk' = [disk EXCEPT ![r] = "partial"]
          /\ UNCHANGED <<rows, damaged, adopted>>
      BY <2>4 DEF BeginRegister, renames, faults
    <3>2. \A q \in rows : tree'[q] = tree[q]
      BY <2>0, <3>1 DEF RowsBacked, TypeOK
    <3>3. Owned' = Owned
      BY <3>1, <3>2 DEF Owned
    <3>4. Content' = Content
      <4>1. \A u \in Trees : u \in Names /\ u # r /\ disk'[u] = disk[u]
        BY <2>0, <3>1, SnapshotAssumption DEF TypeOK, Names
      <4> QED
        BY <4>1 DEF Content, Whole
    <3> QED
      BY <3>1, <3>3, <3>4 DEF Ledger!ledgerVars, Content, Owned
  <2>5. CASE Next /\ ~UNCHANGED <<tree, rows>>
    <3>1. PICK p \in Processes : Reconcile(p) \/ Register(p) \/ Close(p) \/ Stop(p)
      BY <2>5 DEF Next, PowerLoss, Damage, database
    <3>2. Register(p)
      BY <2>5, <3>1 DEF Reconcile, Look, FirstStart, FirstStartRaises, Construct, IntentDangles,
                        EndRecovery, Move, MoveCollides, FileEvidence, SyncSource, EndReconcile,
                        RecoverIntent, Intend, Close, Stop, database
    <3>3. Insert(p) \/ \E r \in Refs, t \in Trees : BeginRegister(p, r, t)
      BY <2>5, <3>2 DEF Register, WriteReady, Seal, Publish, Reuse, SyncObjects, Return, Fail,
                        database
    <3> QED
      BY <2>3, <2>4, <3>3
  <2> QED
    BY <1>2, <2>1, <2>2, <2>5
<1>3. StoreInv /\ [Next]_vars => [Ledger!Next]_(Ledger!ledgerVars)
  BY <1>2
<1> QED
  BY <1>1, <1>3, StoreAlways, PTL DEF Spec, KeepsSnapshotLedger, Ledger!Spec
=============================================================================
