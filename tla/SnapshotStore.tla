--------------------------- MODULE SnapshotStore ---------------------------
(***************************************************************************)
(* The snapshot store of the restricted execution broker                   *)
(* (infrastructure/execution_broker/store.py): source trees are staged,    *)
(* sealed, moved into place under the hash of their content and then       *)
(* registered.  Every job of every worker makes a store object of its own  *)
(* over the same directories, and making one reconciles them: what is      *)
(* staged or published but not registered goes to the quarantine.          *)
(*                                                                         *)
(* A name stands for the directory entry of that name in its area: a       *)
(* registration's number for <ref>.partial in .staging, a tree for the     *)
(* object of that hash in objects.  One action is what happens between two *)
(* points at which a crash leaves something different behind.  A process   *)
(* that dies keeps what it did to the directories; a loss of power may     *)
(* undo every rename that no fsync has followed, whoever made it, and      *)
(* tears trees that were never synced.  Assumed of the file system: a      *)
(* rename is undone as a whole or not at all, and is on the disk once one  *)
(* of its two directories has been synced; a removed staging directory     *)
(* does not come back.                                                     *)
(***************************************************************************)
EXTENDS Naturals

CONSTANTS
  Processes,  \* store objects of worker processes and threads
  Trees,      \* contents of snapshots
  NoTree,     \* a registration number that was not used yet
  NoKey,      \* no entry is being quarantined
  MaxRegistrations, \* bound: calls of register
  MaxKills,         \* bound: processes that die
  MaxPowerLosses,   \* bound: times the whole machine goes down
  MaxDamages        \* bound: objects damaged from outside

Refs  == 1..MaxRegistrations
Names == Refs \cup Trees

ASSUME SnapshotAssumption ==
  /\ MaxRegistrations \in Nat
  /\ MaxKills \in Nat
  /\ MaxPowerLosses \in Nat
  /\ MaxDamages \in Nat
  /\ Refs \cap Trees = {}
  /\ NoTree \notin Trees

VARIABLES
  disk,      \* disk[n]: what lies under the name n in its area
  evidence,  \* evidence[k]: the state in the evidence file of k
  payload,   \* payload[k]: what was moved to the quarantine as k
  tree,      \* tree[r]: the content handed over in registration r
  rows,      \* registrations that are in the database
  registry,  \* the database file: absent, created, or reconciled with once
  unsynced,  \* <<t, r>>: the rename of r to the object t is not on the disk
  unfiled,   \* <<k, n>>: nor is that of n to k; n may be a name before the last
  at,        \* at[p]: what store object p has done
  ref,       \* ref[p]: the registration p works on
  key,       \* key[p]: the entry p puts into quarantine
  damaged,   \* trees whose object was ever damaged from outside
  adopted,   \* history: trees that register found in place before their rename
             \* was on the disk, for as long as it is not
  kills, losses, damages   \* faults so far

quarantine == <<evidence, payload>>
database   == <<tree, rows>>
renames    == <<unsynced, unfiled, adopted>>
faults     == <<damaged, kills, losses, damages>>
vars == <<disk, quarantine, database, registry, renames, at, ref, key, faults>>

Reasons == {"interrupted-staging", "referenced-object-corrupt",
            "unreferenced-object-valid", "unreferenced-object-corrupt"}
Keys    == Names \X Reasons

\* A tree that lacks something, is complete, is complete on the disk too.
Contents == {"partial", "ready", "synced"}

Starting    == {"looking", "starting"}
Reconciling == {"recovering", "cleaning", "intended", "moved", "filed"}
Staging     == {"extracting", "ready", "sealed"}
Published   == {"renamed", "published", "inserted"}
Places      == {"off", "open", "raised"} \cup Starting \cup Reconciling
                 \cup Staging \cup Published

TypeOK ==
  /\ disk \in [Names -> {"none"} \cup Contents]
  /\ evidence \in [Keys -> {"none", "intent", "quarantined"}]
  /\ payload \in [Keys -> {"none"} \cup Contents]
  /\ tree \in [Refs -> Trees \cup {NoTree}]
  /\ rows \subseteq Refs
  /\ registry \in {"absent", "created", "reconciled"}
  /\ unsynced \subseteq Trees \X Refs
  /\ unfiled \subseteq Keys \X Names
  /\ at \in [Processes -> Places]
  /\ ref \in [Processes -> Refs \cup {0}]
  /\ key \in [Processes -> Keys \cup {NoKey}]
  /\ damaged \subseteq Trees
  /\ adopted \subseteq Trees
  /\ kills \in 0..MaxKills
  /\ losses \in 0..MaxPowerLosses
  /\ damages \in 0..MaxDamages

Init ==
  /\ disk = [n \in Names |-> "none"]
  /\ evidence = [k \in Keys |-> "none"]
  /\ payload = [k \in Keys |-> "none"]
  /\ tree = [r \in Refs |-> NoTree]
  /\ rows = {}
  /\ registry = "absent"
  /\ unsynced = {}
  /\ unfiled = {}
  /\ at = [p \in Processes |-> "off"]
  /\ ref = [p \in Processes |-> 0]
  /\ key = [p \in Processes |-> NoKey]
  /\ damaged = {}
  /\ adopted = {}
  /\ kills = 0
  /\ losses = 0
  /\ damages = 0

-----------------------------------------------------------------------------
(* What the code looks at.                                                 *)

\* _verify_ready_object accepts what lies there.
Whole(n) == disk[n] \in {"ready", "synced"}

\* Mutant of LockFree: the lock file is not locked.
LockNotTaken == TRUE

\* _exclusive: the lock is held from the first to the last step.
LockFree == \A p \in Processes : at[p] \notin Reconciling \cup Staging \cup Published

\* Mutant of Referenced: the object's name is compared with the primary key.
ReferencedByRef(t) == t \in rows

Referenced(t) == \E r \in rows : tree[r] = t

Blocking == \E r \in rows : ~Whole(tree[r])

\* Mutant of AfterReconcile: an outcome nobody tests for.
AfterReconcileBlocked == IF Blocking THEN "blocked" ELSE "open"

\* _reconcile raises for references without a sound object.
AfterReconcile == IF Blocking THEN "raised" ELSE "open"

Reason(n) ==
  CASE n \in Refs -> "interrupted-staging"
    [] n \notin Refs /\ Referenced(n) -> "referenced-object-corrupt"
    [] n \notin Refs /\ ~Referenced(n) /\ Whole(n)  -> "unreferenced-object-valid"
    [] n \notin Refs /\ ~Referenced(n) /\ ~Whole(n) -> "unreferenced-object-corrupt"

\* The order of _reconcile: staging, then what is registered and not sound,
\* then what nobody registered.
Staged   == {r \in Refs : disk[r] # "none"}
Corrupt  == {t \in Trees : Referenced(t) /\ disk[t] # "none" /\ ~Whole(t)}
Orphaned == {t \in Trees : ~Referenced(t) /\ disk[t] # "none"}
Due == IF Staged # {} THEN Staged ELSE IF Corrupt # {} THEN Corrupt ELSE Orphaned

Goes(p, place) == at' = [at EXCEPT ![p] = place]

\* _fsync_directory of the quarantine, which every evidence file ends with, and
\* of the objects.  What is among the objects then is there to stay.
SyncQuarantine == unfiled' = {} /\ UNCHANGED <<unsynced, adopted>>
SyncAll ==
  /\ unsynced' = {}
  /\ unfiled' = {u \in unfiled : u[1][1] \notin Trees}
  /\ adopted' = {t \in adopted : disk[t] = "none"}

-----------------------------------------------------------------------------
(* Making a store object: __init__ and _reconcile, under the lock.         *)

\* __init__ looks for the database before anything else.
Look(p) ==
  /\ at[p] = "off"
  /\ registry = "absent"
  /\ Goes(p, "looking")
  /\ UNCHANGED <<disk, quarantine, database, registry, renames, ref, key, faults>>

\* There was none and nothing else is there either: it is created.
FirstStart(p) ==
  /\ at[p] = "looking"
  /\ registry # "reconciled"
  /\ registry' = "created"
  /\ Goes(p, "starting")
  /\ UNCHANGED <<disk, quarantine, database, renames, ref, key, faults>>

\* There was none, and by now another first start has left its report.
FirstStartRaises(p) ==
  /\ at[p] = "looking"
  /\ registry = "reconciled"
  /\ Goes(p, "raised")
  /\ UNCHANGED <<disk, quarantine, database, registry, renames, ref, key, faults>>

Construct(p) ==
  /\ at[p] = "starting" \/ (at[p] = "off" /\ registry # "absent")
  /\ LockFree
  /\ Goes(p, "recovering")
  /\ UNCHANGED <<disk, quarantine, database, registry, renames, ref, key, faults>>

\* Mutant of Moved: an entry that is still in its place counts as moved.
MovedOrThere(k) == payload[k] # "none" \/ disk[k[1]] # "none"

\* The payload of the intent k is in the quarantine.
Moved(k) == payload[k] # "none"

\* _recover_quarantine_intents: the move was made, its evidence not finished.
RecoverIntent(p, k) ==
  /\ at[p] = "recovering"
  /\ evidence[k] = "intent"
  /\ Moved(k)
  /\ evidence' = [evidence EXCEPT ![k] = "quarantined"]
  /\ SyncQuarantine
  /\ UNCHANGED <<disk, payload, database, registry, at, ref, key, faults>>

Dangles(k) == evidence[k] = "intent" /\ payload[k] = "none" /\ disk[k[1]] = "none"

IntentDangles(p) ==
  /\ at[p] = "recovering"
  /\ \E k \in Keys : Dangles(k)
  /\ Goes(p, "raised")
  /\ UNCHANGED <<disk, quarantine, database, registry, renames, ref, key, faults>>

EndRecovery(p) ==
  /\ at[p] = "recovering"
  /\ \A k \in Keys : evidence[k] = "intent" => ~Moved(k) /\ ~Dangles(k)
  /\ Goes(p, "cleaning")
  /\ UNCHANGED <<disk, quarantine, database, registry, renames, ref, key, faults>>

\* _quarantine_entry: the intent, the move that replaces nothing, the evidence.
Intend(p, n) ==
  /\ at[p] = "cleaning"
  /\ n \in Due
  /\ key' = [key EXCEPT ![p] = <<n, Reason(n)>>]
  /\ evidence' = [evidence EXCEPT ![<<n, Reason(n)>>] = "intent"]
  /\ SyncQuarantine
  /\ Goes(p, "intended")
  /\ UNCHANGED <<disk, payload, database, registry, ref, faults>>

Move(p) ==
  LET k == key[p]
      n == key[p][1]
  IN /\ at[p] = "intended"
     /\ payload[k] = "none"
     /\ payload' = [payload EXCEPT ![k] = disk[n]]
     /\ disk' = [disk EXCEPT ![n] = "none"]
     /\ unsynced' = {u \in unsynced : u[1] # n}
     /\ unfiled' = unfiled \cup {<<k, n>>} \cup {<<k, u[2]>> : u \in {v \in unsynced : v[1] = n}}
     /\ Goes(p, "moved")
     /\ UNCHANGED <<evidence, database, registry, adopted, ref, key, faults>>

\* The same name was quarantined for the same reason before.
MoveCollides(p) ==
  /\ at[p] = "intended"
  /\ payload[key[p]] # "none"
  /\ key' = [key EXCEPT ![p] = NoKey]
  /\ Goes(p, "raised")
  /\ UNCHANGED <<disk, quarantine, database, registry, renames, ref, faults>>

FileEvidence(p) ==
  /\ at[p] = "moved"
  /\ evidence' = [evidence EXCEPT ![key[p]] = "quarantined"]
  /\ SyncQuarantine
  /\ Goes(p, "filed")
  /\ UNCHANGED <<disk, payload, database, registry, ref, key, faults>>

\* The directory that the entry came from, of the two that objects are renamed
\* between.  Nothing is unfiled any more.
SyncSource(p) ==
  /\ at[p] = "filed"
  /\ SyncAll
  /\ key' = [key EXCEPT ![p] = NoKey]
  /\ Goes(p, "cleaning")
  /\ UNCHANGED <<disk, quarantine, database, registry, ref, faults>>

EndReconcile(p) ==
  /\ at[p] = "cleaning"
  /\ Due = {}
  /\ registry' = "reconciled"
  /\ Goes(p, AfterReconcile)
  /\ UNCHANGED <<disk, quarantine, database, renames, ref, key, faults>>

\* The job that made the store object ends, or fails for want of one.
Close(p) ==
  /\ at[p] \in {"open", "raised"}
  /\ Goes(p, "off")
  /\ UNCHANGED <<disk, quarantine, database, registry, renames, ref, key, faults>>

-----------------------------------------------------------------------------
(* register, under the lock.                                               *)

\* staging.mkdir and the extraction; uuid4 gives a name that is not in use.
BeginRegister(p, r, t) ==
  /\ at[p] = "open"
  /\ LockFree
  /\ tree[r] = NoTree
  /\ \A q \in Refs : q < r => tree[q] # NoTree
  /\ tree' = [tree EXCEPT ![r] = t]
  /\ disk' = [disk EXCEPT ![r] = "partial"]
  /\ ref' = [ref EXCEPT ![p] = r]
  /\ Goes(p, "extracting")
  /\ UNCHANGED <<quarantine, rows, registry, renames, key, faults>>

WriteReady(p) ==
  /\ at[p] = "extracting"
  /\ disk' = [disk EXCEPT ![ref[p]] = "ready"]
  /\ Goes(p, "ready")
  /\ UNCHANGED <<quarantine, database, registry, renames, ref, key, faults>>

\* Mutant of Sealed: the tree is made read-only and not synced.
SealedOnly == "ready"

\* _fsync_tree, _make_immutable and _fsync_tree again.
Sealed == "synced"

Seal(p) ==
  /\ at[p] = "ready"
  /\ disk' = [disk EXCEPT ![ref[p]] = Sealed]
  /\ Goes(p, "sealed")
  /\ UNCHANGED <<quarantine, database, registry, renames, ref, key, faults>>

Target(p) == tree[ref[p]]

\* The rename to objects/<tree_sha256>.
Publish(p) ==
  /\ at[p] = "sealed"
  /\ disk[Target(p)] = "none"
  /\ disk' = [disk EXCEPT ![Target(p)] = disk[ref[p]], ![ref[p]] = "none"]
  /\ unsynced' = unsynced \cup {<<Target(p), ref[p]>>}
  /\ Goes(p, "renamed")
  /\ UNCHANGED <<quarantine, database, registry, unfiled, adopted, ref, key, faults>>

\* The rename that made the object t may be missing on the disk.
Unsettled(t) == \E r \in Refs : <<t, r>> \in unsynced

\* FileExistsError: an equal tree is there and is verified; ours is removed.
\* Nothing is synced here.
Reuse(p) ==
  /\ at[p] = "sealed"
  /\ Whole(Target(p))
  /\ disk' = [disk EXCEPT ![ref[p]] = "none"]
  /\ adopted' = IF Unsettled(Target(p)) THEN adopted \cup {Target(p)} ELSE adopted
  /\ Goes(p, "published")
  /\ UNCHANGED <<quarantine, database, registry, unsynced, unfiled, ref, key, faults>>

SyncObjects(p) ==
  /\ at[p] = "renamed"
  /\ SyncAll
  /\ Goes(p, "published")
  /\ UNCHANGED <<disk, quarantine, database, registry, ref, key, faults>>

\* _insert_registration commits with synchronous = FULL.
Insert(p) ==
  /\ at[p] = "published"
  /\ rows' = rows \cup {ref[p]}
  /\ Goes(p, "inserted")
  /\ UNCHANGED <<disk, quarantine, tree, registry, renames, ref, key, faults>>

Return(p) ==
  /\ at[p] = "inserted"
  /\ ref' = [ref EXCEPT ![p] = 0]
  /\ Goes(p, "open")
  /\ UNCHANGED <<disk, quarantine, database, registry, renames, key, faults>>

\* Mutant of Removed: a failed call takes everything away that it made.
RemovedAll(p) == {ref[p]} \cup (IF at[p] = "renamed" THEN {Target(p)} ELSE {})

\* What the except clause removes: the staged tree, not the published object.
Removed(p) == {ref[p]}

\* Any step raises: a bad archive, a full disk, a database that does not answer,
\* an object of the same name that is not sound.  A published object is synced
\* again, which may raise, too.
Fail(p) ==
  /\ at[p] \in Staging \cup Published
  /\ disk' = [n \in Names |-> IF n \in Removed(p) THEN "none" ELSE disk[n]]
  /\ ref' = [ref EXCEPT ![p] = 0]
  /\ UNCHANGED renames \/ (at[p] = "renamed" /\ SyncAll)
  /\ Goes(p, "open")
  /\ UNCHANGED <<quarantine, database, registry, key, faults>>

-----------------------------------------------------------------------------
(* Faults.                                                                 *)

\* The process is killed, or an error ends the constructor: in both cases the
\* lock is given away and what is in the directories stays.
Stop(p) ==
  /\ at[p] # "off"
  /\ kills < MaxKills
  /\ kills' = kills + 1
  /\ ref' = [ref EXCEPT ![p] = 0]
  /\ key' = [key EXCEPT ![p] = NoKey]
  /\ Goes(p, "off")
  /\ UNCHANGED <<disk, quarantine, database, registry, renames, damaged, losses, damages>>

\* The renames sunk and back can be missing together: each entry is found under
\* one earlier name, each name has one entry, and none is in the place of another.
Undoable(sunk, back) ==
  /\ \A u, v \in sunk : u[1] = v[1] <=> u[2] = v[2]
  /\ \A b, c \in back : b[1] = c[1] <=> b[2] = c[2]
  /\ \A b \in back :
       /\ \A u \in sunk : u[2] # b[2]
       /\ disk[b[2]] = "none" \/ \E u \in sunk : u[1] = b[2]

\* What lies under the name n when they are.
Found(n, sunk, back) ==
  IF \E b \in back : b[2] = n THEN payload[(CHOOSE b \in back : b[2] = n)[1]]
  ELSE IF \E u \in sunk : u[2] = n THEN disk[tree[n]]
  ELSE IF \E u \in sunk : u[1] = n THEN "none"
  ELSE disk[n]

\* The renames that are not on the disk are undone or not, staged entries survive
\* or not, trees that were not synced are torn.
PowerLoss ==
  /\ losses < MaxPowerLosses
  /\ \E sunk \in SUBSET unsynced, back \in SUBSET unfiled :
       /\ Undoable(sunk, back)
       /\ \E gone \in SUBSET {r \in Refs : Found(r, sunk, back) # "none"},
             torn \in SUBSET {n \in Names : Found(n, sunk, back) = "ready"} :
            disk' = [n \in Names |-> IF n \in gone THEN "none"
                                    ELSE IF n \in torn THEN "partial"
                                    ELSE Found(n, sunk, back)]
       /\ payload' = [k \in Keys |-> IF \E b \in back : b[1] = k THEN "none" ELSE payload[k]]
  /\ registry' \in {registry} \cup (IF registry = "created" THEN {"absent"} ELSE {})
  /\ unsynced' = {}
  /\ unfiled' = {}
  /\ adopted' = {t \in adopted : disk'[t] = "none"}
  /\ losses' = losses + 1
  /\ at' = [p \in Processes |-> "off"]
  /\ ref' = [p \in Processes |-> 0]
  /\ key' = [p \in Processes |-> NoKey]
  /\ UNCHANGED <<evidence, database, damaged, kills, damages>>

\* Somebody writes to an object or a block of it goes bad.
Damage(t) ==
  /\ Whole(t)
  /\ damages < MaxDamages
  /\ damages' = damages + 1
  /\ damaged' = damaged \cup {t}
  /\ disk' = [disk EXCEPT ![t] = "partial"]
  /\ UNCHANGED <<quarantine, database, registry, renames, at, ref, key, kills, losses>>

Reconcile(p) ==
  \/ Look(p) \/ FirstStart(p) \/ FirstStartRaises(p)
  \/ Construct(p) \/ IntentDangles(p) \/ EndRecovery(p)
  \/ Move(p) \/ MoveCollides(p) \/ FileEvidence(p) \/ SyncSource(p)
  \/ EndReconcile(p)
  \/ \E k \in Keys : RecoverIntent(p, k)
  \/ \E n \in Names : Intend(p, n)

Register(p) ==
  \/ \E r \in Refs, t \in Trees : BeginRegister(p, r, t)
  \/ WriteReady(p) \/ Seal(p) \/ Publish(p) \/ Reuse(p)
  \/ SyncObjects(p) \/ Insert(p) \/ Return(p) \/ Fail(p)

Next ==
  \/ \E p \in Processes : Reconcile(p) \/ Register(p) \/ Close(p) \/ Stop(p)
  \/ PowerLoss
  \/ \E t \in Trees : Damage(t)

Spec == Init /\ [][Next]_vars
-----------------------------------------------------------------------------
(***************************************************************************)
(* What must be true.                                                      *)
(***************************************************************************)

\* What resolve finds for a registration is a complete tree, whenever processes
\* died and the power failed, with two exceptions: a tree damaged from outside,
\* and one that register found in place while the rename that had made it was
\* not on the disk (_publish returns then without _fsync_directory), until a
\* later fsync of the objects.
RegisteredIsWhole ==
  \A r \in rows : Whole(tree[r]) \/ tree[r] \in damaged \cup adopted

\* Other processes start while one registers; none of them takes away what
\* it has staged, or the object it is about to register.
RegistrationUndisturbed ==
  \A p \in Processes :
    /\ at[p] \in Staging => disk[ref[p]] # "none"
    /\ at[p] \in Published => Whole(Target(p)) \/ Target(p) \in damaged

\* The evidence files are true: what they call quarantined is there, and
\* nothing is in the quarantine without one.
EvidenceIsTrue ==
  \A k \in Keys :
    /\ evidence[k] = "quarantined" => payload[k] # "none"
    /\ payload[k] # "none" => evidence[k] # "none"

\* A published tree is evidence: it is among the objects or in the quarantine,
\* and no failure, death or restart deletes it; only a loss of power can undo
\* the rename that published it, as long as that is not on the disk.
Kept(t) == disk[t] # "none" \/ \E reason \in Reasons : payload[<<t, reason>>] # "none"
Unpublished(t) ==
  Unsettled(t) \/ \E reason \in Reasons, r \in Refs : <<<<t, reason>>, r>> \in unfiled
PublishedIsKept ==
  [][\A t \in Trees : Kept(t) => Kept(t)' \/ (Unpublished(t) /\ losses' > losses)]_vars

Ledger == INSTANCE SnapshotLedger
          WITH content <- {t \in Trees : Whole(t)},
               owned <- {<<r, tree[r]>> : r \in rows}

\* Staging, renames, reconciliation and faults implement a ledger whose
\* registrations stay and whose registered content is not withdrawn, but for
\* damaged content and for adopted content, which is lost only while no fsync
\* has made it safe.
KeepsSnapshotLedger == Ledger!Spec

\* Not so: a loss of power never takes a registered tree.  A process dies between
\* the rename and the fsync, a second one finds the object, registers it without
\* an fsync of the objects, and the power fails.
RegisteredOutlivesPower == \A r \in rows : Whole(tree[r]) \/ tree[r] \in damaged

\* Not so: making a store object fails only for a registered object that is
\* missing or damaged.  A tree that is orphaned a second time collides with its
\* first copy in the quarantine, at this start and at every later one; and of two
\* first starts the slower one may find the report of the other.
StartReconciles ==
  \A p \in Processes : at[p] = "raised" => Blocking
=============================================================================
