-------------------------- MODULE SnapshotLedger --------------------------
(***************************************************************************)
(* What the snapshot store promises its callers, with directories, locks,  *)
(* fsync and crashes left out: a registration is made of content that is   *)
(* there, it is never changed or taken back, and the content it names does *)
(* not go away.  There are two exceptions: content that somebody damages   *)
(* from outside, and adopted content.  That is content whose publisher     *)
(* never got to make it safe; a registration that finds it in place does   *)
(* not wait for that either, and until it is safe it can be lost.          *)
(***************************************************************************)
CONSTANTS
  Refs,   \* names a registration may have
  Trees   \* contents

VARIABLES
  content,  \* the trees that can be handed out
  owned,    \* registrations, as pairs of a name and a tree
  damaged,  \* trees that were ever damaged
  adopted   \* trees that were registered before they were safe, and are not yet

ledgerVars == <<content, owned, damaged, adopted>>

Registered(t) == \E r \in Refs : <<r, t>> \in owned

Init ==
  /\ content = {}
  /\ owned = {}
  /\ damaged = {}
  /\ adopted = {}

\* Content comes and goes, and adopted content becomes safe by being there.
\* What a registration names stays, unless it was damaged or is adopted.
Turnover ==
  /\ content' \in SUBSET Trees
  /\ adopted' \in SUBSET adopted
  /\ adopted \ adopted' \subseteq content' \cup damaged
  /\ \A t \in content : Registered(t) => t \in content' \cup adopted' \cup damaged
  /\ UNCHANGED <<owned, damaged>>

\* Content that may still be lost is about to be registered for the first time.
Adopt(t) ==
  /\ t \in content
  /\ Registered(t) => t \in damaged
  /\ adopted' = adopted \cup {t}
  /\ UNCHANGED <<content, owned, damaged>>

Register(r, t) ==
  /\ t \in content \cup damaged
  /\ \A u \in Trees : <<r, u>> \notin owned
  /\ owned' = owned \cup {<<r, t>>}
  /\ UNCHANGED <<content, damaged, adopted>>

Damage(t) ==
  /\ content' = content \ {t}
  /\ damaged' = damaged \cup {t}
  /\ UNCHANGED <<owned, adopted>>

Next ==
  \/ Turnover
  \/ \E t \in Trees : Adopt(t) \/ Damage(t) \/ \E r \in Refs : Register(r, t)

Spec == Init /\ [][Next]_ledgerVars
=============================================================================
