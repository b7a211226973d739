-------------------------- MODULE RollbackLedger --------------------------
(***************************************************************************)
(* What controlled recovery promises about the protected branch, with      *)
(* workers, leases and git left out: the branch only grows, and a revert   *)
(* of the integration gets into it only when it was granted and when there *)
(* is something to revert, that is, when the change is in effect.          *)
(***************************************************************************)
EXTENDS Naturals, Sequences

CONSTANTS
  Reverts,    \* reverts that may be granted
  Others,     \* commits of other people
  Restoring,  \* those of them that bring the change back
  First       \* the commit that brought the change

VARIABLES
  log,      \* what the branch holds
  granted   \* reverts that were approved and begun

ledgerVars == <<log, granted>>

Logged(e) == \E i \in 1..Len(log) : log[i] = e

\* After the last commit that brought the change there is no revert of it.
InEffect ==
  \E i \in 1..Len(log) :
    /\ log[i] \in Restoring \cup {First}
    /\ \A j \in (i + 1)..Len(log) : log[j] \notin Reverts

Init ==
  /\ log = <<First>>
  /\ granted = {}

Grant(r) ==
  /\ granted' = granted \cup {r}
  /\ UNCHANGED log

Revert(r) ==
  /\ r \in granted
  /\ ~Logged(r)
  /\ InEffect
  /\ log' = Append(log, r)
  /\ UNCHANGED granted

Other(c) ==
  /\ ~Logged(c)
  /\ log' = Append(log, c)
  /\ UNCHANGED granted

Next ==
  \/ \E r \in Reverts : Grant(r) \/ Revert(r)
  \/ \E c \in Others : Other(c)

Spec == Init /\ [][Next]_ledgerVars
=============================================================================
