---------------------------- MODULE PatchLedger ----------------------------
(***************************************************************************)
(* What controlled integration promises about the protected branch, with   *)
(* attempts, workers, threads and git left out: the branch is a log that   *)
(* only grows, a patch gets into it at most once and only after it was     *)
(* granted, and other people's commits may come in between.                *)
(***************************************************************************)
EXTENDS Naturals, Sequences

CONSTANTS
  Patches,  \* patches that may be granted
  Others,   \* commits of other people
  First     \* the first entry of the log

VARIABLES
  log,      \* what the branch holds: patches and other commits
  granted   \* patches whose integration was approved and begun

ledgerVars == <<log, granted>>

Logged(e) == \E i \in 1..Len(log) : log[i] = e

Init ==
  /\ log = <<First>>
  /\ granted = {}

Grant(p) ==
  /\ granted' = granted \cup {p}
  /\ UNCHANGED log

Land(p) ==
  /\ p \in granted
  /\ ~Logged(p)
  /\ log' = Append(log, p)
  /\ UNCHANGED granted

Other(c) ==
  /\ ~Logged(c)
  /\ log' = Append(log, c)
  /\ UNCHANGED granted

Next ==
  \/ \E p \in Patches : Grant(p) \/ Land(p)
  \/ \E c \in Others : Other(c)

Spec == Init /\ [][Next]_ledgerVars
=============================================================================
