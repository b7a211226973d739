------------------------------ MODULE AuditLog ------------------------------
(***************************************************************************)
(* What the audit chain promises, with transactions, locks and hashes left *)
(* out: every stream is a log numbered from one without a gap, entries are *)
(* only added behind the last one, and an event is entered once.           *)
(***************************************************************************)
EXTENDS Naturals

CONSTANT Streams  \* the streams of the audit trail

VARIABLE log      \* log[s][k]: the event entered as number k of stream s

Numbers(l, s) == DOMAIN l[s]

Numbered(l) ==
  \A s \in Streams : \A k \in Numbers(l, s) : k >= 1 /\ 1..k \subseteq Numbers(l, s)

EnteredOnce(l) ==
  \A s, t \in Streams : \A j \in Numbers(l, s), k \in Numbers(l, t) :
    l[s][j] = l[t][k] => s = t /\ j = k

Grows(s) ==
  /\ Numbers(log, s) \subseteq Numbers(log', s)
  /\ \A k \in Numbers(log, s) : log'[s][k] = log[s][k]

Init == \A s \in Streams : Numbers(log, s) = {}

Enter ==
  /\ \A s \in Streams : Grows(s)
  /\ Numbered(log')
  /\ EnteredOnce(log')

Spec == Init /\ [][Enter]_log
=============================================================================
