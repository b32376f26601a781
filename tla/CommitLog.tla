----------------------------- MODULE CommitLog -----------------------------
(***************************************************************************)
(* What the transactional kernel of SeerDB promises its clients, as a      *)
(* specification of its own: a durable history of committed changes that   *)
(* only grows, in which no commit overwrites or has read what another one  *)
(* changed behind its snapshot, and the acknowledgements it gave.          *)
(*                                                                         *)
(* The history says nothing about waves, locks, versions, collection or    *)
(* recovery: SeerTxn is shown to implement it.                             *)
(***************************************************************************)
EXTENDS Integers, Sequences

VARIABLES log,    \* the durable commits, by commit sequence number
          acked   \* the commits that were acknowledged: <<transaction, number>>

logVars == <<log, acked>>

WriteSet(e) == {k \in DOMAIN e.writes : e.writes[k] # "unset"}

\* The commit at d neither overwrites nor has read a key that a commit between
\* its snapshot and itself changed.
Admissible(l, d) ==
    /\ l[d].snap \in 0..(d - 1)
    /\ \A c \in (l[d].snap + 1)..(d - 1) :
        /\ WriteSet(l[c]) \cap WriteSet(l[d]) = {}
        /\ WriteSet(l[c]) \cap l[d].reads = {}

\* A history is a sequence all of whose commits are admissible.
Certified(l) == Len(l) \in Nat /\ \A d \in 1..Len(l) : Admissible(l, d)

AckedInLog(l, a) == \A x \in a : x[2] \in 1..Len(l) /\ l[x[2]].txn = x[1]

\* A database is opened on a history that obeys the rules already.
HistoryInit ==
    /\ Certified(log)
    /\ AckedInLog(log, acked)

Extends(l, m) ==
    /\ Len(m) \in Nat /\ Len(l) < Len(m)
    /\ \A c \in 1..Len(l) : m[c] = l[c]

\* One or more commits become durable together, in order.
PublishCommits ==
    /\ Extends(log, log')
    /\ \A d \in (Len(log) + 1)..Len(log') : Admissible(log', d)
    /\ UNCHANGED acked

\* A committer learns its number.
Ack ==
    /\ \E c \in 1..Len(log) : acked' = acked \cup {<<log[c].txn, c>>}
    /\ UNCHANGED log

HistoryNext == PublishCommits \/ Ack

HistorySpec == HistoryInit /\ [][HistoryNext]_logVars

=============================================================================
