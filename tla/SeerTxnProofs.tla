--------------------------- MODULE SeerTxnProofs ---------------------------
(* Proofs about the group-commit protocol of SeerTxn, for any number of     *)
(* transactions, trees and keys and any operations and faults.              *)
EXTENDS SeerTxn, TLAPS

\* What the invariants are about; every other variable is data.
ctl == <<st, outcome, queue, members, alive, phase, closed, lane, pend, nextTxn>>

\* Where the drained commits are, by phase of the lane.
LanePhases ==
    /\ phase \in {"idle", "coalesce"} \cup OwnPhases => members = <<>> /\ alive = {}
    /\ phase = "drained" => alive = {}
    /\ phase \in WavePhases => members = <<>>
    /\ phase \in {"reserved", "recorded"} => lane.op = "reserve"

\* A committer is in one place only.
Disjoint == Range(queue) \cap (Range(members) \cup alive) = {}

\* When the outcomes are out, every member of the wave has one.
SentIsTold ==
    phase = "sent" => \A t \in alive : /\ st[t] \in {"staged", "committed", "recovery"}
                                      /\ outcome[t] # "none"

\* begin never hands out the identity of a transaction that is running.
BusyBelow ==
    \A t \in Txns : st[t] \in {"opening", "active", "staged"} \/ t \in alive => t < nextTxn

\* The owner of a reservation waits in create_tree.
ReserveOwner ==
    lane.op = "reserve" =>
        lane.txn \in Txns /\ st[lane.txn] = "active" /\ pend[lane.txn].op = "create"

PendIsFunction == pend = [t \in Txns |-> pend[t]]

ControlInv ==
    /\ ControlTypeOK /\ LanePhases /\ Disjoint /\ SentIsTold /\ BusyBelow /\ ReserveOwner
    /\ PendIsFunction
    /\ NoLostCommitter /\ ClosedIsQuiet

LEMMA TxnsAreNumbers == Txns \subseteq Nat
BY BoundsAssumption DEF Txns

LEMMA NoLaneIsIdle == NoLane.op = "idle"
BY DEF NoLane

LEMMA EmptyIsSeq == \A S : << >> \in Seq(S)
OBVIOUS

LEMMA EmptyRange == Range(<<>>) = {}
BY DEF Range

LEMMA AppendRange ==
    ASSUME NEW q \in Seq(Txns), NEW t \in Txns
    PROVE  Append(q, t) \in Seq(Txns) /\ Range(Append(q, t)) = Range(q) \cup {t}
<1>1. Append(q, t) \in Seq(Txns)
    OBVIOUS
<1>2. DOMAIN Append(q, t) = 1..(Len(q) + 1) /\ DOMAIN q = 1..Len(q) /\ Len(q) \in Nat
    OBVIOUS
<1>3. \A i \in 1..Len(q) : Append(q, t)[i] = q[i]
    OBVIOUS
<1>4. Append(q, t)[Len(q) + 1] = t
    OBVIOUS
<1>5. Range(Append(q, t)) \subseteq Range(q) \cup {t}
    BY <1>2, <1>3, <1>4 DEF Range
<1>6. Range(q) \cup {t} \subseteq Range(Append(q, t))
    BY <1>2, <1>3, <1>4 DEF Range
<1> QED BY <1>1, <1>5, <1>6

LEMMA RangeInTxns ==
    ASSUME NEW q \in Seq(Txns)
    PROVE  Range(q) \subseteq Txns
BY DEF Range

LEMMA OnlyEmptyHasNoRange ==
    ASSUME NEW q \in Seq(Txns), Range(q) = {}
    PROVE  q = <<>>
<1>1. DOMAIN q = 1..Len(q) /\ Len(q) \in Nat
    OBVIOUS
<1>2. ASSUME Len(q) # 0 PROVE FALSE
  <2>1. 1 \in DOMAIN q
    BY <1>1, <1>2
  <2> QED BY <2>1 DEF Range
<1> QED BY <1>2

LEMMA InitControl == Init => ControlInv
<1> SUFFICES ASSUME Init PROVE ControlInv
    OBVIOUS
<1>1. /\ st = [t \in Txns |-> IF t <= InitTrees THEN "committed" ELSE "unborn"]
      /\ outcome = [t \in Txns |-> IF t <= InitTrees THEN "ok" ELSE "none"]
      /\ pend = [t \in Txns |-> NoPend]
      /\ queue = <<>> /\ members = <<>> /\ alive = {} /\ phase = "idle" /\ lane = NoLane
      /\ closed = FALSE
    BY DEF Init
<1> HIDE DEF Init
<1>2. ControlTypeOK
  <2>1. st \in [Txns -> States] /\ outcome \in [Txns -> Outcomes]
    BY <1>1 DEF States, Outcomes
  <2>2. phase \in Phases /\ queue \in Seq(Txns) /\ members \in Seq(Txns)
    BY <1>1 DEF Phases
  <2> QED BY Zenon, <1>1, <2>1, <2>2 DEF ControlTypeOK
<1>3. LanePhases /\ Disjoint /\ SentIsTold /\ ReserveOwner
    BY Zenon, <1>1, EmptyRange DEF LanePhases, Disjoint, SentIsTold, ReserveOwner, NoLane, WavePhases,
        OwnPhases
<1>4. PendIsFunction
    BY <1>1 DEF PendIsFunction
<1>5. BusyBelow /\ NoLostCommitter /\ ClosedIsQuiet
    BY <1>1, EmptyRange DEF BusyBelow, NoLostCommitter, ClosedIsQuiet
<1> QED BY <1>2, <1>3, <1>4, <1>5 DEF ControlInv

-----------------------------------------------------------------------------
(* The kinds of step that the actions are instances of, by what they do to  *)
(* the control state.                                                       *)

LEMMA SameControl == ControlInv /\ UNCHANGED ctl => ControlInv'
BY DEF ControlInv, ctl, ControlTypeOK, LanePhases, Disjoint, SentIsTold, BusyBelow, ReserveOwner,
    PendIsFunction, NoLostCommitter, ClosedIsQuiet, Registered

\* An operation that is not create_tree starts or ends between its two locks.
LEMMA PendMoves ==
    ASSUME ControlInv,
           NEW t \in Txns, NEW p,
           pend[t].op # "create",
           pend' = [pend EXCEPT ![t] = p],
           UNCHANGED <<st, outcome, queue, members, alive, phase, closed, lane, nextTxn>>
    PROVE  ControlInv'
<1>1. PendIsFunction' /\ ReserveOwner'
    BY DEF ControlInv, PendIsFunction, ReserveOwner
<1>2. ControlTypeOK' /\ LanePhases' /\ Disjoint' /\ SentIsTold' /\ BusyBelow'
    BY DEF ControlInv, ControlTypeOK, LanePhases, Disjoint, SentIsTold, BusyBelow
<1>3. NoLostCommitter' /\ ClosedIsQuiet'
    BY DEF ControlInv, NoLostCommitter, ClosedIsQuiet, Registered
<1> QED BY <1>1, <1>2, <1>3 DEF ControlInv

\* The lane goes on inside a wave, or inside its own work.
LEMMA LaneGoesOn ==
    ASSUME ControlInv,
           UNCHANGED <<st, outcome, queue, members, alive, closed, pend, nextTxn>>,
           \/ phase \in WavePhases \ {"sent"} /\ phase' \in WavePhases \ {"sent"}
           \/ phase \in OwnPhases /\ phase' \in OwnPhases,
           lane' = lane \/ lane'.op # "reserve",
           phase' \in {"reserved", "recorded"} => lane'.op = "reserve"
    PROVE  ControlInv'
<1>1. ControlTypeOK' /\ LanePhases' /\ SentIsTold'
    BY DEF ControlInv, ControlTypeOK, LanePhases, SentIsTold, Phases, WavePhases, OwnPhases
<1>2. Disjoint' /\ BusyBelow' /\ ReserveOwner' /\ PendIsFunction'
    BY DEF ControlInv, Disjoint, BusyBelow, ReserveOwner, PendIsFunction
<1>3. NoLostCommitter' /\ ClosedIsQuiet'
    BY DEF ControlInv, NoLostCommitter, ClosedIsQuiet, Registered, WavePhases, OwnPhases
<1> QED BY <1>1, <1>2, <1>3 DEF ControlInv

\* Every member of the wave is sent the same outcome.
LEMMA WaveIsTold ==
    ASSUME ControlInv,
           NEW result \in Outcomes \ {"none"},
           phase \in WavePhases \ {"sent"}, phase' = "sent",
           outcome' = [t \in Txns |-> IF t \in alive THEN result ELSE outcome[t]],
           UNCHANGED <<st, queue, members, alive, closed, lane, pend, nextTxn>>
    PROVE  ControlInv'
<1>1. ControlTypeOK' /\ LanePhases'
    BY DEF ControlInv, ControlTypeOK, LanePhases, Phases, WavePhases, OwnPhases
<1>2. Disjoint' /\ BusyBelow' /\ ReserveOwner' /\ PendIsFunction'
    BY DEF ControlInv, Disjoint, BusyBelow, ReserveOwner, PendIsFunction
<1>3. SentIsTold'
    BY DEF ControlInv, ControlTypeOK, SentIsTold, NoLostCommitter, Outcomes
<1>4. members = <<>>
    BY DEF ControlInv, LanePhases
<1>5. NoLostCommitter'
    BY <1>4, EmptyRange, RangeInTxns DEF ControlInv, ControlTypeOK, NoLostCommitter, Disjoint,
        Outcomes
<1>6. ClosedIsQuiet'
    BY DEF ControlInv, ClosedIsQuiet, Registered
<1> QED BY <1>1, <1>2, <1>3, <1>5, <1>6 DEF ControlInv

\* An operation gives the lane back after its own work.
LEMMA LaneIsFreed ==
    ASSUME ControlInv,
           \/ phase \in OwnPhases
           \/ phase = "drained" /\ closed,
           lane' = NoLane, phase' = "idle", members' = <<>>, alive' = {},
           pend' = pend \/ \E t \in Txns : \E p : pend' = [pend EXCEPT ![t] = p],
           \/ st' = st
           \/ \E t \in Txns : st[t] = "active" /\ st' = [st EXCEPT ![t] = "recovery"],
           UNCHANGED <<outcome, queue, closed, nextTxn>>
    PROVE  ControlInv'
<1>1. members = <<>> /\ alive = {}
    BY DEF ControlInv, LanePhases, ClosedIsQuiet, OwnPhases
<1>2. /\ \A t \in Txns : st[t] = "staged" <=> st'[t] = "staged"
      /\ \A t \in Txns : st'[t] \in {"opening", "active", "staged"} =>
            st[t] \in {"opening", "active", "staged"}
      /\ Registered' \subseteq Registered
      /\ st' \in [Txns -> States]
    BY DEF ControlInv, ControlTypeOK, States, Registered
<1>3. ControlTypeOK' /\ LanePhases'
    BY <1>2 DEF ControlInv, ControlTypeOK, LanePhases, Phases, WavePhases
<1>4. Disjoint' /\ SentIsTold' /\ ReserveOwner'
    BY Zenon, EmptyRange DEF Disjoint, SentIsTold, ReserveOwner, NoLane
<1>5. PendIsFunction'
    BY DEF ControlInv, PendIsFunction
<1>6. BusyBelow'
    BY <1>2 DEF ControlInv, BusyBelow
<1>7. NoLostCommitter'
    BY <1>1, <1>2, EmptyRange, RangeInTxns DEF ControlInv, ControlTypeOK, NoLostCommitter
<1>8. ClosedIsQuiet'
    BY <1>1, <1>2, ZenonT(60) DEF ControlInv, ClosedIsQuiet
<1> QED BY <1>3, <1>4, <1>5, <1>6, <1>7, <1>8 DEF ControlInv

\* An operation takes the lane.
LEMMA LaneIsTaken ==
    ASSUME ControlInv,
           phase = "idle", phase' = "coalesce",
           PendIsFunction',
           lane'.op = "reserve" => /\ lane'.txn \in Txns /\ st[lane'.txn] = "active"
                                   /\ pend'[lane'.txn].op = "create",
           UNCHANGED <<st, outcome, queue, members, alive, closed, nextTxn>>
    PROVE  ControlInv'
<1>1. ControlTypeOK' /\ LanePhases' /\ SentIsTold'
    BY DEF ControlInv, ControlTypeOK, LanePhases, SentIsTold, Phases, WavePhases
<1>2. Disjoint' /\ BusyBelow' /\ ReserveOwner'
    BY DEF ControlInv, Disjoint, BusyBelow, ReserveOwner
<1>3. NoLostCommitter' /\ ClosedIsQuiet'
    BY DEF ControlInv, NoLostCommitter, ClosedIsQuiet, Registered
<1> QED BY <1>1, <1>2, <1>3, ZenonT(60) DEF ControlInv

-----------------------------------------------------------------------------
(* The steps of a transaction.                                              *)

LEMMA BeginCheckStep ==
    ASSUME ControlInv, NEW t \in Txns, BeginCheck(t)
    PROVE  ControlInv'
<1>1. /\ t = nextTxn /\ nextTxn' = t + 1
      /\ UNCHANGED <<outcome, queue, members, alive, phase, closed, lane, pend>>
      /\ \E s \in {"refused", "opening"} : st' = [st EXCEPT ![t] = s]
    BY Zenon DEF BeginCheck, memVars, prepVars, bodyVars, outVars, laneVars, waveVars
<1>2. PICK s \in {"refused", "opening"} : st' = [st EXCEPT ![t] = s]
    BY Zenon, <1>1
<1>3. st[t] \notin {"opening", "active", "staged"} /\ t \notin alive
    BY <1>1, TxnsAreNumbers DEF ControlInv, BusyBelow
<1>4. ControlTypeOK'
    BY <1>1, <1>2 DEF ControlInv, ControlTypeOK, States
<1>5. LanePhases' /\ Disjoint' /\ PendIsFunction'
    BY <1>1 DEF ControlInv, LanePhases, Disjoint, PendIsFunction
<1>6. SentIsTold' /\ ReserveOwner'
    BY <1>1, <1>2, <1>3 DEF ControlInv, ControlTypeOK, SentIsTold, ReserveOwner
<1>7. BusyBelow'
    BY <1>1, <1>2, TxnsAreNumbers DEF ControlInv, ControlTypeOK, BusyBelow
<1>8. NoLostCommitter'
    BY <1>1, <1>2, <1>3, RangeInTxns, ZenonT(60) DEF ControlInv, ControlTypeOK, NoLostCommitter
<1>9. ClosedIsQuiet'
    BY <1>1, <1>2, ZenonT(60) DEF ControlInv, ControlTypeOK, ClosedIsQuiet, Registered
<1> QED BY <1>4, <1>5, <1>6, <1>7, <1>8, <1>9 DEF ControlInv

\* A transaction that is opening or active, and owns no reservation, changes
\* its state.
LEMMA StateMoves ==
    ASSUME ControlInv, NEW t \in Txns,
           NEW s \in States \ {"staged"},
           \/ st[t] = "opening" /\ (s = "active" => ~closed)
           \/ st[t] = "active" /\ pend[t].op = "none",
           s \in {"opening", "active"} => st[t] \in {"opening", "active"},
           st' = [st EXCEPT ![t] = s],
           PendIsFunction',
           \A u \in Txns \ {t} : pend'[u] = pend[u],
           UNCHANGED <<outcome, queue, members, alive, phase, closed, lane, nextTxn>>
    PROVE  ControlInv'
<1>1. t \notin alive
    BY ZenonT(60) DEF ControlInv, SentIsTold, NoLostCommitter
<1>2. ControlTypeOK'
    BY DEF ControlInv, ControlTypeOK
<1>3. LanePhases' /\ Disjoint'
    BY DEF ControlInv, LanePhases, Disjoint
<1>4. SentIsTold'
    BY <1>1, ZenonT(60) DEF ControlInv, ControlTypeOK, SentIsTold
<1>5. ReserveOwner'
    BY ZenonT(60) DEF ControlInv, ControlTypeOK, ReserveOwner
<1>6. BusyBelow'
    BY SMTT(60) DEF ControlInv, ControlTypeOK, BusyBelow
<1>7. NoLostCommitter'
    BY <1>1, RangeInTxns, ZenonT(60) DEF ControlInv, ControlTypeOK, NoLostCommitter
<1>8. ClosedIsQuiet'
    BY ZenonT(60) DEF ControlInv, ControlTypeOK, ClosedIsQuiet, Registered
<1> QED BY <1>2, <1>3, <1>4, <1>5, <1>6, <1>7, <1>8, ZenonT(60) DEF ControlInv

LEMMA BeginRegisterStep ==
    ASSUME ControlInv, NEW t \in Txns, BeginRegister(t)
    PROVE  ControlInv'
<1>1. /\ st[t] = "opening"
      /\ UNCHANGED <<outcome, queue, members, alive, phase, closed, lane, nextTxn, pend>>
      /\ st' = [st EXCEPT ![t] = IF closed THEN "refused" ELSE "active"]
    BY DEF BeginRegister, memVars, prepVars, outVars, laneVars, waveVars, idVars
<1>2. PendIsFunction'
    BY <1>1 DEF ControlInv, PendIsFunction
<1>3. CASE closed
    BY Zenon, <1>1, <1>2, <1>3, StateMoves DEF States
<1>4. CASE ~closed
    BY Zenon, <1>1, <1>2, <1>4, StateMoves DEF States
<1> QED BY <1>3, <1>4

LEMMA EndTxnStep ==
    ASSUME ControlInv, NEW t \in Txns, NEW s \in {"aborted", "finished"},
           Running(t), EndTxn(t, s),
           UNCHANGED <<memVars, idVars, prepVars, outVars, laneVars>>
    PROVE  ControlInv'
<1>1. /\ st[t] = "active" /\ pend[t].op = "none"
      /\ st' = [st EXCEPT ![t] = s] /\ pend' = [pend EXCEPT ![t] = NoPend]
      /\ UNCHANGED <<outcome, queue, members, alive, phase, closed, lane, nextTxn>>
    BY ZenonT(60) DEF Running, EndTxn, memVars, idVars, prepVars, outVars, laneVars, waveVars
<1>2. PendIsFunction' /\ \A u \in Txns \ {t} : pend'[u] = pend[u]
    BY <1>1 DEF ControlInv, PendIsFunction
<1>3. s \in States \ {"staged"} /\ s \notin {"opening", "active"}
    BY DEF States
<1> QED BY Zenon, <1>1, <1>2, <1>3, StateMoves

LEMMA StageStep ==
    ASSUME ControlInv, NEW t \in Txns, Stage(t)
    PROVE  ControlInv'
<1>1. PICK reject \in BOOLEAN :
        /\ closed => reject
        /\ outcome' = [outcome EXCEPT ![t] = IF reject THEN "failed" ELSE "none"]
        /\ queue' = IF reject THEN queue ELSE Append(queue, t)
  <2> DEFINE reads == preads[t] \ Written(t)
             reject(oversize) ==
                       \/ closed
                       \/ oversize
                       \/ reject_unpublished_conflicts(t, reads, pKeys, pTrees)
                       \/ reject_unpublished_conflicts(t, reads, uKeys, uTrees)
  <2>1. PICK oversize \in BOOLEAN :
            /\ outcome' = [outcome EXCEPT ![t] = IF reject(oversize) THEN "failed" ELSE "none"]
            /\ queue' = IF reject(oversize) THEN queue ELSE Append(queue, t)
    BY ZenonT(60) DEF Stage
  <2> QED BY Zenon, <2>1
<1>2. /\ st[t] = "active" /\ pend[t].op = "none"
      /\ st' = [st EXCEPT ![t] = "staged"]
      /\ UNCHANGED <<members, alive, phase, closed, lane, pend, nextTxn>>
    BY ZenonT(60) DEF Stage, Running, memVars, idVars, laneVars, waveVars
<1>3. ~closed
    BY <1>2 DEF ControlInv, ClosedIsQuiet, Registered
<1>4. t \notin alive /\ t \notin Range(queue) \cup Range(members)
    BY <1>2 DEF ControlInv, SentIsTold, NoLostCommitter
<1>5. queue' \in Seq(Txns) /\ Range(queue') = IF reject THEN Range(queue) ELSE Range(queue) \cup {t}
    BY Zenon, <1>1, AppendRange DEF ControlInv, ControlTypeOK
<1>6. ControlTypeOK'
    BY <1>1, <1>2, <1>5, ZenonT(60) DEF ControlInv, ControlTypeOK, States, Outcomes
<1>7. LanePhases' /\ ReserveOwner' /\ PendIsFunction' /\ ClosedIsQuiet'
    BY <1>2, <1>3, ZenonT(60) DEF ControlInv, ControlTypeOK, LanePhases, ReserveOwner, PendIsFunction,
        ClosedIsQuiet
<1>8. Disjoint'
    BY <1>2, <1>4, <1>5, ZenonT(60) DEF ControlInv, Disjoint
<1>9. SentIsTold' /\ BusyBelow'
    BY <1>1, <1>2, <1>4, ZenonT(60) DEF ControlInv, ControlTypeOK, SentIsTold, BusyBelow
<1>10. NoLostCommitter'
    BY <1>1, <1>2, <1>4, <1>5, RangeInTxns, ZenonT(60) DEF ControlInv, ControlTypeOK, NoLostCommitter
<1> QED BY <1>6, <1>7, <1>8, <1>9, <1>10 DEF ControlInv

\* A committer that has its outcome leaves; in a wave it leaves for good.
LEMMA SettleStep ==
    ASSUME ControlInv, NEW t \in Txns, Settle(t)
    PROVE  ControlInv'
<1>1. /\ st[t] = "staged" /\ outcome[t] # "none"
      /\ UNCHANGED <<queue, members, alive, phase, closed, lane, nextTxn>>
    BY ZenonT(60) DEF Settle, memVars, idVars, prepVars, laneVars, waveVars
<1>2. \E s \in {"committed", "recovery", "active"} :
        /\ st' = [st EXCEPT ![t] = s]
        /\ s = "active" => DbFree
        /\ pend' = pend \/ pend' = [pend EXCEPT ![t] = NoPend]
        /\ outcome' = outcome \/ (s = "active" /\ outcome' = [outcome EXCEPT ![t] = "none"])
    BY ZenonT(60) DEF Settle, EndTxn, outVars, bodyVars
<1>3. PICK s \in {"committed", "recovery", "active"} :
        /\ st' = [st EXCEPT ![t] = s]
        /\ s = "active" => DbFree
        /\ pend' = pend \/ pend' = [pend EXCEPT ![t] = NoPend]
        /\ outcome' = outcome \/ (s = "active" /\ outcome' = [outcome EXCEPT ![t] = "none"])
    BY Zenon, <1>2
<1>4. t \notin Range(queue) \cup Range(members)
    BY <1>1, ZenonT(60) DEF ControlInv, NoLostCommitter
<1>5. t \in alive => phase = "sent"
    BY <1>1 DEF ControlInv, NoLostCommitter
<1>6. s = "active" => t \notin alive /\ phase # "sent"
    BY <1>3, <1>5 DEF DbFree
<1>7. ControlTypeOK'
    BY <1>1, <1>3 DEF ControlInv, ControlTypeOK, States, Outcomes
<1>8. LanePhases' /\ Disjoint'
    BY <1>1 DEF ControlInv, LanePhases, Disjoint
<1>9. PendIsFunction' /\ ReserveOwner'
    BY <1>1, <1>3 DEF ControlInv, ControlTypeOK, PendIsFunction, ReserveOwner
<1>10. SentIsTold' /\ BusyBelow'
    BY <1>1, <1>3, <1>6, ZenonT(60) DEF ControlInv, ControlTypeOK, SentIsTold, BusyBelow
<1>11. NoLostCommitter'
    BY <1>1, <1>3, <1>4, <1>5, <1>6, RangeInTxns, ZenonT(60) DEF ControlInv, ControlTypeOK, NoLostCommitter
<1>12. ClosedIsQuiet'
    BY <1>1, <1>3, ZenonT(60) DEF ControlInv, ControlTypeOK, ClosedIsQuiet, Registered
<1> QED BY <1>7, <1>8, <1>9, <1>10, <1>11, <1>12, ZenonT(60) DEF ControlInv

LEMMA VerbStep ==
    ASSUME ControlInv, NEW t \in Txns, NEW op, NEW tree, NEW k, NEW v, StageVerb(t, op, tree, k, v)
    PROVE  ControlInv'
<1>1. /\ pend[t].op = "none"
      /\ UNCHANGED <<st, outcome, queue, members, alive, phase, closed, lane, nextTxn>>
      /\ UNCHANGED pend \/ \E p : pend' = [pend EXCEPT ![t] = p]
    BY ZenonT(60) DEF StageVerb, Running, memVars, idVars, prepVars, outVars, laneVars, waveVars
<1>2. CASE UNCHANGED pend
    BY <1>1, <1>2, SameControl DEF ctl
<1>3. CASE \E p : pend' = [pend EXCEPT ![t] = p]
    BY Zenon, <1>1, <1>3, PendMoves
<1> QED BY <1>1, <1>2, <1>3, SMTT(60)

LEMMA ResolveTreeStep ==
    ASSUME ControlInv, NEW t \in Txns, ResolveTree(t)
    PROVE  ControlInv'
<1>1. /\ pend[t].op # "create"
      /\ pend' = [pend EXCEPT ![t] = NoPend]
      /\ UNCHANGED <<st, outcome, queue, members, alive, phase, closed, lane, nextTxn>>
    BY ZenonT(60) DEF ResolveTree, memVars, idVars, prepVars, outVars, laneVars, waveVars
<1> QED BY Zenon, <1>1, PendMoves

LEMMA CreateTreeStep ==
    ASSUME ControlInv, NEW t \in Txns, CreateTree(t)
    PROVE  ControlInv'
<1>1. /\ st[t] = "active"
      /\ phase = "idle" /\ phase' = "coalesce"
      /\ lane' = [NoLane EXCEPT !.op = "reserve", !.txn = t, !.tree = nextTree]
      /\ pend' = [pend EXCEPT ![t] = [NoPend EXCEPT !.op = "create", !.tree = nextTree]]
      /\ UNCHANGED <<st, outcome, queue, members, alive, closed, nextTxn>>
    BY DEF CreateTree, Running, TakeLane, memVars, prepVars, outVars, waveVars
<1>2. lane'.txn = t
    BY <1>1 DEF NoLane
<1>3. PendIsFunction' /\ pend'[t].op = "create"
    BY Zenon, <1>1 DEF ControlInv, PendIsFunction, NoPend
<1> QED BY <1>1, <1>2, <1>3, LaneIsTaken

LEMMA TakeLaneStep ==
    ASSUME ControlInv, NEW op, op.op # "reserve", TakeLane(op),
           UNCHANGED <<memVars, idVars, prepVars, st, bodyVars, outVars, waveVars>>
    PROVE  ControlInv'
<1>1. /\ phase = "idle" /\ phase' = "coalesce" /\ lane' = op
      /\ UNCHANGED <<st, outcome, queue, members, alive, closed, nextTxn, pend>>
    BY DEF TakeLane, memVars, idVars, prepVars, bodyVars, outVars, waveVars
<1>2. PendIsFunction'
    BY <1>1 DEF ControlInv, PendIsFunction
<1> QED BY <1>1, <1>2, LaneIsTaken

LEMMA TxnSteps ==
    ASSUME ControlInv, NEW t \in Txns, TxnStep(t)
    PROVE  ControlInv'
<1>1. CASE BeginCheck(t) \/ BeginRegister(t)
    BY <1>1, BeginCheckStep, BeginRegisterStep, ZenonT(60)
<1>2. CASE \E tree \in Trees : DropTree(t, tree) \/ \E k \in Keys : Put(t, tree, k) \/ Delete(t, tree, k)
    BY <1>2, VerbStep, ZenonT(60) DEF DropTree, Put, Delete
<1>3. CASE \E tree \in Trees, k \in Keys : Get(t, tree, k)
  <2>1. UNCHANGED ctl
    BY <1>3, ZenonT(60) DEF Get, ctl, memVars, idVars, prepVars, outVars, laneVars, waveVars
  <2> QED BY <2>1, SameControl, SMTT(60)
<1>4. CASE \E r \in Ranges : Scan(t, r)
  <2>1. UNCHANGED ctl
    BY <1>4, ZenonT(60) DEF Scan, ctl, memVars, idVars, prepVars, outVars, laneVars, waveVars
  <2> QED BY <2>1, SameControl
<1>5. CASE Abort(t)
    BY <1>5, EndTxnStep DEF Abort
<1>6. CASE CommitReadOnly(t)
    BY <1>6, EndTxnStep DEF CommitReadOnly
<1>7. CASE ResolveTree(t) \/ Stage(t) \/ Settle(t) \/ CreateTree(t)
    BY <1>7, ResolveTreeStep, StageStep, SettleStep, CreateTreeStep
<1>8. CASE LeadWave(t)
  <2>1. [NoLane EXCEPT !.op = "commit", !.txn = t].op # "reserve"
    BY DEF NoLane
  <2> QED BY Zenon, <1>8, <2>1, TakeLaneStep DEF LeadWave
<1> QED BY <1>1, <1>2, <1>3, <1>4, <1>5, <1>6, <1>7, <1>8, ZenonT(60) DEF TxnStep

-----------------------------------------------------------------------------
(* The steps of the lane.                                                   *)

LEMMA TakeStagedStep ==
    ASSUME ControlInv, TakeStaged
    PROVE  ControlInv'
<1>1. /\ phase = "coalesce" /\ members' = queue /\ queue' = <<>>
      /\ UNCHANGED <<st, outcome, alive, closed, pend, nextTxn>>
      /\ \/ queue = <<>> /\ lane.op = "commit" /\ lane' = NoLane /\ phase' = "idle"
         \/ phase' = "drained" /\ lane' = lane
    BY ZenonT(60) DEF TakeStaged, memVars, idVars, bodyVars, outVars
<1>2. members = <<>> /\ alive = {}
    BY <1>1, SMTT(60) DEF ControlInv, LanePhases
<1>3. ControlTypeOK' /\ LanePhases' /\ Disjoint' /\ SentIsTold'
    BY <1>1, <1>2, EmptyRange, ZenonT(60) DEF ControlInv, ControlTypeOK, LanePhases, Disjoint, SentIsTold,
        Phases, OwnPhases, WavePhases
<1>4. BusyBelow' /\ PendIsFunction'
    BY <1>1, <1>2, SMTT(60) DEF ControlInv, BusyBelow, PendIsFunction
<1>6. ReserveOwner'
    BY <1>1, NoLaneIsIdle, ZenonT(60) DEF ControlInv, ReserveOwner
<1>5. NoLostCommitter' /\ ClosedIsQuiet'
    BY <1>1, <1>2, EmptyRange, ZenonT(60) DEF ControlInv, NoLostCommitter, ClosedIsQuiet, Registered
<1> QED BY <1>3, <1>4, <1>5, <1>6, SMTT(60) DEF ControlInv

\* Of the drained commits some pass; the others get their failure here.
LEMMA BuildWaveStep ==
    ASSUME ControlInv, BuildWave
    PROVE  ControlInv'
<1>1. PICK passed \in SUBSET Range(members) :
        /\ alive' = passed
        /\ outcome' = [t \in Txns |-> IF t \notin Range(members) \ passed THEN outcome[t]
                                      ELSE IF fenced THEN "recovery" ELSE "failed"]
        /\ phase' = IF passed = {} THEN "sent" ELSE "built"
  <2> DEFINE valid == {t \in Range(members) : ~fenced /\ validate_against_published(t)}
  <2>1. PICK cut, n : BuildMembers(valid, cut, n)
    BY Zenon DEF BuildWave
  <2>2. /\ alive' = valid \ cut
        /\ outcome' = [t \in Txns |-> IF t \notin Range(members) \ (valid \ cut) THEN outcome[t]
                                      ELSE IF fenced THEN "recovery" ELSE "failed"]
        /\ phase' = IF valid \ cut = {} THEN "sent" ELSE "built"
    BY <2>1, Zenon DEF BuildMembers
  <2>3. valid \ cut \in SUBSET Range(members)
    BY Zenon
  <2> HIDE DEF valid
  <2> QED BY <2>2, <2>3, Zenon
<1>2. /\ phase = "drained" /\ members' = <<>>
      /\ UNCHANGED <<st, queue, closed, lane, pend, nextTxn>>
    BY Zenon DEF BuildWave, memVars, idVars, prepVars, bodyVars
<1>3. /\ alive = {} /\ passed \subseteq Txns /\ passed \cap Range(queue) = {}
      /\ \A t \in passed : st[t] = "staged" /\ outcome[t] = "none" /\ outcome'[t] = "none"
    BY <1>1, <1>2, RangeInTxns, ZenonT(60) DEF ControlInv, ControlTypeOK, LanePhases, Disjoint, NoLostCommitter
<1>4. ControlTypeOK' /\ LanePhases'
    BY <1>1, <1>2, <1>3, SMTT(60) DEF ControlInv, ControlTypeOK, LanePhases, Phases, OwnPhases, WavePhases,
        Outcomes
<1>5. Disjoint' /\ SentIsTold'
    BY <1>1, <1>2, <1>3, EmptyRange, ZenonT(60) DEF ControlInv, Disjoint, SentIsTold
<1>6. BusyBelow' /\ ReserveOwner' /\ PendIsFunction'
    BY <1>1, <1>2, <1>3, ZenonT(60) DEF ControlInv, BusyBelow, ReserveOwner, PendIsFunction
<1>7. NoLostCommitter'
    BY <1>1, <1>2, <1>3, EmptyRange, RangeInTxns, ZenonT(60) DEF ControlInv, ControlTypeOK, NoLostCommitter,
        Disjoint
<1>8. ClosedIsQuiet'
    BY <1>1, <1>2, EmptyRange, ZenonT(60) DEF ControlInv, ClosedIsQuiet, Registered
<1> QED BY <1>4, <1>5, <1>6, <1>7, <1>8, SMTT(60) DEF ControlInv

LEMMA EndWaveStep ==
    ASSUME ControlInv, EndWave
    PROVE  ControlInv'
<1>1. /\ phase = "sent" /\ members' = <<>> /\ alive' = {}
      /\ UNCHANGED <<st, outcome, queue, closed, pend, nextTxn>>
      /\ \/ lane' = NoLane /\ phase' = "idle"
         \/ lane' = lane /\ phase' = "own"
    BY ZenonT(60) DEF EndWave, memVars, idVars, bodyVars, outVars
<1>2. members = <<>> /\ \A t \in alive : outcome[t] # "none"
    BY <1>1, ZenonT(60) DEF ControlInv, LanePhases, SentIsTold, WavePhases
<1>3. ControlTypeOK' /\ LanePhases' /\ Disjoint' /\ SentIsTold'
    BY <1>1, EmptyRange, ZenonT(60) DEF ControlInv, ControlTypeOK, LanePhases, Disjoint, SentIsTold, Phases,
        OwnPhases, WavePhases
<1>4. BusyBelow' /\ PendIsFunction'
    BY <1>1, ZenonT(60) DEF ControlInv, BusyBelow, PendIsFunction
<1>6. ReserveOwner'
    BY <1>1, NoLaneIsIdle, ZenonT(60) DEF ControlInv, ReserveOwner
<1>5. NoLostCommitter' /\ ClosedIsQuiet'
    BY <1>1, <1>2, EmptyRange, ZenonT(60) DEF ControlInv, NoLostCommitter, ClosedIsQuiet, Registered
<1> QED BY <1>3, <1>4, <1>5, <1>6, ZenonT(60) DEF ControlInv

LEMMA WaveOutcomes ==
    ASSUME ControlInv,
           WaveSyncFails \/ WaveRefused \/ WaveUncertain \/ WaveCapacity \/ SendOutcomes
    PROVE  ControlInv'
<1>1. \E result \in Outcomes \ {"none"} :
        /\ phase \in WavePhases \ {"sent"} /\ phase' = "sent"
        /\ outcome' = [t \in Txns |-> IF t \in alive THEN result ELSE outcome[t]]
        /\ UNCHANGED <<st, queue, members, alive, closed, lane, pend, nextTxn>>
  <2>1. CASE WaveSyncFails
    BY <2>1, ZenonT(60) DEF WaveSyncFails, ResolveGroup, Outcomes, WavePhases, memVars, idVars, prepVars,
        bodyVars, waveVars
  <2>2. CASE WaveRefused
    BY <2>2, ZenonT(60) DEF WaveRefused, ResolveGroup, Outcomes, WavePhases, memVars, idVars, prepVars,
        bodyVars, waveVars
  <2>3. CASE WaveUncertain
    BY <2>3, ZenonT(60) DEF WaveUncertain, ResolveGroup, Outcomes, WavePhases, idVars, prepVars, bodyVars,
        waveVars
  <2>4. CASE WaveCapacity
    BY <2>4, SMTT(60) DEF WaveCapacity, ResolveGroup, Outcomes, WavePhases, memVars, idVars, prepVars,
        bodyVars, waveVars
  <2>5. CASE SendOutcomes
    BY <2>5, ZenonT(60) DEF SendOutcomes, Outcomes, WavePhases, memVars, idVars, prepVars, bodyVars, waveVars
  <2> QED BY <2>1, <2>2, <2>3, <2>4, <2>5, ZenonT(60)
<1> QED BY <1>1, WaveIsTold, ZenonT(60)

LEMMA WaveGoesOn ==
    ASSUME ControlInv, WavePublish \/ InstallPosition \/ InstallMirror \/ InstallStatuses
    PROVE  ControlInv'
<1>1. /\ UNCHANGED <<st, outcome, queue, members, alive, closed, pend, nextTxn, lane>>
      /\ phase \in WavePhases \ {"sent"} /\ phase' \in WavePhases \ {"sent"}
      /\ phase' \notin {"reserved", "recorded"}
  <2>1. CASE WavePublish
    BY <2>1, ZenonT(60) DEF WavePublish, WavePhases, memVars, idVars, prepVars, bodyVars, outVars, waveVars
  <2>2. CASE InstallPosition
    BY <2>2, ZenonT(60) DEF InstallPosition, WavePhases, idVars, prepVars, bodyVars, outVars, waveVars
  <2>3. CASE InstallMirror
    BY <2>3, ZenonT(60) DEF InstallMirror, WavePhases, idVars, prepVars, bodyVars, outVars, waveVars
  <2>4. CASE InstallStatuses
    BY <2>4, ZenonT(60) DEF InstallStatuses, WavePhases, idVars, prepVars, bodyVars, outVars, waveVars
  <2> QED BY <2>1, <2>2, <2>3, <2>4, ZenonT(60)
<1> QED BY <1>1, LaneGoesOn, SMTT(60)

LEMMA OwnWorkGoesOn ==
    ASSUME ControlInv, ReservePublish \/ ReserveMirror \/ GcWatermark \/ GcRewrite \/ GcMirror \/ GcFloor
    PROVE  ControlInv'
<1>1. /\ UNCHANGED <<st, outcome, queue, members, alive, closed, pend, nextTxn>>
      /\ phase \in OwnPhases /\ phase' \in OwnPhases
      /\ lane' = lane \/ lane'.op # "reserve"
      /\ phase' \in {"reserved", "recorded"} => lane'.op = "reserve"
  <2>1. CASE ReservePublish
    BY <2>1, ZenonT(60) DEF ReservePublish, OwnPhases, idVars, prepVars, bodyVars, outVars, waveVars
  <2>2. CASE GcWatermark
    BY <2>2, ZenonT(60) DEF GcWatermark, NoLane, OwnPhases, memVars, idVars, prepVars, bodyVars, outVars,
        waveVars
  <2>3. CASE GcRewrite
    BY <2>3, ZenonT(60) DEF GcRewrite, NoLane, OwnPhases, idVars, prepVars, bodyVars, outVars, waveVars
  <2>4. CASE GcMirror
    BY <2>4, ZenonT(60) DEF GcMirror, OwnPhases, idVars, prepVars, bodyVars, outVars, waveVars
  <2>5. CASE GcFloor
    BY <2>5, ZenonT(60) DEF GcFloor, NoLane, OwnPhases, memVars, idVars, prepVars, bodyVars, outVars, waveVars
  <2>6. CASE ReserveMirror
    BY <2>6, ZenonT(60) DEF ReserveMirror, ControlInv, LanePhases, OwnPhases, idVars, prepVars, bodyVars, outVars,
        waveVars
  <2> QED BY <2>1, <2>2, <2>3, <2>4, <2>5, <2>6, ZenonT(60)
<1> QED BY <1>1, LaneGoesOn, ZenonT(60)

LEMMA ReservationEnds ==
    ASSUME ControlInv,
           ReserveInstall \/ ReserveRefused \/ ReserveFenced \/ ReserveUncertain \/ ReserveCapacity
    PROVE  ControlInv'
<1>1. /\ phase \in OwnPhases
      /\ lane' = NoLane /\ phase' = "idle" /\ members' = <<>> /\ alive' = {}
      /\ pend' = [pend EXCEPT ![lane.txn] = NoPend]
      /\ st' = st \/ st' = [st EXCEPT ![lane.txn] = "recovery"]
      /\ UNCHANGED <<outcome, queue, closed, nextTxn>>
  <2>1. CASE ReserveInstall
    BY <2>1, ZenonT(60) DEF ReserveInstall, FreeLane, OwnPhases, idVars, prepVars, outVars
  <2>2. CASE ReserveRefused
    BY <2>2, ZenonT(60) DEF ReserveRefused, FreeLane, OwnPhases, memVars, idVars, prepVars, outVars
  <2>3. CASE ReserveFenced
    BY <2>3, ZenonT(60) DEF ReserveFenced, EndTxn, FreeLane, OwnPhases, memVars, idVars, prepVars, outVars
  <2>4. CASE ReserveUncertain
    BY <2>4, ZenonT(60) DEF ReserveUncertain, EndTxn, FreeLane, OwnPhases, memVars, idVars, prepVars, outVars
  <2>5. CASE ReserveCapacity
    BY <2>5, ZenonT(60) DEF ReserveCapacity, FreeLane, OwnPhases, memVars, idVars, prepVars, outVars
  <2> QED BY <2>1, <2>2, <2>3, <2>4, <2>5, ZenonT(60)
<1>2. lane.op = "reserve"
    BY ZenonT(60) DEF ControlInv, LanePhases, ReserveInstall, ReserveRefused, ReserveFenced, ReserveUncertain,
        ReserveCapacity
<1>3. lane.txn \in Txns /\ st[lane.txn] = "active"
    BY <1>2, ZenonT(60) DEF ControlInv, ReserveOwner
<1> QED BY Zenon, <1>1, <1>3, LaneIsFreed

LEMMA OperationEnds ==
    ASSUME ControlInv,
           \/ WriteLease \/ LeaseUnmoved \/ GcFails \/ GcCompact \/ GcCompactFails
           \/ GcPrune \/ GcPruneNothing \/ LaneClosed
    PROVE  ControlInv'
<1>1. /\ phase \in OwnPhases \/ (phase = "drained" /\ closed)
      /\ lane' = NoLane /\ phase' = "idle" /\ members' = <<>> /\ alive' = {}
      /\ UNCHANGED <<st, pend, outcome, queue, closed, nextTxn>>
  <2>1. CASE WriteLease \/ LeaseUnmoved
    BY <2>1, ZenonT(60) DEF WriteLease, LeaseUnmoved, FreeLane, OwnPhases, idVars, prepVars, bodyVars, outVars
  <2>2. CASE GcFails
    BY <2>2, ZenonT(60) DEF GcFails, FreeLane, OwnPhases, idVars, prepVars, bodyVars, outVars
  <2>3. CASE GcCompact \/ GcCompactFails
    BY <2>3, ZenonT(60) DEF GcCompact, GcCompactFails, FreeLane, OwnPhases, idVars, prepVars, bodyVars, outVars
  <2>4. CASE GcPrune \/ GcPruneNothing
    BY <2>4, ZenonT(60) DEF GcPrune, GcPruneNothing, FreeLane, OwnPhases, idVars, prepVars, bodyVars, outVars
  <2>5. CASE LaneClosed
    BY <2>5, ZenonT(60) DEF LaneClosed, FreeLane, memVars, idVars, bodyVars, outVars
  <2> QED BY <2>1, <2>2, <2>3, <2>4, <2>5, ZenonT(60)
<1> QED BY <1>1, LaneIsFreed, ZenonT(60)

LEMMA LaneSteps ==
    ASSUME ControlInv, LaneStep
    PROVE  ControlInv'
<1>1. CASE TakeStaged \/ BuildWave \/ EndWave
    BY <1>1, TakeStagedStep, BuildWaveStep, EndWaveStep
<1>2. CASE WaveSyncFails \/ WaveRefused \/ WaveUncertain \/ WaveCapacity \/ SendOutcomes
    BY <1>2, WaveOutcomes
<1>3. CASE WavePublish \/ InstallPosition \/ InstallMirror \/ InstallStatuses
    BY <1>3, WaveGoesOn
<1>4. CASE ReservePublish \/ ReserveMirror \/ GcWatermark \/ GcRewrite \/ GcMirror \/ GcFloor
    BY <1>4, OwnWorkGoesOn
<1>5. CASE ReserveInstall \/ ReserveRefused \/ ReserveFenced \/ ReserveUncertain \/ ReserveCapacity
    BY <1>5, ReservationEnds
<1>6. CASE \/ WriteLease \/ LeaseUnmoved \/ GcFails \/ GcCompact \/ GcCompactFails
           \/ GcPrune \/ GcPruneNothing \/ LaneClosed
    BY <1>6, OperationEnds
<1> QED BY <1>1, <1>2, <1>3, <1>4, <1>5, <1>6 DEF LaneStep

-----------------------------------------------------------------------------
(* The database as a whole.                                                 *)

\* close finds no registered transaction, so nothing is queued or drained.
LEMMA CloseStep ==
    ASSUME ControlInv, Close
    PROVE  ControlInv'
<1>1. /\ DbFree /\ Registered = {} /\ closed' = TRUE
      /\ UNCHANGED <<st, outcome, queue, members, alive, phase, lane, pend, nextTxn>>
    BY Zenon DEF Close, idVars, prepVars, bodyVars, outVars, laneVars, waveVars
<1>2. Range(queue) = {} /\ Range(members) = {} /\ alive = {}
    BY <1>1, RangeInTxns, ZenonT(60) DEF ControlInv, ControlTypeOK, NoLostCommitter, Registered, LanePhases,
        DbFree
<1>3. queue = <<>> /\ members = <<>>
    BY <1>2, OnlyEmptyHasNoRange, SMTT(60) DEF ControlInv, ControlTypeOK
<1>4. ControlTypeOK' /\ LanePhases' /\ Disjoint' /\ SentIsTold' /\ BusyBelow'
    BY <1>1, ZenonT(60) DEF ControlInv, ControlTypeOK, LanePhases, Disjoint, SentIsTold, BusyBelow
<1>5. ReserveOwner' /\ PendIsFunction'
    BY <1>1, SMTT(60) DEF ControlInv, ReserveOwner, PendIsFunction
<1>6. NoLostCommitter' /\ ClosedIsQuiet'
    BY <1>1, <1>2, <1>3, ZenonT(60) DEF ControlInv, NoLostCommitter, ClosedIsQuiet, Registered
<1> QED BY <1>4, <1>5, <1>6 DEF ControlInv

\* A reopened database has nothing running.
LEMMA ReopenStep ==
    ASSUME ControlInv, NEW n, Reopen(n)
    PROVE  ControlInv'
<1>1. /\ closed' = FALSE /\ queue' = <<>> /\ members' = <<>> /\ alive' = {}
      /\ lane' = NoLane /\ phase' = "idle"
      /\ st' = [t \in Txns |->
                  IF st[t] \in {"opening", "active", "staged"} THEN "lost" ELSE st[t]]
      /\ outcome' = [t \in Txns |-> IF st[t] = "committed" THEN outcome[t] ELSE "none"]
      /\ pend' = [t \in Txns |-> NoPend]
    BY Zenon DEF Reopen
<1>2. ControlTypeOK'
  <2>1. st' \in [Txns -> States]
    BY <1>1, ZenonT(60) DEF ControlInv, ControlTypeOK, States
  <2>2. outcome' \in [Txns -> Outcomes]
    BY <1>1, ZenonT(60) DEF ControlInv, ControlTypeOK, Outcomes
  <2>3. queue' \in Seq(Txns) /\ members' \in Seq(Txns)
    BY <1>1, EmptyIsSeq, ZenonT(60)
  <2>4. phase' \in Phases
    BY <1>1, ZenonT(60) DEF Phases
  <2> QED BY Zenon, <1>1, <2>1, <2>2, <2>3, <2>4 DEF ControlTypeOK
<1>3. LanePhases' /\ Disjoint' /\ SentIsTold' /\ ReserveOwner'
    BY <1>1, EmptyRange, NoLaneIsIdle, ZenonT(60) DEF LanePhases, Disjoint, SentIsTold, ReserveOwner, WavePhases
<1>4. BusyBelow' /\ PendIsFunction' /\ ClosedIsQuiet'
    BY <1>1, ZenonT(60) DEF BusyBelow, PendIsFunction, ClosedIsQuiet
<1>5. NoLostCommitter'
    BY <1>1, EmptyRange, ZenonT(60) DEF NoLostCommitter
<1> QED BY <1>2, <1>3, <1>4, <1>5, ZenonT(60) DEF ControlInv

LEMMA NextControl == ControlInv /\ [Next]_vars => ControlInv'
<1> SUFFICES ASSUME ControlInv, [Next]_vars PROVE ControlInv'
    BY ZenonT(60)
<1>1. CASE \E t \in Txns : TxnStep(t)
    BY <1>1, TxnSteps
<1>2. CASE LaneStep
    BY <1>2, LaneSteps
<1>3. CASE \E n \in Names, f \in 0..(live.csn + 1) : StartLease(n, f)
  <2> PICK n \in Names, f \in 0..(live.csn + 1) : StartLease(n, f)
    BY <1>3
  <2>1. [NoLane EXCEPT !.op = "lease", !.name = n, !.floor = f].op # "reserve"
    BY DEF NoLane
  <2> QED BY Zenon, <2>1, TakeLaneStep DEF StartLease
<1>4. CASE StartGcVersions
  <2>1. [NoLane EXCEPT !.op = "gc_versions"].op # "reserve"
    BY DEF NoLane
  <2> QED BY Zenon, <1>4, <2>1, TakeLaneStep DEF StartGcVersions
<1>5. CASE StartGcChanges
  <2>1. [NoLane EXCEPT !.op = "gc_changes"].op # "reserve"
    BY DEF NoLane
  <2> QED BY Zenon, <1>5, <2>1, TakeLaneStep DEF StartGcChanges
<1>6. CASE Close
    BY <1>6, CloseStep
<1>7. CASE \E n \in vdur..(vnext - 1) : Reopen(n)
    BY <1>7, ReopenStep
<1>8. CASE CloseFails
  <2>1. UNCHANGED ctl
    BY <1>8, ZenonT(60) DEF CloseFails, ctl, memVars, idVars, prepVars, bodyVars, outVars, laneVars, waveVars
  <2> QED BY <2>1, SameControl, SMTT(60)
<1>9. CASE UNCHANGED vars
  <2>1. UNCHANGED ctl
    BY <1>9, ZenonT(60) DEF vars, ctl, memVars, idVars, prepVars, bodyVars, outVars, laneVars, waveVars
  <2> QED BY <2>1, SameControl, SMTT(60)
<1> QED BY <1>1, <1>2, <1>3, <1>4, <1>5, <1>6, <1>7, <1>8, <1>9, SMTT(60) DEF Next

LEMMA ControlInvariant == Spec => []ControlInv
BY InitControl, NextControl, PTL DEF Spec

\* The control state keeps its types, whatever transactions, control operations,
\* faults and reopens do.
THEOREM ControlTypes == Spec => []ControlTypeOK
<1>1. ControlInv => ControlTypeOK
    BY DEF ControlInv
<1> QED BY <1>1, ControlInvariant, PTL

\* For any number of transactions: a committer that waits (commit_transaction)
\* is queued, drained or in the wave, and what is about to be published by
\* publish_drained has a committer that still waits for it.
THEOREM NoCommitterIsLost == Spec => []NoLostCommitter
<1>1. ControlInv => NoLostCommitter
    BY DEF ControlInv
<1> QED BY <1>1, ControlInvariant, PTL

\* For any number of transactions: once close has returned, no transaction is
\* registered and no commit is staged, drained or being published.
THEOREM CloseIsFinal == Spec => []ClosedIsQuiet
<1>1. ControlInv => ClosedIsQuiet
    BY DEF ControlInv
<1> QED BY <1>1, ControlInvariant, PTL
-----------------------------------------------------------------------------
(* The fence.                                                               *)

\* A wave that is ready to be published found no fence when it was certified.
BuiltUnfenced == phase = "built" => ~fenced

\* What a step keeps: the invariant, and the disk of a fenced handle.
KeepsFence == BuiltUnfenced' /\ (fenced /\ fenced' => disk' = disk)

\* A step that leaves the database alone and builds no wave.
LEMMA DatabaseIsLeft ==
    ASSUME BuiltUnfenced, UNCHANGED <<disk, fenced>>, phase' = phase \/ phase' # "built"
    PROVE  KeepsFence
BY DEF BuiltUnfenced, KeepsFence

\* A step that finds no fence and builds no wave may write.
LEMMA NoFenceIsFound ==
    ASSUME ~fenced, phase' # "built"
    PROVE  KeepsFence
BY DEF BuiltUnfenced, KeepsFence

\* No step of a transaction touches the database; those of the lane are taken
\* one by one.
LEMMA TxnsLeaveDatabase ==
    ASSUME BuiltUnfenced, NEW t \in Txns, TxnStep(t)
    PROVE  KeepsFence
<1>1. UNCHANGED <<disk, fenced>>
  <2>1. CASE BeginCheck(t) \/ BeginRegister(t)
    BY <2>1, Zenon DEF BeginCheck, BeginRegister, dbVars
  <2>2. CASE \E tree \in Trees : DropTree(t, tree) \/ \E k \in Keys : Put(t, tree, k) \/ Delete(t, tree, k)
    BY <2>2, Zenon DEF DropTree, Put, Delete, StageVerb, dbVars
  <2>3. CASE \/ \E tree \in Trees, k \in Keys : Get(t, tree, k)
             \/ \E r \in Ranges : Scan(t, r)
    BY <2>3, Zenon DEF Get, Scan, dbVars
  <2>4. CASE Abort(t) \/ CommitReadOnly(t) \/ ResolveTree(t)
    BY <2>4, Zenon DEF Abort, CommitReadOnly, ResolveTree, dbVars
  <2>5. CASE Stage(t) \/ Settle(t) \/ LeadWave(t) \/ CreateTree(t)
    BY <2>5, Zenon DEF Stage, Settle, LeadWave, CreateTree, dbVars
  <2> QED BY <2>1, <2>2, <2>3, <2>4, <2>5, ZenonT(60) DEF TxnStep
<1>2. phase' = phase \/ phase' = "coalesce"
  <2>1. CASE BeginCheck(t) \/ BeginRegister(t)
    BY <2>1, Zenon DEF BeginCheck, BeginRegister, laneVars
  <2>2. CASE \E tree \in Trees : DropTree(t, tree) \/ \E k \in Keys : Put(t, tree, k) \/ Delete(t, tree, k)
    BY <2>2, Zenon DEF DropTree, Put, Delete, StageVerb, laneVars
  <2>3. CASE \/ \E tree \in Trees, k \in Keys : Get(t, tree, k)
             \/ \E r \in Ranges : Scan(t, r)
    BY <2>3, Zenon DEF Get, Scan, laneVars
  <2>4. CASE Abort(t) \/ CommitReadOnly(t) \/ ResolveTree(t)
    BY <2>4, Zenon DEF Abort, CommitReadOnly, ResolveTree, laneVars
  <2>5. CASE Stage(t) \/ Settle(t) \/ LeadWave(t) \/ CreateTree(t)
    BY <2>5, Zenon DEF Stage, Settle, LeadWave, CreateTree, TakeLane, laneVars
  <2> QED BY <2>1, <2>2, <2>3, <2>4, <2>5, ZenonT(60) DEF TxnStep
<1> QED BY <1>1, <1>2, DatabaseIsLeft

\* No member of a wave is certified behind a fence, so none is built there.
LEMMA WavesAreUnfenced ==
    ASSUME BuiltUnfenced, BuildWave
    PROVE  KeepsFence
<1>1. UNCHANGED <<disk, fenced>>
    BY Zenon DEF BuildWave, dbVars
<1>2. fenced => phase' = "sent"
  <2> SUFFICES ASSUME fenced PROVE phase' = "sent"
    OBVIOUS
  <2> DEFINE valid == {t \in Range(members) : ~fenced /\ validate_against_published(t)}
  <2>1. PICK cut, n : BuildMembers(valid, cut, n)
    BY Zenon DEF BuildWave
  <2>2. valid = {}
    OBVIOUS
  <2>3. phase' = IF valid \ cut = {} THEN "sent" ELSE "built"
    BY <2>1, Zenon DEF BuildMembers
  <2> HIDE DEF valid
  <2> QED BY <2>2, <2>3
<1> QED BY <1>1, <1>2 DEF KeepsFence, BuiltUnfenced

LEMMA LaneKeepsFence ==
    ASSUME BuiltUnfenced, LaneStep
    PROVE  KeepsFence
<1>1. CASE BuildWave
    BY <1>1, WavesAreUnfenced, ZenonT(60)
<1>2. CASE \/ TakeStaged \/ LaneClosed \/ WaveSyncFails \/ WaveRefused
  <2>1. UNCHANGED <<disk, fenced>> /\ phase' # "built"
    BY <1>2, Zenon DEF TakeStaged, LaneClosed, WaveSyncFails, WaveRefused, FreeLane, dbVars
  <2> QED BY <2>1, DatabaseIsLeft
<1>3. CASE InstallPosition \/ InstallMirror \/ InstallStatuses \/ SendOutcomes \/ EndWave
  <2>1. UNCHANGED <<disk, fenced>> /\ phase' # "built"
    BY <1>3, Zenon DEF InstallPosition, InstallMirror, InstallStatuses, SendOutcomes, EndWave,
        dbVars
  <2> QED BY <2>1, DatabaseIsLeft
<1>4. CASE WavePublish \/ WaveUncertain \/ WaveCapacity
  <2>1. ~fenced /\ phase' # "built"
    BY <1>4, Zenon DEF WavePublish, WaveUncertain, WaveCapacity, BuiltUnfenced
  <2> QED BY <2>1, NoFenceIsFound
<1>5. CASE ReservePublish \/ ReserveRefused \/ ReserveUncertain \/ ReserveCapacity
  <2>1. ~fenced /\ phase' # "built"
    BY <1>5, Zenon DEF ReservePublish, ReserveRefused, ReserveUncertain, ReserveCapacity, FreeLane
  <2> QED BY <2>1, NoFenceIsFound
<1>6. CASE ReserveMirror \/ ReserveInstall \/ ReserveFenced \/ GcWatermark \/ GcFloor \/ GcMirror \/ GcCompact
  <2>1. UNCHANGED <<disk, fenced>> /\ phase' # "built"
    BY <1>6, Zenon DEF ReserveMirror, ReserveInstall, ReserveFenced, GcWatermark, GcFloor, GcMirror, GcCompact,
        FreeLane, dbVars
  <2> QED BY <2>1, DatabaseIsLeft
<1>7. CASE WriteLease \/ GcPrune
  <2>1. ~fenced /\ phase' # "built"
    BY <1>7, Zenon DEF WriteLease, GcPrune, Maintenance, FreeLane
  <2> QED BY <2>1, NoFenceIsFound
<1>8. CASE GcRewrite
  <2>1. ~fenced /\ phase' # "built"
    BY <1>8, Zenon DEF GcRewrite
  <2> QED BY <2>1, NoFenceIsFound
<1>9. CASE LeaseUnmoved \/ GcFails \/ GcPruneNothing
  <2>1. (~fenced \/ UNCHANGED <<disk, fenced>>) /\ phase' # "built"
    BY <1>9, Zenon DEF LeaseUnmoved, GcFails, GcPruneNothing, MaintenanceFails, FreeLane, dbVars
  <2> QED BY <2>1, DatabaseIsLeft, NoFenceIsFound
<1>10. CASE GcCompactFails
  <2>1. disk' = disk /\ phase' # "built"
    BY <1>10, Zenon DEF GcCompactFails, FreeLane
  <2> QED BY <2>1 DEF KeepsFence, BuiltUnfenced
<1> QED BY <1>1, <1>2, <1>3, <1>4, <1>5, <1>6, <1>7, <1>8, <1>9, <1>10 DEF LaneStep

LEMMA NextKeepsFence == BuiltUnfenced /\ [Next]_vars => KeepsFence
<1> SUFFICES ASSUME BuiltUnfenced, [Next]_vars PROVE KeepsFence
    BY ZenonT(60)
<1>1. CASE \E t \in Txns : TxnStep(t)
    BY <1>1, TxnsLeaveDatabase
<1>2. CASE LaneStep
    BY <1>2, LaneKeepsFence
<1>3. CASE (\E n \in Names, f \in 0..(live.csn + 1) : StartLease(n, f)) \/ StartGcVersions \/ StartGcChanges
  <2>1. UNCHANGED <<disk, fenced>> /\ phase' # "built"
    BY <1>3, Zenon DEF StartLease, StartGcVersions, StartGcChanges, TakeLane, dbVars
  <2> QED BY <2>1, DatabaseIsLeft
<1>4. CASE Close
  <2>1. ~fenced /\ UNCHANGED <<fenced, phase>>
    BY <1>4, Zenon DEF Close, laneVars
  <2> QED BY <2>1 DEF KeepsFence, BuiltUnfenced
<1>5. CASE \E n \in vdur..(vnext - 1) : Reopen(n)
  <2>1. disk' = disk /\ phase' # "built"
    BY <1>5, Zenon DEF Reopen
  <2> QED BY <2>1 DEF KeepsFence, BuiltUnfenced
<1>6. CASE CloseFails
  <2>1. (~fenced \/ UNCHANGED <<disk, fenced>>) /\ phase' = phase /\ phase # "built"
    BY <1>6, ZenonT(60) DEF CloseFails, DbFree, dbVars, laneVars
  <2> QED BY <2>1 DEF KeepsFence, BuiltUnfenced
<1>7. CASE UNCHANGED vars
  <2>1. UNCHANGED <<disk, fenced, phase>>
    BY <1>7, Zenon DEF vars, dbVars, laneVars
  <2> QED BY <2>1, DatabaseIsLeft
<1> QED BY <1>1, <1>2, <1>3, <1>4, <1>5, <1>6, <1>7 DEF Next

\* For any operations and faults: from the moment the handle is fenced, nothing
\* reaches the disk until the database is opened again, neither the wave that was
\* being certified nor the reservation, lease or collection that follows it.
THEOREM FenceIsFinal == Spec => FenceStopsWrites
<1>1. Init => BuiltUnfenced
    BY ZenonT(60) DEF Init, BuiltUnfenced
<1>2. BuiltUnfenced /\ [Next]_vars => BuiltUnfenced'
    BY NextKeepsFence DEF KeepsFence
<1>3. BuiltUnfenced /\ [Next]_vars => [fenced /\ fenced' => disk' = disk]_vars
    BY NextKeepsFence DEF KeepsFence
<1> QED BY <1>1, <1>2, <1>3, PTL DEF Spec, FenceStopsWrites
=============================================================================
