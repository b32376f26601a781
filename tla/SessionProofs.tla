--------------------------- MODULE SessionProofs ----------------------------
(***************************************************************************)
(* Admission is correct for every number of callers, every split into      *)
(* readers and writers and every limit.  The inductive invariant adds to   *)
(* PermitsHold that the holders of the database lock are the operations    *)
(* that run under it.                                                      *)
(***************************************************************************)
EXTENDS Session, FiniteSetTheorems, TLAPS

SInv ==
  /\ phase \in [Ops -> Phases]
  /\ guards = {o \in Ops : phase[o] = "running"}
  /\ CountsMatch /\ WritersExclusive

\* The callers in a given set of phases, counted with and without readers.
LEMMA Counting ==
  ASSUME NEW S \in SUBSET Ops
  PROVE  /\ IsFiniteSet(S) /\ IsFiniteSet(S \cap Writers)
         /\ Cardinality(S) \in Nat /\ Cardinality(S \cap Writers) \in Nat
         /\ Cardinality(S) = 0 <=> S = {}
         /\ Cardinality(S \cap Writers) = 0 <=> S \cap Writers = {}
<1>1. IsFiniteSet(S) /\ IsFiniteSet(S \cap Writers)
  BY SessionAssumption, FS_Subset, S \cap Writers \subseteq Ops
<1> QED BY <1>1, FS_CardinalityType, FS_EmptySet

\* One caller joins a set of callers: the counters admission keeps go up by one
\* and by One.
LEMMA Joining ==
  ASSUME NEW S \in SUBSET Ops, NEW o \in Ops, o \notin S
  PROVE  /\ Cardinality(S \cup {o}) = Cardinality(S) + 1
         /\ Cardinality((S \cup {o}) \cap Writers) = Cardinality(S \cap Writers) + One(o)
<1>1. IsFiniteSet(S) /\ IsFiniteSet(S \cap Writers)
  BY Counting, ZenonT(60)
<1>2. Cardinality(S \cup {o}) = Cardinality(S) + 1
  BY <1>1, FS_AddElement
<1>3. CASE o \in Writers
  <2>1. (S \cup {o}) \cap Writers = (S \cap Writers) \cup {o} /\ o \notin S \cap Writers
    BY <1>3
  <2> QED BY <2>1, <1>1, <1>2, <1>3, FS_AddElement, ZenonT(60) DEF One
<1>4. CASE o \notin Writers
  <2>1. (S \cup {o}) \cap Writers = S \cap Writers
    BY <1>4
  <2>2. Cardinality(S \cap Writers) \in Nat
    BY Counting, ZenonT(60)
  <2> QED BY <2>1, <2>2, <1>2, <1>4 DEF One
<1> QED BY <1>3, <1>4

\* One caller leaves a set of callers.
LEMMA Leaving ==
  ASSUME NEW S \in SUBSET Ops, NEW o \in S
  PROVE  /\ Cardinality(S \ {o}) = Cardinality(S) - 1
         /\ Cardinality((S \ {o}) \cap Writers) = Cardinality(S \cap Writers) - One(o)
<1>1. S \ {o} \in SUBSET Ops /\ o \in Ops /\ o \notin S \ {o} /\ (S \ {o}) \cup {o} = S
  OBVIOUS
<1>2. /\ Cardinality(S) = Cardinality(S \ {o}) + 1
      /\ Cardinality(S \cap Writers) = Cardinality((S \ {o}) \cap Writers) + One(o)
  BY <1>1, Joining, ZenonT(60)
<1>3. One(o) \in {0, 1} /\ Cardinality(S \ {o}) \in Nat /\ Cardinality((S \ {o}) \cap Writers) \in Nat
  BY <1>1, Counting, ZenonT(60) DEF One
<1> QED BY <1>2, <1>3

-----------------------------------------------------------------------------
\* The lock is free for whoever has a permit: a running writer has the only
\* permit, and guards belong to running operations.
LEMMA PermitMeansFree == SInv => PermitFindsLockFree
<1> SUFFICES ASSUME SInv, NEW o \in Ops, phase[o] = "permit" PROVE LockFree(o)
  BY DEF PermitFindsLockFree
<1>1. o \in Holding /\ guards \subseteq Holding /\ o \notin guards
  BY DEF SInv, Holding
<1> QED BY <1>1 DEF SInv, WritersExclusive, LockFree

LEMMA SessionInitHolds == SessionInit => SInv
<1> SUFFICES ASSUME SessionInit PROVE SInv
  OBVIOUS
<1>1. Holding = {} /\ Waiting = {} /\ Holding \cap Writers = {} /\ Waiting \cap Writers = {}
  BY DEF SessionInit, Holding, Waiting
<1>2. phase \in [Ops -> Phases] /\ guards = {o \in Ops : phase[o] = "running"}
  BY DEF SessionInit, Phases
<1> QED BY <1>1, <1>2, FS_EmptySet, SessionAssumption DEF SInv, SessionInit, CountsMatch, WritersExclusive

\* Steps that move no caller into or out of the permit holders or the waiters.
LEMMA Unmoved ==
  ASSUME SInv, UNCHANGED counts, Holding' = Holding, Waiting' = Waiting,
         phase' \in [Ops -> Phases], guards' = {o \in Ops : phase'[o] = "running"}
  PROVE  SInv'
BY DEF SInv, CountsMatch, WritersExclusive, counts

\* A caller that stops waiting takes itself off the counters (remove_waiter).
LEMMA WaiterRemoved ==
  ASSUME SInv, NEW o \in Ops, remove_waiter(o), Acquiring(o), Waiting' = Waiting \ {o}
  PROVE  /\ waitingOps' = Cardinality(Waiting') /\ waitingWriters' = Cardinality(Waiting' \cap Writers)
<1>1. Waiting \in SUBSET Ops
  BY DEF Waiting
<1>2. CASE phase[o] = "waiting"
  <2>1. o \in Waiting
    BY <1>2 DEF Waiting
  <2> QED BY <1>1, <1>2, <2>1, Leaving DEF SInv, CountsMatch, remove_waiter
<1>3. CASE phase[o] # "waiting"
  <2>1. Waiting' = Waiting
    BY <1>3 DEF Waiting
  <2> QED BY <1>3, <2>1 DEF SInv, CountsMatch, remove_waiter
<1> QED BY <1>2, <1>3

\* refuse: the caller was only waiting, if that.
LEMMA RefuseStep == ASSUME SInv, NEW o \in Ops, refuse(o) PROVE SInv'
<1>1. phase' \in [Ops -> Phases] /\ guards' = {x \in Ops : phase'[x] = "running"}
  BY DEF SInv, refuse, Phases, Acquiring
<1>2. Holding' = Holding
  BY DEF SInv, Holding, refuse, Acquiring
<1>3. Waiting' = Waiting \ {o}
  BY DEF SInv, Waiting, refuse
<1>4. waitingOps' = Cardinality(Waiting') /\ waitingWriters' = Cardinality(Waiting' \cap Writers)
  BY <1>3, WaiterRemoved DEF refuse
<1> QED BY <1>1, <1>2, <1>4 DEF SInv, CountsMatch, WritersExclusive, refuse

\* admit: a reader joins readers, a writer nobody, within the limit.
LEMMA AdmitStep == ASSUME SInv, NEW o \in Ops, admit(o) PROVE SInv'
<1>1. phase' \in [Ops -> Phases] /\ guards' = {x \in Ops : phase'[x] = "running"}
  BY DEF SInv, admit, Phases, Acquiring
<1>2. Holding' = Holding \cup {o} /\ o \notin Holding /\ Holding \in SUBSET Ops
  BY DEF SInv, Holding, admit, Acquiring
<1>3. Waiting' = Waiting \ {o}
  BY DEF SInv, Waiting, admit
<1>4. waitingOps' = Cardinality(Waiting') /\ waitingWriters' = Cardinality(Waiting' \cap Writers)
  BY <1>3, WaiterRemoved DEF admit
<1>5. active' = Cardinality(Holding') /\ activeWriters' = Cardinality(Holding' \cap Writers)
  BY <1>2, Joining DEF SInv, CountsMatch, admit
<1>6. Cardinality(Holding) \in Nat /\ (Cardinality(Holding) = 0 <=> Holding = {})
      /\ (Cardinality(Holding \cap Writers) = 0 <=> Holding \cap Writers = {})
  BY <1>2, Counting, ZenonT(60)
<1>7. Cardinality(Holding') <= MaxInFlight
  BY <1>2, <1>6, Joining, SessionAssumption DEF SInv, CountsMatch, admit, blocked
<1>8. \A w \in Holding' \cap Writers : Holding' = {w}
  <2>1. CASE o \in Writers
    BY <2>1, <1>2, <1>6 DEF SInv, CountsMatch, admit, blocked
  <2>2. CASE o \notin Writers
    BY <2>2, <1>2, <1>6 DEF SInv, CountsMatch, admit, blocked
  <2> QED BY <2>1, <2>2
<1> QED BY <1>1, <1>4, <1>5, <1>7, <1>8 DEF SInv, CountsMatch, WritersExclusive

LEMMA WaitStep == ASSUME SInv, NEW o \in Ops, wait(o) PROVE SInv'
<1>1. phase' \in [Ops -> Phases] /\ guards' = {x \in Ops : phase'[x] = "running"}
  BY DEF SInv, wait, Phases
<1>2. Holding' = Holding
  BY DEF SInv, Holding, wait
<1>3. Waiting' = Waiting \cup {o} /\ o \notin Waiting /\ Waiting \in SUBSET Ops
  BY DEF SInv, Waiting, wait
<1>4. waitingOps' = Cardinality(Waiting') /\ waitingWriters' = Cardinality(Waiting' \cap Writers)
  BY <1>3, Joining DEF SInv, CountsMatch, wait
<1> QED BY <1>1, <1>2, <1>4 DEF SInv, CountsMatch, WritersExclusive, wait

LEMMA ReleaseStep == ASSUME SInv, NEW o \in Ops, release(o) PROVE SInv'
<1>1. phase' \in [Ops -> Phases] /\ guards' = {x \in Ops : phase'[x] = "running"}
  BY DEF SInv, release, Phases
<1>2. Holding' = Holding \ {o} /\ o \in Holding /\ Holding \in SUBSET Ops
  BY DEF SInv, Holding, release
<1>3. Waiting' = Waiting
  BY DEF SInv, Waiting, release
<1>4. /\ Cardinality(Holding') = Cardinality(Holding) - 1 /\ Cardinality(Holding) \in Nat
      /\ Cardinality(Holding' \cap Writers) = Cardinality(Holding \cap Writers) - One(o)
  BY <1>2, Leaving, Counting, ZenonT(60)
<1>5. Cardinality(Holding') <= MaxInFlight
  BY <1>4, SessionAssumption DEF SInv, WritersExclusive
<1> QED BY <1>1, <1>2, <1>3, <1>4, <1>5 DEF SInv, CountsMatch, WritersExclusive, release

LEMMA SessionStep == SInv /\ [SessionNext]_svars => SInv'
<1> SUFFICES ASSUME SInv, [SessionNext]_svars PROVE SInv'
  OBVIOUS
<1>1. ASSUME NEW o \in Ops, start(o) PROVE SInv'
  <2>1. phase' \in [Ops -> Phases] /\ guards' = {x \in Ops : phase'[x] = "running"}
    BY <1>1 DEF SInv, start, Phases
  <2>2. Holding' = Holding /\ Waiting' = Waiting
    BY <1>1 DEF SInv, Holding, Waiting, start
  <2> QED BY <1>1, <2>1, <2>2, Unmoved DEF start
<1>2. ASSUME NEW o \in Ops, lose_patience(o) PROVE SInv'
  BY <1>2, Unmoved DEF SInv, Holding, Waiting, lose_patience
<1>3. ASSUME NEW o \in Ops, lock_database(o) PROVE SInv'
  <2>1. phase' \in [Ops -> Phases] /\ guards' = {x \in Ops : phase'[x] = "running"}
    BY <1>3 DEF SInv, lock_database, Phases
  <2>2. Holding' = Holding /\ Waiting' = Waiting
    BY <1>3 DEF SInv, Holding, Waiting, lock_database
  <2> QED BY <1>3, <2>1, <2>2, Unmoved DEF lock_database
<1>4. ASSUME NEW o \in Ops, finish(o) PROVE SInv'
  <2>1. phase' \in [Ops -> Phases] /\ guards' = {x \in Ops : phase'[x] = "running"}
    BY <1>4 DEF SInv, finish, Phases
  <2>2. Holding' = Holding /\ Waiting' = Waiting
    BY <1>4 DEF SInv, Holding, Waiting, finish
  <2> QED BY <1>4, <2>1, <2>2, Unmoved DEF finish
<1>5. CASE begin_close
  BY <1>5, Unmoved DEF SInv, Holding, Waiting, begin_close
<1>6. CASE UNCHANGED svars
  BY <1>6, Unmoved DEF SInv, Holding, Waiting, svars, counts
<1> QED BY <1>1, <1>2, <1>3, <1>4, <1>5, <1>6, RefuseStep, AdmitStep, WaitStep, ReleaseStep
        DEF SessionNext, Starts, Refusals, Admissions, Waits, Impatience, Locks, Finishes, Releases

-----------------------------------------------------------------------------
\* Admission (acquire and the drops of its permit and guard): in every state the
\* counters are the callers they count, a writer is alone, the limit holds and
\* whoever has a permit finds the database lock free.
THEOREM AdmissionCorrect == SessionSpec => []PermitsHold
<1>1. SInv => PermitsHold
  BY PermitMeansFree DEF SInv, PermitsHold
<1> QED BY <1>1, SessionInitHolds, SessionStep, PTL DEF SessionSpec
=============================================================================
