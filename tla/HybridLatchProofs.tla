------------------------- MODULE HybridLatchProofs -------------------------
(***************************************************************************)
(* The latch counts its holders for every number of threads below the      *)
(* WRITE_LOCKED pattern.                                                   *)
(***************************************************************************)
EXTENDS HybridLatch, FiniteSetTheorems, TLAPS

\* A thread in one of the compare-exchange loops never carries a word the
\* loop would have returned on, so its next value does not run past the word.
SeenUsable ==
    \A t \in Threads :
        /\ pc[t] = "acquiring" => seen[t] # WRITE_LOCKED
        /\ pc[t] = "releasing" => seen[t] \notin {UNLOCKED, WRITE_LOCKED}

IInv == LatchTypeOK /\ LatchCountsHolders /\ SeenUsable

\* Every set of threads is finite and smaller than the WRITE_LOCKED pattern,
\* so a reader count is never mistaken for the writer's mark.
LEMMA HoldersBounded ==
    ASSUME NEW S \in SUBSET Threads
    PROVE  /\ IsFiniteSet(S)
           /\ Cardinality(S) \in Nat
           /\ Cardinality(S) < WRITE_LOCKED
<1>1. IsFiniteSet(S) /\ Cardinality(S) <= Cardinality(Threads)
  BY LatchAssumption, FS_Subset
<1>2. Cardinality(S) \in Nat /\ Cardinality(Threads) \in Nat
  BY <1>1, LatchAssumption, FS_CardinalityType
<1> QED
  BY <1>1, <1>2, LatchAssumption

\* A thread that holds the latch for reading is counted in the word.
LEMMA ReaderCounted ==
    ASSUME IInv, NEW t \in LatchReaders
    PROVE  /\ LatchWriters = {}
           /\ state = Cardinality(LatchReaders)
           /\ state > 0
           /\ state # WRITE_LOCKED
<1>1. LatchWriters = {}
  BY DEF IInv, LatchCountsHolders
<1>2. state = Cardinality(LatchReaders)
  BY <1>1 DEF IInv, LatchCountsHolders
<1>3. LatchReaders \in SUBSET Threads
  BY DEF LatchReaders
<1>4. IsFiniteSet(LatchReaders) /\ Cardinality(LatchReaders) \in Nat /\ Cardinality(LatchReaders) < WRITE_LOCKED
  BY <1>3, HoldersBounded
<1>5. Cardinality(LatchReaders) # 0
  BY <1>4, FS_EmptySet
<1> QED
  BY <1>1, <1>2, <1>4, <1>5, LatchAssumption

\* The word equals the number of readers, or is WRITE_LOCKED for one writer
\* alone, in every reachable state of the latch.
THEOREM LatchCorrect == LatchSpec => [](LatchTypeOK /\ LatchCountsHolders)
<1>1. LatchInit => IInv
  <2> SUFFICES ASSUME LatchInit PROVE IInv
    OBVIOUS
  <2>1. LatchReaders = {} /\ LatchWriters = {}
    BY DEF LatchInit, LatchReaders, LatchWriters
  <2>2. Cardinality({}) = 0
    BY FS_EmptySet
  <2> QED
    BY <2>1, <2>2, LatchAssumption DEF LatchInit, IInv, LatchTypeOK, LatchCountsHolders, SeenUsable, UNLOCKED
<1>2. IInv /\ [LatchNext]_latchVars => IInv'
  <2> SUFFICES ASSUME IInv, [LatchNext]_latchVars PROVE IInv'
    OBVIOUS
  <2> USE LatchAssumption DEF IInv, UNLOCKED, READ_LOCKED
  <2>0. Cardinality({}) = 0 /\ LatchReaders \in SUBSET Threads /\ LatchReaders' \in SUBSET Threads
    BY FS_EmptySet DEF LatchReaders
  <2>z. WRITE_LOCKED # 0
    BY <2>0, HoldersBounded
  <2>1. ASSUME NEW t \in Threads, ReadLoad(t) PROVE IInv'
    <3>1. LatchReaders' = LatchReaders /\ LatchWriters' = LatchWriters
      BY <2>1 DEF ReadLoad, LatchTypeOK, LatchReaders, LatchWriters
    <3>2. LatchTypeOK' /\ SeenUsable'
      BY <2>1 DEF ReadLoad, LatchTypeOK, SeenUsable
    <3> QED
      BY <2>1, <3>1, <3>2 DEF ReadLoad, LatchCountsHolders
  <2>2. ASSUME NEW t \in Threads, ReadAcquire(t) PROVE IInv'
    <3>a. pc[t] = "acquiring" /\ seen[t] # WRITE_LOCKED
      BY <2>2 DEF ReadAcquire, SeenUsable
    <3>1. CASE /\ state = seen[t]
               /\ state' = IF seen[t] = UNLOCKED THEN READ_LOCKED ELSE seen[t] + 1
               /\ pc' = [pc EXCEPT ![t] = "reading"]
               /\ UNCHANGED seen
      <4>1. LatchReaders' = LatchReaders \cup {t} /\ t \notin LatchReaders /\ LatchWriters' = LatchWriters
        BY <3>1, <3>a DEF LatchTypeOK, LatchReaders, LatchWriters
      <4>2. LatchWriters = {}
        BY <3>1, <3>a DEF LatchCountsHolders
      <4>3. state = Cardinality(LatchReaders) /\ IsFiniteSet(LatchReaders) /\ Cardinality(LatchReaders) \in Nat
        BY <4>2, <2>0, HoldersBounded DEF LatchCountsHolders
      <4>4. Cardinality(LatchReaders') = Cardinality(LatchReaders) + 1
        BY <4>1, <4>3, FS_AddElement, ZenonT(60)
      <4>5. Cardinality(LatchReaders') < WRITE_LOCKED
        BY <2>0, HoldersBounded
      <4>6. LatchTypeOK' /\ SeenUsable'
        BY <3>1, <3>a, <4>3, <4>4, <4>5 DEF LatchTypeOK, SeenUsable
      <4> QED
        BY <3>1, <4>1, <4>2, <4>3, <4>4, <4>6 DEF LatchCountsHolders
    <3>2. CASE /\ seen' = [seen EXCEPT ![t] = state]
               /\ pc' = [pc EXCEPT ![t] = IF state = WRITE_LOCKED THEN "idle" ELSE @]
               /\ UNCHANGED state
      <4>1. LatchReaders' = LatchReaders /\ LatchWriters' = LatchWriters
        BY <3>a, <3>2 DEF LatchTypeOK, LatchReaders, LatchWriters
      <4>2. LatchTypeOK' /\ SeenUsable'
        BY <3>a, <3>2 DEF LatchTypeOK, SeenUsable
      <4> QED
        BY <3>2, <4>1, <4>2 DEF LatchCountsHolders
    <3> QED
      BY <2>2, <3>1, <3>2 DEF ReadAcquire
  <2>3. ASSUME NEW t \in Threads, ReadUnload(t) PROVE IInv'
    <3>1. t \in LatchReaders
      BY <2>3 DEF ReadUnload, LatchReaders
    <3>2. state \notin {UNLOCKED, WRITE_LOCKED}
      BY <3>1, ReaderCounted DEF LatchTypeOK
    <3>3. LatchReaders' = LatchReaders /\ LatchWriters' = LatchWriters
      BY <2>3, <3>2 DEF ReadUnload, LatchTypeOK, LatchReaders, LatchWriters
    <3>4. LatchTypeOK' /\ SeenUsable'
      BY <2>3, <3>2 DEF ReadUnload, LatchTypeOK, SeenUsable
    <3> QED
      BY <2>3, <3>3, <3>4 DEF ReadUnload, LatchCountsHolders
  <2>4. ASSUME NEW t \in Threads, ReadRelease(t) PROVE IInv'
    <3>1. t \in LatchReaders /\ pc[t] = "releasing"
      BY <2>4 DEF ReadRelease, LatchReaders
    <3>2. LatchWriters = {} /\ state = Cardinality(LatchReaders) /\ state > 0 /\ state # WRITE_LOCKED
      BY <3>1, ReaderCounted
    <3>3. CASE /\ state = seen[t]
               /\ state' = IF seen[t] = READ_LOCKED THEN UNLOCKED ELSE seen[t] - 1
               /\ pc' = [pc EXCEPT ![t] = "idle"]
               /\ UNCHANGED seen
      <4>1. LatchReaders' = LatchReaders \ {t} /\ LatchWriters' = LatchWriters
        BY <3>1, <3>3 DEF LatchTypeOK, LatchReaders, LatchWriters
      <4>2. IsFiniteSet(LatchReaders) /\ Cardinality(LatchReaders) \in Nat
        BY <2>0, HoldersBounded
      <4>3. Cardinality(LatchReaders') = Cardinality(LatchReaders) - 1
        BY <3>1, <4>1, <4>2, FS_RemoveElement, ZenonT(60)
      <4>4. LatchTypeOK' /\ SeenUsable'
        BY <3>2, <3>3 DEF LatchTypeOK, SeenUsable
      <4> QED
        BY <3>2, <3>3, <4>1, <4>3, <4>4 DEF LatchCountsHolders, LatchTypeOK
    <3>4. CASE /\ seen' = [seen EXCEPT ![t] = state]
               /\ pc' = [pc EXCEPT ![t] = IF state \in {UNLOCKED, WRITE_LOCKED} THEN "idle" ELSE @]
               /\ UNCHANGED state
      <4>0. state \notin {UNLOCKED, WRITE_LOCKED}
        BY <3>2 DEF LatchTypeOK
      <4>1. LatchReaders' = LatchReaders /\ LatchWriters' = LatchWriters
        BY <3>1, <3>4, <4>0 DEF LatchTypeOK, LatchReaders, LatchWriters
      <4>2. LatchTypeOK' /\ SeenUsable'
        BY <3>1, <3>4, <4>0 DEF LatchTypeOK, SeenUsable
      <4> QED
        BY <3>4, <4>1, <4>2 DEF LatchCountsHolders
    <3> QED
      BY <2>4, <3>3, <3>4 DEF ReadRelease
  <2>5. ASSUME NEW t \in Threads, WriteLock(t) PROVE IInv'
    <3>1. LatchWriters = {} /\ Cardinality(LatchReaders) = 0
      BY <2>5, <2>z DEF WriteLock, LatchCountsHolders
    <3>2. LatchReaders = {}
      BY <3>1, <2>0, HoldersBounded, FS_EmptySet
    <3>3. LatchReaders' = {} /\ LatchWriters' = {t}
      BY <2>5, <3>1, <3>2 DEF WriteLock, LatchTypeOK, LatchReaders, LatchWriters
    <3>4. Cardinality({t}) = 1
      BY FS_Singleton, ZenonT(60)
    <3>5. LatchTypeOK' /\ SeenUsable'
      BY <2>5 DEF WriteLock, LatchTypeOK, SeenUsable
    <3> QED
      BY <2>5, <3>3, <3>4, <3>5 DEF WriteLock, LatchCountsHolders
  <2>6. ASSUME NEW t \in Threads, WriteUnlock(t) PROVE IInv'
    <3>1. t \in LatchWriters
      BY <2>6 DEF WriteUnlock, LatchWriters
    <3>2. LatchReaders = {} /\ Cardinality(LatchWriters) = 1
      BY <3>1 DEF LatchCountsHolders
    <3>3. PICK w : LatchWriters = {w}
      BY <3>2, HoldersBounded, FS_Singleton, ZenonT(60) DEF LatchWriters
    <3>4. LatchReaders' = {} /\ LatchWriters' = {}
      BY <2>6, <3>1, <3>2, <3>3 DEF WriteUnlock, LatchTypeOK, LatchReaders, LatchWriters
    <3>5. LatchTypeOK' /\ SeenUsable'
      BY <2>6 DEF WriteUnlock, LatchTypeOK, SeenUsable
    <3> QED
      BY <2>0, <2>6, <3>4, <3>5 DEF WriteUnlock, LatchCountsHolders
  <2>7. CASE UNCHANGED latchVars
    BY <2>7 DEF latchVars, LatchTypeOK, LatchCountsHolders, SeenUsable, LatchReaders, LatchWriters
  <2> QED
    BY <2>1, <2>2, <2>3, <2>4, <2>5, <2>6, <2>7 DEF LatchNext
<1> QED
  BY <1>1, <1>2, PTL DEF LatchSpec, IInv
=============================================================================
