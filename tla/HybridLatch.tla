---------------------------- MODULE HybridLatch ----------------------------
(***************************************************************************)
(* The hybrid latch of crates/seerdb/src/concurrency/latch.rs: one atomic  *)
(* word that is UNLOCKED, a count of readers, or WRITE_LOCKED.  The word is *)
(* changed only by compare-exchange (readers, the acquiring writer) and by  *)
(* one store (the releasing writer).  LatchReaders load the word once and then   *)
(* loop on compare-exchange, so a thread works on a value that other        *)
(* threads may already have replaced: `seen` is that value.                 *)
(***************************************************************************)
EXTENDS Naturals, FiniteSets

CONSTANTS Threads,      \* threads that share the latch
          WRITE_LOCKED  \* the largest value of the word (u32::MAX in the code)

\* The reader count is not bounded by the code; it stays below the
\* WRITE_LOCKED pattern because fewer threads than that hold the latch.
ASSUME LatchAssumption ==
    /\ IsFiniteSet(Threads)
    /\ WRITE_LOCKED \in Nat
    /\ Cardinality(Threads) < WRITE_LOCKED

VARIABLES state,  \* the atomic word
          pc,     \* what each thread is doing
          seen    \* the value the thread's next compare-exchange expects

latchVars == <<state, pc, seen>>

UNLOCKED == 0

READ_LOCKED == 1

LatchInit ==
    /\ state = UNLOCKED
    /\ pc = [t \in Threads |-> "idle"]
    /\ seen = [t \in Threads |-> UNLOCKED]

\* try_read_lock loads the word; a write-locked word refuses at once.
ReadLoad(t) ==
    /\ pc[t] = "idle"
    /\ state # WRITE_LOCKED
    /\ seen' = [seen EXCEPT ![t] = state]
    /\ pc' = [pc EXCEPT ![t] = "acquiring"]
    /\ UNCHANGED state

\* One turn of the loop: a successful compare-exchange counts the reader; a
\* failed one (spuriously too: it is compare_exchange_weak) brings back the
\* actual word, and the loop refuses if that word is write-locked.
ReadAcquire(t) ==
    /\ pc[t] = "acquiring"
    /\ \/ /\ state = seen[t]
          /\ state' = IF seen[t] = UNLOCKED THEN READ_LOCKED ELSE seen[t] + 1
          /\ pc' = [pc EXCEPT ![t] = "reading"]
          /\ UNCHANGED seen
       \/ /\ seen' = [seen EXCEPT ![t] = state]
          /\ pc' = [pc EXCEPT ![t] = IF state = WRITE_LOCKED THEN "idle" ELSE @]
          /\ UNCHANGED state

\* read_unlock loads the word; an unlocked or write-locked word returns at once.
ReadUnload(t) ==
    /\ pc[t] = "reading"
    /\ seen' = [seen EXCEPT ![t] = state]
    /\ pc' = [pc EXCEPT ![t] = IF state \in {UNLOCKED, WRITE_LOCKED} THEN "idle" ELSE "releasing"]
    /\ UNCHANGED state

\* Mutant: the decremented word is stored without
\* comparing it with the current one, so two racing releases lose one.
ReadReleaseByStore(t) ==
    /\ pc[t] = "releasing"
    /\ state' = IF seen[t] = READ_LOCKED THEN UNLOCKED ELSE seen[t] - 1
    /\ pc' = [pc EXCEPT ![t] = "idle"]
    /\ UNCHANGED seen

ReadRelease(t) ==
    /\ pc[t] = "releasing"
    /\ \/ /\ state = seen[t]
          /\ state' = IF seen[t] = READ_LOCKED THEN UNLOCKED ELSE seen[t] - 1
          /\ pc' = [pc EXCEPT ![t] = "idle"]
          /\ UNCHANGED seen
       \/ /\ seen' = [seen EXCEPT ![t] = state]
          /\ pc' = [pc EXCEPT ![t] = IF state \in {UNLOCKED, WRITE_LOCKED} THEN "idle" ELSE @]
          /\ UNCHANGED state

\* try_write_lock is one strong compare-exchange from UNLOCKED.
WriteLock(t) ==
    /\ pc[t] = "idle"
    /\ state = UNLOCKED
    /\ state' = WRITE_LOCKED
    /\ pc' = [pc EXCEPT ![t] = "writing"]
    /\ UNCHANGED seen

\* write_unlock stores UNLOCKED without looking at the word.
WriteUnlock(t) ==
    /\ pc[t] = "writing"
    /\ state' = UNLOCKED
    /\ pc' = [pc EXCEPT ![t] = "idle"]
    /\ UNCHANGED seen

LatchNext ==
    \E t \in Threads :
        \/ ReadLoad(t)
        \/ ReadAcquire(t)
        \/ ReadUnload(t)
        \/ ReadRelease(t)
        \/ WriteLock(t)
        \/ WriteUnlock(t)

LatchSpec == LatchInit /\ [][LatchNext]_latchVars

-----------------------------------------------------------------------------
LatchReaders == {t \in Threads : pc[t] \in {"reading", "releasing"}}

LatchWriters == {t \in Threads : pc[t] = "writing"}

\* The type invariant of the latch.
LatchTypeOK ==
    /\ state \in 0..WRITE_LOCKED
    /\ pc \in [Threads -> {"idle", "acquiring", "reading", "releasing", "writing"}]
    /\ seen \in [Threads -> 0..WRITE_LOCKED]

\* The word names its holders exactly: it is the number of threads between a
\* successful try_read_lock and the compare-exchange of read_unlock, or
\* WRITE_LOCKED while one thread writes.  A reader is never lost or counted
\* twice by two racing compare-exchanges, and no reader overlaps a writer.
LatchCountsHolders ==
    /\ LatchWriters = {} => state = Cardinality(LatchReaders)
    /\ LatchWriters # {} => /\ state = WRITE_LOCKED
                       /\ LatchReaders = {}
                       /\ Cardinality(LatchWriters) = 1
=============================================================================
