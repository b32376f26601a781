------------------------------- MODULE Session -------------------------------
(* Operation admission of session.rs: threads share one database through    *)
(* permits counted under a mutex; a permit is held around the database lock.*)
EXTENDS Integers, FiniteSets

CONSTANTS Ops,           \* calling threads, each making one call at a time
          Writers,       \* those that call exclusive operations
          MaxInFlight

ASSUME SessionAssumption == /\ IsFiniteSet(Ops) /\ Writers \subseteq Ops
                            /\ MaxInFlight \in Nat \ {0}

VARIABLES active,          \* active_operations
          activeWriters,   \* active_writers
          waitingOps,      \* waiting_operations
          waitingWriters,  \* waiting_writers
          closing,         \* the session was consumed by close
          phase,           \* where each thread stands
          mood,            \* what its OperationControl and its patience say
          guards,          \* holders of the database RwLock
          poisoned         \* a writer panicked under the lock

counts == <<active, activeWriters, waitingOps, waitingWriters>>
svars == <<active, activeWriters, waitingOps, waitingWriters, closing, phase, mood, guards,
           poisoned>>

Phases == {"idle", "acquiring", "waiting", "permit", "running", "leaving"}
Moods == {"go", "cancelled", "impatient"}
One(o) == IF o \in Writers THEN 1 ELSE 0

SessionInit ==
  /\ active = 0 /\ activeWriters = 0 /\ waitingOps = 0 /\ waitingWriters = 0
  /\ closing = FALSE /\ poisoned = FALSE /\ guards = {}
  /\ phase = [o \in Ops |-> "idle"]
  /\ mood = [o \in Ops |-> "go"]

\* Mutant: a writer joins running readers.
blocked_by_writers(o) ==
  \/ active >= MaxInFlight
  \/ o \in Writers /\ activeWriters # 0
  \/ o \notin Writers /\ (activeWriters # 0 \/ waitingWriters # 0)
blocked(o) ==
  \/ active >= MaxInFlight
  \/ o \in Writers /\ active # 0
  \/ o \notin Writers /\ (activeWriters # 0 \/ waitingWriters # 0)

remove_waiter(o) ==
  IF phase[o] = "waiting"
  THEN waitingOps' = waitingOps - 1 /\ waitingWriters' = waitingWriters - One(o)
  ELSE UNCHANGED <<waitingOps, waitingWriters>>

-----------------------------------------------------------------------------
(* One iteration of acquire, under the mutex, is one of the next three.      *)

Acquiring(o) == phase[o] \in {"acquiring", "waiting"}

start(o) ==
  /\ phase[o] = "idle" /\ ~closing
  /\ phase' = [phase EXCEPT ![o] = "acquiring"]
  /\ mood' = [mood EXCEPT ![o] = "go"]
  /\ UNCHANGED <<counts, closing, guards, poisoned>>

\* control.check fails, the session closes, or the time to wait is over.
refuse(o) ==
  /\ Acquiring(o)
  /\ mood[o] = "cancelled" \/ closing \/ (blocked(o) /\ mood[o] = "impatient")
  /\ remove_waiter(o)
  /\ phase' = [phase EXCEPT ![o] = "idle"]
  /\ UNCHANGED <<active, activeWriters, closing, mood, guards, poisoned>>

admit(o) ==
  /\ Acquiring(o) /\ mood[o] # "cancelled" /\ ~closing /\ ~blocked(o)
  /\ remove_waiter(o)
  /\ active' = active + 1
  /\ activeWriters' = activeWriters + One(o)
  /\ phase' = [phase EXCEPT ![o] = "permit"]
  /\ UNCHANGED <<closing, mood, guards, poisoned>>

wait(o) ==
  /\ phase[o] = "acquiring" /\ mood[o] = "go" /\ ~closing /\ blocked(o)
  /\ waitingOps' = waitingOps + 1
  /\ waitingWriters' = waitingWriters + One(o)
  /\ phase' = [phase EXCEPT ![o] = "waiting"]
  /\ UNCHANGED <<active, activeWriters, closing, mood, guards, poisoned>>

\* A cancellation or a deadline, or the admission timeout.
lose_patience(o) ==
  /\ phase[o] # "idle" /\ mood[o] = "go"
  /\ \E m \in Moods \ {"go"} : mood' = [mood EXCEPT ![o] = m]
  /\ UNCHANGED <<counts, closing, phase, guards, poisoned>>

-----------------------------------------------------------------------------
(* With the permit: the lock, the operation, and the drops in their order.   *)

LockFree(o) == IF o \in Writers THEN guards = {} ELSE guards \cap Writers = {}

\* read_database and write_database; a poisoned lock fails the call.
lock_database(o) ==
  /\ phase[o] = "permit" /\ LockFree(o)
  /\ guards' = IF poisoned THEN guards ELSE guards \cup {o}
  /\ phase' = [phase EXCEPT ![o] = IF poisoned THEN "leaving" ELSE "running"]
  /\ UNCHANGED <<counts, closing, mood, poisoned>>

\* The operation returns or panics; the guard goes before the permit.
finish(o) ==
  /\ phase[o] = "running"
  /\ guards' = guards \ {o}
  /\ phase' = [phase EXCEPT ![o] = "leaving"]
  /\ poisoned' \in {poisoned, poisoned \/ o \in Writers}
  /\ UNCHANGED <<counts, closing, mood>>

release(o) ==
  /\ phase[o] = "leaving"
  /\ active' = active - 1
  /\ activeWriters' = activeWriters - One(o)
  /\ phase' = [phase EXCEPT ![o] = "idle"]
  /\ UNCHANGED <<waitingOps, waitingWriters, closing, mood, guards, poisoned>>

\* close takes the session by value: no call can be under way.
begin_close ==
  /\ \A o \in Ops : phase[o] = "idle"
  /\ active = 0 /\ ~closing
  /\ closing' = TRUE
  /\ UNCHANGED <<counts, phase, mood, guards, poisoned>>

acquire(o) == refuse(o) \/ admit(o) \/ wait(o)
run(o) == lock_database(o) \/ finish(o) \/ release(o)
Starts == \E o \in Ops : start(o)
Refusals == \E o \in Ops : refuse(o)
Admissions == \E o \in Ops : admit(o)
Waits == \E o \in Ops : wait(o)
Impatience == \E o \in Ops : lose_patience(o)
Locks == \E o \in Ops : lock_database(o)
Finishes == \E o \in Ops : finish(o)
Releases == \E o \in Ops : release(o)

SessionNext == \/ Starts \/ Refusals \/ Admissions \/ Waits \/ Impatience
               \/ Locks \/ Finishes \/ Releases \/ begin_close

SessionSpec == SessionInit /\ [][SessionNext]_svars

\* A waiter looks again at the latest after ADMISSION_POLL_INTERVAL, and an
\* operation that holds a permit ends.
SessionFair == \A o \in Ops : WF_svars(acquire(o)) /\ WF_svars(run(o))

-----------------------------------------------------------------------------
Holding == {o \in Ops : phase[o] \in {"permit", "running", "leaving"}}
Waiting == {o \in Ops : phase[o] = "waiting"}

\* The counters are the permits and the waiters that exist, on every way out of
\* acquire (refusal, timeout, admission) and after a panic (release).
CountsMatch ==
  /\ active = Cardinality(Holding) /\ activeWriters = Cardinality(Holding \cap Writers)
  /\ waitingOps = Cardinality(Waiting) /\ waitingWriters = Cardinality(Waiting \cap Writers)

\* A writer that holds a permit holds the only one, and permits are bounded
\* (blocked).
WritersExclusive ==
  /\ Cardinality(Holding) <= MaxInFlight
  /\ \A w \in Holding \cap Writers : Holding = {w}

\* Whoever has a permit finds the lock free: admission, not the lock, decides
\* who waits (lock_database after acquire; the guard is dropped before the permit).
PermitFindsLockFree == \A o \in Ops : phase[o] = "permit" => LockFree(o)

\* A waiting writer gets in or gives up, however many readers keep coming
\* ("keeps the single serialized write lane from being starved").
WriterNotStarved ==
  \A w \in Writers : Writers = {w} => (phase[w] = "waiting" ~> phase[w] # "waiting")

\* When no writer calls any more, no reader waits for ever: a writer that gave
\* up leaves nothing behind that blocks readers (remove_waiter).
ReadersResume ==
  (<>[](\A w \in Writers : phase[w] = "idle"))
    => \A r \in Ops \ Writers : phase[r] = "waiting" ~> phase[r] # "waiting"

\* Admission: permits and waiters are counted, a writer is alone, and a permit
\* finds the lock free.
PermitsHold == CountsMatch /\ WritersExclusive /\ PermitFindsLockFree
=============================================================================
