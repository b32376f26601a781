------------------------------ MODULE VnBuffer -------------------------------
(***************************************************************************)
(* The buffer pool of the vNext kernel: buffer.rs over the frame metadata  *)
(* of frame.rs and the page translation of translation.rs.                 *)
(*                                                                         *)
(* A step is one atomic access to shared state: a compare-and-swap of a    *)
(* frame's lifecycle word, a store to its incarnation or its dirty bit, an *)
(* access to a translation shard, one page I/O.  A compare-and-swap loop   *)
(* is one step, and a read whose value nothing can change until the next   *)
(* access of the same thread is part of that access.  Threads pin a page   *)
(* (and read or write it under the guard), create a page, or flush one;    *)
(* page I/O may fail.                                                      *)
(*                                                                         *)
(* The content of a page is the pair of its key and the number of writes   *)
(* it has seen, so that a frame filled with the wrong or an old image can  *)
(* be told from the right one.                                             *)
(***************************************************************************)
EXTENDS Integers, Sequences, FiniteSets, Functions

CONSTANTS Threads, Pages,
          Profiles    \* the instances: the calls made, the page each frame holds at
                      \* first, the pages the store holds, and the budgets

VARIABLES profile, budget,  \* the instance; calls and I/O failures left
          frame,            \* FrameSlot of each frame
          map,              \* TranslationTable: page -> FrameRef, or NoRef
          clock,            \* BufferPool.clock
          disk,             \* the image PageIo holds of each page, or NoImage
          th,               \* the call each thread is in
          latest            \* auxiliary: writes made to each page so far

vars == <<profile, budget, frame, map, clock, disk, th, latest>>

NoRef == <<0, 0>>
NoPage == "none"
NoImage == <<NoPage, 0>>
Idle == [pc |-> "idle"]

\* FrameMeta with the identity and the bytes of its slot; writer is the odd version.
Empty == [st |-> "Free", pins |-> 0, inc |-> 0, dirty |-> FALSE, writer |-> FALSE,
          page |-> NoPage, bytes |-> NoImage, ref |-> FALSE]

\* The frames of the pool, numbered from 1.
Frames == DOMAIN profile.resident
N == Len(profile.resident)

\* A pool is opened, or has been in use and is at rest: its frames hold distinct
\* pages of the store.
WellFormed(resident, stored) ==
  /\ resident \in Seq(Pages \cup {NoPage}) /\ resident # <<>>
  /\ \A f \in DOMAIN resident : resident[f] \in stored \cup {NoPage}
  /\ \A f, g \in DOMAIN resident : f # g /\ resident[f] = resident[g] => resident[f] = NoPage

Init ==
  /\ profile \in Profiles /\ WellFormed(profile.resident, profile.stored)
  /\ budget = [calls |-> profile.calls, faults |-> profile.faults]
  /\ frame = [f \in Frames |->
                IF profile.resident[f] = NoPage THEN Empty
                ELSE [Empty EXCEPT !.st = "Resident", !.inc = 1, !.page = profile.resident[f],
                                   !.bytes = <<profile.resident[f], 0>>]]
  /\ map = [p \in Pages |->
              IF \E f \in Frames : profile.resident[f] = p
                THEN <<CHOOSE f \in Frames : profile.resident[f] = p, 1>> ELSE NoRef]
  /\ clock = 0
  /\ disk = [p \in Pages |-> IF p \in profile.stored THEN <<p, 0>> ELSE NoImage]
  /\ th = [t \in Threads |-> Idle]
  /\ latest = [p \in Pages |-> 0]

-----------------------------------------------------------------------------
(* Calls and their ends.                                                   *)

F(t) == th[t].f
Go(t, pc) == th' = [th EXCEPT ![t].pc = pc]
Rest(t) == UNCHANGED <<profile, budget, frame, map, clock, disk, latest>>

\* A call ends with an error, or after its guard is dropped.
Return(t) == th' = [th EXCEPT ![t] = Idle]

call(t, op, p) ==
  /\ th[t] = Idle /\ budget.calls > 0
  /\ op \in profile.ops
  /\ budget' = [budget EXCEPT !.calls = @ - 1]
  /\ th' = [th EXCEPT ![t] = [pc |-> IF op = "flush" THEN "flush" ELSE "get", op |-> op, key |-> p,
                              ref |-> NoRef, f |-> 0, tries |-> 0, owns |-> FALSE]]
  /\ UNCHANGED <<profile, frame, map, clock, disk, latest>>

\* pin and create_page look the page up (reserve_page looks again at once).
get(t) ==
  /\ th[t].pc = "get"
  /\ LET r == map[th[t].key]
     IN  IF r = NoRef THEN th' = [th EXCEPT ![t].pc = "clock", ![t].tries = 2 * N]
         ELSE IF th[t].op = "create" THEN Return(t)                 \* PageAlreadyClaimed
         ELSE th' = [th EXCEPT ![t].pc = "check", ![t].ref = r, ![t].f = r[1]]
  /\ Rest(t)

\* try_pin_reference: the incarnation is checked, then try_pin, then again.
check(t) ==
  /\ th[t].pc = "check"
  /\ Go(t, IF frame[F(t)].inc = th[t].ref[2] THEN "try_pin" ELSE "stale")
  /\ Rest(t)

\* Mutant: the incarnation is not checked after the pin.
try_pin_unchecked(t) ==
  /\ th[t].pc = "try_pin"
  /\ IF frame[F(t)].st = "Resident"
       THEN /\ frame' = [frame EXCEPT ![F(t)].pins = @ + 1]
            /\ Go(t, "pinned")
       ELSE /\ Go(t, "classify")
            /\ UNCHANGED frame
  /\ UNCHANGED <<profile, budget, map, clock, disk, latest>>

\* The incarnation cannot change once the pin is counted.
try_pin(t) ==
  /\ th[t].pc = "try_pin"
  /\ IF frame[F(t)].st = "Resident"
       THEN /\ frame' = [frame EXCEPT ![F(t)].pins = @ + 1]
            /\ Go(t, IF frame[F(t)].inc = th[t].ref[2] THEN "pinned" ELSE "unpin_stale")
       ELSE /\ Go(t, "classify")
            /\ UNCHANGED frame
  /\ UNCHANGED <<profile, budget, map, clock, disk, latest>>

unpin_stale(t) ==
  /\ th[t].pc = "unpin_stale"
  /\ frame' = [frame EXCEPT ![F(t)].pins = @ - 1]
  /\ Go(t, "stale")
  /\ UNCHANGED <<profile, budget, map, clock, disk, latest>>

\* Why try_pin failed: PinAttempt::Busy retries, Loading waits, Stale removes.
classify(t) ==
  /\ th[t].pc = "classify"
  /\ LET m == frame[F(t)]
     IN  Go(t, IF m.inc # th[t].ref[2] \/ m.st \in {"Free", "Evicting"} THEN "stale"
               ELSE IF m.st = "Loading" THEN "wait" ELSE "get")
  /\ Rest(t)

RemoveIf(p, r) == map' = [map EXCEPT ![p] = IF @ = r THEN NoRef ELSE @]

stale(t) ==
  /\ th[t].pc = "stale"
  /\ RemoveIf(th[t].key, th[t].ref)
  /\ Go(t, "get")
  /\ UNCHANGED <<profile, budget, frame, clock, disk, latest>>

\* One turn of the loop of wait_for_load, under the completion lock.
wait_for_load(t) ==
  /\ th[t].pc = "wait"
  /\ LET m == frame[F(t)]
     IN  Go(t, IF m.inc = th[t].ref[2] /\ m.st = "Loading" THEN "asleep" ELSE "get")
  /\ Rest(t)

\* notify_all on the completion of frame f, by thread t which moves to c.
Notify(t, f, c) ==
  th' = [u \in Threads |->
           IF u = t THEN c
           ELSE IF th[u].pc = "asleep" /\ th[u].f = f THEN [th[u] EXCEPT !.pc = "wait"]
           ELSE th[u]]

-----------------------------------------------------------------------------
(* reserve_for_load: the clock sweep.                                      *)

\* The next turn of the sweep, or NoVictim: another thread's claim on the
\* page is then joined.
Sweep(t, n) ==
  th' = [th EXCEPT ![t] = IF n > 0 THEN [@ EXCEPT !.pc = "clock", !.tries = n]
                                   ELSE [@ EXCEPT !.pc = "no_victim"]]

no_victim(t) ==
  /\ th[t].pc = "no_victim"
  /\ IF map[th[t].key] = NoRef \/ th[t].op = "create" THEN Return(t) ELSE Go(t, "get")
  /\ Rest(t)

clock_sweep(t) ==
  /\ th[t].pc = "clock"
  /\ LET f == 1 + (clock % N)
     IN  CASE frame[f].st = "Free" -> th' = [th EXCEPT ![t].pc = "begin_load", ![t].f = f]
           [] frame[f].st = "Resident" -> th' = [th EXCEPT ![t].pc = "second", ![t].f = f]
           [] OTHER -> Sweep(t, th[t].tries - 1)
  /\ clock' = (clock + 1) % N
  /\ UNCHANGED <<profile, budget, frame, map, disk, latest>>

\* referenced.swap(false): a frame used since the last sweep is spared once.
second_chance(t) ==
  /\ th[t].pc = "second"
  /\ frame' = [frame EXCEPT ![F(t)].ref = FALSE]
  /\ IF frame[F(t)].ref THEN Sweep(t, th[t].tries - 1) ELSE Go(t, "dirty")
  /\ UNCHANGED <<profile, budget, map, clock, disk, latest>>

is_dirty(t) ==
  /\ th[t].pc = "dirty"
  /\ Go(t, IF frame[F(t)].dirty THEN "writeback" ELSE "evict")
  /\ Rest(t)

Unpinned(f) == frame[f].st = "Resident" /\ frame[f].pins = 0

\* try_begin_evict reads the dirty bit again (an error leaves pin), ...
try_begin_evict(t) ==
  /\ th[t].pc = "evict"
  /\ IF frame[F(t)].dirty THEN Return(t) ELSE Go(t, "evict_cas")
  /\ Rest(t)

\* ... and then swaps the lifecycle word.
begin_exclusive_evict(t) ==
  /\ th[t].pc = "evict_cas"
  /\ IF Unpinned(F(t))
       THEN /\ frame' = [frame EXCEPT ![F(t)].st = "Evicting"]
            /\ Go(t, "detach")
       ELSE /\ Sweep(t, th[t].tries - 1)
            /\ UNCHANGED frame
  /\ UNCHANGED <<profile, budget, map, clock, disk, latest>>

\* detach_evicted removes the translation of this exact incarnation ...
detach_evicted(t) ==
  /\ th[t].pc = "detach"
  /\ RemoveIf(frame[F(t)].page, <<F(t), frame[F(t)].inc>>)
  /\ Go(t, "finish_evict")
  /\ UNCHANGED <<profile, budget, frame, clock, disk, latest>>

\* ... and the identity, before the frame is free.
finish_evict(t) ==
  /\ th[t].pc = "finish_evict"
  /\ frame' = [frame EXCEPT ![F(t)].page = NoPage, ![F(t)].st = "Free"]
  /\ Go(t, "begin_load")
  /\ UNCHANGED <<profile, budget, map, clock, disk, latest>>

begin_load(t) ==
  /\ th[t].pc = "begin_load"
  /\ IF frame[F(t)].st = "Free"
       THEN /\ frame' = [frame EXCEPT ![F(t)].st = "Loading"]
            /\ Go(t, "bump")
       ELSE /\ Sweep(t, th[t].tries - 1)
            /\ UNCHANGED frame
  /\ UNCHANGED <<profile, budget, map, clock, disk, latest>>

bump_incarnation(t) ==
  /\ th[t].pc = "bump"
  /\ frame' = [frame EXCEPT ![F(t)].inc = @ + 1, ![F(t)].dirty = FALSE]
  /\ th' = [th EXCEPT ![t].pc = "publish", ![t].ref = <<F(t), frame[F(t)].inc + 1>>]
  /\ UNCHANGED <<profile, budget, map, clock, disk, latest>>

-----------------------------------------------------------------------------
(* writeback, for eviction and for flush_page.                             *)

flush_page(t) ==
  /\ th[t].pc = "flush"
  /\ LET r == map[th[t].key]
     IN  IF r # NoRef /\ frame[r[1]].inc = r[2] /\ frame[r[1]].st = "Resident"
              /\ frame[r[1]].dirty
           THEN th' = [th EXCEPT ![t].pc = "writeback", ![t].f = r[1]]
           ELSE Return(t)
  /\ Rest(t)

\* try_begin_writeback: a frame that is clean by now is an error.
try_begin_writeback(t) ==
  /\ th[t].pc = "writeback"
  /\ IF frame[F(t)].dirty THEN Go(t, "writeback_cas") ELSE Return(t)
  /\ Rest(t)

begin_exclusive_writeback(t) ==
  /\ th[t].pc = "writeback_cas"
  /\ IF Unpinned(F(t))
       THEN /\ frame' = [frame EXCEPT ![F(t)].st = "Writeback"]
            /\ Go(t, "write")
       ELSE /\ IF th[t].op = "flush" THEN Return(t) ELSE Sweep(t, th[t].tries - 1)
            /\ UNCHANGED frame
  /\ UNCHANGED <<profile, budget, map, clock, disk, latest>>

write_page(t) ==
  /\ th[t].pc = "write"
  /\ disk' = [disk EXCEPT ![frame[F(t)].page] = frame[F(t)].bytes]
  /\ Go(t, "finish_writeback")
  /\ UNCHANGED <<profile, budget, frame, map, clock, latest>>

\* The write failed: the frame is resident and dirty again, the call fails.
abort_writeback(t) ==
  /\ th[t].pc = "write" /\ budget.faults > 0
  /\ budget' = [budget EXCEPT !.faults = @ - 1]
  /\ frame' = [frame EXCEPT ![F(t)].st = "Resident"]
  /\ Return(t)
  /\ UNCHANGED <<profile, map, clock, disk, latest>>

finish_writeback(t) ==
  /\ th[t].pc = "finish_writeback"
  /\ frame' = [frame EXCEPT ![F(t)].dirty = FALSE,
                            ![F(t)].st = IF th[t].op = "flush" THEN "Resident" ELSE "Evicting"]
  /\ IF th[t].op = "flush" THEN Return(t) ELSE Go(t, "detach")
  /\ UNCHANGED <<profile, budget, map, clock, disk, latest>>

-----------------------------------------------------------------------------
(* The load: claim the page, fill the frame, make it resident.             *)

publish_if_absent(t) ==
  /\ th[t].pc = "publish"
  /\ IF map[th[t].key] = NoRef
       THEN /\ map' = [map EXCEPT ![th[t].key] = th[t].ref]
            /\ th' = [th EXCEPT ![t].pc = "load", ![t].owns = TRUE]
       ELSE /\ Go(t, "abort")
            /\ UNCHANGED map
  /\ UNCHANGED <<profile, budget, frame, clock, disk, latest>>

\* read_page, or initialize_slot of create_page; then set_page_identity.
load(t) ==
  /\ th[t].pc = "load"
  /\ th[t].op # "create" => disk[th[t].key] # NoImage
  /\ frame' = [frame EXCEPT ![F(t)].page = th[t].key,
                            ![F(t)].bytes = IF th[t].op = "create" THEN <<th[t].key, 0>>
                                                                   ELSE disk[th[t].key]]
  /\ Go(t, "finish")
  /\ UNCHANGED <<profile, budget, map, clock, disk, latest>>

\* The read failed, or the page was never written.
load_failed(t) ==
  /\ th[t].pc = "load" /\ th[t].op # "create"
  /\ disk[th[t].key] = NoImage \/ budget.faults > 0
  /\ budget' = [budget EXCEPT !.faults = IF disk[th[t].key] = NoImage THEN @ ELSE @ - 1]
  /\ Go(t, "abort")
  /\ UNCHANGED <<profile, frame, map, clock, disk, latest>>

\* ReservedLoad::finish, under the completion lock.
finish(t) ==
  /\ th[t].pc = "finish"
  /\ frame' = [frame EXCEPT ![F(t)].st = "Resident", ![F(t)].pins = 1,
                            ![F(t)].dirty = th[t].op = "create"]
  /\ Notify(t, F(t), [th[t] EXCEPT !.pc = "pinned"])
  /\ UNCHANGED <<profile, budget, map, clock, disk, latest>>

\* Mutant: the joiners are not woken.
drop_silent(t) ==
  /\ th[t].pc = "abort"
  /\ IF th[t].owns THEN RemoveIf(th[t].key, th[t].ref) ELSE UNCHANGED map
  /\ frame' = [frame EXCEPT ![F(t)].st = "Free", ![F(t)].page = NoPage, ![F(t)].dirty = FALSE]
  /\ IF th[t].owns \/ th[t].op = "create" THEN Return(t) ELSE Go(t, "get")
  /\ UNCHANGED <<profile, budget, clock, disk, latest>>

\* The drop of ReservedLoad: after a failed load the call fails, after a lost
\* race for the page pin starts over and create_page is refused.
drop(t) ==
  /\ th[t].pc = "abort"
  /\ IF th[t].owns THEN RemoveIf(th[t].key, th[t].ref) ELSE UNCHANGED map
  /\ frame' = [frame EXCEPT ![F(t)].st = "Free", ![F(t)].page = NoPage, ![F(t)].dirty = FALSE]
  /\ Notify(t, F(t), IF th[t].owns \/ th[t].op = "create" THEN Idle
                     ELSE [th[t] EXCEPT !.pc = "get"])
  /\ UNCHANGED <<profile, budget, clock, disk, latest>>

-----------------------------------------------------------------------------
(* The guard.                                                              *)

\* guard_from_pin marks the frame used.
guard_from_pin(t) ==
  /\ th[t].pc = "pinned"
  /\ frame' = [frame EXCEPT ![F(t)].ref = TRUE]
  /\ Go(t, IF th[t].op = "write" THEN "guard_write" ELSE "guard_done")
  /\ UNCHANGED <<profile, budget, map, clock, disk, latest>>

\* try_write claims the odd version; a second writer retries, ...
try_write(t) ==
  /\ th[t].pc = "guard_write"
  /\ ~frame[F(t)].writer
  /\ frame' = [frame EXCEPT ![F(t)].writer = TRUE]
  /\ Go(t, "mark_dirty")
  /\ UNCHANGED <<profile, budget, map, clock, disk, latest>>

\* ... marks the page dirty before a byte changes, ...
mark_dirty(t) ==
  /\ th[t].pc = "mark_dirty"
  /\ frame' = [frame EXCEPT ![F(t)].dirty = TRUE]
  /\ Go(t, "modify")
  /\ UNCHANGED <<profile, budget, map, clock, disk, latest>>

\* ... and gives the version up after the bytes.
modify(t) ==
  /\ th[t].pc = "modify"
  /\ frame' = [frame EXCEPT ![F(t)].bytes = <<@[1], @[2] + 1>>, ![F(t)].writer = FALSE]
  /\ latest' = [latest EXCEPT ![th[t].key] = @ + 1]
  /\ Go(t, "guard_done")
  /\ UNCHANGED <<profile, budget, map, clock, disk>>

unpin(t) ==
  /\ th[t].pc = "guard_done"
  /\ frame' = [frame EXCEPT ![F(t)].pins = @ - 1]
  /\ Return(t)
  /\ UNCHANGED <<profile, budget, map, clock, disk, latest>>

-----------------------------------------------------------------------------
Step(t) ==
  \/ get(t) \/ check(t) \/ try_pin(t) \/ unpin_stale(t) \/ classify(t) \/ stale(t)
  \/ wait_for_load(t) \/ no_victim(t) \/ clock_sweep(t) \/ second_chance(t) \/ is_dirty(t)
  \/ try_begin_evict(t) \/ begin_exclusive_evict(t) \/ detach_evicted(t) \/ finish_evict(t)
  \/ begin_load(t) \/ bump_incarnation(t) \/ flush_page(t) \/ try_begin_writeback(t)
  \/ begin_exclusive_writeback(t) \/ write_page(t) \/ abort_writeback(t) \/ finish_writeback(t)
  \/ publish_if_absent(t) \/ load(t) \/ load_failed(t) \/ finish(t) \/ drop(t)
  \/ guard_from_pin(t) \/ try_write(t) \/ mark_dirty(t) \/ modify(t) \/ unpin(t)

Next ==
  \/ \E t \in Threads, op \in {"read", "write", "create", "flush"}, p \in Pages : call(t, op, p)
  \/ \E t \in Threads : Step(t)

Spec == Init /\ [][Next]_vars

\* A thread inside a call keeps running (asleep it has no step).
FairSpec == Spec /\ \A t \in Threads : WF_vars(Step(t))

-----------------------------------------------------------------------------
\* The states in which a thread holds a guard, or is about to have it.
Holding == {"pinned", "guard_write", "mark_dirty", "modify", "guard_done"}
Pinning(t) == th[t].pc \in Holding \cup {"unpin_stale"}

\* Ranges, and a free slot holds no page and no pin.
TypeOK ==
  /\ \A f \in Frames :
       /\ frame[f].st \in {"Free", "Loading", "Resident", "Writeback", "Evicting"}
       /\ frame[f].pins \in 0 .. Cardinality(Threads)
       /\ frame[f].page \in Pages \cup {NoPage}
       /\ frame[f].inc \in Nat
       /\ frame[f].st = "Free" => frame[f].page = NoPage /\ frame[f].pins = 0
  /\ \A p \in Pages : map[p] = NoRef \/ map[p][1] \in Frames

\* A guard protects the page it was asked for: its frame is resident, in the
\* incarnation that was pinned, and holds that page's bytes, however often
\* the slot was evicted and reused meanwhile (PageGuard, try_pin).
GuardsHoldTheirPage ==
  \A t \in Threads : th[t].pc \in Holding =>
     LET m == frame[F(t)]
     IN  /\ m.st = "Resident" /\ m.inc = th[t].ref[2]
         /\ m.page = th[t].key /\ m.bytes[1] = th[t].key

\* The pins of a frame are exactly the guards on it: none leaks on an error
\* path, and a frame being loaded, written or evicted has none (frame.rs
\* lifecycle word).
PinsAreGuards ==
  \A f \in Frames : frame[f].pins = Cardinality({t \in Threads : Pinning(t) /\ F(t) = f})

\* A page has one home: no two frames hold it at the same time, whatever
\* loads, creations and evictions of it overlap (translation.rs).
OneHome ==
  \A f, g \in Frames : f # g /\ frame[f].st \in {"Resident", "Writeback"}
                             /\ frame[g].st \in {"Resident", "Writeback"} =>
     frame[f].page # frame[g].page

\* A frame that says it is clean can be dropped: the store holds its image
\* (try_begin_evict relies on it).
CleanMatchesDisk ==
  \A f \in Frames : frame[f].st = "Resident" /\ ~frame[f].dirty =>
     disk[frame[f].page] = frame[f].bytes

\* Writers of a page exclude each other, and none is inside while the image
\* is written out.
WritersExclude ==
  /\ \A t, u \in Threads : t # u /\ th[t].pc \in {"mark_dirty", "modify"}
                                 /\ th[u].pc \in {"mark_dirty", "modify"} => F(t) # F(u)
  /\ \A t \in Threads : th[t].pc \in {"mark_dirty", "modify"} => frame[F(t)].writer

\* The pool between any two steps: guards, pins, homes, clean frames, writers.
PoolHolds ==
  TypeOK /\ GuardsHoldTheirPage /\ PinsAreGuards /\ OneHome /\ CleanMatchesDisk /\ WritersExclude

\* No write is lost: what a guard protects includes every write made to the
\* page under earlier guards.
WritesAreKept ==
  \A t \in Threads : th[t].pc \in Holding => frame[F(t)].bytes[2] = latest[th[t].key]

\* Every call ends: a joiner of a load wakes, a retry finds the page or a
\* frame in the end.
CallsReturn == \A t \in Threads : th[t] # Idle ~> th[t] = Idle
=============================================================================
