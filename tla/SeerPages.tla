----------------------------- MODULE SeerPages -----------------------------
(***************************************************************************)
(* The page store of SeerDB's copy-on-write engine: where the page images  *)
(* of every published generation live in the data file, which slots a new  *)
(* generation may overwrite, and what keeps an old generation readable.    *)
(*                                                                         *)
(* One thread owns the database (every operation takes the handle mutably) *)
(* and runs one job at a time, in the stages of the code: refresh the view *)
(* of the free slots, write pages, sync them, append the authority frame,  *)
(* complete the generation.  Leases and read views are dropped by other    *)
(* threads, between any two stages.  A crash keeps the synced pages and    *)
(* any subset of the unsynced ones.                                        *)
(*                                                                         *)
(* A page is a leaf that holds one entry, <<key, commit that wrote it>>,   *)
(* with commit 0 for a tombstone; Empty is the root leaf of an empty tree. *)
(* Routing pages are not represented: a manifest carries the key each leaf *)
(* is routed by (routes).  Page caches, the WAL and blob values are left   *)
(* out: SeerPublish has the WAL.                                           *)
(***************************************************************************)
EXTENDS Integers, Sequences, FiniteSets, FiniteSetsExt, TLC

CONSTANTS
    Keys,            \* the user keys, a finite set of integers
    MaxSlots,        \* page slots the device can hold
    MaxChain,        \* MAX_META_DELTA_CHAIN
    MaxGenerations,  \* bound: generations published
    MaxLeases,       \* bound: leases held at a time
    MaxIds,          \* bound: ids of either kind given out
    MaxOpens         \* bound: times the database is opened again

VARIABLES
    tree,        \* the resident B-tree: page -> entry
    dirtyPages,  \* its pages changed since the last published generation
    pmt,         \* the page mapping table: page -> [offset, version]
    nextVersion, \* the version the next mapping gets
    device,      \* the data file as the process reads it: slot -> image
    disk,        \* what a crash is sure to keep of it
    free,        \* free_offsets
    nextOffset,  \* next_offset
    pending,     \* pending_reclaimed_offsets
    reserved,    \* rebuild_reserved_offsets
    stale,       \* reclamation_dirty
    writeGen,    \* write_generation, stamped into every page flushed
    protected,   \* protected_offsets, shared by the engine and the registry
    views,       \* protected_pmts: the mapping table each read view pins
    leases,      \* the retained roots in memory, durable and ephemeral
    registry,    \* the durable registry: [next, roots]
    nextEphemeral, \* the next process-local id, counting down
    sidecars,    \* ids whose retained blob image is on disk
    marks,       \* drops that removed their root and have not set stale yet
    log,         \* the authority log: generation -> frame
    history,     \* manifest_history: generation -> [commit, routes]
    gen,         \* the published generation
    commit,      \* and its commit
    vacuum,      \* the resumable vacuum's state
    job,         \* the operation the handle is running
    fenced,      \* write_fenced
    up,          \* the database is open
    opens,       \* times it was opened again
    published,   \* ghost: what each generation's pages held when published
    orphans,     \* ghost: slots a job that never published wrote over
    raced        \* ghost: a drop fell inside a refresh or a registration

engineVars == <<tree, dirtyPages, pmt, nextVersion, writeGen>>
slotVars == <<free, nextOffset, pending, reserved>>
leaseVars == <<views, leases, registry, nextEphemeral, sidecars>>
logVars == <<log, history, gen, commit, published>>
runVars == <<fenced, up, opens>>
vars == <<engineVars, device, disk, slotVars, stale, protected, leaseVars,
          marks, logVars, vacuum, job, runVars, orphans, raced>>

LastId == 1000     \* stands for u64::MAX
Empty == <<>>
Unreadable == <<"unreadable">>
Hole == [page |-> -1, entry |-> Unreadable, gen |-> 0]
None == <<>>        \* the empty function: a table with no entries

Offsets(table) == {table[p].offset : p \in DOMAIN table}
Drop(f, S) == [x \in DOMAIN f \ S |-> f[x]]
Put(f, g) == [x \in DOMAIN f \union DOMAIN g |-> IF x \in DOMAIN g THEN g[x] ELSE f[x]]
Size(file) == Cardinality(DOMAIN file)

\* The elements of a set of integers, the largest or the smallest first.
Descending(S) == [i \in 1..Cardinality(S) |-> CHOOSE x \in S : Cardinality({y \in S : y > x}) = i - 1]
Ascending(S) == [i \in 1..Cardinality(S) |-> CHOOSE x \in S : Cardinality({y \in S : y < x}) = i - 1]

\* What a mapping table reads from a file.
ReadThrough(table, file) ==
    [p \in DOMAIN table |->
        IF table[p].offset \in DOMAIN file THEN file[table[p].offset].entry ELSE Unreadable]

(***************************************************************************)
(* The authority log: full checkpoints and deltas                          *)
(***************************************************************************)
\* Apply one delta to its parent's table.
ApplyDelta(table, frame) == Put(Drop(table, frame.removals), frame.updates)

\* resolve_meta_log for every generation of the log.  A chain that misses a
\* frame, or is longer than the limit, does not resolve.
resolve_meta_log(frames) ==
    LET at[g \in DOMAIN frames] ==
            IF frames[g].full
            THEN [ok |-> TRUE, pmt |-> frames[g].updates, depth |-> 0]
            ELSE IF frames[g].parent \notin DOMAIN frames
            THEN [ok |-> FALSE, pmt |-> None, depth |-> 0]
            ELSE LET up1 == at[frames[g].parent]
                 IN  [ok    |-> up1.ok /\ up1.depth < MaxChain,
                      pmt   |-> ApplyDelta(up1.pmt, frames[g]),
                      depth |-> up1.depth + 1]
    IN  at

\* Mutant: the generation alone.
meta_log_ancestors_none(frames, g) == {g}

\* meta_log_ancestors: the frames a generation's chain goes through.
meta_log_ancestors(frames, g) ==
    LET from[x \in DOMAIN frames] ==
            {x} \union (IF frames[x].full \/ frames[x].parent \notin DOMAIN frames
                        THEN {} ELSE from[frames[x].parent])
    IN  from[g]

\* append_generation_meta: a full checkpoint for the first generation and
\* where the parent's chain is at its limit, else the difference to the parent.
NewFrame(frames, parent, table, manifest) ==
    LET resolved == resolve_meta_log(frames)
        full == IF parent = 0 THEN TRUE ELSE resolved[parent].depth >= MaxChain
        old  == IF full THEN None ELSE resolved[parent].pmt
    IN  [full     |-> full,
         parent   |-> IF full THEN 0 ELSE parent,
         updates  |-> [p \in {q \in DOMAIN table : q \notin DOMAIN old \/ old[q] # table[q]} |-> table[p]],
         removals |-> DOMAIN old \ DOMAIN table,
         commit   |-> manifest.commit,
         routes   |-> manifest.routes]

\* A log without some frame the chain needs is refused, like a failed read.
Resolves(frames, g) == g \in DOMAIN frames /\ resolve_meta_log(frames)[g].ok
Table(frames, g) == resolve_meta_log(frames)[g].pmt

(***************************************************************************)
(* Jobs                                                                    *)
(***************************************************************************)
NoClaim == [id |-> 0, gen |-> 0, commit |-> 0, durable |-> FALSE, owner |-> "none",
            offsets |-> {}, reads |-> None, exempt |-> FALSE]
NoJob == [kind |-> "none", stage |-> "idle", seen |-> {}, retired |-> {},
          targets |-> {}, moves |-> None, claim |-> NoClaim]
NoVacuum == [on |-> FALSE, gen |-> 0, commit |-> 0, left |-> <<>>, tree |-> None]

Start(kind, stage) == job' = [NoJob EXCEPT !.kind = kind, !.stage = stage]
At(stage) == up /\ job.stage = stage

\* check_writable, with the handle's exclusive borrow; an operation that
\* flushes first finds nothing pending.
Writable == up /\ ~fenced /\ job = NoJob
Flushed == dirtyPages = {}
MaintenanceIdle == ~vacuum.on
MayPublish == gen < MaxGenerations

LeaseOffsets == UNION {leases[id].offsets : id \in DOMAIN leases}
ViewOffsets == UNION {Offsets(views[id]) : id \in DOMAIN views}

Init ==
    /\ tree = (0 :> Empty) /\ dirtyPages = {} /\ pmt = None /\ nextVersion = 1 /\ writeGen = 0
    /\ device = None /\ disk = None
    /\ free = {} /\ nextOffset = 0 /\ pending = {} /\ reserved = {}
    /\ stale = FALSE /\ protected = {}
    /\ views = None /\ leases = None /\ registry = [next |-> 1, roots |-> None]
    /\ nextEphemeral = LastId /\ sidecars = {} /\ marks = {}
    /\ log = None /\ history = (0 :> [commit |-> 0, routes |-> None])
    /\ gen = 0 /\ commit = 0 /\ published = None
    /\ vacuum = NoVacuum /\ job = NoJob /\ fenced = FALSE /\ up = TRUE /\ opens = 0
    /\ orphans = {} /\ raced = FALSE

(***************************************************************************)
(* Commits                                                                 *)
(***************************************************************************)
PageOf(t, k) == {p \in DOMAIN t : t[p] # Empty /\ t[p][1] = k}
LiveKeys(t) == {t[p][1] : p \in {q \in DOMAIN t : t[q] # Empty /\ t[q][2] # 0}}

\* The pages new keys get: the empty root leaf first, then fresh page ids.
FreshPage(t, i) == IF t = (0 :> Empty) THEN i - 1 ELSE Max(DOMAIN t) + i
Upserts(t, W, c) ==
    LET fresh == Ascending({k \in W : PageOf(t, k) = {}})
        old   == W \ {fresh[i] : i \in DOMAIN fresh}
        page(k) == CHOOSE p \in PageOf(t, k) : TRUE
    IN  Put([p \in {page(k) : k \in old} |-> <<t[p][1], c>>],
            [p \in {FreshPage(t, i) : i \in DOMAIN fresh} |->
                <<fresh[CHOOSE i \in DOMAIN fresh : FreshPage(t, i) = p], c>>])

\* prepare_generation_publication refreshes the free slots only when a lease
\* or view was dropped since.
BeginFlush(kind) == Start(kind, IF stale THEN "refresh" ELSE "write")

\* commit_batch: stage the candidate tree and publish it.
Stage(changes) ==
    /\ Writable /\ Flushed /\ MaintenanceIdle /\ MayPublish
    /\ tree' = Put(tree, changes)
    /\ dirtyPages' = DOMAIN changes
    /\ BeginFlush("commit")
    /\ UNCHANGED <<pmt, nextVersion, writeGen, device, disk, slotVars, stale, protected,
                   leaseVars, marks, logVars, vacuum, runVars, orphans, raced>>

commit_batch(W) == Stage(Upserts(tree, W, commit + 1))
delete(k) == k \in LiveKeys(tree) /\ Stage(Upserts(tree, {k}, 0))

\* flush: publish mutations a capacity refusal left pending.
flush ==
    /\ Writable /\ ~Flushed /\ MaintenanceIdle
    /\ BeginFlush("commit")
    /\ UNCHANGED <<engineVars, device, disk, slotVars, stale, protected, leaseVars, marks,
                   logVars, vacuum, runVars, orphans, raced>>

(***************************************************************************)
(* The free slots                                                          *)
(***************************************************************************)
\* refresh_reclaimable_offsets, first half: read what is protected.
refresh_read ==
    /\ At("refresh")
    /\ job' = [job EXCEPT !.stage = "refreshed", !.seen = protected \union ViewOffsets]
    /\ raced' = (protected # LeaseOffsets)
    /\ UNCHANGED <<engineVars, device, disk, slotVars, stale, protected, leaseVars, marks,
                   logVars, vacuum, runVars, orphans>>

\* Where a job goes once its view of the free slots is fresh.
AfterRefresh ==
    CASE job.kind \in {"commit", "rebuild"} -> [job EXCEPT !.stage = "write"]
      [] job.kind = "compact" -> [job EXCEPT !.stage = "relocate"]
      [] job.kind = "view" -> [job EXCEPT !.stage = "pin"]
      [] OTHER -> NoJob

\* refresh_reclaimable_offsets, second half: every slot of the device that is
\* not active, protected or reserved is free; the view is no longer stale.
Reclaimable == DOMAIN device \ (Offsets(pmt) \union job.seen \union reserved)
refresh_store ==
    /\ At("refreshed")
    /\ free' = Reclaimable
    /\ nextOffset' = Size(device)
    /\ stale' = FALSE
    /\ job' = AfterRefresh
    /\ UNCHANGED <<engineVars, device, disk, pending, reserved, protected, leaseVars, marks,
                   logVars, vacuum, runVars, orphans, raced>>

\* The slots the next pages get: the highest free slot first, then the end.
NextSlots == Descending(free) \o [i \in 1..MaxSlots |-> nextOffset + i - 1]
\* Mutant: a page that has a slot is written in place.
Targets_in_place ==
    LET pages == Ascending(dirtyPages)
    IN  [p \in dirtyPages |-> IF p \in DOMAIN pmt THEN pmt[p].offset
                              ELSE NextSlots[CHOOSE i \in DOMAIN pages : pages[i] = p]]
Targets == LET pages == Ascending(dirtyPages)
           IN  [p \in dirtyPages |-> NextSlots[CHOOSE i \in DOMAIN pages : pages[i] = p]]
StampFor(kind) == IF kind = "commit" THEN gen + 1 ELSE writeGen
MappingsFor(target, ordered) ==
    [p \in DOMAIN target |->
        [offset |-> target[p],
         version |-> nextVersion + (CHOOSE i \in DOMAIN ordered : ordered[i] = p) - 1]]

\* write_dirty_pages after preflight_flush_capacity: out of place, stamped with
\* the write generation (set by a commit's publication only), not yet synced.
write_dirty_pages(target) ==
    /\ At("write")
    /\ \A p \in dirtyPages : target[p] < MaxSlots
    /\ writeGen' = StampFor(job.kind)
    /\ device' = Put(device, [o \in {target[p] : p \in dirtyPages} |->
                    LET p == CHOOSE q \in dirtyPages : target[q] = o
                    IN  [page |-> p, entry |-> tree[p], gen |-> StampFor(job.kind)]])
    /\ pmt' = Put(pmt, MappingsFor(target, Ascending(dirtyPages)))
    /\ nextVersion' = nextVersion + Cardinality(dirtyPages)
    /\ free' = free \ {target[p] : p \in dirtyPages}
    /\ nextOffset' = nextOffset + Cardinality({p \in dirtyPages : target[p] >= nextOffset})
    /\ job' = [job EXCEPT !.stage = "sync",
                          !.retired = Offsets([p \in dirtyPages \intersect DOMAIN pmt |-> pmt[p]]),
                          !.targets = {target[p] : p \in dirtyPages}]
    /\ UNCHANGED <<tree, dirtyPages, disk, pending, reserved, stale, protected, leaseVars, marks,
                   logVars, vacuum, runVars, orphans, raced>>

\* preflight_flush_capacity refuses before any page is written.  A commit's
\* mutations stay pending; a rebuild has already replaced the table: fence.
preflight_flush_capacity(target) ==
    /\ At("write")
    /\ \E p \in dirtyPages : target[p] >= MaxSlots
    /\ writeGen' = StampFor(job.kind)
    /\ fenced' = (job.kind = "rebuild")
    /\ job' = NoJob
    /\ UNCHANGED <<tree, dirtyPages, pmt, nextVersion, device, disk, slotVars, stale, protected,
                   leaseVars, marks, logVars, vacuum, up, opens, orphans, raced>>

\* sync_data: the pages are durable, what they replace is retired.
sync_data ==
    /\ At("sync")
    /\ disk' = device
    /\ pending' = job.retired
    /\ job' = [job EXCEPT !.stage = "frame"]
    /\ UNCHANGED <<engineVars, device, free, nextOffset, reserved, stale, protected, leaseVars,
                   marks, logVars, vacuum, runVars, orphans, raced>>

\* append_envelope_frame / publish_authority_frame: the synced frame makes the
\* generation visible.  Maintenance keeps the commit identity.
publish_authority_frame ==
    /\ At("frame")
    /\ LET manifest == [commit |-> IF job.kind = "commit" THEN commit + 1 ELSE commit,
                        routes |-> [p \in DOMAIN tree |-> IF tree[p] = Empty THEN 0 ELSE tree[p][1]]]
       IN  /\ log' = Put(log, (gen + 1) :> NewFrame(log, gen, pmt, manifest))
           /\ history' = Put(history, (gen + 1) :> manifest)
           /\ published' = Put(published, (gen + 1) :> [pmt |-> pmt, entries |-> tree])
    /\ job' = [job EXCEPT !.stage = "complete"]
    /\ UNCHANGED <<engineVars, device, disk, slotVars, stale, protected, leaseVars, marks,
                   gen, commit, vacuum, runVars, orphans, raced>>

\* Mutants: views do not hold slots back; a rebuild's slots are forgotten.
Released_views == (pending \union reserved) \ protected
Released_leak == pending \ (protected \union ViewOffsets)

\* complete_generation: what the old generation alone used becomes free,
\* unless a retained root or a read view still needs it.
Released == (pending \union reserved) \ (protected \union ViewOffsets)
complete_generation ==
    /\ At("complete")
    /\ free' = free \union Released
    /\ pending' = {} /\ reserved' = {}
    /\ dirtyPages' = {}
    /\ gen' = gen + 1 /\ commit' = history[gen + 1].commit
    /\ orphans' = orphans \ job.targets
    /\ job' = IF job.kind = "compact" THEN [job EXCEPT !.stage = "truncate"] ELSE NoJob
    /\ UNCHANGED <<tree, pmt, nextVersion, writeGen, device, disk, nextOffset, stale, protected,
                   leaseVars, marks, log, history, published, vacuum, runVars, raced>>

\* An I/O error after the first write fences the handle until it is reopened.
Unpublished == job.kind \in {"compact", "rebuild"} /\ job.stage \in {"sync", "rsync", "frame"}
fail ==
    /\ up /\ job.stage \in {"sync", "rsync", "frame", "complete", "truncate"}
    /\ fenced' = TRUE
    /\ orphans' = orphans \union (IF Unpublished THEN job.targets ELSE {})
    /\ job' = NoJob
    /\ UNCHANGED <<engineVars, device, disk, slotVars, stale, protected, leaseVars, marks,
                   logVars, vacuum, up, opens, raced>>

(***************************************************************************)
(* Compaction                                                              *)
(***************************************************************************)
compact ==
    /\ Writable /\ Flushed /\ MaintenanceIdle /\ MayPublish
    /\ Start("compact", "refresh")
    /\ UNCHANGED <<engineVars, device, disk, slotVars, stale, protected, leaseVars, marks,
                   logVars, vacuum, runVars, orphans, raced>>

\* The relocation plan: the highest unprotected pages, into the lowest holes
\* below them.
Movable == {p \in DOMAIN pmt : pmt[p].offset \notin protected \union ViewOffsets}
Plan(limit) ==
    LET sources == Descending(Offsets([p \in Movable |-> pmt[p]]))
        holes   == Ascending(free)
        page(o) == CHOOSE p \in Movable : pmt[p].offset = o
        moves   == {i \in DOMAIN sources \intersect DOMAIN holes : i <= limit /\ holes[i] < sources[i]}
    IN  [p \in {page(sources[i]) : i \in moves} |->
            holes[CHOOSE i \in moves : page(sources[i]) = p]]

\* relocate_interior_pages_with_limit writes byte copies: a copy keeps the
\* write generation of the page it copies.
relocate_interior_pages(limit) ==
    /\ At("relocate")
    /\ LET moves == Plan(limit)
       IN  IF moves = None
           THEN /\ job' = [job EXCEPT !.stage = "truncate"]
                /\ UNCHANGED device
           ELSE /\ job' = [job EXCEPT !.stage = "rsync", !.moves = moves,
                                      !.targets = {moves[p] : p \in DOMAIN moves}]
                /\ device' = Put(device, [o \in {moves[p] : p \in DOMAIN moves} |->
                        device[pmt[CHOOSE p \in DOMAIN moves : moves[p] = o].offset]])
    /\ UNCHANGED <<engineVars, disk, slotVars, stale, protected, leaseVars, marks,
                   logVars, vacuum, runVars, orphans, raced>>

\* The copies are synced before the mapping table changes.
relocate_sync ==
    /\ At("rsync")
    /\ disk' = device
    /\ pmt' = Put(pmt, MappingsFor(job.moves, Descending(DOMAIN job.moves)))
    /\ nextVersion' = nextVersion + Cardinality(DOMAIN job.moves)
    /\ free' = free \ job.targets
    /\ pending' = {pmt[p].offset : p \in DOMAIN job.moves}
    /\ job' = [job EXCEPT !.stage = "frame"]
    /\ UNCHANGED <<tree, dirtyPages, writeGen, device, nextOffset, reserved, stale, protected,
                   leaseVars, marks, logVars, vacuum, runVars, orphans, raced>>

\* truncate_reclaimable_tail: drop the free slots at the end of the file.
truncate_reclaimable_tail ==
    /\ At("truncate")
    /\ LET kept == DOMAIN device \ {o \in free : \A x \in DOMAIN device : x >= o => x \in free}
       IN  /\ device' = [o \in kept |-> device[o]]
           /\ disk' = [o \in kept |-> device[o]]
           /\ free' = free \intersect kept
           /\ nextOffset' = IF kept = DOMAIN device THEN nextOffset ELSE Cardinality(kept)
    /\ job' = NoJob
    /\ UNCHANGED <<engineVars, pending, reserved, stale, protected, leaseVars, marks,
                   logVars, vacuum, runVars, orphans, raced>>

(***************************************************************************)
(* Vacuum                                                                  *)
(***************************************************************************)
\* start_vacuum: a cursor over the live entries and an empty candidate.
start_vacuum ==
    LET keys == Ascending(LiveKeys(tree))
    IN  [on |-> TRUE, gen |-> gen, commit |-> commit, tree |-> (0 :> Empty),
         left |-> [i \in DOMAIN keys |-> tree[CHOOSE p \in PageOf(tree, keys[i]) : TRUE]]]

\* The candidate with one more entry: its leaves are numbered from 0.
WithEntry(t, entry) == IF t = (0 :> Empty) THEN (0 :> entry) ELSE Put(t, (Max(DOMAIN t) + 1) :> entry)

\* vacuum_step while entries are left: copy one.
vacuum_step ==
    /\ Writable /\ Flushed /\ MayPublish
    /\ LET state == IF vacuum.on THEN vacuum ELSE start_vacuum
       IN  /\ state.left # <<>>
           /\ vacuum' = [state EXCEPT !.left = Tail(@), !.tree = WithEntry(@, Head(state.left))]
    /\ UNCHANGED <<engineVars, device, disk, slotVars, stale, protected, leaseVars, marks,
                   logVars, job, runVars, orphans, raced>>

\* The last step: admit the rebuilt pages, then finish_vacuum.
\* prepare_logical_rebuild reserves every slot of the old table until the new
\* one is published.
finish_vacuum ==
    /\ Writable /\ Flushed /\ MayPublish
    /\ LET state == IF vacuum.on THEN vacuum ELSE start_vacuum
       IN  /\ state.left = <<>>
           /\ Size(device) + Cardinality(DOMAIN state.tree) <= MaxSlots
           /\ reserved' = Offsets(pmt)
           /\ pmt' = None
           /\ tree' = state.tree
           /\ dirtyPages' = DOMAIN state.tree
    /\ vacuum' = NoVacuum
    /\ nextOffset' = Size(device)
    /\ BeginFlush("rebuild")
    /\ UNCHANGED <<nextVersion, writeGen, device, disk, free, pending, stale, protected,
                   leaseVars, marks, logVars, runVars, orphans, raced>>

cancel_vacuum ==
    /\ Writable /\ vacuum.on
    /\ vacuum' = NoVacuum
    /\ UNCHANGED <<engineVars, device, disk, slotVars, stale, protected, leaseVars, marks,
                   logVars, job, runVars, orphans, raced>>

(***************************************************************************)
(* Retained roots                                                          *)
(***************************************************************************)
\* Mutant: any readable image will do.
page_rewritten_after_never(offset, g) == offset \notin DOMAIN device \/ device[offset] = Hole

\* page_rewritten_after: the image in the slot was written by a later
\* generation, or cannot be read at all.
page_rewritten_after(offset, g) ==
    offset \notin DOMAIN device \/ device[offset] = Hole \/ device[offset].gen > g

\* validate_historical_page_liveness: no slot rewritten, no later manifest that
\* maps one of the slots to another page version.
validate_historical_page_liveness(g, table) ==
    /\ \A o \in Offsets(table) : ~page_rewritten_after(o, g)
    /\ \A later \in {h \in DOMAIN history : h > g} :
          /\ Resolves(log, later)
          /\ LET other == Table(log, later)
             IN  \A p \in DOMAIN table, q \in DOMAIN other :
                    table[p].offset = other[q].offset => table[p] = other[q]

\* verify_tree_at: every page is readable and its keys lie within the bounds
\* its parent routes by.  A tree of one leaf has no bounds.
verify_tree_at(table, routes, reads) ==
    /\ \A p \in DOMAIN table : reads[p] # Unreadable
    /\ Cardinality(DOMAIN table) > 1 =>
          \A p \in DOMAIN table : reads[p] = Empty \/ reads[p][1] = routes[p]

\* register_manifest up to the durable registration: the blob sidecar comes
\* first, then the checks; a refusal removes the sidecar again.
Claim(g, durable, owner, table) ==
    [id |-> IF durable THEN registry.next ELSE nextEphemeral, gen |-> g,
     commit |-> history[g].commit, durable |-> durable, owner |-> owner,
     offsets |-> Offsets(table), reads |-> ReadThrough(table, device),
     exempt |-> Offsets(table) \intersect orphans # {}]
SidecarsWith(claim) == sidecars \union {claim.id}
register_manifest(g, durable, owner, validate) ==
    /\ Resolves(log, g)
    /\ Cardinality(DOMAIN leases) < MaxLeases
    /\ registry.next <= MaxIds /\ nextEphemeral > LastId - MaxIds
    /\ LET table == Table(log, g)
           claim == Claim(g, durable, owner, table)
       IN  /\ validate_historical_page_liveness(g, table)
           /\ validate => verify_tree_at(table, history[g].routes, claim.reads)
           /\ sidecars' = SidecarsWith(claim)
           /\ job' = [NoJob EXCEPT !.kind = "retain", !.stage = "register", !.claim = claim]
    /\ UNCHANGED <<engineVars, device, disk, slotVars, stale, protected, views, leases, registry,
                   nextEphemeral, marks, logVars, vacuum, runVars, orphans, raced>>

RootsOf(c) == {id \in DOMAIN registry.roots : registry.roots[id].commit = c}
LatestOf(c) == Max({g \in DOMAIN history : history[g].commit = c})
Published(c) == \E g \in DOMAIN history \ {0} : history[g].commit = c

\* retain_commit: a commit that already has a durable root gets that root's id
\* and nothing changes.
retain_commit(c) ==
    /\ Writable /\ Flushed /\ Published(c)
    /\ RootsOf(c) = {}
    /\ register_manifest(LatestOf(c), TRUE, "id", TRUE)

\* retain_current: a handle with a durable root of its own.
retain_current ==
    /\ Writable /\ Flushed /\ gen > 0
    /\ register_manifest(gen, TRUE, "handle", TRUE)

\* begin_batch_transaction, retain_current_commit: a process-local root; only
\* the first one walks the tree.
begin_batch_transaction ==
    /\ Writable /\ Flushed /\ gen > 0
    /\ register_manifest(gen, FALSE, "handle", TRUE)
retain_current_commit ==
    /\ Writable /\ Flushed /\ gen > 0
    /\ register_manifest(gen, FALSE, "id", FALSE)

\* RetentionState::insert / insert_ephemeral: the registry is durable before
\* memory changes; the protected set is replaced by the union of the roots'.
insert_root ==
    /\ At("register")
    /\ LET claim == job.claim
           now   == Put(leases, claim.id :> claim)
           all   == UNION {now[id].offsets : id \in DOMAIN now}
       IN  /\ leases' = now
           /\ registry' = IF claim.durable
                          THEN [next |-> registry.next + 1,
                                roots |-> Put(registry.roots,
                                              claim.id :> [gen |-> claim.gen, commit |-> claim.commit])]
                          ELSE registry
           /\ nextEphemeral' = IF claim.durable THEN nextEphemeral ELSE nextEphemeral - 1
           /\ protected' = all
           /\ job' = [job EXCEPT !.stage = "install", !.seen = all]
    /\ UNCHANGED <<engineVars, device, disk, slotVars, stale, views, sidecars, marks, logVars,
                   vacuum, runVars, orphans, raced>>

\* set_protected_offsets with the copy taken above, then a refresh.
set_protected_offsets ==
    /\ At("install")
    /\ protected' = job.seen
    /\ job' = [job EXCEPT !.stage = "refresh"]
    /\ UNCHANGED <<engineVars, device, disk, slotVars, stale, leaseVars, marks, logVars,
                   vacuum, runVars, orphans, raced>>

\* begin_read_view: an ephemeral root without offsets, under the registry lock
\* until the free slots are refreshed; then the current table is pinned.
begin_read_view ==
    /\ Writable /\ MaintenanceIdle /\ gen > 0
    /\ Cardinality(DOMAIN leases) < MaxLeases /\ nextEphemeral > LastId - MaxIds
    /\ LET claim == [Claim(gen, FALSE, "view", pmt) EXCEPT !.offsets = {}]
       IN  /\ leases' = Put(leases, claim.id :> claim)
           /\ protected' = LeaseOffsets
           /\ job' = [NoJob EXCEPT !.kind = "view", !.stage = "refresh", !.claim = claim]
    /\ nextEphemeral' = nextEphemeral - 1
    /\ UNCHANGED <<engineVars, device, disk, slotVars, stale, views, registry, sidecars,
                   marks, logVars, vacuum, runVars, orphans, raced>>

read_view ==
    /\ At("pin")
    /\ views' = Put(views, job.claim.id :> pmt)
    /\ stale' = TRUE
    /\ job' = NoJob
    /\ UNCHANGED <<engineVars, device, disk, slotVars, protected, leases, registry, nextEphemeral,
                   sidecars, marks, logVars, vacuum, runVars, orphans, raced>>

(***************************************************************************)
(* Drops, on other threads                                                 *)
(***************************************************************************)
RegistryLocked == job.kind = "view" /\ job.stage \in {"refresh", "refreshed"}
InWindow == job.stage \in {"install", "refreshed"}

\* RetentionState::remove.  A durable root leaves the registry file before
\* memory changes.
Removed(id) ==
    LET now == Drop(leases, {id})
    IN  /\ leases' = now
        /\ registry' = [registry EXCEPT !.roots = Drop(@, {id})]
        /\ protected' = UNION {now[x].offsets : x \in DOMAIN now}

\* RetentionLease::release and drop: remove the root, then drop_marked.
drop_lease(id) ==
    /\ up /\ ~RegistryLocked
    /\ leases[id].owner \in {"handle", "view"}
    /\ ~(job.kind = "view" /\ job.claim.id = id)
    /\ Removed(id)
    /\ marks' = marks \union {id}
    /\ raced' = (raced \/ InWindow)
    /\ UNCHANGED <<engineVars, device, disk, slotVars, stale, views, nextEphemeral, sidecars, logVars, vacuum, job, runVars, orphans>>

\* Then the blob sidecar goes, and the free slots are marked stale.
drop_marked(id) ==
    /\ up
    /\ marks' = marks \ {id}
    /\ sidecars' = sidecars \ {id}
    /\ stale' = TRUE
    /\ raced' = (raced \/ InWindow)
    /\ UNCHANGED <<engineVars, device, disk, slotVars, protected, views, leases, registry,
                   nextEphemeral, logVars, vacuum, job, runVars, orphans>>

\* Dropping a StorageReadView: unpin one copy of its table.
drop_read_view(id) ==
    /\ up
    /\ views' = Drop(views, {id})
    /\ stale' = TRUE
    /\ raced' = (raced \/ InWindow)
    /\ UNCHANGED <<engineVars, device, disk, slotVars, protected, leases, registry, nextEphemeral,
                   sidecars, marks, logVars, vacuum, job, runVars, orphans>>

\* release_snapshot, by id, on the database's own thread.
release_snapshot(id) ==
    /\ Writable
    /\ leases[id].owner = "id"
    /\ Removed(id)
    /\ sidecars' = sidecars \ {id}
    /\ stale' = TRUE
    /\ UNCHANGED <<engineVars, device, disk, slotVars, views, nextEphemeral, marks, logVars,
                   vacuum, job, runVars, orphans, raced>>

(***************************************************************************)
(* History                                                                 *)
(***************************************************************************)
LastTwo == {g \in DOMAIN history : Cardinality({h \in DOMAIN history : h > g}) < 2}

\* prune_history keeps the authority and its fallback, every retained root,
\* and the checkpoint chains under them.
prune_history ==
    /\ Writable /\ Flushed /\ gen > 0
    /\ LET kept == LastTwo \union {leases[id].gen : id \in DOMAIN leases}
           checkpoints == UNION {meta_log_ancestors(log, g) : g \in kept \ {0}}
       IN  /\ history' = Drop(history, DOMAIN history \ kept)
           /\ log' = Drop(log, DOMAIN log \ checkpoints)
           /\ <<history', log'>> # <<history, log>>
    /\ UNCHANGED <<engineVars, device, disk, slotVars, stale, protected, leaseVars, marks,
                   gen, commit, published, vacuum, job, runVars, orphans, raced>>

(***************************************************************************)
(* Crash and reopening                                                     *)
(***************************************************************************)
Unsynced == {o \in DOMAIN device : o \notin DOMAIN disk \/ disk[o] # device[o]}
AfterCrash(kept) ==
    LET slots == DOMAIN disk \union kept
    IN  [o \in (IF slots = {} THEN {} ELSE 0..Max(slots)) |->
            IF o \in kept THEN device[o] ELSE IF o \in DOMAIN disk THEN disk[o] ELSE Hole]

\* The process ends; the file keeps some of what was not synced.
crash(kept) ==
    /\ up /\ opens < MaxOpens
    /\ up' = FALSE
    /\ device' = AfterCrash(kept) /\ disk' = AfterCrash(kept)
    /\ orphans' = orphans \union (IF Unpublished THEN job.targets ELSE {})
    /\ views' = None /\ marks' = {} /\ job' = NoJob /\ vacuum' = NoVacuum
    /\ leases' = [id \in DOMAIN registry.roots |-> leases[id]]
    /\ UNCHANGED <<engineVars, slotVars, stale, protected, registry, nextEphemeral, sidecars, logVars, fenced, opens, raced>>

Authority ==
    LET resolved == resolve_meta_log(log)
    IN  IF log = None THEN 0 ELSE Max({g \in DOMAIN log : resolved[g].ok})
AuthorityTable == IF Authority = 0 THEN None ELSE Table(log, Authority)

\* load_retained_offset_map: what open demands of every durable root.
RootOpens(id) ==
    /\ id \in sidecars
    /\ Resolves(log, registry.roots[id].gen)
    /\ Offsets(Table(log, registry.roots[id].gen)) \subseteq DOMAIN device
CanOpen == \A id \in DOMAIN registry.roots : RootOpens(id)

\* DB::open: the newest resolvable frame is the authority; durable roots come
\* back, process-local ones do not; orphaned sidecars are removed.
open(table, roots) ==
    /\ ~up /\ CanOpen
    /\ up' = TRUE /\ opens' = opens + 1 /\ fenced' = FALSE
    /\ pmt' = table
    /\ tree' = IF table = None THEN (0 :> Empty) ELSE ReadThrough(table, device)
    /\ dirtyPages' = {} /\ writeGen' = 0
    /\ nextVersion' = 1 + Max({0} \union {table[p].version : p \in DOMAIN table})
    /\ gen' = Authority
    /\ history' = IF log = None THEN history ELSE
                  [g \in DOMAIN log |-> [commit |-> log[g].commit, routes |-> log[g].routes]]
    /\ commit' = IF log = None THEN 0 ELSE log[Authority].commit
    /\ leases' = roots
    /\ registry' = [registry EXCEPT !.next = IF DOMAIN registry.roots = {} THEN 1 ELSE @]
    /\ nextEphemeral' = LastId
    /\ sidecars' = DOMAIN registry.roots
    /\ protected' = UNION {roots[id].offsets : id \in DOMAIN roots}
    /\ free' = DOMAIN device \ (Offsets(table) \union UNION {roots[id].offsets : id \in DOMAIN roots})
    /\ nextOffset' = Size(device) /\ pending' = {} /\ reserved' = {}
    /\ stale' = FALSE /\ raced' = FALSE
    /\ UNCHANGED <<device, disk, views, marks, log, published, vacuum, job, orphans>>
reopen == open(AuthorityTable,
               [id \in DOMAIN registry.roots |->
                   [leases[id] EXCEPT !.owner = "id",
                                      !.offsets = Offsets(Table(log, registry.roots[id].gen))]])

Next ==
    \/ \E W \in {{k} : k \in Keys} \union {Keys} : commit_batch(W)
    \/ \E k \in Keys : delete(k)
    \/ flush \/ refresh_read \/ refresh_store
    \/ write_dirty_pages(Targets) \/ preflight_flush_capacity(Targets)
    \/ sync_data \/ publish_authority_frame \/ complete_generation \/ fail
    \/ compact \/ (\E limit \in {0, 1, MaxSlots} : relocate_interior_pages(limit))
    \/ relocate_sync \/ truncate_reclaimable_tail
    \/ vacuum_step \/ finish_vacuum \/ cancel_vacuum
    \/ (\E c \in 1..commit : retain_commit(c))
    \/ retain_current \/ begin_batch_transaction \/ retain_current_commit
    \/ insert_root \/ set_protected_offsets \/ begin_read_view \/ read_view
    \/ (\E id \in DOMAIN leases : drop_lease(id) \/ release_snapshot(id))
    \/ (\E id \in marks : drop_marked(id))
    \/ (\E id \in DOMAIN views : drop_read_view(id))
    \/ prune_history
    \/ (\E kept \in SUBSET Unsynced : crash(kept))
    \/ reopen

Spec == Init /\ [][Next]_vars

(***************************************************************************)
(* Properties                                                              *)
(***************************************************************************)
Slots == 0..(MaxSlots - 1)

\* The variables hold what the fields of StorageEngine, RetentionState and DB
\* can hold.
TypeOK ==
    /\ DOMAIN device = 0..(Size(device) - 1) /\ DOMAIN device \subseteq Slots
    /\ DOMAIN disk \subseteq DOMAIN device
    /\ free \subseteq Slots /\ pending \subseteq Slots /\ reserved \subseteq Slots
    /\ protected \subseteq Slots /\ orphans \subseteq Slots
    /\ DOMAIN pmt \subseteq DOMAIN tree /\ dirtyPages \subseteq DOMAIN tree
    /\ DOMAIN registry.roots \subseteq DOMAIN leases
    /\ gen \in 0..MaxGenerations /\ commit \in 0..gen
    /\ {stale, fenced, up, raced} \subseteq BOOLEAN

\* validate_runtime_state between jobs: the active slots are distinct and lie
\* below the write frontier, and no slot is in two of the lists.
SlotListsDisjoint ==
    up /\ job = NoJob /\ ~fenced =>
        /\ \A p, q \in DOMAIN pmt : p # q => pmt[p].offset # pmt[q].offset
        /\ \A o \in Offsets(pmt) \union free : o < nextOffset
        /\ free \intersect Offsets(pmt) = {}
        /\ pending = {} /\ reserved = {}

\* A crash at any moment leaves every page of the last published generation as
\* it was published: no job writes over or truncates a slot the authority
\* frame names, however many jobs ran and failed since.
AuthoritySurvives ==
    LET g == Authority
    IN  g > 0 => \A file \in {device, disk} :
                    ReadThrough(published[g].pmt, file) = published[g].entries

\* A retained root reads, as long as it is held, what it read when it was
\* registered: through commits, compaction, vacuum, pruning and reopening.
RootsKeepReading ==
    \A id \in DOMAIN leases :
        leases[id].owner # "view" =>
            /\ Resolves(log, leases[id].gen)
            /\ ReadThrough(Table(log, leases[id].gen), device) = leases[id].reads

\* A read view reads the pages of the generation it was opened on while it
\* lives.
ViewsKeepReading ==
    \A id \in DOMAIN views :
        id \in DOMAIN leases => ReadThrough(views[id], device) = leases[id].reads

\* Every manifest of the history and every retained root resolves, through
\* deltas, full checkpoints and pruning, to the table that was published.
HistoryResolves ==
    LET resolved == resolve_meta_log(log)
    IN  \A g \in (DOMAIN history \union {leases[id].gen : id \in DOMAIN leases}) \ {0} :
            g \in DOMAIN log /\ resolved[g].ok /\ resolved[g].pmt = published[g].pmt

\* A root retained late reads what its commit published, unless one of its
\* slots was written by a relocation or a rebuild that never published.
LateRootsOriginal ==
    \A id \in DOMAIN leases :
        leases[id].exempt \/ leases[id].reads = published[leases[id].gen].entries

\* No slot leaks: with nothing stale and no drop inside a refresh, every slot
\* of the file is active, protected or free.
SlotsAccounted ==
    up /\ job = NoJob /\ ~fenced /\ ~stale /\ marks = {} /\ ~raced =>
        DOMAIN device = Offsets(pmt) \union free \union LeaseOffsets \union ViewOffsets

\* Whatever a crash leaves, the database opens: every durable root has its blob
\* image, its checkpoint chain and its pages.
AlwaysOpens == ~up => CanOpen

\* A vacuum's source cannot change under it: the writer lane stays reserved.
VacuumSourceFixed == vacuum.on => vacuum.gen = gen /\ vacuum.commit = commit

\* Maintenance does not change the database: a generation published for the
\* commit that was current holds the same live entries.
LiveEntries(entries) == {entries[p] : p \in {q \in DOMAIN entries : entries[q] # Empty /\ entries[q][2] # 0}}
MaintenanceIsInvisible ==
    \A g, h \in DOMAIN history \ {0} :
        history[g].commit = history[h].commit =>
            LiveEntries(published[g].entries) = LiveEntries(published[h].entries)

\* Retained roots and read views keep reading their generation (RetainedSnapshot,
\* StorageReadView).
ReadersKeepReading == RootsKeepReading /\ ViewsKeepReading

\* The history stays what was published: it resolves and opens after any crash,
\* and vacuum and compaction do not change what it says.
HistoryHolds == HistoryResolves /\ AlwaysOpens /\ VacuumSourceFixed /\ MaintenanceIsInvisible

\* The slots of the data file are in one list each, and none leaks
\* (validate_runtime_state).
SlotsHold == TypeOK /\ SlotListsDisjoint /\ SlotsAccounted

\* What retention.rs promises: a root retained late reads what its commit
\* published ("Retention must fail closed rather than treating a different,
\* structurally valid page as the requested historical value").
RetentionFailsClosed ==
    \A id \in DOMAIN leases : leases[id].reads = published[leases[id].gen].entries
=============================================================================
