------------------------------- MODULE VnStore -------------------------------
(***************************************************************************)
(* The files of a vNext store: the segmented transaction log               *)
(* (segment_log.rs under log_io.rs), the undo file (undo_store.rs), the    *)
(* page-image arena and its immutable page maps (page_store.rs), and the   *)
(* dependency table that gates page writeback (page_dependency.rs).  A     *)
(* file is what was written, how much of it a barrier has covered, and     *)
(* whether an incomplete frame follows.  A process kill keeps the written  *)
(* bytes; a power loss keeps what was covered and any prefix of the rest.  *)
(* A batch, an undo record and an image are identities: a commit sequence  *)
(* number or an undo version together with the life of the process that    *)
(* wrote it, so that a position written again after a loss is told apart.  *)
(***************************************************************************)
EXTENDS Integers, Sequences, FiniteSets, FiniteSetsExt, Functions, SequencesExt, TLC

CONSTANTS Pages,     \* logical pages
          MapIds,    \* page-map identities; 0 is the empty map published at creation
          Profiles   \* the bounds of a run, see MCVnStore

VARIABLES profile, budget,
          life,      \* which life of the process this is
          up,        \* "up", "down", or "refused" (an open that failed)
          wal,       \* the log segments on disk
          undo,      \* the undo file
          arena,     \* the page-image arena
          maps,      \* the page-map files
          dev,       \* SegmentedFileLogDevice and DurableLog in memory
          us,        \* UndoStore in memory
          ps,        \* PersistentPageIo in memory
          deps,      \* PageDependencyTable: requirements and frontiers
          acked,     \* barriers and maps acknowledged to a caller
          exposed    \* a crash met a rotation in progress or an uncovered segment

vars == <<profile, budget, life, up, wal, undo, arena, maps, dev, us, ps, deps, acked, exposed>>

Stride == 10                     \* positions of one segment in an LSN
Lsn(s, n) == s * Stride + n
NoReq == [wal |-> 0, undo |-> 0]

File(recs, synced, torn) == [recs |-> recs, synced |-> synced, torn |-> torn]
Synced(f) == [f EXCEPT !.synced = Len(f.recs)]
Written(f, r) == [f EXCEPT !.recs = Append(@, r)]

\* A barrier on a log segment covers its header too.
Barrier(s) == Synced([s EXCEPT !.hdr = "synced"])

Segment(hdr, entry) == [hdr |-> hdr, entry |-> entry] @@ File(<<>>, 0, FALSE)

\* The records of the log in order, and the undo records, as recovery reads them.
Records == FoldLeft(LAMBDA all, s : all \o s.recs, <<>>, wal)
LastLsn == LET s == Max({d \in DOMAIN wal : wal[d].recs # <<>>}) IN Lsn(s, Len(wal[s].recs))
At(lsn) == wal[lsn \div Stride].recs[lsn % Stride]

\* The components as their create leaves them, every byte covered.
NewLog == <<Segment("synced", TRUE)>>
NewUndo == File(<<>>, 0, FALSE)
NewArena == File(<<>>, 0, FALSE)

Init ==
  /\ profile \in Profiles
  /\ budget = [batch |-> profile.batch, undo |-> profile.undo, image |-> profile.image,
               fault |-> profile.fault, crash |-> profile.crash]
  /\ life = 1 /\ up = "up" /\ exposed = FALSE
  /\ wal = NewLog /\ undo = NewUndo /\ arena = NewArena
  /\ maps = [m \in MapIds |-> IF m = 0 THEN [state |-> "durable", entries |-> <<>>, end |-> 0]
                                       ELSE [state |-> "absent"]]
  /\ dev = [step |-> "idle", fenced |-> FALSE, dirty |-> {}, dir |-> FALSE]
  /\ us = [fenced |-> FALSE, durable |-> 0]
  /\ ps = [fenced |-> FALSE]
  /\ deps = [required |-> [p \in Pages |-> NoReq], frontier |-> NoReq]
  /\ acked = [batches |-> {}, maps |-> {0}]

Spend(what) == budget[what] > 0 /\ budget' = [budget EXCEPT ![what] = @ - 1]
Fault == Spend("fault")
-----------------------------------------------------------------------------
(* The segmented log.  DurableLog fences on any error of the device.       *)

Ready(step) == up = "up" /\ ~dev.fenced /\ dev.step = step
FenceLog == dev' = [dev EXCEPT !.fenced = TRUE, !.step = "idle"]
Current(f) == [wal EXCEPT ![Len(wal)] = f]
Full == Len(Last(wal).recs) = profile.segment
Batch == <<Len(Records) + 1, life>>

\* One prepared batch is written at the end of the current segment.  A write
\* that fails leaves an incomplete record or, cut between two, records without
\* their decision, which recovery drops.
write_batch ==
  \/ /\ Spend("batch")
     /\ wal' = Current(Written(Last(wal), Batch))
     /\ dev' = [dev EXCEPT !.step = "idle", !.dirty = @ \cup {Len(wal)}]
  \/ /\ Fault /\ FenceLog
     /\ \E torn \in BOOLEAN : wal' = Current([Last(wal) EXCEPT !.torn = torn])

\* A batch longer than a segment is refused before anything is written.
append ==
  /\ Ready("idle") /\ budget.batch > 0
  /\ \/ Fault /\ FenceLog /\ UNCHANGED wal
     \/ IF Full THEN dev' = [dev EXCEPT !.step = "create"] /\ UNCHANGED <<wal, budget>>
                ELSE write_batch
  /\ UNCHANGED <<profile, life, up, undo, arena, maps, us, ps, deps, acked, exposed>>

\* create_segment, one file operation a step; rotate then makes it current.
create_segment ==
  /\ \/ Ready("create") /\ wal' = Append(wal, Segment("none", FALSE))
        /\ dev' = [dev EXCEPT !.step = "header"]
     \/ Ready("header") /\ wal' = Current([Last(wal) EXCEPT !.hdr = "written"])
        /\ dev' = [dev EXCEPT !.step = "sync"]
     \/ Ready("sync") /\ wal' = Current([Last(wal) EXCEPT !.hdr = "synced"])
        /\ dev' = [dev EXCEPT !.step = "directory"]
     \/ Ready("directory") /\ wal' = [s \in DOMAIN wal |-> [wal[s] EXCEPT !.entry = TRUE]]
        /\ dev' = [dev EXCEPT !.step = "write", !.dir = TRUE]
  /\ UNCHANGED <<profile, budget, life, up, undo, arena, maps, us, ps, deps, acked, exposed>>

create_segment_failed ==
  /\ up = "up" /\ ~dev.fenced /\ dev.step \in {"create", "header", "sync", "directory"}
  /\ Fault /\ FenceLog
  /\ UNCHANGED <<profile, life, up, wal, undo, arena, maps, us, ps, deps, acked, exposed>>

rotate ==
  /\ Ready("write") /\ write_batch
  /\ UNCHANGED <<profile, life, up, undo, arena, maps, us, ps, deps, acked, exposed>>

\* Mutant: only the segment of the target is covered.
targets_current(s) == {d \in dev.dirty : d = s}

\* The dirty segments a barrier through segment s must cover.
targets(s) == {d \in dev.dirty : d <= s}

\* sync_through for a recorded end, and advance_wal once it has succeeded.
sync_through ==
  \E s \in DOMAIN wal : \E n \in 1..Len(wal[s].recs) :
    /\ Ready("idle")
    /\ \/ /\ wal' = [d \in DOMAIN wal |->
                       LET f == IF d \in targets(s) THEN Barrier(wal[d]) ELSE wal[d]
                       IN [f EXCEPT !.entry = @ \/ dev.dir]]
          /\ dev' = [dev EXCEPT !.dirty = @ \ targets(s), !.dir = FALSE]
          /\ deps' = [deps EXCEPT !.frontier.wal = IF @ > Lsn(s, n) THEN @ ELSE Lsn(s, n)]
          /\ acked' = [acked EXCEPT !.batches = @ \cup
                         {wal[d].recs[i] : <<d, i>> \in
                            {x \in (1..s) \X (1..profile.segment) :
                               x[2] <= (IF x[1] = s THEN n ELSE Len(wal[x[1]].recs))}}]
          /\ UNCHANGED budget
       \/ \E done \in SUBSET targets(s) :          \* one of several barriers fails
            /\ Fault /\ FenceLog
            /\ \A d \in done, e \in targets(s) \ done : d < e
            /\ wal' = [d \in DOMAIN wal |-> IF d \in done THEN Barrier(wal[d]) ELSE wal[d]]
            /\ UNCHANGED <<deps, acked>>
    /\ UNCHANGED <<profile, life, up, undo, arena, maps, us, ps, exposed>>
-----------------------------------------------------------------------------
(* The undo file.                                                          *)

UndoFrame == <<Len(undo.recs) + 1, life>>

undo_append ==
  /\ up = "up" /\ ~us.fenced
  /\ \/ /\ Spend("undo")
        /\ undo' = Written(undo, UndoFrame)
        /\ UNCHANGED us
     \/ /\ budget.undo > 0 /\ Fault
        /\ \E torn \in BOOLEAN : undo' = [undo EXCEPT !.torn = torn]
        /\ us' = [us EXCEPT !.fenced = TRUE]
  /\ UNCHANGED <<profile, life, up, wal, arena, maps, dev, ps, deps, acked, exposed>>

\* A version already durable needs no barrier; else one covers every indexed
\* record.  The caller advances the undo frontier to what is returned.
undo_sync_through ==
  /\ up = "up" /\ ~us.fenced
  /\ \/ /\ us.durable > deps.frontier.undo
        /\ deps' = [deps EXCEPT !.frontier.undo = us.durable]
        /\ UNCHANGED <<undo, us, budget>>
     \/ /\ us.durable < Len(undo.recs)
        /\ undo' = Synced(undo)
        /\ us' = [us EXCEPT !.durable = Len(undo.recs)]
        /\ deps' = [deps EXCEPT !.frontier.undo = Len(undo.recs)]
        /\ UNCHANGED budget
     \/ /\ us.durable < Len(undo.recs)
        /\ Fault /\ us' = [us EXCEPT !.fenced = TRUE]
        /\ UNCHANGED <<undo, deps>>
  /\ UNCHANGED <<profile, life, up, wal, arena, maps, dev, ps, acked, exposed>>
-----------------------------------------------------------------------------
(* Pages.  The table's interface lets a page change before the barriers of *)
(* its requirement have run; the gates below are what keeps it off disk.   *)

merged(a, b) == [wal  |-> IF a.wal > b.wal THEN a.wal ELSE b.wal,
                 undo |-> IF a.undo > b.undo THEN a.undo ELSE b.undo]

frontiers_cover(r) == r.wal <= deps.frontier.wal /\ r.undo <= deps.frontier.undo

merge(p) ==
  /\ up = "up" /\ Records # <<>>
  /\ deps' = [deps EXCEPT !.required[p] =
                merged(@, [wal |-> LastLsn, undo |-> Len(undo.recs)])]
  /\ deps' # deps
  /\ UNCHANGED <<profile, budget, life, up, wal, undo, arena, maps, dev, us, ps, acked, exposed>>

\* An image: its page, the requirement encoded in its header, and the records
\* that requirement stands for.
Image(p, r) == [page |-> p, req |-> r,
                batch |-> IF r.wal = 0 THEN <<>> ELSE At(r.wal),
                before |-> IF r.undo = 0 THEN <<>> ELSE undo.recs[r.undo]]

write_image(p) ==
  /\ up = "up" /\ frontiers_cover(deps.required[p]) /\ ~ps.fenced
  /\ \/ /\ Spend("image")
        /\ arena' = Written(arena, Image(p, deps.required[p]))
        /\ UNCHANGED ps
     \/ /\ budget.image > 0 /\ Fault
        /\ \E torn \in BOOLEAN : arena' = [arena EXCEPT !.torn = torn]
        /\ ps' = [ps EXCEPT !.fenced = TRUE]
  /\ UNCHANGED <<profile, life, up, wal, undo, maps, dev, us, deps, acked, exposed>>

\* The entry sets a caller may publish: at most one complete image per page,
\* each covered by the frontiers.
Selections ==
  {e \in UNION {[q -> DOMAIN arena.recs] : q \in SUBSET Pages} :
     \A p \in DOMAIN e : arena.recs[e[p]].page = p /\ frontiers_cover(arena.recs[e[p]].req)}

SyncImages == arena' = Synced(arena)

MapFile(state, e) == [state |-> state, entries |-> e, end |-> Len(arena.recs)]

\* A call that ends between the image barrier and the map leaves what MapExists
\* leaves.
write_map(m) ==
  \E e \in Selections :
    /\ up = "up" /\ ~ps.fenced
    /\ \/ Fault /\ ps' = [ps EXCEPT !.fenced = TRUE]                   \* image barrier
          /\ UNCHANGED <<arena, maps, acked>>
       \/ /\ SyncImages
          /\ \/ /\ maps[m].state # "absent" /\ arena # Synced(arena)   \* MapExists
                /\ UNCHANGED <<maps, ps, acked, budget>>
             \/ /\ maps[m].state = "absent"
                /\ maps' = [maps EXCEPT ![m] = MapFile("durable", e)]
                /\ acked' = [acked EXCEPT !.maps = @ \cup {m}]
                /\ UNCHANGED <<ps, budget>>
             \/ /\ maps[m].state = "absent"                            \* write, barrier, directory
                /\ Fault /\ ps' = [ps EXCEPT !.fenced = TRUE]
                /\ maps' \in {maps, [maps EXCEPT ![m] = MapFile("uncertain", e)]}
                /\ UNCHANGED acked
    /\ UNCHANGED <<profile, life, up, wal, undo, dev, us, deps, exposed>>
-----------------------------------------------------------------------------
(* Crashes.                                                                *)

\* What a power loss may leave of a file.
Survivors(f) ==
  {[f EXCEPT !.recs = SubSeq(f.recs, 1, k), !.synced = k, !.torn = t] :
     <<k, t>> \in {x \in (f.synced..Len(f.recs)) \X BOOLEAN :
                     x[2] => f.torn \/ x[1] < Len(f.recs)}}

\* A header not yet covered may be lost with all that follows it; so may a
\* whole file whose directory entry is not, and then the file is the last one.
Segments(s) ==
  (IF s.hdr = "none" THEN {} ELSE {[f EXCEPT !.hdr = "synced", !.entry = TRUE] : f \in Survivors(s)})
  \cup (IF s.hdr = "synced" THEN {} ELSE {Segment("none", TRUE)})

\* The log is exposed when a segment has no header or, at a power loss, none a
\* barrier covers, or when one before the last has records no barrier covers.
Exposed(power) ==
  \E s \in DOMAIN wal :
    \/ wal[s].hdr = "none"
    \/ power /\ wal[s].hdr = "written"
    \/ power /\ s < Len(wal) /\ wal[s].synced < Len(wal[s].recs)

kill ==
  /\ up = "up" /\ Spend("crash")
  /\ up' = "down" /\ exposed' = (exposed \/ Exposed(FALSE))
  /\ UNCHANGED <<profile, life, wal, undo, arena, maps, dev, us, ps, deps, acked>>

power_loss ==
  /\ up \in {"up", "down"} /\ Spend("crash")
  /\ up' = "down" /\ exposed' = (exposed \/ Exposed(TRUE))
  /\ \E kept \in {n \in DOMAIN wal : \A s \in DOMAIN wal : wal[s].entry => s <= n} :
       wal' \in {w \in [1..kept -> UNION {Segments(wal[s]) : s \in DOMAIN wal}] :
                   \A s \in 1..kept : w[s] \in Segments(wal[s])}
  /\ undo' \in Survivors(undo) /\ arena' \in Survivors(arena)
  /\ \E lost \in SUBSET {m \in MapIds : maps[m].state = "uncertain"} :
       maps' = [m \in MapIds |-> IF m \in lost THEN [state |-> "absent"] ELSE maps[m]]
  /\ UNCHANGED <<profile, life, dev, us, ps, deps, acked>>
-----------------------------------------------------------------------------
(* Reopening: the log, the undo file and the arena under a selected map,   *)
(* then the recovery coordinator's check that commit numbers are           *)
(* contiguous (ordered_recovery.rs).                                       *)

\* The undo file and the arena are cut and synchronized whatever their end, the
\* last log segment only when it is cut.
RepairedUndo(f) == Synced([f EXCEPT !.torn = FALSE])
RepairedArena(f) == Synced([f EXCEPT !.torn = FALSE])
RepairedSegment(s) == IF s.torn THEN Barrier([s EXCEPT !.torn = FALSE]) ELSE s

\* The record region of a segment ends inside a record.
Incomplete(s) == wal[s].torn

\* Every header is there and only the last segment may be incomplete.
LogOpens == /\ \A s \in DOMAIN wal : wal[s].hdr # "none"
            /\ \A s \in DOMAIN wal : Incomplete(s) => s = Len(wal)

Contiguous == \A i \in DOMAIN Records : Records[i][1] = i

Decodes(m) == maps[m].state # "absent"
DecodesAs(i, p) == i \in DOMAIN arena.recs /\ arena.recs[i].page = p

\* Every entry names a complete image of its page and the arena reaches the
\* boundary the map recorded.
Resolves(m) ==
  /\ Decodes(m)
  /\ \A p \in DOMAIN maps[m].entries : DecodesAs(maps[m].entries[p], p)
  /\ maps[m].end <= Len(arena.recs)

\* What a reopened log must cover again: every retained segment.
AllSegments == DOMAIN wal

\* The requirements of the mapped images; the frontiers start again at zero.
Restored(m) == [required |-> [p \in Pages |-> IF p \in DOMAIN maps[m].entries
                                              THEN arena.recs[maps[m].entries[p]].req ELSE NoReq],
                frontier |-> NoReq]

open ==
  \E m \in acked.maps :
    /\ up = "down"
    /\ IF LogOpens /\ Contiguous /\ Resolves(m)
       THEN /\ up' = "up" /\ life' = life + 1
            /\ wal' = Current(RepairedSegment(Last(wal)))
            /\ dev' = [step |-> "idle", fenced |-> FALSE, dirty |-> AllSegments, dir |-> TRUE]
            /\ undo' = RepairedUndo(undo)
            /\ us' = [fenced |-> FALSE, durable |-> Len(undo.recs)]
            /\ arena' = RepairedArena(arena)
            /\ ps' = [fenced |-> FALSE]
            /\ deps' = Restored(m)
       ELSE /\ up' = "refused"
            /\ UNCHANGED <<life, wal, undo, arena, dev, us, ps, deps>>
    /\ UNCHANGED <<profile, budget, maps, acked, exposed>>

\* An open that fails or dies after repairing some of the components.
open_interrupted ==
  \E done \in SUBSET {"log", "undo", "arena"} :
    /\ up = "down" /\ Fault
    /\ "log" \in done => LogOpens
    /\ wal' = IF "log" \in done THEN Current(RepairedSegment(Last(wal))) ELSE wal
    /\ undo' = IF "undo" \in done THEN RepairedUndo(undo) ELSE undo
    /\ arena' = IF "arena" \in done THEN RepairedArena(arena) ELSE arena
    /\ UNCHANGED <<profile, life, up, maps, dev, us, ps, deps, acked, exposed>>

Next ==
  \/ append \/ create_segment \/ create_segment_failed \/ rotate \/ sync_through
  \/ undo_append \/ undo_sync_through
  \/ \E p \in Pages : merge(p) \/ write_image(p)
  \/ \E m \in MapIds : write_map(m)
  \/ kill \/ power_loss \/ open \/ open_interrupted

Spec == Init /\ [][Next]_vars
-----------------------------------------------------------------------------
(* Properties.                                                             *)

\* What the in-memory state of the devices says agrees with the files: dirty
\* segments exist, a clean one is covered, and the frontiers never pass what
\* the barriers covered.
TypeOK ==
  up = "up" =>
    /\ dev.dirty \subseteq DOMAIN wal
    /\ \A s \in DOMAIN wal \ dev.dirty : wal[s].synced = Len(wal[s].recs)
    /\ us.durable <= undo.synced /\ deps.frontier.undo <= us.durable
    /\ deps.frontier.wal # 0 => deps.frontier.wal % Stride
                                  <= wal[deps.frontier.wal \div Stride].synced

\* A batch whose barrier returned stays in the log, in order, through every
\* kill, power loss and repair that follows.
AckedBatchesSurvive ==
  /\ acked.batches \subseteq Range(Records)
  /\ \A b \in acked.batches : Records[b[1]] = b

\* A published map keeps naming complete images of its pages.
MapsResolve == \A m \in acked.maps : Resolves(m)

\* An image on disk never outlives what it depends on: the very commit batch
\* and before-image its requirement stands for are still in the log and the
\* undo file at the recorded positions.
ImagesAreCovered ==
  \A i \in DOMAIN arena.recs :
    LET g == arena.recs[i] IN
    /\ g.req.wal # 0 => /\ g.req.wal \div Stride \in DOMAIN wal
                        /\ g.req.wal % Stride \in DOMAIN wal[g.req.wal \div Stride].recs
                        /\ At(g.req.wal) = g.batch
    /\ g.req.undo # 0 => g.req.undo \in DOMAIN undo.recs /\ undo.recs[g.req.undo] = g.before

\* Opening fails after a crash only when the crash met the log exposed.
RefusalsAreExposed == up = "refused" => exposed

\* Opening succeeds after every crash.
OpensAfterCrash == up # "refused"

\* The files fit together after every crash and repair.
FilesHold == TypeOK /\ AckedBatchesSurvive /\ MapsResolve /\ ImagesAreCovered /\ RefusalsAreExposed
=============================================================================
