----------------------------- MODULE SeerPublish -----------------------------
(***************************************************************************)
(* The publication engine of SeerDB: one handle that journals mutations to *)
(* the write-ahead log, turns the pending ones into a root generation, and *)
(* recovers after a crash.  A mutation is a number and the tree is the set *)
(* of the mutations that it holds; a log position counts records; pages    *)
(* are the tree that a frame of the metadata log names.  A handle method   *)
(* is cut at every write and sync that a crash can fall between: `steps`   *)
(* is what the method in progress has left to do.                          *)
(***************************************************************************)
EXTENDS Integers, Sequences, SequencesExt

CONSTANTS
    Profiles,      \* options of the database, operations and faults of a run
    ReclaimAt      \* WAL_RETENTION_RECLAIM_BYTES, in records

ASSUME ReclaimAssumption == ReclaimAt \in Nat \ {0}

VARIABLES
    walFile,       \* seerdb.wal as the operating system shows it
    walSynced,     \* how many of its records are on the medium
    removed,       \* a WAL file whose removal is not yet on the medium
    frames,        \* publication frames of seerdb.meta.log
    framesSynced,  \* how many of them are on the medium
    status,        \* "open", "opening", "down" or "corrupt"
    db,            \* the fields of the DB handle
    job,           \* what the method in progress publishes
    steps,         \* what the method in progress has left to do
    minted,        \* mutations issued so far are 1 .. minted
    groups,        \* sets of mutations that were given one commit
    reported,      \* mutations reported durable to a caller
    lost,          \* mutations that some open did not find
    profile,       \* the profile of this behaviour
    faults         \* faults so far

diskVars == <<walFile, walSynced, removed, frames, framesSynced>>
ghostVars == <<minted, groups, reported, lost>>
envVars == <<profile, faults>>
vars == <<diskVars, status, db, job, steps, ghostVars, envVars>>

NoFile == [file |-> << >>, synced |-> 0]
NoCommit == [generation |-> 0, id |-> 0, seq |-> 0, lsn |-> [segment |-> 0, offset |-> 0],
             digest |-> << >>]
NoJob == [commit |-> NoCommit, intact |-> FALSE, batch |-> << >>, covers |-> {}]

Segment(s) == [kind |-> "segment", segment |-> s]
Mutation(m) == [kind |-> "mutation", id |-> m]
Commit(c) == [kind |-> "commit", commit |-> c]
Mutations(ms) == [i \in DOMAIN ms |-> Mutation(ms[i])]

\* A publication frame: the manifest of the commit, the tree its pages hold,
\* and whether those pages were on the medium when the frame was appended.
Frame(c, tree, intact) == [commit |-> c, tree |-> tree, intact |-> intact]

-----------------------------------------------------------------------------
(* Opening. *)

\* Recovery tries the frames newest first.
select_authority_manifest(fs) ==
    CHOOSE f \in Range(fs) : \A g \in Range(fs) : g.commit.generation <= f.commit.generation

\* Whether a commit of the log may stand beside the selected manifest.
FrontierAgrees(c, current) ==
    \/ /\ c.generation < current.generation
       /\ c.id <= current.id /\ c.seq <= current.seq
    \/ c = current
    \/ /\ c.generation > current.generation
       /\ c.id > current.id /\ c.seq > current.seq

\* Mutant: a mutation is replayed when it is met, whatever commit it belongs to.
AnalyzeRecordAtOnce(current, a, r) ==
    CASE r.kind = "segment" ->
           [a EXCEPT !.segment = r.segment, !.offset = @ + 1]
      [] r.kind = "mutation" ->
           [a EXCEPT !.pending = Append(@, r.id), !.offset = @ + 1,
                     !.replayed = @ \cup {r.id}]
      [] r.kind = "commit" ->
           LET c == r.commit
               ahead == c.generation > current.generation
           IN  [a EXCEPT !.ok = @ /\ FrontierAgrees(c, current),
                         !.pending = << >>, !.offset = @ + 1, !.keep = a.offset + 1,
                         !.last = IF ahead THEN c ELSE @]

\* One record of the log: where the last commit ends, and what the commits
\* ahead of the manifest replay.
AnalyzeRecord(current, a, r) ==
    CASE r.kind = "segment" ->
           [a EXCEPT !.ok = @ /\ a.offset = 0 /\ r.segment >= current.lsn.segment,
                     !.segment = r.segment, !.offset = @ + 1]
      [] r.kind = "mutation" ->
           [a EXCEPT !.pending = Append(@, r.id), !.offset = @ + 1]
      [] r.kind = "commit" ->
           LET c == r.commit
               ahead == c.generation > current.generation
           IN  [a EXCEPT !.ok = /\ @
                                /\ c.lsn = [segment |-> a.segment, offset |-> a.offset + 1]
                                /\ c.digest = a.pending
                                /\ FrontierAgrees(c, current),
                         !.pending = << >>, !.offset = @ + 1, !.keep = a.offset + 1,
                         !.last = IF ahead THEN c ELSE @,
                         !.replayed = IF ahead THEN @ \cup Range(a.pending) ELSE @]

analyze_wal(file, current) ==
    FoldLeft(LAMBDA a, r : AnalyzeRecord(current, a, r),
             [ok |-> TRUE, segment |-> current.lsn.segment, offset |-> 0, pending |-> << >>,
              keep |-> 0, last |-> NoCommit, replayed |-> {}],
             file)

\* What a writable open keeps: a tail without a commit is cut off.
reconcile_wal(file, wal) == SubSeq(file, 1, wal.keep)

\* The segment that the next append belongs to, read before the WAL is trimmed.
open_wal_segment(file, current) ==
    IF file = << >>
    THEN IF current.lsn.offset # 0 THEN current.lsn.segment + 1 ELSE current.lsn.segment
    ELSE IF Head(file).kind = "segment" THEN Head(file).segment ELSE current.lsn.segment

\* A handle on what was found.
OpenHandle(current, tree, segment) ==
    [fenced |-> FALSE, buffer |-> << >>, tree |-> tree, pending |-> << >>, staged |-> FALSE,
     unframed |-> NoCommit, unframedRecords |-> 0, manifest |-> current, published |-> current,
     segment |-> segment, reserved |-> FALSE, attached |-> TRUE,
     nextId |-> current.id + 1, nextSeq |-> current.seq + 1,
     nextGeneration |-> current.generation + 1]

NoHandle == OpenHandle(NoCommit, {}, 0)

-----------------------------------------------------------------------------
(* What the methods of the handle have to do. *)

\* write_wal_to_disk: the buffered records, synced under sync_writes.
Log == IF profile.syncWrites THEN <<"log", "logsync">> ELSE <<"log">>

\* ensure_wal_reservation: a new file starts with its segment, forced.
Reservation ==
    IF db.reserved THEN << >>
    ELSE IF walFile = << >> THEN <<"reserve", "log", "logsync">> ELSE <<"reserve">>

\* The pages and the authority frame of a commit that the log already holds.
Materialize == <<"preflight", "data", "frame", "authority", "finish">>

\* A generation published copy-on-write: pages, commit record, frame.
Publish == Log \o <<"stamp", "preflight", "data", "record">> \o Log
               \o <<"frame", "authority", "finish">>

\* A staged group publishes in the same way, and stamps its commit once the
\* pages are on the medium.
PublishGroup == Log \o <<"preflight", "data">> \o Log \o <<"stamp", "record">> \o Log
                    \o <<"frame", "authority", "finish">>

\* Mutant: the append is not forced.
SoftPublishUnsynced == Log \o <<"stamp", "record", "log", "soft">>

\* The same commit acknowledged after one forced append to the log.
SoftPublish == Log \o <<"stamp", "record", "log", "logsync", "soft">>

\* How a group that admit_batch staged is published.
publication_barrier == IF profile.walFirst THEN SoftPublish ELSE PublishGroup

flush ==
    IF db.staged THEN publication_barrier
    ELSE IF db.pending # << >> THEN Publish
    ELSE IF db.unframed # NoCommit THEN <<"materialize">> \o Materialize
    ELSE << >>

-----------------------------------------------------------------------------
(* The methods. *)

Ready(verb) ==
    /\ verb \in profile.verbs
    /\ status = "open" /\ steps = << >> /\ ~ db.fenced

\* The next n mutations.
Fresh(n) == [i \in 1 .. n |-> minted + i]

\* A method begins with the mutations of its batch.
Begin(todo, n) ==
    /\ minted + n <= profile.mutations
    /\ minted' = minted + n
    /\ job' = [NoJob EXCEPT !.batch = Fresh(n)]
    /\ steps' = todo
    /\ UNCHANGED <<diskVars, status, db, groups, reported, lost, envVars>>

put == Ready("put") /\ Begin(Reservation \o <<"install">> \o Log, 1)

commit_group_at ==
    /\ Ready("batch")
    /\ db.pending = << >>
    /\ Begin(Reservation \o <<"group">> \o Log
                \o (IF profile.walFirst THEN SoftPublish ELSE Publish) \o <<"ack">>, 2)

admit_batch == Ready("admit") /\ Begin(Reservation \o <<"stage">>, 1)

flush_database == Ready("flush") /\ flush # << >> /\ Begin(flush \o <<"ack">>, 0)

commit_maintenance_batch ==
    /\ Ready("maintenance")
    /\ Begin(flush \o <<"preflight", "rewrite", "preflight", "data", "frame", "authority", "settle", "ack">>, 1)

close == Ready("close") /\ Begin(flush \o <<"unlink">>, 0)

-----------------------------------------------------------------------------
(* The steps of a method. *)

At(step) == steps # << >> /\ Head(steps) = step
Advance == steps' = Tail(steps)

\* The batch enters the tree and the buffer of the log, where it is pending.  A
\* failure to write the buffer fences the handle, so it does not show which of
\* the two comes first.
install_batch ==
    /\ \E step \in {"install", "group", "stage"} :
         /\ At(step)
         /\ db' = [db EXCEPT !.tree = @ \cup Range(job.batch), !.pending = @ \o job.batch,
                             !.buffer = @ \o Mutations(job.batch),
                             !.staged = @ \/ step = "stage",
                             !.nextSeq = IF step = "group" THEN @ + Len(job.batch) - 1 ELSE @]
    /\ Advance
    /\ UNCHANGED <<diskVars, status, job, ghostVars, envVars>>

\* The file for the log is reserved, synced and in its directory on the medium;
\* a new one gets its segment.
ensure_wal_reservation ==
    /\ At("reserve")
    /\ db' = [db EXCEPT !.reserved = TRUE,
                        !.buffer = IF walFile = << >> THEN @ \o <<Segment(db.segment)>> ELSE @]
    /\ walSynced' = Len(walFile)
    /\ removed' = NoFile
    /\ Advance
    /\ UNCHANGED <<walFile, frames, framesSynced, status, job, ghostVars, envVars>>

\* Appends go through the cached descriptor, even when its file was unlinked.
write_wal ==
    /\ At("log")
    /\ walFile' = IF db.attached THEN walFile \o db.buffer ELSE walFile
    /\ db' = [db EXCEPT !.buffer = << >>]
    /\ Advance
    /\ UNCHANGED <<walSynced, removed, frames, framesSynced, status, job, ghostVars, envVars>>

sync_wal ==
    /\ At("logsync")
    /\ walSynced' = Len(walFile)
    /\ Advance
    /\ UNCHANGED <<walFile, removed, frames, framesSynced, status, db, job, ghostVars, envVars>>

\* The commit of everything pending, positioned where its record will end.
assign_commit_lsn ==
    /\ At("stamp")
    /\ job' = [job EXCEPT !.commit = [generation |-> db.nextGeneration, id |-> db.nextId,
                                      seq |-> db.nextSeq, digest |-> db.pending,
                                      lsn |-> [segment |-> db.segment, offset |-> Len(walFile) + 1]]]
    /\ Advance
    /\ UNCHANGED <<diskVars, status, db, ghostVars, envVars>>

preflight_publication_capacity ==
    /\ At("preflight")
    /\ Advance
    /\ UNCHANGED <<diskVars, status, db, job, ghostVars, envVars>>

\* Dirty pages are written out of place and synced.
write_and_sync_pages ==
    /\ At("data")
    /\ job' = [job EXCEPT !.intact = TRUE]
    /\ Advance
    /\ UNCHANGED <<diskVars, status, db, ghostVars, envVars>>

append_commit_record ==
    /\ At("record")
    /\ db' = [db EXCEPT !.buffer = Append(@, Commit(job.commit))]
    /\ groups' = groups \cup {Range(job.commit.digest)}
    /\ Advance
    /\ UNCHANGED <<diskVars, status, job, minted, reported, lost, envVars>>

append_generation_meta ==
    /\ At("frame")
    /\ frames' = Append(frames, Frame(job.commit, db.tree, job.intact))
    /\ Advance
    /\ UNCHANGED <<walFile, walSynced, removed, framesSynced, status, db, job, ghostVars, envVars>>

\* The synced frame is the visibility barrier.
sync_authority_frame ==
    /\ At("authority")
    /\ framesSynced' = Len(frames)
    /\ db' = [db EXCEPT !.manifest = job.commit]
    /\ Advance
    /\ UNCHANGED <<walFile, walSynced, removed, frames, status, job, ghostVars, envVars>>

Larger(m, n) == IF m < n THEN n ELSE m

\* The generation is current and nothing is pending.  A WAL that has grown
\* past the bound is removed without forcing its directory entry.
finish_generation_publication ==
    /\ At("finish")
    /\ LET c == job.commit
           reclaim == Len(walFile) >= ReclaimAt
           segment == IF reclaim THEN db.segment + 1 ELSE db.segment
       IN  /\ removed' = IF reclaim THEN [file |-> walFile, synced |-> walSynced] ELSE removed
           /\ walFile' = IF reclaim THEN << >> ELSE walFile
           /\ walSynced' = IF reclaim THEN 0 ELSE walSynced
           /\ db' = [db EXCEPT !.published = c, !.pending = << >>, !.staged = FALSE,
                               !.unframed = NoCommit, !.unframedRecords = 0,
                               !.reserved = @ /\ ~ reclaim, !.attached = @ \/ reclaim,
                               !.segment = Larger(segment, c.lsn.segment),
                               !.nextId = Larger(@, c.id + 1), !.nextSeq = Larger(@, c.seq + 1),
                               !.nextGeneration = Larger(@, c.generation + 1)]
           /\ job' = [job EXCEPT !.covers = Range(c.digest)]
    /\ Advance
    /\ status' = IF status = "opening" THEN "open" ELSE status
    /\ UNCHANGED <<frames, framesSynced, minted, groups, reported, lost, envVars>>

\* The commit is acknowledged with its pages and frame still to come; past
\* the bound on replay they come at once.
finish_wal_first ==
    /\ At("soft")
    /\ LET records == db.unframedRecords + Len(db.pending) + 1
           bound == profile.bound # 0 /\ records >= profile.bound
       IN  /\ db' = [db EXCEPT !.published = job.commit, !.pending = << >>, !.staged = FALSE,
                               !.unframed = job.commit, !.unframedRecords = records,
                               !.nextId = @ + 1, !.nextSeq = job.commit.seq + 1,
                               !.nextGeneration = @ + 1]
           /\ steps' = (IF bound THEN Materialize ELSE << >>) \o Tail(steps)
    /\ job' = [job EXCEPT !.covers = Range(job.commit.digest)]
    /\ UNCHANGED <<diskVars, status, ghostVars, envVars>>

materialize_unframed_commit ==
    /\ At("materialize")
    /\ job' = [job EXCEPT !.commit = db.unframed]
    /\ Advance
    /\ UNCHANGED <<diskVars, status, db, ghostVars, envVars>>

\* A maintenance batch enters the tree without the log, under a generation
\* that repeats the identity of the newest manifest.
install_maintenance_batch ==
    /\ At("rewrite")
    /\ db' = [db EXCEPT !.tree = @ \cup Range(job.batch)]
    /\ job' = [job EXCEPT !.commit = [db.manifest EXCEPT !.generation = db.nextGeneration]]
    /\ groups' = groups \cup {Range(job.batch)}
    /\ Advance
    /\ UNCHANGED <<diskVars, status, minted, reported, lost, envVars>>

finish_maintenance ==
    /\ At("settle")
    /\ db' = [db EXCEPT !.published.generation = job.commit.generation, !.pending = << >>,
                        !.nextGeneration = job.commit.generation + 1]
    /\ job' = [job EXCEPT !.covers = @ \cup Range(job.batch)]
    /\ Advance
    /\ UNCHANGED <<diskVars, status, ghostVars, envVars>>

\* The method returns Ok.
acknowledge ==
    /\ At("ack")
    /\ reported' = reported \cup job.covers
    /\ job' = NoJob
    /\ Advance
    /\ UNCHANGED <<diskVars, status, db, minted, groups, lost, envVars>>

\* A clean shutdown removes the log, and forces that if there was one.
remove_wal ==
    /\ At("unlink")
    /\ removed' = IF walFile = << >> THEN removed ELSE [file |-> walFile, synced |-> walSynced]
    /\ walFile' = << >>
    /\ walSynced' = 0
    /\ steps' = IF walFile = << >> THEN <<"shut">> ELSE <<"syncdir", "shut">>
    /\ UNCHANGED <<frames, framesSynced, status, db, job, ghostVars, envVars>>

sync_directory ==
    /\ At("syncdir")
    /\ removed' = NoFile
    /\ Advance
    /\ UNCHANGED <<walFile, walSynced, frames, framesSynced, status, db, job, ghostVars, envVars>>

\* The handle is gone; the caller was told that close succeeded.
shut ==
    /\ At("shut")
    /\ status' = "down"
    /\ reported' = reported \cup job.covers
    /\ db' = NoHandle
    /\ job' = NoJob
    /\ steps' = << >>
    /\ UNCHANGED <<diskVars, minted, groups, lost, envVars>>

-----------------------------------------------------------------------------
(* What goes wrong. *)

Fault(kind) ==
    /\ kind \in profile.faults
    /\ faults < profile.failures
    /\ faults' = faults + 1
    /\ UNCHANGED profile

\* The method in progress returns its error.  An open that fails leaves no
\* handle behind; a writer whose media are uncertain is fenced.
GiveUp(handle) ==
    /\ steps' = << >>
    /\ job' = NoJob
    /\ status' = IF status = "opening" THEN "down" ELSE status
    /\ db' = IF status = "opening" THEN NoHandle ELSE handle

FencingSteps == {"log", "logsync", "data", "frame", "authority", "finish", "settle"}

publication_fails ==
    /\ Fault("io")
    /\ \E step \in FencingSteps : At(step)
    /\ GiveUp([db EXCEPT !.fenced = TRUE])
    /\ UNCHANGED <<diskVars, ghostVars>>

\* No capacity: nothing was written, and the handle stays writable.
capacity_refused ==
    /\ Fault("capacity")
    /\ At("preflight") \/ At("reserve")
    /\ GiveUp(db)
    /\ UNCHANGED <<diskVars, ghostVars>>

\* Close cannot remove the log, or cannot force the removal: the handle stays
\* open, with a descriptor on the unlinked file if it had one.
close_fails ==
    /\ Fault("close")
    /\ \/ At("unlink") /\ GiveUp(db)
       \/ At("syncdir") /\ GiveUp([db EXCEPT !.attached = ~ db.reserved])
    /\ UNCHANGED <<diskVars, ghostVars>>

NoProcess ==
    /\ status' = "down"
    /\ db' = NoHandle
    /\ job' = NoJob
    /\ steps' = << >>

\* A fenced handle is dropped; Drop does not close it.
drop_handle ==
    /\ status = "open" /\ db.fenced
    /\ NoProcess
    /\ UNCHANGED <<diskVars, ghostVars, envVars>>

\* The process dies, and what it had written stays with the operating system.
process_dies ==
    /\ Fault("process")
    /\ status \in {"open", "opening"}
    /\ NoProcess
    /\ UNCHANGED <<diskVars, ghostVars>>

\* The machine stops: of what was not synced a prefix survives, and a removal
\* that was not forced may be undone.
power_fails ==
    /\ Fault("power")
    /\ status \in {"open", "opening", "down"}
    /\ \/ \E n \in walSynced .. Len(walFile) :
            /\ walFile' = SubSeq(walFile, 1, n)
            /\ walSynced' = n
       \/ \E n \in removed.synced .. Len(removed.file) :
            /\ walFile = << >> /\ removed # NoFile
            /\ walFile' = SubSeq(removed.file, 1, n)
            /\ walSynced' = n
    /\ removed' = NoFile
    /\ \E n \in framesSynced .. Len(frames) :
         /\ frames' = SubSeq(frames, 1, n)
         /\ framesSynced' = n
    /\ NoProcess
    /\ UNCHANGED ghostVars

-----------------------------------------------------------------------------
(* Opening again: select the authority, trim and replay the log, and publish *)
(* the replayed commit before the handle is handed out.                      *)

open_database ==
    /\ status = "down"
    /\ LET authority == select_authority_manifest(frames)
           current == authority.commit
           wal == analyze_wal(walFile, current)
           tree == authority.tree \cup wal.replayed
           replay == wal.last # NoCommit
       IN  IF ~ authority.intact \/ ~ wal.ok
           THEN /\ status' = "corrupt"
                /\ UNCHANGED <<diskVars, db, job, steps, ghostVars>>
           ELSE /\ walFile' = reconcile_wal(walFile, wal)
                /\ walSynced' = IF walFile' # walFile THEN Len(walFile') ELSE walSynced
                /\ db' = OpenHandle(current, tree, open_wal_segment(walFile, current))
                /\ job' = [NoJob EXCEPT !.commit = wal.last]
                /\ steps' = IF replay THEN Log \o Materialize ELSE << >>
                /\ status' = IF replay THEN "opening" ELSE "open"
                /\ lost' = lost \cup (1 .. minted \ tree)
                /\ UNCHANGED <<removed, frames, framesSynced, minted, groups, reported>>
    /\ UNCHANGED envVars

-----------------------------------------------------------------------------
Bootstrap == Frame(NoCommit, {}, TRUE)

\* A new database, after its bootstrap frame.
Init ==
    /\ walFile = << >> /\ walSynced = 0 /\ removed = NoFile
    /\ frames = <<Bootstrap>> /\ framesSynced = 1
    /\ status = "open" /\ db = NoHandle /\ job = NoJob /\ steps = << >>
    /\ minted = 0 /\ groups = {} /\ reported = {} /\ lost = {}
    /\ profile \in Profiles /\ faults = 0

Method == put \/ commit_group_at \/ admit_batch \/ flush_database \/ commit_maintenance_batch \/ close

Step ==
    \/ install_batch \/ ensure_wal_reservation \/ write_wal \/ sync_wal \/ assign_commit_lsn
    \/ preflight_publication_capacity \/ write_and_sync_pages \/ append_commit_record
    \/ append_generation_meta \/ sync_authority_frame \/ finish_generation_publication
    \/ finish_wal_first \/ materialize_unframed_commit \/ install_maintenance_batch
    \/ finish_maintenance \/ acknowledge \/ remove_wal \/ sync_directory \/ shut

Failure ==
    publication_fails \/ capacity_refused \/ close_fails \/ drop_handle \/ process_dies \/ power_fails

Next == Method \/ Step \/ Failure \/ open_database

Spec == Init /\ [][Next]_vars

-----------------------------------------------------------------------------
(* Properties. *)

CommitRecords == [generation : Nat, id : Nat, seq : Nat, digest : Seq(Nat),
                  lsn : [segment : Nat, offset : Nat]]

\* Types of the files and of what is under way.
TypeOK ==
    /\ walSynced \in 0 .. Len(walFile)
    /\ framesSynced \in 1 .. Len(frames)
    /\ \A i \in DOMAIN frames : frames[i].commit \in CommitRecords
    /\ removed.synced \in 0 .. Len(removed.file)
    /\ status \in {"open", "opening", "down", "corrupt"}
    /\ job.commit \in CommitRecords /\ db.manifest \in CommitRecords
    /\ reported \cup lost \cup db.tree \subseteq 1 .. minted

\* What flush, a batch, a barrier, a maintenance batch or close reported
\* durable is in every database opened later.
AckedSurvives == status \in {"open", "opening"} => reported \subseteq db.tree

\* Mutations given one commit are all there or none is, in every opened tree.
GroupsAtomic ==
    status \in {"open", "opening"} =>
        \A g \in groups : g \subseteq db.tree \/ g \cap db.tree = {}

\* Whatever the faults, opening never finds the log and the authority at odds
\* or a frame that names pages which did not reach the medium.
OpensClean == status # "corrupt"

\* A mutation that an open has discarded never comes back.
LostStaysLost == status \in {"open", "opening"} => lost \cap db.tree = {}

\* Between methods a writable handle with nothing unframed reports the
\* identity of the newest synced frame, as verify requires.
HeadIsAuthority ==
    status = "open" /\ steps = << >> /\ ~ db.fenced /\ db.unframed = NoCommit =>
        /\ db.published = select_authority_manifest(frames).commit
        /\ db.manifest = db.published

\* What every open finds, after any sequence of faults: log and authority that
\* agree, groups whole, nothing back that was discarded; and the handle's
\* identity is the authority's.
RecoveryHolds == TypeOK /\ GroupsAtomic /\ OpensClean /\ LostStaysLost /\ HeadIsAuthority
=============================================================================
