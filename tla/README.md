# Formal models of OmenDB and SeerDB

OmenDB is a relational database server that speaks the PostgreSQL protocol.
SeerDB (`crates/seerdb`) is the ordered, transactional storage engine below it,
with a next kernel, vnext (`crates/seerdb/src/vnext`), growing beside the
shipped one. durable-fs is a small crate of file-system primitives. This
directory holds TLA+ models of the parts whose correctness depends on the order
of steps, the TLC configurations that check them on small instances, and proofs,
checked by TLAPS, of what holds for every size.

`PROJECT.json` maps the definitions to the lines they model and lists the
components, runs, mutants, hazards, findings and theorems. A small helper whose
lines lie inside the lines of the definition that uses it is not listed in the
map by itself.

## The system and the modules

| Part | Source (under `src/`) | Modules |
| --- | --- | --- |
| Transactional kernel | `crates/seerdb/src/transactional.rs`, `mvcc/version_store.rs` | `SeerTxn`, `MvccChain`, `SeerTxnProofs` |
| What the kernel promises | the same | `CommitLog` |
| Hybrid latch | `concurrency/latch.rs` | `HybridLatch`, `HybridLatchProofs` |
| Single-writer engine: publication, WAL, recovery | `db.rs`, `db/*` | `SeerPublish` |
| Page store: mapping, slots, vacuum, history, retained roots, read views | `storage/*`, `mvcc/pmt.rs`, `db/*` | `SeerPages` |
| vnext commit pipeline and replay | `vnext/ordered_commit.rs` and what it uses | `VnCommit` |
| vnext B-link tree | `vnext/btree/*_v4.rs` | `VnBTree`, `OrderedMap` |
| vnext buffer pool | `vnext/buffer.rs`, `frame.rs`, `translation.rs` | `VnBuffer` |
| vnext files | `vnext/segment_log.rs`, `undo_store.rs`, `page_store.rs`, `page_map.rs` | `VnStore` |
| vnext store directory, durable-fs | `vnext/store.rs`, `crates/durable-fs/src/lib.rs` | `VnDirectory`, `VnDirectoryProofs` |
| Relational store on SeerDB, authorization | `src/relational.rs`, `src/seer_direct.rs`, `src/row_identity.rs`, `src/authorization*` | `RelCatalog`, `AuthCatalog`, `DirectStore` |
| SQL values, binding, execution | `src/sql*`, `src/arithmetic.rs`, `src/morsel.rs` | `SqlNumeric`, `SqlText`, `SqlExpr`, `SqlTerm`, `SqlSelect`, `SqlJoin`, `SqlEngine`, `SqlBind`, `SqlReference` |
| Schema statements, dump and restore | `src/sql_schema.rs`, `src/sql/binding/ddl.rs`, `src/sql_dump.rs` | `SqlSchema`, `SqlDump` |
| Sessions, query runtime, wire server | `src/session.rs`, `src/runtime.rs`, `src/pgwire_server/*` | `Session`, `SessionProofs`, `Reactor`, `PgServer`, `PgWorkerProofs`, `PgServerProofs` |

The `MC*` modules give the constants values and put components of one run side
by side: a variable `part` says which of them a behaviour is about, and the
others keep their initial states, so one run explores each of them by itself.

Most modules take a constant `Profiles` (or `Plans`, `Shapes`): a behaviour keeps
one profile, which names the operations in use, the faults that may happen and
the budgets of both. A run explores all of its profiles; this keeps every
operation inside an instance small enough to exhaust.

### The kernel

A step of `SeerTxn` is what the code does without giving up a lock.

| Variable | Code |
| --- | --- |
| `live`, `dbPending`, `fenced` | the `DB`: its tree, `pending_mutations`, `write_fenced` |
| `disk` | the generation that a reopen selects |
| `vers`, `vnext`, `vdur` | `VersionStore`; `vdur` is how far it has been synced |
| `statuses`, `changes`, `leases`, `published`, `mirror`, `mfence`, `closed` | the fields of `Runtime` |
| `queue`, `pKeys`, `pTrees` / `uKeys`, `uTrees` | `PrepareState` / `PublishingState` |
| `st`, `snap`, `writes`, `created`, `dropped`, `ranges`, `preads`, `seen` | `Transaction` |
| `lane`, `phase`, `members`, `alive`, `cand` | the holder of the publish lane and its local variables |
| `outcome`, `position` | the channel from the publisher to a committer |

A commit is `Stage`, then `LeadWave` by whoever finds the lane free,
`TakeStaged`, `BuildWave`, `WavePublish` or one of its failures, the
installation of the mirrors one by one, `SendOutcomes`, `EndWave` and `Settle`.
Reservations, leases and collections take the same lane, settle what is staged,
and then publish something of their own. The engine is used through its
contract: a publication succeeds, is refused before it changes anything, fails
with an unknown outcome and fences the handle, or is refused for capacity after
its batch was installed in memory. A before-image may fail to be appended, a sync
of the versions may fail, a record may be too large, and `close` may return an
error. `Reopen` is a crash at any step. The value of a key is present or absent;
who wrote it is in the record. The branch that fences when the engine reports
another commit number than the wave assigned is unreachable under this contract.
A before-image frame that is written in part is not represented: it would stay in
the middle of the file under later frames, where the scan of an open refuses it.

What the leases and the order of commits promise is stated on the kernel itself:
`LeasePins` that a lease survives collections, crashes and reopening together
with every change and version it pins, `Serializable` that whatever a committed
transaction read is what it would have read just before its commit number.

`CommitLog` is the promise: a durable history of commits, each with its snapshot,
registered reads and writes, extended only by commits admissible against
everything before them. `MvccChain` holds the pure functions of the version
store: which version a snapshot sees, what a collection retains.

`SeerPublish` is one `DB` handle, its write-ahead log and its metadata log. A
handle is used by one caller at a time (`&mut self`), so a method is a list of
steps (`steps`, `job`), cut wherever a write or a sync lets a crash fall between.
At every step a write or sync may fail and fence the handle, a preflight may
refuse, the process may be killed (what was written stays) or the power may fail
(any prefix beyond what was synced survives).

`SeerPages` follows the slots of the data file: `device` is what the process
reads, `disk` what a crash is sure to keep, `free`, `pending`, `reserved` and
`protected` are the lists of `storage/reclamation.rs`. Commits, compaction,
resumable vacuum, pruning, retained roots, read views and their drops on other
threads are jobs of several steps with errors and crashes between them.

### vnext

`VnCommit` models one call of the commit path per transaction, step by step:
admission, intents in key order, validation and preparation, the append, the two
syncs, the installation of each record, the status, in-order visibility, and the
release; with refusals, I/O errors that fence the log, the undo store, the
frontier or admission, checkpoint capture and drain, cursors, crash, and replay
of the log into empty trees (pages are not recovery authority). Preparation may
fail before the append. A replay that refuses the log (`up = "refused"`), which
`ReplayHolds` excludes, is told apart from one that meets an I/O error of a page
(`up = "broken"`), which leaves some of the before-images in the undo store, and the
next open starts again.

`VnBTree` is the B-link tree at the grain of one page latch and implements
`OrderedMap`. A page that cannot be pinned ends the call (`fail`); one that cannot
be created ends it with its identity taken and the requirements merged
(`create_page_failed`), so a split may stay without a separator or a root. Two
profiles have values of different sizes, one of them a high fence that takes space.
`VnBuffer` makes every access to the packed frame word, the translation table and
the load table a step; loads of one word whose order cannot matter, because nothing
is decided between them, are read together. `VnStore` is the files with failing,
lost and torn writes, refused oversize batches, and an open that is interrupted
between its creations; `VnDirectory` the lock, the identity file and the claims. A
rename that reports an error may have happened, and a power loss keeps of the
directory what was synced and any part of the rest (`PowerLoss`).

### OmenDB

`DirectStore` has the committed trees (`db`), the handle's own catalog and tree
identities (`store`), the open transactions with their registered reads, and the
schema transaction in flight. A statement is one step: it runs against a
snapshot plus its own writes, and only its commit meets the others. A commit of
which the kernel cannot tell the outcome (`commit_unsure`,
`schema_commit_unsure`) leaves the handle as it was and fenced; `reopen` then finds
the history with the commit or without it, and both have to open.

The SQL modules are operators from statement trees to bound statements to
answers; `SqlReference` says what the answers are to be, from the rows alone. Rows
found through an index come in the order of the table, which is the order of the
row identities by which the code sorts them.
`Session` is the admission mutex and the database lock behind it, `Reactor` the
governor of query work. `PgServer` has one task, one worker, one transaction
block and one cancellation entry per connection, the database lock and the
accept loop.

## Runs and bounds

| Run | Question | Instance |
| --- | --- | --- |
| `kernel` | Does the kernel implement the certified history, are commits serializable in their order, do snapshots resolve, is a committer ever forgotten? | up to 4 transactions, 2 keys, 2 trees; six repertoires of operations |
| `recovery` | Do the promises and the leases survive failed appends, syncs and publications, fences, close, crashes and reopening? | up to 3 transactions, 2 faults |
| `settles` | Does every committer get an outcome, does every buffer-pool call return? | 3 transactions with a failing publication or refusals; 2 threads, 1 or 2 frames, an I/O error |
| `publication` | Is what was reported durable in every later open, are groups all or nothing, does the log agree with the authority? Does the latch count its holders? | up to 4 mutations, 2 faults of any kind, log reclaimed after 6 records; 3 threads; 3 commits in groups of 2 over 2 keys |
| `pages` | Is a slot reused while a reader or a crash needs it, does one leak? | 2 keys, 3 slots, 3 generations, a retained root, a read view, a reopen |
| `store` | Do indexes, references, unique keys, grants and the catalog stay consistent? | 2 transactions and a schema transaction, every referential action and timing; commits of unknown outcome beside schema changes |
| `front` | Do answers agree with the reference, do bound statements and plans, do schema statements compose and dumps restore, does a client hear the truth? | tables of up to 2 rows; 2 connections |
| `progress` | Is work lost or counted twice, do permits exclude, does everyone get on, does shutdown close? | 2 workers, 3 submissions; 3 callers; 2 connections |
| `vn_commits` | Do snapshots resolve, are acknowledged commits durable and ordered, can every log be replayed, does the drain end? | 2 transactions, 2 keys, one I/O error and one crash |
| `vn_tree` | Does the B-link tree implement a map under concurrent descents and splits? | 2 threads, 6 keys, 3 values |
| `vn_store` | Do acknowledged batches survive, is the directory owned once, are guards safe? | 1 page in 2 maps; 3 handles, 2 claimers; 2 threads over 2 pages |
| `late_root` | A violation: retention of an older commit does not fail closed after a vacuum that crashed before publishing | 1 key, 4 slots, 2 opens |

Why these bounds are enough to see the interesting cases. Conflicts are between
pairs of transactions and a wave has a leader and followers, so three
transactions reach every relation of two members of a wave and an outsider. One
fault and a crash after it reach every unknown outcome and its recovery; two
reach a crash of a recovery. Three slots are one for the current page, one for
its successor and one that a reader pins, so a fourth allocation has to reuse one;
a tree of more than one entry is followed for two generations, of one entry for
three (`Followed` in `MCSeerPages`). In `pages` the code's own counters
(`MaxChain`, the length of a delta chain; `MaxIds`, retained roots) are at their
smallest values that still pass their limits. In `front` integers have small
maxima (`I64Max`, `U64Max`, `I128Max`) so that overflow, rounding and the loss of
precision happen; `ROWS_PER_INSERT` and `RELATIONAL_SQL_BATCH_LIMIT` are 1 and 2
so that batches fill. In `store` a row identity, a version and a commit number
run to `MaxBegins` and `MaxCommits`. In `vn_tree` a page holds what its profile's
budget allows, so that the third or fourth key splits it and the root is
promoted. Symmetry is used where threads or transactions are interchangeable
(`store`, `vn_tree`) and no liveness is checked.

Behaviours end when operations and faults are used up, so deadlock is not
checked, except in `vn_tree`, where only the end of all calls may stop;
`settles`, `progress` and `vn_commits` show that nobody waits for ever.

Fairness is weak fairness of threads inside a call, which the operating system
schedules: the lane holder, the committer's loop (`LeadWave`, `Settle`) and a
buffer-pool call (`settles`); dispatch and completion of admitted work, the
callers inside `acquire` and their statements, the worker of each connection and
the shutdown sequence (`progress`); the commit call, the drain and replay
(`vn_commits`). Clients are never assumed to do anything. `ReadersResume`
is checked with no more readers than may be in flight: beyond that nothing in the
code orders the readers among themselves, and one may be overtaken again and again.

## What the code does not keep

One run shows a disagreement with a comment of the source: `late_root`. A vacuum
does not stamp its pages with a write generation, so pages of a rebuild that was
synced and never published pass for older than any commit after a reopen, and
`retain_commit` accepts a commit whose slots they reused (`retention.rs:243` says
it must fail closed).

The modules also keep statements of the sources that the code does not hold, with
the shortest profiles that show it, and the passing profiles leave out what leads
to them:

* `SeerTxn`: a write and a drop of its tree in one wave are both accepted
  (`LifecycleConflicts`, `DropsAndWrites`); the position is published before the
  lifecycle mirror (`SnapshotFixesTrees`); a commit refused for capacity and
  reported as aborted is published by a later flush (`RefusedWrites`). A leader
  can be held up for ever by an endless supply of lease operations.
* `SeerPublish`: a staged WAL-first group is lost by a clean close (`SoftClose`);
  an acknowledged WAL-first commit is lost when a reopen relies on a frame that was
  never synced (`UnsyncedFrame`).
* `SeerPages`: a `RetainedSnapshot` that outlives its `DB` persists a stale registry
  when it is dropped (`retention_state.rs:116`); `retain_commit` may return the
  identity of a root that dies with its handle; a drop inside the window of a
  refresh leaves slots unreclaimed until the next one; identities start at 1 again
  once the registry was emptied and reopened.
* `DirectStore`: a child row that refers to itself is expanded before it is removed,
  so its cascade runs into the depth limit (`CascadesComplete`, `CycleProfiles`;
  `seer_direct.rs:1002`). A partial index over a date makes a catalog that is
  published and cannot be decoded by the next open (`relational.rs:1755`); the model
  has no such predicate values.
* SQL: the values of a single-table grouping come in GROUP BY order whatever the
  projection says (`GroupsInOrder`); an equality with a value that does not convert
  fails the statement, an inequality does not (`ComparisonsRun`); a dump leaves out an
  index over the columns of the primary key (`DumpComplete`).
* `Session`, `Reactor`: refused operations are counted twice
  (`session.rs:180`, `225`); what `OverloadPolicy` does is not what `runtime.rs:53`
  says of it.
* `VnCommit`: a durable decision that fails before it is installed releases its
  intents, and a transaction admitted earlier then appends a conflicting decision
  (`FirstCommitterWins`, `FaultProfile`; `ordered_commit.rs:3`). It is not
  acknowledged, which is what `AckedSawPredecessors` says. A range cursor may move
  over its own transaction's commit.
* `VnBTree`: a record that the preflight accepted does not fit after the one cut
  that a split makes (`PreflightHolds`, `SizedProfiles`; `btree/preflight.rs:3`).
* `VnBuffer`: a page written between the check of its dirty bit and the change to
  Evicting is dropped unwritten (`WritesAreKept`; `frame.rs:272`, `buffer.rs:12`).
* `VnStore`: a crash that meets a rotation in progress may leave a log that does not
  open (`OpensAfterCrash`; `RefusalsAreExposed` says that nothing else does).

## Proofs

A theorem holds for every value of the constants; the runs check the same
definitions on small instances, and the inductive invariants were checked by TLC
on those instances before they were proved.

| Theorem | What it says | Hypotheses |
| --- | --- | --- |
| `HybridLatchProofs!LatchCorrect` | the word counts the readers, or is all ones for one writer | finitely many threads, fewer than the write mark |
| `SeerTxnProofs!ControlTypes`, `NoCommitterIsLost`, `CloseIsFinal` | a committer without an outcome is queued, drained or in the wave; a closed database is quiet | the bounds are naturals |
| `SeerTxnProofs!FenceIsFinal` | a fenced handle makes nothing durable until it is reopened | the same |
| `SessionProofs!AdmissionCorrect` | permits are the operations inside, a writer is alone, a permit finds the lock free | finitely many callers, a positive limit |
| `VnDirectoryProofs!StoreHasOneOwner` | a component is leased once, all handles saw one identity | `"none"` names no handle |
| `PgServerProofs!AnswersAreTrue`, `ConnectionsEndTogether`, `ShutdownIsOrderly` | answers, blocks and statuses are true; slots are the live connections; the database closes when nobody refers to it | finitely many connections, plans of the right types (`Setting`) |

The arguments:

* *Latch.* The invariant counts readers by cardinality and ties each thread's
  local copy of the word to its program counter.
* *Kernel.* `NoLostCommitter` is not inductive. `ControlInv` adds that the queue,
  the drained members and the wave are disjoint, which phases have an empty wave,
  that a published wave waits for its outcome until it is sent, that the owner of
  a reservation stays active, and that an operation between its two locks belongs
  to an active transaction. Steps are grouped by what they do to the control
  state, one lemma each. `FenceIsFinal` needs only that a wave is built while the
  handle is not fenced.
* *Admission.* `SInv` adds that the holders of the lock are the operations that run
  under it.
* *Directory.* `DirInv`: who is past the lock has it, a claim is one bit under a
  handle that holds it, and an identity is written only where there is none.
* *Wire server.* `WireInv` is mostly about one connection: which states of its task,
  worker, block and cancellation entry go together. A step is a turn of one
  connection; lemmas say what a turn owes the invariant, and each handler is shown
  to be such a turn: the worker's in `PgWorkerProofs`, the task's and the server's in
  `PgServerProofs`. What ties connections together are the count of workers, the
  lock, and that a write belongs to one connection until it is decided.

Facts about finite sets enter the proofs of the wire server as a premise
(`FiniteLaws`), which is proved from the library's theorems at the end of
`PgServerProofs`.

Checked by TLC only:

* liveness: `CommitSettles`, `CallsReturn`, `ServerProceeds`, and the temporal part of
  `DrainHolds`;
* refinements and what rests on profiles: `ImplementsCommitLog`, `ImplementsMap`,
  `Serializable`, `LeasePins` and `DiskHolds` are not true for arbitrary profiles, which may combine
  the repertoires listed above as what the code does not keep;
* what follows chains or folds over data: snapshots along version and undo chains
  (`SeerTxn!SnapshotsHold`, `VnCommit!SnapshotsHold`), sums of costs (`WorkHolds`), the
  delta chains of `SeerPages`, log prefixes and torn tails in `SeerPublish` and
  `VnStore`, search paths in `VnBTree`; they need an induction over the data;
* `AcksHold`, `ReplayHolds` and `PoolHolds` of vnext, whose invariants relate every
  record of the log, page and frame to every step of every call;
* the SQL modules and `DirectStore`, whose recursive operators the prover does not
  take.

## Not modelled

The single-threaded B-tree and the buffer cache behind one mutex of the shipped
engine (their concurrent successors in vnext are), blobs outside the tree, archives,
byte formats and checksums, parsing of SQL text, TLS and SCRAM, COPY, JSON and UUID
values, metrics, tools and benchmarks. Of the wire server a failed SCRAM exchange, a
worker that panics, poisoned locks and a peer without an address are left out. The
latch is modelled by itself: no other modelled part takes it. `PROJECT.json` lists each part with its
reason. Reads of lifecycle records are not certified by the code and are not part of
what `CommitLog` promises.
