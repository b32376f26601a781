------------------------------ MODULE SeerTxn ------------------------------
(***************************************************************************)
(* The transactional kernel of SeerDB, crates/seerdb/src/transactional.rs: *)
(* snapshot transactions over ordered trees, leader/follower group commit, *)
(* wave-time certification, tree reservations, retention leases, the       *)
(* committed-change stream, collection of versions and of changes, close   *)
(* and reopen after a crash.                                               *)
(*                                                                         *)
(* A step is what the code does without giving up a lock, so every place   *)
(* where another thread can get in is a step boundary.  The publish lane   *)
(* is one process: `phase` is where its holder is, `lane` the operation it *)
(* was taken for.  The storage engine below (db/) is used through its      *)
(* contract: a publication succeeds, is refused before it does anything,   *)
(* fails with an unknown outcome and fences the handle, or is refused for  *)
(* capacity after its batch has been installed in memory.                  *)
(*                                                                         *)
(* The value of a key is abstracted to "put" or "none" (absent): who wrote *)
(* it is in the record.  Keys are numbers, and <<tree, 0>> is the key of a *)
(* tree's lifecycle record.                                                *)
(***************************************************************************)
EXTENDS MvccChain, Sequences, FiniteSets, Functions

CONSTANTS MaxTxn,      \* bound: transaction identities that begin hands out
          MaxTree,     \* bound: tree identities that create_tree hands out
          MaxKey,      \* bound: keys per tree
          MaxVersion,  \* bound: clients commit while the store holds at most these
          InitTrees,   \* trees that exist at the start
          Names,       \* names of retention leases
          Profiles     \* what the clients and the environment may do

ASSUME BoundsAssumption ==
    /\ MaxTxn \in Nat /\ MaxTree \in Nat /\ MaxKey \in Nat /\ MaxVersion \in Nat
    /\ InitTrees \in 0..MaxTree /\ InitTrees <= MaxTxn

VARIABLES
    live,       \* the database image in memory; its log and cut are history:
                \* every change so far, and how far versions were collected
    disk,       \* the image that a reopen finds
    dbPending,  \* DB::pending_mutations # 0
    fenced,     \* DB::write_fenced
    vers,       \* the version store: identity -> version
    vnext,      \* VersionStore::next_id
    vdur,       \* versions up to this identity are on disk
    statuses,   \* Runtime::statuses, 0 for no entry
    changes,    \* Runtime::changes: the CSNs whose record is retained
    leases,     \* Runtime::leases: name -> floor, 0 for no lease
    published,  \* Runtime::published_position
    mirror,     \* Runtime::tree_lifecycle_mirror
    mfence,     \* Runtime::write_fenced
    closed,     \* Runtime::closed
    nextTxn,    \* Runtime::next_transaction
    nextTree,   \* Runtime::next_tree
    queue,      \* PrepareState::queue
    pKeys,      \* PrepareState::keys
    pTrees,     \* PrepareState::trees
    uKeys,      \* PublishingState::keys
    uTrees,     \* PublishingState::trees
    st,         \* state of each transaction
    snap,       \* Transaction::snapshot
    writes,     \* Transaction::writes
    created,    \* Transaction::created
    dropped,    \* Transaction::dropped
    ranges,     \* Transaction::read_ranges
    preads,     \* Transaction::point_reads
    saw,        \* history: what its reads returned, <<key, version>>
    seen,       \* Transaction::tree_states
    pend,       \* a write-path operation between its two locks
    outcome,    \* what the publisher sent to the committer
    position,   \* the commit position that a success carries
    lane,       \* the operation that holds the publish lane
    phase,      \* how far that operation is
    members,    \* the drained commits, before they are certified
    alive,      \* the drained commits that passed
    cand,       \* the image the wave is about to publish
    profile,    \* the operations, faults and bounds of this behaviour
    faults      \* faults so far

dbVars == <<live, disk, dbPending, fenced>>
verVars == <<vers, vnext, vdur>>
memVars == <<statuses, changes, leases, published, mirror, mfence, closed>>
idVars == <<nextTxn, nextTree>>
prepVars == <<queue, pKeys, pTrees, uKeys, uTrees>>
bodyVars == <<snap, writes, created, dropped, ranges, preads, saw, seen, pend>>
outVars == <<outcome, position>>
waveVars == <<members, alive, cand>>
laneVars == <<lane, phase, waveVars>>
envVars == <<profile, faults>>
vars == <<dbVars, verVars, memVars, idVars, prepVars, st, bodyVars, outVars,
          laneVars, envVars>>

Txns == 1..MaxTxn

Trees == 1..MaxTree

Keys == 1..MaxKey

DataKeys == Trees \X Keys

Life(tree) == <<tree, 0>>

RecKeys == Trees \X (0..MaxKey)

\* Key ranges a scan may ask for: the keys of the tree from lo up to hi.
Ranges == {r \in Trees \X Keys \X Keys : r[2] <= r[3]}

InRange(k, r) == k[1] = r[1] /\ k[2] >= r[2] /\ k[2] <= r[3]

MinOf(S) == CHOOSE x \in S : \A y \in S : x <= y

MaxOf(S) == CHOOSE x \in S : \A y \in S : x >= y

NoWrites == [k \in DataKeys |-> "unset"]

NoLife == [tree \in Trees |-> "unset"]

\* A committer's outcome: none yet, a failure that published nothing, a failure
\* whose result only a reopen can tell, or success.
Outcomes == {"none", "failed", "recovery", "ok"}

NoPend == [op |-> "none", tree |-> 0, key |-> 0, val |-> "none", rec |-> AbsentRecord]

NoLane == [op |-> "idle", txn |-> 0, tree |-> 0, name |-> "", floor |-> 0,
           keep |-> {}, prune |-> {}]

\* One committed change.  `writes` and `life` hold the values too, `reads` the
\* keys the transaction had registered as read, and `saw` what its reads had
\* returned: they record what happened.
Change(t, s, w, l, r, o) ==
    [txn |-> t, snap |-> s, writes |-> w, life |-> l, reads |-> r, saw |-> o]

ChangedKeys(c) == {k \in DataKeys : c.writes[k] # "unset"}

-----------------------------------------------------------------------------
(* The start: a database in which transactions 1..InitTrees each created a  *)
(* tree (a reservation, then the commit) and nothing has been collected.    *)

InitChange(c) ==
    LET i == (c + 1) \div 2
        v == IF c % 2 = 1 THEN "reserved" ELSE "live"
    IN  Change(i, 2 * (i - 1), NoWrites, [NoLife EXCEPT ![i] = v], {}, {})

InitImage ==
    [rec |-> [k \in RecKeys |->
                IF k[2] = 0 /\ k[1] <= InitTrees
                THEN [txn |-> k[1], commit |-> 0, undo |-> 2 * k[1], val |-> "live"]
                ELSE AbsentRecord],
     status |-> [t \in Txns |-> IF t <= InitTrees THEN 2 * t ELSE 0],
     change |-> 1..(2 * InitTrees),
     lease |-> [n \in Names |-> 0],
     water |-> [txn |-> 0, tree |-> 0],
     csn |-> 2 * InitTrees,
     cut |-> 0,
     log |-> [c \in 1..(2 * InitTrees) |-> InitChange(c)]]

InitVersions ==
    [id \in 1..(2 * InitTrees) |->
        IF id % 2 = 1 THEN [prev |-> 0, txn |-> 0, commit |-> 0, val |-> "none"]
        ELSE [prev |-> id - 1, txn |-> id \div 2, commit |-> 0, val |-> "reserved"]]

Init ==
    /\ live = InitImage /\ disk = InitImage /\ dbPending = FALSE /\ fenced = FALSE
    /\ vers = InitVersions /\ vnext = 2 * InitTrees + 1 /\ vdur = 2 * InitTrees
    /\ statuses = InitImage.status /\ changes = InitImage.change
    /\ leases = InitImage.lease /\ published = InitImage.csn
    /\ mirror = [tree \in Trees |-> InitImage.rec[Life(tree)]]
    /\ mfence = FALSE /\ closed = FALSE
    /\ nextTxn = InitTrees + 1 /\ nextTree = InitTrees + 1
    /\ queue = <<>> /\ pKeys = {} /\ pTrees = {} /\ uKeys = {} /\ uTrees = {}
    /\ st = [t \in Txns |-> IF t <= InitTrees THEN "committed" ELSE "unborn"]
    /\ snap = [t \in Txns |-> 0]
    /\ writes = [t \in Txns |-> NoWrites]
    /\ created = [t \in Txns |-> {}] /\ dropped = [t \in Txns |-> {}]
    /\ ranges = [t \in Txns |-> {}] /\ preads = [t \in Txns |-> {}] /\ saw = [t \in Txns |-> {}]
    /\ seen = [t \in Txns |-> [tree \in Trees |-> "unknown"]]
    /\ pend = [t \in Txns |-> NoPend]
    /\ outcome = [t \in Txns |-> IF t <= InitTrees THEN "ok" ELSE "none"]
    /\ position = InitImage.status
    /\ lane = NoLane /\ phase = "idle"
    /\ members = <<>> /\ alive = {} /\ cand = InitImage
    /\ profile \in Profiles /\ faults = 0

-----------------------------------------------------------------------------
(* Locks.  The database mutex is held from the build of a wave to the end   *)
(* of the lane operation; the version-store mutex and the status mutex by a *)
(* reservation and by a version collection until they return.               *)

DbFree == phase \in {"idle", "coalesce", "drained"}

VersionsFree == phase \notin {"reserved", "recorded", "marked", "rewritten", "remirrored"}

\* ActiveSnapshots: a transaction is registered until it leaves Active.
Registered == {t \in Txns : st[t] \in {"active", "staged"}}

Running(t) == st[t] = "active" /\ pend[t].op = "none"

\* The transaction ends: its snapshot is released and its body forgotten.
EndTxn(t, s) ==
    /\ st' = [st EXCEPT ![t] = s]
    /\ snap' = [snap EXCEPT ![t] = 0]
    /\ writes' = [writes EXCEPT ![t] = NoWrites]
    /\ created' = [created EXCEPT ![t] = {}]
    /\ dropped' = [dropped EXCEPT ![t] = {}]
    /\ ranges' = [ranges EXCEPT ![t] = {}]
    /\ preads' = [preads EXCEPT ![t] = {}]
    /\ saw' = [saw EXCEPT ![t] = {}]
    /\ seen' = [seen EXCEPT ![t] = [tree \in Trees |-> "unknown"]]
    /\ pend' = [pend EXCEPT ![t] = NoPend]

-----------------------------------------------------------------------------
(* Transactions.                                                            *)

\* begin takes an identity and looks at the closed flag and the fence mirror.
BeginCheck(t) ==
    /\ t = nextTxn /\ t <= profile.txns
    /\ nextTxn' = t + 1
    /\ st' = [st EXCEPT ![t] = IF closed \/ mfence THEN "refused" ELSE "opening"]
    /\ UNCHANGED <<dbVars, verVars, memVars, nextTree, prepVars, bodyVars,
                   outVars, laneVars, envVars>>

\* Mutant: the closed flag is not looked at again.
BeginRegisterUnchecked(t) ==
    /\ st[t] = "opening"
    /\ st' = [st EXCEPT ![t] = "active"]
    /\ snap' = [snap EXCEPT ![t] = published]
    /\ UNCHANGED <<dbVars, verVars, memVars, idVars, prepVars, writes, created,
                   dropped, ranges, preads, saw, seen, pend, outVars, laneVars, envVars>>

\* Under the registry lock begin looks at the flag again, samples the published
\* position and registers it as the snapshot.
BeginRegister(t) ==
    /\ st[t] = "opening"
    /\ st' = [st EXCEPT ![t] = IF closed THEN "refused" ELSE "active"]
    /\ snap' = [snap EXCEPT ![t] = IF closed THEN 0 ELSE published]
    /\ UNCHANGED <<dbVars, verVars, memVars, idVars, prepVars, writes, created,
                   dropped, ranges, preads, saw, seen, pend, outVars, laneVars, envVars>>

\* What put, delete and drop_tree do once the tree is known to be visible.
ApplyVerb(t, op, tree, k, v) ==
    IF op = "drop"
    THEN /\ dropped' = [dropped EXCEPT ![t] = @ \cup {tree}]
         /\ UNCHANGED writes
    ELSE /\ writes' = [writes EXCEPT ![t][<<tree, k>>] = v]
         /\ UNCHANGED dropped

\* put, delete and drop_tree.  The tree's visibility comes from the tree the
\* transaction created, from its cache, or from the lifecycle mirror: the last
\* is copied here and resolved by ResolveTree, under other locks.  A tree that
\* is not visible refuses the operation, which changes nothing.
StageVerb(t, op, tree, k, v) ==
    /\ Running(t)
    /\ op # "drop" => tree \notin dropped[t]
    /\ \/ /\ tree \in created[t] \/ seen[t][tree] = "yes"
          /\ ApplyVerb(t, op, tree, k, v)
          /\ UNCHANGED pend
       \/ /\ tree \notin created[t]
          /\ seen[t][tree] = "unknown"
          /\ mirror[tree] # AbsentRecord
          /\ pend' = [pend EXCEPT ![t] = [op |-> op, tree |-> tree, key |-> k,
                                          val |-> v, rec |-> mirror[tree]]]
          /\ UNCHANGED <<writes, dropped>>
    /\ UNCHANGED <<dbVars, verVars, memVars, idVars, prepVars, st, snap, created,
                   ranges, preads, saw, seen, outVars, laneVars, envVars>>

\* Whether clients use the operation, on keys up to k, in this behaviour.
Uses(verb, k) == verb \in profile.verbs /\ k <= profile.keys

Put(t, tree, k) == Uses("put", k) /\ StageVerb(t, "put", tree, k, "put")

Delete(t, tree, k) == Uses("delete", k) /\ StageVerb(t, "delete", tree, k, "none")

DropTree(t, tree) == "drop" \in profile.verbs /\ StageVerb(t, "drop", tree, 0, "none")

\* The copied lifecycle record, resolved at the snapshot.
PendingView(t) == visible_current(vers, statuses, pend[t].rec, snap[t])

\* tree_visible after it has the version store and the statuses: the answer is
\* cached for the life of the transaction, and the operation goes on if the
\* tree is live.  Corruption is returned and caches nothing.
ResolveTree(t) ==
    /\ pend[t].op \in {"put", "delete", "drop"}
    /\ VersionsFree
    /\ LET view == PendingView(t)
           visible == view.ok /\ view.val = "live"
           p == pend[t]
       IN  /\ seen' = IF view.ok
                      THEN [seen EXCEPT ![t][p.tree] = IF visible THEN "yes" ELSE "no"]
                      ELSE seen
           /\ IF visible THEN ApplyVerb(t, p.op, p.tree, p.key, p.val)
              ELSE UNCHANGED <<writes, dropped>>
    /\ pend' = [pend EXCEPT ![t] = NoPend]
    /\ UNCHANGED <<dbVars, verVars, memVars, idVars, prepVars, st, snap, created,
                   ranges, preads, saw, outVars, laneVars, envVars>>

\* What a reader that holds the database mutex sees of a record.
View(k, s) == visible_current(vers, statuses, live.rec[k], s)

Readable == DbFree /\ ~fenced /\ ~closed

\* check_tree_visible_for_read.
TreeReadable(t, tree) ==
    /\ Readable
    /\ tree \notin dropped[t]
    /\ tree \in created[t] \/ (View(Life(tree), snap[t]).ok
                               /\ View(Life(tree), snap[t]).val = "live")

\* What a read at the snapshot returns of keys the transaction has not written;
\* a version that does not resolve is an error.
Observed(t, keys) ==
    {<<k, View(k, snap[t])>> : k \in {j \in keys : writes[t][j] = "unset" /\ View(j, snap[t]).ok}}

\* A point read registers its key unless the transaction itself wrote it.
Get(t, tree, k) ==
    /\ Uses("get", k)
    /\ Running(t)
    /\ TreeReadable(t, tree)
    /\ writes[t][<<tree, k>>] = "unset"
    /\ preads' = [preads EXCEPT ![t] = @ \cup {<<tree, k>>}]
    /\ saw' = [saw EXCEPT ![t] = @ \cup Observed(t, {<<tree, k>>})]
    /\ UNCHANGED <<dbVars, verVars, memVars, idVars, prepVars, st, snap, writes,
                   created, dropped, ranges, seen, pend, outVars, laneVars, envVars>>

\* scan and cursor register the range they are asked for.
Scan(t, r) ==
    /\ Uses("scan", r[3])
    /\ Running(t)
    /\ TreeReadable(t, r[1])
    /\ ranges' = [ranges EXCEPT ![t] = @ \cup {r}]
    /\ saw' = [saw EXCEPT ![t] = @ \cup Observed(t, {k \in DataKeys : InRange(k, r)})]
    /\ UNCHANGED <<dbVars, verVars, memVars, idVars, prepVars, st, snap, writes,
                   created, dropped, preads, seen, pend, outVars, laneVars, envVars>>

\* abort, and the drop of a handle that is still active.
Abort(t) ==
    /\ Running(t)
    /\ EndTxn(t, "aborted")
    /\ UNCHANGED <<dbVars, verVars, memVars, idVars, prepVars, outVars, laneVars, envVars>>

Written(t) == {k \in DataKeys : writes[t][k] # "unset"}

ReadOnly(t) == Written(t) = {} /\ created[t] = {} /\ dropped[t] = {}

\* The commit of a transaction that staged nothing is its snapshot.
CommitReadOnly(t) ==
    /\ Running(t)
    /\ ReadOnly(t)
    /\ EndTxn(t, "finished")
    /\ UNCHANGED <<dbVars, verVars, memVars, idVars, prepVars, outVars, laneVars, envVars>>

\* What a staged commit carries: writes into trees it drops are left out.
StagedKeys(t) == {k \in Written(t) : k[1] \notin dropped[t]}

Lifecycles(t) == created[t] \cup dropped[t]

Lifecycle(t, tree) == IF tree \in dropped[t] THEN "dropped" ELSE "live"

\* Mutant: the keys a transaction writes are not compared with the staged writes.
reject_unpublished_reads(t, reads, keys, trees) ==
    \/ dropped[t] \cap trees # {}
    \/ \E r \in ranges[t], k \in keys : InRange(k, r)
    \/ reads \cap keys # {}

\* Conflicts with work that is staged or being published.
reject_unpublished_conflicts(t, reads, keys, trees) ==
    \/ Written(t) \cap keys # {}
    \/ dropped[t] \cap trees # {}
    \/ \E r \in ranges[t], k \in keys : InRange(k, r)
    \/ reads \cap keys # {}

\* Mutant: a commit that conflicts with staged work is dropped without a word.
StageSilent(t) ==
    /\ Running(t)
    /\ ~ReadOnly(t)
    /\ st' = [st EXCEPT ![t] = "staged"]
    /\ LET reject == reject_unpublished_conflicts(t, preads[t], pKeys, pTrees)
       IN  /\ queue' = IF reject THEN queue ELSE Append(queue, t)
           /\ pKeys' = IF reject THEN pKeys ELSE pKeys \cup StagedKeys(t)
    /\ UNCHANGED <<dbVars, verVars, memVars, idVars, pTrees, uKeys, uTrees, bodyVars, outVars,
                   laneVars, envVars>>

Fault(kind) ==
    /\ kind \in profile.faults
    /\ faults < profile.failures
    /\ faults' = faults + 1 /\ UNCHANGED profile

\* stage_commit: one critical section of the prepare mutex.  A change record
\* that is too large is refused last, before anything is queued.
Stage(t) ==
    /\ Running(t)
    /\ ~ReadOnly(t)
    /\ vnext <= MaxVersion
    /\ st' = [st EXCEPT ![t] = "staged"]
    /\ \E oversize \in BOOLEAN :
       LET reads == preads[t] \ Written(t)
           reject == \/ closed
                     \/ oversize
                     \/ reject_unpublished_conflicts(t, reads, pKeys, pTrees)
                     \/ reject_unpublished_conflicts(t, reads, uKeys, uTrees)
       IN  /\ IF oversize THEN Fault("oversize") ELSE UNCHANGED envVars
           /\ preads' = [preads EXCEPT ![t] = IF closed THEN @ ELSE reads]
           /\ outcome' = [outcome EXCEPT ![t] = IF reject THEN "failed" ELSE "none"]
           /\ queue' = IF reject THEN queue ELSE Append(queue, t)
           /\ pKeys' = IF reject THEN pKeys ELSE pKeys \cup StagedKeys(t)
           /\ pTrees' = IF reject THEN pTrees
                        ELSE pTrees \cup Lifecycles(t) \cup {k[1] : k \in StagedKeys(t)}
    /\ UNCHANGED <<dbVars, verVars, memVars, idVars, uKeys, uTrees, snap, writes,
                   created, dropped, ranges, saw, seen, pend, position, laneVars>>

\* The committer takes its outcome.  A failure that is not already marked looks
\* at the fence under the database mutex; without a fence the transaction stays
\* active, and may commit again.
Settle(t) ==
    /\ st[t] = "staged"
    /\ outcome[t] # "none"
    /\ IF outcome[t] = "ok"
       THEN EndTxn(t, "committed") /\ UNCHANGED outVars
       ELSE IF outcome[t] = "recovery" \/ fenced
       THEN /\ outcome[t] = "failed" => DbFree
            /\ EndTxn(t, "recovery") /\ UNCHANGED outVars
       ELSE /\ DbFree
            /\ st' = [st EXCEPT ![t] = "active"]
            /\ outcome' = [outcome EXCEPT ![t] = "none"]
            /\ UNCHANGED <<bodyVars, position>>
    /\ UNCHANGED <<dbVars, verVars, memVars, idVars, prepVars, laneVars, envVars>>

-----------------------------------------------------------------------------
(* The publish lane: one wave.                                              *)

TakeLane(op) ==
    /\ phase = "idle"
    /\ lane' = op
    /\ phase' = "coalesce"

FreeLane ==
    /\ lane' = NoLane
    /\ phase' = "idle"
    /\ members' = <<>> /\ alive' = {}
    /\ cand' = live'

\* A committer without an outcome finds the lane free and leads a wave.  The
\* coalescing window is bounded: it is the time until TakeStaged.
LeadWave(t) ==
    /\ st[t] = "staged"
    /\ outcome[t] = "none"
    /\ TakeLane([NoLane EXCEPT !.op = "commit", !.txn = t])
    /\ UNCHANGED <<dbVars, verVars, memVars, idVars, prepVars, st, bodyVars,
                   outVars, waveVars, envVars>>

\* take_staged moves the queue and its indexes under both mutexes.  A leader
\* that finds the queue empty returns.
TakeStaged ==
    /\ phase = "coalesce"
    /\ members' = queue
    /\ queue' = <<>> /\ pKeys' = {} /\ pTrees' = {}
    /\ IF queue = <<>> /\ lane.op = "commit"
       THEN uKeys' = {} /\ uTrees' = {} /\ lane' = NoLane /\ phase' = "idle"
       ELSE uKeys' = pKeys /\ uTrees' = pTrees /\ phase' = "drained" /\ UNCHANGED lane
    /\ UNCHANGED <<dbVars, verVars, memVars, idVars, st, bodyVars, outVars, alive, cand, envVars>>

\* A control operation that finds the database closed returns: what it drained
\* is dropped without an outcome.  (The owner of a reservation is registered, so
\* a reservation does not find it closed.)
LaneClosed ==
    /\ phase = "drained"
    /\ lane.op \notin {"commit", "reserve"}
    /\ closed
    /\ uKeys' = {} /\ uTrees' = {}
    /\ UNCHANGED <<dbVars, verVars, memVars, idVars, queue, pKeys, pTrees, st, bodyVars,
                   outVars, envVars>>
    /\ FreeLane

\* A record that the transaction may overwrite, or may have read: it is not
\* newer than the snapshot, unless the transaction wrote it itself.
Unchanged(t, r) ==
    LET c == resolve_commit(statuses, r)
    IN  c # UnknownCommit /\ (c > snap[t] => r.txn = t)

\* No key of the tree has a write that the snapshot does not include.
no_conflicting_write(t, tree) ==
    \A k \in Keys : Unchanged(t, live.rec[<<tree, k>>])

\* Mutant: the first change after the snapshot is not looked at.
ranges_valid_later(t) ==
    \A r \in ranges[t] :
        \A c \in live.change \cap (snap[t] + 2)..live.csn :
            \A k \in ChangedKeys(live.log[c]) : ~InRange(k, r)

\* No change that the snapshot does not include wrote into a range that the
\* transaction read.  Only the records still stored are looked at.
ranges_valid(t) ==
    \A r \in ranges[t] :
        \A c \in live.change \cap (snap[t] + 1)..live.csn :
            \A k \in ChangedKeys(live.log[c]) : ~InRange(k, r)

validate_against_published(t) ==
    /\ snap[t] <= live.csn
    /\ \A tree \in Lifecycles(t) :
        LET r == live.rec[Life(tree)]
        IN  /\ Lifecycle(t, tree) = "live" => r.txn = t \/ r.val = "reserved"
            /\ Unchanged(t, r)
            /\ Lifecycle(t, tree) = "dropped" => no_conflicting_write(t, tree)
    /\ \A k \in {j \in StagedKeys(t) : j[1] \notin Lifecycles(t)} :
        /\ Unchanged(t, live.rec[Life(k[1])])
        /\ Unchanged(t, live.rec[k])
    /\ \A k \in preads[t] : Unchanged(t, live.rec[k])
    /\ ranges_valid(t)

\* The order in which build_mutations appends before-images: data keys, then
\* lifecycle records.
Before(j, k) ==
    \/ j[2] # 0 /\ k[2] = 0
    \/ (j[2] = 0 <=> k[2] = 0) /\ (j[1] < k[1] \/ (j[1] = k[1] /\ j[2] < k[2]))

\* The keys the transaction registered as read.
RegisteredReads(t) ==
    preads[t] \cup {k \in DataKeys : \E r \in ranges[t] : InRange(k, r)}

\* The records that build_mutations replaces for the transaction.
ReplacedKeys(t) == StagedKeys(t) \cup {Life(tree) : tree \in Lifecycles(t)}

\* The identity that the before-image of the key takes.
ImageOf(acc, t, k) == acc.next + Cardinality({j \in ReplacedKeys(t) : Before(j, k)})

\* build_mutations appends before-images of the published image, n of them.
AppendImages(acc, t, n) ==
    LET new == {k \in ReplacedKeys(t) : ImageOf(acc, t, k) < acc.next + n}
        image(k) == LET r == live.rec[k]
                    IN  [prev |-> r.undo, txn |-> r.txn, commit |-> r.commit, val |-> r.val]
    IN  [acc EXCEPT
            !.next = @ + n,
            !.vers = [v \in DOMAIN @ \cup {ImageOf(acc, t, k) : k \in new} |->
                         IF v \in DOMAIN @ THEN @[v]
                         ELSE image(CHOOSE k \in new : ImageOf(acc, t, k) = v)]]

\* One member of the wave: a before-image of every record it replaces, and a
\* batch with the status and the change record at the assigned sequence number.
AddMember(acc, t) ==
    LET keys == ReplacedKeys(t)
        c == acc.img.csn + 1
        new == [k \in keys |->
                    [txn |-> t, commit |-> 0, undo |-> ImageOf(acc, t, k),
                     val |-> IF k[2] = 0 THEN Lifecycle(t, k[1]) ELSE writes[t][k]]]
        change == Change(t, snap[t],
                         [k \in DataKeys |-> IF k \in StagedKeys(t) THEN writes[t][k] ELSE "unset"],
                         [tree \in Trees |->
                             IF tree \in Lifecycles(t) THEN Lifecycle(t, tree) ELSE "unset"],
                         RegisteredReads(t), saw[t])
    IN  [AppendImages(acc, t, Cardinality(keys)) EXCEPT
            !.img = [@ EXCEPT
                        !.rec = [k \in RecKeys |-> IF k \in keys THEN new[k] ELSE @[k]],
                        !.status[t] = c,
                        !.change = @ \cup {c},
                        !.csn = c,
                        !.log = Append(SubSeq(@, 1, c - 1), change)]]

\* The members that pass take consecutive sequence numbers, in queue order, and
\* the others get their error.  A member of cut failed to append before-image
\* n + 1: the first n stay in the store, and nothing names them.
BuildMembers(valid, cut, n) ==
    LET passed == valid \ cut
        built == MapThenFoldSet(LAMBDA t, acc : IF t \in cut THEN AppendImages(acc, t, n)
                                                ELSE AddMember(acc, t),
                                [next |-> vnext, vers |-> vers, img |-> live],
                                LAMBDA i : members[i], MaxOf,
                                {i \in DOMAIN members : members[i] \in valid})
    IN  /\ alive' = passed
        /\ outcome' = [t \in Txns |->
                         IF t \notin Range(members) \ passed THEN outcome[t]
                         ELSE IF fenced THEN "recovery" ELSE "failed"]
        /\ vers' = built.vers /\ vnext' = built.next
        /\ cand' = built.img
        /\ phase' = IF passed = {} THEN "sent" ELSE "built"

\* Every drained commit is certified against the published image.  A fenced
\* handle refuses the reads of the certification: no one survives.
BuildWave ==
    /\ phase = "drained"
    /\ lane.op # "commit" => ~closed
    /\ LET valid == {t \in Range(members) : ~fenced /\ validate_against_published(t)}
       IN  \/ BuildMembers(valid, {}, 0) /\ UNCHANGED envVars
           \/ /\ Fault("append")
              /\ \E t \in valid : \E n \in 0..(Cardinality(ReplacedKeys(t)) - 1) :
                    BuildMembers(valid, {t}, n)
    /\ members' = <<>>
    /\ UNCHANGED <<dbVars, vdur, memVars, idVars, prepVars, st, bodyVars, position, lane>>

\* Every member gets the same failure.
ResolveGroup(result) ==
    /\ outcome' = [t \in Txns |-> IF t \in alive THEN result ELSE outcome[t]]
    /\ UNCHANGED position

\* The sync of the before-images fails: nothing was published.
WaveSyncFails ==
    /\ phase = "built"
    /\ Fault("sync")
    /\ ResolveGroup("failed")
    /\ phase' = "sent"
    /\ UNCHANGED <<dbVars, verVars, memVars, idVars, prepVars, st, bodyVars,
                   lane, waveVars>>

\* Mutants: the wave is published before its before-images are synced, and it is
\* acknowledged before it is durable.
WavePublishUnsynced ==
    /\ phase = "built"
    /\ ~dbPending
    /\ live' = cand /\ disk' = cand
    /\ phase' = "published"
    /\ UNCHANGED <<dbPending, fenced, verVars, memVars, idVars, prepVars, st,
                   bodyVars, outVars, lane, waveVars, envVars>>

WavePublishInMemory ==
    /\ phase = "built"
    /\ ~dbPending
    /\ live' = cand /\ UNCHANGED disk
    /\ vdur' = vnext - 1
    /\ phase' = "published"
    /\ UNCHANGED <<dbPending, fenced, vers, vnext, memVars, idVars, prepVars, st,
                   bodyVars, outVars, lane, waveVars, envVars>>

\* commit_group_at succeeds: one durable generation holds the whole wave.  The
\* engine counts one position per batch, as the wave did, so the position it
\* reports is the last one assigned, and the fence for any other is not taken.
WavePublish ==
    /\ phase = "built"
    /\ ~dbPending
    /\ live' = cand /\ disk' = cand
    /\ vdur' = vnext - 1
    /\ phase' = "published"
    /\ UNCHANGED <<dbPending, fenced, vers, vnext, memVars, idVars, prepVars, st,
                   bodyVars, outVars, lane, waveVars, envVars>>

\* commit_group_at is refused before it changes anything: the handle holds a
\* pending generation, or has no room in the WAL.
WaveRefused ==
    /\ phase = "built"
    /\ \/ dbPending /\ UNCHANGED envVars
       \/ Fault("refuse")
    /\ ResolveGroup("failed")
    /\ vdur' = vnext - 1
    /\ phase' = "sent"
    /\ UNCHANGED <<dbVars, vers, vnext, memVars, idVars, prepVars, st, bodyVars, lane,
                   waveVars>>

\* commit_group_at fails after it began to write: the group is durable or not,
\* and the handle is fenced until reopen.
WaveUncertain ==
    /\ phase = "built"
    /\ ~dbPending
    /\ Fault("uncertain")
    /\ fenced' = TRUE /\ mfence' = TRUE
    /\ live' = cand
    /\ disk' \in {disk, cand}
    /\ vdur' = vnext - 1
    /\ ResolveGroup("recovery")
    /\ phase' = "sent"
    /\ UNCHANGED <<dbPending, vers, vnext, statuses, changes, leases, published, mirror,
                   closed, idVars, prepVars, st, bodyVars, lane, waveVars>>

\* The flush of commit_group_at is refused for capacity: the batch is in the
\* live image and pending, the position is not, and the handle is not fenced.
WaveCapacity ==
    /\ phase = "built"
    /\ ~dbPending
    /\ Fault("capacity")
    /\ live' = [cand EXCEPT !.csn = live.csn]
    /\ dbPending' = TRUE
    /\ vdur' = vnext - 1
    /\ ResolveGroup("failed")
    /\ phase' = "sent"
    /\ UNCHANGED <<disk, fenced, vers, vnext, memVars, idVars, prepVars, st, bodyVars,
                   lane, waveVars>>

\* The runtime mirrors follow one by one, each under its own mutex.
InstallPosition ==
    /\ phase = "published"
    /\ published' = live.csn
    /\ phase' = "positioned"
    /\ UNCHANGED <<dbVars, verVars, statuses, changes, leases, mirror, mfence, closed,
                   idVars, prepVars, st, bodyVars, outVars, lane, waveVars, envVars>>

InstallMirror ==
    /\ phase = "positioned"
    /\ mirror' = [tree \in Trees |->
                    IF \E t \in alive : tree \in Lifecycles(t)
                    THEN live.rec[Life(tree)] ELSE mirror[tree]]
    /\ phase' = "mirrored"
    /\ UNCHANGED <<dbVars, verVars, statuses, changes, leases, published, mfence, closed,
                   idVars, prepVars, st, bodyVars, outVars, lane, waveVars, envVars>>

\* The commit that position i of the wave was assigned.
Assigned(t) == live.status[t]

InstallStatuses ==
    /\ phase = "mirrored"
    /\ statuses' = [t \in Txns |-> IF t \in alive THEN Assigned(t) ELSE statuses[t]]
    /\ changes' = changes \cup {Assigned(t) : t \in alive}
    /\ phase' = "installed"
    /\ UNCHANGED <<dbVars, verVars, leases, published, mirror, mfence, closed,
                   idVars, prepVars, st, bodyVars, outVars, lane, waveVars, envVars>>

\* Mutant: only the leader hears of the wave.
SendOutcomeToLeader ==
    /\ phase = "installed"
    /\ outcome' = [t \in Txns |-> IF t \in alive /\ t = lane.txn THEN "ok" ELSE outcome[t]]
    /\ position' = [t \in Txns |-> IF t \in alive THEN Assigned(t) ELSE position[t]]
    /\ phase' = "sent"
    /\ UNCHANGED <<dbVars, verVars, memVars, idVars, prepVars, st, bodyVars,
                   lane, waveVars, envVars>>

SendOutcomes ==
    /\ phase = "installed"
    /\ outcome' = [t \in Txns |-> IF t \in alive THEN "ok" ELSE outcome[t]]
    /\ position' = [t \in Txns |-> IF t \in alive THEN Assigned(t) ELSE position[t]]
    /\ phase' = "sent"
    /\ UNCHANGED <<dbVars, verVars, memVars, idVars, prepVars, st, bodyVars,
                   lane, waveVars, envVars>>

\* The publishing indexes are cleared; a committer that led gives the lane
\* back, a control operation goes on to its own publication.
EndWave ==
    /\ phase = "sent"
    /\ uKeys' = {} /\ uTrees' = {}
    /\ members' = <<>> /\ alive' = {}
    /\ cand' = live
    /\ IF lane.op = "commit" THEN lane' = NoLane /\ phase' = "idle"
       ELSE phase' = "own" /\ UNCHANGED lane
    /\ UNCHANGED <<dbVars, verVars, memVars, idVars, queue, pKeys, pTrees, st, bodyVars,
                   outVars, envVars>>

-----------------------------------------------------------------------------
(* Control operations: they take the lane, settle what is staged, and then  *)
(* publish something of their own under the database mutex.                 *)

\* create_tree allocates the identity and reserves it through the lane.
CreateTree(t) ==
    /\ "create" \in profile.verbs
    /\ Running(t)
    /\ nextTree <= MaxTree /\ vnext <= MaxVersion
    /\ TakeLane([NoLane EXCEPT !.op = "reserve", !.txn = t, !.tree = nextTree])
    /\ pend' = [pend EXCEPT ![t] = [NoPend EXCEPT !.op = "create", !.tree = nextTree]]
    /\ nextTree' = nextTree + 1
    /\ UNCHANGED <<dbVars, verVars, memVars, nextTxn, prepVars, st, snap, writes, created,
                   dropped, ranges, preads, saw, seen, outVars, waveVars, envVars>>

\* acquire_change_lease and advance ask for a floor; release asks for none.
StartLease(n, f) ==
    /\ "lease" \in profile.verbs
    /\ TakeLane([NoLane EXCEPT !.op = "lease", !.name = n, !.floor = f])
    /\ UNCHANGED <<dbVars, verVars, memVars, idVars, prepVars, st, bodyVars, outVars,
                   waveVars, envVars>>

StartGcVersions ==
    /\ "gc_versions" \in profile.verbs
    /\ TakeLane([NoLane EXCEPT !.op = "gc_versions"])
    /\ UNCHANGED <<dbVars, verVars, memVars, idVars, prepVars, st, bodyVars, outVars,
                   waveVars, envVars>>

StartGcChanges ==
    /\ "gc_changes" \in profile.verbs
    /\ TakeLane([NoLane EXCEPT !.op = "gc_changes"])
    /\ UNCHANGED <<dbVars, verVars, memVars, idVars, prepVars, st, bodyVars, outVars,
                   waveVars, envVars>>

\* reserve_tree: a before-image, then one commit of the reservation record, the
\* owner's status and a change record.
Reservation(t, tree) ==
    LET c == live.csn + 1
    IN  [live EXCEPT
            !.rec[Life(tree)] = [txn |-> t, commit |-> 0, undo |-> vnext, val |-> "reserved"],
            !.status[t] = c,
            !.change = @ \cup {c},
            !.csn = c,
            !.log = Append(SubSeq(@, 1, c - 1),
                           Change(t, live.csn, NoWrites, [NoLife EXCEPT ![tree] = "reserved"], {}, {}))]

ReserveBeforeImage ==
    LET r == live.rec[Life(lane.tree)]
    IN  /\ vers' = [v \in DOMAIN vers \cup {vnext} |->
                       IF v = vnext
                       THEN [prev |-> r.undo, txn |-> r.txn, commit |-> r.commit, val |-> r.val]
                       ELSE vers[v]]
        /\ vnext' = vnext + 1

ReservePublish ==
    /\ phase = "own" /\ lane.op = "reserve"
    /\ ~fenced /\ ~dbPending
    /\ ReserveBeforeImage
    /\ vdur' = vnext
    /\ live' = Reservation(lane.txn, lane.tree)
    /\ disk' = live'
    /\ statuses' = [statuses EXCEPT ![lane.txn] = live.csn + 1]
    /\ changes' = changes \cup {live.csn + 1}
    /\ phase' = "reserved"
    /\ UNCHANGED <<dbPending, fenced, leases, published, mirror, mfence, closed, idVars,
                   prepVars, st, bodyVars, outVars, lane, waveVars, envVars>>

ReserveMirror ==
    /\ phase = "reserved"
    /\ mirror' = [mirror EXCEPT ![lane.tree] = live.rec[Life(lane.tree)]]
    /\ phase' = "recorded"
    /\ UNCHANGED <<dbVars, verVars, statuses, changes, leases, published, mfence, closed, idVars,
                   prepVars, st, bodyVars, outVars, lane, waveVars, envVars>>

\* The position follows, reserve_tree returns, and create_tree adds the tree.
ReserveInstall ==
    /\ phase = "recorded"
    /\ published' = live.csn
    /\ created' = [created EXCEPT ![lane.txn] = @ \cup {lane.tree}]
    /\ pend' = [pend EXCEPT ![lane.txn] = NoPend]
    /\ UNCHANGED <<dbVars, verVars, statuses, changes, leases, mirror, mfence, closed, idVars,
                   prepVars, st, snap, writes, dropped, ranges, preads, saw, seen, outVars, envVars>>
    /\ FreeLane

\* The reservation is refused, or its before-image is not appended or not synced:
\* create_tree returns the error and the transaction stays active.  The identity
\* of the tree stays used.
ReserveRefused ==
    /\ phase = "own" /\ lane.op = "reserve"
    /\ ~fenced
    /\ \/ ReserveBeforeImage /\ dbPending /\ vdur' = vnext /\ UNCHANGED envVars
       \/ ReserveBeforeImage /\ Fault("refuse") /\ vdur' = vnext
       \/ ReserveBeforeImage /\ Fault("sync") /\ UNCHANGED vdur
       \/ Fault("append") /\ UNCHANGED verVars
    /\ pend' = [pend EXCEPT ![lane.txn] = NoPend]
    /\ UNCHANGED <<dbVars, memVars, idVars, prepVars, st, snap, writes, created, dropped,
                   ranges, preads, saw, seen, outVars>>
    /\ FreeLane

\* A fenced handle refuses the read that comes before the before-image.
ReserveFenced ==
    /\ phase = "own" /\ lane.op = "reserve"
    /\ fenced
    /\ EndTxn(lane.txn, "recovery")
    /\ UNCHANGED <<dbVars, verVars, memVars, idVars, prepVars, outVars, envVars>>
    /\ FreeLane

\* The reservation fails with an unknown outcome.  The database fences itself;
\* the mirror of the fence that begin reads is not told.
ReserveUncertain ==
    /\ phase = "own" /\ lane.op = "reserve"
    /\ ~fenced /\ ~dbPending
    /\ Fault("uncertain")
    /\ ReserveBeforeImage
    /\ vdur' = vnext
    /\ live' = Reservation(lane.txn, lane.tree)
    /\ disk' \in {disk, live'}
    /\ fenced' = TRUE
    /\ EndTxn(lane.txn, "recovery")
    /\ UNCHANGED <<dbPending, memVars, idVars, prepVars, outVars>>
    /\ FreeLane

\* The reservation is refused for capacity after it was installed in memory.
ReserveCapacity ==
    /\ phase = "own" /\ lane.op = "reserve"
    /\ ~fenced /\ ~dbPending
    /\ Fault("capacity")
    /\ ReserveBeforeImage
    /\ vdur' = vnext
    /\ live' = [Reservation(lane.txn, lane.tree) EXCEPT !.csn = live.csn]
    /\ dbPending' = TRUE
    /\ pend' = [pend EXCEPT ![lane.txn] = NoPend]
    /\ UNCHANGED <<disk, fenced, memVars, idVars, prepVars, st, snap, writes, created,
                   dropped, ranges, preads, saw, seen, outVars>>
    /\ FreeLane

\* The flush that starts a maintenance publication makes a pending generation
\* durable with its sequence numbers.
Flushed(img) == [img EXCEPT !.csn = Len(img.log)]

\* commit_maintenance_batch of the image img.  It succeeds, is refused (a pending
\* generation may have been flushed before that), fails and fences, or is
\* refused for capacity with the batch left in the live image.
Maintenance(img) ==
    /\ ~fenced
    /\ live' = Flushed(img) /\ disk' = Flushed(img)
    /\ dbPending' = FALSE
    /\ UNCHANGED <<fenced, mfence, envVars>>

MaintenanceFails(img) ==
    \/ /\ fenced
       /\ mfence' = TRUE
       /\ UNCHANGED <<dbVars, envVars>>
    \/ /\ ~fenced
       /\ Fault("refuse")
       /\ \/ UNCHANGED <<live, disk, dbPending>>
          \/ live' = Flushed(live) /\ disk' = Flushed(live) /\ dbPending' = FALSE
       /\ UNCHANGED <<fenced, mfence>>
    \/ /\ ~fenced
       /\ Fault("uncertain")
       /\ fenced' = TRUE /\ mfence' = TRUE
       /\ live' = Flushed(img)
       /\ disk' \in {disk, Flushed(live), Flushed(img)}
       /\ UNCHANGED dbPending
    \/ /\ ~fenced
       /\ Fault("capacity")
       /\ live' = Flushed(img) /\ disk' = Flushed(live)
       /\ dbPending' = FALSE
       /\ UNCHANGED <<fenced, mfence>>

\* publish_lease_write, after the floor asked for has been compared with the
\* one in place.  A floor only moves up; a release needs a lease.
LeaseImage == [live EXCEPT !.lease[lane.name] = lane.floor]

LeaseMoves == lane.floor = 0 \/ lane.floor > leases[lane.name]

WriteLease ==
    /\ phase = "own" /\ lane.op = "lease"
    /\ LeaseMoves /\ (lane.floor = 0 => leases[lane.name] # 0)
    /\ Maintenance(LeaseImage)
    /\ leases' = [leases EXCEPT ![lane.name] = lane.floor]
    /\ UNCHANGED <<verVars, statuses, changes, published, mirror, closed, idVars, prepVars,
                   st, bodyVars, outVars>>
    /\ FreeLane

LeaseUnmoved ==
    /\ phase = "own" /\ lane.op = "lease"
    /\ \/ /\ ~LeaseMoves \/ (lane.floor = 0 /\ leases[lane.name] = 0)
          /\ UNCHANGED <<dbVars, mfence, envVars>>
       \/ MaintenanceFails(LeaseImage)
    /\ UNCHANGED <<verVars, statuses, changes, leases, published, mirror, closed, idVars,
                   prepVars, st, bodyVars, outVars>>
    /\ FreeLane

-----------------------------------------------------------------------------
(* Collection of versions and of change records.                            *)

Floors == {leases[n] : n \in {m \in Names : leases[m] # 0}}

Snapshots == {snap[t] : t \in Registered}

\* Mutant: the lease floors are forgotten.
retention_of_snapshots == IF Snapshots = {} THEN NoWatermark ELSE MinOf(Snapshots)

\* retention_watermark: the oldest of the active snapshots and lease floors.
retention_watermark ==
    IF Snapshots \cup Floors = {} THEN NoWatermark ELSE MinOf(Snapshots \cup Floors)

\* gc_versions holds the version store and the statuses and reads its watermark.
GcWatermark ==
    /\ phase = "own" /\ lane.op = "gc_versions"
    /\ lane' = [NoLane EXCEPT !.op = "gc_versions", !.floor = retention_watermark]
    /\ phase' = "marked"
    /\ UNCHANGED <<dbVars, verVars, memVars, idVars, prepVars, st, bodyVars, outVars,
                   waveVars, envVars>>

\* The records that exist, and whether the walk down a chain comes through: to
\* the watermark or, where nothing pins history, to the end.
StoredRecords == {live.rec[k] : k \in {j \in RecKeys : live.rec[j] # AbsentRecord}}

ChainResolves(r) ==
    /\ resolve_commit(statuses, r) # UnknownCommit
    /\ IF lane.floor = NoWatermark THEN chain_stored(vers, r.undo)
       ELSE visible_current(vers, statuses, r, lane.floor).ok

GcRetained ==
    UNION {retain_current_chain(vers, statuses, r, lane.floor) : r \in StoredRecords}

\* The statuses that no retained version needs.
GcPrunable ==
    LET unfrozen == {vers[id].txn : id \in {i \in GcRetained : vers[i].commit = 0}}
    IN  {t \in Txns : statuses[t] # 0} \ unfrozen

GcRecords ==
    [k \in RecKeys |-> IF live.rec[k] = AbsentRecord THEN AbsentRecord
                       ELSE freeze_record(statuses, live.rec[k], lane.floor)]

\* The allocator high-water covers the identities whose records disappear.
GcImage ==
    [live EXCEPT !.rec = GcRecords,
                 !.status = [t \in Txns |-> IF t \in GcPrunable THEN 0 ELSE live.status[t]],
                 !.water = [txn |-> nextTxn, tree |-> nextTree],
                 !.cut = MaxOf({@, IF lane.floor = NoWatermark THEN live.csn
                                   ELSE MinOf({lane.floor, live.csn})})]

\* Rewrites, status deletions and the high-water are one maintenance batch.
GcRewrite ==
    /\ phase = "marked"
    /\ ~fenced
    /\ \A r \in StoredRecords : ChainResolves(r)
    /\ lane' = [NoLane EXCEPT !.op = "gc_versions", !.keep = GcRetained, !.prune = GcPrunable]
    /\ IF GcRecords = live.rec /\ GcPrunable = {}
       THEN phase' = "remirrored" /\ UNCHANGED <<dbVars, mfence, envVars>>
       ELSE phase' = "rewritten" /\ Maintenance(GcImage)
    /\ UNCHANGED <<verVars, statuses, changes, leases, published, mirror, closed, idVars,
                   prepVars, st, bodyVars, outVars, waveVars>>

\* The handle refuses the reads, a record does not resolve, or the batch fails:
\* gc_versions returns.
GcFails ==
    /\ phase = "marked"
    /\ \/ /\ fenced \/ \E r \in StoredRecords : ~ChainResolves(r)
          /\ UNCHANGED <<dbVars, mfence, envVars>>
       \/ /\ ~fenced /\ \A r \in StoredRecords : ChainResolves(r)
          /\ ~(GcRecords = live.rec /\ GcPrunable = {})
          /\ MaintenanceFails(GcImage)
    /\ UNCHANGED <<verVars, statuses, changes, leases, published, mirror, closed, idVars,
                   prepVars, st, bodyVars, outVars>>
    /\ FreeLane

\* The lifecycle mirror is read again from the rewritten records.
GcMirror ==
    /\ phase = "rewritten"
    /\ mirror' = [tree \in Trees |-> live.rec[Life(tree)]]
    /\ phase' = "remirrored"
    /\ UNCHANGED <<dbVars, verVars, statuses, changes, leases, published, mfence, closed,
                   idVars, prepVars, st, bodyVars, outVars, lane, waveVars, envVars>>

\* The store is rewritten with the retained versions, and the statuses go.
GcCompact ==
    /\ phase = "remirrored"
    /\ vers' = compact(vers, lane.keep)
    /\ vdur' = vnext - 1
    /\ statuses' = [t \in Txns |-> IF t \in lane.prune THEN 0 ELSE statuses[t]]
    /\ UNCHANGED <<dbVars, vnext, changes, leases, published, mirror, mfence, closed, idVars,
                   prepVars, st, bodyVars, outVars, envVars>>
    /\ FreeLane

\* The rewrite of the store fails before or after its rename: the handle fences.
GcCompactFails ==
    /\ phase = "remirrored"
    /\ Fault("uncertain")
    /\ vers' \in {vers, compact(vers, lane.keep)}
    /\ vdur' = vnext - 1
    /\ fenced' = TRUE /\ mfence' = TRUE
    /\ UNCHANGED <<live, disk, dbPending, vnext, statuses, changes, leases, published, mirror,
                   closed, idVars, prepVars, st, bodyVars, outVars>>
    /\ FreeLane

\* gc_changes reads the oldest snapshot, then works under the other mutexes.
GcFloor ==
    /\ phase = "own" /\ lane.op = "gc_changes"
    /\ lane' = [NoLane EXCEPT !.op = "gc_changes", !.floor =
                    IF Snapshots = {} THEN NoWatermark ELSE MinOf(Snapshots)]
    /\ phase' = "floored"
    /\ UNCHANGED <<dbVars, verVars, memVars, idVars, prepVars, st, bodyVars, outVars,
                   waveVars, envVars>>

\* Mutant: the record at the floor goes too.
StaleChangesInclusive ==
    IF Floors = {} THEN {}
    ELSE {c \in changes : /\ c <= MinOf(Floors)
                          /\ lane.floor # NoWatermark => c < lane.floor}

\* The change records below the older of the lease floors and that snapshot;
\* with no lease nothing is stale.
StaleChanges ==
    IF Floors = {} THEN {}
    ELSE {c \in changes : /\ c < MinOf(Floors)
                          /\ lane.floor # NoWatermark => c < lane.floor}

PrunedImage == [live EXCEPT !.change = @ \ StaleChanges]

GcPrune ==
    /\ phase = "floored"
    /\ StaleChanges # {}
    /\ Maintenance(PrunedImage)
    /\ changes' = changes \ StaleChanges
    /\ UNCHANGED <<verVars, statuses, leases, published, mirror, closed, idVars, prepVars,
                   st, bodyVars, outVars>>
    /\ FreeLane

GcPruneNothing ==
    /\ phase = "floored"
    /\ \/ StaleChanges = {} /\ UNCHANGED <<dbVars, mfence, envVars>>
       \/ StaleChanges # {} /\ MaintenanceFails(PrunedImage)
    /\ UNCHANGED <<verVars, statuses, changes, leases, published, mirror, closed, idVars,
                   prepVars, st, bodyVars, outVars>>
    /\ FreeLane

\* read_changes, under the database mutex: the records from one position on.
Records(S) == [result |-> "ok", records |-> S]

PrunedStream == [result |-> "pruned", records |-> {}]

CorruptStream == [result |-> "corrupt", records |-> {}]

\* The map is walked upwards from the position asked for; the walk fails at a
\* gap, stops at the limit, and otherwise must have reached the head.
read_changes(from, limit) ==
    LET upto == {c \in changes : c >= from}
        out == {c \in upto : from..c \subseteq changes /\ c < from + limit}
        gap == Cardinality(out) < limit /\ out # upto
    IN  IF limit = 0 \/ from > live.csn THEN Records({})
        ELSE IF changes = {} THEN CorruptStream
        ELSE IF from < MinOf(changes) THEN PrunedStream
        ELSE IF gap THEN CorruptStream
        ELSE IF Cardinality(out) < limit /\ live.csn \notin out THEN CorruptStream
        ELSE Records(out)

-----------------------------------------------------------------------------
(* Close, and reopen after a crash.                                         *)

\* Mutant: a fenced handle is flushed all the same.
CloseFenced ==
    /\ "close" \in profile.verbs
    /\ DbFree
    /\ Registered = {}
    /\ ~closed
    /\ live' = Flushed(live) /\ disk' = Flushed(live)
    /\ dbPending' = FALSE
    /\ vdur' = vnext - 1
    /\ closed' = TRUE
    /\ UNCHANGED <<fenced, vers, vnext, statuses, changes, leases, published, mirror, mfence,
                   idVars, prepVars, st, bodyVars, outVars, laneVars, envVars>>

\* close refuses while a transaction is registered; it holds the database, the
\* version store and the registry until the flag is set.
Close ==
    /\ "close" \in profile.verbs
    /\ DbFree
    /\ Registered = {}
    /\ ~closed /\ ~fenced
    /\ live' = Flushed(live) /\ disk' = Flushed(live)
    /\ dbPending' = FALSE
    /\ vdur' = vnext - 1
    /\ closed' = TRUE
    /\ UNCHANGED <<fenced, vers, vnext, statuses, changes, leases, published, mirror, mfence,
                   idVars, prepVars, st, bodyVars, outVars, laneVars, envVars>>

\* close returns an error and the database stays open: the versions are not
\* synced, the flush is refused or fails and fences (the mirror of the fence is
\* not told), or the WAL is not removed after the flush.
CloseFails ==
    /\ "close" \in profile.verbs
    /\ DbFree
    /\ Registered = {}
    /\ ~closed
    /\ \/ Fault("sync") /\ UNCHANGED <<dbVars, vdur>>
       \/ fenced /\ vdur' = vnext - 1 /\ UNCHANGED <<dbVars, envVars>>
       \/ /\ ~fenced /\ vdur' = vnext - 1
          /\ \/ /\ dbPending /\ Fault("capacity")
                /\ UNCHANGED dbVars
             \/ /\ Fault("refuse")
                /\ live' = Flushed(live) /\ disk' = Flushed(live) /\ dbPending' = FALSE
                /\ UNCHANGED fenced
             \/ /\ dbPending /\ Fault("uncertain")
                /\ live' = Flushed(live) /\ disk' \in {disk, Flushed(live)}
                /\ fenced' = TRUE /\ UNCHANGED dbPending
    /\ UNCHANGED <<vers, vnext, memVars, idVars, prepVars, st, bodyVars, outVars, laneVars>>

\* Mutant: the retention leases are not loaded again.
LoadedLeasesForgotten(img) == [n \in Names |-> 0]

\* load_control_state: the retention leases ...
LoadedLeases(img) == img.lease

\* ... and the identities that the stored records imply.
LoadedTxn(img) ==
    MaxOf({0, img.water.txn - 1} \cup {t \in Txns : img.status[t] # 0}
          \cup {img.log[c].txn : c \in img.change})

LoadedTree(img) ==
    MaxOf({0, img.water.tree - 1} \cup {tree \in Trees : img.rec[Life(tree)] # AbsentRecord}
          \cup UNION {{tree \in Trees : img.log[c].life[tree] # "unset"} : c \in img.change})

\* The process dies, or a closed handle is dropped, and the database is opened
\* again.  Versions that were not synced may be gone; every transaction that had
\* not ended is lost.
Reopen(n) ==
    LET kept == {id \in DOMAIN vers : id <= n}
    IN  /\ Fault("crash")
        /\ n \in vdur..(vnext - 1)
        /\ live' = disk /\ UNCHANGED disk
        /\ dbPending' = FALSE /\ fenced' = FALSE
        /\ vers' = [id \in kept |-> vers[id]]
        /\ vnext' = MaxOf({0} \cup kept) + 1
        /\ vdur' = MaxOf({0} \cup kept)
        /\ statuses' = disk.status /\ changes' = disk.change /\ leases' = LoadedLeases(disk)
        /\ published' = disk.csn
        /\ mirror' = [tree \in Trees |-> disk.rec[Life(tree)]]
        /\ mfence' = FALSE /\ closed' = FALSE
        /\ nextTxn' = LoadedTxn(disk) + 1
        /\ nextTree' = LoadedTree(disk) + 1
        /\ queue' = <<>> /\ pKeys' = {} /\ pTrees' = {} /\ uKeys' = {} /\ uTrees' = {}
        /\ st' = [t \in Txns |->
                    IF st[t] \in {"opening", "active", "staged"} THEN "lost" ELSE st[t]]
        /\ outcome' = [t \in Txns |-> IF st[t] = "committed" THEN outcome[t] ELSE "none"]
        /\ UNCHANGED position
        /\ snap' = [t \in Txns |-> 0]
        /\ writes' = [t \in Txns |-> NoWrites]
        /\ created' = [t \in Txns |-> {}] /\ dropped' = [t \in Txns |-> {}]
        /\ ranges' = [t \in Txns |-> {}] /\ preads' = [t \in Txns |-> {}]
        /\ saw' = [t \in Txns |-> {}]
        /\ seen' = [t \in Txns |-> [tree \in Trees |-> "unknown"]]
        /\ pend' = [t \in Txns |-> NoPend]
        /\ lane' = NoLane /\ phase' = "idle"
        /\ members' = <<>> /\ alive' = {} /\ cand' = disk

-----------------------------------------------------------------------------
LaneStep ==
    \/ TakeStaged \/ LaneClosed \/ BuildWave
    \/ WaveSyncFails \/ WavePublish \/ WaveRefused \/ WaveUncertain \/ WaveCapacity
    \/ InstallPosition \/ InstallMirror \/ InstallStatuses \/ SendOutcomes \/ EndWave
    \/ ReservePublish \/ ReserveMirror \/ ReserveInstall \/ ReserveRefused \/ ReserveFenced \/ ReserveUncertain
    \/ ReserveCapacity
    \/ WriteLease \/ LeaseUnmoved
    \/ GcWatermark \/ GcRewrite \/ GcFails \/ GcMirror \/ GcCompact \/ GcCompactFails
    \/ GcFloor \/ GcPrune \/ GcPruneNothing

TxnStep(t) ==
    \/ BeginCheck(t)
    \/ BeginRegister(t)
    \/ \E tree \in Trees : DropTree(t, tree) \/ \E k \in Keys :
            Put(t, tree, k) \/ Delete(t, tree, k) \/ Get(t, tree, k)
    \/ ResolveTree(t)
    \/ \E r \in Ranges : Scan(t, r)
    \/ Abort(t) \/ CommitReadOnly(t) \/ Stage(t) \/ Settle(t)
    \/ LeadWave(t)
    \/ CreateTree(t)

Next ==
    \/ \E t \in Txns : TxnStep(t)
    \/ LaneStep
    \/ \E n \in Names, f \in 0..(live.csn + 1) : StartLease(n, f)
    \/ StartGcVersions
    \/ StartGcChanges
    \/ Close
    \/ CloseFails
    \/ \E n \in vdur..(vnext - 1) : Reopen(n)

Spec == Init /\ [][Next]_vars

\* The committer loop of commit_transaction and the lane holder run on; a
\* client that stops asking does not.
Fairness ==
    /\ WF_vars(LaneStep)
    /\ \A t \in Txns : WF_vars(LeadWave(t))
                       /\ WF_vars(Settle(t))

FairSpec == Spec /\ Fairness

-----------------------------------------------------------------------------
(* Properties.                                                              *)

States == {"unborn", "opening", "active", "staged", "committed", "finished", "aborted",
           "recovery", "refused", "lost"}

WavePhases == {"built", "published", "positioned", "mirrored", "installed", "sent"}

OwnPhases == {"own", "reserved", "recorded", "marked", "rewritten", "remirrored", "floored"}

Phases == {"idle", "coalesce", "drained"} \cup WavePhases \cup OwnPhases

\* Types of the control state: who waits, what is queued, where the lane is.
ControlTypeOK ==
    /\ st \in [Txns -> States]
    /\ outcome \in [Txns -> Outcomes]
    /\ queue \in Seq(Txns) /\ members \in Seq(Txns)
    /\ alive \subseteq Txns
    /\ phase \in Phases
    /\ closed \in BOOLEAN

\* Types of the runtime state.
TypeOK ==
    /\ ControlTypeOK
    /\ dbPending \in BOOLEAN /\ fenced \in BOOLEAN /\ mfence \in BOOLEAN
    /\ live.csn \in Nat /\ disk.csn \in Nat /\ published \in Nat
    /\ vnext \in Nat /\ vdur \in 0..(vnext - 1)
    /\ DOMAIN vers \subseteq 1..(vnext - 1)
    /\ statuses \in [Txns -> Nat] /\ leases \in [Names -> Nat]
    /\ changes \subseteq Nat
    /\ nextTxn \in Nat /\ nextTree \in Nat
    /\ pKeys \subseteq DataKeys /\ uKeys \subseteq DataKeys
    /\ pTrees \subseteq Trees /\ uTrees \subseteq Trees
    /\ snap \in [Txns -> Nat]
    /\ writes \in [Txns -> [DataKeys -> {"unset", "put", "none"}]]
    /\ created \in [Txns -> SUBSET Trees] /\ dropped \in [Txns -> SUBSET Trees]
    /\ ranges \in [Txns -> SUBSET Ranges] /\ preads \in [Txns -> SUBSET DataKeys]
    /\ seen \in [Txns -> [Trees -> {"unknown", "yes", "no"}]]
    /\ position \in [Txns -> Nat]
    /\ faults \in Nat

\* The positions at or below s that changed the key.
WrittenBy(k, s) ==
    {c \in 1..s : IF k[2] = 0 THEN live.log[c].life[k[1]] # "unset"
                  ELSE live.log[c].writes[k] # "unset"}

\* What the history of commits says a snapshot at s sees of the key.
HistoryView(k, s) ==
    LET last == MaxOf({0} \cup WrittenBy(k, s))
    IN  IF last = 0 THEN NothingVisible
        ELSE [ok |-> TRUE, txn |-> live.log[last].txn,
              val |-> IF k[2] = 0 THEN live.log[last].life[k[1]] ELSE live.log[last].writes[k]]

Healthy == ~fenced /\ ~dbPending /\ ~closed

\* Every snapshot that is still pinned reads exactly the history: a reader that
\* holds the database mutex finds, for each key, the value of the last commit
\* its snapshot includes, and a tree live exactly when it was.  Freezing of
\* statuses, cutting of undo chains, compaction and a begin that races them
\* never change an answer, and never make one unresolvable.
SnapshotReads ==
    DbFree /\ Healthy =>
        /\ \A t \in Registered : snap[t] \in live.cut..live.csn
        /\ \A s \in live.cut..live.csn :
            /\ \A k \in DataKeys : View(k, s) = HistoryView(k, s)
            /\ \A tree \in Trees :
                LET view == View(Life(tree), s)
                IN  view.ok /\ (view.val = "live" <=> HistoryView(Life(tree), s).val = "live")

\* The database implements CommitLog: the durable history and the commits that
\* clients were told of.
Committed ==
    INSTANCE CommitLog
        WITH log <- SubSeq(disk.log, 1, disk.csn),
             acked <- {<<t, position[t]>> : t \in {u \in Txns : st[u] = "committed"}}

\* Group commit, certification, collection, failed publications and crashes
\* together never break the promise of CommitLog: commits become durable in
\* order and certified against everything before them, and an acknowledged
\* commit stays where it was acknowledged.
ImplementsCommitLog == Committed!HistorySpec

\* When no one holds the database mutex the runtime's mirrors are what the
\* database says: the published position, statuses, changes, leases, lifecycles.
MirrorsAgree ==
    DbFree /\ Healthy =>
        /\ published = live.csn
        /\ statuses = live.status
        /\ changes = live.change
        /\ leases = live.lease
        /\ \A tree \in Trees : mirror[tree] = live.rec[Life(tree)]

\* The committed-change stream: from any retained record, a reader gets exactly
\* the records up to its limit or the head, and never the report of a gap.
ChangesStream ==
    DbFree /\ Healthy =>
        \A from \in changes : \A limit \in 1..live.csn :
            read_changes(from, limit) =
                Records(from..MinOf({live.csn, from + limit - 1}))

\* A committer that waits for its outcome is in the queue, among the drained
\* commits or in the wave, so its outcome can still reach it and no leader spins
\* on an empty queue; and whatever is about to be published has a committer that
\* still waits for it.
NoLostCommitter ==
    /\ \A t \in Txns : st[t] = "staged" /\ outcome[t] = "none" =>
            t \in Range(queue) \cup Range(members) \cup alive
    /\ \A t \in Range(queue) \cup Range(members) : st[t] = "staged" /\ outcome[t] = "none"
    /\ phase # "sent" => \A t \in alive : st[t] = "staged" /\ outcome[t] = "none"

\* A closed database has no registered transaction and nothing on its way.
ClosedIsQuiet ==
    closed => Registered = {} /\ queue = <<>> /\ members = <<>> /\ alive = {}

\* A transaction that ended as aborted published nothing but tree reservations.
AbortedStaysOut ==
    \A t \in Txns, c \in 1..disk.csn :
        st[t] = "aborted" /\ disk.log[c].txn = t =>
            /\ ChangedKeys(disk.log[c]) = {}
            /\ \A tree \in Trees : disk.log[c].life[tree] \in {"unset", "reserved"}

\* An identity that the history names is never handed out again.
IdentitiesFresh ==
    Healthy => /\ \A c \in 1..live.csn : live.log[c].txn < nextTxn
               /\ \A c \in 1..live.csn : \A tree \in Trees :
                    live.log[c].life[tree] # "unset" => tree < nextTree

\* Whenever the process dies, what is on disk can be opened: every undo chain of
\* the durable image is in the synced part of the store and resolves.
DiskResolves ==
    LET synced == [id \in {i \in DOMAIN vers : i <= vdur} |-> vers[id]]
    IN  \A k \in RecKeys : visible_current(synced, disk.status, disk.rec[k], -1).ok

\* After a fence nothing becomes durable until the database is opened again.
FenceStopsWrites == [][fenced /\ fenced' => disk' = disk]_vars

\* A lease that was acknowledged is in force, until a write of it that failed may
\* have changed it in the database only.
InForce(n) == leases[n] # 0 /\ live.lease[n] = leases[n]

\* A lease in force outlives everything but its own advance and release, crashes
\* and reopens included, and while it does, no collection removes a change
\* record at or above its floor, and none cuts versions that a reader at the
\* floor needs (the doc of RetentionLease, and the watermark of gc_versions).
LeasePins ==
    [][\A n \in Names : InForce(n) /\ ~(lane.op = "lease" /\ lane.name = n) =>
        /\ leases'[n] = leases[n]
        /\ \A c \in changes \cap live.change : c >= leases[n] => c \in changes' \cap live'.change
        /\ leases[n] >= live.cut => leases[n] >= live'.cut]_vars

\* The commits are serializable in commit order: what the reads of a committed
\* transaction returned is what they would have returned had it run alone just
\* before its commit.  The visibility of versions, the certification against the
\* published image and against staged work, and the point reads that stage_commit
\* drops because a write subsumes them, only together give this.
Serializable ==
    \A d \in 1..Len(live.log) : \A o \in live.log[d].saw : HistoryView(o[1], d - 1) = o[2]

\* Every staged commit is eventually settled: the leader's wave settles its own
\* commit, and no committer is left spinning on an empty queue.
CommitSettles == \A t \in Txns : st[t] = "staged" ~> st[t] # "staged"

\* What readers rely on: snapshots read the history, and the runtime's mirrors
\* and the change stream say what the database says.
SnapshotsHold == TypeOK /\ SnapshotReads /\ MirrorsAgree /\ ChangesStream

\* What a crash at this moment leaves can be opened: it has no refused commit,
\* its chains resolve, and no identity it names is handed out again.
DiskHolds == AbortedStaysOut /\ DiskResolves /\ IdentitiesFresh

-----------------------------------------------------------------------------
(* Statements of the sources that the code does not keep.                   *)

\* The doc of Transaction: a write conflicts when another transaction changed
\* the lifecycle of its tree after the snapshot.
LifecycleConflicts ==
    \A c \in 1..Len(live.log), d \in 1..Len(live.log) :
        c < d /\ live.log[c].txn # live.log[d].txn =>
            \A k \in ChangedKeys(live.log[d]) :
                live.log[c].life[k[1]] # "unset" => live.log[d].snap >= c

\* The doc of tree_visible: the snapshot fixes the answer, so what a transaction
\* cached about a tree is what the history says of it at the snapshot.
SnapshotFixesTrees ==
    \A t \in Registered, tree \in Trees :
        seen[t][tree] # "unknown" =>
            (seen[t][tree] = "yes" <=> HistoryView(Life(tree), snap[t]).val = "live")
=============================================================================
