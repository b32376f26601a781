----------------------------- MODULE MvccChain -----------------------------
(***************************************************************************)
(* The pure part of crates/seerdb/src/mvcc/version_store.rs and of the     *)
(* version collector of transactional.rs: records, undo chains, and what a *)
(* snapshot sees of them.                                                  *)
(*                                                                         *)
(* A current record names the transaction that wrote it, its commit (0     *)
(* while only the status table knows it), the head of its undo chain (0    *)
(* for none) and its value.  A version is a before-image: the same fields  *)
(* with the older version it points to.  A status table maps a transaction *)
(* to its commit, 0 when it has no entry.  A store maps the identities of  *)
(* the versions it holds to the versions.                                  *)
(***************************************************************************)
EXTENDS Integers

\* decode_current of a key that has no record.
AbsentRecord == [txn |-> 0, commit |-> 0, undo |-> 0, val |-> "none"]

\* What resolve_commit returns when it reports Corruption.
UnknownCommit == -1

\* The watermark of a collection that nothing pins (None).
NoWatermark == -1

\* What visible_current returns: a version, nothing, or Corruption.
VisibleVersion(r) == [ok |-> TRUE, txn |-> r.txn, val |-> r.val]

NothingVisible == [ok |-> TRUE, txn |-> 0, val |-> "none"]

CorruptChain == [ok |-> FALSE, txn |-> 0, val |-> "none"]

resolve_commit(statuses, r) ==
    IF r.commit # 0 \/ r.txn = 0 THEN r.commit
    ELSE IF statuses[r.txn] # 0 THEN statuses[r.txn]
    ELSE UnknownCommit

\* The newest version of the chain that the snapshot includes.  The walk stops
\* with Corruption at a version whose writer is unknown or that the store lost.
visible_current(store, statuses, current, snapshot) ==
    LET Step(r, next) ==
            LET c == resolve_commit(statuses, r)
            IN  IF c = UnknownCommit THEN CorruptChain
                ELSE IF c <= snapshot THEN VisibleVersion(r)
                ELSE next
        walk[id \in {0} \cup DOMAIN store] ==
            IF id = 0 THEN NothingVisible
            ELSE Step(store[id], IF store[id].prev \in {0} \cup DOMAIN store
                                 THEN walk[store[id].prev] ELSE CorruptChain)
    IN  Step(current, IF current.undo \in {0} \cup DOMAIN store
                      THEN walk[current.undo] ELSE CorruptChain)

\* Mutant: the version at the watermark itself is not kept.
retain_above_watermark(store, statuses, current, watermark) ==
    LET walk[id \in {0} \cup DOMAIN store] ==
            IF id = 0 \/ resolve_commit(statuses, store[id]) <= watermark THEN {}
            ELSE {id} \cup walk[store[id].prev]
    IN  IF watermark = NoWatermark \/ resolve_commit(statuses, current) <= watermark
        THEN {} ELSE walk[current.undo]

\* The versions a collection keeps for one current record: the chain down to
\* and including the first version that the watermark already includes.
retain_current_chain(store, statuses, current, watermark) ==
    LET walk[id \in {0} \cup DOMAIN store] ==
            IF id = 0 THEN {}
            ELSE IF resolve_commit(statuses, store[id]) <= watermark THEN {id}
            ELSE {id} \cup walk[store[id].prev]
    IN  IF watermark = NoWatermark \/ resolve_commit(statuses, current) <= watermark
        THEN {} ELSE walk[current.undo]

\* Without a watermark the walk only looks every version of the chain up.
chain_stored(store, head) ==
    LET stored[id \in {0} \cup DOMAIN store] ==
            IF id = 0 THEN TRUE
            ELSE IF store[id].prev \in {0} \cup DOMAIN store THEN stored[store[id].prev] ELSE FALSE
    IN  IF head \in {0} \cup DOMAIN store THEN stored[head] ELSE FALSE

\* GcContext::collect for one record: the commit is frozen into the record, and
\* the history that no pinned snapshot needs is cut off.
freeze_record(statuses, current, watermark) ==
    LET resolved == resolve_commit(statuses, current)
        clear_history == watermark = NoWatermark \/ resolved <= watermark
    IN  [current EXCEPT !.commit = resolved,
                        !.undo = IF clear_history THEN 0 ELSE @]

\* VersionStore::compact: the retained versions keep their identities, and a
\* predecessor that is not retained is forgotten.
compact(store, retained) ==
    [id \in retained |->
        [store[id] EXCEPT !.prev = IF @ \in retained THEN @ ELSE 0]]
=============================================================================
