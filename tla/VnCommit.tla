------------------------------ MODULE VnCommit ------------------------------
(***************************************************************************)
(* The ordered commit path of the vNext storage kernel                     *)
(* (crates/seerdb/src/vnext): transactions, write intents, the append lane *)
(* and the durable log, the undo store, installation of current records,   *)
(* the visibility frontier, runtime admission with its checkpoint drain    *)
(* and terminal fence, snapshot readers, and recovery from the log.        *)
(*                                                                         *)
(* A call runs on its own thread.  One step is what the code does under    *)
(* one lock; "pc" says where the thread of a transaction stands.  The two  *)
(* condition variables keep their wait sets, so a missing notification is  *)
(* a thread that never runs again.                                         *)
(***************************************************************************)
EXTENDS Integers, Sequences, FiniteSets, FiniteSetsExt, SequencesExt

CONSTANTS Txns,      \* transaction identities, each used once
          Keys,      \* keys of the ordered objects, integers in key order
          Readers,   \* threads that run snapshot cursors
          Profiles   \* what a behaviour may do, see MCVnCommit

VARIABLES
    profile,     \* the profile of this behaviour, never changed
    budget,      \* how many faults, crashes, checkpoints and scans are left
    wal,         \* the log: one record per appended commit batch
    walSynced,   \* how many of them a barrier has covered
    nextCsn,     \* AppendLaneState.next_csn
    logFenced,   \* DurableLog.fenced
    undo,        \* the undo store, a sequence of before-images
    undoSynced,  \* UndoStore.durable_version
    undoFenced,  \* UndoStore.fenced
    tree,        \* the current record of every key, as the pages hold it
    status,      \* TransactionStatusTable
    intents,     \* WriteIntentTable: the owner of every key
    visible,     \* VisibilityFrontier.visible
    ready,       \* FrontierState.ready
    frontierDown,\* FrontierState.recovery_required
    admission,   \* RuntimeAdmission: its lock, members, checkpoint and fence
    ckpt,        \* the thread that runs a checkpoint
    th,          \* the thread of every transaction
    rd,          \* the cursor of every reader
    up,          \* "open", "down", "recovering", or a recovery ended by an I/O
                 \* error ("broken") or by what the log says ("refused")
    acked        \* ghost: transactions whose commit returned Ok

envVars   == <<profile, budget>>
logVars   == <<wal, walSynced, nextCsn, logFenced>>
undoVars  == <<undo, undoSynced, undoFenced>>
frontVars == <<visible, ready, frontierDown>>
vars == <<profile, budget, wal, walSynced, nextCsn, logFenced, undo, undoSynced,
          undoFenced, tree, status, intents, visible, ready, frontierDown,
          admission, ckpt, th, rd, up, acked>>

NoTxn == 0
ASSUME TxnsAreIdentities == Txns \subseteq Nat \ {NoTxn}
ASSUME KeysAreOrdered == Keys \subseteq Nat

-----------------------------------------------------------------------------
(* Records.  A put of transaction t at ordinal o stands for its value.  A  *)
(* record names the effect that installed it (InstallIdentity) and its     *)
(* undo head, 0 for none.                                                  *)

Absent == [owner |-> NoTxn, ord |-> 0, del |-> FALSE, head |-> 0]

installed(t, e, head) == [owner |-> t, ord |-> e.ord, del |-> e.del, head |-> head]

\* The reducer shared by commit and replay: the last mutation of a key wins.
normalize_final_effects(muts) ==
    [k \in {muts[i].key : i \in DOMAIN muts} |->
        LET i == Max({j \in DOMAIN muts : muts[j].key = k})
        IN [ord |-> i, del |-> muts[i].del]]

\* What a read answers for a record: the effect as a row, or no row.
NoRow == <<>>
Row(owner, e) == IF e.del THEN NoRow ELSE <<owner, e.ord>>

\* Whether a reader at snapshot s takes a record of this owner as it stands.
Visible(owner, reader, s) ==
    \/ owner = reader
    \/ /\ status[owner].kind = "committed"
       /\ status[owner].csn <= s

Unknown       == [kind |-> "unknown", csn |-> 0]
Active        == [kind |-> "active", csn |-> 0]
Aborted       == [kind |-> "aborted", csn |-> 0]
Committed(c)  == [kind |-> "committed", csn |-> c]

Idle == [pc |-> "idle", phase |-> "Active", snap |-> 0, muts |-> <<>>, csn |-> 0,
         got |-> {}, plan |-> <<>>, done |-> {}]
NoThread == [Idle EXCEPT !.pc = "none"]
NoScan == [pc |-> "idle", who |-> NoTxn, snap |-> 0, staged |-> <<>>, key |-> 0,
           rec |-> Absent, out |-> <<>>]
Open == [lock |-> NoTxn, members |-> {}, checkpointing |-> FALSE, fenced |-> FALSE]

Spend(kind) == /\ budget[kind] > 0
               /\ budget' = [budget EXCEPT ![kind] = @ - 1]
               /\ UNCHANGED profile

\* The thread of t stands at step s of a call, in a running process.
At(t, s) == up = "open" /\ th[t].pc = s
Unlocked == admission.lock = NoTxn
effects(t) == normalize_final_effects(th[t].muts)

-----------------------------------------------------------------------------
(* Transactions before commit.                                             *)

begin_write(t) ==
    /\ At(t, "none")
    /\ ~admission.fenced
    /\ status[t] = Unknown
    /\ status' = [status EXCEPT ![t] = Active]
    /\ th' = [th EXCEPT ![t] = [Idle EXCEPT !.snap = visible]]
    /\ UNCHANGED <<envVars, logVars, undoVars, tree, intents, frontVars, admission,
                   ckpt, rd, up, acked>>

stage(t, k, del) ==
    /\ At(t, "idle")
    /\ th[t].phase = "Active"
    /\ Len(th[t].muts) < profile.muts
    /\ th' = [th EXCEPT ![t].muts = Append(@, [key |-> k, del |-> del])]
    /\ UNCHANGED <<envVars, logVars, undoVars, tree, status, intents, frontVars,
                   admission, ckpt, rd, up, acked>>

abort(t) ==
    /\ At(t, "idle")
    /\ th[t].phase = "Active"
    /\ status[t] = Active
    /\ status' = [status EXCEPT ![t] = Aborted]
    /\ th' = [th EXCEPT ![t].phase = "Aborted"]
    /\ UNCHANGED <<envVars, logVars, undoVars, tree, intents, frontVars, admission,
                   ckpt, rd, up, acked>>

-----------------------------------------------------------------------------
(* OrderedCommitCoordinator::commit, one action per step.                  *)

\* ensure_open and admit_commit; a refusal returns before anything changed.
admit_commit(t) ==
    /\ At(t, "idle")
    /\ th[t].phase = "Active"
    /\ Unlocked
    /\ ~admission.fenced
    /\ ~admission.checkpointing
    /\ Spend("tries")
    /\ admission' = [admission EXCEPT !.members = @ \cup {t}]
    /\ th' = [th EXCEPT ![t].pc = "acquire"]
    /\ UNCHANGED <<logVars, undoVars, tree, status, intents, frontVars,
                   ckpt, rd, up, acked>>

Release(t) == [k \in Keys |-> IF intents[k] = t THEN NoTxn ELSE intents[k]]

\* One key of the canonical batch; a conflict rolls the acquired prefix back
\* and returns with the transaction still active.
try_acquire(t) ==
    /\ At(t, "acquire")
    /\ LET rest == DOMAIN effects(t) \ th[t].got
           k == Min(rest)
       IN \/ /\ rest = {}
             /\ th' = [th EXCEPT ![t].pc = "prepare"]
             /\ UNCHANGED intents
          \/ /\ rest # {}
             /\ intents[k] = NoTxn
             /\ intents' = [intents EXCEPT ![k] = t]
             /\ th' = [th EXCEPT ![t].got = @ \cup {k}]
          \/ /\ rest # {}
             /\ intents[k] # NoTxn
             /\ intents' = Release(t)
             /\ th' = [th EXCEPT ![t].pc = "leave", ![t].got = {}]
    /\ UNCHANGED <<envVars, logVars, undoVars, tree, status, frontVars, admission,
                   ckpt, rd, up, acked>>

\* Why the current record refuses a live writer at this snapshot, or "none".
Refusal(r, t) ==
    CASE r = Absent                                      -> "none"
      [] r # Absent /\ status[r.owner].kind = "unknown"  -> "fence"
      [] r # Absent /\ status[r.owner].kind = "active"   -> "clean"
      [] r # Absent /\ status[r.owner].kind = "aborted"  -> "none"
      [] r # Absent /\ status[r.owner].kind = "committed" ->
            IF status[r.owner].csn > th[t].snap THEN "clean" ELSE "none"

\* Mutant: nothing is kept of what is overwritten.
Overwrites_never(r) == FALSE

\* A record of an aborted owner is replaced together with its history; a
\* committed one is copied to the undo store first.
Overwrites(r) == r # Absent /\ status[r.owner].kind = "committed"

Unprepared(t) == DOMAIN effects(t) \ DOMAIN th[t].plan

Planned(t, k, head) ==
    th' = [th EXCEPT ![t].plan = [j \in DOMAIN @ \cup {k} |->
              IF j = k THEN [pre |-> tree[k], new |-> installed(t, effects(t)[k], head)]
                       ELSE @[j]]]

\* One effect: validate the predecessor under the intent and append its
\* before-image.  A conflict, a pool without a free frame, or any error of the
\* preflight leaves the transaction active; a page that cannot be read and a
\* broken undo store fence the runtime.
prepare(t) ==
    /\ At(t, "prepare")
    /\ Unprepared(t) # {}
    /\ LET k == Min(Unprepared(t))
           r == tree[k]
       IN \/ /\ Refusal(r, t) = "none"
             /\ ~Overwrites(r)
             /\ Planned(t, k, r.head)
             /\ UNCHANGED <<envVars, undoVars>>
          \/ /\ Refusal(r, t) = "none"
             /\ Overwrites(r)
             /\ ~undoFenced
             /\ undo' = Append(undo, r)
             /\ Planned(t, k, Len(undo) + 1)
             /\ UNCHANGED <<envVars, undoSynced, undoFenced>>
          \/ /\ Refusal(r, t) = "none"
             /\ Overwrites(r)
             /\ ~undoFenced
             /\ Spend("faults")
             /\ undoFenced' = TRUE
             /\ th' = [th EXCEPT ![t].pc = "fence"]
             /\ UNCHANGED <<undo, undoSynced>>
          \/ /\ \/ Refusal(r, t) = "fence"
                \/ Refusal(r, t) = "none" /\ Overwrites(r) /\ undoFenced
             /\ th' = [th EXCEPT ![t].pc = "fence"]
             /\ UNCHANGED <<envVars, undoVars>>
          \/ /\ Refusal(r, t) = "clean"
             /\ th' = [th EXCEPT ![t].pc = "release"]
             /\ UNCHANGED <<envVars, undoVars>>
          \/ /\ Spend("faults")
             /\ \E pc \in {"release", "fence"} : th' = [th EXCEPT ![t].pc = pc]
             /\ UNCHANGED undoVars
    /\ UNCHANGED <<logVars, tree, status, intents, frontVars, admission, ckpt, rd,
                   up, acked>>

Prepared(t) == At(t, "prepare") /\ Unprepared(t) = {}

Decision(t) == [txn |-> t, csn |-> nextCsn, snap |-> th[t].snap, effects |-> effects(t)]

\* Mutant: a failed append neither fences the log nor gives its number back.
append_validated_unfenced(t) ==
    /\ Prepared(t)
    /\ \/ /\ wal' = Append(wal, Decision(t))
          /\ nextCsn' = nextCsn + 1
          /\ th' = [th EXCEPT ![t].pc = "sync", ![t].phase = "WalAppended",
                              ![t].csn = nextCsn]
          /\ UNCHANGED envVars
       \/ /\ Spend("faults")
          /\ nextCsn' = nextCsn + 1
          /\ th' = [th EXCEPT ![t].pc = "release", ![t].phase = "RecoveryRequired"]
          /\ UNCHANGED wal
    /\ UNCHANGED <<walSynced, logFenced, status, undoVars, tree, intents, frontVars,
                   admission, ckpt, rd, up, acked>>

\* begin_validation, then the append lane: the CSN is assigned and the batch
\* written under one lock.  A fenced log refuses cleanly and the transaction
\* aborts; an I/O error leaves the batch on the device or not, fences the log
\* and does not consume the CSN.
append_validated(t) ==
    /\ Prepared(t)
    /\ \/ /\ ~logFenced
          /\ wal' = Append(wal, Decision(t))
          /\ nextCsn' = nextCsn + 1
          /\ th' = [th EXCEPT ![t].pc = "sync", ![t].phase = "WalAppended",
                              ![t].csn = nextCsn]
          /\ UNCHANGED <<envVars, walSynced, logFenced, status>>
       \/ /\ ~logFenced
          /\ Spend("faults")
          /\ wal' \in {wal, Append(wal, Decision(t))}
          /\ logFenced' = TRUE
          /\ th' = [th EXCEPT ![t].pc = "fence", ![t].phase = "RecoveryRequired",
                              ![t].csn = nextCsn]
          /\ UNCHANGED <<walSynced, nextCsn, status>>
       \/ /\ logFenced
          /\ status' = [status EXCEPT ![t] = Aborted]
          /\ th' = [th EXCEPT ![t].pc = "release", ![t].phase = "Aborted"]
          /\ UNCHANGED <<envVars, logVars>>
    /\ UNCHANGED <<undoVars, tree, intents, frontVars, admission, ckpt, rd, up, acked>>

Fail(t) == th' = [th EXCEPT ![t].pc = "fence"]

\* DurableLog::sync_through, then mark_durable.
sync_wal(t) ==
    /\ At(t, "sync")
    /\ \/ /\ ~logFenced
          /\ walSynced' = Len(wal)
          /\ th' = [th EXCEPT ![t].pc = "undo", ![t].phase = "DurableDecision"]
          /\ UNCHANGED <<envVars, logFenced>>
       \/ /\ ~logFenced
          /\ Spend("faults")
          /\ logFenced' = TRUE
          /\ Fail(t)
          /\ UNCHANGED walSynced
       \/ /\ logFenced
          /\ Fail(t)
          /\ UNCHANGED <<envVars, walSynced, logFenced>>
    /\ UNCHANGED <<wal, nextCsn, undoVars, tree, status, intents, frontVars,
                   admission, ckpt, rd, up, acked>>

max_required_undo(t) == Max({0} \cup {th[t].plan[k].new.head : k \in DOMAIN th[t].plan})

\* One grouped barrier for every before-image the plan refers to.
sync_undo(t) ==
    /\ At(t, "undo")
    /\ \/ /\ max_required_undo(t) = 0 \/ (~undoFenced /\ max_required_undo(t) <= undoSynced)
          /\ th' = [th EXCEPT ![t].pc = "apply"]
          /\ UNCHANGED <<envVars, undoSynced, undoFenced>>
       \/ /\ ~undoFenced
          /\ max_required_undo(t) > undoSynced
          /\ undoSynced' = Len(undo)
          /\ th' = [th EXCEPT ![t].pc = "apply"]
          /\ UNCHANGED <<envVars, undoFenced>>
       \/ /\ ~undoFenced
          /\ max_required_undo(t) > undoSynced
          /\ Spend("faults")
          /\ undoFenced' = TRUE
          /\ Fail(t)
          /\ UNCHANGED undoSynced
       \/ /\ undoFenced
          /\ max_required_undo(t) # 0
          /\ Fail(t)
          /\ UNCHANGED <<envVars, undoSynced, undoFenced>>
    /\ UNCHANGED <<logVars, undo, tree, status, intents, frontVars, admission, ckpt,
                   rd, up, acked>>

\* One page mutation, after the predecessor is checked again.  A page fault of
\* the buffer pool or a changed predecessor fails the commit.
apply_prepared(t) ==
    /\ At(t, "apply")
    /\ LET rest == DOMAIN th[t].plan \ th[t].done
           k == Min(rest)
           p == th[t].plan[k]
       IN \/ /\ rest = {}
             /\ th' = [th EXCEPT ![t].pc = "publish"]
             /\ UNCHANGED <<envVars, tree>>
          \/ /\ rest # {}
             /\ tree[k] = p.pre
             /\ tree' = [tree EXCEPT ![k] = p.new]
             /\ th' = [th EXCEPT ![t].done = @ \cup {k}]
             /\ UNCHANGED envVars
          \/ /\ rest # {}
             /\ tree[k] # p.pre
             /\ Fail(t)
             /\ UNCHANGED <<envVars, tree>>
          \/ /\ rest # {}
             /\ Spend("faults")
             /\ Fail(t)
             /\ UNCHANGED tree
    /\ UNCHANGED <<logVars, undoVars, status, intents, frontVars, admission, ckpt, rd,
                   up, acked>>

\* admit_visibility, and the first half of publish_commit under its guard.
publish_status(t) ==
    /\ At(t, "publish")
    /\ Unlocked
    /\ \/ /\ ~admission.fenced
          /\ admission' = [admission EXCEPT !.lock = t]
          /\ status' = [status EXCEPT ![t] = Committed(th[t].csn)]
          /\ th' = [th EXCEPT ![t].pc = "ready"]
       \/ /\ admission.fenced
          /\ Fail(t)
          /\ UNCHANGED <<admission, status>>
    /\ UNCHANGED <<envVars, logVars, undoVars, tree, intents, frontVars, ckpt, rd, up,
                   acked>>

\* The end of the contiguous run of ready commits above the frontier.
advance_locked(r) ==
    Max({c \in visible .. (visible + Cardinality(r)) : (visible + 1) .. c \subseteq r})

Wake(pcs) == [t \in Txns |-> IF pcs[t].pc = "waiting" THEN [pcs[t] EXCEPT !.pc = "wait"]
                                                      ELSE pcs[t]]

\* The second half of publish_commit: mark_ready, which wakes every waiter.
mark_ready(t) ==
    /\ At(t, "ready")
    /\ admission' = [admission EXCEPT !.lock = NoTxn]
    /\ \/ /\ th[t].csn > visible
          /\ ~frontierDown
          /\ LET r == ready \cup {th[t].csn}
             IN /\ visible' = advance_locked(r)
                /\ ready' = {c \in r : c > visible'}
          /\ th' = Wake([th EXCEPT ![t].pc = "wait"])
       \/ /\ th[t].csn <= visible \/ frontierDown
          /\ Fail(t)
          /\ UNCHANGED <<visible, ready>>
    /\ UNCHANGED <<envVars, logVars, undoVars, tree, status, intents, frontierDown,
                   ckpt, rd, up, acked>>

\* Mutant: the committer returns before its number is visible.
wait_visible_now(t) ==
    /\ At(t, "wait")
    /\ th' = [th EXCEPT ![t].pc = "complete"]
    /\ UNCHANGED <<envVars, logVars, undoVars, tree, status, intents, frontVars,
                   admission, ckpt, rd, up, acked>>

\* The loop of wait_visible: the fence first, then the frontier, else wait.
wait_visible(t) ==
    /\ At(t, "wait")
    /\ \/ frontierDown /\ Fail(t)
       \/ /\ ~frontierDown
          /\ visible >= th[t].csn
          /\ th' = [th EXCEPT ![t].pc = "complete"]
       \/ /\ ~frontierDown
          /\ visible < th[t].csn
          /\ th' = [th EXCEPT ![t].pc = "waiting"]
    /\ UNCHANGED <<envVars, logVars, undoVars, tree, status, intents, frontVars,
                   admission, ckpt, rd, up, acked>>

\* The second short admission: acknowledgement against the fence.
complete(t) ==
    /\ At(t, "complete")
    /\ Unlocked
    /\ \/ /\ ~admission.fenced
          /\ th' = [th EXCEPT ![t].pc = "release", ![t].phase = "Released"]
          /\ acked' = acked \cup {t}
       \/ /\ admission.fenced
          /\ Fail(t)
          /\ UNCHANGED acked
    /\ UNCHANGED <<envVars, logVars, undoVars, tree, status, intents, frontVars,
                   admission, ckpt, rd, up>>

NotifyDrain == IF ckpt = "waiting" THEN "woken" ELSE ckpt

\* RuntimeAdmission::require_recovery.
fence_admission(t) ==
    /\ At(t, "fence")
    /\ Unlocked
    /\ admission' = [admission EXCEPT !.fenced = TRUE]
    /\ ckpt' = NotifyDrain
    /\ th' = [th EXCEPT ![t].pc = "fence_frontier"]
    /\ UNCHANGED <<envVars, logVars, undoVars, tree, status, intents, frontVars, rd,
                   up, acked>>

\* Mutant: the fence wakes nobody.
fence_frontier_silent(t) ==
    /\ At(t, "fence_frontier")
    /\ frontierDown' = TRUE
    /\ th' = [th EXCEPT ![t].pc = "release",
                        ![t].phase = IF @ = "Active" THEN @ ELSE "RecoveryRequired"]
    /\ UNCHANGED <<envVars, logVars, undoVars, tree, status, intents, visible, ready,
                   admission, ckpt, rd, up, acked>>

\* VisibilityFrontier::require_recovery, then mark_recovery_required.
fence_frontier(t) ==
    /\ At(t, "fence_frontier")
    /\ frontierDown' = TRUE
    /\ th' = Wake([th EXCEPT ![t].pc = "release",
                             ![t].phase = IF @ = "Active" THEN @ ELSE "RecoveryRequired"])
    /\ UNCHANGED <<envVars, logVars, undoVars, tree, status, intents, visible, ready,
                   admission, ckpt, rd, up, acked>>

release_intents(t) ==
    /\ At(t, "release")
    /\ intents' = Release(t)
    /\ th' = [th EXCEPT ![t].pc = "leave", ![t].got = {}, ![t].plan = <<>>,
                        ![t].done = {}]
    /\ UNCHANGED <<envVars, logVars, undoVars, tree, status, frontVars, admission, ckpt,
                   rd, up, acked>>

\* CommitAdmission::drop; the call returns.
release_commit(t) ==
    /\ At(t, "leave")
    /\ Unlocked
    /\ admission' = [admission EXCEPT !.members = @ \ {t}]
    /\ ckpt' = IF admission.members = {t} THEN NotifyDrain ELSE ckpt
    /\ th' = [th EXCEPT ![t].pc = "idle"]
    /\ UNCHANGED <<envVars, logVars, undoVars, tree, status, intents, frontVars, rd,
                   up, acked>>

-----------------------------------------------------------------------------
(* Checkpoint drain.                                                       *)

begin_checkpoint ==
    /\ up = "open"
    /\ ckpt = "none"
    /\ Unlocked
    /\ ~admission.fenced
    /\ ~admission.checkpointing
    /\ Spend("ckpts")
    /\ admission' = [admission EXCEPT !.checkpointing = TRUE]
    /\ ckpt' = IF admission.members = {} THEN "captured" ELSE "waiting"
    /\ UNCHANGED <<logVars, undoVars, tree, status, intents, frontVars, th, rd, up, acked>>

\* A wakeup: fail if the runtime was fenced, else look at the count again.
drain ==
    /\ up = "open"
    /\ ckpt = "woken"
    /\ Unlocked
    /\ ckpt' = CASE admission.fenced -> "none"
                 [] ~admission.fenced /\ admission.members = {} -> "captured"
                 [] ~admission.fenced /\ admission.members # {} -> "waiting"
    /\ UNCHANGED <<envVars, logVars, undoVars, tree, status, intents, frontVars,
                   admission, th, rd, up, acked>>

finish_checkpoint ==
    /\ up = "open"
    /\ ckpt = "captured"
    /\ Unlocked
    /\ ckpt' = "none"
    /\ admission' = [admission EXCEPT !.checkpointing = FALSE]
    /\ UNCHANGED <<envVars, logVars, undoVars, tree, status, intents, frontVars, th,
                   rd, up, acked>>

-----------------------------------------------------------------------------
(* Snapshot cursors.  A point lookup is a cursor over one key.             *)

\* range_cursor at the frontier, or range_cursor_transaction, which captures
\* the staged mutations and keeps the snapshot of the transaction.
range_cursor(r, who) ==
    /\ up = "open"
    /\ rd[r].pc = "idle"
    /\ ~admission.fenced
    /\ who # NoTxn => th[who].pc = "idle" /\ th[who].phase = "Active"
    /\ Spend("scans")
    /\ rd' = [rd EXCEPT ![r] =
                [NoScan EXCEPT !.pc = "next", !.who = who,
                     !.snap = IF who = NoTxn THEN visible ELSE th[who].snap,
                     !.staged = IF who = NoTxn THEN <<>> ELSE effects(who)]]
    /\ UNCHANGED <<logVars, undoVars, tree, status, intents, frontVars, admission, ckpt,
                   th, up, acked>>

Unread(r) == {k \in Keys : k > rd[r].key}

\* The merge of one key: a staged mutation hides the shared record.
Emit(r, k, row) ==
    [j \in DOMAIN rd[r].out \cup {k} |->
        IF j # k THEN rd[r].out[j]
        ELSE IF k \in DOMAIN rd[r].staged THEN Row(rd[r].who, rd[r].staged[k]) ELSE row]

\* The raw cursor returns the next slot; the read stops at the fence.
next_batch(r) ==
    /\ up = "open"
    /\ rd[r].pc = "next"
    /\ LET k == Min(Unread(r))
       IN rd' = [rd EXCEPT ![r] =
            IF admission.fenced \/ Unread(r) = {} THEN NoScan
            ELSE IF tree[k] = Absent
                 THEN [@ EXCEPT !.key = k, !.out = Emit(r, k, NoRow)]
                 ELSE [@ EXCEPT !.key = k, !.rec = tree[k], !.pc = "resolve"]]
    /\ UNCHANGED <<envVars, logVars, undoVars, tree, status, intents, frontVars,
                   admission, ckpt, th, up, acked>>

\* One hop: take a visible record, or follow its undo head.
resolve(r) ==
    /\ up = "open"
    /\ rd[r].pc = "resolve"
    /\ LET c == rd[r]
       IN rd' = [rd EXCEPT ![r] =
            IF admission.fenced THEN NoScan
            ELSE IF Visible(c.rec.owner, c.who, c.snap)
                 THEN [@ EXCEPT !.pc = "next", !.out = Emit(r, c.key, Row(c.rec.owner, c.rec))]
            ELSE IF c.rec.head = 0
                 THEN [@ EXCEPT !.pc = "next", !.out = Emit(r, c.key, NoRow)]
            ELSE [@ EXCEPT !.rec = undo[c.rec.head]]]
    /\ UNCHANGED <<envVars, logVars, undoVars, tree, status, intents, frontVars,
                   admission, ckpt, th, up, acked>>

-----------------------------------------------------------------------------
(* Crash, reopening and replay.                                            *)

\* The process dies; of the unsynced tail of each file a prefix survives, cut
\* to whole batches and frames when the files are opened again.  Pages are not
\* recovery authority: replay starts from empty trees.
crash ==
    /\ up # "down"
    /\ Spend("crashes")
    /\ \E n \in walSynced .. Len(wal) : wal' = SubSeq(wal, 1, n)
    /\ \E n \in undoSynced .. Len(undo) : undo' = SubSeq(undo, 1, n)
    /\ up' = "down"
    /\ nextCsn' = 0
    /\ logFenced' = FALSE
    /\ undoFenced' = FALSE
    /\ tree' = [k \in Keys |-> Absent]
    /\ status' = [t \in Txns |-> Unknown]
    /\ intents' = [k \in Keys |-> NoTxn]
    /\ visible' = 0
    /\ ready' = {}
    /\ frontierDown' = FALSE
    /\ admission' = Open
    /\ ckpt' = "none"
    /\ th' = [t \in Txns |-> IF th[t] = NoThread THEN th[t]
                                                 ELSE [NoThread EXCEPT !.pc = "gone"]]
    /\ rd' = [r \in Readers |-> NoScan]
    /\ UNCHANGED <<walSynced, undoSynced, acked>>

\* The files are opened and what they retain is made durable before replay.
reopen ==
    /\ up = "down"
    /\ up' = "recovering"
    /\ walSynced' = Len(wal)
    /\ undoSynced' = Len(undo)
    /\ UNCHANGED <<envVars, wal, nextCsn, logFenced, undo, undoFenced, tree, status,
                   intents, frontVars, admission, ckpt, th, rd, acked>>

\* OrderedRecoveryApplier::apply of the next recovered transaction.  An error on
\* the way leaves before-images of some of its effects and ends the recovery;
\* nothing is read from the trees before the next one.
apply ==
    /\ up = "recovering"
    /\ visible < Len(wal)
    /\ LET d == wal[visible + 1]
           old == SetToSortSeq({k \in DOMAIN d.effects : tree[k] # Absent}, <)
           head(k) == IF tree[k] = Absent THEN 0
                      ELSE Len(undo) + CHOOSE i \in DOMAIN old : old[i] = k
       IN \/ /\ d.csn = visible + 1
             /\ \A k \in DOMAIN d.effects : tree[k] # Absent =>
                    /\ status[tree[k].owner].kind = "committed"
                    /\ status[tree[k].owner].csn < d.csn
             /\ status[d.txn] = Unknown
             /\ status' = [status EXCEPT ![d.txn] = Committed(d.csn)]
             /\ undo' = undo \o [i \in DOMAIN old |-> tree[old[i]]]
             /\ undoSynced' = IF old = <<>> THEN undoSynced ELSE Len(undo')
             /\ tree' = [k \in Keys |-> IF k \in DOMAIN d.effects
                                        THEN installed(d.txn, d.effects[k], head(k))
                                        ELSE tree[k]]
             /\ visible' = d.csn
             /\ UNCHANGED <<envVars, undoFenced, up>>
          \/ /\ \/ d.csn # visible + 1
                \/ \E k \in DOMAIN d.effects : tree[k] # Absent /\
                        ~(/\ status[tree[k].owner].kind = "committed"
                          /\ status[tree[k].owner].csn < d.csn)
                \/ status[d.txn] # Unknown
             /\ up' = "refused"
             /\ UNCHANGED <<envVars, undoVars, status, tree, visible>>
          \/ /\ Spend("faults")
             /\ \E n \in 0..Len(old) : undo' = undo \o [i \in 1..n |-> tree[old[i]]]
             /\ undoFenced' \in BOOLEAN
             /\ up' = "broken"
             /\ UNCHANGED <<undoSynced, status, tree, visible>>
    /\ UNCHANGED <<logVars, intents, ready, frontierDown, admission, ckpt, th, rd, acked>>

\* CommitAppender::new with the recovered CSN: the runtime is open again.
finish_recovery ==
    /\ up = "recovering"
    /\ visible = Len(wal)
    /\ up' = "open"
    /\ nextCsn' = visible + 1
    /\ UNCHANGED <<envVars, wal, walSynced, logFenced, undoVars, tree, status, intents,
                   frontVars, admission, ckpt, th, rd, acked>>

-----------------------------------------------------------------------------
Init ==
    /\ profile \in Profiles
    /\ budget = profile.budget
    /\ wal = <<>>
    /\ walSynced = 0
    /\ nextCsn = 1
    /\ logFenced = FALSE
    /\ undo = <<>>
    /\ undoSynced = 0
    /\ undoFenced = FALSE
    /\ tree = [k \in Keys |-> Absent]
    /\ status = [t \in Txns |-> Unknown]
    /\ intents = [k \in Keys |-> NoTxn]
    /\ visible = 0
    /\ ready = {}
    /\ frontierDown = FALSE
    /\ admission = Open
    /\ ckpt = "none"
    /\ th = [t \in Txns |-> NoThread]
    /\ rd = [r \in Readers |-> NoScan]
    /\ up = "open"
    /\ acked = {}

\* The steps of the thread of t inside a call: the code never stops in them.
InCall(t) ==
    \/ try_acquire(t)
    \/ prepare(t)
    \/ append_validated(t)
    \/ sync_wal(t)
    \/ sync_undo(t)
    \/ apply_prepared(t)
    \/ publish_status(t)
    \/ mark_ready(t)
    \/ wait_visible(t)
    \/ complete(t)
    \/ fence_admission(t)
    \/ fence_frontier(t)
    \/ release_intents(t)
    \/ release_commit(t)

Next ==
    \/ \E t \in profile.txns : begin_write(t)
    \/ \E t \in profile.txns, k \in profile.keys, del \in profile.dels : stage(t, k, del)
    \/ \E t \in profile.txns : abort(t)
    \/ \E t \in profile.txns : admit_commit(t)
    \/ \E t \in Txns : InCall(t)
    \/ begin_checkpoint
    \/ drain
    \/ finish_checkpoint
    \/ \E r \in Readers, who \in profile.cursors : range_cursor(r, who)
    \/ \E r \in Readers : next_batch(r)
    \/ \E r \in Readers : resolve(r)
    \/ crash
    \/ reopen
    \/ apply
    \/ finish_recovery

Spec == Init /\ [][Next]_vars

\* A thread inside a call is scheduled until the call returns; reopening runs
\* to its end.  Clients, checkpoints and cursors need not act.
FairSpec == /\ Spec
            /\ \A t \in Txns : WF_vars(InCall(t))
            /\ WF_vars(drain)
            /\ WF_vars(reopen)
            /\ WF_vars(apply)
            /\ WF_vars(finish_recovery)

-----------------------------------------------------------------------------
\* Types, and the syncs and heads of chains within the logs they point into.
TypeOK ==
    /\ profile \in Profiles
    /\ \A x \in DOMAIN budget : budget[x] \in Nat
    /\ walSynced \in 0 .. Len(wal)
    /\ undoSynced \in 0 .. Len(undo)
    /\ nextCsn \in Nat
    /\ {logFenced, undoFenced, frontierDown} \subseteq BOOLEAN
    /\ \A k \in Keys : tree[k].head \in 0 .. Len(undo)
    /\ status \in [Txns -> [kind : {"unknown", "active", "aborted", "committed"}, csn : Nat]]
    /\ intents \in [Keys -> Txns \cup {NoTxn}]
    /\ visible \in Nat
    /\ ready \subseteq Nat
    /\ admission.members \subseteq Txns
    /\ ckpt \in {"none", "waiting", "woken", "captured"}
    /\ up \in {"open", "down", "recovering", "broken", "refused"}
    /\ acked \subseteq Txns

\* The reference the pages, the undo chains and the statuses are held against:
\* the row of k after the first s decisions of the log.
LogRow(k, s) ==
    LET writers == {i \in 1 .. s : k \in DOMAIN wal[i].effects}
    IN IF writers = {} THEN NoRow
       ELSE LET d == wal[Max(writers)] IN Row(d.txn, d.effects[k])

\* What resolve answers at snapshot s from record r onwards.
ChainRow(r, s) ==
    LET row[h \in 0 .. Len(undo)] ==
            IF h = 0 THEN NoRow
            ELSE IF Visible(undo[h].owner, NoTxn, s) THEN Row(undo[h].owner, undo[h])
            ELSE row[undo[h].head]
    IN IF r = Absent THEN NoRow
       ELSE IF Visible(r.owner, NoTxn, s) THEN Row(r.owner, r) ELSE row[r.head]

\* Every snapshot at or below the frontier reads exactly the decisions up to
\* it, whole transactions only, whatever later commits have installed over
\* them and however far they got (ordered_mvcc_read.rs resolve, visibility.rs).
SnapshotsResolve ==
    up = "open" => \A k \in Keys, s \in 0 .. visible : ChainRow(tree[k], s) = LogRow(k, s)

\* A cursor returns the rows of its snapshot under the mutations staged when
\* it was created, however its hops interleave with commits.  Only a cursor
\* left open over the commit of its own transaction may also meet what that
\* transaction staged later.
ScansAreStable ==
    \A r \in Readers : \A k \in DOMAIN rd[r].out :
        \/ rd[r].out[k] = IF k \in DOMAIN rd[r].staged THEN Row(rd[r].who, rd[r].staged[k])
                          ELSE LogRow(k, rd[r].snap)
        \/ /\ rd[r].who # NoTxn
           /\ k \in DOMAIN effects(rd[r].who)
           /\ th[rd[r].who].phase # "Active"
           /\ rd[r].out[k] = Row(rd[r].who, effects(rd[r].who)[k])

\* An acknowledged commit is durable from then on, and whenever the runtime is
\* open every new snapshot covers it.
AckedHolds ==
    \A t \in acked :
        /\ \E i \in 1 .. walSynced : wal[i].txn = t
        /\ up = "open" => status[t].kind = "committed" /\ status[t].csn <= visible

Conflict(d, e) == DOMAIN d.effects \cap DOMAIN e.effects # {}

\* No acknowledged transaction overwrote a decision its snapshot did not cover.
AckedSawPredecessors ==
    \A i, j \in DOMAIN wal : i < j /\ wal[j].txn \in acked /\ Conflict(wal[i], wal[j])
        => wal[j].snap >= wal[i].csn

\* The same for every decision in the log, acknowledged or not.
FirstCommitterWins ==
    \A i, j \in DOMAIN wal : i < j /\ Conflict(wal[i], wal[j]) => wal[j].snap >= wal[i].csn

\* A page may be written back at any time: what it refers to is durable, its
\* decision in the log and every version of its chain in the undo store.
PagesAreCovered ==
    \A k \in Keys : tree[k] # Absent =>
        /\ \E i \in 1 .. walSynced : wal[i].txn = tree[k].owner
        /\ tree[k].head <= undoSynced
        /\ \A h \in 1 .. undoSynced : undo[h].head < h

\* Replay stops only at an I/O error: the retained log is a gapless run of
\* decisions that install in order.
ReplaySucceeds == up # "refused"

\* While a checkpoint captures, no commit touches pages, log or frontier.
CaptureIsQuiet ==
    [][ckpt = "captured" /\ up' = "open" => UNCHANGED <<tree, wal, visible>>]_vars

\* A commit that was admitted returns: acknowledged, refused, or told that
\* recovery is required.
CommitReturns == \A t \in Txns : t \in admission.members ~> t \notin admission.members

\* A checkpoint that waits for admitted commits captures or fails.
DrainReturns == ckpt \in {"waiting", "woken"} ~> ckpt \notin {"waiting", "woken"}

\* What readers rely on: snapshots and cursors see whole decisions of the log.
SnapshotsHold == SnapshotsResolve /\ ScansAreStable

\* What an acknowledged committer relies on: its commit is durable and visible,
\* and overwrote nothing it had not seen.
AcksHold == AckedHolds /\ AckedSawPredecessors

\* What replay relies on: log, undo and pages fit together at every moment.
ReplayHolds == TypeOK /\ PagesAreCovered /\ ReplaySucceeds

\* Commits and checkpoints give way to each other: nothing changes while a
\* checkpoint captures, and both return.
DrainHolds == CaptureIsQuiet /\ CommitReturns /\ DrainReturns
=============================================================================
