--------------------------- MODULE PgWorkerProofs ---------------------------
(***************************************************************************)
(* The invariant of the wire server, and that the steps of its workers     *)
(* keep it, for any number of connections and any messages.  Most of the   *)
(* invariant is about one connection: its task, its worker, its block and  *)
(* its cancellation entry.  What ties connections together is the count of *)
(* workers, the database lock, and that a write belongs to one connection  *)
(* until it is decided.                                                    *)
(***************************************************************************)
EXTENDS PgServer, TLAPS

\* The kinds of statement a message may hold.
Stmts == {"none", "begin", "commit", "rollback", "read", "write", "schema", "bad", "syntax"}

\* There are finitely many peers, and a plan says what its fields are to say.
Setting ==
  /\ IsFiniteSet(Conns)
  /\ \A p \in Plans :
       /\ p.max_connections \in Nat /\ p.bootstrap \in BOOLEAN
       /\ p.queries \subseteq Seq(Stmts) /\ p.statements \subseteq Stmts

\* What the proofs use of finite sets.  It is a theorem of set theory, proved at
\* the end of PgServerProofs; up to there it is a premise.
FiniteLaws ==
  /\ IsFiniteSet({}) /\ Cardinality({}) = 0
  /\ \A S : IsFiniteSet(S) => Cardinality(S) \in Nat /\ (Cardinality(S) = 0 <=> S = {})
  /\ \A S : \A T \in SUBSET S :
       IsFiniteSet(S) => IsFiniteSet(T) /\ Cardinality(T) <= Cardinality(S)
  /\ \A S, x : IsFiniteSet(S) =>
       /\ IsFiniteSet(S \cup {x})
       /\ Cardinality(S \cup {x}) = IF x \in S THEN Cardinality(S) ELSE Cardinality(S) + 1
  /\ \A S, x : IsFiniteSet(S) =>
       /\ IsFiniteSet(S \ {x})
       /\ Cardinality(S \ {x}) = IF x \in S THEN Cardinality(S) - 1 ELSE Cardinality(S)

Premises == Setting /\ FiniteLaws

LEMMA FiniteEmptySet ==
  ASSUME Premises
  PROVE  /\ IsFiniteSet({}) /\ Cardinality({}) = 0
         /\ \A S : IsFiniteSet(S) => (Cardinality(S) = 0 <=> S = {})
BY ZenonT(60) DEF Premises, FiniteLaws

LEMMA FiniteCardinalityType ==
  ASSUME Premises, NEW S, IsFiniteSet(S)
  PROVE  Cardinality(S) \in Nat
BY DEF Premises, FiniteLaws

LEMMA FiniteSubset ==
  ASSUME Premises, NEW S, IsFiniteSet(S), NEW T \in SUBSET S
  PROVE  IsFiniteSet(T) /\ Cardinality(T) <= Cardinality(S)
BY DEF Premises, FiniteLaws

LEMMA FiniteAddElement ==
  ASSUME Premises, NEW S, NEW x, IsFiniteSet(S)
  PROVE  /\ IsFiniteSet(S \cup {x})
         /\ Cardinality(S \cup {x}) = IF x \in S THEN Cardinality(S) ELSE Cardinality(S) + 1
BY DEF Premises, FiniteLaws

LEMMA FiniteRemoveElement ==
  ASSUME Premises, NEW S, NEW x, IsFiniteSet(S)
  PROVE  /\ IsFiniteSet(S \ {x})
         /\ Cardinality(S \ {x}) = IF x \in S THEN Cardinality(S) - 1 ELSE Cardinality(S)
BY DEF Premises, FiniteLaws

Tasks == {"none", "startup", "ready", "busy", "ending"}
Modes == {"none", "bootstrap", "scram"}
Messages == {"none", "simple", "parse", "execute"}
Pcs == {"none", "parse", "next", "bind", "validate", "run", "lock", "locked", "commit", "wrap",
        "done", "returned"}
Stages == {"serving", "aborting", "draining", "closing", "closed", "live_references"}

BlockType == [kind : {"none", "explicit", "implicit"}, stale : BOOLEAN,
              txn : [live : BOOLEAN, version : Nat, staged : SUBSET Nat]]
PortalType == [state : {"none", "initial", "completed"}, stmt : Stmts, version : Nat]
ConnType == [task : Tasks, mode : Modes, authority : Modes, gone : BOOLEAN,
             status : {"idle", "transaction", "error"}, synced : BOOLEAN, skip : BOOLEAN,
             portal : PortalType, pending : SUBSET Nat]
JobType == [pc : Pcs, msg : Messages, left : Seq(Stmts), multi : BOOLEAN, stmt : Stmts,
            version : Nat, block : BlockType, id : Nat, failed : BOOLEAN]
EntryType == [known : BOOLEAN, active : BOOLEAN, cancelled : BOOLEAN]

LockType == [readers : SUBSET Conns, writer : SUBSET Conns]
DbType == [version : Nat, published : SUBSET Nat, next : Nat, bootstrap : BOOLEAN]
ServerType == [stage : Stages, shutdown : BOOLEAN, active : Int, control : Int, messages : Int]
ToldType == [committed : SUBSET Nat, failed : SUBSET Nat]

Types ==
  /\ plan \in Plans
  /\ conn \in [Conns -> ConnType] /\ job \in [Conns -> JobType]
  /\ blocks \in [Conns -> BlockType] /\ registry \in [Conns -> EntryType]
  /\ lock \in LockType /\ db \in DbType /\ server \in ServerType /\ told \in ToldType

-----------------------------------------------------------------------------
(* One connection: task k, worker j, block b in the map, entry r.          *)

\* A worker that has its block out of the map.
Taking == {"lock", "locked", "commit"}

\* A block is none at all, live, or aborted.
BlockOK(b) == (b.kind = "none" => b = NoBlock) /\ (b.txn.live \/ b.txn = NoTxn)

\* Who is busy with what.
TaskOK(k, j, r, stage) ==
  /\ k.task \in {"startup", "ready", "ending"} => j.pc = "none"
  /\ k.task = "busy" => j.pc # "none" /\ r.active
  /\ k.task = "none" => j.pc # "returned" /\ (j.pc # "none" => r.cancelled)
  /\ stage = "serving" /\ k.task = "none" => j.pc = "none"
  /\ stage \notin {"serving", "aborting"} => k.task = "none"

\* What a worker is at.
JobOK(j) ==
  /\ j.pc \in {"parse", "next"} \/ j.multi \/ j.left # <<>> => j.msg = "simple"
  /\ j.pc = "next" => j.left # <<>>
  /\ j.pc = "validate" => j.msg = "execute"
  /\ j.pc \notin Taking => j.block = NoBlock
  /\ j.pc = "commit" \/ j.block # NoBlock => j.block.txn.live
  /\ j.block.kind = "implicit" => j.multi
  /\ BlockOK(j.block)

\* Whose the block in the map is.
MapOK(k, j, b, stage) ==
  /\ BlockOK(b)
  /\ j.pc \in Taking \/ k.task = "startup" \/ (stage = "serving" /\ k.task = "none") => b = NoBlock
  /\ b.kind = "implicit" => j.multi /\ b.txn.live /\ j.pc \notin {"none", "parse", "returned", "done"}
  /\ k.task = "startup" => k.status = "idle" /\ k.synced
  /\ k.task = "ready" /\ k.synced =>
       \/ k.status = BlockStatus(b)
       \/ k.status = "transaction" /\ BlockStatus(b) = "error"

\* The block, wherever it is, and the writes that are not decided yet.
Effective(j, b) == IF j.pc \in Taking THEN j.block ELSE b
Writing(j) == IF j.pc = "locked" /\ j.stmt = "write" THEN {j.id} ELSE {}
Open(k, j, b) == k.pending \cup Effective(j, b).txn.staged \cup Writing(j)

\* What the client was promised is what a commit would publish.
WritesOK(k, j, b) ==
  /\ Effective(j, b) = NoBlock => k.pending = {}
  /\ Effective(j, b).txn.live => k.pending \subseteq Effective(j, b).txn.staged
  /\ Writing(j) \cap (k.pending \cup Effective(j, b).txn.staged) = {}

Local(k, j, b, r, stage) ==
  TaskOK(k, j, r, stage) /\ JobOK(j) /\ MapOK(k, j, b, stage) /\ WritesOK(k, j, b)

-----------------------------------------------------------------------------
(* All of them.                                                            *)

Workers == {c \in Conns : Running(c)}

Counted ==
  /\ live_workers = Cardinality(Workers)
  /\ server.stage \in {"closing", "closed", "live_references"} => live_workers = 0

\* The lock is held by the statements that run, and a writer is alone.
Locked ==
  /\ \A c \in lock.readers \cup lock.writer : job[c].pc = "locked"
  /\ \A c \in Conns : job[c].pc = "locked" => c \in IF Exclusive(c) THEN lock.writer ELSE lock.readers
  /\ \A c \in lock.writer : lock.writer = {c} /\ lock.readers = {}

\* A write belongs to one connection until it is published or called failed.
Owned ==
  /\ \A c \in Conns : Open(conn[c], job[c], blocks[c]) \cap (db.published \cup told.failed) = {}
  /\ \A c, d \in Conns : c # d =>
       Open(conn[c], job[c], blocks[c]) \cap Open(conn[d], job[d], blocks[d]) = {}
  /\ \A i \in db.published \cup told.failed : i < db.next
  /\ \A c \in Conns : \A i \in Open(conn[c], job[c], blocks[c]) : i < db.next

Locals == \A c \in Conns : Local(conn[c], job[c], blocks[c], registry[c], server.stage)

WireInv ==
  /\ Types /\ Locals /\ Counted /\ Locked /\ Owned
  /\ AnswersTrue /\ BoundCatalogHolds /\ SlotsAccounted

-----------------------------------------------------------------------------
(* Facts about the records of one connection.                              *)

LEMMA EmptyIsSeq == <<>> \in Seq(Stmts)
OBVIOUS

LEMMA Nothing ==
  /\ NoTxn = [live |-> FALSE, version |-> 0, staged |-> {}]
  /\ ~NoTxn.live /\ NoTxn.staged = {}
  /\ NoBlock.kind = "none" /\ NoBlock.txn = NoTxn /\ ~NoBlock.stale
  /\ NoBlock \in BlockType /\ NoConn \in ConnType /\ NoJob \in JobType /\ NoEntry \in EntryType
  /\ NoJob.pc = "none" /\ NoJob.block = NoBlock /\ NoJob.msg = "none" /\ ~NoJob.multi
  /\ NoJob.left = <<>>
  /\ NoConn.task = "none" /\ NoConn.pending = {} /\ NoConn.status = "idle" /\ NoConn.synced
<1>1. NoBlock \in BlockType
    BY DEF NoBlock, NoTxn, BlockType
<1>2. NoConn \in ConnType
    BY DEF NoConn, NoPortal, ConnType, PortalType, Tasks, Modes, Stmts
<1>3. NoJob \in JobType
    BY <1>1, EmptyIsSeq DEF NoJob, JobType, Pcs, Messages, Stmts
<1>4. NoEntry \in EntryType
    BY DEF NoEntry, EntryType
<1>5. /\ NoTxn = [live |-> FALSE, version |-> 0, staged |-> {}]
      /\ ~NoTxn.live /\ NoTxn.staged = {}
      /\ NoBlock.kind = "none" /\ NoBlock.txn = NoTxn /\ ~NoBlock.stale
    BY DEF NoBlock, NoTxn
<1>6. /\ NoJob.pc = "none" /\ NoJob.block = NoBlock /\ NoJob.msg = "none" /\ ~NoJob.multi
      /\ NoJob.left = <<>>
    BY DEF NoJob
<1>7. NoConn.task = "none" /\ NoConn.pending = {} /\ NoConn.status = "idle" /\ NoConn.synced
    BY DEF NoConn
<1> QED BY <1>1, <1>2, <1>3, <1>4, <1>5, <1>6, <1>7

\* What an aborted block is.
LEMMA AbortedBlock ==
  ASSUME NEW b \in BlockType, b.kind # "none"
  PROVE  /\ Aborted(b) \in BlockType /\ Aborted(b).kind = b.kind /\ Aborted(b).txn = NoTxn
         /\ Aborted(b) # NoBlock /\ BlockOK(Aborted(b)) /\ BlockStatus(Aborted(b)) = "error"
<1>1. Aborted(b).kind = b.kind /\ Aborted(b).txn = NoTxn
    BY DEF BlockType, Aborted
<1>2. NoTxn \in [live : BOOLEAN, version : Nat, staged : SUBSET Nat]
    BY DEF NoTxn
<1>3. Aborted(b) \in BlockType /\ Aborted(b).kind = b.kind /\ Aborted(b).txn = NoTxn
    BY <1>1, <1>2, ZenonT(60) DEF BlockType, Aborted
<1>4. Aborted(b) # NoBlock
    BY <1>3, Nothing
<1> QED BY <1>3, <1>4, Nothing DEF BlockOK, BlockStatus

\* Reaping a block of another connection keeps that connection in order.
Eased(b, e) == e = b \/ (b.kind = "explicit" /\ e = Aborted(b))

LEMMA EasedLocal ==
  ASSUME NEW k, NEW j, NEW b \in BlockType, NEW e, NEW r, NEW stage,
         Local(k, j, b, r, stage), Eased(b, e)
  PROVE  /\ e \in BlockType /\ Local(k, j, e, r, stage) /\ Open(k, j, e) \subseteq Open(k, j, b)
         /\ e # NoBlock <=> b # NoBlock
<1>1. CASE e = b
    BY <1>1
<1>2. CASE b.kind = "explicit" /\ e = Aborted(b)
  <2>1. /\ e \in BlockType /\ e.kind = "explicit" /\ e.txn = NoTxn /\ e # NoBlock /\ b # NoBlock
        /\ BlockOK(e) /\ BlockStatus(e) = "error"
    BY <1>2, AbortedBlock, Nothing, ZenonT(60)
  <2>2. j.pc \notin Taking
    BY <2>1 DEF Local, MapOK
  <2>3. MapOK(k, j, e, stage)
    BY <2>1, <2>2 DEF Local, MapOK, BlockStatus
  <2>4. Effective(j, e) = e /\ Effective(j, b) = b
    BY <2>2 DEF Effective
  <2>5. Open(k, j, e) \subseteq Open(k, j, b)
    BY <2>1, <2>4, Nothing DEF Open
  <2>6. WritesOK(k, j, e)
    BY <2>1, <2>4, Nothing DEF Local, WritesOK
  <2> QED BY <2>1, <2>3, <2>5, <2>6 DEF Local
<1> QED BY <1>1, <1>2 DEF Eased

-----------------------------------------------------------------------------
(* A turn of one connection: its task, worker, block and entry change, and *)
(* blocks of others may be reaped.                                         *)

Turn(c, k, j, b, r) ==
  /\ conn' = [conn EXCEPT ![c] = k] /\ job' = [job EXCEPT ![c] = j]
  /\ registry' = [registry EXCEPT ![c] = r]
  /\ \E bs \in {blocks, reap_idle_blocks} : blocks' = [bs EXCEPT ![c] = b]

Typed(k, j, b, r) == k \in ConnType /\ j \in JobType /\ b \in BlockType /\ r \in EntryType

LEMMA ReapEases ==
  ASSUME Types, NEW c \in Conns
  PROVE  Eased(blocks[c], reap_idle_blocks[c]) /\ DOMAIN reap_idle_blocks = Conns
BY DEF Types, Eased, reap_idle_blocks

LEMMA TurnParts ==
  ASSUME Types, NEW c \in Conns, NEW k, NEW j, NEW b, NEW r, Turn(c, k, j, b, r)
  PROVE  /\ conn'[c] = k /\ job'[c] = j /\ blocks'[c] = b /\ registry'[c] = r
         /\ \A d \in Conns \ {c} :
              /\ conn'[d] = conn[d] /\ job'[d] = job[d] /\ registry'[d] = registry[d]
              /\ Eased(blocks[d], blocks'[d])
         /\ DOMAIN conn' = Conns /\ DOMAIN job' = Conns /\ DOMAIN blocks' = Conns
         /\ DOMAIN registry' = Conns
<1>1. PICK bs \in {blocks, reap_idle_blocks} : blocks' = [bs EXCEPT ![c] = b]
    BY ZenonT(60) DEF Turn
<1>2. DOMAIN bs = Conns /\ \A d \in Conns : Eased(blocks[d], bs[d])
    BY ReapEases DEF Types, Eased
<1>3. blocks'[c] = b /\ DOMAIN blocks' = Conns /\ \A d \in Conns \ {c} : blocks'[d] = bs[d]
    BY <1>1, <1>2
<1>4. /\ conn'[c] = k /\ job'[c] = j /\ registry'[c] = r
      /\ \A d \in Conns \ {c} : conn'[d] = conn[d] /\ job'[d] = job[d] /\ registry'[d] = registry[d]
      /\ DOMAIN conn' = Conns /\ DOMAIN job' = Conns /\ DOMAIN registry' = Conns
    BY DEF Turn, Types
<1> QED BY <1>2, <1>3, <1>4

LEMMA JobsMove ==
  ASSUME Types, NEW c \in Conns, NEW k, NEW j, NEW b, NEW r, Turn(c, k, j, b, r)
  PROVE  job'[c] = j /\ \A d \in Conns \ {c} : job'[d] = job[d]
BY DEF Turn, Types

\* Everyone else keeps in order when the one whose turn it is does.
LEMMA TurnLocals ==
  ASSUME Types, Locals, NEW c \in Conns, NEW k, NEW j, NEW b, NEW r, Turn(c, k, j, b, r),
         Typed(k, j, b, r), server'.stage = server.stage, Local(k, j, b, r, server.stage)
  PROVE  /\ Locals'
         /\ conn' \in [Conns -> ConnType] /\ job' \in [Conns -> JobType]
         /\ blocks' \in [Conns -> BlockType] /\ registry' \in [Conns -> EntryType]
         /\ \A d \in Conns \ {c} :
              Open(conn'[d], job'[d], blocks'[d]) \subseteq Open(conn[d], job[d], blocks[d])
<1>1. ASSUME NEW d \in Conns \ {c}
      PROVE  /\ conn'[d] = conn[d] /\ job'[d] = job[d] /\ registry'[d] = registry[d]
             /\ blocks'[d] \in BlockType
             /\ Local(conn[d], job[d], blocks'[d], registry[d], server.stage)
             /\ Open(conn[d], job[d], blocks'[d]) \subseteq Open(conn[d], job[d], blocks[d])
  <2>1. Eased(blocks[d], blocks'[d]) /\ blocks[d] \in BlockType
    BY TurnParts, ZenonT(60) DEF Types
  <2>2. Local(conn[d], job[d], blocks[d], registry[d], server.stage)
    BY DEF Locals
  <2>3. /\ blocks'[d] \in BlockType
        /\ Local(conn[d], job[d], blocks'[d], registry[d], server.stage)
        /\ Open(conn[d], job[d], blocks'[d]) \subseteq Open(conn[d], job[d], blocks[d])
    BY <2>1, <2>2, EasedLocal, ZenonT(60)
  <2> QED BY <2>3, TurnParts, ZenonT(60)
<1>2. Locals'
  <2> SUFFICES ASSUME NEW d \in Conns
               PROVE  Local(conn'[d], job'[d], blocks'[d], registry'[d], server'.stage)
    BY DEF Locals
  <2>1. CASE d = c
    BY <2>1, TurnParts
  <2>2. CASE d # c
    BY <2>2, <1>1
  <2> QED BY <2>1, <2>2
<1>3. conn' \in [Conns -> ConnType] /\ job' \in [Conns -> JobType] /\ registry' \in [Conns -> EntryType]
    BY DEF Types, Turn, Typed
<1>4. blocks' \in [Conns -> BlockType]
  <2>1. PICK bs \in {blocks, reap_idle_blocks} : blocks' = [bs EXCEPT ![c] = b]
    BY ZenonT(60) DEF Turn
  <2>2. bs = [d \in Conns |-> bs[d]]
    BY DEF Types, reap_idle_blocks
  <2>3. \A d \in Conns : blocks'[d] \in BlockType
    BY <1>1, TurnParts DEF Typed
  <2> QED BY <2>1, <2>2, <2>3
<1> QED BY <1>1, <1>2, <1>3, <1>4, ZenonT(60)
-----------------------------------------------------------------------------
(* What ties connections together, over a turn of one of them.             *)

Idle == {"none", "returned"}

LEMMA WorkersStay ==
  ASSUME Types, Counted, NEW c \in Conns, NEW k, NEW j, NEW b, NEW r, Turn(c, k, j, b, r),
         j.pc \in Idle <=> job[c].pc \in Idle, live_workers' = live_workers,
         server'.stage = server.stage
  PROVE  Counted'
<1>1. \A d \in Conns : Running(d)' <=> Running(d)
    BY TurnParts DEF Running, Idle
<1>2. Workers' = Workers
    BY <1>1 DEF Workers
<1> QED BY <1>2 DEF Counted

LEMMA WorkerStarts ==
  ASSUME Premises, Types, Counted, NEW c \in Conns, NEW k, NEW j, NEW b, NEW r, Turn(c, k, j, b, r),
         j.pc \notin Idle, job[c].pc \in Idle, live_workers' = live_workers + 1,
         server'.stage = server.stage, server.stage \in {"serving", "aborting"}
  PROVE  Counted'
<1>1. \A d \in Conns : Running(d)' <=> Running(d) \/ d = c
    BY TurnParts DEF Running, Idle
<1>2. Workers' = Workers \cup {c} /\ c \notin Workers
    BY <1>1 DEF Workers, Running, Idle
<1>3. IsFiniteSet(Workers)
    BY FiniteSubset DEF Premises, Setting, Workers
<1>4. Cardinality(Workers \cup {c}) = Cardinality(Workers) + 1
    BY <1>2, <1>3, FiniteAddElement, ZenonT(60)
<1> QED BY <1>2, <1>4 DEF Counted

LEMMA WorkerEnds ==
  ASSUME Premises, Types, Counted, NEW c \in Conns, NEW k, NEW j, NEW b, NEW r, Turn(c, k, j, b, r),
         j.pc \in Idle, job[c].pc \notin Idle, live_workers' = live_workers - 1,
         server'.stage = server.stage
  PROVE  Counted'
<1>1. \A d \in Conns : Running(d)' <=> Running(d) /\ d # c
    BY TurnParts DEF Running, Idle
<1>2. Workers' = Workers \ {c} /\ c \in Workers
    BY <1>1 DEF Workers, Running, Idle
<1>3. IsFiniteSet(Workers)
    BY FiniteSubset DEF Premises, Setting, Workers
<1>4. Cardinality(Workers \ {c}) = Cardinality(Workers) - 1
    BY <1>2, <1>3, FiniteRemoveElement, ZenonT(60)
<1>5. live_workers # 0
    BY <1>2, <1>3, FiniteEmptySet DEF Counted
<1> QED BY <1>2, <1>4, <1>5 DEF Counted

\* The worker neither takes the lock nor has it, or nothing happens to it.
Lockless(c, j) == j = job[c] \/ (job[c].pc # "locked" /\ j.pc # "locked")

LEMMA LockStays ==
  ASSUME Types, Locked, NEW c \in Conns, NEW k, NEW j, NEW b, NEW r, Turn(c, k, j, b, r),
         Lockless(c, j), lock' = lock
  PROVE  Locked'
<1>1. c \notin lock.readers \cup lock.writer \/ j = job[c]
    BY DEF Locked, Lockless
<1>2. \A d \in Conns : job'[d].pc = "locked" => job'[d] = job[d]
    BY TurnParts, SMTT(60) DEF Lockless
<1>3. \A d \in lock.readers \cup lock.writer : d \in Conns /\ job'[d] = job[d]
    BY <1>1, TurnParts, SMTT(60) DEF Types, LockType
<1> QED BY <1>2, <1>3 DEF Locked, Exclusive

LEMMA CatalogStays ==
  ASSUME Types, BoundCatalogHolds, NEW c \in Conns, NEW k, NEW j, NEW b, NEW r, Turn(c, k, j, b, r),
         j = job[c] \/ j.pc # "locked", db'.version = db.version
  PROVE  BoundCatalogHolds'
<1>1. \A d \in Conns : job'[d].pc = "locked" => job'[d] = job[d]
    BY TurnParts, SMTT(60)
<1> QED BY <1>1, SMTT(60) DEF BoundCatalogHolds, Stale

LEMMA SlotsStay ==
  ASSUME Types, SlotsAccounted, NEW c \in Conns, NEW k, NEW j, NEW b, NEW r, Turn(c, k, j, b, r),
         k.task = "none" <=> conn[c].task = "none",
         plan' = plan, server'.stage = server.stage, server'.active = server.active
  PROVE  SlotsAccounted'
<1>1. Taken' = Taken
    BY TurnParts, SMTT(60) DEF Taken
<1> QED BY <1>1, SMTT(60) DEF SlotsAccounted, Serving

\* The open writes of a connection go from o to e: published are p, called failed
\* f, told as committed m, and new is n.
Moves(o, e, p, f, m, n) ==
  /\ db'.published = db.published \cup p
  /\ told'.failed = told.failed \cup f /\ told'.committed = told.committed \cup m
  /\ p \cup f \subseteq o /\ p \cap f = {} /\ m \subseteq p
  /\ e \subseteq o \cup n /\ e \cap (p \cup f) = {}
  /\ n \subseteq {db.next} /\ db'.next = IF n = {} THEN db.next ELSE db.next + 1

LEMMA WritesAreNumbers ==
  ASSUME Types, NEW c \in Conns
  PROVE  Open(conn[c], job[c], blocks[c]) \subseteq Nat
<1>1. conn[c] \in ConnType /\ job[c] \in JobType /\ blocks[c] \in BlockType
    BY DEF Types
<1>2. conn[c].pending \subseteq Nat
    BY <1>1 DEF ConnType
<1>3. Effective(job[c], blocks[c]) \in BlockType
    BY <1>1 DEF Effective, JobType
<1>4. Effective(job[c], blocks[c]).txn.staged \subseteq Nat
    BY <1>3 DEF BlockType
<1>5. Writing(job[c]) \subseteq Nat
    BY <1>1 DEF Writing, JobType
<1> QED BY <1>2, <1>4, <1>5 DEF Open

LEMMA WritesMove ==
  ASSUME Types, Owned, AnswersTrue,
         NEW c \in Conns, NEW k, NEW j, NEW b, NEW r, Turn(c, k, j, b, r),
         \A d \in Conns \ {c} :
           Open(conn'[d], job'[d], blocks'[d]) \subseteq Open(conn[d], job[d], blocks[d]),
         NEW p, NEW f, NEW m, NEW n,
         Moves(Open(conn[c], job[c], blocks[c]), Open(k, j, b), p, f, m, n)
  PROVE  Owned' /\ AnswersTrue'
<1> DEFINE O(d) == Open(conn[d], job[d], blocks[d])
           E(d) == Open(conn'[d], job'[d], blocks'[d])
<1>1. E(c) = Open(k, j, b)
    BY TurnParts, SMTT(60)
<1>2. /\ \A d \in Conns \ {c} : E(d) \subseteq O(d)
      /\ E(c) \subseteq O(c) \cup n /\ E(c) \cap (p \cup f) = {} /\ n \subseteq {db.next}
      /\ p \cup f \subseteq O(c) /\ p \cap f = {} /\ m \subseteq p
    BY <1>1, ZenonT(60) DEF Moves
<1>3. /\ db'.published = db.published \cup p
      /\ told'.failed = told.failed \cup f /\ told'.committed = told.committed \cup m
      /\ db'.next = IF n = {} THEN db.next ELSE db.next + 1
    BY SMTT(60) DEF Moves
<1>4. /\ \A d \in Conns : O(d) \cap (db.published \cup told.failed) = {}
      /\ \A d, e \in Conns : d # e => O(d) \cap O(e) = {}
      /\ \A i \in db.published \cup told.failed : i < db.next
      /\ \A d \in Conns : \A i \in O(d) : i < db.next
    BY ZenonT(60) DEF Owned
<1>5. db.next \in Nat
    BY ZenonT(60) DEF Types, DbType
<1> HIDE DEF O, E
<1>6. \A d \in Conns : db.next \notin O(d)
    BY <1>4, <1>5, SMTT(60)
<1>7. db.next \notin db.published \cup told.failed
    BY <1>4, <1>5, SMTT(60)
<1>8. \A d \in Conns : E(d) \cap (db'.published \cup told'.failed) = {}
  <2>1. E(c) \cap (db'.published \cup told'.failed) = {}
    BY <1>2, <1>3, <1>4, <1>7, SMTT(60)
  <2>2. ASSUME NEW d \in Conns \ {c} PROVE E(d) \cap (db'.published \cup told'.failed) = {}
    <3>1. O(d) \cap O(c) = {} /\ O(d) \cap (db.published \cup told.failed) = {}
      BY <1>4, SMTT(60)
    <3> QED BY <3>1, <1>2, <1>3, ZenonT(60)
  <2> QED BY <2>1, <2>2, SMTT(60)
<1>9. \A d, e \in Conns : d # e => E(d) \cap E(e) = {}
    BY <1>2, <1>4, <1>6, SMTT(60)
<1>10. \A i \in db'.published \cup told'.failed : i < db.next
    BY <1>2, <1>3, <1>4, ZenonT(60)
<1>11. \A d \in Conns : \A i \in E(d) : i < db.next \/ (i = db.next /\ n # {})
    BY <1>2, <1>4, ZenonT(60)
<1>12. \A d \in Conns : E(d) \subseteq Nat
  <2>1. \A d \in Conns : \A i \in O(d) : i \in Nat
    BY WritesAreNumbers DEF O
  <2> QED BY <2>1, <1>2, <1>5, SMTT(60)
<1>13. \A i \in db'.published \cup told'.failed : i \in Nat
  <2>1. \A d \in Conns : \A i \in O(d) : i \in Nat
    BY WritesAreNumbers, ZenonT(60) DEF O
  <2> QED BY <2>1, <1>2, <1>3, ZenonT(60) DEF Types, DbType, ToldType
<1>14. Owned'
  <2>1. \A i \in db'.published \cup told'.failed : i < db'.next
    BY <1>10, <1>13, <1>3, <1>5, SMTT(60)
  <2>2. \A d \in Conns : \A i \in E(d) : i < db'.next
    BY <1>11, <1>12, <1>3, <1>5, SMTT(60)
  <2> QED BY <2>1, <2>2, <1>8, <1>9, ZenonT(60) DEF Owned, E
<1>15. AnswersTrue'
    BY <1>2, <1>3, <1>4, ZenonT(60) DEF AnswersTrue
<1> QED BY <1>14, <1>15, SMTT(60)
-----------------------------------------------------------------------------
(* The turn of a worker.                                                   *)

\* Neither the count of workers nor a slot is touched.
WorkerTurn(c, k, j, b) ==
  /\ Turn(c, k, j, b, registry[c]) /\ Typed(k, j, b, registry[c])
  /\ Local(k, j, b, registry[c], server.stage)
  /\ k.task = conn[c].task /\ job[c].pc \notin Idle /\ j.pc \notin Idle
  /\ UNCHANGED <<plan, live_workers, server>>

LEMMA WorkerTurns ==
  ASSUME WireInv, NEW c \in Conns, NEW k, NEW j, NEW b, WorkerTurn(c, k, j, b),
         lock' \in LockType, db' \in DbType, told' \in ToldType,
         NEW p, NEW f, NEW m, NEW n,
         Moves(Open(conn[c], job[c], blocks[c]), Open(k, j, b), p, f, m, n)
  PROVE  Types' /\ Locals' /\ Counted' /\ Owned' /\ AnswersTrue' /\ SlotsAccounted'
<1>1. /\ Types /\ Locals /\ Counted /\ Owned /\ AnswersTrue /\ SlotsAccounted
      /\ Turn(c, k, j, b, registry[c]) /\ Typed(k, j, b, registry[c])
      /\ Local(k, j, b, registry[c], server.stage)
      /\ k.task = conn[c].task /\ job[c].pc \notin Idle /\ j.pc \notin Idle
      /\ plan' = plan /\ live_workers' = live_workers /\ server' = server
    BY ZenonT(60) DEF WireInv, WorkerTurn
<1>2. server'.stage = server.stage /\ server'.active = server.active
    BY <1>1, ZenonT(60)
<1>3. /\ Locals'
      /\ conn' \in [Conns -> ConnType] /\ job' \in [Conns -> JobType]
      /\ blocks' \in [Conns -> BlockType] /\ registry' \in [Conns -> EntryType]
      /\ \A d \in Conns \ {c} :
           Open(conn'[d], job'[d], blocks'[d]) \subseteq Open(conn[d], job[d], blocks[d])
    BY <1>1, <1>2, TurnLocals, ZenonT(60)
<1>4. Types'
    BY <1>1, <1>3, ZenonT(60) DEF Types
<1>5. Counted'
    BY <1>1, <1>2, WorkersStay, ZenonT(60)
<1>6. SlotsAccounted'
    BY <1>1, <1>2, SlotsStay, ZenonT(60)
<1>7. Owned' /\ AnswersTrue'
    BY <1>1, <1>3, WritesMove, ZenonT(60)
<1> QED BY <1>3, <1>4, <1>5, <1>6, <1>7, SMTT(60)

\* A turn without the database lock.
LEMMA LocklessTurns ==
  ASSUME WireInv, NEW c \in Conns, NEW k, NEW j, NEW b, WorkerTurn(c, k, j, b),
         job[c].pc # "locked", j.pc # "locked", lock' = lock,
         db' \in DbType, told' \in ToldType, db'.version = db.version,
         NEW p, NEW f, NEW m, NEW n,
         Moves(Open(conn[c], job[c], blocks[c]), Open(k, j, b), p, f, m, n)
  PROVE  WireInv'
<1>1. Types /\ Locked /\ BoundCatalogHolds /\ Turn(c, k, j, b, registry[c])
    BY ZenonT(60) DEF WireInv, WorkerTurn
<1>2. lock' \in LockType
    BY <1>1, SMTT(60) DEF Types
<1>3. Types' /\ Locals' /\ Counted' /\ Owned' /\ AnswersTrue' /\ SlotsAccounted'
    BY <1>2, WorkerTurns, ZenonT(60)
<1>4. Locked'
    BY <1>1, LockStays, SMTT(60) DEF Lockless
<1>5. BoundCatalogHolds'
    BY <1>1, CatalogStays, ZenonT(60)
<1> QED BY <1>3, <1>4, <1>5, ZenonT(60) DEF WireInv

\* Nothing is decided and nothing is new.
LEMMA QuietTurns ==
  ASSUME WireInv, NEW c \in Conns, NEW k, NEW j, NEW b, WorkerTurn(c, k, j, b),
         job[c].pc # "locked", j.pc # "locked", UNCHANGED <<lock, db, told>>,
         Open(k, j, b) \subseteq Open(conn[c], job[c], blocks[c])
  PROVE  WireInv'
<1>1. Moves(Open(conn[c], job[c], blocks[c]), Open(k, j, b), {}, {}, {}, {})
    BY ZenonT(60) DEF Moves
<1>2. db' \in DbType /\ told' \in ToldType /\ db'.version = db.version /\ lock' = lock
    BY SMTT(60) DEF WireInv, Types
<1> QED BY <1>1, <1>2, LocklessTurns, ZenonT(60)

-----------------------------------------------------------------------------
(* An error.                                                               *)

FailedJob(j) == [j EXCEPT !.pc = "done", !.failed = TRUE, !.block = NoBlock]
FailedTask(k) == [k EXCEPT !.pending = {}]
FailedBlock(j, b) ==
  IF b = NoBlock \/ (j.msg = "simple" /\ b.kind = "implicit") THEN NoBlock ELSE Aborted(b)

LEMMA FailureLocal ==
  ASSUME NEW k, NEW j, NEW b, NEW m, NEW r, NEW stage, Typed(k, j, b, r), m \in BlockType,
         Local(k, j, m, r, stage), j.pc \notin Idle,
         BlockOK(b), b.kind = "implicit" => j.multi
  PROVE  /\ Typed(FailedTask(k), FailedJob(j), FailedBlock(j, b), r)
         /\ Local(FailedTask(k), FailedJob(j), FailedBlock(j, b), r, stage)
         /\ Open(FailedTask(k), FailedJob(j), FailedBlock(j, b)) = {}
         /\ FailedTask(k).task = k.task /\ FailedJob(j).pc = "done"
<1> DEFINE k2 == FailedTask(k)  j2 == FailedJob(j)  b2 == FailedBlock(j, b)
<1>1. /\ k2 \in ConnType /\ k2.task = k.task /\ k2.pending = {}
    BY DEF Typed, ConnType, FailedTask
<1>2. /\ j2.pc = "done" /\ j2.msg = j.msg /\ j2.multi = j.multi /\ j2.left = j.left
      /\ j2.block = NoBlock
    BY DEF Typed, JobType, FailedJob
<1>3. j2 \in JobType
    BY Nothing, ZenonT(60) DEF Typed, JobType, FailedJob, Pcs
<1>4. /\ b2 \in BlockType /\ BlockOK(b2) /\ b2.kind # "implicit" /\ b2.txn = NoTxn
  <2>1. CASE b2 = NoBlock
    BY <2>1, Nothing, ZenonT(60) DEF BlockOK
  <2>2. CASE b2 # NoBlock
    <3>1. b2 = Aborted(b) /\ b # NoBlock /\ ~(j.msg = "simple" /\ b.kind = "implicit")
      BY <2>2, ZenonT(60) DEF FailedBlock
    <3>2. b.kind # "none" /\ b.kind # "implicit"
      BY <3>1, ZenonT(60) DEF BlockOK, Local, JobOK
    <3> QED BY <3>1, <3>2, AbortedBlock, SMTT(60) DEF Typed
  <2> QED BY <2>1, <2>2
<1> HIDE DEF k2, j2, b2
<1>5. TaskOK(k2, j2, r, stage)
    BY <1>1, <1>2, ZenonT(60) DEF Local, TaskOK, Idle
<1>6. JobOK(j2)
    BY <1>2, Nothing, ZenonT(60) DEF Local, JobOK, BlockOK, Taking
<1>7. k.task \notin {"startup", "ready"} /\ (k.task = "none" => stage # "serving")
    BY SMTT(60) DEF Local, TaskOK, Idle
<1>8. MapOK(k2, j2, b2, stage)
    BY <1>1, <1>2, <1>4, <1>7, ZenonT(60) DEF MapOK, Taking
<1>9. Effective(j2, b2).txn = NoTxn /\ Writing(j2) = {}
    BY <1>2, <1>4, ZenonT(60) DEF Effective, Writing, Taking
<1>10. WritesOK(k2, j2, b2) /\ Open(k2, j2, b2) = {}
    BY <1>1, <1>9, Nothing, ZenonT(60) DEF WritesOK, Open
<1> QED BY <1>1, <1>2, <1>3, <1>4, <1>5, <1>6, <1>8, <1>10, ZenonT(60) DEF Local, Typed, k2, j2, b2
\* What every early return of a worker is.
FailsAs(c, b, lost) ==
  LET k == FailedTask(conn[c])  j == FailedJob(job[c])  e == FailedBlock(job[c], b) IN
  /\ WorkerTurn(c, k, j, e) /\ j.pc = "done" /\ Open(k, j, e) = {}
  /\ told' \in ToldType /\ told'.committed = told.committed
  /\ told'.failed = told.failed \cup (lost \cup conn[c].pending)
  /\ lost \cup conn[c].pending \subseteq Open(conn[c], job[c], blocks[c])

LEMMA Failures ==
  ASSUME WireInv, NEW c \in Conns, NEW bs \in {blocks, reap_idle_blocks}, NEW b, NEW lost,
         Fail(c, bs, b, lost), b \in BlockType, BlockOK(b), b.kind = "implicit" => job[c].multi,
         job[c].pc \notin Idle, lost \subseteq Writing(job[c]),
         UNCHANGED <<plan, registry, live_workers, server>>
  PROVE  FailsAs(c, b, lost)
<1> DEFINE k == conn[c]  j == job[c]  m == blocks[c]  r == registry[c]
<1>1. /\ conn \in [Conns -> ConnType] /\ job \in [Conns -> JobType] /\ told \in ToldType
      /\ registry \in [Conns -> EntryType]
      /\ Typed(k, j, b, r) /\ m \in BlockType /\ Local(k, j, m, r, server.stage)
    BY ZenonT(60) DEF WireInv, Types, Locals, Typed
<1>2. /\ Typed(FailedTask(k), FailedJob(j), FailedBlock(j, b), r)
      /\ Local(FailedTask(k), FailedJob(j), FailedBlock(j, b), r, server.stage)
      /\ Open(FailedTask(k), FailedJob(j), FailedBlock(j, b)) = {}
      /\ FailedTask(k).task = k.task /\ FailedJob(j).pc = "done"
  <2> HIDE DEF k, j, m, r
  <2> QED BY <1>1, FailureLocal, ZenonT(60) DEF j
<1>3. Turn(c, FailedTask(k), FailedJob(j), FailedBlock(j, b), r)
  <2>1. conn' = [conn EXCEPT ![c] = FailedTask(k)] /\ job' = [job EXCEPT ![c] = FailedJob(j)]
    BY <1>1, ZenonT(60) DEF Fail, FailedTask, FailedJob
  <2>2. blocks' = [bs EXCEPT ![c] = FailedBlock(j, b)]
    BY DEF Fail, FailedBlock, fail_simple_query
  <2>3. registry' = [registry EXCEPT ![c] = r]
    BY <1>1, ZenonT(60)
  <2> QED BY <2>1, <2>2, <2>3, ZenonT(60) DEF Turn
<1>4. WorkerTurn(c, FailedTask(k), FailedJob(j), FailedBlock(j, b))
    BY <1>2, <1>3, ZenonT(60) DEF WorkerTurn, Idle
<1>5. lost \cup k.pending \subseteq Open(k, j, m)
    BY ZenonT(60) DEF Open
<1>6. /\ told'.committed = told.committed
      /\ told'.failed = told.failed \cup (lost \cup k.pending)
    BY <1>1, SMTT(60) DEF Fail, ToldType
<1>7. told' \in ToldType
  <2>1. lost \cup k.pending \subseteq Nat
    BY <1>1, ZenonT(60) DEF Typed, ConnType, JobType, Writing
  <2> QED BY <2>1, <1>1, SMTT(60) DEF Fail, ToldType
<1> QED BY <1>2, <1>4, <1>5, <1>6, <1>7, ZenonT(60) DEF FailsAs

LEMMA FailureKeeps ==
  ASSUME WireInv, NEW c \in Conns, NEW b, NEW lost, FailsAs(c, b, lost), job[c].pc # "locked",
         UNCHANGED <<lock, db>>
  PROVE  WireInv'
<1> DEFINE k == FailedTask(conn[c])  j == FailedJob(job[c])  e == FailedBlock(job[c], b)
           o == Open(conn[c], job[c], blocks[c])
<1>1. WorkerTurn(c, k, j, e) /\ j.pc # "locked" /\ told' \in ToldType
    BY ZenonT(60) DEF FailsAs
<1>2. Moves(o, Open(k, j, e), {}, lost \cup conn[c].pending, {}, {})
  <2>1. /\ Open(k, j, e) = {} /\ told'.committed = told.committed
        /\ told'.failed = told.failed \cup (lost \cup conn[c].pending)
        /\ lost \cup conn[c].pending \subseteq o
    BY ZenonT(60) DEF FailsAs
  <2> HIDE DEF k, j, e, o
  <2> QED BY <2>1, ZenonT(60) DEF Moves
<1>3. db' \in DbType /\ db'.version = db.version /\ lock' = lock
    BY SMTT(60) DEF WireInv, Types
<1> QED
  <2> HIDE DEF k, j, e
  <2> QED BY <1>1, <1>2, <1>3, LocklessTurns, ZenonT(60)

\* What the invariant says of the connection whose turn it is.
LEMMA Mine ==
  ASSUME WireInv, NEW c \in Conns
  PROVE  /\ Typed(conn[c], job[c], blocks[c], registry[c])
         /\ Local(conn[c], job[c], blocks[c], registry[c], server.stage)
         /\ reap_idle_blocks[c] \in BlockType
         /\ Local(conn[c], job[c], reap_idle_blocks[c], registry[c], server.stage)
         /\ Open(conn[c], job[c], reap_idle_blocks[c]) \subseteq Open(conn[c], job[c], blocks[c])
<1>1. /\ Typed(conn[c], job[c], blocks[c], registry[c])
      /\ Local(conn[c], job[c], blocks[c], registry[c], server.stage)
    BY SMTT(60) DEF WireInv, Types, Locals, Typed
<1>2. Eased(blocks[c], reap_idle_blocks[c])
    BY ReapEases, SMTT(60) DEF WireInv
<1> QED BY <1>1, <1>2, EasedLocal, ZenonT(60) DEF Typed

\* An error of a worker that has its block in the map.
LEMMA MapFailure ==
  ASSUME WireInv, NEW c \in Conns, NEW bs \in {blocks, reap_idle_blocks}, Fail(c, bs, bs[c], {}),
         job[c].pc \notin Idle \cup {"locked"}, UNCHANGED <<plan, registry, live_workers, server, lock, db>>
  PROVE  WireInv'
<1>1. /\ bs[c] \in BlockType /\ Local(conn[c], job[c], bs[c], registry[c], server.stage)
    BY Mine, ZenonT(60) DEF Typed
<1>2. BlockOK(bs[c]) /\ (bs[c].kind = "implicit" => job[c].multi)
    BY <1>1, ZenonT(60) DEF Local, MapOK
<1>3. FailsAs(c, bs[c], {})
    BY <1>1, <1>2, Failures, ZenonT(60)
<1> QED BY <1>3, FailureKeeps, SMTT(60)
-----------------------------------------------------------------------------
(* The steps of a worker.                                                  *)

\* A worker at work keeps its connection in order if its own records are.
LEMMA AtWork ==
  ASSUME NEW k, NEW j, NEW b, NEW r, NEW stage, Local(k, j, b, r, stage),
         NEW l, NEW i, NEW e, l.task = k.task, j.pc \notin Idle, i.pc \notin Idle,
         JobOK(i), BlockOK(e), e.kind = "implicit" => i.multi /\ e.txn.live /\ i.pc \notin {"parse", "done"},
         i.pc \in Taking => e = NoBlock, WritesOK(l, i, e)
  PROVE  Local(l, i, e, r, stage)
<1>1. k.task \notin {"startup", "ready", "ending"} /\ (k.task = "none" => stage # "serving")
    BY SMTT(60) DEF Local, TaskOK, Idle
<1>2. TaskOK(l, i, r, stage)
    BY <1>1, SMTT(60) DEF Local, TaskOK, Idle
<1>3. MapOK(l, i, e, stage)
    BY <1>1, SMTT(60) DEF MapOK, Idle
<1> QED BY <1>2, <1>3, SMTT(60) DEF Local

\* It goes on, with its block in the map.
LEMMA GoesOn ==
  ASSUME WireInv, NEW c \in Conns, NEW bs \in {blocks, reap_idle_blocks}, blocks' = bs,
         NEW i \in JobType, job' = [job EXCEPT ![c] = i],
         job[c].pc \notin Idle \cup Taking, i.pc \notin Idle \cup Taking,
         JobOK(i), i.multi = job[c].multi, i.pc \in {"parse", "done"} => bs[c].kind # "implicit",
         UNCHANGED <<plan, conn, registry, live_workers, lock, db, server, told>>
  PROVE  WireInv'
<1>1. /\ bs[c] \in BlockType /\ Local(conn[c], job[c], bs[c], registry[c], server.stage)
      /\ Open(conn[c], job[c], bs[c]) \subseteq Open(conn[c], job[c], blocks[c])
      /\ Typed(conn[c], job[c], blocks[c], registry[c])
    BY Mine, ZenonT(60) DEF Typed
<1>2. /\ Effective(i, bs[c]) = bs[c] /\ Effective(job[c], bs[c]) = bs[c]
      /\ Writing(i) = {} /\ Writing(job[c]) = {}
    BY SMTT(60) DEF Effective, Writing, Taking
<1>3. WritesOK(conn[c], i, bs[c]) /\ Open(conn[c], i, bs[c]) = Open(conn[c], job[c], bs[c])
    BY <1>1, <1>2, ZenonT(60) DEF Local, WritesOK, Open
<1>4. BlockOK(bs[c]) /\ (bs[c].kind = "implicit" => i.multi /\ bs[c].txn.live /\ i.pc \notin {"parse", "done"})
    BY <1>1, ZenonT(60) DEF Local, MapOK
<1>5. Local(conn[c], i, bs[c], registry[c], server.stage)
    BY <1>1, <1>3, <1>4, AtWork, ZenonT(60)
<1>6. Turn(c, conn[c], i, bs[c], registry[c])
  <2>1. conn' = [conn EXCEPT ![c] = conn[c]] /\ registry' = [registry EXCEPT ![c] = registry[c]]
    BY DEF WireInv, Types
  <2>2. blocks' = [bs EXCEPT ![c] = bs[c]]
    BY SMTT(60) DEF WireInv, Types, reap_idle_blocks
  <2> QED BY <2>1, <2>2, ZenonT(60) DEF Turn
<1>7. WorkerTurn(c, conn[c], i, bs[c])
    BY <1>1, <1>5, <1>6, ZenonT(60) DEF WorkerTurn, Typed
<1>8. job[c].pc # "locked" /\ i.pc # "locked"
    BY ZenonT(60) DEF Taking
<1>9. Open(conn[c], i, bs[c]) \subseteq Open(conn[c], job[c], blocks[c])
    BY <1>1, <1>3, ZenonT(60)
<1> QED BY <1>7, <1>8, <1>9, QuietTurns, ZenonT(60)

LEMMA ParseStep ==
  ASSUME WireInv, NEW c \in Conns, parse_message(c)
  PROVE  WireInv'
<1>1. job[c].pc = "parse" /\ UNCHANGED <<plan, registry, live_workers, server, lock, db>>
    BY ZenonT(60) DEF parse_message, WorkerKeeps
<1>2. CASE Fail(c, blocks, blocks[c], {})
    BY <1>1, <1>2, MapFailure, SMTT(60) DEF Idle
<1>3. CASE Go(c, NextPc(c)) /\ UNCHANGED blocks
  <2> DEFINE j == job[c]  i == [job[c] EXCEPT !.pc = NextPc(c)]
  <2>1. Typed(conn[c], j, blocks[c], registry[c]) /\ Local(conn[c], j, blocks[c], registry[c], server.stage)
    BY Mine, ZenonT(60)
  <2>2. /\ i \in JobType /\ i.pc = NextPc(c) /\ i.msg = j.msg /\ i.left = j.left /\ i.multi = j.multi
        /\ i.block = j.block
    BY <2>1, ZenonT(60) DEF Typed, JobType, NextPc, Pcs
  <2>3. job' = [job EXCEPT ![c] = i] /\ UNCHANGED <<conn, told>>
    BY <1>3, SMTT(60) DEF Go, WireInv, Types
  <2>4. blocks[c].kind # "implicit"
    BY <1>1, <2>1, ZenonT(60) DEF Local, MapOK
  <2>5. JobOK(i)
    BY <1>1, <2>1, <2>2, SMTT(60) DEF Local, JobOK, NextPc, Taking
  <2>6. i.pc \notin Idle \cup Taking /\ j.pc \notin Idle \cup Taking
    BY <1>1, <2>2, SMTT(60) DEF NextPc, Idle, Taking
  <2> HIDE DEF i
  <2> QED BY <1>1, <1>3, <2>2, <2>3, <2>4, <2>5, <2>6, GoesOn, ZenonT(60)
<1> QED BY <1>2, <1>3, ZenonT(60) DEF parse_message
LEMMA NextStep ==
  ASSUME WireInv, NEW c \in Conns, next_statement(c)
  PROVE  WireInv'
<1> DEFINE k == conn[c]  j == job[c]  b == blocks[c]  r == registry[c]
           opens == j.multi /\ b = NoBlock
           i == [job[c] EXCEPT !.pc = "bind", !.stmt = Head(j.left), !.left = Tail(j.left)]
<1>1. j.pc = "next" /\ UNCHANGED <<plan, registry, live_workers, server, lock, db>>
    BY ZenonT(60) DEF next_statement, WorkerKeeps
<1>2. Typed(k, j, b, r) /\ Local(k, j, b, r, server.stage)
    BY Mine, ZenonT(60)
<1>3. CASE opens /\ Fail(c, blocks, NoBlock, {})
  <2>1. Fail(c, blocks, blocks[c], {})
    BY <1>3, SMTT(60)
  <2> QED BY <1>1, <2>1, MapFailure, SMTT(60) DEF Idle
<1>4. /\ i \in JobType /\ i.pc = "bind" /\ i.msg = j.msg /\ i.multi = j.multi /\ i.block = j.block
  <2>1. j.left \in Seq(Stmts) /\ j.left # <<>>
    BY <1>1, <1>2, ZenonT(60) DEF Typed, JobType, Local, JobOK
  <2>2. Head(j.left) \in Stmts /\ Tail(j.left) \in Seq(Stmts)
    BY <2>1, SMTT(60)
  <2> QED BY <1>2, <2>2, ZenonT(60) DEF Typed, JobType, Pcs
<1>5. JobOK(i)
    BY <1>1, <1>2, <1>4, ZenonT(60) DEF Local, JobOK, Taking
<1>6. CASE ~opens /\ blocks' = blocks /\ job' = [job EXCEPT ![c] = i] /\ UNCHANGED <<conn, told>>
  <2>1. i.pc \notin Idle \cup Taking /\ j.pc \notin Idle \cup Taking /\ i.pc \notin {"parse", "done"}
    BY <1>1, <1>4, SMTT(60) DEF Idle, Taking
  <2> HIDE DEF i
  <2> QED BY <1>1, <1>4, <1>5, <1>6, <2>1, GoesOn, ZenonT(60)
<1>7. CASE /\ opens /\ blocks' = [blocks EXCEPT ![c] = NewBlock("implicit")]
           /\ job' = [job EXCEPT ![c] = i] /\ UNCHANGED <<conn, told>>
  <2> DEFINE e == NewBlock("implicit")
  <2>1. /\ e \in BlockType /\ e.kind = "implicit" /\ e.txn.live /\ e.txn.staged = {}
    BY ZenonT(60) DEF NewBlock, BlockType, WireInv, Types, DbType
  <2>2. Effective(i, e) = e /\ Writing(i) = {} /\ Effective(j, b) = NoBlock /\ Writing(j) = {}
    BY <1>1, <1>4, <1>7, SMTT(60) DEF Effective, Writing, Taking
  <2>3. k.pending = {}
    BY <1>2, <2>2, SMTT(60) DEF Local, WritesOK
  <2>4. WritesOK(k, i, e) /\ Open(k, i, e) \subseteq Open(k, j, b)
    BY <2>1, <2>2, <2>3, Nothing, ZenonT(60) DEF WritesOK, Open
  <2>5. Local(k, i, e, r, server.stage)
    <3> HIDE DEF e, i
    <3>1. BlockOK(e) /\ i.pc \notin Taking
      BY <2>1, <1>4, ZenonT(60) DEF BlockOK, Taking
    <3> QED BY <1>1, <1>2, <1>4, <1>5, <1>7, <2>1, <2>4, <3>1, AtWork, ZenonT(60) DEF Idle
  <2>6. Turn(c, k, i, e, r)
    <3>1. conn' = [conn EXCEPT ![c] = k] /\ registry' = [registry EXCEPT ![c] = r]
      BY <1>1, <1>7 DEF WireInv, Types
    <3> QED BY <3>1, <1>7 DEF Turn
  <2>7. WorkerTurn(c, k, i, e)
    BY <1>1, <1>2, <1>4, <2>1, <2>5, <2>6, SMTT(60) DEF WorkerTurn, Typed, Idle
  <2> HIDE DEF e, i
  <2> QED BY <1>1, <1>4, <1>7, <2>4, <2>7, QuietTurns, ZenonT(60)
<1> QED BY <1>3, <1>6, <1>7, ZenonT(60) DEF next_statement

LEMMA BindStep ==
  ASSUME WireInv, NEW c \in Conns, bind_statement(c)
  PROVE  WireInv'
<1> DEFINE bs == reap_idle_blocks
           i == [job[c] EXCEPT !.version = db.version,
                               !.pc = IF job[c].msg = "parse" THEN "done" ELSE "run"]
<1>1. job[c].pc = "bind" /\ UNCHANGED <<plan, registry, live_workers, server, lock, db>>
    BY DEF bind_statement, WorkerKeeps
<1>2. CASE Fail(c, blocks, blocks[c], {}) \/ Fail(c, bs, bs[c], {})
    BY <1>1, <1>2, MapFailure DEF Idle
<1>3. CASE blocks' = bs /\ job' = [job EXCEPT ![c] = i] /\ UNCHANGED <<conn, told>>
  <2>1. /\ Typed(conn[c], job[c], blocks[c], registry[c])
        /\ Local(conn[c], job[c], bs[c], registry[c], server.stage)
    BY Mine, ZenonT(60)
  <2>2. /\ i \in JobType /\ i.msg = job[c].msg /\ i.left = job[c].left /\ i.multi = job[c].multi
        /\ i.block = job[c].block /\ i.pc = IF job[c].msg = "parse" THEN "done" ELSE "run"
    BY <2>1, ZenonT(60) DEF Typed, JobType, Pcs, WireInv, Types, DbType
  <2>3. JobOK(i)
    BY <1>1, <2>1, <2>2 DEF Local, JobOK, Taking
  <2>4. i.pc \in {"parse", "done"} => bs[c].kind # "implicit"
    BY <2>1, <2>2 DEF Local, MapOK, JobOK
  <2>5. i.pc \notin Idle \cup Taking /\ job[c].pc \notin Idle \cup Taking
    BY <1>1, <2>2, SMTT(60) DEF Idle, Taking
  <2> HIDE DEF i
  <2> QED BY <1>1, <1>3, <2>2, <2>3, <2>4, <2>5, GoesOn, ZenonT(60)
<1> QED BY <1>2, <1>3, ZenonT(60) DEF bind_statement

LEMMA ValidateStep ==
  ASSUME WireInv, NEW c \in Conns, validate_statement(c)
  PROVE  WireInv'
<1> DEFINE bs == reap_idle_blocks
           i == [job[c] EXCEPT !.pc = "done"]
<1>1. job[c].pc = "validate" /\ UNCHANGED <<plan, registry, live_workers, server, lock, db>>
    BY ZenonT(60) DEF validate_statement, WorkerKeeps
<1>2. CASE Fail(c, blocks, blocks[c], {}) \/ Fail(c, bs, bs[c], {})
    BY <1>1, <1>2, MapFailure, SMTT(60) DEF Idle
<1>3. CASE blocks' = bs /\ Go(c, "done")
  <2>1. /\ Typed(conn[c], job[c], blocks[c], registry[c])
        /\ Local(conn[c], job[c], bs[c], registry[c], server.stage)
    BY Mine, ZenonT(60)
  <2>2. /\ i \in JobType /\ i.msg = job[c].msg /\ i.left = job[c].left /\ i.multi = job[c].multi
        /\ i.block = job[c].block /\ i.pc = "done"
    BY <2>1, ZenonT(60) DEF Typed, JobType, Pcs
  <2>3. JobOK(i)
    BY <1>1, <2>1, <2>2, ZenonT(60) DEF Local, JobOK, Taking
  <2>4. bs[c].kind # "implicit"
    BY <1>1, <2>1, ZenonT(60) DEF Local, MapOK, JobOK
  <2>5. i.pc \notin Idle \cup Taking /\ job[c].pc \notin Idle \cup Taking
    BY <1>1, <2>2 DEF Idle, Taking
  <2>6. job' = [job EXCEPT ![c] = i] /\ UNCHANGED <<conn, told>>
    BY <1>3 DEF Go, WireInv, Types
  <2> HIDE DEF i
  <2> QED BY <1>1, <1>3, <2>2, <2>3, <2>4, <2>5, <2>6, GoesOn, ZenonT(60)
<1> QED BY <1>2, <1>3, ZenonT(60) DEF validate_statement

\* The block leaves the map with the worker.
LEMMA TakesBlock ==
  ASSUME WireInv, NEW c \in Conns, NEW bs \in {blocks, reap_idle_blocks}, NEW pc \in {"lock", "commit"},
         blocks' = [bs EXCEPT ![c] = NoBlock],
         job' = [job EXCEPT ![c] = [job[c] EXCEPT !.pc = pc, !.block = bs[c]]],
         job[c].pc \notin Idle \cup Taking, bs[c].txn.live \/ (pc = "lock" /\ bs[c] = NoBlock),
         UNCHANGED <<plan, conn, registry, live_workers, lock, db, server, told>>
  PROVE  WireInv'
<1> DEFINE k == conn[c]  j == job[c]  i == [job[c] EXCEPT !.pc = pc, !.block = bs[c]]  r == registry[c]
<1>1. /\ Typed(k, j, blocks[c], r) /\ bs[c] \in BlockType
      /\ Local(k, j, bs[c], r, server.stage)
      /\ Open(k, j, bs[c]) \subseteq Open(k, j, blocks[c])
    BY Mine, ZenonT(60) DEF Typed
<1>2. /\ i \in JobType /\ i.pc = pc /\ i.block = bs[c] /\ i.msg = j.msg /\ i.multi = j.multi
      /\ i.left = j.left
    BY <1>1, ZenonT(60) DEF Typed, JobType, Pcs
<1>3. JobOK(i)
  <2>1. JobOK(j) /\ BlockOK(bs[c]) /\ (bs[c].kind = "implicit" => j.multi)
    BY <1>1, ZenonT(60) DEF Local, MapOK
  <2>2. i.pc \in Taking /\ i.pc \notin {"parse", "next", "validate"}
    BY <1>2, ZenonT(60) DEF Taking
  <2>3. i.pc = "commit" \/ i.block # NoBlock => i.block.txn.live
    BY <1>2, ZenonT(60)
  <2> HIDE DEF i
  <2> QED BY <1>2, <2>1, <2>2, <2>3, ZenonT(60) DEF JobOK
<1>4. /\ Effective(i, NoBlock) = bs[c] /\ Effective(j, bs[c]) = bs[c]
      /\ Writing(i) = {} /\ Writing(j) = {}
    BY <1>2 DEF Effective, Writing, Taking
<1>5. WritesOK(k, i, NoBlock) /\ Open(k, i, NoBlock) = Open(k, j, bs[c])
    BY <1>1, <1>4, ZenonT(60) DEF Local, WritesOK, Open
<1>6. Local(k, i, NoBlock, r, server.stage)
  <2> HIDE DEF i
  <2>1. BlockOK(NoBlock) /\ NoBlock.kind # "implicit" /\ i.pc \notin Idle
    BY <1>2, Nothing DEF BlockOK, Idle
  <2> QED BY <1>1, <1>2, <1>3, <1>5, <2>1, AtWork, ZenonT(60)
<1>7. Turn(c, k, i, NoBlock, r)
  <2>1. conn' = [conn EXCEPT ![c] = k] /\ registry' = [registry EXCEPT ![c] = r]
    BY DEF WireInv, Types
  <2> QED BY <2>1, ZenonT(60) DEF Turn
<1>8. WorkerTurn(c, k, i, NoBlock)
    BY <1>1, <1>2, <1>6, <1>7, Nothing, ZenonT(60) DEF WorkerTurn, Typed, Idle
<1>9. job[c].pc # "locked" /\ i.pc # "locked"
    BY <1>2 DEF Taking
<1>10. Open(k, i, NoBlock) \subseteq Open(k, j, blocks[c])
    BY <1>1, <1>5
<1> HIDE DEF i
<1> QED BY <1>8, <1>9, <1>10, QuietTurns, SMTT(60)

\* The block is dropped: what it staged will never be published.
LEMMA DropsBlock ==
  ASSUME WireInv, NEW c \in Conns, NEW bs \in {blocks, reap_idle_blocks},
         blocks' = [bs EXCEPT ![c] = NoBlock], job' = [job EXCEPT ![c].pc = "wrap"],
         conn' = [conn EXCEPT ![c].pending = {}],
         told' = [told EXCEPT !.failed = @ \cup conn[c].pending],
         job[c].pc \notin Idle \cup Taking,
         UNCHANGED <<plan, registry, live_workers, lock, db, server>>,
         job[c].pc \notin {"validate", "parse", "next"}
  PROVE  WireInv'
<1> DEFINE k == conn[c]  j == job[c]  i == [job[c] EXCEPT !.pc = "wrap"]  r == registry[c]
           l == [conn[c] EXCEPT !.pending = {}]
<1>1. Typed(k, j, blocks[c], r) /\ Local(k, j, blocks[c], r, server.stage)
    BY Mine, ZenonT(60)
<1>2. /\ i \in JobType /\ i.pc = "wrap" /\ i.block = j.block /\ i.msg = j.msg /\ i.multi = j.multi
      /\ i.left = j.left
    BY <1>1, ZenonT(60) DEF Typed, JobType, Pcs
<1>3. l \in ConnType /\ l.task = k.task /\ l.pending = {} /\ k.pending \subseteq Nat
    BY <1>1, ZenonT(60) DEF Typed, ConnType
<1>4. JobOK(i)
    BY <1>1, <1>2, ZenonT(60) DEF Local, JobOK, Taking
<1>5. WritesOK(l, i, NoBlock) /\ Open(l, i, NoBlock) = {}
  <2>1. Effective(i, NoBlock) = NoBlock /\ Writing(i) = {}
    BY <1>2 DEF Effective, Writing, Taking
  <2> QED BY <2>1, <1>3, Nothing, ZenonT(60) DEF WritesOK, Open
<1>6. Local(l, i, NoBlock, r, server.stage)
  <2> HIDE DEF i, l
  <2>1. BlockOK(NoBlock) /\ NoBlock.kind # "implicit" /\ i.pc \notin Idle
    BY <1>2, Nothing, ZenonT(60) DEF BlockOK, Idle
  <2> QED BY <1>1, <1>2, <1>3, <1>4, <1>5, <2>1, AtWork, SMTT(60)
<1>7. Turn(c, l, i, NoBlock, r)
    BY ZenonT(60) DEF Turn, WireInv, Types
<1>8. WorkerTurn(c, l, i, NoBlock)
    BY <1>1, <1>2, <1>3, <1>6, <1>7, Nothing, ZenonT(60) DEF WorkerTurn, Typed, Idle
<1>9. job[c].pc # "locked" /\ i.pc # "locked" /\ lock' = lock
    BY <1>2 DEF Taking
<1>10. told' \in ToldType /\ db' \in DbType /\ db'.version = db.version
    BY <1>3 DEF WireInv, Types, ToldType
<1>11. Moves(Open(k, j, blocks[c]), Open(l, i, NoBlock), {}, k.pending, {}, {})
  <2>1. told'.failed = told.failed \cup k.pending /\ told'.committed = told.committed
    BY DEF WireInv, Types, ToldType
  <2>2. k.pending \subseteq Open(k, j, blocks[c])
    BY DEF Open
  <2> HIDE DEF i, l, k, j
  <2> QED BY <1>5, <2>1, <2>2, SMTT(60) DEF Moves
<1> HIDE DEF i, l
<1> QED BY <1>8, <1>9, <1>10, <1>11, LocklessTurns, ZenonT(60)

LEMMA WrapStep ==
  ASSUME WireInv, NEW c \in Conns, wrap_statement(c)
  PROVE  WireInv'
<1> DEFINE j == job[c]  b == blocks[c]
           i == [job[c] EXCEPT !.pc = NextPc(c)]
<1>1. j.pc = "wrap" /\ UNCHANGED <<plan, registry, live_workers, server, lock, db>>
    BY SMTT(60) DEF wrap_statement, WorkerKeeps
<1>2. Typed(conn[c], j, b, registry[c]) /\ Local(conn[c], j, b, registry[c], server.stage)
    BY Mine, ZenonT(60)
<1>3. j.pc \notin Idle \cup Taking
    BY <1>1, SMTT(60) DEF Idle, Taking
<1>4. CASE /\ b.kind = "implicit" /\ blocks' = [blocks EXCEPT ![c] = NoBlock]
           /\ job' = [job EXCEPT ![c].pc = "commit", ![c].block = blocks[c]]
           /\ UNCHANGED <<conn, told>>
  <2>1. b.txn.live
    BY <1>2, <1>4, ZenonT(60) DEF Local, MapOK
  <2>2. job' = [job EXCEPT ![c] = [job[c] EXCEPT !.pc = "commit", !.block = blocks[c]]]
    BY <1>4, ZenonT(60) DEF WireInv, Types
  <2> QED BY <1>1, <1>3, <1>4, <2>1, <2>2, TakesBlock, ZenonT(60)
<1>5. CASE /\ ~(j.msg = "simple" /\ j.left = <<>> /\ b.kind = "implicit")
           /\ Go(c, NextPc(c)) /\ UNCHANGED blocks
  <2>1. /\ i \in JobType /\ i.pc = NextPc(c) /\ i.msg = j.msg /\ i.left = j.left /\ i.multi = j.multi
        /\ i.block = j.block
    BY <1>2, ZenonT(60) DEF Typed, JobType, NextPc, Pcs
  <2>2. JobOK(i)
    BY <1>1, <1>2, <2>1, SMTT(60) DEF Local, JobOK, NextPc, Taking
  <2>3. i.pc \in {"parse", "done"} => b.kind # "implicit"
    BY <1>2, <1>5, <2>1, SMTT(60) DEF Local, MapOK, JobOK, NextPc
  <2>4. i.pc \notin Idle \cup Taking
    BY <2>1 DEF NextPc, Idle, Taking
  <2>5. job' = [job EXCEPT ![c] = i] /\ UNCHANGED <<conn, told>>
    BY <1>5, SMTT(60) DEF Go, WireInv, Types
  <2> HIDE DEF i
  <2> QED BY <1>1, <1>3, <1>5, <2>1, <2>2, <2>3, <2>4, <2>5, GoesOn, ZenonT(60)
<1> QED BY <1>4, <1>5 DEF wrap_statement
\* A block is opened, or the implicit one becomes the client's own.
LEMMA BeginStep ==
  ASSUME WireInv, NEW c \in Conns, begin_block(c, reap_idle_blocks), job[c].pc = "run",
         ~OutOfBounds(reap_idle_blocks[c], "begin"),
         UNCHANGED <<plan, registry, live_workers, server, lock, db>>
  PROVE  WireInv'
<1> DEFINE k == conn[c]  j == job[c]  b == reap_idle_blocks[c]  r == registry[c]
           i == [job[c] EXCEPT !.pc = "wrap"]
           e == IF b # NoBlock THEN [b EXCEPT !.kind = "explicit"] ELSE NewBlock("explicit")
<1>1. /\ Typed(k, j, blocks[c], r) /\ b \in BlockType /\ Local(k, j, b, r, server.stage)
      /\ Open(k, j, b) \subseteq Open(k, j, blocks[c])
    BY Mine, ZenonT(60)
<1>2. /\ i \in JobType /\ i.pc = "wrap" /\ i.block = j.block /\ i.msg = j.msg /\ i.multi = j.multi
      /\ i.left = j.left
    BY <1>1, ZenonT(60) DEF Typed, JobType, Pcs
<1>3. JobOK(i)
    BY <1>1, <1>2, SMTT(60) DEF Local, JobOK, Taking
<1>4. /\ e \in BlockType /\ e.kind = "explicit" /\ e.txn.live
      /\ e.txn.staged = IF b # NoBlock THEN b.txn.staged ELSE {}
  <2>1. CASE b # NoBlock
    <3>1. b.txn.live
      BY <2>1 DEF OutOfBounds
    <3> QED BY <2>1, <3>1, <1>1, SMTT(60) DEF BlockType
  <2>2. CASE b = NoBlock
    BY <2>2 DEF NewBlock, BlockType, WireInv, Types, DbType
  <2> QED BY <2>1, <2>2, SMTT(60)
<1>5. e # NoBlock /\ BlockOK(e)
    BY <1>4, Nothing, ZenonT(60) DEF BlockOK
<1> HIDE DEF e, i
<1>6. Effective(i, e) = e /\ Writing(i) = {} /\ Effective(j, b) = b /\ Writing(j) = {}
    BY <1>2, ZenonT(60) DEF Effective, Writing, Taking
<1>7. e.txn.staged = b.txn.staged /\ k.pending \subseteq e.txn.staged
  <2>1. CASE b # NoBlock
    <3>1. b.txn.live
      BY <2>1 DEF OutOfBounds
    <3> QED BY <2>1, <3>1, <1>1, <1>4, <1>6, ZenonT(60) DEF Local, WritesOK
  <2>2. CASE b = NoBlock
    BY <2>2, <1>1, <1>4, <1>6, Nothing, ZenonT(60) DEF Local, WritesOK
  <2> QED BY <2>1, <2>2
<1>8. WritesOK(k, i, e) /\ Open(k, i, e) = Open(k, j, b)
    BY <1>5, <1>6, <1>7, ZenonT(60) DEF WritesOK, Open
<1>9. Local(k, i, e, r, server.stage)
  <2>1. e.kind # "implicit" /\ i.pc \notin Idle /\ j.pc \notin Idle /\ i.pc \notin Taking
    BY <1>2, <1>4, ZenonT(60) DEF Idle, Taking
  <2> QED BY <1>1, <1>3, <1>5, <1>8, <2>1, AtWork, ZenonT(60)
<1>10. Turn(c, k, i, e, r)
  <2>1. conn' = [conn EXCEPT ![c] = k] /\ registry' = [registry EXCEPT ![c] = r]
    BY DEF WireInv, Types, begin_block, Go
  <2>2. job' = [job EXCEPT ![c] = i] /\ blocks' = [reap_idle_blocks EXCEPT ![c] = e]
    BY DEF WireInv, Types, begin_block, Go, i, e
  <2> QED BY <2>1, <2>2, ZenonT(60) DEF Turn
<1>11. WorkerTurn(c, k, i, e)
    BY <1>1, <1>2, <1>4, <1>9, <1>10, ZenonT(60) DEF WorkerTurn, Typed, Idle
<1>12. UNCHANGED <<lock, db, told>> /\ i.pc # "locked" /\ j.pc # "locked"
    BY <1>2, SMTT(60) DEF begin_block, Go
<1>13. Open(k, i, e) \subseteq Open(k, j, blocks[c])
    BY <1>1, <1>8, ZenonT(60)
<1> QED BY <1>11, <1>12, <1>13, QuietTurns, ZenonT(60)

LEMMA RunStep ==
  ASSUME WireInv, NEW c \in Conns, run_statement(c)
  PROVE  WireInv'
<1> DEFINE bs == reap_idle_blocks
<1>1. job[c].pc = "run" /\ UNCHANGED <<plan, registry, live_workers, server, lock, db>>
    BY ZenonT(60) DEF run_statement, WorkerKeeps
<1>2. job[c].pc \notin Idle \cup Taking /\ job[c].pc \notin {"validate", "parse", "next"}
    BY <1>1, SMTT(60) DEF Idle, Taking
<1>3. CASE Fail(c, blocks, blocks[c], {}) \/ Fail(c, bs, bs[c], {})
    BY <1>1, <1>3, MapFailure, ZenonT(60) DEF Idle
<1>4. CASE ~OutOfBounds(bs[c], "begin") /\ begin_block(c, bs)
    BY <1>1, <1>4, BeginStep, SMTT(60)
<1>5. CASE commit_block(c, bs)
  <2>1. CASE bs[c].txn.live
    <3>1. /\ blocks' = [bs EXCEPT ![c] = NoBlock] /\ UNCHANGED <<conn, told>>
          /\ job' = [job EXCEPT ![c] = [job[c] EXCEPT !.pc = "commit", !.block = bs[c]]]
      BY <1>5, <2>1, ZenonT(60) DEF commit_block, WireInv, Types
    <3> QED BY <1>1, <1>2, <2>1, <3>1, TakesBlock, ZenonT(60)
  <2>2. CASE ~bs[c].txn.live
    <3>1. /\ blocks' = [bs EXCEPT ![c] = NoBlock] /\ job' = [job EXCEPT ![c].pc = "wrap"]
          /\ conn' = [conn EXCEPT ![c].pending = {}]
          /\ told' = [told EXCEPT !.failed = @ \cup conn[c].pending]
      BY <1>5, <2>2 DEF commit_block
    <3> QED BY <1>1, <1>2, <3>1, DropsBlock, ZenonT(60)
  <2> QED BY <2>1, <2>2, SMTT(60)
<1>6. CASE rollback_block(c, bs)
  <2>1. /\ blocks' = [bs EXCEPT ![c] = NoBlock] /\ job' = [job EXCEPT ![c].pc = "wrap"]
        /\ conn' = [conn EXCEPT ![c].pending = {}]
        /\ told' = [told EXCEPT !.failed = @ \cup conn[c].pending]
    BY <1>6, SMTT(60) DEF rollback_block
  <2> QED BY <1>1, <1>2, <2>1, DropsBlock, ZenonT(60)
<1>7. CASE ~OutOfBounds(bs[c], job[c].stmt) /\ job[c].stmt \notin Controls /\ take_block(c, bs)
  <2>1. /\ blocks' = [bs EXCEPT ![c] = NoBlock] /\ UNCHANGED <<conn, told>>
        /\ job' = [job EXCEPT ![c] = [job[c] EXCEPT !.pc = "lock", !.block = bs[c]]]
    BY <1>7, ZenonT(60) DEF take_block, WireInv, Types
  <2>2. bs[c].txn.live \/ bs[c] = NoBlock
    BY <1>7 DEF OutOfBounds, Controls
  <2> QED BY <1>1, <1>2, <2>1, <2>2, TakesBlock, ZenonT(60)
<1> QED BY <1>3, <1>4, <1>5, <1>6, <1>7, ZenonT(60) DEF run_statement

\* An error of a worker that has its block with it.
LEMMA OwnFailure ==
  ASSUME WireInv, NEW c \in Conns, NEW b \in {NoBlock, job[c].block}, NEW lost,
         Fail(c, blocks, b, lost), job[c].pc \in Taking, lost \subseteq Writing(job[c]),
         UNCHANGED <<plan, registry, live_workers, server>>
  PROVE  FailsAs(c, b, lost)
<1>1. Typed(conn[c], job[c], blocks[c], registry[c])
      /\ Local(conn[c], job[c], blocks[c], registry[c], server.stage)
    BY Mine, ZenonT(60)
<1>2. b \in BlockType /\ BlockOK(b) /\ (b.kind = "implicit" => job[c].multi)
    BY <1>1, Nothing, ZenonT(60) DEF Typed, JobType, Local, JobOK, BlockOK
<1>3. job[c].pc \notin Idle
    BY SMTT(60) DEF Taking, Idle
<1> QED BY <1>2, <1>3, Failures, ZenonT(60)
-----------------------------------------------------------------------------
(* Under the database lock.                                                *)

LEMMA Unlocks ==
  ASSUME Types, Locked, NEW c \in Conns, NEW k, NEW j, NEW b, NEW r, Turn(c, k, j, b, r),
         j.pc # "locked", Unlock(c)
  PROVE  Locked' /\ lock' \in LockType
<1>1. /\ lock'.readers = lock.readers \ {c} /\ lock'.writer = lock.writer \ {c}
      /\ lock' \in LockType /\ lock.readers \subseteq Conns /\ lock.writer \subseteq Conns
    BY ZenonT(60) DEF Unlock, Types, LockType
<1>2. \A d \in Conns : job'[d].pc = "locked" => d # c /\ job'[d] = job[d]
    BY TurnParts, SMTT(60)
<1>3. \A d \in lock'.readers \cup lock'.writer : d \in Conns /\ d # c /\ job'[d] = job[d]
    BY <1>1, TurnParts, ZenonT(60)
<1> QED BY <1>1, <1>2, <1>3, SMTT(60) DEF Locked, Exclusive

\* The one who writes without a block runs alone.
LEMMA RunsAlone ==
  ASSUME Types, Locked, NEW c \in Conns, job[c].pc = "locked", Exclusive(c)
  PROVE  \A d \in Conns \ {c} : job[d].pc # "locked"
<1>1. lock.writer = {c} /\ lock.readers = {}
    BY DEF Locked
<1> QED BY <1>1 DEF Locked

LEMMA LockStep ==
  ASSUME WireInv, NEW c \in Conns, lock_statement(c)
  PROVE  WireInv'
<1> DEFINE k == conn[c]  j == job[c]  r == registry[c]
           id == IF j.stmt = "write" THEN db.next ELSE 0
           i == [job[c] EXCEPT !.pc = "locked", !.id = id]
           new == IF j.stmt = "write" THEN {db.next} ELSE {}
<1>1. j.pc = "lock" /\ UNCHANGED <<plan, registry, live_workers, server>>
    BY SMTT(60) DEF lock_statement, WorkerKeeps
<1>2. Typed(k, j, blocks[c], r) /\ Local(k, j, blocks[c], r, server.stage)
    BY Mine, ZenonT(60)
<1>3. CASE Fail(c, blocks, j.block, {}) /\ UNCHANGED <<lock, db>>
  <2>1. FailsAs(c, j.block, {})
    BY <1>1, <1>3, OwnFailure, ZenonT(60) DEF Taking
  <2> QED BY <1>1, <1>3, <2>1, FailureKeeps, ZenonT(60)
<1>4. CASE /\ LockAvailable(c) /\ still_bound(c)
           /\ lock' = IF Exclusive(c) THEN [lock EXCEPT !.writer = {c}]
                      ELSE [lock EXCEPT !.readers = @ \cup {c}]
           /\ job' = [job EXCEPT ![c].pc = "locked", ![c].id = IF job[c].stmt = "write" THEN db.next ELSE 0]
           /\ db' = [db EXCEPT !.next = IF job[c].stmt = "write" THEN @ + 1 ELSE @]
           /\ UNCHANGED <<conn, blocks, told>>
  <2>1. /\ Types /\ Locked /\ Owned /\ BoundCatalogHolds /\ db \in DbType /\ lock \in LockType
        /\ told \in ToldType
    BY ZenonT(60) DEF WireInv, Types
  <2>2. /\ i \in JobType /\ i.pc = "locked" /\ i.block = j.block /\ i.msg = j.msg /\ i.multi = j.multi
        /\ i.left = j.left /\ i.stmt = j.stmt /\ i.id = id /\ i.version = j.version
    BY <1>2, <2>1, ZenonT(60) DEF Typed, JobType, Pcs, DbType
  <2>3. /\ db' \in DbType /\ db'.published = db.published /\ db'.version = db.version
        /\ db'.next = IF new = {} THEN db.next ELSE db.next + 1
    BY <1>4, <2>1 DEF DbType
  <2>4. blocks[c] = NoBlock
    BY <1>1, <1>2, ZenonT(60) DEF Local, MapOK, Taking
  <2>5. JobOK(i)
    BY <1>1, <1>2, <2>2, ZenonT(60) DEF Local, JobOK, Taking
  <2>6. /\ Effective(i, blocks[c]) = j.block /\ Effective(j, blocks[c]) = j.block
        /\ Writing(i) = new /\ Writing(j) = {}
    BY <1>1, <2>2, SMTT(60) DEF Effective, Writing, Taking
  <2>7. db.next \notin Open(k, j, blocks[c])
    BY <2>1, SMTT(60) DEF Owned, DbType
  <2>8. WritesOK(k, i, blocks[c]) /\ Open(k, i, blocks[c]) \subseteq Open(k, j, blocks[c]) \cup new
    <3>1. new \cap (k.pending \cup j.block.txn.staged) = {}
      BY <2>6, <2>7, ZenonT(60) DEF Open
    <3> HIDE DEF i, new
    <3> QED BY <1>2, <2>6, <3>1, ZenonT(60) DEF Local, WritesOK, Open
  <2>9. Local(k, i, blocks[c], r, server.stage)
    <3>1. BlockOK(blocks[c]) /\ blocks[c].kind # "implicit" /\ i.pc \notin Idle /\ j.pc \notin Idle
      BY <1>1, <2>2, <2>4, Nothing, ZenonT(60) DEF BlockOK, Idle
    <3> HIDE DEF i
    <3> QED BY <1>2, <2>4, <2>5, <2>8, <3>1, AtWork, ZenonT(60)
  <2>10. Turn(c, k, i, blocks[c], r)
    <3>1. /\ conn' = [conn EXCEPT ![c] = k] /\ registry' = [registry EXCEPT ![c] = r]
          /\ blocks' = [blocks EXCEPT ![c] = blocks[c]] /\ job' = [job EXCEPT ![c] = i]
      BY <1>1, <1>4, <2>1, ZenonT(60) DEF Types
    <3> QED BY <3>1 DEF Turn
  <2>11. WorkerTurn(c, k, i, blocks[c])
    BY <1>1, <1>2, <2>2, <2>9, <2>10, ZenonT(60) DEF WorkerTurn, Typed, Idle
  <2>12. Moves(Open(k, j, blocks[c]), Open(k, i, blocks[c]), {}, {}, {}, new)
    BY <1>4, <2>3, <2>8, ZenonT(60) DEF Moves
  <2>13. lock' \in LockType /\ told' \in ToldType
    BY <1>4, <2>1, ZenonT(60) DEF LockType
  <2>14. Types' /\ Locals' /\ Counted' /\ Owned' /\ AnswersTrue' /\ SlotsAccounted'
    <3> HIDE DEF i, new
    <3> QED BY <2>3, <2>11, <2>12, <2>13, WorkerTurns, ZenonT(60)
  <2>15. \A d \in Conns : IF d = c THEN job'[d] = i ELSE job'[d] = job[d]
    BY <2>1, <2>10, TurnParts, SMTT(60)
  <2>16. Locked'
    <3>1. \A d \in Conns : Exclusive(d)' <=> Exclusive(d)
      BY <2>2, <2>15, ZenonT(60) DEF Exclusive
    <3>2. lock.writer = {} /\ (Exclusive(c) => lock.readers = {}) /\ lock.readers \subseteq Conns
      BY <1>4, <2>1 DEF LockAvailable, LockType
    <3>3. /\ lock'.writer = IF Exclusive(c) THEN {c} ELSE {}
          /\ lock'.readers = IF Exclusive(c) THEN {} ELSE lock.readers \cup {c}
      BY <1>4, <2>1, <3>2, ZenonT(60) DEF LockType
    <3> HIDE DEF i
    <3> QED BY <2>1, <2>2, <2>15, <3>1, <3>2, <3>3, SMTT(60) DEF Locked
  <2>17. BoundCatalogHolds'
    <3>1. ~Stale(c, j.block, j.version)
      BY <1>4, SMTT(60) DEF still_bound
    <3> HIDE DEF i
    <3>2. job'[c].block = j.block /\ job'[c].version = j.version
      BY <2>2, <2>15, ZenonT(60)
    <3>3. \A d \in Conns : job'[d].pc = "locked" => ~Stale(d, job'[d].block, job'[d].version)
      BY <2>1, <2>15, <3>1, <3>2, ZenonT(60) DEF BoundCatalogHolds
    <3> QED BY <2>3, <3>3, ZenonT(60) DEF BoundCatalogHolds, Stale
  <2> QED BY <2>14, <2>16, <2>17, SMTT(60) DEF WireInv
<1> QED BY <1>3, <1>4 DEF lock_statement
\* The catalog moves only under a writer's lock.
VersionHeld(c) == db'.version = db.version \/ (job[c].pc = "locked" /\ Exclusive(c))

\* The statement ends and gives the lock back.
LEMMA UnlockedTurns ==
  ASSUME WireInv, NEW c \in Conns, NEW k, NEW j, NEW b, WorkerTurn(c, k, j, b),
         j.pc # "locked", Unlock(c), db' \in DbType, told' \in ToldType, VersionHeld(c),
         NEW p, NEW f, NEW m, NEW n,
         Moves(Open(conn[c], job[c], blocks[c]), Open(k, j, b), p, f, m, n)
  PROVE  WireInv'
<1>1. Types /\ Locked /\ BoundCatalogHolds /\ Turn(c, k, j, b, registry[c])
    BY ZenonT(60) DEF WireInv, WorkerTurn
<1>2. lock' \in LockType /\ Locked'
    BY <1>1, Unlocks, ZenonT(60)
<1>3. Types' /\ Locals' /\ Counted' /\ Owned' /\ AnswersTrue' /\ SlotsAccounted'
    BY <1>2, WorkerTurns, ZenonT(60)
<1>4. BoundCatalogHolds'
  <2>1. CASE db'.version = db.version
    BY <2>1, <1>1, CatalogStays, ZenonT(60)
  <2>2. CASE job[c].pc = "locked" /\ Exclusive(c)
    <3>1. \A d \in Conns \ {c} : job[d].pc # "locked"
      BY <1>1, <2>2, RunsAlone, ZenonT(60)
    <3>2. job'[c] = j /\ \A d \in Conns \ {c} : job'[d] = job[d]
      BY <1>1, JobsMove, ZenonT(60)
    <3>3. \A d \in Conns : job'[d].pc # "locked"
      BY <3>1, <3>2, ZenonT(60)
    <3> QED BY <3>3, ZenonT(60) DEF BoundCatalogHolds
  <2> QED BY <2>1, <2>2, ZenonT(60) DEF VersionHeld
<1> QED BY <1>2, <1>3, <1>4, ZenonT(60) DEF WireInv

LEMMA UnlockedFailure ==
  ASSUME WireInv, NEW c \in Conns, NEW b, NEW lost, FailsAs(c, b, lost), Unlock(c),
         NEW p, db' \in DbType, db'.published = db.published \cup p, db'.next = db.next,
         p \subseteq Open(conn[c], job[c], blocks[c]), p \cap (lost \cup conn[c].pending) = {},
         VersionHeld(c)
  PROVE  WireInv'
<1> DEFINE k == FailedTask(conn[c])  j == FailedJob(job[c])  e == FailedBlock(job[c], b)
           o == Open(conn[c], job[c], blocks[c])
<1>1. WorkerTurn(c, k, j, e) /\ j.pc # "locked" /\ told' \in ToldType
    BY ZenonT(60) DEF FailsAs
<1>2. Moves(o, Open(k, j, e), p, lost \cup conn[c].pending, {}, {})
  <2>1. /\ Open(k, j, e) = {} /\ told'.committed = told.committed
        /\ told'.failed = told.failed \cup (lost \cup conn[c].pending)
        /\ lost \cup conn[c].pending \subseteq o
    BY ZenonT(60) DEF FailsAs
  <2> HIDE DEF k, j, e, o
  <2> QED BY <2>1, ZenonT(60) DEF Moves, o
<1> HIDE DEF k, j, e
<1> QED BY <1>1, <1>2, UnlockedTurns, ZenonT(60)

LEMMA InBlockStep ==
  ASSUME WireInv, NEW c \in Conns, execute_in_block(c)
  PROVE  WireInv'
<1> DEFINE k == conn[c]  j == job[c]  r == registry[c]  b == job[c].block
           staged == IF job[c].stmt = "write" THEN {job[c].id} ELSE {}
           e == [b EXCEPT !.txn.staged = @ \cup staged, !.stale = FALSE]
           i == [job[c] EXCEPT !.pc = "wrap", !.block = NoBlock]
           l == [conn[c] EXCEPT !.pending = @ \cup staged]
<1>1. /\ j.pc = "locked" /\ b # NoBlock /\ Unlock(c)
      /\ UNCHANGED <<plan, registry, live_workers, server, db>>
    BY SMTT(60) DEF execute_in_block, WorkerKeeps
<1>2. Typed(k, j, blocks[c], r) /\ Local(k, j, blocks[c], r, server.stage) /\ blocks[c] = NoBlock
  <2>1. Typed(k, j, blocks[c], r) /\ Local(k, j, blocks[c], r, server.stage)
    BY Mine, ZenonT(60)
  <2> QED BY <1>1, <2>1, ZenonT(60) DEF Local, MapOK, Taking
<1>3. db' \in DbType /\ db'.published = db.published /\ db'.next = db.next /\ VersionHeld(c)
    BY <1>1, SMTT(60) DEF WireInv, Types, VersionHeld
<1>4. Writing(j) = staged
    BY <1>1, ZenonT(60) DEF Writing
<1>5. CASE Fail(c, blocks, b, staged) \/ Fail(c, blocks, b, {})
  <2>1. PICK lost \in {staged, {}} : Fail(c, blocks, b, lost)
    BY <1>5, ZenonT(60)
  <2>2. lost \subseteq Writing(job[c]) /\ job[c].pc \in Taking
    BY <1>1, <1>4, SMTT(60) DEF Taking
  <2>3. FailsAs(c, b, lost)
    BY <1>1, <2>1, <2>2, OwnFailure, ZenonT(60)
  <2>4. /\ db'.published = db.published \cup {} /\ {} \subseteq Open(k, j, blocks[c])
        /\ {} \cap (lost \cup k.pending) = {}
    BY <1>3, SMTT(60)
  <2> QED BY <1>1, <1>3, <2>3, <2>4, UnlockedFailure, ZenonT(60)
<1>6. CASE /\ blocks' = [blocks EXCEPT ![c] = e]
           /\ job' = [job EXCEPT ![c].pc = "wrap", ![c].block = NoBlock]
           /\ conn' = [conn EXCEPT ![c].pending = @ \cup staged] /\ UNCHANGED told
  <2>1. /\ b \in BlockType /\ b.kind # "none" /\ b.txn.live /\ (b.kind = "implicit" => j.multi)
        /\ b.txn.staged \subseteq Nat /\ staged \subseteq Nat /\ k.pending \subseteq Nat
    BY <1>1, <1>2, ZenonT(60) DEF Typed, JobType, ConnType, BlockType, Local, JobOK, BlockOK
  <2>2. /\ i \in JobType /\ i.pc = "wrap" /\ i.block = NoBlock /\ i.msg = j.msg /\ i.multi = j.multi
        /\ i.left = j.left
    BY <1>2, Nothing, ZenonT(60) DEF Typed, JobType, Pcs
  <2>3. l \in ConnType /\ l.task = k.task /\ l.pending = k.pending \cup staged
    BY <1>2, <2>1, ZenonT(60) DEF Typed, ConnType
  <2>4. /\ e \in BlockType /\ e.kind = b.kind /\ e.txn.live /\ e.txn.staged = b.txn.staged \cup staged
    BY <2>1, ZenonT(60) DEF BlockType
  <2>5. JobOK(i)
    BY <1>2, <2>2, Nothing, ZenonT(60) DEF Local, JobOK, Taking, BlockOK
  <2>6. /\ Effective(i, e) = e /\ Writing(i) = {} /\ Effective(j, blocks[c]) = b
    BY <1>1, <2>2 DEF Effective, Writing, Taking
  <2>7. e # NoBlock /\ k.pending \subseteq b.txn.staged
    <3>1. e # NoBlock
      BY <2>1, <2>4, Nothing, ZenonT(60)
    <3>2. WritesOK(k, j, blocks[c])
      BY <1>2, ZenonT(60) DEF Local
    <3> QED BY <3>1, <3>2, <2>1, <2>6, ZenonT(60) DEF WritesOK
  <2> HIDE DEF e, i, l
  <2>8. WritesOK(l, i, e) /\ Open(l, i, e) = Open(k, j, blocks[c])
    BY <1>4, <2>3, <2>4, <2>6, <2>7, ZenonT(60) DEF WritesOK, Open
  <2>9. Local(l, i, e, r, server.stage)
    <3>1. BlockOK(e) /\ i.pc \notin Idle /\ j.pc \notin Idle /\ i.pc \notin Taking
      BY <1>1, <2>1, <2>2, <2>4, ZenonT(60) DEF BlockOK, Idle, Taking
    <3> QED BY <1>2, <2>1, <2>2, <2>3, <2>4, <2>5, <2>8, <3>1, AtWork, ZenonT(60)
  <2>10. Turn(c, l, i, e, r)
    BY <1>1, <1>6, ZenonT(60) DEF Turn, WireInv, Types, l, i
  <2>11. WorkerTurn(c, l, i, e)
    BY <1>1, <1>2, <2>2, <2>3, <2>4, <2>9, <2>10, ZenonT(60) DEF WorkerTurn, Typed, Idle
  <2>12. Moves(Open(k, j, blocks[c]), Open(l, i, e), {}, {}, {}, {})
    BY <1>3, <1>6, <2>8, ZenonT(60) DEF Moves
  <2>13. told' \in ToldType /\ i.pc # "locked"
    BY <1>6, <2>2, SMTT(60) DEF WireInv, Types
  <2> QED BY <1>1, <1>3, <2>11, <2>12, <2>13, UnlockedTurns, ZenonT(60)
<1> QED BY <1>5, <1>6, SMTT(60) DEF execute_in_block
\* The statement without a block: its own transaction, then the lock goes back.
LEMMA AutocommitStep ==
  ASSUME WireInv, NEW c \in Conns, execute_autocommit(c)
  PROVE  WireInv'
<1> DEFINE k == conn[c]  j == job[c]  r == registry[c]  b == blocks[c]
           writes == IF job[c].stmt = "write" THEN {job[c].id} ELSE {}
           i == [job[c] EXCEPT !.pc = "wrap"]
           published == [db EXCEPT !.published = @ \cup writes,
                                   !.version = IF job[c].stmt = "schema" THEN @ + 1 ELSE @]
<1>1. /\ j.pc = "locked" /\ j.block = NoBlock /\ Unlock(c)
      /\ UNCHANGED <<plan, registry, live_workers, server>>
    BY SMTT(60) DEF execute_autocommit, WorkerKeeps
<1>2. Typed(k, j, b, r) /\ Local(k, j, b, r, server.stage)
    BY Mine, ZenonT(60)
<1>3. b = NoBlock /\ Writing(j) = writes /\ Effective(j, b) = NoBlock /\ job[c].pc \in Taking
    BY <1>1, <1>2, ZenonT(60) DEF Local, MapOK, Taking, Writing, Effective
<1>4. k.pending = {} /\ writes \subseteq Nat
    BY <1>2, <1>3, ZenonT(60) DEF Local, WritesOK, Typed, JobType
<1>5. writes \subseteq Open(k, j, b)
    BY <1>3 DEF Open
<1>6. db' = published =>
        /\ db' \in DbType /\ db'.published = db.published \cup writes /\ db'.next = db.next
        /\ VersionHeld(c)
  <2> SUFFICES ASSUME db' = published
               PROVE  /\ db' \in DbType /\ db'.published = db.published \cup writes
                      /\ db'.next = db.next /\ VersionHeld(c)
    OBVIOUS
  <2>1. db \in DbType
    BY DEF WireInv, Types
  <2>2. /\ db'.published = db.published \cup writes /\ db'.next = db.next
        /\ db'.version = IF j.stmt = "schema" THEN db.version + 1 ELSE db.version
    BY <2>1 DEF DbType
  <2>4. db' \in DbType
    <3> DEFINE v == IF j.stmt = "schema" THEN db.version + 1 ELSE db.version
               s == db.published \cup writes
    <3>1. v \in Nat /\ s \in SUBSET Nat
      BY <1>4, <2>1 DEF DbType
    <3>2. db' = [db EXCEPT !.published = s, !.version = v]
      OBVIOUS
    <3> HIDE DEF v, s
    <3> QED BY <2>1, <3>1, <3>2, ZenonT(60) DEF DbType
  <2>3. j.stmt = "schema" => Exclusive(c)
    BY <1>1 DEF Exclusive
  <2> QED BY <1>1, <2>2, <2>3, <2>4, SMTT(60) DEF VersionHeld
<1>7. CASE Fail(c, blocks, NoBlock, writes) /\ UNCHANGED db
  <2>1. FailsAs(c, NoBlock, writes)
    BY <1>1, <1>3, <1>7, OwnFailure, ZenonT(60)
  <2>2. /\ db' \in DbType /\ db'.published = db.published \cup {} /\ db'.next = db.next /\ VersionHeld(c)
        /\ {} \subseteq Open(k, j, b) /\ {} \cap (writes \cup k.pending) = {}
    BY <1>7, ZenonT(60) DEF WireInv, Types, VersionHeld
  <2> QED BY <1>1, <2>1, <2>2, UnlockedFailure, ZenonT(60)
<1>8. CASE Fail(c, blocks, NoBlock, {}) /\ db' = published
  <2>1. FailsAs(c, NoBlock, {})
    BY <1>1, <1>3, <1>8, OwnFailure, ZenonT(60)
  <2>2. writes \cap ({} \cup k.pending) = {}
    BY <1>4, SMTT(60)
  <2> HIDE DEF writes, published
  <2> QED BY <1>1, <1>5, <1>6, <1>8, <2>1, <2>2, UnlockedFailure, ZenonT(60)
<1>9. CASE /\ db' = published /\ job' = [job EXCEPT ![c].pc = "wrap"]
           /\ told' = [told EXCEPT !.committed = @ \cup writes] /\ UNCHANGED <<conn, blocks>>
  <2>1. /\ i \in JobType /\ i.pc = "wrap" /\ i.block = j.block /\ i.msg = j.msg /\ i.multi = j.multi
        /\ i.left = j.left
    BY <1>2, ZenonT(60) DEF Typed, JobType, Pcs
  <2>2. JobOK(i)
    BY <1>1, <1>2, <2>1, SMTT(60) DEF Local, JobOK, Taking
  <2> HIDE DEF i, published
  <2>3. WritesOK(k, i, b) /\ Open(k, i, b) = {}
    <3>1. Effective(i, b) = NoBlock /\ Writing(i) = {}
      BY <1>3, <2>1, ZenonT(60) DEF Effective, Writing, Taking
    <3> QED BY <3>1, <1>4, Nothing, ZenonT(60) DEF WritesOK, Open
  <2>4. Local(k, i, b, r, server.stage)
    <3>1. BlockOK(b) /\ b.kind # "implicit" /\ i.pc \notin Idle /\ j.pc \notin Idle
      BY <1>1, <1>3, <2>1, Nothing, ZenonT(60) DEF BlockOK, Idle
    <3> QED BY <1>2, <1>3, <2>2, <2>3, <3>1, AtWork, ZenonT(60)
  <2>5. Turn(c, k, i, b, r)
    BY <1>1, <1>9, ZenonT(60) DEF Turn, WireInv, Types, i
  <2>6. WorkerTurn(c, k, i, b)
    BY <1>1, <1>2, <2>1, <2>4, <2>5, ZenonT(60) DEF WorkerTurn, Typed, Idle
  <2>7. /\ told' \in ToldType /\ told'.committed = told.committed \cup writes
        /\ told'.failed = told.failed
    BY <1>4, <1>9, ZenonT(60) DEF WireInv, Types, ToldType
  <2>8. Moves(Open(k, j, b), Open(k, i, b), writes, {}, writes, {})
    <3> HIDE DEF writes
    <3> QED BY <1>5, <1>6, <1>9, <2>3, <2>7, SMTT(60) DEF Moves
  <2>9. i.pc # "locked" /\ db' \in DbType /\ VersionHeld(c)
    BY <1>6, <1>9, <2>1, SMTT(60)
  <2> HIDE DEF writes
  <2> QED BY <1>1, <2>6, <2>7, <2>8, <2>9, UnlockedTurns, ZenonT(60)
<1> QED BY <1>7, <1>8, <1>9, SMTT(60) DEF execute_autocommit

\* The commit of a block, outside every lock.
LEMMA PublishStep ==
  ASSUME WireInv, NEW c \in Conns, publish_block(c)
  PROVE  WireInv'
<1> DEFINE k == conn[c]  j == job[c]  r == registry[c]  b == blocks[c]
           staged == job[c].block.txn.staged
           published == [db EXCEPT !.published = @ \cup job[c].block.txn.staged]
           l == [conn[c] EXCEPT !.pending = {}]
<1>1. j.pc = "commit" /\ UNCHANGED <<plan, registry, live_workers, server, lock>>
    BY ZenonT(60) DEF publish_block, WorkerKeeps
<1>2. Typed(k, j, b, r) /\ Local(k, j, b, r, server.stage)
    BY Mine, ZenonT(60)
<1>3. b = NoBlock /\ Writing(j) = {} /\ Effective(j, b) = j.block /\ j.block.txn.live
    BY <1>1, <1>2, ZenonT(60) DEF Local, MapOK, JobOK, Taking, Writing, Effective
<1>4. k.pending \subseteq staged /\ staged \subseteq Nat
    BY <1>2, <1>3, ZenonT(60) DEF Local, WritesOK, Typed, JobType, BlockType
<1>5. CASE Fail(c, blocks, NoBlock, {}) /\ UNCHANGED db
  <2>1. FailsAs(c, NoBlock, {})
    BY <1>1, <1>5, OwnFailure, ZenonT(60) DEF Taking
  <2> QED BY <1>1, <1>5, <2>1, FailureKeeps, SMTT(60)
<1>6. ASSUME NEW i \in JobType, i.pc \in {"wrap", "done"}, i.block = NoBlock, i.msg = j.msg,
             i.multi = j.multi, i.left = j.left,
             db' = published, job' = [job EXCEPT ![c] = i], conn' = [conn EXCEPT ![c].pending = {}],
             UNCHANGED blocks, NEW m \in {{}, k.pending},
             told' = [told EXCEPT !.committed = @ \cup m]
      PROVE  WireInv'
  <2>1. JobOK(i)
    BY <1>1, <1>2, <1>6, Nothing, ZenonT(60) DEF Local, JobOK, Taking, BlockOK
  <2>2. l \in ConnType /\ l.task = k.task /\ l.pending = {}
    BY <1>2, SMTT(60) DEF Typed, ConnType
  <2>3. WritesOK(l, i, b) /\ Open(l, i, b) = {}
    <3>1. Effective(i, b) = NoBlock /\ Writing(i) = {}
      BY <1>3, <1>6, ZenonT(60) DEF Effective, Writing, Taking
    <3> HIDE DEF l
    <3> QED BY <3>1, <2>2, Nothing, ZenonT(60) DEF WritesOK, Open
  <2>4. Local(l, i, b, r, server.stage)
    <3> HIDE DEF l
    <3>1. BlockOK(b) /\ b.kind # "implicit" /\ i.pc \notin Idle /\ j.pc \notin Idle /\ i.pc \notin Taking
      BY <1>1, <1>3, <1>6, Nothing, ZenonT(60) DEF BlockOK, Idle, Taking
    <3> QED BY <1>2, <2>1, <2>2, <2>3, <3>1, AtWork, ZenonT(60)
  <2>5. Turn(c, l, i, b, r)
    BY <1>1, <1>6, ZenonT(60) DEF Turn, WireInv, Types
  <2>6. WorkerTurn(c, l, i, b)
    BY <1>1, <1>2, <1>6, <2>2, <2>4, <2>5, ZenonT(60) DEF WorkerTurn, Typed, Idle
  <2>7. /\ told' \in ToldType /\ told'.committed = told.committed \cup m
        /\ told'.failed = told.failed /\ m \subseteq staged
    BY <1>4, <1>6, ZenonT(60) DEF WireInv, Types, ToldType
  <2>8. /\ db' \in DbType /\ db'.published = db.published \cup staged /\ db'.next = db.next
        /\ db'.version = db.version
    BY <1>4, <1>6, ZenonT(60) DEF WireInv, Types, DbType
  <2>9. staged \subseteq Open(k, j, b)
    BY <1>3, ZenonT(60) DEF Open
  <2>10. Moves(Open(k, j, b), Open(l, i, b), staged, {}, m, {})
    <3> HIDE DEF staged, l
    <3> QED BY <2>3, <2>7, <2>8, <2>9, ZenonT(60) DEF Moves
  <2>11. j.pc # "locked" /\ i.pc # "locked" /\ lock' = lock
    BY <1>1, <1>6, ZenonT(60)
  <2> HIDE DEF staged, l
  <2> QED BY <2>6, <2>7, <2>8, <2>10, <2>11, LocklessTurns, ZenonT(60)
<1>7. CASE /\ db' = published /\ job' = [job EXCEPT ![c].pc = "wrap", ![c].block = NoBlock]
           /\ conn' = [conn EXCEPT ![c].pending = {}]
           /\ told' = [told EXCEPT !.committed = @ \cup conn[c].pending] /\ UNCHANGED blocks
  <2> DEFINE i == [job[c] EXCEPT !.pc = "wrap", !.block = NoBlock]
  <2>1. /\ i \in JobType /\ i.pc \in {"wrap", "done"} /\ i.block = NoBlock /\ i.msg = j.msg
        /\ i.multi = j.multi /\ i.left = j.left
    BY <1>2, Nothing, ZenonT(60) DEF Typed, JobType, Pcs
  <2>2. job' = [job EXCEPT ![c] = i]
    BY <1>7, ZenonT(60) DEF WireInv, Types
  <2> HIDE DEF i
  <2> QED BY <1>6, <1>7, <2>1, <2>2, ZenonT(60)
<1>8. CASE /\ db' = published
           /\ job' = [job EXCEPT ![c].pc = "done", ![c].failed = TRUE, ![c].block = NoBlock]
           /\ conn' = [conn EXCEPT ![c].pending = {}] /\ UNCHANGED <<blocks, told>>
  <2> DEFINE i == [job[c] EXCEPT !.pc = "done", !.failed = TRUE, !.block = NoBlock]
  <2>1. /\ i \in JobType /\ i.pc \in {"wrap", "done"} /\ i.block = NoBlock /\ i.msg = j.msg
        /\ i.multi = j.multi /\ i.left = j.left
    BY <1>2, Nothing, ZenonT(60) DEF Typed, JobType, Pcs
  <2>2. job' = [job EXCEPT ![c] = i]
    BY <1>8, ZenonT(60) DEF WireInv, Types
  <2>3. told' = [told EXCEPT !.committed = @ \cup {}]
    BY <1>8 DEF WireInv, Types, ToldType
  <2> HIDE DEF i
  <2> QED BY <1>6, <1>8, <2>1, <2>2, <2>3, ZenonT(60)
<1> QED BY <1>5, <1>7, <1>8, ZenonT(60) DEF publish_block
\* The worker is counted out; nobody takes the answer if the task is gone.
LEMMA FinishStep ==
  ASSUME Premises, WireInv, NEW c \in Conns, finish_worker(c)
  PROVE  WireInv'
<1> DEFINE k == conn[c]  j == job[c]  r == registry[c]  b == blocks[c]
           i == IF conn[c].task = "busy" THEN [job[c] EXCEPT !.pc = "returned"] ELSE NoJob
<1>1. /\ j.pc = "done" /\ live_workers' = live_workers - 1
      /\ UNCHANGED <<plan, conn, blocks, registry, lock, db, server, told>>
    BY SMTT(60) DEF finish_worker
<1>2. /\ Types /\ Locals /\ Counted /\ Locked /\ Owned /\ AnswersTrue /\ BoundCatalogHolds
      /\ SlotsAccounted /\ Typed(k, j, b, r) /\ Local(k, j, b, r, server.stage)
    BY Mine, ZenonT(60) DEF WireInv
<1>3. i \in JobType /\ i.block = NoBlock /\ i.pc \in Idle /\ (i.pc = "returned" <=> k.task = "busy")
      /\ (i = NoJob \/ (i.msg = j.msg /\ i.multi = j.multi /\ i.left = j.left))
  <2>1. j.block = NoBlock
    BY <1>1, <1>2, ZenonT(60) DEF Local, JobOK, Taking
  <2>2. CASE k.task = "busy"
    BY <1>2, <2>1, <2>2, ZenonT(60) DEF Typed, JobType, Pcs, Idle
  <2>3. CASE k.task # "busy"
    BY <2>3, Nothing, SMTT(60) DEF Idle
  <2> QED BY <2>2, <2>3, ZenonT(60)
<1>4. Turn(c, k, i, b, r)
  <2>1. /\ conn' = [conn EXCEPT ![c] = k] /\ registry' = [registry EXCEPT ![c] = r]
        /\ blocks' = [blocks EXCEPT ![c] = b]
    BY <1>1, <1>2, ZenonT(60) DEF Types
  <2>2. job' = [job EXCEPT ![c] = i]
    BY <1>1, <1>2, ZenonT(60) DEF finish_worker, Types
  <2> QED BY <2>1, <2>2, SMTT(60) DEF Turn
<1> HIDE DEF i
<1>5. Effective(i, b) = b /\ Effective(j, b) = b /\ Writing(i) = {} /\ Writing(j) = {}
    BY <1>1, <1>3, ZenonT(60) DEF Effective, Writing, Taking, Idle
<1>6. Open(k, i, b) = Open(k, j, b) /\ WritesOK(k, i, b)
    BY <1>2, <1>5, ZenonT(60) DEF Open, Local, WritesOK
<1>7. JobOK(i)
  <2>1. CASE i = NoJob
    BY <2>1, Nothing, ZenonT(60) DEF JobOK, Taking, BlockOK
  <2>2. CASE i.msg = j.msg /\ i.multi = j.multi /\ i.left = j.left
    BY <1>2, <1>3, <2>2, Nothing, ZenonT(60) DEF Local, JobOK, BlockOK, Idle
  <2> QED BY <1>3, <2>1, <2>2, ZenonT(60)
<1>8. b.kind # "implicit" /\ k.task \in {"none", "busy"} /\ (k.task = "none" => server.stage # "serving")
  <2>1. k.task \in Tasks
    BY <1>2, ZenonT(60) DEF Typed, ConnType
  <2> QED BY <1>1, <1>2, <2>1, ZenonT(60) DEF Local, MapOK, TaskOK, Tasks
<1>9. TaskOK(k, i, r, server.stage)
    BY <1>1, <1>2, <1>3, <1>8, ZenonT(60) DEF Local, TaskOK, Idle
<1>10. MapOK(k, i, b, server.stage)
    BY <1>2, <1>3, <1>8, ZenonT(60) DEF Local, MapOK, Taking, Idle
<1>11. Local(k, i, b, r, server.stage) /\ Typed(k, i, b, r)
    BY <1>2, <1>3, <1>6, <1>7, <1>9, <1>10, ZenonT(60) DEF Local, Typed
<1>12. server'.stage = server.stage /\ server'.active = server.active /\ db'.version = db.version
       /\ lock' = lock /\ plan' = plan
    BY <1>1, ZenonT(60)
<1>13. /\ Locals'
       /\ conn' \in [Conns -> ConnType] /\ job' \in [Conns -> JobType]
       /\ blocks' \in [Conns -> BlockType] /\ registry' \in [Conns -> EntryType]
       /\ \A d \in Conns \ {c} :
            Open(conn'[d], job'[d], blocks'[d]) \subseteq Open(conn[d], job[d], blocks[d])
    BY <1>2, <1>4, <1>11, <1>12, TurnLocals, ZenonT(60)
<1>14. Types'
    BY <1>1, <1>2, <1>13, ZenonT(60) DEF Types
<1>15. Moves(Open(k, j, b), Open(k, i, b), {}, {}, {}, {})
    BY <1>1, <1>6, ZenonT(60) DEF Moves
<1>16. Owned' /\ AnswersTrue'
    BY <1>2, <1>4, <1>13, <1>15, WritesMove, ZenonT(60)
<1>17. job[c].pc # "locked" /\ i.pc # "locked" /\ job[c].pc \notin Idle
    BY <1>1, <1>3, ZenonT(60) DEF Idle
<1>18. Locked' /\ BoundCatalogHolds' /\ SlotsAccounted'
    BY <1>2, <1>4, <1>12, <1>17, LockStays, CatalogStays, SlotsStay, ZenonT(60) DEF Lockless
<1>19. Counted'
    BY <1>1, <1>2, <1>3, <1>4, <1>12, <1>17, WorkerEnds, ZenonT(60)
<1> QED BY <1>13, <1>14, <1>16, <1>18, <1>19, ZenonT(60) DEF WireInv
=============================================================================
