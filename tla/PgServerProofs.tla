--------------------------- MODULE PgServerProofs ---------------------------
(***************************************************************************)
(* The wire server answers truly, keeps its connections apart and shuts    *)
(* down in order, for any number of connections and any messages: the      *)
(* steps of connection tasks and of the whole server keep the invariant of *)
(* PgWorkerProofs too, and the three properties follow from it.            *)
(***************************************************************************)
EXTENDS PgWorkerProofs

(* The steps of a connection task.                                         *)

LEMMA Turns ==
  ASSUME WireInv, NEW c \in Conns, NEW k, NEW j, NEW b, NEW r, Turn(c, k, j, b, r),
         Typed(k, j, b, r), Local(k, j, b, r, server.stage),
         UNCHANGED <<plan, lock, db>>, server' \in ServerType, server'.stage = server.stage,
         Lockless(c, j), told' \in ToldType,
         NEW f, Moves(Open(conn[c], job[c], blocks[c]), Open(k, j, b), {}, f, {}, {})
  PROVE  Types' /\ Locals' /\ Locked' /\ Owned' /\ AnswersTrue' /\ BoundCatalogHolds'
<1>1. Types /\ Locals /\ Locked /\ Owned /\ AnswersTrue /\ BoundCatalogHolds
    BY ZenonT(60) DEF WireInv
<1>2. db'.version = db.version /\ lock' = lock
    BY ZenonT(60)
<1>3. /\ Locals'
      /\ conn' \in [Conns -> ConnType] /\ job' \in [Conns -> JobType]
      /\ blocks' \in [Conns -> BlockType] /\ registry' \in [Conns -> EntryType]
      /\ \A d \in Conns \ {c} :
           Open(conn'[d], job'[d], blocks'[d]) \subseteq Open(conn[d], job[d], blocks[d])
    BY <1>1, TurnLocals, ZenonT(60)
<1>4. Types'
    BY <1>1, <1>3, ZenonT(60) DEF Types
<1>5. Owned' /\ AnswersTrue'
    BY <1>1, <1>3, WritesMove, ZenonT(60)
<1>6. Locked' /\ BoundCatalogHolds'
    BY <1>1, <1>2, LockStays, CatalogStays, ZenonT(60) DEF Lockless
<1> QED BY <1>3, <1>4, <1>5, <1>6, ZenonT(60)

\* Neither a worker nor a slot comes or goes.
LEMMA TaskTurns ==
  ASSUME WireInv, NEW c \in Conns, NEW k, NEW j, NEW b, NEW r, Turn(c, k, j, b, r),
         Typed(k, j, b, r), Local(k, j, b, r, server.stage),
         UNCHANGED <<plan, live_workers, lock, db, told>>,
         server' \in ServerType, server'.stage = server.stage, server'.active = server.active,
         Lockless(c, j), j.pc \in Idle <=> job[c].pc \in Idle,
         k.task = "none" <=> conn[c].task = "none",
         Open(k, j, b) \subseteq Open(conn[c], job[c], blocks[c])
  PROVE  WireInv'
<1>1. Types /\ Counted /\ SlotsAccounted /\ told' \in ToldType
    BY ZenonT(60) DEF WireInv, Types
<1>2. Moves(Open(conn[c], job[c], blocks[c]), Open(k, j, b), {}, {}, {}, {})
    BY ZenonT(60) DEF Moves
<1>3. Types' /\ Locals' /\ Locked' /\ Owned' /\ AnswersTrue' /\ BoundCatalogHolds'
    BY <1>1, <1>2, Turns, ZenonT(60)
<1>4. Counted'
    BY <1>1, WorkersStay, ZenonT(60)
<1>5. SlotsAccounted'
    BY <1>1, SlotsStay, ZenonT(60)
<1> QED BY <1>3, <1>4, <1>5, ZenonT(60) DEF WireInv

\* Only the task changes, and what the client is owed stays what it is.
LEMMA TaskMoves ==
  ASSUME WireInv, NEW c \in Conns, NEW k \in ConnType, NEW r \in EntryType,
         conn' = [conn EXCEPT ![c] = k], registry' = [registry EXCEPT ![c] = r],
         UNCHANGED <<plan, job, blocks, live_workers, lock, db, server, told>>,
         k.pending = conn[c].pending, k.task = "none" <=> conn[c].task = "none",
         TaskOK(k, job[c], r, server.stage), MapOK(k, job[c], blocks[c], server.stage)
  PROVE  WireInv'
<1> DEFINE j == job[c]  b == blocks[c]
<1>1. Typed(conn[c], j, b, registry[c]) /\ Local(conn[c], j, b, registry[c], server.stage)
    BY Mine, ZenonT(60)
<1>2. Typed(k, j, b, r)
    BY <1>1, ZenonT(60) DEF Typed
<1>3. WritesOK(k, j, b) /\ Open(k, j, b) = Open(conn[c], j, b)
    BY <1>1, ZenonT(60) DEF Local, WritesOK, Open
<1>4. Local(k, j, b, r, server.stage)
    BY <1>1, <1>3, ZenonT(60) DEF Local
<1>5. Turn(c, k, j, b, r)
    BY SMTT(60) DEF Turn, WireInv, Types
<1>6. server' \in ServerType /\ server'.stage = server.stage /\ server'.active = server.active
    BY DEF WireInv, Types
<1> QED BY <1>2, <1>3, <1>4, <1>5, <1>6, TaskTurns, ZenonT(60) DEF Lockless

LEMMA StartupSteps ==
  ASSUME WireInv, NEW c \in Conns, startup_mode(c) \/ register_identity(c) \/ on_sync(c)
  PROVE  WireInv'
<1>1. Typed(conn[c], job[c], blocks[c], registry[c]) /\ Local(conn[c], job[c], blocks[c], registry[c], server.stage)
    BY Mine, ZenonT(60)
<1>2. registry = [registry EXCEPT ![c] = registry[c]] /\ registry[c] \in EntryType
    BY <1>1, SMTT(60) DEF WireInv, Types, Typed
<1>3. conn[c].task \in {"startup", "ready"} /\ job[c].pc = "none"
    BY <1>1, ZenonT(60) DEF startup_mode, register_identity, on_sync, Local, TaskOK
<1>4. job[c].pc # "locked"
    BY <1>3, ZenonT(60)
<1>5. CASE startup_mode(c)
  <2> DEFINE k == [conn[c] EXCEPT !.mode = IF db.bootstrap THEN "bootstrap" ELSE "scram"]
  <2>1. /\ k \in ConnType /\ k.task = conn[c].task /\ k.pending = conn[c].pending
        /\ k.status = conn[c].status /\ k.synced = conn[c].synced
    BY <1>1, ZenonT(60) DEF Typed, ConnType, Modes
  <2>2. /\ conn' = [conn EXCEPT ![c] = k]
        /\ UNCHANGED <<plan, job, blocks, registry, live_workers, lock, db, server, told>>
    BY <1>5 DEF startup_mode, WireInv, Types
  <2> HIDE DEF k
  <2>3. TaskOK(k, job[c], registry[c], server.stage) /\ MapOK(k, job[c], blocks[c], server.stage)
    BY <1>1, <2>1, ZenonT(60) DEF Local, TaskOK, MapOK
  <2> QED BY <1>2, <1>4, <2>1, <2>2, <2>3, TaskMoves, ZenonT(60)
<1>6. CASE /\ conn[c].task = "startup" /\ conn' = [conn EXCEPT ![c].task = "ending"]
           /\ UNCHANGED <<plan, job, blocks, registry, live_workers, lock, db, server, told>>
  <2> DEFINE k == [conn[c] EXCEPT !.task = "ending"]
  <2>1. k \in ConnType /\ k.task = "ending" /\ k.pending = conn[c].pending
    BY <1>1, ZenonT(60) DEF Typed, ConnType, Tasks
  <2>2. conn' = [conn EXCEPT ![c] = k]
    BY <1>6 DEF WireInv, Types
  <2> HIDE DEF k
  <2>3. TaskOK(k, job[c], registry[c], server.stage) /\ MapOK(k, job[c], blocks[c], server.stage)
    BY <1>1, <1>3, <1>6, <2>1, SMTT(60) DEF Local, TaskOK, MapOK
  <2> QED BY <1>2, <1>3, <1>4, <1>6, <2>1, <2>2, <2>3, TaskMoves, ZenonT(60)
<1>7. CASE /\ conn[c].task = "startup"
           /\ conn' = [conn EXCEPT ![c].task = "ready", ![c].authority = conn[c].mode]
           /\ registry' = [registry EXCEPT ![c] = [NoEntry EXCEPT !.known = TRUE]]
           /\ UNCHANGED <<plan, job, blocks, live_workers, lock, db, server, told>>
  <2> DEFINE k == [conn[c] EXCEPT !.task = "ready", !.authority = conn[c].mode]
             r == [NoEntry EXCEPT !.known = TRUE]
  <2>1. /\ k \in ConnType /\ k.task = "ready" /\ k.pending = conn[c].pending
        /\ k.status = conn[c].status
    BY <1>1, ZenonT(60) DEF Typed, ConnType, Tasks
  <2>2. r \in EntryType
    BY ZenonT(60) DEF NoEntry, EntryType
  <2>3. conn' = [conn EXCEPT ![c] = k]
    BY <1>7, ZenonT(60) DEF WireInv, Types
  <2> HIDE DEF k, r
  <2>4. blocks[c] = NoBlock /\ conn[c].status = "idle"
    BY <1>1, <1>7, SMTT(60) DEF Local, MapOK
  <2>5. TaskOK(k, job[c], r, server.stage)
    BY <1>1, <1>3, <1>7, <2>1, SMTT(60) DEF Local, TaskOK
  <2>6. MapOK(k, job[c], blocks[c], server.stage)
    BY <1>1, <1>3, <2>1, <2>4, Nothing, ZenonT(60) DEF Local, MapOK, BlockStatus, BlockOK
  <2>7. registry' = [registry EXCEPT ![c] = r]
    BY <1>7, SMTT(60) DEF r
  <2> QED BY <1>3, <1>4, <1>7, <2>1, <2>2, <2>3, <2>5, <2>6, <2>7, TaskMoves, ZenonT(60)
<1>8. CASE on_sync(c)
  <2> DEFINE k == [conn[c] EXCEPT !.synced = TRUE, !.skip = FALSE, !.portal = NoPortal,
                                  !.status = BlockStatus(blocks[c])]
  <2>1. /\ k \in ConnType /\ k.task = conn[c].task /\ k.pending = conn[c].pending
        /\ k.status = BlockStatus(blocks[c])
    BY <1>1, ZenonT(60) DEF Typed, ConnType, PortalType, NoPortal, Stmts, BlockStatus
  <2>2. /\ conn' = [conn EXCEPT ![c] = k] /\ conn[c].task = "ready"
        /\ UNCHANGED <<plan, job, blocks, registry, live_workers, lock, db, server, told>>
    BY <1>8, ZenonT(60) DEF on_sync, WireInv, Types
  <2> HIDE DEF k
  <2>3. TaskOK(k, job[c], registry[c], server.stage) /\ MapOK(k, job[c], blocks[c], server.stage)
    BY <1>1, <2>1, <2>2, ZenonT(60) DEF Local, TaskOK, MapOK
  <2> QED BY <1>2, <1>4, <2>1, <2>2, <2>3, TaskMoves, ZenonT(60)
<1> QED BY <1>5, <1>6, <1>7, <1>8, ZenonT(60) DEF register_identity
\* A peer goes away, and a cancel request arrives, whatever the worker is at.
LEMMA OutsideSteps ==
  ASSUME WireInv, NEW c \in Conns, disconnect(c) \/ on_cancel_request(c)
  PROVE  WireInv'
<1>1. Typed(conn[c], job[c], blocks[c], registry[c]) /\ Local(conn[c], job[c], blocks[c], registry[c], server.stage)
    BY Mine, ZenonT(60)
<1>2. /\ registry = [registry EXCEPT ![c] = registry[c]] /\ registry[c] \in EntryType
      /\ conn = [conn EXCEPT ![c] = conn[c]] /\ conn[c] \in ConnType
    BY <1>1, SMTT(60) DEF WireInv, Types, Typed
<1>3. CASE disconnect(c)
  <2> DEFINE k == [conn[c] EXCEPT !.gone = TRUE]
  <2>1. /\ k \in ConnType /\ k.task = conn[c].task /\ k.pending = conn[c].pending
        /\ k.status = conn[c].status /\ k.synced = conn[c].synced
    BY <1>1, ZenonT(60) DEF Typed, ConnType
  <2>2. /\ conn' = [conn EXCEPT ![c] = k]
        /\ UNCHANGED <<plan, job, blocks, registry, live_workers, lock, db, server, told>>
    BY <1>3 DEF disconnect, WireInv, Types
  <2> HIDE DEF k
  <2>3. TaskOK(k, job[c], registry[c], server.stage) /\ MapOK(k, job[c], blocks[c], server.stage)
    BY <1>1, <2>1, ZenonT(60) DEF Local, TaskOK, MapOK
  <2> QED BY <1>2, <2>1, <2>2, <2>3, TaskMoves, ZenonT(60)
<1>4. CASE on_cancel_request(c)
  <2> DEFINE r == [registry[c] EXCEPT !.cancelled = @ \/ registry[c].active]
  <2>1. r \in EntryType /\ r.active = registry[c].active /\ (registry[c].cancelled => r.cancelled)
    BY <1>1, ZenonT(60) DEF Typed, EntryType
  <2>2. /\ registry' = [registry EXCEPT ![c] = r]
        /\ UNCHANGED <<plan, conn, job, blocks, live_workers, lock, db, server, told>>
    BY <1>4, SMTT(60) DEF on_cancel_request, CancelToken, WireInv, Types
  <2> HIDE DEF r
  <2>3. TaskOK(conn[c], job[c], r, server.stage) /\ MapOK(conn[c], job[c], blocks[c], server.stage)
    BY <1>1, <2>1, ZenonT(60) DEF Local, TaskOK
  <2>4. conn' = [conn EXCEPT ![c] = conn[c]]
    BY <1>2, <2>2, SMTT(60)
  <2> QED BY <1>2, <2>1, <2>2, <2>3, <2>4, TaskMoves, ZenonT(60)
<1> QED BY <1>3, <1>4, SMTT(60)

\* The late packet of a control socket, which also gives its place back.
LEMMA CapacityCancelStep ==
  ASSUME WireInv, NEW c \in Conns, receive_capacity_cancel(c)
  PROVE  WireInv'
<1> DEFINE k == conn[c]  j == job[c]  b == blocks[c]
           r == [registry[c] EXCEPT !.cancelled = @ \/ registry[c].active]
<1>1. Typed(k, j, b, registry[c]) /\ Local(k, j, b, registry[c], server.stage)
    BY Mine, ZenonT(60)
<1>2. /\ server' = [server EXCEPT !.control = @ - 1]
      /\ UNCHANGED <<plan, conn, job, blocks, live_workers, lock, db, told>>
      /\ CancelToken(c) \/ UNCHANGED registry
    BY DEF receive_capacity_cancel
<1>3. server' \in ServerType /\ server'.stage = server.stage /\ server'.active = server.active
    BY <1>2 DEF WireInv, Types, ServerType
<1>4. PICK e \in {registry[c], r} : registry' = [registry EXCEPT ![c] = e]
    BY <1>2 DEF CancelToken, WireInv, Types
<1>5. e \in EntryType /\ e.active = registry[c].active /\ (registry[c].cancelled => e.cancelled)
    BY <1>1, SMTT(60) DEF Typed, EntryType
<1>6. Typed(k, j, b, e) /\ Local(k, j, b, e, server.stage)
    BY <1>1, <1>5, ZenonT(60) DEF Typed, Local, TaskOK
<1>7. Turn(c, k, j, b, e)
    BY <1>2, <1>4, SMTT(60) DEF Turn, WireInv, Types
<1> QED BY <1>2, <1>3, <1>6, <1>7, TaskTurns, ZenonT(60) DEF Lockless

\* Time passes over an idle block.
LEMMA AgeStep ==
  ASSUME WireInv, NEW c \in Conns, age(c)
  PROVE  WireInv'
<1> DEFINE k == conn[c]  j == job[c]  b == blocks[c]  r == registry[c]
           e == [blocks[c] EXCEPT !.stale = TRUE]
<1>1. Typed(k, j, b, r) /\ Local(k, j, b, r, server.stage)
    BY Mine, ZenonT(60)
<1>2. /\ b.kind = "explicit" /\ b.txn.live /\ blocks' = [blocks EXCEPT ![c] = e]
      /\ UNCHANGED <<plan, conn, job, registry, live_workers, lock, db, server, told>>
    BY ZenonT(60) DEF age, WireInv, Types
<1>3. e \in BlockType /\ e.kind = b.kind /\ e.txn = b.txn
    BY <1>1, ZenonT(60) DEF Typed, BlockType
<1>4. b # NoBlock /\ e # NoBlock /\ BlockOK(e) /\ BlockStatus(e) = BlockStatus(b)
    BY <1>2, <1>3, Nothing, ZenonT(60) DEF BlockOK, BlockStatus
<1> HIDE DEF e
<1>5. j.pc \notin Taking
    BY <1>1, <1>4, ZenonT(60) DEF Local, MapOK
<1>6. Effective(j, e) = e /\ Effective(j, b) = b
    BY <1>5, SMTT(60) DEF Effective
<1>7. WritesOK(k, j, e) /\ Open(k, j, e) = Open(k, j, b)
    BY <1>1, <1>3, <1>4, <1>6, ZenonT(60) DEF Local, WritesOK, Open
<1>8. MapOK(k, j, e, server.stage)
    BY <1>1, <1>2, <1>3, <1>4, <1>5, ZenonT(60) DEF Local, MapOK
<1>9. Local(k, j, e, r, server.stage) /\ Typed(k, j, e, r)
    BY <1>1, <1>3, <1>7, <1>8, ZenonT(60) DEF Local, Typed
<1>10. Turn(c, k, j, e, r)
    BY <1>2, ZenonT(60) DEF Turn, WireInv, Types
<1>11. server' \in ServerType /\ server'.stage = server.stage /\ server'.active = server.active
    BY <1>2, SMTT(60) DEF WireInv, Types
<1> QED BY <1>2, <1>7, <1>9, <1>10, <1>11, TaskTurns, ZenonT(60) DEF Lockless
-----------------------------------------------------------------------------
(* Slots come and go.                                                      *)

LEMMA TakenIsFinite ==
  ASSUME Premises
  PROVE  IsFiniteSet(Taken) /\ Cardinality(Taken) \in Nat
BY FiniteSubset, FiniteCardinalityType, ZenonT(60) DEF Premises, Setting, Taken

LEMMA SlotTurns ==
  ASSUME WireInv, NEW c \in Conns, NEW k, NEW j, NEW b, NEW r, Turn(c, k, j, b, r),
         Typed(k, j, b, r), Local(k, j, b, r, server.stage),
         UNCHANGED <<plan, live_workers, lock, db>>,
         server' \in ServerType, server'.stage = server.stage,
         Lockless(c, j), j.pc \in Idle <=> job[c].pc \in Idle,
         NEW f, told' \in ToldType, told'.failed = told.failed \cup f,
         told'.committed = told.committed,
         f \subseteq Open(conn[c], job[c], blocks[c]),
         Open(k, j, b) \subseteq Open(conn[c], job[c], blocks[c]), Open(k, j, b) \cap f = {},
         SlotsAccounted'
  PROVE  WireInv'
<1>1. Types /\ Counted
    BY ZenonT(60) DEF WireInv
<1>4. Moves(Open(conn[c], job[c], blocks[c]), Open(k, j, b), {}, f, {}, {})
    BY ZenonT(60) DEF Moves
<1>5. Types' /\ Locals' /\ Locked' /\ Owned' /\ AnswersTrue' /\ BoundCatalogHolds'
    BY <1>4, Turns, ZenonT(60)
<1>6. Counted'
    BY <1>1, WorkersStay, ZenonT(60)
<1> QED BY <1>5, <1>6, ZenonT(60) DEF WireInv

LEMMA AcceptStep ==
  ASSUME Premises, WireInv, NEW c \in Conns, accept(c)
  PROVE  WireInv'
<1> DEFINE k == [NoConn EXCEPT !.task = "startup"]
           j == job[c]  b == blocks[c]  r == registry[c]
<1>1. Typed(conn[c], j, b, r) /\ Local(conn[c], j, b, r, server.stage)
    BY Mine, ZenonT(60)
<1>2. /\ server.stage = "serving" /\ conn[c].task = "none" /\ j.pc = "none"
      /\ Cardinality(Taken) < plan.max_connections /\ conn' = [conn EXCEPT ![c] = k]
      /\ server' = [server EXCEPT !.active = @ + 1]
      /\ UNCHANGED <<plan, job, blocks, registry, live_workers, lock, db, told>>
    BY DEF accept, Serving
<1>3. /\ k \in ConnType /\ k.task = "startup" /\ k.pending = {} /\ k.status = "idle" /\ k.synced
    BY Nothing, ZenonT(60) DEF NoConn, ConnType, Tasks
<1>4. b = NoBlock
    BY <1>1, <1>2 DEF Local, MapOK
<1> HIDE DEF k
<1>5. j.pc \notin Taking /\ Effective(j, b) = NoBlock /\ Writing(j) = {}
    BY <1>2, <1>4 DEF Taking, Effective, Writing
<1>6. WritesOK(k, j, b) /\ Open(k, j, b) = {}
    BY <1>3, <1>5, Nothing, ZenonT(60) DEF WritesOK, Open
<1>7. TaskOK(k, j, r, server.stage)
    BY <1>2, <1>3, SMTT(60) DEF TaskOK
<1>8. MapOK(k, j, b, server.stage)
    BY <1>1, <1>3, <1>4, Nothing, ZenonT(60) DEF Local, MapOK
<1>9. Local(k, j, b, r, server.stage) /\ Typed(k, j, b, r)
    BY <1>1, <1>3, <1>6, <1>7, <1>8, ZenonT(60) DEF Local, Typed
<1>10. Turn(c, k, j, b, r)
    BY <1>2, ZenonT(60) DEF Turn, WireInv, Types
<1>11. /\ server' \in ServerType /\ server'.stage = server.stage
       /\ server'.active = server.active + 1
    BY <1>2 DEF WireInv, Types, ServerType
<1>12. /\ told' \in ToldType /\ told'.failed = told.failed \cup {}
       /\ told'.committed = told.committed
    BY <1>2 DEF WireInv, Types
<1>13. SlotsAccounted'
  <2>1. Taken' = Taken \cup {c} /\ c \notin Taken
    BY <1>2, <1>3, <1>10, TurnParts, SMTT(60) DEF Taken, WireInv
  <2>2. Cardinality(Taken') = Cardinality(Taken) + 1
    BY <2>1, TakenIsFinite, FiniteAddElement, SMTT(60)
  <2>3. plan.max_connections \in Nat /\ plan' = plan
    BY <1>2, ZenonT(60) DEF WireInv, Types, Premises, Setting
  <2>4. server.active = Cardinality(Taken)
    BY <1>2, SMTT(60) DEF WireInv, SlotsAccounted, Serving
  <2> QED BY <1>2, <1>11, <2>2, <2>3, <2>4, TakenIsFinite, SMTT(60) DEF SlotsAccounted
<1>14. Lockless(c, j) /\ (j.pc \in Idle <=> job[c].pc \in Idle)
    BY DEF Lockless
<1>15. /\ {} \subseteq Open(conn[c], job[c], blocks[c]) /\ Open(k, j, b) \cap {} = {}
       /\ Open(k, j, b) \subseteq Open(conn[c], job[c], blocks[c])
    BY <1>6, ZenonT(60)
<1> QED BY <1>2, <1>9, <1>10, <1>11, <1>12, <1>13, <1>14, <1>15, SlotTurns, ZenonT(60)

LEMMA EndStep ==
  ASSUME Premises, WireInv, NEW c \in Conns, end_connection(c)
  PROVE  WireInv'
<1> DEFINE j == job[c]
<1>1. Typed(conn[c], j, blocks[c], registry[c]) /\ Local(conn[c], j, blocks[c], registry[c], server.stage)
    BY Mine, ZenonT(60)
<1>2. /\ conn[c].task \in {"ending", "startup", "ready"} /\ conn' = [conn EXCEPT ![c] = NoConn]
      /\ blocks' = [blocks EXCEPT ![c] = NoBlock] /\ registry' = [registry EXCEPT ![c] = NoEntry]
      /\ server' = [server EXCEPT !.active = @ - 1]
      /\ told' = [told EXCEPT !.failed = @ \cup conn[c].pending]
      /\ UNCHANGED <<plan, job, live_workers, lock, db>>
    BY DEF end_connection, cleanup_connection, Lose
<1>3. j.pc = "none"
    BY <1>1, <1>2, SMTT(60) DEF Local, TaskOK
<1>4. j.pc \notin Taking /\ Effective(j, NoBlock) = NoBlock /\ Writing(j) = {}
    BY <1>3, SMTT(60) DEF Taking, Effective, Writing
<1>5. WritesOK(NoConn, j, NoBlock) /\ Open(NoConn, j, NoBlock) = {}
    BY <1>4, Nothing, ZenonT(60) DEF WritesOK, Open
<1>6. TaskOK(NoConn, j, NoEntry, server.stage) /\ MapOK(NoConn, j, NoBlock, server.stage)
    BY <1>3, Nothing, ZenonT(60) DEF TaskOK, MapOK, BlockOK
<1>7. Local(NoConn, j, NoBlock, NoEntry, server.stage) /\ Typed(NoConn, j, NoBlock, NoEntry)
    BY <1>1, <1>5, <1>6, Nothing, ZenonT(60) DEF Local, Typed
<1>8. Turn(c, NoConn, j, NoBlock, NoEntry)
    BY <1>2 DEF Turn, WireInv, Types
<1>9. /\ server' \in ServerType /\ server'.stage = server.stage
      /\ server'.active = server.active - 1
    BY <1>2, SMTT(60) DEF WireInv, Types, ServerType
<1>10. conn[c].pending \subseteq Open(conn[c], job[c], blocks[c])
    BY ZenonT(60) DEF Open
<1>11. /\ told' \in ToldType /\ told'.failed = told.failed \cup conn[c].pending
       /\ told'.committed = told.committed
    BY <1>1, <1>2, ZenonT(60) DEF WireInv, Types, ToldType, Typed, ConnType
<1>12. SlotsAccounted'
  <2>1. Taken' = Taken \ {c} /\ c \in Taken
    BY <1>2, <1>8, TurnParts, Nothing, ZenonT(60) DEF Taken, WireInv
  <2>2. Cardinality(Taken') = Cardinality(Taken) - 1
    BY <2>1, TakenIsFinite, FiniteRemoveElement, ZenonT(60)
  <2>3. plan.max_connections \in Nat /\ plan' = plan
    BY <1>2, ZenonT(60) DEF WireInv, Types, Premises, Setting
  <2>4. /\ server.stage = "serving" => server.active = Cardinality(Taken)
        /\ Cardinality(Taken) <= plan.max_connections
    BY SMTT(60) DEF WireInv, SlotsAccounted, Serving
  <2> QED BY <1>9, <2>2, <2>3, <2>4, TakenIsFinite, SMTT(60) DEF SlotsAccounted, Serving
<1>13. /\ Open(NoConn, j, NoBlock) \subseteq Open(conn[c], job[c], blocks[c])
       /\ Open(NoConn, j, NoBlock) \cap conn[c].pending = {}
    BY <1>5, SMTT(60)
<1>14. Lockless(c, j) /\ (j.pc \in Idle <=> job[c].pc \in Idle)
    BY SMTT(60) DEF Lockless
<1> HIDE DEF j
<1> QED BY <1>2, <1>7, <1>8, <1>9, <1>10, <1>11, <1>12, <1>13, <1>14, SlotTurns, ZenonT(60)

LEMMA AbortStep ==
  ASSUME Premises, WireInv, NEW c \in Conns, abort_connection(c)
  PROVE  WireInv'
<1> DEFINE j == IF job[c].pc = "returned" THEN NoJob ELSE job[c]
           b == blocks[c]  r == DropLease(c)
<1>1. Typed(conn[c], job[c], b, registry[c]) /\ Local(conn[c], job[c], b, registry[c], server.stage)
    BY Mine, ZenonT(60)
<1>2. /\ server.stage = "aborting" /\ conn[c].task # "none"
      /\ conn' = [conn EXCEPT ![c] = NoConn] /\ registry' = [registry EXCEPT ![c] = r]
      /\ job' = [job EXCEPT ![c] = j]
      /\ UNCHANGED <<plan, blocks, live_workers, lock, db, server, told>>
    BY DEF abort_connection, WireInv, Types
<1>3. /\ r \in EntryType /\ (registry[c].active => r.cancelled)
    BY <1>1, ZenonT(60) DEF DropLease, Typed, EntryType
<1>4. /\ j \in JobType /\ j.pc # "returned" /\ (j.pc # "none" => j = job[c]) /\ JobOK(j)
      /\ j = job[c] \/ (j = NoJob /\ job[c].pc = "returned")
    BY <1>1, Nothing, ZenonT(60) DEF Typed, Local, JobOK, BlockOK
<1> HIDE DEF j, r
<1>5. j.pc # "none" => r.cancelled
  <2>1. SUFFICES ASSUME j.pc # "none" PROVE r.cancelled
    BY SMTT(60)
  <2>2. conn[c].task = "busy"
    BY <1>1, <1>2, <1>4, <2>1, ZenonT(60) DEF Typed, ConnType, Tasks, Local, TaskOK
  <2> QED BY <1>1, <1>3, <2>2, ZenonT(60) DEF Local, TaskOK
<1>6. TaskOK(NoConn, j, r, server.stage)
    BY <1>2, <1>4, <1>5, Nothing, ZenonT(60) DEF TaskOK
<1>7. MapOK(NoConn, j, b, server.stage)
    BY <1>1, <1>2, <1>4, Nothing, ZenonT(60) DEF Local, MapOK, Taking
<1>8. Effective(j, b) = Effective(job[c], b) /\ Writing(j) = Writing(job[c])
    BY <1>4, Nothing, ZenonT(60) DEF Effective, Writing, Taking
<1>9. WritesOK(NoConn, j, b) /\ Open(NoConn, j, b) \subseteq Open(conn[c], job[c], b)
    BY <1>1, <1>8, Nothing, ZenonT(60) DEF Local, WritesOK, Open
<1>10. Local(NoConn, j, b, r, server.stage) /\ Typed(NoConn, j, b, r)
    BY <1>1, <1>3, <1>4, <1>6, <1>7, <1>9, Nothing, ZenonT(60) DEF Local, Typed
<1>11. Turn(c, NoConn, j, b, r)
    BY <1>2, ZenonT(60) DEF Turn, WireInv, Types
<1>12. server' \in ServerType /\ server'.stage = server.stage
    BY <1>2, SMTT(60) DEF WireInv, Types
<1>13. /\ told' \in ToldType /\ told'.failed = told.failed \cup {}
       /\ told'.committed = told.committed
    BY <1>2, SMTT(60) DEF WireInv, Types
<1>14. Lockless(c, j) /\ (j.pc \in Idle <=> job[c].pc \in Idle)
    BY <1>4, Nothing, ZenonT(60) DEF Lockless, Idle
<1>15. SlotsAccounted'
  <2>1. Taken' \subseteq Taken
    BY <1>2, Nothing, ZenonT(60) DEF Taken, WireInv, Types
  <2>2. Cardinality(Taken') <= Cardinality(Taken) /\ Cardinality(Taken') \in Nat
    BY <2>1, TakenIsFinite, FiniteSubset, FiniteCardinalityType
  <2>3. plan.max_connections \in Nat /\ plan' = plan
    BY <1>2, ZenonT(60) DEF WireInv, Types, Premises, Setting
  <2>4. Cardinality(Taken) <= plan.max_connections
    BY DEF WireInv, SlotsAccounted
  <2> QED BY <1>2, <2>2, <2>3, <2>4, TakenIsFinite, SMTT(60) DEF SlotsAccounted, Serving
<1>16. {} \subseteq Open(conn[c], job[c], blocks[c]) /\ Open(NoConn, j, b) \cap {} = {}
    BY SMTT(60)
<1> QED BY <1>2, <1>9, <1>10, <1>11, <1>12, <1>13, <1>14, <1>15, <1>16, SlotTurns, ZenonT(60)
-----------------------------------------------------------------------------
(* A message goes to a worker, and the answer comes back.                  *)

LEMMA Spawns ==
  ASSUME Premises, WireInv, NEW c \in Conns, NEW j \in JobType, Spawn(c, j),
         conn[c].task = "ready", j.pc \in {"parse", "bind", "run", "validate"}, JobOK(j)
  PROVE  WireInv'
<1> DEFINE k == [conn[c] EXCEPT !.task = "busy"]  b == blocks[c]
           r == [registry[c] EXCEPT !.active = TRUE, !.cancelled = FALSE]
<1>1. Typed(conn[c], job[c], b, registry[c]) /\ Local(conn[c], job[c], b, registry[c], server.stage)
    BY Mine, ZenonT(60)
<1>2. /\ conn' = [conn EXCEPT ![c] = k] /\ job' = [job EXCEPT ![c] = j]
      /\ registry' = [registry EXCEPT ![c] = r] /\ live_workers' = live_workers + 1
      /\ server' = [server EXCEPT !.messages = @ + 1]
      /\ UNCHANGED <<plan, blocks, lock, db, told>>
    BY ZenonT(60) DEF Spawn, BeginQuery, WireInv, Types
<1>3. k \in ConnType /\ k.task = "busy" /\ k.pending = conn[c].pending /\ r \in EntryType /\ r.active
    BY <1>1, ZenonT(60) DEF Typed, ConnType, Tasks, EntryType
<1> HIDE DEF k, r
<1>4. /\ job[c].pc = "none" /\ server.stage \in {"serving", "aborting"}
    BY <1>1, ZenonT(60) DEF Local, TaskOK
<1>5. j.pc \notin Taking /\ job[c].pc \notin Taking /\ j.pc \notin {"none", "locked"}
    BY <1>4, SMTT(60) DEF Taking
<1>6. /\ Effective(j, b) = b /\ Effective(job[c], b) = b /\ Writing(j) = {} /\ Writing(job[c]) = {}
    BY <1>4, <1>5, SMTT(60) DEF Effective, Writing
<1>7. WritesOK(k, j, b) /\ Open(k, j, b) = Open(conn[c], job[c], blocks[c])
    BY <1>1, <1>3, <1>6, ZenonT(60) DEF Local, WritesOK, Open
<1>8. TaskOK(k, j, r, server.stage)
    BY <1>3, <1>4, <1>5, ZenonT(60) DEF TaskOK
<1>9. MapOK(k, j, b, server.stage)
    BY <1>1, <1>3, <1>4, <1>5, ZenonT(60) DEF Local, MapOK
<1>10. Local(k, j, b, r, server.stage) /\ Typed(k, j, b, r)
    BY <1>1, <1>3, <1>7, <1>8, <1>9, ZenonT(60) DEF Local, Typed
<1>11. Turn(c, k, j, b, r)
    BY <1>2, ZenonT(60) DEF Turn, WireInv, Types
<1>12. /\ server' \in ServerType /\ server'.stage = server.stage
       /\ server'.active = server.active
    BY <1>2, SMTT(60) DEF WireInv, Types, ServerType
<1>13. /\ Types /\ Counted /\ SlotsAccounted /\ told' \in ToldType
       /\ k.task = "none" <=> conn[c].task = "none"
       /\ j.pc \notin Idle /\ job[c].pc \in Idle /\ Lockless(c, j)
    BY <1>2, <1>3, <1>4, SMTT(60) DEF WireInv, Types, Idle, Lockless
<1>14. Moves(Open(conn[c], job[c], blocks[c]), Open(k, j, b), {}, {}, {}, {})
    BY <1>2, <1>7, SMTT(60) DEF Moves
<1>15. Types' /\ Locals' /\ Locked' /\ Owned' /\ AnswersTrue' /\ BoundCatalogHolds'
    BY <1>2, <1>10, <1>11, <1>12, <1>13, <1>14, Turns, ZenonT(60)
<1>16. Counted'
    BY <1>2, <1>4, <1>11, <1>12, <1>13, WorkerStarts, ZenonT(60)
<1>17. SlotsAccounted'
    BY <1>2, <1>11, <1>12, <1>13, SlotsStay, ZenonT(60)
<1> QED BY <1>15, <1>16, <1>17, SMTT(60) DEF WireInv

LEMMA QueryStep ==
  ASSUME Premises, WireInv, NEW c \in Conns, NEW q \in plan.queries, on_query(c, q)
  PROVE  WireInv'
<1> DEFINE j == [NoJob EXCEPT !.pc = "parse", !.msg = "simple", !.left = q, !.multi = Len(q) > 1]
<1>1. q \in Seq(Stmts)
    BY ZenonT(60) DEF Premises, Setting, WireInv, Types
<1>2. /\ j.pc = "parse" /\ j.msg = "simple" /\ j.block = NoBlock
    BY DEF NoJob
<1>3. j \in JobType
  <2> DEFINE m == Len(q) > 1
  <2>1. m \in BOOLEAN
    OBVIOUS
  <2>2. j = [NoJob EXCEPT !.pc = "parse", !.msg = "simple", !.left = q, !.multi = m]
    OBVIOUS
  <2> HIDE DEF m, j
  <2> QED BY <1>1, <2>1, <2>2, Nothing, ZenonT(60) DEF JobType, Pcs, Messages
<1>4. conn[c].task = "ready" /\ Spawn(c, j)
    BY DEF on_query, Listening
<1> HIDE DEF j
<1>5. JobOK(j)
    BY <1>2, Nothing, ZenonT(60) DEF JobOK, BlockOK, Taking
<1> QED BY <1>2, <1>3, <1>4, <1>5, Spawns, ZenonT(60)

LEMMA ParseMessageStep ==
  ASSUME Premises, WireInv, NEW c \in Conns, NEW s \in plan.statements, on_parse(c, s)
  PROVE  WireInv'
<1> DEFINE j == [NoJob EXCEPT !.pc = "bind", !.msg = "parse", !.stmt = s]
<1>1. s \in Stmts
    BY ZenonT(60) DEF Premises, Setting, WireInv, Types
<1>2. /\ j.pc = "bind" /\ j.msg = "parse" /\ j.block = NoBlock /\ ~j.multi /\ j.left = <<>>
    BY DEF NoJob
<1>3. j \in JobType
    BY <1>1, Nothing, ZenonT(60) DEF NoJob, JobType, Pcs, Messages
<1>4. conn[c].task = "ready" /\ Spawn(c, j)
    BY DEF on_parse, Listening
<1> HIDE DEF j
<1>5. JobOK(j)
    BY <1>2, Nothing, ZenonT(60) DEF JobOK, BlockOK, Taking
<1> QED BY <1>2, <1>3, <1>4, <1>5, Spawns, SMTT(60)

LEMMA ExecuteStep ==
  ASSUME Premises, WireInv, NEW c \in Conns, on_execute(c)
  PROVE  WireInv'
<1> DEFINE p == conn[c].portal
           j == [NoJob EXCEPT !.pc = IF p.state = "initial" THEN "run" ELSE "validate",
                              !.msg = "execute", !.stmt = p.stmt, !.version = p.version]
<1>1. p.stmt \in Stmts /\ p.version \in Nat
    BY Mine, ZenonT(60) DEF Typed, ConnType, PortalType
<1>2. /\ j.pc \in {"run", "validate"} /\ j.msg = "execute" /\ j.block = NoBlock
      /\ ~j.multi /\ j.left = <<>>
    BY DEF NoJob
<1>3. j \in JobType
    BY <1>1, Nothing, ZenonT(60) DEF NoJob, JobType, Pcs, Messages
<1>4. conn[c].task = "ready" /\ Spawn(c, j)
    BY DEF on_execute, Listening
<1> HIDE DEF j
<1>5. JobOK(j)
    BY <1>2, Nothing, ZenonT(60) DEF JobOK, BlockOK, Taking
<1> QED BY <1>2, <1>3, <1>4, <1>5, Spawns, SMTT(60)

LEMMA DeliverStep ==
  ASSUME WireInv, NEW c \in Conns, deliver(c)
  PROVE  WireInv'
<1> DEFINE r == DropLease(c)
<1>1. Typed(conn[c], job[c], blocks[c], registry[c]) /\ Local(conn[c], job[c], blocks[c], registry[c], server.stage)
    BY Mine, ZenonT(60)
<1>2. /\ conn[c].task = "busy" /\ job[c].pc = "returned"
      /\ registry' = [registry EXCEPT ![c] = r] /\ job' = [job EXCEPT ![c] = NoJob]
      /\ UNCHANGED <<plan, live_workers, lock, db, server, told>>
    BY ZenonT(60) DEF deliver
<1>3. r \in EntryType
    BY <1>1, ZenonT(60) DEF DropLease, Typed, EntryType
<1> HIDE DEF r
<1>4. /\ blocks[c].kind # "implicit" /\ BlockOK(blocks[c]) /\ server.stage \in {"serving", "aborting"}
    BY <1>1, <1>2, ZenonT(60) DEF Local, MapOK, TaskOK
<1>5. \A e : Effective(NoJob, e) = e /\ Effective(job[c], e) = e
    BY <1>2, Nothing, ZenonT(60) DEF Effective, Taking
<1>6. Writing(NoJob) = {} /\ Writing(job[c]) = {}
    BY <1>2, Nothing, SMTT(60) DEF Writing
<1>7. /\ Lockless(c, NoJob) /\ (NoJob.pc \in Idle <=> job[c].pc \in Idle) /\ JobOK(NoJob)
      /\ server' \in ServerType /\ server'.stage = server.stage /\ server'.active = server.active
    BY <1>2, Nothing, ZenonT(60) DEF Lockless, Idle, JobOK, BlockOK, WireInv, Types, Taking
<1>8. CASE conn[c].gone
  <2> DEFINE k == [conn[c] EXCEPT !.task = "ending"]
             b == fail_simple_query(c, blocks[c])
  <2>1. /\ conn' = [conn EXCEPT ![c] = k] /\ blocks' = [blocks EXCEPT ![c] = b]
    BY <1>8, ZenonT(60) DEF deliver, WireInv, Types
  <2>2. k \in ConnType /\ k.task = "ending" /\ k.pending = conn[c].pending
    BY <1>1, SMTT(60) DEF Typed, ConnType, Tasks
  <2>3. /\ b \in BlockType /\ BlockOK(b) /\ b.kind # "implicit" /\ b.txn = NoTxn
        /\ b = NoBlock => blocks[c] = NoBlock
    <3>1. CASE blocks[c] = NoBlock
      BY <3>1, Nothing, ZenonT(60) DEF fail_simple_query, BlockOK
    <3>2. CASE blocks[c] # NoBlock
      <4>1. b = Aborted(blocks[c]) /\ blocks[c].kind # "none" /\ blocks[c] \in BlockType
        BY <1>1, <1>4, <3>2, ZenonT(60) DEF fail_simple_query, BlockOK, Typed
      <4> HIDE DEF b
      <4> QED BY <1>4, <4>1, AbortedBlock, SMTT(60)
    <3> QED BY <3>1, <3>2, ZenonT(60)
  <2> HIDE DEF k, b
  <2>4. TaskOK(k, NoJob, r, server.stage) /\ MapOK(k, NoJob, b, server.stage)
    BY <1>4, <2>2, <2>3, Nothing, ZenonT(60) DEF TaskOK, MapOK, Taking
  <2>5. WritesOK(k, NoJob, b) /\ Open(k, NoJob, b) \subseteq Open(conn[c], job[c], blocks[c])
    BY <1>1, <1>5, <1>6, <2>2, <2>3, Nothing, ZenonT(60) DEF Local, WritesOK, Open
  <2>6. Typed(k, NoJob, b, r) /\ Local(k, NoJob, b, r, server.stage)
    BY <1>3, <1>7, <2>2, <2>3, <2>4, <2>5, Nothing, ZenonT(60) DEF Typed, Local
  <2>7. Turn(c, k, NoJob, b, r)
    BY <1>2, <2>1, ZenonT(60) DEF Turn
  <2>8. k.task = "none" <=> conn[c].task = "none"
    BY <1>2, <2>2, ZenonT(60)
  <2> QED BY <1>2, <1>7, <2>5, <2>6, <2>7, <2>8, TaskTurns, ZenonT(60)
<1>9. CASE ~conn[c].gone
  <2> DEFINE simple == job[c].msg = "simple"
             k == [conn[c] EXCEPT !.task = "ready", !.synced = simple,
                     !.status = IF simple THEN BlockStatus(blocks[c]) ELSE @,
                     !.portal = PortalAfter(c), !.skip = job[c].failed /\ ~simple]
             b == blocks[c]
  <2>1. /\ conn' = [conn EXCEPT ![c] = k] /\ UNCHANGED blocks
    BY <1>9, ZenonT(60) DEF deliver, WireInv, Types
  <2>2. PortalAfter(c) \in PortalType
    BY <1>1, ZenonT(60) DEF PortalAfter, Typed, ConnType, JobType, PortalType
  <2>3. job[c].failed \in BOOLEAN
    BY <1>1 DEF Typed, JobType
  <2>4. BlockStatus(b) \in {"idle", "transaction", "error"}
    BY DEF BlockStatus
  <2>5. /\ k \in ConnType /\ k.task = "ready" /\ k.pending = conn[c].pending
        /\ k.synced => k.status = BlockStatus(b)
    BY <1>1, <2>2, <2>3, <2>4, ZenonT(60) DEF Typed, ConnType, Tasks
  <2> HIDE DEF k
  <2>6. TaskOK(k, NoJob, r, server.stage) /\ MapOK(k, NoJob, b, server.stage)
    BY <1>4, <2>5, Nothing, ZenonT(60) DEF TaskOK, MapOK, Taking
  <2>7. WritesOK(k, NoJob, b) /\ Open(k, NoJob, b) = Open(conn[c], job[c], b)
    BY <1>1, <1>5, <1>6, <2>5, ZenonT(60) DEF Local, WritesOK, Open
  <2>8. Typed(k, NoJob, b, r) /\ Local(k, NoJob, b, r, server.stage)
    BY <1>1, <1>3, <1>7, <2>5, <2>6, <2>7, Nothing, ZenonT(60) DEF Typed, Local
  <2>9. Turn(c, k, NoJob, b, r)
    BY <1>2, <2>1, ZenonT(60) DEF Turn, WireInv, Types
  <2>10. k.task = "none" <=> conn[c].task = "none"
    BY <1>2, <2>5, ZenonT(60)
  <2> QED BY <1>2, <1>7, <2>7, <2>8, <2>9, <2>10, TaskTurns, ZenonT(60)
<1> QED BY <1>8, <1>9, SMTT(60)
-----------------------------------------------------------------------------
(* The steps of the whole server.                                          *)

LEMMA ServerMoves ==
  ASSUME WireInv, UNCHANGED <<plan, conn, job, blocks, live_workers, lock, told>>,
         registry' \in [Conns -> EntryType], server' \in ServerType, db' \in DbType,
         db'.version = db.version, db'.published = db.published, db'.next = db.next,
         \A c \in Conns : TaskOK(conn[c], job[c], registry'[c], server'.stage),
         server'.stage = "serving" => server.stage = "serving" /\ server'.active = server.active,
         server'.stage \in {"closing", "closed", "live_references"} => live_workers = 0
  PROVE  WireInv'
<1>1. Types'
    BY ZenonT(60) DEF WireInv, Types
<1>2. Locals'
  <2> SUFFICES ASSUME NEW c \in Conns
               PROVE  Local(conn[c], job[c], blocks[c], registry'[c], server'.stage)
    BY ZenonT(60) DEF Locals
  <2>1. Local(conn[c], job[c], blocks[c], registry[c], server.stage)
    BY Mine, ZenonT(60)
  <2>2. MapOK(conn[c], job[c], blocks[c], server'.stage)
    BY <2>1, ZenonT(60) DEF Local, MapOK
  <2> QED BY <2>1, <2>2, ZenonT(60) DEF Local
<1>3. Workers' = Workers
    BY ZenonT(60) DEF Workers, Running
<1>4. Counted'
    BY <1>3, SMTT(60) DEF WireInv, Counted
<1>5. Locked'
    BY ZenonT(60) DEF WireInv, Locked, Exclusive
<1>6. Owned' /\ AnswersTrue'
    BY ZenonT(60) DEF WireInv, Owned, AnswersTrue
<1>7. BoundCatalogHolds'
    BY ZenonT(60) DEF WireInv, BoundCatalogHolds, Stale
<1>8. Taken' = Taken
    BY SMTT(60) DEF Taken
<1>9. SlotsAccounted'
    BY <1>8 DEF WireInv, SlotsAccounted, Serving
<1> QED BY <1>1, <1>2, <1>4, <1>5, <1>6, <1>7, <1>9, SMTT(60) DEF WireInv

LEMMA ServerSteps ==
  ASSUME Premises, WireInv,
         \/ provision \/ accept_control \/ request_shutdown \/ cancel_all \/ join_connections
         \/ wait_for_idle \/ close_shared_database \/ UNCHANGED wvars
  PROVE  WireInv'
<1>1. /\ registry \in [Conns -> EntryType] /\ server \in ServerType /\ db \in DbType
      /\ \A c \in Conns : TaskOK(conn[c], job[c], registry[c], server.stage)
      /\ server.stage \in {"closing", "closed", "live_references"} => live_workers = 0
    BY ZenonT(60) DEF WireInv, Types, Locals, Local, Counted
<1>2. server \in ServerType
    BY <1>1
<1>3. \A m \in ServerType, x \in Stages, n \in Int :
        /\ [m EXCEPT !.stage = x, !.control = n] \in ServerType
        /\ [m EXCEPT !.stage = x, !.active = n] \in ServerType
        /\ [m EXCEPT !.stage = x, !.control = n].stage = x
        /\ [m EXCEPT !.stage = x, !.active = n].stage = x
    BY ZenonT(60) DEF ServerType
<1>4. "draining" \in Stages /\ "closing" \in Stages /\ 0 \in Int
    BY DEF Stages
<1>5. CASE provision
  <2>1. /\ db' \in DbType /\ db'.version = db.version /\ db'.published = db.published
        /\ db'.next = db.next
        /\ UNCHANGED <<plan, conn, job, blocks, registry, live_workers, lock, server, told>>
    BY <1>1, <1>5, ZenonT(60) DEF provision, DbType
  <2> QED BY <1>1, <2>1, ServerMoves, ZenonT(60)
<1>6. CASE accept_control
  <2>1. server' = [server EXCEPT !.control = @ + 1]
    BY <1>6 DEF accept_control
  <2>2. /\ server' \in ServerType /\ server'.stage = server.stage
        /\ server'.active = server.active
    BY <1>2, <2>1 DEF ServerType
  <2>3. UNCHANGED <<plan, conn, job, blocks, registry, live_workers, lock, db, told>>
    BY <1>6, SMTT(60) DEF accept_control
  <2> QED BY <1>1, <2>2, <2>3, ServerMoves, ZenonT(60)
<1>7. CASE request_shutdown
  <2>1. server' = [server EXCEPT !.shutdown = TRUE]
    BY <1>7 DEF request_shutdown
  <2>2. /\ server' \in ServerType /\ server'.stage = server.stage
        /\ server'.active = server.active
    BY <1>2, <2>1, ZenonT(60) DEF ServerType
  <2>3. UNCHANGED <<plan, conn, job, blocks, registry, live_workers, lock, db, told>>
    BY <1>7 DEF request_shutdown
  <2> QED BY <1>1, <2>2, <2>3, ServerMoves, ZenonT(60)
<1>8. CASE cancel_all
  <2>1. /\ server.stage = "serving" /\ server' \in ServerType /\ server'.stage = "aborting"
        /\ UNCHANGED <<plan, conn, job, blocks, live_workers, lock, db, told>>
    BY <1>2, <1>8, ZenonT(60) DEF cancel_all, Stage, ServerType, Stages
  <2>2. /\ registry' \in [Conns -> EntryType]
        /\ \A c \in Conns : /\ registry'[c].active = registry[c].active
                            /\ registry[c].cancelled => registry'[c].cancelled
    BY <1>1, <1>8, SMTT(60) DEF cancel_all, EntryType
  <2>3. \A c \in Conns : TaskOK(conn[c], job[c], registry'[c], server'.stage)
    BY <1>1, <2>1, <2>2, ZenonT(60) DEF TaskOK
  <2> QED BY <1>1, <2>1, <2>2, <2>3, ServerMoves, ZenonT(60)
<1>9. CASE join_connections
  <2>1. server' = [server EXCEPT !.stage = "draining", !.control = 0]
    BY <1>9, SMTT(60) DEF join_connections
  <2>2. server' \in ServerType /\ server'.stage = "draining"
    BY <1>2, <1>3, <1>4, <2>1, ZenonT(60)
  <2>3. /\ Taken = {} /\ server' \in ServerType /\ server'.stage = "draining"
        /\ server.stage = "aborting"
        /\ UNCHANGED <<plan, conn, job, blocks, registry, live_workers, lock, db, told>>
    BY <1>9, <2>2, SMTT(60) DEF join_connections
  <2>4. \A c \in Conns : conn[c].task = "none"
    BY <2>3, ZenonT(60) DEF Taken
  <2>5. \A c \in Conns : TaskOK(conn[c], job[c], registry[c], server'.stage)
    BY <1>1, <2>3, <2>4, ZenonT(60) DEF TaskOK
  <2> QED BY <1>1, <2>3, <2>5, ServerMoves, ZenonT(60)
<1>10. CASE wait_for_idle
  <2>1. server' = [server EXCEPT !.stage = "closing", !.active = 0]
    BY <1>10, SMTT(60) DEF wait_for_idle
  <2>2. server' \in ServerType /\ server'.stage = "closing"
    BY <1>2, <1>3, <1>4, <2>1, ZenonT(60)
  <2>3. /\ live_workers = 0 /\ server' \in ServerType /\ server'.stage = "closing"
        /\ server.stage = "draining"
        /\ UNCHANGED <<plan, conn, job, blocks, registry, live_workers, lock, db, told>>
    BY <1>10, <2>2, SMTT(60) DEF wait_for_idle
  <2>4. \A c \in Conns : TaskOK(conn[c], job[c], registry[c], server'.stage)
    BY <1>1, <2>3, ZenonT(60) DEF TaskOK
  <2> QED BY <1>1, <2>3, <2>4, ServerMoves, ZenonT(60)
<1>11. CASE close_shared_database
  <2>1. /\ server' \in ServerType /\ server'.stage \in {"closed", "live_references"}
        /\ server.stage = "closing"
        /\ UNCHANGED <<plan, conn, job, blocks, registry, live_workers, lock, db, told>>
    BY <1>2, <1>11, SMTT(60) DEF close_shared_database, ServerType, Stages
  <2>2. \A c \in Conns : TaskOK(conn[c], job[c], registry[c], server'.stage)
    BY <1>1, <2>1, ZenonT(60) DEF TaskOK
  <2> QED BY <1>1, <2>1, <2>2, ServerMoves, ZenonT(60)
<1>12. CASE UNCHANGED wvars
  <2>1. UNCHANGED <<plan, conn, job, blocks, registry, live_workers, lock, db, server, told>>
    BY <1>12 DEF wvars
  <2> QED BY <1>1, <2>1, ServerMoves, ZenonT(60)
<1> QED BY <1>5, <1>6, <1>7, <1>8, <1>9, <1>10, <1>11, <1>12, SMTT(60)

-----------------------------------------------------------------------------
(* The invariant holds from the first state on.                            *)

LEMMA StartsInOrder ==
  ASSUME Premises, WireInit
  PROVE  WireInv
<1>1. /\ plan \in Plans /\ plan.bootstrap \in BOOLEAN /\ plan.max_connections \in Nat
      /\ conn = [c \in Conns |-> NoConn] /\ job = [c \in Conns |-> NoJob]
      /\ blocks = [c \in Conns |-> NoBlock] /\ registry = [c \in Conns |-> NoEntry]
      /\ live_workers = 0 /\ lock = [readers |-> {}, writer |-> {}]
      /\ db = [version |-> 1, published |-> {}, next |-> 1, bootstrap |-> plan.bootstrap]
      /\ server = [stage |-> "serving", shutdown |-> FALSE, active |-> 0, control |-> 0, messages |-> 0]
      /\ told = [committed |-> {}, failed |-> {}]
    BY ZenonT(60) DEF WireInit, Premises, Setting
<1>2. lock \in LockType /\ db \in DbType /\ server \in ServerType /\ told \in ToldType
  <2>1. lock \in LockType /\ told \in ToldType
    BY <1>1, ZenonT(60) DEF LockType, ToldType
  <2>2. db \in DbType
    BY <1>1, ZenonT(60) DEF DbType
  <2>3. server \in ServerType
    BY <1>1 DEF ServerType, Stages
  <2> QED BY <2>1, <2>2, <2>3, ZenonT(60)
<1>3. Types
    BY <1>1, <1>2, Nothing, ZenonT(60) DEF Types
<1>4. /\ Effective(NoJob, NoBlock) = NoBlock /\ Writing(NoJob) = {}
      /\ Open(NoConn, NoJob, NoBlock) = {}
    BY Nothing, ZenonT(60) DEF Effective, Writing, Open
<1>5. Local(NoConn, NoJob, NoBlock, NoEntry, "serving")
    BY <1>4, Nothing, ZenonT(60) DEF Local, TaskOK, JobOK, MapOK, WritesOK, BlockOK, Taking
<1>6. Locals
    BY <1>1, <1>5, ZenonT(60) DEF Locals
<1>7. Workers = {} /\ Taken = {}
    BY <1>1, Nothing, ZenonT(60) DEF Workers, Running, Taken
<1>8. Counted /\ SlotsAccounted
  <2>1. Cardinality(Workers) = 0 /\ Cardinality(Taken) = 0
    BY <1>7, FiniteEmptySet
  <2>2. live_workers = 0 /\ server.active = 0 /\ 0 <= plan.max_connections
    BY <1>1
  <2> QED BY <2>1, <2>2, ZenonT(60) DEF Counted, SlotsAccounted
<1>9. Locked /\ BoundCatalogHolds
    BY <1>1, Nothing, ZenonT(60) DEF Locked, BoundCatalogHolds
<1>10. Owned /\ AnswersTrue
    BY <1>1, <1>4, ZenonT(60) DEF Owned, AnswersTrue
<1> QED BY <1>3, <1>6, <1>8, <1>9, <1>10, SMTT(60) DEF WireInv

LEMMA NextKeepsOrder ==
  ASSUME Premises, WireInv, [WireNext]_wvars
  PROVE  WireInv'
<1>1. CASE Accepts \/ Endings \/ Aborts
    BY <1>1, AcceptStep, EndStep, AbortStep, ZenonT(60) DEF Accepts, Endings, Aborts
<1>2. CASE Startups \/ Registrations \/ Syncs
    BY <1>2, StartupSteps, ZenonT(60) DEF Startups, Registrations, Syncs
<1>3. CASE Disconnects \/ CancelRequests \/ CapacityCancels
    BY <1>3, OutsideSteps, CapacityCancelStep, SMTT(60) DEF Disconnects, CancelRequests, CapacityCancels
<1>4. CASE Queries \/ Parses \/ Executes
    BY <1>4, QueryStep, ParseMessageStep, ExecuteStep, ZenonT(60) DEF Queries, Parses, Executes
<1>5. CASE ParseSteps \/ NextSteps \/ BindSteps \/ ValidateSteps \/ RunSteps
    BY <1>5, ParseStep, NextStep, BindStep, ValidateStep, RunStep, ZenonT(60)
    DEF ParseSteps, NextSteps, BindSteps, ValidateSteps, RunSteps
<1>6. CASE LockSteps \/ BlockSteps \/ AutocommitSteps \/ PublishSteps \/ WrapSteps
    BY <1>6, LockStep, InBlockStep, AutocommitStep, PublishStep, WrapStep, ZenonT(60)
    DEF LockSteps, BlockSteps, AutocommitSteps, PublishSteps, WrapSteps
<1>7. CASE FinishSteps \/ Deliveries \/ Ages
    BY <1>7, FinishStep, DeliverStep, AgeStep, ZenonT(60) DEF FinishSteps, Deliveries, Ages
<1>8. CASE \/ provision \/ accept_control \/ request_shutdown \/ cancel_all \/ join_connections
           \/ wait_for_idle \/ close_shared_database \/ UNCHANGED wvars
    BY <1>8, ServerSteps, ZenonT(60)
<1> QED BY <1>1, <1>2, <1>3, <1>4, <1>5, <1>6, <1>7, <1>8, ZenonT(60) DEF WireNext

LEMMA OrderHolds ==
  ASSUME Premises
  PROVE  WireSpec => []WireInv
<1>1. WireInit => WireInv
    BY StartsInOrder
<1>2. WireInv /\ [WireNext]_wvars => WireInv'
    BY NextKeepsOrder
<1> QED BY <1>1, <1>2, PTL DEF WireSpec

INSTANCE FiniteSetTheorems

LEMMA PremisesHold ==
  ASSUME Setting
  PROVE  Premises
<1>1. IsFiniteSet({}) /\ Cardinality({}) = 0
  BY FS_EmptySet, ZenonT(60)
<1>2. \A S : IsFiniteSet(S) => Cardinality(S) \in Nat /\ (Cardinality(S) = 0 <=> S = {})
  BY FS_EmptySet, FS_CardinalityType, ZenonT(60)
<1>3. \A S : \A T \in SUBSET S :
        IsFiniteSet(S) => IsFiniteSet(T) /\ Cardinality(T) <= Cardinality(S)
  BY FS_Subset
<1>4. \A S, x : IsFiniteSet(S) =>
        /\ IsFiniteSet(S \cup {x})
        /\ Cardinality(S \cup {x}) = IF x \in S THEN Cardinality(S) ELSE Cardinality(S) + 1
  BY FS_AddElement
<1>5. \A S, x : IsFiniteSet(S) =>
        /\ IsFiniteSet(S \ {x})
        /\ Cardinality(S \ {x}) = IF x \in S THEN Cardinality(S) - 1 ELSE Cardinality(S)
  BY FS_RemoveElement
<1> QED BY <1>1, <1>2, <1>3, <1>4, <1>5, Zenon DEF Premises, FiniteLaws

\* Every answer is true: a write called committed is published, one called failed
\* never is; an implicit block ends with its message, the status sent is the state
\* of the block, and a statement runs under the catalog it was bound at.
THEOREM AnswersAreTrue ==
  ASSUME Setting
  PROVE  WireSpec => []AnswersHold
<1>1. WireInv => AnswersHold
  <2> SUFFICES ASSUME WireInv PROVE AnswersHold
    BY ZenonT(60)
  <2>1. AnswersTrue /\ BoundCatalogHolds
    BY SMTT(60) DEF WireInv
  <2>2. ImplicitEnds
    <3> SUFFICES ASSUME NEW c \in Conns, blocks[c].kind = "implicit"
                 PROVE  job[c].msg = "simple" /\ Running(c) /\ job[c].multi
      BY SMTT(60) DEF ImplicitEnds
    <3> QED BY Mine, ZenonT(60) DEF Local, MapOK, JobOK, Running
  <2>3. StatusTruthful
    BY Mine, ZenonT(60) DEF StatusTruthful, Local, MapOK
  <2> QED BY <2>1, <2>2, <2>3, ZenonT(60) DEF AnswersHold
<1> QED BY <1>1, PremisesHold, OrderHolds, PTL

\* The slots in use are the live connections, and no block outlives its own.
THEOREM ConnectionsEndTogether ==
  ASSUME Setting
  PROVE  WireSpec => []ConnectionsHold
<1>1. WireInv => ConnectionsHold
  <2> SUFFICES ASSUME WireInv PROVE ConnectionsHold
    OBVIOUS
  <2>1. SlotsAccounted
    BY SMTT(60) DEF WireInv
  <2>2. BlocksHaveOwners
    <3> SUFFICES ASSUME NEW c \in Conns, Serving, blocks[c] # NoBlock
                 PROVE  conn[c].task \in {"ready", "busy", "ending"}
      BY SMTT(60) DEF BlocksHaveOwners
    <3>1. conn[c].task \in Tasks /\ MapOK(conn[c], job[c], blocks[c], server.stage)
      BY Mine, ZenonT(60) DEF Typed, ConnType, Local
    <3> QED BY <3>1, ZenonT(60) DEF MapOK, Tasks, Serving
  <2> QED BY <2>1, <2>2, ZenonT(60) DEF ConnectionsHold
<1> QED BY <1>1, PremisesHold, OrderHolds, PTL

\* The database is closed with every worker counted out and no reference left, and
\* the workers that outlive their connections are all cancelled.
THEOREM ShutdownIsOrderly ==
  ASSUME Setting
  PROVE  WireSpec => []ShutdownHolds
<1>1. WireInv => ShutdownHolds
  <2> SUFFICES ASSUME WireInv PROVE ShutdownHolds
    OBVIOUS
  <2>1. ShutdownReachesWorkers
    <3> SUFFICES ASSUME NEW c \in Conns, server.stage = "draining", Running(c)
                 PROVE  registry[c].cancelled
      BY SMTT(60) DEF ShutdownReachesWorkers
    <3>1. TaskOK(conn[c], job[c], registry[c], server.stage)
      BY Mine, ZenonT(60) DEF Local
    <3> QED BY <3>1 DEF TaskOK, Running
  <2>2. ASSUME server.stage \in {"closing", "closed", "live_references"}
        PROVE  References = {} /\ live_workers = 0 /\ lock = [readers |-> {}, writer |-> {}]
    <3>1. live_workers = 0 /\ Cardinality(Workers) = 0
      BY <2>2, ZenonT(60) DEF WireInv, Counted
    <3>2. IsFiniteSet(Workers)
      BY FiniteSubset, PremisesHold, ZenonT(60) DEF Setting, Workers
    <3>3. Workers = {}
      BY <3>1, <3>2, FiniteEmptySet, PremisesHold, SMTT(60)
    <3>4. \A c \in Conns : conn[c].task = "none"
      BY <2>2, Mine, ZenonT(60) DEF Local, TaskOK
    <3>5. \A c \in Conns : job[c].pc # "locked"
      BY <3>3, ZenonT(60) DEF Workers, Running
    <3>6. lock.readers = {} /\ lock.writer = {} /\ lock \in LockType
      BY <3>5, ZenonT(60) DEF WireInv, Locked, Types, LockType
    <3>7. lock = [readers |-> {}, writer |-> {}]
      BY <3>6, ZenonT(60) DEF LockType
    <3>8. References = {}
      BY <3>3, <3>4 DEF References, Taken, Workers
    <3> QED BY <3>1, <3>7, <3>8, SMTT(60)
  <2> QED BY <2>1, <2>2, ZenonT(60) DEF ShutdownHolds, ClosesAlone
<1> QED BY <1>1, PremisesHold, OrderHolds, PTL
=============================================================================
