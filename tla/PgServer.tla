------------------------------ MODULE PgServer -------------------------------
(* The PostgreSQL wire server: connection admission, startup, simple and     *)
(* extended queries on blocking workers, transaction blocks, cancellation    *)
(* and shutdown. A worker runs detached from the connection that awaits it.  *)
EXTENDS Integers, Sequences, FiniteSets

CONSTANTS Conns,          \* peer addresses
          Plans           \* what a behaviour may do: see Plan in MCServer

VARIABLES plan,
          conn,           \* connection tasks
          job,            \* the blocking worker of each connection
          blocks,         \* OmenDbHandler.transactions
          registry,       \* CancellationRegistry.entries, with the token of the running query
          live_workers,   \* QueryWorkers.active
          lock,           \* SharedDatabase: readers and writer
          db,             \* catalog version, what is published, bootstrap mode
          server,         \* stage of the accept loop, shutdown flag, control readers, counters
          told            \* history: writes reported as committed or as failed

wvars == <<plan, conn, job, blocks, registry, live_workers, lock, db, server, told>>

NoTxn == [live |-> FALSE, version |-> 0, staged |-> {}]
NoBlock == [kind |-> "none", txn |-> NoTxn, stale |-> FALSE]
NoPortal == [state |-> "none", stmt |-> "none", version |-> 0]
NoJob == [pc |-> "none", msg |-> "none", left |-> <<>>, multi |-> FALSE, stmt |-> "none",
          version |-> 0, block |-> NoBlock, id |-> 0, failed |-> FALSE]
NoConn == [task |-> "none", mode |-> "none", authority |-> "none", gone |-> FALSE,
           status |-> "idle", synced |-> TRUE, skip |-> FALSE, portal |-> NoPortal,
           pending |-> {}]
NoEntry == [known |-> FALSE, active |-> FALSE, cancelled |-> FALSE]
Controls == {"begin", "commit", "rollback"}

WireInit ==
  /\ plan \in Plans
  /\ conn = [c \in Conns |-> NoConn]
  /\ job = [c \in Conns |-> NoJob]
  /\ blocks = [c \in Conns |-> NoBlock]
  /\ registry = [c \in Conns |-> NoEntry]
  /\ live_workers = 0
  /\ lock = [readers |-> {}, writer |-> {}]
  /\ db = [version |-> 1, published |-> {}, next |-> 1, bootstrap |-> plan.bootstrap]
  /\ server = [stage |-> "serving", shutdown |-> FALSE, active |-> 0, control |-> 0, messages |-> 0]
  /\ told = [committed |-> {}, failed |-> {}]

-----------------------------------------------------------------------------
(* Connection tasks: run_accept_loop and ConnectionStartup.                  *)

Taken == {c \in Conns : conn[c].task # "none"}
Serving == server.stage = "serving"

accept(c) ==
  /\ Serving /\ conn[c].task = "none" /\ job[c].pc = "none"
  /\ Cardinality(Taken) < plan.max_connections
  /\ server.messages < plan.messages
  /\ conn' = [conn EXCEPT ![c] = [NoConn EXCEPT !.task = "startup"]]
  /\ server' = [server EXCEPT !.active = @ + 1]
  /\ UNCHANGED <<plan, job, blocks, registry, live_workers, lock, db, told>>

\* The first Startup message fixes the mode from what is committed now.
startup_mode(c) ==
  /\ conn[c].task = "startup" /\ conn[c].mode = "none"
  /\ conn' = [conn EXCEPT ![c].mode = IF db.bootstrap THEN "bootstrap" ELSE "scram"]
  /\ UNCHANGED <<plan, job, blocks, registry, live_workers, lock, db, server, told>>

\* A principal may have been provisioned while the startup yielded.
register_identity(c) ==
  /\ conn[c].task = "startup" /\ conn[c].mode # "none"
  /\ IF conn[c].mode = "bootstrap" /\ ~db.bootstrap
     THEN /\ conn' = [conn EXCEPT ![c].task = "ending"]
          /\ UNCHANGED registry
     ELSE /\ conn' = [conn EXCEPT ![c].task = "ready", ![c].authority = conn[c].mode]
          /\ registry' = [registry EXCEPT ![c] = [NoEntry EXCEPT !.known = TRUE]]
  /\ UNCHANGED <<plan, job, blocks, live_workers, lock, db, server, told>>

\* provision_wire_user, through another handle of the same database.
provision ==
  /\ plan.provision /\ db.bootstrap
  /\ db' = [db EXCEPT !.bootstrap = FALSE]
  /\ UNCHANGED <<plan, conn, job, blocks, registry, live_workers, lock, server, told>>

disconnect(c) ==
  /\ plan.disconnect /\ conn[c].task \in {"startup", "ready", "busy"} /\ ~conn[c].gone
  /\ conn' = [conn EXCEPT ![c].gone = TRUE]
  /\ UNCHANGED <<plan, job, blocks, registry, live_workers, lock, db, server, told>>

\* What an open block staged is told to nobody any more, and must not appear.
Lose(c) == told' = [told EXCEPT !.failed = @ \cup conn[c].pending]

\* Mutant: the block of a lost connection stays behind.
cleanup_connection_partly(c) ==
  /\ registry' = [registry EXCEPT ![c] = NoEntry]
  /\ UNCHANGED blocks
cleanup_connection(c) ==
  /\ blocks' = [blocks EXCEPT ![c] = NoBlock]
  /\ registry' = [registry EXCEPT ![c] = NoEntry]

\* process_socket returns: the task cleans up, then gives its slot back.
end_connection(c) ==
  /\ \/ conn[c].task = "ending"
     \/ conn[c].task \in {"startup", "ready"} /\ conn[c].gone
  /\ cleanup_connection(c)
  /\ conn' = [conn EXCEPT ![c] = NoConn]
  /\ server' = [server EXCEPT !.active = @ - 1]
  /\ Lose(c)
  /\ UNCHANGED <<plan, job, live_workers, lock, db>>

-----------------------------------------------------------------------------
(* Cancellation.                                                             *)

CancelToken(c) ==
  registry' = [registry EXCEPT ![c].cancelled = @ \/ registry[c].active]

\* A cancel request takes a free slot for a moment ...
on_cancel_request(c) ==
  /\ Serving /\ plan.cancel /\ registry[c].active /\ Cardinality(Taken) < plan.max_connections
  /\ CancelToken(c)
  /\ UNCHANGED <<plan, conn, job, blocks, live_workers, lock, db, server, told>>

\* ... and at capacity one of the few sockets that only read a cancel packet.
accept_control ==
  /\ Serving /\ plan.cancel /\ Cardinality(Taken) = plan.max_connections
  /\ server.control < plan.max_control
  /\ server' = [server EXCEPT !.control = @ + 1]
  /\ UNCHANGED <<plan, conn, job, blocks, registry, live_workers, lock, db, told>>

receive_capacity_cancel(c) ==
  /\ Serving /\ server.control > 0
  /\ server' = [server EXCEPT !.control = @ - 1]
  /\ CancelToken(c) \/ UNCHANGED registry         \* the packet, or one second without it
  /\ UNCHANGED <<plan, conn, job, blocks, live_workers, lock, db, told>>

\* begin_query: a fresh token for this message.
BeginQuery(c) == registry' = [registry EXCEPT ![c].active = TRUE, ![c].cancelled = FALSE]

-----------------------------------------------------------------------------
(* Messages. The task hands the work to a blocking worker and awaits it.     *)

Spawn(c, j) ==
  /\ job' = [job EXCEPT ![c] = j]
  /\ live_workers' = live_workers + 1
  /\ conn' = [conn EXCEPT ![c].task = "busy"]
  /\ BeginQuery(c)
  /\ server' = [server EXCEPT !.messages = @ + 1]
  /\ UNCHANGED <<plan, blocks, lock, db, told>>

Listening(c) == conn[c].task = "ready" /\ ~conn[c].gone /\ server.messages < plan.messages

on_query(c, q) ==
  /\ Listening(c) /\ conn[c].synced
  /\ Spawn(c, [NoJob EXCEPT !.pc = "parse", !.msg = "simple", !.left = q, !.multi = Len(q) > 1])

\* Parse, with the Bind that opens its portal.
on_parse(c, stmt) ==
  /\ Listening(c) /\ ~conn[c].skip
  /\ Spawn(c, [NoJob EXCEPT !.pc = "bind", !.msg = "parse", !.stmt = stmt])

\* A portal that has run is only validated again.
on_execute(c) ==
  LET portal == conn[c].portal IN
  /\ Listening(c) /\ ~conn[c].skip /\ portal.state # "none"
  /\ Spawn(c, [NoJob EXCEPT !.pc = IF portal.state = "initial" THEN "run" ELSE "validate",
                            !.msg = "execute", !.stmt = portal.stmt, !.version = portal.version])

-----------------------------------------------------------------------------
(* The worker. Failing is every early return with an error: the block of the  *)
(* connection becomes rollback-only, and a failed Query message removes the   *)
(* block it owns itself (fail_block, fail_simple_query, on_error).            *)

Aborted(b) == [b EXCEPT !.txn = NoTxn, !.stale = FALSE]
Running(c) == job[c].pc \notin {"none", "returned"}
WorkerKeeps == UNCHANGED <<plan, registry, live_workers, server>>

fail_simple_query(c, b) ==
  IF b = NoBlock \/ (job[c].msg = "simple" /\ b.kind = "implicit") THEN NoBlock ELSE Aborted(b)

\* bs is the map to start from, b the block of this connection, lost the writes
\* the answer calls failed.
Fail(c, bs, b, lost) ==
  /\ blocks' = [bs EXCEPT ![c] = fail_simple_query(c, b)]
  /\ job' = [job EXCEPT ![c].pc = "done", ![c].failed = TRUE, ![c].block = NoBlock]
  /\ conn' = [conn EXCEPT ![c].pending = {}]
  /\ told' = [told EXCEPT !.failed = @ \cup lost \cup conn[c].pending]

Go(c, pc) == job' = [job EXCEPT ![c].pc = pc] /\ UNCHANGED <<conn, told>>

age(c) ==
  /\ plan.age /\ blocks[c].kind = "explicit" /\ blocks[c].txn.live /\ ~blocks[c].stale
  /\ blocks' = [blocks EXCEPT ![c].stale = TRUE]
  /\ UNCHANGED <<plan, conn, job, registry, live_workers, lock, db, server, told>>

\* Every statement of every connection reaps the explicit blocks idle too long.
reap_idle_blocks == [d \in Conns |-> IF blocks[d].kind = "explicit" /\ blocks[d].stale
                                     THEN Aborted(blocks[d]) ELSE blocks[d]]

\* check_boundary: an aborted block accepts only its end.
OutOfBounds(b, stmt) == b # NoBlock /\ ~b.txn.live /\ stmt \notin {"commit", "rollback"}

\* authorize: bootstrap authority lasts only while the database is in that mode.
Authorized(c) == conn[c].authority = "bootstrap" => db.bootstrap

\* A Query message goes on with its next statement, or is through.
NextPc(c) == IF job[c].left = <<>> THEN "done" ELSE "next"

\* The whole Query message is parsed before its first statement runs.
parse_message(c) ==
  /\ job[c].pc = "parse"
  /\ IF \E i \in DOMAIN job[c].left : job[c].left[i] = "syntax"
     THEN Fail(c, blocks, blocks[c], {})
     ELSE Go(c, NextPc(c)) /\ UNCHANGED blocks
  /\ WorkerKeeps /\ UNCHANGED <<lock, db>>

NewBlock(kind) == [kind |-> kind, stale |-> FALSE,
                   txn |-> [live |-> TRUE, version |-> db.version, staged |-> {}]]
Readable(c) == lock.writer = {} \/ registry[c].cancelled

\* begin_implicit before each statement of a message with several.
next_statement(c) ==
  LET opens == job[c].multi /\ blocks[c] = NoBlock IN
  /\ job[c].pc = "next" /\ (opens => Readable(c))
  /\ IF opens /\ registry[c].cancelled THEN Fail(c, blocks, NoBlock, {})
     ELSE /\ blocks' = IF opens THEN [blocks EXCEPT ![c] = NewBlock("implicit")] ELSE blocks
          /\ job' = [job EXCEPT ![c].pc = "bind", ![c].stmt = Head(job[c].left),
                                ![c].left = Tail(job[c].left)]
          /\ UNCHANGED <<conn, told>>
  /\ WorkerKeeps /\ UNCHANGED <<lock, db>>

\* validate_access and check_transaction_catalog, of statement s bound at v.
Stale(c, b, v) == v # db.version \/ (b.txn.live /\ b.txn.version # db.version)

\* bind_statement, under the read lock; controls bind without the catalog.
bind_statement(c) ==
  LET bs == reap_idle_blocks
      stmt == job[c].stmt
      refused == \/ stmt = "bad" \/ OutOfBounds(bs[c], stmt)
                 \/ stmt \notin Controls /\ (~Authorized(c) \/ Stale(c, bs[c], db.version))
  IN /\ job[c].pc = "bind" /\ (stmt \in Controls \/ Readable(c))
     /\ IF registry[c].cancelled THEN Fail(c, blocks, blocks[c], {})
        ELSE IF refused THEN Fail(c, bs, bs[c], {})
        ELSE /\ blocks' = bs
             /\ job' = [job EXCEPT ![c].version = db.version,
                          ![c].pc = IF job[c].msg = "parse" THEN "done" ELSE "run"]
             /\ UNCHANGED <<conn, told>>
     /\ WorkerKeeps /\ UNCHANGED <<lock, db>>

\* validate_statement, for a portal that already ran and for Describe; a control
\* statement and one the boundary refuses never reach the read lock.
validate_statement(c) ==
  LET bs == reap_idle_blocks
      stmt == job[c].stmt
      refused == \/ OutOfBounds(bs[c], stmt)
                 \/ stmt \notin Controls /\ (~Authorized(c) \/ Stale(c, bs[c], job[c].version))
  IN /\ job[c].pc = "validate"
     /\ stmt \in Controls \/ OutOfBounds(bs[c], stmt) \/ Readable(c)
     /\ IF registry[c].cancelled THEN Fail(c, blocks, blocks[c], {})
        ELSE IF refused THEN Fail(c, bs, bs[c], {})
        ELSE blocks' = bs /\ Go(c, "done")
     /\ WorkerKeeps /\ UNCHANGED <<lock, db>>

-----------------------------------------------------------------------------
(* run_statement_inner.                                                      *)

begin_block(c, bs) ==
  /\ bs[c] # NoBlock \/ Readable(c)
  /\ blocks' = [bs EXCEPT ![c] = IF bs[c] # NoBlock THEN [bs[c] EXCEPT !.kind = "explicit"]
                                 ELSE NewBlock("explicit")]
  /\ Go(c, "wrap")

\* The block leaves the map before publication; a rollback-only one answers ROLLBACK.
commit_block(c, bs) ==
  /\ blocks' = [bs EXCEPT ![c] = NoBlock]
  /\ IF bs[c].txn.live
     THEN /\ job' = [job EXCEPT ![c].pc = "commit", ![c].block = bs[c]]
          /\ UNCHANGED <<conn, told>>
     ELSE /\ job' = [job EXCEPT ![c].pc = "wrap"]
          /\ conn' = [conn EXCEPT ![c].pending = {}]
          /\ told' = [told EXCEPT !.failed = @ \cup conn[c].pending]

rollback_block(c, bs) ==
  /\ blocks' = [bs EXCEPT ![c] = NoBlock]
  /\ job' = [job EXCEPT ![c].pc = "wrap"]
  /\ conn' = [conn EXCEPT ![c].pending = {}]
  /\ told' = [told EXCEPT !.failed = @ \cup conn[c].pending]

\* A statement takes its block out of the map while it runs.
take_block(c, bs) ==
  /\ blocks' = [bs EXCEPT ![c] = NoBlock]
  /\ job' = [job EXCEPT ![c].pc = "lock", ![c].block = bs[c]]
  /\ UNCHANGED <<conn, told>>

run_statement(c) ==
  LET bs == reap_idle_blocks
      stmt == job[c].stmt
  IN /\ job[c].pc = "run"
     /\ IF registry[c].cancelled THEN Fail(c, blocks, blocks[c], {})
        ELSE IF OutOfBounds(bs[c], stmt) THEN Fail(c, bs, bs[c], {})
        ELSE \/ stmt = "begin" /\ begin_block(c, bs)
             \/ stmt = "commit" /\ commit_block(c, bs)
             \/ stmt = "rollback" /\ rollback_block(c, bs)
             \/ stmt \notin Controls /\ take_block(c, bs)
     /\ WorkerKeeps /\ UNCHANGED <<lock, db>>

Exclusive(c) == job[c].block = NoBlock /\ job[c].stmt \in {"write", "schema"}
LockAvailable(c) == lock.writer = {} /\ (Exclusive(c) => lock.readers = {})

still_bound(c) == Authorized(c) /\ ~Stale(c, job[c].block, job[c].version)

\* read_lock_with_control or write_lock_with_control, then validate_access.
lock_statement(c) ==
  /\ job[c].pc = "lock" /\ (LockAvailable(c) \/ registry[c].cancelled)
  /\ IF registry[c].cancelled \/ ~still_bound(c)
     THEN Fail(c, blocks, job[c].block, {}) /\ UNCHANGED <<lock, db>>
     ELSE /\ lock' = IF Exclusive(c) THEN [lock EXCEPT !.writer = {c}]
                     ELSE [lock EXCEPT !.readers = @ \cup {c}]
          /\ job' = [job EXCEPT ![c].pc = "locked",
                                ![c].id = IF job[c].stmt = "write" THEN db.next ELSE 0]
          /\ db' = [db EXCEPT !.next = IF job[c].stmt = "write" THEN @ + 1 ELSE @]
          /\ UNCHANGED <<conn, blocks, told>>
  /\ WorkerKeeps

Unlock(c) == lock' = [readers |-> lock.readers \ {c}, writer |-> lock.writer \ {c}]

\* Mutant: in a block the client opened, a failed statement stays staged.
execute_in_block_kept(c) ==
  LET b == job[c].block
      staged == IF job[c].stmt = "write" THEN {job[c].id} ELSE {}
      answered == [b EXCEPT !.txn.staged = @ \cup staged, !.stale = FALSE]
  IN /\ job[c].pc = "locked" /\ b # NoBlock
     /\ Unlock(c)
     /\ \/ /\ job[c].stmt # "schema"
           /\ blocks' = [blocks EXCEPT ![c] = answered]
           /\ job' = [job EXCEPT ![c].pc = "wrap", ![c].block = NoBlock]
           /\ conn' = [conn EXCEPT ![c].pending = @ \cup staged]
           /\ UNCHANGED told
        \/ plan.trouble /\ b.kind = "implicit" /\ Fail(c, blocks, b, staged)
        \/ /\ plan.trouble /\ b.kind = "explicit"
           /\ blocks' = [blocks EXCEPT ![c] = answered]
           /\ job' = [job EXCEPT ![c].pc = "done", ![c].failed = TRUE, ![c].block = NoBlock]
           /\ told' = [told EXCEPT !.failed = @ \cup staged]
           /\ UNCHANGED conn
     /\ WorkerKeeps /\ UNCHANGED db
\* In a block: the write is staged and the block put back, or the block aborts,
\* also when the staged statement's answer is too large.
execute_in_block(c) ==
  LET b == job[c].block
      staged == IF job[c].stmt = "write" THEN {job[c].id} ELSE {}
  IN /\ job[c].pc = "locked" /\ b # NoBlock
     /\ Unlock(c)
     /\ \/ /\ job[c].stmt # "schema"
           /\ blocks' = [blocks EXCEPT ![c] = [b EXCEPT !.txn.staged = @ \cup staged, !.stale = FALSE]]
           /\ job' = [job EXCEPT ![c].pc = "wrap", ![c].block = NoBlock]
           /\ conn' = [conn EXCEPT ![c].pending = @ \cup staged]
           /\ UNCHANGED told
        \/ plan.trouble /\ Fail(c, blocks, b, staged)
        \/ job[c].stmt = "schema" /\ Fail(c, blocks, b, {})
     /\ WorkerKeeps /\ UNCHANGED db

\* run_autocommit: the statement is its own transaction; the size of the answer
\* is checked before that transaction commits. A failing commit says nothing.
execute_autocommit(c) ==
  LET writes == IF job[c].stmt = "write" THEN {job[c].id} ELSE {} IN
  /\ job[c].pc = "locked" /\ job[c].block = NoBlock
  /\ Unlock(c)
  /\ \/ /\ db' = [db EXCEPT !.published = @ \cup writes,
                            !.version = IF job[c].stmt = "schema" THEN @ + 1 ELSE @]
        /\ job' = [job EXCEPT ![c].pc = "wrap"]
        /\ told' = [told EXCEPT !.committed = @ \cup writes]
        /\ UNCHANGED <<conn, blocks>>
     \/ plan.trouble /\ Fail(c, blocks, NoBlock, writes) /\ UNCHANGED db
     \/ /\ plan.trouble /\ Fail(c, blocks, NoBlock, {})
        /\ db' = [db EXCEPT !.published = @ \cup writes,
                            !.version = IF job[c].stmt = "schema" THEN @ + 1 ELSE @]
  /\ WorkerKeeps

\* Publication happens outside every lock; the engine refuses a transaction
\* whose catalog changed. A failure after the decision says nothing.
publish_block(c) ==
  LET b == job[c].block IN
  /\ job[c].pc = "commit"
  /\ IF registry[c].cancelled \/ b.txn.version # db.version
     THEN Fail(c, blocks, NoBlock, {}) /\ UNCHANGED db
     ELSE \/ /\ db' = [db EXCEPT !.published = @ \cup b.txn.staged]
             /\ job' = [job EXCEPT ![c].pc = "wrap", ![c].block = NoBlock]
             /\ conn' = [conn EXCEPT ![c].pending = {}]
             /\ told' = [told EXCEPT !.committed = @ \cup conn[c].pending]
             /\ UNCHANGED blocks
          \/ plan.trouble /\ Fail(c, blocks, NoBlock, {}) /\ UNCHANGED db
          \/ /\ plan.trouble
             /\ db' = [db EXCEPT !.published = @ \cup b.txn.staged]
             /\ job' = [job EXCEPT ![c].pc = "done", ![c].failed = TRUE, ![c].block = NoBlock]
             /\ conn' = [conn EXCEPT ![c].pending = {}]
             /\ UNCHANGED <<blocks, told>>
  /\ WorkerKeeps /\ UNCHANGED lock

\* After a statement: commit_implicit at the end of the message, or the next one.
wrap_statement(c) ==
  LET ends == job[c].msg = "simple" /\ job[c].left = <<>> /\ blocks[c].kind = "implicit" IN
  /\ job[c].pc = "wrap"
  /\ IF ends
     THEN /\ blocks' = [blocks EXCEPT ![c] = NoBlock]
          /\ job' = [job EXCEPT ![c].pc = "commit", ![c].block = blocks[c]]
          /\ UNCHANGED <<conn, told>>
     ELSE Go(c, NextPc(c)) /\ UNCHANGED blocks
  /\ WorkerKeeps /\ UNCHANGED <<lock, db>>

\* The closure is dropped, then QueryWorkerGuard counts the worker out.
finish_worker(c) ==
  /\ job[c].pc = "done"
  /\ live_workers' = live_workers - 1
  /\ job' = [job EXCEPT ![c] = IF conn[c].task = "busy" THEN [@ EXCEPT !.pc = "returned"] ELSE NoJob]
  /\ UNCHANGED <<plan, conn, blocks, registry, lock, db, server, told>>

-----------------------------------------------------------------------------
(* Back in the connection task.                                              *)

\* CancellationLease::drop, whether the query returned or the task was aborted.
DropLease(c) ==
  [registry[c] EXCEPT !.active = FALSE, !.cancelled = @ \/ registry[c].active]

BlockStatus(b) == IF b = NoBlock THEN "idle" ELSE IF b.txn.live THEN "transaction" ELSE "error"
PortalAfter(c) ==
  LET j == job[c] IN
  CASE j.failed \/ j.msg = "simple" -> conn[c].portal
    [] j.msg = "parse" -> [state |-> "initial", stmt |-> j.stmt, version |-> j.version]
    [] OTHER -> [conn[c].portal EXCEPT !.state = "completed"]

\* The answer is sent; on_query owns its ReadyForQuery, an extended query
\* leaves it to Sync and after an error ignores everything up to it.
deliver(c) ==
  LET simple == job[c].msg = "simple" IN
  /\ conn[c].task = "busy" /\ job[c].pc = "returned"
  /\ registry' = [registry EXCEPT ![c] = DropLease(c)]
  /\ job' = [job EXCEPT ![c] = NoJob]
  /\ IF conn[c].gone
     THEN /\ conn' = [conn EXCEPT ![c].task = "ending"]
          /\ blocks' = [blocks EXCEPT ![c] = fail_simple_query(c, blocks[c])]
     ELSE /\ conn' = [conn EXCEPT ![c].task = "ready", ![c].synced = simple,
                                  ![c].status = IF simple THEN BlockStatus(blocks[c]) ELSE @,
                                  ![c].portal = PortalAfter(c),
                                  ![c].skip = job[c].failed /\ ~simple]
          /\ UNCHANGED blocks
  /\ UNCHANGED <<plan, live_workers, lock, db, server, told>>

on_sync(c) ==
  /\ conn[c].task = "ready" /\ ~conn[c].synced /\ ~conn[c].gone
  /\ conn' = [conn EXCEPT ![c].synced = TRUE, ![c].skip = FALSE, ![c].portal = NoPortal,
                          ![c].status = BlockStatus(blocks[c])]
  /\ UNCHANGED <<plan, job, blocks, registry, live_workers, lock, db, server, told>>

-----------------------------------------------------------------------------
(* Shutdown: the tail of run_accept_loop, then close_shared_database.        *)

Stage(from, to) == server.stage = from /\ server' = [server EXCEPT !.stage = to]

request_shutdown ==
  /\ plan.shutdown /\ ~server.shutdown
  /\ server' = [server EXCEPT !.shutdown = TRUE]
  /\ UNCHANGED <<plan, conn, job, blocks, registry, live_workers, lock, db, told>>

cancel_all ==
  /\ server.shutdown /\ Stage("serving", "aborting")
  /\ registry' = [c \in Conns |-> [registry[c] EXCEPT !.cancelled = @ \/ registry[c].active]]
  /\ UNCHANGED <<plan, conn, job, blocks, live_workers, lock, db, told>>

\* An aborted task drops its lease and its slot but runs no cleanup; its worker
\* goes on without it.
abort_connection(c) ==
  /\ server.stage = "aborting" /\ conn[c].task # "none"
  /\ conn' = [conn EXCEPT ![c] = NoConn]
  /\ registry' = [registry EXCEPT ![c] = DropLease(c)]
  /\ job' = [job EXCEPT ![c] = IF @.pc = "returned" THEN NoJob ELSE @]
  /\ UNCHANGED <<plan, blocks, live_workers, lock, db, server, told>>

join_connections ==
  /\ Taken = {} /\ server.stage = "aborting"
  /\ server' = [server EXCEPT !.stage = "draining", !.control = 0]
  /\ UNCHANGED <<plan, conn, job, blocks, registry, live_workers, lock, db, told>>

\* Mutant: the joined connections are taken for idle workers.
wait_for_idle_skipped ==
  /\ Stage("draining", "closing")
  /\ UNCHANGED <<plan, conn, job, blocks, registry, live_workers, lock, db, told>>
wait_for_idle ==
  /\ live_workers = 0 /\ server.stage = "draining"
  /\ server' = [server EXCEPT !.stage = "closing", !.active = 0]
  /\ UNCHANGED <<plan, conn, job, blocks, registry, live_workers, lock, db, told>>

\* Arc::try_unwrap needs the last reference: every task and every running closure
\* holds a handler, and with it the database.
References == Taken \cup {c \in Conns : Running(c)}
close_shared_database ==
  /\ server.stage = "closing"
  /\ server' = [server EXCEPT !.stage = IF References = {} THEN "closed" ELSE "live_references"]
  /\ UNCHANGED <<plan, conn, job, blocks, registry, live_workers, lock, db, told>>

-----------------------------------------------------------------------------
Accepts == \E c \in Conns : accept(c)
Startups == \E c \in Conns : startup_mode(c)
Registrations == \E c \in Conns : register_identity(c)
Disconnects == \E c \in Conns : disconnect(c)
Endings == \E c \in Conns : end_connection(c)
CancelRequests == \E c \in Conns : on_cancel_request(c)
CapacityCancels == \E c \in Conns : receive_capacity_cancel(c)
Queries == \E c \in Conns, q \in plan.queries : on_query(c, q)
Parses == \E c \in Conns, s \in plan.statements : on_parse(c, s)
Executes == \E c \in Conns : on_execute(c)
Ages == \E c \in Conns : age(c)
ParseSteps == \E c \in Conns : parse_message(c)
NextSteps == \E c \in Conns : next_statement(c)
BindSteps == \E c \in Conns : bind_statement(c)
ValidateSteps == \E c \in Conns : validate_statement(c)
RunSteps == \E c \in Conns : run_statement(c)
LockSteps == \E c \in Conns : lock_statement(c)
BlockSteps == \E c \in Conns : execute_in_block(c)
AutocommitSteps == \E c \in Conns : execute_autocommit(c)
PublishSteps == \E c \in Conns : publish_block(c)
WrapSteps == \E c \in Conns : wrap_statement(c)
FinishSteps == \E c \in Conns : finish_worker(c)
Deliveries == \E c \in Conns : deliver(c)
Syncs == \E c \in Conns : on_sync(c)
Aborts == \E c \in Conns : abort_connection(c)

WireNext ==
  \/ Accepts \/ Startups \/ Registrations \/ provision \/ Disconnects \/ Endings
  \/ CancelRequests \/ accept_control \/ CapacityCancels
  \/ Queries \/ Parses \/ Executes \/ Ages
  \/ ParseSteps \/ NextSteps \/ BindSteps \/ ValidateSteps \/ RunSteps \/ LockSteps
  \/ BlockSteps \/ AutocommitSteps \/ PublishSteps \/ WrapSteps \/ FinishSteps
  \/ Deliveries \/ Syncs
  \/ request_shutdown \/ cancel_all \/ Aborts \/ join_connections \/ wait_for_idle
  \/ close_shared_database
WireSpec == WireInit /\ [][WireNext]_wvars

\* A worker thread and the task of the accept loop are never stopped for good.
WorkerStep(c) ==
  \/ parse_message(c) \/ next_statement(c) \/ bind_statement(c) \/ validate_statement(c)
  \/ run_statement(c) \/ lock_statement(c) \/ execute_in_block(c) \/ execute_autocommit(c)
  \/ publish_block(c) \/ wrap_statement(c) \/ finish_worker(c)
ShutdownStep == cancel_all \/ Aborts \/ join_connections \/ wait_for_idle \/ close_shared_database
WireFair == WF_wvars(ShutdownStep) /\ \A c \in Conns : WF_wvars(WorkerStep(c))
-----------------------------------------------------------------------------
(* Properties.                                                               *)

\* What the client was told is what the database has: a write answered as
\* committed is published, one whose statement or block was answered with an
\* error before the commit decision never is, on any path through blocks.
AnswersTrue ==
  /\ told.committed \subseteq db.published
  /\ told.failed \cap db.published = {}

\* An implicit block belongs to one Query message: once its worker is through
\* with the message, no implicit block is left, whichever way the message ended.
ImplicitEnds ==
  \A c \in Conns : blocks[c].kind = "implicit" =>
    job[c].msg = "simple" /\ Running(c) /\ job[c].multi

\* The status in the last ReadyForQuery is the state of the block: idle is told
\* exactly when there is none, and an aborted block is never called open, except
\* that an idle block may have been reaped since (sync_transaction_status).
StatusTruthful ==
  \A c \in Conns : conn[c].task = "ready" /\ conn[c].synced =>
    \/ conn[c].status = BlockStatus(blocks[c])
    \/ conn[c].status = "transaction" /\ BlockStatus(blocks[c]) = "error"

\* A statement executes under the catalog it was bound at, and in a block under
\* the catalog the block began at, as long as it holds the database lock
\* (validate_access under the lock that runs the statement).
BoundCatalogHolds ==
  \A c \in Conns : job[c].pc = "locked" => ~Stale(c, job[c].block, job[c].version)

\* Every handle is back when the database is closed: no worker is counted,
\* running, or holding the lock, so close never finds live references.
ClosesAlone ==
  server.stage \in {"closing", "closed", "live_references"} =>
    References = {} /\ live_workers = 0 /\ lock = [readers |-> {}, writer |-> {}]

\* Once the connections are aborted, every worker still running can see that it
\* is cancelled: no query started before shutdown escapes cancel_all.
ShutdownReachesWorkers ==
  \A c \in Conns : server.stage = "draining" /\ Running(c) => registry[c].cancelled

\* The slots in use are the live connection tasks, never more than configured.
SlotsAccounted ==
  /\ Cardinality(Taken) <= plan.max_connections
  /\ Serving => server.active = Cardinality(Taken)

\* A block outlives neither its connection nor a restart of it at the same peer
\* address while the server accepts connections (cleanup_connection).
BlocksHaveOwners ==
  \A c \in Conns : Serving /\ blocks[c] # NoBlock => conn[c].task \in {"ready", "busy", "ending"}

\* Requested shutdown closes the database, whatever the connections were doing.
ShutdownCloses == server.shutdown ~> (server.stage = "closed")

\* What clients rely on: the answers are true, an implicit block ends with its
\* message, the status sent is the state of the block, and a statement runs under
\* the catalog it was bound at.
AnswersHold == AnswersTrue /\ ImplicitEnds /\ StatusTruthful /\ BoundCatalogHolds

\* Connections, their slots and their blocks end together.
ConnectionsHold == SlotsAccounted /\ BlocksHaveOwners

\* Shutdown waits for every worker and reaches each of them.
ShutdownHolds == ClosesAlone /\ ShutdownReachesWorkers
=============================================================================
