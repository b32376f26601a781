---------------------------- MODULE DirectStore ---------------------------
(***************************************************************************)
(* The relational store over SeerDB trees (src/src/seer_direct.rs,         *)
(* seer_direct/authorization.rs, relational_database.rs and                *)
(* relational_database/authorization.rs): rows, index entries and the      *)
(* catalog marker live in one kernel transaction each, and the handle      *)
(* keeps the catalog and the tree of every table and index in memory.      *)
(* The kernel is used as its API is: fixed snapshots, registered point and *)
(* range reads, certification against what committed after the snapshot.   *)
(* Row operations take a shared handle and schema changes an exclusive     *)
(* one, but a transaction that is already open commits without the handle, *)
(* also between the two halves of a schema change.                         *)
(*                                                                         *)
(* A tree maps keys to values: a table tree maps row identities to stored  *)
(* rows, an index tree <<values, identity>> to the identity, the catalog   *)
(* tree "catalog" to the published catalog and "auth" to the authorization *)
(* catalog.  Integer keys keep the order of the encoded ones.              *)
(***************************************************************************)
EXTENDS RelCatalog, SqlText, AuthCatalog

CONSTANTS MAX_CASCADE_DEPTH,  \* 64
          HeapRows,           \* 2^24 heap identities of one transaction
          Txns,               \* the handles a test holds at a time
          MaxBegins,          \* bound: transactions ever begun
          MaxCommits          \* bound: commits

VARIABLES db,        \* committed trees
          csn,       \* commit sequence
          next_txn,  \* next transaction identity
          next_tree, \* next tree identity
          store,     \* the handle: [catalog, version, trees, itrees]
          txn,       \* the open transactions
          schema,    \* the schema transaction in flight, or idle
          unsure     \* the history a commit with an unknown outcome may have left

vars == <<db, csn, next_txn, next_tree, store, txn, schema, unsure>>

CatalogTree == 0
Ok == "ok"
Idle == [state |-> "idle"]

---------------------------------------------------------------------------
(* The kernel's transaction, as the store uses it.                         *)
Begun(snapshot, handle, id) ==
    [state |-> "open", id |-> id, err |-> Ok, snap |-> snapshot, staged |-> EmptyMap, points |-> {},
     ranges |-> {}, created |-> {}, dropped |-> {}, next |-> 0, since |-> {}, lifecycle |-> {},
     catalog |-> handle.catalog, version |-> handle.version, trees |-> handle.trees,
     itrees |-> handle.itrees, changed |-> FALSE, dirty |-> FALSE, heap |-> 0]
Fail(x, e) == [x EXCEPT !.err = e]
Failed(x) == x.err # Ok

Base(x, tree) == IF tree \in DOMAIN x.snap THEN x.snap[tree] ELSE EmptyMap
StagedKeys(x, tree) == {w[2] : w \in {w \in DOMAIN x.staged : w[1] = tree}}
Has(x, tree, key) == IF <<tree, key>> \in DOMAIN x.staged THEN x.staged[<<tree, key>>].live
                     ELSE key \in DOMAIN Base(x, tree)
Get(x, tree, key) == IF <<tree, key>> \in DOMAIN x.staged THEN x.staged[<<tree, key>>].value
                     ELSE Base(x, tree)[key]
Keys(x, tree) == {k \in DOMAIN Base(x, tree) \cup StagedKeys(x, tree) : Has(x, tree, k)}
(* A point read of the transaction's own write registers nothing.          *)
point(x, tree, key) == IF <<tree, key>> \in DOMAIN x.staged THEN x
                       ELSE [x EXCEPT !.points = @ \cup {<<tree, key>>}]
AllOf(tree) == <<tree, "all">>
PrefixOf(tree, values) == <<tree, "prefix", values>>
KeyOf(tree, key) == <<tree, "key", key>>
range(x, r) == [x EXCEPT !.ranges = @ \cup {r}]
put(x, tree, key, v) == [x EXCEPT !.staged = Put(@, <<tree, key>>, [live |-> TRUE, value |-> v])]
remove(x, tree, key) == [x EXCEPT !.staged = Put(@, <<tree, key>>, [live |-> FALSE, value |-> <<>>])]
create_tree(x) == [x EXCEPT !.created = @ \cup {x.next}, !.next = @ + 1]
drop_tree(x, tree) ==
    [x EXCEPT !.created = @ \ {tree}, !.dropped = IF tree \in x.created THEN @ ELSE @ \cup {tree},
              !.staged = Without(@, {w \in DOMAIN @ : w[1] = tree})]

Touches(r, w) == /\ r[1] = w[1]
                 /\ CASE r[2] = "all" -> TRUE
                      [] r[2] = "prefix" -> w[2][1] = r[3]
                      [] r[2] = "key" -> w[2] = r[3]
ReadOnly(x) == x.staged = EmptyMap /\ x.created = {} /\ x.dropped = {}
(* validate_against_published: what committed after the snapshot.          *)
certify(x) ==
    /\ DOMAIN x.staged \cap x.since = {}
    /\ x.points \cap x.since = {}
    /\ \A r \in x.ranges : \A w \in x.since : ~Touches(r, w)
    /\ \A w \in DOMAIN x.staged : w[1] \notin x.lifecycle
    /\ x.dropped \cap (x.lifecycle \cup {w[1] : w \in x.since}) = {}
Overlay(x, tree) == [k \in Keys([x EXCEPT !.snap = db], tree) |-> Get([x EXCEPT !.snap = db], tree, k)]
Published(x) == [tree \in (DOMAIN db \cup x.created) \ x.dropped |-> Overlay(x, tree)]
(* What a committed transaction is to one that is still open.              *)
Notice(x, y) == IF y.state = "open"
                THEN [y EXCEPT !.since = @ \cup DOMAIN x.staged,
                               !.lifecycle = @ \cup x.created \cup x.dropped]
                ELSE y

---------------------------------------------------------------------------
(* Reading rows.                                                           *)
RowAt(x, table, identity) ==
    row_from_storage_identity(x.catalog, table, x.catalog.tables[table], identity,
                              Get(x, x.trees[table], identity))
IdentityBefore(a, b) ==
    \E i \in DOMAIN a.values : /\ a.values[i][2] < b.values[i][2]
                               /\ \A j \in 1..(i - 1) : a.values[j] = b.values[j]
Identities(x, table) == SetToSortSeq(Keys(x, x.trees[table]), IdentityBefore)
(* scan: the kernel registers the scanned range.                           *)
scan(x, table) == IF table \in DOMAIN x.trees THEN range(x, AllOf(x.trees[table])) ELSE Fail(x, "invalid")
(* index_get through the index's prefix; every entry must lead to a row.   *)
index_get(x, table, index, values) ==
    LET def == x.catalog.indexes[index]
        key == index_values_key(def, x.catalog.tables[table], values)
        tree == x.itrees[index]
        found == {k[2] : k \in {k \in Keys(x, tree) : k[1] = key}}
        read == FoldSet(LAMBDA id, y : point(y, x.trees[table], id), range(x, PrefixOf(tree, key)), found)
    IN IF index \notin DOMAIN x.itrees THEN Fail(x, "invalid")
       ELSE IF def.table # table \/ key = Refused THEN Fail(x, "invalid")
       ELSE IF \A id \in found : Has(x, x.trees[table], id) THEN read ELSE Fail(read, "corruption")
index_scan(x, table, index) ==
    LET tree == x.itrees[index]
        found == {k[2] : k \in Keys(x, tree)}
        read == FoldSet(LAMBDA id, y : point(y, x.trees[table], id), range(x, AllOf(tree)), found)
    IN IF index \notin DOMAIN x.itrees THEN Fail(x, "invalid")
       ELSE IF \A id \in found : Has(x, x.trees[table], id) THEN read ELSE Fail(read, "corruption")

---------------------------------------------------------------------------
(* Writing rows.                                                           *)
index_has_conflict(x, index, values) ==
    [tx |-> range(x, PrefixOf(x.itrees[index], values)),
     found |-> \E k \in Keys(x, x.itrees[index]) : k[1] = values]

StageEntry(x, index, values, identity, insert) ==
    LET unique == insert /\ x.catalog.indexes[index].unique
        probe == index_has_conflict(x, index, values)
    IN IF values = NoKey THEN x
       ELSE IF values = KeyError THEN Fail(x, "expression")
       ELSE IF unique /\ probe.found THEN Fail(x, "unique")
       ELSE IF insert THEN put(IF unique THEN probe.tx ELSE x, x.itrees[index], <<values, identity>>, identity)
       ELSE remove(x, x.itrees[index], <<values, identity>>)
stage_index(x, index, table, row, identity, insert) ==
    IF Failed(x) THEN x
    ELSE StageEntry(x, index, row_index_key(x.catalog.indexes[index], x.catalog.tables[table], row), identity, insert)
stage_indexes_for(x, table, row, identity, insert) ==
    FoldLeft(LAMBDA y, index : stage_index(y, index, table, row, identity, insert),
             x, SetToSortSeq(IndexesFor(x.catalog, table), <))

Dirtied(x) == [x EXCEPT !.changed = TRUE, !.dirty = TRUE]
AcceptsRow(x, table, row) ==
    /\ table \in DOMAIN x.catalog.tables
    /\ validate_row(row, x.catalog.tables[table])
    /\ row_identity_bytes(x.catalog, table, x.catalog.tables[table], row) # Refused
IdentityIn(x, table, row) == row_identity_bytes(x.catalog, table, x.catalog.tables[table], row)

insert(x, table, row) ==
    LET identity == IdentityIn(x, table, row)
        tree == x.trees[table]
        read == point(x, tree, identity)
    IN IF ~AcceptsRow(x, table, row) THEN Fail(x, "invalid")
       ELSE IF Has(x, tree, identity) THEN Fail(read, "exists")
       ELSE stage_indexes_for(put(Dirtied(read), tree, identity, row.values), table, row, identity, TRUE)

Replace(cleared, table, row, identity) ==
    IF Failed(cleared) THEN cleared
    ELSE stage_indexes_for(put(Dirtied(cleared), cleared.trees[table], identity, row.values), table, row, identity, TRUE)
update(x, table, row) ==
    LET identity == IdentityIn(x, table, row)
        tree == x.trees[table]
        read == point(x, tree, identity)
        previous == RowAt(x, table, identity)
    IN IF ~AcceptsRow(x, table, row) THEN Fail(x, "invalid")
       ELSE IF ~Has(x, tree, identity) THEN Fail(read, "missing")
       ELSE IF previous = Refused THEN Fail(read, "corruption")
       ELSE Replace(stage_indexes_for(read, table, previous, identity, FALSE), table, row, identity)

(* The children of a deleted row under one foreign key, collected before   *)
(* the first action.                                                       *)
ReferencedValues(x, fk, row) == foreign_key_values(row, x.catalog.tables[fk.referenced_table], fk.referenced_columns)
Children(x, fk, row) ==
    SelectSeq([i \in DOMAIN Identities(x, fk.table) |-> RowAt(x, fk.table, Identities(x, fk.table)[i])],
              LAMBDA child : LET values == foreign_key_values(child, x.catalog.tables[fk.table], fk.columns) IN
                             ~HasNull(values) /\ SameValues(values, ReferencedValues(x, fk, row)))
NullReference(x, fk, child) ==
    FoldLeft(LAMBDA row, col : set_value(row, x.catalog.tables[fk.table], col, Null), child, fk.columns)
ForeignKeysTo(x, table) ==
    SetToSortSeq({f \in DOMAIN x.catalog.foreign_keys : x.catalog.foreign_keys[f].referenced_table = table}, <)

RECURSIVE expand_referential_actions(_, _, _, _), delete(_, _, _)
DeleteChild(expanded, table, identity) == IF Failed(expanded) THEN expanded ELSE delete(expanded, table, identity)
ActOnChild(x, fk, child, depth) ==
    IF Failed(x) THEN x
    ELSE IF fk.on_delete = SetNull THEN update(x, fk.table, NullReference(x, fk, child))
    ELSE DeleteChild(expand_referential_actions(x, fk.table, child, depth + 1), fk.table, IdentityIn(x, fk.table, child))
ActOnKey(x, fk, row, depth) ==
    IF Failed(x) \/ fk.on_delete = RestrictDelete THEN x
    ELSE IF depth + 1 > MAX_CASCADE_DEPTH THEN Fail(x, "cascade depth")
    ELSE IF HasNull(ReferencedValues(x, fk, row)) THEN x
    ELSE FoldLeft(LAMBDA y, child : ActOnChild(y, fk, child, depth), scan(x, fk.table), Children(x, fk, row))
expand_referential_actions(x, table, row, depth) ==
    FoldLeft(LAMBDA y, f : ActOnKey(y, x.catalog.foreign_keys[f], row, depth), x, ForeignKeysTo(x, table))
ExpandFrom(cleared, table, row) ==
    IF Failed(cleared) THEN cleared ELSE expand_referential_actions(cleared, table, row, 0)
delete(x, table, identity) ==
    LET tree == x.trees[table]
        read == point(x, tree, identity)
        row == RowAt(x, table, identity)
    IN IF ~Has(x, tree, identity) THEN Fail(read, "missing")
       ELSE IF row = Refused THEN Fail(read, "corruption")
       ELSE ExpandFrom(stage_indexes_for(remove(Dirtied(read), tree, identity), table, row, identity, FALSE), table, row)

(* Heap identities combine the transaction's identity with an ordinal.     *)
insert_heap(x, table, row) ==
    IF x.heap >= HeapRows THEN Fail(x, "heap identities")
    ELSE insert([x EXCEPT !.heap = @ + 1], table, [row EXCEPT !.primary = x.id * HeapRows + x.heap])

---------------------------------------------------------------------------
(* Referential validation: complete scans of the referenced index and of   *)
(* the child table, both registered.                                       *)
decode_referenced_values(x, tree) == {k[1] : k \in Keys(x, tree)}
validate_child_references(x, fk) ==
    LET resolved == foreign_key_index(x.catalog, fk)
        index == x.catalog.indexes[resolved.index]
        referenced == x.catalog.tables[fk.referenced_table]
    IN \A identity \in Keys(x, x.trees[fk.table]) :
          LET row == RowAt(x, fk.table, identity)
              values == foreign_key_values(row, x.catalog.tables[fk.table], resolved.columns)
          IN /\ row # Refused
             /\ HasNull(values) \/ index_values_key(index, referenced, values)
                                      \in decode_referenced_values(x, x.itrees[resolved.index])
(* Mutant: the scans leave no read dependency.                             *)
validate_foreign_unregistered(x, fk) ==
    IF Failed(x) \/ validate_child_references(x, fk) THEN x ELSE Fail(x, "reference")
validate_foreign(x, fk) ==
    IF Failed(x) THEN x
    ELSE LET y == range(range(x, AllOf(x.itrees[foreign_key_index(x.catalog, fk).index])), AllOf(x.trees[fk.table])) IN
         IF validate_child_references(x, fk) THEN y ELSE Fail(y, "reference")
validate_referential_integrity(x, timings) ==
    FoldLeft(LAMBDA y, f : validate_foreign(y, x.catalog.foreign_keys[f]), x,
             SetToSortSeq({f \in DOMAIN x.catalog.foreign_keys : x.catalog.foreign_keys[f].timing \in timings}, <))
validate_immediate_constraints(x) ==
    IF Failed(x) \/ ~x.dirty THEN x
    ELSE [validate_referential_integrity(x, {Immediate}) EXCEPT !.dirty = FALSE]

---------------------------------------------------------------------------
(* Authorization edits share the data transaction.                         *)
read_auth(x) == IF /\ Has(x, CatalogTree, "auth")
                   /\ decode_auth(Get(x, CatalogTree, "auth")) # Denied
                   /\ validate_tables(Get(x, CatalogTree, "auth"), x.trees)
                THEN Get(x, CatalogTree, "auth") ELSE Denied
edit_authorization(x, e) ==
    LET a == read_auth(x) IN
    CASE e.kind = "create" -> create_principal(a, e.id, e.name)
      [] e.kind = "rename" -> rename_principal(a, e.id, e.name)
      [] e.kind = "drop" -> drop_principal(a, e.id)
      [] e.kind = "credential" -> set_principal_credential(a, e.id, e.credential)
      [] e.kind = "administrator" -> set_database_administrator(a, e.id, e.enabled)
      [] e.kind = "grant" -> set_table_grant(a, x.trees, e.id, e.table, e.rights)
ensure_sql_catalog(x) == x.version = store.version
mutate_authorization(x, e) ==
    LET read == point(x, CatalogTree, "auth")
        edited == edit_authorization(x, e)
    IN IF ~ensure_sql_catalog(x) THEN Fail(x, "catalog")
       ELSE IF read_auth(x) = Denied THEN Fail(read, "authorization")
       ELSE IF edited = Denied THEN Fail(read, "authorization")
       ELSE IF encode_auth(edited) = Denied THEN Fail(read, "authorization")
       ELSE put(read, CatalogTree, "auth", edited)

---------------------------------------------------------------------------
(* One mutation of a statement (a SQL statement begins by comparing the    *)
(* catalog versions), and a complete operation: any failure      *)
(* discards the transaction for good.                                      *)
stage_mutation(x, m) ==
    IF Failed(x) THEN x
    ELSE CASE m.kind = "sql" -> IF ensure_sql_catalog(x) THEN x ELSE Fail(x, "catalog")
           [] m.kind = "insert" -> insert(x, m.table, m.row)
           [] m.kind = "insert_heap" -> insert_heap(x, m.table, m.row)
           [] m.kind = "update" -> update(x, m.table, m.row)
           [] m.kind = "delete_row" -> IF m.table \notin DOMAIN x.trees THEN Fail(x, "invalid")
                                       ELSE delete(x, m.table, IdentityIn(x, m.table, m.row))
           [] m.kind = "scan" -> scan(x, m.table)
           [] m.kind = "index_get" -> index_get(x, m.table, m.index, m.values)
           [] m.kind = "index_scan" -> index_scan(x, m.table, m.index)
           [] m.kind = "authorization" -> mutate_authorization(x, m.edit)
KeptOrAborted(x) == IF Failed(x) THEN [state |-> "aborted", err |-> x.err] ELSE x
operation(x, mutations) == KeptOrAborted(validate_immediate_constraints(FoldLeft(stage_mutation, x, mutations)))

---------------------------------------------------------------------------
(* Schema changes.                                                         *)
(* Build the entries of a new index from the rows of the snapshot.         *)
AddBuilt(x, index, values, identity) ==
    LET tree == x.itrees[index]
    IN IF values = NoKey THEN x
       ELSE IF values = KeyError THEN Fail(x, "expression")
       ELSE IF x.catalog.indexes[index].unique /\ \E k \in Keys(x, tree) : k[1] = values THEN Fail(x, "unique")
       ELSE put(x, tree, <<values, identity>>, identity)
BuildEntry(x, index, identity) ==
    LET def == x.catalog.indexes[index]
        row == RowAt(x, def.table, identity)
    IN IF Failed(x) THEN x
       ELSE IF row = Refused THEN Fail(x, "corruption")
       ELSE AddBuilt(x, index, row_index_key(def, x.catalog.tables[def.table], row), identity)
(* Mutant: the build reads the rows without registering the range.          *)
build_index_unregistered(x, index) ==
    LET table == x.catalog.indexes[index].table
        y == [create_tree(x) EXCEPT !.itrees = Put(@, index, x.next)]
    IN FoldLeft(LAMBDA z, id : BuildEntry(z, index, id), y, Identities(y, table))
build_index(x, index) ==
    LET table == x.catalog.indexes[index].table
        y == [create_tree(x) EXCEPT !.itrees = Put(@, index, x.next)]
    IN FoldLeft(LAMBDA z, id : BuildEntry(z, index, id), range(y, AllOf(y.trees[table])), Identities(y, table))

(* Rewrite the rows of a table whose column changed: decoded against the   *)
(* old declaration, accepted by the new one.                               *)
RewriteRow(x, old, table, col, identity) ==
    LET new == x.catalog.tables[table]
        row == row_from_storage_identity(x.catalog, table, old, identity, Get(x, x.trees[table], identity))
        at == Position(old, col)
        value == coerce_value(row.values[at], column(new, col))
        values == IF col \in ColumnIds(new) THEN [row.values EXCEPT ![at] = value] ELSE RemoveAt(row.values, at)
    IN IF Failed(x) THEN x
       ELSE IF row = Refused THEN Fail(x, "corruption")
       ELSE IF col \in ColumnIds(new) /\ IsError(value) THEN Fail(x, "coerce")
       ELSE IF ~validate_row([row EXCEPT !.values = values], new) THEN Fail(x, "invalid")
       ELSE put(x, x.trees[table], identity, values)
(* Mutant: the rewritten range leaves no read dependency.                  *)
rewrite_rows_unregistered(x, old, table, col) ==
    FoldLeft(LAMBDA y, id : RewriteRow(y, old, table, col, id), x, Identities(x, table))
rewrite_rows_for_column_change(x, old, table, col) ==
    FoldLeft(LAMBDA y, id : RewriteRow(y, old, table, col, id), range(x, AllOf(x.trees[table])), Identities(x, table))

DropTrees(x, trees) == FoldSet(LAMBDA tree, y : drop_tree(y, tree), x, trees)
schema_step(x, m) ==
    LET old == x.catalog
        y == [x EXCEPT !.catalog = apply_to_catalog(old, m)]
    IN IF Failed(x) THEN x
       ELSE CASE m.kind = "AddIndex" -> IF m.id \in DOMAIN x.itrees THEN y ELSE build_index(y, m.id)
              [] m.kind = "AddForeignKey" -> validate_foreign(y, m.fk)
              [] m.kind \in {"AlterColumnType", "DropColumn"} ->
                    rewrite_rows_for_column_change(y, old.tables[m.table], m.table, m.column)
              [] m.kind = "DropTable" ->
                    LET indexes == IndexesFor(old, m.table) \cap DOMAIN x.itrees IN
                    DropTrees([y EXCEPT !.trees = Without(@, {m.table}), !.itrees = Without(@, indexes)],
                              {x.trees[m.table]} \cup {x.itrees[i] : i \in indexes})
              [] m.kind = "DropIndex" ->
                    DropTrees([y EXCEPT !.itrees = Without(@, {m.id})], {x.itrees[m.id]})
              [] OTHER -> y

prune_authorization(x) ==
    LET read == point(x, CatalogTree, "auth")
        a == Get(x, CatalogTree, "auth")
    IN IF Failed(x) THEN x
       ELSE IF ~Has(x, CatalogTree, "auth") THEN read
       ELSE IF decode_auth(a) = Denied THEN Fail(read, "authorization")
       ELSE IF ~validate_tables(a, store.trees) THEN Fail(read, "authorization")
       ELSE IF prune_tables(a, x.trees) # a THEN put(read, CatalogTree, "auth", prune_tables(a, x.trees))
       ELSE read

Publish(x) == IF Failed(x) THEN x
              ELSE put(x, CatalogTree, "catalog", [catalog |-> x.catalog, trees |-> x.trees, itrees |-> x.itrees])
SchemaTxn == [Begun(db, store, next_txn) EXCEPT !.next = next_tree]

PruneAfter(x, mutations) ==
    IF \E i \in DOMAIN mutations : mutations[i].kind = "DropTable" THEN prune_authorization(x) ELSE x
apply_schema_mutations(mutations) == Publish(PruneAfter(FoldLeft(schema_step, SchemaTxn, mutations), mutations))

(* create_table_with_schema_and_primary_key: new objects of a new table    *)
(* need no rows looked at.                                                 *)
create_table_with_schema(m) ==
    LET c == NewTable(store.catalog, m)
        x == [create_tree(SchemaTxn) EXCEPT !.catalog = c, !.trees = Put(@, m.table, next_tree)]
    IN Publish(FoldSet(LAMBDA i, y : [create_tree(y) EXCEPT !.itrees = Put(@, i, y.next)], x, IndexesFor(c, m.table)))

---------------------------------------------------------------------------
(* DirectSeerStore::open over a committed state.                           *)
validate_mapping(trees, m) ==
    /\ DOMAIN m.trees = DOMAIN m.catalog.tables /\ DOMAIN m.itrees = DOMAIN m.catalog.indexes
    /\ IsInjective(m.trees) /\ IsInjective(m.itrees) /\ Range(m.trees) \cap Range(m.itrees) = {}
    /\ CatalogTree \notin Range(m.trees) \cup Range(m.itrees)
    /\ {CatalogTree} \cup Range(m.trees) \cup Range(m.itrees) = trees
Opened(history) ==
    LET roots == history.db[CatalogTree]
        m == roots["catalog"]
    IN IF /\ decode_catalog(m.catalog) # Refused
          /\ validate_mapping(DOMAIN history.db, m)
          /\ "auth" \in DOMAIN roots => decode_auth(roots["auth"]) # Denied /\ validate_tables(roots["auth"], m.trees)
       THEN [catalog |-> m.catalog, version |-> history.csn, trees |-> m.trees, itrees |-> m.itrees]
       ELSE [catalog |-> Refused]
Known == [db |-> db, csn |-> csn]

---------------------------------------------------------------------------
(* Actions.                                                                *)
Created(bootstrapped) ==
    [k \in {"catalog", "auth"} |->
        IF k = "catalog" THEN [catalog |-> EmptyCatalog, trees |-> EmptyMap, itrees |-> EmptyMap]
        ELSE bootstrapped]

Quiet == \A t \in Txns : txn[t] = Idle
(* A kernel that owes a recovery refuses every read and commit.            *)
Fenced == unsure # {}
begin(t) ==
    /\ ~Fenced /\ schema = Idle /\ txn[t] = Idle /\ next_txn <= MaxBegins
    /\ txn' = [txn EXCEPT ![t] = range(Begun(db, store, next_txn), KeyOf(CatalogTree, "catalog"))]
    /\ next_txn' = next_txn + 1
    /\ UNCHANGED <<db, csn, next_tree, store, schema, unsure>>

run_operation(t, mutations) ==
    /\ ~Fenced /\ schema = Idle /\ txn[t].state = "open"
    /\ txn' = [txn EXCEPT ![t] = operation(@, mutations)]
    /\ UNCHANGED <<db, csn, next_txn, next_tree, store, schema, unsure>>

rollback(t) ==
    /\ txn[t] # Idle
    /\ txn' = [txn EXCEPT ![t] = Idle]
    /\ UNCHANGED <<db, csn, next_txn, next_tree, store, schema, unsure>>

(* Every foreign key, deferred ones included, then one kernel decision.    *)
(* An operation that was only reads leaves the kernel nothing to decide.   *)
FinalCheck(x) == IF x.changed THEN validate_referential_integrity(x, {Immediate, Deferred}) ELSE x
commit(t) ==
    LET x == FinalCheck(txn[t]) IN
    /\ txn[t].state = "open"
    /\ IF Failed(x) \/ ReadOnly(x) \/ Fenced \/ ~certify(x)
       THEN txn' = [txn EXCEPT ![t] = Idle] /\ UNCHANGED <<db, csn, schema>>
       ELSE /\ csn < MaxCommits
            /\ db' = Published(x)
            /\ csn' = csn + 1
            /\ txn' = [u \in Txns |-> IF u = t THEN Idle ELSE Notice(x, txn[u])]
            /\ schema' = Notice(x, schema)
    /\ UNCHANGED <<next_txn, next_tree, store, unsure>>

(* The kernel's storage fails at the commit: the caller is told that a     *)
(* recovery is due, and the commit may or may not be in the history that   *)
(* the next open finds.                                                    *)
Unsure(x) ==
    /\ ~Failed(x) /\ ~ReadOnly(x) /\ ~Fenced /\ certify(x)
    /\ csn < MaxCommits
    /\ unsure' = {[db |-> Published(x), csn |-> csn + 1]}
    /\ UNCHANGED <<db, csn, next_txn, next_tree, store>>
commit_unsure(t) ==
    /\ txn[t].state = "open"
    /\ Unsure(FinalCheck(txn[t]))
    /\ txn' = [txn EXCEPT ![t] = Idle]
    /\ UNCHANGED schema

(* A schema change: the work at its snapshot, then its publication.        *)
schema_begin(mutations) ==
    /\ ~Fenced /\ schema = Idle /\ next_txn <= MaxBegins
    /\ Candidate(store.catalog, mutations) # Refused
    /\ schema' = apply_schema_mutations(mutations)
    /\ next_txn' = next_txn + 1
    /\ next_tree' = schema'.next
    /\ UNCHANGED <<db, csn, store, txn, unsure>>
create_begin(m) ==
    /\ ~Fenced /\ schema = Idle /\ next_txn <= MaxBegins
    /\ NewTable(store.catalog, m) # Refused
    /\ schema' = create_table_with_schema(m)
    /\ next_txn' = next_txn + 1
    /\ next_tree' = schema'.next
    /\ UNCHANGED <<db, csn, store, txn, unsure>>
schema_commit ==
    /\ schema # Idle
    /\ schema' = Idle
    /\ IF Failed(schema) \/ Fenced \/ ~certify(schema) THEN UNCHANGED <<db, csn, store, txn>>
       ELSE /\ csn < MaxCommits
            /\ db' = Published(schema)
            /\ csn' = csn + 1
            /\ store' = [catalog |-> schema.catalog, version |-> csn + 1,
                         trees |-> schema.trees, itrees |-> schema.itrees]
            /\ txn' = [u \in Txns |-> Notice(schema, txn[u])]
    /\ UNCHANGED <<next_txn, next_tree, unsure>>
(* The error returns before the handle takes the candidate.                *)
schema_commit_unsure ==
    /\ schema # Idle
    /\ Unsure(schema)
    /\ schema' = Idle
    /\ UNCHANGED txn

(* The process ends at any point and the database is opened again.  The    *)
(* kernel never hands out an identity a committed transaction had.         *)
reopen ==
    \E history \in {Known} \cup unsure :
        /\ Opened(history).catalog # Refused
        /\ ~Quiet \/ schema # Idle \/ Fenced
        /\ db' = history.db /\ csn' = history.csn
        /\ store' = Opened(history)
        /\ txn' = [t \in Txns |-> Idle]
        /\ schema' = Idle /\ unsure' = {}
        /\ UNCHANGED <<next_txn, next_tree>>

Init ==
    /\ db = [tree \in {CatalogTree} |-> Created(auth_bootstrap)]
    /\ csn = 0 /\ next_txn = 1 /\ next_tree = 1
    /\ store = [catalog |-> EmptyCatalog, version |-> 0, trees |-> EmptyMap, itrees |-> EmptyMap]
    /\ txn = [t \in Txns |-> Idle]
    /\ schema = Idle /\ unsure = {}

---------------------------------------------------------------------------
(* Properties.                                                             *)

(* What a reader of the committed state finds, through the published       *)
(* catalog.                                                                *)
Committed == [Begun(db, store, 0) EXCEPT !.state = "committed"]
EntriesOf(x, index) ==
    LET def == x.catalog.indexes[index]
    IN {<<row_index_key(def, x.catalog.tables[def.table], RowAt(x, def.table, id)), id>> : id \in Keys(x, x.trees[def.table])}
Mirrors(x) ==
    \A index \in DOMAIN x.itrees :
        /\ Keys(x, x.itrees[index]) = {e \in EntriesOf(x, index) : e[1] # NoKey}
        /\ \A k \in Keys(x, x.itrees[index]) : Get(x, x.itrees[index], k) = k[2]

(* Every committed index holds exactly the entries of the committed rows:   *)
(* index reads and table scans agree, whatever inserts, updates, cascades   *)
(* and index builds raced.                                                  *)
IndexesMirrorRows == Mirrors(Committed)

(* Inside an open transaction the staged rows and the staged entries agree, *)
(* so that index_get never meets an entry without its row.                  *)
StagedMirrors == \A t \in Txns : txn[t].state = "open" => Mirrors(txn[t])

(* No two committed rows share a key of a unique index, although the probe  *)
(* that checks it ran at an older snapshot.                                 *)
UniqueHolds ==
    \A index \in DOMAIN store.itrees : store.catalog.indexes[index].unique =>
        \A k, l \in DOMAIN db[store.itrees[index]] : k[1] = l[1] => k = l

(* Every committed reference leads to a committed row: insertions, deletes, *)
(* cascades, deferred checks and constraint creation together never leave   *)
(* a dangling one.                                                          *)
ReferencesHold ==
    \A f \in DOMAIN store.catalog.foreign_keys : validate_child_references(Committed, store.catalog.foreign_keys[f])

(* Every committed row can be read under the declaration the catalog now    *)
(* gives its table, also the rows written under an older one.               *)
RowsDecode ==
    \A table \in DOMAIN store.trees : \A id \in DOMAIN db[store.trees[table]] : RowAt(Committed, table, id) # Refused

(* Opening the committed history at any moment succeeds and yields exactly  *)
(* the catalog and the trees of the running handle, with no orphan tree;    *)
(* so does opening the history a commit with an unknown outcome may have    *)
(* left, whose catalog the handle does not have yet.                        *)
OpenRestores ==
    /\ Opened(Known).catalog = store.catalog
    /\ Opened(Known).trees = store.trees /\ Opened(Known).itrees = store.itrees
    /\ \A history \in unsure : Opened(history).catalog # Refused

(* A committed grant names a table incarnation that exists: dropping a      *)
(* table and granting on it concurrently never leaves a grant that a        *)
(* recreated table could inherit.                                           *)
GrantsAreLive == validate_tables(db[CatalogTree]["auth"], store.trees)

(* A transaction whose catalog version equals the handle's has the handle's *)
(* catalog and trees: the check of ensure_sql_catalog is enough for a plan  *)
(* bound against the handle.                                                *)
VersionNamesCatalog ==
    \A t \in Txns : txn[t].state = "open" /\ ensure_sql_catalog(txn[t])
        => txn[t].catalog = store.catalog /\ txn[t].trees = store.trees /\ txn[t].itrees = store.itrees

(* Indexes: they mirror the rows, committed and staged, and a unique one    *)
(* has each key once.                                                       *)
IndexesHold == IndexesMirrorRows /\ StagedMirrors /\ UniqueHolds

(* The catalog: the handle's, the stored one and the one a transaction was  *)
(* bound to agree, the rows decode under it and the grants name its tables. *)
CatalogHolds == OpenRestores /\ RowsDecode /\ VersionNamesCatalog /\ GrantsAreLive

(* Deleting an existing row never fails because of the order in which its   *)
(* cascades find the rows to delete.                                        *)
CascadesComplete ==
    \A t \in Txns : txn[t].state = "aborted" => txn[t].err # "cascade depth"
===========================================================================
