--------------------------- MODULE MCDirectStore --------------------------
(***************************************************************************)
(* Instances of DirectStore: each profile sets up tables and rows and then *)
(* lets transactions run statements from its list against its schema       *)
(* changes.                                                                *)
(***************************************************************************)
EXTENDS DirectStore

CONSTANT Profiles
VARIABLES profile, todo

allVars == <<vars, profile, todo>>

Col(id, null) == [id |-> id, name |-> id, type |-> "I64", nullable |-> null]
I(n) == <<"I64", n>>
Row(values) == [primary |-> 0, values |-> values]
Ins(t, values) == [kind |-> "insert", table |-> t, row |-> Row(values)]
Heap(t, values) == [kind |-> "insert_heap", table |-> t, row |-> Row(values)]
Upd(t, values) == [kind |-> "update", table |-> t, row |-> Row(values)]
Del(t, values) == [kind |-> "delete_row", table |-> t, row |-> Row(values)]
Sql == [kind |-> "sql"]
Part(c) == [columns |-> <<c>>, op |-> NoOperator]
Sum2(c, d) == [columns |-> <<c, d>>, op |-> "Plus"]
Index(t, parts, unique) == [table |-> t, parts |-> parts, unique |-> unique, partial |-> FALSE, predicate |-> {}]
Partial(t, parts, unique, terms) == [Index(t, parts, unique) EXCEPT !.partial = TRUE, !.predicate = terms]
Named(id, index) == [id |-> id, index |-> index, name |-> id]
Key(id, t, c, r, d, action, when) ==
    [id |-> id, name |-> NoName,
     fk |-> [table |-> t, columns |-> <<c>>, referenced_table |-> r, referenced_columns |-> <<d>>,
             on_delete |-> action, timing |-> when]]
Table(t, columns, pk, indexes, fks) ==
    [kind |-> "create", table |-> t, def |-> [name |-> t, columns |-> columns], primary_key |-> pk,
     indexes |-> indexes, fks |-> fks]
Fill(mutations) == [kind |-> "fill", mutations |-> mutations]
AddIndex(id, index) == [kind |-> "AddIndex", id |-> id, index |-> index, name |-> id]
Edit(e) == <<[kind |-> "authorization", edit |-> e]>>

(* Two writers on one table with a unique and a partial index.             *)
UniqueRace ==
    [name |-> "unique",
     setup |-> <<Table(1, <<Col(1, FALSE), Col(2, TRUE)>>, <<1>>,
                       <<Named(1, Index(1, <<Part(2)>>, TRUE)),
                         Named(2, Partial(1, <<Sum2(1, 2)>>, FALSE, {<<2, I(1)>>}))>>, <<>>),
                 Fill(<<Ins(1, <<I(1), I(1)>>)>>)>>,
     statements |-> {<<Ins(1, <<I(3), I(2)>>)>>, <<Upd(1, <<I(1), I(2)>>)>>, <<Upd(1, <<I(1), Null>>)>>,
                     <<Del(1, <<I(1), I(1)>>), Ins(1, <<I(2), I(1)>>)>>,
                     <<Sql, Ins(1, <<I(2), I(2)>>), Ins(1, <<I(3), I(2)>>)>>,
                     <<[kind |-> "index_get", table |-> 1, index |-> 1, values |-> <<I(1)>>]>>},
     schemas |-> {}, creates |-> {}, begins |-> 3, reopens |-> TRUE, unsure |-> FALSE]

(* Parents and children under every action and timing.                     *)
Family(action, when) ==
    <<Table(1, <<Col(1, FALSE)>>, <<1>>, <<Named(1, Index(1, <<Part(1)>>, TRUE))>>, <<>>),
      Table(2, <<Col(1, FALSE), Col(2, TRUE)>>, <<1>>, <<Named(2, Index(2, <<Part(2)>>, FALSE))>>,
            <<Key(1, 2, 2, 1, 1, action, when)>>),
      Fill(<<Ins(1, <<I(1)>>), Ins(2, <<I(1), I(1)>>)>>)>>
References(action, when) ==
    [name |-> "references", setup |-> Family(action, when),
     statements |-> {<<Del(1, <<I(1)>>)>>, <<Ins(1, <<I(2)>>)>>,
                     <<Ins(2, <<I(2), I(2)>>)>>, <<Upd(2, <<I(1), I(2)>>)>>, <<Ins(2, <<I(3), I(1)>>)>>},
     schemas |-> {}, creates |-> {}, begins |-> 2, reopens |-> FALSE, unsure |-> FALSE]

(* Schema changes against writers that began before them.                  *)
SchemaRace ==
    [name |-> "schema",
     setup |-> <<Table(1, <<Col(1, FALSE), Col(2, TRUE), Col(3, TRUE)>>, <<1>>, <<>>, <<>>),
                 Table(2, <<Col(1, FALSE), Col(2, TRUE)>>, <<>>, <<>>, <<>>),
                 Fill(<<Ins(1, <<I(1), I(1), Null>>), Heap(2, <<I(1), I(1)>>)>>)>>,
     statements |-> {<<Ins(1, <<I(2), I(1), I(1)>>)>>, <<Ins(1, <<I(2), Null, I(1), Null>>)>>,
                     <<Sql, Upd(1, <<I(1), I(2), Null>>)>>, <<Heap(2, <<I(2), I(1)>>)>>,
                     <<[kind |-> "scan", table |-> 1]>>,
                     <<[kind |-> "index_scan", table |-> 1, index |-> 1]>>},
     schemas |-> {<<AddIndex(1, Index(1, <<Part(2)>>, TRUE))>>,
                  <<AddIndex(1, Index(1, <<Part(2)>>, TRUE)),
                    [kind |-> "AddForeignKey", name |-> 9, id |-> 1, fk |-> Key(1, 2, 2, 1, 2, RestrictDelete, Immediate).fk]>>,
                  <<[kind |-> "AlterColumnType", table |-> 1, column |-> 2, type |-> "U64", nullable |-> TRUE]>>,
                  <<[kind |-> "DropColumn", table |-> 1, column |-> 3]>>,
                  <<[kind |-> "AddNullableColumn", table |-> 1, column |-> Col(4, TRUE)],
                    [kind |-> "RenameColumn", table |-> 1, column |-> 3, name |-> 7]>>,
                  <<[kind |-> "DropIndex", id |-> 1], [kind |-> "RenameTable", table |-> 1, name |-> 8]>>,
                  <<[kind |-> "DropForeignKey", id |-> 1]>>,
                  <<[kind |-> "DropTable", table |-> 1]>>},
     creates |-> {Table(1, <<Col(1, FALSE)>>, <<1>>, <<>>, <<>>)}, begins |-> 3, reopens |-> TRUE, unsure |-> TRUE]

(* Grants against a table that is dropped and created again.               *)
Grants ==
    [name |-> "grants",
     setup |-> <<Table(1, <<Col(1, FALSE)>>, <<1>>, <<>>, <<>>)>>,
     statements |-> {Edit([kind |-> "create", id |-> 1, name |-> "a"]),
                     Edit([kind |-> "rename", id |-> 1, name |-> "b"]),
                     Edit([kind |-> "create", id |-> 2, name |-> "b"]),
                     Edit([kind |-> "drop", id |-> 1]),
                     Edit([kind |-> "credential", id |-> 1, credential |-> 2]),
                     Edit([kind |-> "administrator", id |-> 1, enabled |-> TRUE]),
                     Edit([kind |-> "grant", id |-> 1, table |-> 1, rights |-> {"read"}]),
                     Edit([kind |-> "grant", id |-> 1, table |-> 1, rights |-> {}])},
     schemas |-> {<<[kind |-> "DropTable", table |-> 1]>>},
     creates |-> {Table(1, <<Col(1, FALSE)>>, <<1>>, <<>>, <<>>)}, begins |-> 3, reopens |-> TRUE, unsure |-> FALSE]

(* A node that refers to itself, below a deleted parent.                   *)
SelfReference ==
    [name |-> "self reference",
     setup |-> <<Table(1, <<Col(1, FALSE)>>, <<1>>, <<Named(1, Index(1, <<Part(1)>>, TRUE))>>, <<>>),
                 Table(2, <<Col(1, FALSE), Col(2, TRUE), Col(3, TRUE)>>, <<1>>, <<Named(2, Index(2, <<Part(1)>>, TRUE))>>,
                       <<Key(1, 2, 2, 1, 1, Cascade, Immediate), Key(2, 2, 3, 2, 1, Cascade, Immediate)>>),
                 Fill(<<Ins(1, <<I(1)>>), Ins(2, <<I(1), I(1), I(1)>>)>>)>>,
     statements |-> {<<Del(1, <<I(1)>>)>>}, schemas |-> {}, creates |-> {}, begins |-> 2, reopens |-> FALSE, unsure |-> FALSE]

UniqueProfiles == {UniqueRace}
ReferenceProfiles == {References(a, w) : a \in {RestrictDelete, Cascade, SetNull}, w \in {Immediate, Deferred}}
SchemaProfiles == {SchemaRace}
GrantProfiles == {Grants}
StoreProfiles == UniqueProfiles \cup ReferenceProfiles \cup SchemaProfiles \cup GrantProfiles
CycleProfiles == {SelfReference}

Sym == Permutations(Txns)

MCInit == Init /\ profile \in Profiles /\ todo = profile.setup

Ready == todo = <<>>
(* Setting the tables up is one step each.                                 *)
Install(x) ==
    /\ Assert(x.state = "open" /\ ~Failed(x), "setup")
    /\ db' = Published(x)
    /\ store' = [store EXCEPT !.catalog = x.catalog, !.trees = x.trees, !.itrees = x.itrees]
SetUp ==
    /\ todo # <<>>
    /\ IF todo[1].kind = "create" THEN Install(create_table_with_schema(todo[1])) /\ next_tree' = next_tree + 1 + Len(todo[1].indexes)
       ELSE Install(operation(Begun(db, store, 0), todo[1].mutations)) /\ UNCHANGED next_tree
    /\ todo' = SubSeq(todo, 2, Len(todo))
    /\ UNCHANGED <<csn, next_txn, txn, schema, unsure, profile>>

Begin == Ready /\ next_txn <= profile.begins /\ (\E t \in Txns : begin(t)) /\ UNCHANGED <<profile, todo>>
Operate == Ready /\ (\E t \in Txns : \E s \in profile.statements : run_operation(t, s)) /\ UNCHANGED <<profile, todo>>
Commit == Ready /\ (\E t \in Txns : commit(t)) /\ UNCHANGED <<profile, todo>>
Rollback == Ready /\ (\E t \in Txns : rollback(t)) /\ UNCHANGED <<profile, todo>>
SchemaBegin == Ready /\ next_txn <= profile.begins /\ (\E s \in profile.schemas : schema_begin(s)) /\ UNCHANGED <<profile, todo>>
CreateBegin == Ready /\ next_txn <= profile.begins /\ (\E m \in profile.creates : create_begin(m)) /\ UNCHANGED <<profile, todo>>
SchemaCommit == Ready /\ schema_commit /\ UNCHANGED <<profile, todo>>
CommitUnsure == Ready /\ profile.unsure /\ (\E t \in Txns : commit_unsure(t)) /\ UNCHANGED <<profile, todo>>
SchemaUnsure == Ready /\ profile.unsure /\ schema_commit_unsure /\ UNCHANGED <<profile, todo>>
Reopen == Ready /\ profile.reopens /\ reopen /\ UNCHANGED <<profile, todo>>

MCNext == SetUp \/ Begin \/ Operate \/ Commit \/ Rollback \/ SchemaBegin \/ CreateBegin
          \/ SchemaCommit \/ CommitUnsure \/ SchemaUnsure \/ Reopen
MCSpec == MCInit /\ [][MCNext]_allVars
===========================================================================
