----------------------------- MODULE SqlSchema ----------------------------
(***************************************************************************)
(* Schema statements: their binding (src/src/sql/binding/ddl.rs) and their *)
(* translation into a new table or a list of schema mutations              *)
(* (src/src/sql_schema.rs), which the catalog applies as one candidate.    *)
(* In a statement plain is FALSE for the many clauses both sides refuse.   *)
(* A database is [catalog, rows], with the rows [primary, values] of each  *)
(* table in scan order; its catalog has no anonymous name but "".          *)
(***************************************************************************)
EXTENDS SqlBind

CONSTANTS CatalogTable,   \* the reserved table id
          SystemFloor,    \* the first id of system tables, u64::MAX - 15
          MaxKeyColumns,  \* 256
          NoCatalog       \* what a refused catalog operation returns

C == INSTANCE RelCatalog WITH Refused <- NoCatalog, NoName <- ""

(* A translation: an error, a new table, or a list of mutations.           *)
Untranslated(why) == [error |-> why, new |-> FALSE, list |-> <<>>]
Translated(list) == [error |-> "", new |-> FALSE, list |-> list]

find_table(c, name) ==
    LET at == {t \in DOMAIN c.tables : c.tables[t].name = name} IN IF at = {} THEN 0 ELSE First(at)
column_id_by_name(table, name) ==
    LET at == NamePosition(table.columns, name) IN IF at = 0 THEN 0 ELSE table.columns[at].id
Highest(S) == IF S = {} THEN 0 ELSE CHOOSE x \in S : \A y \in S : x >= y
next_index_id(c) == Highest(DOMAIN c.indexes) + 1
next_constraint_id(c) == Highest(DOMAIN c.foreign_keys) + 1

---------------------------------------------------------------------------
(* Types as they are spelled.  The binder matches the parsed type, the     *)
(* executor mostly the text it is displayed as, so a prefix is enough.     *)
TextTypes == {"TEXT", "CHAR", "CHAR(3)", "CHARACTER(3)", "VARCHAR(3)", "CHARACTER VARYING(3)"}
ByteTypes == {"BYTEA", "BLOB", "BYTES(3)", "VARBINARY(3)"}
IntegerTypes == {"BIGINT", "INT", "INTEGER", "INT2", "INT4", "INT8", "SMALLINT"}
FloatTypes == {"DOUBLE PRECISION", "DOUBLE", "FLOAT8", "FLOAT64", "REAL8"}
DecimalTypes == {"NUMERIC", "NUMERIC(20,0)", "DECIMAL", "DEC"}
sql_type(t) ==
    CASE t \in {"BOOL", "BOOLEAN"} -> "Bool" [] t \in TextTypes -> "Text" [] t \in ByteTypes -> "Bytes"
      [] t \in IntegerTypes -> "I64" [] t \in FloatTypes -> "Float64" [] t \in DecimalTypes -> "Decimal"
      [] t = "TIMESTAMP" -> "Timestamp" [] t = "DATE" -> "Date" [] t = "UUID" -> "Uuid" [] t = "UINT64" -> "U64"
      [] OTHER -> "none"
schema_type(t) == IF sql_type(t) = "U64" THEN "none" ELSE sql_type(t)
sql_data_type(t) ==
    CASE t \in {"VARCHARHACK", "CHARACTERHACK"} -> "Text" [] t = "BYTESHACK" -> "Bytes" [] t = "UINT64" -> "none"
      [] OTHER -> sql_type(t)

---------------------------------------------------------------------------
(* Column options, read in order.  "named not null" carries a constraint   *)
(* name.  The set of accepted ones is all that differs between binder and  *)
(* executor.                                                               *)
ReadOptions(options, accepted) ==
    FoldLeft(LAMBDA s, o :
               CASE o \notin accepted \/ (o = "primary key" /\ s.primary) -> [s EXCEPT !.ok = FALSE]
                 [] o = "null" -> [s EXCEPT !.nullable = TRUE]
                 [] o \in {"not null", "named not null"} -> [s EXCEPT !.nullable = FALSE]
                 [] o = "primary key" -> [s EXCEPT !.primary = TRUE, !.nullable = FALSE]
                 [] OTHER -> s,
             [nullable |-> TRUE, primary |-> FALSE, ok |-> TRUE], options)
AddOptions == {"null", "not null"}
BoundOptions == AddOptions \cup {"primary key", "default null"}
CreateOptions == BoundOptions \cup {"named not null"}
column_type(col, adding) ==
    LET o == ReadOptions(col.options, IF adding THEN AddOptions ELSE BoundOptions)
    IN [type |-> schema_type(col.type), nullable |-> o.nullable, primary |-> o.primary,
        ok |-> o.ok /\ (adding => o.nullable) /\ schema_type(col.type) # "none"]

---------------------------------------------------------------------------
(* Constraints: [op, plain, name, columns], and for a foreign key also     *)
(* table, referred and on_delete.  index_name is the other name a UNIQUE   *)
(* may carry.                                                              *)
foreign_key_delete_action(f) ==
    IF ~f.plain \/ f.columns = <<>> \/ Len(f.columns) # Len(f.referred) THEN "unsupported"
    ELSE CASE f.on_delete = "" -> C!RestrictDelete
           [] f.on_delete \in {C!RestrictDelete, C!Cascade, C!SetNull} -> f.on_delete
           [] OTHER -> "unsupported"
NamesClash(x) == x.name # "" /\ x.index_name # "" /\ x.name # x.index_name
primary_object_name(x) == IF x.name # "" THEN x.name ELSE x.index_name
simple_index_columns(table, names) == [i \in DOMAIN names |-> column_id_by_name(table, names[i])]
ColumnParts(ids) == [i \in DOMAIN ids |-> [columns |-> <<ids[i]>>, op |-> C!NoOperator]]
UniqueIndex(table_id, ids) ==
    [table |-> table_id, parts |-> ColumnParts(ids), unique |-> TRUE, partial |-> FALSE, predicate |-> {}]

(* A UNIQUE and a FOREIGN KEY of table (number id), with their new number. *)
UniqueSpec(id, table, x, number) ==
    LET ids == simple_index_columns(table, x.columns)
    IN [error |-> CASE ~x.plain \/ NamesClash(x) -> "unsupported" [] ids = <<>> \/ 0 \in Range(ids) -> "column" [] OTHER -> "",
        kind |-> "AddIndex", id |-> number, index |-> UniqueIndex(id, ids), name |-> primary_object_name(x)]
ForeignSpec(c, id, table, x, number) ==
    LET other == IF x.table = table.name THEN id ELSE find_table(c, x.table)
        referenced == IF x.table = table.name THEN table ELSE c.tables[other]
        fk == [table |-> id, columns |-> simple_index_columns(table, x.columns), referenced_table |-> other,
               referenced_columns |-> simple_index_columns(referenced, x.referred),
               on_delete |-> foreign_key_delete_action(x), timing |-> C!Immediate]
    IN IF foreign_key_delete_action(x) = "unsupported" THEN [error |-> "unsupported"]
       ELSE IF other = 0 THEN [error |-> "table"]
       ELSE [error |-> IF 0 \in Range(fk.columns) \cup Range(fk.referenced_columns) THEN "column" ELSE "",
             kind |-> "AddForeignKey", id |-> number, fk |-> fk, name |-> x.name]
FirstFailure(specs) ==
    LET bad == {i \in DOMAIN specs : specs[i].error # ""} IN IF bad = {} THEN "" ELSE specs[First(bad)].error
---------------------------------------------------------------------------
(* Index keys and predicates.  A key is a column or an arithmetic          *)
(* expression over two columns.                                            *)
IndexOperators == {"Plus", "Minus", "Multiply", "Divide"}
plan_index_expression(table, e) ==
    LET left == PositionOf(table.columns, e.l)
        right == PositionOf(table.columns, e.r)
    IN IF e.op # "arith" THEN [error |-> "unsupported"]
       ELSE IF e.f \notin IndexOperators \/ left = 0 \/ right = 0 THEN [error |-> "unsupported"]
       ELSE [error |-> "", part |-> [columns |-> <<table.columns[left].id, table.columns[right].id>>, op |-> e.f]]
index_key_part(table, e) ==
    LET at == PositionOf(table.columns, e)
    IN IF at > 0 THEN [error |-> "", part |-> [columns |-> <<table.columns[at].id>>, op |-> C!NoOperator]]
       ELSE plan_index_expression(table, e)

(* The equality terms <<column, value>> of a predicate, or the error.      *)
NoEnv == [params |-> <<>>, types |-> <<>>, casts |-> <<>>]
RECURSIVE collect_equality_terms_static(_, _)
collect_equality_terms_static(table, e) ==
    LET at == PositionOf(table.columns, e)
        onLeft == PositionOf(table.columns, e.l)
        onRight == PositionOf(table.columns, e.r)
        both == <<collect_equality_terms_static(table, e.l), collect_equality_terms_static(table, e.r)>>
        col == table.columns[IF onLeft > 0 THEN onLeft ELSE onRight]
        literal == literal_value(IF onLeft > 0 THEN e.r ELSE e.l, NoEnv)
        value == coerce_value(literal, col)
    IN CASE e.op = "col" -> IF e.rel # "" \/ at = 0 THEN [error |-> "unsupported"]
                            ELSE IF table.columns[at].type # "Bool" THEN [error |-> "unsupported"]
                            ELSE [error |-> "", terms |-> {<<table.columns[at].id, <<"Bool", 1>>>>}]
         [] e.op = "and" -> IF FirstFailure(both) # "" THEN [error |-> FirstFailure(both)]
                            ELSE [error |-> "", terms |-> both[1].terms \cup both[2].terms]
         [] e.op = "cmp" -> IF e.f # "Eq" \/ (onLeft > 0) = (onRight > 0) THEN [error |-> "unsupported"]
                            ELSE IF IsError(literal) THEN [error |-> literal[2]]
                            ELSE IF IsError(value) THEN [error |-> value[2]]
                            ELSE [error |-> "", terms |-> {<<col.id, value>>}]
         [] OTHER -> [error |-> "unsupported"]
index_predicate(table, where) ==
    IF where = <<>> THEN [error |-> "", terms |-> {}] ELSE collect_equality_terms_static(table, where[1])

---------------------------------------------------------------------------
(* Translation.                                                            *)
execute_create_index(c, s) ==
    LET id == find_table(c, s.table)
        table == c.tables[id]
        predicate_terms == index_predicate(table, s.where)
        parts == [i \in DOMAIN s.keys |-> index_key_part(table, s.keys[i])]
    IN IF ~s.plain THEN Untranslated("unsupported")
       ELSE IF id = 0 THEN Untranslated("table")
       ELSE IF predicate_terms.error # "" THEN Untranslated(predicate_terms.error)
       ELSE IF FirstFailure(parts) # "" THEN Untranslated(FirstFailure(parts))
       ELSE Translated(<<[kind |-> "AddIndex", id |-> next_index_id(c), name |-> s.name,
                          index |-> [table |-> id, parts |-> [i \in DOMAIN parts |-> parts[i].part], unique |-> s.unique,
                                     partial |-> s.where # <<>>, predicate |-> predicate_terms.terms]]>>)

(* Each operation of an ALTER TABLE is translated against the catalog as   *)
(* the statement found it.                                                 *)
alter_table_mutation(c, id, o) ==
    LET table == c.tables[id]
        col == IF "column" \in DOMAIN o /\ o.op # "add column" THEN column_id_by_name(table, o.column) ELSE 0
        options == ReadOptions(o.column.options, AddOptions)
        dropped == simple_index_columns(table, o.columns)
        spec == IF o.constraint.op = "unique" THEN UniqueSpec(id, table, o.constraint, next_index_id(c))
                ELSE ForeignSpec(c, id, table, o.constraint, next_constraint_id(c))
        One(m) == Translated(<<m>>)
    IN IF id = 0 THEN Untranslated("table")
       ELSE CASE o.op = "add column" ->
              IF ~o.plain \/ ~options.ok \/ ~options.nullable \/ sql_data_type(o.column.type) = "none" THEN Untranslated("unsupported")
              ELSE One([kind |-> "AddNullableColumn", table |-> id,
                        column |-> [id |-> Highest(C!ColumnIds(table)) + 1, name |-> o.column.name,
                                    type |-> sql_data_type(o.column.type), nullable |-> TRUE]])
         [] o.op = "drop columns" ->
              IF ~o.plain THEN Untranslated("unsupported")
              ELSE IF 0 \in Range(dropped) THEN Untranslated("column")
              ELSE Translated([i \in DOMAIN dropped |-> [kind |-> "DropColumn", table |-> id, column |-> dropped[i]]])
         [] o.op = "rename table" -> One([kind |-> "RenameTable", table |-> id, name |-> o.name])
         [] o.op = "add constraint" ->
              IF ~o.plain \/ o.constraint.op \notin {"unique", "foreign"} THEN Untranslated("unsupported")
              ELSE IF spec.error # "" THEN Untranslated(spec.error) ELSE One(spec)
         [] o.op \notin {"rename column", "set type", "drop not null"} -> Untranslated("unsupported")
         [] col = 0 -> Untranslated("column")
         [] o.op = "rename column" -> One([kind |-> "RenameColumn", table |-> id, column |-> col, name |-> o.name])
         [] o.op = "set type" ->
              IF sql_data_type(o.type) = "none" THEN Untranslated("unsupported")
              ELSE One([kind |-> "AlterColumnType", table |-> id, column |-> col, type |-> sql_data_type(o.type),
                        nullable |-> C!column(table, col).nullable])
         [] OTHER -> One([kind |-> "AlterColumnType", table |-> id, column |-> col, type |-> C!column(table, col).type,
                          nullable |-> TRUE])

(* Mutant: an operation replaces the mutations before it.                  *)
Gathered_last(each) == each[Len(each)].list
Gathered(each) == FlattenSeq([i \in DOMAIN each |-> each[i].list])
execute_alter_table(c, s) ==
    LET each == [i \in DOMAIN s.ops |-> alter_table_mutation(c, find_table(c, s.table), s.ops[i])]
        list == Gathered(each)
    IN IF ~s.plain THEN Untranslated("unsupported")
       ELSE IF FirstFailure(each) # "" THEN Untranslated(FirstFailure(each))
       ELSE IF list = <<>> THEN Untranslated("unsupported") ELSE Translated(list)

(* Every object is resolved first; an empty list publishes nothing.        *)
find_index(c, name) ==
    LET at == {i \in DOMAIN c.index_names : c.index_names[i] = name} IN IF at = {} THEN 0 ELSE First(at)
execute_drop(c, s) ==
    LET found == [i \in DOMAIN s.names |-> IF s.object = "table" THEN find_table(c, s.names[i]) ELSE find_index(c, s.names[i])]
        kept == SelectSeq(found, LAMBDA id : id # 0)
    IN IF ~s.plain THEN Untranslated("unsupported")
       ELSE IF s.object \notin {"table", "index"} /\ s.names # <<>> THEN Untranslated("unsupported")
       ELSE IF kept # found /\ ~s.if_exists THEN Untranslated("missing")
       ELSE Translated([i \in DOMAIN kept |-> IF s.object = "table" THEN [kind |-> "DropTable", table |-> kept[i]]
                                              ELSE [kind |-> "DropIndex", id |-> kept[i]]])
(* CREATE TABLE: columns are numbered by position, UNIQUE constraints from *)
(* the next free index number, the index of the primary key after them but *)
(* registered first.                                                       *)
FreeTableId(c) ==
    LET next == Highest({t \in DOMAIN c.tables : t < SystemFloor}) + 1
    IN IF next \notin DOMAIN c.tables THEN next
       ELSE LET free == {t \in next..(SystemFloor - 1) : t \notin DOMAIN c.tables} IN IF free = {} THEN 0 ELSE First(free)
Ordinal(constraints, op, i) == Cardinality({j \in 1..i : constraints[j].op = op})

create_columns(s, key) ==
    [i \in DOMAIN s.columns |->
       [id |-> i, name |-> s.columns[i].name, type |-> sql_data_type(s.columns[i].type),
        nullable |-> ReadOptions(s.columns[i].options, CreateOptions).nullable /\ i \notin Range(key)]]

(* The key columns: of the one column option or of the one constraint.     *)
KeyColumns(s) == SelectSeq([i \in DOMAIN s.columns |-> i],
                           LAMBDA i : ReadOptions(s.columns[i].options, CreateOptions).primary)
KeyConstraints(s) == SelectSeq(s.constraints, LAMBDA x : x.op = "primary")

execute_create_table(c, s) ==
    LET options == [i \in DOMAIN s.columns |-> ReadOptions(s.columns[i].options, CreateOptions)]
        id == FreeTableId(c)
        declared == [name |-> s.name, columns |-> create_columns(s, <<>>)]
        key == IF KeyColumns(s) # <<>> THEN KeyColumns(s)
               ELSE IF KeyConstraints(s) = <<>> THEN <<>>
               ELSE simple_index_columns(declared, KeyConstraints(s)[1].columns)
        spec(i) == LET x == s.constraints[i]
                   IN CASE x.op = "unique" -> UniqueSpec(id, declared, x, next_index_id(c) + Ordinal(s.constraints, "unique", i) - 1)
                        [] x.op = "foreign" -> ForeignSpec(c, id, declared, x, next_constraint_id(c) + Ordinal(s.constraints, "foreign", i) - 1)
                        [] x.op = "primary" -> [error |-> CASE KeyColumns(s) # <<>> \/ Ordinal(s.constraints, "primary", i) > 1 -> "keys"
                                                            [] ~x.plain \/ x.index_name # "" -> "unsupported"
                                                            [] x.columns = <<>> \/ 0 \in Range(simple_index_columns(declared, x.columns)) -> "column"
                                                            [] OTHER -> "", kind |-> "key"]
                        [] OTHER -> [error |-> "unsupported"]
        specs == [i \in DOMAIN s.constraints |-> spec(i)]
        indexes == SelectSeq(specs, LAMBDA x : x.kind = "AddIndex")
        primary == [id |-> next_index_id(c) + Len(indexes), index |-> UniqueIndex(id, key),
                    name |-> IF KeyConstraints(s) = <<>> THEN "" ELSE KeyConstraints(s)[1].name]
    IN IF ~s.plain THEN Untranslated("unsupported")
       ELSE IF s.columns = <<>> \/ Len(KeyColumns(s)) > 1 THEN Untranslated("columns")
       ELSE IF \E i \in DOMAIN s.columns : ~options[i].ok \/ sql_data_type(s.columns[i].type) = "none" THEN Untranslated("unsupported")
       ELSE IF id = 0 THEN Untranslated("id")
       ELSE IF FirstFailure(specs) # "" THEN Untranslated(FirstFailure(specs))
       ELSE [error |-> "", new |-> TRUE,
             list |-> <<[table |-> id, def |-> [name |-> s.name, columns |-> create_columns(s, key)], primary_key |-> key,
                         indexes |-> (IF key = <<>> THEN <<>> ELSE <<primary>>) \o indexes,
                         fks |-> SelectSeq(specs, LAMBDA x : x.kind = "AddForeignKey")]>>]

translate(c, s) ==
    CASE s.kind = "create table" -> execute_create_table(c, s)
      [] s.kind = "create index" -> execute_create_index(c, s)
      [] s.kind = "alter table" -> execute_alter_table(c, s)
      [] OTHER -> execute_drop(c, s)

---------------------------------------------------------------------------
(* Binding: the binder records the tables touched by name.                 *)
table_scope(table) == factor(table, table.name)
Writes(b, names) == [b EXCEPT !.write = @ \cup names]
constraint_key(b, table, name) == Need(b, NamePosition(table.columns, name) > 0, "column")

constraint(b, x, table, c, creating) ==
    LET self == x.table = table.name
        other == find_table(c, x.table)
        referenced == IF self THEN table ELSE c.tables[other]
        pair(acc, i) ==
          LET l == NamePosition(table.columns, x.columns[i])
              r == NamePosition(referenced.columns, x.referred[i])
          IN IF l = 0 \/ r = 0 THEN Refuse(acc, "column")
             ELSE Meets(acc, common_type(table.columns[l].type, referenced.columns[r].type))
    IN CASE b.error # <<>> -> b
         [] (x.op = "primary" /\ creating) \/ x.op = "unique" ->
              FoldLeft(LAMBDA acc, n : constraint_key(acc, table, n),
                       Need(b, x.plain /\ (x.op = "primary" => x.index_name = ""), "unsupported"), x.columns)
         [] x.op = "foreign" ->
              IF foreign_key_delete_action(x) = "unsupported" THEN Refuse(b, "unsupported")
              ELSE IF ~self /\ other = 0 THEN Refuse(b, "table")
              ELSE FoldLeft(pair, IF self /\ creating THEN b ELSE Reads(b, {x.table}), [i \in DOMAIN x.columns |-> i])
         [] OTHER -> Refuse(b, "unsupported")

bind_create_table(b, s, c) ==
    LET typed == [i \in DOMAIN s.columns |-> column_type(s.columns[i], FALSE)]
        table == [name |-> s.name,
                  columns |-> [i \in DOMAIN s.columns |-> [id |-> i, name |-> s.columns[i].name, type |-> typed[i].type,
                                                           nullable |-> typed[i].nullable]]]
        keys == Cardinality({i \in DOMAIN typed : typed[i].primary}) + Len(KeyConstraints(s))
        checked == Need(Need(Need(Need(Need(b, s.plain /\ s.columns # <<>>, "unsupported"), find_table(c, s.name) = 0, "exists"),
                                  C!Distinct([i \in DOMAIN s.columns |-> s.columns[i].name]), "duplicate"),
                             \A i \in DOMAIN typed : typed[i].ok, "unsupported"), keys <= 1, "keys")
    IN FoldLeft(LAMBDA acc, x : constraint(acc, x, table, c, TRUE), checked, s.constraints)

(* static_literal: no parameter may reach a predicate of the catalog.      *)
RECURSIVE static_literal(_)
static_literal(e) ==
    CASE e.op = "param" -> FALSE
      [] e.op \in {"neg", "cast"} -> static_literal(e.e)
      [] e.op = "func" -> \A i \in DOMAIN e.args : static_literal(e.args[i])
      [] OTHER -> TRUE
RECURSIVE bind_index_predicate(_, _, _)
bind_index_predicate(b, e, scope) ==
    LET col == IF e.l.op = "col" THEN e.l ELSE e.r
        literal == IF e.l.op = "col" THEN e.r ELSE e.l
        at == resolve(scope, col)
        static == Need(b, static_literal(literal), "unsupported")
    IN CASE b.error # <<>> -> b
         [] e.op = "and" -> bind_index_predicate(bind_index_predicate(b, e.l, scope), e.r, scope)
         [] e.op = "cmp" /\ e.f = "Eq" ->
              IF at <= 0 THEN Refuse(b, "column")
              ELSE IF static.error # <<>> THEN static
              ELSE bind_expr(static, literal, scope, "Literal", scope.columns[at].type).b
         [] e.op = "col" -> Meets(Resolved(b, scope, e), common_type(ColumnType(scope, e).kind, "Bool"))
         [] OTHER -> Refuse(b, "unsupported")

bind_create_index(b, s, c) ==
    LET id == find_table(c, s.table)
        table == c.tables[id]
        scope == table_scope(table)
        key(acc, e) ==
          LET bound == bind_expr(acc, e, scope, "Computed", "none")
          IN IF acc.error # <<>> THEN acc
             ELSE IF PositionOf(table.columns, e) = 0 /\ plan_index_expression(table, e).error # "" THEN Refuse(acc, "unsupported")
             ELSE Need(bound.b, e.op = "arith" => IsNumeric(bound.t), "mismatch")
        keyed == FoldLeft(key, Writes(b, {s.table}), s.keys)
    IN IF ~s.plain \/ s.keys = <<>> THEN Refuse(b, "unsupported")
       ELSE IF id = 0 THEN Refuse(b, "table")
       ELSE IF s.where = <<>> THEN keyed ELSE bind_index_predicate(keyed, s.where[1], scope)

bind_alter_table(b, s, c) ==
    LET id == find_table(c, s.table)
        table == c.tables[id]
        named(acc, name) == Need(acc, NamePosition(table.columns, name) > 0, "column")
        operation(acc, o) ==
          CASE o.op = "add column" /\ o.plain -> Need(acc, column_type(o.column, TRUE).ok, "unsupported")
            [] o.op = "rename column" -> named(acc, o.column)
            [] o.op = "set type" -> Need(named(acc, o.column), o.plain /\ schema_type(o.type) # "none", "unsupported")
            [] o.op = "drop not null" -> named(acc, o.column)
            [] o.op = "drop columns" /\ o.plain -> FoldLeft(named, acc, o.columns)
            [] o.op = "rename table" -> acc
            [] o.op = "add constraint" /\ o.plain -> constraint(acc, o.constraint, table, c, FALSE)
            [] OTHER -> Refuse(acc, "unsupported")
    IN IF ~s.plain \/ s.ops = <<>> THEN Refuse(b, "unsupported")
       ELSE IF id = 0 THEN Refuse(b, "table") ELSE FoldLeft(operation, Writes(b, {s.table}), s.ops)

bind_drop(b, s, c) ==
    LET owner(name) == IF s.object = "table" THEN find_table(c, name)
                       ELSE IF find_index(c, name) = 0 THEN 0 ELSE c.indexes[find_index(c, name)].table
        one(acc, name) == IF owner(name) = 0 THEN Need(acc, s.if_exists, "missing") ELSE Writes(acc, {c.tables[owner(name)].name})
    IN IF ~s.plain \/ s.names = <<>> \/ s.object \notin {"table", "index"} THEN Refuse(b, "unsupported")
       ELSE FoldLeft(one, b, s.names)

NoBinder == [params |-> <<>>, hints |-> <<>>, casts |-> <<>>, outputs |-> <<>>, changed |-> FALSE, prefer |-> FALSE,
             error |-> <<>>, queries |-> <<>>, read |-> {}, write |-> {}]
ddl(s, c) ==
    CASE s.kind = "create table" -> bind_create_table(NoBinder, s, c)
      [] s.kind = "create index" -> bind_create_index(NoBinder, s, c)
      [] s.kind = "alter table" -> bind_alter_table(NoBinder, s, c)
      [] OTHER -> bind_drop(NoBinder, s, c)
---------------------------------------------------------------------------
(* A database under a statement.  The checks over rows are those of the    *)
(* store: the keys of a unique index are distinct, and a child row without *)
(* NULL in its key has a parent.                                           *)
EmptyDb == [catalog |-> C!EmptyCatalog, rows |-> C!EmptyMap]
NoDb == [catalog |-> NoCatalog, rows |-> C!EmptyMap]

IndexKeys(c, i, rows) ==
    LET table == c.tables[c.indexes[i].table] IN [r \in DOMAIN rows |-> C!row_index_key(c.indexes[i], table, rows[r])]
IndexHolds(c, i, rows) ==
    LET keys == IndexKeys(c, i, rows)
    IN /\ \A r \in DOMAIN keys : keys[r] # C!KeyError
       /\ c.indexes[i].unique => \A r, q \in DOMAIN keys : r # q /\ keys[r] = keys[q] => keys[r] = C!NoKey
ForeignHolds(c, fk, rows) ==
    \A r \in DOMAIN rows[fk.table] :
      LET values == C!foreign_key_values(rows[fk.table][r], c.tables[fk.table], fk.columns)
      IN C!HasNull(values) \/ \E p \in DOMAIN rows[fk.referenced_table] :
            C!SameValues(values, C!foreign_key_values(rows[fk.referenced_table][p], c.tables[fk.referenced_table], fk.referenced_columns))

(* The rows of a table as one mutation leaves them.                        *)
ChangedRow(row, m, old, new) ==
    CASE m.kind = "AddNullableColumn" -> [row EXCEPT !.values = Append(@, NullValue)]
      [] m.kind = "DropColumn" -> [row EXCEPT !.values = RemoveAt(@, C!Position(old, m.column))]
      [] OTHER -> [row EXCEPT !.values = [i \in DOMAIN @ |-> IF new.columns[i].id = m.column THEN coerce_value(@[i], new.columns[i]) ELSE @[i]]]
Reshapes == {"AddNullableColumn", "DropColumn", "AlterColumnType"}

Step(db, m) ==
    LET c == C!apply_to_catalog(db.catalog, m)
        changed == [r \in DOMAIN db.rows[m.table] |-> ChangedRow(db.rows[m.table][r], m, db.catalog.tables[m.table], c.tables[m.table])]
    IN IF db = NoDb \/ c = NoCatalog THEN NoDb
       ELSE CASE m.kind \in Reshapes ->
                   IF \E r \in DOMAIN changed : FirstError(changed[r].values) # <<>> THEN NoDb
                   ELSE [catalog |-> c, rows |-> C!Put(db.rows, m.table, changed)]
              [] m.kind = "DropTable" -> [catalog |-> c, rows |-> C!Without(db.rows, {m.table})]
              [] m.kind = "AddIndex" -> IF IndexHolds(c, m.id, db.rows[m.index.table]) THEN [db EXCEPT !.catalog = c] ELSE NoDb
              [] m.kind = "AddForeignKey" -> IF ForeignHolds(c, m.fk, db.rows) THEN [db EXCEPT !.catalog = c] ELSE NoDb
              [] OTHER -> [db EXCEPT !.catalog = c]

Published(db, translated) ==
    IF translated.error # "" THEN NoDb
    ELSE IF translated.new
    THEN LET c == C!NewTable(db.catalog, translated.list[1])
         IN IF c = NoCatalog THEN NoDb ELSE [catalog |-> c, rows |-> C!Put(db.rows, translated.list[1].table, <<>>)]
    ELSE FoldLeft(Step, db, translated.list)

(* The tables as the statements of SqlEngine see them, by name.            *)
TableOf(db, id) ==
    LET c == db.catalog
        own == {i \in DOMAIN c.indexes : c.indexes[i].table = id}
        part(p) == IF p.op = C!NoOperator THEN p.columns[1] ELSE 0
    IN [name |-> c.tables[id].name, columns |-> c.tables[id].columns, rows |-> db.rows[id],
        primary |-> IF id \in DOMAIN c.primary_keys THEN c.primary_keys[id] ELSE <<>>,
        indexes |-> {[id |-> i, parts |-> [p \in DOMAIN c.indexes[i].parts |-> part(c.indexes[i].parts[p])],
                      predicate |-> SetToSeq(c.indexes[i].predicate)] : i \in own}]
TablesOf(db) == [n \in {db.catalog.tables[t].name : t \in DOMAIN db.catalog.tables} |-> TableOf(db, find_table(db.catalog, n))]

Inserted(db, s) ==
    LET bound == bind(s, TablesOf(db), 0, <<>>, <<>>)
        result == execute_bound(s, TablesOf(db), bound, {}, <<>>, <<>>)
        id == find_table(db.catalog, s.w.table)
        c == db.catalog
        new == [db EXCEPT !.rows = C!Put(@, id, result.rows)]
    IN IF db = NoDb THEN NoDb
       ELSE IF id = 0 \/ ~bound.ok THEN NoDb ELSE IF ~result.ok THEN NoDb
       ELSE IF \E i \in DOMAIN c.indexes : c.indexes[i].table = id /\ ~IndexHolds(c, i, new.rows[id]) THEN NoDb
       ELSE IF \E f \in DOMAIN c.foreign_keys : ~ForeignHolds(c, c.foreign_keys[f], new.rows) THEN NoDb ELSE new

(* One statement of a script: bound, then executed.                        *)
execute_sql(db, s) ==
    LET bound == ddl(s, db.catalog)
    IN IF s.kind = "insert" THEN Inserted(db, s)
       ELSE IF bound.error # <<>> THEN NoDb ELSE Published(db, translate(db.catalog, s))
===========================================================================
