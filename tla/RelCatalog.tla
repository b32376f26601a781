---------------------------- MODULE RelCatalog ----------------------------
(***************************************************************************)
(* The logical catalog of OmenDB (src/src/relational.rs): tables, primary  *)
(* keys, secondary indexes and foreign keys, as values, and every          *)
(* operation on them as an operator that returns the changed catalog, or   *)
(* Refused where the code returns an error.  A table is [name, columns],   *)
(* a column [id, name, type, nullable], an index [table, parts, unique,    *)
(* partial, predicate] with a set of <<column, value>> terms, and a key    *)
(* part [columns, op]: a plain column (op is NoOperator), or an arithmetic *)
(* expression over two columns.                                            *)
(***************************************************************************)
EXTENDS SqlNumeric, Functions

CONSTANTS CatalogTable,  \* the reserved table id
          Refused,       \* the result of a refused operation
          MaxKeyColumns, \* 256 in decode_catalog and RowIdentity
          NoName         \* the name of an anonymous index or constraint

RestrictDelete == "restrict"
Cascade == "cascade"
SetNull == "set null"
Immediate == "immediate"
Deferred == "deferred"
NoOperator == "none"
Null == <<"Null", 0>>
EmptyMap == [x \in {} |-> x]

(* A map with one entry added or replaced, and with entries removed.       *)
Put(f, k, v) == [x \in DOMAIN f \cup {k} |-> IF x = k THEN v ELSE f[x]]
Without(f, S) == [x \in DOMAIN f \ S |-> f[x]]

EmptyCatalog == [generation |-> 0, tables |-> EmptyMap, primary_keys |-> EmptyMap,
                 indexes |-> EmptyMap, index_names |-> EmptyMap,
                 foreign_keys |-> EmptyMap, foreign_key_names |-> EmptyMap]
Bump(c) == [c EXCEPT !.generation = @ + 1]

ColumnIds(table) == {table.columns[i].id : i \in DOMAIN table.columns}
column(table, id) == table.columns[CHOOSE i \in DOMAIN table.columns : table.columns[i].id = id]
Distinct(seq) == \A i, j \in DOMAIN seq : seq[i] = seq[j] => i = j

(* Value::matches: NULL matches every declared type.                       *)
matches(value, type) == value[1] \in {"Null", type}

(* TableDefinition::validate.                                              *)
valid_table(id, table) ==
    /\ id # CatalogTable
    /\ table.columns # <<>>
    /\ Distinct([i \in DOMAIN table.columns |-> table.columns[i].id])
    /\ Distinct([i \in DOMAIN table.columns |-> table.columns[i].name])

validate_primary_key(table, columns) ==
    /\ columns # <<>> /\ Distinct(columns)
    /\ \A i \in DOMAIN columns : /\ columns[i] \in ColumnIds(table)
                                 /\ ~column(table, columns[i]).nullable

(* primary_key is the empty sequence for a table without one.              *)
create_table_with_primary_key(c, id, table, primary_key) ==
    IF /\ valid_table(id, table)
       /\ id \notin DOMAIN c.tables
       /\ \A t \in DOMAIN c.tables : c.tables[t].name # table.name
       /\ primary_key # <<>> => validate_primary_key(table, primary_key)
    THEN Bump([c EXCEPT !.tables = Put(@, id, table),
                        !.primary_keys = IF primary_key = <<>> THEN @ ELSE Put(@, id, primary_key)])
    ELSE Refused

SetColumns(c, table, columns) == [c EXCEPT !.tables = Put(@, table, [name |-> @[table].name, columns |-> columns])]
SetColumn(c, table, i, new) ==
    SetColumns(c, table, [k \in DOMAIN c.tables[table].columns |-> IF k = i THEN new ELSE c.tables[table].columns[k]])

add_nullable_column(c, table, new) ==
    IF /\ new.nullable
       /\ table \in DOMAIN c.tables
       /\ \A i \in DOMAIN c.tables[table].columns :
             c.tables[table].columns[i].id # new.id /\ c.tables[table].columns[i].name # new.name
    THEN Bump(SetColumns(c, table, Append(c.tables[table].columns, new)))
    ELSE Refused

(* IndexExpression::referenced_columns over all key parts, in order.       *)
referenced_columns(index) == FlattenSeq([i \in DOMAIN index.parts |-> index.parts[i].columns])

validate_index_columns(c, index) ==
    /\ index.parts # <<>>
    /\ index.table \in DOMAIN c.tables
    /\ Distinct(referenced_columns(index))
    /\ Range(referenced_columns(index)) \subseteq ColumnIds(c.tables[index.table])
    /\ \A term \in index.predicate :
          /\ term[1] \in ColumnIds(c.tables[index.table])
          /\ matches(term[2], column(c.tables[index.table], term[1]).type)

(* Index and constraint names share one space.                             *)
name_free(c, name) ==
    name \notin Range(c.index_names) \cup Range(c.foreign_key_names)
validate_index_name(c, name) == name_free(c, name)
validate_constraint_name(c, name) == name_free(c, name)

(* create_index registers anonymously and accepts an identical definition. *)
register_index(c, id, index) ==
    IF ~validate_index_columns(c, index) THEN Refused
    ELSE IF id \notin DOMAIN c.indexes THEN Bump([c EXCEPT !.indexes = Put(@, id, index)])
    ELSE IF c.indexes[id] = index THEN c ELSE Refused

create_named_index(c, id, index, name) ==
    IF validate_index_name(c, name) /\ validate_index_columns(c, index) /\ id \notin DOMAIN c.indexes
    THEN Bump([c EXCEPT !.indexes = Put(@, id, index), !.index_names = Put(@, id, name)])
    ELSE Refused

create_index(c, id, index, name) ==
    IF name = NoName THEN register_index(c, id, index) ELSE create_named_index(c, id, index, name)

IndexesFor(c, table) == {i \in DOMAIN c.indexes : c.indexes[i].table = table}

(* foreign_key_indexes: the unique indexes without predicate whose parts   *)
(* are plain columns and exactly the referenced columns, in any order.     *)
foreign_key_indexes(c, fk) ==
    {i \in IndexesFor(c, fk.referenced_table) :
        LET parts == c.indexes[i].parts IN
        /\ c.indexes[i].unique /\ ~c.indexes[i].partial
        /\ Len(parts) = Len(fk.referenced_columns)
        /\ \A p \in DOMAIN parts : parts[p].op = NoOperator
                                   /\ parts[p].columns[1] \in Range(fk.referenced_columns)}
(* foreign_key_index: the first of them, with the child's columns in the   *)
(* order of the index.                                                     *)
foreign_key_index(c, fk) ==
    LET i == CHOOSE i \in foreign_key_indexes(c, fk) : \A j \in foreign_key_indexes(c, fk) : i <= j
        Child(parent) == fk.columns[CHOOSE k \in DOMAIN fk.columns : fk.referenced_columns[k] = parent]
    IN [index |-> i, columns |-> [p \in DOMAIN c.indexes[i].parts |-> Child(c.indexes[i].parts[p].columns[1])]]

validate_foreign_key(c, fk) ==
    /\ fk.columns # <<>> /\ Len(fk.columns) = Len(fk.referenced_columns)
    /\ {fk.table, fk.referenced_table} \subseteq DOMAIN c.tables
    /\ Distinct(fk.columns) /\ Distinct(fk.referenced_columns)
    /\ \A k \in DOMAIN fk.columns :
          /\ fk.columns[k] \in ColumnIds(c.tables[fk.table])
          /\ fk.referenced_columns[k] \in ColumnIds(c.tables[fk.referenced_table])
          /\ LET child == column(c.tables[fk.table], fk.columns[k]) IN
             /\ child.type = column(c.tables[fk.referenced_table], fk.referenced_columns[k]).type
             /\ fk.on_delete = SetNull => child.nullable
    /\ foreign_key_indexes(c, fk) # {}

create_foreign_key(c, id, fk, name) ==
    IF /\ name # NoName => validate_constraint_name(c, name)
       /\ validate_foreign_key(c, fk) /\ id \notin DOMAIN c.foreign_keys
    THEN Bump([c EXCEPT !.foreign_keys = Put(@, id, fk),
                        !.foreign_key_names = IF name = NoName THEN @ ELSE Put(@, id, name)])
    ELSE Refused

(* The predicate test is not restricted to the indexes of the table: a      *)
(* predicate of any table's index on the same column number refuses.        *)
assert_column_unconstrained(c, table, col) ==
    /\ table \in DOMAIN c.primary_keys => col \notin Range(c.primary_keys[table])
    /\ \A i \in IndexesFor(c, table) : col \notin Range(referenced_columns(c.indexes[i]))
    /\ \A i \in DOMAIN c.indexes : \A term \in c.indexes[i].predicate : term[1] # col
    /\ \A f \in DOMAIN c.foreign_keys :
          /\ c.foreign_keys[f].table = table => col \notin Range(c.foreign_keys[f].columns)
          /\ c.foreign_keys[f].referenced_table = table => col \notin Range(c.foreign_keys[f].referenced_columns)

Position(table, col) == CHOOSE i \in DOMAIN table.columns : table.columns[i].id = col
HasColumn(c, table, col) == table \in DOMAIN c.tables /\ col \in ColumnIds(c.tables[table])

rename_column(c, table, col, name) ==
    IF /\ HasColumn(c, table, col)
       /\ \A i \in DOMAIN c.tables[table].columns : c.tables[table].columns[i].name # name
       /\ assert_column_unconstrained(c, table, col)
    THEN Bump(SetColumn(c, table, Position(c.tables[table], col), [column(c.tables[table], col) EXCEPT !.name = name]))
    ELSE Refused

(* The guard refuses a NOT NULL column that stays NOT NULL, and lets a      *)
(* nullable column through with nullable = FALSE, which changes nothing.    *)
alter_column_type(c, table, col, type, nullable) ==
    IF /\ HasColumn(c, table, col) /\ assert_column_unconstrained(c, table, col)
       /\ nullable \/ column(c.tables[table], col).nullable
    THEN Bump(SetColumn(c, table, Position(c.tables[table], col),
                        [column(c.tables[table], col) EXCEPT !.type = type, !.nullable = @ \/ nullable]))
    ELSE Refused

drop_column(c, table, col) ==
    IF /\ HasColumn(c, table, col) /\ assert_column_unconstrained(c, table, col)
       /\ Len(c.tables[table].columns) > 1
    THEN Bump(SetColumns(c, table, RemoveAt(c.tables[table].columns, Position(c.tables[table], col))))
    ELSE Refused

rename_table(c, table, name) ==
    IF /\ table \in DOMAIN c.tables
       /\ \A t \in DOMAIN c.tables : c.tables[t].name # name
    THEN Bump([c EXCEPT !.tables = Put(@, table, [@[table] EXCEPT !.name = name])])
    ELSE Refused

drop_table(c, table) ==
    LET owned == {f \in DOMAIN c.foreign_keys : c.foreign_keys[f].table = table} IN
    IF /\ table \in DOMAIN c.tables
       /\ \A f \in DOMAIN c.foreign_keys \ owned : c.foreign_keys[f].referenced_table # table
    THEN Bump([c EXCEPT !.tables = Without(@, {table}),
                        !.primary_keys = Without(@, {table}),
                        !.indexes = Without(@, IndexesFor(c, table)),
                        !.index_names = Without(@, IndexesFor(c, table)),
                        !.foreign_keys = Without(@, owned),
                        !.foreign_key_names = Without(@, owned)])
    ELSE Refused

drop_index(c, index) ==
    IF /\ index \in DOMAIN c.indexes
       /\ \A f \in DOMAIN c.foreign_keys :
             c.foreign_keys[f].referenced_table = c.indexes[index].table
                => foreign_key_indexes(c, c.foreign_keys[f]) \ {index} # {}
    THEN Bump([c EXCEPT !.indexes = Without(@, {index}), !.index_names = Without(@, {index})])
    ELSE Refused

drop_foreign_key(c, fk) ==
    IF fk \in DOMAIN c.foreign_keys
    THEN Bump([c EXCEPT !.foreign_keys = Without(@, {fk}), !.foreign_key_names = Without(@, {fk})])
    ELSE Refused

---------------------------------------------------------------------------
(* One schema change, a batch of them, and a new table with its objects.   *)
apply_to_catalog(c, m) ==
    CASE m.kind = "AddNullableColumn" -> add_nullable_column(c, m.table, m.column)
      [] m.kind = "AddIndex" -> create_index(c, m.id, m.index, m.name)
      [] m.kind = "AddForeignKey" -> create_foreign_key(c, m.id, m.fk, m.name)
      [] m.kind = "RenameColumn" -> rename_column(c, m.table, m.column, m.name)
      [] m.kind = "AlterColumnType" -> alter_column_type(c, m.table, m.column, m.type, m.nullable)
      [] m.kind = "DropColumn" -> drop_column(c, m.table, m.column)
      [] m.kind = "RenameTable" -> rename_table(c, m.table, m.name)
      [] m.kind = "DropTable" -> drop_table(c, m.table)
      [] m.kind = "DropIndex" -> drop_index(c, m.id)
      [] m.kind = "DropForeignKey" -> drop_foreign_key(c, m.id)
Candidate(c, mutations) ==
    FoldLeft(LAMBDA d, m : IF d = Refused THEN Refused ELSE apply_to_catalog(d, m), c, mutations)

NewTable(c, m) ==
    LET created == create_table_with_primary_key(c, m.table, m.def, m.primary_key)
        indexed == FoldLeft(LAMBDA d, i : IF d = Refused THEN Refused ELSE create_index(d, i.id, i.index, i.name),
                            created, m.indexes)
    IN IF \E i \in DOMAIN m.indexes : m.indexes[i].index.table # m.table THEN Refused
       ELSE IF \E f \in DOMAIN m.fks : m.fks[f].fk.table # m.table THEN Refused
       ELSE FoldLeft(LAMBDA d, f : IF d = Refused THEN Refused ELSE create_foreign_key(d, f.id, f.fk, f.name),
                     indexed, m.fks)

---------------------------------------------------------------------------
(* decode_value reads the tags of these types only; encode writes all.     *)
DecodableTypes == {"Null", "Bool", "I64", "U64", "Text", "Float64"}

(* decode_catalog applied to what encode_catalog wrote: the same catalog,   *)
(* or Refused where a check of the decoder fails.                           *)
tables_decode(c) ==
    /\ \A t \in DOMAIN c.tables : valid_table(t, c.tables[t])
    /\ \A t \in DOMAIN c.primary_keys : /\ Len(c.primary_keys[t]) <= MaxKeyColumns
                                        /\ validate_primary_key(c.tables[t], c.primary_keys[t])
indexes_decode(c) ==
    /\ \A i \in DOMAIN c.indexes :
          /\ c.indexes[i].partial => c.indexes[i].predicate # {}
          /\ \A term \in c.indexes[i].predicate : term[2][1] \in DecodableTypes
          /\ validate_index_columns(c, c.indexes[i])
    /\ IsInjective(c.index_names)
foreign_keys_decode(c) ==
    /\ \A f \in DOMAIN c.foreign_keys : validate_foreign_key(c, c.foreign_keys[f])
    /\ IsInjective(c.foreign_key_names)
    /\ Range(c.index_names) \cap Range(c.foreign_key_names) = {}
decode_catalog(c) ==
    IF tables_decode(c) /\ indexes_decode(c) /\ foreign_keys_decode(c) THEN c ELSE Refused

(***************************************************************************)
(* Rows against the catalog (row_identity.rs): what a table accepts, what  *)
(* a stored row means under a later declaration, the identity of a row,    *)
(* its key in an index, and the codec of a row.  A row is [primary,        *)
(* values].  A stored row is its sequence of values: it may be shorter     *)
(* than the declaration.                                                   *)
(***************************************************************************)
(* Row::validate.                                                          *)
ValuesFit(values, table) ==
    \A i \in DOMAIN values : /\ values[i][1] = "Null" => table.columns[i].nullable
                             /\ matches(values[i], table.columns[i].type)
validate_row(row, table) == Len(row.values) = Len(table.columns) /\ ValuesFit(row.values, table)

(* A stored row may predate appended nullable columns.                     *)
validate_stored(values, table) ==
    /\ Len(values) <= Len(table.columns)
    /\ ValuesFit(values, table)
    /\ \A i \in (Len(values) + 1)..Len(table.columns) : table.columns[i].nullable
materialize_for(values, table) ==
    IF validate_stored(values, table)
    THEN [i \in 1..Len(table.columns) |-> IF i <= Len(values) THEN values[i] ELSE Null]
    ELSE Refused

ValueOf(row, table, col) == row.values[Position(table, col)]
set_value(row, table, col, v) == [row EXCEPT !.values[Position(table, col)] = v]

(* RowIdentity::new and encode: the ordered key columns with their         *)
(* canonical values; a table without primary key uses the row's own key    *)
(* under column 0.                                                         *)
RowIdentity(table, columns, values) ==
    IF /\ columns # <<>> /\ Len(columns) <= MaxKeyColumns /\ Len(columns) = Len(values)
       /\ Distinct(columns) /\ \A i \in DOMAIN values : values[i][1] # "Null"
    THEN [table |-> table, columns |-> columns,
          values |-> [i \in DOMAIN values |-> encode_for_key(values[i])]]
    ELSE Refused
encode_legacy_key(table, primary) == RowIdentity(table, <<0>>, <<<<"Bytes", primary>>>>)
decode_legacy_key(table, identity) ==
    IF identity.table = table /\ identity.columns = <<0>> /\ identity.values[1][1] = "Bytes"
    THEN identity.values[1][2] ELSE Refused

row_identity_bytes(c, id, table, row) ==
    IF id \notin DOMAIN c.primary_keys THEN encode_legacy_key(id, row.primary)
    ELSE LET columns == c.primary_keys[id] IN
         RowIdentity(id, columns, [i \in DOMAIN columns |-> ValueOf(row, table, columns[i])])

(* The identity a caller looks up must be of this table's key.             *)
row_identity_bytes_for_lookup(c, id, identity) ==
    IF /\ id \in DOMAIN c.tables /\ id \in DOMAIN c.primary_keys
       /\ identity.table = id /\ identity.columns = c.primary_keys[id]
       /\ \A i \in DOMAIN identity.columns :
             matches(identity.values[i], column(c.tables[id], identity.columns[i]).type)
    THEN identity ELSE Refused

(* A stored row read back: under a primary key the row's own key is only a *)
(* digest of the identity.                                                 *)
row_from_storage_identity(c, id, table, identity, stored) ==
    LET primary == IF id \in DOMAIN c.primary_keys
                   THEN IF identity.columns = c.primary_keys[id] THEN "synthetic" ELSE Refused
                   ELSE decode_legacy_key(id, identity)
        values == materialize_for(stored, table)
        row == [primary |-> primary, values |-> values]
    IN IF identity.table # id \/ primary = Refused \/ values = Refused THEN Refused
       ELSE IF row_identity_bytes(c, id, table, row) # identity THEN Refused ELSE row

(* The key of a row in an index: NoKey when the predicate excludes the row *)
(* or a part is NULL, KeyError when an expression fails.                    *)
NoKey == <<>>
KeyError == <<<<"error", 0>>>>
predicate_matches(index, table, row) ==
    \A term \in index.predicate : value_eq(ValueOf(row, table, term[1]), term[2])
PartValue(part, table, row) ==
    IF part.op = NoOperator THEN ValueOf(row, table, part.columns[1])
    ELSE evaluate(part.op, ValueOf(row, table, part.columns[1]), ValueOf(row, table, part.columns[2]))
KeyOfValues(values) ==
    LET stop == {p \in DOMAIN values : values[p][1] \in {"Null", "error"}}
    IN IF stop = {} THEN [p \in DOMAIN values |-> encode_for_key(values[p])]
       ELSE IF values[CHOOSE p \in stop : \A q \in stop : p <= q][1] = "Null" THEN NoKey ELSE KeyError
row_index_key(index, table, row) ==
    IF index.partial /\ ~predicate_matches(index, table, row) THEN NoKey
    ELSE KeyOfValues([p \in DOMAIN index.parts |-> PartValue(index.parts[p], table, row)])

foreign_key_values(row, table, columns) == [i \in DOMAIN columns |-> ValueOf(row, table, columns[i])]
HasNull(values) == \E i \in DOMAIN values : values[i][1] = "Null"
SameValues(u, v) == Len(u) = Len(v) /\ \A i \in DOMAIN u : value_eq(u[i], v[i])

(* The key an exact lookup asks for.                                       *)
index_values_key(index, table, values) ==
    IF /\ Len(values) = Len(index.parts)
       /\ \A p \in DOMAIN values : index.parts[p].op = NoOperator
             => matches(values[p], column(table, index.parts[p].columns[1]).type)
    THEN [p \in DOMAIN values |-> encode_for_key(values[p])]
    ELSE Refused
===========================================================================
