------------------------------ MODULE SqlDump -----------------------------
(***************************************************************************)
(* Logical dump and restore (src/src/sql_dump.rs).  A dump is a sequence   *)
(* of statements; what their text does with quotes and semicolons is       *)
(* modelled apart, over characters.                                        *)
(***************************************************************************)
EXTENDS SqlSchema

CONSTANTS ROWS_PER_INSERT,             \* 100
          RELATIONAL_SQL_BATCH_LIMIT   \* 1,024

sql_type_name(type) ==
    CASE type = "Bytes" -> "BYTEA" [] type = "Bool" -> "BOOLEAN" [] type = "I64" -> "BIGINT" [] type = "U64" -> "NUMERIC(20,0)"
      [] type = "Text" -> "TEXT" [] type = "Float64" -> "DOUBLE PRECISION" [] type = "Date" -> "DATE"
      [] type = "Timestamp" -> "TIMESTAMP" [] type = "Decimal" -> "NUMERIC" [] OTHER -> "UUID"

Literal(node, v) == [op |-> "lit", node |-> node, v |-> v]
(* An integer is written in decimal digits; a negative one parses as the   *)
(* negation of the number after its sign.                                  *)
IntegerText(node, n) ==
    IF n < 0 THEN [op |-> "neg", e |-> Literal(node, literal_number(Spell(-n)))] ELSE Literal(node, literal_number(Spell(n)))
render_value(node, v) ==
    CASE v[1] \in {"Null", "Bool", "Text"} -> Literal(node, v)
      [] v[1] \in Integral -> IntegerText(node, v[2])
      [] v[1] = "Decimal" -> Literal(node, <<"Text", decimal_text(v[2])>>)
(* A predicate value of another type is written in debug form, which is no *)
(* literal.                                                                *)
literal_text(v) ==
    CASE v[1] \in {"Null", "Bool", "Text"} -> Literal(0, v)
      [] v[1] \in Integral -> IntegerText(0, v[2])
      [] OTHER -> [op |-> "debug"]

column_name(table, id) == C!column(table, id).name
Named(name) == [op |-> "col", rel |-> "", name |-> name]
generated_index_name(table, id) == table.name \o "_ix_" \o ToString(id)

write_create_table(c, id) ==
    LET table == c.tables[id]
        names == [k \in DOMAIN c.primary_keys[id] |-> column_name(table, c.primary_keys[id][k])]
    IN [kind |-> "create table", plain |-> TRUE, name |-> table.name,
        columns |-> [i \in DOMAIN table.columns |->
                       [name |-> table.columns[i].name, type |-> sql_type_name(table.columns[i].type),
                        options |-> IF table.columns[i].nullable THEN <<>> ELSE <<"not null">>]],
        constraints |-> IF id \notin DOMAIN c.primary_keys THEN <<>>
                        ELSE <<[op |-> "primary", plain |-> TRUE, name |-> "", index_name |-> "", columns |-> names]>>]

render_row_values(r, row) == [i \in DOMAIN row.values |-> render_value(r * Len(row.values) + i, row.values[i])]
write_inserts(table, rows) ==
    LET chunks == (Len(rows) + ROWS_PER_INSERT - 1) \div ROWS_PER_INSERT
        chunk(k) == SubSeq(rows, (k - 1) * ROWS_PER_INSERT + 1, IF k = chunks THEN Len(rows) ELSE k * ROWS_PER_INSERT)
    IN [k \in 1..chunks |->
          [kind |-> "insert",
           w |-> [table |-> table.name, columns |-> [i \in DOMAIN table.columns |-> table.columns[i].name], returning |-> <<>>,
                  from |-> [kind |-> "values", values |-> [r \in DOMAIN chunk(k) |-> render_row_values(r, chunk(k)[r])]]]]]

(* The index of the primary key is told by its columns.                    *)
IsKeyIndex(c, i) ==
    LET index == c.indexes[i]
        primary == c.primary_keys[index.table]
    IN /\ index.table \in DOMAIN c.primary_keys
       /\ Len(index.parts) = Len(primary)
       /\ \A p \in DOMAIN index.parts : index.parts[p].op = C!NoOperator /\ index.parts[p].columns[1] \in Range(primary)

write_index(c, i) ==
    LET index == c.indexes[i]
        table == c.tables[index.table]
        key(p) == IF p.op = C!NoOperator THEN Named(column_name(table, p.columns[1]))
                  ELSE [op |-> "arith", f |-> p.op, l |-> Named(column_name(table, p.columns[1])), r |-> Named(column_name(table, p.columns[2]))]
        term(t) == [op |-> "cmp", f |-> "Eq", l |-> Named(column_name(table, t[1])), r |-> literal_text(t[2])]
        terms == SetToSeq(index.predicate)
    IN [kind |-> "create index", plain |-> TRUE, table |-> table.name, unique |-> index.unique,
        name |-> IF i \in DOMAIN c.index_names THEN c.index_names[i] ELSE generated_index_name(table, i),
        keys |-> [p \in DOMAIN index.parts |-> key(index.parts[p])],
        where |-> IF ~index.partial THEN <<>>
                  ELSE <<FoldLeft(LAMBDA acc, t : [op |-> "and", l |-> acc, r |-> term(t)], term(terms[1]), Tail(terms))>>]
write_foreign_key(c, f) ==
    LET fk == c.foreign_keys[f]
        names(table, ids) == [k \in DOMAIN ids |-> column_name(c.tables[table], ids[k])]
    IN [kind |-> "alter table", plain |-> TRUE, table |-> c.tables[fk.table].name,
        ops |-> <<[op |-> "add constraint", plain |-> TRUE,
                   constraint |-> [op |-> "foreign", plain |-> TRUE, index_name |-> "", table |-> c.tables[fk.referenced_table].name,
                                   name |-> IF f \in DOMAIN c.foreign_key_names THEN c.foreign_key_names[f] ELSE "fk_" \o ToString(f),
                                   columns |-> names(fk.table, fk.columns), referred |-> names(fk.referenced_table, fk.referenced_columns),
                                   on_delete |-> fk.on_delete]]>>]

Sections(tables, data, indexes, keys) == tables \o data \o indexes \o keys
NoDump == <<[kind |-> "refused"]>>
dump_sql(db) ==
    LET c == db.catalog
        tables == SetToSortSeq(DOMAIN c.tables, <)
        keys == SetToSortSeq(DOMAIN c.foreign_keys, <)
        indexes(id) == SetToSortSeq({i \in DOMAIN c.indexes : c.indexes[i].table = id /\ ~IsKeyIndex(c, i)}, <)
        Each(ids, f(_)) == [k \in DOMAIN ids |-> f(ids[k])]
    IN IF \E f \in DOMAIN c.foreign_keys : c.foreign_keys[f].timing # C!Immediate THEN NoDump
       ELSE Sections(Each(tables, LAMBDA t : write_create_table(c, t)),
                     FlattenSeq(Each(tables, LAMBDA t : write_inserts(c.tables[t], db.rows[t]))),
                     FlattenSeq(Each(tables, LAMBDA t : Each(indexes(t), LAMBDA i : write_index(c, i)))),
                     Each(keys, LAMBDA f : write_foreign_key(c, f)))

---------------------------------------------------------------------------
(* Restore: consecutive INSERTs run as one batch, up to a limit; the first *)
(* error stops it, and what was committed before stays.                    *)
flush_inserts(s) ==
    LET after == FoldLeft(Inserted, s.db, s.pending)
    IN IF s.failed \/ s.pending = <<>> THEN s
       ELSE IF after = NoDb THEN [s EXCEPT !.failed = TRUE] ELSE [s EXCEPT !.db = after, !.pending = <<>>]
restore_sql(db, statements) ==
    LET one(s, stmt) ==
          LET waiting == [s EXCEPT !.pending = Append(@, stmt)]
              flushed == flush_inserts(s)
              after == execute_sql(flushed.db, stmt)
          IN IF s.failed THEN s
             ELSE IF stmt.kind = "insert"
             THEN IF Len(waiting.pending) >= RELATIONAL_SQL_BATCH_LIMIT THEN flush_inserts(waiting) ELSE waiting
             ELSE IF flushed.failed THEN flushed
             ELSE IF after = NoDb THEN [flushed EXCEPT !.failed = TRUE] ELSE [flushed EXCEPT !.db = after]
    IN flush_inserts(FoldLeft(one, [db |-> db, pending |-> <<>>, failed |-> FALSE], statements))

---------------------------------------------------------------------------
(* The text of a script over the characters x, ' and " (spelled q and d)   *)
(* and ;.                                                                  *)
Doubled(text, quote) == FlattenSeq([i \in DOMAIN text |-> IF text[i] = quote THEN <<quote, quote>> ELSE <<text[i]>>])
quote_string(text) == <<"q">> \o Doubled(text, "q") \o <<"q">>
quote_identifier(text) == <<"d">> \o Doubled(text, "d") \o <<"d">>

(* inside is the quote that is open; half says the last character was that *)
(* quote, which either closes the literal or doubles.                      *)
SplitStep(s, ch) ==
    LET open == s.inside # "" /\ ~s.half
        closed == [s EXCEPT !.inside = "", !.half = FALSE]
        outside == IF s.half /\ ch # s.inside THEN closed ELSE s
    IN CASE s.half /\ ch = s.inside -> [s EXCEPT !.half = FALSE, !.current = Append(@, ch)]
         [] open -> [s EXCEPT !.current = Append(@, ch), !.half = ch = s.inside]
         [] ch \in {"q", "d"} -> [outside EXCEPT !.current = Append(@, ch), !.inside = ch]
         [] ch = ";" -> [outside EXCEPT !.current = <<>>, !.done = IF s.current = <<>> THEN @ ELSE Append(@, s.current)]
         [] OTHER -> [outside EXCEPT !.current = Append(@, ch)]
Unterminated == <<"unterminated">>
split_statements(text) ==
    LET end == FoldLeft(SplitStep, [inside |-> "", half |-> FALSE, current |-> <<>>, done |-> <<>>], text)
    IN IF end.inside # "" /\ ~end.half THEN Unterminated
       ELSE IF end.current = <<>> THEN end.done ELSE Append(end.done, end.current)
===========================================================================
