----------------------------- MODULE SqlEngine ----------------------------
(***************************************************************************)
(* Statements over a set of tables (src/src/sql.rs, sql_query.rs,          *)
(* sql_write.rs, sql/explain.rs).  A database is a function from table     *)
(* names to tables; a query's body is a select (op "select") or a set      *)
(* operation [op, all, left, right].  A subquery is named by its index in  *)
(* env.queries, which stands for its canonical text.                       *)
(***************************************************************************)
EXTENDS SqlJoin

NoSubqueries == [in_lists |-> <<>>, exists |-> <<>>, error |-> <<>>]

(* The subqueries of a predicate: below NOT, AND, OR and comparisons only. *)
RECURSIVE collect_subqueries(_)
collect_subqueries(e) ==
    CASE e.op = "not" -> collect_subqueries(e.e)
      [] e.op \in {"and", "or", "cmp"} -> collect_subqueries(e.l) \o collect_subqueries(e.r)
      [] e.op \in {"insub", "exists"} -> <<e>>
      [] OTHER -> <<>>

(* Every row brought to the bound result types.                            *)
normalize_rows(rows, columns) ==
    IF \E i \in DOMAIN rows : Len(rows[i]) # Len(columns) THEN <<"error", "result width">>
    ELSE IF rows # <<>> /\ \E c \in DOMAIN columns : columns[c].type = "none" THEN <<"error", "result type">>
    ELSE LET typed == [i \in DOMAIN rows |-> [c \in DOMAIN columns |-> coerce_result_value(rows[i][c], columns[c].type)]]
         IN IF RowError(typed) # <<>> THEN RowError(typed)[1] ELSE <<"rows", typed>>

(* Both sides of a set operation meet in common types, unsigned integers   *)
(* in the signed domain.                                                   *)
Signed(v, type) == IF type # "I64" \/ v[1] # "U64" THEN v ELSE IF v[2] <= I64Max THEN <<"I64", v[2]>> ELSE OutOfRange
SetSide(rows, columns) ==
    LET normal == normalize_rows(rows, columns)
        signed == [i \in DOMAIN normal[2] |-> [c \in DOMAIN columns |-> Signed(normal[2][i][c], columns[c].type)]]
    IN IF IsError(normal) THEN normal
       ELSE IF RowError(signed) # <<>> THEN RowError(signed)[1] ELSE <<"rows", signed>>

CombineRows(op, all, left, right) ==
    LET among(r, s) == \E i \in DOMAIN s : SameRow(s[i], r)
    IN CASE op = "union" -> IF all THEN left \o right ELSE apply_distinct(left \o right)
         [] op = "intersect" -> apply_distinct(SelectSeq(left, LAMBDA r : among(r, right)))
         [] OTHER -> apply_distinct(SelectSeq(left, LAMBDA r : ~among(r, right)))

RECURSIVE execute_query(_, _, _)

execute_set_operation(q, db, env) ==
    LET side(body) == execute_query([body |-> body, order |-> <<>>, limit |-> <<>>, offset |-> <<>>], db, env)
        left == side(q.body.left)
        right == side(q.body.right)
        type(c) == common_type(left.columns[c].type, right.columns[c].type)
        columns == [c \in DOMAIN left.columns |-> Column(left.columns[c].name, TextIfNone(type(c)))]
        lrows == SetSide(left.rows, columns)
        rrows == SetSide(right.rows, columns)
        rows == CombineRows(q.body.op, q.body.all, lrows[2], rrows[2])
        sorted == IF q.order = <<>> THEN rows ELSE SortOutput(rows, q.order, columns)
        window == query_window(q, env)
    IN CASE ~left.ok -> left
         [] ~right.ok -> right
         [] Len(left.columns) # Len(right.columns) -> Failure("column counts")
         [] \E c \in DOMAIN columns : type(c) = "clash" -> Failure("mismatch")
         [] IsError(lrows) -> Failure(lrows[2])
         [] IsError(rrows) -> Failure(rrows[2])
         [] UnknownOrder(q.order, columns) -> Failure("undefined column")
         [] IsError(window) -> Failure(window[2])
         [] OTHER -> Answer(columns, Window(sorted, window[2], window[3]))

(* Each text is executed once; the form of its first use decides what is   *)
(* kept of the result.                                                     *)
resolve_subqueries(where, db, env) ==
    FoldLeft(LAMBDA found, e :
               IF found.error # <<>> \/ e.query \in DOMAIN found.in_lists \cup DOMAIN found.exists THEN found
               ELSE LET result == execute_query(env.queries[e.query], db, env)
                    IN CASE ~result.ok -> [found EXCEPT !.error = <<result.why>>]
                         [] e.op = "exists" -> [found EXCEPT !.exists = (e.query :> (result.rows # <<>>)) @@ @]
                         [] Len(result.columns) # 1 -> [found EXCEPT !.error = <<"one column">>]
                         [] OTHER -> [found EXCEPT !.in_lists = (e.query :> [i \in DOMAIN result.rows |-> result.rows[i][1]]) @@ @],
             NoSubqueries, IF where = <<>> THEN <<>> ELSE collect_subqueries(where[1]))

resolve_scalar_subqueries(projection, db, env) ==
    LET scalar == SelectSeq(projection, LAMBDA item : item.e.op = "scalar")
        resolved(item) == execute_query(env.queries[item.e.query], db, env)
        bad == {i \in DOMAIN scalar : ~resolved(scalar[i]).ok \/ Len(resolved(scalar[i]).rows) # 1}
    IN IF bad # {} THEN Failure("scalar subquery")
       ELSE [ok |-> TRUE, values |-> [n \in {scalar[i].e.query : i \in DOMAIN scalar} |->
                                        LET r == execute_query(env.queries[n], db, env)
                                        IN [v |-> r.rows[1][1], type |-> r.columns[1].type]]]

execute_query(q, db, env) ==
    LET s == q.body
        table == db[s.from[1].table]
        subqueries == resolve_subqueries(s.where, db, env)
        scalars == resolve_scalar_subqueries(s.projection, db, env)
    IN CASE s.op # "select" -> execute_set_operation(q, db, env)
         [] s.from = <<>> -> IF s.where # <<>> \/ s.projection = <<>> \/ q.order # <<>> THEN Failure("literal SELECT")
                             ELSE execute_literal_select(q, env)
         [] Len(s.from) > 1 -> execute_join_query(q, db, env)
         [] is_aggregate_query(s) -> execute_aggregate_query(q, table, env, subqueries)
         [] ~scalars.ok -> scalars
         [] OTHER -> execute_select(q, table, env, scalars.values, subqueries)

---------------------------------------------------------------------------
(* EXPLAIN: the access path named for a statement.                         *)
explain_table_predicate(table, where, env) ==
    LET plan == resolve_predicate_plan(table, where, env)
    IN IF plan.path = "error" THEN "error" ELSE plan.path
explain_statement(q, table, env) ==
    LET window == query_window(q, env)
    IN IF IsError(window) THEN "error"
       ELSE IF window[3] = 0 THEN "LimitZero"
       ELSE IF is_aggregate_query(q.body) THEN "SeqScan"
       ELSE explain_table_predicate(table, q.body.where, env)
explain_write(w, table, env) ==
    IF w.source # <<>> THEN "SeqScan" ELSE explain_table_predicate(table, w.where, env)

---------------------------------------------------------------------------
(* Writes.  The result is [ok, rows, affected, returned]: the table's rows *)
(* as the statement leaves them.  An update or delete is [table, alias,    *)
(* assignments, where, source, returning]; source is <<>> or the <<table   *)
(* name, alias>> of FROM or USING, returning <<>> or a sequence of column  *)
(* names and "*".                                                          *)
Wrote(rows, affected, returned) == [ok |-> TRUE, rows |-> rows, affected |-> affected, returned |-> returned]

sql_primary_key(values) == IF Typed(values[1]) /\ values[1][2] >= 0 THEN values[1][2] ELSE 0
KeyOf(table, values) == [i \in DOMAIN table.primary |-> encode_for_key(values[ColumnPosition(table, table.primary[i])])]

(* RETURNING: the positions of the columns asked for; a statement that has *)
(* one answers with rows and no count.                                     *)
returning_plan(table, items) ==
    FlattenSeq([i \in DOMAIN items |-> IF items[i] = "*" THEN [p \in DOMAIN table.columns |-> p]
                                       ELSE <<NamePosition(table.columns, items[i])>>])
Returned(result, table, items) ==
    LET plan == returning_plan(table, items)
    IN IF ~result.ok \/ items = <<>> THEN result
       ELSE IF 0 \in Range(plan) THEN Failure("undefined column")
       ELSE [result EXCEPT !.affected = 0, !.returned = [r \in DOMAIN @ |-> [i \in DOMAIN plan |-> @[r][plan[i]]]]]

insert_positions(table, columns) ==
    IF columns = <<>> THEN [i \in DOMAIN table.columns |-> i]
    ELSE [i \in DOMAIN columns |-> NamePosition(table.columns, columns[i])]

KeyTaken(table, rows, v) == \E i \in DOMAIN rows : KeyOf(table, rows[i].values) = KeyOf(table, v)

(* The rows to insert are all built before the first one is staged.        *)
execute_insert(table, columns, source, returning, db, env) ==
    LET positions == insert_positions(table, columns)
        answer == execute_query(source.query, db, env)
        listed == [r \in DOMAIN source.values |-> [i \in DOMAIN source.values[r] |-> literal_value(source.values[r][i], env)]]
        raw == IF source.kind = "values" THEN listed ELSE answer.rows
        built(r) == [p \in DOMAIN table.columns |->
                       LET at == {i \in DOMAIN positions : positions[i] = p}
                           v == r[CHOOSE i \in at : TRUE]
                       IN IF at = {} THEN NullValue ELSE IF IsError(v) THEN v ELSE coerce_value(v, table.columns[p])]
        rows == [r \in DOMAIN raw |-> built(raw[r])]
        missing(v) == \E p \in DOMAIN v : v[p] = NullValue /\ ~table.columns[p].nullable
        heap == table.primary = <<>>
        stage(acc, v) ==
          IF ~acc.ok THEN acc
          ELSE IF missing(v) THEN Failure("not null")
          ELSE IF ~heap /\ KeyTaken(table, acc.rows, v) THEN Failure("duplicate key")
          ELSE Wrote(Append(acc.rows, [primary |-> IF heap THEN Len(acc.rows) + 1 ELSE sql_primary_key(v), values |-> v]),
                     acc.affected + 1, Append(acc.returned, v))
    IN IF \E i \in DOMAIN positions : positions[i] = 0 \/ \E j \in 1..(i - 1) : positions[j] = positions[i]
       THEN Failure("columns")
       ELSE IF source.kind = "query" /\ ~answer.ok THEN answer
       ELSE IF (IF source.kind = "query" THEN Len(answer.columns) # Len(positions)
                ELSE \E r \in DOMAIN listed : Len(listed[r]) # Len(positions)) THEN Failure("width")
       ELSE IF RowError(rows) # <<>> THEN Failure(RowError(rows)[1][2])
       ELSE Returned(FoldLeft(stage, Wrote(table.rows, 0, <<>>), rows), table, returning)

(* An assignment reads the row as it was before the statement.             *)
assignment_operand(e, table, row, env) ==
    IF e.op = "col" THEN row.values[PositionOf(table.columns, e)] ELSE literal_value(e, env)
assignment_value(e, table, row, env) ==
    IF e.op # "arith" THEN assignment_operand(e, table, row, env)
    ELSE LET l == assignment_operand(e.l, table, row, env)
             r == assignment_operand(e.r, table, row, env)
         IN IF e.f \notin {"Plus", "Minus"} THEN Unsupported
            ELSE IF IsError(l) THEN l ELSE IF IsError(r) THEN r ELSE evaluate(e.f, l, r)

AssignedFrom(row, values) == row
apply_assignments(table, assignments, row, env) ==
    LET assign(values, a) ==
          LET p == NamePosition(table.columns, a.column)
              v == assignment_value(a.e, table, AssignedFrom(row, values), env)
          IN [values EXCEPT ![p] = IF IsError(v) THEN v ELSE coerce_value(v, table.columns[p])]
        values == FoldLeft(assign, row.values, assignments)
    IN IF FirstError(values) # <<>> THEN FirstError(values)[1]
       ELSE IF \E k \in Range(table.primary) : ~Same(values[ColumnPosition(table, k)], row.values[ColumnPosition(table, k)])
       THEN <<"error", "primary key">>
       ELSE <<"row", [row EXCEPT !.values = values]>>

(* The rows a write visits: candidates of the access path, or every row    *)
(* when a source is joined.                                                *)
cross_table_scope(table, name, source, db) == Qualified(table, name) \o Qualified(db[source[1]], source[2])
MatchesSource(where, row, rows, columns, env) ==
    LET at(i) == join_predicate(where, row.values \o rows[i].values, columns, env)
        stop == {i \in DOMAIN rows : IsError(at(i)) \/ at(i)[2] = "True"}
    IN IF stop = {} THEN <<"truth", "False">> ELSE at(First(stop))

Visited(w, table, db, env, access) ==
    IF w.source # <<>> THEN table.rows ELSE predicate_candidate_rows(table, access)

(* A joined source that is the target itself is read again for each row,   *)
(* as the statement has changed it so far.                                 *)
SourceRows(w, db, current) == IF w.source[1] = w.table THEN current ELSE db[w.source[1]].rows

Matches(w, table, row, db, current, env) ==
    IF w.source # <<>>
    THEN MatchesSource(w.where[1], row, SourceRows(w, db, current), cross_table_scope(table, w.alias, w.source, db), env)
    ELSE row_matches(w.where, row.values, table.columns, env, NoSubqueries)

Replace(rows, old, new) == [i \in DOMAIN rows |-> IF rows[i] = old THEN new ELSE rows[i]]

WriteRows(w, db, env, change(_, _, _)) ==
    LET table == db[w.table]
        access == resolve_predicate_plan(table, w.where, env)
        step(acc, row) ==
          LET m == Matches(w, table, row, db, acc.rows, env)
          IN IF ~acc.ok THEN acc ELSE IF IsError(m) THEN Failure(m[2])
             ELSE IF m[2] = "True" THEN change(acc, row, table) ELSE acc
    IN IF w.source # <<>> /\ w.where = <<>> THEN Failure("WHERE")
       ELSE IF w.source = <<>> /\ access.path = "error" THEN Failure(access.why[2])
       ELSE Returned(FoldLeft(step, Wrote(table.rows, 0, <<>>), Visited(w, table, db, env, access)), table, w.returning)

execute_update(w, db, env) ==
    LET change(acc, row, table) ==
          LET new == apply_assignments(table, w.assignments, row, env)
              missing == \E p \in DOMAIN table.columns : new[2].values[p] = NullValue /\ ~table.columns[p].nullable
          IN IF IsError(new) THEN Failure(new[2]) ELSE IF missing THEN Failure("not null")
             ELSE Wrote(Replace(acc.rows, row, new[2]), acc.affected + 1, Append(acc.returned, new[2].values))
    IN WriteRows(w, db, env, change)

execute_delete(w, db, env) ==
    LET change(acc, row, table) ==
          Wrote(SelectSeq(acc.rows, LAMBDA r : r # row), acc.affected + 1, Append(acc.returned, row.values))
    IN WriteRows(w, db, env, change)
===========================================================================
