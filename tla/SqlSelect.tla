----------------------------- MODULE SqlSelect ----------------------------
(***************************************************************************)
(* SELECT over one table (src/src/sql_query.rs, sql/explain.rs): access    *)
(* path, filter, order, projection, grouping.  A table is [name, columns,  *)
(* primary, indexes, rows]: primary is its sequence of key column ids, an  *)
(* index [id, parts, predicate] has column ids (0 for an expression) and   *)
(* the partial predicate's <<column, value>> terms; rows come in primary   *)
(* order.  A select is [projection, distinct, from, where, group, having], *)
(* a query [body, order, limit, offset] whose optional parts are sequences *)
(* of at most one element.                                                 *)
(***************************************************************************)
EXTENDS SqlTerm, FiniteSetsExt

Failure(why) == [ok |-> FALSE, why |-> why]
Answer(columns, rows) == [ok |-> TRUE, columns |-> columns, rows |-> rows]
Column(name, type) == [name |-> name, type |-> type]
Everything == 99                        \* usize::MAX
Window(rows, offset, limit) ==
    SubSeq(rows, offset + 1, IF offset + limit < Len(rows) THEN offset + limit ELSE Len(rows))

(* query_window: <<"window", offset, limit>>, or an error.                 *)
non_negative_integer(e, env) ==
    LET v == literal_value(e, env)
    IN IF IsError(v) THEN v ELSE IF Typed(v) /\ v[2] >= 0 THEN v ELSE <<"error", "negative">>
query_window(q, env) ==
    LET limit == [i \in DOMAIN q.limit |-> non_negative_integer(q.limit[i], env)]
        offset == [i \in DOMAIN q.offset |-> non_negative_integer(q.offset[i], env)]
    IN IF FirstError(limit \o offset) # <<>> THEN FirstError(limit \o offset)[1]
       ELSE <<"window", IF offset = <<>> THEN 0 ELSE offset[1][2], IF limit = <<>> THEN Everything ELSE limit[1][2]>>

---------------------------------------------------------------------------
(* The access path.                                                        *)
ColumnPosition(table, id) == CHOOSE i \in DOMAIN table.columns : table.columns[i].id = id
Unmodelled == <<"scan", 0>>

(* Terms <<position, value>> of AND-joined equalities, Unmodelled when the *)
(* predicate has any other shape, or an error.                             *)
RECURSIVE collect_equality_terms(_, _, _)
collect_equality_terms(e, table, env) ==
    IF e.op = "and"
    THEN LET l == collect_equality_terms(e.l, table, env)
             r == collect_equality_terms(e.r, table, env)
         IN IF l[1] # "terms" THEN l ELSE IF r[1] # "terms" THEN r ELSE <<"terms", l[2] \o r[2]>>
    ELSE IF e.op = "cmp" /\ e.f = "Eq"
    THEN LET lp == PositionOf(table.columns, e.l)
             rp == PositionOf(table.columns, e.r)
             position == IF lp # 0 THEN lp ELSE rp
             raw == literal_value(IF lp # 0 THEN e.r ELSE e.l, env)
             value == IF IsError(raw) THEN raw ELSE coerce_value(raw, table.columns[position])
         IN IF (lp = 0) = (rp = 0) THEN Unmodelled
            ELSE IF IsError(value) THEN value ELSE <<"terms", <<<<position, value>>>>>>
    ELSE Unmodelled

Binds(table, terms, id) == {i \in DOMAIN terms : table.columns[terms[i][1]].id = id}
BoundOnce(table, terms, id) == Cardinality(Binds(table, terms, id)) = 1
columns_covered_exactly_once(columns, table, terms) ==
    Len(columns) = Len(terms) /\ \A i \in DOMAIN columns : BoundOnce(table, terms, columns[i])

(* Mutant: a partial index is used without its predicate in the query.     *)
index_usable_partial(index, table, terms) ==
    /\ index.parts # <<>>
    /\ \A i \in DOMAIN index.parts : index.parts[i] # 0
    /\ ~\A i \in DOMAIN index.parts : index.parts[i] \in Range(table.primary)
    /\ IF index.predicate # <<>> THEN \A i \in DOMAIN index.parts : BoundOnce(table, terms, index.parts[i])
       ELSE columns_covered_exactly_once(index.parts, table, terms)
index_usable(index, table, terms) ==
    /\ index.parts # <<>>
    /\ \A i \in DOMAIN index.parts : index.parts[i] # 0
    /\ ~\A i \in DOMAIN index.parts : index.parts[i] \in Range(table.primary)
    /\ \A p \in DOMAIN index.predicate :
          \E i \in DOMAIN terms : /\ table.columns[terms[i][1]].id = index.predicate[p][1]
                                  /\ Same(terms[i][2], index.predicate[p][2])
    /\ IF index.predicate # <<>> THEN \A i \in DOMAIN index.parts : BoundOnce(table, terms, index.parts[i])
       ELSE columns_covered_exactly_once(index.parts, table, terms)

resolve_predicate_plan(table, where, env) ==
    LET collected == collect_equality_terms(where[1], table, env)
        terms == collected[2]
        usable == {x \in table.indexes : index_usable(x, table, terms)}
        best == CHOOSE x \in usable : \A y \in usable : \/ Len(y.parts) < Len(x.parts)
                                                        \/ Len(y.parts) = Len(x.parts) /\ x.id <= y.id
    IN IF where = <<>> THEN [path |-> "SeqScan"]
       ELSE IF IsError(collected) THEN [path |-> "error", why |-> collected]
       ELSE IF collected = Unmodelled THEN [path |-> "SeqScan"]
       ELSE IF \E i \in DOMAIN terms : terms[i][2] = NullValue THEN [path |-> "NullShortCircuit"]
       ELSE IF table.primary # <<>> /\ columns_covered_exactly_once(table.primary, table, terms)
            THEN [path |-> "PrimaryKeyLookup", columns |-> table.primary, terms |-> terms]
       ELSE IF usable # {} THEN [path |-> "IndexScan", index |-> best, columns |-> best.parts, terms |-> terms]
       ELSE [path |-> "SeqScan"]

bound_values(columns, table, terms) ==
    [i \in DOMAIN columns |-> terms[First(Binds(table, terms, columns[i]))][2]]

(* get_by_identity and index_get find the rows by their encoded key.       *)
KeyMatches(table, row, columns, values) ==
    \A i \in DOMAIN columns :
       encode_for_key(row.values[ColumnPosition(table, columns[i])]) = encode_for_key(values[i])
Indexed(table, row, index) ==
    \A p \in DOMAIN index.predicate : Same(row.values[ColumnPosition(table, index.predicate[p][1])], index.predicate[p][2])

predicate_candidate_rows(table, plan) ==
    CASE plan.path = "SeqScan" -> table.rows
      [] plan.path = "NullShortCircuit" -> <<>>
      [] OTHER ->
           LET values == bound_values(plan.columns, table, plan.terms)
           IN SelectSeq(table.rows,
                        LAMBDA r : /\ KeyMatches(table, r, plan.columns, values)
                                   /\ plan.path = "IndexScan" => Indexed(table, r, plan.index))

---------------------------------------------------------------------------
(* Projection.                                                             *)
IsAggregate(e) == e.op = "agg"
is_aggregate_query(s) == s.group # <<>> \/ \E i \in DOMAIN s.projection : IsAggregate(s.projection[i].e)
NameOf(item, default) == IF item.alias = "" THEN default ELSE item.alias

OrderTerm(columns, o) ==
    [position |-> PositionOf(columns, o.e), ascending |-> o.ascending, nulls_first |-> o.nulls_first]
order_plan(order, columns) == [i \in DOMAIN order |-> OrderTerm(columns, order[i])]

window_call(e, columns) ==
    [name |-> e.name, argument |-> IF e.args = <<>> THEN 0 ELSE PositionOf(columns, e.args[1]),
     partition |-> [i \in DOMAIN e.partition |-> PositionOf(columns, e.partition[i])],
     order |-> order_plan(e.order, columns)]
window_static_type(call, columns) ==
    CASE call.name \in {"row_number", "rank", "dense_rank"} -> "I64"
      [] call.name = "count" -> "U64"
      [] call.name = "avg" -> "Float64"
      [] OTHER -> columns[call.argument].type

(* One entry per output column: a source column, the n-th window call, the *)
(* value of a scalar subquery, or a computed term.                         *)
Star(columns) == [i \in DOMAIN columns |-> [kind |-> "column", at |-> i, out |-> Column(columns[i].name, columns[i].type)]]
projection_plan(projection, columns, env, scalars) ==
    LET calls(n) == Len(SelectSeq(SubSeq(projection, 1, n), LAMBDA i : i.e.op = "over"))
        entry(n) ==
          LET item == projection[n]
              e == item.e
              p == PositionOf(columns, e)
              t == plan_computed(e, columns, env)
          IN CASE e.op = "star" -> Star(columns)
               [] p # 0 -> <<[kind |-> "column", at |-> p, out |-> Column(NameOf(item, columns[p].name), columns[p].type)]>>
               [] e.op = "scalar" -> <<[kind |-> "literal", v |-> scalars[e.query].v,
                                        out |-> Column(NameOf(item, "scalar"), scalars[e.query].type)]>>
               [] e.op = "over" -> <<[kind |-> "window", at |-> calls(n),
                                      out |-> Column(NameOf(item, e.name), window_static_type(window_call(e, columns), columns))]>>
               [] OTHER -> <<[kind |-> "term", t |-> t,
                              out |-> Column(NameOf(item, "expression"),
                                             IF PlanFails(t) THEN "none" ELSE static_type(t, columns))]>>
    IN FlattenSeq([n \in DOMAIN projection |-> entry(n)])
PlanFailure(plan) == {i \in DOMAIN plan : plan[i].kind = "term" /\ PlanFails(plan[i].t)}
Outputs(plan) == [i \in DOMAIN plan |-> plan[i].out]

project_values(plan, values, windows) ==
    [i \in DOMAIN plan |-> CASE plan[i].kind = "term" -> evaluate_term(plan[i].t, values)
                             [] plan[i].kind = "window" -> windows[plan[i].at]
                             [] plan[i].kind = "column" -> values[plan[i].at]
                             [] OTHER -> plan[i].v]
RowError(rows) == FirstError(FlattenSeq(rows))

(* Keep the rows whose predicate is true; an error of any row examined     *)
(* fails the statement, and examination stops once enough rows are kept.   *)
Filter(rows, keeps(_), enough) ==
    FoldLeft(LAMBDA acc, r : IF acc.error # <<>> \/ Len(acc.rows) >= enough THEN acc
                             ELSE LET t == keeps(r)
                                  IN IF IsError(t) THEN [acc EXCEPT !.error = <<t>>]
                                     ELSE IF t[2] = "True" THEN [acc EXCEPT !.rows = Append(@, r)] ELSE acc,
             [rows |-> <<>>, error |-> <<>>], rows)

RowsNeeded(q, windows, offset, limit) ==
    IF q.order = <<>> /\ ~q.body.distinct /\ windows = <<>> THEN offset + limit ELSE Everything

(* A plain SELECT, its subqueries resolved.  subqueries carries in_lists,  *)
(* exists and any error of resolving them.                                 *)
execute_select(q, table, env, scalars, subqueries) ==
    LET s == q.body
        calls == [i \in 1..Len(SelectSeq(s.projection, LAMBDA x : x.e.op = "over")) |->
                    window_call(SelectSeq(s.projection, LAMBDA x : x.e.op = "over")[i].e, table.columns)]
        plan == projection_plan(s.projection, table.columns, env, scalars)
        order == order_plan(q.order, table.columns)
        window == query_window(q, env)
        access == resolve_predicate_plan(table, s.where, env)
        kept == Filter(predicate_candidate_rows(table, access),
                       LAMBDA r : row_matches(s.where, r.values, table.columns, env, subqueries),
                       RowsNeeded(q, calls, window[2], window[3]))
        sorted == IF order = <<>> THEN kept.rows ELSE SortRows(kept.rows, order)
        windows == evaluate_window_columns(sorted, calls)
        projected == [i \in DOMAIN sorted |-> project_values(plan, sorted[i].values, windows[i])]
        unique == IF s.distinct THEN apply_distinct(projected) ELSE projected
    IN IF PlanFailure(plan) # {} THEN Failure(plan[First(PlanFailure(plan))].t.why)
       ELSE IF IsError(window) THEN Failure(window[2])
       ELSE IF window[3] = 0 THEN Answer(Outputs(plan), <<>>)
       ELSE IF subqueries.error # <<>> THEN Failure(subqueries.error[1])
       ELSE IF access.path = "error" THEN Failure(access.why[2])
       ELSE IF kept.error # <<>> THEN Failure(kept.error[1][2])
       ELSE IF RowError(projected) # <<>> THEN Failure(RowError(projected)[1][2])
       ELSE Answer(Outputs(plan), Window(unique, window[2], window[3]))

(* SELECT without FROM.                                                    *)
execute_literal_select(q, env) ==
    LET terms == [i \in DOMAIN q.body.projection |-> plan_computed(q.body.projection[i].e, <<>>, env)]
        bad == {i \in DOMAIN terms : PlanFails(terms[i])}
        window == query_window(q, env)
        columns == [i \in DOMAIN terms |-> Column(NameOf(q.body.projection[i], "expression"), static_type(terms[i], <<>>))]
        row == [i \in DOMAIN terms |-> evaluate_term(terms[i], <<>>)]
    IN IF IsError(window) THEN Failure(window[2])
       ELSE IF bad # {} THEN Failure(terms[First(bad)].why)
       ELSE IF window[2] # 0 \/ window[3] = 0 THEN Answer(columns, <<>>)
       ELSE IF FirstError(row) # <<>> THEN Failure(FirstError(row)[1][2]) ELSE Answer(columns, <<row>>)
===========================================================================
