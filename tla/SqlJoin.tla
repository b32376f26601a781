------------------------------ MODULE SqlJoin -----------------------------
(***************************************************************************)
(* Grouped SELECT and joins (src/src/sql_query.rs).  A FROM is a sequence  *)
(* of [table, name, kind, constraint, on, using]: the first names the      *)
(* driving table, each later one a join with kind inner, left, right or    *)
(* full and constraint on, using, natural or none.  A combined column has  *)
(* its relation's name in rel, and rel "" when USING or NATURAL merged it. *)
(***************************************************************************)
EXTENDS SqlSelect

(* Incomparable pairs are equal.                                           *)
joined_value_ordering(l, r) == IF value_cmp(l, r) = Incomparable THEN 0 ELSE value_cmp(l, r)

NamePosition(columns, name) ==
    LET at == {i \in DOMAIN columns : columns[i].name = name} IN IF at = {} THEN 0 ELSE First(at)

(* ORDER BY over grouped output and set operations: by output name.        *)
SortOutput(rows, order, columns) ==
    LET position(o) == NamePosition(columns, o.e.name)
        less(l, r) ==
          LET of(o) == LET c == joined_value_ordering(l[position(o)], r[position(o)])
                       IN IF o.ascending THEN c ELSE -c
              decided == {i \in DOMAIN order : of(order[i]) # 0}
          IN decided # {} /\ of(order[First(decided)]) < 0
    IN StableSort(rows, less)
UnknownOrder(order, columns) == \E i \in DOMAIN order : NamePosition(columns, order[i].e.name) = 0

---------------------------------------------------------------------------
(* GROUP BY over one table.                                                *)
(* The keys of the groups in the order of the code's map.                  *)
KeyLess(k, l) == LET decided == {i \in DOMAIN k : value_ord(k[i], l[i]) # 0}
                 IN decided # {} /\ value_ord(k[First(decided)], l[First(decided)]) < 0
SortedKeys(keys) == StableSort(apply_distinct(keys), KeyLess)

AggregateType(e, columns) ==
    CASE e.name = "count" -> "I64" [] e.name = "avg" -> "Float64"
      [] OTHER -> columns[PositionOf(columns, e.args[1])].type
AggregateOf(e, members, columns) ==
    Accumulate(e.name, [i \in DOMAIN members |->
                          IF e.args = <<>> THEN NoValue ELSE members[i][PositionOf(columns, e.args[1])]])

(* The keys are handed out in GROUP BY order as columns come up.           *)
GroupRow(projection, key, members, columns, constants) ==
    LET keys_before(n) == Len(SelectSeq(SubSeq(projection, 1, n), LAMBDA x : PositionOf(columns, x.e) # 0))
        entry(n) == LET e == projection[n].e
                    IN CASE IsAggregate(e) -> <<AggregateOf(e, members, columns)>>
                         [] PositionOf(columns, e) # 0 ->
                              IF keys_before(n) \in DOMAIN key THEN <<key[keys_before(n)]>> ELSE <<>>
                         [] OTHER -> <<constants[n]>>
    IN FlattenSeq([n \in DOMAIN projection |-> entry(n)])

execute_aggregate_query(q, table, env, subqueries) ==
    LET s == q.body
        columns == table.columns
        group == [i \in DOMAIN s.group |-> PositionOf(columns, s.group[i])]
        term(n) == plan_computed(s.projection[n].e, <<>>, env)
        IsConstant(n) == ~IsAggregate(s.projection[n].e) /\ PositionOf(columns, s.projection[n].e) = 0
        constants == [n \in DOMAIN s.projection |->
                        IF ~IsConstant(n) THEN NullValue
                        ELSE IF PlanFails(term(n)) THEN <<"error", term(n).why>> ELSE evaluate_term(term(n), <<>>)]
        out(n) == LET item == s.projection[n]
                      p == PositionOf(columns, item.e)
                  IN CASE IsAggregate(item.e) -> Column(NameOf(item, item.e.name), AggregateType(item.e, columns))
                       [] p # 0 -> Column(NameOf(item, columns[p].name), columns[p].type)
                       [] OTHER -> Column(NameOf(item, "expression"), static_type(term(n), <<>>))
        outs == [n \in DOMAIN s.projection |-> out(n)]
        unsupported == \E n \in DOMAIN s.projection : s.projection[n].e.op = "func"
        ungrouped == \E n \in DOMAIN s.projection : /\ PositionOf(columns, s.projection[n].e) # 0
                                                    /\ PositionOf(columns, s.projection[n].e) \notin Range(group)
        window == query_window(q, env)
        kept == Filter(table.rows, LAMBDA r : row_matches(s.where, r.values, columns, env, subqueries), Everything)
        rows == [i \in DOMAIN kept.rows |-> kept.rows[i].values]
        key(r) == [g \in DOMAIN group |-> r[group[g]]]
        keys == IF group = <<>> THEN <<<<>>>> ELSE SortedKeys([i \in DOMAIN rows |-> key(rows[i])])
        grouped == [k \in DOMAIN keys |->
                      GroupRow(s.projection, keys[k], SelectSeq(rows, LAMBDA r : SameRow(key(r), keys[k])), columns, constants)]
        sorted == IF q.order = <<>> THEN grouped ELSE SortOutput(grouped, q.order, outs)
        short == \E k \in DOMAIN grouped : \E o \in DOMAIN q.order : NamePosition(outs, q.order[o].e.name) > Len(grouped[k])
    IN IF unsupported THEN Failure("unsupported aggregate function")
       ELSE IF ungrouped THEN Failure("must appear in GROUP BY")
       ELSE IF FirstError(constants) # <<>> THEN Failure(FirstError(constants)[1][2])
       ELSE IF IsError(window) THEN Failure(window[2])
       ELSE IF window[3] = 0 THEN Answer(outs, <<>>)
       ELSE IF subqueries.error # <<>> THEN Failure(subqueries.error[1])
       ELSE IF kept.error # <<>> THEN Failure(kept.error[1][2])
       ELSE IF RowError(grouped) # <<>> THEN Failure(RowError(grouped)[1][2])
       ELSE IF UnknownOrder(q.order, outs) THEN Failure("undefined column")
       ELSE IF short THEN Failure("index out of bounds")
       ELSE Answer(outs, Window(sorted, window[2], window[3]))

---------------------------------------------------------------------------
(* The analytical executor: the same aggregates over a table read in       *)
(* morsels of size rows, each by scanning again past the rows already      *)
(* delivered.  The query is [group, aggregates, size, quota]: columns,     *)
(* aggregate expressions, rows per morsel and groups the memory allows.    *)
next_offset(offset, chunk) == offset + Len(chunk)
RECURSIVE next_morsel(_, _, _)
next_morsel(rows, offset, size) ==
    LET chunk == Window(rows, offset, size)
    IN IF chunk = <<>> THEN <<>>
       ELSE <<chunk>> \o (IF Len(chunk) < size THEN <<>> ELSE next_morsel(rows, next_offset(offset, chunk), size))
execute_analytical(table, a) ==
    LET columns == table.columns
        morsels == next_morsel([i \in DOMAIN table.rows |-> table.rows[i].values], 0, a.size)
        scanned == FlattenSeq(morsels)
        key(r) == [g \in DOMAIN a.group |-> r[PositionOf(columns, a.group[g])]]
        seen == SortedKeys([i \in DOMAIN scanned |-> key(scanned[i])])
        keys == IF a.group = <<>> THEN <<<<>>>> ELSE seen
        row(k) == LET members == SelectSeq(scanned, LAMBDA r : SameRow(key(r), k))
                  IN k \o [i \in DOMAIN a.aggregates |-> AggregateOf(a.aggregates[i], members, columns)]
        rows == [k \in DOMAIN keys |-> row(keys[k])]
    IN IF a.group # <<>> /\ Len(keys) > a.quota THEN Failure("memory quota")
       ELSE IF RowError(rows) # <<>> THEN Failure(RowError(rows)[1][2])
       ELSE [ok |-> TRUE, rows |-> rows, morsels |-> Len(morsels), scanned |-> Len(scanned)]

---------------------------------------------------------------------------
(* Names over the combined columns: 0 when undefined, -1 when ambiguous.   *)
unique_bare_position(columns, name) ==
    LET exact == {i \in DOMAIN columns : columns[i].rel = "" /\ columns[i].name = name}
        dotted == {i \in DOMAIN columns : columns[i].name = name}
    IN IF exact # {} THEN First(exact)
       ELSE IF dotted = {} THEN 0 ELSE IF Cardinality(dotted) = 1 THEN First(dotted) ELSE -1
combined_column_position(e, columns) ==
    IF e.rel = "" THEN unique_bare_position(columns, e.name)
    ELSE LET at == {i \in DOMAIN columns : columns[i].rel = e.rel /\ columns[i].name = e.name}
         IN IF at = {} THEN 0 ELSE First(at)

Qualified(table, name) ==
    [i \in DOMAIN table.columns |-> [rel |-> name, name |-> table.columns[i].name, type |-> table.columns[i].type]]

(* ON as terms <<left position, incoming position, operator>>.             *)
Reversed(f) == CASE f = "Lt" -> "Gt" [] f = "Gt" -> "Lt" [] f = "LtEq" -> "GtEq" [] f = "GtEq" -> "LtEq" [] OTHER -> f
resolve_on_operand(e, scope, incoming) ==
    LET left == combined_column_position(e, scope)
        right == combined_column_position(e, incoming)
    IN IF left = -1 \/ (left > 0 /\ right > 0) THEN <<"error", 0>>
       ELSE IF left > 0 THEN <<"left", left>> ELSE IF right > 0 THEN <<"right", right>> ELSE <<"error", 0>>
RECURSIVE collect_on_comparisons(_, _, _)
collect_on_comparisons(e, scope, incoming) ==
    IF e.op = "and"
    THEN collect_on_comparisons(e.l, scope, incoming) \o collect_on_comparisons(e.r, scope, incoming)
    ELSE LET a == resolve_on_operand(e.l, scope, incoming)
             b == resolve_on_operand(e.r, scope, incoming)
         IN IF <<a[1], b[1]>> = <<"left", "right">> THEN <<<<a[2], b[2], e.f>>>>
            ELSE IF <<a[1], b[1]>> = <<"right", "left">> THEN <<<<b[2], a[2], Reversed(e.f)>>>>
            ELSE <<<<0, 0, e.f>>>>

join_pair_matches(l, r, f) == compare_values(l, r, f) = "True"

(* One join step over state [columns, visible, rows, bad].                 *)
MergedNames(join, state, incoming) ==
    CASE join.constraint = "using" -> join.using
      [] join.constraint = "natural" ->
           SelectSeq([i \in DOMAIN incoming |-> incoming[i].name],
                     LAMBDA n : \E v \in Range(state.visible) : state.columns[v].name = n)
      [] OTHER -> <<>>

Coalesced(l, r) == IF l[1] = "Null" THEN r ELSE l
KeepsRight(kind) == kind \in {"right", "full"}
KeepsLeft(kind) == kind \in {"left", "full"}

JoinStep(state, join, table) ==
    LET incoming == Qualified(table, join.name)
        offset == Len(state.columns)
        names == MergedNames(join, state, incoming)
        terms == IF join.constraint = "on" THEN collect_on_comparisons(join.on[1], state.columns, incoming)
                 ELSE [n \in DOMAIN names |-> <<unique_bare_position(state.columns, names[n]),
                                                NamePosition(incoming, names[n]), "Eq">>]
        unresolved == \E t \in DOMAIN terms : terms[t][1] <= 0 \/ terms[t][2] <= 0
        (* A slot of its own for each merge, unless the left side is one.  *)
        fresh(n) == state.columns[terms[n][1]].rel # ""
        slot(n) == IF fresh(n) THEN offset + Len(incoming) + Cardinality({m \in 1..n : fresh(m)}) ELSE terms[n][1]
        merged_type(n) == common_type(state.columns[terms[n][1]].type, incoming[terms[n][2]].type)
        slots == SelectSeq([n \in DOMAIN names |-> n], fresh)
        columns == [i \in DOMAIN state.columns |->
                      IF \E n \in DOMAIN names : ~fresh(n) /\ terms[n][1] = i
                      THEN [state.columns[i] EXCEPT !.type = merged_type(CHOOSE n \in DOMAIN names : terms[n][1] = i)]
                      ELSE state.columns[i]]
                   \o incoming \o [k \in DOMAIN slots |-> [rel |-> "", name |-> names[slots[k]], type |-> merged_type(slots[k])]]
        visible == [i \in DOMAIN state.visible |->
                      IF \E n \in DOMAIN names : fresh(n) /\ terms[n][1] = state.visible[i]
                      THEN slot(CHOOSE n \in DOMAIN names : terms[n][1] = state.visible[i]) ELSE state.visible[i]]
                   \o SelectSeq([i \in DOMAIN incoming |-> offset + i],
                                LAMBDA p : ~\E n \in DOMAIN names : terms[n][2] = p - offset)
        wide(l, r) == LET base == l \o r \o [k \in DOMAIN slots |-> NullValue]
                          at(n) == coerce_result_value(Coalesced(base[terms[n][1]], base[offset + terms[n][2]]), merged_type(n))
                      IN [i \in DOMAIN base |-> IF \E n \in DOMAIN names : slot(n) = i
                                                THEN at(CHOOSE n \in DOMAIN names : slot(n) = i) ELSE base[i]]
        Nulls(n) == [i \in 1..n |-> NullValue]
        pairs(l, r) == \A t \in DOMAIN terms : join_pair_matches(l[terms[t][1]], r[terms[t][2]], terms[t][3])
        rights == [i \in DOMAIN table.rows |-> table.rows[i].values]
        from(l) == LET hits == SelectSeq(rights, LAMBDA r : pairs(l, r))
                   IN IF hits = <<>> /\ KeepsLeft(join.kind) THEN <<wide(l, Nulls(Len(incoming)))>>
                      ELSE [i \in DOMAIN hits |-> wide(l, hits[i])]
        lonely == IF KeepsRight(join.kind)
                  THEN SelectSeq(rights, LAMBDA r : ~\E i \in DOMAIN state.rows : pairs(state.rows[i], r)) ELSE <<>>
    IN IF state.bad \/ unresolved THEN [state EXCEPT !.bad = TRUE]
       ELSE IF \E n \in DOMAIN names : merged_type(n) = "clash" THEN [state EXCEPT !.bad = TRUE]
       ELSE [columns |-> columns, visible |-> visible, bad |-> FALSE,
             rows |-> FlattenSeq([i \in DOMAIN state.rows |-> from(state.rows[i])])
                      \o [i \in DOMAIN lonely |-> wide(Nulls(offset), lonely[i])]]

FoldJoins(from, tables) ==
    LET first == tables[from[1].table]
    IN FoldLeft(LAMBDA state, join : JoinStep(state, join, tables[join.table]),
                [columns |-> Qualified(first, from[1].name), visible |-> [i \in DOMAIN first.columns |-> i],
                 rows |-> [i \in DOMAIN first.rows |-> first.rows[i].values], bad |-> FALSE],
                Tail(from))

---------------------------------------------------------------------------
(* WHERE over the combined row: two-valued, with NOT applied to a Boolean. *)
Boolean(b) == <<"truth", IF b THEN "True" ELSE "False">>
RECURSIVE join_predicate(_, _, _, _)
join_predicate(e, row, columns, env) ==
    LET value(x) == IF x.op = "col" THEN (IF combined_column_position(x, columns) > 0
                                          THEN row[combined_column_position(x, columns)] ELSE <<"error", "column">>)
                    ELSE literal_value(x, env)
        matches(l, r, f) == compare_values(l, r, f) = "True"
    IN CASE e.op \in {"and", "or"} ->
              LET l == join_predicate(e.l, row, columns, env)
                  decided == IF e.op = "and" THEN "False" ELSE "True"
              IN IF IsError(l) \/ l[2] = decided THEN l ELSE join_predicate(e.r, row, columns, env)
         [] e.op = "cmp" -> LET vs == <<value(e.l), value(e.r)>>
                            IN IF FirstError(vs) # <<>> THEN FirstError(vs)[1] ELSE Boolean(matches(vs[1], vs[2], e.f))
         [] e.op = "in" ->
              LET vs == <<value(e.e)>> \o [i \in DOMAIN e.list |-> literal_value(e.list[i], env)]
                  hit == membership_truth(vs[1], Tail(vs))
              IN IF FirstError(vs) # <<>> THEN FirstError(vs)[1]
                 ELSE Boolean((IF e.negated THEN truth_not(hit) ELSE hit) = "True")
         [] e.op = "between" ->
              LET vs == <<value(e.e), literal_value(e.low, env), literal_value(e.high, env)>>
              IN IF FirstError(vs) # <<>> THEN FirstError(vs)[1]
                 ELSE Boolean((matches(vs[1], vs[2], "GtEq") /\ matches(vs[1], vs[3], "LtEq")) # e.negated)
         [] OTHER -> <<"error", "unsupported">>

(* Aggregates over joined groups, the groups in first-seen order; HAVING   *)
(* compares a key, an alias or a projected aggregate with a literal.       *)
Aggregates(projection) == SelectSeq(projection, LAMBDA x : IsAggregate(x.e))
JoinedAggregates(projection, members, columns) ==
    LET aggs == Aggregates(projection)
        of(e) == Accumulate(e.name, [i \in DOMAIN members |->
                               IF e.args = <<>> THEN NoValue ELSE members[i][combined_column_position(e.args[1], columns)]])
    IN [i \in DOMAIN aggs |-> of(aggs[i].e)]

RECURSIVE having_predicate(_, _, _, _, _)
having_predicate(e, output, storage, projection, env) ==
    LET aggs == Aggregates(projection)
        keys == Len(storage) - Len(aggs)
        operand == IF e.l.op # "agg"
                   THEN IF combined_column_position(e.l, storage) > 0
                        THEN output[combined_column_position(e.l, storage)] ELSE <<"error", "column">>
                   ELSE LET same == {i \in DOMAIN aggs : aggs[i].e = e.l}
                        IN IF same = {} THEN Unsupported ELSE output[keys + First(same)]
        literal == literal_value(e.r, env)
    IN IF e.op \in {"and", "or"}
       THEN LET l == having_predicate(e.l, output, storage, projection, env)
                decided == IF e.op = "and" THEN "False" ELSE "True"
            IN IF IsError(l) \/ l[2] = decided THEN l ELSE having_predicate(e.r, output, storage, projection, env)
       ELSE IF IsError(operand) THEN operand ELSE IF IsError(literal) THEN literal
       ELSE Boolean(compare_values(operand, literal, e.f) = "True")

(* sort_joined_rows: nulls by their own rule, the rest by value.           *)
JoinedTerm(o, columns) ==
    [position |-> combined_column_position(o.e, columns), ascending |-> o.ascending, nulls_first |-> o.nulls_first]
sort_joined_rows(rows, order, columns) ==
    LET terms == [i \in DOMAIN order |-> JoinedTerm(order[i], columns)]
    IN StableSort(rows, LAMBDA l, r : compare_order_terms(l, r, terms) < 0)
JoinedOrderBad(order, columns) == \E i \in DOMAIN order : combined_column_position(order[i].e, columns) <= 0

joined_grouped_aggregates(q, rows, columns, env) ==
    LET s == q.body
        group == [i \in DOMAIN s.group |-> combined_column_position(s.group[i], columns)]
        aggs == Aggregates(s.projection)
        out(item, c) == [rel |-> "", name |-> NameOf(item, c.name), type |-> c.type]
        storage == [i \in DOMAIN group |-> columns[group[i]]] \o
                   [i \in DOMAIN aggs |->
                      out(aggs[i], [name |-> aggs[i].e.name,
                                    type |-> IF aggs[i].e.name = "count" THEN "I64"
                                             ELSE columns[combined_column_position(aggs[i].e.args[1], columns)].type])]
        position(n) == IF IsAggregate(s.projection[n].e)
                       THEN Len(group) + Len(Aggregates(SubSeq(s.projection, 1, n)))
                       ELSE First({g \in DOMAIN group : group[g] = combined_column_position(s.projection[n].e, columns)})
        positions == [n \in DOMAIN s.projection |-> position(n)]
        outs == [n \in DOMAIN positions |-> out(s.projection[n], storage[positions[n]])]
        (* A group key that is not projected can still be ordered by.      *)
        hidden == IF q.order = <<>> THEN <<>>
                  ELSE SelectSeq([g \in DOMAIN group |-> g], LAMBDA g : NamePosition(outs, storage[g].name) = 0)
        order_columns == outs \o [h \in DOMAIN hidden |-> out([alias |-> ""], storage[hidden[h]])]
        key(r) == [g \in DOMAIN group |-> r[group[g]]]
        seen == apply_distinct([i \in DOMAIN rows |-> key(rows[i])])
        keys == IF group = <<>> /\ seen = <<>> THEN <<<<>>>> ELSE seen
        output(k) == k \o JoinedAggregates(s.projection, SelectSeq(rows, LAMBDA r : SameRow(key(r), k)), columns)
        outputs == [k \in DOMAIN keys |-> output(keys[k])]
        kept == Filter(outputs, LAMBDA o : IF s.having = <<>> THEN <<"truth", "True">>
                                           ELSE having_predicate(s.having[1], o, storage, s.projection, env), Everything)
        ordered == [i \in DOMAIN kept.rows |-> [n \in DOMAIN positions |-> kept.rows[i][positions[n]]] \o
                                               [h \in DOMAIN hidden |-> kept.rows[i][hidden[h]]]]
        sorted == IF q.order = <<>> THEN ordered ELSE sort_joined_rows(ordered, q.order, order_columns)
        loose == \E n \in DOMAIN s.projection :
                    /\ ~IsAggregate(s.projection[n].e)
                    /\ combined_column_position(s.projection[n].e, columns) \notin Range(group)
    IN IF \E i \in DOMAIN aggs : aggs[i].e.name = "avg" THEN Failure("only COUNT/SUM/MIN/MAX")
       ELSE IF loose THEN Failure("must appear in GROUP BY")
       ELSE IF FirstError(FlattenSeq(outputs)) # <<>> THEN Failure(FirstError(FlattenSeq(outputs))[1][2])
       ELSE IF kept.error # <<>> THEN Failure(kept.error[1][2])
       ELSE IF JoinedOrderBad(q.order, order_columns) THEN Failure("undefined column")
       ELSE Answer([n \in DOMAIN outs |-> Column(outs[n].name, outs[n].type)],
                   [i \in DOMAIN sorted |-> SubSeq(sorted[i], 1, Len(outs))])

join_projection(projection, columns, visible, env) ==
    LET entry(item) ==
          LET e == item.e
              p == combined_column_position(e, columns)
              t == plan_computed(e, <<>>, env)
          IN CASE e.op = "star" -> [i \in DOMAIN visible |->
                                      [kind |-> "column", at |-> visible[i],
                                       out |-> Column(columns[visible[i]].name, columns[visible[i]].type)]]
               [] e.op = "col" -> IF p <= 0 THEN <<[kind |-> "literal", v |-> <<"error", "column">>, out |-> Column("", "none")]>>
                                  ELSE <<[kind |-> "column", at |-> p, out |-> Column(NameOf(item, e.name), columns[p].type)]>>
               [] OTHER -> <<[kind |-> "literal", v |-> IF PlanFails(t) THEN <<"error", t.why>> ELSE evaluate_term(t, <<>>),
                              out |-> Column(NameOf(item, "literal"), IF PlanFails(t) THEN "none" ELSE static_type(t, <<>>))]>>
    IN FlattenSeq([n \in DOMAIN projection |-> entry(projection[n])])

LiteralError(plan) == FirstError([i \in DOMAIN plan |-> IF plan[i].kind = "literal" THEN plan[i].v ELSE NullValue])

execute_join_query(q, tables, env) ==
    LET s == q.body
        joined == FoldJoins(s.from, tables)
        kept == Filter(joined.rows, LAMBDA r : IF s.where = <<>> THEN <<"truth", "True">>
                                               ELSE join_predicate(s.where[1], r, joined.columns, env), Everything)
        plan == join_projection(s.projection, joined.columns, joined.visible, env)
        sorted == IF q.order = <<>> THEN kept.rows ELSE sort_joined_rows(kept.rows, q.order, joined.columns)
        projected == [i \in DOMAIN sorted |-> project_values(plan, sorted[i], <<>>)]
        plain == IF JoinedOrderBad(q.order, joined.columns) THEN Failure("undefined column")
                 ELSE IF LiteralError(plan) # <<>> THEN Failure(LiteralError(plan)[1][2])
                 ELSE Answer(Outputs(plan), IF s.distinct THEN apply_distinct(projected) ELSE projected)
        result == IF is_aggregate_query(s) THEN joined_grouped_aggregates(q, kept.rows, joined.columns, env) ELSE plain
        window == query_window(q, env)
    IN IF joined.bad THEN Failure("join")
       ELSE IF RowError(joined.rows) # <<>> THEN Failure(RowError(joined.rows)[1][2])
       ELSE IF kept.error # <<>> THEN Failure(kept.error[1][2])
       ELSE IF ~result.ok THEN result
       ELSE IF IsError(window) THEN Failure(window[2])
       ELSE [result EXCEPT !.rows = Window(@, window[2], window[3])]
===========================================================================
