------------------------------ MODULE SqlTerm -----------------------------
(***************************************************************************)
(* Computed projections, ordering, aggregates and window functions of the  *)
(* SQL executor (src/src/sql_query.rs, morsel.rs, sql/window.rs).  A row   *)
(* is [primary, values]; an order term is [position, ascending,            *)
(* nulls_first].                                                           *)
(***************************************************************************)
EXTENDS SqlExpr

(* A stable sort by insertion: an element goes left past those it is less  *)
(* than.  It is what the code's sort does when the order is total.         *)
StableSort(s, less(_, _)) ==
    FoldLeft(LAMBDA done, x :
                LET stay == {i \in DOMAIN done : ~less(x, done[i])}
                    at == IF stay = {} THEN 0 ELSE Len(done) + 1 - First({Len(done) + 1 - i : i \in stay})
                IN SubSeq(done, 1, at) \o <<x>> \o SubSeq(done, at + 1, Len(done)),
             <<>>, s)

Same(v, w) == v[1] = w[1] /\ (v[1] = "Null" \/ value_eq(v, w))
SameRow(r, s) == Len(r) = Len(s) /\ \A i \in DOMAIN r : Same(r[i], s[i])

---------------------------------------------------------------------------
(* Computed terms: a tree with the columns and literals resolved.          *)
PlanError(why) == [op |-> "Error", why |-> why]
PlanFails(t) == t.op = "Error"

RECURSIVE static_type(_, _)
static_type(t, columns) ==
    CASE t.op = "Cast" -> t.type
      [] t.op = "Column" -> columns[t.position].type
      [] t.op = "Literal" -> value_static_type(t.v)
      [] t.op = "Binary" -> common_type(static_type(t.l, columns), static_type(t.r, columns))
      [] t.op \in {"Case", "Coalesce"} -> t.type
      [] t.op = "Scalar" -> IF t.name = "length" THEN "I64" ELSE static_type(t.e, columns)

CommonOf(terms, columns) ==
    FoldLeft(LAMBDA kind, t : common_type(kind, static_type(t, columns)), "none", terms)
TextIfNone(kind) == IF kind = "none" THEN "Text" ELSE kind

(* A searched WHEN is a comparison; a NULL test is planned as a comparison *)
(* with NULL.                                                              *)
RECURSIVE plan_computed(_, _, _)
plan_computed(e, columns, env) ==
    LET plan(x) == plan_computed(x, columns, env)
        all(terms, term) == IF \E i \in DOMAIN terms : PlanFails(terms[i])
                            THEN terms[First({i \in DOMAIN terms : PlanFails(terms[i])})] ELSE term
    IN CASE e.op = "cast" -> LET t == plan(e.e) IN all(<<t>>, [op |-> "Cast", e |-> t, type |-> e.type])
         [] e.op = "col" -> IF PositionOf(columns, e) = 0 THEN PlanError("undefined column")
                            ELSE [op |-> "Column", position |-> PositionOf(columns, e)]
         [] e.op = "arith" -> LET l == plan(e.l)
                                  r == plan(e.r)
                              IN all(<<l, r>>, [op |-> "Binary", f |-> e.f, l |-> l, r |-> r])
         [] e.op = "case" ->
              LET none == [op |-> "Literal", v |-> NullValue]
                  when(c) == IF e.operand # <<>> THEN [f |-> "Eq", l |-> plan(c), r |-> none]
                             ELSE CASE c.op = "cmp" -> [f |-> c.f, l |-> plan(c.l), r |-> plan(c.r)]
                                    [] c.op = "isnull" -> [f |-> "Eq", l |-> plan(c.e), r |-> none]
                                    [] c.op = "notnull" -> [f |-> "NotEq", l |-> plan(c.e), r |-> none]
                                    [] OTHER -> [f |-> "Eq", l |-> PlanError("unsupported"), r |-> none]
                  operand == [i \in DOMAIN e.operand |-> plan(e.operand[i])]
                  whens == [i \in DOMAIN e.whens |-> when(e.whens[i].when)]
                  results == [i \in DOMAIN e.whens |-> plan(e.whens[i].then)] \o
                             [i \in DOMAIN e.default |-> plan(e.default[i])]
                  parts == operand \o [i \in DOMAIN whens |-> whens[i].l] \o
                           [i \in DOMAIN whens |-> whens[i].r] \o results
                  kind == CommonOf(results, columns)
              IN all(parts, IF kind = "clash" THEN PlanError("mismatch")
                            ELSE [op |-> "Case", operand |-> operand, whens |-> whens, results |-> results,
                                  type |-> TextIfNone(kind)])
         [] e.op = "func" /\ e.name = "coalesce" ->
              LET args == [i \in DOMAIN e.args |-> plan(e.args[i])]
                  kind == CommonOf(args, columns)
              IN all(args, IF kind = "clash" THEN PlanError("mismatch")
                           ELSE [op |-> "Coalesce", args |-> args, type |-> TextIfNone(kind)])
         [] e.op = "func" /\ e.name \in ScalarFunctions ->
              LET t == plan(e.args[1]) IN all(<<t>>, [op |-> "Scalar", name |-> e.name, e |-> t])
         [] OTHER -> LET v == literal_value(e, env)
                     IN IF IsError(v) THEN PlanError(v[2]) ELSE [op |-> "Literal", v |-> v]

RECURSIVE evaluate_term(_, _)
evaluate_term(t, values) ==
    LET coerced(v, type) == IF IsError(v) THEN v ELSE coerce_result_value(v, type) IN
    CASE t.op = "Cast" -> coerced(evaluate_term(t.e, values), t.type)
      [] t.op = "Column" -> values[t.position]
      [] t.op = "Literal" -> t.v
      [] t.op = "Binary" -> LET l == evaluate_term(t.l, values)
                                r == evaluate_term(t.r, values)
                            IN IF IsError(l) THEN l ELSE IF IsError(r) THEN r ELSE evaluate(t.f, l, r)
      [] t.op = "Scalar" -> LET v == evaluate_term(t.e, values)
                            IN IF IsError(v) THEN v ELSE apply_scalar_function(t.name, v)
      [] t.op = "Coalesce" ->
            LET vs == [i \in DOMAIN t.args |-> evaluate_term(t.args[i], values)]
                stop == {i \in DOMAIN vs : vs[i][1] # "Null"}
            IN IF stop = {} THEN NullValue ELSE coerced(vs[First(stop)], t.type)
      [] t.op = "Case" ->
            LET sides(i) == IF t.operand # <<>>
                            THEN <<evaluate_term(t.operand[1], values), evaluate_term(t.whens[i].l, values)>>
                            ELSE <<evaluate_term(t.whens[i].l, values), evaluate_term(t.whens[i].r, values)>>
                stops(i) == LET s == sides(i) IN \/ FirstError(s) # <<>>
                                                 \/ compare_values(s[1], s[2], t.whens[i].f) = "True"
                stop == {i \in DOMAIN t.whens : stops(i)}
                fallback == IF Len(t.results) = Len(t.whens) THEN NullValue
                            ELSE coerced(evaluate_term(t.results[Len(t.results)], values), t.type)
            IN IF t.operand # <<>> /\ IsError(evaluate_term(t.operand[1], values))
               THEN evaluate_term(t.operand[1], values)
               ELSE IF stop = {} THEN fallback
               ELSE IF FirstError(sides(First(stop))) # <<>> THEN FirstError(sides(First(stop)))[1]
               ELSE coerced(evaluate_term(t.results[First(stop)], values), t.type)

---------------------------------------------------------------------------
(* Order.                                                                  *)
term_order(v, w, t) ==
    LET o == value_cmp(v, w) IN
    IF v[1] = "Null" /\ w[1] = "Null" THEN 0
    ELSE IF v[1] = "Null" THEN (IF t.nulls_first THEN -1 ELSE 1)
    ELSE IF w[1] = "Null" THEN (IF t.nulls_first THEN 1 ELSE -1)
    ELSE IF o = Incomparable THEN 0 ELSE IF t.ascending THEN o ELSE -o

compare_order_terms(l, r, terms) ==
    LET of(t) == term_order(l[t.position], r[t.position], t)
        decided == {i \in DOMAIN terms : of(terms[i]) # 0}
    IN IF decided = {} THEN 0 ELSE of(terms[First(decided)])

compare_rows(l, r, terms) ==
    LET o == compare_order_terms(l.values, r.values, terms)
    IN IF o # 0 THEN o ELSE Sign(l.primary - r.primary)
SortRows(rows, terms) == StableSort(rows, LAMBDA l, r : compare_rows(l, r, terms) < 0)

apply_distinct(rows) ==
    FoldLeft(LAMBDA kept, r : IF \E i \in DOMAIN kept : SameRow(kept[i], r) THEN kept ELSE Append(kept, r),
             <<>>, rows)

---------------------------------------------------------------------------
(* Aggregate accumulators.  An average keeps its count; a float sum is     *)
(* machine arithmetic and only its presence is kept.  Byte strings and     *)
(* UUIDs have no order here.                                               *)
NoValue == <<"None", 0>>                \* a count of rows: no column
new_accumulator(kind) ==
    CASE kind = "count" -> <<"Count", 0>>
      [] kind = "sum" -> <<"SumUnset", 0>>
      [] kind = "avg" -> <<"Avg", 0>>
      [] kind \in {"min", "max"} -> <<kind, NullValue>>

accumulated_cmp(l, r) == IF l[1] = r[1] \/ (Typed(l) /\ Typed(r)) THEN value_cmp(l, r) ELSE 0
InI64(n) == n \in (-I64Max - 1)..I64Max
update(acc, v) ==
    LET sum == acc[2] + v[2]
        missing == v[1] \in {"Null", "None"}
        better == IF acc[1] = "min" THEN -1 ELSE 1
    IN CASE acc[1] = "Count" -> IF v[1] = "Null" THEN acc ELSE <<"Count", acc[2] + 1>>
         [] missing -> acc
         [] acc[1] = "SumUnset" ->
              CASE v[1] = "I64" -> <<"SumI64", v[2]>> [] v[1] = "U64" -> <<"SumU64", v[2]>>
                [] v[1] = "Float64" -> <<"SumF64", "computed">>
                [] v[1] = "Decimal" -> <<"SumDecimal", v[2]>> [] OTHER -> <<"error", "not numeric">>
         [] acc[1] = "SumI64" -> IF ~Typed(v) THEN <<"error", "not numeric">>
                                 ELSE IF InI64(sum) THEN <<"SumI64", sum>> ELSE OutOfRange
         [] acc[1] = "SumU64" -> IF ~Typed(v) THEN <<"error", "not numeric">>
                                 ELSE IF v[2] < 0 THEN (IF InI64(sum) THEN <<"SumI64", sum>> ELSE OutOfRange)
                                 ELSE IF sum <= U64Max THEN <<"SumU64", sum>> ELSE OutOfRange
         [] acc[1] = "SumDecimal" ->
              IF v[1] # "Decimal" THEN <<"error", "not numeric">>
              ELSE LET s == decimal_add(acc[2], v[2], 1) IN IF IsError(s) THEN s ELSE <<"SumDecimal", s[2]>>
         [] acc[1] = "SumF64" -> IF v[1] = "Float64" THEN acc ELSE <<"error", "not numeric">>
         [] acc[1] = "Avg" -> IF v[1] \in Numeric THEN <<"Avg", acc[2] + 1>> ELSE <<"error", "not numeric">>
         [] OTHER -> IF acc[2] = NullValue THEN <<acc[1], v>>
                     ELSE IF accumulated_cmp(v, acc[2]) = better THEN <<acc[1], v>> ELSE acc

finalize(acc) ==
    CASE acc[1] = "Count" -> <<"U64", acc[2]>>
      [] acc[1] = "SumUnset" -> NullValue
      [] acc[1] = "SumI64" -> <<"I64", acc[2]>>
      [] acc[1] = "SumU64" -> <<"U64", acc[2]>>
      [] acc[1] = "SumDecimal" -> <<"Decimal", acc[2]>>
      [] acc[1] = "SumF64" -> <<"Float64", "computed">>
      [] acc[1] = "Avg" -> IF acc[2] = 0 THEN NullValue ELSE <<"Float64", "computed">>
      [] acc[1] \in {"min", "max"} -> acc[2]
      [] OTHER -> acc
Accumulate(kind, values) ==
    finalize(FoldLeft(LAMBDA acc, v : IF IsError(acc) THEN acc ELSE update(acc, v),
                      new_accumulator(kind), values))

---------------------------------------------------------------------------
(* Window functions: a call is [name, argument, partition, order], with    *)
(* argument 0 for a row count.                                              *)
Argument(row, call) == IF call.argument = 0 THEN NoValue ELSE row.values[call.argument]

peer_group_end(ordered, order, i) ==
    LET later == {j \in i..Len(ordered) : compare_order_terms(ordered[i].values, ordered[j].values, order) # 0}
    IN IF later = {} THEN Len(ordered) ELSE First(later) - 1

ranks(ordered, call) ==
    LET tied(i) == \A k \in DOMAIN call.order :
                      Same(ordered[i - 1].values[call.order[k].position], ordered[i].values[call.order[k].position])
        starts(i) == {j \in 2..i : ~tied(j)}
        last(i) == Len(ordered) + 1 - First({Len(ordered) + 1 - j : j \in starts(i)})
    IN [i \in DOMAIN ordered |->
          <<"I64", IF call.name = "dense_rank" THEN Cardinality(starts(i)) + 1
                   ELSE IF starts(i) = {} THEN 1 ELSE last(i)>>]

partition_values(ordered, call) ==
    LET frame_end(i) == IF call.order = <<>> THEN Len(ordered) ELSE peer_group_end(ordered, call.order, i)
        at(i) == IF i \in DOMAIN ordered THEN Argument(ordered[i], call) ELSE NullValue
    IN CASE call.name = "row_number" -> [i \in DOMAIN ordered |-> <<"I64", i>>]
         [] call.name \in {"rank", "dense_rank"} -> ranks(ordered, call)
         [] call.name = "lag" -> [i \in DOMAIN ordered |-> at(i - 1)]
         [] call.name = "lead" -> [i \in DOMAIN ordered |-> at(i + 1)]
         [] call.name = "first_value" -> [i \in DOMAIN ordered |-> at(1)]
         [] call.name = "last_value" -> [i \in DOMAIN ordered |-> at(frame_end(i))]
         [] OTHER -> [i \in DOMAIN ordered |->
                        Accumulate(call.name, [j \in 1..frame_end(i) |-> Argument(ordered[j], call)])]

evaluate_call(rows, call) ==
    LET key(r) == [k \in DOMAIN call.partition |-> r.values[call.partition[k]]]
        mine(r) == SelectSeq(rows, LAMBDA s : SameRow(key(s), key(r)))
        ordered(r) == IF call.order = <<>> THEN mine(r) ELSE SortRows(mine(r), call.order)
        place(r) == CHOOSE i \in DOMAIN ordered(r) : ordered(r)[i] = r
    IN [i \in DOMAIN rows |-> partition_values(ordered(rows[i]), call)[place(rows[i])]]

evaluate_window_columns(rows, calls) ==
    [i \in DOMAIN rows |-> [c \in DOMAIN calls |-> evaluate_call(rows, calls[c])[i]]]
===========================================================================
