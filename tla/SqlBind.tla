------------------------------ MODULE SqlBind -----------------------------
(***************************************************************************)
(* Binding of a statement before it runs (src/src/sql/binding.rs and its   *)
(* parts).  The binder b is threaded through: params are the parameter     *)
(* types found so far, hints the declared ones, casts the types given to   *)
(* literals by node, outputs the column types of each body by its id, read *)
(* and write the tables it will touch, and error the first error.  Binding *)
(* goes on after an error; only the first one counts.  A bound thing is    *)
(* [b, t], its type t a [kind, string].                                    *)
(***************************************************************************)
EXTENDS SqlEngine

Known(kind) == [kind |-> kind, string |-> FALSE]
Refuse(b, why) == [b EXCEPT !.error = IF @ = <<>> THEN <<why>> ELSE @]
Meets(b, kind) == IF kind = "clash" THEN Refuse(b, "mismatch") ELSE b
Common(t, u) == [kind |-> common_type(t.kind, u.kind), string |-> t.string \/ u.string]
Need(b, holds, why) == IF holds THEN b ELSE Refuse(b, why)
IsNumeric(t) == t.kind \in Numeric \cup {"none", "clash"}
NumericOnly(kind) == IF kind \in Numeric THEN kind ELSE "none"
Default(kind, fallback) == IF kind = "none" THEN fallback ELSE kind

---------------------------------------------------------------------------
(* Scopes: columns [qualifier, name, type, merged, coalesced].             *)
EmptyScope == [columns |-> <<>>, relations |-> <<>>]
resolve(scope, e) ==
    LET found == {i \in DOMAIN scope.columns :
                    /\ scope.columns[i].name = e.name
                    /\ IF e.rel = "" THEN ~scope.columns[i].merged ELSE scope.columns[i].qualifier = e.rel}
    IN IF e.op # "col" \/ found = {} THEN 0 ELSE IF Cardinality(found) > 1 THEN -1 ELSE First(found)
visible_type(c) == IF c.coalesced = "none" THEN c.type ELSE c.coalesced
scope_type(scope, e) ==
    LET c == scope.columns[resolve(scope, e)] IN IF e.rel = "" THEN visible_type(c) ELSE c.type
Resolved(b, scope, e) == Need(b, resolve(scope, e) > 0, "column")
ColumnType(scope, e) == IF resolve(scope, e) > 0 THEN Known(scope_type(scope, e)) ELSE Known("none")

merge(scope, name, incoming) ==
    LET bare == [op |-> "col", rel |-> "", name |-> name]
        common == common_type(scope_type(scope, bare), incoming)
        at == resolve(scope, bare)
    IN [scope EXCEPT !.columns = [i \in DOMAIN @ |-> IF i = at THEN [@[i] EXCEPT !.coalesced = common] ELSE @[i]]]
same_column(scope, l, r) ==
    LET p == resolve(scope, l)
    IN p > 0 /\ resolve(scope, r) = p /\ (scope.columns[p].coalesced = "none" \/ (l.rel = "") = (r.rel = ""))
append(scope, other) == [columns |-> scope.columns \o other.columns, relations |-> scope.relations \o other.relations]
OutputScope(columns) ==
    [EmptyScope EXCEPT !.columns = [i \in DOMAIN columns |->
        [qualifier |-> "", name |-> columns[i].name, type |-> columns[i].t.kind, merged |-> FALSE, coalesced |-> "none"]]]
factor(table, name) ==
    [columns |-> [i \in DOMAIN table.columns |->
                    [qualifier |-> name, name |-> table.columns[i].name, type |-> table.columns[i].type,
                     merged |-> FALSE, coalesced |-> "none"]],
     relations |-> <<name>>]

(* The tables a statement reads, for its privileges.                       *)
Reads(b, tables) == [b EXCEPT !.read = @ \cup tables]

---------------------------------------------------------------------------
(* Expressions.                                                            *)
parameter(b, i, expected) ==
    LET hinted == i \in DOMAIN b.hints /\ b.hints[i] # "none"
        met == common_type(IF hinted THEN b.hints[i] ELSE b.params[i], expected)
    IN IF expected = "none" THEN [b |-> b, t |-> Known(b.params[i])]
       ELSE IF hinted THEN [b |-> Meets(b, met), t |-> Known(b.hints[i])]
       ELSE IF met = "clash" THEN [b |-> Refuse(b, "mismatch"), t |-> Known("none")]
       ELSE [b |-> [b EXCEPT !.params[i] = met], t |-> Known(met)]

literal_context(b, node, expected) ==
    LET met == common_type(IF node \in DOMAIN b.casts THEN b.casts[node] ELSE "none", expected)
    IN IF expected = "none" THEN b
       ELSE IF met = "clash" THEN Refuse(b, "mismatch") ELSE [b EXCEPT !.casts = (node :> met) @@ @]

(* Mutant: a string literal is not checked against the type expected.      *)
validate_string_any(text, expected) == TRUE
validate_string(text, expected) ==
    expected \in {"none", "Text"} \/ ~IsError(coerce_value(<<"Text", text>>, [type |-> expected, nullable |-> TRUE]))

RECURSIVE computed_shape(_)
computed_shape(e) ==
    CASE e.op \in {"col", "lit", "param", "neg"} -> TRUE
      [] e.op = "cast" -> computed_shape(e.e)
      [] e.op = "arith" -> computed_shape(e.l) /\ computed_shape(e.r)
      [] e.op = "func" -> /\ e.name \in ScalarFunctions \cup {"coalesce"}
                          /\ \A i \in DOMAIN e.args : computed_shape(e.args[i])
      [] e.op = "case" ->
           /\ \A i \in DOMAIN e.operand : computed_shape(e.operand[i])
           /\ \A i \in DOMAIN e.default : computed_shape(e.default[i])
           /\ \A i \in DOMAIN e.whens :
                /\ computed_shape(e.whens[i].then)
                /\ LET c == e.whens[i].when
                   IN CASE e.operand # <<>> -> computed_shape(c)
                        [] c.op = "cmp" -> computed_shape(c.l) /\ computed_shape(c.r)
                        [] c.op \in {"isnull", "notnull"} -> computed_shape(c.e)
                        [] OTHER -> FALSE
      [] OTHER -> FALSE

RECURSIVE bind_expr(_, _, _, _, _)

(* The expressions are bound for their common type, then again in it.      *)
common_expressions(b, es, scope, mode, expected) ==
    LET first == FoldLeft(LAMBDA acc, e : LET r == bind_expr(acc.b, e, scope, mode, "none")
                                          IN [b |-> r.b, t |-> Common(acc.t, r.t)],
                          [b |-> b, t |-> Known(expected)], es)
        met == Meets(first.b, first.t.kind)
    IN IF met.error # <<>> THEN [b |-> met, t |-> first.t]
       ELSE [b |-> FoldLeft(LAMBDA acc, e : bind_expr(acc, e, scope, mode, first.t.kind).b, met, es), t |-> first.t]

comparable(b, l, r, scope, mode) ==
    LET lt == bind_expr(b, l, scope, mode, "none")
        rt == bind_expr(lt.b, r, scope, mode, "none")
        l2 == bind_expr(rt.b, l, scope, mode, rt.t.kind)
        r2 == bind_expr(l2.b, r, scope, mode, lt.t.kind)
    IN Meets(r2.b, common_type(lt.t.kind, rt.t.kind))

bind_literal(b, e, expected) ==
    CASE e.v[1] = "Null" -> [b |-> literal_context(b, e.node, expected), t |-> Known(expected)]
      [] e.v[1] = "Text" -> [b |-> literal_context(Need(b, validate_string(e.v[2], expected), "mismatch"), e.node, expected),
                             t |-> [kind |-> "none", string |-> TRUE]]
      [] OTHER -> [b |-> b, t |-> Known(e.v[1])]

bind_arith(b, e, scope, mode, expected) ==
    LET l == bind_expr(b, e.l, scope, mode, "none")
        r == bind_expr(l.b, e.r, scope, mode, "none")
        met == Common(Common(l.t, r.t), Known(NumericOnly(expected)))
        checked == Need(Need(Meets(r.b, met.kind), IsNumeric(met), "mismatch"),
                        e.f # "Modulo" \/ met.kind \notin {"Float64", "Decimal"}, "unsupported")
        context == Default(met.kind, "I64")
        l2 == bind_expr(checked, e.l, scope, mode, context)
        r2 == bind_expr(l2.b, e.r, scope, mode, context)
        t == Common(l2.t, r2.t)
    IN IF checked.error # <<>> THEN [b |-> checked, t |-> met] ELSE [b |-> Meets(r2.b, t.kind), t |-> t]

bind_case(b, e, scope, expected) ==
    LET condition(acc, arm) ==
          LET c == arm.when
          IN IF e.operand # <<>> THEN comparable(acc, e.operand[1], c, scope, "Computed")
             ELSE CASE c.op = "cmp" -> comparable(acc, c.l, c.r, scope, "Computed")
                    [] c.op \in {"isnull", "notnull"} -> bind_expr(acc, c.e, scope, "Computed", "none").b
                    [] OTHER -> Refuse(acc, "unsupported")
        conditions == FoldLeft(condition, Need(b, e.whens # <<>>, "unsupported"), e.whens)
    IN common_expressions(conditions, [i \in DOMAIN e.whens |-> e.whens[i].then] \o e.default, scope, "Computed", expected)

(* An operand bound once for its type, and again in it.                    *)
Settled(b, e, scope, mode, expected, refused) ==
    LET r == bind_expr(b, e, scope, mode, NumericOnly(expected))
        checked == Need(Need(r.b, IsNumeric(r.t), "mismatch"), r.t.kind \notin refused, "unsupported")
    IN IF checked.error # <<>> THEN [b |-> checked, t |-> r.t]
       ELSE bind_expr(checked, e, scope, mode, Default(r.t.kind, "I64"))

bind_function(b, e, scope, mode, expected) ==
    LET argument == IF mode = "Computed" THEN mode ELSE "Literal"
    IN CASE e.name = "coalesce" -> common_expressions(Need(b, e.args # <<>>, "unsupported"), e.args, scope, argument, expected)
         [] e.name = "length" -> [b |-> bind_expr(b, e.args[1], scope, argument, "Text").b, t |-> Known("I64")]
         [] e.name = "abs" -> Settled(b, e.args[1], scope, argument, expected, {"U64"})
         [] OTHER -> [b |-> Refuse(b, "unsupported"), t |-> Known("none")]

bind_expr(b, e, scope, mode0, expected) ==
    LET mode == IF mode0 = "Computed" /\ ~computed_shape(e) THEN "Literal" ELSE mode0
        r == CASE e.op = "lit" -> bind_literal(b, e, expected)
               [] e.op = "col" /\ mode # "Literal" -> [b |-> Resolved(b, scope, e), t |-> ColumnType(scope, e)]
               [] e.op = "neg" -> LET s == Settled(b, e.e, scope, "Literal", expected, {})
                                  IN [s EXCEPT !.b = Need(@, s.t.kind # "U64", "unsupported")]
               [] e.op = "arith" /\ mode # "Literal" -> bind_arith(b, e, scope, mode, expected)
               [] e.op = "case" /\ mode = "Computed" -> bind_case(b, e, scope, expected)
               [] e.op = "func" -> bind_function(b, e, scope, mode, expected)
               [] e.op = "cast" -> [b |-> bind_expr(b, e.e, scope, IF mode = "Computed" THEN mode ELSE "Literal", e.type).b,
                                    t |-> Known(e.type)]
               [] OTHER -> [b |-> Refuse(b, "unsupported"), t |-> Known("none")]
    IN IF b.error # <<>> THEN [b |-> b, t |-> Known("none")]
       ELSE IF e.op = "param" THEN parameter(b, e.i, expected)
       ELSE [b |-> Meets(r.b, common_type(r.t.kind, expected)),
             t |-> IF r.t.kind = "none" /\ r.t.string THEN [r.t EXCEPT !.kind = expected] ELSE r.t]

---------------------------------------------------------------------------
(* Queries.                                                                *)
constrain_outputs(b, body, expected) ==
    LET old == IF body.id \in DOMAIN b.outputs THEN b.outputs[body.id] ELSE <<>>
        wide == old \o [i \in 1..(Len(expected) - Len(old)) |-> "none"]
        new == [i \in DOMAIN wide |-> IF i \in DOMAIN expected THEN common_type(wide[i], expected[i]) ELSE wide[i]]
    IN IF b.error # <<>> THEN b
       ELSE IF \E i \in DOMAIN new : new[i] = "clash" THEN Refuse(b, "mismatch")
       ELSE [b EXCEPT !.outputs = (body.id :> new) @@ @, !.changed = @ \/ new # old]

bind_on(b, e, left, right, combined) ==
    LET term(acc, t) ==
          LET lr == resolve(left, t.l) > 0 /\ resolve(right, t.r) > 0
              rl == resolve(left, t.r) > 0 /\ resolve(right, t.l) > 0
              plain == Need(Need(Need(acc, t.op = "cmp" /\ t.l.op = "col" /\ t.r.op = "col", "unsupported"),
                                 resolve(combined, t.l) > 0 /\ resolve(combined, t.r) > 0, "column"),
                            lr \/ rl, "unsupported")
          IN IF plain.error # <<>> THEN plain ELSE comparable(plain, t.l, t.r, combined, "Operand")
        RECURSIVE terms(_)
        terms(x) == IF x.op = "and" THEN terms(x.l) \o terms(x.r) ELSE <<x>>
    IN FoldLeft(term, b, terms(e))

(* The scope of a FROM; <<scope, b>>.                                      *)
bind_from(b, from, db) ==
    LET join(acc, j) ==
          LET scope == acc[1]
              incoming == factor(db[j.table], j.name)
              bare(n) == [op |-> "col", rel |-> "", name |-> n]
              shared == SelectSeq([i \in DOMAIN incoming.columns |-> incoming.columns[i].name],
                                  LAMBDA n : \E c \in Range(scope.columns) : ~c.merged /\ c.name = n)
              names == CASE j.constraint = "using" -> j.using [] j.constraint = "natural" -> shared [] OTHER -> <<>>
              found == /\ \A n \in Range(names) : resolve(scope, bare(n)) > 0 /\ resolve(incoming, bare(n)) > 0
                       /\ j.constraint \in {"using", "natural"} => names # <<>>
              mergeable == \A n \in Range(names) : common_type(scope_type(scope, bare(n)), scope_type(incoming, bare(n))) # "clash"
              merged == FoldLeft(LAMBDA s, n : merge(s, n, scope_type(incoming, bare(n))), scope, names)
              marked == [incoming EXCEPT !.columns = [i \in DOMAIN @ |-> [@[i] EXCEPT !.merged = incoming.columns[i].name \in Range(names)]]]
              b1 == IF j.constraint = "on" THEN bind_on(acc[2], j.on[1], scope, incoming, append(scope, incoming)) ELSE acc[2]
              b2 == Need(Need(b1, j.name \notin Range(scope.relations), "duplicate relation"), found, "column")
          IN IF acc[2].error # <<>> THEN acc
             ELSE IF b2.error # <<>> \/ ~mergeable THEN <<scope, Refuse(b2, "mismatch")>>
             ELSE <<append(merged, marked), b2>>
    IN IF from = <<>> THEN <<EmptyScope, b>>
       ELSE FoldLeft(join, <<factor(db[from[1].table], from[1].name), Reads(b, {from[i].table : i \in DOMAIN from})>>, Tail(from))

bind_aggregate(b, e, scope, joined) ==
    LET t == IF e.args = <<>> THEN Known("none") ELSE ColumnType(scope, e.args[1])
        b1 == Need(b, ~(joined /\ e.name = "avg") /\ (e.args = <<>> => e.name = "count"), "unsupported")
        b2 == IF e.args = <<>> THEN b1 ELSE Resolved(b1, scope, e.args[1])
    IN [b |-> Need(b2, e.name \notin {"sum", "avg"} \/ IsNumeric(t), "mismatch"),
        t |-> CASE e.name = "count" -> Known("I64") [] e.name = "avg" -> Known("Float64") [] OTHER -> t]

bind_window(b, e, scope) ==
    LET refs == e.partition \o [i \in DOMAIN e.order |-> e.order[i].e]
        b1 == FoldLeft(LAMBDA acc, x : Resolved(acc, scope, x), b, refs)
    IN CASE e.name \in {"row_number", "rank", "dense_rank"} -> [b |-> Need(b1, e.args = <<>>, "unsupported"), t |-> Known("I64")]
         [] e.name \in {"lag", "lead", "first_value", "last_value"} ->
              [b |-> Resolved(b1, scope, e.args[1]), t |-> ColumnType(scope, e.args[1])]
         [] OTHER -> bind_aggregate(b1, e, scope, FALSE)

RECURSIVE bind_query(_, _, _, _)

RECURSIVE bind_predicate(_, _, _, _, _, _)
bind_predicate(b, e, scope, db, joined, subqueries) ==
    LET sub(x, acc) == bind_predicate(acc, x, scope, db, joined, subqueries)
        side(x) == IF x.op = "col" THEN "Operand" ELSE "Literal"
    IN CASE e.op \in {"and", "or"} -> sub(e.r, sub(e.l, b))
         [] e.op = "not" /\ ~joined -> sub(e.e, b)
         [] e.op = "cmp" /\ ~joined -> comparable(b, e.l, e.r, scope, "Operand")
         [] e.op = "cmp" ->
              LET l == bind_expr(b, e.l, scope, side(e.l), "none")
                  r == bind_expr(l.b, e.r, scope, side(e.r), "none")
                  met == common_type(l.t.kind, r.t.kind)
                  l2 == bind_expr(Meets(r.b, met), e.l, scope, side(e.l), met)
              IN bind_expr(l2.b, e.r, scope, side(e.r), met).b
         [] e.op = "in" ->
              LET candidate == bind_expr(IF joined THEN Resolved(b, scope, e.e) ELSE b, e.e, scope, "Operand", "none")
                  all == FoldLeft(LAMBDA acc, x : LET r == bind_expr(acc.b, x, scope, "Literal", "none")
                                                  IN [b |-> r.b, t |-> Common(acc.t, r.t)], candidate, e.list)
                  again == bind_expr(Meets(all.b, all.t.kind), e.e, scope, "Operand", all.t.kind).b
              IN FoldLeft(LAMBDA acc, x : bind_expr(acc, x, scope, "Literal", all.t.kind).b, again, e.list)
         [] e.op = "between" ->
              LET low == bind_expr(Resolved(b, scope, e.e), e.low, scope, "Literal", "none").b
                  both == IF joined THEN bind_expr(low, e.high, scope, "Literal", "none").b ELSE b
              IN comparable(comparable(both, e.e, e.low, scope, "Operand"), e.e, e.high, scope, "Operand")
         [] e.op \in {"isnull", "notnull"} /\ ~joined -> bind_expr(b, e.e, scope, "Operand", "none").b
         [] e.op = "insub" /\ ~joined /\ subqueries ->
              LET candidate == bind_expr(b, e.e, scope, "Operand", "none")
                  inner == bind_query(candidate.b, b.queries[e.query], db, <<candidate.t.kind>>)
                  met == common_type(candidate.t.kind, inner.columns[1].t.kind)
                  again == bind_expr(Meets(inner.b, met), e.e, scope, "Operand", met).b
              IN IF inner.b.error # <<>> THEN inner.b
                 ELSE IF Len(inner.columns) # 1 THEN Refuse(inner.b, "unsupported")
                 ELSE constrain_outputs(again, b.queries[e.query].body, <<met>>)
         [] e.op = "exists" /\ ~joined /\ subqueries -> bind_query(b, b.queries[e.query], db, <<>>).b
         [] e.op \in {"insub", "exists", "not", "isnull", "notnull"} -> Refuse(b, "unsupported")
         [] OTHER -> IF joined THEN Refuse(b, "unsupported") ELSE bind_expr(b, e, scope, "Operand", "Bool").b

RECURSIVE bind_having(_, _, _, _, _)
bind_having(b, e, projection, input, output) ==
    IF e.op \in {"and", "or"}
    THEN bind_having(bind_having(b, e.l, projection, input, output), e.r, projection, input, output)
    ELSE LET projected == \E i \in DOMAIN projection : projection[i].e = e.l
             l == IF e.l.op = "agg" THEN bind_aggregate(Need(b, projected, "unsupported"), e.l, input, TRUE)
                  ELSE [b |-> Resolved(b, output, e.l), t |-> ColumnType(output, e.l)]
             r == bind_expr(l.b, e.r, output, "Literal", "none")
             met == common_type(l.t.kind, r.t.kind)
         IN IF e.op # "cmp" THEN Refuse(b, "unsupported") ELSE bind_expr(Meets(r.b, met), e.r, output, "Literal", met).b

bind_order(b, order, scope, output_only) ==
    FoldLeft(LAMBDA acc, o : Resolved(Need(acc, o.e.op = "col" /\ (output_only => o.e.rel = ""), "unsupported"), scope, o.e), b, order)

bind_limit(b, es) ==
    LET negative(e) == e.op = "neg" /\ e.e.op = "lit" /\ e.e.v[1] = "I64" /\ e.e.v[2] > 0
        RECURSIVE null(_)
        null(e) == IF e.op \in {"neg", "cast"} THEN null(e.e) ELSE e.op = "lit" /\ e.v = NullValue
        one(acc, e) == LET r == bind_expr(acc, e, EmptyScope, "Literal", "I64")
                       IN Need(r.b, r.t.kind \in Integral /\ ~r.t.string /\ ~negative(e) /\ ~null(e), "window")
    IN FoldLeft(one, b, es)

(* aggregate_select counts every function that is not a scalar one.        *)
aggregate_select(s) == is_aggregate_query(s)

(* One projection item: its columns [name, t], with the binder.            *)
bind_item(b, item, s, scope, db, aggregate, hint) ==
    LET e == item.e
        joined == Len(s.from) > 1
        literal == s.from = <<>>
        grouped == \E g \in DOMAIN s.group : same_column(scope, e, s.group[g])
        visible == SelectSeq(scope.columns, LAMBDA c : ~c.merged)
        inner == bind_query(b, b.queries[e.query], db, <<hint>>)
        r == CASE aggregate /\ e.op = "col" -> [b |-> Need(Resolved(b, scope, e), grouped, "GROUP BY"), t |-> ColumnType(scope, e)]
               [] aggregate /\ e.op = "agg" -> bind_aggregate(b, e, scope, joined)
               [] aggregate -> IF joined \/ e.op \in {"func", "over", "scalar"} THEN [b |-> Refuse(b, "unsupported"), t |-> Known("none")]
                               ELSE bind_expr(b, e, scope, "Literal", hint)
               [] e.op = "over" -> bind_window(Need(b, ~joined /\ ~literal, "unsupported"), e, scope)
               [] e.op = "scalar" ->
                    IF joined \/ literal \/ inner.b.error # <<>> \/ Len(inner.columns) # 1
                    THEN [b |-> Refuse(inner.b, "unsupported"), t |-> Known("none")]
                    ELSE [b |-> inner.b, t |-> inner.columns[1].t]
               [] OTHER -> bind_expr(b, e, scope, IF literal \/ (joined /\ e.op # "col") THEN "Literal" ELSE "Computed", hint)
        name == IF e.op \in {"col", "agg", "over"} THEN e.name ELSE IF joined THEN "literal" ELSE "expression"
    IN IF e.op = "star"
       THEN [b |-> Need(b, ~aggregate /\ scope.columns # <<>>, "unsupported"),
             columns |-> [i \in DOMAIN visible |-> [name |-> IF joined THEN visible[i].qualifier \o "." \o visible[i].name ELSE visible[i].name, t |-> Known(visible_type(visible[i]))]]]
       ELSE [b |-> r.b, columns |-> <<[name |-> NameOf(item, name), t |-> r.t]>>]

bind_select(b, s, db, expected) ==
    LET from == bind_from(b, s.from, db)
        scope == from[1]
        joined == Len(s.from) > 1
        aggregate == CASE s.from = <<>> -> s.group # <<>>
                       [] joined -> s.group # <<>> \/ \A i \in DOMAIN s.projection : s.projection[i].e.op \in {"agg", "func", "over"}
                       [] OTHER -> aggregate_select(s)
        b1 == Need(from[2], s.from # <<>> \/ (s.where = <<>> /\ ~aggregate /\ s.having = <<>>), "unsupported")
        b2 == IF s.where = <<>> \/ b1.error # <<>> THEN b1 ELSE bind_predicate(b1, s.where[1], scope, db, joined, TRUE)
        b3 == FoldLeft(LAMBDA acc, g : Resolved(acc, scope, g), b2, s.group)
        b4 == Need(b3, s.having = <<>> \/ (aggregate /\ joined), "unsupported")
        item(acc, x) ==
          LET at == Len(acc.columns) + 1
              r == bind_item(acc.b, x, s, scope, db, aggregate, IF at \in DOMAIN expected THEN expected[at] ELSE "none")
          IN IF acc.b.error # <<>> THEN acc ELSE [b |-> r.b, columns |-> acc.columns \o r.columns]
        items == FoldLeft(item, [b |-> b4, columns |-> <<>>], s.projection)
        keys == [g \in DOMAIN s.group |-> [name |-> s.group[g].name, t |-> ColumnType(scope, s.group[g])]]
        values == SelectSeq([i \in DOMAIN s.projection |-> <<s.projection[i].e.op, i>>], LAMBDA x : x[1] = "agg")
        output == OutputScope(keys \o [i \in DOMAIN values |-> items.columns[values[i][2]]])
    IN IF items.b.error # <<>> \/ s.having = <<>> THEN items
       ELSE [items EXCEPT !.b = bind_having(@, s.having[1], s.projection, scope, output)]

ArmKind(l, r) == common_type(l, r)
RECURSIVE bind_set_expr(_, _, _, _)
bind_set_expr(b, body, db, expected0) ==
    LET b1 == constrain_outputs(b, body, expected0)
        expected == b1.outputs[body.id]
        l == bind_set_expr(b1, body.left, db, expected)
        r == bind_set_expr(l.b, body.right, db, expected)
        met(i) == common_type(ArmKind(l.columns[i].t.kind, r.columns[i].t.kind),
                              IF i \in DOMAIN expected THEN expected[i] ELSE "none")
        both == [i \in DOMAIN l.columns |-> [l.columns[i] EXCEPT !.t = [kind |-> met(i), string |-> @.string \/ r.columns[i].t.string]]]
        done == IF body.op = "select" THEN bind_select(b1, body, db, expected)
                ELSE IF r.b.error # <<>> THEN r
                ELSE IF (body.all /\ body.op # "union") \/ Len(l.columns) # Len(r.columns)
                THEN [b |-> Refuse(r.b, "unsupported"), columns |-> <<>>]
                ELSE [b |-> Need(r.b, \A i \in DOMAIN both : both[i].t.kind # "clash", "mismatch"), columns |-> both]
    IN IF b1.error # <<>> THEN [b |-> b1, columns |-> <<>>]
       ELSE [done EXCEPT !.b = constrain_outputs(@, body, [i \in DOMAIN done.columns |-> done.columns[i].t.kind])]

bind_query(b, q, db, expected) ==
    LET s == q.body
        done == bind_set_expr(b, s, db, expected)
        undecided == \E i \in DOMAIN done.columns : done.columns[i].t.kind = "none"
        preferred == [i \in DOMAIN done.columns |-> Default(done.columns[i].t.kind, "Text")]
        b1 == IF b.prefer /\ undecided THEN constrain_outputs(done.b, s, preferred) ELSE done.b
        plain == s.op = "select" /\ ~aggregate_select(s)
        input == bind_from(b1, s.from, db)
        hidden == SelectSeq(s.group, LAMBDA g : ~\E i \in DOMAIN done.columns : done.columns[i].name = g.name)
        scope == IF plain THEN input[1]
                 ELSE IF s.op = "select" /\ Len(s.from) > 1
                 THEN OutputScope(done.columns \o [g \in DOMAIN hidden |-> [name |-> hidden[g].name, t |-> ColumnType(input[1], hidden[g])]])
                 ELSE OutputScope(done.columns)
        b2 == IF q.order = <<>> THEN b1
              ELSE IF s.op = "select" /\ s.from = <<>> THEN Refuse(b1, "unsupported")
              ELSE bind_order(b1, q.order, scope, ~plain)
    IN IF done.b.error # <<>> THEN done ELSE [done EXCEPT !.b = bind_limit(b2, q.limit \o q.offset)]

---------------------------------------------------------------------------
(* Writes.                                                                 *)
bind_returning(table, items) ==
    LET plan == returning_plan(table, items)
    IN [i \in DOMAIN plan |-> [name |-> table.columns[plan[i]].name, t |-> Known(table.columns[plan[i]].type)]]
Write(b, w, db) ==
    IF b.error # <<>> \/ 0 \in Range(returning_plan(db[w.table], w.returning))
    THEN [b |-> Refuse(b, "column"), columns |-> <<>>]
    ELSE [b |-> b, columns |-> bind_returning(db[w.table], w.returning)]

bind_insert(b0, w, db) ==
    LET b == [b0 EXCEPT !.write = {w.table}]
        table == db[w.table]
        positions == insert_positions(table, w.columns)
        expected == [i \in DOMAIN positions |-> table.columns[positions[i]].type]
        row(acc, r) == IF Len(r) # Len(positions) THEN Refuse(acc, "width")
                       ELSE FoldLeft(LAMBDA x, i : bind_expr(x, r[i], EmptyScope, "Literal", expected[i]).b, acc, [i \in DOMAIN r |-> i])
        answer == bind_query(b, w.from.query, db, expected)
    IN IF \E i \in DOMAIN positions : positions[i] = 0 \/ \E j \in 1..(i - 1) : positions[j] = positions[i] THEN Refuse(b, "column")
       ELSE IF w.from.kind = "values" THEN FoldLeft(row, b, w.from.values)
       ELSE IF answer.b.error # <<>> THEN answer.b
       ELSE IF Len(answer.columns) # Len(positions) THEN Refuse(answer.b, "width")
       ELSE Need(answer.b, \A i \in DOMAIN expected : common_type(answer.columns[i].t.kind, expected[i]) # "clash", "mismatch")

bind_assignment(b, e, scope, expected) ==
    LET operand(acc, x) == LET r == bind_expr(acc, x, scope, IF x.op = "col" /\ x.rel = "" THEN "Operand" ELSE "Literal", expected)
                           IN Need(r.b, IsNumeric(r.t), "mismatch")
    IN IF e.op = "arith" /\ e.f \in {"Plus", "Minus"}
       THEN Need(FoldLeft(operand, b, <<e.l, e.r>>), expected \in Numeric, "mismatch")
       ELSE bind_expr(b, e, scope, IF e.op = "col" /\ e.rel = "" THEN "Operand" ELSE "Literal", expected).b

bind_write(b, w, db) ==
    LET table == db[w.table]
        target == factor(table, w.alias)
        crossed == w.source # <<>>
        scope == IF crossed THEN append(target, factor(db[w.source[1]], w.source[2])) ELSE target
        assign(acc, a) ==
          LET p == NamePosition(table.columns, a.column)
          IN IF p = 0 THEN Refuse(acc, "column") ELSE bind_assignment(acc, a.e, target, table.columns[p].type)
        repeated == \E i, j \in DOMAIN w.assignments : i # j /\ w.assignments[i].column = w.assignments[j].column
        b0 == [b EXCEPT !.write = {w.table}]
        b1 == FoldLeft(assign, Need(IF crossed THEN Reads(b0, {w.source[1]}) ELSE b0, ~repeated, "assigned twice"), w.assignments)
        b2 == Need(b1, ~crossed \/ (w.where # <<>> /\ w.source[2] # w.alias), "unsupported")
    IN IF w.where = <<>> \/ b2.error # <<>> THEN b2 ELSE bind_predicate(b2, w.where[1], scope, db, crossed, FALSE)

---------------------------------------------------------------------------
(* bind: passes over the statement until nothing changes, then passes in   *)
(* which an undecided output becomes text.  The statement is [kind, q] for *)
(* a query and [kind, w] for a write.                                      *)
Pass(stmt, db, b) ==
    CASE stmt.kind = "query" -> bind_query(b, stmt.q, db, <<>>)
      [] stmt.kind = "insert" -> Write(bind_insert(b, stmt.w, db), stmt.w, db)
      [] OTHER -> Write(bind_write(b, stmt.w, db), stmt.w, db)

Unsettled(b, new) == new.params # b.params \/ new.changed
RECURSIVE bind_passes(_, _, _)
bind_passes(stmt, db, b) ==
    LET start == [b EXCEPT !.casts = <<>>, !.changed = FALSE, !.read = {}, !.write = {}]
        done == Pass(stmt, db, start)
    IN IF done.b.error # <<>> THEN done
       ELSE IF Unsettled(start, done.b) THEN bind_passes(stmt, db, done.b)
       ELSE IF ~b.prefer THEN bind_passes(stmt, db, [done.b EXCEPT !.prefer = TRUE])
       ELSE done

bind(stmt, db, count, hints, queries) ==
    LET b == [params |-> hints \o [i \in 1..(count - Len(hints)) |-> "none"], hints |-> hints, casts |-> <<>>, outputs |-> <<>>,
              changed |-> FALSE, prefer |-> FALSE, error |-> <<>>, queries |-> queries, read |-> {}, write |-> {}]
        done == bind_passes(stmt, db, b)
    IN IF Len(hints) > count THEN [ok |-> FALSE, why |-> "parameters"]
       ELSE IF done.b.error # <<>> THEN [ok |-> FALSE, why |-> done.b.error[1]]
       ELSE [ok |-> TRUE, params |-> done.b.params, casts |-> done.b.casts, read |-> done.b.read, write |-> done.b.write,
             columns |-> [i \in DOMAIN done.columns |-> Column(done.columns[i].name, Default(done.columns[i].t.kind, "Text"))]]

---------------------------------------------------------------------------
(* Execution of a bound statement.  used are the parameters it refers to.  *)
validate_parameters(used, params) == used = DOMAIN params
parameter_hints(params) == [i \in DOMAIN params |-> value_static_type(params[i])]

execute_in_transaction_statement(stmt, db, env) ==
    CASE stmt.kind = "query" -> execute_query(stmt.q, db, env)
      [] stmt.kind = "insert" -> execute_insert(db[stmt.w.table], stmt.w.columns, stmt.w.from, stmt.w.returning, db, env)
      [] stmt.kind = "update" -> execute_update(stmt.w, db, env)
      [] OTHER -> execute_delete(stmt.w, db, env)

execute_bound(stmt, db, bound, used, params, queries) ==
    LET env == [params |-> params, types |-> bound.params, casts |-> bound.casts, queries |-> queries]
        result == execute_in_transaction_statement(stmt, db, env)
        answered == IF stmt.kind = "query" THEN result.rows ELSE IF stmt.w.returning = <<>> THEN <<>> ELSE result.returned
        rows == normalize_rows(answered, bound.columns)
    IN IF ~validate_parameters(used, params) THEN Failure("parameters")
       ELSE IF ~result.ok THEN result
       ELSE IF IsError(rows) THEN Failure(rows[2])
       ELSE IF stmt.kind = "query" THEN Answer(bound.columns, rows[2])
       ELSE [result EXCEPT !.returned = rows[2]]
===========================================================================
