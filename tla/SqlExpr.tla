------------------------------ MODULE SqlExpr -----------------------------
(***************************************************************************)
(* Expressions of the SQL executor (src/src/sql_query.rs, sql_values.rs):  *)
(* three-valued predicates over a row, literals and computed projections.  *)
(* An expression is a record whose op says its kind; a literal carries the *)
(* node that the binder names it by.  A column is [id, name, type,         *)
(* nullable]; env has the parameters, their bound types and the casts the  *)
(* binder laid on literals.  Parentheses are transparent and left out.     *)
(***************************************************************************)
EXTENDS SqlText

Incomparable == 2                       \* value_cmp's None
FirstError(results) ==
    IF \E i \in DOMAIN results : IsError(results[i])
    THEN <<results[CHOOSE i \in DOMAIN results : IsError(results[i])
                                                 /\ \A j \in 1..(i - 1) : ~IsError(results[j])]>>
    ELSE <<>>

truth_not(t) == CASE t = "True" -> "False" [] t = "False" -> "True" [] OTHER -> "Unknown"
truth_and(t, u) == IF "False" \in {t, u} THEN "False"
                   ELSE IF "Unknown" \in {t, u} THEN "Unknown" ELSE "True"
truth_or(t, u) == IF "True" \in {t, u} THEN "True"
                  ELSE IF "Unknown" \in {t, u} THEN "Unknown" ELSE "False"

---------------------------------------------------------------------------
(* Order of values.                                                        *)
CharOrder == <<"-", ".", "0", "1", "2", "3", "4", "5", "6", "7", "8", "9", "a", "b">>
CharRank(c) == CHOOSE i \in DOMAIN CharOrder : CharOrder[i] = c
text_cmp(s, t) ==
    LET differ == {i \in DOMAIN s \cap DOMAIN t : s[i] # t[i]} IN
    IF differ = {} THEN Sign(Len(s) - Len(t))
    ELSE Sign(CharRank(s[First(differ)]) - CharRank(t[First(differ)]))

scaled_int(n, scale) == n * Pow10(scale)
Integral == {"I64", "U64"}
Typed(v) == v[1] \in Integral
value_cmp(l, r) ==
    CASE l[1] = "Null" \/ r[1] = "Null" -> Incomparable
      [] Typed(l) /\ Typed(r) -> Sign(l[2] - r[2])
      [] l[1] = "Bool" /\ r[1] = "Bool" -> Sign(l[2] - r[2])
      [] l[1] = "Text" /\ r[1] = "Text" -> text_cmp(l[2], r[2])
      [] l[1] = "Decimal" /\ r[1] = "Decimal" -> decimal_cmp(l[2], r[2])
      [] Typed(l) /\ r[1] = "Decimal" -> Sign(scaled_int(l[2], r[2][2]) - r[2][1])
      [] l[1] = "Decimal" /\ Typed(r) -> Sign(l[2][1] - scaled_int(r[2], l[2][2]))
      [] l[1] = "Float64" /\ r[1] = "Float64" -> float_cmp(l[2], r[2])
      [] l[1] \in {"Date", "Timestamp"} /\ r[1] = l[1] -> Sign(l[2] - r[2])
      [] OTHER -> Incomparable

compare_values(l, r, operator) ==
    LET o == value_cmp(l, r)
        matched == CASE operator = "Eq" -> o = 0
                     [] operator = "NotEq" -> o # 0
                     [] operator = "Gt" -> o > 0
                     [] operator = "Lt" -> o < 0
                     [] operator = "GtEq" -> o >= 0
                     [] operator = "LtEq" -> o <= 0
    IN IF o = Incomparable THEN "Unknown" ELSE IF matched THEN "True" ELSE "False"

(* The derived order of Value: variants first, then payloads.              *)
Variants == <<"Null", "Bytes", "Bool", "I64", "U64", "Text", "Float64", "Date", "Timestamp",
              "Decimal", "Uuid">>
Variant(v) == CHOOSE i \in DOMAIN Variants : Variants[i] = v[1]
value_ord(v, w) == IF v[1] # w[1] THEN Sign(Variant(v) - Variant(w))
                   ELSE IF v[1] = "Null" THEN 0 ELSE value_cmp(v, w)

membership_truth(candidate, values) ==
    LET hits == {compare_values(candidate, values[i], "Eq") : i \in DOMAIN values}
    IN IF "True" \in hits THEN "True" ELSE IF "Unknown" \in hits THEN "Unknown" ELSE "False"

---------------------------------------------------------------------------
(* Types.                                                                  *)
value_static_type(v) == IF v[1] = "Null" THEN "none" ELSE IF Typed(v) THEN "I64" ELSE v[1]

(* common_type of the binder: "none" is an untyped operand, "clash" a      *)
(* mismatch.                                                               *)
common_type(a, b) ==
    CASE a = "clash" \/ b = "clash" -> "clash"
      [] a = "none" -> b
      [] b = "none" -> a
      [] a = b -> a
      [] {a, b} \subseteq Numeric ->
            IF "Float64" \in {a, b} THEN "Float64" ELSE IF "Decimal" \in {a, b} THEN "Decimal" ELSE "I64"
      [] OTHER -> "clash"

coerce_result_value(v, type) ==
    IF value_static_type(v) = type \/ (Typed(v) /\ type \in Integral) THEN v
    ELSE coerce_value(v, [type |-> type, nullable |-> TRUE])

(* coerce_operand with coerce_for_comparison: a value that does not        *)
(* convert stays as it is, and the comparison is then unknown.             *)
coerce_operand(v, target) ==
    LET movable == \/ v[1] = "Text" /\ target \in {"Date", "Timestamp", "Decimal", "Float64", "Uuid"}
                   \/ Typed(v) /\ target \in {"Decimal", "Float64"}
        converted == coerce_value(v, [type |-> target, nullable |-> TRUE])
    IN IF ~movable THEN v ELSE IF IsError(converted) THEN v ELSE converted

---------------------------------------------------------------------------
(* Literals.  What the binder typed has become a cast by then: the casts   *)
(* of rewrite.rs over placeholders, NULL and string literals.              *)
ScalarFunctions == {"length", "abs"}    \* scalar_function_arity
PositionOf(columns, e) ==
    IF e.op # "col" \/ ~\E i \in DOMAIN columns : columns[i].name = e.name THEN 0
    ELSE CHOOSE i \in DOMAIN columns : columns[i].name = e.name /\ \A j \in 1..(i - 1) : columns[j].name # e.name

apply_scalar_function(name, v) ==
    CASE v[1] = "Null" -> NullValue
      [] name = "length" /\ v[1] = "Text" -> <<"I64", Len(v[2])>>
      [] name = "abs" -> scalar_abs(v)
      [] OTHER -> Unsupported

BoundLiteral(e, env) ==
    LET v == IF e.op = "lit" THEN e.v ELSE env.params[e.i]
        type == IF e.op = "lit" THEN (IF e.node \in DOMAIN env.casts THEN env.casts[e.node] ELSE "none")
                ELSE env.types[e.i]
    IN IF type = "none" THEN v ELSE coerce_result_value(v, type)

RECURSIVE literal_value(_, _)
literal_value(e, env) ==
    CASE e.op \in {"lit", "param"} ->
            IF e.op = "param" /\ e.i > Len(env.params) THEN <<"error", "parameter">> ELSE BoundLiteral(e, env)
      [] e.op = "cast" -> LET v == literal_value(e.e, env)
                          IN IF IsError(v) THEN v ELSE coerce_result_value(v, e.type)
      [] e.op = "neg" -> LET v == literal_value(e.e, env) IN IF IsError(v) THEN v ELSE negate_literal(v)
      [] e.op = "func" /\ e.name = "coalesce" ->
            LET vs == [i \in DOMAIN e.args |-> literal_value(e.args[i], env)]
                stop == {i \in DOMAIN vs : vs[i] # NullValue}
            IN IF stop = {} THEN NullValue ELSE vs[First(stop)]
      [] e.op = "func" /\ e.name \in ScalarFunctions ->
            LET v == literal_value(e.args[1], env)
            IN IF IsError(v) THEN v ELSE apply_scalar_function(e.name, v)
      [] OTHER -> Unsupported

RECURSIVE eval_expression(_, _, _, _)
eval_expression(e, row, columns, env) ==
    CASE e.op = "arith" ->
            LET l == eval_expression(e.l, row, columns, env)
                r == eval_expression(e.r, row, columns, env)
            IN IF IsError(l) THEN l ELSE IF IsError(r) THEN r ELSE evaluate(e.f, l, r)
      [] e.op = "col" -> row[PositionOf(columns, e)]
      [] OTHER -> literal_value(e, env)

---------------------------------------------------------------------------
(* Predicates.  The answer is a truth value, or the error as a value.      *)
compare_predicate(operator, l, r, row, columns, env) ==
    LET type(e) == IF PositionOf(columns, e) = 0 THEN "none" ELSE columns[PositionOf(columns, e)].type
        lv == eval_expression(l, row, columns, env)
        rv == eval_expression(r, row, columns, env)
    IN IF IsError(lv) THEN lv ELSE IF IsError(rv) THEN rv
       ELSE <<"truth", compare_values(coerce_operand(lv, type(r)), coerce_operand(rv, type(l)), operator)>>

Negate(negated, t) == IF IsError(t) THEN t ELSE <<"truth", IF negated THEN truth_not(t[2]) ELSE t[2]>>
Both(f(_, _), l, r) == IF IsError(l) THEN l ELSE IF IsError(r) THEN r ELSE <<"truth", f(l[2], r[2])>>

RECURSIVE predicate(_, _, _, _, _)
predicate(e, row, columns, env, subqueries) ==
    CASE e.op = "not" -> Negate(TRUE, predicate(e.e, row, columns, env, subqueries))
      [] e.op = "and" -> Both(truth_and, predicate(e.l, row, columns, env, subqueries),
                                         predicate(e.r, row, columns, env, subqueries))
      [] e.op = "or" -> Both(truth_or, predicate(e.l, row, columns, env, subqueries),
                                       predicate(e.r, row, columns, env, subqueries))
      [] e.op = "cmp" -> compare_predicate(e.f, e.l, e.r, row, columns, env)
      [] e.op = "between" ->
            Negate(e.negated, Both(truth_and, compare_predicate("GtEq", e.e, e.low, row, columns, env),
                                              compare_predicate("LtEq", e.e, e.high, row, columns, env)))
      [] e.op \in {"in", "insub"} ->
            LET candidate == eval_expression(e.e, row, columns, env)
                values == IF e.op = "in" THEN [i \in DOMAIN e.list |-> literal_value(e.list[i], env)]
                          ELSE subqueries.in_lists[e.query]
            IN IF e.op = "insub" /\ e.query \notin DOMAIN subqueries.in_lists THEN <<"error", "unresolved">>
               ELSE IF IsError(candidate) THEN candidate
               ELSE IF FirstError(values) # <<>> THEN FirstError(values)[1]
               ELSE Negate(e.negated, <<"truth", membership_truth(candidate, values)>>)
      [] e.op = "exists" ->
            IF e.query \notin DOMAIN subqueries.exists THEN <<"error", "unresolved">>
            ELSE <<"truth", IF e.negated # subqueries.exists[e.query] THEN "True" ELSE "False">>
      [] e.op \in {"isnull", "notnull"} ->
            LET v == eval_expression(e.e, row, columns, env)
            IN IF IsError(v) THEN v
               ELSE <<"truth", IF (v = NullValue) = (e.op = "isnull") THEN "True" ELSE "False">>
      [] OTHER -> LET v == eval_expression(e, row, columns, env)
                  IN CASE IsError(v) -> v
                       [] v[1] = "Bool" -> <<"truth", IF v[2] = 1 THEN "True" ELSE "False">>
                       [] v[1] = "Null" -> <<"truth", "Unknown">>
                       [] OTHER -> <<"error", "not boolean">>

row_matches(selection, row, columns, env, subqueries) ==
    IF selection = <<>> THEN <<"truth", "True">> ELSE predicate(selection[1], row, columns, env, subqueries)
===========================================================================
