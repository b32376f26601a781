------------------------------ MODULE MCFront -------------------------------
(***************************************************************************)
(* The SQL front end: part says whether a behaviour binds and executes     *)
(* queries, changes a schema or speaks the wire protocol (PgServer); the   *)
(* others stay in their initial states.                                    *)
(***************************************************************************)
EXTENDS SqlReference, SqlDump, PgServer

(***************************************************************************)
(* Statements over two small tables, each bound and executed as one step,  *)
(* and compared with SqlReference.                                         *)
(***************************************************************************)
(* The binder and the executor under test, as operators the model names.   *)
CONSTANTS Bind(_, _, _, _, _), Execute(_, _, _, _, _, _), Explain(_, _, _), Analyse(_, _)

VARIABLE task
vars == <<task>>

I(n) == <<"I64", n>>
D(m, s) == <<"Decimal", <<m, s>>>>
X(c) == <<"Text", <<c>>>>
Lit(node, v) == [op |-> "lit", node |-> node, v |-> v]
Col(name) == [op |-> "col", rel |-> "", name |-> name]
Of(rel, name) == [op |-> "col", rel |-> rel, name |-> name]
Param(i) == [op |-> "param", i |-> i]
Cmp(f, l, r) == [op |-> "cmp", f |-> f, l |-> l, r |-> r]
And(l, r) == [op |-> "and", l |-> l, r |-> r]
Or(l, r) == [op |-> "or", l |-> l, r |-> r]
Not(e) == [op |-> "not", e |-> e]
Agg(name, args) == [op |-> "agg", name |-> name, args |-> args]
Over(name, args, partition, order) == [op |-> "over", name |-> name, args |-> args, partition |-> partition, order |-> order]
Arith(f, l, r) == [op |-> "arith", f |-> f, l |-> l, r |-> r]
Item(e) == [e |-> e, alias |-> ""]
Items(es) == [i \in DOMAIN es |-> Item(es[i])]
By(e, ascending, nulls_first) == [e |-> e, ascending |-> ascending, nulls_first |-> nulls_first]
Rel(table, name, kind, condition, on, using) ==
    [table |-> table, name |-> name, kind |-> kind, constraint |-> condition, on |-> on, using |-> using]
Base(table) == Rel(table, table, "inner", "none", <<>>, <<>>)
Select(id, projection, from, where, group) ==
    [op |-> "select", id |-> id, projection |-> projection, distinct |-> FALSE, from |-> from, where |-> where,
     group |-> group, having |-> <<>>]
Query(body) == [body |-> body, order |-> <<>>, limit |-> <<>>, offset |-> <<>>]
AsQuery(q) == [kind |-> "query", q |-> q]

---------------------------------------------------------------------------
(* Table t has a key, an index on a and a partial index on b where a = 1;  *)
(* table u is a heap whose column a is a decimal.                          *)
Field(id, name, type, nullable) == [id |-> id, name |-> name, type |-> type, nullable |-> nullable]
Row(primary, values) == [primary |-> primary, values |-> values]
TRows == {<<>>,
          <<Row(1, <<I(1), I(1), X("a")>>), Row(2, <<I(2), NullValue, X("b")>>), Row(3, <<I(3), I(1), NullValue>>)>>,
          <<Row(1, <<I(1), I(2), X("a")>>), Row(2, <<I(2), I(2), X("a")>>), Row(3, <<I(3), I(1), X("b")>>)>>}
URows == {<<Row(1, <<I(1), D(10, 1)>>), Row(2, <<I(2), NullValue>>), Row(3, <<I(1), D(25, 1)>>)>>,
          <<Row(1, <<I(2), D(2, 0)>>)>>}
T(rows) == [name |-> "t", columns |-> <<Field(1, "id", "I64", FALSE), Field(2, "a", "I64", TRUE), Field(3, "b", "Text", TRUE)>>,
            primary |-> <<1>>, rows |-> rows,
            indexes |-> {[id |-> 1, parts |-> <<2>>, predicate |-> <<>>],
                         [id |-> 2, parts |-> <<3>>, predicate |-> <<<<2, I(1)>>>>]}]
U(rows) == [name |-> "u", columns |-> <<Field(1, "k", "I64", FALSE), Field(2, "a", "Decimal", TRUE)>>,
            primary |-> <<>>, rows |-> rows, indexes |-> {}]
Db(trows, urows) == [n \in {"t", "u"} |-> IF n = "t" THEN T(trows) ELSE U(urows)]
SomeU == CHOOSE r \in URows : Len(r) = 3
SomeT == CHOOSE r \in TRows : Len(r) = 3 /\ r[2].values[2] = NullValue

(* The subqueries a statement may use.                                     *)
Subqueries == <<Query(Select(101, Items(<<Col("a")>>), <<Base("u")>>, <<>>, <<>>)),
             Query(Select(102, Items(<<Col("k")>>), <<Base("u")>>, <<Cmp("Gt", Col("k"), Lit(103, I(1)))>>, <<>>))>>
RECURSIVE ParamsOf(_)
ParamsOf(e) == CASE e.op = "param" -> {e.i}
                 [] e.op \in {"cmp", "and", "or", "arith"} -> ParamsOf(e.l) \cup ParamsOf(e.r)
                 [] e.op \in {"not", "neg", "cast"} -> ParamsOf(e.e)
                 [] OTHER -> {}

(* One statement: bound with the types of its parameters and executed.     *)
Run(kind, stmt, data, used, params) ==
    LET bound == Bind(stmt, data, Cardinality(used), parameter_hints(params), Subqueries)
    IN [kind |-> kind, stmt |-> stmt, db |-> data, params |-> params, used |-> used, bound |-> bound,
        result |-> IF bound.ok THEN Execute(stmt, data, bound, used, params, Subqueries) ELSE Failure("bind")]
Context(t) == [db |-> t.db, from |-> <<>>, params |-> t.params, queries |-> Subqueries]

---------------------------------------------------------------------------
A1 == Lit(1, I(1))
Wheres ==
    {Cmp("Eq", Col("a"), A1), Cmp("Eq", Lit(2, I(2)), Col("id")), Cmp("Eq", Col("a"), Lit(3, NullValue)),
     And(Cmp("Eq", Col("id"), A1), Cmp("Eq", Col("a"), Lit(4, I(2)))),
     And(Cmp("Eq", Col("b"), Lit(5, X("a"))), Cmp("Eq", Col("a"), A1)), Cmp("Eq", Col("b"), Lit(6, X("a"))),
     And(Cmp("Eq", Col("a"), A1), Cmp("Eq", Col("a"), Lit(7, I(2)))),
     Cmp("Gt", Col("a"), A1), Not(Cmp("Eq", Col("a"), A1)), Or(Cmp("Eq", Col("a"), A1), Cmp("Lt", Col("b"), Lit(8, X("b")))),
     Not(And(Cmp("NotEq", Col("a"), A1), Cmp("GtEq", Col("id"), Lit(9, I(2))))),
     [op |-> "in", e |-> Col("a"), list |-> <<A1, Lit(10, NullValue)>>, negated |-> TRUE],
     [op |-> "in", e |-> Col("b"), list |-> <<Lit(11, X("b"))>>, negated |-> FALSE],
     [op |-> "between", e |-> Col("a"), low |-> A1, high |-> Lit(12, NullValue), negated |-> TRUE],
     [op |-> "isnull", e |-> Col("b")], Not([op |-> "notnull", e |-> Col("a")]),
     [op |-> "insub", e |-> Col("a"), query |-> 1, negated |-> FALSE],
     [op |-> "insub", e |-> Col("id"), query |-> 2, negated |-> TRUE],
     And([op |-> "exists", query |-> 2, negated |-> FALSE], Cmp("LtEq", Col("a"), A1)),
     Cmp("Eq", Col("a"), Param(1)), Or(Cmp("Lt", Param(1), Col("a")), Cmp("Eq", Col("id"), A1))}
Orders == {<<>>, <<By(Col("a"), TRUE, FALSE)>>, <<By(Col("a"), FALSE, TRUE), By(Col("id"), FALSE, FALSE)>>,
           <<By(Col("b"), FALSE, FALSE), By(Col("a"), TRUE, TRUE)>>}
Limits == {<<<<>>, <<>>>>, <<<<Lit(21, I(1))>>, <<Lit(22, I(1))>>>>, <<<<Lit(21, I(2))>>, <<>>>>, <<<<Lit(21, I(0))>>, <<>>>>}
Lists == {<<Items(<<[op |-> "star"]>>), FALSE>>, <<Items(<<Col("b"), Col("id")>>), FALSE>>, <<Items(<<Col("a")>>), TRUE>>}

DoSelect ==
    /\ task = <<>>
    /\ \E rows \in TRows, where \in {<<>>} \cup {<<w>> : w \in Wheres}, order \in Orders, window \in Limits, list \in Lists :
         LET s == [Select(1, list[1], <<Base("t")>>, where, <<>>) EXCEPT !.distinct = list[2]]
             used == IF where = <<>> THEN {} ELSE ParamsOf(where[1])
         IN task' = <<Run("select", AsQuery([body |-> s, order |-> order, limit |-> window[1], offset |-> window[2]]),
                          Db(rows, SomeU), used, [i \in used |-> I(1)])>>

On(l, r) == <<Cmp("Eq", l, r)>>
Joins ==
    {<<Base("t"), Rel("u", "u", kind, "on", On(Of("t", "a"), Of("u", "k")), <<>>)>> : kind \in {"inner", "left", "right", "full"}} \cup
    {<<Base("t"), Rel("u", "u", kind, "using", <<>>, <<"a">>)>> : kind \in {"inner", "left", "right", "full"}} \cup
    {<<Base("u"), Rel("t", "v", kind, "natural", <<>>, <<>>)>> : kind \in {"inner", "full"}} \cup
    {<<Base("t"), Rel("t", "v", "left", "on", <<And(Cmp("Eq", Of("v", "a"), Of("t", "id")), Cmp("NotEq", Of("t", "id"), Of("v", "id")))>>, <<>>),
       Rel("u", "u", kind, "on", On(Of("v", "id"), Of("u", "k")), <<>>)>> : kind \in {"inner", "full"}} \cup
    {<<Base("t"), Rel("u", "u", "left", "using", <<>>, <<"a">>), Rel("u", "w", "full", "using", <<>>, <<"a">>)>>,
     <<Base("t"), Rel("u", "u", "inner", "none", <<>>, <<>>)>>}
JoinWheres == {<<>>, <<Cmp("Gt", Of("u", "k"), Lit(31, I(1)))>>,
               <<[op |-> "in", e |-> Of("u", "k"), list |-> <<Lit(32, I(1)), Lit(33, NullValue)>>, negated |-> FALSE]>>}
DoJoin ==
    /\ task = <<>>
    /\ \E trows \in TRows, urows \in URows, from \in Joins, where \in JoinWheres :
         task' = <<Run("join", AsQuery(Query(Select(1, Items(<<[op |-> "star"]>>), from, where, <<>>))), Db(trows, urows), {}, <<>>)>>

Groupings ==
    {<<Items(<<Col("a"), Agg("count", <<>>), Agg("max", <<Col("b")>>)>>), <<Col("a")>>>>,
     <<Items(<<Col("a"), Col("b"), Agg("sum", <<Col("id")>>)>>), <<Col("a"), Col("b")>>>>,
     <<Items(<<Agg("count", <<Col("a")>>), Agg("sum", <<Col("a")>>), Agg("min", <<Col("b")>>)>>), <<>>>>,
     <<Items(<<Agg("min", <<Col("id")>>), Agg("max", <<Col("a")>>)>>), <<Col("b")>>>>}
JoinGroupings ==
    {<<Items(<<Of("t", "id"), Agg("count", <<Of("u", "k")>>), Agg("max", <<Of("u", "k")>>)>>), <<Of("t", "id")>>>>,
     <<Items(<<Agg("count", <<>>), Agg("sum", <<Of("u", "k")>>)>>), <<>>>>}
PermutedGroupings ==
    {<<Items(<<Agg("count", <<>>), Col("a")>>), <<Col("a")>>>>,
     <<Items(<<Col("a"), Col("id")>>), <<Col("id"), Col("a")>>>>}
DoGroup ==
    /\ task = <<>>
    /\ \E trows \in TRows, urows \in URows :
         \/ \E g \in Groupings, where \in {<<>>} \cup {<<w>> : w \in {x \in Wheres : ParamsOf(x) = {}}} :
              task' = <<Run("group", AsQuery(Query(Select(1, g[1], <<Base("t")>>, where, g[2]))), Db(trows, urows), {}, <<>>)>>
         \/ \E g \in JoinGroupings, from \in {f \in Joins : f[1].table = "t" /\ f[2].constraint = "on" /\ Len(f) = 2}, where \in JoinWheres :
              task' = <<Run("group", AsQuery(Query(Select(1, g[1], from, where, g[2]))), Db(trows, urows), {}, <<>>)>>

DoRegroup ==
    /\ task = <<>>
    /\ \E trows \in TRows, g \in PermutedGroupings :
         task' = <<Run("regroup", AsQuery(Query(Select(1, g[1], <<Base("t")>>, <<>>, g[2]))), Db(trows, SomeU), {}, <<>>)>>

DoAnalytical ==
    /\ task = <<>>
    /\ \E trows \in TRows, size \in 1..4, quota \in 1..3, group \in {<<>>, <<Col("a")>>, <<Col("b"), Col("a")>>},
          aggregates \in {<<Agg("count", <<>>), Agg("sum", <<Col("id")>>)>>, <<Agg("max", <<Col("b")>>), Agg("count", <<Col("a")>>)>>} :
         LET a == [group |-> group, aggregates |-> aggregates, size |-> size, quota |-> quota]
         IN task' = <<[kind |-> "analytical", db |-> Db(trows, SomeU), params |-> <<>>, used |-> {}, a |-> a, bound |-> [ok |-> FALSE],
                       result |-> Analyse(T(trows), a)]>>

Arm(id, e, table, where) == Select(id, Items(<<e>>), <<Base(table)>>, where, <<>>)
DoCombine ==
    /\ task = <<>>
    /\ \E trows \in TRows, urows \in URows, op \in {"union", "intersect", "except"}, all \in BOOLEAN,
          l \in {Arm(2, Col("a"), "t", <<>>), Arm(2, Col("id"), "t", <<Cmp("Gt", Col("id"), A1)>>)},
          r \in {Arm(3, Col("a"), "u", <<>>), Arm(3, Col("k"), "u", <<>>)} :
         task' = <<Run("combine", AsQuery(Query([op |-> op, id |-> 1, all |-> all, left |-> l, right |-> r])), Db(trows, urows), {}, <<>>)>>

Windows == {Over(name, IF name \in {"rank", "dense_rank"} THEN <<>> ELSE <<Col("id")>>, partition, order) :
              name \in {"rank", "dense_rank", "sum", "max", "count"}, partition \in {<<>>, <<Col("b")>>},
              order \in {<<>>, <<By(Col("a"), TRUE, FALSE)>>, <<By(Col("a"), FALSE, TRUE)>>}}
DoWindow ==
    /\ task = <<>>
    /\ \E rows \in TRows, w \in Windows, order \in {<<>>, <<By(Col("id"), FALSE, FALSE)>>} :
         task' = <<Run("window", AsQuery([body |-> Select(1, Items(<<Col("id"), w>>), <<Base("t")>>, <<>>, <<>>), order |-> order,
                                          limit |-> <<>>, offset |-> <<>>]), Db(rows, SomeU), {}, <<>>)>>

WriteOf(table, where, source, assignments) ==
    [table |-> table, alias |-> table, assignments |-> assignments, where |-> where, source |-> source, returning |-> <<"*">>]
Set(column, e) == [column |-> column, e |-> e]
Assignments == {<<Set("a", Arith("Plus", Col("a"), Lit(41, I(1))))>>, <<Set("a", Col("id")), Set("b", Lit(42, X("b")))>>,
                <<Set("a", Lit(43, I(2))), Set("b", Col("b"))>>,
                <<Set("a", Lit(45, NullValue))>>}
CrossWheres == {<<Cmp("Eq", Of("t", "a"), Of("u", "k"))>>, <<Cmp("Lt", Of("t", "id"), Of("u", "a"))>>}
DoWrite ==
    /\ task = <<>>
    /\ \E rows \in TRows, where \in {<<>>} \cup {<<w>> : w \in {x \in Wheres : ParamsOf(x) = {}}},
          source \in {<<>>, <<"u", "u">>}, kind \in {"update", "delete"},
          set \in Assignments, cross \in CrossWheres :
         /\ kind = "delete" => set = CHOOSE s \in Assignments : TRUE
         /\ IF source = <<>> THEN cross = CHOOSE c \in CrossWheres : TRUE ELSE where = <<>>
         /\ task' = <<Run(kind, [kind |-> kind, w |-> WriteOf("t", IF source = <<>> THEN where ELSE cross, source, set)], Db(rows, SomeU), {}, <<>>)>>

Shifted == <<Set("k", Arith("Plus", Col("k"), Lit(46, I(1)))), Set("a", Col("k"))>>
DoRunning ==
    /\ task = <<>>
    /\ \E rows \in URows, where \in {<<>>, <<Cmp("Gt", Col("k"), A1)>>} :
         task' = <<Run("update", [kind |-> "update", w |-> WriteOf("u", where, <<>>, Shifted)], Db(SomeT, rows), {}, <<>>)>>

DoInsert ==
    /\ task = <<>>
    /\ \E rows \in TRows, table \in {"t", "u"},
          source \in {[kind |-> "query", query |-> Query(Select(2, Items(<<Col("id"), Col("a")>>), <<Base("t")>>, w, <<>>)), values |-> <<>>] :
                         w \in {<<>>, <<Cmp("Gt", Col("id"), A1)>>}} \cup
                     {[kind |-> "values", query |-> 0, values |-> v] :
                         v \in {<<<<Lit(51, I(4)), Lit(52, I(1))>>, <<Lit(53, I(n)), Lit(54, NullValue)>>>> : n \in {3, 4, 5}}} :
         task' = <<Run("insert", [kind |-> "insert", w |-> [table |-> table, columns |-> IF table = "t" THEN <<"id", "a">> ELSE <<>>,
                                                            from |-> source, returning |-> <<>>]], Db(rows, SomeU), {}, <<>>)>>

(* Expressions of every type in a projection and in a comparison, with a   *)
(* parameter whose type is declared by its value or left to the binder.    *)
Operands == {Of("t", "a"), Of("t", "b"), Of("u", "a"), Lit(61, I(1)), Lit(62, D(15, 1)), Lit(63, NullValue),
             Lit(64, <<"Text", <<"1">>>>), Lit(65, X("a")), Param(1), [op |-> "neg", e |-> Lit(66, I(1))]}
Again(e) == IF e.op = "lit" THEN [e EXCEPT !.node = @ + 100] ELSE IF e.op = "neg" THEN [e EXCEPT !.e.node = @ + 100] ELSE e
Exprs == {Arith(f, l, Again(r)) : f \in {"Plus", "Divide"}, l \in Operands, r \in Operands} \cup
         {[op |-> "func", name |-> "coalesce", args |-> <<l, Again(r)>>] : l \in Operands, r \in Operands} \cup
         {[op |-> "case", operand |-> <<>>, whens |-> <<[when |-> Cmp("Eq", l, Again(r)), then |-> Again(r)]>>, default |-> <<l>>] :
             l \in Operands, r \in Operands} \cup Operands
RECURSIVE ParamsIn(_)
ParamsIn(e) == CASE e.op = "func" -> UNION {ParamsIn(e.args[i]) : i \in DOMAIN e.args}
                 [] e.op = "case" -> ParamsOf(e.whens[1].when) \cup ParamsOf(e.default[1])
                 [] OTHER -> ParamsOf(e)
RECURSIVE Tables(_)
Tables(e) == CASE e.op = "col" -> {e.rel}
               [] e.op \in {"arith", "cmp"} -> Tables(e.l) \cup Tables(e.r)
               [] e.op = "func" -> UNION {Tables(e.args[i]) : i \in DOMAIN e.args}
               [] e.op = "case" -> Tables(e.whens[1].when) \cup Tables(e.default[1])
               [] OTHER -> {}
From(e) == IF Tables(e) = {} THEN <<Base("t")>> ELSE IF Cardinality(Tables(e)) = 1 THEN <<Base(CHOOSE t \in Tables(e) : TRUE)>> ELSE <<>>
DoBind ==
    /\ task = <<>>
    /\ \E e \in {x \in Exprs : From(x) # <<>>}, value \in {I(1), D(15, 1), X("a"), NullValue} :
         LET used == ParamsIn(e)
         IN /\ used = {} => value = NullValue
            /\ task' = <<Run("bind", AsQuery(Query(Select(1, Items(<<e>>), From(e), <<>>, <<>>))), Db(SomeT, SomeU), used, [i \in used |-> value])>>
DoCompare ==
    /\ task = <<>>
    /\ \E l, r \in Operands, f \in {"Eq", "Lt"}, value \in {I(1), D(15, 1), X("a"), NullValue} :
         LET e == Cmp(f, l, Again(r))
             used == ParamsIn(e)
         IN /\ From(e) # <<>>
            /\ used = {} => value = NullValue
            /\ task' = <<Run("compare", AsQuery(Query(Select(1, Items(<<[op |-> "star"]>>), From(e), <<e>>, <<>>))), Db(SomeT, SomeU), used, [i \in used |-> value])>>

(* The two sides of a set operation over anything that has a type, one of  *)
(* them perhaps a parameter without a declared type.                       *)
Sides == Operands \ {Of("t", "b"), Of("u", "a")}
SidesUnion(l, r) == AsQuery(Query([op |-> "union", id |-> 1, all |-> TRUE, left |-> Arm(2, l, "t", <<>>), right |-> Arm(3, r, "t", <<>>)]))
DoSides ==
    /\ task = <<>>
    /\ \E l, r \in Sides :
         LET used == ParamsOf(l) \cup ParamsOf(r)
         IN task' = <<Run("sides", SidesUnion(l, Again(r)), Db(SomeT, SomeU), used, [i \in used |-> NullValue])>>

Init == task = <<>>
Next == DoSelect \/ DoJoin \/ DoGroup \/ DoAnalytical \/ DoRegroup \/ DoSides \/ DoCombine \/ DoWindow \/ DoWrite \/ DoRunning \/ DoInsert \/ DoBind \/ DoCompare
Spec == Init /\ [][Next]_vars

---------------------------------------------------------------------------
Bound(kind) == task # <<>> /\ task[1].kind = kind /\ task[1].bound.ok
Ctx(s) == [Context(task[1]) EXCEPT !.from = s.from]

(* A bound SELECT over one table returns what its rows, predicate, order,  *)
(* DISTINCT and window mean, whatever access path it takes and however     *)
(* early it stops reading (execute_select, predicate_candidate_rows).      *)
SelectsAgree ==
    Bound("select") =>
      LET q == task[1].stmt.q
          at(es, default) == IF es = <<>> THEN default ELSE es[1].v[2]
      IN task[1].result.ok /\ SelectAnswers(q, task[1].result.rows, at(q.offset, 0), at(q.limit, Everything), Ctx(q.body))

(* A join returns the matching pairs and the unmatched rows its kind keeps *)
(* with each USING or NATURAL column once (execute_join_query).            *)
JoinsAgree ==
    Bound("join") => task[1].result.ok /\ SameBag(task[1].result.rows, SelectMeans(task[1].stmt.q, Context(task[1])))

(* Grouping gives one row per key with the aggregates of its rows          *)
(* (execute_aggregate_query, joined_grouped_aggregates).                   *)
GroupsAgree ==
    Bound("group") => task[1].result.ok /\ SameBag(task[1].result.rows, GroupsMean(task[1].stmt.q.body, Ctx(task[1].stmt.q.body)))

AnalysisFits(t, means) ==
    IF t.result.ok THEN SameBag(t.result.rows, means) /\ t.result.scanned = Len(t.db["t"].rows)
    ELSE t.a.group # <<>> /\ Len(means) > t.a.quota

(* The analytical executor gives the aggregates of the whole table for any *)
(* morsel size, each row scanned once, and refuses only when there are     *)
(* more groups than its memory allows (MorselScanner::next_morsel,         *)
(* AnalyticalExecutor::execute).                                           *)
AnalyticsAgree ==
    task # <<>> /\ task[1].kind = "analytical" =>
      LET a == task[1].a
      IN AnalysisFits(task[1], GroupsMean(Select(1, Items(a.group \o a.aggregates), <<Base("t")>>, <<>>, a.group),
                                          [Context(task[1]) EXCEPT !.from = <<Base("t")>>]))

(* A set operation combines its sides in their common type                 *)
(* (execute_set_operation).                                                *)
CombinesAgree ==
    Bound("combine") =>
      LET b == task[1].stmt.q.body
          side(s) == SelectMeans(Query(s), Context(task[1]))
      IN task[1].result.ok /\ SameBag(task[1].result.rows, SetMeans(b.op, b.all, side(b.left), side(b.right)))

(* A window column has, in each row, the value over that row's peers       *)
(* (evaluate_window_columns).                                              *)
WindowsAgree ==
    Bound("window") =>
      LET s == task[1].stmt.q.body
      IN task[1].result.ok /\ SameBag(task[1].result.rows, WithWindow(FromMeans(Ctx(s)), "t", s.projection[2].e, Ctx(s)))

Candidates(w, row) ==
    LET sources == task[1].db["u"].rows
    IN IF w.source = <<>> THEN {w.table :> row.values}
       ELSE {("t" :> row.values) @@ ("u" :> sources[i].values) : i \in DOMAIN sources}
Picked(w, row) ==
    LET ctx == [Context(task[1]) EXCEPT !.from = <<Base("t"), Base("u")>>]
    IN \E r \in Candidates(w, row) : w.where = <<>> \/ Truth3(w.where[1], r, ctx) = 2
Assigned(w, row) ==
    LET columns == task[1].db[w.table].columns
        read(e) == IF e.op = "col" THEN row.values[NamePosition(columns, e.name)] ELSE e.v
        value(e) == IF e.op # "arith" THEN read(e)
                    ELSE IF IsNull(read(e.l)) \/ IsNull(read(e.r)) THEN NullValue ELSE I(read(e.l)[2] + read(e.r)[2])
        set(p) == {i \in DOMAIN w.assignments : w.assignments[i].column = columns[p].name}
    IN [p \in DOMAIN columns |-> IF set(p) = {} THEN row.values[p] ELSE value(w.assignments[Max(set(p))].e)]
WrittenExactly(kind, w, result, old, picked) ==
    /\ result.ok
    /\ kind = "update" =>
         /\ Len(result.rows) = Len(old)
         /\ \A i \in DOMAIN old : EqualRows(result.rows[i].values, IF i \in picked THEN Assigned(w, old[i]) ELSE old[i].values)
    /\ kind = "delete" =>
         LET at(S) == SetToSortSeq(S, LAMBDA x, y : x < y)
             kept == at(DOMAIN old \ picked)
             gone == at(picked)
         IN /\ result.rows = [i \in DOMAIN kept |-> old[kept[i]]]
            /\ result.returned = [i \in DOMAIN gone |-> old[gone[i]].values]

(* UPDATE and DELETE change exactly the rows their predicate picks out of  *)
(* the table as it was, and UPDATE computes from those rows                *)
(* (execute_update, apply_assignments, execute_delete).                    *)
WritesExact ==
    Bound("update") \/ Bound("delete") =>
      LET w == task[1].stmt.w
          old == task[1].db[w.table].rows
      IN WrittenExactly(task[1].kind, w, task[1].result, old, {i \in DOMAIN old : Picked(w, old[i])})

AddedWhole(result, w, old, given) ==
    LET keys == [i \in DOMAIN old |-> old[i].values[1]] \o [i \in DOMAIN given |-> given[i][1]]
        clash == w.table = "t" /\ \E i, j \in DOMAIN keys : i # j /\ keys[i] = keys[j]
    IN IF clash THEN ~result.ok
       ELSE /\ result.ok
            /\ SubSeq(result.rows, 1, Len(old)) = old
            /\ Len(result.rows) = Len(old) + Len(given)
            /\ \A i \in DOMAIN given : EqualRows(SubSeq(result.rows[Len(old) + i].values, 1, 2), given[i])

(* INSERT adds all its rows after those there, or fails on a key that is   *)
(* there already, also when its source reads the target (execute_insert).  *)
InsertsWhole ==
    Bound("insert") =>
      LET w == task[1].stmt.w
      IN AddedWhole(task[1].result, w, task[1].db[w.table].rows,
                    IF w.from.kind = "query" THEN SelectMeans(w.from.query, Context(task[1]))
                    ELSE [r \in DOMAIN w.from.values |-> [i \in DOMAIN w.from.values[r] |-> w.from.values[r][i].v]])

DataErrors == {"out of range", "division by zero", "duplicate key", "malformed"}

(* A statement that binds runs: what can still fail is its data, not its   *)
(* names, shape or types, and the answer has the columns announced         *)
(* (bind, execute_bound, normalize_rows).                                  *)
BoundRuns == task # <<>> /\ task[1].bound.ok /\ task[1].kind \notin {"compare", "regroup"} => task[1].result.ok \/ task[1].result.why \in DataErrors

(* Each column of a grouped answer has the values of the expression it is  *)
(* named for, in whatever order SELECT and GROUP BY list them              *)
(* (execute_aggregate_query).                                              *)
GroupsInOrder ==
    Bound("regroup") => task[1].result.ok /\ SameBag(task[1].result.rows, GroupsMean(task[1].stmt.q.body, Ctx(task[1].stmt.q.body)))

Without(data, kept) == [n \in DOMAIN data |-> IF n \in kept THEN data[n] ELSE [data[n] EXCEPT !.rows = <<>>]]

(* A statement touches no table but those its binding names, so access     *)
(* checked on these is access checked on all it reads (Binder, read and    *)
(* write objects).                                                         *)
AccessCovers ==
    task # <<>> /\ task[1].bound.ok =>
      LET t == task[1]
      IN Execute(t.stmt, Without(t.db, t.bound.read \cup t.bound.write), t.bound, t.used, t.params, Subqueries) = t.result

(* EXPLAIN names what execution then does: nothing is returned under       *)
(* LimitZero and NullShortCircuit, and at most one row by primary key      *)
(* (explain_statement, explain_table_predicate).                           *)
ExplainTruthful ==
    Bound("select") =>
      LET env == [params |-> task[1].params, types |-> task[1].bound.params, casts |-> task[1].bound.casts, queries |-> Subqueries]
          path == Explain(task[1].stmt.q, task[1].db["t"], env)
      IN /\ path = "error" => ~task[1].result.ok
         /\ path \in {"LimitZero", "NullShortCircuit"} => task[1].result.rows = <<>>
         /\ path = "PrimaryKeyLookup" => Len(task[1].result.rows) <= 1

(* The types found for parameters and columns do not depend on which side  *)
(* of a set operation is written first (bind, its passes and common_type). *)
BindOrderFree ==
    task # <<>> /\ task[1].kind = "sides" =>
      LET body == task[1].stmt.q.body
          swapped == Bind(AsQuery(Query([body EXCEPT !.left = body.right, !.right = body.left])), task[1].db,
                          Cardinality(task[1].used), parameter_hints(task[1].params), Subqueries)
          types(b) == [i \in DOMAIN b.columns |-> b.columns[i].type]
      IN /\ swapped.ok = task[1].bound.ok
         /\ swapped.ok => swapped.params = task[1].bound.params /\ types(swapped) = types(task[1].bound)

(* A comparison in WHERE that binds does not fail the statement: a value   *)
(* that does not convert leaves it unknown (coerce_operand).               *)
ComparisonsRun == Bound("compare") => task[1].result.ok

(* 0001-01-01, and a bound that keeps microseconds within 32 bits.         *)
FirstDay == -719162
FirstMicros == -2000000000

(* Days around the ends of the calendar, a century, leap days and 1970;    *)
(* timestamps around midnights, the hours and minutes of these.            *)
SampleDays == {a + b : a \in {FirstDay, -135140, -25540, -40, 11000, 47450, 2932800}, b \in 0..96}
SampleMicros == {d * DayMicros + t : d \in -401..-360 \cup -32..32 \cup 365..396,
                                     t \in {0, 1, SecondMicros, MinuteMicros - 1, MinuteMicros,
                                           HourMicros - 1, HourMicros, DayMicros - 1}}
IsBefore(a, b) == a[1] < b[1] \/ (a[1] = b[1] /\ (a[2] < b[2] \/ (a[2] = b[2] /\ a[3] < b[3])))

(* The calendar is one: every day has a valid civil date that parses back  *)
(* to it, and the dates are in order (civil_from_days, days_from_civil).   *)
CalendarInverts ==
    \A z \in SampleDays :
        LET c == civil_from_days(z) IN
        /\ parse_date_text(c[1], c[2], c[3]) = from_days(z)
        /\ IsBefore(c, civil_from_days(z + 1))

(* A timestamp's text parses back to it, also before 1970, and truncation  *)
(* gives the latest value of its kind that is not after it, with the parts *)
(* kept (timestamp_text, parse_timestamp_text, date_trunc).                *)
TimestampsKept ==
    \A m \in SampleMicros :
        LET v == <<"Timestamp", m>> text == timestamp_text(m) IN
        /\ parse_timestamp_text(text.date, text.time) = v
        /\ \A field \in DateFields \cup (TimeFields \ {"second"}) :
             LET start == date_trunc(field, v) IN
             /\ start[2] <= m /\ date_trunc(field, start) = start
             /\ datetime_part_value(field, start) = datetime_part_value(field, v)
             /\ field \in DateFields => timestamp_text(start[2]).time =
                  [hour |-> 0, minute |-> 0, second |-> 0, fraction |-> <<>>]

(* Every statement does what it means: the answers of SELECT in all its    *)
(* forms, and the rows that INSERT, UPDATE and DELETE leave, are those of  *)
(* the reference (SqlReference), and dates and timestamps convert both     *)
(* ways.                                                                   *)
StatementsAgree ==
    /\ SelectsAgree /\ JoinsAgree /\ GroupsAgree /\ AnalyticsAgree /\ CombinesAgree /\ WindowsAgree
    /\ WritesExact /\ InsertsWhole
    /\ CalendarInverts /\ TimestampsKept

(* Binding and EXPLAIN tell the truth about execution: what binds runs,    *)
(* touches only the tables named, in types that do not depend on the order *)
(* of writing, along the path EXPLAIN names.                               *)
BindingHolds == AccessCovers /\ ExplainTruthful /\ BindOrderFree /\ BoundRuns


(***************************************************************************)
(* Databases reached by schema statements and inserts, and short scripts.  *)
(***************************************************************************)
(* The executor under test and its readings of a statement, as operators   *)
(* the model names.                                                        *)
CONSTANTS RunSql(_, _), Prepare(_, _), Reload(_)
CONSTANTS MaxGeneration,  \* how many catalog changes a behaviour makes
          MaxRows,        \* rows of one table
          Smallest        \* whether the smallest integer is inserted

VARIABLES sdb, script
schemaVars == <<sdb, script>>

---------------------------------------------------------------------------
Option(name, type, options) == [name |-> name, type |-> type, options |-> options]
Key(op, name, columns) == [op |-> op, plain |-> TRUE, name |-> name, index_name |-> "", columns |-> columns]
Foreign(name, columns, table, referred, on_delete) ==
    [op |-> "foreign", plain |-> TRUE, name |-> name, index_name |-> "", columns |-> columns, table |-> table,
     referred |-> referred, on_delete |-> on_delete]
Table(name, columns, constraints) ==
    [kind |-> "create table", plain |-> TRUE, name |-> name, columns |-> columns, constraints |-> constraints]
Index(name, table, keys, unique, where) ==
    [kind |-> "create index", plain |-> TRUE, name |-> name, table |-> table, keys |-> keys, unique |-> unique, where |-> where]
Alter(table, ops) == [kind |-> "alter table", plain |-> TRUE, table |-> table, ops |-> ops]
Drop(object, names, if_exists) == [kind |-> "drop", plain |-> TRUE, object |-> object, names |-> names, if_exists |-> if_exists]
EqualTo(l, r) == [op |-> "cmp", f |-> "Eq", l |-> l, r |-> r]
Num(n) == <<"I64", n>>
Insert(table, columns, values) ==
    [kind |-> "insert", w |-> [table |-> table, columns |-> columns, returning |-> <<>>,
                               from |-> [kind |-> "values", values |-> <<[i \in DOMAIN values |-> render_value(i, values[i])]>>]]]

TableStatements ==
    {Table("t", <<Option("id", "BIGINT", <<"primary key">>), Option("a", "INT", <<>>), Option("f", "BOOLEAN", <<"default null">>)>>, <<>>),
     Table("u", <<Option("k", "BIGINT", <<"not null">>), Option("n", "NUMERIC", <<>>)>>,
           <<Key("unique", "", <<"k">>), Foreign("", <<"k">>, "t", <<"id">>, "cascade")>>),
     Table("u", <<Option("k", "BIGINT", <<>>), Option("n", "TEXT", <<"null">>)>>, <<Key("primary", "pk", <<"n", "k">>), Key("unique", "uk", <<"k">>)>>),
     Table("v", <<Option("k", "VARCHARHACK", <<>>)>>, <<>>), Table("v", <<Option("k", "INT", <<"named not null">>)>>, <<>>)}
Indexes ==
    {Index("ia", "t", <<Named("a")>>, TRUE, <<>>),
     Index("ip", "t", <<Named("a"), Named("id")>>, TRUE, <<Named("f")>>),
     Index("ie", "t", <<[op |-> "arith", f |-> "Plus", l |-> Named("id"), r |-> Named("a")]>>, FALSE, <<>>),
     Index("ik", "t", <<Named("id")>>, FALSE, <<[op |-> "and", l |-> EqualTo(Named("a"), Literal(1, Num(1))), r |-> Named("f")]>>),
     Index("uk", "u", <<Named("n")>>, FALSE, <<EqualTo(Literal(1, Num(1)), Named("k"))>>)}
Add(column) == [op |-> "add column", plain |-> TRUE, column |-> column]
Rename(column, name) == [op |-> "rename column", column |-> column, name |-> name]
SetType(column, type) == [op |-> "set type", plain |-> TRUE, column |-> column, type |-> type]
DropColumns(columns) == [op |-> "drop columns", plain |-> TRUE, columns |-> columns]
AddConstraint(x) == [op |-> "add constraint", plain |-> TRUE, constraint |-> x]
Alters ==
    {Alter("t", <<Add(Option("x", "TEXT", <<>>))>>), Alter("t", <<Add(Option("x", "TEXT", <<"not null">>))>>),
     Alter("t", <<Rename("a", "b")>>), Alter("t", <<SetType("a", "NUMERIC")>>), Alter("u", <<SetType("n", "BIGINT")>>),
     Alter("t", <<[op |-> "rename table", name |-> "w"]>>), Alter("u", <<[op |-> "drop not null", column |-> "k"]>>),
     Alter("t", <<DropColumns(<<"f">>), Add(Option("x", "BOOL", <<>>))>>),
     Alter("t", <<Add(Option("x", "BOOL", <<>>)), DropColumns(<<"f", "a">>)>>),
     Alter("t", <<Rename("a", "b"), AddConstraint(Key("unique", "", <<"a">>))>>),
     Alter("t", <<AddConstraint(Foreign("self", <<"a">>, "t", <<"id">>, "set null")), [op |-> "rename table", name |-> "w"]>>),
     Alter("u", <<AddConstraint(Foreign("", <<"k">>, "t", <<"a">>, ""))>>)}
Drops == {Drop("table", <<"u">>, FALSE), Drop("table", <<"t", "u">>, TRUE), Drop("index", <<"ia", "uk">>, TRUE), Drop("index", <<"pk">>, FALSE)}
SchemaStatements == TableStatements \cup Indexes \cup Alters \cup Drops
Inserts ==
    {Insert("t", <<"id", "a", "f">>, <<Num(1), Num(1), <<"Bool", 1>>>>), Insert("t", <<"id">>, <<Num(-2)>>),
     Insert("u", <<"k", "n">>, <<Num(1), <<"Decimal", <<-5, 1>>>>>>), Insert("u", <<"k", "n">>, <<Num(2), <<"Text", <<"1">>>>>>)}
    \cup IF Smallest THEN {Insert("t", <<"id">>, <<Num(-I64Max - 1)>>)} ELSE {}

Texts == UNION {[1..n -> {"x", "q", "d", ";"}] : n \in 0..2}
Pieces == {quote_string(t) : t \in Texts} \cup {quote_identifier(t) : t \in Texts} \cup {<<"x">>}

---------------------------------------------------------------------------
BindAndTranslate(c, s) == LET bound == ddl(s, c) IN [bound |-> bound.error, translated |-> translate(c, s).error]
DumpAndRestore(d) == LET dumped == dump_sql(d) IN restore_sql(EmptyDb, dumped)

SchemaInit == sdb = EmptyDb /\ script = <<>>
ExecuteStatement(statements) ==
    /\ script = <<>>
    /\ \E s \in statements :
         LET after == RunSql(sdb, s)
         IN /\ after # NoDb /\ after.catalog.generation <= MaxGeneration
            /\ \A t \in DOMAIN after.rows : Len(after.rows[t]) <= MaxRows
            /\ sdb' = after
    /\ UNCHANGED script
Define == ExecuteStatement(SchemaStatements)
Load == ExecuteStatement(Inserts)
Compose ==
    /\ sdb = EmptyDb /\ script = <<>>
    /\ \E p, q \in Pieces : script' \in {<<p, q>>, <<p \o q, <<"x">>>>}
    /\ UNCHANGED sdb
SchemaNext == Define \/ Load \/ Compose

---------------------------------------------------------------------------
(* What a database says, without the numbers of its objects: types and     *)
(* rows as a restore can know them, and no index that is the plain order   *)
(* of a primary key.                                                       *)
NamesOf(table, ids) == [k \in DOMAIN ids |-> column_name(table, ids[k])]
IndexName(c, i) == IF i \in DOMAIN c.index_names THEN c.index_names[i] ELSE generated_index_name(c.tables[c.indexes[i].table], i)
PlainKeyIndex(c, i) ==
    /\ IsKeyIndex(c, i) /\ c.indexes[i].unique /\ ~c.indexes[i].partial
    /\ C!referenced_columns(c.indexes[i]) = c.primary_keys[c.indexes[i].table]
DescribeTable(d, id) ==
    LET c == d.catalog
        table == c.tables[id]
        own == {i \in DOMAIN c.indexes : c.indexes[i].table = id /\ ~PlainKeyIndex(c, i)}
        part(p) == [columns |-> NamesOf(table, p.columns), op |-> p.op]
    IN [columns |-> [i \in DOMAIN table.columns |-> [name |-> table.columns[i].name, type |-> table.columns[i].type, nullable |-> table.columns[i].nullable]],
        key |-> IF id \in DOMAIN c.primary_keys THEN NamesOf(table, c.primary_keys[id]) ELSE <<>>,
        rows |-> [r \in DOMAIN d.rows[id] |-> d.rows[id][r].values],
        indexes |-> {[name |-> IndexName(c, i), parts |-> [p \in DOMAIN c.indexes[i].parts |-> part(c.indexes[i].parts[p])],
                      unique |-> c.indexes[i].unique, partial |-> c.indexes[i].partial,
                      predicate |-> {<<column_name(table, t[1]), t[2]>> : t \in c.indexes[i].predicate}] : i \in own}]
Describe(d) ==
    LET c == d.catalog
    IN [tables |-> [n \in {c.tables[t].name : t \in DOMAIN c.tables} |-> DescribeTable(d, find_table(c, n))],
        keys |-> {[name |-> IF f \in DOMAIN c.foreign_key_names THEN c.foreign_key_names[f] ELSE "fk_" \o ToString(f),
                   child |-> <<c.tables[c.foreign_keys[f].table].name, NamesOf(c.tables[c.foreign_keys[f].table], c.foreign_keys[f].columns)>>,
                   parent |-> <<c.tables[c.foreign_keys[f].referenced_table].name,
                                NamesOf(c.tables[c.foreign_keys[f].referenced_table], c.foreign_keys[f].referenced_columns)>>,
                   on_delete |-> c.foreign_keys[f].on_delete] : f \in DOMAIN c.foreign_keys}]

FormErrors == {"unsupported", "table", "column", "columns", "keys", "missing"}

(* A statement the binder accepts is not refused for its form when it is   *)
(* translated: binding.rs and sql_schema.rs read the same statement twice, *)
(* and a prepared statement must not turn out unsupported when it runs.    *)
BoundTranslates ==
    sdb # NoDb => \A s \in SchemaStatements :
      LET p == Prepare(sdb.catalog, s) IN p.bound = <<>> => p.translated \notin FormErrors

OneByOne(s) ==
    LET id == find_table(sdb.catalog, s.table)
    IN FoldLeft(LAMBDA d, o : IF d = NoDb THEN NoDb ELSE RunSql(d, Alter(d.catalog.tables[id].name, <<o>>)), sdb, s.ops)

(* An ALTER TABLE of several operations, each translated against the       *)
(* catalog it found (alter_table_mutation), leaves what its operations     *)
(* leave one at a time, whenever both are accepted.                        *)
AlterComposes ==
    sdb # NoDb => \A s \in Alters :
      LET whole == RunSql(sdb, s)
      IN find_table(sdb.catalog, s.table) # 0 /\ Len(s.ops) > 1 /\ whole # NoDb /\ OneByOne(s) # NoDb
           => Describe(whole) = Describe(OneByOne(s))

DecodablePredicates ==
    \A i \in DOMAIN sdb.catalog.indexes : \A term \in sdb.catalog.indexes[i].predicate : term[2][1] \in C!DecodableTypes

(* Every catalog SQL can build is read back when the database opens:       *)
(* decode_catalog accepts it, with its keys, names and foreign keys, as    *)
(* long as the values of partial-index predicates have types decode_value  *)
(* knows.                                                                  *)
CatalogReopens == sdb # NoDb /\ DecodablePredicates => C!decode_catalog(sdb.catalog) = sdb.catalog

Restorable ==
    /\ DecodablePredicates
    /\ \A i \in DOMAIN sdb.catalog.indexes : IsKeyIndex(sdb.catalog, i) => PlainKeyIndex(sdb.catalog, i)
    /\ \A t \in DOMAIN sdb.rows : \A r \in DOMAIN sdb.rows[t] : Num(-I64Max - 1) \notin Range(sdb.rows[t][r].values)
Restores(d) == LET back == Reload(d) IN ~back.failed /\ Describe(back.db) = Describe(d)

(* Restoring the dump of a database into an empty one gives the database   *)
(* again (sql_dump.rs:3-6), for a database whose indexes over the columns  *)
(* of a primary key are the key's own, whose predicate values have literal *)
(* forms and that holds no smallest integer.                               *)
DumpRestores == sdb # NoDb /\ Restorable => Restores(sdb)

(* The same without the restriction.                                       *)
DumpComplete == Restores(sdb)

(* Statements written with quote_string and quote_identifier and joined by *)
(* semicolons come back one by one from split_statements, whatever quotes  *)
(* and semicolons the texts hold.                                          *)
SplitInverts ==
    /\ split_statements(FlattenSeq([i \in DOMAIN script |-> Append(script[i], ";")])) = script
    /\ \A i \in DOMAIN script : split_statements(script[i]) = <<script[i]>>

(***************************************************************************)
(* The wire server, and the choice between the parts.                      *)
(***************************************************************************)

CONSTANTS c1, c2

VARIABLE part

Plan(n, messages, queries, statements, flags) ==
    [max_connections |-> n, max_control |-> 1, messages |-> messages, queries |-> queries,
     statements |-> statements, bootstrap |-> "bootstrap" \in flags,
     provision |-> "bootstrap" \in flags, disconnect |-> "disconnect" \in flags,
     cancel |-> "cancel" \in flags, age |-> "age" \in flags, trouble |-> "trouble" \in flags,
     shutdown |-> FALSE]

(* Two connections whose blocks meet a schema change and age; one          *)
(* connection with multi-statement messages, errors, cancellation and      *)
(* disconnects; the extended protocol; bootstrap.                          *)
WirePlans ==
    {Plan(2, 4, {<<"write">>, <<"schema">>, <<"begin">>, <<"commit">>, <<"write", "bad">>}, {}, {"age"}),
     Plan(1, 3, {<<"write", "begin", "write">>, <<"write", "commit", "write">>,
                 <<"rollback", "syntax">>, <<"write", "write">>, <<"commit">>}, {},
          {"trouble", "cancel", "disconnect"}),
     Plan(1, 5, {}, {"begin", "write", "commit", "read"}, {"trouble"}),
     Plan(1, 2, {<<"rollback">>, <<"schema">>}, {}, {"bootstrap"})}

---------------------------------------------------------------------------
FrontInit ==
    /\ part \in {"sql", "schema", "wire"}
    /\ Init /\ WireInit
    /\ IF part = "schema" THEN SchemaInit ELSE sdb = NoDb /\ script = <<>>
    /\ part # "wire" => plan = CHOOSE p \in Plans : TRUE
FrontNext ==
    \/ part = "sql" /\ Next /\ UNCHANGED <<part, schemaVars, wvars>>
    \/ part = "schema" /\ SchemaNext /\ UNCHANGED <<part, vars, wvars>>
    \/ part = "wire" /\ WireNext /\ UNCHANGED <<part, vars, schemaVars>>
FrontSpec == FrontInit /\ [][FrontNext]_<<part, vars, schemaVars, wvars>>
---------------------------------------------------------------------------
(* Schema statements: what is prepared runs, ALTER composes, the catalog   *)
(* decodes, and a dump restores the database and splits into its           *)
(* statements again.                                                       *)
SchemaHolds == BoundTranslates /\ AlterComposes /\ CatalogReopens /\ DumpRestores /\ SplitInverts
=============================================================================
