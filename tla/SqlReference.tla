---------------------------- MODULE SqlReference --------------------------
(***************************************************************************)
(* What SQL statements mean, stated without the executor: three-valued     *)
(* truth as 0, 1, 2, joins as sets of pairs, groups by their keys, windows *)
(* row by row.  The executor of SqlEngine is compared with it.  Statements *)
(* here compare columns, integer, decimal and text literals only.          *)
(***************************************************************************)
EXTENDS SqlBind

IsNull(v) == v[1] = "Null"
Mantissa(v) == IF v[1] = "Decimal" THEN v[2][1] ELSE v[2]
Unit(v) == IF v[1] = "Decimal" THEN Pow10(v[2][2]) ELSE 1
Equal(v, w) ==
    IF IsNull(v) \/ IsNull(w) THEN IsNull(v) /\ IsNull(w)
    ELSE IF v[1] = "Text" \/ w[1] = "Text" THEN v = w
    ELSE Mantissa(v) * Unit(w) = Mantissa(w) * Unit(v)
Below(v, w) ==
    IF v[1] = "Text" THEN \/ \E i \in DOMAIN v[2] \cap DOMAIN w[2] :
                                /\ SubSeq(v[2], 1, i - 1) = SubSeq(w[2], 1, i - 1)
                                /\ CharRank(v[2][i]) < CharRank(w[2][i])
                          \/ Len(v[2]) < Len(w[2]) /\ SubSeq(w[2], 1, Len(v[2])) = v[2]
    ELSE Mantissa(v) * Unit(w) < Mantissa(w) * Unit(v)
EqualRows(r, s) == Len(r) = Len(s) /\ \A i \in DOMAIN r : Equal(r[i], s[i])
Times(r, rows) == Cardinality({i \in DOMAIN rows : EqualRows(rows[i], r)})
SameBag(rows, others) ==
    Len(rows) = Len(others) /\ \A i \in DOMAIN rows : Times(rows[i], rows) = Times(rows[i], others)

(* A joined row is a function from relation names to values; missing sides *)
(* are all NULL.  An unqualified name is the first value found for it.     *)
FirstPresent(f) == LET present == {i \in DOMAIN f : ~IsNull(f[i])} IN IF present = {} THEN NullValue ELSE f[Min(present)]
NullRow(table) == [i \in DOMAIN table.columns |-> NullValue]
Holders(e, row, from, db) ==
    {i \in DOMAIN from : /\ e.rel \in {"", from[i].name}
                         /\ from[i].name \in DOMAIN row
                         /\ NamePosition(db[from[i].table].columns, e.name) # 0}
At(e, row, from, db) ==
    FirstPresent([i \in Holders(e, row, from, db) |-> row[from[i].name][NamePosition(db[from[i].table].columns, e.name)]])

Ordered(f, v, w) ==
    CASE f = "Eq" -> Equal(v, w) [] f = "NotEq" -> ~Equal(v, w)
      [] f = "Lt" -> Below(v, w) [] f = "Gt" -> Below(w, v)
      [] f = "LtEq" -> ~Below(w, v) [] f = "GtEq" -> ~Below(v, w)
Compared(f, v, w) == IF IsNull(v) \/ IsNull(w) THEN 1 ELSE IF Ordered(f, v, w) THEN 2 ELSE 0
Flip(negated, t) == IF negated THEN 2 - t ELSE t

RECURSIVE Truth3(_, _, _)
RECURSIVE SelectMeans(_, _)
Operand(x, row, ctx) == CASE x.op = "col" -> At(x, row, ctx.from, ctx.db)
                          [] x.op = "lit" -> x.v
                          [] OTHER -> ctx.params[x.i]
Among(v, values) == Max({0} \cup {Compared("Eq", v, values[i]) : i \in DOMAIN values})
FirstColumn(rows) == [i \in DOMAIN rows |-> rows[i][1]]
SubqueryMeans(e, row, rows, ctx) ==
    IF e.op = "exists" THEN IF rows = <<>> THEN 0 ELSE 2 ELSE Among(Operand(e.e, row, ctx), FirstColumn(rows))
Truth3(e, row, ctx) ==
    CASE e.op = "and" -> Min({Truth3(e.l, row, ctx), Truth3(e.r, row, ctx)})
      [] e.op = "or" -> Max({Truth3(e.l, row, ctx), Truth3(e.r, row, ctx)})
      [] e.op = "not" -> 2 - Truth3(e.e, row, ctx)
      [] e.op = "cmp" -> Compared(e.f, Operand(e.l, row, ctx), Operand(e.r, row, ctx))
      [] e.op = "between" -> Flip(e.negated, Min({Compared("GtEq", Operand(e.e, row, ctx), Operand(e.low, row, ctx)),
                                                  Compared("LtEq", Operand(e.e, row, ctx), Operand(e.high, row, ctx))}))
      [] e.op = "in" -> Flip(e.negated, Among(Operand(e.e, row, ctx), [i \in DOMAIN e.list |-> Operand(e.list[i], row, ctx)]))
      [] e.op \in {"insub", "exists"} -> Flip(e.negated, SubqueryMeans(e, row, SelectMeans(ctx.queries[e.query], ctx), ctx))
      [] e.op = "isnull" -> IF IsNull(Operand(e.e, row, ctx)) THEN 2 ELSE 0
      [] e.op = "notnull" -> IF IsNull(Operand(e.e, row, ctx)) THEN 0 ELSE 2

(* The rows of a FROM: each join pairs what is there with the new table.   *)
SharedNames(j, before, db) ==
    CASE j.constraint = "using" -> Range(j.using)
      [] j.constraint = "natural" ->
           {db[j.table].columns[i].name : i \in DOMAIN db[j.table].columns} \cap
           UNION {{db[before[k].table].columns[i].name : i \in DOMAIN db[before[k].table].columns} : k \in DOMAIN before}
      [] OTHER -> {}
Pairs(rows, j, before, ctx) ==
    {p \in (DOMAIN rows) \X (DOMAIN ctx.db[j.table].rows) :
       LET new == ctx.db[j.table].rows[p[2]].values
       IN /\ \A c \in SharedNames(j, before, ctx.db) :
               Compared("Eq", At([op |-> "col", rel |-> "", name |-> c], rows[p[1]], before, ctx.db),
                        new[NamePosition(ctx.db[j.table].columns, c)]) = 2
          /\ j.constraint = "on" => Truth3(j.on[1], (j.name :> new) @@ rows[p[1]], [ctx EXCEPT !.from = Append(before, j)]) = 2}
Paired(rows, j, before, db, pairs) ==
    LET table == db[j.table]
        left(i) == {k \in DOMAIN table.rows : <<i, k>> \in pairs}
        lone == {k \in DOMAIN table.rows : ~\E i \in DOMAIN rows : <<i, k>> \in pairs}
        nulls == [x \in {before[k].name : k \in DOMAIN before} |-> NullRow(db[(CHOOSE b \in Range(before) : b.name = x).table])]
        inOrder(S) == SetToSortSeq(S, LAMBDA x, y : x < y)
    IN FlattenSeq([i \in DOMAIN rows |->
                     IF left(i) = {} THEN IF j.kind \in {"left", "full"} THEN <<(j.name :> NullRow(table)) @@ rows[i]>> ELSE <<>>
                     ELSE [n \in 1..Cardinality(left(i)) |-> (j.name :> table.rows[inOrder(left(i))[n]].values) @@ rows[i]]])
       \o (IF j.kind \in {"right", "full"} THEN [n \in 1..Cardinality(lone) |-> (j.name :> table.rows[inOrder(lone)[n]].values) @@ nulls] ELSE <<>>)
JoinStepMeans(rows, n, ctx) ==
    LET before == SubSeq(ctx.from, 1, n - 1)
    IN Paired(rows, ctx.from[n], before, ctx.db, Pairs(rows, ctx.from[n], before, ctx))
FromMeans(ctx) ==
    LET first == ctx.db[ctx.from[1].table].rows
        start == [i \in DOMAIN first |-> ctx.from[1].name :> first[i].values]
    IN FoldLeft(LAMBDA rows, n : JoinStepMeans(rows, n, ctx), start, [i \in 1..(Len(ctx.from) - 1) |-> i + 1])
Selected(s, ctx) == SelectSeq(FromMeans(ctx), LAMBDA r : s.where = <<>> \/ Truth3(s.where[1], r, ctx) = 2)

(* The columns of a select list; a star names each shared column once.     *)
StarColumns(ctx) ==
    FlattenSeq([k \in DOMAIN ctx.from |->
      LET j == ctx.from[k]
          merged(c) == \/ j.constraint = "using" /\ c \in Range(j.using)
                       \/ j.constraint = "natural" /\ \E b \in 1..(k - 1) : NamePosition(ctx.db[ctx.from[b].table].columns, c) # 0
          shared(c) == \E b \in (k + 1)..Len(ctx.from) :
                          \/ ctx.from[b].constraint = "using" /\ c \in Range(ctx.from[b].using)
                          \/ ctx.from[b].constraint = "natural" /\ NamePosition(ctx.db[ctx.from[b].table].columns, c) # 0
          kept == SelectSeq(ctx.db[j.table].columns, LAMBDA c : ~merged(c.name))
      IN [i \in DOMAIN kept |-> [op |-> "col", rel |-> IF shared(kept[i].name) THEN "" ELSE j.name, name |-> kept[i].name]]])
Chosen(s, ctx) == FlattenSeq([i \in DOMAIN s.projection |->
                                IF s.projection[i].e.op = "star" THEN StarColumns(ctx) ELSE <<s.projection[i].e>>])
Projected(row, columns, ctx) == [c \in DOMAIN columns |-> At(columns[c], row, ctx.from, ctx.db)]
ProjectedAll(rows, columns, ctx) == [i \in DOMAIN rows |-> Projected(rows[i], columns, ctx)]
SelectMeans(q, ctx0) ==
    LET ctx == [ctx0 EXCEPT !.from = q.body.from]
    IN ProjectedAll(Selected(q.body, ctx), Chosen(q.body, ctx), ctx)

(* Row l may come before row r, by the values of their sort keys.          *)
KeyBefore(o, v, w) ==
    IF IsNull(v) \/ IsNull(w) THEN IF o.nulls_first THEN IsNull(v) /\ ~IsNull(w) ELSE ~IsNull(v) /\ IsNull(w)
    ELSE IF o.ascending THEN Below(v, w) ELSE Below(w, v)
KeysInOrder(order, vs, ws) ==
    LET ties == {i \in DOMAIN order : Equal(vs[i], ws[i])}
    IN ties = DOMAIN order \/ \E i \in DOMAIN order : 1..(i - 1) \subseteq ties /\ KeyBefore(order[i], vs[i], ws[i])
SortKeys(row, order, ctx) == [i \in DOMAIN order |-> At(order[i].e, row, ctx.from, ctx.db)]
MayPrecede(l, r, order, ctx) == KeysInOrder(order, SortKeys(l, order, ctx), SortKeys(r, order, ctx))
Arrangements(n) == {f \in [1..n -> 1..n] : \A i, j \in 1..n : i # j => f[i] # f[j]}
FirstOnly(rows) == LET keep == {i \in DOMAIN rows : ~\E j \in 1..(i - 1) : EqualRows(rows[j], rows[i])}
                   IN [k \in 1..Cardinality(keep) |-> rows[CHOOSE i \in keep : Cardinality({j \in keep : j <= i}) = k]]

(* Some order of the selected rows that ORDER BY allows gives the answer.  *)
AnswersFrom(found, columns, q, rows, offset, limit, ctx) ==
    LET listed(p) == [i \in DOMAIN found |-> Projected(found[p[i]], columns, ctx)]
        unique(p) == IF q.body.distinct THEN FirstOnly(listed(p)) ELSE listed(p)
        ordered(p) == \A i, j \in DOMAIN found : i < j => MayPrecede(found[p[i]], found[p[j]], q.order, ctx)
    IN \E p \in Arrangements(Len(found)) :
          ordered(p) /\ LET want == Window(unique(p), offset, limit)
                        IN Len(want) = Len(rows) /\ \A i \in DOMAIN rows : EqualRows(want[i], rows[i])
SelectAnswers(q, rows, offset, limit, ctx) ==
    AnswersFrom(Selected(q.body, ctx), Chosen(q.body, ctx), q, rows, offset, limit, ctx)

---------------------------------------------------------------------------
(* Aggregates of a bag of values, and groups.                              *)
SumOf(vs) == FoldLeft(LAMBDA n, v : n + v[2], 0, vs)
AggregateMeans(name, args, rows, ctx) ==
    LET all == [i \in DOMAIN rows |-> IF args = <<>> THEN <<"I64", 1>> ELSE At(args[1], rows[i], ctx.from, ctx.db)]
        vs == SelectSeq(all, LAMBDA v : ~IsNull(v))
    IN CASE name = "count" -> <<"I64", Len(vs)>>
         [] vs = <<>> -> NullValue
         [] name = "sum" -> <<"I64", SumOf(vs)>>
         [] name = "min" -> CHOOSE v \in Range(vs) : \A w \in Range(vs) : ~Below(w, v)
         [] name = "max" -> CHOOSE v \in Range(vs) : \A w \in Range(vs) : ~Below(v, w)
GroupsFrom(rows, s, ctx) ==
    LET key(r) == [g \in DOMAIN s.group |-> At(s.group[g], r, ctx.from, ctx.db)]
        keys == FirstOnly([i \in DOMAIN rows |-> key(rows[i])])
        of(k) == SelectSeq(rows, LAMBDA r : EqualRows(key(r), k))
        item(e, rs) == IF e.op = "agg" THEN AggregateMeans(e.name, e.args, rs, ctx) ELSE At(e, rs[1], ctx.from, ctx.db)
        row(rs) == [i \in DOMAIN s.projection |-> item(s.projection[i].e, rs)]
    IN IF s.group = <<>> THEN <<row(rows)>> ELSE [k \in DOMAIN keys |-> row(of(keys[k]))]
GroupsMean(s, ctx) == GroupsFrom(Selected(s, ctx), s, ctx)

(* One window column, by looking at the rows of the partition.             *)
Partition(e, row, rows, ctx) ==
    SelectSeq(rows, LAMBDA r : \A k \in DOMAIN e.partition :
                                 Equal(At(e.partition[k], r, ctx.from, ctx.db), At(e.partition[k], row, ctx.from, ctx.db)))
UpTo(rows, row, order, ctx) == SelectSeq(rows, LAMBDA r : MayPrecede(r, row, order, ctx))
RanksBefore(rows, row, order, ctx) ==
    {SortKeys(rows[i], order, ctx) : i \in {k \in DOMAIN rows : ~MayPrecede(row, rows[k], order, ctx)}}
WindowMeans(e, row, rows, ctx) ==
    CASE e.name = "rank" -> <<"I64", 1 + Cardinality({i \in DOMAIN rows : ~MayPrecede(row, rows[i], e.order, ctx)})>>
      [] e.name = "dense_rank" -> <<"I64", 1 + Cardinality(RanksBefore(rows, row, e.order, ctx))>>
      [] OTHER -> AggregateMeans(e.name, e.args, UpTo(rows, row, e.order, ctx), ctx)
WithWindow(rows, key, e, ctx) ==
    [i \in DOMAIN rows |-> <<rows[i][key][1], WindowMeans(e, rows[i], Partition(e, rows[i], rows, ctx), ctx)>>]

(* UNION, INTERSECT and EXCEPT of two bags of rows.                        *)
SetMeans(op, all, left, right) ==
    LET in(r, s) == Times(r, s) > 0
    IN CASE op = "union" /\ all -> left \o right
         [] op = "union" -> FirstOnly(left \o right)
         [] op = "intersect" -> FirstOnly(SelectSeq(left, LAMBDA r : in(r, right)))
         [] OTHER -> FirstOnly(SelectSeq(left, LAMBDA r : ~in(r, right)))
===========================================================================
