------------------------------- MODULE VnBTree -------------------------------
(***************************************************************************)
(* The B-link tree of the vNext kernel: btree/tree_v4.rs over the pages of *)
(* btree/page_v4.rs, with the key-restart cursor of btree/cursor_v4.rs and *)
(* the admission check of btree/preflight.rs.                              *)
(*                                                                         *)
(* Several threads call upsert, insert, delete, lookup and the cursor on   *)
(* one object.  A thread reads one page per step (PageGuard::read holds    *)
(* the page's byte latch for the whole step) and changes one page, or the  *)
(* two halves of a split, per step (PageGuard::write).  Between two steps  *)
(* it holds no latch; only the structural mutex is kept across steps.      *)
(* Every page access can fail (BufferError): the call then returns the     *)
(* error where it stands, and a split it had begun stays half installed.   *)
(*                                                                         *)
(* A key is a number and a value a member of Vals with a size, so that a   *)
(* page is full when the sizes on it, and the fence, exceed its capacity.  *)
(***************************************************************************)
EXTENDS Integers, Sequences, FiniteSets, FiniteSetsExt, Functions, SequencesExt

CONSTANTS Threads,    \* threads calling the tree
          Keys,       \* the keys, a set of numbers from 1
          Vals,       \* the values
          Profiles    \* the instances a run explores; MCVnBTree describes their fields

VARIABLES profile,    \* the instance being explored
          budget,     \* calls and faults left
          load,       \* calls made before the concurrent ones, one at a time
          pages,      \* page identity -> page, for the pages created
          root,       \* BTreeObject.root
          nextPage,   \* BTreeObject.next_page
          structural, \* holder of BTreeObject.structural, or NoThread
          deps,       \* PageDependencyTable: page -> the WAL position it requires
          th,         \* the call each thread is in
          seen        \* auxiliary: what each key held since the thread's cursor was made

vars == <<profile, budget, load, pages, root, nextPage, structural, deps, th, seen>>
treeVars == <<pages, root, nextPage, structural, deps>>

NoThread == "none"
NoPage == -1      \* NONE_PAGE
NoFence == 0      \* a page without a high fence
Nothing == 0      \* the key is absent; no value is 0

-----------------------------------------------------------------------------
(* Pages.  A leaf maps keys to rows, an internal page separators to        *)
(* children; "lsn" is the log position of the call that put the entry.     *)

Leaf(high, right, rows) == [kind |-> "leaf", high |-> high, right |-> right, rows |-> rows]

Node(high, right, left, kids) ==
  [kind |-> "node", high |-> high, right |-> right, left |-> left, kids |-> kids]

NoRows == [k \in {} |-> 0]
Put(f, k, e) == [x \in DOMAIN f \cup {k} |-> IF x = k THEN e ELSE f[x]]

fence_cost(high) == IF high = NoFence THEN 0 ELSE profile.fence

leaf_entry_cost(rows) == [k \in DOMAIN rows |-> profile.size[rows[k].val]]

\* build_page refuses entries that do not fit beside the fence.
leaf_fits(high, rows) == SumFunction(leaf_entry_cost(rows)) + fence_cost(high) <= profile.leaf
node_fits(high, kids) == Cardinality(DOMAIN kids) + fence_cost(high) <= profile.node

follow_right(page, k) == page.high # NoFence /\ k >= page.high

child_for_key(page, k) ==
  LET below == {s \in DOMAIN page.kids : s <= k}
  IN  IF below = {} THEN page.left ELSE page.kids[Max(below)].child

\* The first entry that, opening the right half, leaves the halves closest in cost.
choose_split(cost) ==
  LET total == SumFunction(cost)
      twice(s) == 2 * SumFunctionOnSet(cost, {k \in DOMAIN cost : k < s})
      distance(s) == IF twice(s) > total THEN twice(s) - total ELSE total - twice(s)
      cuts == DOMAIN cost \ {Min(DOMAIN cost)}
  IN  CHOOSE s \in cuts : \A d \in cuts :
         distance(s) < distance(d) \/ (distance(s) = distance(d) /\ s <= d)

preflight_inline_upsert(v) == profile.size[v] <= profile.leaf

-----------------------------------------------------------------------------
(* Calls.                                                                  *)

Idle == [pc |-> "idle"]

Init ==
  /\ profile \in Profiles
  /\ budget = [calls |-> profile.calls, faults |-> profile.faults]
  /\ load = profile.load
  /\ pages = [p \in {0} |-> Leaf(NoFence, NoPage, NoRows)]
  /\ root = 0
  /\ nextPage = 1
  /\ structural = NoThread
  /\ deps = [p \in {0} |-> 0]
  /\ th = [t \in Threads |-> Idle]
  /\ seen = [t \in Threads |-> [k \in Keys |-> {}]]

\* A point call: the record the rest of the module carries it in.
Call(op, k, v, lsn) ==
  [pc |-> "descend", op |-> op, key |-> k, val |-> v, lsn |-> lsn, at |-> root,
   path |-> <<>>, sep |-> NoFence, right |-> NoPage, applied |-> FALSE, got |-> Nothing,
   res |-> "none"]

Started(op, k, v) ==
  \/ /\ load # <<>> /\ Head(load) = <<op, k, v>>
     /\ load' = Tail(load)
     /\ UNCHANGED budget
  \/ /\ load = <<>> /\ budget.calls > 0
     /\ op \in profile.ops /\ k \in profile.keys /\ v \in profile.vals
     /\ budget' = [budget EXCEPT !.calls = @ - 1]
     /\ UNCHANGED load

\* The log position of a call: the order in which calls were made.
NextLsn == 1 + (profile.calls - budget.calls) + (Len(profile.load) - Len(load))

begin(t, op, k, v) ==
  /\ th[t] = Idle
  /\ load # <<>> => \A u \in Threads : th[u] = Idle
  /\ Started(op, k, v)
  /\ op = "upsert" => preflight_inline_upsert(v)
  /\ th' = [th EXCEPT ![t] = Call(op, k, v, IF op = "upsert" THEN NextLsn ELSE 0)]
  /\ UNCHANGED <<profile, treeVars, seen>>

\* The call returns to its caller.
return(t) ==
  /\ th[t].pc = "done"
  /\ th' = [th EXCEPT ![t] = Idle]
  /\ UNCHANGED <<profile, budget, load, treeVars, seen>>

Done(t, c, res) == th' = [th EXCEPT ![t] = [c EXCEPT !.pc = "done", !.res = res]]

\* A page cannot be pinned: `?` leaves the call, and its guards are dropped.
fail(t) ==
  /\ budget.faults > 0
  /\ \/ th[t].pc \in {"descend", "leaf", "split", "scan"}
     \/ th[t].pc = "propagate" /\ th[t].path # <<>>
  /\ budget' = [budget EXCEPT !.faults = @ - 1]
  /\ Done(t, th[t], "io")
  /\ structural' = IF structural = t THEN NoThread ELSE structural
  /\ UNCHANGED <<profile, load, pages, root, nextPage, deps, seen>>

\* One page of find_leaf_path (and of lookup, which answers at the leaf).
descend(t) ==
  /\ th[t].pc = "descend"
  /\ LET c == th[t]
         page == pages[c.at]
         found == c.key \in DOMAIN page.rows
     IN  CASE follow_right(page, c.key) ->
                th' = [th EXCEPT ![t].at = page.right]
           [] ~follow_right(page, c.key) /\ page.kind = "node" ->
                th' = [th EXCEPT ![t].at = child_for_key(page, c.key),
                                 ![t].path = Append(@, c.at)]
           [] OTHER ->
                IF c.op = "lookup"
                  THEN Done(t, [c EXCEPT !.applied = TRUE,
                                         !.got = IF found THEN page.rows[c.key].val ELSE Nothing],
                            "ok")
                  ELSE th' = [th EXCEPT ![t].pc = CASE c.op = "scan" -> "scan"
                                                    [] structural = t -> "split"
                                                    [] OTHER -> "leaf"]
  /\ UNCHANGED <<profile, budget, load, treeVars, seen>>

Restart(t) == th' = [th EXCEPT ![t].pc = "descend", ![t].at = root, ![t].path = <<>>]

\* Every scan in progress notes that k now holds v.
Note(k, v) ==
  seen' = [u \in Threads |->
             IF th[u] # Idle /\ th[u].op = "scan" THEN [seen[u] EXCEPT ![k] = @ \cup {v}]
                                                  ELSE seen[u]]

Found(page, k) == IF k \in DOMAIN page.rows THEN page.rows[k].val ELSE Nothing

Row(c) == [val |-> c.val, lsn |-> c.lsn]

\* attach_operation_dependency: only upsert carries requirements.
Attach(p, lsn) == deps' = [deps EXCEPT ![p] = Max({@, lsn})]

\* A split: the new page takes over what the page it was cut from requires.
Inherit(c, p) ==
  LET required == Max({deps[p], c.lsn})
  IN  IF c.op = "upsert" THEN Put([deps EXCEPT ![p] = required], nextPage, required)
                         ELSE Put(deps, nextPage, 0)

Applied(t) == [th[t] EXCEPT !.applied = TRUE, !.got = Found(pages[th[t].at], th[t].key)]

\* Mutant: insert replaces a row that is there.
change_leaf_overwrite(t) ==
  LET c == th[t]
      page == pages[c.at]
      rows == Put(page.rows, c.key, Row(c))
  IN  /\ ~follow_right(page, c.key)
      /\ CASE c.op = "delete" ->
                /\ pages' = [pages EXCEPT ![c.at].rows = Restrict(@, DOMAIN @ \ {c.key})]
                /\ Done(t, Applied(t), IF Found(page, c.key) = Nothing THEN "missing" ELSE "ok")
                /\ Note(c.key, Nothing)
                /\ UNCHANGED deps
           [] OTHER ->
                /\ leaf_fits(page.high, rows)
                /\ pages' = [pages EXCEPT ![c.at].rows = rows]
                /\ Done(t, Applied(t), "ok")
                /\ Note(c.key, c.val)
                /\ Attach(c.at, c.lsn)

\* The leaf write of upsert, insert and delete, outside and under the
\* structural mutex.  It either finishes the call or finds the leaf full.
change_leaf(t) ==
  LET c == th[t]
      page == pages[c.at]
      rows == Put(page.rows, c.key, Row(c))
  IN  /\ ~follow_right(page, c.key)
      /\ CASE c.op = "delete" ->
                /\ pages' = [pages EXCEPT ![c.at].rows = Restrict(@, DOMAIN @ \ {c.key})]
                /\ Done(t, Applied(t), IF Found(page, c.key) = Nothing THEN "missing" ELSE "ok")
                /\ Note(c.key, Nothing)
                /\ UNCHANGED deps
           [] c.op = "insert" /\ c.key \in DOMAIN page.rows ->
                /\ Done(t, Applied(t), "duplicate")
                /\ UNCHANGED <<pages, deps, seen>>
           [] OTHER ->
                /\ leaf_fits(page.high, rows)
                /\ pages' = [pages EXCEPT ![c.at].rows = rows]
                /\ Done(t, Applied(t), "ok")
                /\ Note(c.key, c.val)
                /\ Attach(c.at, c.lsn)

\* upsert_inner, insert and delete at the leaf the descent found.
write_leaf(t) ==
  /\ th[t].pc = "leaf"
  /\ LET c == th[t]
         page == pages[c.at]
         full == /\ c.op = "upsert" \/ (c.op = "insert" /\ c.key \notin DOMAIN page.rows)
                 /\ ~leaf_fits(page.high, Put(page.rows, c.key, Row(c)))
     IN  \/ follow_right(page, c.key) /\ Restart(t) /\ UNCHANGED <<pages, deps, seen>>
         \/ change_leaf(t)
         \/ /\ ~follow_right(page, c.key) /\ full
            /\ th' = [th EXCEPT ![t].pc = "lock"]
            /\ UNCHANGED <<pages, deps, seen>>
  /\ UNCHANGED <<profile, budget, load, root, nextPage, structural>>

\* upsert_with_split and insert_with_split take the structural mutex and
\* start over: the leaf that was full may have been split meanwhile.
lock_structural(t) ==
  /\ th[t].pc = "lock"
  /\ structural = NoThread
  /\ structural' = t
  /\ Restart(t)
  /\ UNCHANGED <<profile, budget, load, pages, root, nextPage, deps, seen>>

\* The halves of a full leaf with the new row in it.
leaf_halves(page, rows, right) ==
  LET sep == choose_split(leaf_entry_cost(rows))
      low == {k \in DOMAIN rows : k < sep}
  IN  [sep |-> sep,
       left |-> Leaf(sep, right, Restrict(rows, low)),
       right |-> Leaf(page.high, page.right, Restrict(rows, DOMAIN rows \ low))]

WithRow(c) == Put(pages[c.at].rows, c.key, Row(c))

\* The leaf of the call has no room for its row.
LeafIsFull(c) ==
  /\ ~follow_right(pages[c.at], c.key)
  /\ c.op = "upsert" \/ c.key \notin DOMAIN pages[c.at].rows
  /\ ~leaf_fits(pages[c.at].high, WithRow(c))

HalvesFit(c) ==
  /\ Cardinality(DOMAIN WithRow(c)) >= 2
  /\ LET half == leaf_halves(pages[c.at], WithRow(c), nextPage)
     IN  /\ leaf_fits(half.left.high, half.left.rows)
         /\ leaf_fits(half.right.high, half.right.rows)

\* Both halves are built before either is installed; one that does not fit
\* ends the call with EntryTooLarge, the page identity already taken.
split_leaf(t) ==
  LET c == th[t]
      page == pages[c.at]
      rows == WithRow(c)
      half == leaf_halves(page, rows, nextPage)
  IN  /\ LeafIsFull(c)
      /\ IF HalvesFit(c)
           THEN /\ pages' = Put([pages EXCEPT ![c.at] = half.left], nextPage, half.right)
                /\ deps' = Inherit(c, c.at)
                /\ nextPage' = nextPage + 1
                /\ th' = [th EXCEPT ![t] = [Applied(t) EXCEPT !.pc = "propagate",
                                            !.sep = half.sep, !.right = nextPage]]
                /\ Note(c.key, c.val)
                /\ UNCHANGED structural
           ELSE /\ Done(t, c, "too large")
                /\ nextPage' = IF Cardinality(DOMAIN rows) >= 2 THEN nextPage + 1 ELSE nextPage
                /\ structural' = NoThread
                /\ UNCHANGED <<pages, deps, seen>>

write_leaf_structural(t) ==
  /\ th[t].pc = "split"
  /\ \/ /\ follow_right(pages[th[t].at], th[t].key)
        /\ Restart(t)
        /\ UNCHANGED <<pages, nextPage, structural, deps, seen>>
     \/ change_leaf(t) /\ structural' = NoThread /\ UNCHANGED nextPage
     \/ split_leaf(t)
  /\ UNCHANGED <<profile, budget, load, root>>

\* One level of propagate_split: the separator goes into the parent, or the
\* parent splits and promotes the separator in its middle.  A parent that
\* cannot take the separator is reported as corruption.
insert_separator(t) ==
  LET c == th[t]
      p == c.path[Len(c.path)]
      page == pages[p]
      kids == Put(page.kids, c.sep, [child |-> c.right, lsn |-> c.lsn])
      up == choose_split([s \in DOMAIN kids |-> 1])
      part(S) == Restrict(kids, S)
  IN  /\ c.path # <<>>
      /\ IF follow_right(page, c.sep) \/ c.sep \in DOMAIN page.kids
           THEN /\ Done(t, c, "corrupt")
                /\ structural' = NoThread
                /\ Attach(p, c.lsn)
                /\ UNCHANGED <<pages, nextPage>>
           ELSE IF node_fits(page.high, kids)
           THEN /\ pages' = [pages EXCEPT ![p].kids = kids]
                /\ Done(t, c, "ok")
                /\ structural' = NoThread
                /\ Attach(p, c.lsn)
                /\ UNCHANGED nextPage
           ELSE /\ pages' = Put([pages EXCEPT ![p] =
                                   Node(up, nextPage, page.left, part({s \in DOMAIN kids : s < up}))],
                                nextPage,
                                Node(page.high, page.right, kids[up].child,
                                     part({s \in DOMAIN kids : s > up})))
                /\ nextPage' = nextPage + 1
                /\ deps' = Inherit(c, p)
                /\ th' = [th EXCEPT ![t].sep = up, ![t].right = nextPage,
                                    ![t].path = SubSeq(@, 1, Len(@) - 1)]
                /\ UNCHANGED structural
      /\ UNCHANGED root

\* A new root requires what it covers and the operation.
RootInherits(c) ==
  Put(deps, nextPage,
      IF c.op = "upsert" THEN Max({c.lsn, deps[root], deps[c.right]}) ELSE 0)

\* The path is exhausted: a new root over the present one and the split's
\* right half.
promote_root(t) ==
  LET c == th[t] IN
  /\ c.path = <<>>
  /\ pages' = Put(pages, nextPage,
                  Node(NoFence, NoPage, root,
                       [s \in {c.sep} |-> [child |-> c.right, lsn |-> c.lsn]]))
  /\ deps' = RootInherits(c)
  /\ root' = nextPage
  /\ nextPage' = nextPage + 1
  /\ structural' = NoThread
  /\ Done(t, c, "ok")

\* The page a split or a new root needs cannot be created: its identity is
\* taken and the requirements are merged, but no page changes.
create_page_failed(t) ==
  LET c == th[t]
      p == c.path[Len(c.path)]
      kids == Put(pages[p].kids, c.sep, [child |-> c.right, lsn |-> c.lsn])
  IN  /\ budget.faults > 0
      /\ budget' = [budget EXCEPT !.faults = @ - 1]
      /\ \/ c.pc = "split" /\ LeafIsFull(c) /\ HalvesFit(c) /\ deps' = Inherit(c, c.at)
         \/ /\ c.pc = "propagate" /\ c.path # <<>>
            /\ ~follow_right(pages[p], c.sep) /\ c.sep \notin DOMAIN pages[p].kids
            /\ ~node_fits(pages[p].high, kids)
            /\ deps' = Inherit(c, p)
         \/ c.pc = "propagate" /\ c.path = <<>> /\ deps' = RootInherits(c)
      /\ nextPage' = nextPage + 1
      /\ Done(t, c, "io")
      /\ structural' = NoThread
      /\ UNCHANGED <<profile, load, pages, root, seen>>

propagate_split(t) ==
  /\ th[t].pc = "propagate"
  /\ insert_separator(t) \/ promote_root(t)
  /\ UNCHANGED <<profile, budget, load, seen>>

-----------------------------------------------------------------------------
(* The cursor over [key, end).  Each batch is one call of range, which      *)
(* descends again to the last key emitted.                                  *)

RECURSIVE Locate(_, _)
\* The leaf a descent from page p for key k would reach if nothing moved.
Locate(p, k) ==
  CASE follow_right(pages[p], k) -> Locate(pages[p].right, k)
    [] ~follow_right(pages[p], k) /\ pages[p].kind = "node" ->
         Locate(child_for_key(pages[p], k), k)
    [] OTHER -> p

Contents == [k \in Keys |-> Found(pages[Locate(root, k)], k)]

range_cursor(t) ==
  /\ th[t] = Idle /\ load = <<>>
  /\ "scan" \in profile.ops /\ budget.calls > 0
  /\ budget' = [budget EXCEPT !.calls = @ - 1]
  /\ th' = [th EXCEPT ![t] =
              [pc |-> "descend", op |-> "scan", key |-> profile.scan[1], end |-> profile.scan[2],
               at |-> root, path |-> <<>>, last |-> 0, batch |-> <<>>, out |-> <<>>,
               applied |-> FALSE, res |-> "none"]]
  /\ seen' = [seen EXCEPT ![t] = [k \in Keys |-> {Contents[k]}]]
  /\ UNCHANGED <<profile, load, treeVars>>

\* One more row is fetched when the restart key may come back first.
fetch_limit(c) == profile.limit + (IF c.last = 0 THEN 0 ELSE 1)

\* What range takes from one leaf.
Taken(c, page) ==
  LET wanted == {k \in DOMAIN page.rows : c.key <= k /\ k < c.end}
      room == fetch_limit(c) - Len(c.batch)
      keys == SetToSortSeq(wanted, <)
  IN  [i \in 1 .. Min({room, Len(keys)}) |-> <<keys[i], page.rows[keys[i]].val>>]

\* Mutant: the restart key is emitted again.
Batched_inclusive(c, raw) ==
  LET fresh == SelectSeq(raw, LAMBDA r : r[1] >= c.last)
      kept == SubSeq(fresh, 1, Min({Len(fresh), profile.limit}))
      final == kept = <<>> \/ Len(raw) < fetch_limit(c)
      last == IF kept = <<>> THEN c.last ELSE kept[Len(kept)][1]
  IN  [c EXCEPT !.pc = IF final THEN "done" ELSE "descend",
                !.key = IF final THEN c.key ELSE last,
                !.at = root, !.batch = <<>>, !.last = last, !.out = c.out \o kept,
                !.res = IF final THEN "ok" ELSE "none"]

\* next_batch: drop the restart key, keep at most limit rows, remember the last.
Batched(c, raw) ==
  LET fresh == SelectSeq(raw, LAMBDA r : r[1] > c.last)
      kept == SubSeq(fresh, 1, Min({Len(fresh), profile.limit}))
      final == kept = <<>> \/ Len(raw) < fetch_limit(c)
      last == IF kept = <<>> THEN c.last ELSE kept[Len(kept)][1]
  IN  [c EXCEPT !.pc = IF final THEN "done" ELSE "descend",
                !.key = IF final THEN c.key ELSE last,
                !.at = root, !.batch = <<>>, !.last = last, !.out = c.out \o kept,
                !.res = IF final THEN "ok" ELSE "none"]

\* One leaf of range.
scan_leaf(t) ==
  /\ th[t].pc = "scan"
  /\ LET c == th[t]
         page == pages[c.at]
         rows == c.batch \o Taken(c, page)
         last == \/ \E k \in DOMAIN page.rows : k >= c.end
                 \/ Len(rows) = fetch_limit(c)
                 \/ page.right = NoPage
                 \/ page.high >= c.end
     IN  th' = [th EXCEPT ![t] =
                  IF follow_right(page, c.key) THEN [c EXCEPT !.at = page.right]
                  ELSE IF last THEN Batched(c, rows)
                  ELSE [c EXCEPT !.at = page.right, !.batch = rows]]
  /\ UNCHANGED <<profile, budget, load, treeVars, seen>>

-----------------------------------------------------------------------------
\* The bounded number of calls is used up and all have returned.  It makes
\* a thread that waits for ever a deadlock.
Finished ==
  /\ budget.calls = 0 /\ \A t \in Threads : th[t] = Idle
  /\ UNCHANGED vars

Next ==
  \/ \E t \in Threads, op \in {"upsert", "insert", "delete", "lookup"}, k \in Keys, v \in Vals :
        begin(t, op, k, v)
  \/ \E t \in Threads : range_cursor(t)
  \/ \E t \in Threads : fail(t) \/ create_page_failed(t)
  \/ \E t \in Threads : descend(t)
  \/ \E t \in Threads : write_leaf(t)
  \/ \E t \in Threads : lock_structural(t)
  \/ \E t \in Threads : write_leaf_structural(t)
  \/ \E t \in Threads : propagate_split(t)
  \/ \E t \in Threads : scan_leaf(t)
  \/ \E t \in Threads : return(t)
  \/ Finished

Spec == Init /\ [][Next]_vars

-----------------------------------------------------------------------------
Pages == 0 .. nextPage - 1

\* Every page identity handed out is below the allocation mark, every link
\* names a created page, and the entries of a page lie below its fence.
TypeOK ==
  /\ DOMAIN pages \subseteq DOMAIN deps /\ DOMAIN deps \subseteq Pages
  /\ root \in DOMAIN pages
  /\ structural \in Threads \cup {NoThread}
  /\ \A p \in DOMAIN pages :
       LET page == pages[p]
           at == IF page.kind = "leaf" THEN DOMAIN page.rows ELSE DOMAIN page.kids
       IN  /\ (page.right = NoPage) <=> (page.high = NoFence)
           /\ page.right \in DOMAIN pages \cup {NoPage}
           /\ \A k \in at : page.high # NoFence => k < page.high

\* What a caller of the tree sees of the call a thread is in.
Seen(t) ==
  LET c == th[t] IN
  IF c = Idle \/ (c # Idle /\ c.op = "scan") THEN [phase |-> "idle"]
  ELSE IF c.applied THEN [phase |-> "applied", op |-> c.op, key |-> c.key, val |-> c.val,
                          got |-> c.got]
  ELSE [phase |-> "called", op |-> c.op, key |-> c.key, val |-> c.val]

Map == INSTANCE OrderedMap WITH map <- Contents, call <- [t \in Threads |-> Seen(t)]

\* The tree implements the ordered map: the contents that a search from the
\* root finds change only by the one atomic effect of a call in progress, and
\* a lookup answers what the map held at an instant of the call, whatever
\* splits, root changes and half-installed splits it passes through.
ImplementsMap == Map!Spec

\* A thread in the middle of a descent reaches, from the page it has come
\* to, the leaf that a search from the root reaches: right links and fences
\* make up for every split it has not seen (tree_v4.rs lookup, find_leaf_path).
DescentsHold ==
  \A t \in Threads : th[t].pc \in {"descend", "leaf", "split"} =>
     Locate(th[t].at, th[t].key) = Locate(root, th[t].key)

\* The ancestors recorded under the structural mutex can take the separator
\* of a split, also after an earlier split stayed without its separator
\* (propagate_split reports corruption otherwise).
StructuralPathsHold == \A t \in Threads : th[t].pc = "done" => th[t].res # "corrupt"

\* A cursor emits keys in strictly ascending order, each with a value it
\* held since the cursor was made, and skips no key that was there all along
\* (cursor_v4.rs next_batch, tree_v4.rs range).
ScansComplete ==
  \A t \in Threads : th[t] # Idle /\ th[t].op = "scan" =>
     LET c == th[t]
         emitted == {c.out[i][1] : i \in DOMAIN c.out}
         covered == IF c.pc = "done" /\ c.res = "ok" THEN c.end - 1 ELSE c.last
     IN  /\ \A i, j \in DOMAIN c.out : i < j => c.out[i][1] < c.out[j][1]
         /\ \A i \in DOMAIN c.out : c.out[i][2] \in seen[t][c.out[i][1]]
         /\ \A k \in profile.scan[1] .. covered : k \notin emitted => Nothing \in seen[t][k]

\* Every page requires at least the log position of every entry it holds, so
\* no page image can reach the store before the log of what is on it; the
\* halves of a split and a new root inherit what they took over
\* (upsert_with_dependencies; insert carries no requirement, so this is about
\* trees written by upsert, the only writer of authoritative objects).
RequirementsCover ==
  "insert" \notin profile.ops =>
  \A p \in DOMAIN pages :
     LET page == pages[p] IN
     IF page.kind = "leaf" THEN \A k \in DOMAIN page.rows : page.rows[k].lsn <= deps[p]
                           ELSE \A s \in DOMAIN page.kids : page.kids[s].lsn <= deps[p]

\* The structure of the tree between any two steps: descents in progress,
\* recorded ancestors, requirements of pages, and what cursors emitted.
TreeHolds == TypeOK /\ DescentsHold /\ StructuralPathsHold /\ RequirementsCover /\ ScansComplete

\* A record that preflight_inline_upsert accepted can be put in the tree.
PreflightHolds ==
  \A t \in Threads : th[t].pc = "done" /\ th[t].op = "upsert" => th[t].res # "too large"
=============================================================================
