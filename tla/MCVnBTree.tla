------------------------------ MODULE MCVnBTree ------------------------------
EXTENDS VnBTree, TLC

\* load: calls made one at a time before the concurrent ones; ops, keys, vals:
\* what the concurrent calls are; leaf, node: capacity of a page; fence: what a
\* high fence takes of it; size: what each value takes; scan: the cursor's
\* [from, to); limit: rows of a batch; calls, faults: budgets.
P(ld, ops, keys, vals, scan, calls, faults) ==
  [load |-> ld, ops |-> ops, keys |-> keys, vals |-> vals, leaf |-> 2, node |-> 2,
   fence |-> 0, size |-> [v \in Vals |-> 1], scan |-> scan, limit |-> 2,
   calls |-> calls, faults |-> faults]

Up(ks) == [i \in 1 .. Len(ks) |-> <<"upsert", ks[i], 1>>]

Writes == P(Up(<<2, 4, 5>>), {"upsert", "insert", "delete", "lookup"}, {3, 5}, {2}, <<>>, 3, 0)
Deep == P(Up(<<1, 2, 3, 4>>), {"upsert", "lookup"}, {5, 6}, {1}, <<>>, 2, 1)
Split == P(Up(<<1, 4>>), {"upsert"}, {2, 3}, {1}, <<>>, 3, 1)
Scans == P(Up(<<2, 4>>), {"upsert", "delete", "scan"}, {1, 3, 4}, {1}, <<1, 5>>, 3, 0)
Sized == [P(<<>>, {"upsert"}, {1, 2, 3}, {2, 3}, <<>>, 3, 0) EXCEPT
            !.leaf = 4, !.size = <<1, 2, 4>>]
Fenced == [P(Up(<<2, 4, 5>>), {"upsert", "lookup"}, {1, 3, 4}, {2, 3}, <<>>, 3, 0) EXCEPT
            !.leaf = 5, !.fence = 1, !.size = <<1, 2, 3>>]

TreeProfiles == {Writes, Deep, Split, Scans, Sized, Fenced}
SizedProfiles == {Sized}

\* The threads are interchangeable.
ThreadSymmetry == Permutations(Threads)
=============================================================================
