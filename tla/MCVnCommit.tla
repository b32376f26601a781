----------------------------- MODULE MCVnCommit -----------------------------
EXTENDS VnCommit

\* The transactions and keys used, mutations per transaction, whether they may
\* delete, whose cursors run, and the budgets.
P(txns, keys, muts, dels, cursors, tries, faults, crashes, ckpts, scans) ==
    [txns |-> txns, keys |-> keys, muts |-> muts, dels |-> dels, cursors |-> cursors,
     budget |-> [tries |-> tries, faults |-> faults, crashes |-> crashes,
                 ckpts |-> ckpts, scans |-> scans]]

\* Two writers of two keys.
Conflicts == P({1, 2}, {1, 2}, 2, {FALSE}, {}, 2, 0, 0, 0, 0)
\* One I/O error and one crash anywhere in two commits of one key.
Faults == P({1, 2}, {1}, 1, {FALSE, TRUE}, {}, 2, 1, 1, 0, 0)
\* A cursor of a reader or of a writer over two commits.
Scans == P({1, 2}, {1, 2}, 1, {FALSE}, {NoTxn, 1}, 2, 0, 0, 0, 1)
\* A checkpoint drain with an I/O error.
Drains == P({1, 2}, {1}, 1, {FALSE}, {}, 2, 1, 0, 1, 0)

CommitProfiles == {Conflicts, Faults, Scans, Drains}
FaultProfile == {P({1, 2}, {1}, 1, {FALSE}, {}, 2, 1, 0, 0, 0)}
=============================================================================
