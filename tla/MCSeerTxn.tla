----------------------------- MODULE MCSeerTxn -----------------------------
(* Instances of the transactional kernel.  A profile names the operations   *)
(* that clients use, the faults that may happen and how many, and how many  *)
(* transactions and keys there are; a run explores all of its profiles.     *)
EXTENDS SeerTxn

Profile(v, f, n, t, k) == [verbs |-> v, faults |-> f, failures |-> n, txns |-> t, keys |-> k]

\* Writers of one key, and transactions that read or scan two keys and write
\* them; trees come and go, versions are collected, and changes under a lease.
Kernel ==
    {Profile({"put", "delete"}, {}, 0, 4, 1), Profile({"put", "get"}, {}, 0, 3, 2),
     Profile({"put", "scan"}, {}, 0, 3, 2), Profile({"create", "drop", "put"}, {}, 0, 3, 1),
     Profile({"put", "scan", "gc_versions"}, {}, 0, 3, 1), Profile({"put", "gc_changes", "lease"}, {}, 0, 3, 1)}

\* Every way a publication fails, close, and crashes; collections under a lease
\* and a crash; maintenance, commits and reservations that are refused for
\* capacity; before-images that are not appended and records that are too large.
Recovery ==
    {Profile({"put", "gc_versions", "close"}, {"crash", "sync", "refuse", "uncertain"}, 2, 3, 1),
     Profile({"create", "gc_changes", "lease"}, {"crash", "refuse", "uncertain"}, 1, 2, 1),
     Profile({"gc_changes", "lease"}, {"crash", "capacity"}, 2, 2, 1),
     Profile({"put", "gc_versions", "lease"}, {"crash", "uncertain"}, 1, 2, 1),
     Profile({"gc_versions", "lease"}, {"crash", "capacity"}, 2, 2, 1),
     Profile({"put", "create"}, {"append", "oversize", "crash"}, 2, 3, 1),
     Profile({"put", "create"}, {"capacity"}, 1, 2, 1)}

\* Commits and reservations with a failing publication, and with refusals for
\* capacity that leave a pending generation to close.
Settling ==
    {Profile({"put", "create"}, {"uncertain"}, 1, 3, 1),
     Profile({"put", "create", "close"}, {"capacity", "uncertain"}, 2, 2, 1)}

\* The shortest repertoires that show what the code does not keep.
DropsAndWrites == {Profile({"drop", "put"}, {}, 0, 3, 1)}

RefusedWrites == {Profile({"put", "close"}, {"capacity"}, 1, 3, 1)}
=============================================================================
