--------------------------- MODULE MCSeerPublish ---------------------------
(* The publication engine and the latch, each checked by itself: part says  *)
(* which one the behaviour is about; the other stays in its initial state.  *)
(* A profile of the engine names the methods that callers use, the faults   *)
(* that may happen and how many, how many mutations there are, and the      *)
(* options of the database.                                                 *)
EXTENDS SeerPublish, HybridLatch

CONSTANTS Parts       \* of "publish", "latch"

VARIABLE part

CopyOnWrite(v, f, n, m, sync) ==
    [verbs |-> v, faults |-> f, failures |-> n, mutations |-> m, walFirst |-> FALSE,
     syncWrites |-> sync, bound |-> 0]

WalFirst(v, f, n, m, bound) ==
    [verbs |-> v, faults |-> f, failures |-> n, mutations |-> m, walFirst |-> TRUE,
     syncWrites |-> FALSE, bound |-> bound]

Methods == {"put", "batch", "flush", "maintenance", "close"}

\* Copy-on-write with every fault, and with staged groups, and with a synced log;
\* WAL-first with each kind of crash, and with staged groups that are not closed.
Publication ==
    {CopyOnWrite(Methods, {"io", "capacity", "close", "process", "power"}, 2, 4, FALSE),
     CopyOnWrite({"admit", "put", "flush", "close"}, {"io", "capacity", "process", "power"}, 2, 3, FALSE),
     CopyOnWrite({"put", "flush", "close"}, {"power"}, 2, 3, TRUE),
     WalFirst(Methods, {"io", "capacity", "process"}, 2, 4, 4),
     WalFirst(Methods, {"capacity", "power"}, 2, 4, 4),
     WalFirst({"admit", "put", "flush"}, {"io", "process"}, 2, 3, 0)}

\* The shortest repertoires that show what the code does not keep.
SoftClose == {WalFirst({"admit", "flush", "close"}, {}, 0, 1, 0)}

UnsyncedFrame == {WalFirst({"batch", "flush", "close"}, {"process", "power"}, 2, 2, 0)}

MCInit ==
    /\ part \in Parts
    /\ Init /\ (part # "publish" => profile = CHOOSE p \in Profiles : TRUE)
    /\ LatchInit

MCNext ==
    \/ part = "publish" /\ Next /\ UNCHANGED <<part, latchVars>>
    \/ part = "latch" /\ LatchNext /\ UNCHANGED <<part, vars>>

MCSpec == MCInit /\ [][MCNext]_<<part, vars, latchVars>>

=============================================================================
