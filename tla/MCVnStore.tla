------------------------------ MODULE MCVnStore ------------------------------
(* The files of the vnext store, its directory and its buffer pool, checked  *)
(* side by side: "part" says which one a behaviour is about; the others keep *)
(* their initial states.                                                     *)
EXTENDS VnStore, VnDirectory

CONSTANTS Threads, PoolPages, PoolChoices

VARIABLES part, pool, calls, frame, map, clock, images, caller, latest

Buffer == INSTANCE VnBuffer WITH Pages <- PoolPages, Profiles <- PoolChoices, profile <- pool, budget <- calls,
                                 disk <- images, th <- caller
bufferVars == <<pool, calls, frame, map, clock, images, caller, latest>>

-----------------------------------------------------------------------------
\* Batches a segment holds, and the budgets.
P(segment, batch, undos, image, faults, crashes) ==
  [segment |-> segment, batch |-> batch, undo |-> undos, image |-> image,
   fault |-> faults, crash |-> crashes]

\* Rotations with an I/O error and two crashes; every component with an error
\* and a crash; two images over a longer segment.
Log == P(1, 3, 0, 0, 1, 2)
Faulty == P(1, 2, 1, 1, 1, 1)
Paged == P(2, 2, 1, 2, 0, 1)

StoreProfiles == {Log, Faulty, Paged}

\* ops: the calls made; resident: the page each frame holds at first; stored:
\* the pages the store holds; calls, faults: budgets.
PoolProfile(ops, resident, stored, most, faults) ==
  [ops |-> ops, resident |-> resident, stored |-> stored, calls |-> most, faults |-> faults]

OneFrame == PoolProfile({"read", "write"}, <<"a">>, {"a", "b"}, 3, 0)
TwoFrames == PoolProfile({"write", "flush"}, <<"a", "none">>, {"a", "b"}, 2, 1)
Creating == PoolProfile({"read", "create"}, <<"a">>, {"a"}, 2, 1)

PoolProfiles == {OneFrame, TwoFrames, Creating}

MCInit ==
  /\ Init /\ DirInit /\ Buffer!Init
  /\ part \in {"files", "directory", "buffer"}
  /\ part # "files" => profile = Paged
  /\ part # "buffer" => pool = OneFrame

MCNext == \/ part = "files" /\ Next /\ UNCHANGED <<dvars, bufferVars, part>>
          \/ part = "directory" /\ DirNext /\ UNCHANGED <<vars, bufferVars, part>>
          \/ part = "buffer" /\ Buffer!Next /\ UNCHANGED <<vars, dvars, part>>

MCSpec == MCInit /\ [][MCNext]_<<vars, dvars, bufferVars, part>>

-----------------------------------------------------------------------------
(* The buffer pool between any two steps: a guard protects its page in the *)
(* incarnation it pinned, pins are guards, a page has one frame, a clean   *)
(* frame can be dropped and writers exclude each other (VnBuffer).         *)
PoolHolds == Buffer!PoolHolds
==============================================================================
