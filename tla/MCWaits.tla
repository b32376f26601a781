------------------------------ MODULE MCWaits -------------------------------
(***************************************************************************)
(* Two places where a thread sleeps until another wakes it: the commit     *)
(* waves of SeerDB and the loads of the vnext buffer pool. part says which *)
(* one a behaviour is about; the other keeps its initial state.            *)
(***************************************************************************)
EXTENDS MCSeerTxn

CONSTANTS Threads, Pages, PoolChoices

VARIABLES part, pool, calls, frame, map, clock, images, caller, latest

Buffer == INSTANCE VnBuffer WITH Profiles <- PoolChoices, profile <- pool, budget <- calls, disk <- images, th <- caller
bufferVars == <<pool, calls, frame, map, clock, images, caller, latest>>

\* One frame for a page to read and one to create, with an I/O failure.
Creating == [ops |-> {"read", "create"}, resident |-> <<"a">>, stored |-> {"a"}, calls |-> 2, faults |-> 1]
Reading == [ops |-> {"read"}, resident |-> <<"a", "none">>, stored |-> {"a", "b"}, calls |-> 2, faults |-> 1]
PoolProfiles == {Creating, Reading}

WaitsInit ==
    /\ part \in {"waves", "buffer"}
    /\ Init /\ Buffer!Init
    /\ part = "waves" => pool = Creating
    /\ part = "buffer" => profile = CHOOSE p \in Profiles : TRUE
WaitsNext ==
    \/ part = "waves" /\ Next /\ UNCHANGED <<part, bufferVars>>
    \/ part = "buffer" /\ Buffer!Next /\ UNCHANGED <<part, vars>>
WaitsSpec ==
    /\ WaitsInit /\ [][WaitsNext]_<<part, vars, bufferVars>>
    /\ Fairness
    /\ \A t \in Threads : WF_bufferVars(Buffer!Step(t))

(* Every call into the buffer pool ends: a joiner of a load wakes, also    *)
(* when the load fails, and a retry finds the page or a frame in the end   *)
(* (BufferPool::get and its waits).                                        *)
CallsReturn == Buffer!CallsReturn
=============================================================================
