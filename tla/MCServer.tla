------------------------------ MODULE MCServer -------------------------------
(* The query admission layers and the wire server, each checked by itself:   *)
(* part says which of the three the behaviour is about; the other two stay   *)
(* in their initial state.                                                   *)
EXTENDS Reactor, Session, PgServer

CONSTANTS Parts,           \* of "reactor", "session", "wire"
          r1, r2, w1, c1, c2

VARIABLE part
serverVars == <<part, rvars, svars, wvars>>

Shape(reserve, queue, in_flight, terminate, demotion_after, submits, ticks, requests) ==
  [capacity |-> 4, reserve |-> reserve, queue |-> queue, in_flight |-> in_flight, workers |-> 2,
   terminate |-> terminate, demotion_after |-> demotion_after, submits |-> submits,
   ticks |-> ticks, requests |-> requests]

\* Overload with victims, demotion of long work, and deadlines.
ReactorShapes == {
  Shape(1, 2, 2, TRUE, NoDeadline, 3, 0,
        {<<OlTp, 2, NoDeadline>>, <<Wal, 3, NoDeadline>>, <<Schema, 2, NoDeadline>>, <<Scan, 1, NoDeadline>>}),
  Shape(1, 1, 1, TRUE, 0, 3, 2, {<<Wal, 1, NoDeadline>>, <<Scan, 1, NoDeadline>>}),
  Shape(1, 2, 1, FALSE, NoDeadline, 3, 2,
        {<<OlTp, 1, NoDeadline>>, <<Reclaim, 1, 1>>, <<Scan, 1, 2>>})}

Plan(n, messages, queries, statements, flags) ==
  [max_connections |-> n, max_control |-> 1, messages |-> messages, queries |-> queries,
   statements |-> statements, bootstrap |-> "bootstrap" \in flags,
   provision |-> "bootstrap" \in flags, disconnect |-> "disconnect" \in flags,
   cancel |-> "cancel" \in flags, age |-> "age" \in flags, trouble |-> "trouble" \in flags,
   shutdown |-> "shutdown" \in flags]

\* Shutdown against two connections with running workers.
ShutdownPlans == {Plan(2, 2, {<<"write", "write">>}, {}, {"shutdown"})}

Init == /\ part \in Parts /\ ReactorInit /\ SessionInit /\ WireInit
        /\ part # "reactor" => shape = CHOOSE s \in Shapes : TRUE
        /\ part # "wire" => plan = CHOOSE p \in Plans : TRUE

Next == \/ part = "reactor" /\ ReactorNext /\ UNCHANGED <<part, svars, wvars>>
        \/ part = "session" /\ SessionNext /\ UNCHANGED <<part, rvars, wvars>>
        \/ part = "wire" /\ WireNext /\ UNCHANGED <<part, rvars, svars>>

Spec == Init /\ [][Next]_serverVars
FairSpec == Spec /\ ReactorFair /\ SessionFair /\ WireFair

\* Everyone gets on: admitted work ends and durable work is never taken from its
\* worker, a waiting writer and a waiting reader get in or give up, and a
\* requested shutdown closes the database (Reactor, Session, PgServer).
ServerProceeds ==
  DurableWorkStays /\ WorkSettles /\ WriterNotStarved /\ ReadersResume /\ ShutdownCloses
=============================================================================
