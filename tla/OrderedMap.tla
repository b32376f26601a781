----------------------------- MODULE OrderedMap -----------------------------
(***************************************************************************)
(* What the ordered access method of the vNext kernel promises its callers *)
(* (btree/tree_v4.rs): concurrent calls on a map from keys to values, each *)
(* taking effect at one instant between its invocation and its return.  A  *)
(* call may fail; a failed call has taken effect at most once.             *)
(***************************************************************************)
CONSTANTS Threads, Keys, Vals,
          Nothing   \* what a key without a row holds; not a member of Vals

VARIABLES map,   \* [Keys -> Vals \cup {Nothing}]
          call   \* [Threads -> the call in progress]

Ops == {"upsert", "insert", "delete", "lookup"}

Idle == [phase |-> "idle"]

Init == /\ map = [k \in Keys |-> Nothing]
        /\ call = [t \in Threads |-> Idle]

Invoke(t) ==
  /\ call[t] = Idle
  /\ call'[t] \in [phase : {"called"}, op : Ops, key : Keys, val : Vals]
  /\ call' = [call EXCEPT ![t] = call'[t]]
  /\ UNCHANGED map

\* What a call leaves under its key, given what it found there.
Effect(c, found) ==
  CASE c.op = "upsert" -> c.val
    [] c.op = "insert" -> IF found = Nothing THEN c.val ELSE found
    [] c.op = "delete" -> Nothing
    [] c.op = "lookup" -> found

Apply(t) ==
  /\ call[t].phase = "called"
  /\ call' = [call EXCEPT ![t] = [phase |-> "applied", op |-> call[t].op, key |-> call[t].key,
                                  val |-> call[t].val, got |-> map[call[t].key]]]
  /\ map' = [map EXCEPT ![call[t].key] = Effect(call[t], @)]

Return(t) ==
  /\ call[t] # Idle
  /\ call' = [call EXCEPT ![t] = Idle]
  /\ UNCHANGED map

Next == \E t \in Threads : Invoke(t) \/ Apply(t) \/ Return(t)

Spec == Init /\ [][Next]_<<map, call>>
=============================================================================
