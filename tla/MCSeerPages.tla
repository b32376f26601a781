---------------------------- MODULE MCSeerPages ----------------------------
(* SeerPages for TLC. *)
EXTENDS SeerPages

\* A tree that holds the first key alone is followed through MaxGenerations
\* generations, every other tree through two.
Wide(t) == \E p \in DOMAIN t : t[p] # Empty /\ t[p][1] # Min(Keys)
Followed ==
    job = NoJob /\ job'.kind \in {"commit", "compact", "rebuild"} /\ Wide(tree') => gen < 2
=============================================================================
