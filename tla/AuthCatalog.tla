---------------------------- MODULE AuthCatalog ---------------------------
(***************************************************************************)
(* The authorization catalog (src/src/authorization.rs and codec.rs):      *)
(* [bootstrap, principals], a principal an identity with [name,            *)
(* administrator, credential, grants], grants a map from table             *)
(* incarnations <<table, tree>> to sets of rights.  An operation returns   *)
(* the changed catalog, or Denied where the code returns an error.         *)
(***************************************************************************)
EXTENDS Integers, FiniteSets

CONSTANTS MaxCredential,  \* 65536 bytes, as the largest credential
          Denied          \* the result of a refused operation

NoCredential == 0
Extend(f, k, v) == [x \in DOMAIN f \cup {k} |-> IF x = k THEN v ELSE f[x]]
Drop(f, S) == [x \in DOMAIN f \ S |-> f[x]]
NoGrants == [x \in {} |-> {}]

auth_bootstrap == [bootstrap |-> TRUE, principals |-> NoGrants]
find(a, name) == {p \in DOMAIN a.principals : a.principals[p].name = name}

(* A fresh random identity; the first principal ends the bootstrap, for    *)
(* good.                                                                   *)
create_principal(a, id, name) ==
    IF find(a, name) # {} \/ id \in DOMAIN a.principals THEN Denied
    ELSE [bootstrap |-> FALSE,
          principals |-> Extend(a.principals, id, [name |-> name, administrator |-> FALSE,
                                                   credential |-> NoCredential, grants |-> NoGrants])]
rename_principal(a, id, name) ==
    IF find(a, name) \ {id} # {} \/ id \notin DOMAIN a.principals THEN Denied
    ELSE [a EXCEPT !.principals[id].name = name]
drop_principal(a, id) ==
    IF id \notin DOMAIN a.principals THEN Denied
    ELSE [a EXCEPT !.principals = Drop(@, {id})]
set_principal_credential(a, id, credential) ==
    IF id \notin DOMAIN a.principals THEN Denied
    ELSE [a EXCEPT !.principals[id].credential = credential]
set_database_administrator(a, id, enabled) ==
    IF id \notin DOMAIN a.principals THEN Denied
    ELSE [a EXCEPT !.principals[id].administrator = enabled]
(* The grant names the incarnation that the transaction's mapping holds.   *)
set_table_grant(a, trees, id, table, rights) ==
    IF table \notin DOMAIN trees \/ id \notin DOMAIN a.principals THEN Denied
    ELSE LET object == <<table, trees[table]>> IN
         [a EXCEPT !.principals[id].grants = IF rights = {} THEN Drop(@, {object})
                                             ELSE Extend(@, object, rights)]

Incarnations(trees) == {<<t, trees[t]>> : t \in DOMAIN trees}
validate_tables(a, trees) ==
    \A p \in DOMAIN a.principals : DOMAIN a.principals[p].grants \subseteq Incarnations(trees)
prune_tables(a, trees) ==
    [a EXCEPT !.principals = [p \in DOMAIN @ |->
        [@[p] EXCEPT !.grants = [g \in DOMAIN @ \cap Incarnations(trees) |-> @[g]]]]]

(* decode of what encode wrote; encode refuses a long credential.          *)
encode_auth(a) ==
    IF \E p \in DOMAIN a.principals : a.principals[p].credential > MaxCredential THEN Denied ELSE a
decode_auth(a) ==
    IF /\ \A p, q \in DOMAIN a.principals : a.principals[p].name = a.principals[q].name => p = q
       /\ \A p \in DOMAIN a.principals : \A g \in DOMAIN a.principals[p].grants :
             a.principals[p].grants[g] # {} /\ g[2] # 0
       /\ ~(a.bootstrap /\ DOMAIN a.principals # {})
    THEN a ELSE Denied

(* AuthorizationView::require_table.                                       *)
require_table(view, owner, object, write) ==
    /\ view.owner = owner
    /\ \/ view.administrator
       \/ /\ object \in DOMAIN view.grants
          /\ "write" \in view.grants[object] \/ (~write /\ "read" \in view.grants[object])
require_administration(view, owner) == view.owner = owner /\ view.administrator
===========================================================================
