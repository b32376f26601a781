----------------------------- MODULE VnDirectory -----------------------------
(***************************************************************************)
(* Ownership of a vNext store directory (store.rs): the advisory lock, the *)
(* identity file published once with atomic_write (durable-fs), and the    *)
(* component claims.  A handle is one call of create or open, in any       *)
(* process; its claims share the handle's lock, which is let go when the   *)
(* handle and every claim are gone.                                        *)
(***************************************************************************)
EXTENDS Integers, FiniteSets

CONSTANTS Handles,     \* calls of create or open
          Components,  \* the log, the undo file, the pages
          Claimers     \* threads claiming components through a handle

VARIABLES disk,   \* the lock file, a temporary sibling, the identity and its cover
          lock,   \* the handle holding the advisory lock
          h,      \* the handles
          c,      \* the claiming threads
          seen    \* incarnations of the handles returned so far

dvars == <<disk, lock, h, c, seen>>

None == "none"

\* The name of no handle stands for the absence of one.
ASSUME DirAssumption == None \notin Handles

DirInit ==
  /\ disk = [lockFile |-> FALSE, temp |-> FALSE, identity |-> None, covered |-> FALSE]
  /\ lock = None
  /\ h = [x \in Handles |-> [pc |-> "idle", id |-> None, bits |-> {}, leases |-> {}]]
  /\ c = [y \in Claimers |-> [pc |-> "idle", of |-> None, want |-> None, observed |-> {}]]
  /\ seen = {}

Is(x, pc) == h[x].pc = pc
Go(x, pc) == h' = [h EXCEPT ![x].pc = pc]
Free(x) == lock' = IF lock = x THEN None ELSE lock

\* An error return drops the lock file's descriptor, and with it the lock.
fail(x) == Go(x, "failed") /\ Free(x)

\* create: the directory and the lock file are made when missing.
create(x) ==
  /\ Is(x, "idle") /\ Go(x, "create")
  /\ disk' = [disk EXCEPT !.lockFile = TRUE]
  /\ UNCHANGED <<lock, c, seen>>

\* open: a missing lock file is refused, never made.
open_directory(x) ==
  /\ Is(x, "idle")
  /\ IF disk.lockFile THEN Go(x, "open") ELSE Go(x, "failed")
  /\ UNCHANGED <<disk, lock, c, seen>>

acquire_lock(x) ==
  /\ h[x].pc \in {"create", "open"}
  /\ IF lock = None THEN lock' = x /\ Go(x, IF Is(x, "create") THEN "recheck" ELSE "read")
                    ELSE Go(x, "failed") /\ UNCHANGED lock
  /\ UNCHANGED <<disk, c, seen>>

OnlyLockFile == ~disk.temp /\ disk.identity = None

\* The directory is examined again under the lock.
require_only_lock_file(x) ==
  /\ Is(x, "recheck")
  /\ IF OnlyLockFile THEN Go(x, "temp") /\ UNCHANGED lock ELSE fail(x)
  /\ UNCHANGED <<disk, c, seen>>

\* atomic_write: a synchronized temporary sibling, a rename, a directory
\* barrier.  A failed write or rename tries to remove the sibling.
atomic_write(x) ==
  /\ \/ Is(x, "temp") /\ Go(x, "rename") /\ disk' = [disk EXCEPT !.temp = TRUE] /\ UNCHANGED lock
     \/ Is(x, "temp") /\ fail(x) /\ UNCHANGED disk
     \/ Is(x, "rename") /\ Go(x, "barrier") /\ UNCHANGED lock
        /\ disk' = [disk EXCEPT !.temp = FALSE, !.identity = x]
     \/ Is(x, "rename") /\ fail(x) /\ \E left \in BOOLEAN : disk' = [disk EXCEPT !.temp = left]
     \/ Is(x, "barrier") /\ fail(x) /\ UNCHANGED disk
  /\ UNCHANGED <<c, seen>>

\* Mutant: the handle is returned before the directory is synchronized.
OwnerUncovered(x) == /\ h' = [h EXCEPT ![x].pc = "owner", ![x].id = disk.identity]
                     /\ seen' = seen \cup {disk.identity}
                     /\ UNCHANGED disk

Owner(x) == /\ h' = [h EXCEPT ![x].pc = "owner", ![x].id = disk.identity]
            /\ disk' = [disk EXCEPT !.covered = TRUE]
            /\ seen' = seen \cup {disk.identity}

publish(x) == Is(x, "barrier") /\ Owner(x) /\ UNCHANGED <<lock, c>>

\* open reads the identity, then repeats its barriers before returning.
read_identity(x) ==
  /\ Is(x, "read")
  /\ \/ disk.identity # None /\ Owner(x) /\ UNCHANGED <<lock, c>>
     \/ fail(x) /\ UNCHANGED <<disk, c, seen>>

\* Mutant: the bits are stored without comparing.
claim_blind(y) ==
  LET x == c[y].of
      w == c[y].want
  IN /\ c[y].pc = "claiming"
     /\ IF w \in c[y].observed THEN c' = [c EXCEPT ![y].pc = "idle"] /\ UNCHANGED h
        ELSE /\ h' = [h EXCEPT ![x].bits = @ \cup {w}, ![x].leases = @ \cup {<<y, w>>}]
             /\ c' = [c EXCEPT ![y].pc = "leased"]
     /\ UNCHANGED <<disk, lock, seen>>

\* claim: a load, then one compare-exchange of the whole bit set a round.
load_claims(y, x, w) ==
  /\ c[y].pc = "idle" /\ Is(x, "owner")
  /\ c' = [c EXCEPT ![y] = [pc |-> "claiming", of |-> x, want |-> w, observed |-> h[x].bits]]
  /\ UNCHANGED <<disk, lock, h, seen>>

claim(y) ==
  LET x == c[y].of
      w == c[y].want
  IN /\ c[y].pc = "claiming"
     /\ IF w \in c[y].observed THEN c' = [c EXCEPT ![y].pc = "idle"] /\ UNCHANGED h
        ELSE IF h[x].bits = c[y].observed
        THEN /\ h' = [h EXCEPT ![x].bits = @ \cup {w}, ![x].leases = @ \cup {<<y, w>>}]
             /\ c' = [c EXCEPT ![y].pc = "leased"]
        ELSE c' = [c EXCEPT ![y].observed = h[x].bits] /\ UNCHANGED h
     /\ UNCHANGED <<disk, lock, seen>>

\* The lock goes when neither the handle nor a claim holds the ownership.
Release(x) == IF h'[x].pc = "dropped" /\ h'[x].leases = {} /\ lock = x THEN lock' = None
                                                                       ELSE UNCHANGED lock
drop_lease(y) ==
  LET x == c[y].of
  IN /\ c[y].pc = "leased"
     /\ h' = [h EXCEPT ![x].bits = @ \ {c[y].want}, ![x].leases = @ \ {<<y, c[y].want>>}]
     /\ c' = [c EXCEPT ![y].pc = "idle"]
     /\ Release(x)
     /\ UNCHANGED <<disk, seen>>

\* The handle is dropped; a claim in progress borrows it, so not under one.
drop_handle(x) ==
  /\ Is(x, "owner") /\ \A y \in Claimers : c[y].pc = "claiming" => c[y].of # x
  /\ Go(x, "dropped") /\ Release(x)
  /\ UNCHANGED <<disk, c, seen>>

\* A power loss takes any directory entry no barrier covers: the lock file, the
\* temporary, and the rename, which may leave the temporary behind.
PowerLoss ==
  IF disk.covered THEN {disk}
  ELSE {d \in [lockFile : BOOLEAN, temp : BOOLEAN, identity : {None, disk.identity}, covered : {FALSE}] :
          /\ d.lockFile => disk.lockFile
          /\ d.temp => disk.temp \/ d.identity # disk.identity}

\* Every process dies, with or without a power loss.
crash ==
  /\ h' = [x \in Handles |-> IF Is(x, "idle") THEN h[x] ELSE [h[x] EXCEPT !.pc = "dead", !.leases = {}]]
  /\ c' = [y \in Claimers |-> [c[y] EXCEPT !.pc = "idle"]]
  /\ lock' = None
  /\ disk' \in PowerLoss
  /\ h' # h
  /\ UNCHANGED seen

DirNext ==
  \/ \E x \in Handles : \/ create(x) \/ open_directory(x) \/ acquire_lock(x) \/ require_only_lock_file(x)
                        \/ atomic_write(x) \/ publish(x) \/ read_identity(x) \/ drop_handle(x)
  \/ \E y \in Claimers : claim(y) \/ drop_lease(y)
  \/ \E y \in Claimers, x \in Handles, w \in Components : load_claims(y, x, w)
  \/ crash

DirSpec == DirInit /\ [][DirNext]_dvars
-----------------------------------------------------------------------------
\* No component is ever held twice, by two threads of a handle or through two
\* handles, in the same process or in others.
OneHolder ==
  \A w \in Components :
    Cardinality({p \in Handles \X Claimers : <<p[2], w>> \in h[p[1]].leases}) <= 1

\* The identity is published once: every handle ever returned, before and
\* after any crash, saw the same incarnation.
OneIdentity == Cardinality(seen) <= 1

\* One store, one owner of each component.
DirectoryHolds == OneHolder /\ OneIdentity
=============================================================================
