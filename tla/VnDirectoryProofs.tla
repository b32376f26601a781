------------------------- MODULE VnDirectoryProofs --------------------------
(***************************************************************************)
(* Ownership of a store directory is exclusive for any number of handles,  *)
(* processes, claiming threads and components, through any crashes.  The   *)
(* inductive invariant says who holds the advisory lock at each step of    *)
(* create and open, that claims live under a handle that holds it, that a  *)
(* claim is one bit, and that the identity is written only into a          *)
(* directory that has none.                                                *)
(***************************************************************************)
EXTENDS VnDirectory, FiniteSetTheorems, TLAPS

Starting == {"idle", "create", "open"}
Inside == {"recheck", "read", "temp", "rename", "barrier", "owner"}
Gone == {"failed", "dropped", "dead"}

DirTypes ==
  /\ disk \in [lockFile : BOOLEAN, temp : BOOLEAN, identity : Handles \cup {None}, covered : BOOLEAN]
  /\ lock \in Handles \cup {None}
  /\ h \in [Handles -> [pc : Starting \cup Inside \cup Gone, id : Handles \cup {None},
                        bits : SUBSET Components, leases : SUBSET (Claimers \X Components)]]
  /\ c \in [Claimers -> [pc : {"idle", "claiming", "leased"}, of : Handles \cup {None},
                         want : Components \cup {None}, observed : SUBSET Components]]

\* Whoever is past the lock has it, and a handle's claims keep it.
LockHeld ==
  \A x \in Handles : h[x].pc \in Inside \/ h[x].leases # {} => lock = x

\* A lease is a thread's claim under its handle, and one bit.
LeasesAreClaims ==
  /\ \A x \in Handles : h[x].leases # {} => h[x].pc \in {"owner", "dropped"}
  /\ \A x \in Handles : \A y \in Claimers, w \in Components :
       <<y, w>> \in h[x].leases =>
         /\ c[y].pc = "leased" /\ c[y].of = x /\ c[y].want = w
         /\ w \in h[x].bits
  /\ \A x \in Handles : \A y, z \in Claimers, w \in Components :
       <<y, w>> \in h[x].leases /\ <<z, w>> \in h[x].leases => y = z
  /\ \A y \in Claimers : c[y].pc # "idle" => c[y].of \in Handles /\ c[y].want \in Components
  /\ \A y \in Claimers : c[y].pc = "claiming" => h[c[y].of].pc = "owner"
  /\ \A y \in Claimers : c[y].pc = "leased" => <<y, c[y].want>> \in h[c[y].of].leases

\* The identity is given to a directory that has none, and stays once a handle
\* was returned for it.
IdentityFixed ==
  /\ \A x \in Handles : h[x].pc \in {"temp", "rename"} => disk.identity = None
  /\ \A x \in Handles : h[x].pc = "barrier" => disk.identity # None
  /\ disk.covered => disk.identity # None
  /\ seen \subseteq IF disk.covered THEN {disk.identity} ELSE {}

DirInv == DirTypes /\ LockHeld /\ LeasesAreClaims /\ IdentityFixed

-----------------------------------------------------------------------------
LEMMA DirInitHolds == DirInit => DirInv
<1> SUFFICES ASSUME DirInit PROVE DirInv
  OBVIOUS
<1>1. DirTypes
  BY DEF DirInit, DirTypes, Starting
<1> QED BY <1>1, ZenonT(60) DEF DirInit, DirInv, LockHeld, LeasesAreClaims, IdentityFixed, Inside

HandleStep(x) ==
  \/ create(x) \/ open_directory(x) \/ acquire_lock(x) \/ require_only_lock_file(x)
  \/ atomic_write(x) \/ publish(x) \/ read_identity(x)

HandleType == [pc : Starting \cup Inside \cup Gone, id : Handles \cup {None},
               bits : SUBSET Components, leases : SUBSET (Claimers \X Components)]

\* A step of create or open moves one handle that has no claims yet, and leaves
\* every claim alone.
LEMMA HandleKeepsClaims ==
  ASSUME DirInv, NEW x \in Handles, HandleStep(x)
  PROVE  /\ h' \in [Handles -> HandleType]
         /\ \A z \in Handles \ {x} : h'[z] = h[z]
         /\ h'[x].leases = {} /\ c' = c
         /\ LeasesAreClaims'
<1>1. h \in [Handles -> HandleType] /\ disk.identity \in Handles \cup {None}
  BY SMTT(60) DEF DirInv, DirTypes, HandleType
<1>2. \/ \E p \in Starting \cup Inside \cup Gone : h' = [h EXCEPT ![x].pc = p]
      \/ h' = [h EXCEPT ![x].pc = "owner", ![x].id = disk.identity]
  BY ZenonT(60) DEF HandleStep, Is, Go, fail, Owner, create, open_directory, acquire_lock,
         require_only_lock_file, atomic_write, publish, read_identity, Starting, Inside, Gone
<1>3. h[x].pc \in (Starting \cup Inside) \ {"owner"} /\ c' = c
  BY DEF HandleStep, Is, create, open_directory, acquire_lock, require_only_lock_file, atomic_write,
         publish, read_identity, Starting, Inside
<1>4. /\ h' \in [Handles -> HandleType]
      /\ \A z \in Handles \ {x} : h'[z] = h[z]
      /\ h'[x].leases = h[x].leases /\ h'[x].bits = h[x].bits
  <2>1. CASE \E p \in Starting \cup Inside \cup Gone : h' = [h EXCEPT ![x].pc = p]
    BY <2>1, <1>1 DEF HandleType
  <2>2. CASE h' = [h EXCEPT ![x].pc = "owner", ![x].id = disk.identity]
    BY <2>2, <1>1, ZenonT(60) DEF HandleType, Inside
  <2> QED BY <1>2, <2>1, <2>2
<1>5. h[x].leases = {}
  BY <1>3, ZenonT(60) DEF DirInv, LeasesAreClaims, Starting, Inside
<1>6. LeasesAreClaims'
  BY <1>3, <1>4, <1>5 DEF DirInv, LeasesAreClaims
<1> QED BY <1>3, <1>4, <1>5, <1>6

\* Only the holder of the lock examines the directory and writes the identity.
LEMMA HandleSteps == ASSUME DirInv, NEW x \in Handles, HandleStep(x) PROVE DirInv'
<1>1. /\ h' \in [Handles -> HandleType]
      /\ \A z \in Handles \ {x} : h'[z] = h[z]
      /\ h'[x].leases = {} /\ LeasesAreClaims' /\ c' = c
  BY HandleKeepsClaims
<1> USE DEF Is, Go, Free, fail
<1>2. DirTypes'
  <2>1. lock' \in Handles \cup {None}
    BY ZenonT(60) DEF HandleStep, create, open_directory, acquire_lock, require_only_lock_file, atomic_write,
           publish, read_identity, DirInv, DirTypes
  <2>2. disk' \in [lockFile : BOOLEAN, temp : BOOLEAN, identity : Handles \cup {None}, covered : BOOLEAN]
    BY ZenonT(60) DEF HandleStep, create, open_directory, acquire_lock, require_only_lock_file, atomic_write,
           publish, read_identity, Owner, DirInv, DirTypes
  <2> QED BY <1>1, <2>1, <2>2 DEF DirInv, DirTypes, HandleType
<1>3. LockHeld'
  BY <1>1, DirAssumption
     DEF HandleStep, create, open_directory, acquire_lock, require_only_lock_file, atomic_write,
         publish, read_identity, Owner, DirInv, DirTypes, LockHeld, Inside
<1>4. IdentityFixed'
  <2>1. \A z \in Handles \ {x} : h[x].pc \in Inside => h[z].pc \notin Inside
    BY DEF DirInv, LockHeld
  <2>2. CASE create(x) \/ open_directory(x) \/ acquire_lock(x)
    BY <2>2, <1>1, SMTT(60) DEF create, open_directory, acquire_lock, DirInv, DirTypes, IdentityFixed
  <2>3. CASE require_only_lock_file(x)
    BY <2>3, <1>1 DEF require_only_lock_file, OnlyLockFile, DirInv, DirTypes, IdentityFixed
  <2>4. CASE atomic_write(x)
    <3>1. h[x].pc \in Inside
      BY <2>4 DEF atomic_write, Inside
    <3>2. CASE Is(x, "temp") \/ Is(x, "barrier")
      BY <3>2, <2>4, <1>1, SMTT(60) DEF atomic_write, DirInv, DirTypes, IdentityFixed
    <3>3. CASE Is(x, "rename")
      <4>1. /\ \/ h'[x].pc = "barrier" /\ disk'.identity = x
               \/ h'[x].pc = "failed" /\ disk'.identity = disk.identity
            /\ disk'.covered = disk.covered /\ seen' = seen
        <5>1. /\ \/ h' = [h EXCEPT ![x].pc = "barrier"] /\ disk' = [disk EXCEPT !.temp = FALSE, !.identity = x]
                 \/ h' = [h EXCEPT ![x].pc = "failed"] /\ \E left \in BOOLEAN : disk' = [disk EXCEPT !.temp = left]
              /\ seen' = seen
          BY <3>3, <2>4, ZenonT(60) DEF atomic_write
        <5>2. h \in [Handles -> HandleType]
              /\ disk \in [lockFile : BOOLEAN, temp : BOOLEAN, identity : Handles \cup {None}, covered : BOOLEAN]
          BY ZenonT(60) DEF DirInv, DirTypes, HandleType
        <5>3. CASE h' = [h EXCEPT ![x].pc = "barrier"] /\ disk' = [disk EXCEPT !.temp = FALSE, !.identity = x]
          BY <5>1, <5>2, <5>3, ZenonT(60) DEF HandleType
        <5>4. CASE h' = [h EXCEPT ![x].pc = "failed"] /\ \E left \in BOOLEAN : disk' = [disk EXCEPT !.temp = left]
          BY <5>1, <5>2, <5>4, ZenonT(60) DEF HandleType
        <5> QED BY <5>1, <5>3, <5>4, ZenonT(60)
      <4>2. ~disk.covered /\ seen = {}
        BY <3>3 DEF DirInv, IdentityFixed
      <4>3. \A z \in Handles \ {x} : h'[z].pc \notin Inside
        BY <3>1, <2>1, <1>1
      <4> QED BY <4>1, <4>2, <4>3, DirAssumption DEF IdentityFixed, Inside
    <3> QED BY <3>2, <3>3, <2>4 DEF atomic_write
  <2>5. CASE publish(x) \/ read_identity(x)
    <3>1. h[x].pc \in Inside /\ seen' \in {seen, seen \cup {disk.identity}}
      BY <2>5 DEF publish, read_identity, Owner, Inside
    <3>2. CASE fail(x) /\ UNCHANGED <<disk, seen>>
      BY <3>2, <1>1 DEF DirInv, DirTypes, IdentityFixed
    <3>3. CASE Owner(x) /\ disk.identity # None
      BY <3>1, <3>3, <2>1, <1>1 DEF Owner, DirInv, DirTypes, IdentityFixed, Inside
    <3> QED BY <3>2, <3>3, <2>5 DEF publish, read_identity, DirInv, IdentityFixed
  <2> QED BY <2>2, <2>3, <2>4, <2>5 DEF HandleStep
<1> QED BY <1>1, <1>2, <1>3, <1>4 DEF DirInv

-----------------------------------------------------------------------------
\* A thread that looks at the claims of a handle holds nothing yet.
LEMMA LoadStep ==
  ASSUME DirInv, NEW y \in Claimers, NEW x \in Handles, NEW w \in Components, load_claims(y, x, w)
  PROVE  DirInv'
<1>1. h' = h /\ disk' = disk /\ lock' = lock /\ seen' = seen /\ h[x].pc = "owner"
      /\ c' = [c EXCEPT ![y] = [pc |-> "claiming", of |-> x, want |-> w, observed |-> h[x].bits]]
      /\ c[y].pc = "idle"
  BY DEF load_claims, Is
<1>2. DirTypes'
  BY <1>1 DEF DirInv, DirTypes
<1>3. LeasesAreClaims'
  BY <1>1, SMTT(60) DEF DirInv, DirTypes, LeasesAreClaims
<1> QED BY <1>1, <1>2, <1>3, ZenonT(60) DEF DirInv, LockHeld, IdentityFixed

\* A thread takes one bit of a handle that holds the lock: nobody has it, since
\* whoever has it would have set the bit.
LEMMA ClaimStep == ASSUME DirInv, NEW y \in Claimers, claim(y) PROVE DirInv'
<1> DEFINE x == c[y].of
           w == c[y].want
<1>1. c[y].pc = "claiming" /\ disk' = disk /\ lock' = lock /\ seen' = seen
      /\ x \in Handles /\ w \in Components /\ h[x].pc = "owner"
  BY ZenonT(60) DEF claim, DirInv, LeasesAreClaims
<1>2. \A z \in Handles, v \in Components : <<y, v>> \notin h[z].leases
  BY <1>1, ZenonT(60) DEF DirInv, LeasesAreClaims
<1>3. CASE c' = [c EXCEPT ![y].pc = "idle"] /\ h' = h
  <2>1. DirTypes'
    BY <1>1, <1>3, SMTT(60) DEF DirInv, DirTypes
  <2>2. LeasesAreClaims'
    BY <1>1, <1>2, <1>3, SMTT(60) DEF DirInv, DirTypes, LeasesAreClaims
  <2> QED BY <1>1, <1>3, <2>1, <2>2 DEF DirInv, LockHeld, IdentityFixed
<1>4. CASE c' = [c EXCEPT ![y].observed = h[x].bits] /\ h' = h
  <2>1. DirTypes'
    BY <1>1, <1>4 DEF DirInv, DirTypes
  <2>2. LeasesAreClaims'
    BY <1>1, <1>2, <1>4, SMTT(60) DEF DirInv, DirTypes, LeasesAreClaims
  <2> QED BY <1>1, <1>4, <2>1, <2>2, SMTT(60) DEF DirInv, LockHeld, IdentityFixed
<1>5. CASE /\ w \notin h[x].bits
           /\ h' = [h EXCEPT ![x].bits = @ \cup {w}, ![x].leases = @ \cup {<<y, w>>}]
           /\ c' = [c EXCEPT ![y].pc = "leased"]
  <2>1. DirTypes'
    <3>1. h' \in [Handles -> HandleType]
      BY <1>1, <1>5, SMTT(60) DEF DirInv, DirTypes, HandleType
    <3>2. c' \in [Claimers -> [pc : {"idle", "claiming", "leased"}, of : Handles \cup {None},
                              want : Components \cup {None}, observed : SUBSET Components]]
      BY <1>5, SMTT(60) DEF DirInv, DirTypes
    <3> QED BY <1>1, <3>1, <3>2, ZenonT(60) DEF DirInv, DirTypes, HandleType
  <2>2. /\ \A z \in Handles : h'[z].pc = h[z].pc
        /\ \A z \in Handles \ {x} : h'[z].leases = h[z].leases /\ h'[z].bits = h[z].bits
        /\ h'[x].leases = h[x].leases \cup {<<y, w>>} /\ h'[x].bits = h[x].bits \cup {w}
    BY <1>1, <1>5, SMTT(60) DEF DirInv, DirTypes
  <2>3. /\ \A z \in Claimers \ {y} : c'[z] = c[z]
        /\ c'[y].pc = "leased" /\ c'[y].of = x /\ c'[y].want = w
    BY <1>5, ZenonT(60) DEF DirInv, DirTypes
  <2>4. \A z \in Claimers : <<z, w>> \notin h[x].leases
    BY <1>1, <1>5, SMTT(60) DEF DirInv, LeasesAreClaims
  <2>5. LeasesAreClaims'
    <3>1. \A z \in Handles : h'[z].leases # {} => h'[z].pc \in {"owner", "dropped"}
      BY <1>1, <2>2 DEF DirInv, LeasesAreClaims
    <3>2. ASSUME NEW z \in Handles, NEW u \in Claimers, NEW v \in Components, <<u, v>> \in h'[z].leases
          PROVE  \/ u = y /\ z = x /\ v = w
                 \/ u # y /\ <<u, v>> \in h[z].leases
      BY <1>2, <2>2, <3>2
    <3>3. ASSUME NEW z \in Handles, NEW u \in Claimers, NEW v \in Components, <<u, v>> \in h[z].leases
          PROVE  c[u].pc = "leased" /\ c[u].of = z /\ c[u].want = v /\ v \in h[z].bits
      BY <3>3, ZenonT(60) DEF DirInv, LeasesAreClaims
    <3>4. \A z \in Handles : \A u \in Claimers, v \in Components :
            <<u, v>> \in h'[z].leases =>
              c'[u].pc = "leased" /\ c'[u].of = z /\ c'[u].want = v /\ v \in h'[z].bits
      BY <2>2, <2>3, <3>2, <3>3
    <3>5. ASSUME NEW z \in Handles, NEW a \in Claimers, NEW b \in Claimers, NEW v \in Components,
                 <<a, v>> \in h'[z].leases, <<b, v>> \in h'[z].leases
          PROVE  a = b
      <4>1. <<a, v>> \in h[z].leases /\ <<b, v>> \in h[z].leases => a = b
        BY ZenonT(60) DEF DirInv, LeasesAreClaims
      <4> QED BY <2>4, <3>2, <3>5, <4>1, ZenonT(60)
    <3>6. \A u \in Claimers : c'[u].pc # "idle" => c'[u].of \in Handles /\ c'[u].want \in Components
      BY <1>1, <2>3 DEF DirInv, LeasesAreClaims
    <3>7. \A u \in Claimers : c'[u].pc = "claiming" => h'[c'[u].of].pc = "owner"
      <4>1. \A u \in Claimers \ {y} : c[u].pc = "claiming" => c[u].of \in Handles /\ h[c[u].of].pc = "owner"
        BY ZenonT(60) DEF DirInv, LeasesAreClaims
      <4> QED BY <2>2, <2>3, <4>1
    <3>8. \A u \in Claimers : c'[u].pc = "leased" => <<u, c'[u].want>> \in h'[c'[u].of].leases
      <4>1. \A u \in Claimers \ {y} : c[u].pc = "leased" => c[u].of \in Handles /\ <<u, c[u].want>> \in h[c[u].of].leases
        BY ZenonT(60) DEF DirInv, LeasesAreClaims
      <4>2. \A z \in Handles : h[z].leases \subseteq h'[z].leases
        BY <2>2, ZenonT(60)
      <4> QED BY <1>1, <2>2, <2>3, <4>1, <4>2, SMTT(60)
    <3> QED BY <3>1, <3>4, <3>5, <3>6, <3>7, <3>8, ZenonT(60) DEF LeasesAreClaims
  <2>6. LockHeld'
    BY <1>1, <2>2, ZenonT(60) DEF DirInv, LockHeld, Inside
  <2> QED BY <1>1, <2>1, <2>2, <2>5, <2>6, ZenonT(60) DEF DirInv, IdentityFixed
<1> QED BY <1>3, <1>4, <1>5, ZenonT(60) DEF claim

\* A thread gives its bit back: the bit was its alone.  The lock goes with the
\* last claim of a dropped handle.
LEMMA DropLeaseStep == ASSUME DirInv, NEW y \in Claimers, drop_lease(y) PROVE DirInv'
<1> DEFINE x == c[y].of
           w == c[y].want
<1>1. c[y].pc = "leased" /\ disk' = disk /\ seen' = seen /\ x \in Handles /\ w \in Components
  BY ZenonT(60) DEF drop_lease, DirInv, LeasesAreClaims
<1>2. /\ h' = [h EXCEPT ![x].bits = @ \ {w}, ![x].leases = @ \ {<<y, w>>}]
      /\ c' = [c EXCEPT ![y].pc = "idle"]
  BY ZenonT(60) DEF drop_lease
<1>3. DirTypes'
  <2>1. h' \in [Handles -> HandleType]
    BY <1>1, <1>2, SMTT(60) DEF DirInv, DirTypes, HandleType
  <2>2. c' \in [Claimers -> [pc : {"idle", "claiming", "leased"}, of : Handles \cup {None},
                            want : Components \cup {None}, observed : SUBSET Components]]
    BY <1>2, ZenonT(60) DEF DirInv, DirTypes
  <2>3. lock' \in Handles \cup {None}
    BY ZenonT(60) DEF drop_lease, Release, DirInv, DirTypes
  <2> QED BY <1>1, <2>1, <2>2, <2>3, SMTT(60) DEF DirInv, DirTypes, HandleType
<1>4. /\ \A z \in Handles : h'[z].pc = h[z].pc
      /\ \A z \in Handles \ {x} : h'[z].leases = h[z].leases /\ h'[z].bits = h[z].bits
      /\ h'[x].leases = h[x].leases \ {<<y, w>>} /\ h'[x].bits = h[x].bits \ {w}
  BY <1>1, <1>2 DEF DirInv, DirTypes
<1>5. (\A z \in Claimers \ {y} : c'[z] = c[z]) /\ c'[y].pc = "idle"
  BY <1>2 DEF DirInv, DirTypes
<1>6. LeasesAreClaims'
  <2>1. ASSUME NEW z \in Handles, NEW u \in Claimers, NEW v \in Components, <<u, v>> \in h'[z].leases
        PROVE  <<u, v>> \in h[z].leases /\ u # y /\ (z = x => v # w)
    <3>1. <<u, v>> \in h[z].leases
      BY <2>1, <1>4, ZenonT(60)
    <3>2. u = y => z = x /\ v = w
      BY <3>1 DEF DirInv, LeasesAreClaims
    <3>3. u # y
      BY <3>2, <2>1, <1>4, ZenonT(60)
    <3>4. ASSUME z = x, v = w PROVE FALSE
      <4>1. <<y, w>> \in h[x].leases
        BY <1>1, ZenonT(60) DEF DirInv, LeasesAreClaims
      <4>2. <<u, w>> \in h[x].leases /\ <<y, w>> \in h[x].leases => u = y
        BY <1>1, ZenonT(60) DEF DirInv, LeasesAreClaims
      <4> QED BY <3>1, <3>3, <3>4, <4>1, <4>2, SMTT(60)
    <3> QED BY <3>1, <3>3, <3>4
  <2> QED BY <1>1, <1>4, <1>5, <2>1, SMTT(60) DEF DirInv, LeasesAreClaims
<1>7. LockHeld'
  BY <1>1, <1>4, ZenonT(60) DEF drop_lease, Release, DirInv, LockHeld, Inside
<1> QED BY <1>1, <1>3, <1>4, <1>6, <1>7, ZenonT(60) DEF DirInv, IdentityFixed

\* A dropped handle keeps the lock as long as it has claims.
LEMMA DropHandleStep == ASSUME DirInv, NEW x \in Handles, drop_handle(x) PROVE DirInv'
<1>1. /\ h[x].pc = "owner" /\ disk' = disk /\ seen' = seen /\ c' = c
      /\ \A y \in Claimers : c[y].pc = "claiming" => c[y].of # x
      /\ h' = [h EXCEPT ![x].pc = "dropped"]
  BY DEF drop_handle, Is, Go
<1>2. h' \in [Handles -> HandleType]
  BY <1>1, SMTT(60) DEF DirInv, DirTypes, HandleType, Gone
<1>3. /\ \A z \in Handles \ {x} : h'[z] = h[z]
      /\ h'[x].pc = "dropped" /\ h'[x].leases = h[x].leases /\ h'[x].bits = h[x].bits
  BY <1>1 DEF DirInv, DirTypes
<1>4. DirTypes'
  BY <1>1, <1>2, ZenonT(60) DEF drop_handle, Release, DirInv, DirTypes, HandleType
<1>5. LeasesAreClaims'
  BY <1>1, <1>3 DEF DirInv, LeasesAreClaims
<1>6. LockHeld'
  BY <1>1, <1>3 DEF drop_handle, Release, DirInv, LockHeld, Inside
<1> QED BY <1>1, <1>3, <1>4, <1>5, <1>6 DEF DirInv, IdentityFixed

\* A crash ends every process; only an identity that no handle was returned for
\* can be lost.
LEMMA CrashStep == ASSUME DirInv, crash PROVE DirInv'
<1>1. /\ h' = [x \in Handles |-> IF Is(x, "idle") THEN h[x] ELSE [h[x] EXCEPT !.pc = "dead", !.leases = {}]]
      /\ c' = [y \in Claimers |-> [c[y] EXCEPT !.pc = "idle"]]
      /\ lock' = None /\ seen' = seen
  BY ZenonT(60) DEF crash
<1>2. \A x \in Handles : h[x].pc = "idle" => h[x].leases = {}
  BY DEF DirInv, LeasesAreClaims
<1>3. ASSUME NEW x \in Handles PROVE h'[x] \in HandleType /\ h'[x].leases = {} /\ h'[x].pc \in {"idle", "dead"}
  <2>1. h[x] \in HandleType
    BY SMTT(60) DEF DirInv, DirTypes, HandleType
  <2>2. CASE h[x].pc = "idle"
    BY <1>1, <1>2, <2>1, <2>2, ZenonT(60) DEF Is
  <2>3. CASE h[x].pc # "idle"
    <3>1. h'[x] = [h[x] EXCEPT !.pc = "dead", !.leases = {}]
      BY <1>1, <2>3, ZenonT(60) DEF Is
    <3> QED BY <3>1, <2>1, ZenonT(60) DEF HandleType, Gone
  <2> QED BY <2>2, <2>3
<1>31. h' \in [Handles -> HandleType]
  BY <1>1, <1>3, ZenonT(60)
<1>4. /\ c' \in [Claimers -> [pc : {"idle", "claiming", "leased"}, of : Handles \cup {None},
                             want : Components \cup {None}, observed : SUBSET Components]]
      /\ \A y \in Claimers : c'[y].pc = "idle"
  <2>1. c \in [Claimers -> [pc : {"idle", "claiming", "leased"}, of : Handles \cup {None},
                           want : Components \cup {None}, observed : SUBSET Components]]
    BY DEF DirInv, DirTypes
  <2> QED BY <1>1, <2>1, ZenonT(60)
<1>5. /\ disk' \in [lockFile : BOOLEAN, temp : BOOLEAN, identity : Handles \cup {None}, covered : BOOLEAN]
      /\ disk'.covered = disk.covered /\ (disk.covered => disk'.identity = disk.identity)
  <2>1. disk' \in PowerLoss
    BY ZenonT(60) DEF crash
  <2>2. disk \in [lockFile : BOOLEAN, temp : BOOLEAN, identity : Handles \cup {None}, covered : BOOLEAN]
    BY ZenonT(60) DEF DirInv, DirTypes
  <2>3. CASE disk.covered
    BY <2>1, <2>2, <2>3, ZenonT(60) DEF PowerLoss
  <2>4. CASE ~disk.covered
    <3>1. disk' \in [lockFile : BOOLEAN, temp : BOOLEAN, identity : {None, disk.identity}, covered : {FALSE}]
      BY <2>1, <2>4, ZenonT(60) DEF PowerLoss
    <3>2. disk.covered = FALSE /\ disk.identity \in Handles \cup {None}
      BY <2>2, <2>4, ZenonT(60)
    <3>3. disk' \in [lockFile : BOOLEAN, temp : BOOLEAN, identity : Handles \cup {None}, covered : BOOLEAN]
      BY <3>1, <3>2, ZenonT(60)
    <3>4. disk'.covered = FALSE
      BY <3>1, ZenonT(60)
    <3> QED BY <2>4, <3>2, <3>3, <3>4, ZenonT(60)
  <2> QED BY <2>3, <2>4
<1>6. DirTypes'
  BY <1>1, <1>31, <1>4, <1>5, ZenonT(60) DEF DirTypes, HandleType
<1>7. LockHeld' /\ LeasesAreClaims'
  BY <1>3, <1>4, ZenonT(60) DEF LockHeld, LeasesAreClaims, Inside
<1>8. IdentityFixed'
  BY <1>1, <1>3, <1>5, ZenonT(60) DEF DirInv, IdentityFixed
<1> QED BY <1>6, <1>7, <1>8, SMTT(60) DEF DirInv

LEMMA DirStep == DirInv /\ [DirNext]_dvars => DirInv'
<1> SUFFICES ASSUME DirInv, [DirNext]_dvars PROVE DirInv'
  BY SMTT(60)
<1>1. CASE UNCHANGED dvars
  BY <1>1 DEF dvars, DirInv, DirTypes, LockHeld, LeasesAreClaims, IdentityFixed
<1> QED BY <1>1, HandleSteps, LoadStep, ClaimStep, DropLeaseStep, DropHandleStep, CrashStep
        DEF DirNext, HandleStep

-----------------------------------------------------------------------------
\* A set whose elements are all equal.
LEMMA AtMostOne == ASSUME NEW S, \A a, b \in S : a = b PROVE Cardinality(S) <= 1
<1>1. CASE S = {}
  <2>1. Cardinality(S) = 0
    BY <1>1, FS_EmptySet
  <2> QED BY <2>1
<1>2. CASE S # {}
  <2>1. PICK e \in S : TRUE
    BY <1>2
  <2>2. S = {e}
    BY <2>1
  <2>3. Cardinality(S) = 1
    BY <2>2, FS_Singleton
  <2> QED BY <2>3
<1> QED BY <1>1, <1>2

\* What the invariant says of the holders of a component.
LEMMA InvariantMeansOneHolder == DirInv => DirectoryHolds
<1> SUFFICES ASSUME DirInv PROVE DirectoryHolds
  OBVIOUS
<1>1. ASSUME NEW w \in Components
      PROVE  Cardinality({p \in Handles \X Claimers : <<p[2], w>> \in h[p[1]].leases}) <= 1
  <2> DEFINE H == {p \in Handles \X Claimers : <<p[2], w>> \in h[p[1]].leases}
  <2>1. ASSUME NEW p \in H, NEW q \in H PROVE p = q
    <3>0. PICK a \in Handles, b \in Claimers, d \in Handles, e \in Claimers : p = <<a, b>> /\ q = <<d, e>>
      BY <2>1
    <3>1. p[1] \in Handles /\ q[1] \in Handles /\ p[2] \in Claimers /\ q[2] \in Claimers
          /\ p = <<p[1], p[2]>> /\ q = <<q[1], q[2]>>
          /\ <<p[2], w>> \in h[p[1]].leases /\ <<q[2], w>> \in h[q[1]].leases
      BY <2>1, <3>0
    <3>2. p[1] = q[1]
      BY <3>1 DEF DirInv, LockHeld
    <3>3. p[2] = q[2]
      BY <3>1, <3>2 DEF DirInv, LeasesAreClaims
    <3> QED BY <3>1, <3>2, <3>3
  <2> HIDE DEF H
  <2>2. Cardinality(H) <= 1
    BY <2>1, AtMostOne
  <2> QED BY <2>2 DEF H
<1>2. \A a, b \in seen : a = b
  BY DEF DirInv, IdentityFixed
<1> QED BY <1>1, <1>2, AtMostOne DEF DirectoryHolds, OneHolder, OneIdentity

\* Ownership of a store (create, open, claim and the drops, in any number of
\* processes, with crashes): no component is held twice, and every handle ever
\* returned saw one identity.
THEOREM StoreHasOneOwner == DirSpec => []DirectoryHolds
BY DirInitHolds, DirStep, InvariantMeansOneHolder, PTL DEF DirSpec
=============================================================================
