------------------------- MODULE TunnelServerProofs -------------------------
(***************************************************************************)
(* Theorems about TunnelServer, for any finite set of codes and whatever   *)
(* the panel's requests and the handshakes do.  StateInv is inductive for  *)
(* the three indices of the session table, RouteInv adds what the store    *)
(* says of the tunnel addresses, LimitInv counts a user's tunnels.         *)
(*                                                                         *)
(* ReachInv needs that codes have addresses of their own, EvictInv that    *)
(* the panel is asked one thing at a time, and UnboundIsListed that no     *)
(* request writes a copy of a code back: the conditions are named below.   *)
(***************************************************************************)
EXTENDS TunnelServer, FiniteSetTheorems, TLAPS

Busy == worker.stage # "idle"

\* A request that is about to write a code has read one.
CopiesAreCodes ==
  \A j \in Jobs :
    /\ job[j].stage # "idle" => job[j].code \in Codes
    /\ job[j].stage = "idle" => job[j].todo = {}
    /\ job[j].stage = "write" /\ job[j].kind # "create" => job[j].copy \in CodeRecord

StateInv == TypeOK /\ CopiesAreCodes /\ NoZombies

\* A session has the tunnel address of its code.
OwnAddress == \A c \in Codes : ix.byCode[c] # None => ix.byCode[c].tunIP = TunIPOf[c]

\* A code that is on the tunnel, or being let in, has existed.
KnownCodes ==
  \A c \in Codes : ix.byCode[c] # None \/ (Busy /\ worker.msg.code = c) => codes[c] # None

\* A tunnel address belongs to one code at a time.
OneOwner ==
  \A c, d \in Codes : Exists(c) /\ Exists(d) /\ TunIPOf[c] = TunIPOf[d] => c = d

\* While the handshake of d is under way, a new owner of its tunnel address is
\* not yet on the tunnel: its handshake has to wait for this one.
NewOwnerWaits ==
  \A c \in Codes : Busy /\ Exists(c) /\ c # worker.msg.code
                     /\ TunIPOf[c] = TunIPOf[worker.msg.code] => ix.byCode[c] = None

RouteInv == OwnAddress /\ KnownCodes /\ OneOwner /\ NewOwnerWaits /\ OwnerIsRouted

\* A handshake that passed the limit leaves room for itself, its own code's
\* session not counted.
Room ==
  worker.stage = "install" =>
    LET u == UserOf[worker.msg.code] IN
    MaxTunnels[u] # -1 =>
      Cardinality({c \in Online(ix) : UserOf[c] = u} \ {worker.msg.code}) < MaxTunnels[u]

LimitInv == LimitHolds /\ Room

-----------------------------------------------------------------------------
(* The table *)

\* Removing sessions leaves the others where they are.
LEMMA RemoveKeepsIndices ==
  ASSUME StateInv, NEW dead \in SUBSET {ix.byCode[c] : c \in Codes}, ix' = Remove(ix, dead)
  PROVE  /\ ix'.byCode \in [Codes -> SessionRecord \cup {None}]
         /\ ix'.byAddr \in [Addrs -> SessionRecord \cup {None}]
         /\ ix'.byTunIP \in [TunIPs -> SessionRecord \cup {None}]
         /\ NoZombies'
<1>1. /\ ix'.byCode \in [Codes -> SessionRecord \cup {None}]
      /\ ix'.byAddr \in [Addrs -> SessionRecord \cup {None}]
      /\ ix'.byTunIP \in [TunIPs -> SessionRecord \cup {None}]
  BY DEF Remove, StateInv, TypeOK
<1>2. \A c \in Codes : ix'.byCode[c] # None => ix'.byCode[c].code = c
  BY DEF Remove, StateInv, NoZombies
<1>3. ASSUME NEW a \in Addrs, ix'.byAddr[a] # None
      PROVE  ix'.byAddr[a].addr = a /\ ix'.byCode[ix'.byAddr[a].code] = ix'.byAddr[a]
  <2>1. ix'.byAddr[a] = ix.byAddr[a] /\ ~ \E ps \in dead : ps.addr = a
    BY <1>3 DEF Remove
  <2>2. ix.byAddr[a].addr = a /\ ix.byCode[ix.byAddr[a].code] = ix.byAddr[a]
    BY <1>3, <2>1 DEF StateInv, NoZombies
  <2>3. ix.byAddr[a].code \in Codes /\ ix.byAddr[a] \notin dead
    BY <1>3, <2>1, <2>2 DEF StateInv, TypeOK, SessionRecord
  <2>4. QED
    BY <2>1, <2>2, <2>3 DEF Remove
<1>4. ASSUME NEW t \in TunIPs, ix'.byTunIP[t] # None
      PROVE  ix'.byTunIP[t].tunIP = t /\ ix'.byCode[ix'.byTunIP[t].code] = ix'.byTunIP[t]
  <2>1. ix'.byTunIP[t] = ix.byTunIP[t] /\ ix.byTunIP[t] \notin dead
    BY <1>4 DEF Remove
  <2>2. /\ ix.byTunIP[t].tunIP = t /\ ix.byCode[ix.byTunIP[t].code] = ix.byTunIP[t]
        /\ ix.byTunIP[t].code \in Codes
    BY <1>4, <2>1 DEF StateInv, NoZombies, TypeOK, SessionRecord
  <2>3. QED
    BY <2>1, <2>2 DEF Remove
<1>5. QED
  BY <1>1, <1>2, <1>3, <1>4 DEF NoZombies

\* A session goes off the table only by its own removal.
LEMMA RemoveTakesOnly ==
  ASSUME StateInv, NEW C \in SUBSET Codes,
         ix' = Remove(ix, {ix.byCode[c] : c \in C} \ {None})
  PROVE  \A c \in Codes : ix'.byCode[c] = IF c \in C THEN None ELSE ix.byCode[c]
<1> SUFFICES ASSUME NEW c \in Codes
    PROVE  ix'.byCode[c] = IF c \in C THEN None ELSE ix.byCode[c]
  OBVIOUS
<1>1. ix'.byCode[c] = IF ix.byCode[c] \in {ix.byCode[d] : d \in C} \ {None}
                        THEN None ELSE ix.byCode[c]
  BY DEF Remove
<1>2. ASSUME NEW d \in C, ix.byCode[c] = ix.byCode[d], ix.byCode[c] # None PROVE c = d
  BY <1>2 DEF StateInv, NoZombies
<1>3. QED
  BY <1>1, <1>2


\* Putting a session in the place of its code's earlier one.
LEMMA UpsertKeepsIndices ==
  ASSUME StateInv, NEW ps \in SessionRecord, ix' = Upsert(ix, ps)
  PROVE  /\ ix'.byCode \in [Codes -> SessionRecord \cup {None}]
         /\ ix'.byAddr \in [Addrs -> SessionRecord \cup {None}]
         /\ ix'.byTunIP \in [TunIPs -> SessionRecord \cup {None}]
         /\ NoZombies'
         /\ ix'.byCode = [ix.byCode EXCEPT ![ps.code] = ps]
         /\ ix'.byTunIP[ps.tunIP] = ps
         /\ \A t \in TunIPs \ {ps.tunIP} :
              ix'.byTunIP[t] = IF ix.byTunIP[t] = ix.byCode[ps.code] THEN None ELSE ix.byTunIP[t]
<1> DEFINE dead == {ix.byCode[ps.code]} \ {None}
           cleared == Remove(ix, dead)
<1>1. ps.code \in Codes /\ ps.addr \in Addrs /\ ps.tunIP \in TunIPs
  BY DEF SessionRecord
<1>2. /\ ix'.byCode = [cleared.byCode EXCEPT ![ps.code] = ps]
      /\ ix'.byAddr = [cleared.byAddr EXCEPT ![ps.addr] = ps]
      /\ ix'.byTunIP = [cleared.byTunIP EXCEPT ![ps.tunIP] = ps]
  BY DEF Upsert
<1>3. /\ cleared.byCode \in [Codes -> SessionRecord \cup {None}]
      /\ cleared.byAddr \in [Addrs -> SessionRecord \cup {None}]
      /\ cleared.byTunIP \in [TunIPs -> SessionRecord \cup {None}]
  BY <1>1 DEF Remove, StateInv, TypeOK
<1>4. \A c \in Codes \ {ps.code} : cleared.byCode[c] = ix.byCode[c]
  BY <1>1 DEF Remove, StateInv, NoZombies
<1>5. ix'.byCode = [ix.byCode EXCEPT ![ps.code] = ps]
  BY <1>1, <1>2, <1>3, <1>4 DEF StateInv, TypeOK
<1>6. \A c \in Codes : ix'.byCode[c] # None => ix'.byCode[c].code = c
  BY <1>1, <1>5 DEF StateInv, NoZombies, TypeOK
<1>7. ASSUME NEW a \in Addrs, ix'.byAddr[a] # None
      PROVE  ix'.byAddr[a].addr = a /\ ix'.byCode[ix'.byAddr[a].code] = ix'.byAddr[a]
  <2>1. CASE a = ps.addr
    BY <1>1, <1>2, <1>3, <1>5, <2>1 DEF StateInv, TypeOK
  <2>2. CASE a # ps.addr
    <3>1. ix'.byAddr[a] = ix.byAddr[a] /\ ~ \E q \in dead : q.addr = a
      BY <1>1, <1>2, <1>3, <1>7, <2>2 DEF Remove
    <3>2. /\ ix.byAddr[a].addr = a /\ ix.byCode[ix.byAddr[a].code] = ix.byAddr[a]
          /\ ix.byAddr[a].code \in Codes
      BY <1>7, <3>1 DEF StateInv, NoZombies, TypeOK, SessionRecord
    <3>3. ix.byAddr[a].code # ps.code
      BY <1>7, <3>1, <3>2
    <3>4. QED
      BY <1>1, <1>5, <3>1, <3>2, <3>3 DEF StateInv, TypeOK
  <2>3. QED
    BY <2>1, <2>2
<1>8. ASSUME NEW t \in TunIPs, t # ps.tunIP
      PROVE  ix'.byTunIP[t] = IF ix.byTunIP[t] = ix.byCode[ps.code] THEN None ELSE ix.byTunIP[t]
  BY <1>1, <1>2, <1>3, <1>8 DEF Remove
<1>9. ix'.byTunIP[ps.tunIP] = ps
  BY <1>1, <1>2, <1>3
<1>10. ASSUME NEW t \in TunIPs, ix'.byTunIP[t] # None
      PROVE  ix'.byTunIP[t].tunIP = t /\ ix'.byCode[ix'.byTunIP[t].code] = ix'.byTunIP[t]
  <2>1. CASE t = ps.tunIP
    BY <1>1, <1>5, <1>9, <2>1 DEF StateInv, TypeOK
  <2>2. CASE t # ps.tunIP
    <3>1. ix'.byTunIP[t] = ix.byTunIP[t] /\ ix.byTunIP[t] # ix.byCode[ps.code]
      BY <1>8, <1>10, <2>2
    <3>2. /\ ix.byTunIP[t].tunIP = t /\ ix.byCode[ix.byTunIP[t].code] = ix.byTunIP[t]
          /\ ix.byTunIP[t].code \in Codes
      BY <1>10, <3>1 DEF StateInv, NoZombies, TypeOK, SessionRecord
    <3>3. QED
      BY <1>1, <1>5, <3>1, <3>2 DEF StateInv, TypeOK
  <2>3. QED
    BY <2>1, <2>2
<1>11. /\ ix'.byCode \in [Codes -> SessionRecord \cup {None}]
       /\ ix'.byAddr \in [Addrs -> SessionRecord \cup {None}]
       /\ ix'.byTunIP \in [TunIPs -> SessionRecord \cup {None}]
  BY <1>1, <1>2, <1>3, ZenonT(30)
<1>12. QED
  BY <1>5, <1>6, <1>7, <1>8, <1>9, <1>10, <1>11 DEF NoZombies

-----------------------------------------------------------------------------
(* Types and indices *)

LEMMA Bounds ==
  /\ MaxSecret \in Nat /\ QueueCap \in Nat /\ None \notin Codes /\ Gone # None
  /\ UserOf \in [Codes -> Users] /\ TunIPOf \in [Codes -> TunIPs]
  /\ Uses \subseteq Codes \X Addrs
BY ServerAssumption

LEMMA NewCodeRecord == \A s \in 0..MaxSecret : Code(s) \in CodeRecord
<1>1. None \in Fingerprints
  BY DEF Fingerprints
<1>2. QED
  BY <1>1 DEF Code, CodeRecord

LEMMA StateInit == Init => StateInv
<1> SUFFICES ASSUME Init PROVE StateInv
  OBVIOUS
<1> USE Bounds DEF Init
<1>1. Code(0) \in CodeRecord
  BY NewCodeRecord
<1>2. \A c \in Codes : codes[c] \in CodeRecord \cup {None, Gone}
  BY <1>1
<1>3. job \in [Jobs -> JobRecord] /\ CopiesAreCodes
  BY DEF NoJob, JobRecord, CopiesAreCodes
<1>4. helloQ \in Seq(HelloRecord) /\ Len(helloQ) <= QueueCap
  OBVIOUS
<1>5. /\ ix.byCode \in [Codes -> SessionRecord \cup {None}]
      /\ ix.byAddr \in [Addrs -> SessionRecord \cup {None}]
      /\ ix.byTunIP \in [TunIPs -> SessionRecord \cup {None}]
      /\ NoZombies
  BY DEF EmptyIndex, NoZombies
<1>6. quiet \subseteq Online(ix) /\ worker = Resting /\ drawn \in 0..MaxSecret
  OBVIOUS
<1>7. QED
  BY <1>2, <1>3, <1>4, <1>5, <1>6 DEF StateInv, TypeOK

\* A request moves on: it evicts, lists, purges, or is done.
LEMMA StepKeepsJobs ==
  ASSUME StateInv, NEW j \in Jobs, NEW stage \in {"list", "purge", "evict"},
         NEW todo \in SUBSET Codes, Step(j, stage, todo), job[j].stage # "idle"
  PROVE  job' \in [Jobs -> JobRecord] /\ CopiesAreCodes'
<1> DEFINE next == IF stage = "evict" /\ todo = {} THEN NoJob
                     ELSE [job[j] EXCEPT !.stage = stage, !.todo = todo]
<1>1. job' = [job EXCEPT ![j] = next]
  BY DEF Step
<1>2. job \in [Jobs -> JobRecord]
  BY DEF StateInv, TypeOK
<1>3. next \in JobRecord
  <2>1. NoJob \in JobRecord
    BY DEF NoJob, JobRecord
  <2>2. [job[j] EXCEPT !.stage = stage, !.todo = todo] \in JobRecord
    BY <1>2 DEF JobRecord
  <2>3. QED
    BY <2>1, <2>2
<1>4. job' \in [Jobs -> JobRecord]
  BY <1>1, <1>2, <1>3
<1>5. /\ next.stage # "idle" => next.code \in Codes
      /\ next.stage = "idle" => next.todo = {}
      /\ next.stage # "write"
  BY <1>2 DEF NoJob, JobRecord, StateInv, CopiesAreCodes
<1>6. CopiesAreCodes'
  BY <1>1, <1>2, <1>5 DEF StateInv, CopiesAreCodes
<1>7. QED
  BY <1>4, <1>6

\* SaveAccessCode writes a code record over one that exists.
LEMMA SaveKeepsStore ==
  ASSUME StateInv, NEW j \in Jobs, NEW rec \in CodeRecord, NEW todo \in SUBSET Codes,
         Save(j, rec, todo), job[j].stage # "idle"
  PROVE  /\ codes' \in [Codes -> CodeRecord \cup {None, Gone}]
         /\ job' \in [Jobs -> JobRecord] /\ CopiesAreCodes'
         /\ \A c \in Codes : Exists(c)' <=> Exists(c)
         /\ \A c \in Codes : codes[c] # None => codes'[c] # None
<1>1. job' \in [Jobs -> JobRecord] /\ CopiesAreCodes'
  <2>1. Step(j, "evict", todo) \/ Step(j, "evict", {})
    BY DEF Save
  <2>2. QED
    BY <2>1, StepKeepsJobs
<1>2. rec \notin {None, Gone}
  BY CodesAreRecords
<1>3. QED
  BY <1>1, <1>2 DEF Save, Exists, StateInv, TypeOK

\* What a write makes of the copy it read is a code record.
LEMMA CopyIsRecord ==
  ASSUME StateInv, NEW j \in Jobs, job[j].stage = "write", job[j].kind # "create"
  PROVE  /\ job[j].copy \in CodeRecord
         /\ \A b \in BOOLEAN : [job[j].copy EXCEPT !.disabled = b] \in CodeRecord
         /\ \A s \in 0..MaxSecret : [job[j].copy EXCEPT !.secret = s] \in CodeRecord
<1>1. job[j].copy \in CodeRecord
  BY DEF StateInv, CopiesAreCodes
<1>2. QED
  BY <1>1 DEF CodeRecord

\* A request's steps keep the types; those that leave the table alone do not
\* disturb it.
LEMMA JobKeepsState ==
  ASSUME StateInv, NEW j \in Jobs, Job(j) \/ \E k \in Kinds, c \in Codes : Begin(j, k, c)
  PROVE  StateInv'
<1> USE Bounds
<1> DEFINE StoreOK == /\ codes' \in [Codes -> CodeRecord \cup {None, Gone}]
                      /\ users' \in [Users -> {"active", "disabled", "deleted"}]
                      /\ drawn' \in 0..MaxSecret
           JobsOK == job' \in [Jobs -> JobRecord] /\ CopiesAreCodes'
<1>1. ASSUME UNCHANGED <<helloQ, worker, ix, quiet>>, StoreOK, JobsOK PROVE StateInv'
  BY <1>1 DEF StateInv, TypeOK, NoZombies, Online
<1>2. ASSUME NEW k \in Kinds, NEW c \in Codes, Begin(j, k, c) PROVE StateInv'
  <2> DEFINE new == [kind |-> k, code |-> c, stage |-> "write", copy |-> codes[c],
                     todo |-> IF k = "delete user"
                       THEN {d \in Codes : Exists(d) /\ UserOf[d] = UserOf[c]} ELSE {}]
  <2>1. codes[c] \in CodeRecord \cup {None} /\ (k # "create" => codes[c] \in CodeRecord)
    BY <1>2 DEF Begin, Exists, StateInv, TypeOK
  <2>2. new \in JobRecord
    BY <2>1 DEF JobRecord
  <2>3. job' = [job EXCEPT ![j] = new]
    BY <1>2 DEF Begin
  <2>4. JobsOK
    BY <2>1, <2>2, <2>3 DEF StateInv, TypeOK, CopiesAreCodes
  <2>5. QED
    BY <1>1, <1>2, <2>4 DEF Begin, store, StateInv, TypeOK
<1>3. CASE WriteRename(j)
  <2>1. job[j].copy \in CodeRecord /\ Save(j, job[j].copy, {}) /\ job[j].stage # "idle"
    BY <1>3, CopyIsRecord DEF WriteRename, Writes
  <2>2. codes' \in [Codes -> CodeRecord \cup {None, Gone}] /\ JobsOK
    BY <2>1, SaveKeepsStore
  <2>3. QED
    BY <1>1, <1>3, <2>2 DEF WriteRename, StateInv, TypeOK
<1>4. CASE WriteEnable(j)
  <2>1. /\ [job[j].copy EXCEPT !.disabled = FALSE] \in CodeRecord /\ job[j].stage # "idle"
        /\ Save(j, [job[j].copy EXCEPT !.disabled = FALSE], {})
    BY <1>4, CopyIsRecord DEF WriteEnable, Writes
  <2>2. codes' \in [Codes -> CodeRecord \cup {None, Gone}] /\ JobsOK
    BY <2>1, SaveKeepsStore
  <2>3. QED
    BY <1>1, <1>4, <2>2 DEF WriteEnable, StateInv, TypeOK
<1>5. CASE WriteDisable(j)
  <2> DEFINE todo == IF job[j].copy.disabled THEN {} ELSE {job[j].code}
  <2>1. todo \in SUBSET Codes /\ Save(j, [job[j].copy EXCEPT !.disabled = TRUE], todo)
    BY <1>5 DEF WriteDisable, Writes, StateInv, CopiesAreCodes
  <2>2. QED
    BY <1>1, <1>5, <2>1, CopyIsRecord, SaveKeepsStore DEF WriteDisable, Writes, StateInv, TypeOK
<1>6. CASE WriteRekey(j)
  <2>1. drawn + 1 \in 0..MaxSecret /\ {job[j].code} \in SUBSET Codes
    BY <1>6 DEF WriteRekey, Writes, StateInv, TypeOK, CopiesAreCodes
  <2>2. QED
    BY <1>1, <1>6, <2>1, CopyIsRecord, SaveKeepsStore DEF WriteRekey, Writes, StateInv, TypeOK
<1>7. CASE WriteUnbind(j)
  <2>1. job[j].code \in Codes /\ job[j].stage # "idle"
    BY <1>7 DEF WriteUnbind, Writes, StateInv, CopiesAreCodes
  <2>2. JobsOK
    <3>1. Step(j, "evict", {job[j].code}) \/ Step(j, "evict", {})
      BY <1>7 DEF WriteUnbind
    <3>2. QED
      BY <2>1, <3>1, StepKeepsJobs
  <2>3. codes \in [Codes -> CodeRecord \cup {None, Gone}]
    BY DEF StateInv, TypeOK
  <2>4. codes' \in [Codes -> CodeRecord \cup {None, Gone}]
    <3>1. CASE Exists(job[j].code)
      <4>1. codes[job[j].code] \in CodeRecord
        BY <2>1, <2>3, <3>1 DEF Exists
      <4>2. [codes[job[j].code] EXCEPT !.fp = None] \in CodeRecord
        BY <4>1 DEF CodeRecord, Fingerprints
      <4>3. QED
        BY <1>7, <2>3, <3>1, <4>2 DEF WriteUnbind
    <3>2. CASE ~Exists(job[j].code)
      BY <1>7, <2>3, <3>2 DEF WriteUnbind
    <3>3. QED
      BY <3>1, <3>2
  <2>5. QED
    BY <1>1, <1>7, <2>2, <2>4 DEF WriteUnbind, StateInv, TypeOK
<1>8. CASE WriteDelete(j)
  <2>1. job[j].code \in Codes /\ job[j].stage # "idle"
    BY <1>8 DEF WriteDelete, Writes, StateInv, CopiesAreCodes
  <2>2. JobsOK
    <3>1. Step(j, "evict", {job[j].code}) \/ Step(j, "evict", {})
      BY <1>8 DEF WriteDelete
    <3>2. QED
      BY <2>1, <3>1, StepKeepsJobs
  <2>3. QED
    BY <1>1, <1>8, <2>2 DEF WriteDelete, StateInv, TypeOK
<1>9. CASE WriteCreate(j)
  <2>1. JobsOK
    BY <1>9, StepKeepsJobs DEF WriteCreate, Writes
  <2>2. StoreOK
    <3>1. drawn + 1 \in 0..MaxSecret
      BY <1>9 DEF WriteCreate, StateInv, TypeOK
    <3>2. Code(drawn + 1) \in CodeRecord
      BY <3>1, NewCodeRecord
    <3>3. QED
      BY <1>9, <3>1, <3>2 DEF WriteCreate, StateInv, TypeOK
  <2>3. QED
    BY <1>1, <1>9, <2>1, <2>2 DEF WriteCreate
<1>10. CASE WriteUser(j)
  <2>1. JobsOK
    <3>1. Step(j, "evict", {}) \/ Step(j, "list", {})
      BY <1>10 DEF WriteUser
    <3>2. job[j].stage # "idle"
      BY <1>10 DEF WriteUser, Writes
    <3>3. QED
      BY <3>1, <3>2, StepKeepsJobs
  <2>2. QED
    BY <1>1, <1>10, <2>1 DEF WriteUser, StateInv, TypeOK
<1>11. CASE ListCodes(j)
  <2>1. {c \in Codes : Exists(c) /\ UserOf[c] = UserOf[job[j].code]} \in SUBSET Codes
    OBVIOUS
  <2>2. JobsOK
    BY <1>11, <2>1, StepKeepsJobs DEF ListCodes
  <2>3. QED
    BY <1>1, <1>11, <2>2 DEF ListCodes, store, StateInv, TypeOK
<1>12. CASE WriteDeleteUser(j)
  <2>1. JobsOK
    <3>1. Step(j, "evict", {}) \/ Step(j, "purge", job[j].todo)
      BY <1>12 DEF WriteDeleteUser
    <3>2. job[j].stage # "idle" /\ job[j].todo \in SUBSET Codes
      BY <1>12 DEF WriteDeleteUser, Writes, StateInv, TypeOK, JobRecord
    <3>3. QED
      BY <3>1, <3>2, StepKeepsJobs
  <2>2. QED
    BY <1>1, <1>12, <2>1 DEF WriteDeleteUser, StateInv, TypeOK
<1>13. CASE PurgeCodes(j)
  <2>1. job[j].todo \in SUBSET Codes
    BY DEF StateInv, TypeOK, JobRecord
  <2>2. JobsOK
    BY <1>13, <2>1, StepKeepsJobs DEF PurgeCodes
  <2>3. QED
    BY <1>1, <1>13, <2>2 DEF PurgeCodes, StateInv, TypeOK
<1>14. ASSUME NEW c \in Codes, EvictCode(j, c) PROVE StateInv'
  <2> DEFINE dead == {ix.byCode[c]} \ {None}
  <2>1. ix' = Remove(ix, dead) /\ dead \in SUBSET {ix.byCode[d] : d \in Codes}
    BY <1>14 DEF EvictCode, Evict
  <2>2. \A d \in Codes : ix'.byCode[d] = IF d \in {c} THEN None ELSE ix.byCode[d]
    BY <2>1 DEF Remove, StateInv, NoZombies
  <2>3. quiet' \subseteq Online(ix)'
    BY <1>14, <2>2 DEF EvictCode, Online, StateInv, TypeOK
  <2>4. job[j].todo \ {c} \in SUBSET Codes
    BY DEF StateInv, TypeOK, JobRecord
  <2>5. JobsOK
    BY <1>14, <2>4, StepKeepsJobs DEF EvictCode
  <2>6. QED
    BY <1>14, <2>1, <2>3, <2>5, RemoveKeepsIndices DEF EvictCode, store, StateInv, TypeOK
<1>15. QED
  BY <1>2, <1>3, <1>4, <1>5, <1>6, <1>7, <1>8, <1>9, <1>10, <1>11, <1>12, <1>13, <1>14 DEF Job

\* Handshakes and the janitor keep the types and the indices.
LEMMA HelloKeepsState ==
  ASSUME StateInv,
         \/ \E c \in Codes, a \in Addrs, d \in Devices, s \in 0..MaxSecret : QueueHello(c, a, d, s)
         \/ HelloWorker
         \/ \E c \in Codes : FallSilent(c) \/ Heard(c)
         \/ Reap
  PROVE  StateInv'
<1> USE Bounds
<1>1. ASSUME job' = job, codes' \in [Codes -> CodeRecord \cup {None, Gone}],
             users' = users, drawn' = drawn, ix' = ix, quiet' \subseteq Online(ix),
             helloQ' \in Seq(HelloRecord), Len(helloQ') <= QueueCap,
             \/ worker' = Resting
             \/ worker' \in [stage : {"device", "limit", "install"}, msg : HelloRecord,
                             fp : Fingerprints]
      PROVE  StateInv'
  BY <1>1 DEF StateInv, TypeOK, NoZombies, Online, CopiesAreCodes
<1>2. /\ codes \in [Codes -> CodeRecord \cup {None, Gone}]
      /\ helloQ \in Seq(HelloRecord) /\ Len(helloQ) <= QueueCap
      /\ quiet \subseteq Online(ix) /\ Online(ix) \subseteq Codes
      /\ \/ worker = Resting
         \/ worker \in [stage : {"device", "limit", "install"}, msg : HelloRecord,
                        fp : Fingerprints]
  BY DEF StateInv, TypeOK, Online
<1>3. ASSUME Busy, NEW stage \in {"limit", "install"}
      PROVE  /\ worker.msg \in HelloRecord
             /\ Proceed(stage) => worker' \in [stage : {"device", "limit", "install"},
                                               msg : HelloRecord, fp : Fingerprints]
  BY <1>2, <1>3 DEF Busy, Resting, Proceed
<1>4. ASSUME NEW c \in Codes, NEW f \in Fingerprints, Exists(c)
      PROVE  [codes EXCEPT ![c].fp = f] \in [Codes -> CodeRecord \cup {None, Gone}]
  <2>1. codes[c] \in CodeRecord
    BY <1>2, <1>4 DEF Exists
  <2>2. [codes[c] EXCEPT !.fp = f] \in CodeRecord
    BY <2>1 DEF CodeRecord
  <2>3. QED
    BY <1>2, <2>2
<1>5. ASSUME NEW c \in Codes, NEW a \in Addrs, NEW d \in Devices, NEW s \in 0..MaxSecret,
             QueueHello(c, a, d, s)
      PROVE  StateInv'
  <2>1. Hello(c, a, d, s) \in HelloRecord
    BY DEF Hello, HelloRecord
  <2>2. helloQ' \in Seq(HelloRecord) /\ Len(helloQ') <= QueueCap
    BY <1>2, <1>5, <2>1 DEF QueueHello
  <2>3. QED
    BY <1>1, <1>2, <1>5, <2>2 DEF QueueHello, store
<1>6. CASE TakeHello
  <2>1. Head(helloQ) \in HelloRecord /\ Tail(helloQ) \in Seq(HelloRecord)
        /\ Len(Tail(helloQ)) <= QueueCap
    BY <1>2, <1>6 DEF TakeHello
  <2>2. ASSUME Entitled(Head(helloQ).code, Head(helloQ).secret)
        PROVE  codes[Head(helloQ).code].fp \in Fingerprints
    BY <1>2, <2>1, <2>2 DEF Entitled, Exists, CodeRecord, HelloRecord
  <2>3. \/ worker' = Resting
        \/ worker' \in [stage : {"device", "limit", "install"}, msg : HelloRecord,
                        fp : Fingerprints]
    BY <1>6, <2>1, <2>2 DEF TakeHello
  <2>4. QED
    BY <1>1, <1>2, <1>6, <2>1, <2>3 DEF TakeHello, store
<1>7. CASE DeviceKnown
  <2>1. Busy /\ Proceed("limit")
    BY <1>7 DEF DeviceKnown, Busy
  <2>2. worker.msg.code \in Codes /\ worker.msg.dev \in Devices
    BY <1>3, <2>1 DEF HelloRecord
  <2>3. Fp2[worker.msg.dev] \in Fingerprints
    BY <2>2 DEF Fingerprints
  <2>4. codes' \in [Codes -> CodeRecord \cup {None, Gone}]
    BY <1>2, <1>4, <1>7, <2>2, <2>3 DEF DeviceKnown
  <2>5. QED
    BY <1>1, <1>2, <1>3, <1>7, <2>1, <2>4 DEF DeviceKnown
<1>8. CASE DeviceBinds
  <2> DEFINE f == IF Fp2[worker.msg.dev] # None THEN Fp2[worker.msg.dev] ELSE Fp[worker.msg.dev]
  <2>1. Busy /\ (worker' = Resting \/ Proceed("limit"))
    BY <1>8 DEF DeviceBinds, Busy
  <2>2. worker.msg.code \in Codes /\ worker.msg.dev \in Devices
    BY <1>3, <2>1 DEF HelloRecord
  <2>3. f \in Fingerprints
    BY <2>2 DEF Fingerprints
  <2>4. codes' = codes \/ (Exists(worker.msg.code) /\ codes' = [codes EXCEPT ![worker.msg.code].fp = f])
    BY <1>8 DEF DeviceBinds
  <2> HIDE DEF f
  <2>5. codes' \in [Codes -> CodeRecord \cup {None, Gone}]
    BY <1>2, <1>4, <2>2, <2>3, <2>4
  <2>6. QED
    BY <1>1, <1>2, <1>3, <1>8, <2>1, <2>5 DEF DeviceBinds
<1>9. CASE CheckLimit
  <2>1. Busy /\ (worker' = Resting \/ Proceed("install"))
    BY <1>9 DEF CheckLimit, Busy
  <2>2. QED
    BY <1>1, <1>2, <1>3, <1>9, <2>1 DEF CheckLimit, store
<1>10. CASE Install
  <2>1. Busy /\ worker.msg \in HelloRecord
    BY <1>3, <1>10 DEF Install, Busy
  <2>2. CASE UNCHANGED <<ix, quiet>>
    BY <1>1, <1>2, <1>10, <2>2 DEF Install, store
  <2>3. CASE ix' = Upsert(ix, Session(worker.msg)) /\ quiet' = quiet \ {worker.msg.code}
    <3>1. Session(worker.msg) \in SessionRecord /\ Session(worker.msg).code = worker.msg.code
      BY <2>1 DEF Session, SessionRecord, HelloRecord, Entitled
    <3>2. /\ ix'.byCode \in [Codes -> SessionRecord \cup {None}]
          /\ ix'.byAddr \in [Addrs -> SessionRecord \cup {None}]
          /\ ix'.byTunIP \in [TunIPs -> SessionRecord \cup {None}]
          /\ NoZombies'
          /\ ix'.byCode = [ix.byCode EXCEPT ![worker.msg.code] = Session(worker.msg)]
      BY <2>3, <3>1, UpsertKeepsIndices
    <3>3. quiet' \subseteq Online(ix)'
      BY <1>2, <2>3, <3>2 DEF Online, StateInv, TypeOK
    <3>4. QED
      BY <1>10, <3>2, <3>3 DEF Install, store, StateInv, TypeOK, CopiesAreCodes
  <2>4. QED
    BY <1>10, <2>2, <2>3 DEF Install
<1>11. ASSUME NEW c \in Codes, FallSilent(c) \/ Heard(c) PROVE StateInv'
  <2>1. quiet' \subseteq Online(ix)
    BY <1>2, <1>11 DEF FallSilent, Heard
  <2>2. QED
    BY <1>1, <1>2, <1>11, <2>1 DEF FallSilent, Heard, store
<1>12. CASE Reap
  <2>1. ix' = Remove(ix, {ix.byCode[c] : c \in quiet})
        /\ {ix.byCode[c] : c \in quiet} \in SUBSET {ix.byCode[c] : c \in Codes}
    BY <1>2, <1>12 DEF Reap
  <2>2. quiet' \subseteq Online(ix)'
    BY <1>12 DEF Reap
  <2>3. QED
    BY <1>12, <2>1, <2>2, RemoveKeepsIndices DEF Reap, store, StateInv, TypeOK, CopiesAreCodes
<1>13. QED
  BY <1>5, <1>6, <1>7, <1>8, <1>9, <1>10, <1>11, <1>12 DEF HelloWorker

LEMMA StateStep == StateInv /\ [Next]_vars => StateInv'
<1>1. ASSUME StateInv, UNCHANGED vars PROVE StateInv'
  BY <1>1 DEF vars, store, StateInv, TypeOK, NoZombies, Online, CopiesAreCodes
<1>2. QED
  BY <1>1, JobKeepsState, HelloKeepsState DEF Next

\* NoZombies and the types: the three indices of the session table agree about
\* every session they show.
THEOREM IndicesAgree == Spec => [](TypeOK /\ NoZombies)
<1>1. StateInv => TypeOK /\ NoZombies
  BY DEF StateInv
<1>2. QED
  BY <1>1, StateInit, StateStep, PTL DEF Spec

-----------------------------------------------------------------------------
(* Routing *)

\* Of the steps that write codes only a creation brings one into existence.
NoNewCode ==
  \A c \in Codes : (codes[c] # None => codes'[c] # None) /\ (Exists(c)' => Exists(c))

\* Whom the worker is letting in, if anybody, it was letting in before.
NoNewMessage == Busy' => Busy /\ worker'.msg = worker.msg

LEMMA SaveMakesNoCode ==
  ASSUME StateInv, NEW j \in Jobs, NEW rec \in CodeRecord, NEW todo \in SUBSET Codes,
         Save(j, rec, todo), job[j].stage # "idle"
  PROVE  NoNewCode
BY SaveKeepsStore DEF NoNewCode

LEMMA JobMakesNoCode ==
  ASSUME StateInv, NEW j \in Jobs, Job(j), ~WriteCreate(j)
  PROVE  NoNewCode
<1> USE Bounds
<1>1. CASE WriteRename(j)
  <2>1. job[j].copy \in CodeRecord /\ Save(j, job[j].copy, {}) /\ job[j].stage # "idle"
    BY <1>1, CopyIsRecord DEF WriteRename, Writes
  <2>2. QED
    BY <2>1, SaveMakesNoCode
<1>2. CASE WriteEnable(j)
  <2>1. /\ [job[j].copy EXCEPT !.disabled = FALSE] \in CodeRecord /\ job[j].stage # "idle"
        /\ Save(j, [job[j].copy EXCEPT !.disabled = FALSE], {})
    BY <1>2, CopyIsRecord DEF WriteEnable, Writes
  <2>2. QED
    BY <2>1, SaveMakesNoCode
<1>3. CASE WriteDisable(j)
  <2> DEFINE todo == IF job[j].copy.disabled THEN {} ELSE {job[j].code}
  <2>1. todo \in SUBSET Codes /\ Save(j, [job[j].copy EXCEPT !.disabled = TRUE], todo)
    BY <1>3 DEF WriteDisable, Writes, StateInv, CopiesAreCodes
  <2>2. QED
    BY <1>3, <2>1, CopyIsRecord, SaveMakesNoCode DEF WriteDisable, Writes
<1>4. CASE WriteRekey(j)
  <2>1. drawn + 1 \in 0..MaxSecret /\ {job[j].code} \in SUBSET Codes
    BY <1>4 DEF WriteRekey, Writes, StateInv, TypeOK, CopiesAreCodes
  <2>2. QED
    BY <1>4, <2>1, CopyIsRecord, SaveMakesNoCode DEF WriteRekey, Writes
<1>5. CASE WriteUnbind(j)
  <2>1. job[j].code \in Codes /\ codes \in [Codes -> CodeRecord \cup {None, Gone}]
    BY <1>5 DEF WriteUnbind, Writes, StateInv, CopiesAreCodes, TypeOK
  <2>2. CASE Exists(job[j].code)
    <3>1. [codes[job[j].code] EXCEPT !.fp = None] \in CodeRecord
      BY <2>1, <2>2 DEF Exists, CodeRecord, Fingerprints
    <3>2. codes' = [codes EXCEPT ![job[j].code] = [codes[job[j].code] EXCEPT !.fp = None]]
      BY <1>5, <2>2 DEF WriteUnbind
    <3>3. QED
      BY <2>1, <2>2, <3>1, <3>2, CodesAreRecords DEF NoNewCode, Exists
  <2>3. CASE ~Exists(job[j].code)
    BY <1>5, <2>3 DEF WriteUnbind, NoNewCode, Exists
  <2>4. QED
    BY <2>2, <2>3
<1>6. CASE WriteDelete(j)
  BY <1>6 DEF WriteDelete, NoNewCode, Exists, StateInv, TypeOK
<1>7. CASE WriteUser(j) \/ ListCodes(j) \/ WriteDeleteUser(j) \/ \E c \in Codes : EvictCode(j, c)
  BY <1>7 DEF WriteUser, ListCodes, WriteDeleteUser, EvictCode, store, NoNewCode, Exists
<1>8. CASE PurgeCodes(j)
  BY <1>8 DEF PurgeCodes, NoNewCode, Exists, StateInv, TypeOK
<1>9. QED
  BY <1>1, <1>2, <1>3, <1>4, <1>5, <1>6, <1>7, <1>8 DEF Job

LEMMA DeviceMakesNoCode ==
  ASSUME StateInv, DeviceKnown \/ DeviceBinds
  PROVE  NoNewCode /\ NoNewMessage
<1> USE Bounds
<1>1. codes \in [Codes -> CodeRecord \cup {None, Gone}]
  BY DEF StateInv, TypeOK
<1>2. worker.msg.code \in Codes /\ worker.msg.dev \in Devices /\ Busy
  BY DEF StateInv, TypeOK, Resting, HelloRecord, DeviceKnown, DeviceBinds, Busy
<1>3. Fp[worker.msg.dev] \in Fingerprints /\ Fp2[worker.msg.dev] \in Fingerprints
  BY <1>2 DEF Fingerprints
<1>4. codes' = codes \/ \E fp \in Fingerprints :
        Exists(worker.msg.code) /\ codes' = [codes EXCEPT ![worker.msg.code].fp = fp]
  BY <1>3 DEF DeviceKnown, DeviceBinds
<1>5. ASSUME NEW fp \in Fingerprints, Exists(worker.msg.code)
      PROVE  [codes[worker.msg.code] EXCEPT !.fp = fp] \in CodeRecord
  BY <1>1, <1>2, <1>5 DEF Exists, CodeRecord
<1>6. NoNewCode
  BY <1>1, <1>2, <1>4, <1>5, CodesAreRecords DEF NoNewCode, Exists
<1>7. NoNewMessage
  BY <1>2, StateInv DEF DeviceKnown, DeviceBinds, NoNewMessage, Busy, Resting, Proceed, StateInv, TypeOK
<1>8. QED
  BY <1>6, <1>7

\* No code comes into existence and the table keeps its sessions or loses some.
LEMMA RouteKept ==
  ASSUME StateInv, RouteInv, NoNewCode, NoNewMessage, NEW C \in SUBSET Codes,
         \/ ix' = Remove(ix, {ix.byCode[c] : c \in C} \ {None})
         \/ ix' = ix /\ C = {}
  PROVE  RouteInv'
<1> USE Bounds
<1>1. \A c \in Codes : ix'.byCode[c] = IF c \in C THEN None ELSE ix.byCode[c]
  BY RemoveTakesOnly
<1>2. OwnAddress'
  BY <1>1 DEF OwnAddress, RouteInv
<1>3. KnownCodes'
  BY <1>1 DEF KnownCodes, RouteInv, NoNewCode, NoNewMessage
<1>4. OneOwner'
  BY DEF OneOwner, RouteInv, NoNewCode
<1>5. NewOwnerWaits'
  BY <1>1 DEF NewOwnerWaits, RouteInv, NoNewCode, NoNewMessage
<1>6. ASSUME NEW c \in Codes, ix'.byCode[c] # None, Exists(c)'
      PROVE  ix'.byTunIP[TunIPOf[c]] = ix'.byCode[c]
  <2>1. c \notin C /\ ix'.byCode[c] = ix.byCode[c] /\ ix.byTunIP[TunIPOf[c]] = ix.byCode[c]
    BY <1>1, <1>6 DEF RouteInv, OwnerIsRouted, NoNewCode
  <2>2. ix.byCode[c] \notin {ix.byCode[d] : d \in C} \ {None}
    BY <1>6, <2>1 DEF StateInv, NoZombies
  <2>3. QED
    BY <2>1, <2>2 DEF Remove
<1>7. QED
  BY <1>2, <1>3, <1>4, <1>5, <1>6 DEF RouteInv, OwnerIsRouted

\* A code is created: it is not on the tunnel, and its tunnel address is free.
LEMMA RouteCreated ==
  ASSUME StateInv, RouteInv, NEW j \in Jobs, WriteCreate(j)
  PROVE  RouteInv'
<1> DEFINE c == job[j].code
<1> USE Bounds
<1>1. c \in Codes /\ ix' = ix /\ worker' = worker
  BY DEF WriteCreate, Writes, StateInv, CopiesAreCodes
<1>2. CASE codes' = codes
  BY <1>1, <1>2 DEF RouteInv, OwnAddress, KnownCodes, OneOwner, NewOwnerWaits, OwnerIsRouted,
                    Exists, Busy
<1>3. CASE codes' # codes
  <2>1. /\ codes[c] = None /\ \A d \in Codes : Exists(d) => TunIPOf[d] # TunIPOf[c]
        /\ codes' = [codes EXCEPT ![c] = Code(drawn + 1)] /\ drawn + 1 \in 0..MaxSecret
    BY <1>3 DEF WriteCreate, StateInv, TypeOK
  <2>2. Code(drawn + 1) \notin {None, Gone}
    BY <2>1, NewCodeRecord, CodesAreRecords
  <2>3. \A d \in Codes : Exists(d)' <=> Exists(d) \/ d = c
    BY <1>1, <2>1, <2>2 DEF Exists, StateInv, TypeOK
  <2>4. ix.byCode[c] = None /\ (Busy => worker.msg.code # c)
    BY <1>1, <2>1 DEF RouteInv, KnownCodes
  <2>5. KnownCodes'
    BY <1>1, <2>1, <2>2 DEF RouteInv, KnownCodes, StateInv, TypeOK, Busy
  <2>6. OneOwner'
    BY <2>1, <2>3 DEF RouteInv, OneOwner
  <2>7. NewOwnerWaits'
    BY <1>1, <2>3, <2>4 DEF RouteInv, NewOwnerWaits, Busy
  <2>8. OwnAddress' /\ OwnerIsRouted'
    BY <1>1, <2>3, <2>4 DEF RouteInv, OwnAddress, OwnerIsRouted
  <2>9. QED
    BY <2>5, <2>6, <2>7, <2>8 DEF RouteInv
<1>4. QED
  BY <1>2, <1>3

\* A handshake is taken up: its code exists, so nobody else has its address.
LEMMA RouteTaken ==
  ASSUME StateInv, RouteInv, TakeHello
  PROVE  RouteInv'
<1> USE Bounds
<1>1. ix' = ix /\ codes' = codes
  BY DEF TakeHello, store
<1>2. CASE worker' = Resting
  BY <1>1, <1>2 DEF RouteInv, OwnAddress, KnownCodes, OneOwner, NewOwnerWaits, OwnerIsRouted,
                    Exists, Busy, Resting
<1>3. CASE worker' # Resting
  <2>1. worker'.msg = Head(helloQ) /\ Head(helloQ) \in HelloRecord /\ Exists(Head(helloQ).code)
    BY <1>3 DEF TakeHello, Entitled, StateInv, TypeOK
  <2>2. worker'.msg.code \in Codes /\ Exists(worker'.msg.code)
    BY <2>1 DEF HelloRecord
  <2>3. KnownCodes' /\ NewOwnerWaits'
    BY <1>1, <2>2 DEF RouteInv, KnownCodes, NewOwnerWaits, OneOwner, Exists
  <2>4. QED
    BY <1>1, <2>3 DEF RouteInv, OwnAddress, OneOwner, OwnerIsRouted, Exists
<1>4. QED
  BY <1>2, <1>3

\* The session is installed: the address goes to its code, and no other code
\* that exists has the address and is on the tunnel.
LEMMA RouteInstalled ==
  ASSUME StateInv, RouteInv, Install, ix' # ix
  PROVE  RouteInv'
<1> DEFINE d == worker.msg.code
           ps == Session(worker.msg)
<1> USE Bounds
<1>1. Busy /\ worker.msg \in HelloRecord /\ d \in Codes
  BY DEF Install, Busy, StateInv, TypeOK, Resting, HelloRecord
<1>2. ps \in SessionRecord /\ ps.code = d /\ ps.tunIP = TunIPOf[d]
  BY <1>1 DEF Session, SessionRecord, HelloRecord, Entitled
<1>3. ix' = Upsert(ix, ps) /\ codes' = codes /\ worker' = Resting
  BY DEF Install, store
<1> HIDE DEF ps
<1>4. /\ ix'.byCode = [ix.byCode EXCEPT ![d] = ps]
      /\ ix'.byTunIP[TunIPOf[d]] = ps
      /\ \A t \in TunIPs \ {TunIPOf[d]} :
           ix'.byTunIP[t] = IF ix.byTunIP[t] = ix.byCode[d] THEN None ELSE ix.byTunIP[t]
  BY <1>2, <1>3, UpsertKeepsIndices
<1>5. ix'.byCode[d] = ps /\ \A c \in Codes \ {d} : ix'.byCode[c] = ix.byCode[c]
  BY <1>1, <1>4 DEF StateInv, TypeOK
<1>6. OwnAddress'
  BY <1>2, <1>5 DEF RouteInv, OwnAddress
<1>7. KnownCodes'
  BY <1>1, <1>3, <1>5 DEF RouteInv, KnownCodes, Busy, Resting
<1>8. OneOwner' /\ NewOwnerWaits'
  BY <1>3 DEF RouteInv, OneOwner, NewOwnerWaits, Exists, Busy, Resting
<1>9. ASSUME NEW c \in Codes, ix'.byCode[c] # None, Exists(c)'
      PROVE  ix'.byTunIP[TunIPOf[c]] = ix'.byCode[c]
  <2>1. CASE c = d
    BY <1>4, <1>5, <2>1
  <2>2. CASE c # d
    <3>1. ix.byCode[c] # None /\ Exists(c) /\ ix.byTunIP[TunIPOf[c]] = ix.byCode[c]
      BY <1>3, <1>5, <1>9, <2>2 DEF RouteInv, OwnerIsRouted, Exists
    <3>2. TunIPOf[c] # TunIPOf[d]
      BY <1>1, <2>2, <3>1 DEF RouteInv, NewOwnerWaits
    <3>3. ix.byCode[c] # ix.byCode[d]
      BY <1>1, <2>2, <3>1 DEF StateInv, NoZombies
    <3>4. QED
      BY <1>4, <1>5, <2>2, <3>1, <3>2, <3>3
  <2>3. QED
    BY <2>1, <2>2
<1>10. QED
  BY <1>6, <1>7, <1>8, <1>9 DEF RouteInv, OwnerIsRouted

LEMMA RouteInit == Init => RouteInv
BY Bounds, CodesAreRecords, NewCodeRecord
   DEF Init, EmptyIndex, Resting, RouteInv, OwnAddress, KnownCodes, OneOwner, NewOwnerWaits,
       OwnerIsRouted, Busy, Exists

LEMMA RouteStep == StateInv /\ RouteInv /\ [Next]_vars => RouteInv'
<1> SUFFICES ASSUME StateInv, RouteInv, [Next]_vars PROVE RouteInv'
  OBVIOUS
<1>1. ASSUME ix' = ix, NoNewCode, NoNewMessage PROVE RouteInv'
  <2>1. {} \in SUBSET Codes
    OBVIOUS
  <2>2. StateInv /\ RouteInv /\ ix' = ix
    BY <1>1
  <2>3. QED
    BY <1>1, <2>1, <2>2, RouteKept
<1>2. ASSUME codes' = codes PROVE NoNewCode
  BY <1>2 DEF NoNewCode, Exists
<1>3. ASSUME worker' = worker \/ worker' = Resting PROVE NoNewMessage
  BY <1>3 DEF NoNewMessage, Busy, Resting
<1>4. ASSUME NEW j \in Jobs, Job(j) PROVE RouteInv'
  <2>1. CASE WriteCreate(j)
    BY <2>1, RouteCreated
  <2>2. CASE \E c \in Codes : EvictCode(j, c)
    <3>1. PICK c \in Codes : EvictCode(j, c)
      BY <2>2
    <3>2. ix' = Remove(ix, {ix.byCode[d] : d \in {c}} \ {None}) /\ codes' = codes /\ worker' = worker
      BY <3>1 DEF EvictCode, Evict, store
    <3>3. QED
      BY <1>2, <1>3, <3>2, RouteKept
  <2>3. CASE ~WriteCreate(j) /\ ~ \E c \in Codes : EvictCode(j, c)
    <3>1. ix' = ix /\ worker' = worker
      BY <1>4, <2>3 DEF Job, WriteRename, WriteEnable, WriteDisable, WriteRekey, WriteUnbind,
                        WriteDelete, WriteUser, ListCodes, WriteDeleteUser, PurgeCodes
    <3>2. QED
      BY <1>1, <1>3, <1>4, <2>3, <3>1, JobMakesNoCode
  <2>4. QED
    BY <2>1, <2>2, <2>3
<1>5. ASSUME NEW j \in Jobs, NEW k \in Kinds, NEW c \in Codes, Begin(j, k, c) PROVE RouteInv'
  BY <1>1, <1>2, <1>3, <1>5 DEF Begin, store
<1>6. ASSUME NEW c \in Codes, NEW a \in Addrs, NEW d \in Devices, NEW s \in 0..MaxSecret,
             QueueHello(c, a, d, s)
      PROVE  RouteInv'
  BY <1>1, <1>2, <1>3, <1>6 DEF QueueHello, store
<1>7. ASSUME HelloWorker PROVE RouteInv'
  <2>1. CASE TakeHello
    BY <2>1, RouteTaken
  <2>2. CASE DeviceKnown \/ DeviceBinds
    BY <1>1, <2>2, DeviceMakesNoCode DEF DeviceKnown, DeviceBinds
  <2>3. CASE CheckLimit
    <3>1. NoNewMessage
      BY <2>3 DEF CheckLimit, NoNewMessage, Busy, Resting, Proceed, StateInv, TypeOK
    <3>2. QED
      BY <1>1, <1>2, <2>3, <3>1 DEF CheckLimit, store
  <2>4. CASE Install
    <3>1. CASE ix' = ix
      BY <1>1, <1>2, <1>3, <2>4, <3>1 DEF Install, store
    <3>2. CASE ix' # ix
      BY <2>4, <3>2, RouteInstalled
    <3>3. QED
      BY <3>1, <3>2
  <2>5. QED
    BY <1>7, <2>1, <2>2, <2>3, <2>4 DEF HelloWorker
<1>8. ASSUME NEW c \in Codes, FallSilent(c) \/ Heard(c) PROVE RouteInv'
  BY <1>1, <1>2, <1>3, <1>8 DEF FallSilent, Heard, store
<1>9. ASSUME Reap PROVE RouteInv'
  <2>1. {ix.byCode[d] : d \in quiet} \ {None} = {ix.byCode[d] : d \in quiet} /\ quiet \in SUBSET Codes
    BY DEF StateInv, TypeOK, Online
  <2>2. ix' = Remove(ix, {ix.byCode[d] : d \in quiet} \ {None}) /\ codes' = codes /\ worker' = worker
    BY <1>9, <2>1 DEF Reap, store
  <2>3. QED
    BY <1>2, <1>3, <2>1, <2>2, RouteKept
<1>10. ASSUME UNCHANGED vars PROVE RouteInv'
  BY <1>1, <1>2, <1>3, <1>10 DEF vars, store
<1>11. QED
  BY <1>4, <1>5, <1>6, <1>7, <1>8, <1>9, <1>10 DEF Next

\* OwnerIsRouted: the kernel's packets to a tunnel address go to the session of
\* the code that has the address now, whichever codes had it before.
THEOREM PacketsReachTheOwner == Spec => []OwnerIsRouted
<1>1. RouteInv => OwnerIsRouted
  BY DEF RouteInv
<1>2. QED
  BY <1>1, StateInit, StateStep, RouteInit, RouteStep, PTL DEF Spec

-----------------------------------------------------------------------------
(* The limit *)

\* The codes of u on the tunnel, by the snapshot i.
On(i, u) == {c \in Online(i) : UserOf[c] = u}

LEMMA OnFinite == \A i, u, x :
  /\ IsFiniteSet(On(i, u)) /\ IsFiniteSet(On(i, u) \ {x})
  /\ Cardinality(On(i, u)) \in Nat /\ Cardinality(On(i, u) \ {x}) \in Nat
<1> SUFFICES ASSUME NEW i, NEW u, NEW x
    PROVE  /\ IsFiniteSet(On(i, u)) /\ IsFiniteSet(On(i, u) \ {x})
           /\ Cardinality(On(i, u)) \in Nat /\ Cardinality(On(i, u) \ {x}) \in Nat
  OBVIOUS
<1>1. IsFiniteSet(Codes) /\ On(i, u) \subseteq Codes /\ On(i, u) \ {x} \subseteq Codes
  BY ServerAssumption DEF On, Online
<1>2. IsFiniteSet(On(i, u)) /\ IsFiniteSet(On(i, u) \ {x})
  BY ONLY <1>1, FS_Subset
<1>3. QED
  BY ONLY <1>2, FS_CardinalityType

LEMMA OnShrinks ==
  ASSUME NEW i, NEW k, NEW u, NEW x, On(k, u) \subseteq On(i, u)
  PROVE  /\ Cardinality(On(k, u)) <= Cardinality(On(i, u))
         /\ Cardinality(On(k, u) \ {x}) <= Cardinality(On(i, u) \ {x})
<1>1. IsFiniteSet(On(i, u)) /\ IsFiniteSet(On(i, u) \ {x})
  BY OnFinite
<1>2. On(k, u) \subseteq On(i, u) /\ On(k, u) \ {x} \subseteq On(i, u) \ {x}
  OBVIOUS
<1>3. QED
  BY ONLY <1>1, <1>2, FS_Subset

LEMMA LimitForm ==
  /\ LimitHolds <=> \A u \in Users : MaxTunnels[u] # -1 => Cardinality(On(ix, u)) <= MaxTunnels[u]
  /\ Room <=> (worker.stage = "install" =>
       \A u : u = UserOf[worker.msg.code] /\ MaxTunnels[u] # -1 =>
              Cardinality(On(ix, u) \ {worker.msg.code}) < MaxTunnels[u])
  /\ \A u \in Users : MaxTunnels[u] # -1 => MaxTunnels[u] \in Nat
BY ServerAssumption DEF LimitHolds, TunnelsOf, On, Room

LEMMA LimitFormNext ==
  /\ LimitHolds' <=> \A u \in Users : MaxTunnels[u] # -1 => Cardinality(On(ix', u)) <= MaxTunnels[u]
  /\ Room' <=> (worker'.stage = "install" =>
       \A u : u = UserOf[worker'.msg.code] /\ MaxTunnels[u] # -1 =>
              Cardinality(On(ix', u) \ {worker'.msg.code}) < MaxTunnels[u])
BY DEF LimitHolds, TunnelsOf, On, Room, Online

\* The worker lets nobody further in and nobody comes onto the tunnel.
LEMMA LimitKept ==
  ASSUME StateInv, LimitInv, \A c \in Codes : ix'.byCode[c] \in {None, ix.byCode[c]},
         worker' = worker \/ worker'.stage # "install"
  PROVE  LimitInv'
<1>1. \A u : On(ix', u) \subseteq On(ix, u)
  BY DEF On, Online
<1>2. LimitHolds'
  <2> SUFFICES ASSUME NEW u \in Users, MaxTunnels[u] # -1
      PROVE  Cardinality(On(ix', u)) <= MaxTunnels[u]
    BY LimitFormNext
  <2>1. Cardinality(On(ix, u)) <= MaxTunnels[u] /\ MaxTunnels[u] \in Nat
    BY LimitForm DEF LimitInv
  <2>2. Cardinality(On(ix', u)) <= Cardinality(On(ix, u))
    BY <1>1, OnShrinks
  <2>3. Cardinality(On(ix', u)) \in Nat /\ Cardinality(On(ix, u)) \in Nat
    BY OnFinite
  <2>4. QED
    BY ONLY <2>1, <2>2, <2>3
<1>3. Room'
  <2> SUFFICES ASSUME worker'.stage = "install", NEW u, u = UserOf[worker'.msg.code],
                      MaxTunnels[u] # -1
      PROVE  Cardinality(On(ix', u) \ {worker'.msg.code}) < MaxTunnels[u]
    BY LimitFormNext
  <2>1. worker' = worker
    OBVIOUS
  <2>2. u \in Users
    BY <2>1, Bounds DEF StateInv, TypeOK, Resting, HelloRecord
  <2>3. Cardinality(On(ix, u) \ {worker.msg.code}) < MaxTunnels[u] /\ MaxTunnels[u] \in Nat
    BY <2>1, <2>2, LimitForm DEF LimitInv
  <2>4. Cardinality(On(ix', u) \ {worker.msg.code}) <= Cardinality(On(ix, u) \ {worker.msg.code})
    BY <1>1, OnShrinks
  <2>5. /\ Cardinality(On(ix', u) \ {worker.msg.code}) \in Nat
        /\ Cardinality(On(ix, u) \ {worker.msg.code}) \in Nat
    BY OnFinite
  <2>6. QED
    BY ONLY <2>1, <2>3, <2>4, <2>5
<1>4. QED
  BY <1>2, <1>3 DEF LimitInv

\* The limit is passed by a code that is on the tunnel already, or below it.
LEMMA LimitChecked ==
  ASSUME StateInv, LimitInv, CheckLimit
  PROVE  LimitInv'
<1>1. ix' = ix /\ (worker' = Resting \/ Proceed("install")) /\ worker.stage = "limit"
  BY DEF CheckLimit
<1>2. CASE worker' = Resting
  BY <1>1, <1>2, LimitKept DEF Resting, StateInv, TypeOK
<1>3. CASE Proceed("install") /\ worker' # Resting
  <2>1. worker.msg \in HelloRecord /\ worker'.msg = worker.msg
    BY <1>1, <1>3 DEF Proceed, StateInv, TypeOK, Resting
  <2>2. LimitHolds'
    BY <1>1, LimitForm, LimitFormNext DEF LimitInv
  <2>3. ASSUME NEW u, NEW c, u = UserOf[c], c = worker.msg.code, MaxTunnels[u] # -1
        PROVE  Cardinality(On(ix, u) \ {c}) < MaxTunnels[u]
    <3>1. u \in Users /\ c \in Codes /\ MaxTunnels[u] \in Nat
      BY <2>1, <2>3, Bounds, LimitForm DEF HelloRecord
    <3>2. Cardinality(On(ix, u)) <= MaxTunnels[u]
      BY <2>3, <3>1, LimitForm DEF LimitInv
    <3>3. c \in On(ix, u) \/ Cardinality(On(ix, u)) < MaxTunnels[u]
      BY <1>3, <2>3, <3>1 DEF CheckLimit, TunnelsOf, On
    <3>4. /\ IsFiniteSet(On(ix, u)) /\ Cardinality(On(ix, u)) \in Nat
          /\ Cardinality(On(ix, u) \ {c}) \in Nat
      BY OnFinite
    <3>5. Cardinality(On(ix, u) \ {c}) =
            IF c \in On(ix, u) THEN Cardinality(On(ix, u)) - 1 ELSE Cardinality(On(ix, u))
      BY ONLY <3>4, FS_RemoveElement
    <3>6. QED
      BY ONLY <3>1, <3>2, <3>3, <3>4, <3>5
  <2>4. Room'
    BY <1>1, <2>1, <2>3, LimitFormNext
  <2>5. QED
    BY <2>2, <2>4 DEF LimitInv
<1>4. QED
  BY <1>1, <1>2, <1>3

\* The session takes the room that was left for it.
LEMMA LimitInstalled ==
  ASSUME StateInv, LimitInv, Install, ix' # ix
  PROVE  LimitInv'
<1> DEFINE ps == Session(worker.msg)
<1>1. PICK c : c = worker.msg.code
  OBVIOUS
<1>2. /\ ps \in SessionRecord /\ ps.code = c /\ c \in Codes
      /\ worker.stage = "install" /\ worker' = Resting /\ ix' = Upsert(ix, ps)
  <2>1. worker.msg \in HelloRecord
    BY DEF Install, StateInv, TypeOK, Resting, HelloRecord
  <2>2. QED
    BY <1>1, <2>1, Bounds DEF Install, Session, SessionRecord, HelloRecord, Entitled
<1> HIDE DEF ps
<1>3. \A d \in Codes \ {c} : ix'.byCode[d] = ix.byCode[d]
  <2>1. ix'.byCode = [ix.byCode EXCEPT ![c] = ps]
    BY <1>2, UpsertKeepsIndices
  <2>2. QED
    BY <1>2, <2>1 DEF StateInv, TypeOK
<1>4. ASSUME NEW u \in Users, MaxTunnels[u] # -1
      PROVE  Cardinality(On(ix', u)) <= MaxTunnels[u]
  <2>1. MaxTunnels[u] \in Nat /\ Cardinality(On(ix, u)) <= MaxTunnels[u]
    BY <1>4, LimitForm DEF LimitInv
  <2>2. /\ IsFiniteSet(On(ix, u)) /\ IsFiniteSet(On(ix, u) \ {c})
        /\ Cardinality(On(ix, u)) \in Nat /\ Cardinality(On(ix, u) \ {c}) \in Nat
        /\ IsFiniteSet(On(ix', u)) /\ Cardinality(On(ix', u)) \in Nat
    BY OnFinite
  <2>3. CASE u = UserOf[c]
    <3>1. Cardinality(On(ix, u) \ {c}) < MaxTunnels[u]
      BY <1>1, <1>2, <1>4, <2>3, LimitForm DEF LimitInv
    <3>2. On(ix', u) \subseteq (On(ix, u) \ {c}) \cup {c}
      BY <1>3 DEF On, Online
    <3>3. /\ IsFiniteSet((On(ix, u) \ {c}) \cup {c})
          /\ Cardinality((On(ix, u) \ {c}) \cup {c}) = Cardinality(On(ix, u) \ {c}) + 1
      <4>1. c \notin On(ix, u) \ {c}
        OBVIOUS
      <4>2. QED
        BY ONLY <2>2, <4>1, FS_AddElement
    <3>4. Cardinality(On(ix', u)) <= Cardinality((On(ix, u) \ {c}) \cup {c})
      BY ONLY <3>2, <3>3, FS_Subset
    <3>5. QED
      BY ONLY <2>1, <2>2, <3>1, <3>3, <3>4
  <2>4. CASE u # UserOf[c]
    <3>1. On(ix', u) \subseteq On(ix, u)
      BY <1>3, <2>4 DEF On, Online
    <3>2. Cardinality(On(ix', u)) <= Cardinality(On(ix, u))
      BY ONLY <2>2, <3>1, FS_Subset
    <3>3. QED
      BY ONLY <2>1, <2>2, <3>2
  <2>5. QED
    BY <2>3, <2>4
<1>5. LimitHolds' /\ Room'
  BY <1>2, <1>4, LimitFormNext DEF Resting
<1>6. QED
  BY <1>5 DEF LimitInv

LEMMA LimitInit == Init => LimitInv
<1> SUFFICES ASSUME Init PROVE LimitInv
  OBVIOUS
<1>1. \A u : On(ix, u) = {}
  BY DEF Init, EmptyIndex, On, Online
<1>2. Cardinality({}) = 0
  BY FS_EmptySet
<1>3. LimitHolds
  BY <1>1, <1>2, LimitForm
<1>4. Room
  BY DEF Init, Resting, Room
<1>5. QED
  BY <1>3, <1>4 DEF LimitInv

LEMMA LimitStep == StateInv /\ LimitInv /\ [Next]_vars => LimitInv'
<1> SUFFICES ASSUME StateInv, LimitInv, [Next]_vars PROVE LimitInv'
  OBVIOUS
<1>1. ASSUME ix' = ix, worker' = worker \/ worker'.stage # "install" PROVE LimitInv'
  BY <1>1, LimitKept
<1>2. ASSUME NEW S, ix' = Remove(ix, S), worker' = worker PROVE LimitInv'
  <2>1. \A c \in Codes : ix'.byCode[c] \in {None, ix.byCode[c]}
    BY <1>2 DEF Remove
  <2>2. QED
    BY <1>2, <2>1, LimitKept
<1>3. ASSUME NEW j \in Jobs, Job(j) PROVE LimitInv'
  <2>1. CASE \E c \in Codes : EvictCode(j, c)
    BY <1>2, <2>1 DEF EvictCode, Evict
  <2>2. CASE ~ \E c \in Codes : EvictCode(j, c)
    BY <1>1, <1>3, <2>2
       DEF Job, WriteRename, WriteEnable, WriteDisable, WriteRekey, WriteUnbind, WriteDelete,
           WriteCreate, WriteUser, ListCodes, WriteDeleteUser, PurgeCodes
  <2>3. QED
    BY <2>1, <2>2
<1>4. ASSUME NEW j \in Jobs, NEW k \in Kinds, NEW c \in Codes, Begin(j, k, c) PROVE LimitInv'
  BY <1>1, <1>4 DEF Begin
<1>5. ASSUME NEW c \in Codes, NEW a \in Addrs, NEW d \in Devices, NEW s \in 0..MaxSecret,
             QueueHello(c, a, d, s)
      PROVE  LimitInv'
  BY <1>1, <1>5 DEF QueueHello
<1>6. CASE TakeHello
  BY <1>1, <1>6 DEF TakeHello, Resting
<1>7. CASE DeviceKnown \/ DeviceBinds
  BY <1>1, <1>7 DEF DeviceKnown, DeviceBinds, Proceed, Resting, StateInv, TypeOK
<1>8. CASE CheckLimit
  BY <1>8, LimitChecked
<1>9. CASE Install
  BY <1>1, <1>9, LimitInstalled DEF Install, Resting
<1>10. ASSUME NEW c \in Codes, FallSilent(c) \/ Heard(c) PROVE LimitInv'
  BY <1>1, <1>10 DEF FallSilent, Heard
<1>11. CASE Reap
  BY <1>2, <1>11 DEF Reap
<1>12. CASE UNCHANGED vars
  BY <1>1, <1>12 DEF vars
<1>13. QED
  BY <1>3, <1>4, <1>5, <1>6, <1>7, <1>8, <1>9, <1>10, <1>11, <1>12 DEF Next, HelloWorker

\* LimitHolds: however handshakes, evictions and reconnections interleave, a
\* user never has more tunnels than its limit.
THEOREM TunnelsWithinLimit == Spec => []LimitHolds
<1>1. LimitInv => LimitHolds
  BY DEF LimitInv
<1>2. QED
  BY <1>1, StateInit, StateStep, LimitInit, LimitStep, PTL DEF Spec

\* The indices agree and the limit of tunnels holds.
THEOREM SessionTableIsSound == Spec => []TableIsSound
<1>1. TypeOK /\ NoZombies /\ LimitHolds => TableIsSound
  BY DEF TableIsSound
<1>2. QED
  BY <1>1, IndicesAgree, TunnelsWithinLimit, PTL

-----------------------------------------------------------------------------
(* Reachable sessions *)

\* No two codes send from one address.
PrivateAddresses == \A u, v \in Uses : u[2] = v[2] => u[1] = v[1]

\* Whatever is queued, being let in or on the table comes from an address its
\* code may send from.
SendersAreKnown ==
  /\ \A i \in 1..Len(helloQ) : <<helloQ[i].code, helloQ[i].addr>> \in Uses
  /\ Busy => <<worker.msg.code, worker.msg.addr>> \in Uses
  /\ \A c \in Codes : ix.byCode[c] # None => <<c, ix.byCode[c].addr>> \in Uses

\* The slot of a session's address holds that session.
SlotsAreOwn == \A c \in Codes : ix.byCode[c] # None => ix.byAddr[ix.byCode[c].addr] = ix.byCode[c]

ReachInv == SendersAreKnown /\ SlotsAreOwn

\* The table loses the sessions of some codes, and nothing else.
LEMMA ReachKept ==
  ASSUME StateInv, ReachInv, PrivateAddresses, NEW C \in SUBSET Codes,
         \/ ix' = Remove(ix, {ix.byCode[c] : c \in C} \ {None})
         \/ ix' = ix /\ C = {},
         \A i \in 1..Len(helloQ') : <<helloQ'[i].code, helloQ'[i].addr>> \in Uses,
         Busy' => <<worker'.msg.code, worker'.msg.addr>> \in Uses
  PROVE  ReachInv'
<1>1. \A c \in Codes : ix'.byCode[c] = IF c \in C THEN None ELSE ix.byCode[c]
  BY RemoveTakesOnly
<1>2. SendersAreKnown'
  BY <1>1 DEF ReachInv, SendersAreKnown
<1>3. ASSUME NEW c \in Codes, ix'.byCode[c] # None
      PROVE  ix'.byAddr[ix'.byCode[c].addr] = ix'.byCode[c]
  <2>1. /\ c \notin C /\ ix'.byCode[c] = ix.byCode[c] /\ ix.byCode[c] # None
        /\ ix.byAddr[ix.byCode[c].addr] = ix.byCode[c]
        /\ ix.byCode[c].addr \in Addrs /\ <<c, ix.byCode[c].addr>> \in Uses
    BY <1>1, <1>3 DEF ReachInv, SlotsAreOwn, SendersAreKnown, StateInv, TypeOK, SessionRecord
  <2>2. ASSUME NEW d \in C, ix.byCode[d] # None, ix.byCode[d].addr = ix.byCode[c].addr
        PROVE  FALSE
    <3>1. <<d, ix.byCode[d].addr>> \in Uses
      BY <2>2 DEF ReachInv, SendersAreKnown
    <3>2. d = c
      BY <2>1, <2>2, <3>1 DEF PrivateAddresses
    <3>3. QED
      BY <2>1, <2>2, <3>2
  <2>3. ~ \E ps \in {ix.byCode[d] : d \in C} \ {None} : ps.addr = ix.byCode[c].addr
    BY <2>2
  <2>4. QED
    BY <2>1, <2>3 DEF Remove
<1>4. QED
  BY <1>2, <1>3 DEF ReachInv, SlotsAreOwn

\* A session takes its own address's slot; the others have addresses of their own.
LEMMA ReachInstalled ==
  ASSUME StateInv, ReachInv, PrivateAddresses, Install, ix' # ix
  PROVE  ReachInv'
<1> DEFINE d == worker.msg.code
           ps == Session(worker.msg)
           dead == {ix.byCode[d]} \ {None}
<1>1. Busy /\ worker.msg \in HelloRecord /\ d \in Codes /\ <<d, worker.msg.addr>> \in Uses
  BY DEF Install, Busy, StateInv, TypeOK, Resting, HelloRecord, ReachInv, SendersAreKnown
<1>2. ps \in SessionRecord /\ ps.code = d /\ ps.addr = worker.msg.addr /\ ps.addr \in Addrs
  BY <1>1, Bounds DEF Session, SessionRecord, HelloRecord, Entitled
<1>3. ix' = Upsert(ix, ps) /\ helloQ' = helloQ /\ worker' = Resting
  BY DEF Install
<1> HIDE DEF ps
<1>4. ix'.byCode = [ix.byCode EXCEPT ![d] = ps]
  BY <1>2, <1>3, UpsertKeepsIndices
<1>5. ix'.byCode[d] = ps /\ \A c \in Codes \ {d} : ix'.byCode[c] = ix.byCode[c]
  BY <1>1, <1>4 DEF StateInv, TypeOK
<1>6. ix'.byAddr = [Remove(ix, dead).byAddr EXCEPT ![ps.addr] = ps]
  BY <1>2, <1>3 DEF Upsert
<1>7. Remove(ix, dead).byAddr =
        [a \in Addrs |-> IF \E q \in dead : q.addr = a THEN None ELSE ix.byAddr[a]]
  BY DEF Remove
<1>8. SendersAreKnown'
  BY <1>1, <1>2, <1>3, <1>5 DEF ReachInv, SendersAreKnown, Busy, Resting
<1>9. ASSUME NEW c \in Codes, ix'.byCode[c] # None
      PROVE  ix'.byAddr[ix'.byCode[c].addr] = ix'.byCode[c]
  <2>1. CASE c = d
    BY <1>2, <1>5, <1>6, <1>7, <2>1
  <2>2. CASE c # d
    <3>1. /\ ix'.byCode[c] = ix.byCode[c] /\ ix.byCode[c] # None
          /\ ix.byAddr[ix.byCode[c].addr] = ix.byCode[c]
          /\ ix.byCode[c].addr \in Addrs /\ <<c, ix.byCode[c].addr>> \in Uses
      BY <1>5, <1>9, <2>2 DEF ReachInv, SlotsAreOwn, SendersAreKnown, StateInv, TypeOK, SessionRecord
    <3>2. ix.byCode[c].addr # ps.addr
      BY <1>1, <1>2, <2>2, <3>1 DEF PrivateAddresses
    <3>3. ASSUME NEW q \in dead PROVE q.addr # ix.byCode[c].addr
      BY <1>1, <2>2, <3>1, <3>3 DEF PrivateAddresses, ReachInv, SendersAreKnown
    <3>4. Remove(ix, dead).byAddr[ix.byCode[c].addr] = ix.byAddr[ix.byCode[c].addr]
      BY ONLY <1>7, <3>1, <3>3
    <3>5. ix'.byAddr[ix.byCode[c].addr] = Remove(ix, dead).byAddr[ix.byCode[c].addr]
      BY ONLY <1>6, <1>7, <3>1, <3>2
    <3>6. QED
      BY ONLY <3>1, <3>4, <3>5
  <2>3. QED
    BY <2>1, <2>2
<1>10. QED
  BY <1>8, <1>9 DEF ReachInv, SlotsAreOwn

LEMMA ReachInit == Init => ReachInv
BY DEF Init, EmptyIndex, Resting, Busy, ReachInv, SendersAreKnown, SlotsAreOwn

LEMMA ReachStep == PrivateAddresses /\ StateInv /\ ReachInv /\ [Next]_vars => ReachInv'
<1> SUFFICES ASSUME PrivateAddresses, StateInv, ReachInv, [Next]_vars PROVE ReachInv'
  OBVIOUS
<1> USE Bounds
<1>1. ASSUME ix' = ix, helloQ' = helloQ, Busy' => Busy /\ worker'.msg = worker.msg
      PROVE  ReachInv'
  <2>1. {} \in SUBSET Codes
    OBVIOUS
  <2>2. QED
    BY <1>1, <2>1, ReachKept DEF ReachInv, SendersAreKnown
<1>2. ASSUME NEW C \in SUBSET Codes, ix' = Remove(ix, {ix.byCode[c] : c \in C} \ {None}),
             helloQ' = helloQ, worker' = worker
      PROVE  ReachInv'
  <2>1. Busy' <=> Busy
    BY <1>2 DEF Busy
  <2>2. QED
    BY <1>2, <2>1, ReachKept DEF ReachInv, SendersAreKnown
<1>3. ASSUME NEW j \in Jobs, Job(j) PROVE ReachInv'
  <2>1. CASE \E c \in Codes : EvictCode(j, c)
    <3>1. PICK c \in Codes : EvictCode(j, c)
      BY <2>1
    <3>2. ix' = Remove(ix, {ix.byCode[d] : d \in {c}} \ {None}) /\ helloQ' = helloQ /\ worker' = worker
      BY <3>1 DEF EvictCode, Evict
    <3>3. {c} \in SUBSET Codes
      OBVIOUS
    <3>4. QED
      BY <1>2, <3>2, <3>3
  <2>2. CASE ~ \E c \in Codes : EvictCode(j, c)
    <3>1. ix' = ix /\ worker' = worker /\ helloQ' = helloQ
      BY <1>3, <2>2 DEF Job, WriteRename, WriteEnable, WriteDisable, WriteRekey, WriteUnbind,
                        WriteDelete, WriteCreate, WriteUser, ListCodes, WriteDeleteUser, PurgeCodes
    <3>2. QED
      BY <1>1, <3>1 DEF Busy
  <2>3. QED
    BY <2>1, <2>2
<1>4. ASSUME NEW j \in Jobs, NEW k \in Kinds, NEW c \in Codes, Begin(j, k, c) PROVE ReachInv'
  BY <1>1, <1>4 DEF Begin, Busy
<1>5. ASSUME NEW c \in Codes, NEW a \in Addrs, NEW d \in Devices, NEW s \in 0..MaxSecret,
             QueueHello(c, a, d, s)
      PROVE  ReachInv'
  <2>1. /\ helloQ' = Append(helloQ, Hello(c, a, d, s)) /\ <<c, a>> \in Uses
        /\ ix' = ix /\ worker' = worker
    BY <1>5 DEF QueueHello
  <2>2. helloQ \in Seq(HelloRecord) /\ Hello(c, a, d, s) \in HelloRecord
    BY DEF StateInv, TypeOK, Hello, HelloRecord
  <2>3. ASSUME NEW i \in 1..Len(helloQ') PROVE <<helloQ'[i].code, helloQ'[i].addr>> \in Uses
    <3>1. helloQ'[i] = IF i = Len(helloQ) + 1 THEN Hello(c, a, d, s) ELSE helloQ[i]
      BY <2>1, <2>2
    <3>2. i # Len(helloQ) + 1 => i \in 1..Len(helloQ)
      BY <2>1, <2>2
    <3>3. QED
      BY <2>1, <3>1, <3>2, SMTT(30) DEF ReachInv, SendersAreKnown, Hello
  <2>4. Busy' <=> Busy
    BY <2>1 DEF Busy
  <2>5. {} \in SUBSET Codes
    OBVIOUS
  <2>6. QED
    BY <2>1, <2>3, <2>4, <2>5, ReachKept DEF ReachInv, SendersAreKnown
<1>6. CASE TakeHello
  <2>1. /\ helloQ # <<>> /\ helloQ' = Tail(helloQ) /\ ix' = ix
        /\ worker' = Resting \/ worker'.msg = Head(helloQ)
    BY <1>6 DEF TakeHello
  <2>2. helloQ \in Seq(HelloRecord)
    BY DEF StateInv, TypeOK
  <2>3. \A i \in 1..Len(helloQ') : <<helloQ'[i].code, helloQ'[i].addr>> \in Uses
    BY <2>1, <2>2 DEF ReachInv, SendersAreKnown
  <2>4. <<Head(helloQ).code, Head(helloQ).addr>> \in Uses
    BY <2>1, <2>2 DEF ReachInv, SendersAreKnown
  <2>5. Busy' => <<worker'.msg.code, worker'.msg.addr>> \in Uses
    BY <2>1, <2>4 DEF Busy, Resting
  <2>6. {} \in SUBSET Codes
    OBVIOUS
  <2>7. QED
    BY <2>1, <2>3, <2>5, <2>6, ReachKept
<1>7. CASE DeviceKnown \/ DeviceBinds \/ CheckLimit
  <2>1. Busy /\ (worker' = Resting \/ \E stage \in {"limit", "install"} : Proceed(stage))
        /\ ix' = ix /\ helloQ' = helloQ
    BY <1>7 DEF DeviceKnown, DeviceBinds, CheckLimit, Busy
  <2>2. Busy' => worker'.msg = worker.msg
    BY <2>1 DEF Busy, Resting, Proceed, StateInv, TypeOK
  <2>3. QED
    BY <1>1, <2>1, <2>2
<1>8. CASE Install
  <2>1. CASE ix' = ix
    BY <1>1, <1>8, <2>1 DEF Install, Busy, Resting
  <2>2. QED
    BY <1>8, <2>1, ReachInstalled
<1>9. ASSUME NEW c \in Codes, FallSilent(c) \/ Heard(c) PROVE ReachInv'
  BY <1>1, <1>9 DEF FallSilent, Heard, Busy
<1>10. CASE Reap
  <2>1. {ix.byCode[d] : d \in quiet} \ {None} = {ix.byCode[d] : d \in quiet} /\ quiet \in SUBSET Codes
    BY DEF StateInv, TypeOK, Online
  <2>2. QED
    BY <1>2, <1>10, <2>1 DEF Reap
<1>11. CASE UNCHANGED vars
  BY <1>1, <1>11 DEF vars, Busy
<1>12. QED
  BY <1>3, <1>4, <1>5, <1>6, <1>7, <1>8, <1>9, <1>10, <1>11 DEF Next, HelloWorker

-----------------------------------------------------------------------------
(* Evictions *)

\* The panel is asked one thing at a time.
OneRequest == \A i, j \in Jobs : i = j

\* A request that has written is about to evict c: c is on its list, or will be.
EvictionComes(c) ==
  \E j \in Jobs : \/ job[j].stage \in {"purge", "evict"} /\ c \in job[j].todo
                  \/ job[j].stage = "list" /\ UserOf[job[j].code] = UserOf[c] /\ Exists(c)

\* Lost(c) is what EvictionsHold is about, in a form that two steps can be compared by.
Lost(c) == ix.byCode[c] # None /\ ix.byCode[c].entitled /\ ~Entitled(c, ix.byCode[c].secret)

\* What a request has read of the code it is about to write is what the store
\* still says, but for the device; whoever deletes a user has all its codes.
CopiesAreFresh ==
  \A j \in Jobs : job[j].stage = "write" =>
    LET c == job[j].code IN
    /\ job[j].kind # "create" /\ Exists(c) =>
         job[j].copy.secret = codes[c].secret /\ job[j].copy.disabled = codes[c].disabled
    /\ job[j].kind = "delete user" =>
         \A d \in Codes : Exists(d) /\ UserOf[d] = UserOf[c] => d \in job[j].todo

\* The codes of a user are deleted after the user is.
PurgedAreDeleted ==
  \A j \in Jobs : job[j].stage = "purge" => users[UserOf[job[j].code]] = "deleted"

EvictInv ==
  /\ CopiesAreFresh /\ PurgedAreDeleted
  /\ \A c \in Codes : Lost(c) => EvictionComes(c)

\* The step changes nobody's rights.
SameRights ==
  /\ users' = users
  /\ \A c \in Codes : /\ Exists(c)' <=> Exists(c)
                      /\ Exists(c) => /\ codes'[c].secret = codes[c].secret
                                      /\ codes'[c].disabled = codes[c].disabled

\* Nobody's rights change, no request moves and sessions only go.
LEMMA EvictKept ==
  ASSUME StateInv, EvictInv, SameRights, job' = job,
         \A c \in Codes : ix'.byCode[c] \in {None, ix.byCode[c]}
  PROVE  EvictInv'
<1>1. CopiesAreFresh'
  BY ZenonT(30) DEF StateInv, CopiesAreCodes, EvictInv, CopiesAreFresh, SameRights
<1>2. PurgedAreDeleted'
  BY DEF EvictInv, PurgedAreDeleted, SameRights
<1>3. ASSUME NEW c \in Codes, Lost(c)' PROVE EvictionComes(c)'
  <2>1. ix.byCode[c] = ix'.byCode[c] /\ ix'.byCode[c] # None
    BY <1>3 DEF Lost
  <2>2. Lost(c)
    BY <1>3, <2>1, Bounds DEF Lost, Entitled, SameRights
  <2>3. EvictionComes(c)
    BY <2>2 DEF EvictInv
  <2>4. QED
    BY <2>3 DEF EvictionComes, SameRights
<1>4. QED
  BY <1>1, <1>2, <1>3 DEF EvictInv

\* A request that has not written yet has left nobody to evict.
LEMMA NobodyIsLost ==
  ASSUME EvictInv, OneRequest, NEW j \in Jobs, job[j].stage \in {"idle", "write"}
  PROVE  \A c \in Codes : ~Lost(c)
<1>1. \A i \in Jobs : i = j
  BY DEF OneRequest
<1>2. QED
  BY <1>1 DEF EvictInv, EvictionComes

\* The request moves on, and has on its list whoever loses an entitlement.
LEMMA EvictWritten ==
  ASSUME StateInv, OneRequest, NEW j \in Jobs, NEW stage \in {"list", "purge", "evict"},
         NEW todo \in SUBSET Codes, Step(j, stage, todo),
         stage = "purge" => users'[UserOf[job[j].code]] = "deleted",
         \A c \in Codes : Lost(c)' =>
           IF stage = "list" THEN Exists(c)' /\ UserOf[job[j].code] = UserOf[c] ELSE c \in todo
  PROVE  EvictInv'
<1> DEFINE next == IF stage = "evict" /\ todo = {} THEN NoJob
                     ELSE [job[j] EXCEPT !.stage = stage, !.todo = todo]
<1>1. \A i \in Jobs : i = j
  BY DEF OneRequest
<1>2. job'[j] = next /\ job[j] \in JobRecord
  BY DEF Step, StateInv, TypeOK
<1>3. /\ next.stage # "write" /\ (next.stage = "purge" => stage = "purge" /\ next.code = job[j].code)
      /\ stage # "evict" \/ todo # {} =>
           next.stage = stage /\ next.todo = todo /\ next.code = job[j].code
  BY <1>2 DEF NoJob, JobRecord
<1> HIDE DEF next
<1>4. CopiesAreFresh' /\ PurgedAreDeleted'
  BY <1>1, <1>2, <1>3 DEF CopiesAreFresh, PurgedAreDeleted
<1>5. ASSUME NEW c \in Codes, Lost(c)' PROVE EvictionComes(c)'
  <2>1. IF stage = "list" THEN Exists(c)' /\ UserOf[job[j].code] = UserOf[c] ELSE c \in todo
    BY <1>5
  <2>2. stage # "evict" \/ todo # {}
    BY <2>1
  <2>3. QED
    BY <1>2, <1>3, <2>1, <2>2 DEF EvictionComes
<1>6. QED
  BY <1>4, <1>5 DEF EvictInv

\* A code record is saved; unless it is put on the list, the code keeps what
\* entitles its sessions.
LEMMA EvictSaved ==
  ASSUME StateInv, EvictInv, OneRequest, NEW j \in Jobs, NEW rec \in CodeRecord,
         NEW todo \in SUBSET Codes, Save(j, rec, todo),
         job[j].stage = "write", ix' = ix, users' = users,
         Exists(job[j].code) =>
           \/ job[j].code \in todo
           \/ /\ rec.secret = codes[job[j].code].secret
              /\ rec.disabled => codes[job[j].code].disabled
  PROVE  EvictInv'
<1> DEFINE d == job[j].code
<1>1. \A c \in Codes : ~Lost(c)
  BY NobodyIsLost
<1>2. d \in Codes /\ codes \in [Codes -> CodeRecord \cup {None, Gone}] /\ rec \notin {None, Gone}
  BY CodesAreRecords DEF StateInv, CopiesAreCodes, TypeOK
<1>3. CASE Exists(d)
  <2>1. codes' = [codes EXCEPT ![d] = rec] /\ Step(j, "evict", todo)
    BY <1>3 DEF Save
  <2>2. ASSUME NEW c \in Codes, Lost(c)' PROVE c \in todo
    BY <1>1, <1>2, <1>3, <2>1, <2>2 DEF Lost, Entitled, Exists
  <2>3. QED
    BY <2>1, <2>2, EvictWritten
<1>4. CASE ~Exists(d)
  <2>1. codes' = codes /\ Step(j, "evict", {})
    BY <1>4 DEF Save
  <2>2. \A c \in Codes : ~Lost(c)'
    BY <1>1, <2>1 DEF Lost, Entitled, Exists
  <2>3. {} \in SUBSET Codes
    OBVIOUS
  <2>4. QED
    BY <2>1, <2>2, <2>3, EvictWritten
<1>5. QED
  BY <1>3, <1>4

LEMMA EvictJob ==
  ASSUME StateInv, EvictInv, OneRequest, NEW j \in Jobs, Job(j)
  PROVE  EvictInv'
<1> USE Bounds
<1> DEFINE d == job[j].code
           u == UserOf[d]
<1>1. job[j].stage = "write" =>
        d \in Codes /\ (job[j].kind # "create" => job[j].copy \in CodeRecord) /\ \A c \in Codes : ~Lost(c)
  BY NobodyIsLost DEF StateInv, CopiesAreCodes
<1>2. job[j].todo \in SUBSET Codes /\ {} \in SUBSET Codes /\ codes \in [Codes -> CodeRecord \cup {None, Gone}]
  BY DEF StateInv, TypeOK, JobRecord
<1>3. job[j].stage = "write" /\ job[j].kind # "create" /\ Exists(d) =>
        job[j].copy.secret = codes[d].secret /\ job[j].copy.disabled = codes[d].disabled
  BY DEF EvictInv, CopiesAreFresh
<1>4. CASE WriteRename(j)
  BY <1>1, <1>2, <1>3, <1>4, EvictSaved DEF WriteRename, Writes
<1>5. CASE WriteEnable(j)
  <2>1. job[j].stage = "write" /\ job[j].copy \in CodeRecord
    BY <1>1, <1>5 DEF WriteEnable, Writes
  <2>2. PICK rec \in CodeRecord : rec = [job[j].copy EXCEPT !.disabled = FALSE]
    BY <1>5, CopyIsRecord DEF WriteEnable, Writes
  <2>3. rec.secret = job[j].copy.secret /\ ~rec.disabled
    BY <2>1, <2>2 DEF CodeRecord
  <2>4. QED
    BY <1>2, <1>3, <1>5, <2>1, <2>2, <2>3, EvictSaved DEF WriteEnable, Writes
<1>6. CASE WriteDisable(j)
  <2>1. job[j].stage = "write" /\ job[j].copy \in CodeRecord
    BY <1>1, <1>6 DEF WriteDisable, Writes
  <2>2. PICK rec \in CodeRecord : rec = [job[j].copy EXCEPT !.disabled = TRUE]
    BY <1>6, CopyIsRecord DEF WriteDisable, Writes
  <2>3. rec.secret = job[j].copy.secret
    BY <2>1, <2>2 DEF CodeRecord
  <2>4. PICK todo \in SUBSET Codes : todo = IF job[j].copy.disabled THEN {} ELSE {d}
    BY <1>1, <2>1
  <2>5. Exists(d) => d \in todo \/ (rec.secret = codes[d].secret /\ (rec.disabled => codes[d].disabled))
    BY <1>3, <1>6, <2>1, <2>3, <2>4 DEF WriteDisable, Writes
  <2>6. Save(j, rec, todo) /\ ix' = ix /\ users' = users
    BY <1>6, <2>2, <2>4 DEF WriteDisable
  <2>7. QED
    BY <2>1, <2>5, <2>6, EvictSaved
<1>7. CASE WriteRekey(j)
  <2>1. job[j].stage = "write" /\ drawn + 1 \in 0..MaxSecret /\ {d} \in SUBSET Codes
    BY <1>1, <1>7 DEF WriteRekey, Writes, StateInv, TypeOK
  <2>2. PICK rec \in CodeRecord : rec = [job[j].copy EXCEPT !.secret = drawn + 1]
    BY <1>7, <2>1, CopyIsRecord DEF WriteRekey, Writes
  <2>3. Save(j, rec, {d}) /\ ix' = ix /\ users' = users
    BY <1>7, <2>2 DEF WriteRekey
  <2>4. QED
    BY <2>1, <2>3, EvictSaved
<1>8. CASE WriteUnbind(j)
  <2>1. job[j].stage = "write" /\ ix' = ix /\ users' = users /\ {d} \in SUBSET Codes
    BY <1>1, <1>8 DEF WriteUnbind, Writes
  <2>2. ASSUME NEW c \in Codes, Lost(c)' PROVE FALSE
    <3>1. ix.byCode[c] # None /\ ix.byCode[c].entitled /\ Entitled(c, ix.byCode[c].secret)
      BY <1>1, <2>1, <2>2 DEF Lost
    <3>2. codes[c] \in CodeRecord
      BY <1>2, <3>1 DEF Entitled, Exists
    <3>3. codes'[c] \in CodeRecord /\ codes'[c].secret = codes[c].secret
            /\ codes'[c].disabled = codes[c].disabled
      <4>1. [codes[c] EXCEPT !.fp = None] \in CodeRecord
        BY <3>2 DEF CodeRecord, Fingerprints
      <4>2. codes'[c] = codes[c] \/ codes'[c] = [codes[c] EXCEPT !.fp = None]
        BY <1>1, <1>2, <1>8, <2>1 DEF WriteUnbind
      <4>3. QED
        BY <3>2, <4>1, <4>2 DEF CodeRecord
    <3>4. QED
      BY <2>1, <2>2, <3>1, <3>3, CodesAreRecords DEF Lost, Entitled, Exists
  <2>3. Step(j, "evict", {d}) \/ Step(j, "evict", {})
    BY <1>8 DEF WriteUnbind
  <2>4. QED
    BY <1>2, <2>1, <2>2, <2>3, EvictWritten
<1>9. CASE WriteDelete(j)
  <2>1. /\ job[j].stage = "write" /\ ix' = ix /\ users' = users /\ {d} \in SUBSET Codes
        /\ codes' = [codes EXCEPT ![d] = Gone]
    BY <1>1, <1>9 DEF WriteDelete, Writes
  <2>2. ASSUME NEW c \in Codes, Lost(c)' PROVE c = d /\ Exists(d)
    BY <1>1, <1>2, <2>1, <2>2 DEF Lost, Entitled, Exists
  <2>3. PICK todo \in SUBSET Codes : todo = IF Exists(d) THEN {d} ELSE {}
    BY <2>1
  <2>4. Step(j, "evict", todo)
    BY <1>9, <2>3 DEF WriteDelete
  <2>5. \A c \in Codes : Lost(c)' => c \in todo
    BY <2>2, <2>3
  <2>6. QED
    BY <2>4, <2>5, EvictWritten
<1>10. CASE WriteCreate(j)
  <2>1. job[j].stage = "write" /\ ix' = ix /\ users' = users /\ Step(j, "evict", {})
    BY <1>10 DEF WriteCreate, Writes
  <2>2. \A c \in Codes : codes'[c] = codes[c] \/ codes[c] = None
    BY <1>2, <1>10 DEF WriteCreate
  <2>3. \A c \in Codes : ~Lost(c)'
    BY <1>1, <2>1, <2>2 DEF Lost, Entitled, Exists
  <2>4. QED
    BY <1>2, <2>1, <2>3, EvictWritten
<1>11. CASE WriteUser(j)
  <2>1. job[j].stage = "write" /\ ix' = ix /\ codes' = codes /\ d \in Codes /\ u \in Users
        /\ users \in [Users -> {"active", "disabled", "deleted"}]
    BY <1>1, <1>11 DEF WriteUser, Writes, StateInv, TypeOK
  <2>2. CASE Step(j, "list", {}) /\ users' = [users EXCEPT ![u] = "disabled"]
    <3>1. ASSUME NEW c \in Codes, Lost(c)' PROVE Exists(c)' /\ u = UserOf[c]
      BY <1>1, <2>1, <2>2, <3>1 DEF Lost, Entitled, Exists
    <3>2. QED
      BY <1>2, <2>2, <3>1, EvictWritten
  <2>3. CASE /\ Step(j, "evict", {})
             /\ \A v \in Users : users[v] = "active" => users'[v] = "active"
    <3>1. \A c \in Codes : ~Lost(c)'
      BY <1>1, <2>1, <2>3 DEF Lost, Entitled, Exists
    <3>2. QED
      BY <1>2, <2>3, <3>1, EvictWritten
  <2>4. QED
    BY <1>11, <2>1, <2>2, <2>3 DEF WriteUser, Writes
<1>12. CASE ListCodes(j)
  <2>1. PICK todo \in SUBSET Codes : todo = {c \in Codes : Exists(c) /\ UserOf[c] = u}
    OBVIOUS
  <2>2. Step(j, "evict", todo) /\ ix' = ix /\ codes' = codes /\ users' = users /\ job[j].stage = "list"
    BY <1>12, <2>1 DEF ListCodes, store
  <2>3. ASSUME NEW c \in Codes, Lost(c)' PROVE c \in todo
    <3>1. EvictionComes(c)
      BY <2>2, <2>3 DEF Lost, Entitled, Exists, EvictInv
    <3>2. QED
      BY <2>1, <2>2, <3>1 DEF EvictionComes, OneRequest
  <2>4. QED
    BY <2>2, <2>3, EvictWritten
<1>13. CASE WriteDeleteUser(j)
  <2>1. /\ job[j].stage = "write" /\ job[j].kind = "delete user" /\ ix' = ix /\ codes' = codes
        /\ d \in Codes /\ u \in Users /\ users \in [Users -> {"active", "disabled", "deleted"}]
        /\ users' = [users EXCEPT ![u] = "deleted"]
    BY <1>1, <1>13 DEF WriteDeleteUser, Writes, StateInv, TypeOK
  <2>2. ASSUME NEW c \in Codes, Lost(c)' PROVE users[u] = "active" /\ UserOf[c] = u /\ Exists(c)
    BY <1>1, <2>1, <2>2 DEF Lost, Entitled, Exists
  <2>3. ASSUME NEW c \in Codes, Lost(c)' PROVE c \in job[j].todo
    BY <2>1, <2>2, <2>3 DEF EvictInv, CopiesAreFresh
  <2>4. CASE users[u] = "deleted"
    <3>1. Step(j, "evict", {})
      BY <1>13, <2>4 DEF WriteDeleteUser
    <3>2. \A c \in Codes : ~Lost(c)'
      BY <2>2, <2>4
    <3>3. QED
      BY <1>2, <3>1, <3>2, EvictWritten
  <2>5. CASE users[u] # "deleted"
    <3>1. Step(j, "purge", job[j].todo) /\ users'[u] = "deleted"
      BY <1>13, <2>1, <2>5 DEF WriteDeleteUser
    <3>2. QED
      BY <1>2, <2>3, <3>1, EvictWritten
  <2>6. QED
    BY <2>4, <2>5
<1>14. CASE PurgeCodes(j)
  <2>1. /\ job[j].stage = "purge" /\ Step(j, "evict", job[j].todo) /\ ix' = ix /\ users' = users
        /\ codes' = [c \in Codes |-> IF UserOf[c] = u /\ Exists(c) THEN Gone ELSE codes[c]]
        /\ users[u] = "deleted"
    BY <1>14 DEF PurgeCodes, EvictInv, PurgedAreDeleted
  <2>2. ASSUME NEW c \in Codes, Lost(c)' PROVE c \in job[j].todo
    <3>1. Lost(c)
      BY <2>1, <2>2 DEF Lost, Entitled, Exists
    <3>2. EvictionComes(c)
      BY <3>1 DEF EvictInv
    <3>3. QED
      BY <2>1, <3>2 DEF EvictionComes, OneRequest
  <2>3. QED
    BY <1>2, <2>1, <2>2, EvictWritten
<1>15. ASSUME NEW e \in Codes, EvictCode(j, e) PROVE EvictInv'
  <2>1. ix' = Remove(ix, {ix.byCode[c] : c \in {e}} \ {None}) /\ {e} \in SUBSET Codes
    BY <1>15 DEF EvictCode, Evict
  <2>2. \A c \in Codes : ix'.byCode[c] = IF c \in {e} THEN None ELSE ix.byCode[c]
    BY <2>1, RemoveTakesOnly
  <2>3. codes' = codes /\ users' = users /\ job[j].stage = "evict"
    BY <1>15 DEF EvictCode, store
  <2>4. ASSUME NEW c \in Codes, Lost(c)' PROVE c \in job[j].todo \ {e}
    <3>1. Lost(c) /\ c # e
      BY <2>2, <2>3, <2>4 DEF Lost, Entitled, Exists
    <3>2. EvictionComes(c)
      BY <3>1 DEF EvictInv
    <3>3. QED
      BY <2>3, <3>1, <3>2 DEF EvictionComes, OneRequest
  <2>5. Step(j, "evict", job[j].todo \ {e}) /\ job[j].todo \ {e} \in SUBSET Codes
    BY <1>2, <1>15 DEF EvictCode
  <2>6. QED
    BY <2>4, <2>5, EvictWritten
<1>16. QED
  BY <1>4, <1>5, <1>6, <1>7, <1>8, <1>9, <1>10, <1>11, <1>12, <1>13, <1>14, <1>15 DEF Job

LEMMA EvictInit == Init => EvictInv
<1> SUFFICES ASSUME Init PROVE EvictInv
  OBVIOUS
<1>1. \A j \in Jobs : job[j].stage = "idle"
  BY DEF Init, NoJob
<1>2. \A c \in Codes : ~Lost(c)
  BY DEF Init, EmptyIndex, Lost
<1>3. QED
  BY <1>1, <1>2 DEF EvictInv, CopiesAreFresh, PurgedAreDeleted

\* A handshake that knows its device, or registers it, changes a fingerprint only.
LEMMA DeviceKeepsRights ==
  ASSUME StateInv, DeviceKnown \/ DeviceBinds
  PROVE  SameRights
<1>1. codes \in [Codes -> CodeRecord \cup {None, Gone}] /\ users' = users
  BY DEF StateInv, TypeOK, DeviceKnown, DeviceBinds
<1>2. worker.msg.code \in Codes /\ worker.msg.dev \in Devices
  BY DEF StateInv, TypeOK, Resting, HelloRecord, DeviceKnown, DeviceBinds
<1>3. Fp[worker.msg.dev] \in Fingerprints /\ Fp2[worker.msg.dev] \in Fingerprints
  BY <1>2 DEF Fingerprints
<1>4. codes' = codes \/ \E fp \in Fingerprints :
        Exists(worker.msg.code) /\ codes' = [codes EXCEPT ![worker.msg.code].fp = fp]
  BY <1>3 DEF DeviceKnown, DeviceBinds
<1>5. ASSUME NEW fp \in Fingerprints, Exists(worker.msg.code),
             codes' = [codes EXCEPT ![worker.msg.code].fp = fp]
      PROVE  SameRights
  <2>1. codes[worker.msg.code] \in CodeRecord
    BY <1>1, <1>2, <1>5 DEF Exists
  <2>2. PICK rec : rec = [codes[worker.msg.code] EXCEPT !.fp = fp]
    OBVIOUS
  <2>3. /\ rec \in CodeRecord /\ rec.secret = codes[worker.msg.code].secret
        /\ rec.disabled = codes[worker.msg.code].disabled
    BY <2>1, <2>2 DEF CodeRecord
  <2>4. codes' = [codes EXCEPT ![worker.msg.code] = rec]
    BY <1>5, <2>2
  <2>5. QED
    BY <1>1, <1>2, <1>5, <2>3, <2>4, CodesAreRecords DEF SameRights, Exists
<1>6. QED
  BY <1>1, <1>4, <1>5 DEF SameRights, Exists

\* A session that is installed is entitled if the store says so at that moment.
LEMMA EvictInstalled ==
  ASSUME StateInv, EvictInv, Install, ix' # ix
  PROVE  EvictInv'
<1> DEFINE d == worker.msg.code
           ps == Session(worker.msg)
<1>1. worker.msg \in HelloRecord /\ d \in Codes
  BY DEF Install, StateInv, TypeOK, Resting, HelloRecord
<1>2. /\ ps \in SessionRecord /\ ps.code = d /\ ps.secret = worker.msg.secret
      /\ ps.entitled = Entitled(d, worker.msg.secret)
  BY <1>1, Bounds DEF Session, SessionRecord, HelloRecord, Entitled
<1>3. ix' = Upsert(ix, ps) /\ codes' = codes /\ users' = users /\ job' = job
  BY DEF Install, store
<1> HIDE DEF ps
<1>4. ix'.byCode = [ix.byCode EXCEPT ![d] = ps]
  BY <1>2, <1>3, UpsertKeepsIndices
<1>5. ix'.byCode[d] = ps /\ \A c \in Codes \ {d} : ix'.byCode[c] = ix.byCode[c]
  BY <1>1, <1>4 DEF StateInv, TypeOK
<1>6. ASSUME NEW c \in Codes, Lost(c)' PROVE EvictionComes(c)'
  <2>1. CASE c = d
    BY <1>2, <1>3, <1>5, <1>6, <2>1 DEF Lost, Entitled, Exists
  <2>2. CASE c # d
    <3>1. Lost(c)
      BY <1>3, <1>5, <1>6, <2>2 DEF Lost, Entitled, Exists
    <3>2. QED
      BY <1>3, <3>1 DEF EvictInv, EvictionComes, Exists
  <2>3. QED
    BY <2>1, <2>2
<1>7. CopiesAreFresh' /\ PurgedAreDeleted'
  BY <1>3 DEF EvictInv, CopiesAreFresh, PurgedAreDeleted, Exists
<1>8. QED
  BY <1>6, <1>7 DEF EvictInv

\* A request reads the code it is about, or the codes of the user it deletes.
LEMMA EvictBegun ==
  ASSUME StateInv, EvictInv, OneRequest, NEW j \in Jobs, NEW k \in Kinds, NEW c \in Codes,
         Begin(j, k, c)
  PROVE  EvictInv'
<1>1. job[j] = NoJob /\ codes' = codes /\ users' = users /\ ix' = ix /\ \A i \in Jobs : i = j
  BY DEF Begin, store, OneRequest
<1>2. /\ job'[j].kind = k /\ job'[j].code = c /\ job'[j].stage = "write" /\ job'[j].copy = codes[c]
      /\ k = "delete user" => job'[j].todo = {d \in Codes : Exists(d) /\ UserOf[d] = UserOf[c]}
  BY DEF Begin, StateInv, TypeOK
<1>3. CopiesAreFresh' /\ PurgedAreDeleted'
  BY <1>1, <1>2 DEF CopiesAreFresh, PurgedAreDeleted, Exists
<1>4. \A e \in Codes : ~Lost(e)'
  BY <1>1, NobodyIsLost DEF NoJob, Lost, Entitled, Exists
<1>5. QED
  BY <1>3, <1>4 DEF EvictInv

LEMMA EvictStep == OneRequest /\ StateInv /\ EvictInv /\ [Next]_vars => EvictInv'
<1> SUFFICES ASSUME OneRequest, StateInv, EvictInv, [Next]_vars PROVE EvictInv'
  OBVIOUS
<1>1. ASSUME codes' = codes, users' = users PROVE SameRights
  BY <1>1 DEF SameRights, Exists
<1>2. ASSUME codes' = codes, users' = users, job' = job, ix' = ix PROVE EvictInv'
  BY <1>1, <1>2, EvictKept
<1>3. ASSUME NEW j \in Jobs, Job(j) PROVE EvictInv'
  BY <1>3, EvictJob
<1>4. ASSUME NEW j \in Jobs, NEW k \in Kinds, NEW c \in Codes, Begin(j, k, c) PROVE EvictInv'
  BY <1>4, EvictBegun
<1>5. ASSUME NEW c \in Codes, NEW a \in Addrs, NEW d \in Devices, NEW s \in 0..MaxSecret,
             QueueHello(c, a, d, s)
      PROVE  EvictInv'
  BY <1>2, <1>5 DEF QueueHello, store
<1>6. CASE TakeHello \/ CheckLimit
  BY <1>2, <1>6 DEF TakeHello, CheckLimit, store
<1>7. CASE DeviceKnown \/ DeviceBinds
  BY <1>7, DeviceKeepsRights, EvictKept DEF DeviceKnown, DeviceBinds
<1>8. CASE Install
  <2>1. CASE ix' = ix
    BY <1>2, <1>8, <2>1 DEF Install, store
  <2>2. QED
    BY <1>8, <2>1, EvictInstalled
<1>9. ASSUME NEW c \in Codes, FallSilent(c) \/ Heard(c) PROVE EvictInv'
  BY <1>2, <1>9 DEF FallSilent, Heard, store
<1>10. CASE Reap
  <2>1. \A c \in Codes : ix'.byCode[c] \in {None, ix.byCode[c]}
    BY <1>10 DEF Reap, Remove
  <2>2. QED
    BY <1>1, <1>10, <2>1, EvictKept DEF Reap, store
<1>11. CASE UNCHANGED vars
  BY <1>2, <1>11 DEF vars, store
<1>12. QED
  BY <1>3, <1>4, <1>5, <1>6, <1>7, <1>8, <1>9, <1>10, <1>11 DEF Next, HelloWorker

\* EvictionsHold: when one thing at a time is asked of the panel, every session
\* that has lost what it was let in for is about to be evicted, whatever
\* handshakes run beside it (disable, rekey, delete, and the user's).
THEOREM LostSessionsAreEvicted == OneRequest => (Spec => []EvictionsHold)
<1> SUFFICES ASSUME OneRequest PROVE Spec => []EvictionsHold
  OBVIOUS
<1>1. EvictInv => EvictionsHold
  BY DEF EvictInv, Lost, EvictionComes, EvictionsHold, Doomed
<1>2. StateInv /\ EvictInv /\ [Next]_vars => EvictInv'
  BY EvictStep
<1>3. QED
  BY <1>1, <1>2, StateInit, StateStep, EvictInit, PTL DEF Spec

\* Reachable: where codes have addresses of their own, the packets of every
\* session on the table find it (upsert, evictLocked).
THEOREM SessionsAreReachable == PrivateAddresses => (Spec => []Reachable)
<1> SUFFICES ASSUME PrivateAddresses PROVE Spec => []Reachable
  OBVIOUS
<1>1. ReachInv => Reachable
  BY DEF ReachInv, SlotsAreOwn, Reachable
<1>2. StateInv /\ ReachInv /\ [Next]_vars => ReachInv'
  BY ReachStep
<1>3. QED
  BY <1>1, <1>2, StateInit, StateStep, ReachInit, PTL DEF Spec

\* Both of them, under both conditions.
THEOREM SessionsAreServedAsEntitled ==
  PrivateAddresses /\ OneRequest => (Spec => []ServedAsEntitled)
<1> SUFFICES ASSUME PrivateAddresses, OneRequest PROVE Spec => []ServedAsEntitled
  OBVIOUS
<1>1. (Spec => []EvictionsHold) /\ (Spec => []Reachable)
  BY LostSessionsAreEvicted, SessionsAreReachable
<1>2. Reachable /\ EvictionsHold => ServedAsEntitled
  BY DEF ServedAsEntitled
<1>3. QED
  BY <1>1, <1>2, PTL

-----------------------------------------------------------------------------
(* Device bindings *)

\* No request writes back a copy of a code, which may show an earlier binding.
NoCopiesWritten == Kinds \cap {"rename", "enable", "disable", "rekey"} = {}

\* A session of a code that was bound and is no longer is on a list.
UnboundIsListed ==
  \A c \in Codes : ix.byCode[c] # None /\ ix.byCode[c].bound /\ Exists(c) /\ codes[c].fp = None
    => \E j \in Jobs : job[j].stage = "evict" /\ c \in job[j].todo

\* A step that keeps the requests, but may install a device's fingerprint.
LEMMA BindKept ==
  ASSUME UnboundIsListed, job' = job,
         \A c \in Codes : ix'.byCode[c] \in {None, ix.byCode[c]},
         \A c \in Codes : Exists(c)' => Exists(c) /\ (codes'[c].fp = None => codes[c].fp = None)
  PROVE  UnboundIsListed'
BY DEF UnboundIsListed

\* A request moves on and keeps its list, or adds to it what it unbinds.
LEMMA BindWritten ==
  ASSUME StateInv, UnboundIsListed, NEW j \in Jobs, NEW stage \in {"list", "purge", "evict"},
         NEW todo \in SUBSET Codes, Step(j, stage, todo), ix' = ix,
         job[j].stage = "evict" => stage = "evict" /\ job[j].todo \subseteq todo,
         \A c \in Codes : ix.byCode[c] # None /\ Exists(c)' =>
            \/ Exists(c) /\ (codes'[c].fp = None => codes[c].fp = None)
            \/ stage = "evict" /\ c \in todo
  PROVE  UnboundIsListed'
<1> DEFINE next == IF stage = "evict" /\ todo = {} THEN NoJob
                     ELSE [job[j] EXCEPT !.stage = stage, !.todo = todo]
<1>1. job' = [job EXCEPT ![j] = next] /\ job \in [Jobs -> JobRecord]
  BY DEF Step, StateInv, TypeOK
<1>2. stage = "evict" /\ todo # {} => next.stage = "evict" /\ next.todo = todo
  BY <1>1 DEF JobRecord
<1> HIDE DEF next
<1>3. ASSUME NEW c \in Codes, ix'.byCode[c] # None, ix'.byCode[c].bound, Exists(c)', codes'[c].fp = None
      PROVE  \E i \in Jobs : job'[i].stage = "evict" /\ c \in job'[i].todo
  <2>1. CASE stage = "evict" /\ c \in todo
    BY <1>1, <1>2, <2>1
  <2>2. CASE Exists(c) /\ codes[c].fp = None
    <3>1. PICK i \in Jobs : job[i].stage = "evict" /\ c \in job[i].todo
      BY <1>3, <2>2 DEF UnboundIsListed
    <3>2. QED
      BY <1>1, <1>2, <3>1
  <2>3. QED
    BY <1>3, <2>1, <2>2
<1>4. QED
  BY <1>3 DEF UnboundIsListed

LEMMA BindJob ==
  ASSUME StateInv, RouteInv, UnboundIsListed, NoCopiesWritten, NEW j \in Jobs, Job(j)
  PROVE  UnboundIsListed' /\ BindingSticks
<1> USE Bounds
<1> DEFINE d == job[j].code
<1>1. /\ job[j].stage # "idle" => d \in Codes
      /\ job[j].kind \in Kinds \cup {"none"} /\ job[j].todo \in SUBSET Codes /\ {} \in SUBSET Codes
      /\ codes \in [Codes -> CodeRecord \cup {None, Gone}]
  BY DEF StateInv, CopiesAreCodes, TypeOK, JobRecord
<1>2. ~WriteRename(j) /\ ~WriteEnable(j) /\ ~WriteDisable(j) /\ ~WriteRekey(j)
  BY <1>1 DEF NoCopiesWritten, WriteRename, WriteEnable, WriteDisable, WriteRekey, Writes
<1>3. ASSUME \A c \in Codes : Exists(c)' => Exists(c) /\ codes'[c] = codes[c]
      PROVE  /\ BindingSticks
             /\ \A c \in Codes : Exists(c)' => Exists(c) /\ (codes'[c].fp = None => codes[c].fp = None)
  BY <1>3 DEF BindingSticks
<1>4. CASE WriteUnbind(j)
  <2>1. job[j].stage = "write" /\ job[j].kind = "unbind" /\ ix' = ix /\ d \in Codes
    BY <1>1, <1>4 DEF WriteUnbind, Writes
  <2>2. CASE Exists(d)
    <3>1. codes' = [codes EXCEPT ![d].fp = None] /\ Step(j, "evict", {d}) /\ {d} \in SUBSET Codes
      BY <1>4, <2>1, <2>2 DEF WriteUnbind
    <3>2. codes[d] \in CodeRecord
      BY <1>1, <2>1, <2>2 DEF Exists
    <3>3. codes'[d].fp = None /\ \A c \in Codes \ {d} : codes'[c] = codes[c]
      BY <1>1, <2>1, <3>1, <3>2 DEF CodeRecord
    <3>4. UnboundIsListed'
      BY <2>1, <3>1, <3>3, BindWritten DEF Exists
    <3>5. BindingSticks
      BY <2>1, <3>3 DEF BindingSticks, Writes
    <3>6. QED
      BY <3>4, <3>5
  <2>3. CASE ~Exists(d)
    <3>1. codes' = codes /\ Step(j, "evict", {})
      BY <1>4, <2>3 DEF WriteUnbind
    <3>2. QED
      BY <1>1, <1>3, <2>1, <3>1, BindWritten DEF Exists
  <2>4. QED
    BY <2>2, <2>3
<1>5. CASE WriteDelete(j)
  <2>1. /\ job[j].stage = "write" /\ ix' = ix /\ d \in Codes
        /\ codes' = [codes EXCEPT ![d] = Gone]
    BY <1>1, <1>5 DEF WriteDelete, Writes
  <2>2. PICK todo \in SUBSET Codes : todo = IF Exists(d) THEN {d} ELSE {}
    BY <2>1
  <2>3. Step(j, "evict", todo)
    BY <1>5, <2>2 DEF WriteDelete
  <2>4. \A c \in Codes : Exists(c)' => Exists(c) /\ codes'[c] = codes[c]
    BY <1>1, <2>1 DEF Exists
  <2>5. QED
    BY <1>3, <2>1, <2>3, <2>4, BindWritten
<1>6. CASE WriteCreate(j)
  <2>1. job[j].stage = "write" /\ ix' = ix /\ Step(j, "evict", {})
    BY <1>6 DEF WriteCreate, Writes
  <2>2. \A c \in Codes : codes'[c] = codes[c] \/ codes[c] = None
    BY <1>1, <1>6 DEF WriteCreate
  <2>3. \A c \in Codes : codes[c] = None => ix.byCode[c] = None
    BY DEF RouteInv, KnownCodes
  <2>4. UnboundIsListed'
    BY <1>1, <2>1, <2>2, <2>3, BindWritten DEF Exists
  <2>5. BindingSticks
    BY <2>2 DEF BindingSticks, Exists
  <2>6. QED
    BY <2>4, <2>5
<1>7. CASE WriteUser(j) \/ ListCodes(j) \/ WriteDeleteUser(j)
  <2>1. /\ job[j].stage # "evict" /\ ix' = ix /\ codes' = codes
        /\ \/ Step(j, "evict", {}) \/ Step(j, "list", {}) \/ Step(j, "purge", job[j].todo)
           \/ Step(j, "evict", {c \in Codes : Exists(c) /\ UserOf[c] = UserOf[d]})
    BY <1>7 DEF WriteUser, ListCodes, WriteDeleteUser, Writes, store
  <2>2. {c \in Codes : Exists(c) /\ UserOf[c] = UserOf[d]} \in SUBSET Codes
    OBVIOUS
  <2>3. \A c \in Codes : Exists(c)' => Exists(c) /\ codes'[c] = codes[c]
    BY <2>1 DEF Exists
  <2>4. QED
    BY <1>1, <1>3, <2>1, <2>2, <2>3, BindWritten
<1>8. CASE PurgeCodes(j)
  <2>1. job[j].stage = "purge" /\ ix' = ix /\ Step(j, "evict", job[j].todo)
    BY <1>8 DEF PurgeCodes
  <2>2. \A c \in Codes : Exists(c)' => Exists(c) /\ codes'[c] = codes[c]
    BY <1>8 DEF PurgeCodes, Exists
  <2>3. QED
    BY <1>1, <1>3, <2>1, <2>2, BindWritten
<1>9. ASSUME NEW e \in Codes, EvictCode(j, e) PROVE UnboundIsListed' /\ BindingSticks
  <2>1. ix' = Remove(ix, {ix.byCode[c] : c \in {e}} \ {None}) /\ {e} \in SUBSET Codes
    BY <1>9 DEF EvictCode, Evict
  <2>2. \A c \in Codes : ix'.byCode[c] = IF c \in {e} THEN None ELSE ix.byCode[c]
    BY <2>1, RemoveTakesOnly
  <2>3. codes' = codes /\ job[j].stage = "evict" /\ Step(j, "evict", job[j].todo \ {e})
    BY <1>9 DEF EvictCode, store
  <2>4. /\ \A i \in Jobs \ {j} : job'[i] = job[i]
        /\ job[j].todo \ {e} # {} => job'[j].stage = "evict" /\ job'[j].todo = job[j].todo \ {e}
    BY <2>3 DEF Step, StateInv, TypeOK, JobRecord
  <2>5. ASSUME NEW c \in Codes, ix'.byCode[c] # None, ix'.byCode[c].bound, Exists(c)', codes'[c].fp = None
        PROVE  \E i \in Jobs : job'[i].stage = "evict" /\ c \in job'[i].todo
    <3>1. c # e /\ ix.byCode[c] = ix'.byCode[c]
      BY <2>2, <2>5
    <3>2. PICK i \in Jobs : job[i].stage = "evict" /\ c \in job[i].todo
      BY <2>3, <2>5, <3>1 DEF UnboundIsListed, Exists
    <3>3. CASE i = j
      BY <2>4, <3>1, <3>2, <3>3
    <3>4. CASE i # j
      BY <2>4, <3>2, <3>4
    <3>5. QED
      BY <3>3, <3>4
  <2>6. UnboundIsListed'
    BY <2>5 DEF UnboundIsListed
  <2>7. QED
    BY <1>3, <2>3, <2>6 DEF Exists
<1>10. QED
  BY <1>2, <1>4, <1>5, <1>6, <1>7, <1>8, <1>9 DEF Job

\* The fingerprint of a code that is bound is replaced by the second one of its device.
LEMMA BindDevice ==
  ASSUME StateInv, UnboundIsListed, DeviceKnown \/ DeviceBinds
  PROVE  UnboundIsListed' /\ BindingSticks
<1> DEFINE m == worker.msg
<1>1. codes \in [Codes -> CodeRecord \cup {None, Gone}] /\ job' = job /\ ix' = ix
  BY DEF StateInv, TypeOK, DeviceKnown, DeviceBinds
<1>2. m.code \in Codes /\ m.dev \in Devices
  BY DEF StateInv, TypeOK, Resting, HelloRecord, DeviceKnown, DeviceBinds
<1>3. Fp[m.dev] # None
  BY <1>2, ServerAssumption
<1>4. \/ codes' = codes
      \/ \E fp : /\ Exists(m.code) /\ codes' = [codes EXCEPT ![m.code].fp = fp] /\ fp # None
                 /\ \/ codes[m.code].fp \in {None, fp}
                    \/ codes[m.code].fp = Fp[m.dev] /\ fp = Fp2[m.dev]
  BY <1>3 DEF DeviceKnown, DeviceBinds
<1>5. ASSUME NEW fp, Exists(m.code), codes' = [codes EXCEPT ![m.code].fp = fp], fp # None,
             \/ codes[m.code].fp \in {None, fp}
             \/ codes[m.code].fp = Fp[m.dev] /\ fp = Fp2[m.dev]
      PROVE  UnboundIsListed' /\ BindingSticks
  <2>1. codes[m.code] \in CodeRecord
    BY <1>1, <1>2, <1>5 DEF Exists
  <2>2. codes'[m.code].fp = fp /\ \A c \in Codes \ {m.code} : codes'[c] = codes[c]
    BY <1>1, <1>2, <1>5, <2>1 DEF CodeRecord
  <2>3. \A c \in Codes : Exists(c)' => Exists(c) /\ (codes'[c].fp = None => codes[c].fp = None)
    BY <1>5, <2>2 DEF Exists
  <2>4. UnboundIsListed'
    BY <1>1, <2>3, BindKept
  <2>5. BindingSticks
    BY <1>2, <1>5, <2>2 DEF BindingSticks
  <2>6. QED
    BY <2>4, <2>5
<1>6. CASE codes' = codes
  BY <1>1, <1>6, BindKept DEF BindingSticks, Exists
<1>7. QED
  BY <1>4, <1>5, <1>6

\* A session that is installed is bound if its code has a device at that moment.
LEMMA BindInstalled ==
  ASSUME StateInv, UnboundIsListed, Install, ix' # ix
  PROVE  UnboundIsListed'
<1> DEFINE d == worker.msg.code
           ps == Session(worker.msg)
<1>1. worker.msg \in HelloRecord /\ d \in Codes
  BY DEF Install, StateInv, TypeOK, Resting, HelloRecord
<1>2. /\ ps \in SessionRecord /\ ps.code = d /\ ps.bound = (Exists(d) /\ codes[d].fp # None)
  BY <1>1, Bounds DEF Session, SessionRecord, HelloRecord, Entitled
<1>3. ix' = Upsert(ix, ps) /\ codes' = codes /\ job' = job
  BY DEF Install, store
<1> HIDE DEF ps
<1>4. ix'.byCode = [ix.byCode EXCEPT ![d] = ps]
  BY <1>2, <1>3, UpsertKeepsIndices
<1>5. ix'.byCode[d] = ps /\ \A c \in Codes \ {d} : ix'.byCode[c] = ix.byCode[c]
  BY <1>1, <1>4 DEF StateInv, TypeOK
<1>6. QED
  BY <1>2, <1>3, <1>5 DEF UnboundIsListed, Exists

LEMMA BindStep ==
  ASSUME NoCopiesWritten, StateInv, RouteInv, UnboundIsListed, [Next]_vars
  PROVE  UnboundIsListed' /\ BindingSticks
<1>1. ASSUME codes' = codes PROVE BindingSticks
  BY <1>1 DEF BindingSticks
<1>2. ASSUME codes' = codes, job' = job, \A c \in Codes : ix'.byCode[c] \in {None, ix.byCode[c]}
      PROVE  UnboundIsListed' /\ BindingSticks
  BY <1>1, <1>2, BindKept DEF Exists
<1>3. ASSUME NEW j \in Jobs, Job(j) PROVE UnboundIsListed' /\ BindingSticks
  BY <1>3, BindJob
<1>4. ASSUME NEW j \in Jobs, NEW k \in Kinds, NEW c \in Codes, Begin(j, k, c)
      PROVE  UnboundIsListed' /\ BindingSticks
  <2>1. job[j] = NoJob /\ codes' = codes /\ ix' = ix /\ \A i \in Jobs \ {j} : job'[i] = job[i]
    BY <1>4 DEF Begin, store, StateInv, TypeOK
  <2>2. UnboundIsListed'
    BY <2>1 DEF UnboundIsListed, NoJob, Exists
  <2>3. QED
    BY <1>1, <2>1, <2>2
<1>5. ASSUME NEW c \in Codes, NEW a \in Addrs, NEW d \in Devices, NEW s \in 0..MaxSecret,
             QueueHello(c, a, d, s)
      PROVE  UnboundIsListed' /\ BindingSticks
  BY <1>2, <1>5 DEF QueueHello, store
<1>6. CASE TakeHello \/ CheckLimit
  BY <1>2, <1>6 DEF TakeHello, CheckLimit, store
<1>7. CASE DeviceKnown \/ DeviceBinds
  BY <1>7, BindDevice
<1>8. CASE Install
  <2>1. CASE ix' = ix
    BY <1>2, <1>8, <2>1 DEF Install, store
  <2>2. QED
    BY <1>1, <1>8, <2>1, BindInstalled DEF Install, store
<1>9. ASSUME NEW c \in Codes, FallSilent(c) \/ Heard(c) PROVE UnboundIsListed' /\ BindingSticks
  BY <1>2, <1>9 DEF FallSilent, Heard, store
<1>10. CASE Reap
  <2>1. \A c \in Codes : ix'.byCode[c] \in {None, ix.byCode[c]}
    BY <1>10 DEF Reap, Remove
  <2>2. QED
    BY <1>2, <1>10, <2>1 DEF Reap, store
<1>11. CASE UNCHANGED vars
  BY <1>2, <1>11 DEF vars, store
<1>12. QED
  BY <1>3, <1>4, <1>5, <1>6, <1>7, <1>8, <1>9, <1>10, <1>11 DEF Next, HelloWorker

\* BindingsHold: while no request writes a code back whole, a binding goes only
\* to the second fingerprint of its device or by an unbind, and the session of
\* the device that was unbound is evicted (BindDevice, UnbindDevice).
THEOREM BindingsAreKept == NoCopiesWritten => (Spec => BindingsHold)
<1> SUFFICES ASSUME NoCopiesWritten PROVE Spec => BindingsHold
  OBVIOUS
<1>1. Init => UnboundIsListed
  BY DEF Init, EmptyIndex, UnboundIsListed
<1>2. StateInv /\ RouteInv /\ UnboundIsListed /\ [Next]_vars => UnboundIsListed'
  BY BindStep
<1>3. UnboundIsListed => UnboundIsOffline
  BY DEF UnboundIsListed, UnboundIsOffline, Doomed
<1>4. UnboundIsListed' => UnboundIsOffline'
  BY <1>3, PTL
<1>5. StateInv /\ RouteInv /\ UnboundIsListed /\ [Next]_vars
        => [UnboundIsOffline' /\ BindingSticks]_vars
  BY <1>2, <1>4, BindStep
<1>6. QED
  BY <1>1, <1>2, <1>5, StateInit, StateStep, RouteInit, RouteStep, PTL DEF Spec, BindingsHold

=============================================================================
