---------------------------- MODULE TunnelServer ----------------------------
(***************************************************************************)
(* Who is on the tunnel.  internal/tunnelapp/tunnelapp.go: handshakes are  *)
(* queued by the packet pump and handled one at a time by helloWorker,     *)
(* which reads the access code's identity, checks or registers the device, *)
(* checks the user's limit and installs the session in the table of        *)
(* PeerIndex; a janitor reaps idle sessions.  internal/users and           *)
(* internal/storage/accesscode.go: the panel's operations on codes and     *)
(* users, each a few transactions of the store followed by EvictCode.      *)
(*                                                                         *)
(* Fingerprints are values; a device has one, and newer clients a second   *)
(* one.  Secrets are numbered in the order they are drawn.                 *)
(***************************************************************************)
EXTENDS PeerIndex, Integers, Sequences, FiniteSets

CONSTANTS Gone,
          Users,
          UserOf,      \* the user a code belongs to
          TunIPOf,     \* the tunnel address a code is given
          PoolIPs,     \* the tunnel addresses of clients
          Uses,        \* the addresses <<code, addr>> clients send from
          Devices,
          Fp, Fp2,     \* fingerprints of a device; Fp2 may be None
          MaxTunnels,  \* of a user: -1 unlimited, as EffectiveQuota gives it
          Jobs,        \* requests to the panel that may run at once
          Kinds,       \* what they may ask
          QueueCap,    \* helloQueueCap
          MaxSecret    \* bound: secrets drawn

ASSUME ServerAssumption ==
  /\ None \notin Codes \cup Devices /\ Gone # None
  /\ IsFiniteSet(Codes)
  /\ UserOf \in [Codes -> Users] /\ TunIPOf \in [Codes -> TunIPs]
  /\ PoolIPs \subseteq TunIPs /\ Uses \subseteq Codes \X Addrs
  /\ \A d \in Devices : Fp[d] # None /\ Fp2[d] # Fp[d]
  /\ \A u \in Users : MaxTunnels[u] \in Nat \cup {-1}
  /\ QueueCap \in Nat /\ MaxSecret \in Nat
  /\ Kinds \subseteq {"create", "rename", "enable", "disable", "rekey", "unbind",
                      "delete", "enable user", "disable user", "delete user"}

Fingerprints == {Fp[d] : d \in Devices} \cup {Fp2[d] : d \in Devices} \cup {None}

CodeRecord == [disabled : BOOLEAN, secret : 0..MaxSecret, fp : Fingerprints]

ASSUME CodesAreRecords == {None, Gone} \cap CodeRecord = {}

VARIABLES
  codes,    \* the store's access codes; None before the code is created, and
            \* Gone once it is deleted (identifiers are not used twice)
  users,    \* the store's users: "active", "disabled" or "deleted"
  drawn,    \* secrets drawn so far
  job,      \* of a request: what it is doing
  helloQ,   \* s.helloQ
  worker,   \* helloWorker
  ix,       \* the published snapshot of the registry
  quiet     \* codes whose session the janitor will find idle

vars == <<codes, users, drawn, job, helloQ, worker, ix, quiet>>
store == <<codes, users, drawn>>

Code(secret) == [disabled |-> FALSE, secret |-> secret, fp |-> None]

NoJob == [kind |-> "none", code |-> None, stage |-> "idle", copy |-> None, todo |-> {}]
Resting == [stage |-> "idle"]

\* The first code exists, unbound; nobody is on the tunnel.
Init ==
  /\ \E C \in SUBSET Codes :
       /\ \A c, d \in C : TunIPOf[c] = TunIPOf[d] => c = d
       /\ codes = [c \in Codes |-> IF c \in C THEN Code(0) ELSE None]
  /\ users = [u \in Users |-> "active"]
  /\ drawn = 0
  /\ job = [j \in Jobs |-> NoJob]
  /\ helloQ = <<>>
  /\ worker = Resting
  /\ ix = EmptyIndex
  /\ quiet = {}

Exists(c) == codes[c] \notin {None, Gone}

-----------------------------------------------------------------------------
(* Requests to the panel.  A request reads, writes once or twice, and then *)
(* evicts the codes in todo one after another.                             *)

Step(j, stage, todo) ==
  job' = [job EXCEPT ![j] = IF stage = "evict" /\ todo = {} THEN NoJob
                              ELSE [@ EXCEPT !.stage = stage, !.todo = todo]]

\* UpdateAccessCode and RegenerateSecret begin with GetAccessCode, Delete of a
\* user with the list of its codes.
Begin(j, kind, c) ==
  /\ job[j] = NoJob
  /\ IF kind = "create" THEN codes[c] = None ELSE Exists(c)
  /\ job' = [job EXCEPT ![j] =
       [kind |-> kind, code |-> c, stage |-> "write", copy |-> codes[c],
        todo |-> IF kind = "delete user"
                   THEN {d \in Codes : Exists(d) /\ UserOf[d] = UserOf[c]} ELSE {}]]
  /\ UNCHANGED <<store, helloQ, worker, ix, quiet>>

\* SaveAccessCode(rec): an error if the code is gone.
Save(j, rec, todo) ==
  LET c == job[j].code IN
  IF Exists(c) THEN codes' = [codes EXCEPT ![c] = rec] /\ Step(j, "evict", todo)
               ELSE Step(j, "evict", {}) /\ UNCHANGED codes

Writes(j, kind) == job[j].kind = kind /\ job[j].stage = "write"

WriteRename(j) ==
  /\ Writes(j, "rename")
  /\ Save(j, job[j].copy, {})
  /\ UNCHANGED <<users, drawn, helloQ, worker, ix, quiet>>

WriteEnable(j) ==
  /\ Writes(j, "enable")
  /\ Save(j, [job[j].copy EXCEPT !.disabled = FALSE], {})
  /\ UNCHANGED <<users, drawn, helloQ, worker, ix, quiet>>

\* Mutant of WriteDisable: the tunnel is not cut.
WriteDisableOnly(j) ==
  /\ Writes(j, "disable")
  /\ Save(j, [job[j].copy EXCEPT !.disabled = TRUE], {})
  /\ UNCHANGED <<users, drawn, helloQ, worker, ix, quiet>>

\* The tunnel is cut if the copy says that the code was enabled.
WriteDisable(j) ==
  /\ Writes(j, "disable")
  /\ Save(j, [job[j].copy EXCEPT !.disabled = TRUE],
          IF job[j].copy.disabled THEN {} ELSE {job[j].code})
  /\ UNCHANGED <<users, drawn, helloQ, worker, ix, quiet>>

WriteRekey(j) ==
  /\ Writes(j, "rekey") /\ drawn < MaxSecret
  /\ drawn' = drawn + 1
  /\ Save(j, [job[j].copy EXCEPT !.secret = drawn + 1], {job[j].code})
  /\ UNCHANGED <<users, helloQ, worker, ix, quiet>>

\* Mutant of WriteUnbind: the tunnel is not cut.
WriteUnbindOnly(j) ==
  LET c == job[j].code IN
  /\ Writes(j, "unbind")
  /\ codes' = IF Exists(c) THEN [codes EXCEPT ![c].fp = None] ELSE codes
  /\ Step(j, "evict", {})
  /\ UNCHANGED <<users, drawn, helloQ, worker, ix, quiet>>

\* UnbindAccessCodeDevice reads and writes in one transaction.
WriteUnbind(j) ==
  LET c == job[j].code IN
  /\ Writes(j, "unbind")
  /\ IF Exists(c) THEN codes' = [codes EXCEPT ![c].fp = None] /\ Step(j, "evict", {c})
                  ELSE Step(j, "evict", {}) /\ UNCHANGED codes
  /\ UNCHANGED <<users, drawn, helloQ, worker, ix, quiet>>

WriteDelete(j) ==
  LET c == job[j].code IN
  /\ Writes(j, "delete")
  /\ codes' = [codes EXCEPT ![c] = Gone]
  /\ Step(j, "evict", IF Exists(c) THEN {c} ELSE {})
  /\ UNCHANGED <<users, drawn, helloQ, worker, ix, quiet>>

\* One transaction; the owner was read when the request was authenticated.
WriteCreate(j) ==
  LET c == job[j].code IN
  /\ Writes(j, "create") /\ drawn < MaxSecret
  /\ IF codes[c] # None \/ \E d \in Codes : Exists(d) /\ TunIPOf[d] = TunIPOf[c]
       THEN UNCHANGED <<codes, drawn>>
       ELSE /\ drawn' = drawn + 1
            /\ codes' = [codes EXCEPT ![c] = Code(drawn + 1)]
  /\ Step(j, "evict", {})
  /\ UNCHANGED <<users, helloQ, worker, ix, quiet>>

WriteUser(j) ==
  LET u == UserOf[job[j].code] IN
  /\ Writes(j, "enable user") \/ Writes(j, "disable user")
  /\ IF users[u] = "deleted"
       THEN Step(j, "evict", {}) /\ UNCHANGED users
       ELSE /\ users' = [users EXCEPT ![u] = IF job[j].kind = "enable user"
                                               THEN "active" ELSE "disabled"]
            /\ IF job[j].kind = "disable user" /\ users[u] = "active"
                 THEN Step(j, "list", {}) ELSE Step(j, "evict", {})
  /\ UNCHANGED <<codes, drawn, helloQ, worker, ix, quiet>>

\* evictUserTunnels lists the user's codes after the user was saved.
ListCodes(j) ==
  LET u == UserOf[job[j].code] IN
  /\ job[j].stage = "list"
  /\ Step(j, "evict", {c \in Codes : Exists(c) /\ UserOf[c] = u})
  /\ UNCHANGED <<store, helloQ, worker, ix, quiet>>

WriteDeleteUser(j) ==
  LET u == UserOf[job[j].code] IN
  /\ Writes(j, "delete user")
  /\ users' = [users EXCEPT ![u] = "deleted"]
  /\ IF users[u] = "deleted" THEN Step(j, "evict", {}) ELSE Step(j, "purge", job[j].todo)
  /\ UNCHANGED <<codes, drawn, helloQ, worker, ix, quiet>>

\* DeleteAccessCodesByUser, which may delete codes that are not in the list.
PurgeCodes(j) ==
  LET u == UserOf[job[j].code] IN
  /\ job[j].stage = "purge"
  /\ codes' = [c \in Codes |-> IF UserOf[c] = u /\ Exists(c) THEN Gone ELSE codes[c]]
  /\ Step(j, "evict", job[j].todo)
  /\ UNCHANGED <<users, drawn, helloQ, worker, ix, quiet>>

EvictCode(j, c) ==
  /\ job[j].stage = "evict" /\ c \in job[j].todo
  /\ ix' = Evict(ix, c)
  /\ quiet' = quiet \ {c}
  /\ Step(j, "evict", job[j].todo \ {c})
  /\ UNCHANGED <<store, helloQ, worker>>

Job(j) ==
  \/ WriteRename(j) \/ WriteEnable(j) \/ WriteDisable(j) \/ WriteRekey(j)
  \/ WriteUnbind(j) \/ WriteDelete(j) \/ WriteCreate(j)
  \/ WriteUser(j) \/ ListCodes(j) \/ WriteDeleteUser(j) \/ PurgeCodes(j)
  \/ \E c \in Codes : EvictCode(j, c)

-----------------------------------------------------------------------------
(* Handshakes *)

Hello(c, a, d, s) == [code |-> c, addr |-> a, dev |-> d, secret |-> s]

\* A client with some secret, current or old, says hello from a; queueHello
\* drops it when the queue is full.
QueueHello(c, a, d, s) ==
  /\ <<c, a>> \in Uses /\ s <= drawn
  /\ Len(helloQ) < QueueCap
  /\ helloQ' = Append(helloQ, Hello(c, a, d, s))
  /\ UNCHANGED <<store, job, worker, ix, quiet>>

\* What the store says of a handshake of code c with secret s.
Entitled(c, s) ==
  /\ Exists(c)
  /\ codes[c].secret = s /\ ~codes[c].disabled
  /\ users[UserOf[c]] = "active"
  /\ TunIPOf[c] \in PoolIPs

\* PeekHello, the identity's lookup, its MAC and the rejections that need no
\* more than the identity.
TakeHello ==
  /\ worker.stage = "idle" /\ helloQ # <<>>
  /\ LET m == Head(helloQ) IN
     worker' = IF Entitled(m.code, m.secret)
                 THEN [stage |-> "device", msg |-> m, fp |-> codes[m.code].fp]
                 ELSE Resting
  /\ helloQ' = Tail(helloQ)
  /\ UNCHANGED <<store, job, ix, quiet>>

Proceed(stage) == worker' = [worker EXCEPT !.stage = stage]

\* The device is the one the identity showed: nothing is written, but the
\* binding of a device that has a second fingerprint moves to it if the store
\* still has the first.
DeviceKnown ==
  LET m == worker.msg IN
  /\ worker.stage = "device"
  /\ worker.fp \in {Fp[m.dev], Fp2[m.dev]} \ {None}
  /\ codes' = IF worker.fp = Fp[m.dev] /\ Fp2[m.dev] # None
                   /\ Exists(m.code) /\ codes[m.code].fp = worker.fp
                THEN [codes EXCEPT ![m.code].fp = Fp2[m.dev]] ELSE codes
  /\ Proceed("limit")
  /\ UNCHANGED <<users, drawn, job, helloQ, ix, quiet>>

\* The identity showed no device or another one: BindDevice decides, on what
\* the store has now.
DeviceBinds ==
  LET m == worker.msg
      f == IF Fp2[m.dev] # None THEN Fp2[m.dev] ELSE Fp[m.dev] IN
  /\ worker.stage = "device"
  /\ worker.fp \notin {Fp[m.dev], Fp2[m.dev]} \ {None}
  /\ IF Exists(m.code) /\ codes[m.code].fp \in {None, f}
       THEN codes' = [codes EXCEPT ![m.code].fp = f] /\ Proceed("limit")
       ELSE worker' = Resting /\ UNCHANGED codes
  /\ UNCHANGED <<users, drawn, job, helloQ, ix, quiet>>

TunnelsOf(u) == Cardinality({c \in Online(ix) : UserOf[c] = u})

\* A code that is on the tunnel reconnects whatever the limit.
CheckLimit ==
  LET c == worker.msg.code  u == UserOf[c] IN
  /\ worker.stage = "limit"
  /\ IF MaxTunnels[u] = -1 \/ c \in Online(ix) \/ TunnelsOf(u) < MaxTunnels[u]
       THEN Proceed("install") ELSE worker' = Resting
  /\ UNCHANGED <<store, job, helloQ, ix, quiet>>

\* entitled and bound (what the store says at this moment) are for the
\* properties; the code does not look again.
Session(m) ==
  [code |-> m.code, addr |-> m.addr, tunIP |-> TunIPOf[m.code], dev |-> m.dev,
   secret |-> m.secret, entitled |-> Entitled(m.code, m.secret),
   bound |-> Exists(m.code) /\ codes[m.code].fp # None]

\* The accept is sent and the session installed, or the accept cannot be made
\* or sent and nothing happens.
Install ==
  /\ worker.stage = "install"
  /\ \/ ix' = Upsert(ix, Session(worker.msg)) /\ quiet' = quiet \ {worker.msg.code}
     \/ UNCHANGED <<ix, quiet>>
  /\ worker' = Resting
  /\ UNCHANGED <<store, job, helloQ>>

-----------------------------------------------------------------------------
(* The janitor *)

\* The client of a session falls silent for peerIdleTimeout, or is heard again
\* before the janitor looks, if its packets find the session.
FallSilent(c) ==
  /\ c \in Online(ix) \ quiet
  /\ quiet' = quiet \cup {c}
  /\ UNCHANGED <<store, job, helloQ, worker, ix>>

Heard(c) ==
  /\ c \in quiet /\ ix.byAddr[ix.byCode[c].addr] = ix.byCode[c]
  /\ quiet' = quiet \ {c}
  /\ UNCHANGED <<store, job, helloQ, worker, ix>>

Reap ==
  /\ quiet # {}
  /\ ix' = Remove(ix, {ix.byCode[c] : c \in quiet})
  /\ quiet' = {}
  /\ UNCHANGED <<store, job, helloQ, worker>>

-----------------------------------------------------------------------------

HelloWorker == TakeHello \/ DeviceKnown \/ DeviceBinds \/ CheckLimit \/ Install

Next ==
  \/ \E j \in Jobs : (\E k \in Kinds, c \in Codes : Begin(j, k, c)) \/ Job(j)
  \/ \E c \in Codes, a \in Addrs, d \in Devices, s \in 0..MaxSecret : QueueHello(c, a, d, s)
  \/ HelloWorker
  \/ \E c \in Codes : FallSilent(c) \/ Heard(c)
  \/ Reap

Spec == Init /\ [][Next]_vars

-----------------------------------------------------------------------------
(* Properties *)

HelloRecord == [code : Codes, addr : Addrs, dev : Devices, secret : 0..MaxSecret]

JobRecord ==
  [kind : Kinds \cup {"none"}, code : Codes \cup {None},
   stage : {"idle", "write", "list", "purge", "evict"},
   copy : CodeRecord \cup {None}, todo : SUBSET Codes]

SessionRecord ==
  [code : Codes, addr : Addrs, tunIP : TunIPs, dev : Devices, secret : 0..MaxSecret,
   entitled : BOOLEAN, bound : BOOLEAN]

TypeOK ==
  /\ codes \in [Codes -> CodeRecord \cup {None, Gone}]
  /\ users \in [Users -> {"active", "disabled", "deleted"}]
  /\ drawn \in 0..MaxSecret
  /\ job \in [Jobs -> JobRecord]
  /\ helloQ \in Seq(HelloRecord) /\ Len(helloQ) <= QueueCap
  /\ \/ worker = Resting
     \/ worker \in [stage : {"device", "limit", "install"}, msg : HelloRecord,
                    fp : Fingerprints]
  /\ ix.byCode \in [Codes -> SessionRecord \cup {None}]
  /\ ix.byAddr \in [Addrs -> SessionRecord \cup {None}]
  /\ ix.byTunIP \in [TunIPs -> SessionRecord \cup {None}]
  /\ quiet \subseteq Online(ix)

\* No index keeps a session that is over, "a zombie entry with discarded keys":
\* whatever byAddr or byTunIP shows is its code's session and is there under its
\* own address.
NoZombies ==
  /\ \A c \in Codes : ix.byCode[c] # None => ix.byCode[c].code = c
  /\ \A a \in Addrs : ix.byAddr[a] # None =>
       ix.byAddr[a].addr = a /\ ix.byCode[ix.byAddr[a].code] = ix.byAddr[a]
  /\ \A t \in TunIPs : ix.byTunIP[t] # None =>
       ix.byTunIP[t].tunIP = t /\ ix.byCode[ix.byTunIP[t].code] = ix.byTunIP[t]

\* What the kernel sends to a tunnel address goes to the session of the code
\* that has the address, even while an earlier owner's session lingers.
OwnerIsRouted ==
  \A c \in Codes : ix.byCode[c] # None /\ Exists(c) => ix.byTunIP[TunIPOf[c]] = ix.byCode[c]

\* "Only touches the slot of its own code": the packets of a session on the
\* table find some session under their address, its own or that of the code
\* that took the address over.
Reachable == \A c \in Codes : ix.byCode[c] # None => ix.byAddr[ix.byCode[c].addr] # None

\* Somebody is about to evict the session of c.
Doomed(c) == \E j \in Jobs : c \in job[j].todo \/ (job[j].stage = "list" /\ UserOf[job[j].code] = UserOf[c])

\* A session that was entitled when it was installed and no longer is (its code
\* or user disabled or deleted, its secret replaced) is about to be evicted.
EvictionsHold ==
  \A c \in Codes : LET ps == ix.byCode[c] IN
    ps # None /\ ps.entitled /\ ~Entitled(c, ps.secret) => Doomed(c)

\* Disabling, deleting or rekeying an access code or user takes its tunnels
\* down: no session that is not entitled stays on the table.
NoUnentitled ==
  \A c \in Codes : ix.byCode[c] # None /\ ~Entitled(c, ix.byCode[c].secret) => Doomed(c)

\* After an unbind the device that was bound is off the tunnel.
UnboundIsOffline ==
  \A c \in Codes : LET ps == ix.byCode[c] IN
    ps # None /\ ps.bound /\ Exists(c) /\ codes[c].fp = None => Doomed(c)

\* A user has no more tunnels than its limit.
LimitHolds == \A u \in Users : MaxTunnels[u] # -1 => TunnelsOf(u) <= MaxTunnels[u]

\* "The old access code is void at once": a code's secret only moves forward.
SecretsMoveForward ==
  [][\A c \in Codes : Exists(c) /\ Exists(c)' => codes'[c].secret >= codes[c].secret]_vars

\* "The other devices are refused": a binding moves to the second fingerprint
\* of its device, or is removed by an unbind or by deleting the code.
BindingSticks ==
  \A c \in Codes : Exists(c) /\ Exists(c)' /\ codes[c].fp # None /\ codes'[c].fp # codes[c].fp =>
    \/ \E d \in Devices : codes[c].fp = Fp[d] /\ codes'[c].fp = Fp2[d] /\ Fp2[d] # None
    \/ \E j \in Jobs : Writes(j, "unbind") /\ job[j].code = c /\ codes'[c].fp = None

\* A tunnel of the table is reached by its packets, and none outlives what it was entitled to by
\* more than the jobs under way.
ServedAsEntitled == Reachable /\ EvictionsHold

\* The three indices agree and no user has more tunnels than its limit, whatever handshakes,
\* reconnections and evictions overlap (upsert, evictLocked, handleHello).
TableIsSound == TypeOK /\ NoZombies /\ LimitHolds

\* The device of a code that was unbound is cut off, and a code passes to another device only by
\* an unbind (BindDevice, UnbindDevice).
BindingsHold == [][UnboundIsOffline' /\ BindingSticks]_vars

=============================================================================
