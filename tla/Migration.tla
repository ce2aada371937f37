----------------------------- MODULE Migration -----------------------------
(***************************************************************************)
(* Opening the database (internal/storage/storage.go, migrate.go): buckets *)
(* are created, the data is brought to the schema of this version, and the *)
(* rows of the old connection log are dropped, in three transactions.  The *)
(* process may die between them, and the next start opens it again.        *)
(*                                                                         *)
(* Schema 1 (which wrote no settings) kept the tunnel identity and the     *)
(* limits of a user in the user's record.  Schema 2 moved the identity to  *)
(* an access code and the limits to groups, where 0 was "as the global     *)
(* setting says"; schema 3 says -1 for this and means none at all by 0.    *)
(* Groups are identified by what they were made from.                      *)
(***************************************************************************)
EXTENDS Integers, FiniteSets, FiniteSetsExt

CONSTANTS People,          \* ids of users, and of the codes made for them
          MaxPort, Defaults, \* DefaultSettings
          OldUsers,        \* the records a schema-1 user may have
          OldGroups,       \* the groups a schema-2 database may have, with their limits
          Shapes,          \* the schemas that behaviours begin with
          Crashes,         \* bound
          None

VARIABLES
  db,      \* what the database holds
  phase,   \* where opening it has got to
  crashes,
  before,  \* what the database held at first
  touched  \* what the administrator has changed since: <<"limits", user>>, <<"group", group>>
           \* and <<"code", user>>

migVars == <<db, phase, crashes, before, touched>>

SchemaVersion == 3
NoGroup == <<>>
Default == <<"default">>
Paid == <<"paid">>
NoLimits == [from |-> 0, to |-> 0, rules |-> -1]
\* A user of schema 1, and one of today.
OldUser(u) == [admin |-> u.admin, group |-> NoGroup, key |-> u.key,
               from |-> u.from, to |-> u.to, rules |-> u.rules]
NewUser(u, group) == [admin |-> u.admin, group |-> group, key |-> None, from |-> 0, to |-> 0, rules |-> 0]
Members(d) == {p \in People : d.users[p] # None}

-----------------------------------------------------------------------------
(* Rights *)

\* ResolveQuota and PortAllowed, for a group with the limits g.
Ports(g, s) ==
  IF g.from > 0 /\ g.to > 0 THEN g.from..g.to
  ELSE IF g.from = -1 \/ g.to = -1 \/ g.rules = 0 \/ s.from <= 0 \/ s.to <= 0 THEN {}
  ELSE s.from..s.to

\* How many rules; -1 is no limit.
Rules(g, s) == IF g.rules >= 0 THEN g.rules ELSE IF s.rules > 0 THEN s.rules ELSE -1

\* What a user may do under today's code.
Limits(d, p) == IF d.users[p].group \in DOMAIN d.groups THEN d.groups[d.users[p].group] ELSE NoLimits
MayUse(d, p) == IF d.users[p].admin THEN 1..MaxPort ELSE Ports(Limits(d, p), d.settings)
MayHave(d, p) == IF d.users[p].admin THEN -1 ELSE Rules(Limits(d, p), d.settings)

\* What the limits of a group of schema 2 say under this one.
Meant(g) == [g EXCEPT !.rules = IF @ = 0 THEN -1 ELSE @]

\* What a user could do under the schema it comes from.
CouldUse(d, p) ==
  LET u == d.users[p] g == Limits(d, p) IN
  IF u.admin THEN 1..MaxPort
  ELSE IF d.version = 2 THEN Ports(Meant(g), d.settings)
  ELSE IF d.version = 3 THEN MayUse(d, p)
  ELSE IF u.from > 0 /\ u.to > 0 THEN u.from..u.to ELSE {}
CouldHave(d, p) ==
  LET u == d.users[p] g == Limits(d, p) IN
  IF u.admin THEN -1
  ELSE IF d.version = 2 THEN Rules(Meant(g), d.settings)
  ELSE IF d.version = 3 THEN MayHave(d, p)
  ELSE u.rules

-----------------------------------------------------------------------------
(* The migration: one transaction *)

\* ensureDefaultGroupTx.
EnsureDefaultGroup(d) ==
  [d EXCEPT !.groups = IF Default \in DOMAIN @ THEN @
                       ELSE [g \in DOMAIN @ \cup {Default} |-> IF g = Default THEN NoLimits ELSE @[g]],
            !.default = IF @ = NoGroup THEN Default ELSE @]

\* An empty database: the default settings and group.  The settings of schema 1 are not
\* there either, but its users are.
Fresh(d) == [EnsureDefaultGroup([d EXCEPT !.settings = Defaults]) EXCEPT !.version = 1]

\* The global settings: the defaults if there are none, widened to what every user had.
Widened(d) ==
  LET s == IF d.settings.from = 0 /\ d.settings.to = 0 THEN Defaults ELSE d.settings
      starts == {d.users[p].from : p \in Members(d)} \ {0}
  IN [from |-> Min({s.from} \cup starts),
      to |-> Max({s.to} \cup {d.users[p].to : p \in Members(d)}),
      rules |-> Max({s.rules} \cup {d.users[p].rules : p \in Members(d)})]

\* Plain users with limits of their own get a group for each combination of these.
HasQuota(u) == ~u.admin /\ (u.from > 0 \/ u.to > 0 \/ u.rules > 0)
Quota(u) == <<u.from, u.to, u.rules>>

Home(u) == IF u.admin THEN NoGroup ELSE IF HasQuota(u) THEN Quota(u) ELSE Default

\* Of the constants; assumed where an instance is made.  The limits of an old record are not
\* negative (a port's width, and the forms of schema 1); an account is not None.
MigrationAssumption ==
  /\ Shapes \subseteq {0, 1, 2}
  /\ \A u \in OldUsers : /\ u.admin \in BOOLEAN /\ {u.from, u.to, u.rules} \subseteq Nat
                         /\ None \notin {OldUser(u), NewUser(u, Home(u))}
  /\ OldGroups \subseteq [from : Int, to : Int, rules : Int]
  /\ \A g \in {Default, Paid} : NewUser([admin |-> FALSE], g) # None

\* The code keeps the id, the address and the secret that the user had.
CodesFromUsers(d) ==
  [p \in People |-> IF d.users[p] = None \/ d.codes[p] # None THEN d.codes[p] ELSE d.users[p].key]

\* migrateV1ToV2Tx.
V1ToV2(d) ==
  LET quotas == {Quota(u) : u \in {u \in {d.users[p] : p \in Members(d)} : HasQuota(u)}}
      e == EnsureDefaultGroup(d)
  IN [e EXCEPT !.version = 2,
               !.settings = Widened(d),
               !.groups = [g \in DOMAIN @ \cup quotas |->
                             IF g \in quotas THEN [from |-> g[1], to |-> g[2], rules |-> g[3]] ELSE @[g]],
               !.codes = CodesFromUsers(d),
               !.users = [p \in People |-> IF @[p] = None THEN None ELSE NewUser(@[p], Home(@[p]))]]

\* migrateV2ToV3Tx.
V2ToV3(d) ==
  [d EXCEPT !.version = 3, !.groups = [g \in DOMAIN d.groups |-> Meant(d.groups[g])]]

\* The version that a database is taken to have.
VersionOf(d) == IF d.version < 1 /\ Members(d) # {} THEN 1 ELSE d.version

\* Mutant of Migrated: the version is written as that of the last step but one.
MigratedAgain(d) ==
  LET a == IF VersionOf(d) < 1 THEN Fresh(d) ELSE d
      b == IF VersionOf(a) < 2 THEN V1ToV2(a) ELSE a
  IN IF VersionOf(d) >= SchemaVersion THEN d ELSE [V2ToV3(b) EXCEPT !.version = 2]

Migrated(d) ==
  LET a == IF VersionOf(d) < 1 THEN Fresh(d) ELSE d
      b == IF VersionOf(a) < 2 THEN V1ToV2(a) ELSE a
  IN IF VersionOf(d) >= SchemaVersion THEN d ELSE V2ToV3(b)

-----------------------------------------------------------------------------
(* Opening, and what goes on while it is open *)

CreateBuckets ==
  /\ phase = "closed" /\ phase' = "buckets"
  /\ UNCHANGED <<db, crashes, before, touched>>

Migrate ==
  /\ phase = "buckets" /\ phase' = "migrated"
  /\ db' = Migrated(db)
  /\ UNCHANGED <<crashes, before, touched>>

\* dropLegacyConnLogs: the rows directly under the bucket of the logs, not the users' buckets.
DropLegacyConnLogs ==
  /\ phase = "migrated" /\ phase' = "open"
  /\ db' = [db EXCEPT !.oldLogs = 0]
  /\ UNCHANGED <<crashes, before, touched>>

\* The process stops or dies, whatever it was doing.
Crash ==
  /\ phase # "closed" /\ crashes < Crashes
  /\ phase' = "closed" /\ crashes' = crashes + 1
  /\ UNCHANGED <<db, before, touched>>

\* A new user is put into the default group.
AddUser(p) ==
  /\ phase = "open" /\ p \notin Members(db)
  /\ db' = [db EXCEPT !.users[p] = NewUser([admin |-> FALSE], db.default)]
  /\ UNCHANGED <<phase, crashes, before, touched>>

\* The administrator gives a group no rules at all, which 0 now says, or takes a code away.
CloseGroup(g) ==
  /\ phase = "open"
  /\ db' = [db EXCEPT !.groups[g].rules = 0]
  /\ touched' = touched \cup {<<"group", g>>}
                         \cup {<<"limits", p>> : p \in {p \in Members(db) : db.users[p].group = g}}
  /\ UNCHANGED <<phase, crashes, before>>
DropCode(p) ==
  /\ phase = "open" /\ db.codes[p] # None
  /\ db' = [db EXCEPT !.codes[p] = None]
  /\ touched' = touched \cup {<<"code", p>>}
  /\ UNCHANGED <<phase, crashes, before>>

-----------------------------------------------------------------------------
\* Databases of each schema: 0 is an empty one.
Empty == [version |-> 0, settings |-> [from |-> 0, to |-> 0, rules |-> 0],
          users |-> [p \in People |-> None], codes |-> [p \in People |-> None],
          groups |-> [g \in {} |-> NoLimits], default |-> NoGroup, oldLogs |-> 0]
\* Schema 1: who has which record, no two of them the same tunnel.
OldPeople == {us \in [People -> OldUsers \cup {None}] :
                /\ \E p \in People : us[p] # None
                /\ \A p, q \in People :
                     p # q /\ us[p] # None /\ us[q] # None => us[p].key = None \/ us[p].key # us[q].key}
OfSchema1(us) ==
  [Empty EXCEPT !.users = [p \in People |-> IF us[p] = None THEN None ELSE OldUser(us[p])],
                !.oldLogs = 1]
\* Schema 2: the limits of a group, and who is in which one.
OfSchema2(paid, home) ==
  [Empty EXCEPT !.version = 2, !.settings = Defaults, !.default = Default,
                !.groups = [g \in {Default, Paid} |->
                              IF g = Paid THEN paid ELSE [NoLimits EXCEPT !.rules = 0]],
                !.users = [p \in People |-> NewUser([admin |-> FALSE], home[p])]]
Databases(version) ==
  CASE version = 0 -> {Empty}
    [] version = 1 -> {OfSchema1(us) : us \in OldPeople}
    [] version = 2 -> UNION {{OfSchema2(paid, home) : paid \in OldGroups} :
                               home \in [People -> {Paid, Default}]}

MigInit ==
  /\ \E v \in Shapes : db \in Databases(v)
  /\ phase = "closed" /\ crashes = 0 /\ before = db /\ touched = {}

MigNext ==
  \/ CreateBuckets \/ Migrate \/ DropLegacyConnLogs \/ Crash
  \/ \E p \in People : AddUser(p) \/ DropCode(p)
  \/ \E g \in DOMAIN db.groups : CloseGroup(g)

MigSpec == MigInit /\ [][MigNext]_migVars

-----------------------------------------------------------------------------
(* Properties *)

\* Nobody's rights change by the migration: a user of an older schema may use the same ports
\* and have as many rules as before, however often the database is opened and the process
\* dies.  (A user of schema 1 without a range, or without a limit, gets the global one.)
RightsKept ==
  phase \in {"migrated", "open"} =>
    \A p \in {p \in Members(before) : <<"limits", p>> \notin touched} :
      /\ CouldUse(before, p) \in {{}, MayUse(db, p)}
      /\ \/ CouldHave(before, p) = MayHave(db, p)
         \/ before.version = 0 /\ CouldHave(before, p) = 0

\* And no access code stops working: it has the address and the secret that its user had,
\* and none comes back that was deleted.
KeysKept ==
  phase \in {"migrated", "open"} =>
    \A p \in Members(before) :
      db.codes[p] = IF <<"code", p>> \in touched THEN None
                    ELSE IF before.users[p].key # None THEN before.users[p].key ELSE before.codes[p]

\* Whoever is not an administrator has a group, and a group has the limit 0 exactly if an
\* administrator has said so under this schema: no opening takes it for the old 0 again.
ZeroIsMeant ==
  phase \in {"migrated", "open"} =>
    /\ \A p \in Members(db) : db.users[p].admin \/ db.users[p].group \in DOMAIN db.groups
    /\ \A g \in DOMAIN db.groups : db.groups[g].rules = 0 <=> <<"group", g>> \in touched
=============================================================================
