----------------------------- MODULE AccessLog -----------------------------
(***************************************************************************)
(* The access list and the connection log (internal/forward/acl.go,        *)
(* internal/storage/acl.go).                                               *)
(*                                                                         *)
(* A change of the access list is stored, and then the list is read back   *)
(* and the guard that the forwarders ask is replaced by it: three steps    *)
(* with no lock around them.                                               *)
(*                                                                         *)
(* The forwarders put their events into a bounded queue and lose the       *)
(* newest one when it is full.  One goroutine stores them, in one bucket   *)
(* for each user, by time; after every TrimEvery stored events it cuts all *)
(* buckets to the limit in force.  Neither the queue nor the count lives   *)
(* through a restart, and nobody closes the logger when the program stops. *)
(* A row is the number of its time; the clock is taken to move forward.    *)
(***************************************************************************)
EXTENDS Integers, Sequences, FiniteSets, FiniteSetsExt, SequencesExt

CONSTANTS Ids, Entries,    \* ids of access-list entries, and what they can say
          Rules, Sources,  \* forwarding rules and client addresses
          Owner,           \* the user that a rule belongs to; the owner of a shared rule is Nobody
          Requests,        \* at most so many changes of the list run at once
          Queued,          \* capacity of the queue (1024 in the code)
          TrimEvery,       \* 256 in the code
          Limits,          \* the retention limits that the administrator may set
          PageSizes,       \* rows on a page
          MaxEvents,       \* bound: rows in a behaviour
          MaxChanges, MaxRestarts, \* bounds: what the panel asks for, by part; restarts
          Parts,           \* each behaviour exercises one of these: "list" or "log"
          Every, Nobody, None

LogUsers == {Owner[r] : r \in Rules} \ {Nobody}
\* An entry of the list: for one rule or for Every one, for the addresses of one network.
Entry == [rule : Rules \cup {Every}, deny : BOOLEAN, net : SUBSET Sources]

\* Of the constants; assumed where an instance is made.
LogAssumption ==
  /\ {Queued, MaxEvents, MaxRestarts} \cup Limits \cup PageSizes \subseteq Nat
  /\ TrimEvery \in Nat \ {0}
  /\ MaxChanges \in [Parts -> Nat]
  /\ Entries \subseteq Entry

VARIABLES
  part,
  list,      \* id -> entry in the store, or None
  guard,     \* the entries of the compiled list
  changing,  \* request -> "none", "stored" (to be read back) or the entries it has read
  blurred,   \* two changes overlapped since the guard was last known to follow the list
  queue, rows, appends, limit,
  clock, changes, restarts,
  cut,       \* user -> the newest row that trimming has dropped
  owed       \* restarts since the last trim, and the limit of that trim

logVars == <<queue, rows, appends, limit, clock, cut, owed>>
listVars == <<list, guard, changing, blurred>>
vars == <<part, listVars, logVars, changes, restarts>>


-----------------------------------------------------------------------------
(* The access list *)

\* ACLGuard.Allowed: no deny entry for the rule has the address, and if there is an allow
\* entry for the rule then one of them has it.
Allowed(entries, rule, source) ==
  LET scoped(deny) == {e \in entries : e.rule \in {rule, Every} /\ e.deny = deny}
  IN /\ \A e \in scoped(TRUE) : source \notin e.net
     /\ scoped(FALSE) = {} \/ \E e \in scoped(FALSE) : source \in e.net

Listed == {list[i] : i \in Ids} \ {None}
Changing == {q \in Requests : changing[q] # <<>>}

Stores(q, id, entry) ==
  /\ part = "list" /\ changing[q] = <<>> /\ changes < MaxChanges[part]
  /\ list' = [list EXCEPT ![id] = entry]
  /\ changing' = [changing EXCEPT ![q] = <<"stored">>]
  /\ changes' = changes + 1
  /\ blurred' = (blurred \/ Changing # {})
  /\ UNCHANGED <<part, guard, logVars, restarts>>

\* AddACLEntry, up to the store's transaction.
AddACLEntry(q) == \E i \in {i \in Ids : list[i] = None}, e \in Entries : Stores(q, i, e)
\* DeleteACLEntry; an id that is not there is no error.
DeleteACLEntry(q) == \E i \in Ids : Stores(q, i, None)

\* reloadACL: the list is read from the store ...
ReadList(q) ==
  /\ changing[q] = <<"stored">>
  /\ changing' = [changing EXCEPT ![q] = <<"read", Listed>>]
  /\ UNCHANGED <<part, list, guard, blurred, logVars, changes, restarts>>

\* ... and compiled into the guard.
Reload(q) ==
  /\ Len(changing[q]) = 2
  /\ guard' = changing[q][2]
  /\ changing' = [changing EXCEPT ![q] = <<>>]
  /\ blurred' = (blurred /\ (Changing # {q} \/ changing[q][2] # Listed))
  /\ UNCHANGED <<part, list, logVars, changes, restarts>>

-----------------------------------------------------------------------------
(* The connection log *)

\* logEvent of a forwarder, for a connection, an end with traffic or a refused client: the
\* event waits in the queue, or is lost when it is full.
Log(rule) ==
  /\ part = "log" /\ clock + Len(queue) < MaxEvents
  /\ queue' = IF Len(queue) < Queued THEN Append(queue, rule) ELSE queue
  /\ UNCHANGED <<part, listVars, rows, appends, limit, clock, changes, restarts, cut, owed>>

\* TrimConnLogs: the newest `limit` rows of a bucket.
Kept(bucket) == {t \in bucket : Cardinality({s \in bucket : s > t}) < limit}

\* Mutant of TrimDue: only the first time.
TrimDueOnce(n) == n = TrimEvery

\* One trim after every TrimEvery events stored since the start.
TrimDue(n) == n % TrimEvery = 0

\* AppendConnLog: a row under the time at which it is stored, in the bucket of its user.
AppendConnLog(u) == [rows EXCEPT ![u] = @ \cup {clock + 1}]

\* One round of connLogger.loop: an event without an owner is refused by AppendConnLog and
\* not counted.
Store ==
  /\ queue # <<>>
  /\ queue' = Tail(queue)
  /\ \/ /\ Owner[Head(queue)] = Nobody
        /\ UNCHANGED <<rows, appends, clock, cut, owed>>
     \/ LET u == Owner[Head(queue)]
            stored == AppendConnLog(u)
            trimmed == [v \in LogUsers |-> Kept(stored[v])]
        IN /\ Owner[Head(queue)] # Nobody
           /\ clock' = clock + 1
           /\ appends' = appends + 1
           /\ IF TrimDue(appends + 1)
              THEN /\ rows' = trimmed
                   /\ cut' = [v \in LogUsers |-> Max({cut[v]} \cup (stored[v] \ trimmed[v]))]
                   /\ owed' = [restarts |-> 0, limit |-> limit]
              ELSE rows' = stored /\ UNCHANGED <<cut, owed>>
  /\ UNCHANGED <<part, listVars, limit, changes, restarts>>

\* The rows that a request sees: its user's, or all of them for the administrator.
Scope(who) == IF who = Nobody THEN LogUsers ELSE {who}

\* DeleteConnLogs.
DeleteLogs(who) ==
  /\ part = "log" /\ changes < MaxChanges[part]
  /\ changes' = changes + 1
  /\ \E u \in Scope(who) : \E t \in rows[u] : rows' = [rows EXCEPT ![u] = @ \ {t}]
  /\ UNCHANGED <<part, listVars, queue, appends, limit, clock, cut, owed, restarts>>

\* ClearConnLogs.
ClearLogs(who) ==
  /\ part = "log" /\ changes < MaxChanges[part]
  /\ changes' = changes + 1
  /\ rows' = [u \in LogUsers |-> IF u \in Scope(who) THEN {} ELSE rows[u]]
  /\ UNCHANGED <<part, listVars, queue, appends, limit, clock, cut, owed, restarts>>

\* Settings: the limit that effectiveMax gives from now on.
SetLimit(n) ==
  /\ part = "log" /\ changes < MaxChanges[part] /\ n # limit
  /\ changes' = changes + 1 /\ limit' = n
  /\ UNCHANGED <<part, listVars, queue, rows, appends, clock, cut, owed, restarts>>

\* A stop or a crash, and the start after it: initServices loads the list into a new guard
\* and makes a new logger.
Restart ==
  /\ restarts < MaxRestarts
  /\ restarts' = restarts + 1
  /\ guard' = Listed /\ blurred' = FALSE
  /\ changing' = [q \in Requests |-> <<>>]
  /\ queue' = <<>> /\ appends' = 0
  /\ owed' = [owed EXCEPT !.restarts = @ + 1]
  /\ UNCHANGED <<part, list, rows, limit, clock, changes, cut>>

-----------------------------------------------------------------------------
(* ListConnLogs: a cursor at the newest row of each bucket, and always the newest of them *)

Newest(heads) == Max({heads[u] : u \in DOMAIN heads})
\* c.Prev(): the next older row of the bucket; 0 is the end.
Before(u, t) == Max({0} \cup {s \in rows[u] : s < t})
HeadsBefore(who, t) == [u \in Scope(who) |-> Before(u, t)]

\* One round of the loop: the newest head, and what `rest` gives when its cursor has moved on.
Taken(heads, rest) ==
  LET top == Newest(heads)
      u == CHOOSE u \in DOMAIN heads : heads[u] = top
  IN <<top>> \o rest[[heads EXCEPT ![u] = Before(u, top)]]

\* The first n rows of the merge.
Merge(who, n) ==
  LET after[k \in 0..n] ==
        [heads \in [Scope(who) -> 0..clock] |->
           IF k = 0 \/ \A u \in Scope(who) : heads[u] = 0 THEN <<>>
           ELSE Taken(heads, after[k - 1])]
  IN after[n][HeadsBefore(who, clock + 1)]

\* The rows after the first `offset`, at most `size` of them.
ListConnLogs(who, offset, size) ==
  LET first == Merge(who, offset + size) IN SubSeq(first, offset + 1, Len(first))

-----------------------------------------------------------------------------
Init ==
  /\ part \in Parts
  /\ list = [i \in Ids |-> None] /\ guard = {}
  /\ changing = [q \in Requests |-> <<>>] /\ blurred = FALSE
  /\ queue = <<>> /\ rows = [u \in LogUsers |-> {}] /\ appends = 0
  /\ limit \in Limits
  /\ clock = 0 /\ changes = 0 /\ restarts = 0
  /\ cut = [u \in LogUsers |-> 0] /\ owed = [restarts |-> 0, limit |-> 0]

Next ==
  \/ \E q \in Requests : AddACLEntry(q) \/ DeleteACLEntry(q) \/ ReadList(q) \/ Reload(q)
  \/ \E r \in Rules : Log(r)
  \/ Store
  \/ \E who \in LogUsers \cup {Nobody} : DeleteLogs(who) \/ ClearLogs(who)
  \/ \E n \in Limits : SetLimit(n)
  \/ Restart

Spec == Init /\ [][Next]_vars

-----------------------------------------------------------------------------
(* Properties *)

TypeOK ==
  /\ part \in Parts /\ changes \in 0..MaxChanges[part] /\ restarts \in 0..MaxRestarts
  /\ list \in [Ids -> Entry \cup {None}] /\ guard \in SUBSET Entry
  /\ Len(queue) <= Queued /\ \A i \in DOMAIN queue : queue[i] \in Rules
  /\ rows \in [LogUsers -> SUBSET (1..clock)] /\ appends \in Nat /\ limit \in Limits

\* With no change of the list in progress, every forwarder lets in exactly the clients that
\* the stored list lets in: those in no denied network of the rule and, if the rule has
\* networks of its own or of all rules that are allowed, in one of these.  Unless two
\* changes overlapped: the slower of two reloads may bring the older list back.
GuardFollowsList ==
  Changing = {} /\ ~blurred =>
    \A r \in Rules :
      LET nets(deny) == {e.net : e \in {e \in Listed : e.rule \in {r, Every} /\ e.deny = deny}}
          opened == IF nets(FALSE) = {} THEN Sources ELSE UNION nets(FALSE)
      IN {s \in Sources : Allowed(guard, r, s)} = opened \ UNION nets(TRUE)

\* The log of a user stays bounded, and trimming takes the oldest rows: what is left is
\* newer than anything that was ever trimmed, and no more than the limit of the last trim
\* and what can be stored between two trims, a restart starting the count anew.
LogsAreTrimmed ==
  \A u \in LogUsers :
    /\ \A t \in rows[u] : t > cut[u]
    /\ Cardinality(rows[u]) <= owed.limit + (owed.restarts + 1) * (TrimEvery - 1)

\* The pages of the log, one after the other, show every row that the reader may see once,
\* the newest first, whatever the buckets it is merged from.
PagesAreNewestFirst ==
  \A who \in LogUsers \cup {Nobody}, size \in PageSizes :
    LET seen == UNION {rows[u] : u \in Scope(who)}
        place(t) == Cardinality({s \in seen : s >= t})
    IN \A k \in 1..Cardinality(seen) + 1 :
         LET page == ListConnLogs(who, (k - 1) * size, size)
         IN /\ ToSet(page) = {t \in seen : place(t) \in (k - 1) * size + 1..k * size}
            /\ \A i \in DOMAIN page : place(page[i]) = (k - 1) * size + i
=============================================================================
