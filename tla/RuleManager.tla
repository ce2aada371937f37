----------------------------- MODULE RuleManager -----------------------------
(***************************************************************************)
(* internal/forward/manager.go: forwarding rules in the store, in the      *)
(* manager's cache and as running forwarders.  m.opsMu lets one operation  *)
(* at a time add, update or delete a rule; m.mu protects the maps and is   *)
(* released between the steps of an operation, so that Shutdown and a      *)
(* crash may fall between any two of them.                                 *)
(*                                                                         *)
(* A rule is what requiresForwarderRestart compares (conf and enabled) and *)
(* its owner.  The forwarders of a rule are the sockets they listen on.    *)
(***************************************************************************)
EXTENDS Integers, FiniteSets

CONSTANTS Ids,      \* rules; the identifier of a deleted rule stands for a new one
          Owners,
          Confs,    \* configurations that ValidateForwardRule accepts
          None

ASSUME ManagerAssumption ==
  /\ None \notin Ids
  /\ \A c \in Confs :
       /\ c.kind \in {"tcp", "udp", "both", "nethernet"}
       /\ c.transparent \in BOOLEAN /\ c.dual \in BOOLEAN
       /\ c.kind = "nethernet" => c.transparent
       /\ c.transparent => c.kind \in {"udp", "nethernet"}

VARIABLES
  phase,    \* of the process: "off", "boot", "up", "stopping"
  store,    \* the rules in bbolt
  rules,    \* m.rules
  active,   \* m.active: what the forwarders of a rule run with
  open,     \* sockets of a rule that listen: "tcp", "udp", "data", "signal"
  serving,  \* rules whose gateway has still to bind its signalling port
  errors,   \* rules with an entry in m.errors
  status,   \* m.statuses
  op        \* the operation that holds m.opsMu, or the boot of one rule

vars == <<phase, store, rules, active, open, serving, errors, status, op>>
forwarders == <<active, open, serving>>
shown == <<errors, status>>

Rule == [conf : Confs, owner : Owners, enabled : BOOLEAN]
Running == [conf : Confs, owner : Owners]

ASSUME NoneIsNoRule == None \notin Rule \cup Running

Idle == [kind |-> "none", id |-> None, next |-> None, stage |-> "idle"]
Nothing == [i \in Ids |-> None]

Init ==
  /\ phase = "up"
  /\ store = Nothing /\ rules = Nothing /\ active = Nothing
  /\ open = [i \in Ids |-> {}]
  /\ serving = {}
  /\ errors = {}
  /\ status = [i \in Ids |-> "none"]
  /\ op = Idle

-----------------------------------------------------------------------------
(* What a rule listens on *)

\* getRulePortEndpoints.  A NetherNet rule signals over TCP and has its data
\* over UDP, on ports that are its own or those of its TLS configuration.
Endpoints(c) ==
  CASE c.kind = "nethernet" -> {<<c.addr, c.signal, "tcp">>, <<c.addr, c.port, "udp">>,
                                <<c.addr, c.data, "udp">>}
    [] c.kind = "both"      -> {<<c.addr, c.port, "tcp">>, <<c.addr, c.port, "udp">>}
    [] OTHER                -> {<<c.addr, c.port, c.kind>>}

\* checkPortConflictEx
PortConflict(c, self) ==
  \E i \in Ids \ {self} : rules[i] # None /\ Endpoints(c) \cap Endpoints(rules[i].conf) # {}

\* checkTransparentTargetDuplicate
TargetConflict(c, self) ==
  \E i \in Ids \ {self} :
    rules[i] # None /\ c.transparent /\ rules[i].conf.transparent /\ c.target = rules[i].conf.target

\* checkNetherNetDataPortConflict: the data socket is bound on every address.
DataConflict(c, self) ==
  \E i \in Ids \ {self} :
    /\ rules[i] # None /\ rules[i].enabled
    /\ rules[i].conf.kind = "nethernet" /\ rules[i].conf.data = c.data

-----------------------------------------------------------------------------
(* Operations of the panel *)

\* AddRule and UpdateRule up to SaveRule; a rule that is refused changes nothing.
BeginAdd(i, r) ==
  /\ phase \in {"up", "stopping"} /\ op = Idle
  /\ rules[i] = None
  /\ ~PortConflict(r.conf, i) /\ ~TargetConflict(r.conf, i)
  /\ op' = [kind |-> "add", id |-> i, next |-> r, stage |-> "save"]
  /\ UNCHANGED <<phase, store, rules, forwarders, shown>>

BeginUpdate(i, r) ==
  /\ phase \in {"up", "stopping"} /\ op = Idle
  /\ rules[i] # None
  /\ ~PortConflict(r.conf, i) /\ ~TargetConflict(r.conf, i)
  /\ op' = [kind |-> "update", id |-> i, next |-> r, stage |-> "save"]
  /\ UNCHANGED <<phase, store, rules, forwarders, shown>>

BeginDelete(i) ==
  /\ phase \in {"up", "stopping"} /\ op = Idle
  /\ rules[i] # None
  /\ op' = [kind |-> "delete", id |-> i, next |-> None, stage |-> "save"]
  /\ UNCHANGED <<phase, store, rules, forwarders, shown>>

Goto(stage) == op' = [op EXCEPT !.stage = stage]

\* The transaction of the store; if it fails the operation ends there.
Save ==
  /\ op.stage = "save"
  /\ \/ store' = [store EXCEPT ![op.id] = op.next]
        /\ Goto(IF op.kind = "delete" THEN "stop" ELSE "cache")
     \/ op' = Idle /\ UNCHANGED store
  /\ UNCHANGED <<phase, rules, forwarders, shown>>

\* Mutant of NeedsRestart: a change of the target is overlooked.
NeedsRestartPorts(before, after) ==
  Endpoints(before.conf) # Endpoints(after.conf) \/ before.enabled # after.enabled

\* Mutant of NeedsRestart: the owner counts.
NeedsRestartOwner(before, after) == before # after

\* requiresForwarderRestart
NeedsRestart(before, after) == before.conf # after.conf \/ before.enabled # after.enabled

\* The rule enters the cache.  AddRule forgets an earlier error; UpdateRule is
\* done when the forwarders need not change.
Cache ==
  /\ op.stage = "cache"
  /\ rules' = [rules EXCEPT ![op.id] = op.next]
  /\ errors' = IF op.kind = "add" THEN errors \ {op.id} ELSE errors
  /\ CASE op.kind = "add" -> Goto(IF op.next.enabled THEN "start" ELSE "inactive")
       [] op.kind = "update" /\ NeedsRestart(rules[op.id], op.next) -> Goto("stop")
       [] OTHER -> op' = Idle
  /\ UNCHANGED <<phase, store, forwarders, status>>

\* stopForwardersLocked closes the sockets and takes the entry out of active;
\* a rule without an entry keeps whatever it has.
Stopped(I) ==
  LET S == {i \in I : active[i] # None} IN
  /\ active' = [i \in Ids |-> IF i \in S THEN None ELSE active[i]]
  /\ open' = [i \in Ids |-> IF i \in S THEN {} ELSE open[i]]
  /\ serving' = serving \ S

Stop ==
  /\ op.stage = "stop"
  /\ Stopped({op.id})
  /\ Goto(IF op.kind = "delete" THEN "forget" ELSE IF op.next.enabled THEN "start" ELSE "inactive")
  /\ UNCHANGED <<phase, store, rules, shown>>

\* The end of DeleteRule.
Forget ==
  /\ op.stage = "forget"
  /\ rules' = [rules EXCEPT ![op.id] = None]
  /\ errors' = errors \ {op.id}
  /\ status' = [status EXCEPT ![op.id] = "none"]
  /\ op' = Idle
  /\ UNCHANGED <<phase, store, forwarders>>

\* A rule that is not enabled.
Inactive ==
  /\ op.stage = "inactive"
  /\ errors' = errors \ {op.id}
  /\ status' = [status EXCEPT ![op.id] = "inactive"]
  /\ op' = Idle
  /\ UNCHANGED <<phase, store, rules, forwarders>>

-----------------------------------------------------------------------------
(* startForwarders, step by step.  Every step may fail: the port is taken, *)
(* the target is forbidden, transparent sockets are not supported, there   *)
(* is no public address, the certificate does not load.                    *)

Conf == op.next.conf

Listen(part) == open' = [open EXCEPT ![op.id] = @ \cup {part}]

StartTcp ==
  /\ op.stage = "start" /\ Conf.kind \in {"tcp", "both"}
  /\ \/ Listen("tcp") /\ Goto(IF Conf.kind = "both" THEN "udp" ELSE "publish")
     \/ Goto("failed") /\ UNCHANGED open
  /\ UNCHANGED <<phase, store, rules, active, serving, shown>>

\* If it fails the TCP forwarder that was started before is stopped.
StartUdp ==
  /\ \/ op.stage = "start" /\ Conf.kind = "udp"
     \/ op.stage = "udp"
  /\ \/ Listen("udp") /\ Goto("publish")
     \/ open' = [open EXCEPT ![op.id] = {}] /\ Goto("failed")
  /\ UNCHANGED <<phase, store, rules, active, serving, shown>>

\* The multiplexer of startNetherNet.
StartData ==
  /\ op.stage = "start" /\ Conf.kind = "nethernet"
  /\ \/ ~DataConflict(Conf, op.id) /\ Listen("data") /\ Goto("gateway")
     \/ Goto("failed") /\ UNCHANGED open
  /\ UNCHANGED <<phase, store, rules, active, serving, shown>>

\* The gateway binds its port itself if it serves two protocols there, and
\* leaves it to a goroutine otherwise.
StartGateway ==
  /\ op.stage = "gateway"
  /\ \/ Conf.dual /\ Listen("signal") /\ Goto("publish") /\ UNCHANGED serving
     \/ ~Conf.dual /\ serving' = serving \cup {op.id} /\ Goto("publish") /\ UNCHANGED open
     \/ open' = [open EXCEPT ![op.id] = {}] /\ Goto("failed") /\ UNCHANGED serving
  /\ UNCHANGED <<phase, store, rules, active, shown>>

\* ListenAndServe in the goroutine; an error is logged and nothing more.
Serve(i) ==
  /\ i \in serving
  /\ serving' = serving \ {i}
  /\ \/ open' = [open EXCEPT ![i] = @ \cup {"signal"}]
     \/ UNCHANGED open
  /\ UNCHANGED <<phase, store, rules, active, shown, op>>

Publish ==
  /\ op.stage = "publish"
  /\ active' = [active EXCEPT ![op.id] = [conf |-> Conf, owner |-> op.next.owner]]
  /\ Goto("started")
  /\ UNCHANGED <<phase, store, rules, open, serving, shown>>

\* clearRuleError and recordRuleStatus
Started ==
  /\ op.stage = "started"
  /\ errors' = errors \ {op.id}
  /\ status' = [status EXCEPT ![op.id] = "active"]
  /\ op' = Idle
  /\ UNCHANGED <<phase, store, rules, forwarders>>

\* setRuleError: the rule stays, with an error.
Failed ==
  /\ op.stage = "failed"
  /\ errors' = errors \cup {op.id}
  /\ status' = [status EXCEPT ![op.id] = "error"]
  /\ op' = Idle
  /\ UNCHANGED <<phase, store, rules, forwarders>>

-----------------------------------------------------------------------------
(* The process *)

\* Shutdown holds m.mu, not m.opsMu: an operation that is past its stop goes on.
Shutdown ==
  /\ phase = "up"
  /\ phase' = "stopping"
  /\ Stopped(Ids)
  /\ UNCHANGED <<store, rules, shown, op>>

\* The process exits or crashes: what is not in the store is lost.
Exit ==
  /\ phase # "off"
  /\ phase' = "off"
  /\ rules' = Nothing /\ active' = Nothing
  /\ open' = [i \in Ids |-> {}] /\ serving' = {}
  /\ errors' = {} /\ status' = [i \in Ids |-> "none"]
  /\ op' = Idle
  /\ UNCHANGED store

\* NewManager caches and starts the stored rules one by one.
Boot ==
  /\ phase = "off"
  /\ phase' = "boot"
  /\ UNCHANGED <<store, rules, forwarders, shown, op>>

BootRule(i) ==
  /\ phase = "boot" /\ op = Idle
  /\ store[i] # None /\ rules[i] = None
  /\ rules' = [rules EXCEPT ![i] = store[i]]
  /\ op' = [kind |-> "boot", id |-> i, next |-> store[i],
            stage |-> IF store[i].enabled THEN "start" ELSE "inactive"]
  /\ UNCHANGED <<phase, store, forwarders, shown>>

Booted ==
  /\ phase = "boot" /\ op = Idle
  /\ \A i \in Ids : store[i] # None => rules[i] # None
  /\ phase' = "up"
  /\ UNCHANGED <<store, rules, forwarders, shown, op>>

-----------------------------------------------------------------------------

StartForwarders ==
  StartTcp \/ StartUdp \/ StartData \/ StartGateway \/ Publish \/ Started \/ Failed

Next ==
  \/ \E i \in Ids : (\E r \in Rule : BeginAdd(i, r) \/ BeginUpdate(i, r)) \/ BeginDelete(i)
  \/ Save \/ Cache \/ Stop \/ Forget \/ Inactive
  \/ StartForwarders
  \/ \E i \in Ids : Serve(i) \/ BootRule(i)
  \/ Shutdown \/ Exit \/ Boot \/ Booted

Spec == Init /\ [][Next]_vars

-----------------------------------------------------------------------------
(* Properties *)

Operation ==
  [kind : {"add", "update", "delete", "boot"}, id : Ids, next : Rule \cup {None},
   stage : {"save", "cache", "stop", "forget", "inactive", "start", "udp", "gateway",
            "publish", "started", "failed"}]

TypeOK ==
  /\ phase \in {"off", "boot", "up", "stopping"}
  /\ store \in [Ids -> Rule \cup {None}] /\ rules \in [Ids -> Rule \cup {None}]
  /\ active \in [Ids -> Running \cup {None}]
  /\ open \in [Ids -> (SUBSET {"tcp", "udp"}) \cup (SUBSET {"data", "signal"})]
  /\ serving \subseteq Ids /\ errors \subseteq Ids
  /\ status \in [Ids -> {"none", "inactive", "active", "error"}]
  /\ op = Idle \/ op \in Operation

\* The cache shows what a restart would load: whatever fails and wherever the
\* process stops, the two differ only in the rule of the operation under way.
CacheIsStored ==
  phase \in {"up", "stopping"} =>
    \A i \in Ids : rules[i] # store[i] => op.id = i /\ op.stage \in {"cache", "stop", "forget"}

\* Whatever was saved can be started: no two stored rules claim a port, and no
\* two transparent rules a target.
StoredRulesAreDistinct ==
  \A i, j \in Ids : i # j /\ store[i] # None /\ store[j] # None =>
    /\ Endpoints(store[i].conf) \cap Endpoints(store[j].conf) = {}
    /\ ~ /\ store[i].conf.transparent /\ store[j].conf.transparent
         /\ store[i].conf.target = store[j].conf.target

\* Forwarders run the configuration that the panel shows for their rule.
RunsAsConfigured ==
  \A i \in Ids : active[i] # None /\ op.id # i =>
    rules[i] # None /\ rules[i].enabled /\ rules[i].conf = active[i].conf

\* The sockets that the forwarders of a rule have bound before Start returns.
Bound(c) ==
  CASE c.kind = "both"      -> {"tcp", "udp"}
    [] c.kind = "nethernet" -> IF c.dual THEN {"data", "signal"} ELSE {"data"}
    [] OTHER                -> {c.kind}

\* A rule has its sockets while it is active, and none that stopForwarders
\* would not find once its operation is over: "the port stays taken and a
\* restart fails to bind".
SocketsAreActive ==
  /\ \A i \in Ids : active[i] # None => Bound(active[i].conf) \subseteq open[i]
  /\ \A i \in Ids : open[i] # {} /\ op.id # i => active[i] # None

\* An enabled rule that does not run shows its error, and what the history
\* recorded last is what the panel shows.
FailureIsShown ==
  phase \in {"boot", "up"} =>
    \A i \in Ids : rules[i] # None /\ op.id # i =>
      /\ i \in errors <=> rules[i].enabled /\ active[i] = None
      /\ status[i] = IF active[i] # None THEN "active"
                       ELSE IF rules[i].enabled THEN "error" ELSE "inactive"

\* "A change of metadata must not cut the players that are on": the forwarders
\* of a rule stop only for a change of what they run, a deletion or the end of
\* the process.
NoNeedlessRestart ==
  [][\A i \in Ids : active[i] # None /\ active'[i] # active[i] /\ phase' = "up" =>
       store[i] = None \/ ~store[i].enabled \/ store[i].conf # active[i].conf]_vars

\* Whatever operation, failed save or start, crash or boot is under way: cache and store agree,
\* what is stored can start, what runs is what the panel shows (AddRule, UpdateRule, DeleteRule).
ManagerHolds ==
  /\ TypeOK /\ CacheIsStored /\ StoredRulesAreDistinct
  /\ RunsAsConfigured /\ SocketsAreActive /\ FailureIsShown

=============================================================================
