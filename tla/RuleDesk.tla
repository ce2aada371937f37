------------------------------ MODULE RuleDesk ------------------------------
(***************************************************************************)
(* The requests of the panel that change rules, access codes and users     *)
(* (internal/web), between the guards that check quotas and references     *)
(* (rule_guard.go), the manager and the store that carry them out, and the *)
(* host's firewall (internal/firewall) that must follow the rules.         *)
(*                                                                         *)
(* A request runs in a goroutine of its own: it reads and checks, then the *)
(* manager or the store acts in one critical section or transaction, then  *)
(* the firewall is changed from what the request had read.  Nothing is     *)
(* held across these steps.  The firewall is a bag: iptables -A appends an *)
(* entry that may be there already, and -D removes one of them.            *)
(* Whether the forwarder of a rule starts is left to RuleManager: a rule   *)
(* that fails to start is saved, and its request succeeds.                 *)
(***************************************************************************)
EXTENDS Integers, FiniteSets, FiniteSetsExt

CONSTANTS Users,               \* the plain users; the administrator is none of them
          Rules, Codes,        \* ids
          Endpoints, PortOf(_),\* listen addresses with their port, and the port
          Names, Addresses,    \* rule names; the addresses of the tunnel, 1..n
          Requests,            \* at most so many run at once
          MaxStarted,          \* at most so many requests in a behaviour
          Works,               \* each behaviour has the kinds of request, the rules and the
                               \* settings and group limits of one of these
          Admin, Shared, Public, None

VARIABLES
  people,   \* the users that exist
  rules,    \* id -> rule, or None
  codes,    \* id -> access code, or None
  policy,   \* the limits in force
  wall,     \* entry -> how often the firewall has it
  jobs,     \* the requests that run
  work, started,
  blurred,  \* the entries, the users and the addresses for which two requests overlapped, a
            \* firewall command failed or the administrator gave what the user could not
  most      \* the widest limits that were in force

deskVars == <<people, rules, codes, policy, wall, jobs, work, started, blurred, most>>

Rule == [owner : Users \cup {Shared}, name : Names, at : Endpoints, target : Addresses \cup {Public},
         on : BOOLEAN, fw : BOOLEAN]
Code == [owner : Users, ip : Addresses, on : BOOLEAN]

\* firewallRule: the entry is known by the rule's name and port (and protocol).
Entry(rule) == <<rule.name, PortOf(rule.at)>>
Entries == Names \X {PortOf(e) : e \in Endpoints}
Managed(rule) == rule.fw /\ rule.on

\* Of the constants; assumed where an instance is made.
DeskAssumption ==
  /\ IsFiniteSet(Rules) /\ IsFiniteSet(Codes) /\ MaxStarted \in Nat
  /\ Addresses \subseteq Nat /\ 1 \in Addresses
  /\ Shared \notin Users /\ Public \notin Addresses /\ None \notin Rule \cup Code
  /\ \A w \in Works :
       /\ w.rules \subseteq Rule
       /\ \A p \in w.policies : {p.groupRules, p.rules, p.groupCodes, p.codes} \subseteq Int

NoJob == [at |-> "none", what |-> "none", id |-> None, old |-> None, new |-> None, limit |-> -1]

-----------------------------------------------------------------------------
(* Limits *)

\* ResolveQuota: the group's value unless it is -1, else the global one unless it is 0;
\* -1 here is no limit.
Picked(group, global) == IF group >= 0 THEN group ELSE IF global > 0 THEN global ELSE -1

\* ResolveQuota and PortAllowed: the group's own range of endpoints, none at all when the
\* group's is locked or the group may have no rules, else the global one.
Allowed(p) == IF p.groupRange # {} THEN p.groupRange
              ELSE IF p.locked \/ p.groupRules = 0 THEN {} ELSE p.range
MaxRules == Picked(policy.groupRules, policy.rules)
MaxCodes == Picked(policy.groupCodes, policy.codes)
Wider(a, b) == IF a = -1 \/ b = -1 THEN -1 ELSE IF a >= b THEN a ELSE b

Owned(u) == {r \in Rules : rules[r] # None /\ rules[r].owner = u}
CodesOf(u) == {c \in Codes : codes[c] # None /\ codes[c].owner = u}
TunIPsOf(u) == {codes[c].ip : c \in {c \in CodesOf(u) : codes[c].on}}
Pointing(a) == {r \in Rules : rules[r] # None /\ rules[r].target = a}

-----------------------------------------------------------------------------
(* What a request has a stake in, and what overlaps *)

Of(job, f(_)) == {f(x) : x \in {job.old, job.new} \ {None}}
IsRuleJob(job) == job.what \in {"add", "edit", "toggle", "drop"}
Stakes(job) ==
  IF IsRuleJob(job)
  THEN << {job.id} \cup Of(job, Entry),
          Of(job, LAMBDA x : x.owner) \ {Shared},
          Of(job, LAMBDA x : x.target) \ {Public} >>
  ELSE << {}, {job.id} \cap Users, Of(job, LAMBDA x : x.ip) >>

Running == {jobs[r] : r \in Requests} \ {NoJob}
Overlaps(job, d) ==
  UNION {Stakes(job)[d] \cup Stakes(k)[d] : k \in {k \in Running : Stakes(job)[d] \cap Stakes(k)[d] # {}}}

\* What the administrator may give a user though the user could not take it: a rule that
\* points at another's tunnel, or one more than the limit.
Given(me, job, d) ==
  IF d > 1 /\ me = Admin /\ IsRuleJob(job) /\ job.new # None THEN Stakes(job)[d] ELSE {}

Blur(sets) == blurred' = [d \in 1..3 |-> blurred[d] \cup sets[d]]

Goes(q, me, job) ==
  /\ jobs[q] = NoJob /\ started < MaxStarted
  /\ jobs' = [jobs EXCEPT ![q] = job]
  /\ started' = started + 1
  /\ Blur([d \in 1..3 |-> Overlaps(job, d) \cup Given(me, job, d)])
Ends(q) == jobs' = [jobs EXCEPT ![q] = NoJob]
Job(at, what, id, old, new, limit) ==
  [at |-> at, what |-> what, id |-> id, old |-> old, new |-> new, limit |-> limit]

-----------------------------------------------------------------------------
(* Rules *)

\* canTouchRule.
CanTouch(me, rule) == me = Admin \/ rule.owner = me

\* checkTargetRule: the address of an enabled code of the user's (transparent) or a public
\* one (general mode).
MayTarget(me, rule) == rule.target \in TunIPsOf(me) \cup {Public}

\* IsPortReserved, over the ports and ranges of ports of the settings.
IsPortReserved(at) == at \in policy.reserved

\* guardCreate and guardUpdate: the ports reserved for the system, the owner an
\* administrator names, and for a user the range of ports and the target.
Guarded(me, rule) ==
  /\ ~IsPortReserved(rule.at)
  /\ me # Admin => rule.at \in Allowed(policy) /\ MayTarget(me, rule)
  /\ me = Admin => rule.owner \in people \cup {Shared}

\* Mutant of QuotaLeft: off by one.
QuotaLeftOneMore(me) == me = Admin \/ MaxRules = -1 \/ Cardinality(Owned(me)) <= MaxRules

\* checkRuleQuota.
QuotaLeft(me) == me = Admin \/ MaxRules = -1 \/ Cardinality(Owned(me)) < MaxRules

\* createRule, up to the call of AddRule.
CreateRule(q, me) ==
  \E rule \in work.rules :
    LET id == CHOOSE r \in Rules : rules[r] = None /\ \A k \in Running : k.id # r
    IN /\ "add" \in work.kinds
       /\ \E r \in Rules : rules[r] = None /\ \A k \in Running : k.id # r
       /\ me # Admin => rule.owner = me
       /\ Guarded(me, rule) /\ QuotaLeft(me)
       /\ Goes(q, me, Job("manager", "add", id, None, rule, -1))
       /\ UNCHANGED <<people, rules, codes, policy, wall, work, most>>

\* One field of the rule.
Edits(rule) ==
  {[rule EXCEPT !.name = n] : n \in Names} \cup {[rule EXCEPT !.at = e] : e \in Endpoints}
  \cup {[rule EXCEPT !.on = ~@], [rule EXCEPT !.fw = ~@]}
  \cup {[rule EXCEPT !.target = a] : a \in Addresses \cup {Public}}
  \cup {[rule EXCEPT !.owner = u] : u \in Users \cup {Shared}}

\* updateRule, up to the call of UpdateRule: `before` and what it would become.
UpdateRule(q, me, r) ==
  /\ "edit" \in work.kinds /\ rules[r] # None /\ CanTouch(me, rules[r])
  /\ \E new \in (Edits(rules[r]) \cap work.rules) \ {rules[r]} :
       /\ Guarded(me, new)
       /\ me # Admin => new.owner = me
       /\ Goes(q, me, Job("manager", "edit", r, rules[r], new, -1))
  /\ UNCHANGED <<people, rules, codes, policy, wall, work, most>>

\* toggleRule: the switch alone, without the guards.
ToggleRule(q, me, r) ==
  /\ "toggle" \in work.kinds /\ rules[r] # None /\ CanTouch(me, rules[r])
  /\ \E on \in BOOLEAN :
       Goes(q, me, Job("manager", "toggle", r, rules[r], [rules[r] EXCEPT !.on = on], -1))
  /\ UNCHANGED <<people, rules, codes, policy, wall, work, most>>

\* deleteRule, up to the call of the manager's.
DeleteRule(q, me, r) ==
  /\ "drop" \in work.kinds /\ rules[r] # None /\ CanTouch(me, rules[r])
  /\ Goes(q, me, Job("manager", "drop", r, rules[r], None, -1))
  /\ UNCHANGED <<people, rules, codes, policy, wall, work, most>>

\* applyUpdate: the fields of the request, over the rule as it is now.
Applied(job) ==
  IF job.what = "add" THEN job.new
  ELSE [f \in DOMAIN job.new |->
          IF job.old[f] # job.new[f] \/ (job.what = "toggle" /\ f = "on")
          THEN job.new[f] ELSE rules[job.id][f]]

\* ruleFromCache: the rule that an update names is gone by now.
Lost(job) == job.what # "add" /\ rules[job.id] = None

\* checkPortConflict.
Conflicts(r, rule) == \E s \in Rules \ {r} : rules[s] # None /\ rules[s].at = rule.at

\* Entries that two rules have, or that came from a rule the request had not read.
Doubtful(job, rule) ==
  (IF \E s \in Rules \ {job.id} : rules[s] # None /\ Entry(rules[s]) = Entry(rule)
   THEN {Entry(rule)} ELSE {})
  \cup (IF rules[job.id] # job.old THEN {Entry(rule)} \cup Of(job, Entry) ELSE {})

\* AddRule and UpdateRule of the manager, under opsMu, over the rules as they are now.
SaveRule(q) ==
  LET job == jobs[q] IN
  /\ job.at = "manager" /\ job.what \in {"add", "edit", "toggle"}
  /\ \/ /\ Lost(job)
        /\ Ends(q) /\ UNCHANGED <<rules, blurred>>
     \/ /\ ~Lost(job) /\ Conflicts(job.id, Applied(job))
        /\ Ends(q) /\ UNCHANGED <<rules, blurred>>
     \/ /\ ~Lost(job) /\ ~Conflicts(job.id, Applied(job))
        /\ rules' = [rules EXCEPT ![job.id] = Applied(job)]
        /\ jobs' = [jobs EXCEPT ![q] = Job("clean", job.what, job.id, job.old, Applied(job), job.limit)]
        /\ Blur(<<Doubtful(job, Applied(job)), {}, {}>>)
  /\ UNCHANGED <<people, codes, policy, wall, work, started, most>>

\* DeleteRule of the manager.
DropRule(q) ==
  LET job == jobs[q] IN
  /\ job.at = "manager" /\ job.what = "drop"
  /\ IF rules[job.id] = None THEN Ends(q) ELSE jobs' = [jobs EXCEPT ![q].at = "clean"]
  /\ rules' = [rules EXCEPT ![job.id] = None]
  /\ UNCHANGED <<people, codes, policy, wall, work, started, blurred, most>>

\* The entry that the firewall should have for a rule, or for none.
Kept(rule) == IF rule = None THEN {} ELSE IF Managed(rule) THEN {Entry(rule)} ELSE {}
Marked(rule) == IF rule = None THEN {} ELSE IF rule.fw THEN {Entry(rule)} ELSE {}

\* Mutant of Closed: the entry of a rule stays when the rule is switched off.
ClosedUnlessOff(job) == IF Marked(job.new) = {} THEN Marked(job.old) ELSE Kept(job.old) \ Marked(job.new)

\* syncFirewallOnUpdate and syncFirewallOnDelete: the old entry goes when the rule is gone,
\* off or not marked any more (even if it was off before), or has another entry now.
Closed(job) == IF Kept(job.new) = {} THEN Marked(job.old) ELSE Kept(job.old) \ Kept(job.new)

\* syncFirewallOnCreate and syncFirewallOnUpdate: the new entry comes when there was none,
\* or when it is another.
Opened(job) == Kept(job.new) \ Kept(job.old)

\* DeleteRule of the firewall; on Linux an entry that is not there is no error.
CleanWall(q) ==
  /\ jobs[q].at = "clean"
  /\ jobs' = [jobs EXCEPT ![q].at = "open"]
  /\ wall' = [e \in Entries |-> IF e \in Closed(jobs[q]) /\ wall[e] > 0 THEN wall[e] - 1 ELSE wall[e]]
  /\ UNCHANGED <<people, rules, codes, policy, work, started, blurred, most>>

\* AddRule of the firewall, which may fail: the request still succeeds, with a warning.
OpenWall(q) ==
  LET opened == Opened(jobs[q]) IN
  /\ jobs[q].at = "open" /\ Ends(q)
  /\ \/ /\ wall' = [e \in Entries |-> IF e \in opened THEN wall[e] + 1 ELSE wall[e]]
        /\ UNCHANGED blurred
     \/ /\ opened # {}
        /\ Blur(<<opened, {}, {}>>)
        /\ UNCHANGED wall
  /\ UNCHANGED <<people, rules, codes, policy, work, started, most>>

-----------------------------------------------------------------------------
(* Access codes and users *)

\* createAccessCode, up to the transaction: the limit is read here.
CreateCode(q, me, u) ==
  LET id == CHOOSE c \in Codes : codes[c] = None /\ \A k \in Running : k.id # c IN
  /\ "code" \in work.kinds /\ u \in people /\ me \in {u, Admin}
  /\ \E c \in Codes : codes[c] = None /\ \A k \in Running : k.id # c
  /\ MaxCodes # 0
  /\ Goes(q, me, Job("store", "code", id, None, [owner |-> u, ip |-> 1, on |-> TRUE], MaxCodes))
  /\ UNCHANGED <<people, rules, codes, policy, wall, work, most>>

\* The addresses that codes have, in the transaction.
Used == {codes[c].ip : c \in {d \in Codes : codes[d] # None}}

\* CreateAccessCode of the store: the number of the owner's codes and the lowest free
\* address (allocTunIP), in one transaction.
StoreCode(q) ==
  LET job == jobs[q] IN
  /\ job.at = "store" /\ job.what = "code" /\ Ends(q)
  /\ \/ /\ Addresses \ Used # {}
        /\ job.limit = -1 \/ Cardinality(CodesOf(job.new.owner)) < job.limit
        /\ codes' = [codes EXCEPT ![job.id] = [job.new EXCEPT !.ip = Min(Addresses \ Used)]]
     \/ /\ \/ Addresses \ Used = {}
           \/ job.limit # -1 /\ Cardinality(CodesOf(job.new.owner)) >= job.limit
        /\ UNCHANGED codes
  /\ UNCHANGED <<people, rules, policy, wall, work, started, blurred, most>>

\* updateAccessCode: the copy with the switch turned, saved whole if the code still exists.
UpdateCode(q, me, c) ==
  /\ "switch" \in work.kinds /\ codes[c] # None /\ me \in {codes[c].owner, Admin}
  /\ Goes(q, me, Job("store", "switch", c, codes[c], [codes[c] EXCEPT !.on = ~@], -1))
  /\ UNCHANGED <<people, rules, codes, policy, wall, work, most>>
SaveCode(q) ==
  LET job == jobs[q] IN
  /\ job.at = "store" /\ job.what = "switch" /\ Ends(q)
  /\ codes' = [codes EXCEPT ![job.id] = IF @ = None THEN None ELSE job.new]
  /\ UNCHANGED <<people, rules, policy, wall, work, started, blurred, most>>

\* CountRulesByTarget.
Referenced(a) == Pointing(a) # {}

\* deleteAccessCode: the count, and then the deletion.
DeleteCode(q, me, c) ==
  /\ "uncode" \in work.kinds /\ codes[c] # None /\ me \in {codes[c].owner, Admin}
  /\ ~Referenced(codes[c].ip)
  /\ Goes(q, me, Job("store", "uncode", c, codes[c], None, -1))
  /\ UNCHANGED <<people, rules, codes, policy, wall, work, most>>
EraseCode(q) ==
  LET job == jobs[q] IN
  /\ job.at = "store" /\ job.what = "uncode" /\ Ends(q)
  /\ codes' = [codes EXCEPT ![job.id] = None]
  /\ UNCHANGED <<people, rules, policy, wall, work, started, blurred, most>>

\* deleteUser: the count of the user's rules, the account, and then the user's codes.
DeleteUser(q, u) ==
  /\ "leave" \in work.kinds /\ u \in people /\ Owned(u) = {}
  /\ Goes(q, Admin, Job("store", "leave", u, None, None, -1))
  /\ UNCHANGED <<people, rules, codes, policy, wall, work, most>>
EraseUser(q) ==
  /\ jobs[q].at = "store" /\ jobs[q].what = "leave"
  /\ people' = people \ {jobs[q].id}
  /\ jobs' = [jobs EXCEPT ![q].at = "purge"]
  /\ UNCHANGED <<rules, codes, policy, wall, work, started, blurred, most>>
PurgeCodes(q) ==
  /\ jobs[q].at = "purge" /\ Ends(q)
  /\ codes' = [c \in Codes |-> IF c \in CodesOf(jobs[q].id) THEN None ELSE codes[c]]
  /\ UNCHANGED <<people, rules, policy, wall, work, started, blurred, most>>

\* updateSettings and updateGroup.
ChangeLimits(p) ==
  /\ p # policy
  /\ policy' = p
  /\ most' = [rules |-> Wider(most.rules, Picked(p.groupRules, p.rules)),
              codes |-> Wider(most.codes, Picked(p.groupCodes, p.codes))]
  /\ UNCHANGED <<people, rules, codes, wall, jobs, work, started, blurred>>

\* A crash and the start after it: the rules, the codes and the firewall are as they were,
\* and nobody finishes what the requests had begun.
Crash ==
  /\ "crash" \in work.kinds /\ Running # {}
  /\ jobs' = [q \in Requests |-> NoJob]
  /\ Blur([d \in 1..3 |-> UNION {Stakes(k)[d] : k \in Running}])
  /\ UNCHANGED <<people, rules, codes, policy, wall, work, started, most>>

-----------------------------------------------------------------------------
DeskInit ==
  /\ people = Users
  /\ rules = [r \in Rules |-> None] /\ codes = [c \in Codes |-> None]
  /\ work \in Works /\ policy \in work.policies
  /\ most = [rules |-> MaxRules, codes |-> MaxCodes]
  /\ wall = [e \in Entries |-> 0]
  /\ jobs = [q \in Requests |-> NoJob]
  /\ started = 0 /\ blurred = <<{}, {}, {}>>

RuleStep(q) == SaveRule(q) \/ DropRule(q) \/ CleanWall(q) \/ OpenWall(q)
CodeStep(q) == StoreCode(q) \/ SaveCode(q) \/ EraseCode(q) \/ EraseUser(q) \/ PurgeCodes(q)
DeskNext ==
  \/ \E q \in Requests, me \in people \cup {Admin} :
       \/ CreateRule(q, me)
       \/ \E r \in Rules : UpdateRule(q, me, r) \/ ToggleRule(q, me, r) \/ DeleteRule(q, me, r)
       \/ \E u \in Users : CreateCode(q, me, u)
       \/ \E c \in Codes : UpdateCode(q, me, c) \/ DeleteCode(q, me, c)
  \/ \E q \in Requests, u \in Users : DeleteUser(q, u)
  \/ \E q \in Requests : RuleStep(q) \/ CodeStep(q)
  \/ \E p \in work.policies : ChangeLimits(p)
  \/ Crash

DeskSpec == DeskInit /\ [][DeskNext]_deskVars

-----------------------------------------------------------------------------
(* Properties *)

DeskTypeOK ==
  /\ people \subseteq Users /\ policy \in work.policies /\ started \in 0..MaxStarted
  /\ rules \in [Rules -> Rule \cup {None}] /\ codes \in [Codes -> Code \cup {None}]
  /\ wall \in [Entries -> Nat]

Unsettled(d) == (UNION {Stakes(k)[d] : k \in Running}) \cup blurred[d]

\* The firewall has an entry as often as enabled rules that ask for it: whatever is
\* created, edited, switched and deleted, as long as requests on one rule or one entry did
\* not overlap, no two rules shared the entry and no command failed.
FirewallFollows ==
  \A e \in Entries \ Unsettled(1) :
    wall[e] = Cardinality({r \in Rules : rules[r] # None /\ Managed(rules[r]) /\ Entry(rules[r]) = e})

\* No user has more rules, or more codes, than the widest limits ever allowed: the codes
\* always (one transaction counts and writes), the rules unless two requests of the user
\* overlapped or an administrator gave them.
LimitsHold ==
  \A u \in Users :
    /\ most.codes = -1 \/ Cardinality(CodesOf(u)) <= most.codes
    /\ u \in blurred[2] \/ most.rules = -1 \/ Cardinality(Owned(u)) <= most.rules

\* A user's rule belongs to a user that exists and leads to the tunnel of a code of that
\* user, and no two codes have one address: so no rule feeds another's tunnel, unless
\* requests overlapped or an administrator said so.
RulesLeadHome ==
  /\ \A c, d \in {c \in Codes : codes[c] # None} : codes[c].ip = codes[d].ip => c = d
  /\ \A r \in Rules :
       rules[r] # None /\ rules[r].owner \in Users \ Unsettled(2) =>
         /\ rules[r].owner \in people
         /\ rules[r].target \in {Public} \cup Unsettled(3)
              \cup {codes[c].ip : c \in CodesOf(rules[r].owner)}
=============================================================================
