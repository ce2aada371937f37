-------------------------- MODULE RuleManagerProofs --------------------------
(***************************************************************************)
(* Theorems about RuleManager, for any rules, owners and configurations,   *)
(* whatever step fails and wherever the process stops.  ManagerInv is      *)
(* inductive: it says of every stage of an operation what it has done to   *)
(* its rule, and that it has touched no other.                             *)
(***************************************************************************)
EXTENDS RuleManager, TLAPS

Before == {"save", "cache"}                     \* the forwarders are untouched
Starting == {"start", "udp", "gateway", "publish", "failed"}
Settled == Starting \cup {"inactive", "started"}  \* the cache has the new rule

\* Which operations come to which stages, and when they run.
OpOK ==
  /\ phase = "off" => op = Idle /\ rules = Nothing
  /\ op # Idle =>
       /\ op.kind = "boot" <=> phase = "boot"
       /\ op.kind = "delete" <=> op.next = None
       /\ op.kind = "boot" => op.stage \in Settled
       /\ op.kind = "delete" => op.stage \in {"save", "stop", "forget"}
       /\ op.stage = "forget" => op.kind = "delete"
       /\ op.stage = "stop" => op.kind \in {"update", "delete"}
       /\ op.stage \in Starting \cup {"started"} => op.next.enabled
       /\ op.stage = "inactive" => ~op.next.enabled

\* Store and cache agree but for the rule of the operation under way.
CacheOK ==
  /\ \A i \in Ids : op.id # i =>
       /\ phase \in {"up", "stopping"} => rules[i] = store[i]
       /\ phase = "boot" => rules[i] \in {None, store[i]}
  /\ op # Idle =>
       /\ op.stage = "save" => store[op.id] = rules[op.id]
       /\ op.stage # "save" => store[op.id] = op.next
       /\ op.stage \in Before /\ op.kind = "add" => rules[op.id] = None
       /\ op.stage \in Before \cup {"stop", "forget"} /\ op.kind # "add" => rules[op.id] # None
       /\ op.stage \in Settled \/ (op.stage = "stop" /\ op.kind = "update") => rules[op.id] = op.next

Distinct(r, s) ==
  /\ Endpoints(r.conf) \cap Endpoints(s.conf) = {}
  /\ ~(r.conf.transparent /\ s.conf.transparent /\ r.conf.target = s.conf.target)

\* A rule about to be saved was compared with what is in the store.
CheckedOK ==
  /\ \A i, j \in Ids : i # j /\ store[i] # None /\ store[j] # None => Distinct(store[i], store[j])
  /\ op.stage = "save" /\ op.next # None =>
       \A j \in Ids \ {op.id} : store[j] # None => Distinct(op.next, store[j])

\* Forwarders run the cached rule until they are stopped for a reason.
RunOK ==
  /\ \A i \in Ids : active[i] # None =>
       \/ op.id = i /\ op.stage = "stop"
       \/ rules[i] # None /\ rules[i].enabled /\ rules[i].conf = active[i].conf
  /\ op.stage \in Starting \cup {"inactive", "forget"} => active[op.id] = None
  /\ op.stage = "stop" /\ active[op.id] # None =>
       op.next = None \/ ~op.next.enabled \/ op.next.conf # active[op.id].conf

\* Sockets belong to forwarders that are active or are being started.
SocketOK ==
  /\ \A i \in Ids :
       /\ active[i] # None => Bound(active[i].conf) \subseteq open[i]
       /\ open[i] # {} => active[i] # None \/ (op.id = i /\ op.stage \in {"udp", "gateway", "publish"})
       /\ i \in serving => /\ open[i] \subseteq {"data", "signal"}
                           /\ active[i] # None \/ (op.id = i /\ op.stage = "publish")
  /\ op.stage = "udp" => Conf.kind = "both" /\ open[op.id] = {"tcp"}
  /\ op.stage = "gateway" => Conf.kind = "nethernet" /\ open[op.id] = {"data"}
  /\ op.stage = "publish" => Bound(Conf) \subseteq open[op.id]

Shows(i) ==
  /\ i \in errors <=> rules[i].enabled /\ active[i] = None
  /\ status[i] = IF active[i] # None THEN "active"
                   ELSE IF rules[i].enabled THEN "error" ELSE "inactive"

\* What is shown is right for every rule no operation has touched yet.
ShownOK ==
  phase \in {"boot", "up"} =>
    /\ \A i \in Ids : rules[i] # None /\ (op.id = i => op.stage \in Before) => Shows(i)
    /\ op.stage = "started" => active[op.id] # None

ManagerInv == TypeOK /\ OpOK /\ CacheOK /\ CheckedOK /\ RunOK /\ SocketOK /\ ShownOK

-----------------------------------------------------------------------------

LEMMA ManagerInit == Init => ManagerInv
<1> SUFFICES ASSUME Init PROVE ManagerInv
  OBVIOUS
<1> USE ManagerAssumption, NoneIsNoRule DEF Init, Nothing, Idle
<1>1. TypeOK
  BY DEF TypeOK
<1>2. OpOK /\ CacheOK /\ CheckedOK
  BY DEF OpOK, CacheOK, CheckedOK
<1>3. RunOK /\ SocketOK /\ ShownOK
  BY DEF RunOK, SocketOK, ShownOK, Starting
<1>4. QED
  BY <1>1, <1>2, <1>3 DEF ManagerInv

\* Types and stages.
LEMMA OpStep ==
  ASSUME ManagerInv, [Next]_vars
  PROVE  TypeOK' /\ OpOK'
<1> USE ManagerAssumption, NoneIsNoRule DEF ManagerInv, TypeOK, OpOK, Operation, Idle,
      Nothing, Goto, Before, Starting, Settled, forwarders, shown, Rule, Running, Conf,
      SocketOK, RunOK
<1>1. CASE \E i \in Ids, r \in Rule : BeginAdd(i, r)
  BY <1>1 DEF BeginAdd
<1>2. CASE \E i \in Ids, r \in Rule : BeginUpdate(i, r)
  BY <1>2 DEF BeginUpdate
<1>3. CASE \E i \in Ids : BeginDelete(i)
  BY <1>3 DEF BeginDelete
<1>4. CASE Save
  BY <1>4 DEF Save
<1>5. CASE Cache
  BY <1>5, SMTT(30) DEF Cache, CacheOK
<1>6. CASE Stop
  BY <1>6 DEF Stop, Stopped
<1>7. CASE Forget
  BY <1>7 DEF Forget
<1>8. CASE Inactive
  BY <1>8 DEF Inactive
<1>9. CASE StartTcp
  BY <1>9 DEF StartTcp, Listen
<1>10. CASE StartUdp
  BY <1>10 DEF StartUdp, Listen
<1>11. CASE StartData
  BY <1>11 DEF StartData, Listen
<1>12. CASE StartGateway
  BY <1>12, SMTT(30) DEF StartGateway, Listen
<1>13. CASE Publish
  BY <1>13 DEF Publish
<1>14. CASE Started
  BY <1>14 DEF Started
<1>15. CASE Failed
  BY <1>15 DEF Failed
<1>16. CASE \E i \in Ids : Serve(i)
  BY <1>16 DEF Serve
<1>17. CASE \E i \in Ids : BootRule(i)
  BY <1>17 DEF BootRule
<1>18. CASE Shutdown
  BY <1>18 DEF Shutdown, Stopped
<1>19. CASE Exit
  BY <1>19 DEF Exit
<1>20. CASE Boot
  BY <1>20 DEF Boot
<1>21. CASE Booted
  BY <1>21 DEF Booted
<1>22. CASE UNCHANGED vars
  BY <1>22 DEF vars, forwarders, shown
<1>23. QED
  BY <1>1, <1>2, <1>3, <1>4, <1>5, <1>6, <1>7, <1>8, <1>9, <1>10, <1>11, <1>12, <1>13,
      <1>14, <1>15, <1>16, <1>17, <1>18, <1>19, <1>20, <1>21, <1>22 DEF Next,
      StartForwarders

\* Store and cache.
LEMMA CacheStep ==
  ASSUME ManagerInv, [Next]_vars
  PROVE  CacheOK'
<1> USE ManagerAssumption, NoneIsNoRule DEF ManagerInv, TypeOK, OpOK, Operation, Idle,
      Nothing, Goto, Before, Starting, Settled, forwarders, shown, CacheOK, Rule
<1>1. CASE \E i \in Ids, r \in Rule : BeginAdd(i, r)
  BY <1>1 DEF BeginAdd
<1>2. CASE \E i \in Ids, r \in Rule : BeginUpdate(i, r)
  BY <1>2 DEF BeginUpdate
<1>3. CASE \E i \in Ids : BeginDelete(i)
  BY <1>3 DEF BeginDelete
<1>4. CASE Save
  BY <1>4 DEF Save
<1>5. CASE Cache
  BY <1>5 DEF Cache, NeedsRestart
<1>6. CASE Stop
  BY <1>6 DEF Stop, Stopped
<1>7. CASE Forget
  BY <1>7 DEF Forget
<1>8. CASE Inactive
  BY <1>8 DEF Inactive
<1>9. CASE StartTcp
  BY <1>9 DEF StartTcp, Listen
<1>10. CASE StartUdp
  BY <1>10 DEF StartUdp, Listen
<1>11. CASE StartData
  BY <1>11 DEF StartData, Listen
<1>12. CASE StartGateway
  BY <1>12 DEF StartGateway, Listen
<1>13. CASE Publish
  BY <1>13 DEF Publish
<1>14. CASE Started
  BY <1>14 DEF Started
<1>15. CASE Failed
  BY <1>15 DEF Failed
<1>16. CASE \E i \in Ids : Serve(i)
  BY <1>16 DEF Serve
<1>17. CASE \E i \in Ids : BootRule(i)
  BY <1>17 DEF BootRule
<1>18. CASE Shutdown
  BY <1>18 DEF Shutdown, Stopped
<1>19. CASE Exit
  BY <1>19 DEF Exit
<1>20. CASE Boot
  BY <1>20 DEF Boot
<1>21. CASE Booted
  BY <1>21 DEF Booted
<1>22. CASE UNCHANGED vars
  BY <1>22 DEF vars, forwarders, shown
<1>23. QED
  BY <1>1, <1>2, <1>3, <1>4, <1>5, <1>6, <1>7, <1>8, <1>9, <1>10, <1>11, <1>12, <1>13,
      <1>14, <1>15, <1>16, <1>17, <1>18, <1>19, <1>20, <1>21, <1>22 DEF Next,
      StartForwarders

\* What the conflict checks leave is distinct from every other cached rule.
LEMMA NoConflictIsDistinct ==
  ASSUME NEW i \in Ids, NEW r, ~PortConflict(r.conf, i), ~TargetConflict(r.conf, i)
  PROVE  \A j \in Ids \ {i} : rules[j] # None => Distinct(r, rules[j])
BY DEF PortConflict, TargetConflict, Distinct

LEMMA DistinctIsSymmetric ==
  ASSUME NEW r, NEW s, Distinct(r, s)
  PROVE  Distinct(s, r)
BY DEF Distinct

\* The comparison of a rule with the others, made on the cache, holds of the
\* store.
LEMMA CheckedStep ==
  ASSUME ManagerInv, [Next]_vars
  PROVE  CheckedOK'
<1> USE ManagerAssumption, NoneIsNoRule DEF ManagerInv, CheckedOK
<1>1. CASE \E i \in Ids, r \in Rule : BeginAdd(i, r)
  <2>1. PICK i \in Ids, r \in Rule : BeginAdd(i, r)
    BY <1>1
  <2>2. \A j \in Ids \ {i} : rules[j] # None => Distinct(r, rules[j])
    BY <2>1, NoConflictIsDistinct DEF BeginAdd
  <2>3. \A j \in Ids : rules[j] = store[j]
    BY <2>1 DEF BeginAdd, CacheOK, TypeOK, Idle
  <2>4. op'.id = i /\ op'.next = r /\ store' = store
    BY <2>1 DEF BeginAdd
  <2>5. QED
    BY <2>2, <2>3, <2>4
<1>2. CASE \E i \in Ids, r \in Rule : BeginUpdate(i, r)
  <2>1. PICK i \in Ids, r \in Rule : BeginUpdate(i, r)
    BY <1>2
  <2>2. \A j \in Ids \ {i} : rules[j] # None => Distinct(r, rules[j])
    BY <2>1, NoConflictIsDistinct DEF BeginUpdate
  <2>3. \A j \in Ids : rules[j] = store[j]
    BY <2>1 DEF BeginUpdate, CacheOK, TypeOK, Idle
  <2>4. op'.id = i /\ op'.next = r /\ store' = store
    BY <2>1 DEF BeginUpdate
  <2>5. QED
    BY <2>2, <2>3, <2>4
<1>3. CASE \E i \in Ids : BeginDelete(i)
  BY <1>3 DEF BeginDelete, TypeOK, Operation, Idle, Goto
<1>4. CASE Save
  <2>1. CASE store' = [store EXCEPT ![op.id] = op.next] /\ op'.stage # "save"
    <3>1. op \in Operation
      BY <1>4 DEF Save, TypeOK, Idle
    <3>2. SUFFICES ASSUME NEW i \in Ids, NEW j \in Ids, i # j, store'[i] # None, store'[j] # None
                   PROVE  Distinct(store'[i], store'[j])
      BY <2>1
    <3>3. \A k \in Ids : store'[k] = IF k = op.id THEN op.next ELSE store[k]
      BY <2>1, <3>1 DEF TypeOK
    <3>4. CASE i = op.id
      BY <1>4, <3>2, <3>3, <3>4 DEF Save
    <3>5. CASE j = op.id
      <4>1. Distinct(store'[j], store'[i])
        BY <1>4, <3>2, <3>3, <3>5 DEF Save
      <4>2. QED
        BY <4>1, DistinctIsSymmetric
    <3>6. CASE i # op.id /\ j # op.id
      BY <3>2, <3>3, <3>6
    <3>7. QED
      BY <3>4, <3>5, <3>6
  <2>2. CASE store' = store /\ op' = Idle
    BY <2>2 DEF Idle
  <2>3. QED
    BY <1>4, <2>1, <2>2 DEF Save, Goto, TypeOK, Idle, Operation
<1>5. CASE Cache
  BY <1>5 DEF Cache, TypeOK, Operation, Idle, Goto
<1>6. CASE Stop
  BY <1>6 DEF Stop, Stopped, TypeOK, Operation, Idle, Goto
<1>7. CASE Forget
  BY <1>7 DEF Forget, TypeOK, Operation, Idle, Goto
<1>8. CASE Inactive
  BY <1>8 DEF Inactive, TypeOK, Operation, Idle, Goto
<1>9. CASE StartTcp
  BY <1>9 DEF StartTcp, Listen, TypeOK, Operation, Idle, Goto
<1>10. CASE StartUdp
  BY <1>10 DEF StartUdp, Listen, TypeOK, Operation, Idle, Goto
<1>11. CASE StartData
  BY <1>11 DEF StartData, Listen, TypeOK, Operation, Idle, Goto
<1>12. CASE StartGateway
  BY <1>12 DEF StartGateway, Listen, TypeOK, Operation, Idle, Goto
<1>13. CASE Publish
  BY <1>13 DEF Publish, TypeOK, Operation, Idle, Goto
<1>14. CASE Started
  BY <1>14 DEF Started, TypeOK, Operation, Idle, Goto
<1>15. CASE Failed
  BY <1>15 DEF Failed, TypeOK, Operation, Idle, Goto
<1>16. CASE \E i \in Ids : Serve(i)
  BY <1>16 DEF Serve, TypeOK, Operation, Idle, Goto
<1>17. CASE \E i \in Ids : BootRule(i)
  BY <1>17 DEF BootRule, TypeOK, Operation, Idle, Goto
<1>18. CASE Shutdown
  BY <1>18 DEF Shutdown, Stopped, TypeOK, Operation, Idle, Goto
<1>19. CASE Exit
  BY <1>19 DEF Exit, TypeOK, Operation, Idle, Goto
<1>20. CASE Boot
  BY <1>20 DEF Boot, TypeOK, Operation, Idle, Goto
<1>21. CASE Booted
  BY <1>21 DEF Booted, TypeOK, Operation, Idle, Goto
<1>22. CASE UNCHANGED vars
  BY <1>22 DEF vars
<1>23. QED
  BY <1>1, <1>2, <1>3, <1>4, <1>5, <1>6, <1>7, <1>8, <1>9, <1>10, <1>11, <1>12, <1>13,
      <1>14, <1>15, <1>16, <1>17, <1>18, <1>19, <1>20, <1>21, <1>22 DEF Next,
      StartForwarders

\* What forwarders run.
LEMMA RunStep ==
  ASSUME ManagerInv, [Next]_vars
  PROVE  RunOK'
<1> USE ManagerAssumption, NoneIsNoRule DEF ManagerInv, TypeOK, OpOK, Operation, Idle,
      Nothing, Goto, Before, Starting, Settled, forwarders, shown, RunOK, CacheOK, Rule,
      Running, Conf
<1>1. CASE \E i \in Ids, r \in Rule : BeginAdd(i, r)
  BY <1>1 DEF BeginAdd
<1>2. CASE \E i \in Ids, r \in Rule : BeginUpdate(i, r)
  BY <1>2 DEF BeginUpdate
<1>3. CASE \E i \in Ids : BeginDelete(i)
  BY <1>3 DEF BeginDelete
<1>4. CASE Save
  BY <1>4 DEF Save
<1>5. CASE Cache
  BY <1>5 DEF Cache, NeedsRestart
<1>6. CASE Stop
  BY <1>6 DEF Stop, Stopped
<1>7. CASE Forget
  BY <1>7 DEF Forget
<1>8. CASE Inactive
  BY <1>8 DEF Inactive
<1>9. CASE StartTcp
  BY <1>9 DEF StartTcp, Listen
<1>10. CASE StartUdp
  BY <1>10 DEF StartUdp, Listen
<1>11. CASE StartData
  BY <1>11 DEF StartData, Listen
<1>12. CASE StartGateway
  BY <1>12 DEF StartGateway, Listen
<1>13. CASE Publish
  BY <1>13 DEF Publish
<1>14. CASE Started
  BY <1>14 DEF Started
<1>15. CASE Failed
  BY <1>15 DEF Failed
<1>16. CASE \E i \in Ids : Serve(i)
  BY <1>16 DEF Serve
<1>17. CASE \E i \in Ids : BootRule(i)
  BY <1>17 DEF BootRule
<1>18. CASE Shutdown
  BY <1>18 DEF Shutdown, Stopped
<1>19. CASE Exit
  BY <1>19 DEF Exit
<1>20. CASE Boot
  BY <1>20 DEF Boot
<1>21. CASE Booted
  BY <1>21 DEF Booted
<1>22. CASE UNCHANGED vars
  BY <1>22 DEF vars, forwarders, shown
<1>23. QED
  BY <1>1, <1>2, <1>3, <1>4, <1>5, <1>6, <1>7, <1>8, <1>9, <1>10, <1>11, <1>12, <1>13,
      <1>14, <1>15, <1>16, <1>17, <1>18, <1>19, <1>20, <1>21, <1>22 DEF Next,
      StartForwarders

\* The sockets forwarders have.
LEMMA SocketStep ==
  ASSUME ManagerInv, [Next]_vars
  PROVE  SocketOK'
<1> USE ManagerAssumption, NoneIsNoRule DEF ManagerInv, TypeOK, OpOK, Operation, Idle,
      Nothing, Goto, Before, Starting, Settled, forwarders, shown, SocketOK, RunOK,
      Rule, Running, Conf
<1>1. CASE \E i \in Ids, r \in Rule : BeginAdd(i, r)
  BY <1>1 DEF BeginAdd
<1>2. CASE \E i \in Ids, r \in Rule : BeginUpdate(i, r)
  BY <1>2 DEF BeginUpdate
<1>3. CASE \E i \in Ids : BeginDelete(i)
  BY <1>3 DEF BeginDelete
<1>4. CASE Save
  BY <1>4 DEF Save
<1>5. CASE Cache
  BY <1>5 DEF Cache
<1>6. CASE Stop
  BY <1>6 DEF Stop, Stopped
<1>7. CASE Forget
  BY <1>7 DEF Forget
<1>8. CASE Inactive
  BY <1>8 DEF Inactive
<1>9. CASE StartTcp
  BY <1>9 DEF StartTcp, Listen, Bound
<1>10. CASE StartUdp
  BY <1>10 DEF StartUdp, Listen, Bound
<1>11. CASE StartData
  BY <1>11 DEF StartData, Listen, Bound
<1>12. CASE StartGateway
  BY <1>12 DEF StartGateway, Listen, Bound
<1>13. CASE Publish
  BY <1>13 DEF Publish
<1>14. CASE Started
  BY <1>14 DEF Started
<1>15. CASE Failed
  BY <1>15 DEF Failed
<1>16. CASE \E i \in Ids : Serve(i)
  BY <1>16 DEF Serve
<1>17. CASE \E i \in Ids : BootRule(i)
  BY <1>17 DEF BootRule
<1>18. CASE Shutdown
  BY <1>18 DEF Shutdown, Stopped
<1>19. CASE Exit
  BY <1>19 DEF Exit
<1>20. CASE Boot
  BY <1>20 DEF Boot
<1>21. CASE Booted
  BY <1>21 DEF Booted
<1>22. CASE UNCHANGED vars
  BY <1>22 DEF vars, forwarders, shown
<1>23. QED
  BY <1>1, <1>2, <1>3, <1>4, <1>5, <1>6, <1>7, <1>8, <1>9, <1>10, <1>11, <1>12, <1>13,
      <1>14, <1>15, <1>16, <1>17, <1>18, <1>19, <1>20, <1>21, <1>22 DEF Next,
      StartForwarders

\* What the panel shows.
LEMMA ShownStep ==
  ASSUME ManagerInv, [Next]_vars
  PROVE  ShownOK'
<1> USE ManagerAssumption, NoneIsNoRule DEF ManagerInv, TypeOK, OpOK, Operation, Idle,
      Nothing, Goto, Before, Starting, Settled, forwarders, shown, ShownOK, RunOK,
      CacheOK, Shows, Rule, Running, Conf
<1>1. CASE \E i \in Ids, r \in Rule : BeginAdd(i, r)
  BY <1>1 DEF BeginAdd
<1>2. CASE \E i \in Ids, r \in Rule : BeginUpdate(i, r)
  BY <1>2 DEF BeginUpdate
<1>3. CASE \E i \in Ids : BeginDelete(i)
  BY <1>3 DEF BeginDelete
<1>4. CASE Save
  BY <1>4 DEF Save
<1>5. CASE Cache
  BY <1>5 DEF Cache, NeedsRestart
<1>6. CASE Stop
  BY <1>6 DEF Stop, Stopped
<1>7. CASE Forget
  BY <1>7 DEF Forget
<1>8. CASE Inactive
  BY <1>8 DEF Inactive
<1>9. CASE StartTcp
  BY <1>9 DEF StartTcp, Listen
<1>10. CASE StartUdp
  BY <1>10 DEF StartUdp, Listen
<1>11. CASE StartData
  BY <1>11 DEF StartData, Listen
<1>12. CASE StartGateway
  BY <1>12 DEF StartGateway, Listen
<1>13. CASE Publish
  BY <1>13 DEF Publish
<1>14. CASE Started
  BY <1>14 DEF Started
<1>15. CASE Failed
  BY <1>15 DEF Failed
<1>16. CASE \E i \in Ids : Serve(i)
  BY <1>16 DEF Serve
<1>17. CASE \E i \in Ids : BootRule(i)
  BY <1>17 DEF BootRule
<1>18. CASE Shutdown
  BY <1>18 DEF Shutdown, Stopped
<1>19. CASE Exit
  BY <1>19 DEF Exit
<1>20. CASE Boot
  BY <1>20 DEF Boot
<1>21. CASE Booted
  BY <1>21 DEF Booted
<1>22. CASE UNCHANGED vars
  BY <1>22 DEF vars, forwarders, shown
<1>23. QED
  BY <1>1, <1>2, <1>3, <1>4, <1>5, <1>6, <1>7, <1>8, <1>9, <1>10, <1>11, <1>12, <1>13,
      <1>14, <1>15, <1>16, <1>17, <1>18, <1>19, <1>20, <1>21, <1>22 DEF Next,
      StartForwarders

LEMMA ManagerStep == ManagerInv /\ [Next]_vars => ManagerInv'
BY OpStep, CacheStep, CheckedStep, RunStep, SocketStep, ShownStep DEF ManagerInv

LEMMA ManagerInvHolds == Spec => []ManagerInv
BY ManagerInit, ManagerStep, PTL DEF Spec

-----------------------------------------------------------------------------

\* A restart loads what the panel shows: store and cache differ only in the
\* rule of the operation under way, whatever save fails.
THEOREM CacheIsTheStore == Spec => [](TypeOK /\ CacheIsStored)
<1>1. ManagerInv => CacheIsStored
  <2> SUFFICES ASSUME ManagerInv, phase \in {"up", "stopping"},
                      NEW i \in Ids, rules[i] # store[i]
               PROVE  op.id = i /\ op.stage \in {"cache", "stop", "forget"}
    BY DEF CacheIsStored
  <2>1. op.id = i
    BY DEF ManagerInv, CacheOK
  <2>2. op # Idle
    BY <2>1, ManagerAssumption DEF Idle
  <2>3. op \in Operation /\ op.stage # "save" /\ op.stage \notin Settled
    BY <2>1, <2>2 DEF ManagerInv, TypeOK, CacheOK
  <2>4. QED
    BY <2>1, <2>3 DEF Operation, Settled, Starting
<1>2. ManagerInv => TypeOK
  BY DEF ManagerInv
<1>3. QED
  BY <1>1, <1>2, ManagerInvHolds, PTL

\* Two stored rules never claim one port or one transparent target: the checks
\* of AddRule and UpdateRule, made on the cache, hold of the store.
THEOREM StoredRulesNeverConflict == Spec => []StoredRulesAreDistinct
<1>1. ManagerInv => StoredRulesAreDistinct
  BY DEF ManagerInv, CheckedOK, Distinct, StoredRulesAreDistinct
<1>2. QED
  BY <1>1, ManagerInvHolds, PTL

\* requiresForwarderRestart misses nothing: forwarders run what the panel shows.
THEOREM ForwardersRunTheirRule == Spec => []RunsAsConfigured
<1>1. ManagerInv => RunsAsConfigured
  BY DEF ManagerInv, RunOK, RunsAsConfigured
<1>2. QED
  BY <1>1, ManagerInvHolds, PTL

\* A start that fails half way leaves no socket behind.
THEOREM SocketsBelongToForwarders == Spec => []SocketsAreActive
<1>1. ManagerInv => SocketsAreActive
  BY DEF ManagerInv, SocketOK, SocketsAreActive
<1>2. QED
  BY <1>1, ManagerInvHolds, PTL

\* What the panel shows of a rule is what has become of it.
THEOREM FailuresAreShown == Spec => []FailureIsShown
<1>1. ManagerInv => FailureIsShown
  BY DEF ManagerInv, ShownOK, Shows, FailureIsShown
<1>2. QED
  BY <1>1, ManagerInvHolds, PTL

\* Forwarders are stopped for a change of what they run only.
THEOREM MetadataCutsNobody == Spec => NoNeedlessRestart
<1> DEFINE Kept ==
      \A i \in Ids : active[i] # None /\ active'[i] # active[i] /\ phase' = "up" =>
        store[i] = None \/ ~store[i].enabled \/ store[i].conf # active[i].conf
<1>1. ManagerInv /\ [Next]_vars => Kept
  <2> SUFFICES ASSUME ManagerInv, [Next]_vars PROVE Kept
    OBVIOUS
  <2> USE DEF ManagerInv, TypeOK
  <2>1. CASE Stop
    BY <2>1 DEF Stop, Stopped, RunOK, CacheOK, Idle, Operation
  <2>2. CASE Publish
    BY <2>2 DEF Publish, RunOK, Starting
  <2>3. CASE Shutdown
    BY <2>3 DEF Shutdown
  <2>4. CASE Exit
    BY <2>4 DEF Exit
  <2>5. CASE UNCHANGED active
    BY <2>5
  <2>6. QED
    BY <2>1, <2>2, <2>3, <2>4, <2>5 DEF Next, StartForwarders, BeginAdd, BeginUpdate,
      BeginDelete,
       Save, Cache, Forget, Inactive, StartTcp, StartUdp, StartData, StartGateway,
      Started, Failed,
       Serve, BootRule, Boot, Booted, vars, forwarders
<1>2. QED
  BY <1>1, ManagerInvHolds, PTL DEF Spec, NoNeedlessRestart

\* Store, cache, forwarders and what the panel shows agree at every step of every operation.
THEOREM RulesAreRight == Spec => []ManagerHolds
<1>1. /\ TypeOK /\ CacheIsStored /\ StoredRulesAreDistinct
      /\ RunsAsConfigured /\ SocketsAreActive /\ FailureIsShown
      => ManagerHolds
  BY DEF ManagerHolds
<1>2. QED
  BY <1>1, CacheIsTheStore, StoredRulesNeverConflict, ForwardersRunTheirRule,
     SocketsBelongToForwarders, FailuresAreShown, PTL

=============================================================================
