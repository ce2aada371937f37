------------------------- MODULE TupleRegistryProofs -------------------------
(***************************************************************************)
(* Theorems about TupleRegistry, for any finite set of sessions.           *)
(*                                                                         *)
(* CountInv is inductive whatever happens to the sockets: reference counts *)
(* are exact, and with it nothing leaks.  BindingInv is inductive when no  *)
(* socket dies under its dispatcher, and gives the invariants that         *)
(* tuple_registry.go documents.                                            *)
(***************************************************************************)
EXTENDS TupleRegistry, FiniteSetTheorems, TLAPS

\* What a session's place in the code says about the entry it refers to.
OnOK ==
  \A s \in Sessions :
    /\ pc[s] \in Creating => on[s] = s
    /\ pc[s] \in {"waiting", "held", "released"} => on[s] \in Sessions

CountInv == TypeOK /\ OnOK /\ RefsCountHolders

\* Placeholders: one under way is in the map, until Close.
PlaceholderOK ==
  \A e \in Sessions :
    /\ phase[e] = "creating" => pc[e] \in Creating /\ Mapped(e)
    /\ pc[e] \in Creating => phase[e] \in {"creating", "failed"}
    /\ pc[e] \in Creating /\ phase[e] = "failed" => closed
    /\ pc[e] = "discarding" => closed /\ phase[e] = "failed"
    /\ pc[e] \in {"idle", "lookup", "waiting"} => phase[e] = "absent"

\* The map: what it holds is keyed right and published or being created.
MapOK ==
  \A k \in Keys : entries[k] # NoEntry =>
    /\ KeyOf[entries[k]] = k
    /\ phase[entries[k]] \in {"creating", "live"}
    /\ ~closed

\* A socket is open while its creator has not settled it, or it is published.
SocketOK ==
  \A e \in Sessions :
    /\ fd[e] = "open" => pc[e] \in {"bound", "discarding"}
                           \/ (phase[e] = "live" /\ Mapped(e))
    /\ pc[e] \in {"bound", "discarding"} => fd[e] = "open"
    /\ phase[e] = "live" /\ Mapped(e) => fd[e] = "open"
    /\ phase[e] = "live" /\ fd[e] = "open" => dispatcher[e] \in {"reading", "delivering"}
    /\ dispatcher[e] # "dead"

\* A held entry is published, and stays in the map while it is held; one in
\* the map is held.
HoldOK ==
  /\ \A s \in Sessions : pc[s] = "held" =>
       /\ phase[on[s]] = "live"
       /\ KeyOf[on[s]] = KeyOf[s]
       /\ closed \/ Mapped(on[s])
  /\ \A e \in Sessions : phase[e] = "live" /\ Mapped(e) =>
       \E s \in Sessions : pc[s] = "held" /\ on[s] = e

\* A tuple belongs to one entry at a time, also while Close is clearing up.
Owns(e) == pc[e] \in Creating \cup {"discarding"} \/ fd[e] = "open"

OneOwner ==
  \A d, e \in Sessions : Owns(d) /\ Owns(e) /\ KeyOf[d] = KeyOf[e] => d = e

Bindings == PlaceholderOK /\ MapOK /\ SocketOK /\ HoldOK /\ OneOwner

BindingInv == CountInv /\ Bindings

-----------------------------------------------------------------------------
(* Reference counts are exact *)

LEMMA HoldersFinite ==
  ASSUME NEW e
  PROVE  IsFiniteSet(Holders(e)) /\ Cardinality(Holders(e)) \in Nat
<1>1. Holders(e) \in SUBSET Sessions
  BY DEF Holders
<1>2. IsFiniteSet(Holders(e))
  BY <1>1, FS_Subset, RegistryAssumption
<1>3. QED
  BY <1>2, FS_CardinalityType

\* A step that leaves the holders and the counts alone keeps them equal.
LEMMA SameHolders ==
  ASSUME RefsCountHolders, refs' = refs,
         \A e \in Sessions : Holders(e)' = Holders(e)
  PROVE  RefsCountHolders'
BY DEF RefsCountHolders

\* A session that starts to hold e, counted once, keeps them equal.
LEMMA OneMoreHolder ==
  ASSUME TypeOK, RefsCountHolders,
         NEW s \in Sessions, NEW e \in Sessions,
         pc[s] # "held",
         pc' = [pc EXCEPT ![s] = "held"],
         on' \in [Sessions -> Sessions \cup {NoEntry}], on'[s] = e,
         \A t \in Sessions \ {s} : on'[t] = on[t],
         refs' = [refs EXCEPT ![e] = @ + 1]
  PROVE  RefsCountHolders'
<1>1. Holders(e)' = Holders(e) \cup {s} /\ s \notin Holders(e)
  BY DEF Holders, TypeOK
<1>2. Cardinality(Holders(e)') = Cardinality(Holders(e)) + 1
  BY <1>1, HoldersFinite, FS_AddElement
<1>3. ASSUME NEW d \in Sessions, d # e PROVE Holders(d)' = Holders(d)
  BY <1>3 DEF Holders, TypeOK
<1>4. QED
  BY <1>2, <1>3 DEF RefsCountHolders, TypeOK

\* A session that stops holding e, uncounted once, keeps them equal, and the
\* count was positive.
LEMMA OneLessHolder ==
  ASSUME TypeOK, RefsCountHolders,
         NEW s \in Sessions, NEW e \in Sessions,
         pc[s] = "held", on[s] = e,
         pc' = [pc EXCEPT ![s] = "released"], on' = on,
         refs' = [refs EXCEPT ![e] = @ - 1]
  PROVE  /\ RefsCountHolders' /\ refs' \in [Sessions -> Nat]
         /\ refs[e] = 1 <=> Holders(e) = {s}
<1>1. Holders(e)' = Holders(e) \ {s} /\ s \in Holders(e)
  BY DEF Holders, TypeOK
<1>2. Cardinality(Holders(e)') = Cardinality(Holders(e)) - 1
  BY <1>1, HoldersFinite, FS_RemoveElement
<1>3. IsFiniteSet(Holders(e) \ {s}) /\ Cardinality(Holders(e) \ {s}) \in Nat
  BY <1>1, HoldersFinite, FS_RemoveElement, FS_CardinalityType
<1>4. ASSUME NEW d \in Sessions, d # e PROVE Holders(d)' = Holders(d)
  BY <1>4 DEF Holders, TypeOK
<1>5. refs[e] = Cardinality(Holders(e)) /\ refs[e] - 1 \in Nat
  BY <1>1, <1>2, <1>3, HoldersFinite DEF RefsCountHolders
<1>6. Cardinality(Holders(e) \ {s}) = 0 <=> Holders(e) \ {s} = {}
  BY <1>3, FS_EmptySet
<1>7. refs[e] = 1 <=> Holders(e) = {s}
  BY <1>1, <1>2, <1>5, <1>6, HoldersFinite
<1>8. RefsCountHolders' /\ refs' \in [Sessions -> Nat]
  BY <1>1, <1>2, <1>4, <1>5 DEF RefsCountHolders, TypeOK
<1>9. QED
  BY <1>7, <1>8

LEMMA CountInit == Init => CountInv
<1> SUFFICES ASSUME Init PROVE CountInv
  OBVIOUS
<1>1. TypeOK /\ OnOK
  BY RegistryAssumption DEF Init, TypeOK, OnOK, Phases, Stages, Creating
<1>2. \A e \in Sessions : Holders(e) = {}
  BY DEF Init, Holders
<1>3. RefsCountHolders
  BY <1>2, FS_EmptySet DEF Init, RefsCountHolders
<1>4. QED
  BY <1>1, <1>3 DEF CountInv

LEMMA CountStep == CountInv /\ [Next]_vars => CountInv'
<1> SUFFICES ASSUME CountInv, [Next]_vars PROVE CountInv'
  OBVIOUS
<1> USE RegistryAssumption DEF CountInv
<1>a. TypeOK /\ OnOK /\ RefsCountHolders
  OBVIOUS
<1>1. ASSUME NEW s \in Sessions, AcquireShared(s) PROVE CountInv'
  <2> DEFINE e == entries[KeyOf[s]]
  <2>1. e \in Sessions /\ on' = [on EXCEPT ![s] = e] /\ pc[s] # "held"
    BY <1>1 DEF AcquireShared, Asks, TypeOK
  <2>2. TypeOK' /\ OnOK'
    BY <1>1, <2>1 DEF AcquireShared, GoTo, TypeOK, OnOK, Phases, Stages, Creating
  <2>3. RefsCountHolders'
    <3>1. /\ pc' = [pc EXCEPT ![s] = "held"] /\ refs' = [refs EXCEPT ![e] = @ + 1]
          /\ on' \in [Sessions -> Sessions \cup {NoEntry}] /\ on'[s] = e
          /\ \A t \in Sessions \ {s} : on'[t] = on[t]
      BY <1>1, <2>1 DEF AcquireShared, GoTo, TypeOK
    <3> HIDE DEF e
    <3>2. QED
      BY <1>a, <2>1, <3>1, OneMoreHolder
  <2>4. QED
    BY <2>2, <2>3
<1>2. ASSUME NEW s \in Sessions, Publish(s) PROVE CountInv'
  <2>1. on[s] = s /\ pc[s] # "held"
    BY <1>2 DEF Publish, OnOK, Creating
  <2>2. TypeOK' /\ OnOK'
    BY <1>2, <2>1 DEF Publish, GoTo, TypeOK, OnOK, Phases, Stages, Creating
  <2>3. RefsCountHolders'
    BY <1>2, <2>1, OneMoreHolder DEF Publish, GoTo, TypeOK
  <2>4. QED
    BY <2>2, <2>3
<1>3. ASSUME NEW s \in Sessions, Release(s) PROVE CountInv'
  <2>1. on[s] \in Sessions
    BY <1>3 DEF Release, OnOK
  <2>2. RefsCountHolders' /\ refs' \in [Sessions -> Nat]
    BY <1>3, <2>1, OneLessHolder DEF Release, GoTo
  <2>3. TypeOK'
    BY <1>3, <2>1, <2>2 DEF Release, GoTo, TypeOK, Phases, Stages, Creating
  <2>4. OnOK'
    BY <1>3, <2>1 DEF Release, GoTo, TypeOK, OnOK, Creating
  <2>5. QED
    BY <2>2, <2>3, <2>4
<1>4. ASSUME refs' = refs,
             \A t \in Sessions : (pc[t] = "held") <=> (pc'[t] = "held"),
             \A t \in Sessions : pc[t] = "held" => on'[t] = on[t]
      PROVE  RefsCountHolders'
  <2>1. \A e \in Sessions : Holders(e)' = Holders(e)
    BY <1>4 DEF Holders
  <2>2. QED
    BY <1>4, <2>1, SameHolders
<1>5. ASSUME NEW s \in Sessions,
             AcquireWait(s) \/ Wake(s) \/ AcquireRefused(s) \/ Place(s)
      PROVE  CountInv'
  <2>1. RefsCountHolders'
    BY <1>4, <1>5 DEF AcquireWait, Wake, AcquireRefused, Place, Asks, GoTo, TypeOK, entryVars
  <2>2. TypeOK' /\ OnOK'
    BY <1>5 DEF AcquireWait, Wake, AcquireRefused, Place, Asks, GoTo,
                TypeOK, OnOK, Phases, Stages, Creating, entryVars
  <2>3. QED
    BY <2>1, <2>2
<1>6. ASSUME NEW s \in Sessions, Bind(s) PROVE CountInv'
  <2>1. RefsCountHolders'
    BY <1>4, <1>6 DEF Bind, BindSucceeds, BindFails, GoTo, TypeOK, entryVars
  <2>2. TypeOK' /\ OnOK'
    BY <1>6 DEF Bind, BindSucceeds, BindFails, GoTo, TypeOK, OnOK, Phases, Stages,
                Creating, entryVars
  <2>3. QED
    BY <2>1, <2>2
<1>7. ASSUME NEW s \in Sessions, Withdraw(s) \/ Overtaken(s) \/ Discard(s)
      PROVE  CountInv'
  <2>1. RefsCountHolders'
    BY <1>4, <1>7 DEF Withdraw, Overtaken, Discard, AfterFailure, GoTo, TypeOK, entryVars
  <2>2. TypeOK' /\ OnOK'
    BY <1>7 DEF Withdraw, Overtaken, Discard, AfterFailure, GoTo, TypeOK, OnOK,
                Phases, Stages, Creating, entryVars
  <2>3. QED
    BY <2>1, <2>2
<1>8. ASSUME NEW s \in Sessions, Attach(s) \/ ReleaseAgain(s) PROVE CountInv'
  <2>1. RefsCountHolders'
    BY <1>4, <1>8 DEF Attach, ReleaseAgain, GoTo, TypeOK, entryVars
  <2>2. TypeOK' /\ OnOK'
    BY <1>8 DEF Attach, ReleaseAgain, GoTo, TypeOK, OnOK, Phases, Stages, Creating, entryVars
  <2>3. QED
    BY <2>1, <2>2
<1>9. ASSUME NEW e \in Sessions, DispatcherStep(e) \/ SocketDies(e) PROVE CountInv'
  <2>1. RefsCountHolders'
    BY <1>4, <1>9 DEF DispatcherStep, Send, DispatcherExits, DropDeadEntry, SocketDies
  <2>2. TypeOK' /\ OnOK'
    BY <1>9 DEF DispatcherStep, Send, DispatcherExits, DropDeadEntry, SocketDies,
                TypeOK, OnOK, Phases, Stages, Creating, entryVars
  <2>3. QED
    BY <2>1, <2>2
<1>10. ASSUME NEW e \in Sessions, NEW b \in Backends, Deliver(e, b) PROVE CountInv'
  BY <1>4, <1>10 DEF Deliver, TypeOK, OnOK, Phases, Stages, Creating
<1>11. CASE CloseAll
  <2>1. RefsCountHolders'
    BY <1>4, <1>11 DEF CloseAll
  <2>2. TypeOK' /\ OnOK'
    BY <1>11 DEF CloseAll, TypeOK, OnOK, Phases, Stages, Creating
  <2>3. QED
    BY <2>1, <2>2
<1>12. CASE UNCHANGED vars
  BY <1>4, <1>12 DEF vars, entryVars, TypeOK, OnOK
<1>13. QED
  BY <1>1, <1>2, <1>3, <1>5, <1>6, <1>7, <1>8, <1>9, <1>10, <1>11, <1>12
     DEF Next, Lookup, Settle, HandleStep

\* Reference counts are exact in every reachable state, sockets dying or not.
THEOREM CountsAreExact == Spec => [](TypeOK /\ RefsCountHolders)
<1>1. CountInv => TypeOK /\ RefsCountHolders
  BY DEF CountInv
<1>2. QED
  BY <1>1, CountInit, CountStep, PTL DEF Spec

-----------------------------------------------------------------------------
(* The documented invariants, when sockets do not die under the dispatcher *)

LEMMA BindingInit == Init => BindingInv
<1> SUFFICES ASSUME Init PROVE Bindings
  BY CountInit DEF BindingInv
<1>1. PlaceholderOK /\ MapOK /\ SocketOK /\ HoldOK
  BY RegistryAssumption DEF Init, PlaceholderOK, MapOK, SocketOK, HoldOK, Creating, Mapped
<1>2. \A e \in Sessions : ~Owns(e)
  BY DEF Init, Owns, Creating
<1>3. QED
  BY <1>1, <1>2 DEF Bindings, OneOwner

LEMMA BindingStep ==
  ASSUME ~SocketsMayDie
  PROVE  BindingInv /\ [Next]_vars => BindingInv'
<1> SUFFICES ASSUME BindingInv, [Next]_vars PROVE Bindings'
  BY CountStep DEF BindingInv
<1> USE RegistryAssumption DEF Mapped, GoTo
<1>a. /\ TypeOK /\ OnOK /\ RefsCountHolders
      /\ PlaceholderOK /\ MapOK /\ SocketOK /\ HoldOK /\ OneOwner
  BY DEF BindingInv, CountInv, Bindings
<1>1. ASSUME NEW s \in Sessions, AcquireShared(s) PROVE Bindings'
  BY <1>a, <1>1 DEF AcquireShared, Asks, TypeOK, OnOK, Bindings, PlaceholderOK,
     MapOK, SocketOK, HoldOK, OneOwner, Owns, Creating
<1>2. ASSUME NEW s \in Sessions, AcquireWait(s) \/ Wake(s) \/ AcquireRefused(s)
      PROVE  Bindings'
  BY <1>a, <1>2 DEF AcquireWait, Wake, AcquireRefused, Asks, TypeOK, OnOK, Bindings,
     PlaceholderOK, MapOK, SocketOK, HoldOK, OneOwner, Owns, Creating, entryVars
<1>3. ASSUME NEW s \in Sessions, Place(s) PROVE Bindings'
  BY <1>a, <1>3 DEF Place, Asks, TypeOK, OnOK, Bindings, PlaceholderOK, MapOK,
     SocketOK, HoldOK, OneOwner, Owns, Creating
<1>4. ASSUME NEW s \in Sessions, Bind(s) PROVE Bindings'
  BY <1>a, <1>4 DEF Bind, BindSucceeds, BindFails, TypeOK, OnOK, Bindings,
     PlaceholderOK, MapOK, SocketOK, HoldOK, OneOwner, Owns, Creating, entryVars
<1>5. ASSUME NEW s \in Sessions, Publish(s) PROVE Bindings'
  BY <1>a, <1>5 DEF Publish, TypeOK, OnOK, Bindings, PlaceholderOK, MapOK,
     SocketOK, HoldOK, OneOwner, Owns, Creating
<1>6. ASSUME NEW s \in Sessions, Withdraw(s) PROVE Bindings'
  BY <1>a, <1>6 DEF Withdraw, AfterFailure, TypeOK, OnOK, Bindings, PlaceholderOK,
     MapOK, SocketOK, HoldOK, OneOwner, Owns, Creating
<1>7. ASSUME NEW s \in Sessions, Overtaken(s) \/ Discard(s) PROVE Bindings'
  BY <1>a, <1>7 DEF Overtaken, Discard, AfterFailure, TypeOK, OnOK, Bindings,
     PlaceholderOK, MapOK, SocketOK, HoldOK, OneOwner, Owns, Creating, entryVars
<1>8. ASSUME NEW s \in Sessions, Attach(s) \/ ReleaseAgain(s) PROVE Bindings'
  BY <1>a, <1>8 DEF Attach, ReleaseAgain, TypeOK, OnOK, Bindings, PlaceholderOK,
     MapOK, SocketOK, HoldOK, OneOwner, Owns, Creating, entryVars
<1>9. ASSUME NEW s \in Sessions, Release(s) PROVE Bindings'
  <2> DEFINE e == on[s]
  <2>1. /\ e \in Sessions /\ pc[s] = "held" /\ phase[e] = "live"
        /\ KeyOf[e] = KeyOf[s] /\ (closed \/ Mapped(e))
    BY <1>a, <1>9 DEF Release, OnOK, HoldOK
  <2>2. refs[e] = 1 <=> Holders(e) = {s}
    BY <1>a, <1>9, <2>1, OneLessHolder DEF Release
  <2>3. CASE refs[e] = 1
    <3>1. \A t \in Sessions : pc[t] = "held" /\ on[t] = e => t = s
      BY <2>2, <2>3 DEF Holders
    <3>2. QED
      BY <1>a, <1>9, <2>1, <2>3, <3>1 DEF Release, TypeOK, OnOK, Bindings,
         PlaceholderOK, MapOK, SocketOK, HoldOK, OneOwner, Owns, Creating
  <2>4. CASE refs[e] # 1
    <3>1. PICK t \in Sessions : pc[t] = "held" /\ on[t] = e /\ t # s
      BY <1>9, <2>1, <2>2, <2>4 DEF Holders
    <3>2. QED
      BY <1>a, <1>9, <2>1, <2>4, <3>1 DEF Release, TypeOK, OnOK, Bindings,
         PlaceholderOK, MapOK, SocketOK, HoldOK, OneOwner, Owns, Creating
  <2>5. QED
    BY <2>3, <2>4
<1>10. ASSUME NEW e \in Sessions, DispatcherStep(e) \/ SocketDies(e) PROVE Bindings'
  BY <1>a, <1>10 DEF DispatcherStep, Send, DispatcherExits, DropDeadEntry, SocketDies,
     TypeOK, OnOK, Bindings, PlaceholderOK, MapOK, SocketOK, HoldOK, OneOwner, Owns, Creating
<1>11. ASSUME NEW e \in Sessions, NEW b \in Backends, Deliver(e, b) PROVE Bindings'
  BY <1>a, <1>11 DEF Deliver, TypeOK, OnOK, Bindings, PlaceholderOK, MapOK, SocketOK,
     HoldOK, OneOwner, Owns, Creating
<1>12. CASE CloseAll
  BY <1>a, <1>12 DEF CloseAll, TypeOK, OnOK, Bindings, PlaceholderOK, MapOK, SocketOK,
     HoldOK, OneOwner, Owns, Creating
<1>13. CASE UNCHANGED vars
  BY <1>a, <1>13 DEF vars, entryVars, Bindings, PlaceholderOK, MapOK, SocketOK, HoldOK,
     OneOwner, Owns
<1>14. QED
  BY <1>1, <1>2, <1>3, <1>4, <1>5, <1>6, <1>7, <1>8, <1>9, <1>10, <1>11, <1>12, <1>13
     DEF Next, Lookup, Settle, HandleStep

LEMMA BindingInvHolds ==
  ASSUME ~SocketsMayDie
  PROVE  Spec => []BindingInv
<1>1. QED
  BY BindingInit, BindingStep, PTL DEF Spec

\* What BindingInv says of the sockets and the waiting goroutines.
LEMMA BindingFacts ==
  BindingInv => /\ RemovedIsClosed /\ NoSelfCollision /\ HolderIsServed
                /\ ReadyClosedOnceSettled
<1> SUFFICES ASSUME BindingInv
             PROVE  /\ RemovedIsClosed /\ NoSelfCollision /\ HolderIsServed
                    /\ ReadyClosedOnceSettled
  OBVIOUS
<1> USE RegistryAssumption DEF BindingInv, CountInv, Bindings, Mapped
<1>1. RemovedIsClosed
  BY DEF TypeOK, PlaceholderOK, MapOK, SocketOK, RemovedIsClosed, Creating
<1>2. NoSelfCollision
  BY DEF OneOwner, Owns, SocketOK, NoSelfCollision, TupleInUse, Creating, PlaceholderOK
<1>3. HolderIsServed
  BY DEF TypeOK, OnOK, HoldOK, SocketOK, HolderIsServed
<1>4. ReadyClosedOnceSettled
  BY DEF PlaceholderOK, ReadyClosedOnceSettled
<1>5. QED
  BY <1>1, <1>2, <1>3, <1>4

\* "When an entry is removed its fd is already closed."
THEOREM RemovalClosesSocket ==
  ASSUME ~SocketsMayDie
  PROVE  Spec => []RemovedIsClosed
BY BindingInvHolds, BindingFacts, PTL

\* The registry never collides with a binding of its own.
THEOREM BindsNeverCollide ==
  ASSUME ~SocketsMayDie
  PROVE  Spec => []NoSelfCollision
BY BindingInvHolds, BindingFacts, PTL

\* Every session that holds a binding is served by the one in the map.
THEOREM HoldersAreServed ==
  ASSUME ~SocketsMayDie
  PROVE  Spec => []HolderIsServed
BY BindingInvHolds, BindingFacts, PTL

\* No goroutine is left waiting on a placeholder nobody will settle.
THEOREM PlaceholdersAreSettled ==
  ASSUME ~SocketsMayDie
  PROVE  Spec => []ReadyClosedOnceSettled
BY BindingInvHolds, BindingFacts, PTL

-----------------------------------------------------------------------------
(* The registry implements SharedBinding *)

LEMMA SharedInit == Init => Shared!Init
BY RegistryAssumption, ZenonT(30) DEF Init, Shared!Init

\* The state functions of the refinement mapping.
MapHolders == [k \in Keys |-> {s \in Sessions : KeyOf[s] = k /\ pc[s] = "held"}]
MapBound == [k \in Keys |-> entries[k] # NoEntry /\ phase[entries[k]] = "live"]

LEMMA HeldGrows ==
  ASSUME TypeOK, NEW s \in Sessions, pc' = [pc EXCEPT ![s] = "held"]
  PROVE  MapHolders' = [MapHolders EXCEPT ![KeyOf[s]] = @ \cup {s}]
<1>1. KeyOf[s] \in Keys
  BY RegistryAssumption
<1>2. ASSUME NEW k \in Keys
      PROVE  MapHolders'[k] = IF k = KeyOf[s] THEN MapHolders[k] \cup {s} ELSE MapHolders[k]
  BY DEF MapHolders, TypeOK
<1>3. QED
  BY <1>1, <1>2 DEF MapHolders

LEMMA HeldShrinks ==
  ASSUME TypeOK, NEW s \in Sessions, pc' = [pc EXCEPT ![s] = "released"]
  PROVE  MapHolders' = [MapHolders EXCEPT ![KeyOf[s]] = @ \ {s}]
<1>1. KeyOf[s] \in Keys
  BY RegistryAssumption
<1>2. ASSUME NEW k \in Keys
      PROVE  MapHolders'[k] = IF k = KeyOf[s] THEN MapHolders[k] \ {s} ELSE MapHolders[k]
  BY DEF MapHolders, TypeOK
<1>3. QED
  BY <1>1, <1>2 DEF MapHolders

LEMMA HeldKept ==
  ASSUME \A s \in Sessions : pc[s] = "held" <=> pc'[s] = "held"
  PROVE  MapHolders' = MapHolders
BY DEF MapHolders

\* Every step of the registry is a step of the shared binding, or none.
LEMMA SharedStep ==
  ASSUME ~SocketsMayDie, BindingInv, [Next]_vars
  PROVE  [Shared!Next]_Shared!vars
<1> USE RegistryAssumption DEF Mapped, GoTo
<1>a. /\ TypeOK /\ OnOK /\ RefsCountHolders
      /\ PlaceholderOK /\ MapOK /\ SocketOK /\ HoldOK /\ OneOwner
  BY DEF BindingInv, CountInv, Bindings
<1>b. ASSUME MapHolders' = MapHolders, MapBound' = MapBound, closed' = closed
      PROVE  [Shared!Next]_Shared!vars
  BY <1>b DEF Shared!vars, MapHolders, MapBound
<1>c. ASSUME NEW s \in Sessions, ~closed, pc[s] # "held",
             pc' = [pc EXCEPT ![s] = "held"], closed' = closed,
             MapBound' = [MapBound EXCEPT ![KeyOf[s]] = TRUE]
      PROVE  Shared!Next
  <2>1. s \notin MapHolders[KeyOf[s]]
    BY <1>c DEF MapHolders
  <2>2. MapHolders' = [MapHolders EXCEPT ![KeyOf[s]] = @ \cup {s}]
    BY <1>a, <1>c, HeldGrows
  <2>3. QED
    BY <1>c, <2>1, <2>2 DEF Shared!Next, Shared!Grant, MapHolders, MapBound
<1>1. ASSUME NEW s \in Sessions, AcquireShared(s) PROVE Shared!Next
  <2>1. ~closed /\ pc[s] # "held"
    BY <1>a, <1>1 DEF AcquireShared, Asks, MapOK
  <2>2. MapBound' = [MapBound EXCEPT ![KeyOf[s]] = TRUE]
    BY <1>a, <1>1 DEF AcquireShared, TypeOK, MapBound
  <2>3. QED
    BY <1>c, <1>1, <2>1, <2>2 DEF AcquireShared
<1>2. ASSUME NEW s \in Sessions, Publish(s) PROVE Shared!Next
  <2>1. MapBound' = [MapBound EXCEPT ![KeyOf[s]] = TRUE]
    <3>1. KeyOf[s] \in Keys /\ entries[KeyOf[s]] = s /\ s # NoEntry
      BY <1>2 DEF Publish
    <3>2. entries' = entries /\ phase' = [phase EXCEPT ![s] = "live"]
      BY <1>2 DEF Publish
    <3>3. ASSUME NEW k \in Keys, k # KeyOf[s]
          PROVE  entries[k] # NoEntry => phase'[entries[k]] = phase[entries[k]]
      BY <1>a, <3>2, <3>3 DEF TypeOK, MapOK
    <3>4. phase'[s] = "live"
      BY <1>a, <3>2 DEF TypeOK
    <3>5. QED
      BY <3>1, <3>2, <3>3, <3>4 DEF MapBound
  <2>2. QED
    BY <1>c, <1>2, <2>1 DEF Publish
<1>3. ASSUME NEW s \in Sessions, Release(s) PROVE Shared!Next
  <2> DEFINE e == on[s]
             k == KeyOf[s]
  <2>1. /\ e \in Sessions /\ pc[s] = "held" /\ phase[e] = "live"
        /\ KeyOf[e] = k /\ k \in Keys /\ (closed \/ entries[k] = e)
    BY <1>a, <1>3 DEF Release, OnOK, HoldOK
  <2>2. s \in MapHolders[k]
    BY <2>1 DEF MapHolders
  <2>3. MapHolders' = [MapHolders EXCEPT ![k] = @ \ {s}]
    BY <1>a, <1>3, HeldShrinks DEF Release
  <2>4. refs[e] = 1 <=> Holders(e) = {s}
    BY <1>a, <1>3, <2>1, OneLessHolder DEF Release
  <2>5. ~closed => MapHolders[k] = Holders(e)
    BY <1>a, <2>1 DEF MapHolders, Holders, HoldOK
  <2>6. MapBound' = [MapBound EXCEPT ![k] = @ /\ MapHolders[k] # {s}]
    <3>1. entries' = IF refs[e] = 1 THEN [entries EXCEPT ![k] = NoEntry] ELSE entries
      BY <1>3, <2>1 DEF Release
    <3>2. phase' = phase
      BY <1>3 DEF Release
    <3>3. closed => MapBound[k] = FALSE /\ MapBound'[k] = FALSE
      BY <1>a, <2>1, <3>1, <3>2 DEF MapBound, MapOK, TypeOK
    <3>4. ~closed => MapBound[k] = TRUE /\ MapBound'[k] = (MapHolders[k] # {s})
      BY <1>a, <2>1, <2>4, <2>5, <3>1, <3>2 DEF MapBound, TypeOK
    <3>5. ASSUME NEW j \in Keys, j # k PROVE MapBound'[j] = MapBound[j]
      BY <1>a, <2>1, <3>1, <3>2, <3>5 DEF MapBound, TypeOK
    <3>6. MapBound'[k] = (MapBound[k] /\ MapHolders[k] # {s})
      BY <3>3, <3>4
    <3>7. QED
      BY <2>1, <3>5, <3>6 DEF MapBound
  <2>7. QED
    BY <1>3, <2>2, <2>3, <2>6 DEF Release, Shared!Next, Shared!GiveBack, MapHolders, MapBound
<1>4. CASE CloseAll
  <2>1. MapHolders' = MapHolders
    BY <1>4, HeldKept DEF CloseAll
  <2>2. MapBound' = [k \in Keys |-> FALSE]
    BY <1>4 DEF CloseAll, MapBound
  <2>3. QED
    BY <1>4, <2>1, <2>2 DEF CloseAll, Shared!Next, Shared!Shut, MapHolders, MapBound
<1>5. ASSUME NEW s \in Sessions,
             AcquireWait(s) \/ Wake(s) \/ AcquireRefused(s) \/ Bind(s) \/ Overtaken(s)
               \/ Discard(s) \/ Attach(s) \/ ReleaseAgain(s)
      PROVE  [Shared!Next]_Shared!vars
  <2>1. MapHolders' = MapHolders
    BY <1>a, <1>5, HeldKept DEF AcquireWait, Wake, AcquireRefused, Asks, Bind, BindSucceeds,
       BindFails, Overtaken, Discard, AfterFailure, Attach, ReleaseAgain, TypeOK
  <2>2. MapBound' = MapBound /\ closed' = closed
    BY <1>5 DEF AcquireWait, Wake, AcquireRefused, Bind, BindSucceeds, BindFails,
       Overtaken, Discard, Attach, ReleaseAgain, MapBound, entryVars
  <2>3. QED
    BY <1>b, <2>1, <2>2
<1>6. ASSUME NEW s \in Sessions, Place(s) \/ Withdraw(s) PROVE [Shared!Next]_Shared!vars
  <2>1. MapHolders' = MapHolders
    BY <1>a, <1>6, HeldKept DEF Place, Asks, Withdraw, AfterFailure, TypeOK
  <2>2. closed' = closed
    BY <1>6 DEF Place, Withdraw
  <2>3. MapBound' = MapBound
    BY <1>a, <1>6 DEF Place, Asks, Withdraw, MapBound, MapOK, PlaceholderOK, Creating, TypeOK
  <2>4. QED
    BY <1>b, <2>1, <2>2, <2>3
<1>7. ASSUME NEW e \in Sessions, DispatcherStep(e) \/ SocketDies(e)
      PROVE  [Shared!Next]_Shared!vars
  <2>1. MapHolders' = MapHolders
    BY <1>a, <1>7, HeldKept DEF DispatcherStep, Send, DispatcherExits, DropDeadEntry, SocketDies
  <2>2. MapBound' = MapBound /\ closed' = closed
    BY <1>a, <1>7 DEF DispatcherStep, Send, DispatcherExits, DropDeadEntry, SocketDies,
       MapBound, SocketOK
  <2>3. QED
    BY <1>b, <2>1, <2>2
<1>8. ASSUME NEW e \in Sessions, NEW b \in Backends, Deliver(e, b)
      PROVE  [Shared!Next]_Shared!vars
  BY <1>b, <1>8 DEF Deliver, MapHolders, MapBound
<1>9. CASE UNCHANGED vars
  BY <1>b, <1>9 DEF vars, entryVars, MapHolders, MapBound
<1>10. QED
  BY <1>1, <1>2, <1>3, <1>4, <1>5, <1>6, <1>7, <1>8, <1>9
     DEF Next, Lookup, Settle, HandleStep

\* The registry implements the abstract shared binding.
THEOREM RegistryImplementsSharedBinding ==
  ASSUME ~SocketsMayDie
  PROVE  Spec => ImplementsSharedBinding
<1>1. BindingInv /\ [Next]_vars => [Shared!Next]_Shared!vars
  BY SharedStep
<1>2. QED
  BY <1>1, SharedInit, BindingInvHolds, PTL DEF Spec, ImplementsSharedBinding, Shared!Spec

\* What acquire and release promise of the shared socket of a player, as one invariant.
THEOREM RegistryHolds ==
  ASSUME ~SocketsMayDie
  PROVE  Spec => []SocketsFollowHolders
<1>1. /\ TypeOK /\ RefsCountHolders
      /\ RemovedIsClosed /\ NoSelfCollision /\ HolderIsServed /\ ReadyClosedOnceSettled
      => SocketsFollowHolders
  BY DEF SocketsFollowHolders
<1>2. QED
  BY <1>1, CountsAreExact, RemovalClosesSocket, BindsNeverCollide, HoldersAreServed,
     PlaceholdersAreSettled, PTL

-----------------------------------------------------------------------------
(* No socket is left behind, sockets dying or not *)

\* With exact counts NoLeak is inductive.  Two steps can disturb it: the end of a
\* creation, and a release, which closes the socket exactly when the count reaches zero.
LEMMA LeakStep ==
  ASSUME CountInv, NoLeak, [Next]_vars
  PROVE  NoLeak'
<1> USE RegistryAssumption DEF GoTo
<1>a. TypeOK /\ OnOK /\ RefsCountHolders
  BY DEF CountInv
<1>b. ASSUME fd' = fd, refs' = refs,
             \A e \in Sessions : pc[e] \in {"bound", "discarding"}
                                   => pc'[e] \in {"bound", "discarding"}
      PROVE  NoLeak'
  BY <1>b DEF NoLeak
<1>1. ASSUME NEW s \in Sessions, Lookup(s) \/ Wake(s) PROVE NoLeak'
  <2>1. CASE AcquireShared(s)
    <3>1. pc[s] \notin {"bound", "discarding"}
      BY <2>1 DEF AcquireShared, Asks
    <3>2. QED
      BY <1>a, <2>1, <3>1 DEF AcquireShared, TypeOK, NoLeak
  <2>2. CASE AcquireWait(s) \/ AcquireRefused(s) \/ Place(s) \/ Wake(s)
    BY <1>a, <1>b, <2>2 DEF AcquireWait, AcquireRefused, Place, Wake, Asks, entryVars, TypeOK
  <2>3. QED
    BY <1>1, <2>1, <2>2 DEF Lookup
<1>2. ASSUME NEW s \in Sessions, Bind(s) PROVE NoLeak'
  BY <1>a, <1>2 DEF Bind, BindSucceeds, BindFails, entryVars, TypeOK, NoLeak
<1>3. ASSUME NEW s \in Sessions, Publish(s) PROVE NoLeak'
  BY <1>a, <1>3 DEF Publish, TypeOK, NoLeak
<1>4. ASSUME NEW s \in Sessions, Withdraw(s) \/ Overtaken(s) PROVE NoLeak'
  BY <1>a, <1>b, <1>4 DEF Withdraw, Overtaken, AfterFailure, entryVars, TypeOK
<1>5. ASSUME NEW s \in Sessions, Discard(s) PROVE NoLeak'
  BY <1>a, <1>5 DEF Discard, TypeOK, NoLeak
<1>6. ASSUME NEW s \in Sessions, Attach(s) \/ ReleaseAgain(s) PROVE NoLeak'
  BY <1>a, <1>b, <1>6 DEF Attach, ReleaseAgain, entryVars, TypeOK
<1>7. ASSUME NEW s \in Sessions, Release(s) PROVE NoLeak'
  <2>1. on[s] \in Sessions /\ pc[s] = "held"
    BY <1>a, <1>7 DEF Release, OnOK
  <2>2. refs' = [refs EXCEPT ![on[s]] = @ - 1] /\ pc' = [pc EXCEPT ![s] = "released"]
    BY <1>7 DEF Release
  <2>3. refs' \in [Sessions -> Nat]
    BY <1>a, <1>7, <2>1, <2>2, OneLessHolder DEF Release
  <2>4. ASSUME NEW e \in Sessions, fd'[e] = "open"
        PROVE  fd[e] = "open" /\ (e = on[s] => refs[e] # 1)
    BY <1>a, <1>7, <2>1, <2>4 DEF Release, TypeOK
  <2>5. QED
    BY <1>a, <2>1, <2>2, <2>3, <2>4 DEF TypeOK, NoLeak
<1>8. ASSUME NEW e \in Sessions, DispatcherStep(e) \/ SocketDies(e) PROVE NoLeak'
  BY <1>a, <1>8 DEF DispatcherStep, Send, DispatcherExits, DropDeadEntry, SocketDies,
     TypeOK, NoLeak
<1>9. ASSUME NEW e \in Sessions, NEW b \in Backends, Deliver(e, b) PROVE NoLeak'
  BY <1>b, <1>9 DEF Deliver
<1>10. CASE CloseAll
  BY <1>a, <1>10 DEF CloseAll, TypeOK, NoLeak
<1>11. CASE UNCHANGED vars
  BY <1>b, <1>11 DEF vars, entryVars
<1>12. QED
  BY <1>1, <1>2, <1>3, <1>4, <1>5, <1>6, <1>7, <1>8, <1>9, <1>10, <1>11
     DEF Next, Settle, HandleStep

\* An open socket always has somebody left who will close it, also when sockets die under
\* their dispatcher and the release of a dropped entry deletes the slot of the next one.
THEOREM SocketsAreNotLeaked == Spec => []NoLeak
<1>1. Init => NoLeak
  BY DEF Init, NoLeak
<1>2. CountInv /\ NoLeak /\ [Next]_vars => (CountInv /\ NoLeak)'
  BY CountStep, LeakStep
<1>3. QED
  BY <1>1, <1>2, CountInit, PTL DEF Spec

=============================================================================
