------------------------- MODULE UdpForwarderProofs -------------------------
(***************************************************************************)
(* Theorems about UdpForwarder, for any finite sets of packets and players *)
(* and whatever sockets fail.  TableInv is inductive: it ties the session  *)
(* table to the upstreams and to the goroutines that create sessions.      *)
(***************************************************************************)
EXTENDS UdpForwarder, FiniteSetTheorems, TLAPS

\* Where a packet's goroutine is says what has become of what it named.
StageOK ==
  \A p \in Packets :
    /\ pc[p] \in {"idle", "queued", "lookup", "opening"} => upstream[p] = "none"
    /\ pc[p] \in {"inserting", "discarding"} => upstream[p] = "open"
    /\ relay[p] = "reading" => pc[p] \in {"sending", "done"}

\* A session in the table was put there by its packet, is its player's, and
\* works.
SessionOK ==
  \A k \in Players : sessions[k] # None =>
    /\ SrcOf[sessions[k]] = k
    /\ pc[sessions[k]] \in {"sending", "done"}
    /\ upstream[sessions[k]] = "open"
    /\ ~Transparent /\ sessions[k] \notin Flaky => relay[sessions[k]] = "reading"

\* Players with a session.
Served == {k \in Players : sessions[k] # None}

CountOK == active = Cardinality(Served)

TableInv ==
  /\ TypeOK /\ StageOK /\ SessionOK /\ UpstreamsAreOwned
  /\ live = sessions /\ CountOK /\ NothingAfterPurge

-----------------------------------------------------------------------------

LEMMA ServedFinite == IsFiniteSet(Served) /\ Cardinality(Served) \in Nat
<1>1. Served \in SUBSET Players
  BY DEF Served
<1>2. IsFiniteSet(Served)
  BY <1>1, FS_Subset, ForwarderAssumption
<1>3. QED
  BY <1>2, FS_CardinalityType

LEMMA TableInit == Init => TableInv
<1> SUFFICES ASSUME Init PROVE TableInv
  OBVIOUS
<1> USE ForwarderAssumption DEF Init
<1>1. TypeOK
  BY DEF TypeOK, Cap
<1>2. StageOK /\ SessionOK /\ UpstreamsAreOwned
  BY DEF StageOK, SessionOK, UpstreamsAreOwned
<1>3. live = sessions /\ NothingAfterPurge
  BY DEF NothingAfterPurge
<1>4. CountOK
  <2>1. Served = {}
    BY DEF Served
  <2>2. QED
    BY <2>1, FS_EmptySet DEF CountOK
<1>5. QED
  BY <1>1, <1>2, <1>3, <1>4 DEF TableInv

\* Ending the sessions of K keeps the table, the live registry and the
\* upstreams together.
LEMMA DropKeepsTable ==
  ASSUME TableInv, NEW K \in SUBSET Served, Drop(K),
         UNCHANGED <<relay, pc>>
  PROVE  /\ sessions' \in [Players -> Packets \cup {None}]
         /\ live' = sessions'
         /\ age' \in [Packets -> 0..Cap]
         /\ upstream' \in [Packets -> {"none", "open", "closed"}]
         /\ StageOK' /\ SessionOK' /\ UpstreamsAreOwned'
         /\ Served' = Served \ K
<1> USE ForwarderAssumption
<1>1. \A p \in Packets : pc[p] \in {"idle", "queued", "lookup", "opening", "inserting",
                                    "discarding"} => ~ \E k \in K : sessions[k] = p
  BY DEF TableInv, SessionOK, Served, TypeOK
<1>2. \A k \in Players : sessions[k] # None => sessions[k] \in Packets
  BY DEF TableInv, TypeOK
<1>3. sessions' \in [Players -> Packets \cup {None}] /\ live' = sessions'
  BY DEF Drop, TableInv, TypeOK
<1>4. /\ age' \in [Packets -> 0..Cap]
      /\ upstream' \in [Packets -> {"none", "open", "closed"}]
  BY DEF Drop, TableInv, TypeOK, Cap
<1>5. StageOK'
  BY <1>1 DEF Drop, TableInv, TypeOK, StageOK
<1>6. SessionOK'
  <2> SUFFICES ASSUME NEW k \in Players, sessions'[k] # None
      PROVE  /\ SrcOf[sessions'[k]] = k
             /\ pc'[sessions'[k]] \in {"sending", "done"}
             /\ upstream'[sessions'[k]] = "open"
             /\ ~Transparent /\ sessions'[k] \notin Flaky => relay'[sessions'[k]] = "reading"
    BY DEF SessionOK
  <2>1. k \notin K /\ sessions'[k] = sessions[k]
    BY DEF Drop
  <2>2. ~ \E l \in K : sessions[l] = sessions[k]
    BY <2>1 DEF TableInv, SessionOK, Served
  <2>3. QED
    BY <1>2, <2>1, <2>2 DEF Drop, TableInv, SessionOK
<1>7. UpstreamsAreOwned'
  BY <1>1, <1>2 DEF Drop, TableInv, TypeOK, UpstreamsAreOwned, SessionOK, Served
<1>8. Served' = Served \ K
  BY <1>3 DEF Drop, Served
<1>9. QED
  BY <1>3, <1>4, <1>5, <1>6, <1>7, <1>8

LEMMA TableStep == TableInv /\ [Next]_vars => TableInv'
<1> SUFFICES ASSUME TableInv, [Next]_vars PROVE TableInv'
  OBVIOUS
<1> USE ForwarderAssumption
<1> USE DEF TableInv, TypeOK, StageOK, SessionOK, UpstreamsAreOwned,
        CountOK, NothingAfterPurge, Stopping, Cap, loops, table, GoTo
<1>1. ASSUME NEW p \in Packets, Arrive(p) PROVE TableInv'
  BY <1>1 DEF Arrive, Served
<1>2. ASSUME ReaderExits PROVE TableInv'
  BY <1>2 DEF ReaderExits, Served
<1>3. ASSUME NEW p \in Packets, Begin(p) PROVE TableInv'
  BY <1>3 DEF Begin, Served
<1>4. ASSUME NEW p \in Packets, LookupHit(p) PROVE TableInv'
  BY <1>4 DEF LookupHit, Credit, Served
<1>5. ASSUME NEW p \in Packets, LookupMiss(p) PROVE TableInv'
  BY <1>5 DEF LookupMiss, Served
<1>6. ASSUME NEW p \in Packets, OpenUpstream(p) PROVE TableInv'
  BY <1>6 DEF OpenUpstream, Served
<1>7. ASSUME NEW p \in Packets, InsertLate(p) PROVE TableInv'
  BY <1>7 DEF InsertLate, Credit, Served
<1>8. ASSUME NEW p \in Packets, InsertStopped(p) PROVE TableInv'
  BY <1>8 DEF InsertStopped, Served
<1>9. ASSUME NEW p \in Packets, Insert(p) PROVE TableInv'
  <2> DEFINE k == SrcOf[p]
  <2>1. k \in Players /\ k \notin Served /\ Served' = Served \cup {k}
    BY <1>9 DEF Insert, Served
  <2>2. Cardinality(Served') = Cardinality(Served) + 1
    BY ONLY <2>1, ServedFinite, FS_AddElement
  <2>3. live' = sessions'
    BY <1>9 DEF Insert
  <2>4. TypeOK' /\ StageOK'
    BY <1>9, ServedFinite DEF Insert, Credit
  <2>5. SessionOK' /\ UpstreamsAreOwned' /\ NothingAfterPurge'
    BY <1>9 DEF Insert
  <2>6. CountOK'
    BY <1>9, <2>2 DEF Insert
  <2>7. QED
    BY <2>3, <2>4, <2>5, <2>6
<1>10. ASSUME NEW p \in Packets, Discard(p) PROVE TableInv'
  BY <1>10 DEF Discard, Served
<1>11. ASSUME NEW p \in Packets, Send(p) PROVE TableInv'
  <2>1. first' \in [Packets -> {"nothing", "header", "bare"}]
    BY <1>11 DEF Send
  <2>2. pc' \in [Packets -> {"idle", "queued", "lookup", "opening", "inserting",
                             "discarding", "sending", "done"}]
    BY <1>11 DEF Send
  <2>3. Served' = Served
    BY <1>11 DEF Send, Served
  <2>4. QED
    BY <1>11, <2>1, <2>2, <2>3 DEF Send
<1>12. ASSUME Cleanup PROVE TableInv'
  <2>1. Idle \in SUBSET Served
    BY DEF Idle, Served
  <2>2. /\ sessions' \in [Players -> Packets \cup {None}] /\ live' = sessions'
        /\ age' \in [Packets -> 0..Cap]
        /\ upstream' \in [Packets -> {"none", "open", "closed"}]
        /\ StageOK' /\ SessionOK' /\ UpstreamsAreOwned'
        /\ Served' = Served \ Idle
    BY <1>12, <2>1, DropKeepsTable DEF Cleanup
  <2>3. IsFiniteSet(Idle) /\ Served \cap Idle = Idle
    BY <2>1, ServedFinite, FS_Subset
  <2>4. Cardinality(Served') = Cardinality(Served) - Cardinality(Idle)
    <3>1. Cardinality(Served \ Idle) = Cardinality(Served) - Cardinality(Served \cap Idle)
      BY ONLY ServedFinite, <2>3, FS_Difference
    <3>2. QED
      BY ONLY <2>2, <2>3, <3>1
  <2>5. CountOK' /\ active' \in Nat
    <3>1. IsFiniteSet(Served')
      BY <2>2, ServedFinite, FS_Difference
    <3>2. QED
      BY <1>12, <2>4, <3>1, FS_CardinalityType DEF Cleanup
  <2>6. NothingAfterPurge'
    <3>1. stop \in {"purged", "stopped"} => Idle = {}
      BY DEF Idle
    <3>2. QED
      BY <1>12, <3>1 DEF Cleanup
  <2>7. QED
    BY <1>12, <2>2, <2>5, <2>6 DEF Cleanup
<1>13. ASSUME CleanerExits PROVE TableInv'
  BY <1>13 DEF CleanerExits, Served
<1>14. ASSUME NEW s \in Packets, RelayExits(s) PROVE TableInv'
  BY <1>14 DEF RelayExits, Served
<1>15. ASSUME StopBegins PROVE TableInv'
  BY <1>15 DEF StopBegins, Served
<1>16. ASSUME StopPurges PROVE TableInv'
  <2>1. Drop(Served)
    BY <1>16 DEF StopPurges, Served
  <2>2. /\ sessions' \in [Players -> Packets \cup {None}] /\ live' = sessions'
        /\ age' \in [Packets -> 0..Cap]
        /\ upstream' \in [Packets -> {"none", "open", "closed"}]
        /\ StageOK' /\ SessionOK' /\ UpstreamsAreOwned'
        /\ Served' = Served \ Served
    BY <1>16, <2>1, DropKeepsTable DEF StopPurges
  <2>3. CountOK'
    <3>1. Cardinality(Served') = 0
      BY ONLY <2>2, FS_EmptySet
    <3>2. QED
      BY <1>16, <3>1 DEF StopPurges
  <2>4. NothingAfterPurge'
    BY <1>16 DEF StopPurges, Drop
  <2>5. QED
    BY <1>16, <2>2, <2>3, <2>4 DEF StopPurges
<1>17. ASSUME StopReturns PROVE TableInv'
  BY <1>17 DEF StopReturns, Served
<1>18. ASSUME Tick PROVE TableInv'
  BY <1>18 DEF Tick, Older, Served
<1>19. ASSUME UNCHANGED vars PROVE TableInv'
  BY <1>19 DEF vars, Served
<1>20. QED
  BY <1>1, <1>2, <1>3, <1>4, <1>5, <1>6, <1>7, <1>8, <1>9, <1>10, <1>11, <1>12,
     <1>13, <1>14, <1>15, <1>16, <1>17, <1>18, <1>19 DEF Next, Forward

-----------------------------------------------------------------------------

LEMMA TableInvHolds == Spec => []TableInv
BY TableInit, TableStep, PTL DEF Spec

\* No upstream leaks, however goroutines, the clean-up and Stop overlap
\* (getOrCreateSession, discardUpstream, releaseUpstream).
THEOREM NoUpstreamLeaks == Spec => []UpstreamsAreOwned
<1>1. TableInv => UpstreamsAreOwned
  BY DEF TableInv
<1>2. QED
  BY <1>1, TableInvHolds, PTL

\* A session found in f.sessions under the lock has an open upstream of its
\* own player.
THEOREM TableIsUsable == Spec => [](TypeOK /\ SessionsWork)
<1>1. TableInv => TypeOK /\ SessionsWork
  BY DEF TableInv, SessionOK, SessionsWork
<1>2. QED
  BY <1>1, TableInvHolds, PTL

\* The live registry and f.active always agree with f.sessions.
THEOREM PanelIsExact == Spec => []PanelAgrees
<1>1. TableInv => PanelAgrees
  BY DEF TableInv, CountOK, Served, PanelAgrees
<1>2. QED
  BY <1>1, TableInvHolds, PTL

\* Stop's purge is final: the check of stopCh under f.mu keeps goroutines
\* that are still opening upstreams from putting sessions back.
THEOREM PurgeIsFinal == Spec => []NothingAfterPurge
<1>1. TableInv => NothingAfterPurge
  BY DEF TableInv
<1>2. QED
  BY <1>1, TableInvHolds, PTL

\* The session table works, is what the panel shows, and stays empty once purged.
THEOREM TableIsRight == Spec => []TableHolds
<1>1. TypeOK /\ SessionsWork /\ PanelAgrees /\ NothingAfterPurge => TableHolds
  BY DEF TableHolds
<1>2. QED
  BY <1>1, TableIsUsable, PanelIsExact, PurgeIsFinal, PTL

=============================================================================
