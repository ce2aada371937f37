---------------------------- MODULE UdpForwarder ----------------------------
(***************************************************************************)
(* internal/forward/udp.go: one running UDP forwarder.  Every datagram is  *)
(* handled by a goroutine of its own (forward), which looks its session up *)
(* under f.mu, opens an upstream with the lock released when there is      *)
(* none, and looks again; a cleanup loop reclaims idle sessions and Stop   *)
(* purges them all.                                                        *)
(*                                                                         *)
(* Packets are the datagrams let through by the access control; a goroutine *)
(* opens at most one upstream and creates at most one session, so both are *)
(* named after its packet.  Time is kept as ages: how long ago a session   *)
(* was last seen, and how long ago a goroutine read the clock, both in     *)
(* ticks and capped one above the timeout.                                 *)
(***************************************************************************)
EXTENDS Naturals, FiniteSets

CONSTANTS Packets,      \* datagrams from players
          Players,      \* client addresses
          SrcOf,        \* the client address of each packet
          None,
          Timeout,      \* f.timeout, in ticks
          Transparent,  \* rule.Transparent: upstream is a shared tuple handle
          Flaky         \* the sockets whose reads may fail while they are open:
                        \* upstreams, and None for the listening socket

ASSUME ForwarderAssumption ==
  /\ IsFiniteSet(Packets) /\ IsFiniteSet(Players)
  /\ None \notin Packets
  /\ SrcOf \in [Packets -> Players]
  /\ Timeout \in Nat
  /\ Transparent \in BOOLEAN /\ Flaky \subseteq Packets \cup {None}

VARIABLES
  stop,      \* how far Stop has come
  reader,    \* readLoop
  cleaner,   \* cleanupLoop
  sessions,  \* f.sessions: the session of each player
  age,       \* of a session: time since lastSeen
  upstream,  \* of a session (or of one being created): its socket or handle
  relay,     \* of a session: its relayBack goroutine
  live,      \* svc.sessions: the entry each player's key maps to
  active,    \* f.active
  first,     \* of a session: what its first datagram to the target carried
  pc,        \* of a packet: where its goroutine is
  wait,      \* of a packet: time since its goroutine read the clock
  sess       \* of a packet: the session it goes through

vars == <<stop, reader, cleaner, sessions, age, upstream, relay, live, active,
          first, pc, wait, sess>>

Cap == Timeout + 1
Older(t) == IF t < Cap THEN t + 1 ELSE Cap

Stopping == stop # "running"

Init ==
  /\ stop = "running"
  /\ reader = "running" /\ cleaner = "running"
  /\ sessions = [k \in Players |-> None]
  /\ age = [p \in Packets |-> 0]
  /\ upstream = [p \in Packets |-> "none"]
  /\ relay = [p \in Packets |-> "none"]
  /\ live = [k \in Players |-> None]
  /\ active = 0
  /\ first = [p \in Packets |-> "nothing"]
  /\ pc = [p \in Packets |-> "idle"]
  /\ wait = [p \in Packets |-> 0]
  /\ sess = [p \in Packets |-> None]

GoTo(p, stage) == pc' = [pc EXCEPT ![p] = stage]

loops == <<reader, cleaner>>
table == <<sessions, age, relay, live, active>>

-----------------------------------------------------------------------------
(* readLoop, and forward as far as its first look at the session table *)

Arrive(p) ==
  /\ reader = "running" /\ ~Stopping
  /\ pc[p] = "idle"
  /\ GoTo(p, "queued")
  /\ UNCHANGED <<stop, loops, table, upstream, first, wait, sess>>

\* The read returns because Stop closed the socket, or with an error that is
\* not temporary: the loop ends and nothing restarts it.
ReaderExits ==
  /\ reader = "running"
  /\ Stopping \/ None \in Flaky
  /\ reader' = "done"
  /\ UNCHANGED <<stop, cleaner, table, upstream, first, pc, wait, sess>>

\* forward begins, and reads the clock.
Begin(p) ==
  /\ pc[p] = "queued"
  /\ wait' = [wait EXCEPT ![p] = 0]
  /\ GoTo(p, IF Stopping THEN "done" ELSE "lookup")
  /\ UNCHANGED <<stop, loops, table, upstream, first, sess>>

\* lastSeen of session s becomes the time packet p read from the clock, which
\* its goroutine needs no more.
Credit(s, p) ==
  /\ age' = [age EXCEPT ![s] = wait[p]]
  /\ wait' = [wait EXCEPT ![p] = 0]

LookupHit(p) ==
  LET k == SrcOf[p] IN
  /\ pc[p] = "lookup" /\ sessions[k] # None
  /\ Credit(sessions[k], p)
  /\ sess' = [sess EXCEPT ![p] = sessions[k]]
  /\ GoTo(p, "sending")
  /\ UNCHANGED <<stop, loops, sessions, relay, live, active, upstream, first>>

LookupMiss(p) ==
  /\ pc[p] = "lookup" /\ sessions[SrcOf[p]] = None
  /\ GoTo(p, IF Stopping THEN "done" ELSE "opening")
  /\ UNCHANGED <<stop, loops, table, upstream, first, wait, sess>>

-----------------------------------------------------------------------------
(* getOrCreateSession without the lock, then with it again *)

OpenUpstream(p) ==
  /\ pc[p] = "opening"
  /\ \/ upstream' = [upstream EXCEPT ![p] = "open"] /\ GoTo(p, "inserting")
     \/ GoTo(p, "done") /\ UNCHANGED upstream
  /\ UNCHANGED <<stop, loops, table, first, wait, sess>>

\* Somebody else created the session meanwhile; lastSeen is set to the time
\* this goroutine read before it opened its upstream.
InsertLate(p) ==
  LET k == SrcOf[p] IN
  /\ pc[p] = "inserting" /\ sessions[k] # None
  /\ Credit(sessions[k], p)
  /\ sess' = [sess EXCEPT ![p] = sessions[k]]
  /\ GoTo(p, "discarding")
  /\ UNCHANGED <<stop, loops, sessions, relay, live, active, upstream, first>>

InsertStopped(p) ==
  /\ pc[p] = "inserting" /\ sessions[SrcOf[p]] = None
  /\ Stopping
  /\ GoTo(p, "discarding")
  /\ UNCHANGED <<stop, loops, table, upstream, first, wait, sess>>

\* Mutant of Insert: no second look at stopCh.
InsertUnstopped(p) ==
  LET k == SrcOf[p] IN
  /\ pc[p] = "inserting" /\ sessions[k] = None
  /\ sessions' = [sessions EXCEPT ![k] = p]
  /\ Credit(p, p)
  /\ live' = [live EXCEPT ![k] = IF @ = None THEN p ELSE @]
  /\ relay' = IF Transparent THEN relay ELSE [relay EXCEPT ![p] = "reading"]
  /\ active' = active + 1
  /\ sess' = [sess EXCEPT ![p] = p]
  /\ GoTo(p, "sending")
  /\ UNCHANGED <<stop, loops, upstream, first>>

Insert(p) ==
  LET k == SrcOf[p] IN
  /\ pc[p] = "inserting" /\ sessions[k] = None
  /\ ~Stopping
  /\ sessions' = [sessions EXCEPT ![k] = p]
  /\ Credit(p, p)
  /\ live' = [live EXCEPT ![k] = IF @ = None THEN p ELSE @]
  /\ relay' = IF Transparent THEN relay ELSE [relay EXCEPT ![p] = "reading"]
  /\ active' = active + 1
  /\ sess' = [sess EXCEPT ![p] = p]
  /\ GoTo(p, "sending")
  /\ UNCHANGED <<stop, loops, upstream, first>>

\* Mutant of Discard: the loser's upstream is forgotten.
DiscardForgets(p) ==
  /\ pc[p] = "discarding"
  /\ GoTo(p, IF sess[p] = None THEN "done" ELSE "sending")
  /\ UNCHANGED <<stop, loops, table, upstream, first, wait, sess>>

\* discardUpstream, after the unlock.
Discard(p) ==
  /\ pc[p] = "discarding"
  /\ upstream' = [upstream EXCEPT ![p] = "closed"]
  /\ GoTo(p, IF sess[p] = None THEN "done" ELSE "sending")
  /\ UNCHANGED <<stop, loops, table, first, wait, sess>>

\* The write to the target, with the PROXY header if this goroutine created
\* the session.  On a closed upstream it fails and the datagram is lost.
Send(p) ==
  LET s == sess[p] IN
  /\ pc[p] = "sending"
  /\ first' = IF upstream[s] = "open" /\ first[s] = "nothing"
                THEN [first EXCEPT ![s] = IF s = p THEN "header" ELSE "bare"]
                ELSE first
  /\ GoTo(p, "done")
  /\ UNCHANGED <<stop, loops, table, upstream, wait, sess>>

-----------------------------------------------------------------------------
(* Sessions end *)

\* Releases the upstreams of the players in K, takes them off the live
\* registry and out of the table, all under f.mu.  The age of what is no
\* session is 0.
Drop(K) ==
  /\ upstream' = [p \in Packets |-> IF \E k \in K : sessions[k] = p
                                      THEN "closed" ELSE upstream[p]]
  /\ live' = [k \in Players |-> IF k \in K THEN None ELSE live[k]]
  /\ age' = [p \in Packets |-> IF \E k \in K : sessions[k] = p THEN 0 ELSE age[p]]
  /\ sessions' = [k \in Players |-> IF k \in K THEN None ELSE sessions[k]]

Idle == {k \in Players : sessions[k] # None /\ age[sessions[k]] > Timeout}

Cleanup ==
  /\ cleaner = "running" /\ Idle # {}
  /\ Drop(Idle)
  /\ active' = active - Cardinality(Idle)
  /\ UNCHANGED <<stop, loops, relay, first, pc, wait, sess>>

\* Mutant of CleanerExits: the loop returns after a tick that found nothing.
CleanerGivesUp ==
  /\ cleaner = "running"
  /\ cleaner' = "done"
  /\ UNCHANGED <<stop, reader, table, upstream, first, pc, wait, sess>>

CleanerExits ==
  /\ cleaner = "running" /\ Stopping
  /\ cleaner' = "done"
  /\ UNCHANGED <<stop, reader, table, upstream, first, pc, wait, sess>>

\* relayBack ends on the first read error, of a closed upstream or not.
RelayExits(s) ==
  /\ relay[s] = "reading"
  /\ upstream[s] = "closed" \/ s \in Flaky
  /\ relay' = [relay EXCEPT ![s] = "done"]
  /\ UNCHANGED <<stop, loops, sessions, age, live, active, upstream, first,
                 pc, wait, sess>>

-----------------------------------------------------------------------------
(* Stop *)

\* close(f.stopCh) and f.conn.Close()
StopBegins ==
  /\ stop = "running"
  /\ stop' = "closing"
  /\ UNCHANGED <<loops, table, upstream, first, pc, wait, sess>>

StopPurges ==
  /\ stop = "closing"
  /\ Drop({k \in Players : sessions[k] # None})
  /\ active' = 0
  /\ stop' = "purged"
  /\ UNCHANGED <<loops, relay, first, pc, wait, sess>>

\* f.wg.Wait: the two loops and every relayBack, but not the goroutines of
\* the packets.
StopReturns ==
  /\ stop = "purged"
  /\ reader = "done" /\ cleaner = "done"
  /\ \A s \in Packets : relay[s] # "reading"
  /\ stop' = "stopped"
  /\ UNCHANGED <<loops, table, upstream, first, pc, wait, sess>>

-----------------------------------------------------------------------------

InTable(s) == \E k \in Players : sessions[k] = s
InCreation(p) == pc[p] \in {"lookup", "opening", "inserting"}

\* The ages that are of use grow.
Tick ==
  /\ age' = [p \in Packets |-> IF InTable(p) THEN Older(age[p]) ELSE age[p]]
  /\ wait' = [p \in Packets |-> IF InCreation(p) THEN Older(wait[p]) ELSE wait[p]]
  /\ UNCHANGED <<stop, loops, sessions, relay, live, active, upstream, first, pc, sess>>

Forward(p) ==
  \/ Begin(p) \/ LookupHit(p) \/ LookupMiss(p) \/ OpenUpstream(p)
  \/ InsertLate(p) \/ InsertStopped(p) \/ Insert(p) \/ Discard(p) \/ Send(p)

Next ==
  \/ \E p \in Packets : Arrive(p) \/ Forward(p) \/ RelayExits(p)
  \/ ReaderExits \/ Cleanup \/ CleanerExits
  \/ StopBegins \/ StopPurges \/ StopReturns
  \/ Tick

Spec == Init /\ [][Next]_vars

\* Goroutines run, closed sockets fail their readers, time passes, the
\* cleanup ticker ticks, and a Stop that was called goes on.
Fairness ==
  /\ \A p \in Packets : WF_vars(Forward(p)) /\ WF_vars(RelayExits(p))
  /\ WF_vars(ReaderExits) /\ WF_vars(Cleanup) /\ WF_vars(CleanerExits)
  /\ WF_vars(StopPurges) /\ WF_vars(StopReturns) /\ WF_vars(Tick)

FairSpec == Spec /\ Fairness

-----------------------------------------------------------------------------
(* Properties *)

TypeOK ==
  /\ stop \in {"running", "closing", "purged", "stopped"}
  /\ reader \in {"running", "done"} /\ cleaner \in {"running", "done"}
  /\ sessions \in [Players -> Packets \cup {None}]
  /\ age \in [Packets -> 0..Cap]
  /\ upstream \in [Packets -> {"none", "open", "closed"}]
  /\ relay \in [Packets -> {"none", "reading", "done"}]
  /\ live \in [Players -> Packets \cup {None}]
  /\ active \in Nat
  /\ first \in [Packets -> {"nothing", "header", "bare"}]
  /\ pc \in [Packets -> {"idle", "queued", "lookup", "opening", "inserting",
                         "discarding", "sending", "done"}]
  /\ wait \in [Packets -> 0..Cap]
  /\ sess \in [Packets -> Packets \cup {None}]

\* No upstream socket or handle leaks: an open one belongs to the session in
\* the table, or to a goroutine that is about to insert or discard it.
UpstreamsAreOwned ==
  \A p \in Packets : upstream[p] = "open" =>
     sessions[SrcOf[p]] = p \/ pc[p] \in {"inserting", "discarding"}

\* A session in the table can be sent through and is answered: its upstream
\* is open and, unless its own reads fail, its relayBack is reading.
SessionsWork ==
  \A k \in Players : sessions[k] # None =>
     /\ SrcOf[sessions[k]] = k
     /\ upstream[sessions[k]] = "open"
     /\ ~Transparent /\ sessions[k] \notin Flaky => relay[sessions[k]] = "reading"

\* The panel agrees with the table: the live registry lists exactly the
\* sessions there are, each under its own entry, and f.active counts them.
PanelAgrees ==
  /\ live = sessions
  /\ active = Cardinality({k \in Players : sessions[k] # None})

\* Once Stop has purged the table no goroutine still under way puts a session
\* back.
NothingAfterPurge ==
  stop \in {"purged", "stopped"} => sessions = [k \in Players |-> None] /\ active = 0

\* "Only the first datagram of every session has the PROXY header": what goes
\* to the target first carries it.
HeaderComesFirst == \A s \in Packets : first[s] # "bare"

\* Stop returns, whatever goroutines are under way, and then every upstream is
\* closed in the end.
StopEnds ==
  /\ stop = "closing" ~> stop = "stopped"
  /\ stop = "stopped" ~> \A p \in Packets : upstream[p] # "open"

\* A session whose player falls silent is reclaimed.
SilentReclaimed == \A k \in Players : sessions[k] # None ~> sessions[k] = None

\* Whatever datagrams, clean-up and Stop overlap, what the table shows works, is what the panel
\* shows, and stays empty once purged (getOrCreateSession, finalizeSession, Stop).
TableHolds == TypeOK /\ SessionsWork /\ PanelAgrees /\ NothingAfterPurge

\* Whatever fails or falls silent, nothing of the forwarder is kept for good.
SessionsEnd == StopEnds /\ SilentReclaimed

=============================================================================
