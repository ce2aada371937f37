------------------------------ MODULE NetherNet ------------------------------
(***************************************************************************)
(* internal/nethernet and internal/forward/nethernet_backend.go: a player  *)
(* negotiates a session over HTTP through the gateway, which rewrites the  *)
(* backend's SDP answer and registers the session under the answer's       *)
(* ice-ufrag; the multiplexer learns the player's address from the first   *)
(* STUN packet that names the ufrag and forwards everything from there on  *)
(* over a socket bound to the player's own address.                        *)
(*                                                                         *)
(* Every packet is handled by a goroutine of its own, so that packets      *)
(* reach m.mu in any order and even after Stop.  A session that replaces   *)
(* another is a new object, one of Ids that nothing refers to.                *)
(***************************************************************************)
EXTENDS Integers, Sequences, FiniteSets

CONSTANTS Clients,     \* addresses of players
          Ufrags,
          Answers,     \* SDP answers of the backend, sequences of Line
          Ids,         \* bound: session objects at a time
          SignalPort,  \* g.targetPort
          MaxJoins,    \* bound: requests under way
          MaxPackets,  \* bound: packets whose goroutine has not run yet
          None

VARIABLES
  up,        \* Stop has not been called
  join,      \* a player's POST /v1/join under way, or None
  told,      \* the ufrag of the answer that a player received last
  sess,      \* the object of a session
  sessions,  \* m.sessions
  addrMap,   \* m.addrMap
  bound,     \* sessions whose player socket is open
  reader,    \* readBackend of a session: "none", "reads", "holds" a reply
  packets,   \* packets read and not handled
  panel,     \* forward's session registry, by the player's address
  infos      \* sink.infos

vars == <<up, join, told, sess, sessions, addrMap, bound, reader, packets, panel, infos>>
signalling == <<join, told>>
learned == <<sess, sessions, addrMap, bound, panel, infos>>

-----------------------------------------------------------------------------
(* The answer.  "ok" says that a candidate is a UDP host candidate; its     *)
(* address is that of the loopback, of the backend, or a name.             *)

Line ==
  [kind : {"candidate"}, addr : {"loopback", "backend", "name"}, port : Nat, ok : BOOLEAN]
  \cup [kind : {"connection", "media"}, addr : {"backend"}, port : Nat]
  \cup [kind : {"ufrag"}, ufrag : Ufrags]
  \cup [kind : {"other"}]

Session == [ufrag : Ufrags, client : Clients \cup {None}, port : Nat, idle : BOOLEAN]

\* Of the constants; assumed where an instance is made.
NetherNetAssumption ==
  /\ Answers \subseteq Seq(Line) /\ Ids \subseteq Nat /\ SignalPort \in Nat
  /\ None \notin Ids \cup Clients \cup Ufrags \cup Session

Public == "public"
Dropped == [kind |-> "dropped"]   \* a line that is not in the rewritten answer

First(S) == CHOOSE k \in S : \A j \in S : k <= j

Candidates(a) == {k \in DOMAIN a : a[k].kind = "candidate"}
HostCandidates(a) == {k \in Candidates(a) : a[k].ok}
Usable(a) == {k \in HostCandidates(a) : a[k].addr # "name"}

\* extractIceUfrag
IceUfrag(a) ==
  LET U == {k \in DOMAIN a : a[k].kind = "ufrag"} IN
  IF U = {} THEN None ELSE a[First(U)].ufrag

\* The first that has an address which is not the loopback's, or else the first.
Preferred(a, C) ==
  LET far == {k \in C : a[k].addr = "backend"} IN a[First(IF far # {} THEN far ELSE C)]

\* backendDataPort: candidates without a port are passed over.
BackendDataPort(a) ==
  LET C == {k \in HostCandidates(a) : a[k].port # 0} IN
  IF C = {} THEN SignalPort ELSE Preferred(a, C).port

\* rewriteSDP: one candidate, made of the preferred usable one, takes the place
\* of them all; if none is usable each is rewritten.
RewriteSDP(a) ==
  LET public(l) == [kind |-> l.kind, addr |-> Public, port |-> "data"]
      line(k) ==
        CASE a[k].kind \in {"connection", "media"} -> public(a[k])
          [] k \in Candidates(a) /\ Usable(a) = {} -> public(a[k])
          [] k \in Candidates(a) /\ Usable(a) # {} ->
               IF k = First(Candidates(a)) THEN public(Preferred(a, Usable(a))) ELSE Dropped
          [] OTHER -> a[k]
  IN [k \in DOMAIN a |-> line(k)]

-----------------------------------------------------------------------------

Init ==
  /\ up = TRUE
  /\ join = [c \in Clients |-> None]
  /\ told = [c \in Clients |-> None]
  /\ sess = [i \in Ids |-> None]
  /\ sessions = [u \in Ufrags |-> None]
  /\ addrMap = [c \in Clients |-> None]
  /\ bound = {}
  /\ reader = [i \in Ids |-> "none"]
  /\ packets = {}
  /\ panel = [c \in Clients |-> None]
  /\ infos = [u \in Ufrags |-> None]

Live(i) == \E u \in Ufrags : sessions[u] = i

\* Objects that nothing refers to.
Fresh == {i \in Ids : sess[i] = None}

\* What is left of the objects once nothing but a reader may refer to those in S.
Kept(S) == [i \in Ids |-> IF i \in S /\ reader[i] = "none" THEN None ELSE sess[i]]

\* NetherSessionStart
SessionStart(u, c, i) ==
  /\ panel' = [panel EXCEPT ![c] = i]
  /\ infos' = [infos EXCEPT ![u] = c]

\* NetherSessionEnd: the entry that the sink has under the ufrag leaves.
SessionsEnd(S) ==
  /\ infos' = [u \in Ufrags |-> IF sessions[u] \in S /\ sess[sessions[u]].client # None
                                THEN None ELSE infos[u]]
  /\ panel' = [c \in Clients |->
                IF \E u \in Ufrags : /\ sessions[u] \in S /\ sess[sessions[u]].client # None
                                     /\ infos[u] = c
                THEN None ELSE panel[c]]

\* endSessionLocked
EndSessions(S) ==
  /\ addrMap' = [c \in Clients |-> IF addrMap[c] \in S THEN None ELSE addrMap[c]]
  /\ bound' = bound \ S
  /\ SessionsEnd(S)

-----------------------------------------------------------------------------
(* The gateway: handleJoin *)

\* The backend answers the offer.  A request that fails changes nothing.
Answer(c, a) ==
  /\ up /\ Cardinality({d \in Clients : join[d] # None}) < MaxJoins
  /\ join[c] = None
  /\ join' = [join EXCEPT ![c] = [stage |-> "answered", answer |-> a]]
  /\ UNCHANGED <<up, told, learned, reader, packets>>

\* RegisterSession ends the session that has the ufrag.
Register(c) ==
  /\ join[c] # None /\ join[c].stage = "answered"
  /\ join' = [join EXCEPT ![c].stage = "registered"]
  /\ LET u == IceUfrag(RewriteSDP(join[c].answer)) IN
     IF u = None THEN UNCHANGED learned
     ELSE /\ Fresh # {}
          /\ LET i == First(Fresh) IN
             /\ EndSessions({sessions[u]} \ {None})
             /\ sessions' = [sessions EXCEPT ![u] = i]
             /\ sess' = [Kept({sessions[u]}) EXCEPT ![i] =
                  [ufrag |-> u, client |-> None, port |-> BackendDataPort(join[c].answer),
                   idle |-> FALSE]]
  /\ UNCHANGED <<up, told, reader, packets>>

\* The answer goes to the player.
Reply(c) ==
  /\ join[c] # None /\ join[c].stage = "registered"
  /\ join' = [join EXCEPT ![c] = None]
  /\ told' = [told EXCEPT ![c] = IceUfrag(RewriteSDP(join[c].answer))]
  /\ UNCHANGED <<up, learned, reader, packets>>

-----------------------------------------------------------------------------
(* Packets of a player *)

\* A packet, with the ufrag that extractUfragFromSTUN finds in it.
Packet == [from : Clients, ufrag : Ufrags \cup {None}]

\* readLoop.  A player sends STUN for a session it was told of, or data.
Arrive(p) ==
  /\ up
  /\ p.ufrag \in {told[p.from], None}
  /\ p \notin packets /\ Cardinality(packets) < MaxPackets
  /\ packets' = packets \cup {p}
  /\ UNCHANGED <<up, signalling, learned, reader>>

\* The factory fails when the address is bound already, or for any reason.
Bindable(i, c) == \A j \in bound : sess[j].client # c

\* forwardToTarget: the first packet that can binds the player's address.  S is
\* the session object before it.
ForwardToTarget(i, S) ==
  /\ sess' = [sess EXCEPT ![i] = [S EXCEPT !.idle = FALSE]]
  /\ \/ i \notin bound /\ Bindable(i, S.client)
        /\ bound' = bound \cup {i} /\ reader' = [reader EXCEPT ![i] = "reads"]
     \/ UNCHANGED <<bound, reader>>

Unlearned == {i \in Ids : sess[i] # None /\ sess[i].client = None}

\* Mutant of Learn: a session may be learned again from another address.
LearnAgain(p) ==
  /\ sessions[p.ufrag] # None
  /\ LET i == sessions[p.ufrag] IN
     /\ addrMap' = [addrMap EXCEPT ![p.from] = i]
     /\ SessionStart(p.ufrag, p.from, i)
     /\ ForwardToTarget(i, [sess[i] EXCEPT !.client = p.from])

\* The first STUN packet gives the session its address; NetherSessionStart
\* enters it in the registry of sessions before the packet goes on.
Learn(p) ==
  /\ sessions[p.ufrag] \in Unlearned
  /\ LET i == sessions[p.ufrag] IN
     /\ addrMap' = [addrMap EXCEPT ![p.from] = i]
     /\ SessionStart(p.ufrag, p.from, i)
     /\ ForwardToTarget(i, [sess[i] EXCEPT !.client = p.from])

Unknown(p) ==
  addrMap[p.from] = None /\ ~(p.ufrag # None /\ sessions[p.ufrag] \in Unlearned)

\* handlePacket: the address comes before the ufrag; what matches neither is dropped.
Handle(p) ==
  /\ p \in packets
  /\ packets' = packets \ {p}
  /\ \/ /\ addrMap[p.from] # None
        /\ ForwardToTarget(addrMap[p.from], sess[addrMap[p.from]])
        /\ UNCHANGED <<addrMap, panel, infos>>
     \/ /\ addrMap[p.from] = None /\ p.ufrag # None
        /\ Learn(p)
     \/ Unknown(p) /\ UNCHANGED <<learned, reader>>
  /\ UNCHANGED <<up, signalling, sessions>>

-----------------------------------------------------------------------------
(* readBackend: it has its socket from the start and ends when that closes *)

\* The backend sends to the player's address.
Receive(i) ==
  /\ reader[i] = "reads" /\ i \in bound /\ up
  /\ reader' = [reader EXCEPT ![i] = "holds"]
  /\ UNCHANGED <<up, signalling, learned, packets>>

\* The reply goes to the player and the session is as of now.
Relay(i) ==
  /\ reader[i] = "holds"
  /\ reader' = [reader EXCEPT ![i] = "reads"]
  /\ sess' = [sess EXCEPT ![i].idle = FALSE]
  /\ UNCHANGED <<up, signalling, sessions, addrMap, bound, panel, infos, packets>>

ReaderEnds(i) ==
  /\ reader[i] = "reads"
  /\ i \notin bound \/ ~up
  /\ reader' = [reader EXCEPT ![i] = "none"]
  /\ sess' = IF Live(i) THEN sess ELSE [sess EXCEPT ![i] = None]
  /\ UNCHANGED <<up, signalling, sessions, addrMap, bound, panel, infos, packets>>

-----------------------------------------------------------------------------
(* Timers and the end *)

\* sessionIdleTimeout passes without traffic.
FallIdle(i) ==
  /\ Live(i) /\ ~sess[i].idle
  /\ sess' = [sess EXCEPT ![i].idle = TRUE]
  /\ UNCHANGED <<up, signalling, sessions, addrMap, bound, reader, packets, panel, infos>>

\* cleanup
Cleanup ==
  LET S == {i \in Ids : Live(i) /\ sess[i].idle} IN
  /\ up /\ S # {}
  /\ EndSessions(S)
  /\ sess' = Kept(S)
  /\ sessions' = [u \in Ufrags |-> IF sessions[u] \in S THEN None ELSE sessions[u]]
  /\ UNCHANGED <<up, signalling, reader, packets>>

\* Stop, called by stopForwarders once the gateway has stopped; joins that are
\* still under way go on.
Stop ==
  /\ up
  /\ up' = FALSE
  /\ EndSessions({i \in Ids : Live(i)})
  /\ sess' = Kept({i \in Ids : Live(i)})
  /\ sessions' = [u \in Ufrags |-> None]
  /\ UNCHANGED <<signalling, reader, packets>>

-----------------------------------------------------------------------------

Reader(i) == Receive(i) \/ Relay(i) \/ ReaderEnds(i)

Next ==
  \/ \E c \in Clients : (\E a \in Answers : Answer(c, a)) \/ Register(c) \/ Reply(c)
  \/ \E p \in Packet : Arrive(p) \/ Handle(p)
  \/ \E i \in Ids : Reader(i) \/ FallIdle(i)
  \/ Cleanup \/ Stop

Spec == Init /\ [][Next]_vars

-----------------------------------------------------------------------------
(* Properties *)

\* What NetherSessionStart and NetherSessionEnd promise: the registry that the
\* panel shows and that return routes are pushed from has the players whose
\* address was learned, each with its own session, and no other.
PanelIsPaired ==
  \A c \in Clients :
    /\ panel[c] # None <=> addrMap[c] # None
    /\ panel[c] # None =>
         LET i == panel[c] IN
         /\ addrMap[c] = i /\ sess[i].client = c
         /\ sessions[sess[i].ufrag] = i /\ infos[sess[i].ufrag] = c

\* A session keeps its player's address only while it is routed to: two
\* sessions never hold one address, so that no session falls back to the
\* relay's own because an earlier one left its socket behind.
AddressesAreFree ==
  /\ \A i \in bound : Live(i) /\ addrMap[sess[i].client] = i
  /\ \A i, j \in bound : sess[i].client = sess[j].client => i = j

\* The backend's own ports of an answer, whatever the order of its lines.
Advertised(a) == {a[k].port : k \in {n \in HostCandidates(a) : a[n].port # 0}}

\* A player is shown one candidate where the backend has one that can be used, never an
\* address of the backend, and its packets go to a port that the backend advertised.
AnswersLeadHere ==
  /\ \A c \in Clients : join[c] # None /\ join[c].stage = "registered" =>
       LET a == RewriteSDP(join[c].answer) IN
       /\ Usable(join[c].answer) # {} => \E k \in DOMAIN a : Candidates(a) = {k}
       /\ \A k \in DOMAIN a : a[k].kind \in {"connection", "media", "candidate"} => a[k].addr = Public
  /\ \A i \in Ids : sess[i] # None =>
       \E a \in Answers : /\ IceUfrag(a) = sess[i].ufrag
                          /\ IF Advertised(a) # {} THEN sess[i].port \in Advertised(a)
                             ELSE sess[i].port = SignalPort

=============================================================================
