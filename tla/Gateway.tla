------------------------------ MODULE Gateway ------------------------------
(***************************************************************************)
(* The signalling gateway of a NetherNet rule (internal/nethernet): the    *)
(* port it binds, the sniffing of a connection's first byte when one port  *)
(* carries HTTP and HTTPS, and the Stop and Start of a rule that restarts. *)
(* The gateways of one rule are numbered; the next one is made when the    *)
(* Stop of the last has returned.                                          *)
(***************************************************************************)
EXTENDS Naturals, Sequences, FiniteSets

CONSTANTS MaxGateways, \* bound: the number of the rule's last gateway
          Calls,  \* connections of players
          Bytes,  \* what each of them sends before it waits for an answer
          Other,  \* another program, which may have the port
          None

\* Of the constants; assumed where an instance is made.
GatewayAssumption ==
  /\ MaxGateways \in Nat \ {0} /\ Bytes \subseteq Seq(0 .. 255)
  /\ Other \notin 1 .. MaxGateways /\ None \notin 1 .. MaxGateways \cup {Other}

Gateways == 1 .. MaxGateways

Tls == 22   \* the first byte of a TLS ClientHello

VARIABLES
  dual,    \* HTTP and HTTPS on one port
  gw,      \* "none", "started", "stopping", "stopped", "failed"
  server,  \* its goroutine: "none", "asked", "looked", "bound", "serves", "ended"
  down,    \* gateways whose http.Server is shutting down
  port,    \* who listens on the port
  call,    \* a connection: "out", "sniffs", "shakes", "offered", "closed"
  sent,    \* the bytes it sends, in order
  wire,    \* those nobody has read yet
  prefix,  \* those put back in front (prefixConn)
  given,   \* how often singleConnListener has handed the connection out
  got      \* what each of the goroutines that serve it has read
vars == <<dual, gw, server, down, port, call, sent, wire, prefix, given, got>>

Readers == {1, 2}
-----------------------------------------------------------------------------
Init ==
  /\ dual \in BOOLEAN
  /\ gw = [g \in Gateways |-> "none"]
  /\ server = [g \in Gateways |-> "none"]
  /\ down = {}
  /\ port \in {None, Other}
  /\ call = [c \in Calls |-> "out"]
  /\ sent \in [Calls -> Bytes]
  /\ wire = sent
  /\ prefix = [c \in Calls |-> << >>]
  /\ given = [c \in Calls |-> 0]
  /\ got = [c \in Calls |-> [i \in Readers |-> << >>]]

Streams == <<call, sent, wire, prefix, given, got>>

Turn(g) == \A h \in Gateways : h < g => gw[h] \in {"stopped", "failed"}

(* NewGatewayWithResolver and Start.  In dual mode the port is bound at    *)
(* once; otherwise a goroutine binds it later.  A gateway may be refused   *)
(* before that, for its certificate.                                       *)
Start(g) ==
  /\ gw[g] = "none" /\ Turn(g)
  /\ \/ gw' = [gw EXCEPT ![g] = "failed"] /\ UNCHANGED <<server, port>>
     \/ dual /\ port = None
        /\ port' = g
        /\ gw' = [gw EXCEPT ![g] = "started"]
        /\ server' = [server EXCEPT ![g] = "serves"]
     \/ ~dual
        /\ gw' = [gw EXCEPT ![g] = "started"]
        /\ server' = [server EXCEPT ![g] = "asked"]
        /\ UNCHANGED port
  /\ UNCHANGED <<dual, down, Streams>>

(* http.Server.ListenAndServe, in the goroutine Start left behind: it      *)
(* looks whether the server is shutting down, binds, and looks again.      *)
Look(g) ==
  /\ server[g] = "asked"
  /\ server' = [server EXCEPT ![g] = IF g \in down THEN "ended" ELSE "looked"]
  /\ UNCHANGED <<dual, gw, down, port, Streams>>

Bind(g) ==
  /\ server[g] = "looked"
  /\ server' = [server EXCEPT ![g] = IF port = None THEN "bound" ELSE "ended"]
  /\ port' = IF port = None THEN g ELSE port
  /\ UNCHANGED <<dual, gw, down, Streams>>

Track(g) ==
  /\ server[g] = "bound"
  /\ server' = [server EXCEPT ![g] = IF g \in down THEN "ended" ELSE "serves"]
  /\ port' = IF g \in down THEN None ELSE port
  /\ UNCHANGED <<dual, gw, down, Streams>>

\* Mutant of Stop: the listener of dual mode is left to Shutdown.
StopLeavesListener(g) ==
  /\ gw[g] = "started"
  /\ gw' = [gw EXCEPT ![g] = "stopping"]
  /\ UNCHANGED <<dual, server, port, down, Streams>>

(* Stop closes the listener of dual mode; the accept loop ends with it.    *)
Stop(g) ==
  /\ gw[g] = "started"
  /\ gw' = [gw EXCEPT ![g] = "stopping"]
  /\ server' = IF dual THEN [server EXCEPT ![g] = "ended"] ELSE server
  /\ port' = IF dual THEN None ELSE port
  /\ UNCHANGED <<dual, down, Streams>>

(* Shutdown closes the listeners the server has tracked; Stop returns when *)
(* it does, after 5 s at most, whatever the connections do.                *)
Shutdown(g) ==
  /\ gw[g] = "stopping"
  /\ gw' = [gw EXCEPT ![g] = "stopped"]
  /\ down' = down \cup {g}
  /\ LET closes == ~dual /\ server[g] = "serves"
     IN /\ server' = IF closes THEN [server EXCEPT ![g] = "ended"] ELSE server
        /\ port' = IF closes THEN None ELSE port
  /\ UNCHANGED <<dual, Streams>>

(* Another program takes the port or gives it back.                        *)
OtherMoves ==
  /\ \/ port = None /\ port' = Other
     \/ port = Other /\ port' = None
  /\ UNCHANGED <<dual, gw, server, down, Streams>>
-----------------------------------------------------------------------------
(* acceptLoop and handleDualConn.                                          *)
Gates == <<dual, gw, server, down, port>>

Connect(c) ==
  /\ call[c] = "out" /\ dual /\ port \in Gateways
  /\ call' = [call EXCEPT ![c] = "sniffs"]
  /\ UNCHANGED <<Gates, sent, wire, prefix, given, got>>

Sniff(c) ==
  /\ call[c] = "sniffs" /\ wire[c] # << >>
  /\ wire' = [wire EXCEPT ![c] = Tail(@)]
  /\ prefix' = [prefix EXCEPT ![c] = <<Head(wire[c])>>]
  /\ call' = [call EXCEPT ![c] = IF Head(wire[c]) = Tls THEN "shakes" ELSE "offered"]
  /\ UNCHANGED <<Gates, sent, given, got>>

(* The deadline of 10 s on the first byte, or a client that hangs up.      *)
SniffFails(c) ==
  /\ call[c] = "sniffs"
  /\ call' = [call EXCEPT ![c] = "closed"]
  /\ UNCHANGED <<Gates, sent, wire, prefix, given, got>>

(* The TLS handshake.  Its bytes are those the reader of the connection    *)
(* gets: where records end is left out.                                    *)
Shake(c) ==
  /\ call[c] = "shakes"
  /\ \E to \in {"offered", "closed"} : call' = [call EXCEPT ![c] = to]
  /\ UNCHANGED <<Gates, sent, wire, prefix, given, got>>

(* singleConnListener.Accept, which http.Serve calls until it fails.       *)
Accept(c) ==
  /\ call[c] = "offered" /\ given[c] = 0
  /\ given' = [given EXCEPT ![c] = 1]
  /\ UNCHANGED <<Gates, call, sent, wire, prefix, got>>

(* prefixConn.Read, by reader i of connection c.                           *)
Read(c, i) ==
  /\ call[c] = "offered" /\ i <= given[c]
  /\ \/ /\ prefix[c] # << >>
        /\ got' = [got EXCEPT ![c][i] = Append(@, Head(prefix[c]))]
        /\ prefix' = [prefix EXCEPT ![c] = Tail(@)]
        /\ UNCHANGED wire
     \/ /\ prefix[c] = << >> /\ wire[c] # << >>
        /\ got' = [got EXCEPT ![c][i] = Append(@, Head(wire[c]))]
        /\ wire' = [wire EXCEPT ![c] = Tail(@)]
        /\ UNCHANGED prefix
  /\ UNCHANGED <<Gates, call, sent, given>>

Next ==
  \/ \E g \in Gateways :
       \/ Start(g) \/ Look(g) \/ Bind(g) \/ Track(g) \/ Stop(g) \/ Shutdown(g)
  \/ OtherMoves
  \/ \E c \in Calls :
       \/ Connect(c) \/ Sniff(c) \/ SniffFails(c) \/ Shake(c) \/ Accept(c)
       \/ \E i \in Readers : Read(c, i)

Spec == Init /\ [][Next]_vars
-----------------------------------------------------------------------------
(* A gateway whose Stop has returned serves nobody, and in dual mode its   *)
(* port is free for the next one: "or the rule is stopped and the port     *)
(* still taken, and the restart is bound to fail" (dualListener).  A       *)
(* gateway of one protocol may still hold the port for a moment after Stop *)
(* has returned, when its goroutine had looked before.                     *)
StoppedLetsGo ==
  \A g \in Gateways :
    gw[g] = "stopped" => server[g] # "serves" /\ (dual => port # g)

(* The one goroutine that serves a connection reads every byte the player  *)
(* sent, in order, the sniffed one among them, and no second one takes any *)
(* (singleConnListener: "two readers fight over the bytes").               *)
StreamsArriveWhole ==
  \A c \in Calls : got[c][1] \o prefix[c] \o wire[c] = sent[c]
=============================================================================
