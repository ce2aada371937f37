--------------------------- MODULE MCBackground ---------------------------
(***************************************************************************)
(* Values for Background, and what each part must get to under the         *)
(* fairness that its module states.                                        *)
(***************************************************************************)
EXTENDS Background, Integers, Sequences, TLC

CONSTANTS r1, r2, c1, c2, c3, c4, q1, q2, k1, k2, k3, k4, k5, o,
          a1, a2, player, gateway, stranger, clientA, clientB

-----------------------------------------------------------------------------
(* A forwarder with two connections of two clients, each of which is tried *)
(* a second time.                                                          *)

MCConns == {c1, c2}
MCClients == {clientA, clientB}
MCClientOf == c1 :> clientA @@ c2 :> clientB

(* Two rules share two workers: connections of both, and a datagram.       *)

MCRules == {r1, r2}
MCPoolConns == {c1, c2, c3, c4}
MCRuleOf == c1 :> r1 @@ c2 :> r2 @@ c3 :> r2 @@ c4 :> r1
MCBrief == {c4}

(* Two certificates, one of them validated by HTTP-01, an order in two     *)
(* steps, two requests at a time and the scheduler; in each behaviour the  *)
(* requests and events of one of the sets occur.                           *)

MCCertIds == {c1, c2}
MCHttpCerts == {c2}
MCKeys == {k1, k2, k3, k4, k5}
MCOrders == {o}
MCRequests == {q1, q2}
MCWorks ==
  { {"apply", "renew"},
    {"apply", "by hand", "restart"},
    {"apply", "delete", "age", "calm"},
    {"apply", "age", "restart", "calm"},
    {"by hand", "update", "age", "calm"},
    {"upload", "update", "handshake", "delete", "age"} }

(* Two clients and a player.  a1 sends what it should and what it should   *)
(* not, a2 only answers.                                                   *)

MCTunnelClients == {a1, a2}
MCPlayers == {player}

Packet(by, src, dst, syn) == [by |-> by, src |-> src, dst |-> dst, syn |-> syn, len |-> 1]
Data(c, pkt) == [from |-> c, kind |-> "data", packets |-> <<pkt>>]
MCDatagrams ==
  {Data(a1, Packet(a1, a1, player, FALSE)), Data(a1, Packet(a1, a2, player, FALSE)),
   Data(a1, Packet(a1, a1, a2, FALSE)), Data(a1, Packet(a1, player, a2, FALSE)),
   Data(a1, Packet(a1, a1, gateway, TRUE)), Data(a2, Packet(a2, a2, player, FALSE)),
   [from |-> a2, kind |-> "fec",
    packets |-> <<Packet(a2, a2, player, FALSE), Packet(a2, a2, gateway, FALSE)>>],
   [from |-> a1, kind |-> "hello", packets |-> <<>>],
   [from |-> stranger, kind |-> "data", packets |-> <<>>],
   [from |-> stranger, kind |-> "empty", packets |-> <<>>]}

-----------------------------------------------------------------------------
(* The fairness of each part, as its module states it, but for the clients *)
(* of the pump, of which less is asked here.  One condition does for an    *)
(* action of each part, since only one of them ever occurs.                *)

PoolRule(r) == \/ Pool!Submit(r) \/ Pool!LoopEnds(r) \/ Pool!RuleStopped(r)
               \/ Pool!StopNext(r) \/ Pool!StopRule(r, "shutdown")

\* Peers answer the end of the other side's data with theirs (PoliteSpec).
TcpPeer(s) == HalfClosed(s) /\ PeerCloses(s)

Fairness ==
  /\ WF_backgroundVars(
          \/ PoolDoes(PoolRule(r1)) \/ KernelDoes(Kernel!Tick) \/ TcpDoes(Handle(c1))
          \/ CertsDo(Certs!Step(q1)) \/ PlaneDoes(Plane!ReadBatch))
  /\ WF_backgroundVars(
          \/ PoolDoes(PoolRule(r2)) \/ KernelDoes(Kernel!Watch(TRUE)) \/ TcpDoes(Handle(c2))
          \/ CertsDo(Certs!Step(q2)) \/ PlaneDoes(Plane!SkipDatagram))
  /\ WF_backgroundVars(
          \/ PoolDoes(Pool!Collect \/ Pool!Collected \/ Pool!CollectorEnds)
          \/ KernelDoes(Kernel!SetUp(TRUE) \/ Kernel!Teardown(TRUE)) \/ TcpDoes(AcceptorExits)
          \/ CertsDo(Certs!Step(Scheduler)) \/ PlaneDoes(Plane!HandleDatagram))
  /\ WF_backgroundVars(
          \/ PoolDoes(Pool!StopStep \/ Pool!Exit \/ Pool!Force) \/ CertsDo(Certs!StartRound)
          \/ TcpDoes(StopCloses \/ StopCopies \/ StopCuts \/ StopReturns))
  /\ WF_backgroundVars(
          \/ PoolDoes(Pool!MustEnd(c1)) \/ PlaneDoes(Plane!Pong(a1))
          \/ CertsDo(\E c \in {c1, c2} : Certs!NextRenewal(c)))
  /\ WF_backgroundVars(PoolDoes(Pool!MustEnd(c2)) \/ PlaneDoes(Plane!Pong(a2)))
  /\ WF_backgroundVars(PoolDoes(Pool!MustEnd(c3))) /\ WF_backgroundVars(PoolDoes(Pool!MustEnd(c4)))
  /\ \A s \in {c1, c2} \X {"src", "dst"} :
       WF_backgroundVars(TcpDoes(CopyEnds(s))) /\ WF_backgroundVars(TcpDoes(TcpPeer(s)))

MCSpec == BackgroundSpec /\ Fairness

-----------------------------------------------------------------------------
(* Properties *)

\* The Stop of a TCP forwarder that has begun returns, where targets answer a half-close with
\* their own, and a connection both ends of which have closed is released (forward/tcp.go).
\* The two connections differ in nothing.
ConnectionsEnd ==
  /\ []<>(part = "tcp" => stop \in {"running", "stopped"})
  /\ []<>(part = "tcp" => ({Src(c1), Dst(c1)} \subseteq gone => pc[c1] = "done"))

\* A shutdown does not stay at the collector, which needs a worker of the pool to clean up in,
\* whatever the peers of the connections do (main.go Stop, after Manager.Shutdown).
ShutdownPassesTheCollector ==
  []<>(part = "pool" => ~(main = "stopping" /\ step \in {"gc", "cleanup"}))

\* A server that goes on running has all its rules in the kernel again some time after the
\* tools have finished (returnPathWatchdog).
Heals ==
  <>[](part = "kernel" /\ server = "up") => <>[](part = "kernel" => Kernel!AllInPlace)

\* Once the CA answers and the users are quiet, every certificate that is to be renewed is,
\* unless it was ordered by hand (certmanager.Service.CheckAndRenewAll).
DueIsRenewed ==
  <>[](part = "certs" /\ calm) =>
    <>[](part = "certs" => \A c \in {c1, c2} : Certs!IsDue(c) => certs[c].source = "hand")

\* The pump never keeps packets in its batch for good, as long as a client is there that
\* answers heartbeats (tunnelapp.go, the batched read loop).
HeldIsWritten ==
  \A c \in {a1, a2} :
    <>[](part = "plane" /\ c \in online) => []<>(part = "plane" => batch = <<>>)
=============================================================================
