------------------------------ MODULE Traffic ------------------------------
(***************************************************************************)
(* Parts that carry packets and streams and share no state in the models:  *)
(* the sealed channel of a tunnel, and the two parts of NetherNet.  A      *)
(* behaviour is one of one part, with the variables of its module; those   *)
(* of the others are None.                                                 *)
(***************************************************************************)
EXTENDS SecureChannel

CONSTANTS Clients, Ufrags, Answers, Ids, SignalPort, MaxJoins, MaxPackets,  \* of NetherNet
          MaxGateways, Calls, Bytes, Other,                                 \* of Gateway
          None

VARIABLES part,
          up, join, told, sess, sessions, addrMap, bound, reader, packets, panel, infos,
          dual, gw, server, down, port, call, sent, wire, prefix, given, got

NetherNet == INSTANCE NetherNet
Gateway == INSTANCE Gateway

ASSUME TrafficAssumption ==
  /\ ChannelAssumption
  /\ NetherNet!NetherNetAssumption
  /\ Gateway!GatewayAssumption

netherNetVars == <<up, join, told, sess, sessions, addrMap, bound, reader, packets, panel, infos>>
gatewayVars == <<dual, gw, server, down, port, call, sent, wire, prefix, given, got>>
trafficVars == <<part, vars, netherNetVars, gatewayVars>>

ChannelUnused ==
  /\ sendCtr = None /\ members = None /\ network = None /\ window = None /\ slots = None
  /\ pending = None /\ recovered = None /\ draining = None /\ delivered = None
NetherNetUnused ==
  /\ up = None /\ join = None /\ told = None /\ sess = None /\ sessions = None /\ addrMap = None
  /\ bound = None /\ reader = None /\ packets = None /\ panel = None /\ infos = None
GatewayUnused ==
  /\ dual = None /\ gw = None /\ server = None /\ down = None /\ port = None /\ call = None
  /\ sent = None /\ wire = None /\ prefix = None /\ given = None /\ got = None

TrafficInit ==
  \/ part = "channel" /\ Init /\ NetherNetUnused /\ GatewayUnused
  \/ part = "nethernet" /\ NetherNet!Init /\ ChannelUnused /\ GatewayUnused
  \/ part = "gateway" /\ Gateway!Init /\ ChannelUnused /\ NetherNetUnused

ChannelMoves == part = "channel" /\ Next /\ UNCHANGED <<part, netherNetVars, gatewayVars>>
NetherNetMoves == part = "nethernet" /\ NetherNet!Next /\ UNCHANGED <<part, vars, gatewayVars>>
GatewayMoves == part = "gateway" /\ Gateway!Next /\ UNCHANGED <<part, vars, netherNetVars>>

TrafficNext == ChannelMoves \/ NetherNetMoves \/ GatewayMoves

TrafficSpec == TrafficInit /\ [][TrafficNext]_trafficVars

-----------------------------------------------------------------------------
(* Properties *)

\* No packet is taken twice, and a rebuilt box is the one that was sealed although its slots
\* come round (tunnel/session.go acceptCounter, tunnel/fec.go tryRecover).
SealedArrivesOnce == part = "channel" => DeliveredOnce /\ RebuiltAsSealed

\* The ring of bits of a session is the filter that its comment promises, for packets that come
\* by themselves and for those that are rebuilt (tunnel/session.go acceptCounter), and a step
\* that caches a box or notes a group rebuilds what it can (tunnel/fec.go addGroup, cacheBox).
ChannelImplementsFilter ==
  /\ part = "channel" => Filter!Init
  /\ [][part = "channel" =>
          /\ Filter!Next \/ UNCHANGED Filter!vars
          /\ GroupsAreTried]_trafficVars

\* A NetherNet session is listed once, its addresses are its own, and an answer given to a
\* client leads to this gateway (nethernet/multiplexer.go).
NetherNetLeadsHome ==
  part = "nethernet" =>
    NetherNet!PanelIsPaired /\ NetherNet!AddressesAreFree /\ NetherNet!AnswersLeadHere

\* A stopped gateway serves nobody and in dual mode has let go of the port; a connection whose
\* first byte was sniffed reaches its server whole (nethernet/gateway.go).
GatewaysLetGo == part = "gateway" => Gateway!StoppedLetsGo /\ Gateway!StreamsArriveWhole
=============================================================================
