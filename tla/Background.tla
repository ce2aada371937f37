----------------------------- MODULE Background -----------------------------
(***************************************************************************)
(* The parts that work by themselves and must get somewhere: the handlers  *)
(* of a TCP forwarder, the workers that all rules share and the shutdown   *)
(* of the process, the watchdog of the kernel's rules, the renewal of      *)
(* certificates, and the packet pumps of the tunnel server.  They share no *)
(* state in the models: a behaviour is one of one part, with the variables *)
(* of its module; those of the others are None.                            *)
(***************************************************************************)
EXTENDS TcpForwarder

CONSTANTS Rules, PoolConns, RuleOf, Brief, PoolSize,                \* of WorkerPool
          Mishaps, Lives, ChainLength,                              \* of ReturnPath
          CertIds, HttpCerts, Keys, Orders, Requests, Scheduler,    \* of Certificates
          GlobalKid, Works,
          TunnelClients, Players, Gateway, Unused, Datagrams,       \* of TunnelPlane
          BatchSize, Link, Fec, MaxMTU, MinMTU, SealOverhead, IPOverhead, FECOverhead,
          Burst, SocketSize, MaxIn, MaxOut

VARIABLES part,
          capped, main, step, loops, inHand, conn, cut, rule, holder, pooled, gc,
          kernel, server, todo, watch, overlap, mishaps, lives, failed,
          certs, used, cache, heldOrders, stored, memory, bound, port80, jobs, round, calm, work,
          online, socket, chunk, batch, device, writer, heard, sent, events

Pool == INSTANCE WorkerPool WITH Conns <- PoolConns, loop <- loops, held <- inHand
Kernel == INSTANCE ReturnPath WITH main <- server
Certs == INSTANCE Certificates WITH Certs <- CertIds, held <- heldOrders
Plane == INSTANCE TunnelPlane WITH Clients <- TunnelClients

ASSUME BackgroundAssumption ==
  /\ TcpAssumption
  /\ Pool!PoolAssumption
  /\ Certs!CertificatesAssumption
  /\ Plane!PlaneAssumption

poolVars == <<capped, main, step, loops, inHand, conn, cut, rule, holder, pooled, gc>>
kernelVars == <<kernel, server, todo, watch, overlap, mishaps, lives, failed>>
certsVars == <<certs, used, cache, heldOrders, stored, memory, bound, port80, jobs, round, calm, work>>
planeVars == <<online, socket, chunk, batch, device, writer, heard, sent, events>>
backgroundVars == <<part, vars, poolVars, kernelVars, certsVars, planeVars>>

TcpUnused ==
  /\ stop = None /\ listener = None /\ acceptor = None /\ wg = None /\ tracked = None
  /\ doomed = None /\ active = None /\ live = None /\ pc = None /\ tries = None
  /\ open = None /\ gone = None /\ copying = None
PoolUnused ==
  /\ capped = None /\ main = None /\ step = None /\ loops = None /\ inHand = None /\ conn = None
  /\ cut = None /\ rule = None /\ holder = None /\ pooled = None /\ gc = None
KernelUnused ==
  /\ kernel = None /\ server = None /\ todo = None /\ watch = None /\ overlap = None /\ mishaps = None
  /\ lives = None /\ failed = None
CertsUnused ==
  /\ certs = None /\ used = None /\ cache = None /\ heldOrders = None /\ stored = None
  /\ memory = None /\ bound = None /\ port80 = None /\ jobs = None /\ round = None
  /\ calm = None /\ work = None
PlaneUnused ==
  /\ online = None /\ socket = None /\ chunk = None /\ batch = None /\ device = None
  /\ writer = None /\ heard = None /\ sent = None /\ events = None

BackgroundInit ==
  \/ part = "tcp" /\ Init /\ PoolUnused /\ KernelUnused /\ CertsUnused /\ PlaneUnused
  \/ part = "pool" /\ Pool!Init /\ TcpUnused /\ KernelUnused /\ CertsUnused /\ PlaneUnused
  \/ part = "kernel" /\ Kernel!Init /\ TcpUnused /\ PoolUnused /\ CertsUnused /\ PlaneUnused
  \/ part = "certs" /\ Certs!CertsInit /\ TcpUnused /\ PoolUnused /\ KernelUnused /\ PlaneUnused
  \/ part = "plane" /\ Plane!Init /\ TcpUnused /\ PoolUnused /\ KernelUnused /\ CertsUnused

\* A step of one part, by the action A of its module.
TcpDoes(A) == part = "tcp" /\ A /\ UNCHANGED <<part, poolVars, kernelVars, certsVars, planeVars>>
PoolDoes(A) == part = "pool" /\ A /\ UNCHANGED <<part, vars, kernelVars, certsVars, planeVars>>
KernelDoes(A) == part = "kernel" /\ A /\ UNCHANGED <<part, vars, poolVars, certsVars, planeVars>>
CertsDo(A) == part = "certs" /\ A /\ UNCHANGED <<part, vars, poolVars, kernelVars, planeVars>>
PlaneDoes(A) == part = "plane" /\ A /\ UNCHANGED <<part, vars, poolVars, kernelVars, certsVars>>

BackgroundNext ==
  \/ TcpDoes(Next) \/ PoolDoes(Pool!Next) \/ KernelDoes(Kernel!Next)
  \/ CertsDo(Certs!CertsNext) \/ PlaneDoes(Plane!Next)

BackgroundSpec == BackgroundInit /\ [][BackgroundNext]_backgroundVars

-----------------------------------------------------------------------------
(* Properties *)

\* A TCP forwarder whose Stop has returned has no socket and no handler left, until then a
\* half-closed connection keeps its other direction, and Stop finds every socket (forward/tcp.go).
ConnectionsHold ==
  part = "tcp" => TypeOK /\ StoppedIsQuiet /\ HalfCloseKeepsBoth /\ OpenIsTracked

\* The store is closed only when no handler of any rule writes to it any more, however late
\* the shutdown finds them (main.go Stop, Manager.Shutdown).
HandlersEndBeforeTheStore == part = "pool" => Pool!HandlersEndBeforeTheStore

\* The chains keep the order that the server's rules need, whatever the tools of the host empty
\* and unless the removal of a rule has failed; and a server that stops takes its rules with it
\* (tunnelapp's setup_linux.go, returnpath.go).
KernelRulesHold == part = "kernel" => Kernel!RulesInOrder /\ Kernel!StopLeavesNothing

\* A certificate's account key is the one that the CA has bound, and an order in two steps is
\* completed once, whatever requests run at once (certmanager/acme.go, manual_dns.go).
OrdersHold == part = "certs" => Certs!CertsTypeOK /\ Certs!CertKeysAreBound /\ Certs!OrderCompletedOnce

\* Answers come from the client that has the address, no client reaches another one, and
\* datagrams arrive as they were joined (tunnelapp.go, udpio).
AnswersLeadHome ==
  part = "plane" => Plane!AnswersComeFromOwner /\ Plane!ClientsAreApart /\ Plane!DatagramsArriveWhole
=============================================================================
