---------------------------- MODULE TunnelPlane ----------------------------
(***************************************************************************)
(* The two pumps of the tunnel server (internal/tunnelapp/tunnelapp.go,    *)
(* udpio.go, gso.go, pkg/tunnet/tunnet.go).                                *)
(*                                                                         *)
(* One goroutine reads datagrams of the clients, as many as one system     *)
(* call returns, opens them and collects what may pass in a batch for the  *)
(* TUN device; the other reads packets from the device and collects sealed *)
(* datagrams for the clients.  The kernel between them hands a packet to   *)
(* the transparent socket of a player, to a service of the relay, or back  *)
(* to the device: the rules of ReturnPath that forbid the last two are     *)
(* taken to be missing, as they are after a tool has emptied the tables.   *)
(*                                                                         *)
(* The address of a client in the tunnel is the client itself.  Sealing is *)
(* taken to be good: a client's packets are by this client (SecureChannel).*)
(***************************************************************************)
EXTENDS Integers, Sequences, FiniteSets, SequencesExt

CONSTANTS Clients, Players, Gateway, Unused, \* addresses: in the tunnel all but the Players
          Datagrams,      \* what may come from the network: [from, kind, packets]
          BatchSize,      \* udpBatch: 64 in the code
          Link, Fec,      \* MTU of the way out, and whether parity is sent
          MaxMTU, MinMTU, SealOverhead, IPOverhead, FECOverhead, \* pkg/tunnel/protocol.go
          Burst,          \* gsoMaxBurst
          SocketSize,     \* bound: datagrams that wait in the kernel
          MaxIn, MaxOut   \* bounds: so many datagrams of the network but heartbeats, packets of
                          \* the relay, and clients that come and go; of the relay MaxOut

Addresses == Clients \cup Players \cup {Gateway, Unused}

\* Of the constants; assumed where an instance is made.
PlaneAssumption ==
  /\ {BatchSize, Link, MaxMTU, MinMTU, SealOverhead, IPOverhead, FECOverhead} \subseteq Nat
  /\ SealOverhead > 0 /\ MinMTU + FECOverhead <= MaxMTU /\ Fec \in BOOLEAN
  /\ Gateway \notin Clients
  /\ \A d \in Datagrams :
       d.packets \in Seq([by : {d.from}, src : Addresses, dst : Addresses, syn : BOOLEAN, len : Nat])

VARIABLES
  online,   \* clients with a session (TunnelServer decides)
  socket,   \* datagrams that the kernel has received
  chunk,    \* those of the last read that are still to be handled
  batch,    \* packets for the device
  device,   \* packets that the kernel has sent to the device
  writer,   \* messages for the clients, each a run of datagrams of one length
  heard,    \* packets that players' sockets and the relay's services have got
  sent,     \* packets whose datagrams have gone to clients
  events

vars == <<online, socket, chunk, batch, device, writer, heard, sent, events>>

Min2(a, b) == IF a < b THEN a ELSE b

\* The elements of s that are in A.
Chosen(s, A) ==
  LET pick[n \in 0..Len(s)] ==
        IF n = 0 THEN <<>> ELSE IF s[n] \in A THEN Append(pick[n - 1], s[n]) ELSE pick[n - 1]
  IN pick[Len(s)]

\* negotiateTunMTU and ClampTunMTU: with less than the minimum left it falls back to the maximum.
Parity == IF Fec THEN FECOverhead ELSE 0
TunMTU ==
  LET mtu == Min2(MaxMTU, Link - SealOverhead - IPOverhead) - Parity IN
  IF mtu \in MinMTU..MaxMTU THEN mtu ELSE MaxMTU

-----------------------------------------------------------------------------
(* From the clients *)

\* isTunnelInternal.
Internal(a) == a \in Clients \cup {Gateway, Unused}

\* Mutant of Passes: the source is not looked at.
PassesAnySource(c, p) == ~Internal(p.dst) \/ (p.dst = Gateway /\ ~p.syn)

\* deliverInbound: the source is the session's own address; inside the tunnel only the gateway
\* can be reached, and not to open a connection (allowReturnToGateway).
Passes(c, p) == p.src = c /\ (Internal(p.dst) => p.dst = Gateway /\ ~p.syn)

\* The kernel's part, with empty tables.  What comes back to the device is to be forwarded.
Deliver(ps) ==
  /\ heard' = heard \cup {p \in ToSet(ps) : p.dst \in Players \cup {Gateway}}
  /\ device' = device \o Chosen(ps, {p \in ToSet(ps) : p.dst \in Clients})

\* Batch.Next and Batch.Commit: the slots of a batch are filled in order.
Full(b) == Len(b) = BatchSize
Commit(b, p) == Append(b, p)

\* The packets of one datagram go into the batch one by one; a full batch is written first.
\* Yields what has been written and what is in the batch.
Slot(acc) == IF Full(acc.batch) THEN [out |-> acc.out \o acc.batch, batch |-> <<>>] ELSE acc
Committed(c, d) ==
  LET put[n \in 0..Len(d.packets)] ==
        IF n = 0 THEN [out |-> <<>>, batch |-> batch]
        ELSE IF Passes(c, d.packets[n])
             THEN [Slot(put[n - 1]) EXCEPT !.batch = Commit(@, d.packets[n])]
             ELSE Slot(put[n - 1])
  IN put[Len(d.packets)]

\* What the network brings; a full socket loses it.
Arrive(d) ==
  /\ events < MaxIn /\ Len(socket) < SocketSize
  /\ socket' = Append(socket, d)
  /\ events' = events + 1
  /\ UNCHANGED <<online, chunk, batch, device, writer, heard, sent>>

\* A client answers the server's heartbeat.  (Bound: heartbeats are seconds apart, and only
\* answers that find the pump waiting are looked at.)
Pong(c) ==
  /\ c \in online /\ socket = <<>> /\ chunk = <<>>
  /\ socket' = Append(socket, [from |-> c, kind |-> "pong", packets |-> <<>>])
  /\ UNCHANGED <<online, chunk, batch, device, writer, heard, sent, events>>

\* recvmmsg; datagrams without content are skipped inside the reader.
ReadBatch ==
  /\ chunk = <<>> /\ socket # <<>>
  /\ LET n == Min2(BatchSize, Len(socket)) IN
     /\ chunk' = Chosen(SubSeq(socket, 1, n), {d \in ToSet(socket) : d.kind # "empty"})
     /\ socket' = SubSeq(socket, n + 1, Len(socket))
  /\ UNCHANGED <<online, batch, device, writer, heard, sent, events>>

\* loop: a Hello is queued for the worker, a datagram of an unknown address is dropped.
SkipDatagram ==
  /\ chunk # <<>> /\ (Head(chunk).kind = "hello" \/ Head(chunk).from \notin online)
  /\ chunk' = Tail(chunk)
  /\ UNCHANGED <<online, socket, batch, device, writer, heard, sent, events>>

\* Mutant of FlushNow: only data makes the pump write.
FlushNowData(d) == Tail(chunk) = <<>> /\ d.kind = "data"

\* When the datagram of a session was the last that the system call returned.
FlushNow(d) == Tail(chunk) = <<>>

\* loop and handleSessionPacket: "data" has one packet, "fec" those that parity brings back.
HandleDatagram ==
  /\ chunk # <<>> /\ Head(chunk).kind # "hello" /\ Head(chunk).from \in online
  /\ chunk' = Tail(chunk)
  /\ LET d == Head(chunk) r == Committed(d.from, d) IN
     IF FlushNow(d) THEN Deliver(r.out \o r.batch) /\ batch' = <<>>
     ELSE Deliver(r.out) /\ batch' = r.batch
  /\ UNCHANGED <<online, socket, writer, sent, events>>

-----------------------------------------------------------------------------
(* To the clients *)

\* batchWriter.add and segRun.canAppend: all segments of a message but the last one have the
\* same length.
CanAppend(m, to, n) ==
  /\ m.to = to /\ ~m.closed /\ m.total + n <= Burst
  /\ n <= (IF m.seg = 0 THEN m.total ELSE m.seg)

\* segRun.append.
Extended(m, n, p) ==
  LET seg == IF m.seg = 0 THEN m.total ELSE m.seg IN
  [m EXCEPT !.total = @ + n, !.seg = seg, !.closed = n < seg, !.added = Append(@, n), !.packets = @ \cup p]

\* enqueue: a full writer is flushed first.  Yields what goes out and what stays.
Enqueue(acc, to, n, p) ==
  LET w == acc.writer IN
  IF w # <<>> /\ CanAppend(Last(w), to, n)
  THEN [acc EXCEPT !.writer = Append(Front(w), Extended(Last(w), n, p))]
  ELSE LET m == [to |-> to, total |-> n, seg |-> 0, closed |-> FALSE, added |-> <<n>>, packets |-> p] IN
       IF Len(w) < BatchSize THEN [acc EXCEPT !.writer = Append(w, m)]
       ELSE [out |-> acc.out \o w, writer |-> <<m>>]

\* forwardOutbound: the packet goes to the session of its destination, unless it comes from
\* inside the tunnel or is too long; a copy of the parity of its group may follow.
Forwarded(p, parity) ==
  IF \/ p.dst \notin online
     \/ Internal(p.src) /\ p.src # Gateway
     \/ p.len > TunMTU
  THEN [out |-> <<>>, writer |-> writer]
  ELSE LET a == Enqueue([out |-> <<>>, writer |-> writer], p.dst, p.len + SealOverhead, {p})
       IN IF parity THEN Enqueue(a, p.dst, p.len + SealOverhead + FECOverhead, {}) ELSE a

\* sendmmsg sends a first part of the messages; the rest is dropped.
Flush(ms) == \E n \in 0..Len(ms) :
  sent' = sent \cup UNION {{[to |-> m.to, packet |-> p] : p \in m.packets} : m \in ToSet(SubSeq(ms, 1, n))}

\* Players and the relay itself send to back ends.
Emit(src, dst, len) ==
  /\ events < MaxOut
  /\ device' = Append(device, [by |-> Gateway, src |-> src, dst |-> dst, len |-> len, syn |-> FALSE])
  /\ events' = events + 1
  /\ UNCHANGED <<online, socket, chunk, batch, writer, heard, sent>>

\* ReadPacket and Buffered: one system call may return several packets, which are then taken
\* one by one; more is set if there are others left of it.
ReadPacket(more) ==
  /\ device # <<>> /\ (more => Len(device) > 1)
  /\ device' = Tail(device)

\* pumpTunToClient: the writer is flushed when nothing more has been read.
HandlePacket(parity, more) ==
  /\ ReadPacket(more) /\ (parity => Fec)
  /\ LET r == Forwarded(Head(device), parity) IN
     IF more THEN writer' = r.writer /\ Flush(r.out)
     ELSE writer' = <<>> /\ Flush(r.out \o r.writer)
  /\ UNCHANGED <<online, socket, chunk, batch, heard, events>>

-----------------------------------------------------------------------------
Join(c) ==
  /\ c \notin online /\ events < MaxIn
  /\ online' = online \cup {c} /\ events' = events + 1
  /\ UNCHANGED <<socket, chunk, batch, device, writer, heard, sent>>
Leave(c) ==
  /\ c \in online /\ events < MaxIn
  /\ online' = online \ {c} /\ events' = events + 1
  /\ UNCHANGED <<socket, chunk, batch, device, writer, heard, sent>>

Init ==
  /\ online = Clients /\ socket = <<>> /\ chunk = <<>> /\ batch = <<>> /\ device = <<>>
  /\ writer = <<>> /\ heard = {} /\ sent = {} /\ events = 0

Next ==
  \/ \E d \in Datagrams : Arrive(d)
  \/ \E c \in Clients : Pong(c) \/ Join(c) \/ Leave(c)
  \/ ReadBatch \/ SkipDatagram \/ HandleDatagram
  \/ \E src \in Players, dst \in Clients, len \in {1, TunMTU, TunMTU + 1} : Emit(src, dst, len)
  \/ \E dst \in Clients : Emit(Gateway, dst, 1)
  \/ \E parity, more \in BOOLEAN : HandlePacket(parity, more)

\* Both pumps run, and clients answer heartbeats as long as they are there.
Fairness ==
  /\ WF_vars(ReadBatch) /\ WF_vars(SkipDatagram) /\ WF_vars(HandleDatagram)
  /\ \A c \in Clients : SF_vars(Pong(c))

Spec == Init /\ [][Next]_vars /\ Fairness

-----------------------------------------------------------------------------
(* Properties *)

\* What a player's socket hears from a back end was sent by the client with this back end, and
\* not by another one that uses its address: answers of two users are never mixed up.
AnswersComeFromOwner == \A p \in heard : p.by = p.src

\* No client reaches another one, not even while the kernel's tables are empty: what goes to a
\* client comes from a player or the relay and is addressed to it; and no connection is opened
\* to the relay through the tunnel.
ClientsAreApart ==
  /\ \A s \in sent : s.packet.by \notin Clients /\ s.packet.dst = s.to
  /\ \A p \in heard : p.dst = Gateway => ~p.syn

\* However the writer merges datagrams, the kernel cuts its messages where they were joined,
\* and none of them, parity included, is longer than the way out can take in one piece, if it can
\* take the smallest that is negotiated.
Cut(m) ==
  IF m.seg = 0 \/ m.total <= m.seg THEN <<m.total>>
  ELSE LET n == m.total \div m.seg rest == m.total % m.seg IN
       [i \in 1..n |-> m.seg] \o (IF rest = 0 THEN <<>> ELSE <<rest>>)
DatagramsArriveWhole ==
  \A i \in DOMAIN writer :
    /\ Cut(writer[i]) = writer[i].added
    /\ MinMTU + Parity + SealOverhead + IPOverhead <= Link =>
         \A k \in DOMAIN writer[i].added : writer[i].added[k] + IPOverhead <= Link

\* What the pump has put into the batch is written some time, as long as a client is there
\* that answers heartbeats.
HeldIsWritten == \A c \in Clients : <>[](c \in online) => [](batch # <<>> => <>(batch = <<>>))

\* "The batch is flushed when everything has been consumed that the kernel can give": the pump
\* never waits for the network with packets in its hands.
DrainedIsWritten == chunk = <<>> => batch = <<>>
=============================================================================
