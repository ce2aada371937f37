---------------------------- MODULE TcpForwarder ----------------------------
(***************************************************************************)
(* internal/forward/tcp.go: one running TCP forwarder.  An accept loop     *)
(* hands every connection to a goroutine (handleConn) that dials the       *)
(* target with retries and then copies both ways, each direction ending    *)
(* with a half-close.  Stop cancels the dials, closes the listener and the *)
(* connections tracked so far, and waits for all of them.                  *)
(*                                                                         *)
(* A connection is two sockets, <<c, "src">> to the client and             *)
(* <<c, "dst">> to the target.  The deferred calls of handleConn, each on  *)
(* state of its own, are one step (Leave).                                 *)
(***************************************************************************)
EXTENDS Naturals, FiniteSets

CONSTANTS Conns,        \* connections clients may make
          Clients,      \* client addresses (IP:port)
          ClientOf,     \* the client address of each connection
          None,
          MaxRetries    \* dial attempts after the first one

\* Of the constants; assumed where an instance is made.
TcpAssumption ==
  /\ IsFiniteSet(Conns) /\ IsFiniteSet(Clients)
  /\ None \notin Conns
  /\ ClientOf \in [Conns -> Clients]
  /\ MaxRetries \in Nat

VARIABLES
  stop,      \* how far Stop has come
  listener,  \* the listening socket
  acceptor,  \* acceptLoop
  wg,        \* f.wg: the accept loop and the handlers
  tracked,   \* f.conns
  doomed,    \* the connections closeTrackedConns copied, to be closed
  active,    \* f.activeConns
  live,      \* svc.sessions: the entry each client's key maps to
  pc,        \* of a connection: where its handler is
  tries,     \* of a connection: dial attempts that failed
  open,      \* the sockets that are open on this side
  gone,      \* the sockets whose peer has closed
  copying    \* the sockets a copy goroutine reads from

vars == <<stop, listener, acceptor, wg, tracked, doomed, active, live, pc,
          tries, open, gone, copying>>

Sockets == Conns \X {"src", "dst"}
Src(c) == <<c, "src">>
Dst(c) == <<c, "dst">>

Cancelled == stop # "running"

\* Start has succeeded.
Init ==
  /\ stop = "running" /\ listener = "open" /\ acceptor = "running"
  /\ wg = 1
  /\ tracked = {} /\ doomed = {} /\ open = {} /\ gone = {} /\ copying = {}
  /\ active = 0
  /\ live = [k \in Clients |-> None]
  /\ pc = [c \in Conns |-> "idle"]
  /\ tries = [c \in Conns |-> 0]

GoTo(c, stage) == pc' = [pc EXCEPT ![c] = stage]

loop == <<listener, acceptor>>
books == <<tracked, active, live>>

-----------------------------------------------------------------------------
(* acceptLoop *)

\* An address may connect again once it has closed its earlier connections,
\* whatever their handlers are doing.
AddressFree(c) ==
  \A d \in Conns \ {c} : ClientOf[d] = ClientOf[c] /\ pc[d] # "idle" =>
     Src(d) \in gone \/ pc[d] = "done"

\* Mutant of Accept: wg.Add is left to the handler.
AcceptUncounted(c) ==
  /\ acceptor = "running" /\ listener = "open"
  /\ pc[c] = "idle" /\ AddressFree(c)
  /\ open' = open \cup {Src(c)}
  /\ GoTo(c, "accepted")
  /\ UNCHANGED <<stop, loop, wg, books, doomed, tries, gone, copying>>

Accept(c) ==
  /\ acceptor = "running" /\ listener = "open"
  /\ pc[c] = "idle" /\ AddressFree(c)
  /\ open' = open \cup {Src(c)}
  /\ wg' = wg + 1
  /\ GoTo(c, "accepted")
  /\ UNCHANGED <<stop, loop, books, doomed, tries, gone, copying>>

AcceptorEnds ==
  /\ acceptor = "running"
  /\ acceptor' = "done"
  /\ wg' = wg - 1
  /\ UNCHANGED <<stop, listener, books, doomed, pc, tries, open, gone, copying>>

AcceptorExits == listener = "closed" /\ AcceptorEnds

\* An error of Accept that is neither temporary nor ErrClosed.
AcceptFails == listener = "open" /\ AcceptorEnds

-----------------------------------------------------------------------------
(* handleConn *)

Denied(c) ==
  /\ pc[c] = "accepted"
  /\ open' = open \ {Src(c)}
  /\ wg' = wg - 1
  /\ GoTo(c, "done")
  /\ UNCHANGED <<stop, loop, books, doomed, tries, gone, copying>>

\* The connection is entered in the live registry, then tracked.
Admit(c) ==
  LET k == ClientOf[c] IN
  /\ pc[c] = "accepted"
  /\ live' = [live EXCEPT ![k] = IF @ = None THEN c ELSE @]
  /\ GoTo(c, "admitted")
  /\ UNCHANGED <<stop, loop, wg, tracked, active, doomed, tries, open, gone, copying>>

Track(c) ==
  /\ pc[c] = "admitted"
  /\ tracked' = tracked \cup {Src(c)}
  /\ active' = active + 1
  /\ GoTo(c, "retrying")
  /\ UNCHANGED <<stop, loop, wg, live, doomed, tries, open, gone, copying>>

\* Mutant of Attempt: the dials do not get the forwarder's context.
AttemptBlind(c) ==
  /\ pc[c] = "retrying"
  /\ GoTo(c, "dialing")
  /\ UNCHANGED <<stop, loop, wg, books, doomed, tries, open, gone, copying>>

\* retry.Do looks at the context before each attempt.
Attempt(c) ==
  /\ pc[c] = "retrying"
  /\ GoTo(c, IF Cancelled THEN "leaving" ELSE "dialing")
  /\ UNCHANGED <<stop, loop, wg, books, doomed, tries, open, gone, copying>>

DialFails(c) ==
  /\ pc[c] = "dialing"
  /\ IF tries[c] = MaxRetries \/ Cancelled
       THEN GoTo(c, "leaving") /\ UNCHANGED tries
       ELSE GoTo(c, "retrying") /\ tries' = [tries EXCEPT ![c] = @ + 1]
  /\ UNCHANGED <<stop, loop, wg, books, doomed, open, gone, copying>>

DialSucceeds(c) ==
  /\ pc[c] = "dialing"
  /\ open' = open \cup {Dst(c)}
  /\ GoTo(c, "dialed")
  /\ UNCHANGED <<stop, loop, wg, books, doomed, tries, gone, copying>>

\* trackConn(dst), and the PROXY header when there is one: on a target that
\* has hung up its write may fail.
TrackTarget(c) ==
  /\ pc[c] = "dialed"
  /\ tracked' = tracked \cup {Dst(c)}
  /\ \/ copying' = copying \cup {Src(c), Dst(c)} /\ GoTo(c, "relaying")
     \/ /\ Dst(c) \in gone
        /\ GoTo(c, "leaving") /\ UNCHANGED copying
  /\ UNCHANGED <<stop, loop, wg, active, live, doomed, tries, open, gone>>

Other(s) == IF s[2] = "src" THEN Dst(s[1]) ELSE Src(s[1])

\* The goroutine reading s returns and half-closes the other socket, which
\* stays open for the other direction.
CopyStops(s) ==
  /\ s \in copying
  /\ copying' = copying \ {s}
  /\ UNCHANGED <<stop, loop, wg, books, doomed, pc, tries, open, gone>>

\* Its read returns: EOF from the peer, or the socket closed on this side.
CopyEnds(s) == (s \in gone \/ s \notin open) /\ CopyStops(s)

\* The peer of s sends something that cannot be written to the other socket.
CopyFails(s) == (Other(s) \in gone \/ Other(s) \notin open) /\ CopyStops(s)

RelayEnds(c) ==
  /\ pc[c] = "relaying"
  /\ Src(c) \notin copying /\ Dst(c) \notin copying
  /\ GoTo(c, "leaving")
  /\ UNCHANGED <<stop, loop, wg, books, doomed, tries, open, gone, copying>>

\* The deferred calls: untrack and close both sockets, count the connection
\* off, take the key off the live registry, wg.Done.
Leave(c) ==
  /\ pc[c] = "leaving"
  /\ tracked' = tracked \ {Src(c), Dst(c)}
  /\ open' = open \ {Src(c), Dst(c)}
  /\ active' = active - 1
  /\ live' = [live EXCEPT ![ClientOf[c]] = None]
  /\ wg' = wg - 1
  /\ GoTo(c, "done")
  /\ UNCHANGED <<stop, loop, doomed, tries, gone, copying>>

-----------------------------------------------------------------------------
(* The peers *)

Connected(s) == pc[s[1]] \notin {"idle", "done"} /\ (s \in open \/ s = Src(s[1]))

PeerCloses(s) ==
  /\ Connected(s) /\ s \notin gone
  /\ gone' = gone \cup {s}
  /\ UNCHANGED <<stop, loop, wg, books, doomed, pc, tries, open, copying>>

\* The peer of a socket that this side has half-closed.
HalfClosed(s) == pc[s[1]] = "relaying" /\ Other(s) \notin copying

-----------------------------------------------------------------------------
(* Stop *)

StopCancels ==
  /\ stop = "running"
  /\ stop' = "cancelled"
  /\ UNCHANGED <<loop, wg, books, doomed, pc, tries, open, gone, copying>>

StopCloses ==
  /\ stop = "cancelled"
  /\ stop' = "unlistened"
  /\ listener' = "closed"
  /\ UNCHANGED <<acceptor, wg, books, doomed, pc, tries, open, gone, copying>>

\* closeTrackedConns copies f.conns under connMu
StopCopies ==
  /\ stop = "unlistened"
  /\ stop' = "copied"
  /\ doomed' = tracked
  /\ UNCHANGED <<loop, wg, books, pc, tries, open, gone, copying>>

\* and closes them with the lock released.
StopCuts ==
  /\ stop = "copied"
  /\ stop' = "waiting"
  /\ open' = open \ doomed
  /\ doomed' = {}
  /\ UNCHANGED <<loop, wg, books, pc, tries, gone, copying>>

StopReturns ==
  /\ stop = "waiting" /\ wg = 0
  /\ stop' = "stopped"
  /\ UNCHANGED <<loop, wg, books, doomed, pc, tries, open, gone, copying>>

-----------------------------------------------------------------------------

Handle(c) ==
  \/ Denied(c) \/ Admit(c) \/ Track(c) \/ Attempt(c)
  \/ DialFails(c) \/ DialSucceeds(c) \/ TrackTarget(c)
  \/ RelayEnds(c) \/ Leave(c)

Stop == StopCancels \/ StopCloses \/ StopCopies \/ StopCuts \/ StopReturns

Next ==
  \/ \E c \in Conns : Accept(c) \/ Handle(c)
  \/ \E s \in Sockets : CopyEnds(s) \/ CopyFails(s) \/ PeerCloses(s)
  \/ AcceptorExits \/ AcceptFails
  \/ Stop

Spec == Init /\ [][Next]_vars

\* Goroutines run, and a Stop that was called goes on; nothing is asked of
\* clients and targets.
FairSpec ==
  /\ Spec
  /\ \A c \in Conns : WF_vars(Handle(c))
  /\ \A s \in Sockets : WF_vars(CopyEnds(s))
  /\ WF_vars(AcceptorExits)
  /\ WF_vars(StopCloses) /\ WF_vars(StopCopies) /\ WF_vars(StopCuts)
  /\ WF_vars(StopReturns)

\* Peers that in the end answer the end of the other side's data with theirs.
PoliteSpec ==
  /\ FairSpec
  /\ \A s \in Sockets : WF_vars(HalfClosed(s) /\ PeerCloses(s))

-----------------------------------------------------------------------------
(* Properties *)

TypeOK ==
  /\ stop \in {"running", "cancelled", "unlistened", "copied", "waiting", "stopped"}
  /\ listener \in {"open", "closed"} /\ acceptor \in {"running", "done"}
  /\ wg \in Nat /\ active \in Nat
  /\ tracked \subseteq Sockets /\ doomed \subseteq Sockets
  /\ open \subseteq Sockets /\ gone \subseteq Sockets /\ copying \subseteq Sockets
  /\ live \in [Clients -> Conns \cup {None}]
  /\ pc \in [Conns -> {"idle", "accepted", "admitted", "retrying", "dialing",
                       "dialed", "relaying", "leaving", "done"}]
  /\ tries \in [Conns -> 0..MaxRetries]

InRelay(c) == pc[c] \in {"retrying", "dialing", "dialed", "relaying", "leaving"}

\* f.activeConns, the panel's "active", counts the handlers that track a
\* connection, on every path through handleConn.
ActiveIsExact == active = Cardinality({c \in Conns : InRelay(c)})

\* Stop waits for everybody: once it has returned no handler is under way, no
\* socket is open and nothing is tracked or counted.
StoppedIsQuiet ==
  stop = "stopped" =>
    /\ \A c \in Conns : pc[c] \in {"idle", "done"}
    /\ open = {} /\ tracked = {} /\ active = 0

\* A direction that has ended does not cut the other one: until Stop comes,
\* both sockets of a relayed connection are open.
HalfCloseKeepsBoth ==
  \A c \in Conns : pc[c] = "relaying" /\ ~Cancelled => {Src(c), Dst(c)} \subseteq open

\* What Stop can close: every open socket is tracked but for those of a
\* handler between accept or dial and trackConn.
OpenIsTracked ==
  \A s \in open : \/ s \in tracked
                  \/ s = Src(s[1]) /\ pc[s[1]] \in {"accepted", "admitted"}
                  \/ s = Dst(s[1]) /\ pc[s[1]] = "dialed"

\* "Tracks currently active client sessions": every connection in relay is
\* listed under its client, and nothing else is.
PanelListsConnections ==
  \A k \in Clients :
    (live[k] # None) <=> \E c \in Conns : ClientOf[c] = k /\ (InRelay(c) \/ pc[c] = "admitted")

\* "Stop returns promptly": Stop comes back.  Under FairSpec nothing is asked
\* of the targets; under PoliteSpec they answer a half-close with their own.
StopEnds == stop = "cancelled" ~> stop = "stopped"

\* A connection both ends of which have closed is released.
DeadConnectionsEnd ==
  \A c \in Conns : {Src(c), Dst(c)} \subseteq gone ~> pc[c] = "done"

=============================================================================
