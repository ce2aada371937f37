---------------------------- MODULE TupleRegistry ----------------------------
(***************************************************************************)
(* internal/forward/tuple_registry.go: the machine-wide registry of        *)
(* transparent sockets bound to player tuples.  acquire looks the tuple up *)
(* under r.mu, waits for a bind in progress, or places a "creating" entry  *)
(* and binds with the lock released; release drops the last reference;     *)
(* every published entry has one dispatcher goroutine reading its socket.  *)
(*                                                                         *)
(* A step is what one goroutine does inside one critical section of r.mu,  *)
(* or one system call outside it.  Each element of Sessions is one call of *)
(* acquire with the session life that follows; a call places at most one   *)
(* entry, so the entry that s places is named s.                           *)
(***************************************************************************)
EXTENDS Naturals, FiniteSets

CONSTANTS Sessions,      \* calls of acquire
          Keys,          \* player tuples (IP:port)
          Backends,      \* rule targets, the sources of return packets
          KeyOf,         \* the player tuple of each session
          BackendOf,     \* the target of each session's rule
          NoEntry,       \* absent from the map
          SocketsMayDie  \* may a read fail with something else than ErrClosed

ASSUME RegistryAssumption ==
  /\ IsFiniteSet(Sessions)
  /\ NoEntry \notin Sessions
  /\ KeyOf \in [Sessions -> Keys]
  /\ BackendOf \in [Sessions -> Backends]
  /\ SocketsMayDie \in BOOLEAN

VARIABLES
  entries,     \* r.entries: the entry in the map for each tuple
  closed,      \* r.closed
  phase,       \* of an entry: creating flag and ready channel together
  fd,          \* of an entry: its socket, as the kernel sees it
  refs,        \* of an entry: reference count
  subs,        \* of an entry: the sessions subscribed to return packets
  dispatcher,  \* of an entry: its read loop
  pending,     \* of an entry: subscribers the packet being delivered still goes to
  pc,          \* of a session: where its goroutine is
  on           \* of a session: the entry it waits on, creates or holds

entryVars == <<phase, fd, refs, subs, dispatcher, pending>>
vars == <<entries, closed, entryVars, pc, on>>

Phases == {"absent", "creating", "failed", "live"}
Creating == {"binding", "bound", "bindFailed"}
Stages == Creating \cup {"idle", "lookup", "waiting", "discarding",
                         "held", "released", "failed", "ended"}

Init ==
  /\ entries = [k \in Keys |-> NoEntry]
  /\ closed = FALSE
  /\ phase = [e \in Sessions |-> "absent"]
  /\ fd = [e \in Sessions |-> "none"]
  /\ refs = [e \in Sessions |-> 0]
  /\ subs = [e \in Sessions |-> {}]
  /\ dispatcher = [e \in Sessions |-> "none"]
  /\ pending = [e \in Sessions |-> {}]
  /\ pc = [s \in Sessions |-> "idle"]
  /\ on = [s \in Sessions |-> NoEntry]

GoTo(s, stage) == pc' = [pc EXCEPT ![s] = stage]

Mapped(e) == entries[KeyOf[e]] = e

\* The kernel lets one socket at a time be bound to a tuple.
TupleInUse(k) == \E e \in Sessions : KeyOf[e] = k /\ fd[e] = "open"

-----------------------------------------------------------------------------
(* acquire: one pass of its loop, from Lock to Unlock *)

Asks(s) == pc[s] \in {"idle", "lookup"}

\* Mutant of AcquireShared: the new holder is not counted.
AcquireSharedUncounted(s) ==
  LET e == entries[KeyOf[s]] IN
  /\ Asks(s) /\ e # NoEntry /\ phase[e] = "live"
  /\ on' = [on EXCEPT ![s] = e]
  /\ GoTo(s, "held")
  /\ UNCHANGED <<entries, closed, entryVars>>

AcquireShared(s) ==
  LET e == entries[KeyOf[s]] IN
  /\ Asks(s) /\ e # NoEntry
  /\ phase[e] = "live"
  /\ refs' = [refs EXCEPT ![e] = @ + 1]
  /\ on' = [on EXCEPT ![s] = e]
  /\ GoTo(s, "held")
  /\ UNCHANGED <<entries, closed, phase, fd, subs, dispatcher, pending>>

AcquireWait(s) ==
  LET e == entries[KeyOf[s]] IN
  /\ Asks(s) /\ e # NoEntry
  /\ phase[e] = "creating"
  /\ on' = [on EXCEPT ![s] = e]
  /\ GoTo(s, "waiting")
  /\ UNCHANGED <<entries, closed, entryVars>>

\* <-ready: the channel was closed when the bind settled; look up again.
Wake(s) ==
  /\ pc[s] = "waiting"
  /\ phase[on[s]] # "creating"
  /\ on' = [on EXCEPT ![s] = NoEntry]
  /\ GoTo(s, "lookup")
  /\ UNCHANGED <<entries, closed, entryVars>>

AcquireRefused(s) ==
  /\ Asks(s) /\ entries[KeyOf[s]] = NoEntry
  /\ closed
  /\ GoTo(s, "failed")
  /\ UNCHANGED <<entries, closed, entryVars, on>>

Place(s) ==
  /\ Asks(s) /\ entries[KeyOf[s]] = NoEntry
  /\ ~closed
  /\ entries' = [entries EXCEPT ![KeyOf[s]] = s]
  /\ phase' = [phase EXCEPT ![s] = "creating"]
  /\ on' = [on EXCEPT ![s] = s]
  /\ GoTo(s, "binding")
  /\ UNCHANGED <<closed, fd, refs, subs, dispatcher, pending>>

-----------------------------------------------------------------------------
(* acquire: the factory call outside the lock, and what follows it *)

BindSucceeds(s) ==
  /\ pc[s] = "binding"
  /\ ~TupleInUse(KeyOf[s])
  /\ fd' = [fd EXCEPT ![s] = "open"]
  /\ GoTo(s, "bound")
  /\ UNCHANGED <<entries, closed, phase, refs, subs, dispatcher, pending, on>>

\* EADDRINUSE, no permission, no such interface, ...
BindFails(s) ==
  /\ pc[s] = "binding"
  /\ GoTo(s, "bindFailed")
  /\ UNCHANGED <<entries, closed, entryVars, on>>

Publish(s) ==
  /\ pc[s] = "bound" /\ ~closed /\ Mapped(s)
  /\ phase' = [phase EXCEPT ![s] = "live"]
  /\ refs' = [refs EXCEPT ![s] = @ + 1]
  /\ dispatcher' = [dispatcher EXCEPT ![s] = "reading"]
  /\ GoTo(s, "held")
  /\ UNCHANGED <<entries, closed, fd, subs, pending, on>>

\* A socket that was opened for nothing is closed after the unlock.
AfterFailure(s) == GoTo(s, IF pc[s] = "bound" THEN "discarding" ELSE "failed")

\* Mutant of Withdraw: ready is not closed.
WithdrawSilently(s) ==
  /\ pc[s] \in {"bound", "bindFailed"} /\ Mapped(s)
  /\ pc[s] = "bound" => closed
  /\ entries' = [entries EXCEPT ![KeyOf[s]] = NoEntry]
  /\ on' = [on EXCEPT ![s] = NoEntry]
  /\ AfterFailure(s)
  /\ UNCHANGED <<closed, entryVars>>

Withdraw(s) ==
  /\ pc[s] \in {"bound", "bindFailed"} /\ Mapped(s)
  /\ pc[s] = "bound" => closed
  /\ entries' = [entries EXCEPT ![KeyOf[s]] = NoEntry]
  /\ phase' = [phase EXCEPT ![s] = "failed"]
  /\ on' = [on EXCEPT ![s] = NoEntry]
  /\ AfterFailure(s)
  /\ UNCHANGED <<closed, fd, refs, subs, dispatcher, pending>>

\* Close took the placeholder away while the bind was under way.
Overtaken(s) ==
  /\ pc[s] \in {"bound", "bindFailed"} /\ ~Mapped(s)
  /\ on' = [on EXCEPT ![s] = NoEntry]
  /\ AfterFailure(s)
  /\ UNCHANGED <<entries, closed, entryVars>>

Discard(s) ==
  /\ pc[s] = "discarding"
  /\ fd' = [fd EXCEPT ![s] = "closed"]
  /\ GoTo(s, "failed")
  /\ UNCHANGED <<entries, closed, phase, refs, subs, dispatcher, pending, on>>

-----------------------------------------------------------------------------
(* tupleHandle *)

Attach(s) ==
  /\ pc[s] = "held" /\ s \notin subs[on[s]]
  /\ subs' = [subs EXCEPT ![on[s]] = @ \cup {s}]
  /\ UNCHANGED <<entries, closed, phase, fd, refs, dispatcher, pending, pc, on>>

\* Mutant of Release: the socket of the last holder's entry is not closed.
ReleaseUnpaired(s) ==
  LET e == on[s] IN
  /\ pc[s] = "held"
  /\ subs' = [subs EXCEPT ![e] = @ \ {s}]
  /\ refs' = [refs EXCEPT ![e] = @ - 1]
  /\ entries' = IF refs[e] = 1 THEN [entries EXCEPT ![KeyOf[e]] = NoEntry] ELSE entries
  /\ GoTo(s, "released")
  /\ UNCHANGED <<closed, phase, fd, dispatcher, pending, on>>

\* The map slot of the key is deleted whatever entry is in it.
Release(s) ==
  LET e == on[s]
      last == refs[e] = 1
  IN
  /\ pc[s] = "held"
  /\ subs' = [subs EXCEPT ![e] = @ \ {s}]
  /\ refs' = [refs EXCEPT ![e] = @ - 1]
  /\ fd' = IF last THEN [fd EXCEPT ![e] = "closed"] ELSE fd
  /\ entries' = IF last THEN [entries EXCEPT ![KeyOf[e]] = NoEntry] ELSE entries
  /\ GoTo(s, "released")
  /\ UNCHANGED <<closed, phase, dispatcher, pending, on>>

\* A second release of the same handle finds h.released and changes nothing;
\* the session then forgets the handle.
ReleaseAgain(s) ==
  /\ pc[s] = "released"
  /\ on' = [on EXCEPT ![s] = NoEntry]
  /\ GoTo(s, "ended")
  /\ UNCHANGED <<entries, closed, entryVars>>

-----------------------------------------------------------------------------
(* dispatch, one goroutine per published entry *)

\* A packet from backend b is read; its subscribers are copied under r.mu
\* and sent to with the lock released.  Nobody subscribed: it is dropped.
Deliver(e, b) ==
  LET takers == {s \in subs[e] : BackendOf[s] = b} IN
  /\ dispatcher[e] = "reading" /\ fd[e] = "open"
  /\ takers # {}
  /\ pending' = [pending EXCEPT ![e] = takers]
  /\ dispatcher' = [dispatcher EXCEPT ![e] = "delivering"]
  /\ UNCHANGED <<entries, closed, phase, fd, refs, subs, pc, on>>

Send(e, s) ==
  /\ s \in pending[e]
  /\ pending' = [pending EXCEPT ![e] = @ \ {s}]
  /\ dispatcher' = IF pending[e] = {s}
                     THEN [dispatcher EXCEPT ![e] = "reading"] ELSE dispatcher
  /\ UNCHANGED <<entries, closed, phase, fd, refs, subs, pc, on>>

\* ReadFromUDP returns net.ErrClosed.
DispatcherExits(e) ==
  /\ dispatcher[e] = "reading" /\ fd[e] = "closed"
  /\ dispatcher' = [dispatcher EXCEPT ![e] = "done"]
  /\ UNCHANGED <<entries, closed, phase, fd, refs, subs, pending, pc, on>>

\* ReadFromUDP returns another error.
SocketDies(e) ==
  /\ SocketsMayDie
  /\ dispatcher[e] = "reading" /\ fd[e] = "open"
  /\ dispatcher' = [dispatcher EXCEPT ![e] = "dead"]
  /\ UNCHANGED <<entries, closed, phase, fd, refs, subs, pending, pc, on>>

DropDeadEntry(e) ==
  /\ dispatcher[e] = "dead"
  /\ fd' = IF Mapped(e) THEN [fd EXCEPT ![e] = "closed"] ELSE fd
  /\ entries' = IF Mapped(e) THEN [entries EXCEPT ![KeyOf[e]] = NoEntry] ELSE entries
  /\ dispatcher' = [dispatcher EXCEPT ![e] = "done"]
  /\ UNCHANGED <<closed, phase, refs, subs, pending, pc, on>>

-----------------------------------------------------------------------------
(* Close: its critical section; it then waits for the dispatchers, 3s at most *)

CloseAll ==
  /\ ~closed
  /\ closed' = TRUE
  /\ entries' = [k \in Keys |-> NoEntry]
  /\ phase' = [e \in Sessions |-> IF Mapped(e) /\ phase[e] = "creating"
                                    THEN "failed" ELSE phase[e]]
  /\ fd' = [e \in Sessions |-> IF Mapped(e) /\ phase[e] # "creating"
                                 THEN "closed" ELSE fd[e]]
  /\ UNCHANGED <<refs, subs, dispatcher, pending, pc, on>>

-----------------------------------------------------------------------------

Lookup(s) ==
  AcquireShared(s) \/ AcquireWait(s) \/ AcquireRefused(s) \/ Place(s)

Bind(s) == BindSucceeds(s) \/ BindFails(s)

Settle(s) == Publish(s) \/ Withdraw(s) \/ Overtaken(s) \/ Discard(s)

HandleStep(s) == Attach(s) \/ Release(s) \/ ReleaseAgain(s)

DispatcherStep(e) ==
  \/ \E s \in Sessions : Send(e, s)
  \/ DispatcherExits(e)
  \/ DropDeadEntry(e)

Next ==
  \/ \E s \in Sessions : Lookup(s) \/ Wake(s) \/ Bind(s) \/ Settle(s)
                           \/ HandleStep(s) \/ DispatcherStep(s)
                           \/ SocketDies(s)
  \/ \E e \in Sessions, b \in Backends : Deliver(e, b)
  \/ CloseAll

Spec == Init /\ [][Next]_vars

\* A call of acquire that has begun goes on: the scheduler runs its goroutine,
\* and bind is a system call that returns.  Dispatchers run too.  Nobody has
\* to begin a session, end one, or close the registry.
Fairness ==
  \A s \in Sessions :
    /\ WF_vars(pc[s] = "lookup" /\ Lookup(s))
    /\ WF_vars(Wake(s))
    /\ WF_vars(Bind(s))
    /\ WF_vars(Settle(s))
    /\ WF_vars(DispatcherStep(s))

FairSpec == Spec /\ Fairness

-----------------------------------------------------------------------------
(* Properties *)

TypeOK ==
  /\ entries \in [Keys -> Sessions \cup {NoEntry}]
  /\ closed \in BOOLEAN
  /\ phase \in [Sessions -> Phases]
  /\ fd \in [Sessions -> {"none", "open", "closed"}]
  /\ refs \in [Sessions -> Nat]
  /\ subs \in [Sessions -> SUBSET Sessions]
  /\ dispatcher \in [Sessions -> {"none", "reading", "delivering", "dead", "done"}]
  /\ pending \in [Sessions -> SUBSET Sessions]
  /\ pc \in [Sessions -> Stages]
  /\ on \in [Sessions -> Sessions \cup {NoEntry}]

Holders(e) == {s \in Sessions : pc[s] = "held" /\ on[s] = e}

\* "refs equals the number of live sessions holding the entry": the reference
\* count acquire and release keep never drifts, whatever calls overlap and
\* however often a handle is released.
RefsCountHolders == \A e \in Sessions : refs[e] = Cardinality(Holders(e))

\* "When an entry is removed its fd is already closed": an open socket is in
\* the map, or its creator lost the race against Close and is about to drop it.
RemovedIsClosed ==
  \A e \in Sessions : fd[e] = "open" /\ ~Mapped(e) =>
     closed /\ pc[e] \in {"bound", "discarding"}

\* No bind is attempted on a tuple the registry itself still has bound: the
\* placeholder keeps concurrent creators from meeting EADDRINUSE.
NoSelfCollision ==
  \A s \in Sessions : pc[s] = "binding" => ~TupleInUse(KeyOf[s])

\* Until the registry is closed a session that holds a binding shares the one
\* in the map, with its socket open and its return packets being read.  One
\* rule's sessions ending never takes this from another rule's sessions.
HolderIsServed ==
  \A s \in Sessions : pc[s] = "held" /\ ~closed =>
     /\ entries[KeyOf[s]] = on[s]
     /\ fd[on[s]] = "open"
     /\ dispatcher[on[s]] \in {"reading", "delivering"}

\* An open socket always has somebody left who will close it: a call of
\* acquire that has not published it yet or a session that holds it.
NoLeak ==
  \A e \in Sessions : fd[e] = "open" =>
     pc[e] \in {"bound", "discarding"} \/ refs[e] > 0

\* The ready channel of a placeholder is closed when its creation ends, by
\* success, failure or Close: only a creation under way keeps others waiting.
ReadyClosedOnceSettled ==
  \A e \in Sessions : phase[e] = "creating" => pc[e] \in Creating

\* The registry implements the abstract shared binding.
Shared == INSTANCE SharedBinding WITH
  holders <- [k \in Keys |-> {s \in Sessions : KeyOf[s] = k /\ pc[s] = "held"}],
  bound <- [k \in Keys |-> entries[k] # NoEntry /\ phase[entries[k]] = "live"],
  shut <- closed

ImplementsSharedBinding == Shared!Spec

\* Every call of acquire that has begun returns, with the binding or an error.
AcquireReturns ==
  \A s \in Sessions : pc[s] # "idle" ~> pc[s] \notin Creating \cup {"lookup", "waiting", "discarding"}

\* After Close every dispatcher ends, so that Close's wait for them ends too.
DispatchersEnd ==
  closed ~> \A e \in Sessions : dispatcher[e] \in {"none", "done"}

\* The shared socket of a player follows its holders: counted exactly, served while held, closed
\* when the last one leaves, and never bound twice (acquire, release).
SocketsFollowHolders ==
  /\ TypeOK /\ RefsCountHolders /\ HolderIsServed
  /\ RemovedIsClosed /\ NoSelfCollision /\ ReadyClosedOnceSettled

\* Nothing that a call of acquire or a Close waits for is waited for in vain.
CallsEnd == AcquireReturns /\ DispatchersEnd

=============================================================================
