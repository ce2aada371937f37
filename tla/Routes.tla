------------------------------- MODULE Routes -------------------------------
(***************************************************************************)
(* app/cmd/client/routes.go with the pushes of internal/tunnelapp: the     *)
(* host routes that take a backend's replies back into the tunnel.         *)
(*                                                                         *)
(* The first packet of a player makes an entry; a goroutine runs route.exe *)
(* and writes the packets that were buffered meanwhile; another removes    *)
(* the routes that have been idle for their grace.  The pump of packets    *)
(* takes m.mu only to buffer, so that an entry may be touched at any point *)
(* of an installation or a removal.  The server tells of the players that  *)
(* are on and of those that left, over a network that loses and reorders.  *)
(***************************************************************************)
EXTENDS Integers, Sequences, FiniteSets, FiniteSetsExt

CONSTANTS Addrs,         \* players' addresses, all eligible
          Flaky,         \* those for which route.exe may fail
          MaxRoutes,     \* maxReturnRoutes
          RemoveQueue,   \* removeQueue
          PendingCap,    \* installPendingCap
          DeleteTries,   \* routeDeleteTries
          None

\* An entry of the table.
RouteState == [installing : BOOLEAN, removing : BOOLEAN, due : BOOLEAN, later : BOOLEAN,
               fails : 0..DeleteTries, pending : 0..PendingCap]

ASSUME RoutesAssumption ==
  /\ IsFiniteSet(Addrs) /\ Flaky \subseteq Addrs
  /\ None \notin Addrs \cup RouteState
  /\ MaxRoutes \in Nat \ {0} /\ RemoveQueue \in Nat \ {0}
  /\ PendingCap \in Nat /\ DeleteTries \in Nat \ {0}

VARIABLES
  states,     \* m.states
  route,      \* addresses with a route in the system
  pump,       \* deliverInbound under way
  installer,  \* installLoop: what is due, and the address it is at
  wake,       \* installWake
  timers,     \* addresses with a retry armed
  removals,   \* m.removals
  remover,    \* processRemoval under way
  link,       \* {None} if up, else the addresses cleanup has still to remove
  on,         \* players with a session at the server
  push        \* the list of players in the network, or None

vars == <<states, route, pump, installer, wake, timers, removals, remover, link, on, push>>

IdlePump == [at |-> None, stage |-> "idle"]
IdleInstaller == [todo |-> {}, at |-> None, stage |-> "idle"]
IdleRemover == [at |-> None, stage |-> "idle"]

Init ==
  /\ states = [a \in Addrs |-> None]
  /\ route = {}
  /\ pump = IdlePump /\ installer = IdleInstaller /\ remover = IdleRemover
  /\ wake = FALSE /\ timers = {} /\ removals = <<>>
  /\ link = {None}
  /\ on = {} /\ push = None

Entries == {a \in Addrs : states[a] # None}
Up == link = {None}

\* newRouteState, as ensure registers it.
NewEntry == [installing |-> TRUE, removing |-> FALSE, due |-> FALSE, later |-> FALSE,
             fails |-> 0, pending |-> 0]

\* touch
Touch(e) == [e EXCEPT !.removing = FALSE, !.due = FALSE, !.fails = 0]

\* An entry leaves; a packet that is being delivered keeps the object.
PumpLoses(A) ==
  IF pump.at \in A THEN [pump EXCEPT !.stage = IF states[pump.at].installing THEN "lost" ELSE "pass"]
  ELSE pump

-----------------------------------------------------------------------------
(* Packets *)

\* ensure for one packet, or for the addresses of a push as far as there is room.
Ensured(A) ==
  LET new == A \ Entries IN
  \E N \in SUBSET new :
    /\ Cardinality(N) = Min({Cardinality(new), MaxRoutes - Cardinality(Entries)})
    /\ states' = [a \in Addrs |-> IF a \in N THEN NewEntry
                                 ELSE IF a \in A \cap Entries THEN Touch(states[a]) ELSE states[a]]
    /\ wake' = (wake \/ N # {})

\* deliverInbound up to its first look at installing.
Deliver(a) ==
  /\ Up /\ pump = IdlePump /\ a \in on
  /\ Ensured({a})
  /\ pump' = IF states'[a] = None THEN IdlePump ELSE [at |-> a, stage |-> "read"]
  /\ UNCHANGED <<route, installer, timers, removals, remover, link, on, push>>

\* The packet goes to the TUN device, or waits for m.mu.
Look ==
  /\ pump.stage \in {"read", "pass", "lost"}
  /\ pump' = IF pump.stage = "read" /\ states[pump.at].installing
             THEN [pump EXCEPT !.stage = "lock"] ELSE IdlePump
  /\ UNCHANGED <<states, route, installer, wake, timers, removals, remover, link, on, push>>

\* Under m.mu: the route may be there by now, or the buffer full.
Buffer ==
  /\ pump.stage = "lock"
  /\ pump' = IdlePump
  /\ states' = IF states[pump.at].installing /\ states[pump.at].pending < PendingCap
               THEN [states EXCEPT ![pump.at].pending = @ + 1] ELSE states
  /\ UNCHANGED <<route, installer, wake, timers, removals, remover, link, on, push>>

-----------------------------------------------------------------------------
(* The installer *)

Due(a) == states[a] # None /\ states[a].installing /\ ~states[a].later

\* installDue collects what is due.
Collect ==
  /\ wake /\ installer = IdleInstaller
  /\ wake' = FALSE
  /\ installer' = [IdleInstaller EXCEPT !.todo = {a \in Addrs : Due(a)}]
  /\ UNCHANGED <<states, route, pump, timers, removals, remover, link, on, push>>

\* installOne up to addRoute.
Pick(a) ==
  /\ installer.at = None /\ a \in installer.todo
  /\ installer' = IF states[a] # None /\ states[a].installing
                  THEN [todo |-> installer.todo \ {a}, at |-> a, stage |-> "add"]
                  ELSE [installer EXCEPT !.todo = @ \ {a}]
  /\ UNCHANGED <<states, route, pump, wake, timers, removals, remover, link, on, push>>

Installed == installer' = [installer EXCEPT !.at = None, !.stage = "idle"]

\* addRoute
AddRoute ==
  /\ installer.stage = "add"
  /\ \/ route' = route \cup {installer.at} /\ installer' = [installer EXCEPT !.stage = "added"]
     \/ installer.at \in Flaky /\ installer' = [installer EXCEPT !.stage = "failed"] /\ UNCHANGED route
  /\ UNCHANGED <<states, pump, wake, timers, removals, remover, link, on, push>>

\* A retry is armed and the time of it recorded.
AddFailed ==
  /\ installer.stage = "failed"
  /\ IF states[installer.at] # None
     THEN /\ states' = [states EXCEPT ![installer.at].later = TRUE]
          /\ timers' = timers \cup {installer.at}
     ELSE UNCHANGED <<states, timers>>
  /\ Installed
  /\ UNCHANGED <<route, pump, wake, removals, remover, link, on, push>>

\* The backoff ends.
Retry(a) ==
  /\ a \in timers
  /\ timers' = timers \ {a}
  /\ wake' = TRUE
  /\ states' = IF states[a] # None THEN [states EXCEPT ![a].later = FALSE] ELSE states
  /\ UNCHANGED <<route, pump, installer, removals, remover, link, on, push>>

\* The loop of installOne under m.mu: the buffer is written out until it is
\* empty.  The route of an entry that went during addRoute is an orphan.
Drain ==
  LET a == installer.at IN
  /\ installer.stage \in {"added", "drain"}
  /\ IF states[a] = None
     THEN /\ IF installer.stage = "added" THEN installer' = [installer EXCEPT !.stage = "orphan"]
                                         ELSE Installed
          /\ UNCHANGED states
     ELSE IF states[a].pending > 0
     THEN /\ states' = [states EXCEPT ![a].pending = 0]
          /\ installer' = [installer EXCEPT !.stage = "drain"]
     ELSE states' = [states EXCEPT ![a].installing = FALSE] /\ Installed
  /\ UNCHANGED <<route, pump, wake, timers, removals, remover, link, on, push>>

\* Mutant of Withdraw: the orphan stays.
WithdrawNothing ==
  /\ installer.stage = "orphan"
  /\ Installed
  /\ UNCHANGED <<states, route, pump, wake, timers, removals, remover, link, on, push>>

\* The orphan is taken back, with no lock held.
Withdraw ==
  /\ installer.stage = "orphan"
  /\ Installed
  /\ \/ route' = route \ {installer.at}
     \/ installer.at \in Flaky /\ UNCHANGED route
  /\ UNCHANGED <<states, pump, wake, timers, removals, remover, link, on, push>>

-----------------------------------------------------------------------------
(* Removal *)

\* The grace of an entry ends.  route.exe takes a fraction of it, so that no
\* entry ages while it runs for it; of those installing only one that failed does.
FallDue(a) ==
  /\ states[a] # None /\ ~states[a].due
  /\ (states[a].installing => states[a].later) /\ remover.at # a
  /\ states' = [states EXCEPT ![a].due = TRUE]
  /\ UNCHANGED <<route, pump, installer, wake, timers, removals, remover, link, on, push>>

\* prune for one address: a full queue leaves it to the next round.
Prune(a) ==
  /\ states[a] # None /\ states[a].due /\ ~states[a].removing
  /\ Len(removals) < RemoveQueue
  /\ states' = [states EXCEPT ![a].removing = TRUE]
  /\ removals' = Append(removals, a)
  /\ UNCHANGED <<route, pump, installer, wake, timers, remover, link, on, push>>

\* processRemoval up to delRoute; an entry that was touched stays.
BeginRemoval ==
  /\ remover = IdleRemover /\ removals # <<>>
  /\ removals' = Tail(removals)
  /\ LET a == Head(removals) IN
     remover' = IF states[a] # None /\ states[a].removing THEN [at |-> a, stage |-> "delete"]
                ELSE IdleRemover
  /\ UNCHANGED <<states, route, pump, installer, wake, timers, link, on, push>>

\* delRoute: a route that is not there is as good as removed.
DelRoute ==
  /\ remover.stage = "delete"
  /\ \/ route' = route \ {remover.at} /\ remover' = [remover EXCEPT !.stage = "deleted"]
     \/ remover.at \in Flaky /\ remover' = [remover EXCEPT !.stage = "failed"] /\ UNCHANGED route
  /\ UNCHANGED <<states, pump, installer, wake, timers, removals, link, on, push>>

\* Mutant of Removed: an entry that was touched keeps its state.
RemovedKeeps ==
  LET a == remover.at IN
  /\ remover.stage = "deleted"
  /\ remover' = IdleRemover
  /\ IF states[a] # None /\ ~states[a].removing
     THEN UNCHANGED <<states, wake, pump>>
     ELSE /\ states' = [states EXCEPT ![a] = None]
          /\ pump' = PumpLoses({a})
          /\ UNCHANGED wake
  /\ UNCHANGED <<route, installer, timers, removals, link, on, push>>

\* The end of processRemoval once the route is gone: an entry that was touched
\* meanwhile goes back to the installer.
Removed ==
  LET a == remover.at IN
  /\ remover.stage = "deleted"
  /\ remover' = IdleRemover
  /\ IF states[a] # None /\ ~states[a].removing
     THEN /\ states' = [states EXCEPT ![a].installing = TRUE, ![a].later = FALSE]
          /\ wake' = TRUE
          /\ UNCHANGED pump
     ELSE /\ states' = [states EXCEPT ![a] = None]
          /\ pump' = PumpLoses({a})
          /\ UNCHANGED wake
  /\ UNCHANGED <<route, installer, timers, removals, link, on, push>>

\* If it is still there: an entry that was touched has its route and its packets
\* are written; the others are tried again, and given up after some tries.
RemovalFailed ==
  LET a == remover.at IN
  /\ remover.stage = "failed"
  /\ remover' = IdleRemover
  /\ IF states[a] = None THEN UNCHANGED <<states, pump>>
     ELSE IF ~states[a].removing
     THEN /\ states' = [states EXCEPT ![a].installing = FALSE, ![a].pending = 0]
          /\ UNCHANGED pump
     ELSE IF states[a].fails + 1 >= DeleteTries
     THEN states' = [states EXCEPT ![a] = None] /\ pump' = PumpLoses({a})
     ELSE /\ states' = [states EXCEPT ![a].fails = @ + 1, ![a].removing = FALSE]
          /\ UNCHANGED pump
  /\ UNCHANGED <<route, installer, wake, timers, removals, link, on, push>>

-----------------------------------------------------------------------------
(* The connection *)

\* pump returns in run: cleanup empties the table, then removes the routes.
Disconnect ==
  /\ Up /\ pump = IdlePump
  /\ states' = [a \in Addrs |-> None]
  /\ link' = Entries
  /\ push' = None
  /\ UNCHANGED <<route, pump, installer, wake, timers, removals, remover, on>>

CleanUp(a) ==
  /\ ~Up /\ a \in link
  /\ link' = link \ {a}
  /\ \/ route' = route \ {a}
     \/ a \in Flaky /\ UNCHANGED route
  /\ UNCHANGED <<states, pump, installer, wake, timers, removals, remover, on, push>>

\* Timing assumed: a handshake, after a route.exe for each entry, outlasts one
\* deletion and the writing of one buffer that were under way before it.
Connect ==
  /\ link = {} /\ installer.stage \notin {"added", "drain"} /\ remover = IdleRemover
  /\ link' = {None}
  /\ UNCHANGED <<states, route, pump, installer, wake, timers, removals, remover, on, push>>

\* The process is killed and another starts: sweepStaleRoutes removes what the
\* first has left in the system.
Restart ==
  /\ states' = [a \in Addrs |-> None]
  /\ pump' = IdlePump /\ installer' = IdleInstaller /\ remover' = IdleRemover
  /\ wake' = FALSE /\ timers' = {} /\ removals' = <<>>
  /\ link' = {None} /\ push' = None
  /\ route' \in SUBSET (route \cap Flaky)
  /\ UNCHANGED on

-----------------------------------------------------------------------------
(* The server *)

Join(a) ==
  /\ a \notin on
  /\ on' = on \cup {a}
  /\ UNCHANGED <<states, route, pump, installer, wake, timers, removals, remover, link, push>>

Leave(a) ==
  /\ a \in on /\ pump.at # a
  /\ on' = on \ {a}
  /\ UNCHANGED <<states, route, pump, installer, wake, timers, removals, remover, link, push>>

\* A round of pushSessionIPs; nothing is sent of nobody.
Push ==
  /\ Up /\ on # {} /\ push = None
  /\ push' = on
  /\ UNCHANGED <<states, route, pump, installer, wake, timers, removals, remover, link, on>>

Lose ==
  /\ push # None
  /\ push' = None
  /\ UNCHANGED <<states, route, pump, installer, wake, timers, removals, remover, link, on>>

\* sync, in the goroutine of the pump.
Sync ==
  /\ Up /\ push # None /\ pump = IdlePump
  /\ Ensured(push)
  /\ push' = None
  /\ UNCHANGED <<route, pump, installer, timers, removals, remover, link, on>>

-----------------------------------------------------------------------------
Install == Collect \/ AddRoute \/ AddFailed \/ Drain \/ Withdraw \/ \E a \in Addrs : Pick(a)
Remove == BeginRemoval \/ DelRoute \/ Removed \/ RemovalFailed

Next ==
  \/ \E a \in Addrs : Deliver(a) \/ Retry(a) \/ FallDue(a) \/ Prune(a) \/ CleanUp(a) \/ Join(a) \/ Leave(a)
  \/ Look \/ Buffer \/ Install \/ Remove
  \/ Disconnect \/ Connect \/ Restart \/ Push \/ Lose \/ Sync

\* Goroutines run, timers fire, and a grace ends for an address that is silent.
Fairness ==
  /\ WF_vars(Install) /\ WF_vars(Remove) /\ WF_vars(Look \/ Buffer)
  /\ \A a \in Addrs : WF_vars(Retry(a)) /\ WF_vars(FallDue(a)) /\ WF_vars(CleanUp(a)) /\ SF_vars(Prune(a))
  /\ WF_vars(Connect) /\ WF_vars(Lose \/ Sync)

Spec == Init /\ [][Next]_vars /\ Fairness

-----------------------------------------------------------------------------
Leaving(a) == states[a].removing \/ remover.at = a

\* Where route.exe does not fail, a player whose entry is settled has the route
\* that takes the replies back, whatever was touched while a removal, a
\* reconnection or an installation was under way.
StablePlayersKeepRoutes ==
  \A a \in Entries \ Flaky : ~states[a].installing /\ ~Leaving(a) => a \in route

\* What processRemoval says of the entries it keeps, route.exe failing or not.
PlayersKeepRoutes ==
  \A a \in Entries : ~states[a].installing /\ ~Leaving(a) => a \in route

\* A packet waits only for a route that somebody will install: the installer is
\* awake, at work on it, or has a timer that wakes it.
BufferedIsHandled ==
  \A a \in Entries : states[a].pending > 0 =>
    /\ states[a].installing
    /\ wake \/ a \in installer.todo \/ installer.at = a \/ a \in timers

\* The route of a player who left and stays away goes in the end: it would take
\* the replies to his direct connections into the tunnel.
LeftRoutesEnd ==
  \A a \in Addrs \ Flaky : <>[](a \notin on) => []<>(a \notin route)

TypeOK ==
  /\ states \in [Addrs -> RouteState \cup {None}]
  /\ Cardinality(Entries) <= MaxRoutes /\ Len(removals) <= RemoveQueue
  /\ route \cup timers \cup on \subseteq Addrs

\* A player whose entry is settled has his route, and packets wait only for a route that somebody
\* will install, whatever installer, remover, timers and disconnects overlap (routes.go).
PlayersAreServed == TypeOK /\ StablePlayersKeepRoutes /\ BufferedIsHandled

=============================================================================
