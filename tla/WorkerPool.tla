----------------------------- MODULE WorkerPool -----------------------------
(***************************************************************************)
(* The process: one pool of workers (pkg/pool) shared by the forwarders of *)
(* all rules and by the memory collector's loop (pkg/gc), requests of the  *)
(* panel that stop a rule, and the shutdown of main.go.  Submit blocks     *)
(* while the pool is full, and whoever stops a rule waits for its loop.    *)
(***************************************************************************)
EXTENDS Naturals, FiniteSets

CONSTANTS Rules,        \* the rules that are running
          Conns,        \* TCP connections and UDP datagrams
          RuleOf,       \* the rule each of them comes in by
          Brief,        \* those whose handler ends by itself (datagrams)
          PoolSize,     \* workers of the pool
          None

\* Of the constants; assumed where an instance is made.
PoolAssumption ==
  /\ RuleOf \in [Conns -> Rules]
  /\ Brief \subseteq Conns
  /\ PoolSize \in Nat \ {0}
  /\ IsFiniteSet(Conns)
  /\ None \notin Rules \cup Conns

VARIABLES
  capped,   \* was it started by hand: main's wait has a hard limit
  main,     \* "up", "stopping", "exited" (Stop returned), "forced" (it did not)
  step,     \* what application.Stop does next
  loop,     \* the read loop of a rule: "waits", "submits", "ended"
  held,     \* what a loop that submits has in hand
  conn,     \* "out", "held", "runs", "over"
  cut,      \* closed by the Stop of its rule
  rule,     \* "open", "closed" (Stop has closed and cut, and waits), "stopped"
  holder,   \* who has m.mu to stop a rule: "panel", "shutdown" or None
  pooled,   \* does the pool take tasks
  gc        \* the collector: its loop and whether a collection is running
vars == <<capped, main, step, loop, held, conn, cut, rule, holder, pooled, gc>>

Running == {c \in Conns : conn[c] = "runs"}
Busy == Cardinality(Running) + (IF gc.runs THEN 1 ELSE 0)

\* What Submit waits for.  After the release of the pool it makes a new one.
Accepts == ~pooled \/ Busy < PoolSize
-----------------------------------------------------------------------------
Init ==
  /\ capped \in BOOLEAN
  /\ main = "up"
  /\ step = "web"
  /\ loop = [r \in Rules |-> "waits"]
  /\ held = [r \in Rules |-> None]
  /\ conn = [c \in Conns |-> "out"]
  /\ cut = {}
  /\ rule = [r \in Rules |-> "open"]
  /\ holder = None
  /\ pooled = TRUE
  /\ gc = [on |-> TRUE, loop |-> "waits", runs |-> FALSE]

Alive == main \in {"up", "stopping"}

(* A loop takes a connection or a datagram from its socket and submits it. *)
Take(r, c) ==
  /\ Alive
  /\ rule[r] = "open" /\ loop[r] = "waits"
  /\ RuleOf[c] = r /\ conn[c] = "out"
  /\ loop' = [loop EXCEPT ![r] = "submits"]
  /\ held' = [held EXCEPT ![r] = c]
  /\ conn' = [conn EXCEPT ![c] = "held"]
  /\ UNCHANGED <<capped, main, step, cut, rule, holder, pooled, gc>>

Submit(r) ==
  /\ Alive
  /\ loop[r] = "submits" /\ Accepts
  /\ conn' = [conn EXCEPT ![held[r]] = "runs"]
  /\ loop' = [loop EXCEPT ![r] = "waits"]
  /\ held' = [held EXCEPT ![r] = None]
  /\ UNCHANGED <<capped, main, step, cut, rule, holder, pooled, gc>>

LoopEnds(r) ==
  /\ Alive
  /\ rule[r] # "open" /\ loop[r] = "waits"
  /\ loop' = [loop EXCEPT ![r] = "ended"]
  /\ UNCHANGED <<capped, main, step, held, conn, cut, rule, holder, pooled, gc>>

(* A handler ends when it was cut or its rule's context is cancelled, or   *)
(* when it has nothing more to do; a connection lasts as long as its peers *)
(* like.                                                                   *)
Ends(c) ==
  /\ Alive
  /\ conn[c] = "runs"
  /\ conn' = [conn EXCEPT ![c] = "over"]
  /\ UNCHANGED <<capped, main, step, loop, held, cut, rule, holder, pooled, gc>>
MustEnd(c) == (c \in Brief \/ c \in cut \/ rule[RuleOf[c]] # "open") /\ Ends(c)
-----------------------------------------------------------------------------
(* The Stop of a forwarder: close the socket, cut the tracked connections, *)
(* wait for the loop and the handlers.  Its caller holds m.mu throughout.  *)
StopRule(r, by) ==
  /\ Alive
  /\ holder = None /\ rule[r] = "open"
  /\ \/ by = "panel" /\ step \in {"web", "rules"}
     \/ by = "shutdown" /\ main = "stopping" /\ step = "rules"
  /\ holder' = by
  /\ rule' = [rule EXCEPT ![r] = "closed"]
  /\ cut' = cut \cup {c \in Running : RuleOf[c] = r}
  /\ UNCHANGED <<capped, main, step, loop, held, conn, pooled, gc>>

\* Mutant of Quiet: Stop does not wait for the handlers.
QuietLoop(r) == loop[r] = "ended"
Quiet(r) ==
  /\ loop[r] = "ended"
  /\ \A c \in Conns : RuleOf[c] = r => conn[c] \notin {"held", "runs"}

RuleStopped(r) ==
  /\ Alive
  /\ rule[r] = "closed" /\ Quiet(r)
  /\ rule' = [rule EXCEPT ![r] = "stopped"]
  /\ holder' = IF holder = "shutdown" /\ \E q \in Rules \ {r} : rule[q] = "open"
               THEN "shutdown" ELSE None
  /\ UNCHANGED <<capped, main, step, loop, held, conn, cut, pooled, gc>>

\* Shutdown keeps m.mu from one rule to the next.
StopNext(r) ==
  /\ Alive
  /\ holder = "shutdown" /\ rule[r] = "open"
  /\ \A q \in Rules : rule[q] # "closed"
  /\ rule' = [rule EXCEPT ![r] = "closed"]
  /\ cut' = cut \cup {c \in Running : RuleOf[c] = r}
  /\ UNCHANGED <<capped, main, step, loop, held, conn, holder, pooled, gc>>
-----------------------------------------------------------------------------
(* The collector: a ticker, a collection in the pool, a Stop that waits at *)
(* most half a second for the loop and then submits the clean-up.          *)
Tick ==
  /\ Alive
  /\ gc.on /\ gc.loop = "waits" /\ ~gc.runs
  /\ gc' = [gc EXCEPT !.loop = "submits"]
  /\ UNCHANGED <<capped, main, step, loop, held, conn, cut, rule, holder, pooled>>

Collect ==
  /\ Alive
  /\ gc.loop = "submits" /\ Accepts
  /\ gc' = [gc EXCEPT !.loop = "waits", !.runs = TRUE]
  /\ UNCHANGED <<capped, main, step, loop, held, conn, cut, rule, holder, pooled>>

\* executeGC looks at running before each try: it ends early after Stop.
Collected ==
  /\ Alive
  /\ gc.runs
  /\ gc' = [gc EXCEPT !.runs = FALSE]
  /\ UNCHANGED <<capped, main, step, loop, held, conn, cut, rule, holder, pooled>>

CollectorEnds ==
  /\ Alive
  /\ ~gc.on /\ gc.loop = "waits"
  /\ gc' = [gc EXCEPT !.loop = "ended"]
  /\ UNCHANGED <<capped, main, step, loop, held, conn, cut, rule, holder, pooled>>
-----------------------------------------------------------------------------
(* main: the signal, application.Stop in its order, and the hard limit on  *)
(* it when the program runs by hand.  The parts of Stop that wait for      *)
(* nothing of this module (certificates, login sessions, tunnel) are not   *)
(* steps of their own.                                                     *)
Signal ==
  /\ main = "up"
  /\ main' = "stopping"
  /\ UNCHANGED <<capped, step, loop, held, conn, cut, rule, holder, pooled, gc>>

\* Mutant of AfterStop: the collector is stopped before the rules.
AfterStopGcFirst ==
  [web |-> "gc", gc |-> "cleanup", cleanup |-> "rules", rules |-> "store",
   store |-> "pool", pool |-> "done"]
AfterStop ==
  [web |-> "rules", rules |-> "gc", gc |-> "cleanup", cleanup |-> "store",
   store |-> "pool", pool |-> "done"]

\* When a step of Stop is over: the web server waits ten seconds at most, the
\* manager for every rule, the collector for a worker to clean up in.
Over(s) ==
  /\ s = "rules" => holder = None /\ \A r \in Rules : rule[r] = "stopped"
  /\ s = "cleanup" => Accepts

StopStep ==
  /\ main = "stopping" /\ step # "done" /\ Over(step)
  /\ step' = AfterStop[step]
  /\ gc' = [gc EXCEPT !.on = @ /\ step # "gc"]
  /\ pooled' = (pooled /\ step # "pool")
  /\ UNCHANGED <<capped, main, loop, held, conn, cut, rule, holder>>

Exit ==
  /\ main = "stopping" /\ step = "done"
  /\ main' = "exited"
  /\ UNCHANGED <<capped, step, loop, held, conn, cut, rule, holder, pooled, gc>>

Force ==
  /\ capped /\ main = "stopping" /\ step # "done"
  /\ main' = "forced"
  /\ UNCHANGED <<capped, step, loop, held, conn, cut, rule, holder, pooled, gc>>

Next ==
  \/ \E r \in Rules, c \in Conns : Take(r, c)
  \/ \E r \in Rules : Submit(r) \/ LoopEnds(r) \/ RuleStopped(r) \/ StopNext(r)
  \/ \E c \in Conns : Ends(c)
  \/ \E r \in Rules, by \in {"panel", "shutdown"} : StopRule(r, by)
  \/ Tick \/ Collect \/ Collected \/ CollectorEnds
  \/ Signal \/ StopStep \/ Exit \/ Force

(* Goroutines run and timers fire.  Nothing is asked of the peers, no      *)
(* signal need come, and nobody need ever get a lock that others keep      *)
(* taking.                                                                 *)
Fairness ==
  /\ \A r \in Rules : WF_vars(\/ Submit(r) \/ LoopEnds(r) \/ RuleStopped(r) \/ StopNext(r)
                               \/ StopRule(r, "shutdown"))
  /\ \A c \in Conns : WF_vars(MustEnd(c))
  /\ WF_vars(Collect \/ Collected \/ CollectorEnds)
  /\ WF_vars(StopStep \/ Exit \/ Force)

Spec == Init /\ [][Next]_vars /\ Fairness
-----------------------------------------------------------------------------
(* What a handler writes on its way out still finds the store: the store   *)
(* is closed only when no connection or datagram of any rule is being      *)
(* handled (the order of application.Stop and the waits of every Stop).    *)
HandlersEndBeforeTheStore ==
  step \in {"pool", "done"} =>
    \A c \in Conns : conn[c] \notin {"held", "runs"}

(* Stopping the collector ends: by the time its clean-up asks for a worker *)
(* the rules have given theirs back, whatever the peers of their           *)
(* connections do (gc.Manager.Stop after Manager.Shutdown).                *)
CollectorStops == []<>~(main = "stopping" /\ step \in {"gc", "cleanup"})
=============================================================================
