----------------------------- MODULE TunnelLink -----------------------------
(***************************************************************************)
(* A client's tunnel from end to end: the engine of app/cmd/client         *)
(* (engine.go, run.go) that Start and Stop drive, the network, and what    *)
(* internal/tunnelapp keeps of this client.                                *)
(*                                                                         *)
(* Each hello carries a fresh ephemeral key, and an answer is verified     *)
(* against it.  A hello is "now" when it is the last of this run and "old" *)
(* when it is an earlier one; ports are "now" or "old" in the same way, and *)
(* what is sent to an old port is lost.  Answers that are not to the last  *)
(* hello are "other": to an earlier one, or to another client behind the   *)
(* same NAT.  Each accept makes a session of its own; a "live" one is of   *)
(* the session the server has now.                                         *)
(***************************************************************************)
EXTENDS Integers, FiniteSets

CONSTANTS Tries,      \* handshakeTries
          ProbeTries, \* unanswered probes that lower the MTU
          Capacity,   \* steps by which the link's MTU lies below the largest
          Steps,      \* steps between MaxTunMTU and MinTunMTU
          Stoppers,   \* callers of Stop
          Repeaters   \* those of them who call it again while a run is stopped

ASSUME LinkAssumption ==
  /\ Tries \in Nat \ {0} /\ ProbeTries \in Nat \ {0}
  /\ Steps \in Nat /\ Capacity \in 0..Steps
  /\ Repeaters \subseteq Stoppers

VARIABLES
  engine,   \* what the panel shows, and the handles of the run
  run,      \* the goroutine of run
  system,   \* what run has put into the system
  stopper,  \* calls of Stop, and whether the run they wait for is over
  hellos,   \* in the network
  answers,  \* in the network, to the client
  server,   \* its session, the port it sends to, and whether the client has the keys
  calm,     \* from here on the network delivers and the server accepts
  refused,  \* the server refused a hello of this handshake for good
  mtu       \* of the session, and the probes sent for it

linkVars == <<engine, run, system, stopper, hellos, answers, server, calm, refused, mtu>>
network == <<hellos, answers, server, calm, refused>>

Verdicts == {"accept", "busy", "refuse"}
Idle == [at |-> "none", tries |-> 0, cancelled |-> FALSE, refused |-> FALSE]
NoStop == [at |-> "none", over |-> FALSE]
NoSession == [on |-> FALSE, port |-> "old", shared |-> FALSE]
NoProbe == -1
FullMTU == [steps |-> 0, tries |-> 0, done |-> FALSE, want |-> NoProbe]

LinkInit ==
  /\ engine = [state |-> "idle", terminal |-> FALSE, cancel |-> FALSE, done |-> FALSE]
  /\ run = Idle /\ system = {}
  /\ stopper = [s \in Stoppers |-> NoStop]
  /\ hellos = {} /\ answers = {} /\ server = NoSession
  /\ calm = FALSE /\ refused = FALSE
  /\ mtu = FullMTU

\* setState
Shows(state) ==
  engine' = [engine EXCEPT !.state = state, !.terminal = state = "error" /\ @]

\* When a new hello is about to be sent, or no answer is awaited any more.
OldHellos == {[h EXCEPT !.key = "old"] : h \in hellos}
OtherAnswers == {[a EXCEPT !.key = "other", !.live = FALSE] : a \in answers}

\* A socket from another port.
NewPort ==
  /\ hellos' = {[key |-> "old", port |-> "old"] : h \in hellos}
  /\ answers' = {}
  /\ server' = [server EXCEPT !.port = "old"]

-----------------------------------------------------------------------------
(* Start and Stop *)

\* A bound of the model: a second call of Stop returns before the next Start.
RepeatersGone == \A s \in Repeaters : stopper[s].at = "none"

Start ==
  /\ ~engine.cancel /\ ~engine.done /\ RepeatersGone
  /\ engine' = [state |-> "connecting", terminal |-> engine.terminal, cancel |-> TRUE, done |-> TRUE]
  /\ run' = [Idle EXCEPT !.at = "open"]
  /\ refused' = FALSE
  /\ UNCHANGED <<system, stopper, hellos, answers, server, calm, mtu>>

StopGoes(s, at) == stopper' = [stopper EXCEPT ![s].at = at]

\* Mutant of StopTakes: a call that finds the run cancelled returns.
StopTakesOnce(s) ==
  /\ stopper[s].at = "none" /\ engine.done
  /\ s \in Repeaters => ~engine.cancel
  /\ engine' = [engine EXCEPT !.cancel = FALSE]
  /\ stopper' = [stopper EXCEPT ![s] = [at |-> IF engine.cancel THEN "cancel" ELSE "show", over |-> FALSE]]
  /\ UNCHANGED <<run, system, network, mtu>>

\* Stop takes the handle; without a run there is nothing to wait for.
StopTakes(s) ==
  /\ stopper[s].at = "none" /\ engine.done
  /\ s \in Repeaters => ~engine.cancel
  /\ engine' = [engine EXCEPT !.cancel = FALSE]
  /\ stopper' = [stopper EXCEPT ![s] = [at |-> IF engine.cancel THEN "cancel" ELSE "wait", over |-> FALSE]]
  /\ UNCHANGED <<run, system, network, mtu>>

StopCancels(s) ==
  /\ stopper[s].at = "cancel"
  /\ Shows("disconnecting")
  /\ run' = [run EXCEPT !.cancelled = @ \/ ~stopper[s].over]
  /\ StopGoes(s, "close")
  /\ UNCHANGED <<system, network, mtu>>

\* Whatever socket and device the engine has now are closed.
StopCloses(s) ==
  /\ stopper[s].at = "close"
  /\ system' = system \ {"socket", "device"}
  /\ StopGoes(s, "wait")
  /\ UNCHANGED <<engine, run, network, mtu>>

\* <-done, then a look whether a new run has begun.
StopSees(s) ==
  /\ stopper[s].at = "wait" /\ stopper[s].over
  /\ StopGoes(s, IF engine.cancel THEN "none" ELSE "show")
  /\ UNCHANGED <<engine, run, system, network, mtu>>

StopShows(s) ==
  /\ stopper[s].at = "show"
  /\ Shows("idle")
  /\ StopGoes(s, "none")
  /\ UNCHANGED <<run, system, network, mtu>>

-----------------------------------------------------------------------------
(* run *)

Goes(at) == run' = [run EXCEPT !.at = at]

\* The socket, the device and the heartbeat; or e.fail.
Open ==
  /\ run.at = "open"
  /\ \/ /\ system' = system \cup {"socket", "device", "heartbeat"}
        /\ Goes("loop") /\ NewPort /\ UNCHANGED engine
     \/ /\ Shows("error") /\ Goes("exit")
        /\ UNCHANGED <<system, hellos, answers, server>>
  /\ UNCHANGED <<stopper, calm, refused, mtu>>

Loop ==
  /\ run.at = "loop"
  /\ IF run.cancelled THEN Goes("exit") /\ UNCHANGED engine
     ELSE Goes("hello") /\ Shows("connecting")
  /\ refused' = FALSE
  /\ UNCHANGED <<system, stopper, hellos, answers, server, calm, mtu>>

\* NewClientHelloV6: with a fresh key, from the socket in use.
Hello == [key |-> "now", port |-> "now"]

\* A hello with a fresh key; after the last, one probe for an older version,
\* whose answer only words the error.  A closed socket fails the write.
SendHello ==
  /\ run.at = "hello"
  /\ IF run.cancelled \/ run.tries = Tries \/ "socket" \notin system
     THEN /\ run' = [run EXCEPT !.at = "failed", !.tries = 0]
          /\ hellos' = OldHellos /\ answers' = {}
     ELSE /\ run' = [run EXCEPT !.at = "answer", !.tries = @ + 1]
          /\ hellos' = OldHellos \cup {Hello}
          /\ answers' = OtherAnswers
  /\ UNCHANGED <<engine, system, stopper, server, calm, refused, mtu>>

Answered(a) == a \in answers /\ "socket" \in system

\* The MAC of an answer covers the key of the hello it answers.
Mine(a) == a.key = "now"

\* What is not verified is drained.
Ignore(a) ==
  /\ run.at = "answer" /\ Answered(a) /\ ~Mine(a)
  /\ answers' = answers \ {a}
  /\ UNCHANGED <<engine, run, system, stopper, hellos, server, calm, refused, mtu>>

Accepted(a) ==
  /\ run.at = "answer" /\ Answered(a) /\ Mine(a) /\ a.kind = "accept"
  /\ hellos' = OldHellos /\ answers' = {}
  /\ mtu' = FullMTU /\ server' = [server EXCEPT !.shared = a.live]
  /\ run' = [run EXCEPT !.at = "apply", !.tries = 0]
  /\ refused' = FALSE
  /\ UNCHANGED <<engine, system, stopper, calm>>

Rejected(a) ==
  /\ run.at = "answer" /\ Answered(a) /\ Mine(a) /\ a.kind \in {"busy", "refuse"}
  /\ hellos' = OldHellos /\ answers' = {}
  /\ run' = [run EXCEPT !.at = "failed", !.tries = 0, !.refused = a.kind = "refuse"]
  /\ UNCHANGED <<engine, system, stopper, server, calm, refused, mtu>>

\* 1.5 s, or a closed socket.  In a calm network the answer comes before.
TimeOut ==
  /\ run.at = "answer"
  /\ \/ ~calm \/ "socket" \notin system
     \/ \A m \in hellos \cup answers : m.key # "now"
  /\ Goes("hello")
  /\ UNCHANGED <<engine, system, stopper, network, mtu>>

\* The routes go while the run may be cancelled.
HandshakeFailed ==
  /\ run.at = "failed"
  /\ Goes(IF run.cancelled THEN "exit" ELSE "dismiss")
  /\ UNCHANGED <<engine, system, stopper, network, mtu>>

\* A reason that needs a person ends the run, the tunnel limit does not.
Dismiss ==
  /\ run.at = "dismiss"
  /\ IF run.refused
     THEN /\ engine' = [engine EXCEPT !.state = "error", !.terminal = TRUE]
          /\ Goes("exit")
     ELSE Shows("error") /\ Goes("rotate")
  /\ refused' = FALSE
  /\ UNCHANGED <<system, stopper, hellos, answers, server, calm, mtu>>

\* The next round is from another port, if it can be had.
Rotate ==
  /\ run.at = "rotate"
  /\ Goes("sleep")
  /\ \/ system' = system \cup {"socket"} /\ NewPort
     \/ ~calm /\ UNCHANGED <<system, hellos, answers, server>>
  /\ UNCHANGED <<engine, stopper, calm, refused, mtu>>

Sleep ==
  /\ run.at = "sleep"
  /\ Goes("loop")
  /\ UNCHANGED <<engine, system, stopper, network, mtu>>

\* applyAddressing; the route manager of these addresses is made with it.
ApplyAddressing == system' = system \cup {"address", "routes"}

\* applyAddressing and the route manager, unless the address is the last one's.
Apply ==
  /\ run.at = "apply"
  /\ \/ /\ "address" \in system
        /\ Goes("up") /\ UNCHANGED <<engine, system>>
     \/ /\ "address" \notin system /\ "device" \in system
        /\ ApplyAddressing /\ Goes("up") /\ UNCHANGED engine
     \/ /\ "address" \notin system
        /\ ~calm \/ "device" \notin system
        /\ Shows("error") /\ Goes("sleep") /\ UNCHANGED system
  /\ UNCHANGED <<stopper, network, mtu>>

\* setSession
ComesUp ==
  /\ run.at = "up"
  /\ Shows("connected") /\ Goes("pump")
  /\ UNCHANGED <<system, stopper, network, mtu>>

InSync == run.at = "pump" /\ server.shared /\ server.port = "now"

\* Mutant of PumpEnds: the server's silence is not noticed.
PumpEndsDeaf ==
  /\ run.at = "pump"
  /\ "socket" \notin system \/ run.cancelled
  /\ Goes("loop")
  /\ mtu' = FullMTU /\ server' = [server EXCEPT !.shared = FALSE]
  /\ UNCHANGED <<engine, system, stopper, hellos, answers, calm, refused>>

\* pump returns: the socket was closed, or nothing came for pumpIdleTimeout.
\* Any packet moves the deadline, whichever session it belongs to.  The
\* session is dropped, and its MTU with it.
PumpEnds ==
  /\ run.at = "pump"
  /\ \/ "socket" \notin system \/ run.cancelled
     \/ ~calm \/ ~server.on \/ server.port = "old"
  /\ Goes("loop")
  /\ mtu' = FullMTU /\ server' = [server EXCEPT !.shared = FALSE]
  /\ UNCHANGED <<engine, system, stopper, hellos, answers, calm, refused>>

\* Mutant of Exit: the handles go first.
ExitUnclean ==
  /\ run.at = "exit"
  /\ Goes("cleared")
  /\ engine' = [engine EXCEPT !.cancel = FALSE, !.done = FALSE]
  /\ UNCHANGED <<system, stopper, network, mtu>>

\* The deferred calls: routes, firewall, address, device and socket.  The
\* heartbeat ends with the context, which a run that gives up does not cancel.
Exit ==
  /\ run.at = "exit"
  /\ Goes("cleared")
  /\ system' = (system \cap {"stray"}) \cup
               (IF "heartbeat" \in system /\ ~run.cancelled THEN {"stray"} ELSE {})
  /\ UNCHANGED <<engine, stopper, network, mtu>>

\* The goroutine around run clears the handles, then closes done.
Finish ==
  /\ run.at = "cleared"
  /\ run' = Idle
  /\ engine' = [engine EXCEPT !.cancel = FALSE, !.done = FALSE]
  /\ stopper' = [s \in Stoppers |-> [stopper[s] EXCEPT !.over = stopper[s].at # "none"]]
  /\ UNCHANGED <<system, network, mtu>>

-----------------------------------------------------------------------------
(* Heartbeats *)

\* heartbeat with maybeProbeMTU: another probe of the MTU; with too many
\* unanswered the MTU goes down a step, and at the lowest the probing ends.
Heartbeat ==
  LET n == mtu.tries + 1
      probed == [mtu EXCEPT !.tries = n % ProbeTries, !.want = mtu.steps] IN
  /\ run.at = "pump" /\ ~mtu.done
  /\ mtu' = IF n < ProbeTries THEN probed
            ELSE IF mtu.steps < Steps THEN [probed EXCEPT !.steps = @ + 1]
            ELSE [probed EXCEPT !.done = TRUE]
  /\ UNCHANGED <<engine, run, system, stopper, network>>

\* handlePong: the echo of the last probe, if a packet of that size passes.
Pong ==
  /\ InSync /\ mtu.want >= Capacity
  /\ mtu' = [mtu EXCEPT !.done = TRUE, !.tries = 0]
  /\ UNCHANGED <<engine, run, system, stopper, network>>

-----------------------------------------------------------------------------
(* The server and the network *)

\* An answer comes while the client waits for one, or nobody reads it: what
\* comes to the pump is drained.  Of several the network keeps one.
Awaited == run.at \in {"hello", "answer"}

\* NewServerAccept, NewServerReject: signed over the key of the hello.
Answer(h, v) ==
  LET key == IF h.key = "now" THEN "now" ELSE "other" IN
  [kind |-> v, key |-> key, live |-> v = "accept" /\ key = "now"]

\* handleHello: an accepted hello replaces the session, a repeated one too.
\* Until it is calm the network may deliver a hello again, or lose the answer.
HandleHello(h, v) ==
  LET accepted == v = "accept" IN
  /\ h \in hellos /\ (calm => accepted)
  /\ hellos' = hellos \ {h} \/ (~calm /\ UNCHANGED hellos)
  /\ \/ Awaited /\ h.port = "now" /\ answers' = {Answer(h, v)}
     \/ /\ ~calm \/ ~Awaited \/ h.port = "old"
        /\ answers' = {[a EXCEPT !.live = @ /\ ~accepted] : a \in answers}
  /\ IF accepted THEN server' = [on |-> TRUE, port |-> h.port, shared |-> FALSE]
                 ELSE UNCHANGED server
  /\ refused' = (refused \/ (v = "refuse" /\ h.key = "now"))
  /\ UNCHANGED <<engine, run, system, stopper, calm, mtu>>

LoseHello(h) ==
  /\ h \in hellos /\ (calm => h.key = "old")
  /\ hellos' = hellos \ {h}
  /\ UNCHANGED <<engine, run, system, stopper, answers, server, calm, refused, mtu>>

LoseAnswer(a) ==
  /\ a \in answers /\ (calm => a.key # "now")
  /\ answers' = answers \ {a}
  /\ UNCHANGED <<engine, run, system, stopper, hellos, server, calm, refused, mtu>>

\* The answer to another client's hello comes to this client's port.
CrossTalk(kind) ==
  /\ ~calm /\ run.at = "answer" /\ answers = {}
  /\ answers' = {[kind |-> kind, key |-> "other", live |-> FALSE]}
  /\ UNCHANGED <<engine, run, system, stopper, hellos, server, calm, refused, mtu>>

\* The janitor reaps a session whose packets the server cannot open; when it is
\* calm, only one that the client has not got and is not about to get.
Reap ==
  /\ server.on
  /\ calm => ~(run.at \in {"apply", "up", "pump"} /\ server.shared) /\ ~\E a \in answers : a.live
  /\ server' = NoSession
  /\ answers' = {[a EXCEPT !.live = FALSE] : a \in answers}
  /\ UNCHANGED <<engine, run, system, stopper, hellos, calm, refused, mtu>>

Calm ==
  /\ ~calm
  /\ calm' = TRUE
  /\ UNCHANGED <<engine, run, system, stopper, hellos, answers, server, refused, mtu>>

-----------------------------------------------------------------------------
Receive == \E a \in answers : Ignore(a) \/ Accepted(a) \/ Rejected(a)
Run ==
  \/ Open \/ Loop \/ SendHello \/ Receive \/ TimeOut \/ HandshakeFailed \/ Dismiss \/ Rotate
  \/ Sleep \/ Apply \/ ComesUp \/ PumpEnds \/ Exit \/ Finish
StopOf(s) == StopTakes(s) \/ StopCancels(s) \/ StopCloses(s) \/ StopSees(s) \/ StopShows(s)

LinkNext ==
  \/ Start \/ Run \/ Heartbeat \/ Pong \/ Reap
  \/ \E s \in Stoppers : StopOf(s)
  \/ \E h \in hellos : LoseHello(h) \/ \E v \in Verdicts : HandleHello(h, v)
  \/ \E a \in answers : LoseAnswer(a)
  \/ \E v \in Verdicts : CrossTalk(v)
  \/ Calm

\* Goroutines run, a calm network delivers, silence ends sessions.
LinkFairness ==
  /\ WF_linkVars(Run) /\ WF_linkVars(Heartbeat) /\ WF_linkVars(Reap)
  /\ \A s \in Stoppers : WF_linkVars(StopOf(s) /\ stopper[s].at # "none")
  /\ WF_linkVars(\E h \in hellos, v \in Verdicts : HandleHello(h, v))

LinkSpec == LinkInit /\ [][LinkNext]_linkVars /\ LinkFairness

-----------------------------------------------------------------------------
\* "The handles are clear" means "the system is clean": when Start may go ahead,
\* no address, firewall rule, route or device of the last run is left.
CleanWhenStartable == ~engine.cancel /\ ~engine.done => system \subseteq {"stray"}

\* Nor a heartbeat; of a run that gave up, one goes on for ever.
NothingStrays == "stray" \notin system

\* The client gives up only on the server's word about a hello of this run,
\* whatever comes to its port.
GivesUpWhenRefused == [][~engine.terminal /\ engine'.terminal => refused]_linkVars

\* engine.go: the mark is that of the last failure.
TerminalIsRefused == engine.terminal /\ engine.state = "error" => refused

\* Stop returns with the system clean, also when it is called again and while a
\* handshake or a rotation of the port is under way; unless a new run has begun.
StopWaits ==
  [][\A s \in Stoppers : stopper[s].at # "none" /\ stopper'[s].at = "none" =>
       system \subseteq {"stray"} \/ (stopper[s].over /\ run.at # "none")]_linkVars

\* While nobody stops the client and the server accepts, a calm network has both
\* ends on the same session in the end, whatever hellos and ports went before.
Reconnects ==
  <>[](calm /\ engine.cancel /\ "device" \in system) => <>[]InSync

\* A session that lasts has an MTU that the link carries.
MTUFits == <>[](InSync) => <>[](mtu.steps >= Capacity)

\* engine.go: the state of a new run is not overwritten.
IdleIsIdle == engine.state = "idle" => ~engine.cancel

\* The type invariant.
LinkTypeOK ==
  /\ engine.state \in {"idle", "connecting", "connected", "disconnecting", "error"}
  /\ system \subseteq {"socket", "device", "heartbeat", "address", "routes", "stray"}
  /\ mtu.steps \in 0..Steps /\ mtu.tries \in 0..ProbeTries /\ run.tries \in 0..Tries

\* Start finds nothing of the last run, whichever Stop, failure or refusal ended it.
StartsClean == LinkTypeOK /\ CleanWhenStartable

\* The client gives up only when the server has refused it, and a Stop returns, however often it
\* is called, only when the run it found has left nothing (Engine.Stop, Engine.handshake).
RunsEndRightly == GivesUpWhenRefused /\ StopWaits

\* On a network that has come to rest the client connects again, and heartbeats bring the MTU of
\* its device down to what the path carries (Engine.run, maybeProbeMTU).
CalmLinksWork == Reconnects /\ MTUFits

=============================================================================
