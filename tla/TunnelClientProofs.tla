------------------------- MODULE TunnelClientProofs -------------------------
(***************************************************************************)
(* Theorems about the tunnel client: its engine (TunnelLink), for any      *)
(* number of callers of Stop, tries of the handshake, probes and steps of  *)
(* the MTU; and its routes to players (Routes), for any finite set of      *)
(* addresses of which any may have an unreliable route.exe, and any sizes  *)
(* of table, queue and buffer.                                             *)
(*                                                                         *)
(* LinkInv ties the handles of the engine to the goroutine of run, what    *)
(* run has put into the system to where it is, and the client's verdict on *)
(* a handshake to what the server said.  RoutesInv says what installer,    *)
(* remover and pump may find an entry to have become since they looked at  *)
(* it.  For an address whose route.exe does not fail it keeps installer    *)
(* and remover apart; for every address it names who wakes the installer.  *)
(* Fairness is not used.                                                   *)
(***************************************************************************)
EXTENDS Routes, TunnelLink, FiniteSetTheorems, TLAPS

-----------------------------------------------------------------------------
(* The engine *)

States == {"idle", "connecting", "connected", "disconnecting", "error"}
Parts == {"socket", "device", "heartbeat", "address", "routes", "stray"}
Places == {"none", "open", "loop", "hello", "answer", "failed", "dismiss", "rotate",
           "sleep", "apply", "up", "pump", "exit", "cleared"}
Answers == [kind : Verdicts, key : {"now", "other"}, live : BOOLEAN]

\* The values the variables take; MTU probes are counted below their limit.
LinkShape ==
  /\ engine \in [state : States, terminal : BOOLEAN, cancel : BOOLEAN, done : BOOLEAN]
  /\ run \in [at : Places, tries : 0..Tries, cancelled : BOOLEAN, refused : BOOLEAN]
  /\ system \in SUBSET Parts
  /\ stopper \in [Stoppers -> [at : {"none", "cancel", "close", "wait", "show"}, over : BOOLEAN]]
  /\ answers \in SUBSET Answers
  /\ calm \in BOOLEAN /\ refused \in BOOLEAN
  /\ mtu \in [steps : 0..Steps, tries : 0..(ProbeTries - 1), done : BOOLEAN, want : Int]

\* The handles are those of the goroutine under way, which leaves nothing behind.
HandlesOfRun ==
  /\ engine.done <=> run.at # "none"
  /\ engine.cancel => engine.done
  /\ run.at \in {"none", "cleared"} => system \subseteq {"stray"}

\* A Stop shows "idle" only after the run it waited for.
ShownWhenOver == \A s \in Stoppers : stopper[s].at = "show" => stopper[s].over

\* A verdict against this client is one the server gave to a hello of this handshake.
VerdictsAreGiven ==
  /\ ~Awaited => answers = {}
  /\ \A a \in answers : Mine(a) /\ a.kind = "refuse" => refused
  /\ run.refused => run.at \in {"failed", "dismiss", "exit", "cleared"}
  /\ run.refused /\ run.at \in {"failed", "dismiss"} => refused

LinkInv == LinkShape /\ HandlesOfRun /\ ShownWhenOver /\ VerdictsAreGiven

-----------------------------------------------------------------------------
(* The values *)

LEMMA LinkStarts == LinkInit => LinkInv
<1> SUFFICES ASSUME LinkInit PROVE LinkInv
  OBVIOUS
<1>1. LinkShape
  <2>1. engine \in [state : States, terminal : BOOLEAN, cancel : BOOLEAN, done : BOOLEAN]
    BY DEF LinkInit, States
  <2>2. run \in [at : Places, tries : 0..Tries, cancelled : BOOLEAN, refused : BOOLEAN]
    BY LinkAssumption DEF LinkInit, Idle, Places
  <2>3. mtu \in [steps : 0..Steps, tries : 0..(ProbeTries - 1), done : BOOLEAN, want : Int]
    BY LinkAssumption DEF LinkInit, FullMTU, NoProbe
  <2>4. QED
    BY <2>1, <2>2, <2>3 DEF LinkInit, LinkShape, NoStop
<1>2. HandlesOfRun /\ ShownWhenOver /\ VerdictsAreGiven
  BY DEF LinkInit, HandlesOfRun, ShownWhenOver, VerdictsAreGiven, Idle, NoStop
<1>3. QED
  BY <1>1, <1>2 DEF LinkInv

\* What is in the network keeps its kind when its hello is no longer the last one.
LEMMA OtherAnswersAre ==
  ASSUME answers \in SUBSET Answers
  PROVE  OtherAnswers \in SUBSET Answers /\ \A a \in OtherAnswers : ~Mine(a)
<1>1. \A a \in Answers : LET b == [a EXCEPT !.key = "other", !.live = FALSE]
                        IN b \in Answers /\ b.key # "now"
  BY DEF Answers
<1>2. QED
  BY <1>1 DEF OtherAnswers, Mine

-----------------------------------------------------------------------------
(* Start and Stop *)

LEMMA StopStep ==
  ASSUME LinkInv, NEW s \in Stoppers, StopOf(s)
  PROVE  LinkInv'
<1> USE DEF network
<1>a. LinkShape /\ HandlesOfRun /\ ShownWhenOver /\ VerdictsAreGiven
  BY DEF LinkInv
<1>1. /\ answers' = answers /\ refused' = refused /\ calm' = calm /\ mtu' = mtu
      /\ run'.at = run.at /\ run'.refused = run.refused
      /\ run' \in [at : Places, tries : 0..Tries, cancelled : BOOLEAN, refused : BOOLEAN]
  BY <1>a DEF StopOf, StopTakes, StopCancels, StopCloses, StopSees, StopShows, StopGoes, Shows, LinkShape
<1>2. /\ engine' \in [state : States, terminal : BOOLEAN, cancel : BOOLEAN, done : BOOLEAN]
      /\ engine'.done = engine.done /\ (engine'.cancel => engine.cancel)
  BY <1>a DEF StopOf, StopTakes, StopCancels, StopCloses, StopSees, StopShows, StopGoes, Shows,
     LinkShape, States
<1>3. system' \in SUBSET Parts /\ system' \subseteq system
  BY <1>a DEF StopOf, StopTakes, StopCancels, StopCloses, StopSees, StopShows, LinkShape
<1>4. /\ stopper' \in [Stoppers -> [at : {"none", "cancel", "close", "wait", "show"}, over : BOOLEAN]]
      /\ ShownWhenOver'
  <2>1. PICK rec \in [at : {"none", "cancel", "close", "wait", "show"}, over : BOOLEAN] :
          stopper' = [stopper EXCEPT ![s] = rec] /\ (rec.at = "show" => rec.over)
    <3>1. CASE StopTakes(s)
      <4> DEFINE rec == [at |-> IF engine.cancel THEN "cancel" ELSE "wait", over |-> FALSE]
      <4>1. rec \in [at : {"none", "cancel", "close", "wait", "show"}, over : BOOLEAN]
        OBVIOUS
      <4>2. QED
        BY <3>1, <4>1 DEF StopTakes
    <3>2. CASE StopCancels(s) \/ StopCloses(s) \/ StopSees(s) \/ StopShows(s)
      <4>1. PICK at \in {"none", "close", "wait", "show"} :
              StopGoes(s, at) /\ (at = "show" => stopper[s].over)
        BY <3>2 DEF StopCancels, StopCloses, StopSees, StopShows
      <4>2. stopper' = [stopper EXCEPT ![s] = [stopper[s] EXCEPT !.at = at]]
        BY <4>1 DEF StopGoes
      <4>3. stopper[s] \in [at : {"none", "cancel", "close", "wait", "show"}, over : BOOLEAN]
        BY <1>a DEF LinkShape
      <4> DEFINE rec == [stopper[s] EXCEPT !.at = at]
      <4>4. /\ rec \in [at : {"none", "cancel", "close", "wait", "show"}, over : BOOLEAN]
            /\ rec.at = at /\ rec.over = stopper[s].over
        BY <4>3
      <4> HIDE DEF rec
      <4>5. stopper' = [stopper EXCEPT ![s] = rec]
        BY <4>2 DEF rec
      <4>6. QED
        BY <4>1, <4>4, <4>5
    <3>3. QED
      BY <3>1, <3>2 DEF StopOf
  <2>2. stopper \in [Stoppers -> [at : {"none", "cancel", "close", "wait", "show"}, over : BOOLEAN]]
    BY <1>a DEF LinkShape
  <2>3. QED
    BY <1>a, <2>1, <2>2 DEF ShownWhenOver
<1>5. LinkShape'
  BY <1>a, <1>1, <1>2, <1>3, <1>4 DEF LinkShape
<1>6. HandlesOfRun' /\ VerdictsAreGiven'
  BY <1>a, <1>1, <1>2, <1>3 DEF HandlesOfRun, VerdictsAreGiven, Awaited, Mine
<1>7. QED
  BY <1>4, <1>5, <1>6 DEF LinkInv

LEMMA StartStep ==
  ASSUME LinkInv, Start
  PROVE  LinkInv'
<1>a. LinkShape /\ HandlesOfRun /\ ShownWhenOver /\ VerdictsAreGiven
  BY DEF LinkInv
<1>1. run'.at = "open" /\ ~run'.refused /\ run.at = "none"
  BY <1>a DEF Start, Idle, HandlesOfRun
<1>2. run' \in [at : Places, tries : 0..Tries, cancelled : BOOLEAN, refused : BOOLEAN]
  <2>1. run' = [at |-> "open", tries |-> 0, cancelled |-> FALSE, refused |-> FALSE]
    BY DEF Start, Idle
  <2>2. QED
    BY <2>1, LinkAssumption DEF Places
<1>3. /\ engine' \in [state : States, terminal : BOOLEAN, cancel : BOOLEAN, done : BOOLEAN]
      /\ engine'.done /\ engine'.cancel
  BY <1>a DEF Start, LinkShape, States
<1>4. LinkShape' /\ ShownWhenOver'
  BY <1>a, <1>2, <1>3 DEF Start, LinkShape, ShownWhenOver
<1>5. HandlesOfRun' /\ VerdictsAreGiven'
  BY <1>a, <1>1, <1>3 DEF Start, HandlesOfRun, VerdictsAreGiven, Awaited
<1>6. QED
  BY <1>4, <1>5 DEF LinkInv

-----------------------------------------------------------------------------
(* run *)

\* A step of run that changes nothing else, but for the engine's state and the system, of which
\* it may take only the parts that are put in before the pump.
LEMMA RunGoes ==
  ASSUME LinkInv, NEW at \in Places \ {"none"}, Goes(at),
         run.at # "none", at = "cleared" => system' \subseteq {"stray"},
         Awaited' => Awaited \/ answers' = {},
         ~Awaited' => answers' = {},
         answers' \subseteq answers,
         run.refused => at \in {"failed", "dismiss", "exit", "cleared"},
         run.refused /\ at \in {"failed", "dismiss"} => run.at \in {"failed", "dismiss"} /\ refused' = refused,
         refused' \in BOOLEAN, answers' # {} => refused' = refused,
         engine' = engine \/ \E state \in States \ {"idle"} : Shows(state),
         system' \in SUBSET Parts, stopper' = stopper, calm' = calm,
         mtu' = mtu \/ mtu' = FullMTU
  PROVE  LinkInv'
<1>a. LinkShape /\ HandlesOfRun /\ ShownWhenOver /\ VerdictsAreGiven
  BY DEF LinkInv
<1>1. /\ run'.at = at /\ run'.refused = run.refused
      /\ run' \in [at : Places, tries : 0..Tries, cancelled : BOOLEAN, refused : BOOLEAN]
  BY <1>a DEF Goes, LinkShape
<1>2. /\ engine' \in [state : States, terminal : BOOLEAN, cancel : BOOLEAN, done : BOOLEAN]
      /\ engine'.done = engine.done /\ engine'.cancel = engine.cancel
  BY <1>a DEF Shows, LinkShape, States
<1>3. mtu' \in [steps : 0..Steps, tries : 0..(ProbeTries - 1), done : BOOLEAN, want : Int]
  <2>1. FullMTU \in [steps : 0..Steps, tries : 0..(ProbeTries - 1), done : BOOLEAN, want : Int]
    BY LinkAssumption DEF FullMTU, NoProbe
  <2>2. QED
    BY <1>a, <2>1 DEF LinkShape
<1>4. LinkShape' /\ ShownWhenOver'
  BY <1>a, <1>1, <1>2, <1>3 DEF LinkShape, ShownWhenOver
<1>5. HandlesOfRun'
  BY <1>a, <1>1, <1>2 DEF HandlesOfRun, Places
<1>6. VerdictsAreGiven'
  BY <1>a, <1>1 DEF VerdictsAreGiven, Mine
<1>7. QED
  BY <1>4, <1>5, <1>6 DEF LinkInv

LEMMA RunStep ==
  ASSUME LinkInv, Run
  PROVE  LinkInv'
<1> USE DEF network
<1>a. LinkShape /\ HandlesOfRun /\ ShownWhenOver /\ VerdictsAreGiven
  BY DEF LinkInv
<1>1. ASSUME Open PROVE LinkInv'
  <2>1. PICK at \in {"loop", "exit"} : Goes(at)
    BY <1>1 DEF Open
  <2>2. at \in Places \ {"none"} /\ ~Awaited /\ ~Awaited' /\ answers = {} /\ ~run.refused
    BY <1>a, <1>1, <2>1 DEF Open, Goes, Places, Awaited, VerdictsAreGiven, LinkShape
  <2>3. answers' = {} /\ refused' = refused
    BY <1>1, <2>2 DEF Open, NewPort
  <2>4. engine' = engine \/ Shows("error")
    BY <1>1 DEF Open
  <2>5. /\ system' \in SUBSET Parts /\ stopper' = stopper /\ calm' = calm /\ mtu' = mtu
        /\ refused' \in BOOLEAN
    BY <1>a, <1>1 DEF Open, LinkShape, Parts
  <2>6. QED
    BY <1>1, <2>1, <2>2, <2>3, <2>4, <2>5, RunGoes DEF Open, States
<1>2. ASSUME Loop PROVE LinkInv'
  <2>1. PICK at \in {"hello", "exit"} : Goes(at)
    BY <1>2 DEF Loop
  <2>2. at \in Places \ {"none"} /\ ~Awaited /\ answers = {} /\ ~run.refused
    BY <1>a, <1>2, <2>1 DEF Loop, Places, Awaited, VerdictsAreGiven
  <2>3. QED
    BY <1>a, <1>2, <2>1, <2>2, RunGoes DEF Loop, States, LinkShape
<1>3. ASSUME TimeOut PROVE LinkInv'
  <2>1. Goes("hello") /\ Awaited /\ Awaited' /\ ~run.refused
    BY <1>a, <1>3 DEF TimeOut, Goes, Awaited, VerdictsAreGiven, LinkShape
  <2>2. QED
    BY <1>a, <1>3, <2>1, RunGoes DEF TimeOut, Places, LinkShape
<1>4. ASSUME HandshakeFailed PROVE LinkInv'
  <2>1. PICK at \in {"exit", "dismiss"} : Goes(at)
    BY <1>4 DEF HandshakeFailed
  <2>2. at \in Places \ {"none"} /\ ~Awaited /\ ~Awaited' /\ answers = {}
    BY <1>a, <1>4, <2>1 DEF HandshakeFailed, Goes, Places, Awaited, VerdictsAreGiven, LinkShape
  <2>3. QED
    BY <1>a, <1>4, <2>1, <2>2, RunGoes DEF HandshakeFailed, LinkShape
<1>5. ASSUME Rotate PROVE LinkInv'
  <2>1. Goes("sleep") /\ ~Awaited /\ ~Awaited' /\ answers = {} /\ ~run.refused
    BY <1>a, <1>5 DEF Rotate, Goes, Awaited, VerdictsAreGiven, LinkShape
  <2>2. answers' = {} /\ system' \in SUBSET Parts
    BY <1>a, <1>5, <2>1 DEF Rotate, NewPort, LinkShape, Parts
  <2>3. QED
    BY <1>a, <1>5, <2>1, <2>2, RunGoes DEF Rotate, Places, LinkShape
<1>6. ASSUME Sleep PROVE LinkInv'
  <2>1. Goes("loop") /\ ~Awaited /\ ~Awaited' /\ answers = {} /\ ~run.refused
    BY <1>a, <1>6 DEF Sleep, Goes, Awaited, VerdictsAreGiven, LinkShape
  <2>2. QED
    BY <1>a, <1>6, <2>1, RunGoes DEF Sleep, Places, LinkShape
<1>7. ASSUME Apply PROVE LinkInv'
  <2>1. PICK at \in {"up", "sleep"} : Goes(at)
    BY <1>7 DEF Apply
  <2>2. at \in Places \ {"none"} /\ ~Awaited /\ ~Awaited' /\ answers = {} /\ ~run.refused
    BY <1>a, <1>7, <2>1 DEF Apply, Goes, Places, Awaited, VerdictsAreGiven, LinkShape
  <2>3. system' \in SUBSET Parts /\ (engine' = engine \/ Shows("error"))
    BY <1>a, <1>7 DEF Apply, ApplyAddressing, LinkShape, Parts
  <2>4. QED
    BY <1>a, <1>7, <2>1, <2>2, <2>3, RunGoes DEF Apply, States, LinkShape
<1>8. ASSUME ComesUp PROVE LinkInv'
  <2>1. Goes("pump") /\ ~Awaited /\ ~Awaited' /\ answers = {} /\ ~run.refused
    BY <1>a, <1>8 DEF ComesUp, Goes, Awaited, VerdictsAreGiven, LinkShape
  <2>2. QED
    BY <1>a, <1>8, <2>1, RunGoes DEF ComesUp, Places, States, LinkShape
<1>9. ASSUME PumpEnds PROVE LinkInv'
  <2>1. Goes("loop") /\ ~Awaited /\ ~Awaited' /\ answers = {} /\ ~run.refused
    BY <1>a, <1>9 DEF PumpEnds, Goes, Awaited, VerdictsAreGiven, LinkShape
  <2>2. QED
    BY <1>a, <1>9, <2>1, RunGoes DEF PumpEnds, Places, LinkShape
<1>10. ASSUME Exit PROVE LinkInv'
  <2>1. Goes("cleared") /\ ~Awaited /\ ~Awaited' /\ answers = {}
    BY <1>a, <1>10 DEF Exit, Goes, Awaited, VerdictsAreGiven, LinkShape
  <2>2. system' \subseteq {"stray"} /\ system' \in SUBSET Parts
    BY <1>10 DEF Exit, Parts
  <2>3. QED
    BY <1>a, <1>10, <2>1, <2>2, RunGoes DEF Exit, Places, LinkShape
<1>11. ASSUME SendHello PROVE LinkInv'
  <2>1. Awaited /\ ~run.refused
    BY <1>a, <1>11 DEF SendHello, Awaited, VerdictsAreGiven
  <2>2. /\ run' \in [at : Places, tries : 0..Tries, cancelled : BOOLEAN, refused : BOOLEAN]
        /\ run'.at \in {"failed", "answer"} /\ run'.refused = run.refused
    <3> DEFINE Failed == [run EXCEPT !.at = "failed", !.tries = 0]
               Sent == [run EXCEPT !.at = "answer", !.tries = @ + 1]
    <3>1. run \in [at : Places, tries : 0..Tries, cancelled : BOOLEAN, refused : BOOLEAN]
      BY <1>a DEF LinkShape
    <3>2. run' = Failed \/ (run.tries # Tries /\ run' = Sent)
      BY <1>11 DEF SendHello
    <3>3. CASE run' = Failed
      <4>1. 0 \in 0..Tries
        BY LinkAssumption
      <4>2. QED
        BY <3>1, <3>3, <4>1 DEF Places
    <3>4. CASE run.tries # Tries /\ run' = Sent
      <4>1. run.tries + 1 \in 0..Tries
        BY <3>1, <3>4, LinkAssumption
      <4>2. QED
        BY <3>1, <3>4, <4>1 DEF Places
    <3>5. QED
      BY <3>2, <3>3, <3>4
  <2>3. /\ answers' \in SUBSET Answers /\ \A a \in answers' : ~Mine(a)
        /\ run'.at = "failed" => answers' = {}
    BY <1>a, <1>11, OtherAnswersAre DEF SendHello, LinkShape
  <2>4. LinkShape' /\ ShownWhenOver'
    BY <1>a, <1>11, <2>2, <2>3 DEF SendHello, LinkShape, ShownWhenOver
  <2>5. HandlesOfRun' /\ VerdictsAreGiven'
    BY <1>a, <1>11, <2>1, <2>2, <2>3 DEF SendHello, HandlesOfRun, VerdictsAreGiven, Awaited, Mine
  <2>6. QED
    BY <2>4, <2>5 DEF LinkInv
<1>12. ASSUME NEW a \in answers, Ignore(a) PROVE LinkInv'
  BY <1>a, <1>12 DEF Ignore, LinkInv, LinkShape, HandlesOfRun, ShownWhenOver, VerdictsAreGiven, Awaited, Mine
<1>13. ASSUME NEW a \in answers, Accepted(a) \/ Rejected(a) PROVE LinkInv'
  <2>1. /\ run' \in [at : Places, tries : 0..Tries, cancelled : BOOLEAN, refused : BOOLEAN]
        /\ run'.at \in {"apply", "failed"} /\ run.at = "answer"
        /\ run'.refused => run'.at = "failed" /\ refused /\ refused' = refused
    <3>1. /\ run \in [at : Places, tries : 0..Tries, cancelled : BOOLEAN, refused : BOOLEAN]
          /\ run.at = "answer" /\ 0 \in 0..Tries
      BY <1>a, <1>13, LinkAssumption DEF Accepted, Rejected, LinkShape
    <3>2. CASE Accepted(a)
      <4>1. ~run.refused
        BY <1>a, <3>1 DEF VerdictsAreGiven
      <4>2. run' = [run EXCEPT !.at = "apply", !.tries = 0]
        BY <3>2 DEF Accepted
      <4>3. QED
        BY <3>1, <4>1, <4>2 DEF Places
    <3>3. CASE Rejected(a)
      <4>1. run' = [run EXCEPT !.at = "failed", !.tries = 0, !.refused = a.kind = "refuse"]
        BY <3>3 DEF Rejected
      <4>2. (a.kind = "refuse") \in BOOLEAN
        OBVIOUS
      <4>3. /\ run' \in [at : Places, tries : 0..Tries, cancelled : BOOLEAN, refused : BOOLEAN]
            /\ run'.at = "failed" /\ run'.refused = (a.kind = "refuse")
        BY <3>1, <4>1, <4>2 DEF Places
      <4>4. a.kind = "refuse" => refused /\ refused' = refused
        BY <1>a, <3>3 DEF Rejected, VerdictsAreGiven
      <4>5. QED
        BY <3>1, <4>3, <4>4
    <3>4. QED
      BY <1>13, <3>2, <3>3
  <2>2. FullMTU \in [steps : 0..Steps, tries : 0..(ProbeTries - 1), done : BOOLEAN, want : Int]
    BY LinkAssumption DEF FullMTU, NoProbe
  <2>3. LinkShape' /\ ShownWhenOver'
    BY <1>a, <1>13, <2>1, <2>2 DEF Accepted, Rejected, LinkShape, ShownWhenOver
  <2>4. HandlesOfRun' /\ VerdictsAreGiven'
    BY <1>a, <1>13, <2>1 DEF Accepted, Rejected, HandlesOfRun, VerdictsAreGiven, Awaited
  <2>5. QED
    BY <2>3, <2>4 DEF LinkInv
<1>14. ASSUME Dismiss PROVE LinkInv'
  <2>1. /\ run' \in [at : Places, tries : 0..Tries, cancelled : BOOLEAN, refused : BOOLEAN]
        /\ run'.at \in {"exit", "rotate"} /\ run'.refused = run.refused
        /\ run.refused => run'.at = "exit"
        /\ run.at = "dismiss"
    BY <1>a, <1>14 DEF Dismiss, Goes, LinkShape, Places
  <2>2. /\ engine' \in [state : States, terminal : BOOLEAN, cancel : BOOLEAN, done : BOOLEAN]
        /\ engine'.done = engine.done /\ engine'.cancel = engine.cancel
    BY <1>a, <1>14, ZenonT(30) DEF Dismiss, Shows, LinkShape, States
  <2>3. LinkShape' /\ ShownWhenOver'
    BY <1>a, <1>14, <2>1, <2>2 DEF Dismiss, LinkShape, ShownWhenOver
  <2>4. HandlesOfRun' /\ VerdictsAreGiven'
    BY <1>a, <1>14, <2>1, <2>2 DEF Dismiss, HandlesOfRun, VerdictsAreGiven, Awaited
  <2>5. QED
    BY <2>3, <2>4 DEF LinkInv
<1>15. ASSUME Finish PROVE LinkInv'
  <2>1. /\ run' \in [at : Places, tries : 0..Tries, cancelled : BOOLEAN, refused : BOOLEAN]
        /\ run'.at = "none" /\ ~run'.refused
    <3>1. run' = [at |-> "none", tries |-> 0, cancelled |-> FALSE, refused |-> FALSE]
      BY <1>15 DEF Finish, Idle
    <3>2. QED
      BY <3>1, LinkAssumption DEF Places
  <2>2. /\ engine' \in [state : States, terminal : BOOLEAN, cancel : BOOLEAN, done : BOOLEAN]
        /\ ~engine'.done /\ ~engine'.cancel
    BY <1>a, <1>15 DEF Finish, LinkShape
  <2>3. /\ stopper' \in [Stoppers -> [at : {"none", "cancel", "close", "wait", "show"}, over : BOOLEAN]]
        /\ ShownWhenOver'
    BY <1>a, <1>15, ZenonT(30) DEF Finish, LinkShape, ShownWhenOver
  <2>4. LinkShape'
    BY <1>a, <1>15, <2>1, <2>2, <2>3 DEF Finish, LinkShape
  <2>5. HandlesOfRun' /\ VerdictsAreGiven'
    BY <1>a, <1>15, <2>1, <2>2 DEF Finish, HandlesOfRun, VerdictsAreGiven, Awaited
  <2>6. QED
    BY <2>3, <2>4, <2>5 DEF LinkInv
<1>16. QED
  BY <1>1, <1>2, <1>3, <1>4, <1>5, <1>6, <1>7, <1>8, <1>9, <1>10, <1>11, <1>12, <1>13, <1>14, <1>15
     DEF Run, Receive

-----------------------------------------------------------------------------
(* Heartbeats, the server and the network *)

\* A step that touches neither run nor the engine, keeps what the network holds for the client
\* within what the server has said, and never takes its refusal back.
LEMMA NetworkStep ==
  ASSUME LinkInv, UNCHANGED <<engine, run, system, stopper>>,
         answers' \in SUBSET Answers, ~Awaited => answers' = {},
         refused' \in BOOLEAN, refused => refused', calm' \in BOOLEAN,
         \A a \in answers' : Mine(a) /\ a.kind = "refuse" => refused',
         mtu' \in [steps : 0..Steps, tries : 0..(ProbeTries - 1), done : BOOLEAN, want : Int]
  PROVE  LinkInv'
BY DEF LinkInv, LinkShape, HandlesOfRun, ShownWhenOver, VerdictsAreGiven, Awaited

\* The probes that went unanswered stay below their limit.
LEMMA ProbesAreCounted ==
  ASSUME NEW n \in 0..(ProbeTries - 1)
  PROVE  (n + 1) % ProbeTries \in 0..(ProbeTries - 1)
BY LinkAssumption

LEMMA MtuStep ==
  ASSUME LinkInv, Heartbeat \/ Pong
  PROVE  LinkInv'
<1> USE DEF network
<1>a. LinkShape /\ VerdictsAreGiven
  BY DEF LinkInv
<1>1. mtu \in [steps : 0..Steps, tries : 0..(ProbeTries - 1), done : BOOLEAN, want : Int]
  BY <1>a DEF LinkShape
<1>2. mtu' \in [steps : 0..Steps, tries : 0..(ProbeTries - 1), done : BOOLEAN, want : Int]
  <2>1. CASE Heartbeat
    <3> DEFINE n == mtu.tries + 1
               probed == [mtu EXCEPT !.tries = n % ProbeTries, !.want = mtu.steps]
    <3>1. n % ProbeTries \in 0..(ProbeTries - 1) /\ mtu.steps \in 0..Steps /\ mtu.steps \in Int
      BY <1>1, ProbesAreCounted, LinkAssumption
    <3>2. /\ probed \in [steps : 0..Steps, tries : 0..(ProbeTries - 1), done : BOOLEAN, want : Int]
          /\ probed.steps = mtu.steps
      BY <1>1, <3>1
    <3>3. mtu' = IF n < ProbeTries THEN probed
                ELSE IF mtu.steps < Steps THEN [probed EXCEPT !.steps = @ + 1]
                ELSE [probed EXCEPT !.done = TRUE]
      BY <2>1 DEF Heartbeat
    <3>4. mtu.steps < Steps => mtu.steps + 1 \in 0..Steps
      BY <1>1, LinkAssumption
    <3> HIDE DEF n, probed
    <3>5. QED
      BY <3>2, <3>3, <3>4
  <2>2. CASE Pong
    <3>1. 0 \in 0..(ProbeTries - 1)
      BY LinkAssumption
    <3>2. QED
      BY <1>1, <2>2, <3>1 DEF Pong
  <2>3. QED
    BY <2>1, <2>2
<1>3. QED
  BY <1>a, <1>2, NetworkStep DEF Heartbeat, Pong, LinkShape, VerdictsAreGiven

LEMMA LinkServerStep ==
  ASSUME LinkInv, NEW h \in hellos, NEW v \in Verdicts, HandleHello(h, v)
  PROVE  LinkInv'
<1>a. LinkShape /\ VerdictsAreGiven
  BY DEF LinkInv
<1>1. /\ UNCHANGED <<engine, run, system, stopper, calm, mtu>>
      /\ refused' = (refused \/ (v = "refuse" /\ h.key = "now"))
  BY DEF HandleHello
<1>2. CASE Awaited /\ h.port = "now" /\ answers' = {Answer(h, v)}
  <2>1. /\ Answer(h, v) \in Answers
        /\ Mine(Answer(h, v)) /\ Answer(h, v).kind = "refuse" => v = "refuse" /\ h.key = "now"
    BY DEF Answer, Answers, Mine
  <2>2. QED
    BY <1>a, <1>1, <1>2, <2>1, NetworkStep DEF LinkShape
<1>3. CASE answers' = {[a EXCEPT !.live = @ /\ v # "accept"] : a \in answers}
  <2>1. \A a \in Answers : LET b == [a EXCEPT !.live = @ /\ v # "accept"]
                          IN b \in Answers /\ b.key = a.key /\ b.kind = a.kind
    BY DEF Answers
  <2>2. /\ answers' \in SUBSET Answers /\ (answers = {} => answers' = {})
        /\ \A b \in answers' : \E a \in answers : b.key = a.key /\ b.kind = a.kind
    <3>1. answers \in SUBSET Answers
      BY <1>a DEF LinkShape
    <3>2. \A b \in answers' : \E a \in answers : b = [a EXCEPT !.live = @ /\ v # "accept"]
      BY <1>3
    <3>3. ASSUME NEW b \in answers'
          PROVE  b \in Answers /\ \E a \in answers : b.key = a.key /\ b.kind = a.kind
      <4>1. PICK a \in answers : b = [a EXCEPT !.live = @ /\ v # "accept"]
        BY <3>2
      <4>2. a \in Answers
        BY <3>1
      <4>3. QED
        BY <2>1, <4>1, <4>2
    <3>4. QED
      BY <3>2, <3>3
  <2>3. \A a \in answers' : Mine(a) /\ a.kind = "refuse" => refused'
    BY <1>a, <1>1, <2>2 DEF VerdictsAreGiven, Mine
  <2>4. QED
    BY <1>a, <1>1, <2>2, <2>3, NetworkStep DEF LinkShape, VerdictsAreGiven
<1>4. QED
  BY <1>2, <1>3 DEF HandleHello

LEMMA OtherStep ==
  ASSUME LinkInv,
         \/ \E h \in hellos : LoseHello(h)
         \/ \E a \in answers : LoseAnswer(a)
         \/ \E v \in Verdicts : CrossTalk(v)
         \/ Reap \/ Calm
  PROVE  LinkInv'
<1>a. LinkShape /\ VerdictsAreGiven
  BY DEF LinkInv
<1>1. ASSUME NEW h \in hellos, LoseHello(h) PROVE LinkInv'
  BY <1>a, <1>1, NetworkStep DEF LoseHello, LinkShape, VerdictsAreGiven
<1>2. ASSUME NEW a \in answers, LoseAnswer(a) PROVE LinkInv'
  BY <1>a, <1>2, NetworkStep DEF LoseAnswer, LinkShape, VerdictsAreGiven
<1>3. ASSUME NEW v \in Verdicts, CrossTalk(v) PROVE LinkInv'
  <2>1. answers' \in SUBSET Answers /\ \A a \in answers' : ~Mine(a)
    BY <1>3 DEF CrossTalk, Answers, Mine
  <2>2. QED
    BY <1>a, <1>3, <2>1, NetworkStep DEF CrossTalk, LinkShape, Awaited
<1>4. ASSUME Reap PROVE LinkInv'
  <2>1. \A a \in Answers : LET b == [a EXCEPT !.live = FALSE]
                          IN b \in Answers /\ b.key = a.key /\ b.kind = a.kind
    BY DEF Answers
  <2>2. /\ answers' \in SUBSET Answers /\ (answers = {} => answers' = {})
        /\ \A b \in answers' : \E a \in answers : b.key = a.key /\ b.kind = a.kind
    <3>1. answers \in SUBSET Answers
      BY <1>a DEF LinkShape
    <3>2. \A b \in answers' : \E a \in answers : b = [a EXCEPT !.live = FALSE]
      BY <1>4 DEF Reap
    <3>3. ASSUME NEW b \in answers'
          PROVE  b \in Answers /\ \E a \in answers : b.key = a.key /\ b.kind = a.kind
      <4>1. PICK a \in answers : b = [a EXCEPT !.live = FALSE]
        BY <3>2
      <4>2. a \in Answers
        BY <3>1
      <4>3. QED
        BY <2>1, <4>1, <4>2
    <3>4. QED
      BY <3>2, <3>3
  <2>3. \A a \in answers' : Mine(a) /\ a.kind = "refuse" => refused'
    BY <1>a, <1>4, <2>2 DEF Reap, VerdictsAreGiven, Mine
  <2>4. QED
    BY <1>a, <1>4, <2>2, <2>3, NetworkStep DEF Reap, LinkShape, VerdictsAreGiven
<1>5. ASSUME Calm PROVE LinkInv'
  BY <1>a, <1>5, NetworkStep DEF Calm, LinkShape, VerdictsAreGiven
<1>6. QED
  BY <1>1, <1>2, <1>3, <1>4, <1>5

LEMMA LinkStep == LinkInv /\ [LinkNext]_linkVars => LinkInv'
<1>1. ASSUME LinkInv, LinkNext PROVE LinkInv'
  BY <1>1, StartStep, RunStep, MtuStep, StopStep, LinkServerStep, OtherStep DEF LinkNext
<1>2. ASSUME LinkInv, UNCHANGED linkVars PROVE LinkInv'
  BY <1>2 DEF linkVars, LinkInv, LinkShape, HandlesOfRun, ShownWhenOver, VerdictsAreGiven, Awaited, Mine
<1>3. QED
  BY <1>1, <1>2

LEMMA LinkInvHolds == LinkSpec => []LinkInv
BY LinkStarts, LinkStep, PTL DEF LinkSpec

-----------------------------------------------------------------------------
(* The theorems *)

\* Start finds nothing of the last run, whichever Stop, failure or refusal ended it, and the
\* variables keep their types (Engine.Start, the deferred calls of run).
THEOREM RunsStartClean == LinkSpec => []StartsClean
<1>1. LinkInv => StartsClean
  <2> SUFFICES ASSUME LinkInv PROVE StartsClean
    OBVIOUS
  <2>1. LinkTypeOK
    BY LinkAssumption DEF LinkInv, LinkShape, LinkTypeOK, States, Parts
  <2>2. CleanWhenStartable
    BY DEF LinkInv, HandlesOfRun, CleanWhenStartable
  <2>3. QED
    BY <2>1, <2>2 DEF StartsClean
<1>2. QED
  BY <1>1, LinkInvHolds, PTL

\* The client gives up only on the server's refusal of a hello of this handshake, and a Stop that
\* returns leaves nothing in the system unless another run has begun (Engine.handshake, Stop).
THEOREM RunsEndAsTheyShould == LinkSpec => RunsEndRightly
<1>1. LinkInv /\ [LinkNext]_linkVars => [~engine.terminal /\ engine'.terminal => refused]_linkVars
  <2> SUFFICES ASSUME LinkInv, LinkNext, ~engine.terminal, engine'.terminal PROVE refused
    BY DEF linkVars
  <2>1. LinkShape /\ VerdictsAreGiven
    BY DEF LinkInv
  <2>2. Dismiss
    <3>1. engine' # engine /\ engine'.terminal # engine.terminal
      OBVIOUS
    <3>2. \A state : ~Shows(state)
      BY <2>1, <3>1 DEF Shows, LinkShape
    <3>3. /\ ~Start /\ ~Finish
          /\ \A s \in Stoppers : ~StopOf(s)
      <4>1. ~Start
        BY <3>1 DEF Start
      <4>2. ~Finish
        BY <2>1, <3>1 DEF Finish, LinkShape
      <4>3. ASSUME NEW s \in Stoppers PROVE ~StopTakes(s)
        BY <2>1, <3>1 DEF StopTakes, LinkShape
      <4>4. ASSUME NEW s \in Stoppers PROVE ~StopCancels(s) /\ ~StopShows(s)
        BY <3>2 DEF StopCancels, StopShows
      <4>5. ASSUME NEW s \in Stoppers PROVE ~StopCloses(s) /\ ~StopSees(s)
        BY <3>1 DEF StopCloses, StopSees
      <4>6. QED
        BY <4>1, <4>2, <4>3, <4>4, <4>5 DEF StopOf
    <3>4. QED
      BY <3>1, <3>2, <3>3 DEF LinkNext, Run, Open, Loop, SendHello, Receive, Ignore, Accepted, Rejected,
         TimeOut, HandshakeFailed, Rotate, Sleep, Apply, ComesUp, PumpEnds, Exit, Heartbeat, Pong,
         Reap, LoseHello, HandleHello, LoseAnswer, CrossTalk, Calm
  <2>3. run.refused
    BY <2>1, <2>2 DEF Dismiss, Shows, LinkShape
  <2>4. QED
    BY <2>1, <2>2, <2>3 DEF Dismiss, VerdictsAreGiven
<1>2. LinkInv /\ [LinkNext]_linkVars =>
        [\A s \in Stoppers : stopper[s].at # "none" /\ stopper'[s].at = "none" =>
           system \subseteq {"stray"} \/ (stopper[s].over /\ run.at # "none")]_linkVars
  <2> SUFFICES ASSUME LinkInv, LinkNext, NEW s \in Stoppers,
                      stopper[s].at # "none", stopper'[s].at = "none"
               PROVE  system \subseteq {"stray"} \/ (stopper[s].over /\ run.at # "none")
    BY DEF linkVars
  <2>1. LinkShape /\ HandlesOfRun /\ ShownWhenOver
    BY DEF LinkInv
  <2>2. StopSees(s) \/ StopShows(s)
    <3>1. PICK t \in Stoppers : StopOf(t)
      <4>1. stopper' # stopper
        OBVIOUS
      <4>2. ~Finish
        BY <2>1 DEF Finish, LinkShape
      <4>3. QED
        BY <4>1, <4>2 DEF LinkNext, Start, Run, Open, Loop, SendHello, Receive, Ignore, Accepted, Rejected,
           TimeOut, HandshakeFailed, Dismiss, Rotate, Sleep, Apply, ComesUp, PumpEnds, Exit, Heartbeat,
           Pong, Reap, LoseHello, HandleHello, LoseAnswer, CrossTalk, Calm
    <3>2. t = s
      BY <2>1, <3>1 DEF StopOf, StopTakes, StopCancels, StopCloses, StopSees, StopShows, StopGoes, LinkShape
    <3>3. QED
      BY <2>1, <3>1, <3>2 DEF StopOf, StopTakes, StopCancels, StopCloses, StopSees, StopShows,
         StopGoes, LinkShape
  <2>3. CASE StopSees(s)
    <3>1. engine.cancel
      BY <2>1, <2>3 DEF StopSees, StopGoes, LinkShape
    <3>2. QED
      BY <2>1, <2>3, <3>1 DEF StopSees, HandlesOfRun
  <2>4. CASE StopShows(s)
    BY <2>1, <2>4 DEF StopShows, ShownWhenOver, HandlesOfRun
  <2>5. QED
    BY <2>2, <2>3, <2>4
<1>3. QED
  BY <1>1, <1>2, LinkInvHolds, PTL DEF LinkSpec, RunsEndRightly, GivesUpWhenRefused, StopWaits

-----------------------------------------------------------------------------
(* The routes *)

\* The values the variables take.
Shape ==
  /\ states \in [Addrs -> RouteState \cup {None}]
  /\ pump \in [at : Addrs \cup {None}, stage : {"idle", "read", "lock", "pass", "lost"}]
  /\ installer \in [todo : SUBSET Addrs, at : Addrs \cup {None},
                    stage : {"idle", "add", "added", "failed", "drain", "orphan"}]
  /\ remover \in [at : Addrs \cup {None}, stage : {"idle", "delete", "deleted", "failed"}]
  /\ removals \in Seq(Addrs)
  /\ route \in SUBSET Addrs /\ timers \in SUBSET Addrs /\ on \in SUBSET Addrs
  /\ wake \in BOOLEAN
  /\ link = {None} \/ link \in SUBSET Addrs
  /\ push # None => push \in SUBSET Addrs

\* A worker names an address exactly while it is at work; what fails is flaky.
WorkersOK ==
  /\ pump.stage = "idle" <=> pump.at = None
  /\ installer.stage = "idle" <=> installer.at = None
  /\ remover.stage = "idle" <=> remover.at = None
  /\ installer.stage = "failed" => installer.at \in Flaky
  /\ remover.stage = "failed" => remover.at \in Flaky

\* The table and the queue do not overflow.
Bounded == Cardinality(Entries) <= MaxRoutes /\ Len(removals) <= RemoveQueue

\* An entry leaves the table by the remover at it or with the connection.
LinkOK ==
  /\ ~Up => Entries = {}
  /\ Up /\ remover.at # None => remover.at \in Entries
  /\ pump.stage \in {"read", "lock"} => pump.at \in Entries

\* Whoever waits for a route has someone to install it; an entry that appears while an orphan is
\* taken back finds the installer woken.
WaitingIsSeen ==
  /\ \A a \in Entries :
       /\ ~states[a].installing => states[a].pending = 0
       /\ states[a].later => a \in timers
       /\ states[a].installing => wake \/ a \in installer.todo \/ installer.at = a \/ a \in timers
  /\ installer.stage = "orphan" /\ installer.at \in Entries => wake

\* A reliable entry that installs is not about to be removed.
Reliable(a) ==
  /\ ~states[a].later
  /\ states[a].installing => ~states[a].due /\ ~states[a].removing
  /\ ~states[a].installing /\ remover.at # a => a \in route

\* The installer at a reliable address finds it installing and not with the remover; the remover
\* finds it installed, and touched when it is no longer to be removed.
KeptApart(a) ==
  /\ installer.at = a => remover.at # a /\ (a \in Entries => states[a].installing)
  /\ installer.at = a /\ installer.stage \in {"added", "drain"} /\ Up => a \in route
  /\ remover.at = a /\ a \in Entries =>
       ~states[a].installing /\ (states[a].removing \/ ~states[a].due)

ReliableOK == \A a \in Addrs \ Flaky : (a \in Entries => Reliable(a)) /\ KeptApart(a)

RoutesInv == Shape /\ WorkersOK /\ Bounded /\ LinkOK /\ WaitingIsSeen /\ ReliableOK

-----------------------------------------------------------------------------
(* What a push or a packet does to the table *)

LEMMA LeastOfTwo ==
  ASSUME NEW x \in Int, NEW y \in Int
  PROVE  Min({x, y}) \in Int /\ Min({x, y}) <= x /\ Min({x, y}) <= y
<1>1. \E z \in {x, y} : \A w \in {x, y} : z <= w
  <2>1. CASE x <= y
    BY <2>1
  <2>2. CASE y < x
    BY <2>2
  <2>3. QED
    BY <2>1, <2>2
<1>2. Min({x, y}) \in {x, y} /\ \A w \in {x, y} : Min({x, y}) <= w
  BY <1>1 DEF Min
<1>3. QED
  BY <1>2

LEMMA EntriesFinite == IsFiniteSet(Entries) /\ Cardinality(Entries) \in Nat
<1>1. IsFiniteSet(Entries)
  BY RoutesAssumption, FS_Subset DEF Entries
<1>2. QED
  BY <1>1, FS_CardinalityType

\* An address of a push keeps its entry, touched, or gets one if there is room; no other does.
LEMMA EnsuredIs ==
  ASSUME Shape, Bounded, NEW A \in SUBSET Addrs, Ensured(A)
  PROVE  /\ states' \in [Addrs -> RouteState \cup {None}]
         /\ \A a \in Addrs : \/ states'[a] = states[a]
                             \/ a \in Entries /\ states'[a] = Touch(states[a])
                             \/ a \notin Entries /\ states'[a] = NewEntry /\ wake'
         /\ wake' \in BOOLEAN /\ (wake => wake')
         /\ Cardinality(Entries') <= MaxRoutes
<1> DEFINE new == A \ Entries
           room == MaxRoutes - Cardinality(Entries)
<1>1. IsFiniteSet(new) /\ Cardinality(new) \in Nat
  BY RoutesAssumption, FS_Subset, FS_CardinalityType
<1>2. room \in Nat
  BY EntriesFinite, RoutesAssumption DEF Bounded
<1>3. PICK N \in SUBSET new :
        /\ Cardinality(N) = Min({Cardinality(new), room})
        /\ states' = [a \in Addrs |-> IF a \in N THEN NewEntry
                                     ELSE IF a \in A \cap Entries THEN Touch(states[a]) ELSE states[a]]
        /\ wake' = (wake \/ N # {})
  BY DEF Ensured
<1> HIDE DEF new, room
<1>4. IsFiniteSet(N) /\ Cardinality(N) <= room
  <2>1. Min({Cardinality(new), room}) <= room
    <3>1. Cardinality(new) \in Int /\ room \in Int
      BY <1>1, <1>2
    <3>2. QED
      BY <3>1, LeastOfTwo
  <2>2. IsFiniteSet(N)
    BY <1>1, <1>3, FS_Subset
  <2>3. QED
    BY <1>3, <2>1, <2>2
<1>5. NewEntry \in RouteState /\ NewEntry # None
  <2>1. NewEntry \in RouteState
    BY RoutesAssumption DEF NewEntry, RouteState
  <2>2. QED
    BY <2>1, RoutesAssumption
<1>6. \A a \in Entries : Touch(states[a]) \in RouteState /\ Touch(states[a]) # None
  <2>1. ASSUME NEW e \in RouteState PROVE Touch(e) \in RouteState
    <3>1. 0 \in 0..DeleteTries
      BY RoutesAssumption
    <3>2. QED
      BY <3>1 DEF Touch, RouteState
  <2>2. \A a \in Entries : states[a] \in RouteState
    BY DEF Shape, Entries
  <2>3. QED
    BY <2>1, <2>2, RoutesAssumption
<1>7. states' \in [Addrs -> RouteState \cup {None}]
  BY <1>3, <1>5, <1>6 DEF Shape
<1>8. N \cap Entries = {}
  BY <1>3 DEF new
<1>9. Entries' = Entries \cup N
  BY <1>3, <1>5, <1>6, <1>8 DEF Entries, new
<1>10. Cardinality(Entries') = Cardinality(Entries) + Cardinality(N)
  <2>1. Cardinality(Entries \cap N) = 0
    BY <1>8, FS_EmptySet
  <2>2. Cardinality(N) \in Nat
    BY <1>4, FS_CardinalityType
  <2>3. Cardinality(Entries \cup N) = Cardinality(Entries) + Cardinality(N) - Cardinality(Entries \cap N)
    BY <1>4, EntriesFinite, FS_Union
  <2>4. QED
    BY <1>9, <2>1, <2>2, <2>3, EntriesFinite
<1>11. Cardinality(Entries') <= MaxRoutes
  <2>1. Cardinality(N) \in Nat
    BY <1>4, FS_CardinalityType
  <2>2. QED
    BY <1>4, <1>10, <2>1, EntriesFinite, RoutesAssumption DEF room
<1>12. QED
  BY <1>3, <1>7, <1>8, <1>11 DEF Shape, new

\* One entry changes, or leaves.
LEMMA EntryBecomes ==
  ASSUME Shape, NEW a \in Entries, NEW rec \in RouteState, states' = [states EXCEPT ![a] = rec]
  PROVE  /\ states' \in [Addrs -> RouteState \cup {None}]
         /\ Entries' = Entries /\ states'[a] = rec
         /\ \A b \in Addrs \ {a} : states'[b] = states[b]
<1>1. a \in Addrs
  BY DEF Entries
<1>2. rec # None
  BY RoutesAssumption
<1>3. /\ states' \in [Addrs -> RouteState \cup {None}] /\ states'[a] = rec
      /\ \A b \in Addrs \ {a} : states'[b] = states[b]
  BY <1>1 DEF Shape
<1>4. QED
  BY <1>1, <1>2, <1>3 DEF Entries

LEMMA EntryLeaves ==
  ASSUME Shape, Bounded, NEW a \in Addrs, states' = [states EXCEPT ![a] = None]
  PROVE  /\ states' \in [Addrs -> RouteState \cup {None}]
         /\ Entries' = Entries \ {a}
         /\ \A b \in Addrs \ {a} : states'[b] = states[b]
         /\ Cardinality(Entries') <= MaxRoutes
<1>1. /\ states' \in [Addrs -> RouteState \cup {None}] /\ states'[a] = None
      /\ \A b \in Addrs \ {a} : states'[b] = states[b]
  BY DEF Shape
<1>2. Entries' = Entries \ {a}
  BY <1>1 DEF Entries
<1>3. Cardinality(Entries') <= Cardinality(Entries) /\ Cardinality(Entries') \in Nat
  BY <1>2, EntriesFinite, FS_Subset, FS_CardinalityType
<1>4. QED
  BY <1>1, <1>2, <1>3, EntriesFinite, RoutesAssumption DEF Bounded

\* A packet or a push, while the connection is up.
LEMMA TableTouched ==
  ASSUME RoutesInv, NEW A \in SUBSET Addrs, Up, Ensured(A),
         UNCHANGED <<route, installer, timers, removals, remover, link>>
  PROVE  /\ Bounded' /\ WaitingIsSeen' /\ ReliableOK'
         /\ states' \in [Addrs -> RouteState \cup {None}] /\ wake' \in BOOLEAN
         /\ Up' /\ Entries \subseteq Entries'
<1>a. Shape /\ WorkersOK /\ Bounded /\ LinkOK /\ WaitingIsSeen /\ ReliableOK
  BY DEF RoutesInv
<1>1. /\ states' \in [Addrs -> RouteState \cup {None}]
      /\ \A a \in Addrs : \/ states'[a] = states[a]
                          \/ a \in Entries /\ states'[a] = Touch(states[a])
                          \/ a \notin Entries /\ states'[a] = NewEntry /\ wake'
      /\ wake' \in BOOLEAN /\ (wake => wake')
      /\ Cardinality(Entries') <= MaxRoutes
  BY <1>a, EnsuredIs
<1>2. \A a \in Entries : states[a] \in RouteState
  BY <1>a DEF Shape, Entries
<1>3. ASSUME NEW e \in RouteState
      PROVE  LET t == Touch(e) IN
             /\ t \in RouteState /\ t # None
             /\ t.installing = e.installing /\ t.later = e.later /\ t.pending = e.pending
             /\ t.removing = FALSE /\ t.due = FALSE
  <2>1. 0 \in 0..DeleteTries
    BY RoutesAssumption
  <2>2. Touch(e) \in RouteState
    BY <2>1 DEF Touch, RouteState
  <2>3. QED
    BY <2>2, RoutesAssumption DEF Touch, RouteState
<1>4. /\ NewEntry.installing /\ ~NewEntry.later /\ NewEntry.pending = 0
      /\ ~NewEntry.removing /\ ~NewEntry.due
  BY DEF NewEntry
<1>5. ASSUME NEW a \in Entries'
      PROVE  \/ a \notin Entries /\ states'[a] = NewEntry /\ wake'
             \/ /\ a \in Entries
                /\ states'[a].installing = states[a].installing
                /\ states'[a].later = states[a].later
                /\ states'[a].pending = states[a].pending
                /\ \/ states'[a] = states[a]
                   \/ states'[a].removing = FALSE /\ states'[a].due = FALSE
  <2>1. a \in Addrs /\ states'[a] # None
    BY DEF Entries
  <2>2. CASE states'[a] = states[a]
    BY <2>1, <2>2 DEF Entries
  <2>3. CASE a \in Entries /\ states'[a] = Touch(states[a])
    <3> DEFINE e == states[a]
               t == Touch(e)
    <3>1. e \in RouteState
      BY <1>2, <2>3
    <3>2. /\ t.installing = e.installing /\ t.later = e.later /\ t.pending = e.pending
          /\ t.removing = FALSE /\ t.due = FALSE
      BY <1>3, <3>1
    <3>3. states'[a] = t
      BY <2>3
    <3> HIDE DEF t
    <3>4. QED
      BY <2>3, <3>2, <3>3
  <2>4. CASE a \notin Entries /\ states'[a] = NewEntry /\ wake'
    BY <2>4
  <2>5. QED
    BY <1>1, <2>1, <2>2, <2>3, <2>4
<1>6. \A a \in Entries : a \in Entries'
  BY <1>1, <1>2, <1>3 DEF Entries
<1>7. WaitingIsSeen'
  <2>1. ASSUME NEW a \in Entries'
        PROVE  /\ ~states'[a].installing => states'[a].pending = 0
               /\ states'[a].later => a \in timers'
               /\ states'[a].installing =>
                    wake' \/ a \in installer'.todo \/ installer'.at = a \/ a \in timers'
    BY <1>a, <1>1, <1>4, <1>5 DEF WaitingIsSeen
  <2>2. installer'.stage = "orphan" /\ installer'.at \in Entries' => wake'
    BY <1>a, <1>1, <1>5 DEF WaitingIsSeen
  <2>3. QED
    BY <2>1, <2>2 DEF WaitingIsSeen
<1>8. ASSUME NEW a \in Addrs \ Flaky
      PROVE  (a \in Entries' => Reliable(a)') /\ KeptApart(a)'
  <2>1. (a \in Entries => Reliable(a)) /\ KeptApart(a)
    BY <1>a DEF ReliableOK
  <2>2. a \in Entries' => Reliable(a)'
    BY <1>4, <1>5, <2>1 DEF Reliable
  <2>3. remover.at = a => a \in Entries
    BY <1>a, RoutesAssumption DEF LinkOK
  <2>4. KeptApart(a)'
    BY <1>4, <1>5, <2>1, <2>3 DEF KeptApart, Up
  <2>5. QED
    BY <2>2, <2>4
<1>9. ReliableOK'
  BY <1>8 DEF ReliableOK
<1>10. QED
  BY <1>a, <1>1, <1>6, <1>7, <1>9 DEF Bounded, Up

LEMMA DeliverStep ==
  ASSUME RoutesInv, NEW a \in Addrs, Deliver(a)
  PROVE  RoutesInv'
<1>a. Shape /\ WorkersOK /\ Bounded /\ LinkOK
  BY DEF RoutesInv
<1>1. /\ Bounded' /\ WaitingIsSeen' /\ ReliableOK'
      /\ states' \in [Addrs -> RouteState \cup {None}] /\ wake' \in BOOLEAN
      /\ Up' /\ Entries \subseteq Entries'
  BY TableTouched DEF Deliver
<1>2. /\ pump' \in [at : Addrs \cup {None}, stage : {"idle", "read", "lock", "pass", "lost"}]
      /\ pump'.stage = "idle" <=> pump'.at = None
      /\ pump'.stage \in {"read", "lock"} => pump'.at \in Entries'
  BY RoutesAssumption DEF Deliver, IdlePump, Entries
<1>3. Shape' /\ WorkersOK'
  BY <1>a, <1>1, <1>2 DEF Deliver, Shape, WorkersOK
<1>4. LinkOK'
  BY <1>a, <1>1, <1>2 DEF Deliver, LinkOK
<1>5. QED
  BY <1>1, <1>3, <1>4 DEF RoutesInv

LEMMA SyncStep ==
  ASSUME RoutesInv, Sync
  PROVE  RoutesInv'
<1>a. Shape /\ WorkersOK /\ Bounded /\ LinkOK
  BY DEF RoutesInv
<1>1. push \in SUBSET Addrs
  BY <1>a DEF Sync, Shape
<1>2. /\ Bounded' /\ WaitingIsSeen' /\ ReliableOK'
      /\ states' \in [Addrs -> RouteState \cup {None}] /\ wake' \in BOOLEAN
      /\ Up' /\ Entries \subseteq Entries'
  BY <1>1, TableTouched DEF Sync
<1>3. Shape' /\ WorkersOK' /\ LinkOK'
  BY <1>a, <1>2 DEF Sync, Shape, WorkersOK, LinkOK, IdlePump
<1>4. QED
  BY <1>2, <1>3 DEF RoutesInv

-----------------------------------------------------------------------------
(* The pump, the server and the connection *)

LEMMA PumpStep ==
  ASSUME RoutesInv, Look \/ Buffer
  PROVE  RoutesInv'
<1>a. Shape /\ WorkersOK /\ Bounded /\ LinkOK /\ WaitingIsSeen /\ ReliableOK
  BY DEF RoutesInv
<1>1. CASE Look
  <2>1. /\ pump' \in [at : Addrs \cup {None}, stage : {"idle", "read", "lock", "pass", "lost"}]
        /\ pump'.stage = "idle" <=> pump'.at = None
        /\ pump'.stage \in {"read", "lock"} => pump'.at \in Entries
    <3>1. pump \in [at : Addrs \cup {None}, stage : {"idle", "read", "lock", "pass", "lost"}]
      BY <1>a DEF Shape
    <3>2. CASE pump.stage = "read" /\ pump' = [pump EXCEPT !.stage = "lock"]
      <4>1. pump'.at = pump.at /\ pump'.stage = "lock" /\ pump.at \in Entries
        BY <1>a, <3>1, <3>2 DEF LinkOK
      <4>2. pump.at # None
        BY <1>a, <3>2 DEF WorkersOK
      <4>3. QED
        BY <3>1, <3>2, <4>1, <4>2
    <3>3. CASE pump' = IdlePump
      BY <3>3 DEF IdlePump
    <3>4. QED
      BY <1>1, <3>2, <3>3 DEF Look
  <2>2. Entries' = Entries
    BY <1>1 DEF Look, Entries
  <2>3. Shape' /\ WorkersOK' /\ LinkOK'
    BY <1>a, <1>1, <2>1, <2>2 DEF Look, Shape, WorkersOK, LinkOK, Up
  <2>4. Bounded' /\ WaitingIsSeen' /\ ReliableOK'
    BY <1>a, <1>1, <2>2 DEF Look, Bounded, WaitingIsSeen, ReliableOK, Reliable, KeptApart, Up
  <2>5. QED
    BY <2>3, <2>4 DEF RoutesInv
<1>2. CASE Buffer
  <2> DEFINE a == pump.at
  <2>1. a \in Addrs /\ states[a] \in RouteState /\ a \in Entries
    BY <1>a, <1>2 DEF Buffer, LinkOK, Shape, Entries
  <2>2. pump' = IdlePump /\ UNCHANGED <<route, installer, wake, timers, removals, remover, link, on, push>>
    BY <1>2 DEF Buffer
  <2>3. CASE states' = states
    <3>1. Entries' = Entries
      BY <2>3 DEF Entries
    <3>2. Shape' /\ WorkersOK' /\ LinkOK'
      BY <1>a, <2>2, <2>3, <3>1, RoutesAssumption DEF IdlePump, Shape, WorkersOK, LinkOK, Up
    <3>3. Bounded' /\ WaitingIsSeen' /\ ReliableOK'
      BY <1>a, <2>2, <2>3, <3>1 DEF Bounded, WaitingIsSeen, ReliableOK, Reliable, KeptApart, Up
    <3>4. QED
      BY <3>2, <3>3 DEF RoutesInv
  <2>4. CASE /\ states[a].installing /\ states[a].pending < PendingCap
             /\ states' = [states EXCEPT ![a].pending = @ + 1]
    <3>1. PICK rec \in RouteState :
            /\ states' = [states EXCEPT ![a] = rec] /\ rec # None
            /\ rec.installing /\ rec.later = states[a].later
            /\ rec.removing = states[a].removing /\ rec.due = states[a].due
      <4> DEFINE rec == [states[a] EXCEPT !.pending = @ + 1]
      <4>1. states[a].pending + 1 \in 0..PendingCap
        BY <2>1, <2>4, RoutesAssumption DEF RouteState
      <4>2. /\ rec \in RouteState /\ rec.installing = states[a].installing
            /\ rec.later = states[a].later /\ rec.removing = states[a].removing /\ rec.due = states[a].due
        BY <2>1, <4>1 DEF RouteState
      <4>3. states' = [states EXCEPT ![a] = rec]
        BY <2>4
      <4> HIDE DEF rec
      <4>4. QED
        BY <2>4, <4>2, <4>3, RoutesAssumption
    <3>2. /\ states' \in [Addrs -> RouteState \cup {None}] /\ states'[a] = rec
          /\ \A b \in Addrs \ {a} : states'[b] = states[b]
      BY <1>a, <2>1, <3>1 DEF Shape
    <3>3. Entries' = Entries
      BY <2>1, <3>1, <3>2 DEF Entries
    <3>4. Shape' /\ WorkersOK' /\ LinkOK'
      BY <1>a, <2>2, <3>2, <3>3, RoutesAssumption DEF IdlePump, Shape, WorkersOK, LinkOK, Up
    <3>5. \A b \in Entries : /\ states'[b].installing = states[b].installing
                             /\ states'[b].later = states[b].later
                             /\ states'[b].removing = states[b].removing
                             /\ states'[b].due = states[b].due
                             /\ ~states[b].installing => states'[b].pending = states[b].pending
      <4>1. rec.installing = states[a].installing
        BY <2>1, <2>4, <3>1 DEF RouteState
      <4>2. QED
        BY <2>4, <3>1, <3>2, <4>1 DEF Entries
    <3>6. Bounded' /\ WaitingIsSeen' /\ ReliableOK'
      BY <1>a, <2>2, <3>3, <3>5 DEF Bounded, WaitingIsSeen, ReliableOK, Reliable, KeptApart, Up
    <3>7. QED
      BY <3>4, <3>6 DEF RoutesInv
  <2>5. QED
    BY <1>2, <2>3, <2>4 DEF Buffer
<1>3. QED
  BY <1>1, <1>2

LEMMA ServerStep ==
  ASSUME RoutesInv, (\E a \in Addrs : Join(a) \/ Leave(a)) \/ Push \/ Lose
  PROVE  RoutesInv'
<1>a. Shape /\ WorkersOK /\ Bounded /\ LinkOK /\ WaitingIsSeen /\ ReliableOK
  BY DEF RoutesInv
<1>1. UNCHANGED <<states, route, pump, installer, wake, timers, removals, remover, link>>
  BY DEF Join, Leave, Push, Lose
<1>2. on' \in SUBSET Addrs /\ (push' # None => push' \in SUBSET Addrs)
  BY <1>a DEF Join, Leave, Push, Lose, Shape
<1>3. Entries' = Entries
  BY <1>1 DEF Entries
<1>4. Shape' /\ WorkersOK' /\ Bounded' /\ LinkOK'
  BY <1>a, <1>1, <1>2, <1>3 DEF Shape, WorkersOK, Bounded, LinkOK, Up
<1>5. WaitingIsSeen' /\ ReliableOK'
  BY <1>a, <1>1, <1>3 DEF WaitingIsSeen, ReliableOK, Reliable, KeptApart, Up
<1>6. QED
  BY <1>4, <1>5 DEF RoutesInv

\* The connection ends, comes back, or the process restarts: until it is up again the table is
\* empty, and it comes up only when nothing that the last one began can still touch a route.
LEMMA ConnectionStep ==
  ASSUME RoutesInv, Disconnect \/ Connect \/ Restart \/ \E a \in Addrs : CleanUp(a)
  PROVE  RoutesInv'
<1>a. Shape /\ WorkersOK /\ Bounded /\ LinkOK /\ WaitingIsSeen /\ ReliableOK
  BY DEF RoutesInv
<1>b. Cardinality({}) = 0 /\ 0 <= MaxRoutes
  BY FS_EmptySet, RoutesAssumption
<1>1. CASE Disconnect \/ Restart
  <2>1. /\ states' = [a \in Addrs |-> None] /\ Entries' = {}
    BY <1>1 DEF Disconnect, Restart, Entries
  <2>2. /\ pump' = IdlePump /\ route' \in SUBSET Addrs /\ push' = None /\ on' = on
        /\ link' = {None} \/ link' \in SUBSET Addrs
    BY <1>a, <1>1 DEF Disconnect, Restart, Shape, Entries
  <2>3. CASE Disconnect
    <3>1. ~Up'
      BY <2>3, RoutesAssumption DEF Disconnect, Up, Entries
    <3>2. Shape' /\ WorkersOK' /\ Bounded' /\ LinkOK'
      BY <1>a, <1>b, <2>1, <2>2, <2>3, <3>1, RoutesAssumption
         DEF Disconnect, Shape, WorkersOK, Bounded, LinkOK, IdlePump
    <3>3. WaitingIsSeen' /\ ReliableOK'
      BY <1>a, <2>1, <2>3, <3>1 DEF Disconnect, WaitingIsSeen, ReliableOK, KeptApart
    <3>4. QED
      BY <3>2, <3>3 DEF RoutesInv
  <2>4. CASE Restart
    <3>1. /\ installer' = IdleInstaller /\ remover' = IdleRemover /\ removals' = <<>> /\ timers' = {}
          /\ wake' = FALSE /\ link' = {None}
      BY <2>4 DEF Restart
    <3>2. Shape'
      <4>1. /\ pump' \in [at : Addrs \cup {None}, stage : {"idle", "read", "lock", "pass", "lost"}]
            /\ installer' \in [todo : SUBSET Addrs, at : Addrs \cup {None},
                               stage : {"idle", "add", "added", "failed", "drain", "orphan"}]
            /\ remover' \in [at : Addrs \cup {None}, stage : {"idle", "delete", "deleted", "failed"}]
        BY <2>2, <3>1 DEF IdlePump, IdleInstaller, IdleRemover
      <4>2. states' \in [Addrs -> RouteState \cup {None}] /\ removals' \in Seq(Addrs)
        BY <2>1, <3>1
      <4>3. QED
        BY <1>a, <2>2, <3>1, <4>1, <4>2 DEF Shape
    <3>3. WorkersOK' /\ LinkOK'
      BY <2>1, <2>2, <3>1 DEF WorkersOK, LinkOK, IdlePump, IdleInstaller, IdleRemover, Up
    <3>4. Bounded'
      BY <1>b, <2>1, <3>1, RoutesAssumption DEF Bounded
    <3>5. WaitingIsSeen' /\ ReliableOK'
      BY <2>1, <3>1, RoutesAssumption DEF WaitingIsSeen, ReliableOK, KeptApart, IdleInstaller, IdleRemover
    <3>6. QED
      BY <3>2, <3>3, <3>4, <3>5 DEF RoutesInv
  <2>5. QED
    BY <1>1, <2>3, <2>4
<1>2. CASE Connect
  <2>1. Entries = {} /\ Entries' = {} /\ Up'
    BY <1>a, <1>2 DEF Connect, LinkOK, Up, Entries
  <2>2. Shape' /\ WorkersOK' /\ Bounded' /\ LinkOK'
    BY <1>a, <1>2, <2>1 DEF Connect, Shape, WorkersOK, Bounded, LinkOK, IdleRemover
  <2>3. WaitingIsSeen' /\ ReliableOK'
    BY <1>a, <1>2, <2>1 DEF Connect, WaitingIsSeen, ReliableOK, KeptApart
  <2>4. QED
    BY <2>2, <2>3 DEF RoutesInv
<1>3. ASSUME NEW a \in Addrs, CleanUp(a) PROVE RoutesInv'
  <2>1. Entries = {} /\ Entries' = {} /\ ~Up /\ ~Up'
    BY <1>a, <1>3, RoutesAssumption DEF CleanUp, LinkOK, Up, Entries, Shape
  <2>2. Shape' /\ WorkersOK' /\ Bounded' /\ LinkOK'
    BY <1>a, <1>3, <2>1 DEF CleanUp, Shape, WorkersOK, Bounded, LinkOK, Up
  <2>3. WaitingIsSeen' /\ ReliableOK'
    BY <1>a, <1>3, <2>1 DEF CleanUp, WaitingIsSeen, ReliableOK, KeptApart
  <2>4. QED
    BY <2>2, <2>3 DEF RoutesInv
<1>4. QED
  BY <1>1, <1>2, <1>3

-----------------------------------------------------------------------------
(* The installer *)

\* Steps of the installer between two looks at the table: no entry changes.
LEMMA InstallerMoves ==
  ASSUME RoutesInv, Collect \/ (\E a \in Addrs : Pick(a)) \/ AddRoute \/ Withdraw
  PROVE  RoutesInv'
<1>a. Shape /\ WorkersOK /\ Bounded /\ LinkOK /\ WaitingIsSeen /\ ReliableOK
  BY DEF RoutesInv
<1>b. /\ UNCHANGED <<states, pump, timers, removals, remover, link, on, push>>
      /\ Entries' = Entries
  BY DEF Collect, Pick, AddRoute, Withdraw, Entries
<1>c. installer \in [todo : SUBSET Addrs, at : Addrs \cup {None},
                    stage : {"idle", "add", "added", "failed", "drain", "orphan"}]
  BY <1>a DEF Shape
<1>d. Bounded' /\ LinkOK'
  BY <1>a, <1>b DEF Bounded, LinkOK, Up
<1>1. CASE Collect
  <2>1. /\ installer'.at = None /\ installer'.stage = "idle"
        /\ installer'.todo = {a \in Addrs : Due(a)}
        /\ installer' \in [todo : SUBSET Addrs, at : Addrs \cup {None},
                          stage : {"idle", "add", "added", "failed", "drain", "orphan"}]
    BY <1>1 DEF Collect, IdleInstaller
  <2>2. installer.at = None /\ route' = route /\ wake' = FALSE
    BY <1>1 DEF Collect, IdleInstaller
  <2>3. Shape' /\ WorkersOK'
    BY <1>a, <1>b, <2>1, <2>2 DEF Shape, WorkersOK
  <2>4. WaitingIsSeen'
    BY <1>a, <1>b, <2>1, <2>2 DEF WaitingIsSeen, Due, Entries
  <2>5. ReliableOK'
    BY <1>a, <1>b, <2>1, <2>2, RoutesAssumption DEF ReliableOK, Reliable, KeptApart
  <2>6. QED
    BY <1>d, <2>3, <2>4, <2>5 DEF RoutesInv
<1>2. ASSUME NEW a \in Addrs, Pick(a) PROVE RoutesInv'
  <2>1. installer.at = None /\ installer.stage = "idle" /\ a \in installer.todo
    BY <1>a, <1>2 DEF Pick, WorkersOK
  <2>2. route' = route /\ wake' = wake
    BY <1>2 DEF Pick
  <2>3. CASE /\ a \in Entries /\ states[a].installing
             /\ installer' = [todo |-> installer.todo \ {a}, at |-> a, stage |-> "add"]
    <3>1. Shape' /\ WorkersOK'
      BY <1>a, <1>b, <1>c, <2>2, <2>3, RoutesAssumption DEF Shape, WorkersOK
    <3>2. WaitingIsSeen'
      BY <1>a, <1>b, <2>1, <2>2, <2>3, RoutesAssumption DEF WaitingIsSeen, Entries
    <3>3. ReliableOK'
      BY <1>a, <1>b, <2>1, <2>2, <2>3 DEF ReliableOK, Reliable, KeptApart
    <3>4. QED
      BY <1>d, <3>1, <3>2, <3>3 DEF RoutesInv
  <2>4. CASE /\ a \in Entries => ~states[a].installing
             /\ installer' = [installer EXCEPT !.todo = @ \ {a}]
    <3>1. /\ installer'.at = None /\ installer'.stage = "idle" /\ installer'.todo = installer.todo \ {a}
          /\ installer' \in [todo : SUBSET Addrs, at : Addrs \cup {None},
                            stage : {"idle", "add", "added", "failed", "drain", "orphan"}]
      BY <1>c, <2>1, <2>4
    <3>2. Shape' /\ WorkersOK'
      BY <1>a, <1>b, <2>2, <3>1 DEF Shape, WorkersOK
    <3>3. WaitingIsSeen'
      BY <1>a, <1>b, <2>1, <2>2, <2>4, <3>1 DEF WaitingIsSeen
    <3>4. ReliableOK'
      BY <1>a, <1>b, <2>2, <3>1, RoutesAssumption DEF ReliableOK, Reliable, KeptApart
    <3>5. QED
      BY <1>d, <3>2, <3>3, <3>4 DEF RoutesInv
  <2>5. QED
    BY <1>2, <2>3, <2>4 DEF Pick, Entries
<1>3. CASE AddRoute
  <2>1. /\ installer.stage = "add" /\ installer.at \in Addrs
        /\ installer'.at = installer.at /\ installer'.todo = installer.todo
        /\ \/ installer'.stage = "added" /\ route' = route \cup {installer.at}
           \/ installer'.stage = "failed" /\ installer.at \in Flaky /\ route' = route
        /\ installer' \in [todo : SUBSET Addrs, at : Addrs \cup {None},
                          stage : {"idle", "add", "added", "failed", "drain", "orphan"}]
    BY <1>a, <1>c, <1>3 DEF AddRoute, WorkersOK
  <2>2. wake' = wake
    BY <1>3 DEF AddRoute
  <2>3. Shape' /\ WorkersOK'
    BY <1>a, <1>b, <2>1, <2>2, RoutesAssumption DEF Shape, WorkersOK
  <2>4. WaitingIsSeen'
    BY <1>a, <1>b, <2>1, <2>2 DEF WaitingIsSeen
  <2>5. ReliableOK'
    BY <1>a, <1>b, <2>1 DEF ReliableOK, Reliable, KeptApart, Up
  <2>6. QED
    BY <1>d, <2>3, <2>4, <2>5 DEF RoutesInv
<1>4. CASE Withdraw
  <2>1. /\ installer.stage = "orphan" /\ installer.at \in Addrs
        /\ installer'.at = None /\ installer'.stage = "idle" /\ installer'.todo = installer.todo
        /\ installer' \in [todo : SUBSET Addrs, at : Addrs \cup {None},
                          stage : {"idle", "add", "added", "failed", "drain", "orphan"}]
    BY <1>a, <1>c, <1>4 DEF Withdraw, Installed, WorkersOK
  <2>2. wake' = wake /\ (route' = route \/ route' = route \ {installer.at})
    BY <1>4 DEF Withdraw
  <2>3. Shape' /\ WorkersOK'
    BY <1>a, <1>b, <2>1, <2>2 DEF Shape, WorkersOK
  <2>4. WaitingIsSeen'
    BY <1>a, <1>b, <2>1, <2>2 DEF WaitingIsSeen
  <2>5. ReliableOK'
    BY <1>a, <1>b, <2>1, <2>2, RoutesAssumption DEF ReliableOK, Reliable, KeptApart
  <2>6. QED
    BY <1>d, <2>3, <2>4, <2>5 DEF RoutesInv
<1>5. QED
  BY <1>1, <1>2, <1>3, <1>4

\* A retry is armed, or fires.
LEMMA RetryStep ==
  ASSUME RoutesInv, AddFailed \/ \E a \in Addrs : Retry(a)
  PROVE  RoutesInv'
<1>a. Shape /\ WorkersOK /\ Bounded /\ LinkOK /\ WaitingIsSeen /\ ReliableOK
  BY DEF RoutesInv
<1>b. UNCHANGED <<route, pump, removals, remover, link, on, push>>
  BY DEF AddFailed, Retry
<1>c. \A a \in Entries : states[a] \in RouteState
  BY <1>a DEF Shape, Entries
<1>d. installer \in [todo : SUBSET Addrs, at : Addrs \cup {None},
                    stage : {"idle", "add", "added", "failed", "drain", "orphan"}]
  BY <1>a DEF Shape
<1>1. CASE AddFailed
  <2> DEFINE a == installer.at
  <2>1. a \in Flaky /\ a \in Addrs /\ wake' = wake /\ a # None
    BY <1>a, <1>1, RoutesAssumption DEF AddFailed, WorkersOK
  <2>2. /\ installer'.at = None /\ installer'.stage = "idle" /\ installer'.todo = installer.todo
        /\ installer' \in [todo : SUBSET Addrs, at : Addrs \cup {None},
                          stage : {"idle", "add", "added", "failed", "drain", "orphan"}]
    BY <1>d, <1>1 DEF AddFailed, Installed
  <2>3. CASE a \notin Entries
    <3>1. states' = states /\ timers' = timers /\ Entries' = Entries
      BY <1>1, <2>1, <2>3 DEF AddFailed, Entries
    <3>2. Shape' /\ WorkersOK' /\ Bounded' /\ LinkOK'
      BY <1>a, <1>b, <2>1, <2>2, <3>1 DEF Shape, WorkersOK, Bounded, LinkOK, Up
    <3>3. WaitingIsSeen'
      BY <1>a, <2>1, <2>2, <2>3, <3>1 DEF WaitingIsSeen
    <3>4. ReliableOK'
      BY <1>a, <1>b, <2>2, <3>1, RoutesAssumption DEF ReliableOK, Reliable, KeptApart
    <3>5. QED
      BY <3>2, <3>3, <3>4 DEF RoutesInv
  <2>4. CASE a \in Entries
    <3>1. PICK rec \in RouteState :
            /\ states' = [states EXCEPT ![a] = rec]
            /\ rec.installing = states[a].installing /\ rec.pending = states[a].pending
      <4> DEFINE rec == [states[a] EXCEPT !.later = TRUE]
      <4>1. /\ rec \in RouteState
            /\ rec.installing = states[a].installing /\ rec.pending = states[a].pending
        BY <1>c, <2>4 DEF RouteState
      <4>2. states' = [states EXCEPT ![a] = rec]
        BY <1>1, <2>4 DEF AddFailed, Entries
      <4> HIDE DEF rec
      <4>3. QED
        BY <4>1, <4>2
    <3>2. /\ states' \in [Addrs -> RouteState \cup {None}]
          /\ Entries' = Entries /\ states'[a] = rec
          /\ \A b \in Addrs \ {a} : states'[b] = states[b]
      BY <1>a, <2>4, <3>1, EntryBecomes
    <3>3. timers' = timers \cup {a}
      BY <1>1, <2>4 DEF AddFailed, Entries
    <3>4. Shape' /\ WorkersOK' /\ Bounded' /\ LinkOK'
      BY <1>a, <1>b, <2>1, <2>2, <3>2, <3>3 DEF Shape, WorkersOK, Bounded, LinkOK, Up
    <3>5. WaitingIsSeen'
      <4>1. \A b \in Addrs \ {a} : states'[b] = states[b] /\ installer.at # b
        BY <3>2
      <4>2. QED
        BY <1>a, <2>1, <2>2, <3>1, <3>2, <3>3, <4>1 DEF WaitingIsSeen, Entries
    <3>6. ReliableOK'
      BY <1>a, <1>b, <2>1, <2>2, <3>2, RoutesAssumption DEF ReliableOK, Reliable, KeptApart
    <3>7. QED
      BY <3>4, <3>5, <3>6 DEF RoutesInv
  <2>5. QED
    BY <2>3, <2>4
<1>2. ASSUME NEW a \in Addrs, Retry(a) PROVE RoutesInv'
  <2>1. installer' = installer /\ wake' = TRUE /\ timers' = timers \ {a}
    BY <1>2 DEF Retry
  <2>2. /\ states' \in [Addrs -> RouteState \cup {None}]
        /\ Entries' = Entries
        /\ \A b \in Addrs \ {a} : states'[b] = states[b]
        /\ a \in Entries => /\ states'[a].later = FALSE
                            /\ states'[a].installing = states[a].installing
                            /\ states'[a].pending = states[a].pending
                            /\ states'[a].due = states[a].due
                            /\ states'[a].removing = states[a].removing
    <3>1. CASE a \in Entries
      <4> DEFINE rec == [states[a] EXCEPT !.later = FALSE]
      <4>1. /\ rec \in RouteState /\ rec.later = FALSE
            /\ rec.installing = states[a].installing /\ rec.pending = states[a].pending
            /\ rec.due = states[a].due /\ rec.removing = states[a].removing
        BY <1>c, <3>1 DEF RouteState
      <4>2. states' = [states EXCEPT ![a] = rec]
        BY <1>2, <3>1 DEF Retry, Entries
      <4> HIDE DEF rec
      <4>3. QED
        BY <1>a, <3>1, <4>1, <4>2, EntryBecomes
    <3>2. CASE a \notin Entries
      BY <1>a, <1>2, <3>2 DEF Retry, Entries, Shape
    <3>3. QED
      BY <3>1, <3>2
  <2>3. Shape' /\ WorkersOK' /\ Bounded' /\ LinkOK'
    BY <1>a, <1>b, <2>1, <2>2 DEF Shape, WorkersOK, Bounded, LinkOK, Up
  <2>4. WaitingIsSeen'
    BY <1>a, <2>1, <2>2 DEF WaitingIsSeen, Entries
  <2>5. ReliableOK'
    BY <1>a, <1>b, <2>1, <2>2 DEF ReliableOK, Reliable, KeptApart, Up
  <2>6. QED
    BY <2>3, <2>4, <2>5 DEF RoutesInv
<1>3. QED
  BY <1>1, <1>2

\* The buffer is written out; when it is empty the entry has its route.
LEMMA DrainStep ==
  ASSUME RoutesInv, Drain
  PROVE  RoutesInv'
<1> DEFINE a == installer.at
<1>a. Shape /\ WorkersOK /\ Bounded /\ LinkOK /\ WaitingIsSeen /\ ReliableOK
  BY DEF RoutesInv
<1>b. UNCHANGED <<route, pump, wake, timers, removals, remover, link, on, push>>
  BY DEF Drain
<1>c. installer \in [todo : SUBSET Addrs, at : Addrs \cup {None},
                    stage : {"idle", "add", "added", "failed", "drain", "orphan"}]
  BY <1>a DEF Shape
<1>d. a \in Addrs /\ a # None /\ installer.stage \in {"added", "drain"}
  BY <1>a DEF Drain, WorkersOK, Shape
<1>1. CASE a \notin Entries
  <2>1. /\ installer'.todo = installer.todo
        /\ \/ installer'.at = None /\ installer'.stage = "idle"
           \/ installer'.at = a /\ installer'.stage = "orphan"
        /\ installer' \in [todo : SUBSET Addrs, at : Addrs \cup {None},
                          stage : {"idle", "add", "added", "failed", "drain", "orphan"}]
    BY <1>c, <1>d, <1>1 DEF Drain, Installed, Entries
  <2>2. states' = states /\ Entries' = Entries
    BY <1>d, <1>1 DEF Drain, Entries
  <2>3. Shape' /\ WorkersOK' /\ Bounded' /\ LinkOK'
    BY <1>a, <1>b, <1>d, <2>1, <2>2 DEF Shape, WorkersOK, Bounded, LinkOK, Up
  <2>4. WaitingIsSeen'
    BY <1>a, <1>b, <1>1, <2>1, <2>2 DEF WaitingIsSeen
  <2>5. ReliableOK'
    BY <1>a, <1>b, <1>1, <2>1, <2>2, RoutesAssumption DEF ReliableOK, Reliable, KeptApart
  <2>6. QED
    BY <2>3, <2>4, <2>5 DEF RoutesInv
<1>2. CASE a \in Entries /\ states[a].pending > 0
  <2>1. PICK rec \in RouteState :
          /\ states' = [states EXCEPT ![a] = rec] /\ rec.pending = 0
          /\ rec.installing = states[a].installing /\ rec.later = states[a].later
          /\ rec.removing = states[a].removing /\ rec.due = states[a].due
    <3> DEFINE rec == [states[a] EXCEPT !.pending = 0]
    <3>1. states[a] \in RouteState /\ 0 \in 0..PendingCap
      BY <1>a, <1>2, RoutesAssumption DEF Shape, Entries
    <3>2. /\ rec \in RouteState /\ rec.pending = 0
          /\ rec.installing = states[a].installing /\ rec.later = states[a].later
          /\ rec.removing = states[a].removing /\ rec.due = states[a].due
      BY <3>1 DEF RouteState
    <3>3. states' = [states EXCEPT ![a] = rec]
      BY <1>2 DEF Drain, Entries
    <3> HIDE DEF rec
    <3>4. QED
      BY <3>2, <3>3
  <2>2. /\ states' \in [Addrs -> RouteState \cup {None}]
        /\ Entries' = Entries /\ states'[a] = rec
        /\ \A b \in Addrs \ {a} : states'[b] = states[b]
    BY <1>a, <1>2, <2>1, EntryBecomes
  <2>3. /\ installer'.todo = installer.todo /\ installer'.at = a /\ installer'.stage = "drain"
        /\ installer' \in [todo : SUBSET Addrs, at : Addrs \cup {None},
                          stage : {"idle", "add", "added", "failed", "drain", "orphan"}]
    BY <1>c, <1>2 DEF Drain, Entries
  <2>4. Shape' /\ WorkersOK' /\ Bounded' /\ LinkOK'
    BY <1>a, <1>b, <1>d, <2>2, <2>3 DEF Shape, WorkersOK, Bounded, LinkOK, Up
  <2>5. WaitingIsSeen'
    BY <1>a, <1>b, <2>1, <2>2, <2>3 DEF WaitingIsSeen, Entries
  <2>6. ReliableOK'
    BY <1>a, <1>b, <1>d, <2>1, <2>2, <2>3 DEF ReliableOK, Reliable, KeptApart, Up, Entries
  <2>7. QED
    BY <2>4, <2>5, <2>6 DEF RoutesInv
<1>3. CASE a \in Entries /\ ~(states[a].pending > 0)
  <2>1. PICK rec \in RouteState :
          /\ states' = [states EXCEPT ![a] = rec] /\ rec.installing = FALSE /\ rec.pending = 0
          /\ rec.later = states[a].later /\ rec.removing = states[a].removing
          /\ rec.due = states[a].due
    <3> DEFINE rec == [states[a] EXCEPT !.installing = FALSE]
    <3>1. states[a] \in RouteState
      BY <1>a, <1>3 DEF Shape, Entries
    <3>2. states[a].pending = 0
      BY <1>3, <3>1, RoutesAssumption DEF RouteState
    <3>3. /\ rec \in RouteState /\ rec.installing = FALSE /\ rec.pending = states[a].pending
          /\ rec.later = states[a].later /\ rec.removing = states[a].removing
          /\ rec.due = states[a].due
      BY <3>1 DEF RouteState
    <3>4. states' = [states EXCEPT ![a] = rec]
      BY <1>3 DEF Drain, Entries
    <3> HIDE DEF rec
    <3>5. QED
      BY <3>2, <3>3, <3>4
  <2>2. /\ states' \in [Addrs -> RouteState \cup {None}]
        /\ Entries' = Entries /\ states'[a] = rec
        /\ \A b \in Addrs \ {a} : states'[b] = states[b]
    BY <1>a, <1>3, <2>1, EntryBecomes
  <2>3. /\ installer'.todo = installer.todo /\ installer'.at = None /\ installer'.stage = "idle"
        /\ installer' \in [todo : SUBSET Addrs, at : Addrs \cup {None},
                          stage : {"idle", "add", "added", "failed", "drain", "orphan"}]
    BY <1>c, <1>3 DEF Drain, Installed, Entries
  <2>4. Shape' /\ WorkersOK' /\ Bounded' /\ LinkOK'
    BY <1>a, <1>b, <1>d, <2>2, <2>3 DEF Shape, WorkersOK, Bounded, LinkOK, Up
  <2>5. WaitingIsSeen'
    BY <1>a, <1>b, <2>1, <2>2, <2>3 DEF WaitingIsSeen, Entries
  <2>6. a \notin Flaky => a \in route /\ remover.at # a
    BY <1>a, <1>d, <1>3 DEF ReliableOK, KeptApart, LinkOK
  <2>7. ReliableOK'
    <3>1. ASSUME NEW b \in Addrs \ Flaky, b # a
          PROVE  (b \in Entries' => Reliable(b)') /\ KeptApart(b)'
      <4>1. (b \in Entries => Reliable(b)) /\ KeptApart(b) /\ states'[b] = states[b]
        BY <1>a, <2>2, <3>1 DEF ReliableOK
      <4>2. QED
        BY <1>b, <2>2, <2>3, <3>1, <4>1, RoutesAssumption DEF Reliable, KeptApart
    <3>2. ASSUME NEW b \in Addrs \ Flaky, b = a
          PROVE  (b \in Entries' => Reliable(b)') /\ KeptApart(b)'
      <4>1. Reliable(b)
        BY <1>a, <1>3, <3>2 DEF ReliableOK
      <4>2. installer'.at # b /\ remover' = remover /\ route' = route
        BY <1>b, <1>d, <2>3, <3>2
      <4>3. states'[b].installing = FALSE /\ states'[b].later = states[b].later
        BY <2>1, <2>2, <3>2
      <4>4. b \in route /\ remover.at # b
        BY <2>6, <3>2
      <4>5. QED
        BY <4>1, <4>2, <4>3, <4>4 DEF Reliable, KeptApart
    <3>3. QED
      BY <3>1, <3>2 DEF ReliableOK
  <2>8. QED
    BY <2>4, <2>5, <2>7 DEF RoutesInv
<1>4. QED
  BY <1>1, <1>2, <1>3

-----------------------------------------------------------------------------
(* Removal *)

LEMMA AgeStep ==
  ASSUME RoutesInv, NEW a \in Addrs, FallDue(a) \/ Prune(a)
  PROVE  RoutesInv'
<1>a. Shape /\ WorkersOK /\ Bounded /\ LinkOK /\ WaitingIsSeen /\ ReliableOK
  BY DEF RoutesInv
<1>b. /\ UNCHANGED <<route, pump, installer, wake, timers, remover, link, on, push>>
      /\ a \in Entries
  BY DEF FallDue, Prune, Entries
<1>c. states[a] \in RouteState
  BY <1>a, <1>b DEF Shape, Entries
<1>1. PICK rec \in RouteState :
        /\ states' = [states EXCEPT ![a] = rec]
        /\ rec.installing = states[a].installing /\ rec.later = states[a].later
        /\ rec.pending = states[a].pending
        /\ \/ /\ states[a].installing => states[a].later
              /\ remover.at # a
           \/ rec.due = states[a].due /\ rec.removing /\ states[a].due
  <2>1. CASE FallDue(a)
    <3> DEFINE rec == [states[a] EXCEPT !.due = TRUE]
    <3>1. /\ rec \in RouteState
          /\ rec.installing = states[a].installing /\ rec.later = states[a].later
          /\ rec.pending = states[a].pending
      BY <1>c DEF RouteState
    <3>2. /\ states' = [states EXCEPT ![a] = rec]
          /\ states[a].installing => states[a].later
          /\ remover.at # a
      BY <2>1 DEF FallDue
    <3> HIDE DEF rec
    <3>3. QED
      BY <3>1, <3>2
  <2>2. CASE Prune(a)
    <3> DEFINE rec == [states[a] EXCEPT !.removing = TRUE]
    <3>1. /\ rec \in RouteState
          /\ rec.installing = states[a].installing /\ rec.later = states[a].later
          /\ rec.pending = states[a].pending /\ rec.due = states[a].due /\ rec.removing
      BY <1>c DEF RouteState
    <3>2. states' = [states EXCEPT ![a] = rec] /\ states[a].due
      BY <2>2 DEF Prune
    <3> HIDE DEF rec
    <3>3. QED
      BY <3>1, <3>2
  <2>3. QED
    BY <2>1, <2>2
<1>2. /\ states' \in [Addrs -> RouteState \cup {None}]
      /\ Entries' = Entries /\ states'[a] = rec
      /\ \A b \in Addrs \ {a} : states'[b] = states[b]
  BY <1>a, <1>b, <1>1, EntryBecomes
<1>3. removals' \in Seq(Addrs) /\ Len(removals') <= RemoveQueue
  <2>1. CASE FallDue(a)
    BY <1>a, <2>1 DEF FallDue, Shape, Bounded
  <2>2. CASE Prune(a)
    <3>1. removals \in Seq(Addrs) /\ removals' = Append(removals, a) /\ Len(removals) < RemoveQueue
      BY <1>a, <2>2 DEF Prune, Shape
    <3>2. QED
      BY <3>1, RoutesAssumption
  <2>3. QED
    BY <2>1, <2>2
<1>4. Shape' /\ WorkersOK' /\ Bounded' /\ LinkOK'
  BY <1>a, <1>b, <1>2, <1>3 DEF Shape, WorkersOK, Bounded, LinkOK, Up
<1>5. WaitingIsSeen'
  BY <1>a, <1>b, <1>1, <1>2 DEF WaitingIsSeen, Entries
<1>6. ASSUME NEW b \in Addrs \ Flaky
      PROVE  (b \in Entries' => Reliable(b)') /\ KeptApart(b)'
  <2>1. (b \in Entries => Reliable(b)) /\ KeptApart(b)
    BY <1>a DEF ReliableOK
  <2>2. CASE b # a
    BY <1>b, <1>2, <2>1, <2>2 DEF Reliable, KeptApart, Up
  <2>3. CASE b = a
    <3>1. /\ states'[a].later = states[a].later /\ states'[a].installing = states[a].installing
          /\ ~states[a].installing
      BY <1>b, <1>1, <1>2, <2>1, <2>3 DEF Reliable
    <3>2. remover.at = a => states'[a].removing
      BY <1>1, <1>2
    <3>3. QED
      BY <1>b, <1>2, <2>1, <2>3, <3>1, <3>2 DEF Reliable, KeptApart, Up
  <2>4. QED
    BY <2>2, <2>3
<1>7. QED
  BY <1>4, <1>5, <1>6 DEF RoutesInv, ReliableOK

\* The remover takes an address off the queue, and route.exe deletes its route or fails.
LEMMA RemoverMoves ==
  ASSUME RoutesInv, BeginRemoval \/ DelRoute
  PROVE  RoutesInv'
<1>a. Shape /\ WorkersOK /\ Bounded /\ LinkOK /\ WaitingIsSeen /\ ReliableOK
  BY DEF RoutesInv
<1>b. /\ UNCHANGED <<states, pump, installer, wake, timers, link, on, push>>
      /\ Entries' = Entries
  BY DEF BeginRemoval, DelRoute, Entries
<1>1. CASE BeginRemoval
  <2> DEFINE a == Head(removals)
  <2>1. /\ a \in Addrs /\ removals' \in Seq(Addrs) /\ Len(removals') <= RemoveQueue
    <3>1. removals \in Seq(Addrs) /\ removals # <<>> /\ removals' = Tail(removals)
      BY <1>a, <1>1 DEF BeginRemoval, Shape
    <3>2. Len(removals) <= RemoveQueue /\ Len(Tail(removals)) = Len(removals) - 1
      BY <1>a, <3>1 DEF Bounded
    <3>3. QED
      BY <3>1, <3>2, RoutesAssumption
  <2>2. route' = route /\ remover = IdleRemover /\ remover.at = None
    BY <1>1 DEF BeginRemoval, IdleRemover
  <2>3. \/ remover' = remover
        \/ a \in Entries /\ states[a].removing /\ remover' = [at |-> a, stage |-> "delete"]
    BY <1>1, <2>1, <2>2 DEF BeginRemoval, Entries
  <2>4. Bounded'
    BY <1>a, <1>b, <2>1 DEF Bounded
  <2>5. CASE remover' = remover
    <3>1. Shape' /\ WorkersOK' /\ LinkOK' /\ WaitingIsSeen'
      BY <1>a, <1>b, <2>1, <2>2, <2>5 DEF Shape, WorkersOK, LinkOK, Up, WaitingIsSeen
    <3>2. ReliableOK'
      BY <1>a, <1>b, <2>2, <2>5 DEF ReliableOK, Reliable, KeptApart, Up
    <3>3. QED
      BY <2>4, <3>1, <3>2 DEF RoutesInv
  <2>6. CASE a \in Entries /\ states[a].removing /\ remover' = [at |-> a, stage |-> "delete"]
    <3>1. Shape' /\ WorkersOK' /\ LinkOK' /\ WaitingIsSeen'
      BY <1>a, <1>b, <2>1, <2>2, <2>6, RoutesAssumption
         DEF Shape, WorkersOK, LinkOK, Up, WaitingIsSeen
    <3>2. ReliableOK'
      BY <1>a, <1>b, <2>1, <2>2, <2>6, RoutesAssumption DEF ReliableOK, Reliable, KeptApart, Up
    <3>3. QED
      BY <2>4, <3>1, <3>2 DEF RoutesInv
  <2>7. QED
    BY <2>3, <2>5, <2>6
<1>2. CASE DelRoute
  <2>1. /\ remover.at \in Addrs /\ remover.at # None /\ remover'.at = remover.at
        /\ remover' \in [at : Addrs \cup {None}, stage : {"idle", "delete", "deleted", "failed"}]
        /\ remover'.stage # "idle" /\ (remover'.stage = "failed" => remover.at \in Flaky)
        /\ route' = route \/ route' = route \ {remover.at}
    BY <1>a, <1>2 DEF DelRoute, Shape, WorkersOK
  <2>2. removals' = removals
    BY <1>2 DEF DelRoute
  <2>3. Shape' /\ WorkersOK' /\ Bounded' /\ LinkOK' /\ WaitingIsSeen'
    BY <1>a, <1>b, <2>1, <2>2 DEF Shape, WorkersOK, Bounded, LinkOK, Up, WaitingIsSeen
  <2>4. ReliableOK'
    BY <1>a, <1>b, <2>1 DEF ReliableOK, Reliable, KeptApart, Up
  <2>5. QED
    BY <2>3, <2>4 DEF RoutesInv
<1>3. QED
  BY <1>1, <1>2

\* The remover is done with an address: what it leaves of the entry.
LEMMA RemoverLeaves ==
  ASSUME RoutesInv, Removed \/ RemovalFailed
  PROVE  RoutesInv'
<1> DEFINE a == remover.at
<1>a. Shape /\ WorkersOK /\ Bounded /\ LinkOK /\ WaitingIsSeen /\ ReliableOK
  BY DEF RoutesInv
<1>b. /\ UNCHANGED <<route, installer, timers, removals, link, on, push>>
      /\ remover' = IdleRemover /\ remover'.at = None
  BY DEF Removed, RemovalFailed, IdleRemover
<1>c. /\ a \in Addrs /\ a # None /\ (Removed \/ a \in Flaky)
      /\ remover' \in [at : Addrs \cup {None}, stage : {"idle", "delete", "deleted", "failed"}]
      /\ remover'.stage = "idle"
  <2>1. remover.stage \in {"deleted", "failed"} /\ remover' = IdleRemover
    BY DEF Removed, RemovalFailed
  <2>2. a \in Addrs /\ a # None
    BY <1>a, <2>1 DEF Shape, WorkersOK
  <2>3. Removed \/ a \in Flaky
    BY <1>a DEF RemovalFailed, WorkersOK
  <2>4. QED
    BY <2>1, <2>2, <2>3 DEF IdleRemover
<1>d. a \in Entries => states[a] \in RouteState
  BY <1>a DEF Shape, Entries
<1>1. ASSUME states' = [states EXCEPT ![a] = None], pump' = PumpLoses({a}), wake' = wake
      PROVE  RoutesInv'
  <2>1. /\ states' \in [Addrs -> RouteState \cup {None}]
        /\ Entries' = Entries \ {a}
        /\ \A b \in Addrs \ {a} : states'[b] = states[b]
        /\ Cardinality(Entries') <= MaxRoutes
    BY <1>a, <1>c, <1>1, EntryLeaves
  <2>2. /\ pump' \in [at : Addrs \cup {None}, stage : {"idle", "read", "lock", "pass", "lost"}]
        /\ pump'.stage = "idle" <=> pump'.at = None
        /\ pump'.stage \in {"read", "lock"} => pump'.at \in Entries'
    <3>1. pump \in [at : Addrs \cup {None}, stage : {"idle", "read", "lock", "pass", "lost"}]
      BY <1>a DEF Shape
    <3>2. CASE pump.at = a
      <4>1. PICK stage \in {"lost", "pass"} : pump' = [pump EXCEPT !.stage = stage]
        BY <1>1, <3>2 DEF PumpLoses
      <4>2. QED
        BY <1>c, <3>1, <3>2, <4>1
    <3>3. CASE pump.at # a
      BY <1>a, <1>1, <2>1, <3>1, <3>3 DEF PumpLoses, WorkersOK, LinkOK
    <3>4. QED
      BY <3>2, <3>3
  <2>3. Shape' /\ WorkersOK' /\ Bounded' /\ LinkOK'
    BY <1>a, <1>b, <1>c, <1>1, <2>1, <2>2 DEF Shape, WorkersOK, Bounded, LinkOK, Up
  <2>4. WaitingIsSeen'
    BY <1>a, <1>b, <1>1, <2>1 DEF WaitingIsSeen, Entries
  <2>5. ReliableOK'
    BY <1>a, <1>b, <2>1, RoutesAssumption DEF ReliableOK, Reliable, KeptApart, Up, Entries
  <2>6. QED
    BY <2>3, <2>4, <2>5 DEF RoutesInv
<1>2. ASSUME a \in Entries, pump' = pump, NEW rec \in RouteState,
             states' = [states EXCEPT ![a] = rec], rec.later => states[a].later,
             wake' \in BOOLEAN, wake => wake',
             rec.installing => wake' \/ states[a].installing,
             ~rec.installing => rec.pending = 0,
             a \notin Flaky => rec.installing /\ ~rec.removing /\ ~rec.due
      PROVE  RoutesInv'
  <2>1. /\ states' \in [Addrs -> RouteState \cup {None}]
        /\ Entries' = Entries /\ states'[a] = rec
        /\ \A b \in Addrs \ {a} : states'[b] = states[b]
    BY <1>a, <1>2, EntryBecomes
  <2>2. Shape' /\ WorkersOK' /\ Bounded' /\ LinkOK'
    BY <1>a, <1>b, <1>c, <1>2, <2>1 DEF Shape, WorkersOK, Bounded, LinkOK, Up
  <2>3. WaitingIsSeen'
    BY <1>a, <1>b, <1>2, <2>1 DEF WaitingIsSeen, Entries
  <2>4. ASSUME NEW b \in Addrs \ Flaky
        PROVE  (b \in Entries' => Reliable(b)') /\ KeptApart(b)'
    <3>1. (b \in Entries => Reliable(b)) /\ KeptApart(b)
      BY <1>a DEF ReliableOK
    <3>2. CASE b = a
      BY <1>b, <1>2, <2>1, <3>1, <3>2, RoutesAssumption DEF Reliable, KeptApart, Up
    <3>3. CASE b # a
      BY <1>b, <2>1, <3>1, <3>3, RoutesAssumption DEF Reliable, KeptApart, Up
    <3>4. QED
      BY <3>2, <3>3
  <2>5. QED
    BY <2>2, <2>3, <2>4 DEF RoutesInv, ReliableOK
<1>3. CASE Removed
  <2>1. CASE a \in Entries /\ ~states[a].removing
    <3> DEFINE rec == [states[a] EXCEPT !.installing = TRUE, !.later = FALSE]
    <3>1. /\ rec \in RouteState /\ rec.installing = TRUE /\ rec.later = FALSE
          /\ rec.removing = states[a].removing /\ rec.due = states[a].due
      BY <1>d, <2>1 DEF RouteState
    <3>2. states' = [states EXCEPT ![a] = rec] /\ wake' = TRUE /\ pump' = pump
      BY <1>3, <2>1 DEF Removed, Entries
    <3>3. a \notin Flaky => ~states[a].due
      BY <1>a, <1>c, <2>1 DEF ReliableOK, KeptApart
    <3> HIDE DEF rec
    <3>4. QED
      BY <1>2, <2>1, <3>1, <3>2, <3>3
  <2>2. CASE ~(a \in Entries /\ ~states[a].removing)
    BY <1>1, <1>3, <1>c, <2>2 DEF Removed, Entries
  <2>3. QED
    BY <2>1, <2>2
<1>4. CASE RemovalFailed /\ a \in Flaky
  <2>0. wake' = wake /\ wake \in BOOLEAN
    BY <1>a, <1>4 DEF RemovalFailed, Shape
  <2>1. CASE a \notin Entries
    <3>1. states' = states /\ pump' = pump /\ Entries' = Entries
      BY <1>4, <1>c, <2>1 DEF RemovalFailed, Entries
    <3>2. Shape' /\ WorkersOK' /\ Bounded' /\ LinkOK' /\ WaitingIsSeen'
      BY <1>a, <1>b, <1>c, <2>0, <3>1 DEF Shape, WorkersOK, Bounded, LinkOK, Up, WaitingIsSeen
    <3>3. ReliableOK'
      BY <1>a, <1>b, <1>4, <3>1, RoutesAssumption DEF ReliableOK, Reliable, KeptApart, Up
    <3>4. QED
      BY <3>2, <3>3 DEF RoutesInv
  <2>2. CASE a \in Entries /\ ~states[a].removing
    <3> DEFINE rec == [states[a] EXCEPT !.installing = FALSE, !.pending = 0]
    <3>1. 0 \in 0..PendingCap
      BY RoutesAssumption
    <3>2. /\ rec \in RouteState /\ rec.installing = FALSE /\ rec.pending = 0
          /\ rec.later = states[a].later
      BY <1>d, <2>2, <3>1 DEF RouteState
    <3>3. states' = [states EXCEPT ![a] = rec] /\ pump' = pump
      BY <1>4, <2>2 DEF RemovalFailed, Entries
    <3> HIDE DEF rec
    <3>4. QED
      BY <1>2, <1>4, <2>0, <2>2, <3>2, <3>3
  <2>3. CASE a \in Entries /\ states[a].removing /\ states[a].fails + 1 >= DeleteTries
    BY <1>1, <1>4, <2>0, <2>3 DEF RemovalFailed, Entries
  <2>4. CASE a \in Entries /\ states[a].removing /\ ~(states[a].fails + 1 >= DeleteTries)
    <3> DEFINE rec == [states[a] EXCEPT !.fails = @ + 1, !.removing = FALSE]
    <3>1. states[a].fails + 1 \in 0..DeleteTries
      BY <1>d, <2>4, RoutesAssumption DEF RouteState
    <3>2. /\ rec \in RouteState /\ rec.installing = states[a].installing
          /\ rec.pending = states[a].pending /\ rec.later = states[a].later
      BY <1>d, <2>4, <3>1 DEF RouteState
    <3>3. states' = [states EXCEPT ![a] = rec] /\ pump' = pump
      BY <1>4, <2>4 DEF RemovalFailed, Entries
    <3>4. ~states[a].installing => states[a].pending = 0
      BY <1>a, <2>4 DEF WaitingIsSeen
    <3> HIDE DEF rec
    <3>5. QED
      BY <1>2, <1>4, <2>0, <2>4, <3>2, <3>3, <3>4
  <2>5. QED
    BY <2>1, <2>2, <2>3, <2>4
<1>5. QED
  BY <1>3, <1>4, <1>c

-----------------------------------------------------------------------------
(* The theorem *)

LEMMA RoutesInit == Init => RoutesInv
<1> SUFFICES ASSUME Init PROVE RoutesInv
  OBVIOUS
<1>1. Entries = {} /\ Cardinality(Entries) = 0
  BY FS_EmptySet DEF Init, Entries
<1>2. Shape
  <2>1. /\ pump \in [at : Addrs \cup {None}, stage : {"idle", "read", "lock", "pass", "lost"}]
        /\ installer \in [todo : SUBSET Addrs, at : Addrs \cup {None},
                          stage : {"idle", "add", "added", "failed", "drain", "orphan"}]
        /\ remover \in [at : Addrs \cup {None}, stage : {"idle", "delete", "deleted", "failed"}]
    BY DEF Init, IdlePump, IdleInstaller, IdleRemover
  <2>2. states \in [Addrs -> RouteState \cup {None}] /\ removals \in Seq(Addrs)
    BY DEF Init
  <2>3. QED
    BY <2>1, <2>2 DEF Init, Shape
<1>3. WorkersOK /\ LinkOK /\ Bounded
  BY <1>1, RoutesAssumption DEF Init, WorkersOK, LinkOK, Bounded, Up, IdlePump, IdleInstaller, IdleRemover
<1>4. WaitingIsSeen /\ ReliableOK
  BY <1>1, RoutesAssumption DEF Init, WaitingIsSeen, ReliableOK, KeptApart, IdleInstaller, IdleRemover
<1>5. QED
  BY <1>2, <1>3, <1>4 DEF RoutesInv

LEMMA RoutesStep == RoutesInv /\ [Next]_vars => RoutesInv'
<1>1. ASSUME RoutesInv, Next PROVE RoutesInv'
  BY <1>1, DeliverStep, SyncStep, PumpStep, ServerStep, ConnectionStep, InstallerMoves, RetryStep,
     DrainStep, AgeStep, RemoverMoves, RemoverLeaves DEF Next, Install, Remove
<1>2. ASSUME RoutesInv, UNCHANGED vars PROVE RoutesInv'
  <2>1. Entries' = Entries
    BY <1>2 DEF vars, Entries
  <2>2. QED
    BY <1>2, <2>1 DEF vars, RoutesInv, Shape, WorkersOK, Bounded, LinkOK, WaitingIsSeen, ReliableOK,
       Reliable, KeptApart, Up
<1>3. QED
  BY <1>1, <1>2

\* A player whose entry is settled has his route, and packets wait only for a route that somebody
\* will install, whatever installer, remover, timers and disconnects overlap (installOne,
\* processRemoval, cleanup).
THEOREM SettledPlayersAreServed == Spec => []PlayersAreServed
<1>1. RoutesInv => PlayersAreServed
  <2> SUFFICES ASSUME RoutesInv PROVE PlayersAreServed
    OBVIOUS
  <2> USE DEF RoutesInv
  <2>1. TypeOK
    BY DEF Shape, Bounded, TypeOK
  <2>2. StablePlayersKeepRoutes
    BY DEF ReliableOK, Reliable, StablePlayersKeepRoutes, Leaving, Entries
  <2>3. BufferedIsHandled
    <3>1. \A a \in Entries : states[a].pending \in 0..PendingCap /\ (states[a].pending > 0 => states[a].installing)
      <4>1. \A a \in Entries : states[a] \in RouteState
        BY DEF Shape, Entries
      <4>2. QED
        BY <4>1, RoutesAssumption DEF RouteState, WaitingIsSeen
    <3>2. QED
      BY <3>1 DEF WaitingIsSeen, BufferedIsHandled
  <2>4. QED
    BY <2>1, <2>2, <2>3 DEF PlayersAreServed
<1>2. QED
  BY <1>1, RoutesInit, RoutesStep, PTL DEF Spec

=============================================================================
