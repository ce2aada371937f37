----------------------------- MODULE ReturnPath -----------------------------
(***************************************************************************)
(* What the tunnel server arranges in the kernel (internal/tunnelapp/      *)
(* returnpath.go, setup_linux.go and the watchdog in tunnelapp.go).        *)
(*                                                                         *)
(* Answers of a back end come out of the tunnel with a player's address as *)
(* destination.  A mark, a rule and a routing table make them local; the   *)
(* INPUT chain lets in answers of known flows and nothing else, and the    *)
(* FORWARD chain nothing from one client to another.  Every 30 seconds the *)
(* watchdog looks at each item in turn and puts back what is missing,      *)
(* because firewall tools of the host empty whole tables.  Each command is *)
(* a step; it may fail, and then it has changed nothing.                   *)
(*                                                                         *)
(* A chain is the sequence of its rules that match the tunnel's device:    *)
(* the server's own, and of the tools the ones that a table has after      *)
(* they have emptied it (Foreign) or that they put first later (Late).     *)
(***************************************************************************)
EXTENDS Naturals, Sequences, SequencesExt

CONSTANTS Mishaps,     \* bound: interferences of the host's tools and failing commands together
          Lives,       \* bound: how often the server is started
          ChainLength  \* bound: rules of the INPUT chain

VARIABLES
  kernel,    \* the items that are set, and the two chains; it outlives the process
  main,      \* "down", "starting", "up", "stopping" or "stopped"
  todo,      \* the place in the list that Start or Stop works through
  watch,     \* the watchdog's place in its round
  overlap,   \* the watchdog was in a round when the server was stopped
  mishaps, lives,  \* counted for the bounds
  failed     \* what commands that failed were to do, in this life or an earlier one

vars == <<kernel, main, todo, watch, overlap, mishaps, lives, failed>>

\* The items in the order of setupReturnPath and verifyReturnPathWith: "sysctls" stands for four
\* settings that are handled alike, "input" for two rules.
Items == <<"sysctls", "mark", "lookup", "local", "input", "hairpin", "in", "out">>
\* What teardownReturnPath removes, in its order.
Removals == <<"lookup", "local", "mark", "est", "drop", "hairpin", "in", "out">>
Flags == {"sysctls", "local"}
Chain(item) == IF item \in {"est", "drop"} THEN "INPUT" ELSE "FORWARD"
Foreign == "foreign"
Late == "late"

\* A kernel that no server has touched, with the rules of the tools.
Bare == [flags |-> {}, copies |-> [i \in {"mark", "lookup"} |-> 0],
         chains |-> [c \in {"INPUT", "FORWARD"} |-> <<Foreign>>]]

\* Is a rule or setting there, and an item?
Set(k, item) ==
  IF item \in Flags THEN item \in k.flags
  ELSE IF item \in {"mark", "lookup"} THEN k.copies[item] > 0
  ELSE Contains(k.chains[Chain(item)], item)
Here(k, item) == IF item = "input" THEN Set(k, "est") /\ Set(k, "drop") ELSE Set(k, item)

-----------------------------------------------------------------------------
(* Commands *)

\* Mutant of Add: the answers' rule goes behind those that are there.
AddBehind(k, item) ==
  IF item \in Flags THEN [k EXCEPT !.flags = @ \cup {item}]
  ELSE IF item \in {"mark", "lookup"} THEN [k EXCEPT !.copies[item] = @ + 1]
  ELSE IF item \in {"drop", "hairpin"} THEN [k EXCEPT !.chains[Chain(item)] = <<item>> \o @]
  ELSE [k EXCEPT !.chains[Chain(item)] = Append(@, item)]

\* iptables -I for the rules that must come first, -A for the others; sysctl -w, ip rule add
\* and ip route replace.
Add(k, item) ==
  IF item \in Flags THEN [k EXCEPT !.flags = @ \cup {item}]
  ELSE IF item \in {"mark", "lookup"} THEN [k EXCEPT !.copies[item] = @ + 1]
  ELSE IF item \in {"est", "drop", "hairpin"} THEN [k EXCEPT !.chains[Chain(item)] = <<item>> \o @]
  ELSE [k EXCEPT !.chains[Chain(item)] = Append(@, item)]

\* iptables -D removes the first copy of a rule, ip rule del one, ip route flush the table.
Delete(k, item) ==
  IF ~Set(k, item) THEN k
  ELSE IF item = "local" THEN [k EXCEPT !.flags = @ \ {item}]
  ELSE IF item \in {"mark", "lookup"} THEN [k EXCEPT !.copies[item] = @ - 1]
  ELSE [k EXCEPT !.chains[Chain(item)] = RemoveFirst(@, item)]

\* lockInputOnInterfaceWith: both are removed and put at the head, the answers' rule first.
LockInput == <<<<"delete", "est">>, <<"delete", "drop">>, <<"add", "drop">>, <<"add", "est">>>>

\* What puts an item back.
Repair(item) == IF item = "input" THEN LockInput ELSE <<<<"add", item>>>>

\* A place in the list of items: at the check of the item of this number, or at a command of its
\* repair.
Rest == <<0, 0>>
Command(at) == IF at[2] = 0 THEN <<"check", Items[at[1]]>> ELSE Repair(Items[at[1]])[at[2]]

\* Set-up does not ask whether these are there: they are set, or built anew.
Unasked == {"sysctls", "local", "input"}

\* Mutant of Enter: the last item is passed by.
EnterButLast(i, unasked) ==
  IF i >= Len(Items) THEN Rest ELSE <<i, IF Items[i] \in unasked THEN 1 ELSE 0>>

\* The first place at an item; the list ends after the last one.
Enter(i, unasked) ==
  IF i > Len(Items) THEN Rest ELSE <<i, IF Items[i] \in unasked THEN 1 ELSE 0>>

\* The place after a command that does not end the round.  A check takes a command that fails
\* for an item that is missing.
After(at, ok, unasked) ==
  IF at[2] = 0 THEN IF ok /\ Here(kernel, Items[at[1]]) THEN Enter(at[1] + 1, unasked) ELSE <<at[1], 1>>
  ELSE IF at[2] < Len(Repair(Items[at[1]])) THEN <<at[1], at[2] + 1>> ELSE Enter(at[1] + 1, unasked)

\* The kernel after a command; one that has failed has changed nothing.
Effect(command, ok) ==
  kernel' = IF ~ok \/ command[1] = "check" THEN kernel
            ELSE IF command[1] = "add" THEN Add(kernel, command[2]) ELSE Delete(kernel, command[2])

Counts(command, ok) ==
  /\ mishaps' = IF ok THEN mishaps ELSE mishaps + 1
  /\ ~ok => mishaps < Mishaps
  /\ failed' = IF ok THEN failed ELSE failed \cup {command[1]}

-----------------------------------------------------------------------------
(* The server *)

Start ==
  /\ main = "down" /\ lives < Lives
  /\ main' = "starting" /\ todo' = Enter(1, Unasked)
  /\ lives' = lives + 1 /\ overlap' = FALSE
  /\ UNCHANGED <<kernel, watch, mishaps, failed>>

\* setupReturnPath: ends at the first command that fails to add something, and what was set
\* stays; of the settings only the first one counts.
SetUp(ok) ==
  LET command == Command(todo) IN
  /\ main = "starting" /\ todo # Rest
  /\ Effect(command, ok) /\ Counts(command, ok)
  /\ \/ /\ ok \/ command[1] # "add" \/ command[2] = "sysctls"
        /\ todo' = After(todo, ok, Unasked) /\ main' = main
     \/ ~ok /\ command[1] = "add" /\ todo' = Rest /\ main' = "down"
  /\ UNCHANGED <<watch, overlap, lives>>

\* The server may find its UDP port taken after it: what was set stays.
Listen(up) ==
  /\ main = "starting" /\ todo = Rest /\ (~up => mishaps < Mishaps)
  /\ main' = IF up THEN "up" ELSE "down"
  /\ mishaps' = IF up THEN mishaps ELSE mishaps + 1
  /\ UNCHANGED <<kernel, todo, watch, overlap, lives, failed>>

\* The first check of a round.
Round == Enter(1, {})

\* A tick; the watchdog reads stop once more before it begins.
Tick ==
  /\ main = "up" /\ watch = Rest
  /\ watch' = Round
  /\ UNCHANGED <<kernel, main, todo, overlap, mishaps, lives, failed>>

\* verifyReturnPathWith: the round ends at the first command that fails to add something, or to
\* look the rule up.
Watch(ok) ==
  LET command == Command(watch) IN
  /\ watch # Rest
  /\ Effect(command, ok) /\ Counts(command, ok)
  /\ watch' = IF ~ok /\ (command[1] = "add" \/ command = <<"check", "lookup">>) THEN Rest
              ELSE After(watch, ok, {})
  /\ UNCHANGED <<main, todo, overlap, lives>>

\* Stop: stop is closed, the sockets are closed, and the path is torn down.
Stop ==
  /\ main = "up"
  /\ main' = "stopping" /\ todo' = <<1, 0>>
  /\ overlap' = (watch # Rest)
  /\ UNCHANGED <<kernel, watch, mishaps, lives, failed>>

\* teardownReturnPath: no command that fails ends it.
Teardown(ok) ==
  LET command == <<"delete", Removals[todo[1]]>> IN
  /\ main = "stopping"
  /\ Effect(command, ok) /\ Counts(command, ok)
  /\ IF todo[1] < Len(Removals) THEN todo' = <<todo[1] + 1, 0>> /\ main' = main
     ELSE todo' = Rest /\ main' = "stopped"
  /\ UNCHANGED <<watch, overlap, lives>>

\* The process ends after Stop, or is killed; the watchdog with it.
Exit(killed) ==
  /\ main # "down" /\ (killed \/ main = "stopped")
  /\ main' = "down" /\ todo' = Rest /\ watch' = Rest
  /\ UNCHANGED <<kernel, overlap, mishaps, lives, failed>>

\* The tools of the host: a table is emptied, a rule goes to the head of a chain, addresses
\* and routes are set up again, or the kernel's settings are loaded again.
Tamper ==
  /\ mishaps < Mishaps /\ mishaps' = mishaps + 1
  /\ \/ kernel' = [kernel EXCEPT !.chains = Bare.chains]
     \/ kernel' = [kernel EXCEPT !.copies["mark"] = 0]
     \/ kernel' = [flags |-> kernel.flags \ {"local"}, chains |-> kernel.chains,
                   copies |-> [kernel.copies EXCEPT !["lookup"] = 0]]
     \/ kernel' = [kernel EXCEPT !.flags = @ \ {"sysctls"}]
     \/ /\ Len(kernel.chains["INPUT"]) < ChainLength
        /\ kernel' = [kernel EXCEPT !.chains["INPUT"] = <<Late>> \o @]
  /\ UNCHANGED <<main, todo, watch, overlap, lives, failed>>

-----------------------------------------------------------------------------
Init ==
  /\ kernel = Bare /\ main = "down" /\ todo = Rest /\ watch = Rest /\ overlap = FALSE
  /\ mishaps = 0 /\ lives = 0 /\ failed = {}

Next ==
  \/ Start \/ Tick \/ Stop \/ Tamper
  \/ \E ok \in BOOLEAN : SetUp(ok) \/ Listen(ok) \/ Watch(ok) \/ Teardown(ok) \/ Exit(ok)

\* The ticker fires, and every command returns within five seconds.
Fairness == WF_vars(Tick) /\ WF_vars(Watch(TRUE)) /\ WF_vars(SetUp(TRUE)) /\ WF_vars(Teardown(TRUE))

Spec == Init /\ [][Next]_vars /\ Fairness

-----------------------------------------------------------------------------
(* Properties *)

\* While it is in the chain, packets come to rule a before they come to rule b.
Precedes(chain, a, b) ==
  Contains(chain, a) => \A j \in DOMAIN chain : chain[j] = b => \E i \in 1..(j - 1) : chain[i] = a

\* Whatever the tools empty, in the middle of a repair too, the server's rules come in the right
\* order: the drop of new connections is not hidden by what the tools leave behind, the rules
\* that forward do not hide the one against traffic between clients; and, as long as no command
\* has failed that was to remove a rule, the drop does not hide the rule for answers.
\* (When one has failed, an old copy is left, and the drop may come to stand before it.  Presence
\* is all that the watchdog looks at: a wrong order stays, and what a tool puts first does.)
RulesInOrder ==
  LET input == kernel.chains["INPUT"] forward == kernel.chains["FORWARD"] IN
  /\ Precedes(input, "drop", Foreign)
  /\ \A r \in {"in", "out"} : Precedes(forward, "hairpin", r)
  /\ "delete" \notin failed => Precedes(input, "est", "drop")

\* "The final order: answers are accepted, the rest is dropped": false when the answers' rule
\* could neither be removed nor added again.
AnswersAreLetIn == main = "up" /\ watch = Rest => Precedes(kernel.chains["INPUT"], "est", "drop")

\* A server that goes on running has all of it in the kernel again some time after the tools
\* have finished, whatever was taken away in the middle of a round.
AllInPlace == \A i \in DOMAIN Items : Here(kernel, Items[i])
Heals == <>[](main = "up") => <>[]AllInPlace

\* A server that stops takes all of its rules with it, those that an earlier one left behind
\* when it was killed or could not start included; unless a command has failed (a check that
\* times out adds a second copy), or the watchdog was in the middle of a round, which goes on
\* behind Stop's back.
StopLeavesNothing ==
  main = "stopped" /\ failed = {} /\ ~overlap => \A i \in DOMAIN Removals : ~Set(kernel, Removals[i])
=============================================================================
