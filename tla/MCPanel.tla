------------------------------ MODULE MCPanel ------------------------------
(***************************************************************************)
(* Values for Panel.  Requests are interchangeable, and so are tokens,     *)
(* which are also the addresses that sign in, and e-mail addresses.        *)
(***************************************************************************)
EXTENDS Panel, Integers, Sequences, TLC

CONSTANTS root, ann, bob, g1, g2, q1, q2, t1, t2, m1, m2, r1, r2, r3, c1, c2, e1, e2,
          k1, k2, n1

MCRequests == {q1, q2}
MCTokens == {t1, t2}
MCEmails == {m1, m2}
Symmetry == Permutations(MCRequests) \cup Permutations(MCTokens) \cup Permutations(MCEmails)

-----------------------------------------------------------------------------
(* Two accounts, two groups, two addresses, two sessions and two requests  *)
(* at a time; each behaviour makes the requests of one of the sets.        *)

MCUsers == {root, ann}
MCGroups == {g1, g2}
MCWorks ==
  { {"login", "password", "set password", "set standing", "delete", "restart", "create"},
    {"login", "set email", "bind", "create"},
    {"register", "reset", "set email", "delete"},
    {"set group", "group", "settings", "restart", "create"} }

-----------------------------------------------------------------------------
(* Two users, two rules on two ports and three endpoints (1 and 2 are one  *)
(* port on two addresses), two codes, two tunnel addresses.                *)

MCDeskUsers == {ann, bob}
MCDeskRules == {r1, r2}
MCCodes == {c1, c2}
MCEndpoints == {1, 2, 3}
MCPortOf(e) == IF e = 3 THEN 81 ELSE 80
MCNames == {"a", "b"}
MCAddresses == {1, 2}

Policy(groupRules, rulesMax, codesMax) ==
  [range |-> {1, 2, 3}, groupRange |-> {}, locked |-> FALSE, reserved |-> {},
   groupRules |-> groupRules, rules |-> rulesMax, groupCodes |-> -1, codes |-> codesMax]
Wide == Policy(-1, 0, 0)
One == Policy(-1, 1, 1)
Nothing == Policy(0, 1, 1)
Low == [Policy(-1, 1, 1) EXCEPT !.groupRange = {1}, !.reserved = {2}]

Draft(owners, names, ends, targets, on, fw) ==
  [owner : owners, name : names, at : ends, target : targets, on : on, fw : fw]

MCDeskWorks ==
  { [kinds |-> {"add", "toggle", "edit", "crash"}, policies |-> {Wide},
     rules |-> Draft({ann}, {"a", "b"}, {1}, {Public}, BOOLEAN, BOOLEAN)],
    [kinds |-> {"add", "edit", "drop"}, policies |-> {Wide},
     rules |-> Draft({Shared}, {"a"}, {1, 2, 3}, {Public}, {TRUE}, BOOLEAN)],
    [kinds |-> {"add", "edit", "code", "uncode", "drop"}, policies |-> {Wide},
     rules |-> Draft({ann, bob}, {"a"}, {1}, {1, Public}, {TRUE}, {FALSE})],
    [kinds |-> {"code", "switch"}, policies |-> {Wide, One, Nothing}, rules |-> {}],
    [kinds |-> {"add", "code", "leave"}, policies |-> {Wide},
     rules |-> Draft({ann, Shared}, {"a"}, {1, 3}, {1}, {TRUE}, {FALSE})],
    [kinds |-> {"add", "drop"}, policies |-> {One, Nothing, Low},
     rules |-> Draft({ann}, {"a"}, {1, 3}, {Public}, {TRUE}, {FALSE})] }

-----------------------------------------------------------------------------
(* Two addresses and a name.  With one key kept, the table is pruned.      *)

MCNamesToSignIn == {n1}

-----------------------------------------------------------------------------
(* Three rules: one of each of two users and a shared one.  A queue of two *)
(* and a trim after every second event, so that events are lost, trims come *)
(* more than once and restarts fall between them.                          *)

MCIds == {e1, e2}
MCLogRules == {r1, r2, r3}
MCSources == {1, 2, 3}
MCOwner == (r1 :> ann) @@ (r2 :> bob) @@ (r3 :> Nobody)
MCEntries ==
  [rule : {r1, Every}, deny : BOOLEAN, net : {{1}, {1, 2}}] \cup [rule : {r2}, deny : {FALSE}, net : {{2}}]
MCLimits == {1, 2}
MCPageSizes == {1, 2}
MCMaxChanges == [list |-> 3, log |-> 2]

-----------------------------------------------------------------------------
(* Two users over five ports, of which the default range has two: without  *)
(* limits, with a range below or above the default one, with half a range, *)
(* with more rules than the default; with and without a tunnel; and        *)
(* administrators.                                                         *)

MCOldUsers ==
  {[admin |-> a, key |-> k, from |-> q[1], to |-> q[2], rules |-> q[3]] :
     a \in BOOLEAN, k \in {None, k1, k2},
     q \in {<<0, 0, 0>>, <<1, 2, 0>>, <<4, 5, 2>>, <<0, 0, 2>>, <<3, 0, 1>>}}
MCOldGroups == {[from |-> r[1], to |-> r[2], rules |-> n] : r \in {<<0, 0>>, <<2, 2>>}, n \in {0, 1}}

MCPeople == {ann, bob}
MCDefaults == [from |-> 2, to |-> 3, rules |-> 1]
MCShapes == {0, 1, 2}

-----------------------------------------------------------------------------
(* What a request may give the fields of a rule: texts bare or with blanks *)
(* around them, ports in and out of range, and a TLS object of every kind. *)

Bare(V) == V \X {FALSE}
Padded(V) == V \X {TRUE}
TlsObjects ==
  {[on |-> TRUE, cert |-> c, blanks |-> b, data |-> 0] :
     c \in {"id", "gone", "pair", "none"}, b \in BOOLEAN}
  \cup {[on |-> FALSE, cert |-> "none", blanks |-> FALSE, data |-> p] : p \in {0, 65536}}
MCValues ==
  [name |-> Bare({"", "m"}) \cup Padded({"n"}),
   listen |-> Bare({"", "a"}) \cup Padded({"0.0.0.0"}),
   proto |-> Bare({"", "tcp", "both", "sctp"}) \cup Padded({"udp"}),
   target |-> Bare({"u"}) \cup Padded({"", "t"}),
   lport |-> {80, 65536}, tport |-> {0, 81},
   proxy |-> BOOLEAN, transparent |-> BOOLEAN, nethernet |-> BOOLEAN, enabled |-> BOOLEAN,
   tls |-> {None} \cup TlsObjects]

=============================================================================
