---------------------------- MODULE MCRuleManager ---------------------------
(***************************************************************************)
(* An instance of RuleManager for TLC.  A TCP and UDP rule, with either of *)
(* two targets; a NetherNet rule that signals on the port of that rule and *)
(* has its data on port 2; a transparent rule with the target and the data *)
(* port of it; and a NetherNet rule of another address with that data port *)
(* whose gateway serves two protocols.                                     *)
(***************************************************************************)
EXTENDS RuleManager

CONSTANTS r1, r2, u1, u2

Plain(kind, port) ==
  [kind |-> kind, addr |-> "any", port |-> port, signal |-> port, data |-> port,
   target |-> "public", transparent |-> FALSE, dual |-> FALSE]

Nether(addr, port, data, target, dual) ==
  [kind |-> "nethernet", addr |-> addr, port |-> port, signal |-> port, data |-> data,
   target |-> target, transparent |-> TRUE, dual |-> dual]

MCConfs ==
  {Plain("both", 1), [Plain("both", 1) EXCEPT !.target = "moved"],
   [Plain("udp", 2) EXCEPT !.transparent = TRUE, !.target = "t1"],
   Nether("any", 1, 2, "t1", FALSE), Nether("one", 3, 2, "t2", TRUE)}

=============================================================================
