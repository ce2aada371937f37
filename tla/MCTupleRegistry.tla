-------------------------- MODULE MCTupleRegistry --------------------------
(***************************************************************************)
(* Instances of TupleRegistry for TLC: a1..a3 are calls for the same       *)
(* player, a1 and a2 for rules with one target, a3 for another rule; b1 is *)
(* a session of a second player.                                           *)
(***************************************************************************)
EXTENDS TupleRegistry

CONSTANTS a1, a2, a3, b1, playerA, playerB, target1, target2

MCKeyOf == [s \in Sessions |-> IF s = b1 THEN playerB ELSE playerA]

MCBackendOf == [s \in Sessions |-> IF s = a3 THEN target2 ELSE target1]

=============================================================================
