------------------------------ MODULE MCRoutes ------------------------------
(* Instances of Routes for TLC: one address with a reliable route.exe and one without. *)
EXTENDS Routes

CONSTANTS a1, a2

MCAddrs == {a1, a2}
MCFlaky == {a2}

=============================================================================
