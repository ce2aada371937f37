---------------------------- MODULE MCTunnelLink ----------------------------
(* Instances of TunnelLink for TLC. *)
EXTENDS TunnelLink

CONSTANTS s1, s2

MCStoppers == {s1, s2}
MCRepeaters == {s2}

=============================================================================
