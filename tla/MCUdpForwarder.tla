--------------------------- MODULE MCUdpForwarder ---------------------------
(***************************************************************************)
(* Instances of UdpForwarder for TLC: p1, p2 and p3 are datagrams of one   *)
(* player, q1 of another.                                                  *)
(***************************************************************************)
EXTENDS UdpForwarder

CONSTANTS p1, p2, p3, q1, playerP, playerQ

MCSrcOf == [p \in Packets |-> IF p = q1 THEN playerQ ELSE playerP]

=============================================================================
