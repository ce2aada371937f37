--------------------------- MODULE MCTunnelServer ---------------------------
(***************************************************************************)
(* Instances of TunnelServer for TLC: codes c1 and c2 of one user, and c3  *)
(* which is given the tunnel address of c1 once that is free.  Devices d1  *)
(* and d2 are clones with one fingerprint fpA; d2 has fpB as second one. *)
(***************************************************************************)
EXTENDS TunnelServer

CONSTANTS c1, c2, c3, a1, a2, a3, t1, t2, d1, d2, fpA, fpB, user, j1, j2

MCUserOf == [c \in Codes |-> user]
MCTunIPOf == [c \in Codes |-> IF c = c2 THEN t2 ELSE t1]
MCFp == [d \in Devices |-> fpA]
MCFp2 == [d \in Devices |-> IF d = d1 THEN None ELSE fpB]
MCUnlimited == [u \in Users |-> -1]
MCOne == [u \in Users |-> 1]

\* Every code from an address of its own; c2 from its own and from that of c1.
MCPrivate == {<<c1, a1>>, <<c2, a2>>, <<c3, a3>>} \cap (Codes \X Addrs)
MCMoving == {<<c1, a1>>, <<c2, a1>>, <<c2, a2>>} \cap (Codes \X Addrs)

=============================================================================
