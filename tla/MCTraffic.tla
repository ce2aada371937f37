----------------------------- MODULE MCTraffic -----------------------------
(***************************************************************************)
(* Values for Traffic.  A window of four counters in groups of two; ten    *)
(* packets are sealed, so that the window and the slots of the cache come  *)
(* round more than once.  Three gateways of a rule, one after another.     *)
(***************************************************************************)
EXTENDS Traffic

CONSTANTS a1, a2, f1, f2

MCClients == {a1, a2}
MCUfrags == {f1, f2}
MCIds == {1, 2}

(* One answer has a loopback candidate, one that is not a UDP host         *)
(* candidate, one without a port, one with a name and one of the backend;  *)
(* one has two candidates that cannot be used, and one no ufrag.           *)

Candidate(addr, p, ok) == [kind |-> "candidate", addr |-> addr, port |-> p, ok |-> ok]
Media == [kind |-> "media", addr |-> "backend", port |-> 2]
Ufrag(u) == [kind |-> "ufrag", ufrag |-> u]

MCAnswers ==
  {<<Ufrag(f1), Media, Candidate("loopback", 1, TRUE), Candidate("backend", 9, FALSE),
     Candidate("backend", 0, TRUE), Candidate("name", 4, TRUE), Candidate("backend", 2, TRUE)>>,
   <<Media, Candidate("backend", 3, FALSE), Candidate("name", 4, TRUE), Ufrag(f2)>>,
   <<Media, Candidate("loopback", 1, TRUE)>>}

(* A silent client, one that opens TLS and one that opens plain HTTP.      *)

MCBytes == {<< >>, <<22, 1>>, <<2, 3>>}
=============================================================================
