---------------------------- MODULE SharedBinding ----------------------------
(***************************************************************************)
(* What the tuple registry of internal/forward promises to the sessions of *)
(* the transparent UDP rules, without saying how: for every player tuple   *)
(* (IP:port) there is at most one bound socket on the machine, all the     *)
(* sessions of that player share it, it exists exactly while one of them   *)
(* holds it, and shutting the registry down takes it from all of them.     *)
(***************************************************************************)
CONSTANTS Sessions,  \* calls of acquire, one per session being created
          Keys,      \* player tuples
          KeyOf      \* the tuple each session binds

VARIABLES holders,   \* [Keys -> SUBSET Sessions]: who holds the binding
          bound,     \* [Keys -> BOOLEAN]: the shared socket is open
          shut       \* the registry has been closed

vars == <<holders, bound, shut>>

Init ==
  /\ holders = [k \in Keys |-> {}]
  /\ bound = [k \in Keys |-> FALSE]
  /\ shut = FALSE

\* A session is given the binding of its tuple, which is opened for it if no
\* other session of the same player has it already.
Grant(s) ==
  /\ ~shut
  /\ s \notin holders[KeyOf[s]]
  /\ holders' = [holders EXCEPT ![KeyOf[s]] = @ \cup {s}]
  /\ bound' = [bound EXCEPT ![KeyOf[s]] = TRUE]
  /\ UNCHANGED shut

\* A session gives the binding back; the last one to do so unbinds.
GiveBack(s) ==
  /\ s \in holders[KeyOf[s]]
  /\ holders' = [holders EXCEPT ![KeyOf[s]] = @ \ {s}]
  /\ bound' = [bound EXCEPT ![KeyOf[s]] = @ /\ holders[KeyOf[s]] # {s}]
  /\ UNCHANGED shut

Shut ==
  /\ ~shut
  /\ shut' = TRUE
  /\ bound' = [k \in Keys |-> FALSE]
  /\ UNCHANGED holders

Next == (\E s \in Sessions : Grant(s) \/ GiveBack(s)) \/ Shut

Spec == Init /\ [][Next]_vars

=============================================================================
