---------------------------- MODULE ReplayFilter ----------------------------
(***************************************************************************)
(* What a session promises of the counters it takes from the network: each *)
(* at most once, and none that lies a window or more behind the highest.   *)
(***************************************************************************)
EXTENDS Integers

CONSTANT Window  \* counters the receiver remembers

VARIABLES high,   \* the highest counter taken
          seen,   \* those taken that are still remembered
          taken   \* all of them

vars == <<high, seen, taken>>

Init == high = 0 /\ seen = {} /\ taken = {}

Take(c) ==
  /\ c > 0 /\ c + Window > high /\ c \notin seen
  /\ high' = IF c > high THEN c ELSE high
  /\ seen' = {d \in seen \cup {c} : d + Window > high'}
  /\ taken' = taken \cup {c}

Next == \E c \in taken' \ taken : Take(c)

Spec == Init /\ [][Next]_vars

=============================================================================
