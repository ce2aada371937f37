------------------------------- MODULE SignIn -------------------------------
(***************************************************************************)
(* The sliding windows of internal/users/register.go and the two handlers  *)
(* that use them in opposite ways: a request for a code by mail is counted *)
(* when it is let through; a sign-in is first looked up, the password is   *)
(* then checked with no lock held, and only a failure is counted.          *)
(*                                                                         *)
(* Reading the clock and taking the limiter's lock are one step here.      *)
(***************************************************************************)
EXTENDS Naturals, Sequences, FiniteSets, SequencesExt

CONSTANTS Ips, Names,
          Requests,  \* sign-ins handled at once
          Limit,     \* of events of one key in a window
          Window,
          MaxKeys,   \* keys a limiter holds before it looks for dead ones
          MaxClock   \* bound: of the clock

\* Of the constants; assumed where an instance is made.
LimitsAssumption ==
  /\ {Limit, Window, MaxKeys, MaxClock} \subseteq Nat /\ Window > 0
  /\ IsFiniteSet(Requests) /\ Requests # {}

VARIABLES
  use,        \* "mail" or "sign in": nothing is shared by the two
  clock,
  sends,      \* limiter of codes by mail: a function from some ips to times
  ipFails,    \* of failed sign-ins by ip
  nameFails,  \* and by name
  req,        \* a sign-in: where it is, from where and for whom
  mailed,     \* when codes were sent to an ip, in the last window
  guessed     \* and wrong passwords of a name found out, since it was reset
vars == <<use, clock, sends, ipFails, nameFails, req, mailed, guessed>>

\* The records that are in the window now, and trimLocked.
Fresh(times, now) ==
  LET kept[n \in 0..Len(times)] ==
        IF n = 0 THEN << >>
        ELSE IF now - times[n] < Window THEN Append(kept[n - 1], times[n]) ELSE kept[n - 1]
  IN kept[Len(times)]
Recent(times) == Fresh(times, clock)
Times(ev, k) == IF k \in DOMAIN ev THEN Recent(ev[k]) ELSE << >>

\* Mutant of Pruned: a key goes with its first record.
PrunedByFirst(ev) ==
  IF Cardinality(DOMAIN ev) <= MaxKeys THEN ev
  ELSE Restrict(ev, {k \in DOMAIN ev : ev[k] # << >> /\ clock - Head(ev[k]) < Window})
\* pruneLocked
Pruned(ev) ==
  IF Cardinality(DOMAIN ev) <= MaxKeys THEN ev
  ELSE Restrict(ev, {k \in DOMAIN ev : ev[k] # << >> /\ clock - Last(ev[k]) < Window})

Put(ev, k, times) == [j \in DOMAIN ev \cup {k} |-> IF j = k THEN times ELSE ev[j]]

\* Is there room for k, and what Allowed and Allow make of the limiter.
Free(ev, k) == Len(Times(Pruned(ev), k)) < Limit
Looked(ev, k) == Put(Pruned(ev), k, Times(Pruned(ev), k))
Counted(ev, k) ==
  IF Free(ev, k) THEN Put(Pruned(ev), k, Append(Times(Pruned(ev), k), clock))
  ELSE Looked(ev, k)
Reset(ev, k) == Restrict(ev, DOMAIN ev \ {k})
-----------------------------------------------------------------------------
Idle == [at |-> "idle"]
At(r, p) == req[r].at = p
Goes(r, p) == req' = [req EXCEPT ![r].at = p]

Init ==
  /\ use \in {"mail", "sign in"}
  /\ clock = 0
  /\ sends = << >> /\ ipFails = << >> /\ nameFails = << >>
  /\ req = [r \in Requests |-> Idle]
  /\ mailed = [i \in Ips |-> << >>]
  /\ guessed = [n \in Names |-> << >>]

Tick ==
  /\ clock < MaxClock
  /\ clock' = clock + 1
  /\ mailed' = [i \in Ips |-> Fresh(mailed[i], clock + 1)]
  /\ guessed' = [n \in Names |-> Fresh(guessed[n], clock + 1)]
  /\ UNCHANGED <<use, sends, ipFails, nameFails, req>>

(* emailCode and Register: counted when let through, whatever comes of it. *)
EmailCode(i) ==
  /\ use = "mail"
  /\ sends' = Counted(sends, i)
  /\ mailed' = IF Free(sends, i) THEN [mailed EXCEPT ![i] = Append(@, clock)] ELSE mailed
  /\ UNCHANGED <<use, clock, ipFails, nameFails, req, guessed>>

(* login: by ip, then by name, then the password.                          *)
Login(r, i, n) ==
  /\ use = "sign in" /\ At(r, "idle")
  /\ ipFails' = Looked(ipFails, i)
  /\ req' = [req EXCEPT ![r] = IF Free(ipFails, i) THEN [at |-> "name", ip |-> i, name |-> n]
                               ELSE Idle]
  /\ UNCHANGED <<use, clock, sends, nameFails, mailed, guessed>>

LookUpName(r) ==
  /\ At(r, "name")
  /\ nameFails' = Looked(nameFails, req[r].name)
  /\ req' = [req EXCEPT ![r] = IF Free(nameFails, @.name) THEN [@ EXCEPT !.at = "verify"]
                               ELSE Idle]
  /\ UNCHANGED <<use, clock, sends, ipFails, mailed, guessed>>

Refuse(r) ==
  /\ At(r, "verify")
  /\ guessed' = [guessed EXCEPT ![req[r].name] = Append(@, clock)]
  /\ Goes(r, "count ip")
  /\ UNCHANGED <<use, clock, sends, ipFails, nameFails, mailed>>

CountIp(r) ==
  /\ At(r, "count ip")
  /\ ipFails' = Counted(ipFails, req[r].ip)
  /\ Goes(r, "count name")
  /\ UNCHANGED <<use, clock, sends, nameFails, mailed, guessed>>

CountName(r) ==
  /\ At(r, "count name")
  /\ nameFails' = Counted(nameFails, req[r].name)
  /\ req' = [req EXCEPT ![r] = Idle]
  /\ UNCHANGED <<use, clock, sends, ipFails, mailed, guessed>>

Welcome(r) ==
  /\ At(r, "verify")
  /\ nameFails' = Reset(nameFails, req[r].name)
  /\ guessed' = [guessed EXCEPT ![req[r].name] = << >>]
  /\ req' = [req EXCEPT ![r] = Idle]
  /\ UNCHANGED <<use, clock, sends, ipFails, mailed>>

Next ==
  \/ Tick
  \/ \E i \in Ips : EmailCode(i)
  \/ \E r \in Requests :
       \/ \E i \in Ips, n \in Names : Login(r, i, n)
       \/ LookUpName(r) \/ Refuse(r) \/ CountIp(r) \/ CountName(r) \/ Welcome(r)

Spec == Init /\ [][Next]_vars
-----------------------------------------------------------------------------
(* In no window does an ip have more codes sent than the limit, although   *)
(* dead keys are thrown away when there are too many.                      *)
CodesAreLimited == \A i \in Ips : Len(mailed[i]) <= Limit

(* In no window are more wrong passwords of a name found out than the      *)
(* limit for each sign-in that is handled at once, and one less: a failure *)
(* that is counted may be the one that locks the name, but the others that *)
(* had been let through before find theirs out uncounted; and so may those *)
(* that were let through before the window began.                          *)
GuessesAreLimited ==
  \A n \in Names : Len(guessed[n]) <= (Limit + 1) * Cardinality(Requests) - 1
=============================================================================
