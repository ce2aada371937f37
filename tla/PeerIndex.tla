------------------------------ MODULE PeerIndex ------------------------------
(***************************************************************************)
(* internal/tunnelapp/registry.go: the table of tunnel sessions, an        *)
(* immutable snapshot of three indices that is rebuilt under r.mu by every *)
(* writer and published at once.  A session is a record with the fields    *)
(* code, addr and tunIP at least; it is never changed in place.            *)
(***************************************************************************)
CONSTANTS Codes,    \* access codes
          Addrs,    \* source addresses of tunnel packets
          TunIPs,   \* addresses inside the tunnel
          None

EmptyIndex ==
  [byCode  |-> [c \in Codes |-> None],
   byAddr  |-> [a \in Addrs |-> None],
   byTunIP |-> [t \in TunIPs |-> None]]

\* Mutant of Remove: the slot of the tunnel address is cleared without the
\* identity check.
RemoveAnyTunIP(ix, dead) ==
  [byCode  |-> [c \in Codes |-> IF ix.byCode[c] \in dead THEN None ELSE ix.byCode[c]],
   byAddr  |-> [a \in Addrs |-> IF \E ps \in dead : ps.addr = a
                                  THEN None ELSE ix.byAddr[a]],
   byTunIP |-> [t \in TunIPs |-> IF \E ps \in dead : ps.tunIP = t
                                   THEN None ELSE ix.byTunIP[t]]]

\* Takes the sessions in dead out of the three indices.  The slot of a tunnel
\* address is cleared only if it holds the session, the slot of a source
\* address whatever it holds.
Remove(ix, dead) ==
  [byCode  |-> [c \in Codes |-> IF ix.byCode[c] \in dead THEN None ELSE ix.byCode[c]],
   byAddr  |-> [a \in Addrs |-> IF \E ps \in dead : ps.addr = a
                                  THEN None ELSE ix.byAddr[a]],
   byTunIP |-> [t \in TunIPs |-> IF ix.byTunIP[t] \in dead
                                   THEN None ELSE ix.byTunIP[t]]]

\* Mutant of Upsert: the code's earlier session is not taken out.
UpsertOver(ix, ps) ==
  [byCode  |-> [ix.byCode EXCEPT ![ps.code] = ps],
   byAddr  |-> [ix.byAddr EXCEPT ![ps.addr] = ps],
   byTunIP |-> [ix.byTunIP EXCEPT ![ps.tunIP] = ps]]

\* Puts ps in the place of its code's earlier session.
Upsert(ix, ps) ==
  LET cleared == Remove(ix, {ix.byCode[ps.code]} \ {None}) IN
  [byCode  |-> [cleared.byCode EXCEPT ![ps.code] = ps],
   byAddr  |-> [cleared.byAddr EXCEPT ![ps.addr] = ps],
   byTunIP |-> [cleared.byTunIP EXCEPT ![ps.tunIP] = ps]]

Evict(ix, c) == Remove(ix, {ix.byCode[c]} \ {None})

Online(ix) == {c \in Codes : ix.byCode[c] # None}

=============================================================================
