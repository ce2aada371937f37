--------------------------- MODULE SecureChannel ---------------------------
(***************************************************************************)
(* One direction of a tunnel session: pkg/tunnel (session.go, fec.go and   *)
(* session_fec.go) with the pumps that call it, over a network that loses, *)
(* duplicates and reorders.                                                *)
(*                                                                         *)
(* The sender seals each packet under the next counter; the packets of a   *)
(* full group are followed by their XOR.  The receiver authenticates,      *)
(* filters replays with a ring of bits, caches boxes and rebuilds the one  *)
(* that is missing of a group, which then takes the way of any packet.     *)
(* A box is the set of the counters whose ciphertexts are XORed in it.     *)
(***************************************************************************)
EXTENDS Integers, Sequences, FiniteSets, FiniteSetsExt

CONSTANTS Window,        \* recvWindow
          Group,         \* fecGroup
          Slots,         \* fecSlots
          PendingMax,    \* fecPendingMax
          RecoveredMax,  \* fecRecoveredMax
          MaxCounter     \* bound: packets sealed

\* Of the constants; assumed where an instance is made.
ChannelAssumption ==
  /\ Group \in Nat /\ Group >= 2 /\ Slots \in Nat /\ Slots >= Group
  /\ Window \in Nat /\ Window >= Slots
  /\ PendingMax \in Nat \ {0} /\ RecoveredMax \in Nat \ {0} /\ MaxCounter \in Nat

VARIABLES
  sendCtr,    \* the last counter used
  members,    \* counters of the group that fills
  network,    \* packets sealed; one may arrive never, late or again
  window,     \* recvBase, recvMax and recvBits
  slots,      \* boxes cached, by counter modulo Slots
  pending,    \* groups that wait for a member
  recovered,  \* packets rebuilt
  draining,   \* the pump takes the rebuilt packets
  delivered   \* how often the packet of each counter was taken

vars == <<sendCtr, members, network, window, slots, pending, recovered, draining, delivered>>

NoBox == [counter |-> 0, box |-> {}]
NoGroup == [used |-> FALSE, counters |-> {}, frame |-> {}]

Init ==
  /\ sendCtr = 0 /\ members = {} /\ network = {}
  /\ window = [base |-> 1, max |-> 0, bits |-> [i \in 0..Window - 1 |-> FALSE]]
  /\ slots = [i \in 0..Slots - 1 |-> NoBox]
  /\ pending = [i \in 1..PendingMax |-> NoGroup]
  /\ recovered = <<>> /\ draining = FALSE
  /\ delivered = [c \in 1..MaxCounter |-> 0]

-----------------------------------------------------------------------------
(* Sending *)

Data(c) == [type |-> "data", counter |-> c, box |-> {c}, counters |-> {}]
Ctrl(c) == [type |-> "ctrl", counter |-> c, box |-> {c}, counters |-> {}]
Parity(c, cs) == [type |-> "fec", counter |-> c, box |-> cs, counters |-> cs]

\* SealDataFEC: the packet that fills a group brings its parity with it.
SendData ==
  LET full == Cardinality(members) + 1 = Group
      group == members \cup {sendCtr + 1} IN
  /\ sendCtr + 2 <= MaxCounter
  /\ members' = IF full THEN {} ELSE group
  /\ sendCtr' = IF full THEN sendCtr + 2 ELSE sendCtr + 1
  /\ network' = network \cup {Data(sendCtr + 1)}
                        \cup (IF full THEN {Parity(sendCtr + 2, group)} ELSE {})
  /\ UNCHANGED <<window, slots, pending, recovered, draining, delivered>>

\* Pings and control messages take counters between those of a group.
SendCtrl ==
  /\ sendCtr < MaxCounter
  /\ sendCtr' = sendCtr + 1
  /\ network' = network \cup {Ctrl(sendCtr + 1)}
  /\ UNCHANGED <<members, window, slots, pending, recovered, draining, delivered>>

-----------------------------------------------------------------------------
(* acceptCounter *)

\* The window moves up to c: the bits of the counters that leave it are cleared,
\* all of them when it moves by more than its width.
Slide(c) ==
  LET newBase == IF c > Window THEN c - Window + 1 ELSE 1
      n == IF newBase > window.base THEN Min({newBase - window.base, Window}) ELSE 0
      out == {(window.base + i) % Window : i \in 0..n - 1} IN
  [base |-> newBase, max |-> c,
   bits |-> [i \in 0..Window - 1 |-> window.bits[i] /\ i \notin out]]

Slid(c) == IF c > window.max THEN Slide(c) ELSE window

\* Mutant of Fresh: the lower end of the window is not looked at.
FreshAnyAge(c) == c > 0 /\ ~Slid(c).bits[c % Window]

Fresh(c) == c > 0 /\ c >= Slid(c).base /\ ~Slid(c).bits[c % Window]

Accepted(c) == [Slid(c) EXCEPT !.bits[c % Window] = TRUE]

-----------------------------------------------------------------------------
(* fecState, receiving side: a record of slots, pending groups and queue *)

Rx == [slots |-> slots, pending |-> pending, recovered |-> recovered]

\* Mutant of Cached: a slot is taken for any counter that falls into it.
CachedAny(rx, c) == rx.slots[c % Slots].counter # 0

\* lookup
Cached(rx, c) == rx.slots[c % Slots].counter = c

\* The members of a group that lookup does not find.
Missing(rx, i) == {c \in rx.pending[i].counters : ~Cached(rx, c)}

\* The XOR of a frame and of the boxes cached for some counters: what an odd number of them holds.
XorBoxes(rx, frame, cs) ==
  {x \in 1..MaxCounter :
     (x \in frame) # (Cardinality({c \in cs : x \in rx.slots[c % Slots].box}) % 2 = 1)}

\* The packet of the member a group lacks.
Rebuilt(rx, i) ==
  LET c == CHOOSE d \in Missing(rx, i) : TRUE IN
  [type |-> "data", counter |-> c, counters |-> {},
   box |-> XorBoxes(rx, rx.pending[i].frame, rx.pending[i].counters \ {c})]

\* The first of the places S, as many as there is room for, in their order.
Firsts(S, room) ==
  {q \in UNION {[1..n -> S] : n \in 0..room} :
     /\ \A k, l \in DOMAIN q : k < l => q[k] < q[l]
     /\ \A k \in DOMAIN q, j \in S : j < q[k] => \E l \in DOMAIN q : q[l] = j
     /\ DOMAIN q = 1..room \/ \A j \in S : \E l \in DOMAIN q : q[l] = j}

\* tryRecover of the groups at some places, in their order.  A group with all its
\* members is done with; one that lacks one is rebuilt if the queue has room.
TryRecover(rx, places) ==
  LET whole == {i \in places : Missing(rx, i) = {}}
      ready == {i \in places : Cardinality(Missing(rx, i)) = 1} IN
  \E q \in Firsts(ready, RecoveredMax - Len(rx.recovered)) :
    /\ slots' = rx.slots
    /\ pending' = [i \in 1..PendingMax |->
                     IF i \in whole \/ \E k \in DOMAIN q : q[k] = i THEN NoGroup ELSE rx.pending[i]]
    /\ recovered' = rx.recovered \o [k \in DOMAIN q |-> Rebuilt(rx, q[k])]

\* tryRecoverAll: a group whose members have left the cache is given up.
TryRecoverAll(rx, newest) ==
  LET kept(p) == IF \A c \in p.counters : newest - c > Slots THEN NoGroup ELSE p IN
  TryRecover([rx EXCEPT !.pending = [i \in 1..PendingMax |-> kept(@[i])]], 1..PendingMax)

\* cacheBox
CacheBox(rx, c, box) ==
  TryRecoverAll([rx EXCEPT !.slots[c % Slots] = [counter |-> c, box |-> box]], c)

\* freePending: the first free place, else that of the oldest group.
FreePending ==
  LET free == {i \in 1..PendingMax : ~pending[i].used} IN
  IF free # {} THEN {i \in free : \A j \in free : i <= j}
  ELSE {i \in 1..PendingMax : \A j \in 1..PendingMax :
          Max(pending[i].counters) <= Max(pending[j].counters)}

\* addGroup
AddGroup(p) ==
  \E i \in FreePending :
    TryRecover([Rx EXCEPT !.pending[i] = [used |-> TRUE, counters |-> p.counters, frame |-> p.box]], {i})

Becomes(rx) == slots' = rx.slots /\ pending' = rx.pending /\ recovered' = rx.recovered

-----------------------------------------------------------------------------
(* The receiving pump *)

\* OpenData of a packet that came over the network or was rebuilt.
Open(p, rx) ==
  IF p.box = {p.counter} /\ Fresh(p.counter)
  THEN /\ window' = Accepted(p.counter)
       /\ delivered' = [delivered EXCEPT ![p.counter] = @ + 1]
       /\ CacheBox(rx, p.counter, p.box)
  ELSE /\ UNCHANGED <<window, delivered>>
       /\ Becomes(rx)

ReceiveData(p) ==
  /\ ~draining /\ p.type = "data"
  /\ Open(p, Rx)
  /\ UNCHANGED <<sendCtr, members, network, draining>>

\* OpenCtrl, OpenPing, OpenPong
ReceiveCtrl(p) ==
  /\ ~draining /\ p.type = "ctrl" /\ Fresh(p.counter)
  /\ window' = Accepted(p.counter)
  /\ delivered' = [delivered EXCEPT ![p.counter] = @ + 1]
  /\ UNCHANGED <<sendCtr, members, network, slots, pending, recovered, draining>>

\* HandleFEC
ReceiveFEC(p) ==
  /\ ~draining /\ p.type = "fec" /\ Fresh(p.counter)
  /\ window' = Accepted(p.counter)
  /\ AddGroup(p)
  /\ delivered' = [delivered EXCEPT ![p.counter] = @ + 1]
  /\ draining' = TRUE
  /\ UNCHANGED <<sendCtr, members, network>>

\* Recover, once for each packet rebuilt until none is left.
Drain ==
  /\ draining
  /\ IF recovered = <<>> THEN draining' = FALSE /\ UNCHANGED <<window, slots, pending, recovered, delivered>>
     ELSE /\ Open(Head(recovered), [Rx EXCEPT !.recovered = Tail(@)])
          /\ UNCHANGED draining
  /\ UNCHANGED <<sendCtr, members, network>>

Next ==
  \/ SendData \/ SendCtrl \/ Drain
  \/ \E p \in network : ReceiveData(p) \/ ReceiveCtrl(p) \/ ReceiveFEC(p)

Spec == Init /\ [][Next]_vars

-----------------------------------------------------------------------------
\* No packet is taken twice, whatever the network repeats and whether it came by
\* itself or was rebuilt.
DeliveredOnce == \A c \in 1..MaxCounter : delivered[c] <= 1

\* What the XOR of a group rebuilds is the box that was sealed, also when the
\* slots of its members have been used again since.
RebuiltAsSealed == \A i \in 1..Len(recovered) : recovered[i].box = {recovered[i].counter}

\* A box that is cached, and a group that is noted, is put to use in the same step: a group
\* that then waits lacks two members, or the queue is full.
GroupsAreTried ==
  \A i \in 1..PendingMax :
    pending'[i].used /\ (slots' # slots \/ pending'[i] # pending[i]) =>
      (Cardinality(Missing(Rx, i)) > 1 \/ Len(recovered) = RecoveredMax)'

\* The ring of bits is the filter a session promises.
Filter == INSTANCE ReplayFilter WITH
  high <- window.max,
  seen <- {c \in window.base..window.max : window.bits[c % Window]},
  taken <- {c \in 1..MaxCounter : delivered[c] > 0}
ImplementsReplayFilter == Filter!Spec

\* fec.go: a group that lacks one member waits for nothing but the queue.  It does when the
\* queue was full and then lost packets that had come meanwhile: nobody tries it again.
GroupsNeverWait ==
  \A i \in 1..PendingMax :
    pending[i].used => Cardinality(Missing(Rx, i)) > 1 \/ Len(recovered) = RecoveredMax

\* fec.go: a box is rebuilt at once and never waits.
RebuiltAtOnce == ~draining => recovered = <<>>

=============================================================================
