------------------------ MODULE TrafficProofs ------------------------
(***************************************************************************)
(* Theorems about the parts of Traffic: the sealed channel, for every size *)
(* of window, group, cache and queues and any number of packets, and the   *)
(* two parts of NetherNet, for any clients, answers, gateways and streams. *)
(*                                                                         *)
(* ChannelInv says which counters the bits of the window stand for         *)
(* (RingOf), what the receiver's caches may hold (AsSealed) and what the   *)
(* network may bring (NetworkOK).  The ring then implements ReplayFilter.  *)
(* NetherInv relates the two maps of sessions, the sockets and the panel.  *)
(***************************************************************************)
EXTENDS Traffic, WellFoundedInduction, FiniteSetTheorems, TLAPS

Counters == 1..MaxCounter

\* A residue is a place of the ring, and two counters of one place lie a ring apart.
LEMMA ModRange ==
  ASSUME NEW w \in Nat \ {0}, NEW a \in Int
  PROVE  a % w \in 0..w - 1
  OBVIOUS

LEMMA ModApart ==
  ASSUME NEW w \in Nat \ {0}, NEW a \in Int, NEW b \in Int, a % w = b % w, a < b
  PROVE  b - a >= w
<1>1. a = w * (a \div w) + (a % w) /\ b = w * (b \div w) + (b % w)
  OBVIOUS
<1>a. a \div w \in Int /\ b \div w \in Int /\ a % w \in Int
  OBVIOUS
<1>2. PICK p \in Int, q \in Int, r \in Int : a = w * p + r /\ b = w * q + r
  BY <1>1, <1>a
<1>3. b - a = w * (q - p)
  BY <1>2
<1>4. q - p > 0
  BY <1>3, <1>2, SMTT(30)
<1>5. w * (q - p) >= w
  BY <1>4, SMTT(30)
<1> QED
  BY <1>3, <1>5

-----------------------------------------------------------------------------
(* The ring of bits w tells which counters of the window have been taken,  *)
(* where d says how often each counter has been.                           *)

RingOf(w, d) ==
  /\ w \in [base : Nat, max : 0..MaxCounter, bits : [0..Window - 1 -> BOOLEAN]]
  /\ w.base = IF w.max > Window THEN w.max - Window + 1 ELSE 1
  /\ \A k \in w.base..w.max : w.bits[k % Window] <=> d[k] > 0
  /\ \A k \in Counters : k > w.max => d[k] = 0
  /\ \A i \in 0..Window - 1 : w.bits[i] => \E k \in w.base..w.max : k % Window = i

\* Moving the window up to a higher counter clears what leaves it and nothing else.
LEMMA SlideKeeps ==
  ASSUME ChannelAssumption, NEW d \in [Counters -> Nat], RingOf(window, d),
         NEW c \in Counters, c > window.max
  PROVE  RingOf(Slide(c), d) /\ Slide(c).max = c
<1> DEFINE base == IF c > Window THEN c - Window + 1 ELSE 1
           n == IF base > window.base THEN Min({base - window.base, Window}) ELSE 0
           out == {(window.base + i) % Window : i \in 0..n - 1}
           bits == [i \in 0..Window - 1 |-> window.bits[i] /\ i \notin out]
<1>1. Window \in Nat \ {0} /\ MaxCounter \in Nat
  BY DEF ChannelAssumption
<1>2. /\ window.base \in Nat /\ window.max \in 0..MaxCounter
      /\ window.bits \in [0..Window - 1 -> BOOLEAN]
      /\ window.base = IF window.max > Window THEN window.max - Window + 1 ELSE 1
  BY DEF RingOf
<1>3. Slide(c) = [base |-> base, max |-> c, bits |-> bits]
  BY DEF Slide
<1>4. base \in Nat /\ base >= window.base /\ base >= 1 /\ base <= c /\ c - base < Window
  BY <1>1, <1>2 DEF Counters
<1>5. ASSUME NEW a \in Int, NEW b \in Int
      PROVE  Min({a, b}) = IF a <= b THEN a ELSE b
  <2>1. (IF a <= b THEN a ELSE b) \in {a, b}
    OBVIOUS
  <2>2. \A x \in {a, b} : (IF a <= b THEN a ELSE b) <= x
    OBVIOUS
  <2>3. \A x \in {a, b} : (\A y \in {a, b} : x <= y) => x = IF a <= b THEN a ELSE b
    OBVIOUS
  <2> QED
    BY <2>1, <2>2, <2>3 DEF Min
<1>6. n \in Nat /\ n <= base - window.base /\ (n = base - window.base \/ n = Window)
  BY <1>1, <1>2, <1>4, <1>5
<1> HIDE DEF n, base
<1>7. ASSUME NEW e \in window.base..window.max, e < base
      PROVE  e % Window \in out
  <2>1. e - window.base \in 0..n - 1
    <3>1. e \in Int /\ window.base <= e /\ e <= window.max /\ e < base
      BY <1>2, <1>7
    <3>2. window.base \in Int /\ window.max \in Int /\ Window \in Int /\ base \in Int /\ n \in Int
      BY <1>1, <1>2, <1>4, <1>6
    <3>3. window.max - window.base < Window
      BY <3>2, <1>2
    <3>4. e - window.base < n
      BY <3>1, <3>2, <3>3, <1>6
    <3> QED
      BY <3>1, <3>2, <3>4
  <2>2. window.base + (e - window.base) = e
    BY <1>2
  <2> QED
    BY <2>1, <2>2
<1>8. ASSUME NEW k \in Nat, k >= base, k - window.base < Window
      PROVE  k % Window \notin out
  <2>0. SUFFICES ASSUME NEW i \in 0..n - 1, k % Window = (window.base + i) % Window
               PROVE  FALSE
    OBVIOUS
  <2>1. k \in Int /\ window.base + i \in Int /\ window.base + i < k
    BY <1>2, <1>4, <1>6, <1>8
  <2>2. k - (window.base + i) >= Window
    BY <2>0, <2>1, <1>1, ModApart, Zenon
  <2> QED
    <3>1. i \in Nat
      BY <1>6
    <3>2. k - window.base < Window
      BY <1>8
    <3>3. window.base \in Int /\ Window \in Int /\ k \in Int
      BY <1>1, <1>2
    <3> QED
      BY <3>1, <3>2, <3>3, <2>2
<1>9. \A i \in 0..Window - 1 : bits[i] <=> window.bits[i] /\ i \notin out
  OBVIOUS
<1>10. bits \in [0..Window - 1 -> BOOLEAN]
  BY <1>2
<1> HIDE DEF bits, out
<1>11. \A k \in base..c : bits[k % Window] <=> d[k] > 0
  <2> SUFFICES ASSUME NEW k \in base..c
               PROVE  bits[k % Window] <=> d[k] > 0
    OBVIOUS
  <2>1. k \in Nat /\ k % Window \in 0..Window - 1
    BY <1>1, <1>4, ModRange DEF Counters
  <2>2. CASE k <= window.max
    <3>1. k \in window.base..window.max
      BY <1>2, <1>4, <2>1, <2>2
    <3>2. window.bits[k % Window] <=> d[k] > 0
      BY <3>1 DEF RingOf
    <3>3. k - window.base < Window
      BY <1>1, <1>2, <2>1, <2>2
    <3>4. k % Window \notin out
      BY <3>3, <2>1, <1>8
    <3> QED
      BY <3>2, <3>4, <2>1, <1>9
  <2>3. CASE k > window.max
    <3>1. d[k] = 0
      <4>1. k \in Counters
        BY <2>1, <1>1, <1>4 DEF Counters
      <4>2. \A j \in Counters : j > window.max => d[j] = 0
        BY DEF RingOf
      <4> QED
        BY <4>1, <4>2, <2>3
    <3>2. ASSUME window.bits[k % Window]
          PROVE  k % Window \in out
      <4>1. PICK e \in window.base..window.max : e % Window = k % Window
        BY <3>2, <2>1 DEF RingOf
      <4>2. k \in Int /\ e \in Int /\ e < k
        BY <2>1, <2>3, <1>2
      <4>3. k - e >= Window
        BY <4>1, <4>2, <1>1, ModApart, Zenon
      <4>4. e < base
        BY <4>3, <4>2, <1>1, <1>4, <2>1 DEF Counters
      <4> QED
        BY <4>1, <4>4, <1>7
    <3> QED
      BY <3>1, <3>2, <2>1, <1>9
  <2> QED
    BY <2>1, <2>2, <2>3, <1>2
<1>12. \A k \in Counters : k > c => d[k] = 0
  BY <1>2 DEF RingOf, Counters
<1>13. ASSUME NEW i \in 0..Window - 1, bits[i]
       PROVE  \E k \in base..c : k % Window = i
  <2>1. window.bits[i] /\ i \notin out
    BY <1>9, <1>13
  <2>2. PICK k \in window.base..window.max : k % Window = i
    BY <2>1 DEF RingOf
  <2>3. ~(k < base)
    BY <2>1, <2>2, <1>7
  <2>4. k \in base..c
    BY <2>3, <1>2, <1>4 DEF Counters
  <2> QED
    BY <2>2, <2>4
<1>14. base = IF c > Window THEN c - Window + 1 ELSE 1
  BY DEF base
<1>15. c \in 0..MaxCounter
  BY <1>1 DEF Counters
<1> QED
  BY <1>3, <1>4, <1>10, <1>11, <1>12, <1>13, <1>14, <1>15 DEF RingOf

\* The window acceptCounter looks at, moved or not.
LEMMA SlidKeeps ==
  ASSUME ChannelAssumption, NEW d \in [Counters -> Nat], RingOf(window, d), NEW c \in Counters
  PROVE  /\ RingOf(Slid(c), d) /\ c <= Slid(c).max
         /\ Slid(c).max = IF c > window.max THEN c ELSE window.max
<1>1. CASE c > window.max
  <2>1. Slid(c) = Slide(c)
    BY <1>1 DEF Slid
  <2>2. RingOf(Slide(c), d) /\ Slide(c).max = c
    BY <1>1, SlideKeeps
  <2> QED
    BY <1>1, <2>1, <2>2 DEF Counters
<1>2. CASE ~(c > window.max)
  <2>1. window.max \in Int
    BY DEF RingOf
  <2> QED
    BY <1>2, <2>1 DEF Slid, Counters
<1> QED
  BY <1>1, <1>2

\* A ring in which the bit of c is set, and what it was before.
LEMMA MarkKeeps ==
  ASSUME ChannelAssumption, NEW d \in [Counters -> Nat], NEW w, RingOf(w, d),
         NEW c \in Counters, c \in w.base..w.max, ~w.bits[c % Window]
  PROVE  /\ d[c] = 0
         /\ RingOf([w EXCEPT !.bits[c % Window] = TRUE], [d EXCEPT ![c] = @ + 1])
<1> DEFINE v == [w EXCEPT !.bits[c % Window] = TRUE]
           e == [d EXCEPT ![c] = @ + 1]
<1>1. Window \in Nat \ {0} /\ MaxCounter \in Nat
  BY DEF ChannelAssumption
<1>2. /\ w \in [base : Nat, max : 0..MaxCounter, bits : [0..Window - 1 -> BOOLEAN]]
      /\ w.base = IF w.max > Window THEN w.max - Window + 1 ELSE 1
      /\ \A k \in w.base..w.max : w.bits[k % Window] <=> d[k] > 0
      /\ \A k \in Counters : k > w.max => d[k] = 0
      /\ \A i \in 0..Window - 1 : w.bits[i] => \E k \in w.base..w.max : k % Window = i
  BY DEF RingOf
<1>3. w.base \in Nat /\ w.max \in 0..MaxCounter /\ w.bits \in [0..Window - 1 -> BOOLEAN]
  BY <1>2
<1>4. d[c] = 0
  BY <1>2
<1>5. c % Window \in 0..Window - 1
  <2>1. c \in Int
    BY DEF Counters
  <2> QED
    BY <2>1, <1>1, ModRange, Zenon
<1>6. /\ v.base = w.base /\ v.max = w.max /\ v.bits = [w.bits EXCEPT ![c % Window] = TRUE]
      /\ v \in [base : Nat, max : 0..MaxCounter, bits : [0..Window - 1 -> BOOLEAN]]
  BY <1>2, <1>5
<1>7. /\ e \in [Counters -> Nat] /\ e[c] = 1
      /\ \A k \in Counters : k # c => e[k] = d[k]
  BY <1>4
<1> HIDE DEF v, e
<1>8. ASSUME NEW k \in v.base..v.max
      PROVE  v.bits[k % Window] <=> e[k] > 0
  <2>0. k \in Counters /\ k \in Int /\ c \in Int
    BY <1>1, <1>2, <1>3, <1>6 DEF Counters
  <2>1. k \in Counters /\ k \in Int /\ c \in Int /\ k % Window \in 0..Window - 1
    BY <2>0, <1>1, ModRange, Zenon
  <2>2. CASE k = c
    <3>1. v.bits[c % Window] = TRUE
      BY <1>5, <1>6, <1>3
    <3> QED
      BY <3>1, <2>2, <1>7
  <2>3. CASE k # c
    <3>1. k % Window # c % Window
      <4>1. SUFFICES ASSUME k % Window = c % Window
                     PROVE  FALSE
        OBVIOUS
      <4>2. k < c => c - k >= Window
        BY <4>1, <2>1, <1>1, ModApart, Zenon
      <4>3. c < k => k - c >= Window
        BY <4>1, <2>1, <1>1, ModApart, Zenon
      <4>4. w.max - w.base < Window
        BY <1>1, <1>2, <1>3
      <4>5. k >= w.base /\ k <= w.max /\ c >= w.base /\ c <= w.max /\ (k < c \/ c < k)
        BY <2>1, <2>3, <1>6, <1>3
      <4> QED
        BY <4>2, <4>3, <4>4, <4>5, <1>1, <1>3, <1>6, <2>1
    <3>2. v.bits[k % Window] = w.bits[k % Window]
      BY <3>1, <2>1, <1>6, <1>3
    <3> QED
      BY <3>2, <2>1, <2>3, <1>6, <1>7, <1>2
  <2> QED
    BY <2>2, <2>3
<1>9. \A k \in Counters : k > v.max => e[k] = 0
  <2> SUFFICES ASSUME NEW k \in Counters, k > v.max
               PROVE  e[k] = 0
    OBVIOUS
  <2>1. k # c
    BY <1>3, <1>6 DEF Counters
  <2> QED
    BY <2>1, <1>2, <1>6, <1>7
<1>10. ASSUME NEW i \in 0..Window - 1, v.bits[i]
       PROVE  \E k \in v.base..v.max : k % Window = i
  <2>1. CASE i = c % Window
    BY <2>1, <1>6
  <2>2. CASE i # c % Window
    BY <1>10, <2>2, <1>2, <1>3, <1>6
  <2> QED
    BY <2>1, <2>2
<1>11. RingOf(v, e)
  BY <1>2, <1>6, <1>8, <1>9, <1>10 DEF RingOf
<1> QED
  BY <1>4, <1>11 DEF v, e

\* A counter that is fresh when it is taken was never taken.
LEMMA AcceptKeeps ==
  ASSUME ChannelAssumption, delivered \in [Counters -> Nat], RingOf(window, delivered),
         NEW c \in Counters, Fresh(c), window' = Accepted(c),
         delivered' = [delivered EXCEPT ![c] = @ + 1]
  PROVE  /\ RingOf(window, delivered)' /\ delivered' \in [Counters -> Nat] /\ delivered[c] = 0
         /\ window'.max = IF c > window.max THEN c ELSE window.max
         /\ c + Window > window.max
<1>1. /\ RingOf(Slid(c), delivered) /\ c <= Slid(c).max
      /\ Slid(c).max = IF c > window.max THEN c ELSE window.max
  BY SlidKeeps
<1>2. Slid(c).base \in Nat /\ Slid(c).max \in 0..MaxCounter /\ window.max \in 0..MaxCounter
  BY <1>1 DEF RingOf
<1>3. c \in Slid(c).base..Slid(c).max /\ ~Slid(c).bits[c % Window]
  BY <1>1, <1>2 DEF Fresh, Counters
<1>4. /\ delivered[c] = 0
      /\ RingOf([Slid(c) EXCEPT !.bits[c % Window] = TRUE], [delivered EXCEPT ![c] = @ + 1])
  BY <1>1, <1>3, MarkKeeps
<1>5. RingOf(window', delivered')
  BY <1>4 DEF Accepted
<1>6. window'.max = Slid(c).max
  BY <1>1 DEF Accepted, RingOf
<1>7. c + Window > window.max
  <2>1. Slid(c).base = IF Slid(c).max > Window THEN Slid(c).max - Window + 1 ELSE 1
    BY <1>1 DEF RingOf
  <2>2. Window \in Nat /\ c \in Nat /\ c >= Slid(c).base
    BY <1>2, <1>3 DEF ChannelAssumption, Counters
  <2> QED
    BY <2>1, <2>2, <1>1, <1>2
<1> QED
  BY <1>1, <1>4, <1>5, <1>6, <1>7 DEF RingOf

-----------------------------------------------------------------------------
(* A receiver whose boxes, groups and rebuilt packets are what was sealed. *)

Packets == [type : {"data", "ctrl", "fec"}, counter : Counters, box : SUBSET Counters,
            counters : SUBSET Counters]

Receivers ==
  [slots : [0..Slots - 1 -> [counter : 0..MaxCounter, box : SUBSET Counters]],
   pending : [1..PendingMax -> [used : BOOLEAN, counters : SUBSET Counters, frame : SUBSET Counters]],
   recovered : Seq(Packets)]

AsSealed(rx) ==
  /\ rx \in Receivers
  /\ \A s \in 0..Slots - 1 : rx.slots[s].counter # 0 => rx.slots[s].box = {rx.slots[s].counter}
  /\ \A i \in 1..PendingMax : rx.pending[i].frame = rx.pending[i].counters
  /\ \A k \in 1..Len(rx.recovered) :
       rx.recovered[k].type = "data" /\ rx.recovered[k].box = {rx.recovered[k].counter}
  /\ Len(rx.recovered) <= RecoveredMax

\* What a group lacks can be counted.
LEMMA MissingIsFinite ==
  ASSUME ChannelAssumption, NEW rx \in Receivers, NEW i \in 1..PendingMax
  PROVE  /\ Missing(rx, i) \in SUBSET Counters /\ IsFiniteSet(Missing(rx, i))
         /\ Cardinality(Missing(rx, i)) \in Nat
         /\ Cardinality(Missing(rx, i)) = 0 <=> Missing(rx, i) = {}
<1>1. Missing(rx, i) \subseteq Counters
  BY DEF Missing, Receivers
<1>2. IsFiniteSet(Counters)
  BY FS_Interval DEF Counters, ChannelAssumption
<1> QED
  BY <1>1, <1>2, FS_Subset, FS_CardinalityType, FS_EmptySet

\* What the XOR of the frame with the other boxes of a group rebuilds is the one that lacks.
LEMMA XorRebuilds ==
  ASSUME ChannelAssumption, NEW rx, AsSealed(rx), NEW i \in 1..PendingMax,
         Cardinality(Missing(rx, i)) = 1
  PROVE  /\ Rebuilt(rx, i) \in Packets /\ Rebuilt(rx, i).type = "data"
         /\ Rebuilt(rx, i).box = {Rebuilt(rx, i).counter}
<1> DEFINE c == CHOOSE d \in Missing(rx, i) : TRUE
           cs == rx.pending[i].counters \ {c}
           frame == rx.pending[i].frame
<1>1. rx \in Receivers /\ rx.pending[i].counters \in SUBSET Counters /\ frame = rx.pending[i].counters
  BY DEF AsSealed, Receivers
<1>2. Missing(rx, i) \in SUBSET Counters /\ Missing(rx, i) # {}
  BY <1>1, MissingIsFinite
<1>3. c \in Missing(rx, i)
  BY <1>2
<1>4. Missing(rx, i) = {c}
  <2>1. PICK d : Missing(rx, i) = {d}
    BY <1>1, MissingIsFinite, FS_Singleton
  <2> QED
    BY <1>3, <2>1
<1>5. Rebuilt(rx, i) = [type |-> "data", counter |-> c, counters |-> {},
                        box |-> XorBoxes(rx, frame, cs)]
  BY DEF Rebuilt
<1>6. c \in frame /\ c \in Counters /\ cs \subseteq Counters
  BY <1>1, <1>3, <1>2 DEF Missing
<1> HIDE DEF c
<1>7. ASSUME NEW d \in cs
      PROVE  rx.slots[d % Slots].box = {d}
  <2>1. d \in rx.pending[i].counters /\ d \notin Missing(rx, i)
    BY <1>4
  <2>2. rx.slots[d % Slots].counter = d
    BY <2>1 DEF Missing, Cached
  <2>3. d \in Int /\ d # 0 /\ Slots \in Nat \ {0}
    BY <1>6 DEF Counters, ChannelAssumption
  <2>4. d % Slots \in 0..Slots - 1
    BY <2>3, ModRange, Zenon
  <2> QED
    BY <2>2, <2>3, <2>4 DEF AsSealed
<1> DEFINE holders(x) == {d \in cs : x \in rx.slots[d % Slots].box}
<1>8. ASSUME NEW x \in Counters
      PROVE  (Cardinality(holders(x)) % 2 = 1) <=> x \in cs
  <2>1. CASE x \in cs
    <3>1. holders(x) = {x}
      BY <2>1, <1>7
    <3>2. Cardinality(holders(x)) = 1
      BY <3>1, FS_Singleton
    <3> QED
      BY <2>1, <3>2
  <2>2. CASE x \notin cs
    <3>1. holders(x) = {}
      BY <2>2, <1>7
    <3>2. Cardinality(holders(x)) = 0
      BY <3>1, FS_EmptySet
    <3> QED
      BY <2>2, <3>2
  <2> QED
    BY <2>1, <2>2
<1>9. XorBoxes(rx, frame, cs) = {x \in Counters : (x \in frame) # (Cardinality(holders(x)) % 2 = 1)}
  BY DEF XorBoxes, Counters
<1> HIDE DEF holders
<1>10. \A x \in Counters : ((x \in frame) # (Cardinality(holders(x)) % 2 = 1)) <=> x = c
  <2> SUFFICES ASSUME NEW x \in Counters
               PROVE  ((x \in frame) # (Cardinality(holders(x)) % 2 = 1)) <=> x = c
    OBVIOUS
  <2>1. (x \in frame) # (x \in cs) <=> x = c
    BY <1>1, <1>6
  <2> QED
    BY <2>1, <1>8
<1>11. XorBoxes(rx, frame, cs) = {c}
  BY <1>9, <1>10, <1>6
<1> QED
  BY <1>5, <1>6, <1>11 DEF Packets

\* tryRecover leaves a receiver that is as sealed, and a group that it leaves waiting among
\* those it tried lacks two members or found the queue full.
LEMMA TryRecoverKeeps ==
  ASSUME ChannelAssumption, NEW rx, AsSealed(rx), NEW places \in SUBSET (1..PendingMax),
         TryRecover(rx, places)
  PROVE  /\ AsSealed(Rx)' /\ slots' = rx.slots
         /\ \A i \in 1..PendingMax : pending'[i].used =>
              /\ pending'[i] = rx.pending[i]
              /\ i \in places =>
                   Cardinality(Missing(rx, i)) > 1 \/ Len(recovered') = RecoveredMax
<1> DEFINE whole == {i \in places : Missing(rx, i) = {}}
           ready == {i \in places : Cardinality(Missing(rx, i)) = 1}
<1>1. PICK q \in Firsts(ready, RecoveredMax - Len(rx.recovered)) :
        /\ slots' = rx.slots
        /\ pending' = [i \in 1..PendingMax |->
                        IF i \in whole \/ \E k \in DOMAIN q : q[k] = i THEN NoGroup ELSE rx.pending[i]]
        /\ recovered' = rx.recovered \o [k \in DOMAIN q |-> Rebuilt(rx, q[k])]
  BY DEF TryRecover
<1>2. /\ rx \in Receivers /\ rx.recovered \in Seq(Packets) /\ Len(rx.recovered) \in 0..RecoveredMax
      /\ RecoveredMax \in Nat
      /\ \A i \in 1..PendingMax : rx.pending[i].frame = rx.pending[i].counters
      /\ \A k \in 1..Len(rx.recovered) :
           rx.recovered[k].type = "data" /\ rx.recovered[k].box = {rx.recovered[k].counter}
  BY DEF AsSealed, Receivers, ChannelAssumption
<1> DEFINE room == RecoveredMax - Len(rx.recovered)
<1>3. room \in Nat
  BY <1>2
<1>4. PICK n \in 0..room : q \in [1..n -> ready]
  BY DEF Firsts
<1>5. n = room \/ \A j \in ready : \E l \in DOMAIN q : q[l] = j
  <2>1. DOMAIN q = 1..room \/ \A j \in ready : \E l \in DOMAIN q : q[l] = j
    BY DEF Firsts
  <2>2. ASSUME DOMAIN q = 1..room
        PROVE  n = room
    <3>1. 1..n = 1..room
      BY <2>2, <1>4
    <3>2. n \in Nat
      BY <1>3, <1>4
    <3> QED
      BY <3>1, <3>2, <1>3, <1>4
  <2> QED
    BY <2>1, <2>2
<1> DEFINE new == [k \in 1..n |-> Rebuilt(rx, q[k])]
<1>6. ASSUME NEW k \in 1..n
      PROVE  new[k] \in Packets /\ new[k].type = "data" /\ new[k].box = {new[k].counter}
  <2>1. q[k] \in 1..PendingMax /\ Cardinality(Missing(rx, q[k])) = 1
    BY <1>4
  <2>2. /\ Rebuilt(rx, q[k]) \in Packets /\ Rebuilt(rx, q[k]).type = "data"
        /\ Rebuilt(rx, q[k]).box = {Rebuilt(rx, q[k]).counter}
    BY <2>1, XorRebuilds
  <2> QED
    BY <2>2
<1>7. n \in Nat /\ new \in Seq(Packets) /\ Len(new) = n
  BY <1>3, <1>4, <1>6
<1>8. recovered' = rx.recovered \o new
  BY <1>1, <1>4
<1> HIDE DEF new, ready, whole
<1>9. /\ recovered' \in Seq(Packets) /\ Len(recovered') = Len(rx.recovered) + n
      /\ Len(recovered') <= RecoveredMax
  <2>1. recovered' \in Seq(Packets) /\ Len(recovered') = Len(rx.recovered) + Len(new)
    <3>1. \A S : \A a, b \in Seq(S) : a \o b \in Seq(S) /\ Len(a \o b) = Len(a) + Len(b)
      OBVIOUS
    <3> QED
      BY <3>1, <1>2, <1>7, <1>8, Zenon
  <2>2. n \in Int /\ n <= RecoveredMax - Len(rx.recovered) /\ Len(rx.recovered) \in Int
    BY <1>2, <1>3, <1>4, <1>7
  <2> QED
    BY <2>1, <2>2, <1>2, <1>7
<1>10. ASSUME NEW k \in 1..Len(recovered')
       PROVE  recovered'[k].type = "data" /\ recovered'[k].box = {recovered'[k].counter}
  <2>1. CASE k <= Len(rx.recovered)
    <3>1. recovered'[k] = rx.recovered[k]
      BY <2>1, <1>2, <1>7, <1>8, <1>9
    <3> QED
      BY <3>1, <2>1, <1>2
  <2>2. CASE ~(k <= Len(rx.recovered))
    <3>1. recovered'[k] = new[k - Len(rx.recovered)] /\ k - Len(rx.recovered) \in 1..n
      BY <2>2, <1>2, <1>7, <1>8, <1>9
    <3> QED
      BY <3>1, <1>6
  <2> QED
    BY <2>1, <2>2
<1>11. /\ pending' \in [1..PendingMax ->
                         [used : BOOLEAN, counters : SUBSET Counters, frame : SUBSET Counters]]
       /\ \A i \in 1..PendingMax : pending'[i] = NoGroup \/ pending'[i] = rx.pending[i]
       /\ \A i \in 1..PendingMax : pending'[i].frame = pending'[i].counters
  <2>1. NoGroup \in [used : BOOLEAN, counters : SUBSET Counters, frame : SUBSET Counters]
    BY DEF NoGroup
  <2>2. \A i \in 1..PendingMax : pending'[i] = NoGroup \/ pending'[i] = rx.pending[i]
    BY <1>1
  <2>3. NoGroup.frame = NoGroup.counters
    BY DEF NoGroup
  <2> QED
    BY <2>1, <2>2, <2>3, <1>1, <1>2 DEF Receivers
<1>12. AsSealed(Rx)'
  <2>1. AsSealed([slots |-> slots', pending |-> pending', recovered |-> recovered'])
    BY <1>1, <1>2, <1>9, <1>10, <1>11 DEF AsSealed, Receivers
  <2> QED
    BY <2>1 DEF Rx
<1>13. ASSUME NEW i \in 1..PendingMax, pending'[i].used
       PROVE  /\ pending'[i] = rx.pending[i]
              /\ i \in places =>
                   Cardinality(Missing(rx, i)) > 1 \/ Len(recovered') = RecoveredMax
  <2>1. pending'[i] # NoGroup
    BY <1>13 DEF NoGroup
  <2>2. i \notin whole /\ ~\E k \in DOMAIN q : q[k] = i
    BY <2>1, <1>1
  <2>3. ASSUME i \in places, ~(Cardinality(Missing(rx, i)) > 1)
        PROVE  Len(recovered') = RecoveredMax
    <3>1. Missing(rx, i) # {}
      BY <2>2, <2>3 DEF whole
    <3>2. Cardinality(Missing(rx, i)) = 1
      BY <3>1, <2>3, <1>2, MissingIsFinite
    <3>3. i \in ready
      BY <3>2, <2>3 DEF ready
    <3>4. n = room
      BY <3>3, <2>2, <1>5
    <3> QED
      BY <3>4, <1>9, <1>2
  <2> QED
    BY <2>1, <2>3, <1>11
<1> QED
  BY <1>1, <1>12, <1>13

\* cacheBox of a box that was sealed under its counter.
LEMMA CacheBoxKeeps ==
  ASSUME ChannelAssumption, NEW rx, AsSealed(rx), NEW c \in Counters, CacheBox(rx, c, {c})
  PROVE  /\ AsSealed(Rx)'
         /\ \A i \in 1..PendingMax : pending'[i].used =>
              (Cardinality(Missing(Rx, i)) > 1 \/ Len(recovered) = RecoveredMax)'
<1> DEFINE cached == [rx EXCEPT !.slots[c % Slots] = [counter |-> c, box |-> {c}]]
           kept(p) == IF \A d \in p.counters : c - d > Slots THEN NoGroup ELSE p
           young == [cached EXCEPT !.pending = [i \in 1..PendingMax |-> kept(@[i])]]
<1>1. /\ rx \in Receivers
      /\ \A s \in 0..Slots - 1 : rx.slots[s].counter # 0 => rx.slots[s].box = {rx.slots[s].counter}
      /\ \A i \in 1..PendingMax : rx.pending[i].frame = rx.pending[i].counters
      /\ \A k \in 1..Len(rx.recovered) :
           rx.recovered[k].type = "data" /\ rx.recovered[k].box = {rx.recovered[k].counter}
      /\ Len(rx.recovered) <= RecoveredMax
  BY DEF AsSealed
<1>2. c % Slots \in 0..Slots - 1
  <2>1. c \in Int /\ Slots \in Nat \ {0}
    BY DEF Counters, ChannelAssumption
  <2> QED
    BY <2>1, ModRange, Zenon
<1>3. /\ cached \in Receivers
      /\ cached.pending = rx.pending /\ cached.recovered = rx.recovered
      /\ cached.slots = [rx.slots EXCEPT ![c % Slots] = [counter |-> c, box |-> {c}]]
  <2>1. [counter |-> c, box |-> {c}] \in [counter : 0..MaxCounter, box : SUBSET Counters]
    BY DEF Counters
  <2> QED
    BY <2>1, <1>1, <1>2 DEF Receivers
<1>4. \A s \in 0..Slots - 1 :
        cached.slots[s].counter # 0 => cached.slots[s].box = {cached.slots[s].counter}
  BY <1>1, <1>2, <1>3 DEF Receivers
<1> HIDE DEF cached
<1>5. \A i \in 1..PendingMax : kept(cached.pending[i]) \in {NoGroup, cached.pending[i]}
  OBVIOUS
<1>6. /\ young \in Receivers
      /\ young.slots = cached.slots /\ young.recovered = rx.recovered
      /\ \A i \in 1..PendingMax : young.pending[i].frame = young.pending[i].counters
  <2>1. NoGroup \in [used : BOOLEAN, counters : SUBSET Counters, frame : SUBSET Counters]
        /\ NoGroup.frame = NoGroup.counters
    BY DEF NoGroup
  <2>2. /\ young = [cached EXCEPT !.pending = [i \in 1..PendingMax |-> kept(cached.pending[i])]]
        /\ cached \in Receivers /\ cached.pending = rx.pending
    BY <1>3
  <2> HIDE DEF kept, young
  <2>3. [i \in 1..PendingMax |-> kept(cached.pending[i])]
          \in [1..PendingMax -> [used : BOOLEAN, counters : SUBSET Counters, frame : SUBSET Counters]]
    BY <2>1, <1>3, <1>5 DEF Receivers
  <2>4. /\ young \in Receivers /\ young.slots = cached.slots /\ young.recovered = rx.recovered
        /\ young.pending = [i \in 1..PendingMax |-> kept(cached.pending[i])]
    BY <2>2, <2>3, <1>3 DEF Receivers
  <2> QED
    BY <2>1, <2>4, <1>1, <1>3, <1>5
<1>7. TryRecover(young, 1..PendingMax)
  BY DEF CacheBox, TryRecoverAll, cached
<1> HIDE DEF young
<1>8. AsSealed(young)
  BY <1>1, <1>4, <1>6 DEF AsSealed
<1>9. /\ AsSealed(Rx)' /\ slots' = young.slots
      /\ \A i \in 1..PendingMax : pending'[i].used =>
           /\ pending'[i] = young.pending[i]
           /\ Cardinality(Missing(young, i)) > 1 \/ Len(recovered') = RecoveredMax
  BY <1>7, <1>8, TryRecoverKeeps
<1>10. ASSUME NEW i \in 1..PendingMax, pending'[i] = young.pending[i]
       PROVE  Missing(Rx, i)' = Missing(young, i)
  BY <1>9, <1>10 DEF Missing, Cached, Rx
<1> QED
  BY <1>9, <1>10

\* addGroup of the group of a parity packet.
LEMMA AddGroupKeeps ==
  ASSUME ChannelAssumption, AsSealed(Rx), NEW p \in Packets, p.box = p.counters, AddGroup(p)
  PROVE  /\ AsSealed(Rx)' /\ slots' = slots
         /\ \A i \in 1..PendingMax : pending'[i].used /\ pending'[i] # pending[i] =>
              (Cardinality(Missing(Rx, i)) > 1 \/ Len(recovered) = RecoveredMax)'
<1> DEFINE group == [used |-> TRUE, counters |-> p.counters, frame |-> p.box]
<1>1. PICK a \in FreePending : TryRecover([Rx EXCEPT !.pending[a] = group], {a})
  BY DEF AddGroup
<1>2. a \in 1..PendingMax
  BY DEF FreePending
<1> DEFINE rx == [Rx EXCEPT !.pending[a] = group]
<1>3. /\ Rx \in Receivers
      /\ \A s \in 0..Slots - 1 : slots[s].counter # 0 => slots[s].box = {slots[s].counter}
      /\ \A i \in 1..PendingMax : pending[i].frame = pending[i].counters
      /\ \A k \in 1..Len(recovered) :
           recovered[k].type = "data" /\ recovered[k].box = {recovered[k].counter}
      /\ Len(recovered) <= RecoveredMax
  BY DEF AsSealed, Rx
<1>4. /\ rx \in Receivers /\ rx.slots = slots /\ rx.recovered = recovered
      /\ rx.pending = [pending EXCEPT ![a] = group]
      /\ group.frame = group.counters
  <2>1. group \in [used : BOOLEAN, counters : SUBSET Counters, frame : SUBSET Counters]
    BY DEF Packets
  <2> QED
    BY <2>1, <1>2, <1>3 DEF Receivers, Rx
<1>5. TryRecover(rx, {a})
  BY <1>1
<1> HIDE DEF rx, group
<1>6. AsSealed(rx)
  <2>1. \A i \in 1..PendingMax : rx.pending[i].frame = rx.pending[i].counters
    BY <1>2, <1>3, <1>4 DEF Receivers, Rx
  <2> QED
    BY <2>1, <1>3, <1>4 DEF AsSealed
<1>7. /\ AsSealed(Rx)' /\ slots' = rx.slots
      /\ \A i \in 1..PendingMax : pending'[i].used =>
           /\ pending'[i] = rx.pending[i]
           /\ i \in {a} => Cardinality(Missing(rx, i)) > 1 \/ Len(recovered') = RecoveredMax
  <2>1. {a} \in SUBSET (1..PendingMax)
    BY <1>2
  <2> QED
    BY <2>1, <1>5, <1>6, TryRecoverKeeps
<1>8. ASSUME NEW i \in 1..PendingMax, pending'[i].used, pending'[i] # pending[i]
      PROVE  (Cardinality(Missing(Rx, i)) > 1 \/ Len(recovered) = RecoveredMax)'
  <2>1. pending'[i] = rx.pending[i]
    BY <1>7, <1>8
  <2>2. i = a
    BY <2>1, <1>8, <1>3, <1>4 DEF Receivers, Rx
  <2>3. Missing(Rx, i)' = Missing(rx, i)
    BY <2>1, <1>7 DEF Missing, Cached, Rx
  <2> QED
    BY <2>2, <2>3, <1>7, <1>8
<1> QED
  BY <1>4, <1>7, <1>8

-----------------------------------------------------------------------------
(* The inductive invariant.                                                *)

NetworkOK ==
  /\ sendCtr \in 0..MaxCounter /\ members \subseteq 1..sendCtr
  /\ network \subseteq Packets
  /\ \A p \in network : p.box = IF p.type = "fec" THEN p.counters ELSE {p.counter}

TakenOK == delivered \in [Counters -> Nat] /\ RingOf(window, delivered) /\ DeliveredOnce

ChannelInv == NetworkOK /\ AsSealed(Rx) /\ draining \in BOOLEAN /\ TakenOK

LEMMA InitChannel == ASSUME ChannelAssumption, Init PROVE ChannelInv
<1>1. /\ Window \in Nat \ {0} /\ MaxCounter \in Nat /\ RecoveredMax \in Nat
      /\ Slots \in Nat /\ PendingMax \in Nat
  BY DEF ChannelAssumption
<1>2. NetworkOK /\ draining \in BOOLEAN
  <2>1. sendCtr = 0 /\ members = {} /\ network = {} /\ draining = FALSE
    BY DEF Init
  <2>2. network \subseteq Packets /\ sendCtr \in 0..MaxCounter /\ members \subseteq 1..sendCtr
    BY <1>1, <2>1
  <2>3. \A p \in network : p.box = IF p.type = "fec" THEN p.counters ELSE {p.counter}
    BY <2>1
  <2> QED
    BY <2>1, <2>2, <2>3 DEF NetworkOK
<1>3. AsSealed(Rx)
  <2>1. Rx \in Receivers
    <3>1. NoBox \in [counter : 0..MaxCounter, box : SUBSET Counters]
      BY <1>1 DEF NoBox
    <3>2. NoGroup \in [used : BOOLEAN, counters : SUBSET Counters, frame : SUBSET Counters]
      BY DEF NoGroup
    <3> QED
      BY <3>1, <3>2 DEF Init, Receivers, Rx
  <2>2. \A s \in 0..Slots - 1 : Rx.slots[s].counter = 0
    BY DEF Init, Rx, NoBox
  <2>3. \A i \in 1..PendingMax : Rx.pending[i].frame = Rx.pending[i].counters
    BY DEF Init, Rx, NoGroup
  <2>4. Len(Rx.recovered) = 0
    BY DEF Init, Rx
  <2> QED
    BY <2>1, <2>2, <2>3, <2>4, <1>1 DEF AsSealed
<1>4. delivered \in [Counters -> Nat] /\ DeliveredOnce
  BY DEF Init, Counters, DeliveredOnce
<1>5. RingOf(window, delivered)
  BY <1>1 DEF Init, RingOf, Counters
<1> QED
  BY <1>2, <1>3, <1>4, <1>5 DEF ChannelInv, TakenOK

\* Sending leaves the receiver alone, and what it adds to the network is sealed.
LEMMA SendKeeps ==
  ASSUME ChannelAssumption, ChannelInv, SendData \/ SendCtrl
  PROVE  /\ ChannelInv'
         /\ UNCHANGED <<window, slots, pending, recovered, draining, delivered>>
<1>1. MaxCounter \in Nat /\ sendCtr \in 0..MaxCounter /\ members \subseteq 1..sendCtr
  BY DEF ChannelAssumption, ChannelInv, NetworkOK
<1>2. UNCHANGED <<window, slots, pending, recovered, draining, delivered>>
  BY DEF SendData, SendCtrl
<1>3. AsSealed(Rx)' /\ draining' \in BOOLEAN /\ TakenOK'
  BY <1>2 DEF ChannelInv, TakenOK, DeliveredOnce, Rx, AsSealed
<1>4. CASE SendData
  <2> DEFINE full == Cardinality(members) + 1 = Group
             group == members \cup {sendCtr + 1}
  <2>1. /\ sendCtr + 2 <= MaxCounter
        /\ members' = IF full THEN {} ELSE group
        /\ sendCtr' = IF full THEN sendCtr + 2 ELSE sendCtr + 1
        /\ network' = network \cup {Data(sendCtr + 1)}
                              \cup (IF full THEN {Parity(sendCtr + 2, group)} ELSE {})
    BY <1>4 DEF SendData
  <2>2. sendCtr' \in 0..MaxCounter /\ members' \subseteq 1..sendCtr'
    <3> HIDE DEF full
    <3>1. CASE full
      BY <3>1, <1>1, <2>1
    <3>2. CASE ~full
      <4>1. sendCtr' = sendCtr + 1 /\ members' = members \cup {sendCtr + 1}
        BY <3>2, <2>1
      <4> QED
        BY <4>1, <1>1, <2>1
    <3> QED
      BY <3>1, <3>2
  <2>3. Data(sendCtr + 1) \in Packets /\ Parity(sendCtr + 2, group) \in Packets
    BY <1>1, <2>1 DEF Data, Parity, Packets, Counters
  <2>4. /\ Data(sendCtr + 1).box = {Data(sendCtr + 1).counter} /\ Data(sendCtr + 1).type # "fec"
        /\ Parity(sendCtr + 2, group).box = Parity(sendCtr + 2, group).counters
        /\ Parity(sendCtr + 2, group).type = "fec"
    BY DEF Data, Parity
  <2> HIDE DEF full, group
  <2>5. NetworkOK'
    BY <2>1, <2>2, <2>3, <2>4 DEF NetworkOK, ChannelInv
  <2> QED
    BY <2>5, <1>2, <1>3 DEF ChannelInv
<1>5. CASE SendCtrl
  <2>1. /\ sendCtr < MaxCounter /\ sendCtr' = sendCtr + 1 /\ members' = members
        /\ network' = network \cup {Ctrl(sendCtr + 1)}
    BY <1>5 DEF SendCtrl
  <2>2. Ctrl(sendCtr + 1) \in Packets /\ Ctrl(sendCtr + 1).type # "fec"
        /\ Ctrl(sendCtr + 1).box = {Ctrl(sendCtr + 1).counter}
    BY <1>1, <2>1 DEF Ctrl, Packets, Counters
  <2>3. sendCtr' \in 0..MaxCounter /\ members' \subseteq 1..sendCtr'
    BY <1>1, <2>1
  <2>4. NetworkOK'
    BY <2>1, <2>2, <2>3 DEF NetworkOK, ChannelInv
  <2> QED
    BY <2>4, <1>2, <1>3 DEF ChannelInv
<1> QED
  BY <1>4, <1>5

\* A packet is taken: the ring and the counts move together, as the filter would.
Takes(c) == Fresh(c) /\ window' = Accepted(c) /\ delivered' = [delivered EXCEPT ![c] = @ + 1]

LEMMA TakeKeeps ==
  ASSUME ChannelAssumption, TakenOK, NEW c \in Counters, Takes(c)
  PROVE  TakenOK' /\ Filter!Next
<1>1. delivered \in [Counters -> Nat] /\ RingOf(window, delivered) /\ DeliveredOnce
  BY DEF TakenOK
<1>2. /\ RingOf(window, delivered)' /\ delivered' \in [Counters -> Nat] /\ delivered[c] = 0
      /\ window'.max = IF c > window.max THEN c ELSE window.max
      /\ c + Window > window.max
  BY <1>1, AcceptKeeps DEF Takes
<1>3. /\ delivered'[c] = 1
      /\ \A k \in Counters : k # c => delivered'[k] = delivered[k]
  BY <1>1, <1>2 DEF Takes
<1>4. TakenOK'
  BY <1>1, <1>2, <1>3 DEF TakenOK, DeliveredOnce, Counters
<1>5. /\ Window \in Nat \ {0} /\ MaxCounter \in Nat /\ c \in 1..MaxCounter
      /\ window.base \in Nat /\ window.max \in 0..MaxCounter
      /\ window.base = IF window.max > Window THEN window.max - Window + 1 ELSE 1
      /\ window'.base \in Nat /\ window'.max \in 0..MaxCounter
      /\ window'.base = IF window'.max > Window THEN window'.max - Window + 1 ELSE 1
  BY <1>1, <1>2, SMTT(30) DEF RingOf, ChannelAssumption, Counters
<1> DEFINE seen == {k \in window.base..window.max : window.bits[k % Window]}
           taken == {k \in 1..MaxCounter : delivered[k] > 0}
<1>6. seen = {k \in window.base..window.max : delivered[k] > 0}
  BY <1>1 DEF RingOf
<1>7. seen' = {k \in window'.base..window'.max : delivered'[k] > 0}
  BY <1>2 DEF RingOf
<1>8. \A k \in Counters : delivered[k] > 0 => k <= window.max
  <2>1. \A k \in Counters : k > window.max => delivered[k] = 0
    BY <1>1 DEF RingOf
  <2> QED
    BY <2>1, <1>5 DEF Counters
<1> HIDE DEF seen
<1>9. c \notin seen
  BY <1>2, <1>6
<1>10. seen' = {k \in seen \cup {c} : k + Window > window'.max}
  <2>1. ASSUME NEW k \in seen'
        PROVE  k \in seen \cup {c} /\ k + Window > window'.max
    <3>1. k \in Counters /\ k >= window'.base /\ k <= window'.max /\ delivered'[k] > 0
      BY <1>5, <1>7 DEF Counters
    <3>2. k + Window > window'.max
      BY <3>1, <1>5 DEF Counters
    <3>3. k # c => delivered[k] > 0 /\ k <= window.max /\ k >= window.base
      BY <3>1, <1>2, <1>3, <1>5, <1>8 DEF Counters
    <3> QED
      BY <3>1, <3>2, <3>3, <1>5, <1>6 DEF Counters
  <2>2. ASSUME NEW k \in seen \cup {c}, k + Window > window'.max
        PROVE  k \in seen'
    <3>1. k \in Counters /\ delivered'[k] > 0 /\ k <= window'.max
      <4>1. CASE k = c
        BY <4>1, <1>2, <1>3, <1>5 DEF Counters
      <4>2. CASE k # c
        <5>1. k \in window.base..window.max /\ delivered[k] > 0
          BY <4>2, <1>6
        <5>2. k \in Counters
          BY <5>1, <1>5 DEF Counters
        <5> QED
          BY <5>1, <5>2, <4>2, <1>2, <1>3, <1>5
      <4> QED
        BY <4>1, <4>2
    <3>2. k >= window'.base
      BY <2>2, <3>1, <1>5 DEF Counters
    <3> QED
      BY <3>1, <3>2, <1>5, <1>7 DEF Counters
  <2> QED
    BY <2>1, <2>2
<1>11. taken' = taken \cup {c}
  BY <1>2, <1>3, <1>5, SMTT(30) DEF Counters
<1>12. c \in taken' \ taken
  BY <1>2, <1>3, <1>5
<1>13. c > 0
  BY <1>5
<1> HIDE DEF taken
<1>14. Filter!Take(c)
  BY <1>2, <1>9, <1>10, <1>11, <1>13 DEF Filter!Take, seen, taken
<1> QED
  BY <1>4, <1>12, <1>14 DEF Filter!Next, taken

\* What every step does besides keeping the invariant: it is a step of the filter, or
\* changes nothing of it, and tries the groups.
Right == (Filter!Next \/ UNCHANGED <<window, delivered>>) /\ GroupsAreTried

\* OpenData of a packet whose box may be a wrong one.
LEMMA OpenKeeps ==
  ASSUME ChannelAssumption, TakenOK, NEW rx, AsSealed(rx), rx.slots = slots, rx.pending = pending,
         NEW p \in Packets, Open(p, rx)
  PROVE  AsSealed(Rx)' /\ TakenOK' /\ Right
<1>1. p.counter \in Counters
  BY DEF Packets
<1>2. CASE p.box = {p.counter} /\ Fresh(p.counter)
  <2>1. Takes(p.counter) /\ CacheBox(rx, p.counter, {p.counter})
    BY <1>2 DEF Open, Takes
  <2>2. TakenOK' /\ Filter!Next
    BY <2>1, <1>1, TakeKeeps
  <2>3. /\ AsSealed(Rx)'
        /\ \A i \in 1..PendingMax : pending'[i].used =>
             (Cardinality(Missing(Rx, i)) > 1 \/ Len(recovered) = RecoveredMax)'
    BY <2>1, <1>1, CacheBoxKeeps
  <2> QED
    BY <2>2, <2>3 DEF Right, GroupsAreTried
<1>3. CASE ~(p.box = {p.counter} /\ Fresh(p.counter))
  <2>1. UNCHANGED <<window, delivered>> /\ slots' = slots /\ pending' = pending
        /\ recovered' = rx.recovered
    BY <1>3 DEF Open, Becomes
  <2>2. TakenOK'
    BY <2>1 DEF TakenOK, RingOf, DeliveredOnce
  <2>3. rx = [slots |-> slots', pending |-> pending', recovered |-> recovered']
    BY <2>1 DEF AsSealed, Receivers
  <2>4. AsSealed(Rx)'
    BY <2>3 DEF Rx, AsSealed
  <2> QED
    BY <2>1, <2>2, <2>4 DEF Right, GroupsAreTried
<1> QED
  BY <1>2, <1>3

LEMMA NextKeeps ==
  ASSUME ChannelAssumption, ChannelInv, Next
  PROVE  ChannelInv' /\ Right
<1>1. NetworkOK /\ AsSealed(Rx) /\ draining \in BOOLEAN /\ TakenOK
  BY DEF ChannelInv
<1>2. CASE SendData \/ SendCtrl
  <2>1. ChannelInv' /\ UNCHANGED <<window, slots, pending, recovered, draining, delivered>>
    BY <1>2, SendKeeps
  <2> QED
    BY <2>1 DEF Right, GroupsAreTried
<1>3. ASSUME UNCHANGED <<sendCtr, members, network>>
      PROVE  NetworkOK'
  BY <1>1, <1>3 DEF NetworkOK
<1>4. CASE Drain
  <2>1. UNCHANGED <<sendCtr, members, network>> /\ draining' \in BOOLEAN
    BY <1>1, <1>4 DEF Drain
  <2>2. CASE recovered = <<>>
    <3>1. UNCHANGED <<window, slots, pending, recovered, delivered>>
      BY <1>4, <2>2 DEF Drain
    <3>2. AsSealed(Rx)' /\ TakenOK'
      BY <1>1, <3>1 DEF AsSealed, Rx, TakenOK, DeliveredOnce
    <3> QED
      BY <3>1, <3>2, <2>1, <1>3 DEF ChannelInv, Right, GroupsAreTried
  <2>3. CASE recovered # <<>>
    <3> DEFINE rx == [Rx EXCEPT !.recovered = Tail(@)]
    <3>1. Open(Head(recovered), rx)
      BY <1>4, <2>3 DEF Drain, Rx
    <3>2. /\ Rx \in Receivers /\ recovered \in Seq(Packets) /\ Len(recovered) <= RecoveredMax
          /\ RecoveredMax \in Nat
          /\ \A s \in 0..Slots - 1 : slots[s].counter # 0 => slots[s].box = {slots[s].counter}
          /\ \A i \in 1..PendingMax : pending[i].frame = pending[i].counters
          /\ \A k \in 1..Len(recovered) :
               recovered[k].type = "data" /\ recovered[k].box = {recovered[k].counter}
      BY <1>1 DEF AsSealed, Receivers, Rx, ChannelAssumption
    <3>3. /\ Head(recovered) \in Packets /\ Tail(recovered) \in Seq(Packets)
          /\ Len(Tail(recovered)) <= RecoveredMax
          /\ \A k \in 1..Len(Tail(recovered)) :
               Tail(recovered)[k] = recovered[k + 1] /\ k + 1 \in 1..Len(recovered)
      <4>1. \A S : \A q \in Seq(S) : q # <<>> =>
              /\ Head(q) \in S /\ Tail(q) \in Seq(S) /\ Len(q) \in Nat /\ Len(Tail(q)) = Len(q) - 1
              /\ \A k \in 1..Len(Tail(q)) : Tail(q)[k] = q[k + 1]
        OBVIOUS
      <4>2. /\ Head(recovered) \in Packets /\ Tail(recovered) \in Seq(Packets)
            /\ Len(recovered) \in Nat /\ Len(Tail(recovered)) = Len(recovered) - 1
            /\ \A k \in 1..Len(Tail(recovered)) : Tail(recovered)[k] = recovered[k + 1]
        BY <4>1, <3>2, <2>3, Zenon
      <4> QED
        BY <4>2, <3>2
    <3>4. /\ rx \in Receivers /\ rx.slots = slots /\ rx.pending = pending
          /\ rx.recovered = Tail(recovered)
      BY <3>2, <3>3 DEF Rx, Receivers
    <3> HIDE DEF rx
    <3>5. AsSealed(rx)
      BY <3>2, <3>3, <3>4 DEF AsSealed
    <3>6. AsSealed(Rx)' /\ TakenOK' /\ Right
      BY <3>1, <3>3, <3>4, <3>5, <1>1, OpenKeeps
    <3> QED
      BY <3>6, <2>1, <1>3 DEF ChannelInv
  <2> QED
    BY <2>2, <2>3
<1>5. ASSUME NEW p \in network, ReceiveData(p) \/ ReceiveCtrl(p) \/ ReceiveFEC(p)
      PROVE  ChannelInv' /\ Right
  <2>1. UNCHANGED <<sendCtr, members, network>> /\ draining' \in BOOLEAN
    BY <1>1, <1>5 DEF ReceiveData, ReceiveCtrl, ReceiveFEC
  <2>2. /\ p \in Packets /\ p.counter \in Counters
        /\ p.box = IF p.type = "fec" THEN p.counters ELSE {p.counter}
    BY <1>1 DEF NetworkOK, Packets
  <2>3. CASE ReceiveData(p)
    <3>1. Open(p, Rx) /\ Rx.slots = slots /\ Rx.pending = pending
      BY <2>3 DEF ReceiveData, Rx
    <3>2. AsSealed(Rx)' /\ TakenOK' /\ Right
      BY <3>1, <2>2, <1>1, OpenKeeps
    <3> QED
      BY <3>2, <2>1, <1>3 DEF ChannelInv
  <2>4. CASE ReceiveCtrl(p)
    <3>1. Takes(p.counter) /\ UNCHANGED <<slots, pending, recovered>>
      BY <2>4 DEF ReceiveCtrl, Takes
    <3>2. TakenOK' /\ Filter!Next
      BY <3>1, <2>2, <1>1, TakeKeeps
    <3>3. AsSealed(Rx)'
      BY <3>1, <1>1 DEF AsSealed, Rx
    <3> QED
      BY <3>1, <3>2, <3>3, <2>1, <1>3 DEF ChannelInv, Right, GroupsAreTried
  <2>5. CASE ReceiveFEC(p)
    <3>1. Takes(p.counter) /\ AddGroup(p) /\ p.box = p.counters
      BY <2>5, <2>2 DEF ReceiveFEC, Takes
    <3>2. TakenOK' /\ Filter!Next
      BY <3>1, <2>2, <1>1, TakeKeeps
    <3>3. /\ AsSealed(Rx)' /\ slots' = slots
          /\ \A i \in 1..PendingMax : pending'[i].used /\ pending'[i] # pending[i] =>
               (Cardinality(Missing(Rx, i)) > 1 \/ Len(recovered) = RecoveredMax)'
      BY <3>1, <2>2, <1>1, AddGroupKeeps
    <3> QED
      BY <3>2, <3>3, <2>1, <1>3 DEF ChannelInv, Right, GroupsAreTried
  <2> QED
    BY <1>5, <2>3, <2>4, <2>5
<1> QED
  BY <1>2, <1>4, <1>5 DEF Next

LEMMA StutterKeeps == ASSUME ChannelInv, UNCHANGED vars PROVE ChannelInv'
  BY DEF vars, ChannelInv, NetworkOK, TakenOK, RingOf, DeliveredOnce, AsSealed, Rx

LEMMA ChannelInvHolds == ASSUME ChannelAssumption PROVE Spec => []ChannelInv
<1>1. Init => ChannelInv
  BY InitChannel
<1>2. ChannelInv /\ [Next]_vars => ChannelInv'
  BY NextKeeps, StutterKeeps
<1> QED
  BY <1>1, <1>2, PTL DEF Spec

-----------------------------------------------------------------------------
\* No packet is taken twice, whatever the network repeats and whether it came by itself or
\* was rebuilt, and what is rebuilt is the box that was sealed under its counter
\* (session.go acceptCounter, fec.go tryRecover).
THEOREM SealedPacketsArriveOnce ==
  ASSUME ChannelAssumption
  PROVE  Spec => [](DeliveredOnce /\ RebuiltAsSealed)
<1>1. ChannelInv => DeliveredOnce /\ RebuiltAsSealed
  BY DEF ChannelInv, TakenOK, AsSealed, Rx, RebuiltAsSealed
<1> QED
  BY <1>1, ChannelInvHolds, PTL

\* The filter starts with nothing taken.
LEMMA FilterStarts == Init => Filter!Init
<1> SUFFICES ASSUME Init
             PROVE  Filter!Init
  OBVIOUS
<1>1. window.max = 0 /\ window.base = 1 /\ \A k \in 1..MaxCounter : delivered[k] = 0
  BY DEF Init
<1>2. {k \in window.base..window.max : window.bits[k % Window]} = {}
  BY <1>1
<1>3. {k \in 1..MaxCounter : delivered[k] > 0} = {}
  BY <1>1
<1> QED
  BY <1>1, <1>2, <1>3 DEF Filter!Init

\* The ring of bits of a session is the filter its comment promises: each counter is taken at
\* most once, and none a window or more behind the highest (session.go acceptCounter).
THEOREM RingImplementsFilter ==
  ASSUME ChannelAssumption
  PROVE  Spec => ImplementsReplayFilter
<1>1. Init => Filter!Init
  BY FilterStarts
<1>2. ChannelInv /\ [Next]_vars => [Filter!Next]_Filter!vars
  <2> SUFFICES ASSUME ChannelInv, [Next]_vars
               PROVE  Filter!Next \/ UNCHANGED Filter!vars
    OBVIOUS
  <2>1. Filter!Next \/ UNCHANGED <<window, delivered>>
    BY NextKeeps DEF Right, vars
  <2>2. UNCHANGED <<window, delivered>> => UNCHANGED Filter!vars
    BY DEF Filter!vars
  <2> QED
    BY <2>1, <2>2
<1> QED
  BY <1>1, <1>2, ChannelInvHolds, PTL DEF Spec, ImplementsReplayFilter, Filter!Spec

\* A box that is cached and a group that is noted are put to use in the same step: a group
\* that waits after it lacks two members, or the queue is full (fec.go addGroup, cacheBox).
THEOREM GroupsAreTriedAtOnce ==
  ASSUME ChannelAssumption
  PROVE  Spec => [][GroupsAreTried]_vars
<1>1. ChannelInv /\ [Next]_vars => [GroupsAreTried]_vars
  BY NextKeeps DEF Right
<1> QED
  BY <1>1, ChannelInvHolds, PTL DEF Spec

-----------------------------------------------------------------------------
(* The channel among the parts that are checked together.                  *)

ChannelPart == part = "channel" => ChannelInv

LEMMA ChannelPartHolds == TrafficSpec => []ChannelPart
<1> USE TrafficAssumption
<1>1. TrafficInit => ChannelPart
  <2> SUFFICES ASSUME TrafficInit, part = "channel"
               PROVE  ChannelInv
    BY DEF ChannelPart
  <2>1. Init
    BY DEF TrafficInit
  <2> QED
    BY <2>1, InitChannel
<1>2. ChannelPart /\ [TrafficNext]_trafficVars => ChannelPart'
  <2> SUFFICES ASSUME ChannelPart, [TrafficNext]_trafficVars, part' = "channel"
               PROVE  ChannelInv'
    BY DEF ChannelPart
  <2>1. part = "channel" /\ [Next]_vars
    BY DEF TrafficNext, ChannelMoves, NetherNetMoves, GatewayMoves, trafficVars
  <2>2. ChannelInv
    BY <2>1 DEF ChannelPart
  <2> QED
    BY <2>1, <2>2, NextKeeps, StutterKeeps
<1> QED
  BY <1>1, <1>2, PTL DEF TrafficSpec

\* In every behaviour of the parts together no packet is taken twice, and a rebuilt box is the
\* one that was sealed although its slots come round (tunnel/session.go acceptCounter,
\* tunnel/fec.go tryRecover).
THEOREM PacketsOfChannelArriveOnce == TrafficSpec => []SealedArrivesOnce
<1>1. ChannelPart => SealedArrivesOnce
  BY DEF ChannelPart, SealedArrivesOnce, ChannelInv, TakenOK, AsSealed, Rx, RebuiltAsSealed
<1> QED
  BY <1>1, ChannelPartHolds, PTL

\* The ring of bits starts as the filter its comment promises and every step is one of the
\* filter or leaves it alone; what a step caches or notes it puts to use
\* (tunnel/session.go acceptCounter, tunnel/fec.go addGroup, cacheBox).
THEOREM ChannelIsFilter == TrafficSpec => ChannelImplementsFilter
<1> DEFINE Step == part = "channel" => (Filter!Next \/ UNCHANGED Filter!vars) /\ GroupsAreTried
<1>1. TrafficInit => (part = "channel" => Filter!Init)
  BY TrafficAssumption, FilterStarts DEF TrafficInit
<1>2. ChannelPart /\ [TrafficNext]_trafficVars => [Step]_trafficVars
  <2> SUFFICES ASSUME ChannelPart, [TrafficNext]_trafficVars, trafficVars' # trafficVars,
                      part = "channel"
               PROVE  (Filter!Next \/ UNCHANGED Filter!vars) /\ GroupsAreTried
    OBVIOUS
  <2>1. Next /\ ChannelInv
    BY DEF TrafficNext, ChannelMoves, NetherNetMoves, GatewayMoves, ChannelPart
  <2>2. (Filter!Next \/ UNCHANGED <<window, delivered>>) /\ GroupsAreTried
    BY <2>1, NextKeeps, TrafficAssumption DEF Right
  <2>3. UNCHANGED <<window, delivered>> => UNCHANGED Filter!vars
    BY DEF Filter!vars
  <2> QED
    BY <2>2, <2>3
<1> QED
  BY <1>1, <1>2, ChannelPartHolds, PTL DEF TrafficSpec, ChannelImplementsFilter

-----------------------------------------------------------------------------
(* The gateways of a rule.  The port is a gateway's only while it is       *)
(* started when it carries both protocols; a gateway whose Stop returned   *)
(* is one that shuts down, and none of those serves.                       *)

PortOK ==
  /\ dual \in BOOLEAN /\ down \subseteq Gateway!Gateways
  /\ gw \in [Gateway!Gateways -> {"none", "started", "stopping", "stopped", "failed"}]
  /\ server \in [Gateway!Gateways -> {"none", "asked", "looked", "bound", "serves", "ended"}]
  /\ \A g \in Gateway!Gateways :
       /\ dual => /\ port = g => gw[g] = "started"
                  /\ server[g] \in {"none", "serves", "ended"}
                  /\ server[g] = "serves" => gw[g] = "started"
       /\ ~dual => /\ gw[g] = "stopped" => g \in down
                   /\ g \in down => gw[g] = "stopped" /\ server[g] # "serves"

StreamsOK ==
  /\ call \in [Calls -> {"out", "sniffs", "shakes", "offered", "closed"}]
  /\ sent \in [Calls -> Seq(0..255)] /\ wire \in [Calls -> Seq(0..255)]
  /\ prefix \in [Calls -> Seq(0..255)] /\ given \in [Calls -> 0..1]
  /\ got \in [Calls -> [Gateway!Readers -> Seq(0..255)]]
  /\ \A c \in Calls : call[c] \in {"out", "sniffs"} => prefix[c] = << >> /\ got[c][1] = << >>
  /\ Gateway!StreamsArriveWhole

\* What the port, the servers and their Stop do keeps PortOK.
LEMMA GatesKeep ==
  ASSUME TrafficAssumption, PortOK, NEW g \in Gateway!Gateways,
         \/ Gateway!Start(g) \/ Gateway!Look(g) \/ Gateway!Bind(g) \/ Gateway!Track(g)
         \/ Gateway!Stop(g) \/ Gateway!Shutdown(g)
  PROVE  PortOK' /\ UNCHANGED <<call, sent, wire, prefix, given, got>>
<1>1. None \notin Gateway!Gateways /\ Other \notin Gateway!Gateways
  BY DEF TrafficAssumption, Gateway!GatewayAssumption, Gateway!Gateways
<1>2. CASE Gateway!Start(g)
  BY <1>1, <1>2 DEF PortOK, Gateway!Start, Gateway!Streams
<1>3. CASE Gateway!Look(g)
  BY <1>1, <1>3 DEF PortOK, Gateway!Look, Gateway!Streams
<1>4. CASE Gateway!Bind(g)
  BY <1>1, <1>4 DEF PortOK, Gateway!Bind, Gateway!Streams
<1>5. CASE Gateway!Track(g)
  BY <1>1, <1>5 DEF PortOK, Gateway!Track, Gateway!Streams
<1>6. CASE Gateway!Stop(g)
  BY <1>1, <1>6 DEF PortOK, Gateway!Stop, Gateway!Streams
<1>7. CASE Gateway!Shutdown(g)
  BY <1>1, <1>7 DEF PortOK, Gateway!Shutdown, Gateway!Streams
<1> QED
  BY <1>2, <1>3, <1>4, <1>5, <1>6, <1>7

\* Taking the first of a sequence from its front and putting it after another.
LEMMA HeadMoves ==
  ASSUME NEW S, NEW p \in Seq(S), NEW q \in Seq(S), q # << >>
  PROVE  /\ <<Head(q)>> \in Seq(S) /\ Tail(q) \in Seq(S) /\ Append(p, Head(q)) \in Seq(S)
         /\ <<Head(q)>> \o Tail(q) = q
         /\ Append(p, Head(q)) \o Tail(q) = p \o q
  OBVIOUS

LEMMA Joined ==
  ASSUME NEW S, NEW p \in Seq(S), NEW q \in Seq(S), NEW r \in Seq(S)
  PROVE  /\ p \o q \in Seq(S) /\ (p \o q) \o r = p \o (q \o r)
         /\ p \o << >> = p /\ << >> \o p = p
  OBVIOUS

\* What a connection does keeps its stream whole: reader 2 is never given one.
LEMMA StreamsKeep ==
  ASSUME StreamsOK, NEW c \in Calls,
         \/ Gateway!Connect(c) \/ Gateway!Sniff(c) \/ Gateway!SniffFails(c) \/ Gateway!Shake(c)
         \/ Gateway!Accept(c) \/ \E i \in Gateway!Readers : Gateway!Read(c, i)
  PROVE  StreamsOK' /\ UNCHANGED <<dual, gw, server, down, port>>
<1>1. UNCHANGED <<dual, gw, server, down, port>>
  BY DEF Gateway!Connect, Gateway!Sniff, Gateway!SniffFails, Gateway!Shake, Gateway!Accept,
         Gateway!Read, Gateway!Gates
<1>2. \A d \in Calls : got[d][1] \o prefix[d] \o wire[d] = sent[d]
  BY DEF StreamsOK, Gateway!StreamsArriveWhole
<1>3. CASE Gateway!Connect(c) \/ Gateway!SniffFails(c) \/ Gateway!Shake(c)
  <2>1. /\ UNCHANGED <<sent, wire, prefix, given, got>>
        /\ call' \in [Calls -> {"out", "sniffs", "shakes", "offered", "closed"}]
        /\ \A d \in Calls : call'[d] \in {"out", "sniffs"} => call[d] \in {"out", "sniffs"}
    BY <1>3 DEF StreamsOK, Gateway!Connect, Gateway!SniffFails, Gateway!Shake
  <2>2. Gateway!StreamsArriveWhole'
    BY <1>2, <2>1 DEF Gateway!StreamsArriveWhole
  <2> QED
    BY <1>1, <2>1, <2>2 DEF StreamsOK
<1>4. CASE Gateway!Accept(c)
  <2>1. UNCHANGED <<call, sent, wire, prefix, got>> /\ given' \in [Calls -> 0..1]
    BY <1>4 DEF StreamsOK, Gateway!Accept
  <2>2. Gateway!StreamsArriveWhole'
    BY <1>2, <2>1 DEF Gateway!StreamsArriveWhole
  <2> QED
    BY <1>1, <2>1, <2>2 DEF StreamsOK
<1>5. CASE Gateway!Sniff(c)
  <2>1. /\ call[c] = "sniffs" /\ wire[c] # << >> /\ UNCHANGED <<sent, given, got>>
        /\ wire' = [wire EXCEPT ![c] = Tail(wire[c])]
        /\ prefix' = [prefix EXCEPT ![c] = <<Head(wire[c])>>]
        /\ call' = [call EXCEPT ![c] = IF Head(wire[c]) = Gateway!Tls THEN "shakes" ELSE "offered"]
    BY <1>5 DEF Gateway!Sniff
  <2>2. prefix[c] = << >> /\ got[c][1] = << >> /\ wire[c] \in Seq(0..255)
    BY <2>1 DEF StreamsOK
  <2>3. /\ <<Head(wire[c])>> \in Seq(0..255) /\ Tail(wire[c]) \in Seq(0..255)
        /\ <<Head(wire[c])>> \o Tail(wire[c]) = wire[c]
    BY <2>1, <2>2, HeadMoves
  <2>4. /\ wire' \in [Calls -> Seq(0..255)] /\ prefix' \in [Calls -> Seq(0..255)]
        /\ call' \in [Calls -> {"out", "sniffs", "shakes", "offered", "closed"}]
        /\ call'[c] \notin {"out", "sniffs"} /\ wire'[c] = Tail(wire[c])
        /\ prefix'[c] = <<Head(wire[c])>>
        /\ \A d \in Calls \ {c} :
             wire'[d] = wire[d] /\ prefix'[d] = prefix[d] /\ call'[d] = call[d]
    BY <2>1, <2>3 DEF StreamsOK
  <2>5. got[c][1] \o prefix'[c] \o wire'[c] = got[c][1] \o prefix[c] \o wire[c]
    BY <2>2, <2>3, <2>4, Joined
  <2>6. Gateway!StreamsArriveWhole'
    BY <1>2, <2>1, <2>4, <2>5 DEF Gateway!StreamsArriveWhole
  <2> QED
    BY <1>1, <2>1, <2>4, <2>6 DEF StreamsOK
<1>6. ASSUME NEW i \in Gateway!Readers, Gateway!Read(c, i)
      PROVE  StreamsOK'
  <2>1. i = 1 /\ call[c] = "offered" /\ UNCHANGED <<call, sent, given>>
    <3>1. call[c] = "offered" /\ i <= given[c] /\ UNCHANGED <<call, sent, given>>
      BY <1>6 DEF Gateway!Read
    <3>2. i \in {1, 2} /\ given[c] \in 0..1
      BY <1>6 DEF Gateway!Readers, StreamsOK
    <3> QED
      BY <3>1, <3>2
  <2>2. /\ got[c] \in [Gateway!Readers -> Seq(0..255)] /\ got[c][1] \in Seq(0..255)
        /\ prefix[c] \in Seq(0..255) /\ wire[c] \in Seq(0..255)
    BY DEF StreamsOK, Gateway!Readers
  <2> DEFINE q == IF prefix[c] # << >> THEN prefix[c] ELSE wire[c]
  <2>3. /\ q # << >> /\ q \in Seq(0..255)
        /\ got' = [got EXCEPT ![c][1] = Append(@, Head(q))]
        /\ IF prefix[c] # << >>
           THEN prefix' = [prefix EXCEPT ![c] = Tail(q)] /\ wire' = wire
           ELSE wire' = [wire EXCEPT ![c] = Tail(q)] /\ prefix' = prefix
    BY <1>6, <2>1, <2>2 DEF Gateway!Read
  <2> HIDE DEF q
  <2>4. /\ Append(got[c][1], Head(q)) \in Seq(0..255) /\ Tail(q) \in Seq(0..255)
        /\ Append(got[c][1], Head(q)) \o Tail(q) = got[c][1] \o q
    <3> DEFINE p == got[c][1]
    <3>1. p \in Seq(0..255)
      BY <2>2
    <3> HIDE DEF p
    <3>2. Append(p, Head(q)) \in Seq(0..255) /\ Tail(q) \in Seq(0..255)
      BY <3>1, <2>3, HeadMoves
    <3>3. Append(p, Head(q)) \o Tail(q) = p \o q
      BY <3>1, <2>3, HeadMoves
    <3> QED
      BY <3>2, <3>3 DEF p
  <2>5. /\ got' \in [Calls -> [Gateway!Readers -> Seq(0..255)]]
        /\ got'[c][1] = Append(got[c][1], Head(q))
        /\ \A d \in Calls \ {c} : got'[d] = got[d]
    BY <2>3, <2>4, <2>2 DEF StreamsOK, Gateway!Readers
  <2>6. /\ prefix' \in [Calls -> Seq(0..255)] /\ wire' \in [Calls -> Seq(0..255)]
        /\ \A d \in Calls \ {c} : prefix'[d] = prefix[d] /\ wire'[d] = wire[d]
        /\ IF prefix[c] # << >> THEN prefix'[c] = Tail(q) /\ wire'[c] = wire[c]
           ELSE prefix'[c] = << >> /\ wire'[c] = Tail(q)
    <3>1. prefix \in [Calls -> Seq(0..255)] /\ wire \in [Calls -> Seq(0..255)]
      BY DEF StreamsOK
    <3>2. CASE prefix[c] # << >>
      BY <3>1, <3>2, <2>3, <2>4
    <3>3. CASE prefix[c] = << >>
      BY <3>1, <3>3, <2>3, <2>4
    <3> QED
      BY <3>2, <3>3
  <2>7. got'[c][1] \o prefix'[c] \o wire'[c] = got[c][1] \o prefix[c] \o wire[c]
    <3>1. CASE prefix[c] # << >>
      BY <3>1, <2>4, <2>5, <2>6 DEF q
    <3>2. CASE prefix[c] = << >>
      <4>1. q = wire[c] /\ prefix'[c] = << >> /\ wire'[c] = Tail(q)
        BY <3>2, <2>6 DEF q
      <4>2. \A p \in Seq(0..255) : p \o << >> = p
        BY Joined
      <4>3. /\ got'[c][1] \o prefix'[c] = Append(got[c][1], Head(q))
            /\ got[c][1] \o prefix[c] = got[c][1]
        BY <3>2, <4>1, <4>2, <2>2, <2>4, <2>5
      <4> QED
        BY <4>1, <4>3, <2>4
    <3> QED
      BY <3>1, <3>2
  <2>8. Gateway!StreamsArriveWhole'
    BY <1>2, <2>1, <2>5, <2>6, <2>7 DEF Gateway!StreamsArriveWhole
  <2> QED
    BY <2>1, <2>5, <2>6, <2>8 DEF StreamsOK
<1> QED
  BY <1>1, <1>3, <1>4, <1>5, <1>6

GatewayPart == part = "gateway" => PortOK /\ StreamsOK

LEMMA GatewayPartHolds == TrafficSpec => []GatewayPart
<1>1. None \notin Gateway!Gateways /\ Other \notin Gateway!Gateways /\ Bytes \subseteq Seq(0..255)
  BY TrafficAssumption DEF TrafficAssumption, Gateway!GatewayAssumption, Gateway!Gateways
<1>2. TrafficInit => GatewayPart
  <2> SUFFICES ASSUME Gateway!Init
               PROVE  PortOK /\ StreamsOK
    BY DEF TrafficInit, GatewayPart
  <2>1. PortOK
    BY <1>1 DEF Gateway!Init, PortOK
  <2>2. /\ wire = sent /\ sent \in [Calls -> Seq(0..255)]
        /\ \A c \in Calls : prefix[c] = << >> /\ got[c][1] = << >> /\ sent[c] \in Seq(0..255)
    BY <1>1 DEF Gateway!Init, Gateway!Readers
  <2>3. Gateway!StreamsArriveWhole
    <3>1. \A p \in Seq(0..255) : << >> \o p = p
      BY Joined
    <3>2. << >> \o << >> = << >>
      OBVIOUS
    <3> QED
      BY <2>2, <3>1, <3>2 DEF Gateway!StreamsArriveWhole
  <2> QED
    BY <2>1, <2>2, <2>3 DEF Gateway!Init, StreamsOK
<1>3. GatewayPart /\ [TrafficNext]_trafficVars => GatewayPart'
  <2> SUFFICES ASSUME GatewayPart, [TrafficNext]_trafficVars, part' = "gateway"
               PROVE  PortOK' /\ StreamsOK'
    BY DEF GatewayPart
  <2>1. part = "gateway" /\ (Gateway!Next \/ UNCHANGED gatewayVars) /\ PortOK /\ StreamsOK
    BY DEF TrafficNext, ChannelMoves, NetherNetMoves, GatewayMoves, trafficVars, GatewayPart
  <2>2. ASSUME UNCHANGED <<dual, gw, server, down, port>>
        PROVE  PortOK'
    BY <2>1, <2>2 DEF PortOK
  <2>3. ASSUME UNCHANGED <<call, sent, wire, prefix, given, got>>
        PROVE  StreamsOK'
    BY <2>1, <2>3 DEF StreamsOK, Gateway!StreamsArriveWhole
  <2>4. CASE UNCHANGED gatewayVars
    BY <2>4, <2>2, <2>3 DEF gatewayVars
  <2>5. CASE Gateway!OtherMoves
    BY <2>5, <2>1, <2>3, <1>1 DEF Gateway!OtherMoves, Gateway!Streams, PortOK
  <2>6. ASSUME NEW g \in Gateway!Gateways,
               \/ Gateway!Start(g) \/ Gateway!Look(g) \/ Gateway!Bind(g) \/ Gateway!Track(g)
               \/ Gateway!Stop(g) \/ Gateway!Shutdown(g)
        PROVE  PortOK' /\ StreamsOK'
    BY <2>6, <2>1, <2>3, GatesKeep, TrafficAssumption
  <2>7. ASSUME NEW c \in Calls,
               \/ Gateway!Connect(c) \/ Gateway!Sniff(c) \/ Gateway!SniffFails(c)
               \/ Gateway!Shake(c) \/ Gateway!Accept(c)
               \/ \E i \in Gateway!Readers : Gateway!Read(c, i)
        PROVE  PortOK' /\ StreamsOK'
    BY <2>7, <2>1, <2>2, StreamsKeep
  <2> QED
    BY <2>1, <2>4, <2>5, <2>6, <2>7 DEF Gateway!Next
<1> QED
  BY <1>2, <1>3, PTL DEF TrafficSpec

\* A gateway whose Stop returned serves nobody and, in dual mode, has let go of the port for
\* the next one; a connection whose first byte was sniffed reaches its server whole
\* (nethernet/gateway.go dualListener, singleConnListener).
THEOREM StoppedGatewaysLetGo == TrafficSpec => []GatewaysLetGo
<1>1. GatewayPart => GatewaysLetGo
  <2> SUFFICES ASSUME PortOK, StreamsOK
               PROVE  Gateway!StoppedLetsGo /\ Gateway!StreamsArriveWhole
    BY DEF GatewayPart, GatewaysLetGo
  <2> QED
    BY DEF PortOK, StreamsOK, Gateway!StoppedLetsGo
<1> QED
  BY <1>1, GatewayPartHolds, PTL

-----------------------------------------------------------------------------
(* NetherNet: what the answers of a backend are turned into.               *)

LEMMA FirstIsLeast ==
  ASSUME NEW S, S \subseteq Nat, S # {}
  PROVE  NetherNet!First(S) \in S /\ \A j \in S : NetherNet!First(S) <= j
<1>1. PICK k \in S : \A j \in S : ~(<<j, k>> \in OpToRel(<, Nat))
  BY NatLessThanWellFounded, WFMin, Zenon
<1>2. \A j \in S : k <= j
  <2> SUFFICES ASSUME NEW j \in S
               PROVE  k <= j
    OBVIOUS
  <2>1. j \in Nat /\ k \in Nat /\ ~(j < k)
    BY <1>1, Zenon DEF OpToRel
  <2> QED
    BY <2>1
<1> QED
  BY <1>2 DEF NetherNet!First

LEMMA RewrittenLines ==
  ASSUME TrafficAssumption, NEW a \in Answers, NEW k \in DOMAIN a
  PROVE  LET b == NetherNet!RewriteSDP(a) IN
         /\ a[k].kind \in {"candidate", "connection", "media", "ufrag", "other"}
         /\ a[k].kind = "ufrag" => a[k].ufrag \in Ufrags
         /\ k \in Nat /\ DOMAIN b = DOMAIN a
         /\ b[k].kind = "ufrag" <=> a[k].kind = "ufrag"
         /\ b[k].kind = "ufrag" => b[k].ufrag = a[k].ufrag
         /\ b[k].kind \in {"connection", "media", "candidate"} => b[k].addr = NetherNet!Public
         /\ b[k].kind = "candidate" => a[k].kind = "candidate"
         /\ NetherNet!Usable(a) # {} =>
              (b[k].kind = "candidate" <=> k = NetherNet!First(NetherNet!Candidates(a)))
<1>1. a \in Seq(NetherNet!Line)
  BY DEF TrafficAssumption, NetherNet!NetherNetAssumption
<1>2. k \in Nat /\ a[k] \in NetherNet!Line /\ DOMAIN a \subseteq Nat
  BY <1>1
<1>3. /\ a[k].kind \in {"candidate", "connection", "media", "ufrag", "other"}
      /\ a[k].kind = "ufrag" => a[k].ufrag \in Ufrags
  BY <1>2 DEF NetherNet!Line
<1> DEFINE b == NetherNet!RewriteSDP(a)
           C == NetherNet!Candidates(a)
           p == NetherNet!Preferred(a, NetherNet!Usable(a))
<1>4. DOMAIN b = DOMAIN a
  BY DEF NetherNet!RewriteSDP
<1>5. k \in C <=> a[k].kind = "candidate"
  BY DEF NetherNet!Candidates
<1>6. ASSUME NetherNet!Usable(a) # {}
      PROVE  p.kind = "candidate" /\ NetherNet!First(C) \in C
  <2>1. /\ NetherNet!Usable(a) \subseteq C /\ C \subseteq Nat
        /\ \A j \in C : a[j].kind = "candidate"
    BY <1>2 DEF NetherNet!Usable, NetherNet!HostCandidates, NetherNet!Candidates
  <2>2. NetherNet!First(C) \in C
    BY <1>6, <2>1, FirstIsLeast
  <2> DEFINE far == {j \in NetherNet!Usable(a) : a[j].addr = "backend"}
             S == IF far # {} THEN far ELSE NetherNet!Usable(a)
  <2>3. S # {} /\ S \subseteq NetherNet!Usable(a)
    BY <1>6
  <2>4. NetherNet!First(S) \in S
    <3> HIDE DEF S
    <3> QED
      BY <2>1, <2>3, FirstIsLeast
  <2>5. p = a[NetherNet!First(S)]
    BY DEF NetherNet!Preferred
  <2> QED
    BY <2>1, <2>2, <2>3, <2>4, <2>5
<1>7. CASE a[k].kind \in {"connection", "media"}
  <2>1. b[k] = [kind |-> a[k].kind, addr |-> NetherNet!Public, port |-> "data"]
    BY <1>5, <1>7 DEF NetherNet!RewriteSDP
  <2> QED
    BY <1>2, <1>3, <1>4, <1>5, <1>6, <1>7, <2>1
<1>8. CASE a[k].kind = "candidate" /\ NetherNet!Usable(a) = {}
  <2>1. b[k] = [kind |-> a[k].kind, addr |-> NetherNet!Public, port |-> "data"]
    BY <1>5, <1>8 DEF NetherNet!RewriteSDP
  <2> QED
    BY <1>2, <1>3, <1>4, <1>8, <2>1
<1>9. CASE a[k].kind = "candidate" /\ NetherNet!Usable(a) # {}
  <2>1. b[k] = IF k = NetherNet!First(C)
               THEN [kind |-> p.kind, addr |-> NetherNet!Public, port |-> "data"]
               ELSE NetherNet!Dropped
    BY <1>5, <1>9 DEF NetherNet!RewriteSDP
  <2> QED
    BY <1>2, <1>3, <1>4, <1>6, <1>9, <2>1 DEF NetherNet!Dropped
<1>10. CASE a[k].kind \in {"ufrag", "other"}
  <2>1. b[k] = a[k]
    BY <1>5, <1>10 DEF NetherNet!RewriteSDP
  <2> QED
    BY <1>2, <1>3, <1>4, <1>5, <1>6, <1>10, <2>1
<1> QED
  BY <1>3, <1>7, <1>8, <1>9, <1>10

\* The ufrag of an answer is that of the rewritten one; a player is shown one candidate where
\* the backend has one that can be used; packets go to a port that the backend advertised.
LEMMA AnswersAreRewritten ==
  ASSUME TrafficAssumption, NEW a \in Answers
  PROVE  LET b == NetherNet!RewriteSDP(a) IN
         /\ NetherNet!IceUfrag(b) = NetherNet!IceUfrag(a)
         /\ NetherNet!IceUfrag(a) \in Ufrags \cup {None}
         /\ NetherNet!Usable(a) # {} => \E k \in DOMAIN b : NetherNet!Candidates(b) = {k}
         /\ \A k \in DOMAIN b :
              b[k].kind \in {"connection", "media", "candidate"} => b[k].addr = NetherNet!Public
         /\ IF NetherNet!Advertised(a) # {}
            THEN NetherNet!BackendDataPort(a) \in NetherNet!Advertised(a)
            ELSE NetherNet!BackendDataPort(a) = SignalPort
<1> DEFINE b == NetherNet!RewriteSDP(a)
<1>1. DOMAIN b = DOMAIN a
  BY DEF NetherNet!RewriteSDP
<1>2. \A k \in DOMAIN a :
        /\ k \in Nat
        /\ a[k].kind = "ufrag" => a[k].ufrag \in Ufrags
        /\ b[k].kind = "ufrag" <=> a[k].kind = "ufrag"
        /\ b[k].kind = "ufrag" => b[k].ufrag = a[k].ufrag
        /\ b[k].kind \in {"connection", "media", "candidate"} => b[k].addr = NetherNet!Public
        /\ b[k].kind = "candidate" => a[k].kind = "candidate"
        /\ NetherNet!Usable(a) # {} =>
             (b[k].kind = "candidate" <=> k = NetherNet!First(NetherNet!Candidates(a)))
  BY RewrittenLines
<1> HIDE DEF b
<1>3. NetherNet!IceUfrag(b) = NetherNet!IceUfrag(a) /\ NetherNet!IceUfrag(a) \in Ufrags \cup {None}
  <2> DEFINE U == {k \in DOMAIN a : a[k].kind = "ufrag"}
  <2>1. U = {k \in DOMAIN b : b[k].kind = "ufrag"}
    BY <1>1, <1>2
  <2>2. NetherNet!IceUfrag(b) = IF U = {} THEN None ELSE b[NetherNet!First(U)].ufrag
    BY <2>1 DEF NetherNet!IceUfrag
  <2>3. NetherNet!IceUfrag(a) = IF U = {} THEN None ELSE a[NetherNet!First(U)].ufrag
    BY DEF NetherNet!IceUfrag
  <2>4. U # {} => NetherNet!First(U) \in U
    <3>1. U \subseteq Nat
      BY <1>2
    <3> HIDE DEF U
    <3> QED
      BY <3>1, FirstIsLeast
  <2>5. \A k \in U : b[k].ufrag = a[k].ufrag /\ a[k].ufrag \in Ufrags
    BY <1>2
  <2> HIDE DEF U
  <2> QED
    BY <2>2, <2>3, <2>4, <2>5
<1>4. NetherNet!Usable(a) # {} => \E k \in DOMAIN b : NetherNet!Candidates(b) = {k}
  <2> SUFFICES ASSUME NetherNet!Usable(a) # {}
               PROVE  \E k \in DOMAIN b : NetherNet!Candidates(b) = {k}
    OBVIOUS
  <2> DEFINE C == NetherNet!Candidates(a)
  <2>1. C \subseteq Nat /\ C # {} /\ C \subseteq DOMAIN a
    BY <1>2 DEF NetherNet!Usable, NetherNet!HostCandidates, NetherNet!Candidates
  <2>2. NetherNet!First(C) \in C
    <3> HIDE DEF C
    <3> QED
      BY <2>1, FirstIsLeast
  <2>3. NetherNet!Candidates(b) = {NetherNet!First(C)}
    BY <1>1, <1>2, <2>1, <2>2 DEF NetherNet!Candidates
  <2> QED
    BY <1>1, <2>1, <2>2, <2>3
<1>5. IF NetherNet!Advertised(a) # {}
      THEN NetherNet!BackendDataPort(a) \in NetherNet!Advertised(a)
      ELSE NetherNet!BackendDataPort(a) = SignalPort
  <2> DEFINE C == {k \in NetherNet!HostCandidates(a) : a[k].port # 0}
             far == {k \in C : a[k].addr = "backend"}
             S == IF far # {} THEN far ELSE C
  <2>1. /\ NetherNet!BackendDataPort(a) = IF C = {} THEN SignalPort ELSE a[NetherNet!First(S)].port
        /\ NetherNet!Advertised(a) = {a[k].port : k \in C}
    BY DEF NetherNet!BackendDataPort, NetherNet!Preferred, NetherNet!Advertised
  <2>2. C \subseteq Nat
    BY <1>2 DEF NetherNet!HostCandidates, NetherNet!Candidates
  <2>3. C # {} => NetherNet!First(S) \in C
    <3>1. S \subseteq C /\ (C # {} => S # {})
      OBVIOUS
    <3> HIDE DEF S, C
    <3> QED
      BY <3>1, <2>2, FirstIsLeast
  <2> HIDE DEF C, S
  <2> QED
    BY <2>1, <2>3
<1> QED
  BY <1>1, <1>2, <1>3, <1>4, <1>5 DEF b

-----------------------------------------------------------------------------
(* NetherNet: the tables of the multiplexer and of the sink agree.  The    *)
(* tables are parameters, for some handlers change them twice.             *)

PortLeads(s) ==
  \E a \in Answers : /\ NetherNet!IceUfrag(a) = s.ufrag
                     /\ IF NetherNet!Advertised(a) # {} THEN s.port \in NetherNet!Advertised(a)
                        ELSE s.port = SignalPort

Routed(se, ss, am, bo, rd, pa, inf) ==
  /\ se \in [Ids -> NetherNet!Session \cup {None}] /\ ss \in [Ufrags -> Ids \cup {None}]
  /\ am \in [Clients -> Ids \cup {None}] /\ bo \subseteq Ids
  /\ rd \in [Ids -> {"none", "reads", "holds"}]
  /\ pa = am /\ inf \in [Ufrags -> Clients \cup {None}]
  /\ \A u \in Ufrags : ss[u] # None => se[ss[u]] # None /\ se[ss[u]].ufrag = u
  /\ \A c \in Clients : am[c] # None =>
       se[am[c]] # None /\ se[am[c]].client = c /\ ss[se[am[c]].ufrag] = am[c]
  /\ \A u \in Ufrags : ss[u] # None /\ se[ss[u]].client # None => am[se[ss[u]].client] = ss[u]
  /\ \A i \in bo : se[i] # None /\ se[i].client # None /\ ss[se[i].ufrag] = i
  /\ \A i \in Ids : rd[i] # "none" => se[i] # None
  /\ \A u \in Ufrags : inf[u] = IF ss[u] = None THEN None ELSE se[ss[u]].client
  /\ \A i \in Ids : se[i] # None => PortLeads(se[i])

NetherInv ==
  /\ join \in [Clients -> {None} \cup [stage : {"answered", "registered"}, answer : Answers]]
  /\ packets \subseteq NetherNet!Packet
  /\ Routed(sess, sessions, addrMap, bound, reader, panel, infos)

\* Sessions that end are routed to no more; an object stays while a reader refers to it.
LEMMA SessionsEndWhole ==
  ASSUME TrafficAssumption, Routed(sess, sessions, addrMap, bound, reader, panel, infos),
         NEW S \in SUBSET Ids, NetherNet!EndSessions(S),
         NEW ss, ss = [u \in Ufrags |-> IF sessions[u] \in S THEN None ELSE sessions[u]]
  PROVE  Routed(NetherNet!Kept(S), ss, addrMap', bound', reader, panel', infos')
<1> DEFINE se == NetherNet!Kept(S)
<1>1. None \notin Ids /\ None \notin Clients /\ None \notin NetherNet!Session
  BY DEF TrafficAssumption, NetherNet!NetherNetAssumption
<1>2. /\ se \in [Ids -> NetherNet!Session \cup {None}]
      /\ \A i \in Ids \ S : se[i] = sess[i]
      /\ \A i \in Ids : se[i] # None => se[i] = sess[i]
      /\ \A i \in Ids : reader[i] # "none" => se[i] = sess[i]
  BY DEF Routed, NetherNet!Kept
<1>3. /\ addrMap' \in [Clients -> Ids \cup {None}]
      /\ \A c \in Clients : addrMap'[c] = IF addrMap[c] \in S THEN None ELSE addrMap[c]
      /\ bound' = bound \ S
  BY DEF NetherNet!EndSessions, Routed
<1>4. /\ infos' \in [Ufrags -> Clients \cup {None}]
      /\ \A u \in Ufrags :
           infos'[u] = IF sessions[u] \in S /\ sess[sessions[u]].client # None THEN None ELSE infos[u]
  BY DEF NetherNet!EndSessions, NetherNet!SessionsEnd, Routed
<1>5. panel' = addrMap'
  <2>1. panel' \in [Clients -> Ids \cup {None}]
    BY DEF NetherNet!EndSessions, NetherNet!SessionsEnd, Routed
  <2>2. ASSUME NEW c \in Clients
        PROVE  panel'[c] = addrMap'[c]
    <3>1. panel'[c] = IF \E u \in Ufrags : /\ sessions[u] \in S /\ sess[sessions[u]].client # None
                                           /\ infos[u] = c
                      THEN None ELSE addrMap[c]
      BY DEF NetherNet!EndSessions, NetherNet!SessionsEnd, Routed
    <3>2. ASSUME NEW u \in Ufrags, sessions[u] \in S, infos[u] = c
          PROVE  addrMap[c] \in S
      BY <3>2, <1>1 DEF Routed
    <3>3. ASSUME addrMap[c] \in S
          PROVE  \E u \in Ufrags : /\ sessions[u] \in S /\ sess[sessions[u]].client # None
                                   /\ infos[u] = c
      <4>1. /\ sess[addrMap[c]] \in NetherNet!Session /\ sess[addrMap[c]].client = c
            /\ sessions[sess[addrMap[c]].ufrag] = addrMap[c]
        BY <3>3, <1>1 DEF Routed
      <4>2. sess[addrMap[c]].ufrag \in Ufrags
        BY <4>1 DEF NetherNet!Session
      <4> QED
        BY <4>1, <4>2, <3>3, <1>1 DEF Routed
    <3> QED
      BY <3>1, <3>2, <3>3, <1>3
  <2> QED
    BY <2>1, <2>2, <1>3
<1>6. /\ ss \in [Ufrags -> Ids \cup {None}]
      /\ \A u \in Ufrags : ss[u] = IF sessions[u] \in S THEN None ELSE sessions[u]
  BY DEF Routed
<1> HIDE DEF se
<1>7. \A u \in Ufrags : ss[u] # None =>
        ss[u] = sessions[u] /\ ss[u] \in Ids \ S /\ se[ss[u]] = sess[ss[u]]
  BY <1>2, <1>6
<1>8. \A c \in Clients : addrMap'[c] # None =>
        /\ addrMap'[c] = addrMap[c] /\ addrMap[c] \in Ids \ S /\ se[addrMap[c]] = sess[addrMap[c]]
        /\ sess[addrMap[c]] \in NetherNet!Session
  BY <1>2, <1>3 DEF Routed
<1>9. \A i \in Ids : sess[i] # None => sess[i] \in NetherNet!Session /\ sess[i].ufrag \in Ufrags
  BY DEF Routed, NetherNet!Session
<1>10. \A u \in Ufrags : ss[u] # None => se[ss[u]] # None /\ se[ss[u]].ufrag = u
  BY <1>7 DEF Routed
<1>11. \A c \in Clients : addrMap'[c] # None =>
         /\ se[addrMap'[c]] # None /\ se[addrMap'[c]].client = c
         /\ ss[se[addrMap'[c]].ufrag] = addrMap'[c]
  BY <1>6, <1>8, <1>9 DEF Routed
<1>12. \A u \in Ufrags : ss[u] # None /\ se[ss[u]].client # None =>
         addrMap'[se[ss[u]].client] = ss[u]
  <2> SUFFICES ASSUME NEW u \in Ufrags, ss[u] # None, se[ss[u]].client # None
               PROVE  addrMap'[se[ss[u]].client] = ss[u]
    OBVIOUS
  <2>1. ss[u] = sessions[u] /\ ss[u] \in Ids \ S /\ se[ss[u]] = sess[ss[u]]
    BY <1>7
  <2>2. sess[ss[u]].client \in Clients
    BY <2>1, <1>7, <1>10, <1>9 DEF NetherNet!Session
  <2> QED
    BY <2>1, <2>2, <1>3 DEF Routed
<1>13. \A i \in bound' : se[i] # None /\ se[i].client # None /\ ss[se[i].ufrag] = i
  BY <1>2, <1>3, <1>6, <1>9 DEF Routed
<1>14. \A i \in Ids : reader[i] # "none" => se[i] # None
  BY <1>2 DEF Routed
<1>15. \A u \in Ufrags : infos'[u] = IF ss[u] = None THEN None ELSE se[ss[u]].client
  BY <1>4, <1>6, <1>7, <1>1 DEF Routed
<1>16. \A i \in Ids : se[i] # None => PortLeads(se[i])
  BY <1>2 DEF Routed
<1>17. bound' \subseteq Ids /\ reader \in [Ids -> {"none", "reads", "holds"}]
  BY <1>3 DEF Routed
<1> QED
  BY <1>2, <1>3, <1>4, <1>5, <1>6, <1>10, <1>11, <1>12, <1>13, <1>14, <1>15, <1>16, <1>17
     DEF Routed, se

\* A new session, of an object that nothing refers to, under a ufrag that has none.
LEMMA SessionStartsFresh ==
  ASSUME TrafficAssumption, NEW se, NEW ss, NEW am, NEW bo, NEW rd, NEW pa, NEW inf,
         Routed(se, ss, am, bo, rd, pa, inf),
         NEW i \in Ids, se[i] = None, NEW u \in Ufrags, ss[u] = None,
         NEW s \in NetherNet!Session, s.ufrag = u, s.client = None, PortLeads(s)
  PROVE  Routed([se EXCEPT ![i] = s], [ss EXCEPT ![u] = i], am, bo, rd, pa, inf)
<1>1. None \notin Ids /\ None \notin Clients /\ None \notin NetherNet!Session
  BY DEF TrafficAssumption, NetherNet!NetherNetAssumption
<1> DEFINE se2 == [se EXCEPT ![i] = s]
           ss2 == [ss EXCEPT ![u] = i]
<1>2. /\ se2 \in [Ids -> NetherNet!Session \cup {None}] /\ ss2 \in [Ufrags -> Ids \cup {None}]
      /\ se2[i] = s /\ \A j \in Ids \ {i} : se2[j] = se[j]
      /\ ss2[u] = i /\ \A v \in Ufrags \ {u} : ss2[v] = ss[v]
  BY DEF Routed
<1> HIDE DEF se2, ss2
<1>3. /\ \A v \in Ufrags : ss[v] # i
      /\ \A c \in Clients : am[c] # i
      /\ i \notin bo /\ rd[i] = "none"
  BY <1>1 DEF Routed
<1>4. \A j \in Ids : se[j] # None => se[j] \in NetherNet!Session /\ se[j].ufrag \in Ufrags
  BY DEF Routed, NetherNet!Session
<1>5. \A v \in Ufrags : ss2[v] # None => se2[ss2[v]] # None /\ se2[ss2[v]].ufrag = v
  BY <1>1, <1>2, <1>3 DEF Routed
<1>6. \A c \in Clients : am[c] # None =>
        se2[am[c]] # None /\ se2[am[c]].client = c /\ ss2[se2[am[c]].ufrag] = am[c]
  BY <1>1, <1>2, <1>3, <1>4 DEF Routed
<1>7. \A v \in Ufrags : ss2[v] # None /\ se2[ss2[v]].client # None => am[se2[ss2[v]].client] = ss2[v]
  BY <1>1, <1>2, <1>3 DEF Routed
<1>8. \A j \in bo : se2[j] # None /\ se2[j].client # None /\ ss2[se2[j].ufrag] = j
  BY <1>1, <1>2, <1>3, <1>4 DEF Routed
<1>9. \A v \in Ufrags : inf[v] = IF ss2[v] = None THEN None ELSE se2[ss2[v]].client
  BY <1>1, <1>2, <1>3 DEF Routed
<1>10. \A j \in Ids : /\ rd[j] # "none" => se2[j] # None
                      /\ se2[j] # None => PortLeads(se2[j])
  BY <1>1, <1>2 DEF Routed
<1> QED
  BY <1>2, <1>5, <1>6, <1>7, <1>8, <1>9, <1>10 DEF Routed, se2, ss2

LEMMA PortLeadsOfFields ==
  \A s, t : s.ufrag = t.ufrag /\ s.port = t.port /\ PortLeads(t) => PortLeads(s)
BY DEF PortLeads

\* A session is used: its player's socket may be bound and its reader moves.
LEMMA SessionIsUsed ==
  ASSUME TrafficAssumption, NEW se, NEW ss, NEW am, NEW bo, NEW rd, NEW pa, NEW inf,
         Routed(se, ss, am, bo, rd, pa, inf),
         NEW i \in Ids, se[i] # None, NEW idle \in BOOLEAN,
         NEW bo2, bo2 = bo \/ (bo2 = bo \cup {i} /\ se[i].client # None /\ ss[se[i].ufrag] = i),
         NEW rd2 \in [Ids -> {"none", "reads", "holds"}], \A j \in Ids \ {i} : rd2[j] = rd[j]
  PROVE  Routed([se EXCEPT ![i] = [se[i] EXCEPT !.idle = idle]], ss, am, bo2, rd2, pa, inf)
<1>1. None \notin Ids /\ None \notin Clients /\ None \notin NetherNet!Session
  BY DEF TrafficAssumption, NetherNet!NetherNetAssumption
<1> DEFINE s == [se[i] EXCEPT !.idle = idle]
           se2 == [se EXCEPT ![i] = s]
<1>2. se[i] \in NetherNet!Session
  BY DEF Routed
<1>3. /\ s \in NetherNet!Session /\ s.ufrag = se[i].ufrag /\ s.client = se[i].client
      /\ s.port = se[i].port
  BY <1>2 DEF NetherNet!Session
<1> HIDE DEF s
<1>4. /\ se2 \in [Ids -> NetherNet!Session \cup {None}]
      /\ \A j \in Ids : /\ se2[j] = None <=> se[j] = None
                        /\ se2[j] # None => /\ se2[j].ufrag = se[j].ufrag
                                            /\ se2[j].client = se[j].client
                                            /\ se2[j].port = se[j].port
  BY <1>1, <1>3 DEF Routed
<1> HIDE DEF se2
<1>5. /\ \A u \in Ufrags : ss[u] # None => ss[u] \in Ids
      /\ \A c \in Clients : am[c] # None => am[c] \in Ids
  BY DEF Routed
<1>6. \A j \in bo2 : j \in Ids /\ se2[j] # None /\ se2[j].client # None /\ ss[se2[j].ufrag] = j
  BY <1>4 DEF Routed
<1>7. \A j \in Ids : se2[j] # None => PortLeads(se2[j])
  BY <1>4, PortLeadsOfFields DEF Routed
<1>8. \A j \in Ids : rd2[j] # "none" => se2[j] # None
  BY <1>4 DEF Routed
<1>9. \A u \in Ufrags : ss[u] # None => se2[ss[u]] # None /\ se2[ss[u]].ufrag = u
  BY <1>4, <1>5 DEF Routed
<1>10. \A c \in Clients : am[c] # None =>
         se2[am[c]] # None /\ se2[am[c]].client = c /\ ss[se2[am[c]].ufrag] = am[c]
  BY <1>4, <1>5 DEF Routed
<1>11. \A u \in Ufrags : ss[u] # None /\ se2[ss[u]].client # None => am[se2[ss[u]].client] = ss[u]
  BY <1>4, <1>5, <1>9 DEF Routed
<1>12. \A u \in Ufrags : inf[u] = IF ss[u] = None THEN None ELSE se2[ss[u]].client
  BY <1>4, <1>5, <1>9 DEF Routed
<1>13. /\ ss \in [Ufrags -> Ids \cup {None}] /\ am \in [Clients -> Ids \cup {None}] /\ bo2 \subseteq Ids
       /\ pa = am /\ inf \in [Ufrags -> Clients \cup {None}]
  BY DEF Routed
<1> QED
  BY <1>4, <1>6, <1>7, <1>8, <1>9, <1>10, <1>11, <1>12, <1>13 DEF Routed, se2, s

\* The first packet that names a session gives it its player's address.
LEMMA SessionIsLearned ==
  ASSUME TrafficAssumption, Routed(sess, sessions, addrMap, bound, reader, panel, infos),
         NEW u \in Ufrags, NEW i, i = sessions[u], i # None, sess[i].client = None,
         NEW c \in Clients, addrMap[c] = None
  PROVE  Routed([sess EXCEPT ![i] = [sess[i] EXCEPT !.client = c]], sessions,
                [addrMap EXCEPT ![c] = i], bound, reader,
                [panel EXCEPT ![c] = i], [infos EXCEPT ![u] = c])
<1>1. None \notin Ids /\ None \notin Clients /\ None \notin NetherNet!Session
  BY DEF TrafficAssumption, NetherNet!NetherNetAssumption
<1> DEFINE s == [sess[i] EXCEPT !.client = c]
           se == [sess EXCEPT ![i] = s]
           am == [addrMap EXCEPT ![c] = i]
           inf == [infos EXCEPT ![u] = c]
<1>2. i \in Ids /\ sess[i] \in NetherNet!Session /\ sess[i].ufrag = u
  BY DEF Routed
<1>3. s \in NetherNet!Session /\ s.ufrag = u /\ s.client = c /\ s.port = sess[i].port
  BY <1>2 DEF NetherNet!Session
<1> HIDE DEF s
<1>4. /\ se \in [Ids -> NetherNet!Session \cup {None}] /\ se[i] = s
      /\ \A j \in Ids \ {i} : se[j] = sess[j]
      /\ am \in [Clients -> Ids \cup {None}] /\ am[c] = i
      /\ \A d \in Clients \ {c} : am[d] = addrMap[d]
      /\ inf \in [Ufrags -> Clients \cup {None}] /\ inf[u] = c
      /\ \A v \in Ufrags \ {u} : inf[v] = infos[v]
      /\ [panel EXCEPT ![c] = i] = am
  BY <1>2, <1>3 DEF Routed
<1> HIDE DEF se, am, inf
<1>5. /\ \A v \in Ufrags \ {u} : sessions[v] # i
      /\ \A d \in Clients : addrMap[d] # i
      /\ i \notin bound
  BY <1>1, <1>2 DEF Routed
<1>6. \A j \in Ids : sess[j] # None => sess[j] \in NetherNet!Session /\ sess[j].ufrag \in Ufrags
  BY DEF Routed, NetherNet!Session
<1>7. \A v \in Ufrags : sessions[v] # None =>
        se[sessions[v]] # None /\ se[sessions[v]].ufrag = v
  BY <1>1, <1>3, <1>4, <1>5 DEF Routed
<1>8. \A d \in Clients : am[d] # None =>
        se[am[d]] # None /\ se[am[d]].client = d /\ sessions[se[am[d]].ufrag] = am[d]
  BY <1>1, <1>3, <1>4, <1>5 DEF Routed
<1>9. \A v \in Ufrags : sessions[v] # None /\ se[sessions[v]].client # None =>
        am[se[sessions[v]].client] = sessions[v]
  <2> SUFFICES ASSUME NEW v \in Ufrags, sessions[v] # None, se[sessions[v]].client # None
               PROVE  am[se[sessions[v]].client] = sessions[v]
    OBVIOUS
  <2>1. CASE v = u
    BY <2>1, <1>3, <1>4
  <2>2. CASE v # u
    <3>1. se[sessions[v]] = sess[sessions[v]] /\ sess[sessions[v]].client \in Clients
      BY <2>2, <1>4, <1>5 DEF Routed, NetherNet!Session
    <3>2. addrMap[sess[sessions[v]].client] = sessions[v]
      BY <3>1 DEF Routed
    <3> QED
      BY <3>1, <3>2, <1>4
  <2> QED
    BY <2>1, <2>2
<1>10. \A j \in bound : se[j] # None /\ se[j].client # None /\ sessions[se[j].ufrag] = j
  BY <1>4, <1>5 DEF Routed
<1>11. \A v \in Ufrags : inf[v] = IF sessions[v] = None THEN None ELSE se[sessions[v]].client
  BY <1>3, <1>4, <1>5 DEF Routed
<1>12. \A j \in Ids : /\ reader[j] # "none" => se[j] # None
                      /\ se[j] # None => PortLeads(se[j])
  BY <1>1, <1>2, <1>3, <1>4, PortLeadsOfFields DEF Routed
<1>13. /\ sessions \in [Ufrags -> Ids \cup {None}] /\ bound \subseteq Ids
       /\ reader \in [Ids -> {"none", "reads", "holds"}]
  BY DEF Routed
<1> QED
  BY <1>4, <1>7, <1>8, <1>9, <1>10, <1>11, <1>12, <1>13 DEF Routed, se, am, inf, s

-----------------------------------------------------------------------------
(* NetherNet: each handler keeps the tables.                               *)

LEMMA JoinsKeep ==
  ASSUME TrafficAssumption, NetherInv, NEW c \in Clients,
         (\E a \in Answers : NetherNet!Answer(c, a)) \/ NetherNet!Register(c) \/ NetherNet!Reply(c)
  PROVE  NetherInv'
<1>1. CASE \E a \in Answers : NetherNet!Answer(c, a)
  BY <1>1 DEF NetherInv, NetherNet!Answer, NetherNet!learned
<1>2. CASE NetherNet!Reply(c)
  BY <1>2 DEF NetherInv, NetherNet!Reply, NetherNet!learned
<1>3. CASE NetherNet!Register(c)
  <2> DEFINE a == join[c].answer
             u == NetherNet!IceUfrag(NetherNet!RewriteSDP(a))
             i == NetherNet!First(NetherNet!Fresh)
             S == {sessions[u]} \ {None}
             s == [ufrag |-> u, client |-> None, port |-> NetherNet!BackendDataPort(a), idle |-> FALSE]
  <2>1. /\ join[c] # None /\ join' = [join EXCEPT ![c].stage = "registered"]
        /\ UNCHANGED <<reader, packets>>
        /\ IF u = None THEN UNCHANGED NetherNet!learned
           ELSE /\ NetherNet!Fresh # {}
                /\ NetherNet!EndSessions(S)
                /\ sessions' = [sessions EXCEPT ![u] = i]
                /\ sess' = [NetherNet!Kept({sessions[u]}) EXCEPT ![i] = s]
    BY <1>3 DEF NetherNet!Register
  <2>2. a \in Answers /\ join' \in [Clients -> {None} \cup [stage : {"answered", "registered"}, answer : Answers]]
    <3>1. join[c] \in [stage : {"answered", "registered"}, answer : Answers]
      BY <2>1 DEF NetherInv
    <3> QED
      BY <3>1, <2>1 DEF NetherInv
  <2>3. /\ u = NetherNet!IceUfrag(a) /\ u \in Ufrags \cup {None}
        /\ IF NetherNet!Advertised(a) # {}
           THEN NetherNet!BackendDataPort(a) \in NetherNet!Advertised(a)
           ELSE NetherNet!BackendDataPort(a) = SignalPort
    BY <2>2, AnswersAreRewritten
  <2>4. CASE u = None
    BY <2>1, <2>2, <2>4 DEF NetherInv, NetherNet!learned
  <2>5. CASE u # None
    <3>1. i \in NetherNet!Fresh
      <4>1. NetherNet!Fresh \subseteq Nat
        BY DEF NetherNet!Fresh, TrafficAssumption, NetherNet!NetherNetAssumption
      <4> QED
        BY <4>1, <2>1, <2>5, FirstIsLeast
    <3>2. u \in Ufrags /\ i \in Ids /\ sess[i] = None
      BY <2>3, <2>5, <3>1 DEF NetherNet!Fresh
    <3>3. s \in NetherNet!Session /\ PortLeads(s)
      <4>1. NetherNet!Advertised(a) \subseteq Nat /\ SignalPort \in Nat
        BY <2>2 DEF TrafficAssumption, NetherNet!NetherNetAssumption, NetherNet!Advertised,
                    NetherNet!HostCandidates, NetherNet!Candidates, NetherNet!Line
      <4>2. NetherNet!BackendDataPort(a) \in Nat
        BY <4>1, <2>3
      <4> QED
        BY <2>2, <2>3, <3>2, <4>2 DEF NetherNet!Session, PortLeads
    <3> DEFINE ss == [v \in Ufrags |-> IF sessions[v] \in S THEN None ELSE sessions[v]]
    <3> HIDE DEF a, u, s
    <3>4. /\ S \in SUBSET Ids /\ sessions \in [Ufrags -> Ids \cup {None}]
          /\ \A v \in Ufrags \ {u} : sessions[v] \notin S
          /\ None \notin Ids
      BY <3>2 DEF NetherInv, Routed, TrafficAssumption, NetherNet!NetherNetAssumption
    <3>5. Routed(NetherNet!Kept(S), ss, addrMap', bound', reader, panel', infos')
      BY <2>1, <2>5, <3>4, SessionsEndWhole DEF NetherInv
    <3>6. ss[u] = None /\ [ss EXCEPT ![u] = i] = [sessions EXCEPT ![u] = i]
      BY <3>2, <3>4
    <3>7. NetherNet!Kept(S) = NetherNet!Kept({sessions[u]}) /\ NetherNet!Kept(S)[i] = None
      BY <3>2, <3>4 DEF NetherNet!Kept
    <3> HIDE DEF i, S, ss
    <3>8. Routed([NetherNet!Kept(S) EXCEPT ![i] = s], [ss EXCEPT ![u] = i],
                 addrMap', bound', reader, panel', infos')
      BY <3>2, <3>3, <3>5, <3>6, <3>7, SessionStartsFresh DEF s
    <3>9. Routed(sess', sessions', addrMap', bound', reader', panel', infos')
      BY <2>1, <2>5, <3>6, <3>7, <3>8
    <3> QED
      BY <2>1, <2>2, <3>9 DEF NetherInv
  <2> QED
    BY <2>4, <2>5
<1> QED
  BY <1>1, <1>2, <1>3

LEMMA PacketsKeep ==
  ASSUME TrafficAssumption, NetherInv, NEW p \in NetherNet!Packet,
         NetherNet!Arrive(p) \/ NetherNet!Handle(p)
  PROVE  NetherInv'
<1>1. None \notin Ids /\ None \notin Clients /\ None \notin Ufrags /\ None \notin NetherNet!Session
  BY DEF TrafficAssumption, NetherNet!NetherNetAssumption
<1>2. p.from \in Clients /\ p.ufrag \in Ufrags \cup {None}
  BY DEF NetherNet!Packet
<1>3. CASE NetherNet!Arrive(p)
  BY <1>3 DEF NetherInv, NetherNet!Arrive, NetherNet!signalling, NetherNet!learned
<1>4. CASE NetherNet!Handle(p)
  <2>1. /\ packets' \subseteq NetherNet!Packet /\ UNCHANGED <<join, sessions>>
    BY <1>4 DEF NetherInv, NetherNet!Handle, NetherNet!signalling
  <2>2. CASE UNCHANGED NetherNet!learned /\ UNCHANGED reader
    BY <2>1, <2>2 DEF NetherInv, NetherNet!learned
  <2>3. CASE /\ addrMap[p.from] # None
             /\ NetherNet!ForwardToTarget(addrMap[p.from], sess[addrMap[p.from]])
             /\ UNCHANGED <<addrMap, panel, infos>>
    <3> DEFINE i == addrMap[p.from]
    <3>1. i \in Ids /\ sess[i] # None
      BY <1>2, <2>3 DEF NetherInv, Routed
    <3>2. /\ sess' = [sess EXCEPT ![i] = [sess[i] EXCEPT !.idle = FALSE]]
          /\ bound' = bound \/ bound' = bound \cup {i}
          /\ reader' \in [Ids -> {"none", "reads", "holds"}]
          /\ \A j \in Ids \ {i} : reader'[j] = reader[j]
      BY <2>3 DEF NetherNet!ForwardToTarget, NetherInv, Routed
    <3>3. sess[i].client # None /\ sessions[sess[i].ufrag] = i
      BY <1>1, <1>2, <2>3 DEF NetherInv, Routed
    <3> HIDE DEF i
    <3>4. bound' = bound \/ (bound' = bound \cup {i} /\ sess[i].client # None /\ sessions[sess[i].ufrag] = i)
      BY <3>2, <3>3
    <3>5. Routed([sess EXCEPT ![i] = [sess[i] EXCEPT !.idle = FALSE]], sessions, addrMap,
                 bound', reader', panel, infos)
      BY <3>1, <3>2, <3>4, SessionIsUsed DEF NetherInv
    <3>6. Routed(sess', sessions, addrMap, bound', reader', panel, infos)
      BY <3>2, <3>5
    <3> QED
      BY <2>1, <2>3, <3>6 DEF NetherInv
  <2>4. CASE addrMap[p.from] = None /\ p.ufrag # None /\ NetherNet!Learn(p)
    <3> DEFINE i == sessions[p.ufrag]
               s == [sess[i] EXCEPT !.client = p.from]
               se == [sess EXCEPT ![i] = s]
               am == [addrMap EXCEPT ![p.from] = i]
               pa == [panel EXCEPT ![p.from] = i]
               inf == [infos EXCEPT ![p.ufrag] = p.from]
    <3>1. i \in Ids /\ i # None /\ sess[i].client = None /\ sess[i] \in NetherNet!Session
      BY <1>1, <2>4 DEF NetherNet!Learn, NetherNet!Unlearned, NetherInv, Routed
    <3>2. Routed(se, sessions, am, bound, reader, pa, inf)
      BY <1>2, <2>4, <3>1, SessionIsLearned DEF NetherInv
    <3>3. /\ addrMap' = am /\ panel' = pa /\ infos' = inf
          /\ NetherNet!ForwardToTarget(i, s)
      BY <2>4 DEF NetherNet!Learn, NetherNet!SessionStart
    <3>4. s \in NetherNet!Session /\ se[i] = s /\ sess \in [Ids -> NetherNet!Session \cup {None}]
      BY <1>2, <3>1 DEF NetherNet!Session, NetherInv, Routed
    <3>5. s.client = p.from /\ sessions[s.ufrag] = i
      BY <1>2, <2>4, <3>1 DEF NetherInv, Routed, NetherNet!Learn, NetherNet!Session
    <3> HIDE DEF s
    <3>6. /\ sess' = [se EXCEPT ![i] = [se[i] EXCEPT !.idle = FALSE]]
          /\ bound' = bound \/ bound' = bound \cup {i}
          /\ reader' \in [Ids -> {"none", "reads", "holds"}]
          /\ \A j \in Ids \ {i} : reader'[j] = reader[j]
      <4>1. sess' = [sess EXCEPT ![i] = [s EXCEPT !.idle = FALSE]]
        BY <3>3 DEF NetherNet!ForwardToTarget
      <4>2. sess' = [se EXCEPT ![i] = [se[i] EXCEPT !.idle = FALSE]]
        BY <3>1, <3>4, <4>1
      <4> QED
        BY <3>3, <4>2 DEF NetherNet!ForwardToTarget, NetherInv, Routed
    <3> HIDE DEF i, se, am, pa, inf
    <3>7. bound' = bound \/ (bound' = bound \cup {i} /\ se[i].client # None /\ sessions[se[i].ufrag] = i)
      BY <1>1, <1>2, <3>4, <3>5, <3>6
    <3>8. se[i] # None
      BY <1>1, <3>4
    <3>9. Routed([se EXCEPT ![i] = [se[i] EXCEPT !.idle = FALSE]], sessions, am,
                 bound', reader', pa, inf)
      <4>1. /\ i \in Ids /\ FALSE \in BOOLEAN
            /\ reader' \in [Ids -> {"none", "reads", "holds"}]
            /\ \A j \in Ids \ {i} : reader'[j] = reader[j]
        BY <3>1, <3>6
      <4>2. CASE bound' = bound
        BY <3>2, <3>8, <4>1, <4>2, SessionIsUsed
      <4>3. CASE bound' = bound \cup {i} /\ se[i].client # None /\ sessions[se[i].ufrag] = i
        BY <3>2, <3>8, <4>1, <4>3, SessionIsUsed
      <4> QED
        BY <3>7, <4>2, <4>3
    <3>10. Routed(sess', sessions, am, bound', reader', pa, inf)
      BY <3>6, <3>9
    <3> QED
      BY <2>1, <3>3, <3>10 DEF NetherInv
  <2> QED
    BY <1>4, <2>2, <2>3, <2>4 DEF NetherNet!Handle
<1> QED
  BY <1>3, <1>4

LEMMA ReadersKeep ==
  ASSUME TrafficAssumption, NetherInv, NEW i \in Ids, NetherNet!Reader(i) \/ NetherNet!FallIdle(i)
  PROVE  NetherInv'
<1>1. None \notin Ids /\ None \notin Clients /\ None \notin NetherNet!Session
  BY DEF TrafficAssumption, NetherNet!NetherNetAssumption
<1>2. Routed(sess, sessions, addrMap, bound, reader, panel, infos)
  BY DEF NetherInv
<1>3. CASE NetherNet!Receive(i)
  BY <1>3, <1>2 DEF NetherInv, NetherNet!Receive, NetherNet!signalling, NetherNet!learned, Routed
<1>4. CASE NetherNet!Relay(i)
  <2>1. /\ sess[i] # None /\ reader' \in [Ids -> {"none", "reads", "holds"}]
        /\ \A j \in Ids \ {i} : reader'[j] = reader[j]
        /\ sess' = [sess EXCEPT ![i] = [sess[i] EXCEPT !.idle = FALSE]]
        /\ UNCHANGED <<join, sessions, addrMap, bound, panel, infos, packets>>
    BY <1>2, <1>4 DEF NetherNet!Relay, NetherNet!signalling, Routed
  <2>2. Routed(sess', sessions, addrMap, bound, reader', panel, infos)
    BY <1>2, <2>1, SessionIsUsed
  <2> QED
    BY <2>1, <2>2 DEF NetherInv
<1>5. CASE NetherNet!FallIdle(i)
  <2>1. /\ sess[i] # None
        /\ sess' = [sess EXCEPT ![i] = [sess[i] EXCEPT !.idle = TRUE]]
        /\ UNCHANGED <<join, sessions, addrMap, bound, reader, panel, infos, packets>>
    BY <1>1, <1>2, <1>5 DEF NetherNet!FallIdle, NetherNet!Live, NetherNet!signalling, Routed
  <2>2. reader \in [Ids -> {"none", "reads", "holds"}]
    BY <1>2 DEF Routed
  <2>3. Routed(sess', sessions, addrMap, bound, reader, panel, infos)
    BY <1>2, <2>1, <2>2, SessionIsUsed
  <2> QED
    BY <2>1, <2>3 DEF NetherInv
<1>6. CASE NetherNet!ReaderEnds(i)
  <2>1. /\ reader[i] = "reads" /\ reader' = [reader EXCEPT ![i] = "none"]
        /\ sess' = IF NetherNet!Live(i) THEN sess ELSE [sess EXCEPT ![i] = None]
        /\ UNCHANGED <<join, sessions, addrMap, bound, panel, infos, packets>>
    BY <1>6 DEF NetherNet!ReaderEnds, NetherNet!signalling
  <2>2. CASE NetherNet!Live(i)
    BY <1>2, <2>1, <2>2 DEF NetherInv, Routed
  <2>3. CASE ~NetherNet!Live(i)
    <3>1. /\ \A u \in Ufrags : sessions[u] # i
          /\ \A c \in Clients : addrMap[c] # i
          /\ i \notin bound
      BY <1>1, <1>2, <2>3 DEF NetherNet!Live, Routed, NetherNet!Session
    <3>2. Routed([sess EXCEPT ![i] = None], sessions, addrMap, bound, reader', panel, infos)
      BY <1>1, <1>2, <2>1, <3>1 DEF Routed
    <3> QED
      BY <2>1, <2>3, <3>2 DEF NetherInv
  <2> QED
    BY <2>2, <2>3
<1> QED
  BY <1>3, <1>4, <1>5, <1>6 DEF NetherNet!Reader

LEMMA EndingsKeep ==
  ASSUME TrafficAssumption, NetherInv, NetherNet!Cleanup \/ NetherNet!Stop
  PROVE  NetherInv'
<1>1. PICK S \in SUBSET Ids :
        /\ NetherNet!EndSessions(S) /\ sess' = NetherNet!Kept(S)
        /\ sessions' = [u \in Ufrags |-> IF sessions[u] \in S THEN None ELSE sessions[u]]
        /\ UNCHANGED <<join, reader, packets>>
  <2>1. CASE NetherNet!Cleanup
    <3> DEFINE S == {i \in Ids : NetherNet!Live(i) /\ sess[i].idle}
    <3> WITNESS S \in SUBSET Ids
    <3> QED
      BY <2>1 DEF NetherNet!Cleanup, NetherNet!signalling
  <2>2. CASE NetherNet!Stop
    <3> DEFINE S == {i \in Ids : NetherNet!Live(i)}
    <3>1. \A u \in Ufrags : sessions[u] \in S \/ sessions[u] = None
      BY DEF NetherNet!Live, NetherInv, Routed
    <3>2. [u \in Ufrags |-> None] = [u \in Ufrags |-> IF sessions[u] \in S THEN None ELSE sessions[u]]
      BY <3>1
    <3> WITNESS S \in SUBSET Ids
    <3> QED
      BY <2>2, <3>2 DEF NetherNet!Stop, NetherNet!signalling
  <2> QED
    BY <2>1, <2>2
<1>2. Routed(sess', sessions', addrMap', bound', reader, panel', infos')
  BY <1>1, SessionsEndWhole DEF NetherInv
<1> QED
  BY <1>1, <1>2 DEF NetherInv

NetherNetPart == part = "nethernet" => NetherInv

LEMMA NetherNetPartHolds == TrafficSpec => []NetherNetPart
<1>1. TrafficInit => NetherNetPart
  <2> SUFFICES ASSUME NetherNet!Init
               PROVE  NetherInv
    BY DEF TrafficInit, NetherNetPart
  <2> QED
    BY DEF NetherNet!Init, NetherInv, Routed
<1>2. NetherNetPart /\ [TrafficNext]_trafficVars => NetherNetPart'
  <2> SUFFICES ASSUME NetherNetPart, [TrafficNext]_trafficVars, part' = "nethernet"
               PROVE  NetherInv'
    BY DEF NetherNetPart
  <2>1. NetherInv /\ (NetherNet!Next \/ UNCHANGED netherNetVars)
    BY DEF TrafficNext, ChannelMoves, NetherNetMoves, GatewayMoves, trafficVars, NetherNetPart
  <2>2. CASE UNCHANGED netherNetVars
    BY <2>1, <2>2 DEF netherNetVars, NetherInv
  <2>3. CASE NetherNet!Next
    BY <2>1, <2>3, TrafficAssumption, JoinsKeep, PacketsKeep, ReadersKeep, EndingsKeep
       DEF NetherNet!Next
  <2> QED
    BY <2>1, <2>2, <2>3
<1> QED
  BY <1>1, <1>2, PTL DEF TrafficSpec

\* The registry of the panel has the players whose address was learned, each with its own
\* session; two sessions never hold one address; and an answer given to a player leads to this
\* gateway, its packets to a port that the backend advertised (nethernet/multiplexer.go,
\* nethernet/gateway.go rewriteSDP, backendDataPort, forward/nethernet_backend.go).
THEOREM NetherNetSessionsLeadHome == TrafficSpec => []NetherNetLeadsHome
<1>1. NetherNetPart => NetherNetLeadsHome
  <2> SUFFICES ASSUME NetherInv
               PROVE  NetherNet!PanelIsPaired /\ NetherNet!AddressesAreFree /\ NetherNet!AnswersLeadHere
    BY DEF NetherNetPart, NetherNetLeadsHome
  <2>1. None \notin Ids /\ None \notin Clients /\ None \notin NetherNet!Session
    BY TrafficAssumption DEF TrafficAssumption, NetherNet!NetherNetAssumption
  <2>2. \A i \in Ids : sess[i] # None =>
          /\ sess[i].ufrag \in Ufrags /\ sess[i].client \in Clients \cup {None}
          /\ PortLeads(sess[i])
    BY DEF NetherInv, Routed, NetherNet!Session
  <2>3. NetherNet!PanelIsPaired
    BY <2>1, <2>2 DEF NetherInv, Routed, NetherNet!PanelIsPaired
  <2>4. \A i \in bound : /\ i \in Ids /\ sess[i] # None /\ sess[i].client \in Clients
                         /\ sessions[sess[i].ufrag] = i /\ addrMap[sess[i].client] = i
    BY <2>1, <2>2 DEF NetherInv, Routed
  <2>5. NetherNet!AddressesAreFree
    BY <2>2, <2>4 DEF NetherNet!AddressesAreFree, NetherNet!Live
  <2>6. \A c \in Clients : join[c] # None => join[c].answer \in Answers
    BY DEF NetherInv
  <2>7. NetherNet!AnswersLeadHere
    <3>1. \A c \in Clients : join[c] # None =>
            LET a == NetherNet!RewriteSDP(join[c].answer) IN
            /\ NetherNet!Usable(join[c].answer) # {} =>
                 \E k \in DOMAIN a : NetherNet!Candidates(a) = {k}
            /\ \A k \in DOMAIN a : a[k].kind \in {"connection", "media", "candidate"} =>
                 a[k].addr = NetherNet!Public
      BY <2>6, AnswersAreRewritten, TrafficAssumption
    <3>2. \A i \in Ids : sess[i] # None =>
            \E a \in Answers : /\ NetherNet!IceUfrag(a) = sess[i].ufrag
                               /\ IF NetherNet!Advertised(a) # {}
                                  THEN sess[i].port \in NetherNet!Advertised(a)
                                  ELSE sess[i].port = SignalPort
      BY <2>2 DEF PortLeads
    <3> QED
      BY <3>1, <3>2 DEF NetherNet!AnswersLeadHere
  <2> QED
    BY <2>3, <2>5, <2>7
<1> QED
  BY <1>1, NetherNetPartHolds, PTL

=============================================================================
