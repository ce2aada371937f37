-------------------------- MODULE BackgroundProofs --------------------------
(***************************************************************************)
(* Theorems about Background, for any finite sets of connections, rules,   *)
(* certificates, keys and requests.                                        *)
(*                                                                         *)
(* TcpInv counts: f.wg is the accept loop and the handlers under way,      *)
(* f.activeConns the handlers that track a connection; and it bounds what  *)
(* a handler has open and tracked by where it is.  With it a Stop that     *)
(* comes back leaves nothing.  PoolInv follows a connection from the loop  *)
(* that has it in hand to the worker that runs it, and says that a rule    *)
(* that is stopped has neither.  CertsInv says with which key every job    *)
(* goes on, and which jobs can have an order in two steps between them.    *)
(* KernelInv says what is not in a chain at each place of a repair, which  *)
(* copies there are as long as nothing has failed, and where the watchdog, *)
(* the set-up and the teardown can be at the same time.  PlaneInv says of  *)
(* every packet on its way which side wrote it and for whom, and of every  *)
(* datagram being joined that its segments are whole.                      *)
(***************************************************************************)
EXTENDS Background, Sequences, FiniteSetTheorems, WellFoundedInduction, TLAPS

Busy == {c \in Conns : pc[c] \notin {"idle", "done"}}
Relays == {c \in Conns : InRelay(c)}

\* sync.WaitGroup and the atomic counter, against who is there to be counted.
CountsOK ==
  /\ wg = Cardinality(Busy) + (IF acceptor = "running" THEN 1 ELSE 0)
  /\ active = Cardinality(Relays)

\* What is open or tracked belongs to a handler that is far enough.
SocketsOK ==
  \A c \in Conns :
    /\ Src(c) \in open => c \in Busy
    /\ Dst(c) \in open => pc[c] \in {"dialed", "relaying", "leaving"}
    /\ Src(c) \in tracked <=> InRelay(c)
    /\ Dst(c) \in tracked => pc[c] \in {"relaying", "leaving"}

\* Until Stop cuts the connections nobody else takes a handler's sockets away.
KeptOpen ==
  stop \notin {"waiting", "stopped"} =>
    \A c \in Conns : /\ c \in Busy => Src(c) \in open
                     /\ pc[c] \in {"dialed", "relaying"} => Dst(c) \in open

NobodyLeft == stop = "stopped" => acceptor = "done" /\ Busy = {}

TcpInv ==
  TypeOK /\ CountsOK /\ SocketsOK /\ OpenIsTracked /\ KeptOpen /\ NobodyLeft

-----------------------------------------------------------------------------
(* Counting *)

LEMMA ConnsFinite ==
  ASSUME TcpAssumption, NEW S \in SUBSET Conns
  PROVE  IsFiniteSet(S) /\ Cardinality(S) \in Nat
BY FS_Subset, FS_CardinalityType DEF TcpAssumption

LEMMA OneMore ==
  ASSUME TcpAssumption, NEW S \in SUBSET Conns, NEW c \in Conns, c \notin S
  PROVE  Cardinality(S \cup {c}) = Cardinality(S) + 1
BY ConnsFinite, FS_AddElement

LEMMA OneLess ==
  ASSUME TcpAssumption, NEW S \in SUBSET Conns, NEW c \in S
  PROVE  Cardinality(S \ {c}) = Cardinality(S) - 1 /\ Cardinality(S) \in Nat \ {0}
<1>1. IsFiniteSet(S) /\ Cardinality(S) \in Nat /\ Cardinality(S) # 0
  BY ConnsFinite, FS_EmptySet
<1>2. QED
  BY <1>1, FS_RemoveElement

\* What a step of the handler of c does to the two sets that are counted.
LEMMA HandlerMoves ==
  ASSUME TypeOK, NEW c \in Conns, NEW stage, GoTo(c, stage)
  PROVE  /\ pc'[c] = stage /\ \A d \in Conns \ {c} : pc'[d] = pc[d]
         /\ Busy' = IF stage \in {"idle", "done"} THEN Busy \ {c} ELSE Busy \cup {c}
         /\ Relays' = IF stage \in {"retrying", "dialing", "dialed", "relaying", "leaving"}
                        THEN Relays \cup {c} ELSE Relays \ {c}
<1>1. pc'[c] = stage /\ \A d \in Conns \ {c} : pc'[d] = pc[d]
  BY DEF GoTo, TypeOK
<1>2. QED
  BY <1>1 DEF Busy, Relays, InRelay

\* Two sockets of one connection, and those of two, are different.
LEMMA SocketsDiffer ==
  ASSUME NEW c \in Conns, NEW d \in Conns
  PROVE  /\ Src(c) # Dst(d) /\ (Src(c) = Src(d) => c = d) /\ (Dst(c) = Dst(d) => c = d)
         /\ Src(c) \in Sockets /\ Dst(c) \in Sockets /\ Src(c)[1] = c /\ Dst(c)[1] = c
BY DEF Src, Dst, Sockets

LEMMA SocketIs ==
  ASSUME NEW s \in Sockets
  PROVE  \E c \in Conns : s[1] = c /\ (s = Src(c) \/ s = Dst(c))
BY DEF Src, Dst, Sockets

\* OpenIsTracked, connection by connection.
Covered(c) ==
  /\ Src(c) \in open => Src(c) \in tracked \/ pc[c] \in {"accepted", "admitted"}
  /\ Dst(c) \in open => Dst(c) \in tracked \/ pc[c] = "dialed"

LEMMA CoveredIs ==
  ASSUME TypeOK
  PROVE  OpenIsTracked <=> \A c \in Conns : Covered(c)
<1>1. OpenIsTracked => \A c \in Conns : Covered(c)
  BY SocketsDiffer DEF OpenIsTracked, Covered
<1>2. (\A c \in Conns : Covered(c)) => OpenIsTracked
  BY SocketIs DEF OpenIsTracked, Covered, TypeOK
<1>3. QED
  BY <1>1, <1>2

-----------------------------------------------------------------------------

LEMMA TcpInit ==
  ASSUME TcpAssumption, Init
  PROVE  TcpInv
<1>1. Busy = {} /\ Relays = {}
  BY DEF Init, Busy, Relays, InRelay
<1>2. CountsOK
  BY <1>1, FS_EmptySet DEF Init, CountsOK
<1>3. TypeOK
  BY DEF TcpAssumption, Init, TypeOK
<1>4. SocketsOK /\ OpenIsTracked /\ KeptOpen /\ NobodyLeft
  BY <1>1 DEF Init, SocketsOK, OpenIsTracked, KeptOpen, NobodyLeft, InRelay
<1>5. QED
  BY <1>2, <1>3, <1>4 DEF TcpInv

\* A step that moves no handler keeps the counts.
LEMMA NobodyMoves ==
  ASSUME CountsOK, UNCHANGED <<pc, wg, active, acceptor>>
  PROVE  CountsOK' /\ Busy' = Busy /\ Relays' = Relays
BY DEF CountsOK, Busy, Relays, InRelay

LEMMA AcceptStep ==
  ASSUME TcpAssumption, TcpInv, NEW c \in Conns, Accept(c)
  PROVE  TcpInv'
<1>a. TypeOK /\ CountsOK /\ SocketsOK /\ OpenIsTracked /\ KeptOpen /\ NobodyLeft
  BY DEF TcpInv
<1>1. /\ GoTo(c, "accepted") /\ wg' = wg + 1 /\ open' = open \cup {Src(c)} /\ pc[c] = "idle"
      /\ acceptor = "running"
      /\ UNCHANGED <<stop, listener, acceptor, tracked, active, live, doomed, tries, gone, copying>>
  BY DEF Accept, loop, books
<1>2. /\ pc'[c] = "accepted" /\ \A d \in Conns \ {c} : pc'[d] = pc[d]
      /\ Busy' = Busy \cup {c} /\ Relays' = Relays \ {c}
  BY <1>a, <1>1, HandlerMoves
<1>3. c \notin Busy /\ c \notin Relays
  BY <1>1 DEF Busy, Relays, InRelay
<1>4. CountsOK'
  <2>1. Cardinality(Busy') = Cardinality(Busy) + 1 /\ Cardinality(Busy) \in Nat
    BY <1>2, <1>3, OneMore, ConnsFinite DEF Busy
  <2>2. Relays' = Relays
    BY <1>2, <1>3
  <2>3. QED
    BY <1>a, <1>1, <2>1, <2>2 DEF CountsOK
<1>5. TypeOK'
  <2>1. pc' = [pc EXCEPT ![c] = "accepted"] /\ Src(c) \in Sockets
    BY <1>1, SocketsDiffer DEF GoTo
  <2>2. QED
    BY <1>a, <1>1, <2>1 DEF TypeOK
<1>6. SocketsOK' /\ KeptOpen' /\ NobodyLeft'
  BY <1>a, <1>1, <1>2, <1>3, SocketsDiffer DEF SocketsOK, KeptOpen, NobodyLeft, InRelay
<1>7. OpenIsTracked'
  <2>1. \A d \in Conns : Covered(d)
    BY <1>a, CoveredIs
  <2>2. \A d \in Conns : Covered(d)'
    BY <1>a, <1>1, <1>2, <2>1, SocketsDiffer DEF Covered
  <2>3. QED
    BY <1>5, <2>2, SocketIs DEF OpenIsTracked, Covered, TypeOK
<1>8. QED
  BY <1>a, <1>4, <1>5, <1>6, <1>7 DEF TcpInv

\* A handler's step on its own two sockets; the counts follow the stage it goes to.
LEMMA HandlerStep ==
  ASSUME TcpAssumption, TcpInv, NEW c \in Conns, NEW stage, GoTo(c, stage), pc[c] # stage,
         stage \in {"admitted", "retrying", "dialing", "dialed", "relaying", "leaving", "done"},
         pc[c] \in {"accepted", "admitted", "retrying", "dialing", "dialed", "relaying", "leaving"},
         UNCHANGED <<stop, listener, acceptor, doomed, gone>>,
         wg' = IF stage = "done" THEN wg - 1 ELSE wg,
         active' = IF stage = "done" /\ InRelay(c) THEN active - 1
                   ELSE IF stage # "done" /\ stage # "admitted" /\ ~InRelay(c) THEN active + 1
                   ELSE active,
         stage = "admitted" => pc[c] = "accepted",
         live' \in [Clients -> Conns \cup {None}], tries' \in [Conns -> 0..MaxRetries],
         copying' \in SUBSET Sockets, open' \in SUBSET Sockets, tracked' \in SUBSET Sockets,
         \A d \in Conns \ {c} : /\ Src(d) \in open' <=> Src(d) \in open
                                /\ Dst(d) \in open' <=> Dst(d) \in open
                                /\ Src(d) \in tracked' <=> Src(d) \in tracked
                                /\ Dst(d) \in tracked' <=> Dst(d) \in tracked,
         Src(c) \in open' => Src(c) \in open /\ stage # "done",
         stage # "done" /\ Src(c) \in open => Src(c) \in open',
         Dst(c) \in open' => stage \in {"dialed", "relaying", "leaving"},
         stage \in {"dialed", "relaying"} => Dst(c) \in open' \/ (Dst(c) \notin open /\ stage = "relaying"),
         stage = "relaying" => pc[c] = "dialed",
         Src(c) \in tracked' <=> stage \notin {"admitted", "done"},
         Dst(c) \in tracked' => stage \in {"relaying", "leaving"},
         Dst(c) \in open' => Dst(c) \in tracked' \/ stage = "dialed"
  PROVE  TcpInv'
<1>a. TypeOK /\ CountsOK /\ SocketsOK /\ OpenIsTracked /\ KeptOpen /\ NobodyLeft
  BY DEF TcpInv
<1>1. /\ pc'[c] = stage /\ \A d \in Conns \ {c} : pc'[d] = pc[d]
      /\ Busy' = IF stage = "done" THEN Busy \ {c} ELSE Busy \cup {c}
      /\ Relays' = IF stage \notin {"admitted", "done"} THEN Relays \cup {c} ELSE Relays \ {c}
  BY <1>a, HandlerMoves
<1>2. c \in Busy /\ (c \in Relays <=> InRelay(c))
  BY DEF Busy, Relays
<1>3. Busy \in SUBSET Conns /\ Relays \in SUBSET Conns
  BY DEF Busy, Relays
<1>4. wg' = Cardinality(Busy') + (IF acceptor' = "running" THEN 1 ELSE 0) /\ wg' \in Nat
  <2>1. CASE stage = "done"
    <3>1. Cardinality(Busy') = Cardinality(Busy) - 1 /\ Cardinality(Busy) \in Nat \ {0}
      BY <1>1, <1>2, <1>3, <2>1, OneLess
    <3>2. wg' = wg - 1 /\ acceptor' = acceptor
      BY <2>1
    <3>3. QED
      BY <1>a, <3>1, <3>2 DEF CountsOK
  <2>2. CASE stage # "done"
    <3>1. Busy' = Busy
      BY <1>1, <1>2, <2>2
    <3>2. QED
      BY <1>a, <2>2, <3>1 DEF CountsOK, TypeOK
  <2>3. QED
    BY <2>1, <2>2
<1>5. active' = Cardinality(Relays') /\ active' \in Nat
  <2>1. CASE stage = "done" /\ InRelay(c)
    BY <1>1, <1>2, <1>3, <1>a, <2>1, OneLess DEF CountsOK
  <2>2. CASE stage # "done" /\ stage # "admitted" /\ ~InRelay(c)
    BY <1>1, <1>2, <1>3, <1>a, <2>2, OneMore, ConnsFinite DEF CountsOK
  <2>3. CASE (stage = "done" /\ ~InRelay(c)) \/ (stage \notin {"done", "admitted"} /\ InRelay(c)) \/ stage = "admitted"
    <3>1. Relays' = Relays
      BY <1>1, <1>2, <2>3 DEF InRelay
    <3>2. active' = active
      BY <2>3 DEF InRelay
    <3>3. QED
      BY <1>a, <3>1, <3>2 DEF CountsOK, TypeOK
  <2>4. QED
    BY <2>1, <2>2, <2>3
<1>6. TypeOK'
  <2>1. pc' = [pc EXCEPT ![c] = stage]
    BY DEF GoTo
  <2>2. QED
    BY <1>a, <1>4, <1>5, <2>1 DEF TypeOK
<1>7. SocketsOK'
  <2>1. ASSUME NEW d \in Conns, d # c
        PROVE  /\ Src(d) \in open' => d \in Busy'
               /\ Dst(d) \in open' => pc'[d] \in {"dialed", "relaying", "leaving"}
               /\ Src(d) \in tracked' <=> InRelay(d)'
               /\ Dst(d) \in tracked' => pc'[d] \in {"relaying", "leaving"}
    BY <1>a, <1>1, <2>1 DEF SocketsOK, InRelay
  <2>2. /\ Src(c) \in open' => c \in Busy'
        /\ Dst(c) \in open' => pc'[c] \in {"dialed", "relaying", "leaving"}
        /\ Src(c) \in tracked' <=> InRelay(c)'
        /\ Dst(c) \in tracked' => pc'[c] \in {"relaying", "leaving"}
    BY <1>1, <1>2 DEF InRelay
  <2>3. QED
    BY <2>1, <2>2 DEF SocketsOK
<1>8. KeptOpen'
  <2>1. SUFFICES ASSUME stop \notin {"waiting", "stopped"}, NEW d \in Conns
                 PROVE  /\ d \in Busy' => Src(d) \in open'
                        /\ pc'[d] \in {"dialed", "relaying"} => Dst(d) \in open'
    BY DEF KeptOpen
  <2>2. /\ d \in Busy => Src(d) \in open
        /\ pc[d] \in {"dialed", "relaying"} => Dst(d) \in open
    BY <1>a, <2>1 DEF KeptOpen
  <2>3. CASE d # c
    BY <1>1, <2>2, <2>3
  <2>4. CASE d = c
    BY <1>1, <1>2, <2>2, <2>4
  <2>5. QED
    BY <2>3, <2>4
<1>9. NobodyLeft'
  BY <1>a, <1>1, <1>2 DEF NobodyLeft
<1>10. OpenIsTracked'
  <2>1. \A d \in Conns : Covered(d)
    BY <1>a, CoveredIs
  <2>2. ASSUME NEW d \in Conns PROVE Covered(d)'
    <3>1. CASE d # c
      BY <1>1, <2>1, <3>1 DEF Covered
    <3>2. CASE d = c
      BY <1>1, <3>2 DEF Covered
    <3>3. QED
      BY <3>1, <3>2
  <2>3. QED
    BY <1>6, <2>2, SocketIs DEF OpenIsTracked, Covered, TypeOK
<1>11. QED
  BY <1>4, <1>5, <1>6, <1>7, <1>8, <1>9, <1>10 DEF TcpInv, CountsOK

LEMMA HandleStep ==
  ASSUME TcpAssumption, TcpInv, NEW c \in Conns, Handle(c)
  PROVE  TcpInv'
<1> USE DEF loop, books
<1>a. TypeOK /\ CountsOK /\ SocketsOK /\ OpenIsTracked /\ KeptOpen
  BY DEF TcpInv
<1>b. /\ live \in [Clients -> Conns \cup {None}] /\ tries \in [Conns -> 0..MaxRetries]
      /\ copying \in SUBSET Sockets /\ open \in SUBSET Sockets /\ tracked \in SUBSET Sockets
  BY <1>a DEF TypeOK
<1>c. /\ Src(c) \in open => c \in Busy
      /\ Dst(c) \in open => pc[c] \in {"dialed", "relaying", "leaving"}
      /\ Src(c) \in tracked <=> InRelay(c)
      /\ Dst(c) \in tracked => pc[c] \in {"relaying", "leaving"}
      /\ Covered(c)
  BY <1>a, CoveredIs DEF SocketsOK
<1>d. ClientOf[c] \in Clients
  BY DEF TcpAssumption
<1>1. CASE Denied(c)
  <2>1. /\ GoTo(c, "done") /\ pc[c] = "accepted" /\ open' = open \ {Src(c)} /\ wg' = wg - 1 /\ ~InRelay(c)
        /\ UNCHANGED <<stop, listener, acceptor, tracked, active, live, doomed, tries, gone, copying>>
    BY <1>1 DEF Denied, InRelay
  <2>2. QED
    BY <1>b, <1>c, <2>1, SocketsDiffer, HandlerStep
<1>2. CASE Admit(c)
  <2>1. /\ GoTo(c, "admitted") /\ pc[c] = "accepted" /\ ~InRelay(c)
        /\ live' \in [Clients -> Conns \cup {None}]
        /\ UNCHANGED <<stop, listener, acceptor, wg, tracked, active, doomed, tries, open, gone, copying>>
    BY <1>2, <1>b, <1>d DEF Admit, InRelay
  <2>2. QED
    BY <1>b, <1>c, <2>1, SocketsDiffer, HandlerStep
<1>3. CASE Track(c)
  <2>1. /\ GoTo(c, "retrying") /\ pc[c] = "admitted" /\ ~InRelay(c)
        /\ tracked' = tracked \cup {Src(c)} /\ active' = active + 1
        /\ UNCHANGED <<stop, listener, acceptor, wg, live, doomed, tries, open, gone, copying>>
    BY <1>3 DEF Track, InRelay
  <2>2. tracked' \in SUBSET Sockets
    BY <1>b, <2>1, SocketsDiffer
  <2>3. QED
    BY <1>b, <1>c, <2>1, <2>2, SocketsDiffer, HandlerStep
<1>4. CASE Attempt(c)
  <2>1. PICK stage \in {"leaving", "dialing"} : GoTo(c, stage)
    BY <1>4 DEF Attempt
  <2>2. /\ pc[c] = "retrying" /\ InRelay(c)
        /\ UNCHANGED <<stop, listener, acceptor, wg, tracked, active, live, doomed, tries, open, gone, copying>>
    BY <1>4 DEF Attempt, InRelay
  <2>3. QED
    BY <1>b, <1>c, <2>1, <2>2, SocketsDiffer, HandlerStep
<1>5. CASE DialFails(c)
  <2>1. PICK stage \in {"leaving", "retrying"} : GoTo(c, stage)
    BY <1>5 DEF DialFails
  <2>2. /\ pc[c] = "dialing" /\ InRelay(c)
        /\ UNCHANGED <<stop, listener, acceptor, wg, tracked, active, live, doomed, open, gone, copying>>
    BY <1>5 DEF DialFails, InRelay
  <2>3. tries' \in [Conns -> 0..MaxRetries]
    <3>1. tries' = tries \/ (tries[c] # MaxRetries /\ tries' = [tries EXCEPT ![c] = @ + 1])
      BY <1>5 DEF DialFails
    <3>2. tries[c] # MaxRetries => tries[c] + 1 \in 0..MaxRetries
      BY <1>b DEF TcpAssumption
    <3>3. QED
      BY <1>b, <3>1, <3>2
  <2>4. QED
    BY <1>b, <1>c, <2>1, <2>2, <2>3, SocketsDiffer, HandlerStep
<1>6. CASE DialSucceeds(c)
  <2>1. /\ GoTo(c, "dialed") /\ pc[c] = "dialing" /\ InRelay(c) /\ open' = open \cup {Dst(c)}
        /\ UNCHANGED <<stop, listener, acceptor, wg, tracked, active, live, doomed, tries, gone, copying>>
    BY <1>6 DEF DialSucceeds, InRelay
  <2>2. open' \in SUBSET Sockets
    BY <1>b, <2>1, SocketsDiffer
  <2>3. QED
    BY <1>b, <1>c, <2>1, <2>2, SocketsDiffer, HandlerStep
<1>7. CASE TrackTarget(c)
  <2>1. PICK stage \in {"relaying", "leaving"} : GoTo(c, stage)
    BY <1>7 DEF TrackTarget
  <2>2. /\ pc[c] = "dialed" /\ InRelay(c) /\ tracked' = tracked \cup {Dst(c)}
        /\ UNCHANGED <<stop, listener, acceptor, wg, active, live, doomed, tries, open, gone>>
    BY <1>7 DEF TrackTarget, InRelay
  <2>3. tracked' \in SUBSET Sockets /\ copying' \in SUBSET Sockets
    BY <1>b, <1>7, <2>2, SocketsDiffer DEF TrackTarget
  <2>4. QED
    BY <1>b, <1>c, <2>1, <2>2, <2>3, SocketsDiffer, HandlerStep
<1>8. CASE RelayEnds(c)
  <2>1. /\ GoTo(c, "leaving") /\ pc[c] = "relaying" /\ InRelay(c)
        /\ UNCHANGED <<stop, listener, acceptor, wg, tracked, active, live, doomed, tries, open, gone, copying>>
    BY <1>8 DEF RelayEnds, InRelay
  <2>2. QED
    BY <1>b, <1>c, <2>1, SocketsDiffer, HandlerStep DEF Covered
<1>9. CASE Leave(c)
  <2>1. /\ GoTo(c, "done") /\ pc[c] = "leaving" /\ InRelay(c)
        /\ tracked' = tracked \ {Src(c), Dst(c)} /\ open' = open \ {Src(c), Dst(c)}
        /\ active' = active - 1 /\ wg' = wg - 1
        /\ live' \in [Clients -> Conns \cup {None}]
        /\ UNCHANGED <<stop, listener, acceptor, doomed, tries, gone, copying>>
    BY <1>9, <1>b, <1>d DEF Leave, InRelay
  <2>2. QED
    BY <1>b, <1>c, <2>1, SocketsDiffer, HandlerStep
<1>10. QED
  BY <1>1, <1>2, <1>3, <1>4, <1>5, <1>6, <1>7, <1>8, <1>9 DEF Handle

\* acceptLoop ends, a copy goroutine ends, or a peer closes.
LEMMA OtherStep ==
  ASSUME TcpAssumption, TcpInv,
         AcceptorExits \/ AcceptFails \/ \E s \in Sockets : CopyEnds(s) \/ CopyFails(s) \/ PeerCloses(s)
  PROVE  TcpInv'
<1> USE DEF loop, books
<1>a. TypeOK /\ CountsOK /\ SocketsOK /\ OpenIsTracked /\ KeptOpen /\ NobodyLeft
  BY DEF TcpInv
<1>b. UNCHANGED <<stop, pc, active, live, doomed, tries, open, tracked>>
  BY DEF AcceptorExits, AcceptFails, AcceptorEnds, CopyEnds, CopyFails, CopyStops, PeerCloses
<1>1. Busy' = Busy /\ Relays' = Relays
  BY <1>b DEF Busy, Relays, InRelay
<1>2. SocketsOK' /\ OpenIsTracked' /\ KeptOpen'
  BY <1>a, <1>b, <1>1 DEF SocketsOK, OpenIsTracked, KeptOpen, InRelay
<1>3. TypeOK' /\ CountsOK' /\ NobodyLeft'
  <2>1. CASE AcceptorEnds
    <3>1. Cardinality(Busy) \in Nat
      BY ConnsFinite DEF Busy
    <3>2. QED
      BY <1>a, <1>b, <1>1, <2>1, <3>1 DEF AcceptorEnds, TypeOK, CountsOK, NobodyLeft
  <2>2. CASE \E s \in Sockets : CopyEnds(s) \/ CopyFails(s) \/ PeerCloses(s)
    BY <1>a, <1>b, <1>1, <2>2 DEF CopyEnds, CopyFails, CopyStops, PeerCloses, TypeOK, CountsOK, NobodyLeft
  <2>3. QED
    BY <2>1, <2>2 DEF AcceptorExits, AcceptFails
<1>4. QED
  BY <1>a, <1>2, <1>3 DEF TcpInv

\* Stop; wg.Wait returns only when nobody is left to be counted.
LEMMA StopStep ==
  ASSUME TcpAssumption, TcpInv, Stop
  PROVE  TcpInv'
<1> USE DEF loop, books
<1>a. TypeOK /\ CountsOK /\ SocketsOK /\ OpenIsTracked /\ KeptOpen /\ NobodyLeft
  BY DEF TcpInv
<1>b. UNCHANGED <<acceptor, wg, pc, active, live, tries, tracked, gone, copying>>
  BY DEF Stop, StopCancels, StopCloses, StopCopies, StopCuts, StopReturns
<1>c. open' \subseteq open /\ (stop' \notin {"waiting", "stopped"} => open' = open /\ stop \notin {"waiting", "stopped"})
  BY DEF Stop, StopCancels, StopCloses, StopCopies, StopCuts, StopReturns
<1>1. CountsOK' /\ Busy' = Busy
  BY <1>a, <1>b, NobodyMoves
<1>2. TypeOK'
  BY <1>a DEF Stop, StopCancels, StopCloses, StopCopies, StopCuts, StopReturns, TypeOK
<1>3. SocketsOK' /\ OpenIsTracked' /\ KeptOpen'
  BY <1>a, <1>b, <1>c, <1>1 DEF SocketsOK, OpenIsTracked, KeptOpen, InRelay
<1>4. NobodyLeft'
  <2>1. CASE StopReturns
    <3>1. IsFiniteSet(Busy) /\ Cardinality(Busy) \in Nat
      BY ConnsFinite DEF Busy
    <3>2. Cardinality(Busy) = 0 /\ acceptor = "done"
      BY <1>a, <2>1, <3>1 DEF StopReturns, CountsOK, TypeOK
    <3>3. Busy = {}
      BY <3>1, <3>2, FS_EmptySet
    <3>4. QED
      BY <1>b, <1>1, <3>2, <3>3 DEF NobodyLeft
  <2>2. CASE StopCancels \/ StopCloses \/ StopCopies \/ StopCuts
    BY <2>2 DEF StopCancels, StopCloses, StopCopies, StopCuts, NobodyLeft
  <2>3. QED
    BY <2>1, <2>2 DEF Stop
<1>5. QED
  BY <1>1, <1>2, <1>3, <1>4 DEF TcpInv

LEMMA TcpStep ==
  ASSUME TcpAssumption
  PROVE  TcpInv /\ [Next]_vars => TcpInv'
<1>1. ASSUME TcpInv, Next PROVE TcpInv'
  BY <1>1, AcceptStep, HandleStep, OtherStep, StopStep DEF Next
<1>2. ASSUME TcpInv, UNCHANGED vars PROVE TcpInv'
  BY <1>2 DEF vars, TcpInv, TypeOK, CountsOK, SocketsOK, OpenIsTracked, KeptOpen, NobodyLeft,
     Busy, Relays, InRelay
<1>3. QED
  BY <1>1, <1>2

LEMMA TcpInvHolds ==
  ASSUME TcpAssumption
  PROVE  Spec => []TcpInv
BY TcpInit, TcpStep, PTL DEF Spec

-----------------------------------------------------------------------------
(* Theorems about the forwarder *)

LEMMA InvIsQuiet ==
  TcpInv => StoppedIsQuiet
<1> SUFFICES ASSUME TcpInv, stop = "stopped"
             PROVE  /\ \A c \in Conns : pc[c] \in {"idle", "done"}
                    /\ open = {} /\ tracked = {} /\ active = 0
  BY DEF StoppedIsQuiet
<1>1. TypeOK /\ SocketsOK /\ CountsOK /\ NobodyLeft
  BY DEF TcpInv
<1>2. \A c \in Conns : pc[c] \in {"idle", "done"}
  BY <1>1 DEF NobodyLeft, Busy
<1>3. \A c \in Conns : Src(c) \notin open \cup tracked /\ Dst(c) \notin open \cup tracked
  BY <1>1, <1>2 DEF SocketsOK, Busy, InRelay
<1>4. open = {} /\ tracked = {}
  BY <1>1, <1>3, SocketIs DEF TypeOK
<1>5. Relays = {}
  BY <1>2 DEF Relays, InRelay
<1>6. QED
  BY <1>1, <1>2, <1>4, <1>5, FS_EmptySet DEF CountsOK

LEMMA InvKeepsBoth ==
  TcpInv => HalfCloseKeepsBoth
BY DEF TcpInv, KeptOpen, Busy, HalfCloseKeepsBoth, Cancelled

\* Stop waits for everybody: once it has returned no handler is under way, no socket is open and
\* nothing is tracked or counted (Stop, handleConn's deferred calls).
THEOREM StoppedForwarderIsQuiet ==
  ASSUME TcpAssumption
  PROVE  Spec => []StoppedIsQuiet
BY InvIsQuiet, TcpInvHolds, PTL

\* The end of one direction does not cut the other: until Stop comes both sockets of a relayed
\* connection are open (pipe's half-closes).
THEOREM DirectionsEndApart ==
  ASSUME TcpAssumption
  PROVE  Spec => []HalfCloseKeepsBoth
BY InvKeepsBoth, TcpInvHolds, PTL

\* What Stop does not find in f.conns is between accept or dial and trackConn; and the panel's
\* count of connections is that of the handlers that track one.
THEOREM OpenSocketsAreTracked ==
  ASSUME TcpAssumption
  PROVE  Spec => [](TypeOK /\ OpenIsTracked /\ ActiveIsExact)
<1>1. TcpInv => TypeOK /\ OpenIsTracked /\ ActiveIsExact
  BY DEF TcpInv, CountsOK, Relays, ActiveIsExact
<1>2. QED
  BY <1>1, TcpInvHolds, PTL

-----------------------------------------------------------------------------
(* The pool of workers and the shutdown *)

\* Of the variables that the shutdown depends on.
PoolTypes ==
  /\ conn \in [PoolConns -> {"out", "held", "runs", "over"}]
  /\ loops \in [Rules -> {"waits", "submits", "ended"}]
  /\ inHand \in [Rules -> PoolConns \cup {None}]
  /\ rule \in [Rules -> {"open", "closed", "stopped"}]
  /\ step \in {"web", "rules", "gc", "cleanup", "store", "pool", "done"}

\* What is held is in the hand of its rule's loop, which submits it; and the reverse.
InHand ==
  /\ \A c \in PoolConns : conn[c] = "held" => loops[RuleOf[c]] = "submits" /\ inHand[RuleOf[c]] = c
  /\ \A r \in Rules : loops[r] = "submits" => inHand[r] \in {c \in PoolConns : RuleOf[c] = r}

\* Of a rule that is stopped nothing is left, and no loop that could take more.
RulesEnd ==
  \A r \in Rules : rule[r] = "stopped" =>
    /\ loops[r] = "ended"
    /\ \A c \in PoolConns : RuleOf[c] = r => conn[c] \notin {"held", "runs"}

\* application.Stop goes on from the rules when they are all stopped.
RulesFirst == step \notin {"web", "rules"} => \A r \in Rules : rule[r] = "stopped"

PoolInv == PoolTypes /\ InHand /\ RulesEnd /\ RulesFirst

LEMMA PoolStarts ==
  ASSUME Pool!Init
  PROVE  PoolInv
BY DEF Pool!Init, PoolInv, PoolTypes, InHand, RulesEnd, RulesFirst

\* A loop takes, submits and ends: its own rule has not been stopped before.
LEMMA LoopMoves ==
  ASSUME Pool!PoolAssumption, PoolInv, NEW r \in Rules,
         (\E c \in PoolConns : Pool!Take(r, c)) \/ Pool!Submit(r) \/ Pool!LoopEnds(r)
  PROVE  PoolInv'
<1> USE DEF PoolInv, PoolTypes, InHand, RulesEnd, RulesFirst
<1>0. \A c \in PoolConns : RuleOf[c] \in Rules
  BY DEF Pool!PoolAssumption
<1>1. ASSUME NEW c \in PoolConns, Pool!Take(r, c) PROVE PoolInv'
  <2>1. /\ rule[r] = "open" /\ loops[r] = "waits" /\ RuleOf[c] = r /\ conn[c] = "out"
        /\ loops' = [loops EXCEPT ![r] = "submits"] /\ inHand' = [inHand EXCEPT ![r] = c]
        /\ conn' = [conn EXCEPT ![c] = "held"] /\ UNCHANGED <<rule, step>>
    BY <1>1 DEF Pool!Take
  <2>2. PoolTypes' /\ RulesFirst'
    BY <2>1
  <2>3. InHand'
    BY <1>0, <2>1
  <2>4. RulesEnd'
    BY <1>0, <2>1
  <2>5. QED
    BY <2>2, <2>3, <2>4
<1>2. CASE Pool!Submit(r)
  <2>1. /\ loops[r] = "submits" /\ loops' = [loops EXCEPT ![r] = "waits"]
        /\ inHand' = [inHand EXCEPT ![r] = None]
        /\ conn' = [conn EXCEPT ![inHand[r]] = "runs"] /\ UNCHANGED <<rule, step>>
    BY <1>2 DEF Pool!Submit
  <2>2. inHand[r] \in PoolConns /\ PoolTypes' /\ RulesFirst'
    BY <2>1
  <2>3. InHand'
    BY <1>0, <2>1, <2>2
  <2>4. RulesEnd'
    BY <1>0, <2>1, <2>2
  <2>5. QED
    BY <2>2, <2>3, <2>4
<1>3. CASE Pool!LoopEnds(r)
  <2>1. /\ rule[r] # "open" /\ loops[r] = "waits" /\ loops' = [loops EXCEPT ![r] = "ended"]
        /\ UNCHANGED <<rule, step, conn, inHand>>
    BY <1>3 DEF Pool!LoopEnds
  <2>2. QED
    BY <1>0, <2>1
<1>4. QED
  BY <1>1, <1>2, <1>3

\* Whoever stops a rule waits for its loop and its handlers.
LEMMA RuleMoves ==
  ASSUME Pool!PoolAssumption, PoolInv, NEW r \in Rules,
         \/ Pool!RuleStopped(r) \/ Pool!StopNext(r)
         \/ \E by \in {"panel", "shutdown"} : Pool!StopRule(r, by)
  PROVE  PoolInv'
<1> USE DEF PoolInv, PoolTypes, InHand, RulesEnd, RulesFirst
<1>1. CASE Pool!RuleStopped(r)
  <2>1. /\ Pool!Quiet(r) /\ rule' = [rule EXCEPT ![r] = "stopped"]
        /\ UNCHANGED <<loops, inHand, conn, step>>
    BY <1>1 DEF Pool!RuleStopped
  <2>2. QED
    BY <2>1 DEF Pool!Quiet
<1>2. CASE Pool!StopNext(r) \/ \E by \in {"panel", "shutdown"} : Pool!StopRule(r, by)
  <2>1. /\ rule[r] = "open" /\ rule' = [rule EXCEPT ![r] = "closed"]
        /\ UNCHANGED <<loops, inHand, conn, step>>
    BY <1>2 DEF Pool!StopNext, Pool!StopRule
  <2>2. QED
    BY <2>1
<1>3. QED
  BY <1>1, <1>2

LEMMA PoolStep ==
  ASSUME Pool!PoolAssumption, PoolInv, Pool!Next \/ UNCHANGED poolVars
  PROVE  PoolInv'
<1>1. ASSUME NEW c \in PoolConns, Pool!Ends(c) PROVE PoolInv'
  <2>1. conn' = [conn EXCEPT ![c] = "over"] /\ UNCHANGED <<rule, step, loops, inHand>>
    BY <1>1 DEF Pool!Ends
  <2>2. QED
    BY <2>1 DEF PoolInv, PoolTypes, InHand, RulesEnd, RulesFirst, Pool!PoolAssumption
<1>2. CASE Pool!StopStep
  <2>1. /\ step # "done" /\ Pool!Over(step) /\ step' = Pool!AfterStop[step]
        /\ UNCHANGED <<rule, loops, inHand, conn>>
    BY <1>2 DEF Pool!StopStep
  <2>2. /\ step' \in {"rules", "gc", "cleanup", "store", "pool", "done"}
        /\ step = "web" => step' = "rules"
    BY <2>1 DEF Pool!AfterStop, PoolInv, PoolTypes
  <2>3. step = "rules" => \A r \in Rules : rule[r] = "stopped"
    BY <2>1 DEF Pool!Over
  <2>4. QED
    BY <2>1, <2>2, <2>3 DEF PoolInv, PoolTypes, InHand, RulesEnd, RulesFirst
<1>3. CASE \/ Pool!Tick \/ Pool!Collect \/ Pool!Collected \/ Pool!CollectorEnds \/ Pool!Signal
           \/ Pool!Exit \/ Pool!Force \/ UNCHANGED poolVars
  <2>1. UNCHANGED <<conn, loops, inHand, rule, step>>
    BY <1>3 DEF Pool!Tick, Pool!Collect, Pool!Collected, Pool!CollectorEnds, Pool!Signal,
       Pool!Exit, Pool!Force, poolVars
  <2>2. QED
    BY <2>1 DEF PoolInv, PoolTypes, InHand, RulesEnd, RulesFirst
<1>4. ASSUME NEW r \in Rules,
             (\E c \in PoolConns : Pool!Take(r, c)) \/ Pool!Submit(r) \/ Pool!LoopEnds(r)
      PROVE PoolInv'
  BY <1>4, LoopMoves
<1>5. ASSUME NEW r \in Rules,
             \/ Pool!RuleStopped(r) \/ Pool!StopNext(r)
             \/ \E by \in {"panel", "shutdown"} : Pool!StopRule(r, by)
      PROVE PoolInv'
  BY <1>5, RuleMoves
<1>6. QED
  BY <1>1, <1>2, <1>3, <1>4, <1>5 DEF Pool!Next

-----------------------------------------------------------------------------
(* Certificates *)

Ops == {"none", "upload", "apply", "renew", "prepare", "complete", "update", "delete", "handshake"}
JobRecords ==
  [at : Certs!Steps, op : Ops, cert : CertIds \cup {None}, copy : Certs!Record \cup {None},
   key : Keys \cup {None}, ok : BOOLEAN, order : Orders \cup {None}]

\* A record that renewals can go on with, where the CA has bound the key b.
Sound(r, b) == r.source # "upload" => r.key = b /\ b # None

\* What a job has read, and the key it asks with, by the step it is at.
JobOK(j, b) ==
  /\ j.at \in {"register", "order", "persist"} =>
       /\ j.key \in Keys /\ j.op \in {"apply", "renew", "prepare", "complete"}
       /\ j.op # "prepare" => j.copy \in Certs!Record
  /\ j.at \in {"save", "cache", "fill"} => j.copy \in Certs!Record
  /\ j.at \in {"save", "cache", "fill", "evict"} \/ j.op \in {"apply", "renew", "complete"} =>
       j.cert \in CertIds
  /\ j.at = "save" => Sound(j.copy, b) /\ j.op # "prepare"
  /\ j.op = "renew" => /\ j.copy \in Certs!Record /\ Sound(j.copy, b) /\ j.copy.source # "upload"
                       /\ j.at \in {"register", "order", "persist"} => j.key = b
  /\ j.op = "apply" /\ j.at = "persist" /\ j.ok => j.key = b
  /\ j.op = "complete" => j.copy \in Certs!Record /\ j.copy.key = j.key /\ j.at # "persist"
  /\ j.op = "prepare" => j.order \in Orders

JobsOK ==
  /\ jobs \in [Certs!Workers -> JobRecords]
  /\ \A w \in Certs!Workers : JobOK(jobs[w], bound) /\ jobs[w].cert \in used \cup {None}

RecordsOK == \A c \in CertIds : certs[c] # None => Sound(certs[c], bound)

\* An order is being prepared by one request, with nothing held; then held for one request
\* that takes it; and completed by that one.
Preparing(w, o) == jobs[w].op = "prepare" /\ jobs[w].at \in {"register", "order"} /\ jobs[w].order = o
Completing(w, o) == jobs[w].op = "complete" /\ jobs[w].order = o
OrdersApart ==
  \A o \in Orders, w \in Certs!Workers :
    /\ Preparing(w, o) =>
         heldOrders[o] = None /\ \A v \in Certs!Workers \ {w} : jobs[v].order # o
    /\ Completing(w, o) =>
         heldOrders[o] = None /\ \A v \in Certs!Workers \ {w} : ~Completing(v, o)

CertsInv == Certs!CertsTypeOK /\ JobsOK /\ RecordsOK /\ OrdersApart

\* The fields of a job that goes on.
LEMMA JobGoesOn ==
  ASSUME NEW j \in JobRecords, NEW at \in Certs!Steps, NEW key \in Keys \cup {None},
         NEW ok \in BOOLEAN, NEW copy \in Certs!Record \cup {None}
  PROVE  LET i == [j EXCEPT !.at = at, !.key = key, !.ok = ok, !.copy = copy]
         IN /\ i \in JobRecords /\ i.at = at /\ i.key = key /\ i.ok = ok /\ i.copy = copy
            /\ i.op = j.op /\ i.cert = j.cert /\ i.order = j.order
BY DEF JobRecords

LEMMA NothingToDo ==
  ASSUME NEW b
  PROVE  /\ Certs!NoJob \in JobRecords /\ JobOK(Certs!NoJob, b)
         /\ Certs!NoJob.order = None /\ Certs!NoJob.cert = None /\ Certs!NoJob.op = "none"
BY DEF Certs!NoJob, JobRecords, JobOK, Certs!Steps, Ops

\* A step of one job leaves the others alone.
LEMMA OneJob ==
  ASSUME JobsOK, NEW w \in Certs!Workers, NEW j \in JobRecords,
         jobs' = [jobs EXCEPT ![w] = j], JobOK(j, bound), j.cert \in used' \cup {None},
         used \subseteq used', bound' = bound
  PROVE  JobsOK'
<1>1. \A v \in Certs!Workers \ {w} : jobs'[v] = jobs[v]
  BY DEF JobsOK
<1>2. jobs'[w] = j /\ jobs' \in [Certs!Workers -> JobRecords]
  BY DEF JobsOK
<1>3. ASSUME NEW v \in Certs!Workers
      PROVE  JobOK(jobs'[v], bound') /\ jobs'[v].cert \in used' \cup {None}
  BY <1>1, <1>2 DEF JobsOK
<1>4. QED
  BY <1>2, <1>3 DEF JobsOK

\* ... and the orders, when it takes or prepares none.
LEMMA OrdersKept ==
  ASSUME Certs!CertificatesAssumption, JobsOK, OrdersApart,
         NEW w \in Certs!Workers, NEW j \in JobRecords,
         jobs' = [jobs EXCEPT ![w] = j], heldOrders' = heldOrders,
         \/ j.order = None
         \/ /\ j.order = jobs[w].order /\ j.op = jobs[w].op
            /\ j.at \in {"register", "order"} => jobs[w].at \in {"register", "order"}
  PROVE  OrdersApart'
<1>1. \A v \in Certs!Workers \ {w} : jobs'[v] = jobs[v]
  BY DEF JobsOK
<1>2. jobs'[w] = j
  BY DEF JobsOK
<1>3. \A v \in Certs!Workers, o \in Orders :
        /\ Preparing(v, o)' => Preparing(v, o)
        /\ Completing(v, o)' => Completing(v, o)
        /\ jobs'[v].order = o => jobs[v].order = o
  BY <1>1, <1>2 DEF Preparing, Completing, Certs!CertificatesAssumption
<1>4. QED
  BY <1>3 DEF OrdersApart

\* While the CA has bound no key, what is sound has none.
LEMMA BindingKeeps ==
  ASSUME Certs!CertificatesAssumption, NEW j, JobOK(j, None), NEW b \in Keys
  PROVE  JobOK(j, b)
BY DEF JobOK, Sound, Certs!CertificatesAssumption

\* The keys to go on with are keys.
LEMMA ResolvedIsKeys ==
  ASSUME Certs!CertsTypeOK
  PROVE  Certs!Resolved \subseteq Keys
<1>1. Certs!FreshKeys \subseteq Keys
  <2> DEFINE free == Keys \ ({bound, stored, memory} \cup {jobs[w].key : w \in Certs!Workers}
                       \cup {certs[c].key : c \in Certs!Kept} \cup {heldOrders[o] : o \in Orders})
  <2>1. free # {} => (CHOOSE k \in free : TRUE) \in free
    OBVIOUS
  <2>2. QED
    BY <2>1 DEF Certs!FreshKeys
<1>2. \A c \in Certs!Kept : certs[c].key \in Keys \cup {None}
  BY DEF Certs!CertsTypeOK, Certs!Kept, Certs!Record
<1>3. QED
  BY <1>1, <1>2 DEF Certs!Resolved, Certs!CertsTypeOK

LEMMA KeptIs ==
  ASSUME Certs!CertsTypeOK, RecordsOK, NEW c \in Certs!Kept
  PROVE  /\ c \in CertIds /\ c \in used /\ certs[c] \in Certs!Record
         /\ Sound(certs[c], bound)
         /\ certs[c].source # "upload" => certs[c].key = bound /\ bound # None
BY DEF Certs!CertsTypeOK, Certs!Kept, RecordsOK, Sound

\* What any step of one job must keep, when it takes or prepares no order.
LEMMA OneStep ==
  ASSUME Certs!CertificatesAssumption, CertsInv, NEW w \in Certs!Workers, NEW j \in JobRecords,
         jobs' = [jobs EXCEPT ![w] = j], JobOK(j, bound), j.cert \in used' \cup {None},
         \/ j.order = None
         \/ /\ j.order = jobs[w].order /\ j.op = jobs[w].op
            /\ j.at \in {"register", "order"} => jobs[w].at \in {"register", "order"},
         used \subseteq used', used' \subseteq CertIds,
         UNCHANGED <<heldOrders, bound, calm>>,
         certs' \in [CertIds -> Certs!Record \cup {None}],
         \A c \in CertIds : certs'[c] # None => c \in used' /\ Sound(certs'[c], bound),
         cache' \in [CertIds -> {"due", "fresh", None}], round' \subseteq CertIds,
         {stored', memory'} \subseteq Keys \cup {None}, port80' \in Certs!Workers \cup {None}
  PROVE  CertsInv'
<1>a. Certs!CertsTypeOK /\ JobsOK /\ RecordsOK /\ OrdersApart
  BY DEF CertsInv
<1>1. JobsOK'
  BY <1>a, OneJob
<1>2. OrdersApart'
  BY <1>a, OrdersKept
<1>3. RecordsOK'
  BY DEF RecordsOK
<1>4. Certs!CertsTypeOK'
  <2>1. \A v \in Certs!Workers : jobs'[v].at \in Certs!Steps
    BY <1>1 DEF JobsOK, JobRecords
  <2>2. QED
    BY <1>a, <2>1 DEF Certs!CertsTypeOK, Certs!Kept
<1>5. QED
  BY <1>1, <1>2, <1>3, <1>4 DEF CertsInv

\* ... and one that does not touch the records either.
LEMMA JobMoves ==
  ASSUME Certs!CertificatesAssumption, CertsInv, NEW w \in Certs!Workers, NEW j \in JobRecords,
         jobs' = [jobs EXCEPT ![w] = j], JobOK(j, bound), j.cert \in used' \cup {None},
         \/ j.order = None
         \/ /\ j.order = jobs[w].order /\ j.op = jobs[w].op
            /\ j.at \in {"register", "order"} => jobs[w].at \in {"register", "order"},
         used \subseteq used', used' \subseteq CertIds,
         UNCHANGED <<heldOrders, bound, calm, certs>>,
         cache' \in [CertIds -> {"due", "fresh", None}], round' \subseteq CertIds,
         {stored', memory'} \subseteq Keys \cup {None}, port80' \in Certs!Workers \cup {None}
  PROVE  CertsInv'
<1>1. /\ certs' \in [CertIds -> Certs!Record \cup {None}]
      /\ \A c \in CertIds : certs'[c] # None => c \in used' /\ Sound(certs'[c], bound)
  BY DEF CertsInv, Certs!CertsTypeOK, RecordsOK, Certs!Kept
<1>2. QED
  BY <1>1, OneStep

LEMMA PortKept ==
  ASSUME Certs!CertsTypeOK, NEW w \in Certs!Workers,
         \/ Certs!Ends(w) \/ UNCHANGED port80 \/ \E c \in CertIds : Certs!Listens(w, c)
  PROVE  port80' \in Certs!Workers \cup {None}
BY DEF Certs!Ends, Certs!Listens, Certs!CertsTypeOK

LEMMA JobAt ==
  ASSUME CertsInv, NEW w \in Certs!Workers
  PROVE  jobs[w] \in JobRecords /\ JobOK(jobs[w], bound) /\ jobs[w].cert \in used \cup {None}
BY DEF CertsInv, JobsOK

-----------------------------------------------------------------------------
(* Requests that begin *)

LEMMA RequestStep ==
  ASSUME Certs!CertificatesAssumption, CertsInv, NEW w \in Certs!Workers, NEW c \in CertIds,
         Certs!Upload(w, c) \/ Certs!ApplyACME(w, c) \/ Certs!UpdateCert(w, c) \/ Certs!Handshake(w, c)
  PROVE  CertsInv'
<1>a. Certs!CertsTypeOK /\ RecordsOK /\ used \subseteq CertIds /\ JobsOK
  BY DEF CertsInv, Certs!CertsTypeOK
<1>b. /\ cache \in [CertIds -> {"due", "fresh", None}] /\ round \subseteq CertIds
      /\ {stored, memory} \subseteq Keys \cup {None}
  BY <1>a DEF Certs!CertsTypeOK
<1>c. /\ {"upload", "apply", "update", "handshake"} \subseteq Ops
      /\ {"save", "register", "fill"} \subseteq Certs!Steps
  BY DEF Ops, Certs!Steps
<1>1. CASE Certs!Upload(w, c)
  <2>1. PICK due \in BOOLEAN :
          Certs!Goes(w, "upload", c, "save", Certs!Cert("upload", FALSE, due, None), None)
    BY <1>1 DEF Certs!Upload
  <2> DEFINE copy == Certs!Cert("upload", FALSE, due, None)
             j == Certs!Job("upload", c, "save", copy, None)
  <2>2. copy \in Certs!Record
    BY DEF Certs!Cert, Certs!Record
  <2>3. copy.source = "upload"
    BY DEF Certs!Cert
  <2> HIDE DEF copy
  <2>4. /\ j \in JobRecords /\ j.at = "save" /\ j.op = "upload" /\ j.cert = c /\ j.copy = copy
        /\ j.order = None
    BY <1>c, <2>2 DEF Certs!Job, JobRecords
  <2>5. /\ jobs' = [jobs EXCEPT ![w] = j] /\ used' = used \cup {c}
        /\ UNCHANGED <<certs, cache, heldOrders, stored, memory, bound, port80, round, calm>>
    BY <1>1, <2>1 DEF Certs!Goes, Certs!Upload, Certs!FreshCert, copy
  <2> HIDE DEF j
  <2>6. JobOK(j, bound)
    BY <2>2, <2>3, <2>4 DEF JobOK, Sound
  <2>7. QED
    BY <1>a, <1>b, <2>4, <2>5, <2>6, PortKept, JobMoves
<1>2. CASE Certs!ApplyACME(w, c)
  <2>1. PICK auto \in BOOLEAN, key \in Certs!Resolved :
          Certs!Goes(w, "apply", c, "register", Certs!Cert("acme", auto, FALSE, None), key)
    BY <1>2 DEF Certs!ApplyACME
  <2> DEFINE copy == Certs!Cert("acme", auto, FALSE, None)
             j == Certs!Job("apply", c, "register", copy, key)
  <2>2. copy \in Certs!Record /\ key \in Keys
    BY <1>a, ResolvedIsKeys DEF Certs!Cert, Certs!Record
  <2> HIDE DEF copy
  <2>4. /\ j \in JobRecords /\ j.at = "register" /\ j.op = "apply" /\ j.cert = c /\ j.copy = copy
        /\ j.key = key /\ j.order = None
    BY <1>c, <2>2 DEF Certs!Job, JobRecords
  <2>5. /\ jobs' = [jobs EXCEPT ![w] = j] /\ used' = used \cup {c} /\ Certs!Listens(w, c)
        /\ UNCHANGED <<certs, cache, heldOrders, stored, memory, bound, round, calm>>
    BY <1>2, <2>1 DEF Certs!Goes, Certs!ApplyACME, Certs!FreshCert, copy
  <2> HIDE DEF j
  <2>6. JobOK(j, bound)
    BY <2>2, <2>4 DEF JobOK
  <2>7. QED
    BY <1>a, <1>b, <2>4, <2>5, <2>6, PortKept, JobMoves
<1>3. CASE Certs!UpdateCert(w, c)
  <2>1. PICK copy \in {[certs[c] EXCEPT !.auto = ~@], [certs[c] EXCEPT !.due = FALSE]} :
          Certs!Goes(w, "update", c, "save", copy, None)
    BY <1>3 DEF Certs!UpdateCert
  <2>2. c \in Certs!Kept /\ c \in used /\ certs[c] \in Certs!Record /\ Sound(certs[c], bound)
    BY <1>3, <1>a, KeptIs DEF Certs!UpdateCert
  <2>3. copy \in Certs!Record /\ Sound(copy, bound)
    BY <2>2 DEF Certs!Record, Sound
  <2> DEFINE j == Certs!Job("update", c, "save", copy, None)
  <2>4. /\ j \in JobRecords /\ j.at = "save" /\ j.op = "update" /\ j.cert = c /\ j.copy = copy
        /\ j.order = None
    BY <1>c, <2>3 DEF Certs!Job, JobRecords
  <2>5. /\ jobs' = [jobs EXCEPT ![w] = j] /\ used' = used
        /\ UNCHANGED <<certs, cache, heldOrders, stored, memory, bound, port80, round, calm>>
    BY <1>3, <2>1 DEF Certs!Goes, Certs!UpdateCert
  <2> HIDE DEF j
  <2>6. JobOK(j, bound)
    BY <2>3, <2>4 DEF JobOK
  <2>7. QED
    BY <1>a, <1>b, <2>2, <2>4, <2>5, <2>6, PortKept, JobMoves
<1>4. CASE Certs!Handshake(w, c)
  <2>2. c \in Certs!Kept /\ c \in used /\ certs[c] \in Certs!Record
    BY <1>4, <1>a, KeptIs DEF Certs!Handshake
  <2> DEFINE j == Certs!Job("handshake", c, "fill", certs[c], None)
  <2>4. /\ j \in JobRecords /\ j.at = "fill" /\ j.op = "handshake" /\ j.cert = c
        /\ j.copy = certs[c] /\ j.order = None
    BY <1>c, <2>2 DEF Certs!Job, JobRecords
  <2>5. /\ jobs' = [jobs EXCEPT ![w] = j] /\ used' = used
        /\ UNCHANGED <<certs, cache, heldOrders, stored, memory, bound, port80, round, calm>>
    BY <1>4 DEF Certs!Goes, Certs!Handshake
  <2> HIDE DEF j
  <2>6. JobOK(j, bound)
    BY <2>2, <2>4 DEF JobOK
  <2>7. QED
    BY <1>a, <1>b, <2>2, <2>4, <2>5, <2>6, PortKept, JobMoves
<1>5. QED
  BY <1>1, <1>2, <1>3, <1>4

\* A renewal goes on with the key of its record, which is the bound one.
LEMMA RenewStep ==
  ASSUME Certs!CertificatesAssumption, CertsInv, NEW w \in Certs!Workers, NEW c \in CertIds,
         Certs!Renew(w, c), round' \subseteq CertIds,
         UNCHANGED <<certs, used, cache, heldOrders, stored, memory, bound, calm>>
  PROVE  CertsInv'
<1>a. Certs!CertsTypeOK /\ RecordsOK /\ used \subseteq CertIds /\ JobsOK
  BY DEF CertsInv, Certs!CertsTypeOK
<1>b. /\ cache \in [CertIds -> {"due", "fresh", None}]
      /\ {stored, memory, bound} \subseteq Keys \cup {None}
  BY <1>a DEF Certs!CertsTypeOK
<1>c. "renew" \in Ops /\ {"save", "register"} \subseteq Certs!Steps
  BY DEF Ops, Certs!Steps
<1>1. c \in Certs!Kept /\ c \in used /\ certs[c] \in Certs!Record /\ Sound(certs[c], bound)
  BY <1>a, KeptIs DEF Certs!Renew
<1>2. ASSUME certs[c].source = "acme", NEW key \in Certs!RenewalKeys(c),
             Certs!Goes(w, "renew", c, "register", certs[c], key), Certs!Listens(w, c)
      PROVE  CertsInv'
  <2>1. certs[c].key = bound /\ bound # None
    BY <1>1, <1>2 DEF Sound
  <2>2. key = bound /\ key \in Keys
    BY <1>b, <1>2, <2>1 DEF Certs!RenewalKeys
  <2> DEFINE j == Certs!Job("renew", c, "register", certs[c], key)
  <2>4. /\ j \in JobRecords /\ j.at = "register" /\ j.op = "renew" /\ j.cert = c
        /\ j.copy = certs[c] /\ j.key = key /\ j.order = None
    BY <1>c, <1>1, <2>2 DEF Certs!Job, JobRecords
  <2>5. jobs' = [jobs EXCEPT ![w] = j]
    BY <1>2 DEF Certs!Goes
  <2> HIDE DEF j
  <2>6. JobOK(j, bound)
    BY <1>1, <1>2, <2>2, <2>4 DEF JobOK
  <2>7. QED
    BY <1>a, <1>b, <1>1, <1>2, <2>4, <2>5, <2>6, PortKept, JobMoves
<1>3. ASSUME certs[c].source = "hand", UNCHANGED port80,
             jobs' = [jobs EXCEPT ![w] =
                        [Certs!Job("renew", c, "save", certs[c], None) EXCEPT !.ok = FALSE]]
      PROVE  CertsInv'
  <2> DEFINE j == [Certs!Job("renew", c, "save", certs[c], None) EXCEPT !.ok = FALSE]
  <2>4. /\ j \in JobRecords /\ j.at = "save" /\ j.op = "renew" /\ j.cert = c
        /\ j.copy = certs[c] /\ j.order = None
    BY <1>c, <1>1 DEF Certs!Job, JobRecords
  <2>5. jobs' = [jobs EXCEPT ![w] = j]
    BY <1>3
  <2> HIDE DEF j
  <2>6. JobOK(j, bound)
    BY <1>1, <1>3, <2>4 DEF JobOK
  <2>7. QED
    BY <1>a, <1>b, <1>1, <1>3, <2>4, <2>5, <2>6, PortKept, JobMoves
<1>4. QED
  BY <1>2, <1>3 DEF Certs!Renew

LEMMA DeleteStep ==
  ASSUME Certs!CertificatesAssumption, CertsInv, NEW w \in Certs!Workers, NEW c \in CertIds,
         Certs!DeleteCert(w, c)
  PROVE  CertsInv'
<1>a. Certs!CertsTypeOK /\ RecordsOK /\ used \subseteq CertIds /\ JobsOK
  BY DEF CertsInv, Certs!CertsTypeOK
<1>1. c \in Certs!Kept /\ c \in used
  BY <1>a, KeptIs DEF Certs!DeleteCert
<1> DEFINE j == Certs!Job("delete", c, "evict", None, None)
<1>2. /\ j \in JobRecords /\ j.at = "evict" /\ j.op = "delete" /\ j.cert = c /\ j.order = None
  BY DEF Certs!Job, JobRecords, Ops, Certs!Steps
<1>3. /\ jobs' = [jobs EXCEPT ![w] = j] /\ certs' = [certs EXCEPT ![c] = None]
      /\ UNCHANGED <<used, cache, heldOrders, stored, memory, bound, port80, round, calm>>
  BY DEF Certs!DeleteCert, Certs!Goes
<1> HIDE DEF j
<1>4. JobOK(j, bound)
  BY <1>2 DEF JobOK
<1>5. /\ certs' \in [CertIds -> Certs!Record \cup {None}]
      /\ \A d \in CertIds : certs'[d] # None => d \in used' /\ Sound(certs'[d], bound)
  BY <1>a, <1>3 DEF Certs!CertsTypeOK, RecordsOK, Certs!Kept
<1>6. /\ cache' \in [CertIds -> {"due", "fresh", None}] /\ round' \subseteq CertIds
      /\ {stored', memory'} \subseteq Keys \cup {None} /\ port80' \in Certs!Workers \cup {None}
  BY <1>a, <1>3 DEF Certs!CertsTypeOK
<1>7. QED
  BY <1>a, <1>1, <1>2, <1>3, <1>4, <1>5, <1>6, OneStep

-----------------------------------------------------------------------------
(* Jobs that go on *)

\* A job that is over, whatever it has left in the cache.
LEMMA JobEnds ==
  ASSUME Certs!CertificatesAssumption, CertsInv, NEW w \in Certs!Workers, Certs!Ends(w),
         cache' \in [CertIds -> {"due", "fresh", None}], {stored', memory'} \subseteq Keys \cup {None},
         UNCHANGED <<certs, used, heldOrders, bound, round, calm>>
  PROVE  CertsInv'
<1>a. Certs!CertsTypeOK /\ used \subseteq CertIds /\ round \subseteq CertIds
  BY DEF CertsInv, Certs!CertsTypeOK
<1>1. jobs' = [jobs EXCEPT ![w] = Certs!NoJob]
  BY DEF Certs!Ends
<1>2. QED
  BY <1>a, <1>1, NothingToDo, PortKept, JobMoves

LEMMA CacheStep ==
  ASSUME Certs!CertificatesAssumption, CertsInv, NEW w \in Certs!Workers,
         Certs!FillCache(w) \/ Certs!Evict(w)
  PROVE  CertsInv'
<1>1. jobs[w].at \in {"fill", "cache", "evict"} => jobs[w].cert \in CertIds
  BY JobAt DEF JobOK
<1>2. Certs!CertsTypeOK
  BY DEF CertsInv
<1>3. /\ Certs!Ends(w) /\ cache' \in [CertIds -> {"due", "fresh", None}]
      /\ UNCHANGED <<certs, used, heldOrders, stored, memory, bound, round, calm>>
  BY <1>1, <1>2 DEF Certs!FillCache, Certs!Evict, Certs!Validity, Certs!CertsTypeOK
<1>4. {stored', memory'} \subseteq Keys \cup {None}
  BY <1>2, <1>3 DEF Certs!CertsTypeOK
<1>5. QED
  BY <1>3, <1>4, JobEnds

\* An order whose certificate is not finished by another step of the user.
LEMMA OrderStep ==
  ASSUME Certs!CertificatesAssumption, CertsInv, NEW w \in Certs!Workers,
         Certs!ChallengesPass(w) \/ Certs!OrderFails(w)
  PROVE  CertsInv'
<1>a. /\ Certs!CertsTypeOK /\ used \subseteq CertIds /\ round \subseteq CertIds
      /\ cache \in [CertIds -> {"due", "fresh", None}]
      /\ {stored, memory} \subseteq Keys \cup {None} /\ port80 \in Certs!Workers \cup {None}
  BY DEF CertsInv, Certs!CertsTypeOK
<1>b. jobs[w] \in JobRecords /\ JobOK(jobs[w], bound) /\ jobs[w].cert \in used \cup {None}
  BY JobAt
<1>c. {"save", "persist"} \subseteq Certs!Steps
  BY DEF Certs!Steps
<1>1. CASE Certs!ChallengesPass(w)
  <2> DEFINE j == [jobs[w] EXCEPT !.at = "save"]
  <2>1. /\ j \in JobRecords /\ j.at = "save" /\ j.copy = jobs[w].copy /\ j.key = jobs[w].key
        /\ j.op = jobs[w].op /\ j.cert = jobs[w].cert /\ j.order = jobs[w].order
    BY <1>b, <1>c DEF JobRecords
  <2>2. /\ jobs[w].at = "order" /\ jobs[w].op = "complete" /\ jobs[w].key = bound
        /\ jobs' = [jobs EXCEPT ![w] = j]
        /\ UNCHANGED <<certs, used, cache, heldOrders, stored, memory, bound, port80, round, calm>>
    BY <1>1 DEF Certs!ChallengesPass
  <2> HIDE DEF j
  <2>3. JobOK(j, bound)
    BY <1>b, <2>1, <2>2 DEF JobOK, Sound, Certs!CertificatesAssumption
  <2>4. QED
    BY <1>a, <1>b, <2>1, <2>2, <2>3, JobMoves
<1>2. CASE Certs!OrderFails(w) /\ jobs[w].op = "complete"
  BY <1>a, <1>2, JobEnds DEF Certs!OrderFails
<1>3. CASE Certs!OrderFails(w) /\ jobs[w].op # "complete"
  <2> DEFINE j == [jobs[w] EXCEPT !.at = "persist", !.ok = FALSE]
  <2>1. /\ j \in JobRecords /\ j.at = "persist" /\ j.ok = FALSE /\ j.copy = jobs[w].copy
        /\ j.key = jobs[w].key /\ j.op = jobs[w].op /\ j.cert = jobs[w].cert
        /\ j.order = jobs[w].order
    BY <1>b, <1>c DEF JobRecords
  <2>2. /\ jobs[w].at = "order" /\ jobs' = [jobs EXCEPT ![w] = j]
        /\ UNCHANGED <<certs, used, cache, heldOrders, stored, memory, bound, port80, round, calm>>
    BY <1>3 DEF Certs!OrderFails
  <2> HIDE DEF j
  <2>3. JobOK(j, bound)
    BY <1>b, <1>3, <2>1, <2>2 DEF JobOK
  <2>4. QED
    BY <1>a, <1>b, <2>1, <2>2, <2>3, JobMoves
<1>4. QED
  BY <1>1, <1>2, <1>3

\* The key that is kept is that of the record, which the order was placed with.
LEMMA PersistStep ==
  ASSUME Certs!CertificatesAssumption, CertsInv, NEW w \in Certs!Workers, Certs!Persist(w)
  PROVE  CertsInv'
<1>a. /\ Certs!CertsTypeOK /\ used \subseteq CertIds /\ round \subseteq CertIds
      /\ cache \in [CertIds -> {"due", "fresh", None}]
      /\ {stored, memory} \subseteq Keys \cup {None} /\ port80 \in Certs!Workers \cup {None}
  BY DEF CertsInv, Certs!CertsTypeOK
<1>b. jobs[w] \in JobRecords /\ JobOK(jobs[w], bound) /\ jobs[w].cert \in used \cup {None}
  BY JobAt
<1>1. /\ jobs[w].at = "persist" /\ jobs[w].key \in Keys
      /\ UNCHANGED <<certs, used, cache, heldOrders, memory, bound, round, calm>>
      /\ stored' \in Keys \cup {None}
  BY <1>a, <1>b DEF Certs!Persist, JobOK
<1> DEFINE goes == jobs[w].op = "renew" \/ (jobs[w].op = "apply" /\ jobs[w].ok)
<1>2. CASE ~goes
  <2>1. Certs!Ends(w)
    BY <1>2 DEF Certs!Persist
  <2>2. QED
    BY <1>a, <1>1, <2>1, JobEnds
<1>3. CASE goes
  <2>0. jobs[w].copy \in Certs!Record /\ jobs[w].key = bound /\ jobs[w].cert \in CertIds
    BY <1>b, <1>1, <1>3 DEF JobOK
  <2> DEFINE copy == [jobs[w].copy EXCEPT !.key = jobs[w].key]
             j == [jobs[w] EXCEPT !.at = "save", !.copy = copy]
  <2>1. copy \in Certs!Record /\ copy.key = bound /\ copy.source = jobs[w].copy.source
    BY <1>1, <2>0 DEF Certs!Record
  <2>2. jobs' = [jobs EXCEPT ![w] = j] /\ UNCHANGED port80
    BY <1>3 DEF Certs!Persist
  <2> HIDE DEF copy
  <2>3. /\ j \in JobRecords /\ j.at = "save" /\ j.copy = copy /\ j.key = jobs[w].key
        /\ j.op = jobs[w].op /\ j.cert = jobs[w].cert /\ j.order = jobs[w].order
    BY <1>b, <2>1 DEF JobRecords, Certs!Steps
  <2> HIDE DEF j
  <2>4. bound # None
    BY <1>1, <2>0 DEF Certs!CertificatesAssumption
  <2>5. JobOK(j, bound)
    BY <1>b, <1>3, <2>0, <2>1, <2>3, <2>4 DEF JobOK, Sound
  <2>6. QED
    BY <1>a, <1>b, <1>1, <2>2, <2>3, <2>5, JobMoves
<1>4. QED
  BY <1>2, <1>3

\* What is saved can be renewed, also when the renewal failed.
LEMMA SaveStep ==
  ASSUME Certs!CertificatesAssumption, CertsInv, NEW w \in Certs!Workers, Certs!Save(w)
  PROVE  CertsInv'
<1>a. /\ Certs!CertsTypeOK /\ RecordsOK /\ used \subseteq CertIds /\ round \subseteq CertIds
      /\ cache \in [CertIds -> {"due", "fresh", None}] /\ certs \in [CertIds -> Certs!Record \cup {None}]
      /\ {stored, memory} \subseteq Keys \cup {None} /\ Certs!Kept \subseteq used
  BY DEF CertsInv, Certs!CertsTypeOK
<1>b. jobs[w] \in JobRecords /\ JobOK(jobs[w], bound) /\ jobs[w].cert \in used \cup {None}
  BY JobAt
<1> DEFINE copy == Certs!Renewed(jobs[w])  c == jobs[w].cert
<1>1. /\ jobs[w].at = "save" /\ certs' = [certs EXCEPT ![c] = copy]
      /\ stored' = (IF copy.key # None THEN copy.key ELSE stored)
      /\ UNCHANGED <<used, cache, heldOrders, memory, bound, round, calm>>
  BY DEF Certs!Save
<1>2. jobs[w].copy \in Certs!Record /\ Sound(jobs[w].copy, bound) /\ c \in CertIds
  BY <1>b, <1>1 DEF JobOK
<1>3. copy \in Certs!Record /\ Sound(copy, bound)
  BY <1>2 DEF Certs!Renewed, Certs!Record, Sound
<1>4. c \in used
  BY <1>b, <1>2 DEF Certs!CertificatesAssumption
<1>5. PICK j \in JobRecords :
        /\ jobs' = [jobs EXCEPT ![w] = j] /\ JobOK(j, bound) /\ j.order = None
        /\ j.cert \in {c, None} /\ port80' \in Certs!Workers \cup {None}
  <2>1. CASE jobs[w].ok
    <3> DEFINE i == Certs!Job("none", c, "cache", copy, None)
    <3>1. jobs' = [jobs EXCEPT ![w] = i] /\ UNCHANGED port80
      BY <2>1 DEF Certs!Save
    <3> HIDE DEF copy
    <3>2. i \in JobRecords /\ i.at = "cache" /\ i.op = "none" /\ i.cert = c /\ i.copy = copy
          /\ i.order = None
      BY <1>2, <1>3 DEF Certs!Job, JobRecords, Ops, Certs!Steps
    <3> HIDE DEF i
    <3>3. JobOK(i, bound)
      BY <1>2, <1>3, <3>2 DEF JobOK
    <3>4. QED
      BY <1>a, <3>1, <3>2, <3>3 DEF Certs!CertsTypeOK
  <2>2. CASE ~jobs[w].ok
    <3>1. Certs!Ends(w)
      BY <2>2 DEF Certs!Save
    <3>2. port80' \in Certs!Workers \cup {None}
      BY <1>a, <3>1, PortKept
    <3>3. QED
      BY <3>1, <3>2, NothingToDo DEF Certs!Ends
  <2>3. QED
    BY <2>1, <2>2
<1> HIDE DEF copy, c
<1>6. /\ certs' \in [CertIds -> Certs!Record \cup {None}]
      /\ \A d \in CertIds : certs'[d] # None => d \in used' /\ Sound(certs'[d], bound)
  BY <1>a, <1>1, <1>2, <1>3, <1>4 DEF RecordsOK, Certs!Kept
<1>7. stored' \in Keys \cup {None}
  BY <1>a, <1>1, <1>3 DEF Certs!Record
<1>8. QED
  BY <1>a, <1>1, <1>4, <1>5, <1>6, <1>7, OneStep

\* The CA binds one key for good; a request goes on with the key it had asked with.
LEMMA RegisterStep ==
  ASSUME Certs!CertificatesAssumption, CertsInv, NEW w \in Certs!Workers, Certs!Register(w)
  PROVE  CertsInv'
<1>a. /\ Certs!CertsTypeOK /\ JobsOK /\ RecordsOK /\ OrdersApart
      /\ used \subseteq CertIds /\ round \subseteq CertIds /\ bound \in Keys \cup {None}
      /\ cache \in [CertIds -> {"due", "fresh", None}]
      /\ {stored, memory} \subseteq Keys \cup {None} /\ port80 \in Certs!Workers \cup {None}
  BY DEF CertsInv, Certs!CertsTypeOK
<1>b. jobs[w] \in JobRecords /\ JobOK(jobs[w], bound) /\ jobs[w].cert \in used \cup {None}
  BY JobAt
<1> DEFINE key == jobs[w].key
<1>1. /\ jobs[w].at = "register" /\ key \in Keys
      /\ UNCHANGED <<certs, used, cache, heldOrders, stored, round, calm>>
  BY <1>b DEF Certs!Register, JobOK
<1>2. bound' = bound \/ (bound = None /\ bound' = key)
  BY DEF Certs!Register
\* Every job can take the new binding.
<1>3. ASSUME NEW j, JobOK(j, bound) PROVE JobOK(j, bound')
  BY <1>1, <1>2, <1>3, BindingKeeps
<1>4. RecordsOK'
  BY <1>a, <1>1, <1>2 DEF RecordsOK, Sound
<1>5. PICK j \in JobRecords :
        /\ jobs' = [jobs EXCEPT ![w] = j] /\ JobOK(j, bound') /\ j.cert \in used \cup {None}
        /\ \/ j.order = None
           \/ /\ j.order = jobs[w].order /\ j.op = jobs[w].op
              /\ j.at \in {"register", "order"} => jobs[w].at \in {"register", "order"}
        /\ port80' \in Certs!Workers \cup {None} /\ memory' \in Keys \cup {None}
  <2>1. CASE Certs!Registered(w, key)
    <3> DEFINE i == [jobs[w] EXCEPT !.at = "order", !.key = key]
    <3>1. jobs' = [jobs EXCEPT ![w] = i] /\ UNCHANGED port80 /\ memory' = key
      BY <2>1 DEF Certs!Registered
    <3>2. /\ i \in JobRecords /\ i.at = "order" /\ i.key = key /\ i.copy = jobs[w].copy
          /\ i.op = jobs[w].op /\ i.cert = jobs[w].cert /\ i.order = jobs[w].order
      BY <1>b DEF JobRecords, Certs!Steps
    <3> HIDE DEF i
    <3>3. JobOK(i, bound)
      BY <1>b, <1>1, <3>2 DEF JobOK
    <3>4. JobOK(i, bound')
      BY <1>3, <3>3
    <3>5. QED
      BY <1>a, <1>b, <1>1, <3>1, <3>2, <3>4
  <2>2. CASE Certs!Refused(w) /\ jobs[w].op = "renew"
    <3> DEFINE i == [jobs[w] EXCEPT !.at = "save", !.ok = FALSE]
    <3>1. jobs' = [jobs EXCEPT ![w] = i] /\ UNCHANGED <<port80, memory>>
      BY <2>2 DEF Certs!Refused
    <3>2. /\ i \in JobRecords /\ i.at = "save" /\ i.key = key /\ i.copy = jobs[w].copy
          /\ i.op = jobs[w].op /\ i.cert = jobs[w].cert /\ i.order = jobs[w].order
      BY <1>b DEF JobRecords, Certs!Steps
    <3> HIDE DEF i
    <3>3. JobOK(i, bound)
      BY <1>b, <2>2, <1>1, <3>2 DEF JobOK
    <3>4. JobOK(i, bound')
      BY <1>3, <3>3
    <3>5. QED
      BY <1>a, <1>b, <1>1, <3>1, <3>2, <3>4
  <2>3. CASE Certs!Refused(w) /\ jobs[w].op # "renew"
    <3>1. Certs!Ends(w) /\ UNCHANGED memory
      BY <2>3 DEF Certs!Refused
    <3>2. port80' \in Certs!Workers \cup {None}
      BY <1>a, <3>1, PortKept
    <3>3. QED
      BY <1>a, <3>1, <3>2, NothingToDo DEF Certs!Ends
  <2>4. QED
    BY <2>1, <2>2, <2>3 DEF Certs!Register
<1>6. JobsOK'
  <2>1. \A v \in Certs!Workers \ {w} : jobs'[v] = jobs[v]
    BY <1>a, <1>5 DEF JobsOK
  <2>2. jobs'[w] = j /\ jobs' \in [Certs!Workers -> JobRecords]
    BY <1>a, <1>5 DEF JobsOK
  <2>3. ASSUME NEW v \in Certs!Workers
        PROVE  JobOK(jobs'[v], bound') /\ jobs'[v].cert \in used' \cup {None}
    <3>1. CASE v = w
      BY <1>1, <1>5, <2>2, <3>1
    <3>2. CASE v # w
      BY <1>a, <1>1, <1>3, <2>1, <3>2 DEF JobsOK
    <3>3. QED
      BY <3>1, <3>2
  <2>4. QED
    BY <2>2, <2>3 DEF JobsOK
<1>7. OrdersApart'
  BY <1>a, <1>1, <1>5, OrdersKept
<1>8. Certs!CertsTypeOK'
  <2>1. \A v \in Certs!Workers : jobs'[v].at \in Certs!Steps
    BY <1>6 DEF JobsOK, JobRecords
  <2>2. bound' \in Keys \cup {None}
    BY <1>a, <1>1, <1>2
  <2>3. QED
    BY <1>a, <1>1, <1>5, <2>1, <2>2 DEF Certs!CertsTypeOK, Certs!Kept
<1>9. QED
  BY <1>4, <1>6, <1>7, <1>8 DEF CertsInv

-----------------------------------------------------------------------------
(* Orders in two steps *)

\* What a job that is begun, or goes on, for an order keeps of all but the orders.
LEMMA OrderJob ==
  ASSUME CertsInv, NEW w \in Certs!Workers, NEW j \in JobRecords,
         jobs' = [jobs EXCEPT ![w] = j], JobOK(j, bound), j.cert \in used' \cup {None},
         used \subseteq used', used' \subseteq CertIds, heldOrders' \in [Orders -> Keys \cup {None}],
         UNCHANGED <<certs, cache, stored, memory, bound, port80, round, calm>>, OrdersApart'
  PROVE  CertsInv'
<1>a. Certs!CertsTypeOK /\ JobsOK /\ RecordsOK
  BY DEF CertsInv
<1>1. JobsOK'
  BY <1>a, OneJob
<1>2. RecordsOK'
  BY <1>a DEF RecordsOK
<1>3. \A v \in Certs!Workers : jobs'[v].at \in Certs!Steps
  BY <1>1 DEF JobsOK, JobRecords
<1>4. Certs!CertsTypeOK'
  BY <1>a, <1>3 DEF Certs!CertsTypeOK, Certs!Kept
<1>5. QED
  BY <1>1, <1>2, <1>4 DEF CertsInv

LEMMA PrepareStep ==
  ASSUME Certs!CertificatesAssumption, CertsInv, NEW w \in Certs!Workers, NEW o \in Orders,
         Certs!PrepareManualDNS(w, o)
  PROVE  CertsInv'
<1>a. /\ Certs!CertsTypeOK /\ used \subseteq CertIds /\ JobsOK /\ OrdersApart
      /\ heldOrders \in [Orders -> Keys \cup {None}]
  BY DEF CertsInv, Certs!CertsTypeOK
<1>1. PICK key \in Certs!Resolved :
        jobs' = [jobs EXCEPT ![w] =
                   [Certs!Job("prepare", None, "register", None, key) EXCEPT !.order = o]]
  BY DEF Certs!PrepareManualDNS
<1>2. /\ heldOrders[o] = None /\ \A v \in Certs!Workers : jobs[v].order # o
      /\ UNCHANGED <<certs, used, cache, heldOrders, stored, memory, bound, port80, round, calm>>
  BY DEF Certs!PrepareManualDNS
<1> DEFINE j == [Certs!Job("prepare", None, "register", None, key) EXCEPT !.order = o]
<1>3. key \in Keys
  BY <1>a, ResolvedIsKeys
<1>4. /\ j \in JobRecords /\ j.at = "register" /\ j.op = "prepare" /\ j.cert = None /\ j.order = o
      /\ j.key = key
  BY <1>3 DEF Certs!Job, JobRecords, Ops, Certs!Steps
<1>5. jobs' = [jobs EXCEPT ![w] = j]
  BY <1>1
<1> HIDE DEF j
<1>6. JobOK(j, bound)
  BY <1>3, <1>4 DEF JobOK
<1>7. OrdersApart'
  <2>1. jobs'[w] = j /\ \A v \in Certs!Workers \ {w} : jobs'[v] = jobs[v]
    BY <1>a, <1>5 DEF JobsOK
  <2>2. QED
    BY <1>a, <1>2, <1>4, <2>1 DEF OrdersApart, Preparing, Completing
<1>8. QED
  BY <1>a, <1>2, <1>4, <1>5, <1>6, <1>7, OrderJob

\* manualStore.take: whoever takes an order is alone with it.
LEMMA CompleteStep ==
  ASSUME Certs!CertificatesAssumption, CertsInv, NEW w \in Certs!Workers, NEW o \in Orders,
         NEW c \in CertIds, Certs!CompleteManualDNS(w, o, c)
  PROVE  CertsInv'
<1>a. /\ Certs!CertsTypeOK /\ used \subseteq CertIds /\ JobsOK /\ OrdersApart
      /\ heldOrders \in [Orders -> Keys \cup {None}]
  BY DEF CertsInv, Certs!CertsTypeOK
<1>1. PICK auto \in BOOLEAN :
        jobs' = [jobs EXCEPT ![w] =
                   [Certs!Job("complete", c, "register", Certs!Cert("hand", auto, FALSE, heldOrders[o]),
                              heldOrders[o]) EXCEPT !.order = o]]
  BY DEF Certs!CompleteManualDNS
<1>2. /\ heldOrders[o] # None /\ heldOrders' = [heldOrders EXCEPT ![o] = None]
      /\ used' = used \cup {c}
      /\ UNCHANGED <<certs, cache, stored, memory, bound, port80, round, calm>>
  BY DEF Certs!CompleteManualDNS, Certs!Taken, Certs!FreshCert
<1> DEFINE key == heldOrders[o]
           copy == Certs!Cert("hand", auto, FALSE, key)
           j == [Certs!Job("complete", c, "register", copy, key) EXCEPT !.order = o]
<1>3. key \in Keys
  BY <1>a, <1>2
<1>4. copy \in Certs!Record /\ copy.key = key
  BY <1>3 DEF Certs!Cert, Certs!Record
<1>5. jobs' = [jobs EXCEPT ![w] = j]
  BY <1>1
<1> HIDE DEF copy
<1>6. /\ j \in JobRecords /\ j.at = "register" /\ j.op = "complete" /\ j.cert = c /\ j.order = o
      /\ j.key = key /\ j.copy = copy
  BY <1>3, <1>4 DEF Certs!Job, JobRecords, Ops, Certs!Steps
<1> HIDE DEF j
<1>7. JobOK(j, bound)
  BY <1>3, <1>4, <1>6 DEF JobOK
<1>8. OrdersApart'
  <2>1. jobs'[w] = j /\ \A v \in Certs!Workers \ {w} : jobs'[v] = jobs[v]
    BY <1>a, <1>5 DEF JobsOK
  <2>2. \A v \in Certs!Workers : ~Preparing(v, o) /\ ~Completing(v, o)
    BY <1>a, <1>2 DEF OrdersApart
  <2>3. heldOrders'[o] = None /\ \A p \in Orders \ {o} : heldOrders'[p] = heldOrders[p]
    BY <1>a, <1>2
  <2>4. \A p \in Orders, v \in Certs!Workers :
          /\ Preparing(v, p)' => v # w /\ p # o /\ Preparing(v, p)
          /\ Completing(v, p)' => (v = w /\ p = o) \/ (v # w /\ p # o /\ Completing(v, p))
    BY <1>6, <2>1, <2>2 DEF Preparing, Completing
  <2>5. \A p \in Orders \ {o}, v \in Certs!Workers : jobs'[v].order = p => jobs[v].order = p
    BY <1>6, <2>1
  <2>6. QED
    BY <1>a, <2>3, <2>4, <2>5 DEF OrdersApart
<1>9. QED
  BY <1>a, <1>2, <1>5, <1>6, <1>7, <1>8, OrderJob

LEMMA SucceedStep ==
  ASSUME Certs!CertificatesAssumption, CertsInv, NEW w \in Certs!Workers, Certs!OrderSucceeds(w)
  PROVE  CertsInv'
<1>a. /\ Certs!CertsTypeOK /\ used \subseteq CertIds /\ JobsOK /\ OrdersApart
      /\ heldOrders \in [Orders -> Keys \cup {None}]
  BY DEF CertsInv, Certs!CertsTypeOK
<1>b. jobs[w] \in JobRecords /\ JobOK(jobs[w], bound) /\ jobs[w].cert \in used \cup {None}
  BY JobAt
<1> DEFINE j == [jobs[w] EXCEPT !.at = "persist"]
<1>1. /\ j \in JobRecords /\ j.at = "persist" /\ j.copy = jobs[w].copy /\ j.key = jobs[w].key
      /\ j.op = jobs[w].op /\ j.cert = jobs[w].cert /\ j.order = jobs[w].order
  BY <1>b DEF JobRecords, Certs!Steps
<1>2. /\ jobs[w].at = "order" /\ jobs[w].op # "complete" /\ jobs[w].key = bound
      /\ jobs' = [jobs EXCEPT ![w] = j]
      /\ UNCHANGED <<certs, used, cache, stored, memory, bound, port80, round, calm>>
      /\ heldOrders' = IF jobs[w].op = "prepare"
                         THEN [heldOrders EXCEPT ![jobs[w].order] = jobs[w].key] ELSE heldOrders
  BY DEF Certs!OrderSucceeds
<1> HIDE DEF j
<1>3. JobOK(j, bound) /\ jobs[w].key \in Keys /\ (jobs[w].op = "prepare" => jobs[w].order \in Orders)
  BY <1>b, <1>1, <1>2 DEF JobOK
<1>4. jobs'[w] = j /\ \A v \in Certs!Workers \ {w} : jobs'[v] = jobs[v]
  BY <1>a, <1>2 DEF JobsOK
<1>5. \A p \in Orders, v \in Certs!Workers :
        /\ Preparing(v, p)' => v # w /\ Preparing(v, p)
        /\ Completing(v, p)' => v # w /\ Completing(v, p)
        /\ jobs'[v].order = jobs[v].order
  BY <1>1, <1>2, <1>4 DEF Preparing, Completing
<1>6. OrdersApart'
  <2>1. CASE jobs[w].op = "prepare"
    <3> DEFINE o == jobs[w].order
    <3>1. \A v \in Certs!Workers \ {w} : jobs[v].order # o
      BY <1>a, <1>2, <1>3, <2>1 DEF OrdersApart, Preparing
    <3>2. \A p \in Orders \ {o} : heldOrders'[p] = heldOrders[p]
      BY <1>a, <1>2, <2>1
    <3>3. \A v \in Certs!Workers \ {w} : ~Preparing(v, o) /\ ~Completing(v, o)
      BY <3>1 DEF Preparing, Completing
    <3>4. QED
      BY <1>a, <1>5, <3>2, <3>3 DEF OrdersApart
  <2>2. CASE jobs[w].op # "prepare"
    BY <1>a, <1>2, <1>5, <2>2 DEF OrdersApart
  <2>3. QED
    BY <2>1, <2>2
<1>7. heldOrders' \in [Orders -> Keys \cup {None}]
  BY <1>a, <1>2, <1>3
<1>8. QED
  BY <1>a, <1>b, <1>1, <1>2, <1>3, <1>6, <1>7, OrderJob

-----------------------------------------------------------------------------
(* Time, restarts, and the scheduler's rounds *)

\* Steps that touch no job but to forget it or to age what it has read.
LEMMA QuietStep ==
  ASSUME Certs!CertificatesAssumption, CertsInv,
         \/ \E o \in Orders : Certs!OrderExpires(o)
         \/ Certs!StartRound \/ Certs!Calms \/ UNCHANGED certsVars
  PROVE  CertsInv'
<1>a. /\ Certs!CertsTypeOK /\ JobsOK /\ RecordsOK /\ OrdersApart
      /\ heldOrders \in [Orders -> Keys \cup {None}] /\ certs \in [CertIds -> Certs!Record \cup {None}]
  BY DEF CertsInv, Certs!CertsTypeOK
<1>1. /\ UNCHANGED <<certs, used, cache, stored, memory, bound, port80, jobs>>
      /\ round' \subseteq CertIds /\ calm' \in BOOLEAN
      /\ heldOrders' \in [Orders -> Keys \cup {None}]
      /\ \A o \in Orders : heldOrders[o] = None => heldOrders'[o] = None
  <2>1. ASSUME NEW o \in Orders, Certs!OrderExpires(o) PROVE <1>1!:
    BY <1>a, <2>1 DEF Certs!OrderExpires, Certs!CertsTypeOK
  <2>2. CASE Certs!StartRound \/ Certs!Calms \/ UNCHANGED certsVars
    BY <1>a, <2>2 DEF Certs!StartRound, Certs!Calms, certsVars, Certs!CertsTypeOK, Certs!Kept
  <2>3. QED
    BY <2>1, <2>2
<1>2. OrdersApart'
  BY <1>a, <1>1 DEF OrdersApart, Preparing, Completing
<1>3. JobsOK' /\ RecordsOK'
  BY <1>a, <1>1 DEF JobsOK, RecordsOK
<1>4. Certs!CertsTypeOK'
  BY <1>a, <1>1 DEF Certs!CertsTypeOK, Certs!Kept
<1>5. QED
  BY <1>2, <1>3, <1>4 DEF CertsInv

LEMMA RestartStep ==
  ASSUME CertsInv, Certs!RestartCerts
  PROVE  CertsInv'
<1>a. Certs!CertsTypeOK /\ JobsOK /\ RecordsOK
  BY DEF CertsInv
<1>1. /\ jobs' = [w \in Certs!Workers |-> Certs!NoJob] /\ round' = {} /\ port80' = None
      /\ cache' = [c \in CertIds |-> None] /\ heldOrders' = [o \in Orders |-> None]
      /\ memory' = None /\ UNCHANGED <<certs, used, stored, bound, calm>>
  BY DEF Certs!RestartCerts
<1>2. JobsOK'
  BY <1>1, NothingToDo DEF JobsOK
<1>3. OrdersApart'
  BY <1>1, NothingToDo DEF OrdersApart, Preparing, Completing
<1>4. RecordsOK'
  BY <1>a, <1>1 DEF RecordsOK
<1>5. Certs!CertsTypeOK'
  <2>1. \A w \in Certs!Workers : jobs'[w].at \in Certs!Steps
    BY <1>2 DEF JobsOK, JobRecords
  <2>2. QED
    BY <1>a, <1>1, <2>1 DEF Certs!CertsTypeOK, Certs!Kept
<1>6. QED
  BY <1>2, <1>3, <1>4, <1>5 DEF CertsInv

\* An older copy has the key it had.
LEMMA AgedJob ==
  ASSUME NEW j \in JobRecords, NEW b, JobOK(j, b), j.copy \in Certs!Record
  PROVE  LET i == [j EXCEPT !.copy.due = TRUE]
         IN /\ i \in JobRecords /\ JobOK(i, b)
            /\ i.at = j.at /\ i.op = j.op /\ i.cert = j.cert /\ i.order = j.order
<1> DEFINE copy == [j.copy EXCEPT !.due = TRUE]
           i == [j EXCEPT !.copy.due = TRUE]
<1>1. copy \in Certs!Record /\ copy.source = j.copy.source /\ copy.key = j.copy.key
  BY DEF Certs!Record
<1>2. i = [j EXCEPT !.copy = copy]
  OBVIOUS
<1> HIDE DEF copy
<1>3. /\ i \in JobRecords /\ i.copy = copy /\ i.at = j.at /\ i.op = j.op /\ i.cert = j.cert
      /\ i.order = j.order /\ i.key = j.key /\ i.ok = j.ok
  BY <1>1, <1>2 DEF JobRecords
<1> HIDE DEF i
<1>4. JobOK(i, b)
  BY <1>1, <1>3 DEF JobOK, Sound
<1>5. QED
  BY <1>3, <1>4 DEF i

LEMMA AgesStep ==
  ASSUME CertsInv, NEW c \in CertIds, Certs!Ages(c)
  PROVE  CertsInv'
<1>a. /\ Certs!CertsTypeOK /\ JobsOK /\ RecordsOK /\ OrdersApart
      /\ certs \in [CertIds -> Certs!Record \cup {None}]
      /\ cache \in [CertIds -> {"due", "fresh", None}]
  BY DEF CertsInv, Certs!CertsTypeOK
<1>b. c \in Certs!Kept /\ certs[c] \in Certs!Record /\ Sound(certs[c], bound)
  BY <1>a, KeptIs DEF Certs!Ages
<1> DEFINE aged == [certs[c] EXCEPT !.due = TRUE]
<1>1. /\ certs' = [certs EXCEPT ![c] = aged]
      /\ cache' = [cache EXCEPT ![c] = IF cache[c] = None THEN None ELSE "due"]
      /\ jobs' = [w \in Certs!Workers |-> IF jobs[w].cert = c /\ jobs[w].copy # None
                                           THEN [jobs[w] EXCEPT !.copy.due = TRUE] ELSE jobs[w]]
      /\ UNCHANGED <<used, heldOrders, stored, memory, bound, port80, round, calm>>
  BY DEF Certs!Ages
<1>2. aged \in Certs!Record /\ Sound(aged, bound)
  BY <1>b DEF Certs!Record, Sound
<1> HIDE DEF aged
<1>3. ASSUME NEW w \in Certs!Workers
      PROVE  /\ jobs'[w] \in JobRecords /\ JobOK(jobs'[w], bound)
             /\ jobs'[w].at = jobs[w].at /\ jobs'[w].op = jobs[w].op
             /\ jobs'[w].cert = jobs[w].cert /\ jobs'[w].order = jobs[w].order
  <2>1. jobs[w] \in JobRecords /\ JobOK(jobs[w], bound)
    BY JobAt
  <2>2. CASE jobs[w].cert = c /\ jobs[w].copy # None
    <3>1. jobs[w].copy \in Certs!Record /\ jobs'[w] = [jobs[w] EXCEPT !.copy.due = TRUE]
      BY <1>1, <2>1, <2>2 DEF JobRecords
    <3>2. QED
      BY <2>1, <3>1, AgedJob
  <2>3. CASE ~(jobs[w].cert = c /\ jobs[w].copy # None)
    BY <1>1, <2>1, <2>3
  <2>4. QED
    BY <2>2, <2>3
<1>4. JobsOK'
  <2>1. jobs' \in [Certs!Workers -> JobRecords]
    BY <1>1, <1>3
  <2>2. \A w \in Certs!Workers : JobOK(jobs'[w], bound') /\ jobs'[w].cert \in used' \cup {None}
    BY <1>a, <1>1, <1>3 DEF JobsOK
  <2>3. QED
    BY <2>1, <2>2 DEF JobsOK
<1>5. OrdersApart'
  BY <1>a, <1>1, <1>3 DEF OrdersApart, Preparing, Completing
<1>6. RecordsOK'
  BY <1>a, <1>1, <1>2 DEF RecordsOK
<1>7. Certs!CertsTypeOK'
  <2>1. certs' \in [CertIds -> Certs!Record \cup {None}] /\ Certs!Kept' \subseteq used'
    BY <1>a, <1>b, <1>1, <1>2 DEF Certs!CertsTypeOK, Certs!Kept
  <2>2. cache' \in [CertIds -> {"due", "fresh", None}]
    BY <1>a, <1>1
  <2>3. \A w \in Certs!Workers : jobs'[w].at \in Certs!Steps
    BY <1>3 DEF JobRecords
  <2>4. QED
    BY <1>a, <1>1, <2>1, <2>2, <2>3 DEF Certs!CertsTypeOK
<1>8. QED
  BY <1>4, <1>5, <1>6, <1>7 DEF CertsInv

LEMMA NextRenewalStep ==
  ASSUME Certs!CertificatesAssumption, CertsInv, NEW c \in CertIds, Certs!NextRenewal(c)
  PROVE  CertsInv'
<1>a. /\ Certs!CertsTypeOK /\ JobsOK /\ RecordsOK /\ OrdersApart
      /\ Scheduler \in Certs!Workers /\ round \subseteq CertIds
  BY DEF CertsInv, Certs!CertsTypeOK, Certs!Workers
<1>1. /\ round' \subseteq CertIds
      /\ UNCHANGED <<certs, used, cache, heldOrders, stored, memory, bound, calm>>
      /\ Certs!Renew(Scheduler, c) \/ UNCHANGED <<jobs, port80>>
  BY <1>a DEF Certs!NextRenewal
<1>2. CASE Certs!Renew(Scheduler, c)
  BY <1>a, <1>1, <1>2, RenewStep
<1>3. CASE UNCHANGED <<jobs, port80>>
  <2>1. JobsOK' /\ RecordsOK' /\ OrdersApart'
    BY <1>a, <1>1, <1>3 DEF JobsOK, RecordsOK, OrdersApart, Preparing, Completing
  <2>2. Certs!CertsTypeOK'
    BY <1>a, <1>1, <1>3 DEF Certs!CertsTypeOK, Certs!Kept
  <2>3. QED
    BY <2>1, <2>2 DEF CertsInv
<1>4. QED
  BY <1>1, <1>2, <1>3

-----------------------------------------------------------------------------

LEMMA CertsStarts ==
  ASSUME Certs!CertsInit
  PROVE  CertsInv
<1>1. /\ certs = [c \in CertIds |-> None] /\ used = {} /\ cache = [c \in CertIds |-> None]
      /\ heldOrders = [o \in Orders |-> None] /\ stored = None /\ memory = None /\ bound = None
      /\ port80 = None /\ jobs = [w \in Certs!Workers |-> Certs!NoJob] /\ round = {} /\ calm = FALSE
  BY DEF Certs!CertsInit
<1>2. JobsOK
  BY <1>1, NothingToDo DEF JobsOK
<1>3. OrdersApart /\ RecordsOK
  BY <1>1, NothingToDo DEF OrdersApart, Preparing, Completing, RecordsOK
<1>4. Certs!CertsTypeOK
  <2>1. \A w \in Certs!Workers : jobs[w].at \in Certs!Steps
    BY <1>2 DEF JobsOK, JobRecords
  <2>2. QED
    BY <1>1, <2>1 DEF Certs!CertsTypeOK, Certs!Kept
<1>5. QED
  BY <1>2, <1>3, <1>4 DEF CertsInv

LEMMA CertsStep ==
  ASSUME Certs!CertificatesAssumption, CertsInv, Certs!CertsNext \/ UNCHANGED certsVars
  PROVE  CertsInv'
<1>1. ASSUME NEW w \in Certs!Workers, Certs!Step(w) PROVE CertsInv'
  <2>1. CASE Certs!Register(w)
    BY <2>1, RegisterStep
  <2>2. CASE Certs!OrderSucceeds(w)
    BY <2>2, SucceedStep
  <2>3. CASE Certs!ChallengesPass(w) \/ Certs!OrderFails(w)
    BY <2>3, OrderStep
  <2>4. CASE Certs!Persist(w)
    BY <2>4, PersistStep
  <2>5. CASE Certs!Save(w)
    BY <2>5, SaveStep
  <2>6. CASE Certs!FillCache(w) \/ Certs!Evict(w)
    BY <2>6, CacheStep
  <2>7. QED
    BY <1>1, <2>1, <2>2, <2>3, <2>4, <2>5, <2>6 DEF Certs!Step
<1>2. ASSUME NEW w \in Requests, NEW c \in CertIds,
             \/ Certs!Upload(w, c) \/ Certs!ApplyACME(w, c) \/ Certs!RenewByRequest(w, c)
             \/ Certs!UpdateCert(w, c) \/ Certs!DeleteCert(w, c) \/ Certs!Handshake(w, c)
             \/ \E o \in Orders : Certs!CompleteManualDNS(w, o, c)
      PROVE CertsInv'
  <2>0. w \in Certs!Workers
    BY DEF Certs!Workers
  <2>1. CASE Certs!Upload(w, c) \/ Certs!ApplyACME(w, c) \/ Certs!UpdateCert(w, c)
             \/ Certs!Handshake(w, c)
    BY <2>0, <2>1, RequestStep
  <2>2. CASE Certs!RenewByRequest(w, c)
    <3>1. round' \subseteq CertIds
      BY <2>2 DEF Certs!RenewByRequest, CertsInv, Certs!CertsTypeOK
    <3>2. QED
      BY <2>0, <2>2, <3>1, RenewStep DEF Certs!RenewByRequest
  <2>3. CASE Certs!DeleteCert(w, c)
    BY <2>0, <2>3, DeleteStep
  <2>4. CASE \E o \in Orders : Certs!CompleteManualDNS(w, o, c)
    BY <2>0, <2>4, CompleteStep
  <2>5. QED
    BY <1>2, <2>1, <2>2, <2>3, <2>4
<1>3. ASSUME NEW w \in Requests, NEW o \in Orders, Certs!PrepareManualDNS(w, o) PROVE CertsInv'
  BY <1>3, PrepareStep DEF Certs!Workers
<1>4. ASSUME NEW c \in CertIds, Certs!NextRenewal(c) PROVE CertsInv'
  BY <1>4, NextRenewalStep
<1>5. ASSUME NEW c \in CertIds, Certs!Ages(c) PROVE CertsInv'
  BY <1>5, AgesStep
<1>6. CASE \/ \E o \in Orders : Certs!OrderExpires(o)
           \/ Certs!StartRound \/ Certs!Calms \/ UNCHANGED certsVars
  BY <1>6, QuietStep
<1>7. CASE Certs!RestartCerts
  BY <1>7, RestartStep
<1>8. QED
  BY <1>1, <1>2, <1>3, <1>4, <1>5, <1>6, <1>7 DEF Certs!CertsNext

-----------------------------------------------------------------------------
(* The kernel's rules: chains                                              *)

ChainRules == {"est", "drop", "hairpin", "in", "out", "foreign", "late"}

\* Every a of a chain comes before every b; there is one a at most; and there is none.
Sorted(chain, a, b) == \A i, j \in DOMAIN chain : chain[i] = a /\ chain[j] = b => i < j
Once(chain, a) == \A i, j \in DOMAIN chain : chain[i] = a /\ chain[j] = a => i = j
Lacks(chain, a) == \A i \in DOMAIN chain : chain[i] # a

LEMMA LacksIs ==
  ASSUME NEW c \in Seq(ChainRules), NEW a
  PROVE  Kernel!Contains(c, a) <=> ~Lacks(c, a)
BY DEF Kernel!Contains, Lacks

LEMMA LackingIsSorted ==
  ASSUME NEW c, NEW a, NEW b, Lacks(c, a) \/ Lacks(c, b)
  PROVE  Sorted(c, a, b) /\ (Lacks(c, a) => Once(c, a))
BY DEF Lacks, Sorted, Once

LEMMA SortedPrecedes ==
  ASSUME NEW c \in Seq(ChainRules), NEW a, NEW b, Sorted(c, a, b)
  PROVE  Kernel!Precedes(c, a, b)
BY DEF Sorted, Kernel!Precedes, Kernel!Contains

\* The rule r is put first.
LEMMA ChainPushed ==
  ASSUME NEW c \in Seq(ChainRules), NEW r \in ChainRules, NEW d, d = <<r>> \o c
  PROVE  /\ d \in Seq(ChainRules) /\ ~Lacks(d, r)
         /\ Lacks(c, r) => Once(d, r)
         /\ \A a : a # r => (Once(c, a) => Once(d, a)) /\ (Lacks(c, a) => Lacks(d, a))
                            /\ (Lacks(d, a) => Lacks(c, a))
         /\ \A b : b # r => (Sorted(c, r, b) => Sorted(d, r, b))
         /\ \A a, b : a # r /\ b # r => (Sorted(c, a, b) => Sorted(d, a, b))
<1>1. d \in Seq(ChainRules) /\ Len(d) = Len(c) + 1 /\ d[1] = r /\ \A i \in 1..Len(c) : d[i + 1] = c[i]
  OBVIOUS
<1>3. DOMAIN c = 1..Len(c) /\ DOMAIN d = 1..(Len(c) + 1) /\ Len(c) \in Nat
  BY <1>1
<1>2. \A i \in DOMAIN d : i \in Nat /\ (i = 1 \/ (i - 1 \in DOMAIN c /\ d[i] = c[i - 1]))
  BY <1>1, <1>3
<1>4. \A i \in DOMAIN c : i + 1 \in DOMAIN d /\ d[i + 1] = c[i]
  BY <1>1, <1>3
<1>5. 1 \in DOMAIN d
  BY <1>3
<1>6. ~Lacks(d, r)
  BY <1>1, <1>5 DEF Lacks
<1>7. ASSUME Lacks(c, r) PROVE Once(d, r)
  BY <1>1, <1>2, <1>7 DEF Lacks, Once
<1>8. ASSUME NEW a, a # r
      PROVE (Once(c, a) => Once(d, a)) /\ (Lacks(c, a) => Lacks(d, a)) /\ (Lacks(d, a) => Lacks(c, a))
  <2>1. Lacks(c, a) => Lacks(d, a)
    BY <1>1, <1>2, <1>8 DEF Lacks
  <2>2. Lacks(d, a) => Lacks(c, a)
    BY <1>4 DEF Lacks
  <2>3. Once(c, a) => Once(d, a)
    BY <1>1, <1>2, <1>8 DEF Once
  <2> QED
    BY <2>1, <2>2, <2>3
<1>9. ASSUME NEW b, b # r, Sorted(c, r, b) PROVE Sorted(d, r, b)
  BY <1>1, <1>2, <1>9 DEF Sorted
<1>10. ASSUME NEW a, NEW b, a # r, b # r, Sorted(c, a, b) PROVE Sorted(d, a, b)
  BY <1>1, <1>2, <1>10 DEF Sorted
<1> QED
  BY <1>1, <1>6, <1>7, <1>8, <1>9, <1>10

\* The rule r is put last.
LEMMA ChainAppended ==
  ASSUME NEW c \in Seq(ChainRules), NEW r \in ChainRules, NEW d, d = Append(c, r)
  PROVE  /\ d \in Seq(ChainRules) /\ ~Lacks(d, r)
         /\ Lacks(c, r) => Once(d, r)
         /\ \A a : a # r => (Once(c, a) => Once(d, a)) /\ (Lacks(c, a) => Lacks(d, a))
                            /\ (Lacks(d, a) => Lacks(c, a))
         /\ \A a : a # r => (Sorted(c, a, r) => Sorted(d, a, r))
         /\ \A a, b : a # r /\ b # r => (Sorted(c, a, b) => Sorted(d, a, b))
<1>1. d \in Seq(ChainRules) /\ Len(d) = Len(c) + 1 /\ d[Len(c) + 1] = r /\ \A i \in 1..Len(c) : d[i] = c[i]
  OBVIOUS
<1>3. DOMAIN c = 1..Len(c) /\ DOMAIN d = 1..(Len(c) + 1) /\ Len(c) \in Nat
  BY <1>1
<1>2. \A i \in DOMAIN d : i \in Nat /\ (i = Len(c) + 1 \/ (i \in DOMAIN c /\ d[i] = c[i]))
  BY <1>1, <1>3
<1>4. \A i \in DOMAIN c : i \in DOMAIN d /\ d[i] = c[i]
  BY <1>1, <1>3
<1>5. Len(c) + 1 \in DOMAIN d
  BY <1>3
<1>6. ~Lacks(d, r)
  BY <1>1, <1>5 DEF Lacks
<1>7. ASSUME Lacks(c, r) PROVE Once(d, r)
  BY <1>1, <1>2, <1>7 DEF Lacks, Once
<1>8. ASSUME NEW a, a # r
      PROVE (Once(c, a) => Once(d, a)) /\ (Lacks(c, a) => Lacks(d, a)) /\ (Lacks(d, a) => Lacks(c, a))
  <2>1. Lacks(c, a) => Lacks(d, a)
    BY <1>1, <1>2, <1>8 DEF Lacks
  <2>2. Lacks(d, a) => Lacks(c, a)
    BY <1>4 DEF Lacks
  <2>3. Once(c, a) => Once(d, a)
    BY <1>1, <1>2, <1>8 DEF Once
  <2> QED
    BY <2>1, <2>2, <2>3
<1>9. ASSUME NEW a, a # r, Sorted(c, a, r) PROVE Sorted(d, a, r)
  BY <1>1, <1>2, <1>3, <1>9 DEF Sorted
<1>10. ASSUME NEW a, NEW b, a # r, b # r, Sorted(c, a, b) PROVE Sorted(d, a, b)
  BY <1>1, <1>2, <1>10 DEF Sorted
<1> QED
  BY <1>1, <1>6, <1>7, <1>8, <1>9, <1>10

\* The first r is taken out.
LEMMA FirstIs ==
  ASSUME NEW c \in Seq(ChainRules), NEW r, ~Lacks(c, r)
  PROVE  \E p \in 1..Len(c) : c[p] = r /\ Kernel!RemoveFirst(c, r) = Kernel!RemoveAt(c, p)
<1> DEFINE I == {i \in 1..Len(c) : c[i] = r}
<1> DEFINE p == Kernel!Min(I)
<1>1. I # {} /\ \A i \in I : i \in Int /\ i >= 1
  BY DEF Lacks
<1>2. I \subseteq Nat
  BY <1>1
<1>3. \E q \in I : \A i \in I : q <= i
  <2> HIDE DEF I
  <2>1. PICK q \in I : \A i \in I : ~(<<i, q>> \in OpToRel(<, Nat))
    BY <1>1, <1>2, NatLessThanWellFounded, WFMin, Zenon
  <2>2. \A i \in I : q <= i
    <3> SUFFICES ASSUME NEW i \in I
                 PROVE  q <= i
      OBVIOUS
    <3>1. i \in Nat /\ q \in Nat
      BY <1>2
    <3>2. ~(i < q)
      BY <2>1, <3>1, Zenon DEF OpToRel
    <3> QED
      BY <3>1, <3>2
  <2> QED
    BY <2>2
<1>4. p \in I
  BY <1>3 DEF Kernel!Min
<1>5. Kernel!RemoveFirst(c, r) = Kernel!RemoveAt(c, p)
  BY <1>1 DEF Kernel!RemoveFirst, Kernel!SelectInSeq
<1> QED
  BY <1>4, <1>5

LEMMA RemovedAt ==
  ASSUME NEW c \in Seq(ChainRules), NEW p \in 1..Len(c), NEW d, d = Kernel!RemoveAt(c, p)
  PROVE  d \in Seq(ChainRules) /\ Len(d) = Len(c) - 1
         /\ \A i \in 1..Len(c) - 1 : d[i] = IF i < p THEN c[i] ELSE c[i + 1]
<1> DEFINE u == SubSeq(c, 1, p - 1)
<1> DEFINE v == SubSeq(c, p + 1, Len(c))
<1>1. u \in Seq(ChainRules) /\ Len(u) = p - 1 /\ \A i \in 1..p - 1 : u[i] = c[i]
  OBVIOUS
<1>2. v \in Seq(ChainRules) /\ Len(v) = Len(c) - p /\ \A i \in 1..Len(c) - p : v[i] = c[p + i]
  OBVIOUS
<1>3. d = u \o v
  BY DEF Kernel!RemoveAt
<1>4. Len(c) \in Nat /\ p \in Nat
  OBVIOUS
<1> HIDE DEF u, v
<1>5. d \in Seq(ChainRules) /\ Len(d) = Len(c) - 1
  <2>1. u \in Seq(ChainRules) /\ v \in Seq(ChainRules) /\ Len(u) \in Nat /\ Len(v) \in Nat
    BY <1>1, <1>2
  <2>2. Len(d) = Len(u) + Len(v) /\ d \in Seq(ChainRules)
    BY <2>1, <1>3
  <2> QED
    BY <2>2, <1>1, <1>2, <1>4
<1>6. ASSUME NEW i \in 1..Len(c) - 1, i < p PROVE d[i] = c[i]
  BY <1>1, <1>2, <1>3, <1>4, <1>6
<1>7. ASSUME NEW i \in 1..Len(c) - 1, ~(i < p) PROVE d[i] = c[i + 1]
  <2>1. d[i] = v[i - (p - 1)]
    BY <1>1, <1>2, <1>3, <1>4, <1>7
  <2>2. i - (p - 1) \in 1..Len(c) - p /\ p + (i - (p - 1)) = i + 1
    BY <1>4, <1>7
  <2> QED
    BY <1>2, <2>1, <2>2
<1> QED
  BY <1>5, <1>6, <1>7

LEMMA ChainRemoved ==
  ASSUME NEW c \in Seq(ChainRules), NEW r, NEW d, ~Lacks(c, r), d = Kernel!RemoveFirst(c, r)
  PROVE  /\ d \in Seq(ChainRules)
         /\ Once(c, r) => Lacks(d, r)
         /\ \A a : (Once(c, a) => Once(d, a)) /\ (Lacks(c, a) => Lacks(d, a))
         /\ \A a, b : Sorted(c, a, b) => Sorted(d, a, b)
<1>1. PICK p \in 1..Len(c) : c[p] = r /\ d = Kernel!RemoveAt(c, p)
  BY FirstIs
<1> DEFINE old(i) == IF i < p THEN i ELSE i + 1
<1>2. d \in Seq(ChainRules) /\ Len(d) = Len(c) - 1 /\ \A i \in 1..Len(c) - 1 : d[i] = c[old(i)]
  BY <1>1, RemovedAt
<1>3. DOMAIN c = 1..Len(c) /\ DOMAIN d = 1..(Len(c) - 1) /\ Len(c) \in Nat
  BY <1>2
<1>4. \A i \in DOMAIN d : i \in Nat /\ old(i) \in DOMAIN c /\ old(i) # p /\ d[i] = c[old(i)]
  BY <1>2, <1>3
<1>5. \A i, j \in DOMAIN d : (old(i) < old(j) => i < j) /\ (old(i) = old(j) => i = j)
  BY <1>3
<1> HIDE DEF old
<1>6. ASSUME Once(c, r) PROVE Lacks(d, r)
  BY <1>1, <1>3, <1>4, <1>6 DEF Once, Lacks
<1>7. ASSUME NEW a PROVE (Once(c, a) => Once(d, a)) /\ (Lacks(c, a) => Lacks(d, a))
  BY <1>4, <1>5 DEF Once, Lacks
<1>8. ASSUME NEW a, NEW b, Sorted(c, a, b) PROVE Sorted(d, a, b)
  BY <1>4, <1>5, <1>8 DEF Sorted
<1> QED
  BY <1>2, <1>6, <1>7, <1>8

-----------------------------------------------------------------------------
(* The kernel's rules: commands                                            *)

ItemsSet == {"sysctls", "local", "mark", "lookup", "est", "drop", "hairpin", "in", "out"}
Kernels == [flags : SUBSET {"sysctls", "local"}, copies : [{"mark", "lookup"} -> Nat],
            chains : [{"INPUT", "FORWARD"} -> Seq(ChainRules)]]

\* There is one copy of x at most.
Single(k, x) ==
  IF x \in {"sysctls", "local"} THEN TRUE
  ELSE IF x \in {"mark", "lookup"} THEN k.copies[x] <= 1
  ELSE Once(k.chains[Kernel!Chain(x)], x)

DropsAreSeen(k) ==
  /\ Sorted(k.chains["INPUT"], "drop", "foreign")
  /\ Sorted(k.chains["FORWARD"], "hairpin", "in")
  /\ Sorted(k.chains["FORWARD"], "hairpin", "out")
AnswersFirst(k) == Sorted(k.chains["INPUT"], "est", "drop")

\* Nothing has come to k, and what is left of it is in its order.
Fewer(new, k) ==
  /\ new \in Kernels
  /\ \A x \in ItemsSet : (Kernel!Set(new, x) => Kernel!Set(k, x)) /\ (Single(k, x) => Single(new, x))
  /\ DropsAreSeen(k) => DropsAreSeen(new)
  /\ AnswersFirst(k) => AnswersFirst(new)

LEMMA SetIs ==
  ASSUME NEW k \in Kernels, NEW x \in {"est", "drop", "hairpin", "in", "out"}
  PROVE  /\ Kernel!Set(k, x) <=> ~Lacks(k.chains[Kernel!Chain(x)], x)
         /\ Single(k, x) <=> Once(k.chains[Kernel!Chain(x)], x)
         /\ Kernel!Chain(x) = IF x \in {"est", "drop"} THEN "INPUT" ELSE "FORWARD"
         /\ k.chains[Kernel!Chain(x)] \in Seq(ChainRules)
<1>1. Kernel!Chain(x) = IF x \in {"est", "drop"} THEN "INPUT" ELSE "FORWARD"
  BY DEF Kernel!Chain
<1>2. k.chains[Kernel!Chain(x)] \in Seq(ChainRules)
  BY <1>1 DEF Kernels
<1>3. Kernel!Set(k, x) <=> Kernel!Contains(k.chains[Kernel!Chain(x)], x)
  BY DEF Kernel!Set, Kernel!Flags
<1>4. Single(k, x) <=> Once(k.chains[Kernel!Chain(x)], x)
  BY DEF Single
<1> QED
  BY <1>1, <1>2, <1>3, <1>4, LacksIs

LEMMA SmallSet ==
  ASSUME NEW k \in Kernels
  PROVE  /\ \A x \in {"sysctls", "local"} : (Kernel!Set(k, x) <=> x \in k.flags) /\ Single(k, x)
         /\ \A x \in {"mark", "lookup"} : /\ Kernel!Set(k, x) <=> k.copies[x] > 0
                                          /\ Single(k, x) <=> k.copies[x] <= 1
BY DEF Kernel!Set, Kernel!Flags, Single

WithChain(k, ch, d) == [k EXCEPT !.chains[ch] = d]

\* What a change of one chain leaves as it was.
LEMMA OtherChain ==
  ASSUME NEW old \in Kernels, NEW name \in {"INPUT", "FORWARD"}, NEW rules \in Seq(ChainRules),
         NEW result, result = WithChain(old, name, rules)
  PROVE  /\ result \in Kernels /\ result.chains[name] = rules
         /\ \A other \in {"INPUT", "FORWARD"} : other # name => result.chains[other] = old.chains[other]
         /\ \A x \in {"sysctls", "local", "mark", "lookup"} :
              (Kernel!Set(result, x) <=> Kernel!Set(old, x)) /\ (Single(result, x) <=> Single(old, x))
<1>1. /\ result \in Kernels /\ result.chains[name] = rules
      /\ \A other \in {"INPUT", "FORWARD"} : other # name => result.chains[other] = old.chains[other]
      /\ result.flags = old.flags /\ result.copies = old.copies
  BY DEF Kernels, WithChain
<1> QED
  BY <1>1, SmallSet

\* The chain c with the rule x.
Placed(c, x) == IF x \in {"est", "drop", "hairpin"} THEN <<x>> \o c ELSE Append(c, x)

\* A rule is put into its chain.
LEMMA ChainAdded ==
  ASSUME NEW k \in Kernels, NEW x \in {"est", "drop", "hairpin", "in", "out"},
         NEW ch, NEW c, NEW d, NEW new,
         ch = Kernel!Chain(x), c = k.chains[ch],
         d = Placed(c, x),
         new = WithChain(k, ch, d)
  PROVE  /\ new \in Kernels
         /\ ~Kernel!Set(k, x) => Single(new, x)
         /\ \A y \in ItemsSet \ {x} : /\ Kernel!Set(new, y) <=> Kernel!Set(k, y)
                                      /\ Single(k, y) => Single(new, y)
         /\ DropsAreSeen(k) => DropsAreSeen(new)
         /\ x # "drop" /\ AnswersFirst(k) => AnswersFirst(new)
         /\ x \in {"est", "drop"} /\ ~Kernel!Set(k, "est") => AnswersFirst(new)
<1>1. ch \in {"INPUT", "FORWARD"} /\ c \in Seq(ChainRules) /\ x \in ChainRules
      /\ ch = IF x \in {"est", "drop"} THEN "INPUT" ELSE "FORWARD"
  BY SetIs DEF ChainRules
<1>2. d \in Seq(ChainRules)
  BY <1>1 DEF Placed
<1>3. /\ new \in Kernels /\ new.chains[ch] = d
      /\ \A b \in {"INPUT", "FORWARD"} : b # ch => new.chains[b] = k.chains[b]
      /\ \A y \in {"sysctls", "local", "mark", "lookup"} :
           (Kernel!Set(new, y) <=> Kernel!Set(k, y)) /\ (Single(new, y) <=> Single(k, y))
  <2>1. ch \in {"INPUT", "FORWARD"} /\ new = WithChain(k, ch, d)
    BY <1>1
  <2>2. new \in Kernels /\ new.chains[ch] = d
    BY <1>2, <2>1, OtherChain
  <2>3. \A b \in {"INPUT", "FORWARD"} : b # ch => new.chains[b] = k.chains[b]
    BY <1>2, <2>1, OtherChain
  <2>4. \A y \in {"sysctls", "local", "mark", "lookup"} :
          (Kernel!Set(new, y) <=> Kernel!Set(k, y)) /\ (Single(new, y) <=> Single(k, y))
    BY <1>2, <2>1, OtherChain
  <2> QED
    BY <2>2, <2>3, <2>4
<1>4. /\ Lacks(c, x) => Once(d, x)
      /\ \A a : a # x => (Once(c, a) => Once(d, a)) /\ (Lacks(c, a) <=> Lacks(d, a))
      /\ \A a, b : a # x /\ b # x => (Sorted(c, a, b) => Sorted(d, a, b))
      /\ \A b : x \in {"est", "drop", "hairpin"} /\ b # x => (Sorted(c, x, b) => Sorted(d, x, b))
      /\ \A a : x \in {"in", "out"} /\ a # x => (Sorted(c, a, x) => Sorted(d, a, x))
  <2>1. CASE x \in {"est", "drop", "hairpin"}
    <3>1. d = <<x>> \o c
      BY <2>1 DEF Placed
    <3> QED
      BY <1>1, <2>1, <3>1, ChainPushed, Zenon
  <2>2. CASE x \in {"in", "out"}
    <3>1. d = Append(c, x) /\ x \notin {"est", "drop", "hairpin"}
      BY <2>2 DEF Placed
    <3> QED
      BY <1>1, <3>1, ChainAppended, Zenon
  <2> QED
    BY <2>1, <2>2
<1>5. \A y \in {"est", "drop", "hairpin", "in", "out"} \ {x} :
        (Kernel!Set(new, y) <=> Kernel!Set(k, y)) /\ (Single(k, y) => Single(new, y))
  <2> SUFFICES ASSUME NEW y \in {"est", "drop", "hairpin", "in", "out"}, y # x
               PROVE  (Kernel!Set(new, y) <=> Kernel!Set(k, y)) /\ (Single(k, y) => Single(new, y))
    OBVIOUS
  <2>1. CASE Kernel!Chain(y) = ch
    BY <1>3, <1>4, <2>1, SetIs
  <2>2. CASE Kernel!Chain(y) # ch
    <3>1. new.chains[Kernel!Chain(y)] = k.chains[Kernel!Chain(y)]
      BY <1>3, <2>2, SetIs
    <3> QED
      BY <1>3, <3>1, SetIs
  <2> QED
    BY <2>1, <2>2
<1>6. ~Kernel!Set(k, x) => Single(new, x)
  BY <1>3, <1>4, SetIs
<1>7. DropsAreSeen(k) => DropsAreSeen(new)
  <2>1. CASE ch = "INPUT"
    BY <1>1, <1>3, <1>4, <2>1 DEF DropsAreSeen
  <2>2. CASE ch = "FORWARD"
    BY <1>1, <1>3, <1>4, <2>2 DEF DropsAreSeen
  <2> QED
    BY <1>1, <2>1, <2>2
<1>8. x # "drop" /\ AnswersFirst(k) => AnswersFirst(new)
  <2>1. CASE ch = "INPUT"
    BY <1>1, <1>3, <1>4, <2>1 DEF AnswersFirst
  <2>2. CASE ch = "FORWARD"
    BY <1>3, <2>2 DEF AnswersFirst
  <2> QED
    BY <1>1, <2>1, <2>2
<1>9. ASSUME x \in {"est", "drop"}, ~Kernel!Set(k, "est") PROVE AnswersFirst(new)
  <2>1. ch = "INPUT" /\ Lacks(c, "est")
    BY <1>1, <1>9, SetIs
  <2>2. CASE x = "est"
    BY <1>3, <1>4, <2>1, <2>2, LackingIsSorted DEF AnswersFirst
  <2>3. CASE x = "drop"
    BY <1>3, <1>4, <2>1, <2>3, LackingIsSorted DEF AnswersFirst
  <2> QED
    BY <1>9, <2>2, <2>3
<1> QED
  BY <1>3, <1>5, <1>6, <1>7, <1>8, <1>9 DEF ItemsSet

\* ensureRule, ensureRuleFirst and the other commands that put something in place.
LEMMA Added ==
  ASSUME NEW k \in Kernels, NEW x \in ItemsSet, NEW new, new = Kernel!Add(k, x)
  PROVE  /\ new \in Kernels
         /\ ~Kernel!Set(k, x) => Single(new, x)
         /\ \A y \in ItemsSet \ {x} : /\ Kernel!Set(new, y) <=> Kernel!Set(k, y)
                                      /\ Single(k, y) => Single(new, y)
         /\ DropsAreSeen(k) => DropsAreSeen(new)
         /\ x # "drop" /\ AnswersFirst(k) => AnswersFirst(new)
         /\ x \in {"est", "drop"} /\ ~Kernel!Set(k, "est") => AnswersFirst(new)
<1>1. CASE x \in {"sysctls", "local"}
  <2>1. new = [k EXCEPT !.flags = @ \cup {x}]
    BY <1>1 DEF Kernel!Add, Kernel!Flags
  <2>2. new \in Kernels /\ new.flags = k.flags \cup {x} /\ new.copies = k.copies /\ new.chains = k.chains
    BY <1>1, <2>1 DEF Kernels
  <2>3. \A y \in ItemsSet : Single(k, y) => Single(new, y)
    BY <2>2 DEF Single
  <2>4. \A y \in ItemsSet \ {x} : Kernel!Set(new, y) <=> Kernel!Set(k, y)
    BY <2>2 DEF Kernel!Set, Kernel!Flags
  <2>5. Single(new, x)
    BY <1>1, <2>2, SmallSet
  <2> QED
    BY <1>1, <2>2, <2>3, <2>4, <2>5 DEF DropsAreSeen, AnswersFirst
<1>2. CASE x \in {"mark", "lookup"}
  <2>1. new = [k EXCEPT !.copies[x] = @ + 1]
    BY <1>2 DEF Kernel!Add, Kernel!Flags
  <2>2. /\ new \in Kernels /\ new.flags = k.flags /\ new.chains = k.chains
        /\ new.copies = [k.copies EXCEPT ![x] = @ + 1]
    BY <1>2, <2>1 DEF Kernels
  <2>3. \A y \in ItemsSet \ {x} : Single(k, y) => Single(new, y)
    BY <1>2, <2>2 DEF Single, Kernels
  <2>4. \A y \in ItemsSet \ {x} : Kernel!Set(new, y) <=> Kernel!Set(k, y)
    BY <1>2, <2>2 DEF Kernel!Set, Kernel!Flags, Kernels
  <2>5. ~Kernel!Set(k, x) => Single(new, x)
    <3>1. k.copies[x] \in Nat /\ new.copies[x] = k.copies[x] + 1
      BY <1>2, <2>2 DEF Kernels
    <3> QED
      BY <1>2, <2>2, <3>1, SmallSet
  <2> QED
    BY <1>2, <2>2, <2>3, <2>4, <2>5 DEF DropsAreSeen, AnswersFirst
<1>3. CASE x \in {"est", "drop", "hairpin", "in", "out"}
  <2>1. new = WithChain(k, Kernel!Chain(x), Placed(k.chains[Kernel!Chain(x)], x))
    BY <1>3 DEF Kernel!Add, Kernel!Flags, WithChain, Placed
  <2> QED
    BY <1>3, <2>1, ChainAdded
<1> QED
  BY <1>1, <1>2, <1>3 DEF ItemsSet

\* The first copy of a rule is taken out of its chain.
LEMMA ChainDeleted ==
  ASSUME NEW k \in Kernels, NEW x \in {"est", "drop", "hairpin", "in", "out"}, Kernel!Set(k, x),
         NEW ch, NEW c, NEW d, NEW new,
         ch = Kernel!Chain(x), c = k.chains[ch], d = Kernel!RemoveFirst(c, x), new = WithChain(k, ch, d)
  PROVE  Fewer(new, k) /\ (Single(k, x) => ~Kernel!Set(new, x))
<1>1. ch \in {"INPUT", "FORWARD"} /\ c \in Seq(ChainRules) /\ ~Lacks(c, x)
  BY SetIs
<1>3. /\ d \in Seq(ChainRules) /\ (Once(c, x) => Lacks(d, x))
      /\ \A a : (Once(c, a) => Once(d, a)) /\ (Lacks(c, a) => Lacks(d, a))
      /\ \A a, b : Sorted(c, a, b) => Sorted(d, a, b)
  BY <1>1, ChainRemoved
<1>4. /\ new \in Kernels /\ new.chains[ch] = d
      /\ \A b \in {"INPUT", "FORWARD"} : b # ch => new.chains[b] = k.chains[b]
      /\ \A y \in {"sysctls", "local", "mark", "lookup"} :
           (Kernel!Set(new, y) <=> Kernel!Set(k, y)) /\ (Single(new, y) <=> Single(k, y))
  <2>1. ch \in {"INPUT", "FORWARD"} /\ new = WithChain(k, ch, d) /\ d \in Seq(ChainRules)
    BY <1>1, <1>3
  <2>2. new \in Kernels /\ new.chains[ch] = d
    BY <2>1, OtherChain
  <2>3. \A b \in {"INPUT", "FORWARD"} : b # ch => new.chains[b] = k.chains[b]
    BY <2>1, OtherChain
  <2>4. \A y \in {"sysctls", "local", "mark", "lookup"} :
          (Kernel!Set(new, y) <=> Kernel!Set(k, y)) /\ (Single(new, y) <=> Single(k, y))
    BY <2>1, OtherChain
  <2> QED
    BY <2>2, <2>3, <2>4
<1>5. ASSUME NEW y \in {"est", "drop", "hairpin", "in", "out"}
      PROVE  (Kernel!Set(new, y) => Kernel!Set(k, y)) /\ (Single(k, y) => Single(new, y))
  <2>1. CASE Kernel!Chain(y) = ch
    BY <1>3, <1>4, <2>1, SetIs
  <2>2. CASE Kernel!Chain(y) # ch
    <3>1. new.chains[Kernel!Chain(y)] = k.chains[Kernel!Chain(y)]
      BY <1>4, <2>2, SetIs
    <3> QED
      BY <1>4, <3>1, SetIs
  <2> QED
    BY <2>1, <2>2
<1>6. Single(k, x) => ~Kernel!Set(new, x)
  BY <1>3, <1>4, SetIs
<1>7. (DropsAreSeen(k) => DropsAreSeen(new)) /\ (AnswersFirst(k) => AnswersFirst(new))
  <2>1. CASE ch = "INPUT"
    BY <1>3, <1>4, <2>1 DEF DropsAreSeen, AnswersFirst
  <2>2. CASE ch = "FORWARD"
    BY <1>3, <1>4, <2>2 DEF DropsAreSeen, AnswersFirst
  <2> QED
    BY <1>1, <2>1, <2>2
<1> QED
  BY <1>4, <1>5, <1>6, <1>7 DEF Fewer, ItemsSet

\* The commands that take something away.
LEMMA Deleted ==
  ASSUME NEW k \in Kernels, NEW x \in ItemsSet \ {"sysctls"}, NEW new, new = Kernel!Delete(k, x)
  PROVE  Fewer(new, k) /\ (Single(k, x) => ~Kernel!Set(new, x))
<1>0. CASE ~Kernel!Set(k, x)
  BY <1>0 DEF Kernel!Delete, Fewer
<1>1. CASE x = "local" /\ Kernel!Set(k, x)
  <2>1. new = [k EXCEPT !.flags = @ \ {x}]
    BY <1>1 DEF Kernel!Delete, Kernel!Flags
  <2>2. new \in Kernels /\ new.flags = k.flags \ {x} /\ new.copies = k.copies /\ new.chains = k.chains
    BY <1>1, <2>1 DEF Kernels
  <2>3. \A y \in ItemsSet : (Kernel!Set(new, y) => Kernel!Set(k, y)) /\ (Single(k, y) => Single(new, y))
    BY <2>2 DEF Single, Kernel!Set, Kernel!Flags
  <2> QED
    BY <1>1, <2>2, <2>3, SmallSet DEF DropsAreSeen, AnswersFirst, Fewer
<1>2. CASE x \in {"mark", "lookup"} /\ Kernel!Set(k, x)
  <2>1. new = [k EXCEPT !.copies[x] = @ - 1]
    BY <1>2 DEF Kernel!Delete, Kernel!Flags
  <2>2. k.copies[x] \in Nat /\ k.copies[x] > 0
    BY <1>2, SmallSet DEF Kernels
  <2>3. /\ new \in Kernels /\ new.flags = k.flags /\ new.chains = k.chains
        /\ new.copies = [k.copies EXCEPT ![x] = @ - 1]
    <3>1. k.copies[x] - 1 \in Nat
      BY <2>2
    <3>2. [k.copies EXCEPT ![x] = k.copies[x] - 1] \in [{"mark", "lookup"} -> Nat]
      BY <3>1 DEF Kernels
    <3> QED
      BY <1>2, <2>1, <3>2 DEF Kernels
  <2>4. \A y \in ItemsSet \ {x} :
          (Kernel!Set(new, y) => Kernel!Set(k, y)) /\ (Single(k, y) => Single(new, y))
    BY <1>2, <2>3 DEF Single, Kernel!Set, Kernel!Flags, Kernels
  <2>5. new.copies[x] = k.copies[x] - 1
    BY <1>2, <2>3 DEF Kernels
  <2>6. (Single(k, x) => Single(new, x)) /\ (Single(k, x) => ~Kernel!Set(new, x))
    BY <1>2, <2>2, <2>3, <2>5, SmallSet
  <2> QED
    BY <1>2, <2>3, <2>4, <2>6 DEF DropsAreSeen, AnswersFirst, Fewer
<1>3. CASE x \in {"est", "drop", "hairpin", "in", "out"} /\ Kernel!Set(k, x)
  <2>1. new = WithChain(k, Kernel!Chain(x), Kernel!RemoveFirst(k.chains[Kernel!Chain(x)], x))
    BY <1>3 DEF Kernel!Delete, Kernel!Flags, WithChain
  <2> QED
    BY <1>3, <2>1, ChainDeleted
<1> QED
  BY <1>0, <1>1, <1>2, <1>3 DEF ItemsSet

\* The tools of the host.
LEMMA Tampered ==
  ASSUME kernel \in Kernels, Kernel!Tamper
  PROVE  Fewer(kernel', kernel)
<1>1. CASE kernel' = [kernel EXCEPT !.chains = Kernel!Bare.chains]
  <2>1. /\ kernel' \in Kernels /\ kernel'.flags = kernel.flags /\ kernel'.copies = kernel.copies
        /\ \A c \in {"INPUT", "FORWARD"} : kernel'.chains[c] = <<"foreign">>
    <3>1. <<"foreign">> \in Seq(ChainRules)
      BY DEF ChainRules
    <3>2. Kernel!Bare.chains = [c \in {"INPUT", "FORWARD"} |-> <<"foreign">>]
      BY DEF Kernel!Bare, Kernel!Foreign
    <3>3. Kernel!Bare.chains \in [{"INPUT", "FORWARD"} -> Seq(ChainRules)]
      BY <3>1, <3>2
    <3> QED
      BY <1>1, <3>2, <3>3 DEF Kernels
  <2>2. \A x \in ChainRules \ {"foreign"} : Lacks(<<"foreign">>, x)
    BY DEF Lacks, ChainRules
  <2>3. \A x \in {"est", "drop", "hairpin", "in", "out"} :
          ~Kernel!Set(kernel', x) /\ Single(kernel', x)
    BY <2>1, <2>2, SetIs, LackingIsSorted DEF ChainRules
  <2>4. \A x \in {"sysctls", "local", "mark", "lookup"} :
          (Kernel!Set(kernel', x) <=> Kernel!Set(kernel, x)) /\ (Single(kernel', x) <=> Single(kernel, x))
    BY <2>1, SmallSet
  <2>5. DropsAreSeen(kernel') /\ AnswersFirst(kernel')
    BY <2>1, <2>2, LackingIsSorted DEF DropsAreSeen, AnswersFirst, ChainRules
  <2> QED
    BY <2>1, <2>3, <2>4, <2>5 DEF Fewer, ItemsSet
<1>2. ASSUME NEW x \in {"mark", "lookup"}, NEW F \in SUBSET kernel.flags,
             kernel' \in Kernels, kernel'.flags = F, kernel'.chains = kernel.chains,
             kernel'.copies \in {kernel.copies, [kernel.copies EXCEPT ![x] = 0]}
      PROVE  Fewer(kernel', kernel)
  <2>1. \A y \in ItemsSet :
          (Kernel!Set(kernel', y) => Kernel!Set(kernel, y)) /\ (Single(kernel, y) => Single(kernel', y))
    BY <1>2 DEF Single, Kernel!Set, Kernel!Flags, Kernels
  <2> QED
    BY <1>2, <2>1 DEF Fewer, DropsAreSeen, AnswersFirst
<1>3. CASE kernel' = [kernel EXCEPT !.copies["mark"] = 0]
  <2>1. /\ kernel' \in Kernels /\ kernel'.flags = kernel.flags /\ kernel'.chains = kernel.chains
        /\ kernel'.copies = [kernel.copies EXCEPT !["mark"] = 0]
    BY <1>3 DEF Kernels
  <2> QED
    BY <1>2, <2>1
<1>4. CASE kernel' = [flags |-> kernel.flags \ {"local"}, chains |-> kernel.chains,
                      copies |-> [kernel.copies EXCEPT !["lookup"] = 0]]
  <2>1. /\ kernel' \in Kernels /\ kernel'.flags \in SUBSET kernel.flags /\ kernel'.chains = kernel.chains
        /\ kernel'.copies = [kernel.copies EXCEPT !["lookup"] = 0]
    BY <1>4 DEF Kernels
  <2> QED
    BY <1>2, <2>1
<1>5. CASE kernel' = [kernel EXCEPT !.flags = @ \ {"sysctls"}]
  <2>1. /\ kernel' \in Kernels /\ kernel'.flags \in SUBSET kernel.flags /\ kernel'.chains = kernel.chains
        /\ kernel'.copies = kernel.copies
    BY <1>5 DEF Kernels
  <2> QED
    BY <1>2, <2>1
<1>6. CASE kernel' = [kernel EXCEPT !.chains["INPUT"] = <<"late">> \o @]
  <2> DEFINE c == kernel.chains["INPUT"]
             d == <<"late">> \o c
  <2>1. c \in Seq(ChainRules) /\ "late" \in ChainRules
    BY DEF Kernels, ChainRules
  <2> HIDE DEF c
  <2>2. /\ d \in Seq(ChainRules)
        /\ \A a : a # "late" => (Once(c, a) => Once(d, a)) /\ (Lacks(c, a) <=> Lacks(d, a))
        /\ \A a, b : a # "late" /\ b # "late" => (Sorted(c, a, b) => Sorted(d, a, b))
    BY <2>1, ChainPushed
  <2> HIDE DEF d
  <2>3. /\ kernel' \in Kernels /\ kernel'.chains["INPUT"] = d
        /\ kernel'.chains["FORWARD"] = kernel.chains["FORWARD"]
        /\ \A y \in {"sysctls", "local", "mark", "lookup"} :
             (Kernel!Set(kernel', y) <=> Kernel!Set(kernel, y)) /\ (Single(kernel', y) <=> Single(kernel, y))
    <3>1. kernel' = WithChain(kernel, "INPUT", d)
      BY <1>6 DEF c, d, WithChain
    <3> QED
      BY <2>2, <3>1, OtherChain
  <2>4. \A y \in {"est", "drop"} :
          (Kernel!Set(kernel', y) <=> Kernel!Set(kernel, y)) /\ (Single(kernel, y) => Single(kernel', y))
    BY <2>2, <2>3, SetIs DEF c
  <2>5. \A y \in {"hairpin", "in", "out"} :
          (Kernel!Set(kernel', y) <=> Kernel!Set(kernel, y)) /\ (Single(kernel, y) => Single(kernel', y))
    BY <2>3, SetIs
  <2>6. (DropsAreSeen(kernel) => DropsAreSeen(kernel')) /\ (AnswersFirst(kernel) => AnswersFirst(kernel'))
    BY <2>2, <2>3 DEF DropsAreSeen, AnswersFirst, c
  <2> QED
    BY <2>3, <2>4, <2>5, <2>6 DEF Fewer, ItemsSet
<1> QED
  BY <1>1, <1>3, <1>4, <1>5, <1>6 DEF Kernel!Tamper, Kernel!Late

-----------------------------------------------------------------------------
(* The kernel's rules: places                                              *)

KernelOK(k, f) ==
  /\ k \in Kernels /\ DropsAreSeen(k)
  /\ "delete" \notin f => AnswersFirst(k) /\ Single(k, "est") /\ Single(k, "drop")
  /\ f = {} => \A x \in ItemsSet : Single(k, x)

Places == {at \in (0..8) \X (0..4) : (at[1] = 0 => at[2] = 0) /\ (at[2] > 1 => at[1] = 5)}

\* What is known of the kernel at a place in the list of items: the input's rules are taken out
\* before they are added, and what a check has found missing is not there.
PlaceOK(at, k, f) ==
  /\ "delete" \notin f /\ at[2] > 1 => ~Kernel!Set(k, "est") /\ (at[2] = 3 => ~Kernel!Set(k, "drop"))
  /\ f = {} /\ at[2] = 1 /\ at[1] \in {2, 3, 6, 7, 8} => ~Kernel!Set(k, Kernel!Items[at[1]])

LEMMA ItemsAre ==
  /\ Len(Kernel!Items) = 8 /\ Len(Kernel!Removals) = 8
  /\ \A i \in 1..8 \ {5} : Kernel!Items[i] \in ItemsSet \ {"est", "drop"} /\ Kernel!Items[i] # "input"
  /\ Kernel!Items[5] = "input" /\ Kernel!Items[3] = "lookup"
  /\ Kernel!Items[1] \in Kernel!Flags /\ Kernel!Items[4] \in Kernel!Flags
  /\ \A i \in 1..8 : Kernel!Items[i] \in {"sysctls", "local", "input"} <=> i \in {1, 4, 5}
  /\ \A i \in 1..8 : Kernel!Removals[i] \in ItemsSet \ {"sysctls"}
<1>1. /\ Len(Kernel!Items) = 8 /\ Kernel!Items[1] = "sysctls" /\ Kernel!Items[2] = "mark"
      /\ Kernel!Items[3] = "lookup" /\ Kernel!Items[4] = "local" /\ Kernel!Items[5] = "input"
      /\ Kernel!Items[6] = "hairpin" /\ Kernel!Items[7] = "in" /\ Kernel!Items[8] = "out"
  BY DEF Kernel!Items
<1>2. /\ Len(Kernel!Removals) = 8 /\ Kernel!Removals[1] = "lookup" /\ Kernel!Removals[2] = "local"
      /\ Kernel!Removals[3] = "mark" /\ Kernel!Removals[4] = "est" /\ Kernel!Removals[5] = "drop"
      /\ Kernel!Removals[6] = "hairpin" /\ Kernel!Removals[7] = "in" /\ Kernel!Removals[8] = "out"
  BY DEF Kernel!Removals
<1>3. 1..8 = {1, 2, 3, 4, 5, 6, 7, 8}
  OBVIOUS
<1>4. \A i \in 1..8 : Kernel!Removals[i] \in ItemsSet \ {"sysctls"}
  BY <1>2, <1>3 DEF ItemsSet
<1>5. \A i \in 1..8 : Kernel!Items[i] \in {"sysctls", "local", "input"} <=> i \in {1, 4, 5}
  BY <1>1, <1>3
<1>6. \A i \in 1..8 \ {5} : Kernel!Items[i] \in ItemsSet \ {"est", "drop"} /\ Kernel!Items[i] # "input"
  BY <1>1, <1>3 DEF ItemsSet
<1> QED
  BY <1>1, <1>2, <1>4, <1>5, <1>6 DEF Kernel!Flags

LEMMA CommandIs ==
  ASSUME NEW at \in Places, at # Kernel!Rest
  PROVE  /\ at[1] \in 1..8 /\ at[2] \in 0..4
         /\ at[2] = 0 => Kernel!Command(at) = <<"check", Kernel!Items[at[1]]>>
         /\ at[2] = 1 /\ at[1] # 5 => Kernel!Command(at) = <<"add", Kernel!Items[at[1]]>>
         /\ at[1] = 5 => /\ at[2] = 1 => Kernel!Command(at) = <<"delete", "est">>
                         /\ at[2] = 2 => Kernel!Command(at) = <<"delete", "drop">>
                         /\ at[2] = 3 => Kernel!Command(at) = <<"add", "drop">>
                         /\ at[2] = 4 => Kernel!Command(at) = <<"add", "est">>
         /\ Len(Kernel!Repair(Kernel!Items[at[1]])) = IF at[1] = 5 THEN 4 ELSE 1
<1>1. at = <<at[1], at[2]>> /\ at[1] \in 0..8 /\ at[2] \in 0..4
      /\ (at[1] = 0 => at[2] = 0) /\ (at[2] > 1 => at[1] = 5)
  BY DEF Places
<1>2. at[1] \in 1..8
  BY <1>1 DEF Kernel!Rest
<1>3. CASE at[1] = 5
  <2>1. /\ Len(Kernel!LockInput) = 4 /\ Kernel!LockInput[1] = <<"delete", "est">>
        /\ Kernel!LockInput[2] = <<"delete", "drop">> /\ Kernel!LockInput[3] = <<"add", "drop">>
        /\ Kernel!LockInput[4] = <<"add", "est">>
    BY DEF Kernel!LockInput
  <2>2. Kernel!Repair(Kernel!Items[at[1]]) = Kernel!LockInput
    BY <1>3, ItemsAre DEF Kernel!Repair
  <2> QED
    BY <1>1, <1>2, <1>3, <2>1, <2>2 DEF Kernel!Command
<1>4. CASE at[1] # 5
  <2>1. Kernel!Repair(Kernel!Items[at[1]]) = <<<<"add", Kernel!Items[at[1]]>>>>
    BY <1>2, <1>4, ItemsAre DEF Kernel!Repair
  <2> DEFINE repair == Kernel!Repair(Kernel!Items[at[1]])
  <2>2. Len(repair) = 1 /\ repair[1] = <<"add", Kernel!Items[at[1]]>>
    BY <2>1
  <2> HIDE DEF repair
  <2>3. Kernel!Command(at) = IF at[2] = 0 THEN <<"check", Kernel!Items[at[1]]>> ELSE repair[at[2]]
    BY DEF Kernel!Command, repair
  <2>4. Len(Kernel!Repair(Kernel!Items[at[1]])) = 1
    BY <2>2 DEF repair
  <2> QED
    BY <1>1, <1>2, <1>4, <2>2, <2>3, <2>4
<1> QED
  BY <1>3, <1>4

\* Where the list goes on.
LEMMA AfterIs ==
  ASSUME NEW at \in Places, at # Kernel!Rest, NEW ok \in BOOLEAN,
         NEW unasked, unasked \subseteq {"sysctls", "local", "input"},
         NEW next, next = Kernel!After(at, ok, unasked)
  PROVE  /\ next \in Places
         /\ \/ at[2] = 0 /\ next = <<at[1], 1>> /\ ~(ok /\ Kernel!Here(kernel, Kernel!Items[at[1]]))
            \/ at[1] = 5 /\ at[2] \in 1..3 /\ next = <<5, at[2] + 1>>
            \/ next[2] = 0
            \/ next[2] = 1 /\ next[1] \in {1, 4, 5}
<1>1. at[1] \in 1..8 /\ at[2] \in 0..4 /\ (at[2] > 1 => at[1] = 5)
  BY CommandIs DEF Places
<1>2. Len(Kernel!Repair(Kernel!Items[at[1]])) = IF at[1] = 5 THEN 4 ELSE 1
  BY CommandIs
<1> DEFINE enter == Kernel!Enter(at[1] + 1, unasked)
<1>3. enter \in Places /\ (enter[2] = 0 \/ (enter[2] = 1 /\ enter[1] \in {1, 4, 5}))
  <2>1. CASE at[1] = 8
    <3>1. enter = <<0, 0>>
      BY <2>1, ItemsAre DEF Kernel!Enter, Kernel!Rest
    <3> QED
      BY <3>1 DEF Places
  <2>2. CASE at[1] \in 1..7
    <3>1. at[1] + 1 \in 1..8 /\ ~(at[1] + 1 > 8)
      BY <2>2
    <3>2. CASE Kernel!Items[at[1] + 1] \in unasked
      <4>1. enter = <<at[1] + 1, 1>>
        BY <3>1, <3>2, ItemsAre DEF Kernel!Enter
      <4>2. at[1] + 1 \in {1, 4, 5}
        BY <3>1, <3>2, ItemsAre
      <4> QED
        BY <3>1, <4>1, <4>2 DEF Places
    <3>3. CASE Kernel!Items[at[1] + 1] \notin unasked
      <4>1. enter = <<at[1] + 1, 0>>
        BY <3>1, <3>3, ItemsAre DEF Kernel!Enter
      <4> QED
        BY <3>1, <4>1 DEF Places
    <3> QED
      BY <3>2, <3>3
  <2> QED
    BY <1>1, <2>1, <2>2
<1> HIDE DEF enter
<1>4. CASE at[2] = 0
  <2>1. next = IF ok /\ Kernel!Here(kernel, Kernel!Items[at[1]]) THEN enter ELSE <<at[1], 1>>
    BY <1>4 DEF Kernel!After, enter
  <2>2. <<at[1], 1>> \in Places
    BY <1>1 DEF Places
  <2> QED
    BY <1>3, <1>4, <2>1, <2>2
<1>5. CASE at[2] # 0
  <2>1. next = IF at[2] < Len(Kernel!Repair(Kernel!Items[at[1]])) THEN <<at[1], at[2] + 1>> ELSE enter
    BY <1>5 DEF Kernel!After, enter
  <2>2. CASE at[1] = 5 /\ at[2] < 4
    <3>1. next = <<5, at[2] + 1>> /\ at[2] \in 1..3
      BY <1>1, <1>2, <1>5, <2>1, <2>2
    <3>2. next \in Places
      BY <3>1 DEF Places
    <3> QED
      BY <2>2, <3>1, <3>2
  <2>3. CASE ~(at[1] = 5 /\ at[2] < 4)
    <3>1. next = enter
      BY <1>1, <1>2, <1>5, <2>1, <2>3
    <3> QED
      BY <1>3, <3>1
  <2> QED
    BY <2>2, <2>3
<1> QED
  BY <1>4, <1>5

-----------------------------------------------------------------------------
(* The kernel's rules: steps                                               *)

\* Tools take away, commands that fail leave less to be said.
LEMMA FewerIsOK ==
  ASSUME NEW k, NEW f, KernelOK(k, f), NEW new, Fewer(new, k), NEW g, f \subseteq g
  PROVE  KernelOK(new, g) /\ \A at \in Places : PlaceOK(at, k, f) => PlaceOK(at, new, g)
<1>1. new \in Kernels /\ DropsAreSeen(new)
  BY DEF KernelOK, Fewer
<1>2. \A x \in ItemsSet : (Kernel!Set(new, x) => Kernel!Set(k, x)) /\ (Single(k, x) => Single(new, x))
  BY DEF Fewer
<1>3. "delete" \notin g => AnswersFirst(new) /\ Single(new, "est") /\ Single(new, "drop")
  BY <1>2 DEF KernelOK, Fewer, ItemsSet
<1>4. g = {} => f = {}
  OBVIOUS
<1>5. KernelOK(new, g)
  BY <1>1, <1>2, <1>3, <1>4 DEF KernelOK
<1>6. ASSUME NEW at \in Places, PlaceOK(at, k, f) PROVE PlaceOK(at, new, g)
  <2>1. at[1] \in {2, 3, 6, 7, 8} => Kernel!Items[at[1]] \in ItemsSet
    <3>1. at[1] \in {2, 3, 6, 7, 8} => at[1] \in 1..8 \ {5}
      OBVIOUS
    <3> QED
      BY <3>1, ItemsAre
  <2>2. "est" \in ItemsSet /\ "drop" \in ItemsSet
    BY DEF ItemsSet
  <2> QED
    BY <1>2, <1>4, <1>6, <2>1, <2>2 DEF PlaceOK
<1> QED
  BY <1>5, <1>6

LEMMA AddIsOK ==
  ASSUME NEW k, NEW f, KernelOK(k, f), NEW x \in ItemsSet, NEW new, new = Kernel!Add(k, x),
         "delete" \notin f /\ x \in {"est", "drop"} => ~Kernel!Set(k, "est") /\ ~Kernel!Set(k, x),
         f = {} => ~Kernel!Set(k, x) \/ x \in {"sysctls", "local"}
  PROVE  KernelOK(new, f)
<1>1. /\ new \in Kernels
      /\ ~Kernel!Set(k, x) => Single(new, x)
      /\ \A y \in ItemsSet \ {x} : /\ Kernel!Set(new, y) <=> Kernel!Set(k, y)
                                   /\ Single(k, y) => Single(new, y)
      /\ DropsAreSeen(k) => DropsAreSeen(new)
      /\ x # "drop" /\ AnswersFirst(k) => AnswersFirst(new)
      /\ x \in {"est", "drop"} /\ ~Kernel!Set(k, "est") => AnswersFirst(new)
  BY Added DEF KernelOK
<1>2. ASSUME "delete" \notin f PROVE AnswersFirst(new) /\ Single(new, "est") /\ Single(new, "drop")
  <2>1. AnswersFirst(k) /\ Single(k, "est") /\ Single(k, "drop")
    BY <1>2 DEF KernelOK
  <2>2. "est" \in ItemsSet /\ "drop" \in ItemsSet
    BY DEF ItemsSet
  <2>3. CASE x \in {"est", "drop"}
    BY <1>1, <1>2, <2>1, <2>2, <2>3
  <2>4. CASE x \notin {"est", "drop"}
    BY <1>1, <2>1, <2>2, <2>4
  <2> QED
    BY <2>3, <2>4
<1>3. ASSUME f = {}, NEW y \in ItemsSet PROVE Single(new, y)
  <2>1. Single(k, y)
    BY <1>3 DEF KernelOK
  <2>2. x \in {"sysctls", "local"} => Single(new, x)
    BY DEF Single
  <2> QED
    BY <1>1, <1>3, <2>1, <2>2
<1> QED
  BY <1>1, <1>2, <1>3 DEF KernelOK

\* A step of set-up or of the watchdog, and the place it leads to.
LEMMA BuildStep ==
  ASSUME NEW at \in Places, at # Kernel!Rest, NEW ok \in BOOLEAN,
         KernelOK(kernel, failed), PlaceOK(at, kernel, failed), failed \subseteq {"check", "add", "delete"},
         Kernel!Effect(Kernel!Command(at), ok), Kernel!Counts(Kernel!Command(at), ok),
         NEW unasked, unasked \subseteq {"sysctls", "local", "input"},
         NEW next, next = Kernel!After(at, ok, unasked)
  PROVE  /\ KernelOK(kernel', failed') /\ failed' \subseteq {"check", "add", "delete"}
         /\ next \in Places /\ PlaceOK(next, kernel', failed')
<1> DEFINE i == at[1]
<1>0. /\ i \in 1..8 /\ at[2] \in 0..4 /\ (at[2] > 1 => i = 5)
      /\ i # 5 => Kernel!Items[i] \in ItemsSet \ {"est", "drop"}
  BY CommandIs, ItemsAre DEF Places
<1>1. /\ next \in Places
      /\ \/ at[2] = 0 /\ next = <<i, 1>> /\ ~(ok /\ Kernel!Here(kernel, Kernel!Items[i]))
         \/ i = 5 /\ at[2] \in 1..3 /\ next = <<5, at[2] + 1>>
         \/ next[2] = 0
         \/ next[2] = 1 /\ next[1] \in {1, 4, 5}
  BY AfterIs
<1>2. \A k, f : next[2] = 0 \/ (next[2] = 1 /\ next[1] \in {1, 4, 5}) => PlaceOK(next, k, f)
  BY DEF PlaceOK
<1>3. failed' = IF ok THEN failed ELSE failed \cup {Kernel!Command(at)[1]}
  BY DEF Kernel!Counts
<1>4. kernel' = IF ~ok \/ Kernel!Command(at)[1] = "check" THEN kernel
                ELSE IF Kernel!Command(at)[1] = "add" THEN Kernel!Add(kernel, Kernel!Command(at)[2])
                ELSE Kernel!Delete(kernel, Kernel!Command(at)[2])
  BY DEF Kernel!Effect
<1>5. kernel \in Kernels /\ Fewer(kernel, kernel)
  BY DEF KernelOK, Fewer
<1>6. CASE at[2] = 0
  <2>1. Kernel!Command(at) = <<"check", Kernel!Items[i]>>
    BY <1>6, CommandIs
  <2>2. kernel' = kernel /\ failed' = IF ok THEN failed ELSE failed \cup {"check"}
    BY <1>3, <1>4, <2>1
  <2>3. KernelOK(kernel', failed') /\ failed' \subseteq {"check", "add", "delete"}
    BY <1>5, <2>2, FewerIsOK
  <2>4. PlaceOK(next, kernel', failed')
    <3>1. CASE next = <<i, 1>> /\ ~(ok /\ Kernel!Here(kernel, Kernel!Items[i]))
      <4>1. next[1] = i /\ next[2] = 1
        BY <3>1
      <4>2. failed' = {} /\ i # 5 => ~Kernel!Set(kernel', Kernel!Items[i])
        BY <1>0, <2>2, <3>1, ItemsAre DEF Kernel!Here
      <4> QED
        BY <4>1, <4>2 DEF PlaceOK
    <3> QED
      BY <1>1, <1>2, <1>6, <3>1
  <2> QED
    BY <1>1, <2>3, <2>4
<1>7. CASE at[2] = 1 /\ i # 5
  <2>1. Kernel!Command(at) = <<"add", Kernel!Items[i]>>
    BY <1>7, CommandIs
  <2>2. /\ kernel' = IF ok THEN Kernel!Add(kernel, Kernel!Items[i]) ELSE kernel
        /\ failed' = IF ok THEN failed ELSE failed \cup {"add"}
    BY <1>3, <1>4, <2>1
  <2>3. failed = {} => ~Kernel!Set(kernel, Kernel!Items[i]) \/ Kernel!Items[i] \in {"sysctls", "local"}
    <3>1. i \in {2, 3, 6, 7, 8} \/ i = 1 \/ i = 4
      BY <1>0, <1>7
    <3>2. i = 1 \/ i = 4 => Kernel!Items[i] \in {"sysctls", "local"}
      BY ItemsAre DEF Kernel!Flags
    <3> QED
      BY <1>7, <3>1, <3>2 DEF PlaceOK
  <2>4. KernelOK(kernel', failed')
    <3>1. CASE ok
      BY <1>0, <1>7, <2>2, <2>3, <3>1, AddIsOK
    <3>2. CASE ~ok
      BY <1>5, <2>2, <3>2, FewerIsOK
    <3> QED
      BY <3>1, <3>2
  <2>5. failed' \subseteq {"check", "add", "delete"}
    BY <2>2
  <2> QED
    BY <1>1, <1>2, <1>7, <2>4, <2>5
<1>8. CASE i = 5 /\ at[2] \in {1, 2}
  <2> DEFINE x == IF at[2] = 1 THEN "est" ELSE "drop"
  <2>1. Kernel!Command(at) = <<"delete", x>>
    BY <1>8, CommandIs
  <2>2. /\ kernel' = IF ok THEN Kernel!Delete(kernel, x) ELSE kernel
        /\ failed' = IF ok THEN failed ELSE failed \cup {"delete"}
    BY <1>3, <1>4, <2>1
  <2>3. x \in ItemsSet \ {"sysctls"} /\ x \in {"est", "drop"}
    BY DEF ItemsSet
  <2>4. ok => Fewer(kernel', kernel) /\ (Single(kernel, x) => ~Kernel!Set(kernel', x))
    BY <1>5, <2>2, <2>3, Deleted
  <2>5. Fewer(kernel', kernel)
    BY <1>5, <2>2, <2>4
  <2>6. KernelOK(kernel', failed') /\ failed' \subseteq {"check", "add", "delete"}
    BY <2>2, <2>5, FewerIsOK
  <2>7. PlaceOK(next, kernel', failed')
    <3>1. ASSUME next = <<5, at[2] + 1>>, "delete" \notin failed'
          PROVE  ~Kernel!Set(kernel', "est") /\ (at[2] = 2 => ~Kernel!Set(kernel', "drop"))
      <4>1. ok /\ failed' = failed /\ "delete" \notin failed
        BY <2>2, <3>1
      <4>2. Single(kernel, "est") /\ Single(kernel, "drop")
        BY <4>1 DEF KernelOK
      <4>3. CASE at[2] = 1
        BY <2>4, <4>1, <4>2, <4>3
      <4>4. CASE at[2] = 2
        <5>1. ~Kernel!Set(kernel, "est")
          BY <4>1, <4>4 DEF PlaceOK
        <5>2. ~Kernel!Set(kernel', "est")
          BY <2>5, <5>1 DEF Fewer, ItemsSet
        <5> QED
          BY <2>4, <4>1, <4>2, <4>4, <5>2
      <4> QED
        BY <1>8, <4>3, <4>4
    <3>2. CASE next = <<5, at[2] + 1>>
      <4>1. next[1] = 5 /\ next[2] = at[2] + 1
        BY <3>2
      <4> QED
        BY <1>8, <3>1, <3>2, <4>1 DEF PlaceOK
    <3> QED
      BY <1>1, <1>2, <1>8, <3>2
  <2> QED
    BY <1>1, <2>6, <2>7
<1>9. CASE i = 5 /\ at[2] \in {3, 4}
  <2> DEFINE x == IF at[2] = 3 THEN "drop" ELSE "est"
  <2>1. Kernel!Command(at) = <<"add", x>>
    BY <1>9, CommandIs
  <2>2. /\ kernel' = IF ok THEN Kernel!Add(kernel, x) ELSE kernel
        /\ failed' = IF ok THEN failed ELSE failed \cup {"add"}
    BY <1>3, <1>4, <2>1
  <2>3. x \in ItemsSet /\ "est" \in ItemsSet
    BY DEF ItemsSet
  <2>4. "delete" \notin failed => ~Kernel!Set(kernel, "est") /\ ~Kernel!Set(kernel, x)
    BY <1>9 DEF PlaceOK
  <2>5. KernelOK(kernel', failed') /\ failed' \subseteq {"check", "add", "delete"}
    <3>1. CASE ok
      <4>1. failed' = failed /\ kernel' = Kernel!Add(kernel, x)
        BY <2>2, <3>1
      <4>2. failed = {} => ~Kernel!Set(kernel, x)
        BY <2>4
      <4> HIDE DEF x
      <4> QED
        BY <2>3, <2>4, <4>1, <4>2, AddIsOK
    <3>2. CASE ~ok
      BY <1>5, <2>2, <3>2, FewerIsOK
    <3> QED
      BY <3>1, <3>2
  <2>6. PlaceOK(next, kernel', failed')
    <3>1. CASE at[2] = 3 /\ next = <<5, 4>>
      <4>1. "delete" \notin failed' => "delete" \notin failed
        BY <2>2
      <4>2. "delete" \notin failed => ~Kernel!Set(kernel', "est")
        <5>1. x = "drop" /\ "est" \in ItemsSet \ {"drop"}
          BY <2>3, <3>1
        <5>2. CASE ok
          <6>1. kernel' = Kernel!Add(kernel, "drop") /\ "drop" \in ItemsSet
            BY <2>2, <2>3, <5>1, <5>2
          <6> QED
            BY <1>5, <2>4, <5>1, <6>1, Added
        <5>3. CASE ~ok
          BY <2>2, <2>4, <5>3
        <5> QED
          BY <5>2, <5>3
      <4>3. next[1] = 5 /\ next[2] = 4
        BY <3>1
      <4> QED
        BY <4>1, <4>2, <4>3 DEF PlaceOK
    <3>2. CASE ~(at[2] = 3 /\ next = <<5, 4>>)
      BY <1>1, <1>2, <1>9, <3>2
    <3> QED
      BY <3>1, <3>2
  <2> QED
    BY <1>1, <2>5, <2>6
<1> QED
  <2>1. at[2] = 0 \/ (at[2] = 1 /\ i # 5) \/ (i = 5 /\ at[2] \in {1, 2}) \/ (i = 5 /\ at[2] \in {3, 4})
    BY <1>0
  <2> QED
    BY <1>6, <1>7, <1>8, <1>9, <2>1

-----------------------------------------------------------------------------
(* The kernel's rules: the invariant                                       *)

\* What Stop has removed is gone, when no command has failed and no round goes on beside it.
Removed ==
  LET done == IF server = "stopping" THEN 1..todo[1] - 1
              ELSE IF server = "stopped" THEN 1..8 ELSE {}
  IN failed = {} /\ ~overlap => \A n \in done : ~Kernel!Set(kernel, Kernel!Removals[n])

\* Where the server is, the watchdog and its set-up can be.
PlacesOK ==
  /\ todo \in Places /\ watch \in Places
  /\ server \in {"down", "starting"} => watch = Kernel!Rest
  /\ server \notin {"starting", "stopping"} => todo = Kernel!Rest
  /\ server = "stopping" => todo[1] \in 1..8 /\ todo[2] = 0
  /\ server \in {"stopping", "stopped"} /\ ~overlap => watch = Kernel!Rest

KernelInv ==
  /\ server \in {"down", "starting", "up", "stopping", "stopped"} /\ overlap \in BOOLEAN
  /\ failed \subseteq {"check", "add", "delete"}
  /\ PlacesOK
  /\ KernelOK(kernel, failed)
  /\ PlaceOK(watch, kernel, failed)
  /\ server = "starting" => PlaceOK(todo, kernel, failed)
  /\ Removed

LEMMA RestIsOK ==
  /\ Kernel!Rest \in Places
  /\ \A k, f : PlaceOK(Kernel!Rest, k, f)
  /\ \A unasked : unasked \subseteq {"sysctls", "local", "input"} =>
       Kernel!Enter(1, unasked) \in Places /\ \A k, f : PlaceOK(Kernel!Enter(1, unasked), k, f)
<1>1. Kernel!Rest = <<0, 0>>
  BY DEF Kernel!Rest
<1>2. <<0, 0>> \in Places /\ <<1, 0>> \in Places /\ <<1, 1>> \in Places
  BY DEF Places
<1>3. \A k, f : PlaceOK(<<0, 0>>, k, f) /\ PlaceOK(<<1, 0>>, k, f) /\ PlaceOK(<<1, 1>>, k, f)
  BY DEF PlaceOK
<1>4. \A unasked : Kernel!Enter(1, unasked) \in {<<1, 0>>, <<1, 1>>}
  BY ItemsAre DEF Kernel!Enter
<1> QED
  BY <1>1, <1>2, <1>3, <1>4

LEMMA KernelStarts ==
  ASSUME Kernel!Init
  PROVE  KernelInv
<1>1. /\ kernel = Kernel!Bare /\ server = "down" /\ todo = Kernel!Rest /\ watch = Kernel!Rest
      /\ overlap = FALSE /\ failed = {}
  BY DEF Kernel!Init
<1>2. /\ kernel.flags = {} /\ kernel.copies = [i \in {"mark", "lookup"} |-> 0]
      /\ kernel.chains = [c \in {"INPUT", "FORWARD"} |-> <<"foreign">>]
      /\ kernel = [flags |-> kernel.flags, copies |-> kernel.copies, chains |-> kernel.chains]
  BY <1>1 DEF Kernel!Bare, Kernel!Foreign
<1>3. <<"foreign">> \in Seq(ChainRules) /\ \A x \in ChainRules \ {"foreign"} : Lacks(<<"foreign">>, x)
  BY DEF ChainRules, Lacks
<1>4. kernel.chains["INPUT"] = <<"foreign">> /\ kernel.chains["FORWARD"] = <<"foreign">>
  BY <1>2
<1>5. kernel \in Kernels
  <2>1. kernel.copies \in [{"mark", "lookup"} -> Nat]
    BY <1>2
  <2>2. kernel.chains \in [{"INPUT", "FORWARD"} -> Seq(ChainRules)]
    BY <1>2, <1>3
  <2>3. kernel.flags \in SUBSET {"sysctls", "local"}
    BY <1>2
  <2> QED
    BY <1>2, <2>1, <2>2, <2>3 DEF Kernels
<1>6. DropsAreSeen(kernel) /\ AnswersFirst(kernel)
  BY <1>3, <1>4, LackingIsSorted DEF DropsAreSeen, AnswersFirst, ChainRules
<1>7. \A x \in {"est", "drop", "hairpin", "in", "out"} : Single(kernel, x)
  <2> SUFFICES ASSUME NEW x \in {"est", "drop", "hairpin", "in", "out"}
               PROVE  Single(kernel, x)
    OBVIOUS
  <2>1. kernel.chains[Kernel!Chain(x)] = <<"foreign">> /\ Lacks(<<"foreign">>, x)
    BY <1>3, <1>4, <1>5, SetIs DEF ChainRules
  <2> QED
    BY <1>5, <2>1, SetIs, LackingIsSorted
<1>8. \A x \in {"mark", "lookup"} : Single(kernel, x)
  <2>1. kernel.copies["mark"] = 0 /\ kernel.copies["lookup"] = 0
    BY <1>2
  <2> QED
    BY <1>5, <2>1, SmallSet
<1>9. KernelOK(kernel, failed)
  BY <1>1, <1>5, <1>6, <1>7, <1>8, SmallSet DEF KernelOK, ItemsSet
<1> QED
  BY <1>1, <1>9, RestIsOK DEF KernelInv, PlacesOK, Removed

LEMMA KernelStep ==
  ASSUME KernelInv, Kernel!Next \/ UNCHANGED kernelVars
  PROVE  KernelInv'
<1> USE DEF KernelInv, PlacesOK
<1>a. Kernel!Unasked \subseteq {"sysctls", "local", "input"}
  BY DEF Kernel!Unasked
<1>1. CASE Kernel!Start
  <2>1. /\ todo' = Kernel!Enter(1, Kernel!Unasked) /\ server' = "starting" /\ overlap' = FALSE
        /\ UNCHANGED <<kernel, watch, failed>> /\ server = "down"
    BY <1>1 DEF Kernel!Start
  <2> QED
    BY <1>a, <2>1, RestIsOK DEF Removed
<1>2. ASSUME NEW ok \in BOOLEAN, Kernel!SetUp(ok) PROVE KernelInv'
  <2>1. /\ server = "starting" /\ todo # Kernel!Rest
        /\ Kernel!Effect(Kernel!Command(todo), ok) /\ Kernel!Counts(Kernel!Command(todo), ok)
        /\ \/ todo' = Kernel!After(todo, ok, Kernel!Unasked) /\ server' = server
           \/ todo' = Kernel!Rest /\ server' = "down"
        /\ UNCHANGED <<watch, overlap>>
    BY <1>2 DEF Kernel!SetUp
  <2> DEFINE next == Kernel!After(todo, ok, Kernel!Unasked)
  <2>2. /\ KernelOK(kernel', failed') /\ failed' \subseteq {"check", "add", "delete"}
        /\ next \in Places /\ PlaceOK(next, kernel', failed')
    <3> HIDE DEF next
    <3>1. next = Kernel!After(todo, ok, Kernel!Unasked)
      BY DEF next
    <3> QED
      BY <1>a, <2>1, <3>1, BuildStep
  <2>3. server' \notin {"stopping", "stopped"} /\ watch' = Kernel!Rest
    BY <2>1
  <2>4. Removed'
    BY <2>3 DEF Removed
  <2> QED
    BY <2>1, <2>2, <2>3, <2>4, RestIsOK
<1>3. ASSUME NEW up \in BOOLEAN, Kernel!Listen(up) PROVE KernelInv'
  <2>1. /\ server = "starting" /\ todo = Kernel!Rest /\ server' \in {"up", "down"}
        /\ UNCHANGED <<kernel, todo, watch, overlap, failed>>
    BY <1>3 DEF Kernel!Listen
  <2> QED
    BY <2>1 DEF Removed
<1>4. CASE Kernel!Tick
  <2>1. server = "up" /\ watch' = Kernel!Enter(1, {}) /\ UNCHANGED <<kernel, server, todo, overlap, failed>>
    BY <1>4 DEF Kernel!Tick, Kernel!Round
  <2> QED
    BY <2>1, RestIsOK DEF Removed
<1>5. ASSUME NEW ok \in BOOLEAN, Kernel!Watch(ok) PROVE KernelInv'
  <2> DEFINE next == Kernel!After(watch, ok, {})
  <2>1. /\ watch # Kernel!Rest
        /\ Kernel!Effect(Kernel!Command(watch), ok) /\ Kernel!Counts(Kernel!Command(watch), ok)
        /\ watch' = Kernel!Rest \/ watch' = next
        /\ UNCHANGED <<server, todo, overlap>>
    BY <1>5 DEF Kernel!Watch
  <2>2. /\ KernelOK(kernel', failed') /\ failed' \subseteq {"check", "add", "delete"}
        /\ next \in Places /\ PlaceOK(next, kernel', failed')
    <3> HIDE DEF next
    <3>1. next = Kernel!After(watch, ok, {})
      BY DEF next
    <3> QED
      BY <2>1, <3>1, BuildStep
  <2>3. server \notin {"down", "starting"} /\ (server \in {"stopping", "stopped"} => overlap)
    BY <2>1
  <2>4. Removed'
    BY <2>1, <2>3 DEF Removed
  <2> HIDE DEF next
  <2> QED
    BY <2>1, <2>2, <2>3, <2>4, RestIsOK
<1>6. CASE Kernel!Stop
  <2>1. /\ server = "up" /\ server' = "stopping" /\ todo' = <<1, 0>> /\ overlap' = (watch # Kernel!Rest)
        /\ UNCHANGED <<kernel, watch, failed>>
    BY <1>6 DEF Kernel!Stop
  <2>2. todo'[1] = 1 /\ todo'[2] = 0 /\ todo' \in Places
    BY <2>1 DEF Places
  <2>3. Removed'
    BY <2>1, <2>2 DEF Removed
  <2>4. overlap' \in BOOLEAN /\ (~overlap' => watch' = Kernel!Rest)
    BY <2>1
  <2>5. PlacesOK'
    BY <2>1, <2>2, <2>4
  <2>6. KernelOK(kernel', failed') /\ PlaceOK(watch', kernel', failed')
    BY <2>1
  <2> QED
    BY <2>1, <2>3, <2>4, <2>5, <2>6
<1>7. ASSUME NEW ok \in BOOLEAN, Kernel!Teardown(ok) PROVE KernelInv'
  <2> DEFINE n == todo[1]
             x == Kernel!Removals[n]
  <2>1. /\ server = "stopping" /\ UNCHANGED <<watch, overlap>>
        /\ Kernel!Effect(<<"delete", x>>, ok) /\ Kernel!Counts(<<"delete", x>>, ok)
        /\ IF n < 8 THEN todo' = <<n + 1, 0>> /\ server' = server
           ELSE todo' = Kernel!Rest /\ server' = "stopped"
    BY <1>7, ItemsAre DEF Kernel!Teardown
  <2>2. n \in 1..8 /\ x \in ItemsSet \ {"sysctls"}
    BY <2>1, ItemsAre
  <2>3. /\ kernel' = IF ok THEN Kernel!Delete(kernel, x) ELSE kernel
        /\ failed' = IF ok THEN failed ELSE failed \cup {"delete"}
    BY <2>1 DEF Kernel!Effect, Kernel!Counts
  <2>4. kernel \in Kernels
    BY DEF KernelOK
  <2> HIDE DEF x
  <2>5. ok => Fewer(kernel', kernel) /\ (Single(kernel, x) => ~Kernel!Set(kernel', x))
    BY <2>2, <2>3, <2>4, Deleted
  <2>6. Fewer(kernel', kernel)
    BY <2>3, <2>4, <2>5 DEF Fewer
  <2>7. KernelOK(kernel', failed') /\ PlaceOK(watch', kernel', failed')
    BY <2>1, <2>3, <2>6, FewerIsOK
  <2>8. failed' = {} => ok /\ failed = {}
    BY <2>3
  <2>9. ASSUME failed' = {}, ~overlap', NEW j \in 1..n PROVE ~Kernel!Set(kernel', Kernel!Removals[j])
    <3>1. CASE j = n
      <4>1. Single(kernel, x)
        BY <2>2, <2>8, <2>9 DEF KernelOK
      <4> QED
        BY <2>5, <2>8, <2>9, <3>1, <4>1 DEF x
    <3>2. CASE j # n
      <4>1. j \in 1..n - 1 /\ j \in 1..8
        BY <2>2, <3>2
      <4>2. ~Kernel!Set(kernel, Kernel!Removals[j])
        BY <2>1, <2>8, <2>9, <4>1 DEF Removed
      <4> QED
        BY <2>6, <4>1, <4>2, ItemsAre DEF Fewer
    <3> QED
      BY <3>1, <3>2
  <2>10. failed' \subseteq {"check", "add", "delete"}
    BY <2>3
  <2>11. CASE n < 8
    <3>1. todo' = <<n + 1, 0>> /\ server' = "stopping"
      BY <2>1, <2>11
    <3>2. todo'[1] = n + 1 /\ todo'[2] = 0 /\ todo' \in Places /\ todo'[1] \in 1..8 /\ 1..todo'[1] - 1 = 1..n
      BY <2>2, <2>11, <3>1 DEF Places
    <3>3. Removed'
      BY <2>9, <3>1, <3>2 DEF Removed
    <3> QED
      BY <2>1, <2>7, <2>10, <3>1, <3>2, <3>3
  <2>12. CASE ~(n < 8)
    <3>1. todo' = Kernel!Rest /\ server' = "stopped" /\ n = 8
      BY <2>1, <2>2, <2>12
    <3>2. Removed'
      BY <2>9, <3>1 DEF Removed
    <3> QED
      BY <2>1, <2>7, <2>10, <3>1, <3>2, RestIsOK
  <2> QED
    BY <2>11, <2>12
<1>8. ASSUME NEW killed \in BOOLEAN, Kernel!Exit(killed) PROVE KernelInv'
  <2>1. /\ server' = "down" /\ todo' = Kernel!Rest /\ watch' = Kernel!Rest
        /\ UNCHANGED <<kernel, overlap, failed>>
    BY <1>8 DEF Kernel!Exit
  <2> QED
    BY <2>1, RestIsOK DEF Removed
<1>9. CASE Kernel!Tamper
  <2>1. UNCHANGED <<server, todo, watch, overlap, failed>>
    BY <1>9 DEF Kernel!Tamper
  <2>2. kernel \in Kernels
    BY DEF KernelOK
  <2>3. Fewer(kernel', kernel)
    BY <1>9, <2>2, Tampered
  <2>4. /\ KernelOK(kernel', failed') /\ PlaceOK(watch', kernel', failed')
        /\ server = "starting" => PlaceOK(todo', kernel', failed')
    BY <2>1, <2>3, FewerIsOK
  <2>5. Removed'
    <3>1. server = "stopping" => 1..todo[1] - 1 \subseteq 1..8
      OBVIOUS
    <3>2. \A j \in 1..8 : ~Kernel!Set(kernel, Kernel!Removals[j]) => ~Kernel!Set(kernel', Kernel!Removals[j])
      BY <2>3, ItemsAre DEF Fewer
    <3> QED
      BY <2>1, <3>1, <3>2 DEF Removed
  <2> QED
    BY <2>1, <2>4, <2>5
<1>10. CASE UNCHANGED kernelVars
  BY <1>10 DEF kernelVars, Removed
<1> QED
  BY <1>1, <1>2, <1>3, <1>4, <1>5, <1>6, <1>7, <1>8, <1>9, <1>10 DEF Kernel!Next

\* What the property says of it.
LEMMA KernelRules ==
  ASSUME KernelInv
  PROVE  Kernel!RulesInOrder /\ Kernel!StopLeavesNothing
<1>1. kernel.chains["INPUT"] \in Seq(ChainRules) /\ kernel.chains["FORWARD"] \in Seq(ChainRules)
  BY DEF KernelInv, KernelOK, Kernels
<1>2. Kernel!RulesInOrder
  BY <1>1, SortedPrecedes
  DEF KernelInv, KernelOK, DropsAreSeen, AnswersFirst, Kernel!RulesInOrder, Kernel!Foreign
<1>3. Kernel!StopLeavesNothing
  <2> SUFFICES ASSUME server = "stopped", failed = {}, ~overlap, NEW i \in DOMAIN Kernel!Removals
               PROVE  ~Kernel!Set(kernel, Kernel!Removals[i])
    BY DEF Kernel!StopLeavesNothing
  <2>1. i \in 1..8
    BY ItemsAre DEF Kernel!Removals
  <2> QED
    BY <2>1 DEF KernelInv, Removed
<1> QED
  BY <1>2, <1>3

-----------------------------------------------------------------------------
(* The pumps: what is defined by recursion                                 *)

\* What holds at 0 and goes on from each number to the next holds up to N.
LEMMA GoesOn ==
  ASSUME NEW N \in Nat, NEW S, NEW g, g[0] \in S, \A k \in 1..N : g[k - 1] \in S => g[k] \in S
  PROVE  \A k \in 0..N : g[k] \in S
<1> DEFINE Bad == {k \in 0..N : g[k] \notin S}
<1> SUFFICES ASSUME Bad # {}
             PROVE  FALSE
  OBVIOUS
<1>1. Bad \subseteq Nat
  OBVIOUS
<1>2. PICK n \in Bad : \A j \in Bad : ~(<<j, n>> \in OpToRel(<, Nat))
  <2> HIDE DEF Bad
  <2> QED
    BY <1>1, NatLessThanWellFounded, WFMin, Zenon
<1>3. \A j \in Bad : j \in Nat /\ n \in Nat /\ ~(j < n)
  <2> SUFFICES ASSUME NEW j \in Bad
               PROVE  j \in Nat /\ n \in Nat /\ ~(j < n)
    OBVIOUS
  <2>1. j \in Nat /\ n \in Nat
    BY <1>1
  <2> HIDE DEF Bad
  <2> QED
    BY <1>2, <2>1, Zenon DEF OpToRel
<1>4. n \in 0..N /\ g[n] \notin S
  OBVIOUS
<1>5. n # 0
  BY <1>4
<1>6. n \in 1..N /\ n - 1 \in 0..N /\ n - 1 < n
  BY <1>4, <1>5
<1>7. n - 1 \notin Bad
  BY <1>3, <1>6
<1> QED
  BY <1>4, <1>6, <1>7

\* g begins with a and goes on by turn.
Recursive(g, N, S, a, turn) ==
  g \in [0..N -> S] /\ g[0] = a /\ \A k \in 1..N : g[k] = turn[<<k, g[k - 1]>>]

LEMMA RecursionExists ==
  ASSUME NEW N \in Nat, NEW S, NEW a \in S, NEW turn,
         \A k \in 1..N, x \in S : turn[<<k, x>>] \in S
  PROVE  \E g : Recursive(g, N, S, a, turn)
<1> DEFINE Upto(n) == {g \in [0..n -> S] : g[0] = a /\ \A k \in 1..n : g[k] = turn[<<k, g[k - 1]>>]}
           some == [n \in 0..N |-> Upto(n) # {}]
<1>1. some[0]
  <2> DEFINE g == [k \in 0..0 |-> a]
  <2>1. g \in Upto(0)
    <3>1. g[0] = a /\ g \in [0..0 -> S] /\ ~\E k \in 1..0 : TRUE
      OBVIOUS
    <3> HIDE DEF g
    <3> QED
      BY <3>1
  <2>2. 0 \in 0..N
    OBVIOUS
  <2> HIDE DEF Upto
  <2> QED
    BY <2>1, <2>2
<1>2. ASSUME NEW n \in 1..N, some[n - 1] PROVE some[n]
  <2>1. n - 1 \in 0..N /\ n \in 0..N /\ n \in Nat /\ n - 1 \in Nat /\ n > 0
    OBVIOUS
  <2>2. PICK f : f \in Upto(n - 1)
    BY <1>2, <2>1
  <2>3. f \in [0..n - 1 -> S] /\ f[0] = a /\ \A k \in 1..n - 1 : f[k] = turn[<<k, f[k - 1]>>]
    BY <2>2
  <2> HIDE DEF some
  <2> DEFINE g == [k \in 0..n |-> IF k = n THEN turn[<<n, f[n - 1]>>] ELSE f[k]]
  <2>4. f[n - 1] \in S /\ turn[<<n, f[n - 1]>>] \in S
    BY <2>1, <2>3
  <2>5. \A k \in 0..n : k # n => k \in 0..n - 1 /\ g[k] = f[k] /\ f[k] \in S
    BY <2>1, <2>3
  <2>6. g[n] = turn[<<n, f[n - 1]>>]
    BY <2>1
  <2>7. g \in [0..n -> S]
    BY <2>3, <2>4, <2>5
  <2> HIDE DEF g
  <2>8. g[0] = a
    BY <2>1, <2>3, <2>5
  <2>9. ASSUME NEW k \in 1..n PROVE g[k] = turn[<<k, g[k - 1]>>]
    <3>1. k - 1 \in 0..n /\ k - 1 # n /\ k \in 0..n
      BY <2>1
    <3>2. g[k - 1] = f[k - 1]
      BY <2>5, <3>1
    <3>3. CASE k = n
      BY <2>6, <3>2, <3>3
    <3>4. CASE k # n
      <4>1. k \in 1..n - 1
        BY <2>1, <3>4
      <4> QED
        BY <2>3, <2>5, <3>1, <3>2, <3>4, <4>1
    <3> QED
      BY <3>3, <3>4
  <2>10. g \in Upto(n)
    BY <2>7, <2>8, <2>9
  <2> QED
    BY <2>1, <2>10 DEF some
<1> HIDE DEF Upto
<1>3. \A k \in 0..N : some[k] \in {TRUE}
  <2>1. \A n \in 0..N : some[n] <=> some[n] \in {TRUE}
    OBVIOUS
  <2> HIDE DEF some
  <2>2. PICK T : T = {TRUE}
    OBVIOUS
  <2>3. \A k \in 1..N : k - 1 \in 0..N /\ k \in 0..N
    OBVIOUS
  <2>4. 0 \in 0..N
    OBVIOUS
  <2>5. some[0] \in T
    BY <1>1, <2>1, <2>2, <2>4
  <2>6. \A k \in 1..N : some[k - 1] \in T => some[k] \in T
    BY <1>2, <2>1, <2>2, <2>3
  <2>7. \A k \in 0..N : some[k] \in T
    BY <2>5, <2>6, GoesOn, Zenon
  <2> QED
    BY <2>2, <2>7
<1>4. N \in 0..N
  OBVIOUS
<1>5. Upto(N) # {}
  BY <1>3, <1>4
<1> QED
  BY <1>5 DEF Upto, Recursive

LEMMA ChosenIs ==
  ASSUME NEW S, NEW s \in Seq(S), NEW A
  PROVE  Plane!Chosen(s, A) \in Seq(S \cap A)
<1> DEFINE N == Len(s)
           T == Seq(S \cap A)
           turn == [x \in (1..N) \X T |-> IF s[x[1]] \in A THEN Append(x[2], s[x[1]]) ELSE x[2]]
           Eq(k) == k = [n \in 0..N |->
                      IF n = 0 THEN <<>>
                      ELSE IF s[n] \in A THEN Append(k[n - 1], s[n]) ELSE k[n - 1]]
<1>1. N \in Nat /\ <<>> \in T /\ \A i \in 1..N : s[i] \in S
  OBVIOUS
<1>2. ASSUME NEW i \in 1..N, NEW t \in T, s[i] \in A PROVE Append(t, s[i]) \in T
  BY <1>1, <1>2
<1> HIDE DEF T, N
<1>3. \A k \in 1..N, x \in T : turn[<<k, x>>] \in T
  BY <1>2
<1>4. \A i \in 1..N, t \in T : turn[<<i, t>>] = IF s[i] \in A THEN Append(t, s[i]) ELSE t
  OBVIOUS
<1> HIDE DEF turn
<1>5. PICK g \in [0..N -> T] : g[0] = <<>> /\ \A k \in 1..N : g[k] = turn[<<k, g[k - 1]>>]
  <2>1. N \in Nat /\ <<>> \in T
    BY <1>1
  <2>2. \E g : Recursive(g, N, T, <<>>, turn)
    BY <1>3, <2>1, RecursionExists
  <2> QED
    BY <2>2 DEF Recursive
<1>6. Eq(g)
  <2>1. ASSUME NEW n \in 0..N
        PROVE  g[n] = IF n = 0 THEN <<>>
                      ELSE IF s[n] \in A THEN Append(g[n - 1], s[n]) ELSE g[n - 1]
    <3>1. CASE n = 0
      BY <1>5, <3>1
    <3>2. CASE n # 0
      <4>1. n \in 1..N /\ n - 1 \in 0..N
        BY <1>1, <3>2
      <4>2. g[n - 1] \in T
        BY <4>1
      <4> QED
        BY <1>4, <1>5, <3>2, <4>1, <4>2
    <3> QED
      BY <3>1, <3>2
  <2>2. g = [n \in 0..N |-> g[n]]
    OBVIOUS
  <2> QED
    BY <2>1, <2>2
<1> DEFINE h == CHOOSE k : Eq(k)
<1>7. Eq(h)
  <2> HIDE DEF Eq
  <2> QED
    BY <1>6
<1>8. Plane!Chosen(s, A) = h[N]
  BY DEF Plane!Chosen, N
<1> HIDE DEF h
<1>9. h[0] = <<>> /\ \A k \in 1..N : h[k] = IF s[k] \in A THEN Append(h[k - 1], s[k]) ELSE h[k - 1]
  <2>1. 0 \in 0..N /\ \A k \in 1..N : k \in 0..N /\ k # 0
    BY <1>1
  <2> QED
    BY <1>7, <2>1
<1>10. \A k \in 0..N : h[k] \in T
  <2>1. \A k \in 1..N : h[k - 1] \in T => h[k] \in T
    BY <1>2, <1>9
  <2>2. N \in Nat /\ h[0] \in T
    BY <1>1, <1>9
  <2> QED
    BY <2>1, <2>2, GoesOn, Zenon
<1> QED
  BY <1>1, <1>8, <1>10 DEF T

-----------------------------------------------------------------------------
(* The pumps: what comes from the clients                                  *)

LEMMA PlaneConstants ==
  /\ BatchSize \in Nat /\ Link \in Nat /\ MaxMTU \in Nat /\ MinMTU \in Nat
  /\ SealOverhead \in Nat /\ SealOverhead > 0 /\ IPOverhead \in Nat /\ FECOverhead \in Nat
  /\ MinMTU + FECOverhead <= MaxMTU /\ Fec \in BOOLEAN /\ Gateway \notin TunnelClients
BY BackgroundAssumption DEF BackgroundAssumption, Plane!PlaneAssumption

\* Packets by one of S.
PacketsBy(S) == [by : S, src : Plane!Addresses, dst : Plane!Addresses, syn : BOOLEAN, len : Nat]

\* What may pass: by the client whose address it has, and inside the tunnel only to the gateway.
KeptPackets ==
  {p \in PacketsBy(TunnelClients) :
     /\ p.by = p.src
     /\ p.dst = Gateway => ~p.syn
     /\ p.dst \notin TunnelClients}

\* What players and the relay send.
EmittedPackets == {p \in PacketsBy({Gateway}) : p.dst \in TunnelClients}

Arriving ==
  Datagrams \cup {[from |-> c, kind |-> "pong", packets |-> <<>>] : c \in TunnelClients}

LEMMA ArrivingIs == \A d \in Arriving : d.packets \in Seq(PacketsBy({d.from}))
<1>1. \A d \in Datagrams : d.packets \in Seq(PacketsBy({d.from}))
  BY BackgroundAssumption DEF BackgroundAssumption, Plane!PlaneAssumption, PacketsBy
<1>2. ASSUME NEW c \in TunnelClients, NEW d, d = [from |-> c, kind |-> "pong", packets |-> <<>>]
      PROVE  d.packets \in Seq(PacketsBy({d.from}))
  BY <1>2
<1> QED
  BY <1>1, <1>2 DEF Arriving

LEMMA PassesIs ==
  ASSUME NEW c \in TunnelClients, NEW p \in PacketsBy({c}), Plane!Passes(c, p)
  PROVE  p \in KeptPackets
<1>1. p.by = c /\ p.src = c /\ p \in PacketsBy(TunnelClients)
  BY DEF Plane!Passes, PacketsBy
<1>2. Plane!Internal(p.dst) => p.dst = Gateway /\ ~p.syn
  BY DEF Plane!Passes
<1>3. p.dst \in TunnelClients \cup {Gateway} => Plane!Internal(p.dst)
  BY DEF Plane!Internal
<1> QED
  BY <1>1, <1>2, <1>3, PlaneConstants DEF KeptPackets

Batches == [out : Seq(KeptPackets), batch : Seq(KeptPackets)]

LEMMA CommittedIs ==
  ASSUME NEW c \in TunnelClients, NEW d, d.packets \in Seq(PacketsBy({c})), batch \in Seq(KeptPackets)
  PROVE  Plane!Committed(c, d) \in Batches
<1> DEFINE N == Len(d.packets)
           ps == d.packets
           start == [out |-> <<>>, batch |-> batch]
           put(k, a) == IF Plane!Passes(c, ps[k])
                        THEN [Plane!Slot(a) EXCEPT !.batch = Plane!Commit(@, ps[k])]
                        ELSE Plane!Slot(a)
           turn == [x \in (1..N) \X Batches |-> put(x[1], x[2])]
           Eq(h) == h = [n \in 0..N |-> IF n = 0 THEN start ELSE put(n, h[n - 1])]
<1>1. N \in Nat /\ start \in Batches /\ \A k \in 1..N : ps[k] \in PacketsBy({c})
  BY DEF Batches
<1>2. ASSUME NEW k \in 1..N, NEW a \in Batches PROVE put(k, a) \in Batches
  <2>1. Plane!Slot(a) \in Batches
    BY DEF Plane!Slot, Batches
  <2>2. PICK b : b = Plane!Slot(a)
    OBVIOUS
  <2>3. b \in Batches
    BY <2>1, <2>2
  <2>4. ASSUME Plane!Passes(c, ps[k]) PROVE [b EXCEPT !.batch = Plane!Commit(@, ps[k])] \in Batches
    <3>1. ps[k] \in KeptPackets
      BY <1>1, <2>4, PassesIs
    <3>2. Append(b.batch, ps[k]) \in Seq(KeptPackets)
      BY <2>3, <3>1 DEF Batches
    <3> QED
      BY <2>3, <3>2 DEF Batches, Plane!Commit
  <2> QED
    BY <2>2, <2>3, <2>4
<1>3. Plane!Committed(c, d) = (CHOOSE h : Eq(h))[N]
  BY DEF Plane!Committed
<1> HIDE DEF N, ps, start, put
<1>4. \A k \in 1..N, a \in Batches : turn[<<k, a>>] = put(k, a)
  OBVIOUS
<1> HIDE DEF turn
<1>5. PICK g \in [0..N -> Batches] : g[0] = start /\ \A k \in 1..N : g[k] = turn[<<k, g[k - 1]>>]
  <2>1. \A k \in 1..N, a \in Batches : turn[<<k, a>>] \in Batches
    BY <1>2, <1>4
  <2>2. N \in Nat /\ start \in Batches
    BY <1>1
  <2>3. \E g : Recursive(g, N, Batches, start, turn)
    BY <2>1, <2>2, RecursionExists
  <2> QED
    BY <2>3 DEF Recursive
<1>6. Eq(g)
  <2>1. ASSUME NEW n \in 0..N PROVE g[n] = IF n = 0 THEN start ELSE put(n, g[n - 1])
    <3>1. CASE n = 0
      BY <1>5, <3>1
    <3>2. CASE n # 0
      <4>1. n \in 1..N /\ n - 1 \in 0..N
        BY <1>1, <3>2
      <4>2. g[n - 1] \in Batches
        BY <4>1
      <4> QED
        BY <1>4, <1>5, <3>2, <4>1, <4>2
    <3> QED
      BY <3>1, <3>2
  <2>2. g = [n \in 0..N |-> g[n]]
    OBVIOUS
  <2> QED
    BY <2>1, <2>2
<1> DEFINE h == CHOOSE h : Eq(h)
<1>7. Eq(h)
  <2> HIDE DEF Eq
  <2> QED
    BY <1>6
<1> HIDE DEF h
<1>8. h[0] = start /\ \A k \in 1..N : h[k] = put(k, h[k - 1])
  <2>1. 0 \in 0..N /\ \A k \in 1..N : k \in 0..N /\ k # 0
    BY <1>1
  <2> QED
    BY <1>7, <2>1
<1>9. \A k \in 0..N : h[k] \in Batches
  <2>1. \A k \in 1..N : h[k - 1] \in Batches => h[k] \in Batches
    BY <1>2, <1>8
  <2>2. N \in Nat /\ h[0] \in Batches
    BY <1>1, <1>8
  <2> QED
    BY <2>1, <2>2, GoesOn, Zenon
<1> QED
  BY <1>1, <1>3, <1>9 DEF h

\* What passes goes out of the tunnel or to the gateway: nothing comes back to the device.
LEMMA NothingComesBack ==
  ASSUME NEW ps \in Seq(KeptPackets)
  PROVE  Plane!Chosen(ps, {p \in Plane!ToSet(ps) : p.dst \in TunnelClients}) = <<>>
<1> DEFINE A == {p \in Plane!ToSet(ps) : p.dst \in TunnelClients}
           s == Plane!Chosen(ps, A)
<1>1. KeptPackets \cap A = {}
  BY DEF KeptPackets
<1>2. s \in Seq(KeptPackets \cap A)
  BY ChosenIs
<1> HIDE DEF s
<1>3. s \in Seq({})
  BY <1>1, <1>2
<1>4. Len(s) \in Nat /\ \A i \in 1..Len(s) : s[i] \in {}
  BY <1>3
<1>5. Len(s) = 0
  BY <1>4
<1>6. s = <<>>
  BY <1>3, <1>5
<1> QED
  BY <1>6 DEF s

-----------------------------------------------------------------------------
(* The pumps: what goes to the clients                                     *)

Longest == Plane!TunMTU + SealOverhead + Plane!Parity

\* The length of n segments of s.
Run(n, s) == n * s

\* The kernel will cut m where it was joined.
WellJoined(m) ==
  LET n == Len(m.added) IN
  /\ n > 0 /\ \A k \in 1..n : m.added[k] > 0 /\ m.added[k] <= Longest
  /\ m.seg = 0 => n = 1 /\ m.total = m.added[1]
  /\ m.seg # 0 =>
       /\ n > 1 /\ \A k \in 1..n - 1 : m.added[k] = m.seg
       /\ m.added[n] <= m.seg /\ (m.added[n] < m.seg <=> m.closed)
       /\ m.total = Run(n - 1, m.seg) + m.added[n]

Messages ==
  {m \in [to : TunnelClients, total : Nat, seg : Nat, closed : BOOLEAN, added : Seq(Nat),
          packets : SUBSET EmittedPackets] :
     WellJoined(m) /\ \A p \in m.packets : p.dst = m.to}

LEMMA LongestIs ==
  /\ Plane!TunMTU \in Nat /\ Plane!Parity \in Nat /\ Longest \in Nat
  /\ Fec => Plane!Parity = FECOverhead
  /\ MinMTU + Plane!Parity + SealOverhead + IPOverhead <= Link => Longest + IPOverhead <= Link
<1>1. Plane!Parity \in Nat /\ Plane!Parity <= FECOverhead /\ (Fec => Plane!Parity = FECOverhead)
  BY PlaneConstants DEF Plane!Parity
<1> DEFINE least == Plane!Min2(MaxMTU, Link - SealOverhead - IPOverhead)
           mtu == least - Plane!Parity
<1>2. /\ least \in Int /\ least <= MaxMTU /\ least <= Link - SealOverhead - IPOverhead
      /\ least = MaxMTU \/ least = Link - SealOverhead - IPOverhead
  BY PlaneConstants DEF Plane!Min2
<1>3. Plane!TunMTU = IF mtu \in MinMTU..MaxMTU THEN mtu ELSE MaxMTU
  BY DEF Plane!TunMTU
<1> HIDE DEF least
<1>4. Plane!TunMTU \in Nat
  BY <1>1, <1>2, <1>3, PlaneConstants
<1>5. MinMTU + Plane!Parity + SealOverhead + IPOverhead <= Link => mtu \in MinMTU..MaxMTU
  BY <1>1, <1>2, PlaneConstants
<1> QED
  BY <1>1, <1>2, <1>3, <1>4, <1>5, PlaneConstants DEF Longest

LEMMA RunIs ==
  ASSUME NEW n \in Nat, NEW s \in Nat
  PROVE  /\ Run(n, s) \in Nat /\ Run(1, s) = s /\ Run(n + 1, s) = Run(n, s) + s
         /\ n > 0 => Run(n, s) >= s
<1>1. n * s \in Nat /\ (n + 1) * s = n * s + s /\ 1 * s = s
  OBVIOUS
<1>2. n > 0 => n * s >= s
  <2>1. ASSUME n > 0 PROVE n * s >= s
    <3>1. n - 1 \in Nat /\ (n - 1) * s \in Nat
      BY <2>1
    <3>2. n * s = (n - 1) * s + s
      BY <2>1
    <3> QED
      BY <1>1, <3>1, <3>2
  <2> QED
    BY <2>1
<1> QED
  BY <1>1, <1>2 DEF Run

LEMMA RunDivided ==
  ASSUME NEW n \in Nat, NEW s \in Nat, s > 0, NEW r \in 0..s - 1
  PROVE  (Run(n, s) + r) \div s = n /\ (Run(n, s) + r) % s = r
<1> DEFINE t == Run(n, s) + r
           q == t \div s
           e == t % s
<1>1. t \in Nat /\ Run(n, s) \in Nat
  <2>1. Run(n, s) \in Nat
    BY RunIs
  <2>2. r \in Nat
    OBVIOUS
  <2> QED
    BY <2>1, <2>2
<1>2. q \in Nat /\ e \in 0..s - 1 /\ t = s * q + e
  <2> HIDE DEF t
  <2> QED
    BY <1>1
<1> HIDE DEF q, e
<1>3. s * n + r = s * q + e
  BY <1>2 DEF Run
<1>4. ~(n < q)
  <2> SUFFICES ASSUME n < q
               PROVE  FALSE
    OBVIOUS
  <2>1. q - n - 1 \in Nat /\ s * (q - n - 1) \in Nat
    BY <1>2
  <2>2. s * q = s * n + s + s * (q - n - 1)
    BY <1>2
  <2>3. s * n \in Nat /\ s * q \in Nat
    BY <1>2
  <2> QED
    BY <1>2, <1>3, <2>1, <2>2, <2>3
<1>5. ~(q < n)
  <2> SUFFICES ASSUME q < n
               PROVE  FALSE
    OBVIOUS
  <2>1. n - q - 1 \in Nat /\ s * (n - q - 1) \in Nat
    BY <1>2
  <2>2. s * n = s * q + s + s * (n - q - 1)
    BY <1>2
  <2>3. s * n \in Nat /\ s * q \in Nat
    BY <1>2
  <2> QED
    BY <1>2, <1>3, <2>1, <2>2, <2>3
<1>6. n = q
  BY <1>2, <1>4, <1>5
<1>7. r = e
  <2>1. s * n \in Nat
    OBVIOUS
  <2> QED
    BY <1>2, <1>3, <1>6, <2>1
<1> QED
  BY <1>6, <1>7 DEF q, e, t

LEMMA SameLengths ==
  ASSUME NEW s \in Seq(Nat), NEW t \in Seq(Nat), Len(s) = Len(t), \A i \in 1..Len(s) : s[i] = t[i]
  PROVE  s = t
<1>1. DOMAIN s = 1..Len(s) /\ DOMAIN t = 1..Len(t)
  OBVIOUS
<1>2. s = [i \in 1..Len(s) |-> s[i]] /\ t = [i \in 1..Len(t) |-> t[i]]
  BY <1>1
<1> QED
  BY <1>2

LEMMA CutIs ==
  ASSUME NEW m \in Messages
  PROVE  Plane!Cut(m) = m.added
<1> DEFINE a == m.added
           n == Len(m.added)
           s == m.seg
           t == m.total
<1>1. a \in Seq(Nat) /\ n \in Nat /\ n = Len(a) /\ s \in Nat /\ t \in Nat
  BY DEF Messages
<1>2. n > 0 /\ \A k \in 1..n : a[k] > 0 /\ a[k] \in Nat
  BY <1>1 DEF Messages, WellJoined
<1>3. s = 0 => n = 1 /\ t = a[1]
  BY DEF Messages, WellJoined
<1>4. s # 0 => /\ n > 1 /\ \A k \in 1..n - 1 : a[k] = s
               /\ a[n] <= s /\ t = Run(n - 1, s) + a[n]
  BY DEF Messages, WellJoined
<1>5. Plane!Cut(m) = IF s = 0 \/ t <= s THEN <<t>>
                     ELSE [i \in 1..t \div s |-> s] \o (IF t % s = 0 THEN <<>> ELSE <<t % s>>)
  BY DEF Plane!Cut
<1> HIDE DEF a, n, s, t
<1>6. CASE s = 0
  <2>1. <<t>> \in Seq(Nat) /\ Len(<<t>>) = Len(a) /\ \A i \in 1..Len(<<t>>) : <<t>>[i] = a[i]
    <3>1. a[1] = t /\ Len(a) = 1
      BY <1>1, <1>3, <1>6
    <3>2. \A i \in 1..1 : i = 1
      OBVIOUS
    <3> QED
      BY <1>1, <3>1, <3>2
  <2>2. <<t>> = a
    BY <1>1, <2>1, SameLengths
  <2> QED
    BY <1>5, <1>6, <2>2 DEF a
<1>7. CASE s # 0
  <2>1. PICK q \in Nat : q = n - 1
    BY <1>1, <1>2
  <2>2. PICK l \in Nat : l = a[n]
    BY <1>1, <1>2
  <2>3. /\ q > 0 /\ n = q + 1 /\ l > 0 /\ l <= s /\ t = Run(q, s) + l
        /\ \A k \in 1..q : a[k] = s
    BY <1>1, <1>2, <1>4, <1>7, <2>1, <2>2
  <2>4. Run(q, s) \in Nat /\ Run(q + 1, s) = Run(q, s) + s /\ Run(q, s) >= s
    BY <1>1, <2>3, RunIs
  <2>5. ~(t <= s)
    BY <1>1, <2>3, <2>4
  <2>6. CASE l = s
    <3>1. t = Run(n, s) + 0
      BY <2>3, <2>4, <2>6
    <3>2. t \div s = n /\ t % s = 0
      <4>1. 0 \in 0..s - 1 /\ s > 0
        BY <1>1, <1>7
      <4> QED
        BY <1>1, <3>1, <4>1, RunDivided
    <3> DEFINE c == [i \in 1..n |-> s] \o <<>>
    <3>3. c \in Seq(Nat) /\ Len(c) = n /\ \A i \in 1..n : c[i] = s
      BY <1>1
    <3>4. \A i \in 1..n : a[i] = s
      <4>1. \A i \in 1..n : i \in 1..q \/ i = n
        BY <1>1, <2>3
      <4> QED
        BY <2>2, <2>3, <2>6, <4>1
    <3>5. Plane!Cut(m) = c
      BY <1>5, <1>7, <2>5, <3>2
    <3> HIDE DEF c
    <3>6. c = a
      BY <1>1, <3>3, <3>4, SameLengths
    <3> QED
      BY <3>5, <3>6 DEF a
  <2>7. CASE l # s
    <3>1. t \div s = q /\ t % s = l
      <4>1. l \in 0..s - 1 /\ s > 0
        BY <1>1, <1>7, <2>3, <2>7
      <4> QED
        BY <1>1, <2>3, <4>1, RunDivided
    <3> DEFINE b == [i \in 1..q |-> s]
               c == b \o <<l>>
    <3>2. b \in Seq(Nat) /\ Len(b) = q /\ \A i \in 1..q : b[i] = s
      BY <1>1
    <3>3. Plane!Cut(m) = c
      BY <1>5, <1>7, <2>3, <2>5, <3>1
    <3> HIDE DEF b
    <3>4. c \in Seq(Nat) /\ Len(c) = q + 1 /\ c[q + 1] = l /\ \A i \in 1..q : c[i] = b[i]
      BY <3>2
    <3> HIDE DEF c
    <3>5. \A i \in 1..Len(c) : i \in 1..q \/ i = q + 1
      BY <3>4
    <3>6. \A i \in 1..Len(c) : c[i] = a[i]
      BY <2>2, <2>3, <3>2, <3>4, <3>5
    <3>7. c = a
      BY <1>1, <2>3, <3>4, <3>6, SameLengths
    <3> QED
      BY <3>3, <3>7 DEF a
  <2> QED
    BY <2>6, <2>7
<1> QED
  BY <1>6, <1>7

LEMMA ExtendedIs ==
  ASSUME NEW m \in Messages, NEW to, NEW n \in Nat, n > 0, n <= Longest, Plane!CanAppend(m, to, n),
         NEW ps \in SUBSET EmittedPackets, \A p \in ps : p.dst = to
  PROVE  Plane!Extended(m, n, ps) \in Messages
<1> DEFINE a == m.added
           k == Len(m.added)
           s == IF m.seg = 0 THEN m.total ELSE m.seg
           e == Plane!Extended(m, n, ps)
<1>1. /\ m \in [to : TunnelClients, total : Nat, seg : Nat, closed : BOOLEAN, added : Seq(Nat),
                packets : SUBSET EmittedPackets]
      /\ WellJoined(m) /\ \A p \in m.packets : p.dst = m.to
  BY DEF Messages
<1>2. a \in Seq(Nat) /\ k \in Nat /\ k > 0 /\ \A i \in 1..k : a[i] > 0 /\ a[i] <= Longest /\ a[i] \in Nat
  BY <1>1 DEF WellJoined
<1>3. m.to = to /\ ~m.closed /\ n <= s
  BY DEF Plane!CanAppend
<1>4. PICK b \in BOOLEAN : b <=> n < s
  OBVIOUS
<1>5. m.seg = 0 => k = 1 /\ m.total = a[1] /\ s = a[1]
  BY <1>1 DEF WellJoined
<1>6. m.seg # 0 => /\ k > 1 /\ \A i \in 1..k - 1 : a[i] = s
                   /\ a[k] <= s /\ ~(a[k] < s) /\ m.total = Run(k - 1, s) + a[k] /\ s = m.seg
  BY <1>1, <1>3 DEF WellJoined
<1>7. e = [m EXCEPT !.total = @ + n, !.seg = s, !.closed = n < s, !.added = Append(@, n),
                    !.packets = @ \cup ps]
  BY DEF Plane!Extended
<1>8. (n < s) = b
  BY <1>4
<1> HIDE DEF e, s
<1>9. e = [m EXCEPT !.total = @ + n, !.seg = s, !.closed = b, !.added = Append(@, n),
                    !.packets = @ \cup ps]
  BY <1>7, <1>8, Zenon
<1>10. e = [to |-> m.to, total |-> m.total + n, seg |-> s, closed |-> b,
            added |-> Append(a, n), packets |-> m.packets \cup ps]
  BY <1>1, <1>9
<1> HIDE DEF a, k
<1>11. s \in Nat /\ s > 0 /\ (\A i \in 1..k : a[i] = s) /\ m.total = Run(k, s)
  <2>1. CASE m.seg = 0
    <3>1. k = 1 /\ m.total = a[1] /\ s = a[1]
      BY <1>5, <2>1
    <3>2. a[1] \in Nat /\ a[1] > 0 /\ \A i \in 1..k : i = 1
      BY <1>2, <3>1
    <3>3. Run(1, s) = s
      BY <3>1, <3>2, RunIs
    <3> QED
      BY <3>1, <3>2, <3>3
  <2>2. CASE m.seg # 0
    <3>1. /\ k > 1 /\ \A i \in 1..k - 1 : a[i] = s
          /\ a[k] <= s /\ ~(a[k] < s) /\ m.total = Run(k - 1, s) + a[k] /\ s = m.seg
      BY <1>6, <2>2
    <3>2. s \in Nat /\ s > 0
      BY <1>1, <2>2, <3>1
    <3>3. a[k] = s
      <4>1. k \in 1..k
        BY <1>2
      <4>2. a[k] \in Nat
        BY <1>2, <4>1
      <4> QED
        BY <3>1, <3>2, <4>2
    <3>4. \A i \in 1..k : a[i] = s
      <4>1. \A i \in 1..k : i \in 1..k - 1 \/ i = k
        BY <1>2
      <4> QED
        BY <3>1, <3>3, <4>1
    <3>5. PICK q \in Nat : q = k - 1
      BY <1>2, <3>1
    <3>6. k = q + 1
      BY <1>2, <3>5
    <3>7. Run(q + 1, s) = Run(q, s) + s
      BY <3>2, RunIs
    <3> QED
      BY <3>1, <3>2, <3>3, <3>4, <3>5, <3>6, <3>7
  <2> QED
    BY <2>1, <2>2
<1>12. /\ Append(a, n) \in Seq(Nat) /\ Len(Append(a, n)) = k + 1 /\ Append(a, n)[k + 1] = n
       /\ \A i \in 1..k : Append(a, n)[i] = a[i]
  <2>1. k = Len(a)
    BY DEF a, k
  <2> QED
    BY <1>2, <2>1
<1>13. e \in [to : TunnelClients, total : Nat, seg : Nat, closed : BOOLEAN, added : Seq(Nat),
              packets : SUBSET EmittedPackets]
  <2>1. m.total + n \in Nat /\ m.packets \cup ps \in SUBSET EmittedPackets /\ m.to \in TunnelClients
    BY <1>1
  <2> QED
    BY <1>10, <1>11, <1>12, <2>1
<1>14. /\ e.added = Append(a, n) /\ e.seg = s /\ e.total = Run(k, s) + n /\ (e.closed <=> n < s)
       /\ e.to = to /\ e.packets = m.packets \cup ps
  BY <1>3, <1>4, <1>10, <1>11
<1>15. WellJoined(e)
  <2>1. Len(e.added) = k + 1 /\ k + 1 > 1 /\ (k + 1) - 1 = k /\ e.added[k + 1] = n
    BY <1>2, <1>12, <1>14
  <2>2. \A i \in 1..k + 1 : e.added[i] > 0 /\ e.added[i] <= Longest
    <3>1. \A i \in 1..k + 1 : i \in 1..k \/ i = k + 1
      BY <1>2
    <3> QED
      BY <1>2, <1>12, <1>14, <3>1
  <2>3. \A i \in 1..k : e.added[i] = s
    BY <1>11, <1>12, <1>14
  <2> QED
    BY <1>3, <1>11, <1>14, <2>1, <2>2, <2>3 DEF WellJoined
<1>16. \A p \in e.packets : p.dst = e.to
  BY <1>1, <1>3, <1>14
<1>17. e \in Messages
  BY <1>13, <1>15, <1>16 DEF Messages
<1> QED
  BY <1>17 DEF e

Queues == [out : Seq(Messages), writer : Seq(Messages)]

LEMMA EnqueueIs ==
  ASSUME NEW acc \in Queues, NEW to \in TunnelClients, NEW n \in Nat, n > 0, n <= Longest,
         NEW ps \in SUBSET EmittedPackets, \A p \in ps : p.dst = to
  PROVE  Plane!Enqueue(acc, to, n, ps) \in Queues
<1> DEFINE w == acc.writer
           m == [to |-> to, total |-> n, seg |-> 0, closed |-> FALSE, added |-> <<n>>, packets |-> ps]
           r == Plane!Enqueue(acc, to, n, ps)
<1>1. w \in Seq(Messages) /\ acc.out \in Seq(Messages) /\ acc = [out |-> acc.out, writer |-> w]
  BY DEF Queues
<1>2. m \in Messages
  <2>1. m \in [to : TunnelClients, total : Nat, seg : Nat, closed : BOOLEAN, added : Seq(Nat),
               packets : SUBSET EmittedPackets]
    OBVIOUS
  <2>2. Len(m.added) = 1 /\ m.added[1] = n /\ m.seg = 0 /\ m.total = n /\ \A i \in 1..1 : i = 1
    OBVIOUS
  <2>3. WellJoined(m)
    BY <2>2 DEF WellJoined
  <2> QED
    BY <2>1, <2>3 DEF Messages
<1>3. \/ /\ w # <<>> /\ Plane!CanAppend(Plane!Last(w), to, n)
         /\ r = [out |-> acc.out, writer |-> Append(Plane!Front(w), Plane!Extended(Plane!Last(w), n, ps))]
      \/ r = [out |-> acc.out, writer |-> Append(w, m)]
      \/ r = [out |-> acc.out \o w, writer |-> <<m>>]
  BY <1>1 DEF Plane!Enqueue
<1> HIDE DEF w, m, r
<1>4. CASE /\ w # <<>> /\ Plane!CanAppend(Plane!Last(w), to, n)
           /\ r = [out |-> acc.out, writer |-> Append(Plane!Front(w), Plane!Extended(Plane!Last(w), n, ps))]
  <2>1. Len(w) \in 1..Len(w) /\ Len(w) \in Nat
    BY <1>1, <1>4
  <2>2. Plane!Last(w) \in Messages
    BY <1>1, <2>1 DEF Plane!Last
  <2>3. Plane!Extended(Plane!Last(w), n, ps) \in Messages
    BY <1>4, <2>2, ExtendedIs
  <2>4. Plane!Front(w) \in Seq(Messages)
    BY <1>1, <2>1 DEF Plane!Front
  <2>5. Append(Plane!Front(w), Plane!Extended(Plane!Last(w), n, ps)) \in Seq(Messages)
    BY <2>3, <2>4
  <2> QED
    BY <1>1, <1>4, <2>5 DEF Queues, r
<1>5. Append(w, m) \in Seq(Messages) /\ acc.out \o w \in Seq(Messages) /\ <<m>> \in Seq(Messages)
  BY <1>1, <1>2
<1>6. CASE r = [out |-> acc.out, writer |-> Append(w, m)]
  BY <1>1, <1>5, <1>6 DEF Queues, r
<1>7. CASE r = [out |-> acc.out \o w, writer |-> <<m>>]
  BY <1>1, <1>5, <1>7 DEF Queues, r
<1> QED
  BY <1>3, <1>4, <1>6, <1>7

LEMMA ForwardedIs ==
  ASSUME writer \in Seq(Messages), online \subseteq TunnelClients, NEW p \in EmittedPackets,
         NEW parity \in BOOLEAN, parity => Fec
  PROVE  Plane!Forwarded(p, parity) \in Queues
<1> DEFINE none == [out |-> <<>>, writer |-> writer]
           a == Plane!Enqueue(none, p.dst, p.len + SealOverhead, {p})
           b == Plane!Enqueue(a, p.dst, p.len + SealOverhead + FECOverhead, {})
<1>1. none \in Queues
  BY DEF Queues
<1>2. p.dst \in TunnelClients /\ p.len \in Nat
  BY DEF EmittedPackets, PacketsBy
<1>3. ASSUME ~(p.len > Plane!TunMTU) PROVE a \in Queues /\ (parity => b \in Queues)
  <2>1. /\ p.len + SealOverhead \in Nat /\ p.len + SealOverhead > 0
        /\ p.len + SealOverhead <= Longest
    BY <1>2, <1>3, LongestIs, PlaneConstants DEF Longest
  <2>2. parity => /\ p.len + SealOverhead + FECOverhead \in Nat
                  /\ p.len + SealOverhead + FECOverhead > 0
                  /\ p.len + SealOverhead + FECOverhead <= Longest
    BY <1>2, <1>3, LongestIs, PlaneConstants DEF Longest
  <2> HIDE DEF none
  <2>3. a \in Queues
    <3>1. {p} \in SUBSET EmittedPackets /\ \A q \in {p} : q.dst = p.dst
      OBVIOUS
    <3> QED
      BY <1>1, <1>2, <2>1, <3>1, EnqueueIs
  <2> HIDE DEF a
  <2>4. parity => b \in Queues
    <3>1. {} \in SUBSET EmittedPackets /\ \A q \in {} : q.dst = p.dst
      OBVIOUS
    <3> QED
      BY <1>2, <2>2, <2>3, <3>1, EnqueueIs
  <2> QED
    BY <2>3, <2>4
<1>4. \/ Plane!Forwarded(p, parity) = none
      \/ ~(p.len > Plane!TunMTU) /\ Plane!Forwarded(p, parity) = IF parity THEN b ELSE a
  BY DEF Plane!Forwarded
<1> QED
  BY <1>1, <1>3, <1>4

-----------------------------------------------------------------------------
(* The pumps: the invariant                                                *)

\* What has been heard may pass, what has been sent was emitted for its receiver, and so is
\* everything that is on its way to either.
PlaneInv ==
  /\ online \subseteq TunnelClients
  /\ socket \in Seq(Arriving) /\ chunk \in Seq(Arriving)
  /\ batch \in Seq(KeptPackets) /\ heard \subseteq KeptPackets
  /\ device \in Seq(EmittedPackets) /\ writer \in Seq(Messages)
  /\ \A s \in sent : s.packet \in EmittedPackets /\ s.packet.dst = s.to

LEMMA PlaneKeeps ==
  PlaneInv => Plane!AnswersComeFromOwner /\ Plane!ClientsAreApart /\ Plane!DatagramsArriveWhole
<1> SUFFICES ASSUME PlaneInv
             PROVE  Plane!AnswersComeFromOwner /\ Plane!ClientsAreApart /\ Plane!DatagramsArriveWhole
  OBVIOUS
<1>1. Plane!AnswersComeFromOwner
  BY DEF PlaneInv, KeptPackets, Plane!AnswersComeFromOwner
<1>2. Plane!ClientsAreApart
  <2>1. \A s \in sent : s.packet.by \notin TunnelClients /\ s.packet.dst = s.to
    BY PlaneConstants DEF PlaneInv, EmittedPackets, PacketsBy
  <2>2. \A p \in heard : p.dst = Gateway => ~p.syn
    BY DEF PlaneInv, KeptPackets
  <2> QED
    BY <2>1, <2>2 DEF Plane!ClientsAreApart
<1>3. ASSUME NEW i \in DOMAIN writer
      PROVE  /\ Plane!Cut(writer[i]) = writer[i].added
             /\ MinMTU + Plane!Parity + SealOverhead + IPOverhead <= Link =>
                  \A k \in DOMAIN writer[i].added : writer[i].added[k] + IPOverhead <= Link
  <2>1. writer[i] \in Messages
    BY DEF PlaneInv
  <2>2. PICK m \in Messages : m = writer[i]
    BY <2>1
  <2>3. m.added \in Seq(Nat) /\ \A k \in 1..Len(m.added) : m.added[k] <= Longest
    BY DEF Messages, WellJoined
  <2>4. \A k \in DOMAIN m.added : m.added[k] \in Nat /\ m.added[k] <= Longest
    BY <2>3
  <2>5. ASSUME MinMTU + Plane!Parity + SealOverhead + IPOverhead <= Link, NEW k \in DOMAIN m.added
        PROVE  m.added[k] + IPOverhead <= Link
    <3>1. PICK x \in Nat : x = m.added[k] /\ x <= Longest
      BY <2>4
    <3> QED
      BY <2>5, <3>1, LongestIs, PlaneConstants
  <2> QED
    BY <2>2, <2>5, CutIs
<1>4. Plane!DatagramsArriveWhole
  BY <1>3 DEF Plane!DatagramsArriveWhole
<1> QED
  BY <1>1, <1>2, <1>4

LEMMA PlaneStarts == Plane!Init => PlaneInv
BY DEF Plane!Init, PlaneInv

LEMMA PlaneRests == PlaneInv /\ UNCHANGED planeVars => PlaneInv'
BY DEF PlaneInv, planeVars

\* The kernel's part.
LEMMA DeliverIs ==
  ASSUME PlaneInv, NEW ps \in Seq(KeptPackets), Plane!Deliver(ps)
  PROVE  device' = device /\ heard' \subseteq KeptPackets
<1>1. device' = device \o Plane!Chosen(ps, {p \in Plane!ToSet(ps) : p.dst \in TunnelClients})
  BY DEF Plane!Deliver
<1>2. device' = device \o <<>>
  BY <1>1, NothingComesBack
<1>3. device' = device
  BY <1>2 DEF PlaneInv
<1>4. Plane!ToSet(ps) \subseteq KeptPackets
  BY DEF Plane!ToSet
<1>5. heard' \subseteq KeptPackets
  BY <1>4 DEF Plane!Deliver, PlaneInv
<1> QED
  BY <1>3, <1>5

\* What the writer sends.
LEMMA FlushIs ==
  ASSUME PlaneInv, NEW ms \in Seq(Messages), Plane!Flush(ms)
  PROVE  \A s \in sent' : s.packet \in EmittedPackets /\ s.packet.dst = s.to
<1>1. PICK n \in 0..Len(ms) :
        sent' = sent \cup UNION {{[to |-> m.to, packet |-> p] : p \in m.packets} :
                                 m \in Plane!ToSet(SubSeq(ms, 1, n))}
  BY DEF Plane!Flush
<1>2. Plane!ToSet(SubSeq(ms, 1, n)) \subseteq Messages
  <2>1. SubSeq(ms, 1, n) \in Seq(Messages)
    <3>1. n \in Nat /\ n <= Len(ms) /\ \A i \in 1..n : i \in 1..Len(ms)
      OBVIOUS
    <3> QED
      BY <3>1
  <2> QED
    BY <2>1 DEF Plane!ToSet
<1>3. ASSUME NEW m \in Messages, NEW p \in m.packets
      PROVE  p \in EmittedPackets /\ p.dst = m.to
  BY DEF Messages
<1>4. ASSUME NEW s \in sent' PROVE s.packet \in EmittedPackets /\ s.packet.dst = s.to
  <2>1. CASE s \in sent
    BY <2>1 DEF PlaneInv
  <2>2. CASE s \notin sent
    <3>1. PICK m \in Plane!ToSet(SubSeq(ms, 1, n)) : s \in {[to |-> m.to, packet |-> p] : p \in m.packets}
      BY <1>1, <2>2
    <3>2. PICK p \in m.packets : s = [to |-> m.to, packet |-> p]
      BY <3>1
    <3> QED
      BY <1>2, <1>3, <3>2
  <2> QED
    BY <2>1, <2>2
<1> QED
  BY <1>4

LEMMA PlaneArrives ==
  ASSUME PlaneInv,
         (\E d \in Datagrams : Plane!Arrive(d))
           \/ \E c \in TunnelClients : Plane!Pong(c) \/ Plane!Join(c) \/ Plane!Leave(c)
  PROVE  PlaneInv'
<1>1. ASSUME NEW d \in Datagrams, Plane!Arrive(d) PROVE PlaneInv'
  <2>1. d \in Arriving
    BY DEF Arriving
  <2>2. socket' \in Seq(Arriving)
    BY <1>1, <2>1 DEF PlaneInv, Plane!Arrive
  <2> QED
    BY <1>1, <2>2 DEF PlaneInv, Plane!Arrive
<1>2. ASSUME NEW c \in TunnelClients, Plane!Pong(c) PROVE PlaneInv'
  <2>1. [from |-> c, kind |-> "pong", packets |-> <<>>] \in Arriving
    BY DEF Arriving
  <2>2. socket' \in Seq(Arriving)
    BY <1>2, <2>1 DEF PlaneInv, Plane!Pong
  <2> QED
    BY <1>2, <2>2 DEF PlaneInv, Plane!Pong
<1>3. ASSUME NEW c \in TunnelClients, Plane!Join(c) PROVE PlaneInv'
  BY <1>3 DEF PlaneInv, Plane!Join
<1>4. ASSUME NEW c \in TunnelClients, Plane!Leave(c) PROVE PlaneInv'
  BY <1>4 DEF PlaneInv, Plane!Leave
<1> QED
  BY <1>1, <1>2, <1>3, <1>4

LEMMA PlaneReads ==
  ASSUME PlaneInv, Plane!ReadBatch \/ Plane!SkipDatagram
  PROVE  PlaneInv'
<1>1. CASE Plane!ReadBatch
  <2> DEFINE n == Plane!Min2(BatchSize, Len(socket))
             A == {d \in Plane!ToSet(socket) : d.kind # "empty"}
  <2>1. /\ chunk' = Plane!Chosen(SubSeq(socket, 1, n), A)
        /\ socket' = SubSeq(socket, n + 1, Len(socket))
        /\ UNCHANGED <<online, batch, device, writer, heard, sent>>
    BY <1>1 DEF Plane!ReadBatch
  <2>2. socket \in Seq(Arriving) /\ Len(socket) \in Nat
    BY DEF PlaneInv
  <2>3. n \in 0..Len(socket)
    BY <2>2, PlaneConstants DEF Plane!Min2
  <2> HIDE DEF n, A
  <2>4. SubSeq(socket, 1, n) \in Seq(Arriving) /\ SubSeq(socket, n + 1, Len(socket)) \in Seq(Arriving)
    BY <2>2, <2>3
  <2>5. Plane!Chosen(SubSeq(socket, 1, n), A) \in Seq(Arriving \cap A)
    BY <2>4, ChosenIs
  <2>6. Seq(Arriving \cap A) \subseteq Seq(Arriving)
    OBVIOUS
  <2> QED
    BY <2>1, <2>4, <2>5, <2>6 DEF PlaneInv
<1>2. CASE Plane!SkipDatagram
  <2>1. chunk' \in Seq(Arriving)
    BY <1>2 DEF PlaneInv, Plane!SkipDatagram
  <2> QED
    BY <1>2, <2>1 DEF PlaneInv, Plane!SkipDatagram
<1> QED
  BY <1>1, <1>2

LEMMA PlaneHandles ==
  ASSUME PlaneInv, Plane!HandleDatagram
  PROVE  PlaneInv'
<1> DEFINE d == Head(chunk)
           r == Plane!Committed(d.from, d)
<1>1. /\ chunk # <<>> /\ d.from \in online /\ chunk' = Tail(chunk)
      /\ \/ Plane!Deliver(r.out \o r.batch) /\ batch' = <<>>
         \/ Plane!Deliver(r.out) /\ batch' = r.batch
      /\ UNCHANGED <<online, socket, writer, sent>>
  BY DEF Plane!HandleDatagram
<1>2. d \in Arriving /\ chunk' \in Seq(Arriving)
  BY <1>1 DEF PlaneInv
<1>3. d.from \in TunnelClients
  BY <1>1 DEF PlaneInv
<1> HIDE DEF d
<1>4. r \in Batches
  <2>1. d.packets \in Seq(PacketsBy({d.from}))
    BY <1>2, ArrivingIs
  <2> QED
    BY <1>3, <2>1, CommittedIs DEF PlaneInv
<1> HIDE DEF r
<1>5. r.out \in Seq(KeptPackets) /\ r.batch \in Seq(KeptPackets) /\ r.out \o r.batch \in Seq(KeptPackets)
  BY <1>4 DEF Batches
<1>6. device' = device /\ heard' \subseteq KeptPackets
  BY <1>1, <1>5, DeliverIs
<1>7. batch' \in Seq(KeptPackets)
  <2>1. batch' = <<>> \/ batch' = r.batch
    BY <1>1
  <2>2. <<>> \in Seq(KeptPackets)
    OBVIOUS
  <2> QED
    BY <2>1, <2>2, <1>5
<1> QED
  BY <1>1, <1>2, <1>6, <1>7 DEF PlaneInv

LEMMA PlaneEmits ==
  ASSUME PlaneInv, NEW src \in Players \cup {Gateway}, NEW dst \in TunnelClients, NEW len \in Nat,
         Plane!Emit(src, dst, len)
  PROVE  PlaneInv'
<1> DEFINE p == [by |-> Gateway, src |-> src, dst |-> dst, len |-> len, syn |-> FALSE]
<1>1. p \in EmittedPackets
  BY DEF EmittedPackets, PacketsBy, Plane!Addresses
<1>2. device' = Append(device, p) /\ UNCHANGED <<online, socket, chunk, batch, writer, heard, sent>>
  BY DEF Plane!Emit
<1> HIDE DEF p
<1>3. device' \in Seq(EmittedPackets)
  BY <1>1, <1>2 DEF PlaneInv
<1> QED
  BY <1>2, <1>3 DEF PlaneInv

LEMMA PlaneForwards ==
  ASSUME PlaneInv, NEW parity \in BOOLEAN, NEW more \in BOOLEAN, Plane!HandlePacket(parity, more)
  PROVE  PlaneInv'
<1> DEFINE p == Head(device)
           r == Plane!Forwarded(p, parity)
<1>1. /\ device # <<>> /\ device' = Tail(device) /\ (parity => Fec)
      /\ \/ writer' = r.writer /\ Plane!Flush(r.out)
         \/ writer' = <<>> /\ Plane!Flush(r.out \o r.writer)
      /\ UNCHANGED <<online, socket, chunk, batch, heard>>
  BY DEF Plane!HandlePacket, Plane!ReadPacket
<1>2. p \in EmittedPackets /\ device' \in Seq(EmittedPackets)
  BY <1>1 DEF PlaneInv
<1> HIDE DEF p
<1>3. r \in Queues
  BY <1>1, <1>2, ForwardedIs DEF PlaneInv
<1> HIDE DEF r
<1>4. r.out \in Seq(Messages) /\ r.writer \in Seq(Messages) /\ r.out \o r.writer \in Seq(Messages)
  BY <1>3 DEF Queues
<1>5. \A s \in sent' : s.packet \in EmittedPackets /\ s.packet.dst = s.to
  BY <1>1, <1>4, FlushIs
<1>6. writer' \in Seq(Messages)
  <2>1. writer' = <<>> \/ writer' = r.writer
    BY <1>1
  <2>2. <<>> \in Seq(Messages)
    OBVIOUS
  <2> QED
    BY <2>1, <2>2, <1>4
<1> QED
  BY <1>1, <1>2, <1>5, <1>6 DEF PlaneInv

LEMMA PlaneSteps == PlaneInv /\ Plane!Next => PlaneInv'
<1> SUFFICES ASSUME PlaneInv, Plane!Next
             PROVE  PlaneInv'
  OBVIOUS
<1>1. ASSUME NEW src \in Players, NEW dst \in TunnelClients,
             NEW len \in {1, Plane!TunMTU, Plane!TunMTU + 1}, Plane!Emit(src, dst, len)
      PROVE  PlaneInv'
  <2>1. len \in Nat
    BY LongestIs
  <2> QED
    BY <1>1, <2>1, PlaneEmits
<1>2. ASSUME NEW dst \in TunnelClients, Plane!Emit(Gateway, dst, 1) PROVE PlaneInv'
  BY <1>2, PlaneEmits
<1>3. ASSUME NEW parity \in BOOLEAN, NEW more \in BOOLEAN, Plane!HandlePacket(parity, more)
      PROVE  PlaneInv'
  BY <1>3, PlaneForwards
<1>4. CASE Plane!ReadBatch \/ Plane!SkipDatagram
  BY <1>4, PlaneReads
<1>5. CASE Plane!HandleDatagram
  BY <1>5, PlaneHandles
<1>6. CASE (\E d \in Datagrams : Plane!Arrive(d))
             \/ \E c \in TunnelClients : Plane!Pong(c) \/ Plane!Join(c) \/ Plane!Leave(c)
  BY <1>6, PlaneArrives
<1> QED
  BY <1>1, <1>2, <1>3, <1>4, <1>5, <1>6 DEF Plane!Next

-----------------------------------------------------------------------------
(* The composition *)

BackgroundInv ==
  /\ part = "tcp" => TcpInv
  /\ part = "pool" => PoolInv
  /\ part = "certs" => CertsInv
  /\ part = "kernel" => KernelInv
  /\ part = "plane" => PlaneInv

LEMMA BackgroundInvHolds ==
  ASSUME BackgroundAssumption
  PROVE  BackgroundSpec => []BackgroundInv
<1>a. TcpAssumption /\ Pool!PoolAssumption /\ Certs!CertificatesAssumption
  BY DEF BackgroundAssumption
<1>1. ASSUME BackgroundInit PROVE BackgroundInv
  BY <1>a, <1>1, TcpInit, PoolStarts, CertsStarts, KernelStarts, PlaneStarts
  DEF BackgroundInit, BackgroundInv
<1>2. ASSUME BackgroundInv, BackgroundNext \/ UNCHANGED backgroundVars PROVE BackgroundInv'
  <2>1. ASSUME part' = "tcp" PROVE TcpInv'
    <3>1. part = "tcp" /\ (Next \/ UNCHANGED vars)
      BY <1>2, <2>1 DEF BackgroundNext, backgroundVars, TcpDoes, PoolDoes, KernelDoes, CertsDo, PlaneDoes
    <3>2. QED
      BY <1>a, <1>2, <3>1, TcpStep DEF BackgroundInv
  <2>2. ASSUME part' = "pool" PROVE PoolInv'
    <3>1. part = "pool" /\ (Pool!Next \/ UNCHANGED poolVars)
      BY <1>2, <2>2 DEF BackgroundNext, backgroundVars, TcpDoes, PoolDoes, KernelDoes, CertsDo, PlaneDoes
    <3>2. QED
      BY <1>a, <1>2, <3>1, PoolStep DEF BackgroundInv
  <2>3. ASSUME part' = "certs" PROVE CertsInv'
    <3>1. part = "certs" /\ (Certs!CertsNext \/ UNCHANGED certsVars)
      BY <1>2, <2>3 DEF BackgroundNext, backgroundVars, TcpDoes, PoolDoes, KernelDoes, CertsDo, PlaneDoes
    <3>2. QED
      BY <1>a, <1>2, <3>1, CertsStep DEF BackgroundInv
  <2>4. ASSUME part' = "kernel" PROVE KernelInv'
    <3>1. part = "kernel" /\ (Kernel!Next \/ UNCHANGED kernelVars)
      BY <1>2, <2>4 DEF BackgroundNext, backgroundVars, TcpDoes, PoolDoes, KernelDoes, CertsDo, PlaneDoes
    <3>2. QED
      BY <1>2, <3>1, KernelStep DEF BackgroundInv
  <2>5. ASSUME part' = "plane" PROVE PlaneInv'
    <3>1. part = "plane" /\ (Plane!Next \/ UNCHANGED planeVars)
      BY <1>2, <2>5 DEF BackgroundNext, backgroundVars, TcpDoes, PoolDoes, KernelDoes, CertsDo, PlaneDoes
    <3>2. QED
      BY <1>2, <3>1, PlaneSteps, PlaneRests DEF BackgroundInv
  <2>6. QED
    BY <2>1, <2>2, <2>3, <2>4, <2>5 DEF BackgroundInv
<1>3. QED
  BY <1>1, <1>2, PTL DEF BackgroundSpec

\* A TCP forwarder: Stop comes back to nothing, the end of one direction leaves the other, and
\* whatever is open is where Stop looks for it or in the hands of a handler that will see the
\* context cancelled (forward/tcp.go).
THEOREM TcpConnectionsHold ==
  ASSUME BackgroundAssumption
  PROVE  BackgroundSpec => []ConnectionsHold
<1>1. BackgroundInv => ConnectionsHold
  BY InvIsQuiet, InvKeepsBoth DEF BackgroundInv, ConnectionsHold, TcpInv
<1>2. QED
  BY <1>1, BackgroundInvHolds, PTL

\* A handler never finds the store closed: what a loop has in hand and what the workers run is
\* waited for by the Stop of its rule, and application.Stop closes the store when all rules are
\* stopped, whoever stopped them (main.go, forward.Manager, pkg/pool).
THEOREM ShutdownWaitsForHandlers ==
  ASSUME BackgroundAssumption
  PROVE  BackgroundSpec => []HandlersEndBeforeTheStore
<1>a. \A c \in PoolConns : RuleOf[c] \in Rules
  BY DEF BackgroundAssumption, Pool!PoolAssumption
<1>1. BackgroundInv => HandlersEndBeforeTheStore
  <2> SUFFICES ASSUME PoolInv, step \in {"pool", "done"}, NEW c \in PoolConns
               PROVE  conn[c] \notin {"held", "runs"}
    BY DEF BackgroundInv, HandlersEndBeforeTheStore, Pool!HandlersEndBeforeTheStore
  <2>1. \A r \in Rules : rule[r] = "stopped"
    BY DEF PoolInv, RulesFirst
  <2>2. RuleOf[c] \in Rules
    BY <1>a
  <2>3. QED
    BY <2>1, <2>2 DEF PoolInv, RulesEnd
<1>2. QED
  BY <1>1, BackgroundInvHolds, PTL

\* Whatever the tools of the host empty and whenever a command fails, the drop of new connections
\* comes before what the tools leave and the rule against traffic between clients before those
\* that forward; answers come before the drop as long as no rule is left that was to be removed;
\* and a Stop without failures takes everything with it (tunnelapp/returnpath.go).
THEOREM ServersRulesKeepTheirOrder ==
  ASSUME BackgroundAssumption
  PROVE  BackgroundSpec => []KernelRulesHold
<1>1. BackgroundInv => KernelRulesHold
  BY KernelRules DEF BackgroundInv, KernelRulesHold
<1>2. QED
  BY <1>1, BackgroundInvHolds, PTL

\* What the server hands to the games comes from the client that has the address and is no new
\* connection, what a client receives was emitted for it by the gateway's side, and what is joined
\* into one datagram is cut into the packets that were put in, none longer than the link unless it
\* cannot take the smallest MTU (tunnelapp.go, udpio.go, protocol.go).
THEOREM AnswersComeHome ==
  ASSUME BackgroundAssumption
  PROVE  BackgroundSpec => []AnswersLeadHome
<1>1. BackgroundInv => AnswersLeadHome
  BY PlaneKeeps DEF BackgroundInv, AnswersLeadHome
<1>2. QED
  BY <1>1, BackgroundInvHolds, PTL

\* Every certificate can be renewed with the key it was ordered with, and no order is completed
\* twice: whatever requests, renewals and restarts come in between, and whatever the CA answers
\* (certmanager/acme.go, manual_dns.go, service.go).
THEOREM CertificateOrdersHold ==
  ASSUME BackgroundAssumption
  PROVE  BackgroundSpec => []OrdersHold
<1>1. CertsInv => Certs!CertKeysAreBound
  BY KeptIs DEF CertsInv, Certs!CertKeysAreBound
<1>2. CertsInv => Certs!OrderCompletedOnce
  BY DEF CertsInv, Certs!OrderCompletedOnce, OrdersApart, Completing
<1>3. BackgroundInv => OrdersHold
  BY <1>1, <1>2 DEF BackgroundInv, OrdersHold, CertsInv
<1>4. QED
  BY <1>3, BackgroundInvHolds, PTL

=============================================================================
