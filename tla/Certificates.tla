---------------------------- MODULE Certificates ----------------------------
(***************************************************************************)
(* Certificates (internal/certmanager over internal/storage): uploads,     *)
(* ACME orders by DNS-01 and HTTP-01, orders in two steps with a record    *)
(* that the user adds by hand, renewals by request and by the scheduler,   *)
(* and the cache that TLS handshakes are served from.                      *)
(*                                                                         *)
(* All certificates here are of one CA with external account binding: the  *)
(* CA binds the EAB id to the first account key that registers with it,    *)
(* and orders are placed with that key only.  A certificate is due when    *)
(* little of its validity is left.                                         *)
(***************************************************************************)
EXTENDS Naturals, FiniteSets

CONSTANTS Certs,     \* ids; fresh uuids, so each is used once
          HttpCerts, \* those that are validated by HTTP-01
          Keys,      \* ACME account keys
          Orders,    \* tokens of two-step orders
          Requests,  \* requests of the panel: at most so many run at once
          Scheduler, \* the goroutine of schedulerLoop
          GlobalKid, \* the EAB id is the one of the global configuration
          Works,     \* each behaviour has the requests of one of these sets
          None

\* Of the constants; assumed where an instance is made.
CertificatesAssumption ==
  /\ HttpCerts \subseteq Certs /\ GlobalKid \in BOOLEAN
  /\ Scheduler \notin Requests /\ None \notin Certs \cup Keys \cup Orders

VARIABLES
  certs,   \* id -> record, or None
  used,    \* ids that were given out
  cache,   \* id -> the validity of the pair in tlsCache, or None
  held,    \* two-step orders that wait for the user, with the key
  stored,  \* the account key kept in the settings for the EAB id
  memory,  \* and in eabAccountKeys
  bound,   \* the key that the CA has bound the EAB id to
  port80,  \* the job whose temporary server listens on port 80
  jobs,    \* requests and the scheduler's renewals
  round,   \* certificates that the scheduler has yet to look at
  calm,    \* from here on the CA answers, and no user asks for anything
  work     \* the kinds of request of this behaviour

certVars == <<certs, used, cache, held, stored, memory, bound, port80, jobs, round, calm, work>>

Workers == Requests \cup {Scheduler}
Steps == {"none", "register", "order", "persist", "save", "cache", "evict", "fill"}
NoJob == [at |-> "none", op |-> "none", cert |-> None, copy |-> None, key |-> None, ok |-> TRUE,
          order |-> None]

\* From the CA through a provider or the user's hand, or uploaded.
Record == [source : {"acme", "hand", "upload"}, auto : BOOLEAN, due : BOOLEAN, key : Keys \cup {None}]
Kept == {c \in Certs : certs[c] # None}
IsDue(c) == c \in Kept /\ certs[c].source # "upload" /\ certs[c].auto /\ certs[c].due

CertsInit ==
  /\ certs = [c \in Certs |-> None] /\ used = {} /\ cache = [c \in Certs |-> None]
  /\ held = [o \in Orders |-> None]
  /\ stored = None /\ memory = None /\ bound = None
  /\ port80 = None
  /\ jobs = [w \in Workers |-> NoJob] /\ round = {}
  /\ calm = FALSE /\ work \in Works

-----------------------------------------------------------------------------
(* Jobs *)

Job(op, c, at, copy, key) ==
  [at |-> at, op |-> op, cert |-> c, copy |-> copy, key |-> key, ok |-> TRUE, order |-> None]
Goes(w, op, c, at, copy, key) ==
  jobs[w] = NoJob /\ jobs' = [jobs EXCEPT ![w] = Job(op, c, at, copy, key)]
Continues(w, at) == jobs' = [jobs EXCEPT ![w].at = at]

\* The deferred stop of the temporary server comes after all else.
Ends(w) ==
  /\ jobs' = [jobs EXCEPT ![w] = NoJob]
  /\ port80' = IF port80 = w THEN None ELSE port80

\* tryStartTemporaryHTTP80: if another listens, nothing is started.
Listens(w, c) == port80' = IF c \in HttpCerts /\ port80 = None THEN w ELSE port80

\* A key that is nowhere else; there are as many as there are Keys.
FreshKeys ==
  LET free == Keys \ ({bound, stored, memory} \cup {jobs[w].key : w \in Workers}
                       \cup {certs[c].key : c \in Kept} \cup {held[o] : o \in Orders})
  IN IF free = {} THEN {} ELSE {CHOOSE k \in free : TRUE}

\* resolveAccountKey and FindAccountKeyByEAB; then the key in memory, or a new one.
Resolved ==
  LET keys == {certs[c].key : c \in Kept} \ {None}
  IN CASE stored # None -> {stored}
       [] stored = None /\ keys # {} -> keys
       [] OTHER -> IF memory # None THEN {memory} ELSE FreshKeys

Asks(w, kind) == ~calm /\ kind \in work /\ w \in Requests

\* A fresh uuid.
FreshCert(c) == c \notin used /\ used' = used \cup {c}

Cert(source, auto, due, key) == [source |-> source, auto |-> auto, due |-> due, key |-> key]

-----------------------------------------------------------------------------
(* Requests *)

\* Upload, up to SaveCertificate.
Upload(w, c) ==
  /\ Asks(w, "upload") /\ FreshCert(c)
  /\ \E due \in BOOLEAN :
       Goes(w, "upload", c, "save", Cert("upload", FALSE, due, None), None)
  /\ UNCHANGED <<certs, cache, held, stored, memory, bound, port80, round, calm, work>>

\* ApplyACME, up to ObtainCertificate.
ApplyACME(w, c) ==
  /\ Asks(w, "apply") /\ FreshCert(c)
  /\ \E auto \in BOOLEAN, key \in Resolved :
       Goes(w, "apply", c, "register", Cert("acme", auto, FALSE, None), key)
  /\ Listens(w, c)
  /\ UNCHANGED <<certs, cache, held, stored, memory, bound, round, calm, work>>

\* The key of a renewal: that of the certificate's own record.
RenewalKeys(c) == IF certs[c].key # None THEN {certs[c].key} ELSE Resolved

\* Renew, up to ObtainCertificate: the record is read.  There is no provider for one
\* that was ordered by hand: it fails, and is saved with the error.
Renew(w, c) ==
  /\ c \in Kept
  /\ \/ /\ certs[c].source = "acme"
        /\ \E key \in RenewalKeys(c) : Goes(w, "renew", c, "register", certs[c], key)
        /\ Listens(w, c)
     \/ /\ certs[c].source = "hand" /\ jobs[w] = NoJob
        /\ jobs' = [jobs EXCEPT ![w] = [Job("renew", c, "save", certs[c], None) EXCEPT !.ok = FALSE]]
        /\ UNCHANGED port80

RenewByRequest(w, c) ==
  /\ Asks(w, "renew") /\ Renew(w, c)
  /\ UNCHANGED <<certs, used, cache, held, stored, memory, bound, round, calm, work>>

\* PrepareManualDNS of the service, up to that of the ACMEManager.
PrepareManualDNS(w, o) ==
  /\ Asks(w, "by hand") /\ held[o] = None
  /\ \A v \in Workers : jobs[v].order # o
  /\ jobs[w] = NoJob
  /\ \E key \in Resolved :
       jobs' = [jobs EXCEPT ![w] = [Job("prepare", None, "register", None, key) EXCEPT !.order = o]]
  /\ UNCHANGED <<certs, used, cache, held, stored, memory, bound, port80, round, calm, work>>

\* Mutant of Taken: the order is left for another try.
TakenLeft(o) == held

\* manualStore.take
Taken(o) == [held EXCEPT ![o] = None]

\* CompleteManualDNS, up to registerClient.
CompleteManualDNS(w, o, c) ==
  /\ Asks(w, "by hand") /\ FreshCert(c) /\ held[o] # None
  /\ held' = Taken(o)
  /\ jobs[w] = NoJob
  /\ \E auto \in BOOLEAN :
       jobs' = [jobs EXCEPT ![w] = [Job("complete", c, "register", Cert("hand", auto, FALSE, held[o]),
                                        held[o]) EXCEPT !.order = o]]
  /\ UNCHANGED <<certs, cache, stored, memory, bound, port80, round, calm, work>>

\* sweepExpired, and take of an order that is too old.
OrderExpires(o) ==
  /\ held[o] # None /\ held' = [held EXCEPT ![o] = None]
  /\ UNCHANGED <<certs, used, cache, stored, memory, bound, port80, jobs, round, calm, work>>

\* Update, up to SaveCertificate: the automatic renewal is switched, or the pair replaced.
UpdateCert(w, c) ==
  /\ Asks(w, "update") /\ c \in Kept
  /\ \E copy \in {[certs[c] EXCEPT !.auto = ~@], [certs[c] EXCEPT !.due = FALSE]} :
       Goes(w, "update", c, "save", copy, None)
  /\ UNCHANGED <<certs, used, cache, held, stored, memory, bound, port80, round, calm, work>>

\* Delete, up to evictCache.
DeleteCert(w, c) ==
  /\ Asks(w, "delete") /\ c \in Kept
  /\ certs' = [certs EXCEPT ![c] = None]
  /\ Goes(w, "delete", c, "evict", None, None)
  /\ UNCHANGED <<used, cache, held, stored, memory, bound, port80, round, calm, work>>

Evict(w) ==
  /\ jobs[w].at = "evict"
  /\ cache' = [cache EXCEPT ![jobs[w].cert] = None]
  /\ Ends(w)
  /\ UNCHANGED <<certs, used, held, stored, memory, bound, round, calm, work>>

\* GetTLSCertificate: a pair that is not in the cache is read from the store.
Handshake(w, c) ==
  /\ Asks(w, "handshake") /\ c \in Kept /\ cache[c] = None
  /\ Goes(w, "handshake", c, "fill", certs[c], None)
  /\ UNCHANGED <<certs, used, cache, held, stored, memory, bound, port80, round, calm, work>>

Validity(copy) == IF copy.due THEN "due" ELSE "fresh"

\* The cache is set in GetTLSCertificate, and by updateCache after a save.
FillCache(w) ==
  /\ jobs[w].at \in {"fill", "cache"}
  /\ cache' = [cache EXCEPT ![jobs[w].cert] = Validity(jobs[w].copy)]
  /\ Ends(w)
  /\ UNCHANGED <<certs, used, held, stored, memory, bound, round, calm, work>>

-----------------------------------------------------------------------------
(* The CA *)

\* After registerClient: the next step, or the way out of each kind of request.
Registered(w, key) ==
  /\ memory' = key
  /\ jobs' = [jobs EXCEPT ![w].at = "order", ![w].key = key]
  /\ UNCHANGED port80
Refused(w) ==
  /\ UNCHANGED memory
  /\ IF jobs[w].op = "renew"
       THEN jobs' = [jobs EXCEPT ![w].at = "save", ![w].ok = FALSE] /\ UNCHANGED port80
       ELSE Ends(w)

\* registerClient.  GetReg finds the account of a key that is bound; Register binds an id
\* that has none.  The CA refuses another key, and where its message says that there is an
\* account already the code goes on with that key.  An answer may be lost.
Register(w) ==
  /\ jobs[w].at = "register"
  /\ LET key == jobs[w].key IN
       \/ /\ bound \in {None, key} /\ bound' = key
          /\ Registered(w, key)
       \/ /\ bound \notin {None, key}
          /\ Registered(w, key) /\ UNCHANGED bound
       \/ /\ ~calm \/ bound \notin {None, key}
          /\ bound' \in {bound, IF bound = None THEN key ELSE bound}
          /\ Refused(w)
  /\ UNCHANGED <<certs, used, cache, held, stored, round, calm, work>>

\* solveAuthorization: the challenge of HTTP-01 is answered while port 80 is served.
Solvable(w) == jobs[w].cert \in HttpCerts => port80 # None

\* The order, its challenges and the certificate, with the bound key.  A two-step order
\* stops at its challenges.
OrderSucceeds(w) ==
  /\ jobs[w].at = "order" /\ jobs[w].op # "complete"
  /\ jobs[w].key = bound /\ Solvable(w)
  /\ held' = IF jobs[w].op = "prepare" THEN [held EXCEPT ![jobs[w].order] = jobs[w].key] ELSE held
  /\ jobs' = [jobs EXCEPT ![w].at = "persist"]
  /\ UNCHANGED <<certs, used, cache, stored, memory, bound, port80, round, calm, work>>

\* CompleteManualDNS of the ACME manager, once registered: the challenges are accepted and
\* the order is finalized.
ChallengesPass(w) ==
  /\ jobs[w].at = "order" /\ jobs[w].op = "complete"
  /\ jobs[w].key = bound /\ Solvable(w)
  /\ jobs' = [jobs EXCEPT ![w].at = "save"]
  /\ UNCHANGED <<certs, used, cache, held, stored, memory, bound, port80, round, calm, work>>

OrderFails(w) ==
  /\ jobs[w].at = "order"
  /\ calm => jobs[w].key # bound \/ ~Solvable(w)
  /\ IF jobs[w].op = "complete"
       THEN Ends(w)
       ELSE jobs' = [jobs EXCEPT ![w].at = "persist", ![w].ok = FALSE] /\ UNCHANGED port80
  /\ UNCHANGED <<certs, used, cache, held, stored, memory, bound, round, calm, work>>

\* persistAccountKey: whatever became of the order, for the EAB id of the configuration.
Persist(w) ==
  LET j == jobs[w]
  IN /\ j.at = "persist"
     /\ stored' = IF GlobalKid THEN j.key ELSE stored
     /\ IF j.op = "renew" \/ (j.op = "apply" /\ j.ok)
          THEN /\ jobs' = [jobs EXCEPT ![w].at = "save", ![w].copy.key = j.key]
               /\ UNCHANGED port80
          ELSE Ends(w)
     /\ UNCHANGED <<certs, used, cache, held, memory, bound, round, calm, work>>

\* Mutant of Renewed: the validity is not read from the new certificate.
RenewedAsItWas(j) == j.copy

\* A renewal that succeeded has the new certificate in its copy.
Renewed(j) == IF j.op = "renew" /\ j.ok THEN [j.copy EXCEPT !.due = FALSE] ELSE j.copy

\* SaveCertificate writes the copy whole, and the account key of the EAB id with it.  A
\* failed renewal saves the copy with its error, and leaves the cache alone.
Save(w) ==
  LET j == jobs[w]
      copy == Renewed(j)
  IN /\ j.at = "save"
     /\ certs' = [certs EXCEPT ![j.cert] = copy]
     /\ stored' = IF copy.key # None THEN copy.key ELSE stored
     /\ IF j.ok THEN /\ jobs' = [jobs EXCEPT ![w] = Job("none", j.cert, "cache", copy, None)]
                     /\ UNCHANGED port80
                ELSE Ends(w)
     /\ UNCHANGED <<used, cache, held, memory, bound, round, calm, work>>

-----------------------------------------------------------------------------
(* The scheduler *)

\* CheckAndRenewAll reads the list...
StartRound ==
  /\ round = {} /\ jobs[Scheduler] = NoJob /\ Kept # {}
  /\ round' = {c \in Kept : IsDue(c)} /\ round' # {}
  /\ UNCHANGED <<certs, used, cache, held, stored, memory, bound, port80, jobs, calm, work>>

\* ... and renews each; one that is gone by then, or fails, does not stop the others.
NextRenewal(c) ==
  /\ c \in round /\ jobs[Scheduler] = NoJob
  /\ round' = round \ {c}
  /\ IF c \in Kept /\ certs[c].source # "upload" THEN Renew(Scheduler, c) ELSE UNCHANGED <<jobs, port80>>
  /\ UNCHANGED <<certs, used, cache, held, stored, memory, bound, calm, work>>

\* Time passes, for every pair of the certificate that there is.
Ages(c) ==
  /\ ~calm /\ "age" \in work /\ c \in Kept /\ ~certs[c].due
  /\ certs' = [certs EXCEPT ![c].due = TRUE]
  /\ cache' = [cache EXCEPT ![c] = IF @ = None THEN None ELSE "due"]
  /\ jobs' = [w \in Workers |-> IF jobs[w].cert = c /\ jobs[w].copy # None
                                 THEN [jobs[w] EXCEPT !.copy.due = TRUE] ELSE jobs[w]]
  /\ UNCHANGED <<used, held, stored, memory, bound, port80, round, calm, work>>

Calms ==
  /\ ~calm /\ "calm" \in work /\ calm' = TRUE
  /\ UNCHANGED <<certs, used, cache, held, stored, memory, bound, port80, jobs, round, work>>

\* A restart, or a crash: what is in memory is lost.
RestartCerts ==
  /\ ~calm /\ "restart" \in work
  /\ jobs' = [w \in Workers |-> NoJob] /\ round' = {} /\ port80' = None
  /\ cache' = [c \in Certs |-> None] /\ held' = [o \in Orders |-> None] /\ memory' = None
  /\ UNCHANGED <<certs, used, stored, bound, calm, work>>

Step(w) ==
  \/ Register(w) \/ OrderSucceeds(w) \/ ChallengesPass(w) \/ OrderFails(w) \/ Persist(w) \/ Save(w)
  \/ FillCache(w) \/ Evict(w)

CertsNext ==
  \/ \E w \in Workers : Step(w)
  \/ \E w \in Requests :
       \/ \E c \in Certs :
            \/ Upload(w, c) \/ ApplyACME(w, c) \/ RenewByRequest(w, c) \/ UpdateCert(w, c)
            \/ DeleteCert(w, c) \/ Handshake(w, c)
            \/ \E o \in Orders : CompleteManualDNS(w, o, c)
       \/ \E o \in Orders : PrepareManualDNS(w, o)
  \/ \E o \in Orders : OrderExpires(o)
  \/ StartRound \/ \E c \in Certs : NextRenewal(c)
  \/ \E c \in Certs : Ages(c)
  \/ Calms \/ RestartCerts

\* Every request goes on, and the scheduler makes its rounds.
CertsFairness ==
  /\ \A w \in Workers : WF_certVars(Step(w))
  /\ WF_certVars(StartRound) /\ WF_certVars(\E c \in Certs : NextRenewal(c))

CertsSpec == CertsInit /\ [][CertsNext]_certVars /\ CertsFairness

-----------------------------------------------------------------------------
(* Properties *)

CertsTypeOK ==
  /\ certs \in [Certs -> Record \cup {None}] /\ Kept \subseteq used /\ used \subseteq Certs
  /\ cache \in [Certs -> {"due", "fresh", None}]
  /\ held \in [Orders -> Keys \cup {None}]
  /\ {stored, memory, bound} \subseteq Keys \cup {None}
  /\ port80 \in Workers \cup {None}
  /\ \A w \in Workers : jobs[w].at \in Steps
  /\ round \subseteq Certs /\ calm \in BOOLEAN

\* A certificate's account key is the one that the CA has bound, so that it can always be
\* renewed: also when requests register in each other's way, and when the key kept in the
\* settings is another (ObtainCertificate, persistAccountKey, SaveCertificate).
CertKeysAreBound == \A c \in Kept : certs[c].source # "upload" => certs[c].key = bound

\* An order in two steps is completed once, by one request (manualStore.take).
OrderCompletedOnce ==
  \A o \in Orders : \A v, w \in Workers :
    /\ jobs[v].op = "complete" /\ jobs[v].order = o
    /\ jobs[w].op = "complete" /\ jobs[w].order = o
    => v = w /\ held[o] = None

\* Once the CA answers and the users are quiet, every certificate that is to be renewed
\* automatically is, and stays so, unless it was ordered by hand: whatever renewals failed
\* before, whatever requests were under way, and whatever was deleted since the round began
\* (CheckAndRenewAll).
DueIsRenewed == \A c \in Certs : <>[]calm => <>[](IsDue(c) => certs[c].source = "hand")

\* "Every certificate with automatic renewal and little validity left is renewed"
\* (CheckAndRenewAll): also one that was ordered by hand.
AutoIsRenewed == \A c \in Certs : calm ~> []~IsDue(c)

\* The key that the CA has bound is never lost, so that certificates can be had again after
\* a restart or the deletion of all of them (SaveCertificate, registerClient).
KeySurvives ==
  bound # None /\ (\A w \in Workers : jobs[w] = NoJob) => bound \in Resolved \cup {memory}

\* When no request is under way, the cache has what the store has (GetTLSCertificate).
CacheFollowsStore ==
  (\A w \in Workers : jobs[w] = NoJob) =>
    \A c \in Certs : cache[c] # None => c \in Kept /\ cache[c] = Validity(certs[c])

=============================================================================
