----------------------------- MODULE RuleShape -----------------------------
(***************************************************************************)
(* What a rule may look like (internal/models, Manager.AddRule and         *)
(* UpdateRule): a request that creates a rule is normalised and validated, *)
(* one that changes it sets some fields of the stored rule, which is then  *)
(* normalised and validated by a function of its own, and a comparison of  *)
(* the two decides whether the rule's forwarders are started anew.         *)
(*                                                                         *)
(* A text is a value and whether blanks surround it.  Of a TLS             *)
(* configuration, "cert" is a certificate's id that resolves or does not,  *)
(* a pasted pair, or something that is no pair.                            *)
(***************************************************************************)
EXTENDS Integers

CONSTANTS Values,  \* bound: the values that a request may give a field
          None

VARIABLES
  rule,   \* the stored rule, or None
  runs,   \* what its forwarders were started with, or None
  starts  \* flips when they are started or stopped
vars == <<rule, runs, starts>>

MaxPort == 65535
Text(V) == V \X BOOLEAN
Trim(t) == <<t[1], FALSE>>

Fields == DOMAIN Values

Plain ==
  [name |-> <<"n", FALSE>>, listen |-> <<"", FALSE>>, proto |-> <<"udp", FALSE>>,
   target |-> <<"t", TRUE>>, lport |-> 80, tport |-> 81, proxy |-> FALSE,
   transparent |-> FALSE, nethernet |-> FALSE, enabled |-> TRUE, tls |-> None]

\* Of the constants; assumed where an instance is made: the type of each field.
Words == {"n", "", "udp", "t", "tcp", "0.0.0.0"}
           \cup {t[1] : t \in UNION {Values[f] : f \in {"name", "listen", "proto", "target"}}}
TlsConfig == [on : BOOLEAN, cert : {"none", "id", "gone", "pair"}, blanks : BOOLEAN,
              data : Int]
Records ==
  [name : Text(Words), listen : Text(Words), proto : Text(Words), target : Text(Words),
   lport : Int, tport : Int, proxy : BOOLEAN, transparent : BOOLEAN, nethernet : BOOLEAN,
   enabled : BOOLEAN, tls : {None} \cup TlsConfig]
ShapeAssumption ==
  /\ Fields = DOMAIN Plain
  /\ \A f \in Fields : \A v \in Values[f] : [Plain EXCEPT ![f] = v] \in Records

Set(r, f, v, g, w) == [[r EXCEPT ![f] = v] EXCEPT ![g] = w]
-----------------------------------------------------------------------------
NormalizeListenAddr(t) == IF t[1] = "" THEN <<"0.0.0.0", FALSE>> ELSE Trim(t)
NormalizeTls(t) == IF t = None THEN None ELSE [t EXCEPT !.blanks = FALSE]

ValidPort(p) == p \in 1 .. MaxPort
ValidName(t) == t[1] \notin {"", "too long"}

NetherNetPorts(port, t) ==
  [signal |-> port, data |-> IF t = None THEN port ELSE IF t.data = 0 THEN port ELSE t.data]

ValidTls(t) ==
  t # None =>
    /\ t.data \in 0 .. MaxPort
    /\ t.on => t.cert \in {"id", "gone", "pair"}

(* checkNetherNetCertRef                                                   *)
CertRef(r) ==
  (r.nethernet /\ r.tls # None) => (r.tls.on => r.tls.cert # "gone")

(* ValidateCreateRuleRequest: the request as it is stored, and whether it  *)
(* is accepted.                                                            *)
NormalRequest(q) ==
  [q EXCEPT !.name = Trim(@), !.target = Trim(@), !.listen = NormalizeListenAddr(@),
            !.proto = IF @[1] = "" THEN <<"tcp", FALSE>> ELSE Trim(@),
            !.tls = NormalizeTls(@)]

ValidRequest(q) ==
  LET n == NormalRequest(q) IN
  /\ ValidName(n.name) /\ n.target[1] # ""
  /\ ValidPort(n.lport) /\ ValidPort(n.tport)
  /\ n.proto[1] \in {"tcp", "udp", "both"}
  /\ ~(n.transparent /\ n.proxy)
  /\ n.transparent => n.proto[1] = "udp"
  /\ n.nethernet => /\ n.transparent
                    /\ n.proto[1] = "udp"
                    /\ NetherNetPorts(n.lport, n.tls).data <= MaxPort
  /\ ValidTls(q.tls)
  /\ CertRef(n)

(* applyUpdate replaces the TLS configuration as a whole; then             *)
(* ValidateForwardRule looks at the merged rule.                           *)
NormalRule(r) ==
  [r EXCEPT !.name = Trim(@), !.target = Trim(@), !.listen = NormalizeListenAddr(@),
            !.proto = Trim(@), !.tls = NormalizeTls(@)]

ValidRule(r) ==
  LET n == NormalRule(r) IN
  /\ ValidName(n.name) /\ n.target[1] # ""
  /\ ValidPort(n.lport) /\ ValidPort(n.tport)
  /\ n.proto[1] \in {"tcp", "udp", "both"}
  /\ ~(n.transparent /\ n.proxy)
  /\ n.transparent => n.proto[1] = "udp"
  /\ n.nethernet => /\ n.transparent
                    /\ n.proto[1] = "udp"
                    /\ NetherNetPorts(n.lport, n.tls).data <= MaxPort
  /\ ValidTls(n.tls)
  /\ CertRef(n)
-----------------------------------------------------------------------------
(* What the forwarders, the gateway and the multiplexer read of a rule.    *)
Config(r) == [f \in Fields \ {"name", "enabled"} |-> r[f]]

SameTls(a, b) ==
  IF a = None \/ b = None THEN a = b
  ELSE a.on = b.on /\ a.cert = b.cert /\ a.blanks = b.blanks /\ a.data = b.data

\* Mutant of RequiresRestart: the certificate of NetherNet is left out.
RequiresRestartNoTls(b, a) ==
  \/ b.enabled # a.enabled
  \/ NormalizeListenAddr(b.listen) # NormalizeListenAddr(a.listen)
  \/ b.lport # a.lport \/ Trim(b.proto) # Trim(a.proto)
  \/ b.target # a.target \/ b.tport # a.tport
  \/ b.proxy # a.proxy \/ b.transparent # a.transparent \/ b.nethernet # a.nethernet

\* requiresForwarderRestart
RequiresRestart(b, a) ==
  \/ b.enabled # a.enabled
  \/ NormalizeListenAddr(b.listen) # NormalizeListenAddr(a.listen)
  \/ b.lport # a.lport \/ Trim(b.proto) # Trim(a.proto)
  \/ b.target # a.target \/ b.tport # a.tport
  \/ b.proxy # a.proxy \/ b.transparent # a.transparent \/ b.nethernet # a.nethernet
  \/ ~SameTls(b.tls, a.tls)

\* startForwarders, which may fail.
StartForwarders(r) ==
  /\ starts' = ~starts
  /\ runs' \in IF r.enabled THEN {None, Config(r)} ELSE {None}

Init ==
  /\ rule = None
  /\ runs = None
  /\ starts = FALSE

AddRule ==
  /\ rule = None
  /\ \E f, g \in Fields : \E v \in Values[f], w \in Values[g] :
       LET q == Set(Plain, f, v, g, w) IN
       /\ ValidRequest(q)
       /\ rule' = NormalRequest(q)
       /\ StartForwarders(rule')

UpdateRule ==
  /\ rule # None
  /\ \E f, g \in Fields : \E v \in Values[f], w \in Values[g] :
       LET next == Set(rule, f, v, g, w) IN
       /\ v # None /\ w # None
       /\ ValidRule(next)
       /\ rule' = NormalRule(next)
       /\ IF RequiresRestart(rule, rule') THEN StartForwarders(rule')
          ELSE UNCHANGED <<runs, starts>>

Next == AddRule \/ UpdateRule

Spec == Init /\ [][Next]_vars
-----------------------------------------------------------------------------
(* However a rule was changed, one field or two at a time, it is a rule    *)
(* that AddRule would have made: ValidateForwardRule asks of the merged    *)
(* rule all that ValidateCreateRuleRequest asks ("an update may change     *)
(* transparent or protocol alone, and checks field by field miss it").     *)
StoredIsCreatable ==
  rule # None => ValidRequest(rule) /\ NormalRequest(rule) = rule

(* What runs was started with what is stored, field by field, certificate  *)
(* included: requiresForwarderRestart forgets nothing that is read.        *)
RunsWhatIsStored == runs # None => runs = Config(rule)

(* Players are not cut off by a change that changes nothing for them:      *)
(* blanks around a text or a pasted key, another name, a default spelled   *)
(* out (Normalize: "or a change of blanks would restart the data plane").  *)
OnlyChangesRestart ==
  rule # None /\ Config(rule') = Config(rule) /\ rule'.enabled = rule.enabled
    => starts' = starts
=============================================================================
