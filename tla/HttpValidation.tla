--------------------------- MODULE HttpValidation ---------------------------
(***************************************************************************)
(* An http-01 or tls-alpn-01 validation (challenge/http.go, tlsalpn.go)    *)
(* with the network policy of challenge/network.go.  Each connection       *)
(* resolves its host afresh, and the resolver may answer differently every *)
(* time; addresses are tried in turn; http follows redirects.              *)
(***************************************************************************)
EXTENDS Integers, Sequences

CONSTANTS
  Hosts,        \* host names; those in BadHosts are not valid names
  BadHosts, Identifiers,
  Addresses,    \* [ip, mapped, zone]; mapped is the IPv4-mapped spelling of ip
  Public, Allowed, \* ips that PublicAddress and AllowedNetworks contain
  Answers,      \* what the resolver may return: sequences of addresses
  Ports, TestPort,
  MaxRedirects, MaxAddresses

(* What is assumed of the constants; MCValidators has it evaluated. *)
HttpAssumption ==
  /\ BadHosts \subseteq Hosts /\ Answers \subseteq Seq(Addresses)
  /\ Identifiers \subseteq Hosts \cup Addresses
  /\ {80, 443} \subseteq Ports /\ MaxRedirects \in Nat /\ MaxAddresses \in Nat \ {0}

VARIABLES
  kind,     \* the challenge type
  pc,
  target,   \* [scheme, host, port, plain] of the request; a zero port is the default
  requests, \* how many were begun, len(via) of the code at a redirect
  port,     \* where to dial
  pending,  \* the addresses of this resolution that were not tried yet
  verdict,
  dialled,  \* history: the destinations of this connection, [ip, port]
  refuted   \* history: something else than the network failed

vars == <<kind, pc, target, requests, port, pending, verdict, dialled, refuted>>

Kinds == {"http-01", "tls-alpn-01"}
Targets == [scheme : {"http", "https", "other"}, host : Hosts \cup Addresses,
            port : Ports \cup {0}, plain : BOOLEAN]

(* No validation makes more requests than the first and its redirects. *)
TypeOK ==
  /\ kind \in Kinds /\ target \in Targets
  /\ pc \in {"check", "request", "resolve", "dial", "proof", "done"}
  /\ requests \in 0..MaxRedirects + 1
  /\ port \in Ports \cup {0, TestPort}
  /\ pending \in Seq(Addresses)
  /\ verdict \in {"none", "valid", "final", "retry"} /\ (verdict # "none") = (pc = "done")
  /\ dialled \subseteq [ip : {a.ip : a \in Addresses}, port : Ports \cup {TestPort}]
  /\ refuted \in BOOLEAN

Init ==
  /\ kind \in Kinds /\ pc = "check"
  /\ \E i \in Identifiers : target = [scheme |-> "http", host |-> i, port |-> 0, plain |-> TRUE]
  /\ requests = 0 /\ port = 0 /\ pending = <<>> /\ verdict = "none"
  /\ dialled = {} /\ refuted = FALSE

(* incorrect: the validation has failed for good. *)
Refute ==
  /\ pc' = "done" /\ verdict' = "final" /\ refuted' = TRUE
  /\ pending' = <<>>
  /\ UNCHANGED <<kind, target, requests, port, dialled>>

(* retryable, for a failure without a problem in its chain. *)
\* Mutant: every failure of a request is final.
RetryNothing ==
  /\ pc' = "done" /\ verdict' = "final"
  /\ pending' = <<>>
  /\ UNCHANGED <<kind, target, requests, port, dialled, refuted>>
Retry ==
  /\ pc' = "done" /\ verdict' = "retry"
  /\ pending' = <<>>
  /\ UNCHANGED <<kind, target, requests, port, dialled, refuted>>

-----------------------------------------------------------------------------
(* checkRequest, for a wildcard or a captured proof that is not the        *)
(* challenge's; the tls validator dials its own port.                      *)
CheckRequest ==
  /\ pc = "check"
  /\ \/ Refute
     \/ /\ kind = "http-01" /\ pc' = "request"
        /\ UNCHANGED <<kind, target, requests, port, pending, verdict, dialled, refuted>>
     \/ /\ kind = "tls-alpn-01" /\ pc' = "resolve"
        /\ port' = (IF TestPort # 0 THEN TestPort ELSE 443) /\ requests' = 1
        /\ UNCHANGED <<kind, target, pending, verdict, dialled, refuted>>

\* Mutant: requests after a redirect are not counted.
RequestUncounted ==
  /\ pc = "request"
  /\ LET p == IF target.port # 0 THEN target.port
              ELSE IF target.scheme = "https" THEN 443 ELSE 80
     IN /\ p \in {80, 443}
        /\ port' = (IF TestPort # 0 /\ p = 80 THEN TestPort ELSE p)
        /\ pc' = "resolve" /\ requests' = 1 /\ dialled' = {}
        /\ UNCHANGED <<kind, target, pending, verdict, refuted>>
(* A request, which HTTP01.dial connects: the port is that of the URL or   *)
(* of its scheme.  It would refuse other ports; checkHTTPURL already has.  *)
Request ==
  /\ pc = "request"
  /\ LET p == IF target.port # 0 THEN target.port
              ELSE IF target.scheme = "https" THEN 443 ELSE 80
     IN /\ p \in {80, 443}
        /\ port' = (IF TestPort # 0 /\ p = 80 THEN TestPort ELSE p)
        /\ pc' = "resolve" /\ requests' = requests + 1 /\ dialled' = {}
        /\ UNCHANGED <<kind, target, pending, verdict, refuted>>

(* permits, of the address without its IPv4-mapped form. *)
Permits(a) == ~a.zone /\ a.ip \in Public \cup Allowed

(* resolve: one denied address denies the whole answer. *)
\* Mutant: an answer is accepted for its first address.
AcceptableByFirst(as) == Len(as) \in 1..MaxAddresses /\ Permits(Head(as))
Acceptable(as) == Len(as) \in 1..MaxAddresses /\ \A k \in 1..Len(as) : Permits(as[k])

Resolved(as) ==
  \/ ~Acceptable(as) /\ Refute
  \/ /\ Acceptable(as) /\ pending' = as /\ pc' = "dial"
     /\ UNCHANGED <<kind, target, requests, port, verdict, dialled, refuted>>

Resolve ==
  /\ pc = "resolve"
  /\ \/ target.host \in Addresses /\ Resolved(<<target.host>>)
     \/ target.host \in BadHosts /\ Refute
     \/ /\ target.host \in Hosts \ BadHosts
        /\ \E as \in Answers : Resolved(as)
     \/ target.host \in Hosts \ BadHosts /\ (Retry \/ Refute)

(* dial tries the addresses that were checked, in their order. *)
Dial ==
  /\ pc = "dial" /\ pending # <<>>
  /\ dialled' = dialled \cup {[ip |-> Head(pending).ip, port |-> port]}
  /\ \/ pc' = "proof" /\ pending' = <<>>
     \/ pc' = "dial" /\ pending' = Tail(pending)
  /\ UNCHANGED <<kind, target, requests, port, verdict, refuted>>

DialFails == pc = "dial" /\ pending = <<>> /\ Retry

-----------------------------------------------------------------------------
(* What a peer may show: the answer to a request, or the certificate of a  *)
(* handshake with its negotiated protocol.                                 *)
Responses == [status : {"200", "other"}, body : {"match", "other", "long"}]
Handshakes == [alpn : BOOLEAN, sans : {"none", "one", "other", "several"},
               proof : {"none", "match", "other", "notCritical"}]

CheckHTTPProof(r) == r.status = "200" /\ r.body = "match"

(* checkALPNProof and checkSingleSAN *)
CheckALPNProof(h) == h.alpn /\ h.sans = "one" /\ h.proof = "match"

Proof ==
  /\ pc = "proof"
  /\ \E proved \in {CheckHTTPProof(r) : r \in IF kind = "http-01" THEN Responses ELSE {}}
              \cup {CheckALPNProof(h) : h \in IF kind = "tls-alpn-01" THEN Handshakes ELSE {}} :
       \/ ~proved /\ Refute
       \/ /\ proved /\ pc' = "done" /\ verdict' = "valid"
          /\ UNCHANGED <<kind, target, requests, port, pending, dialled, refuted>>

(* The connection, the handshake or the body breaks off. *)
Breaks == pc = "proof" /\ Retry

(* checkHTTPURL; plain stands for no user, opaque part or fragment. *)
CheckHTTPURL(t) == t.scheme \in {"http", "https"} /\ t.plain /\ t.port \in {0, 80, 443}

(* CheckRedirect *)
RedirectOK(t) == requests <= MaxRedirects /\ CheckHTTPURL(t)

Redirect ==
  /\ pc = "proof" /\ kind = "http-01"
  /\ \E t \in Targets :
       \/ ~RedirectOK(t) /\ Refute
       \/ /\ RedirectOK(t) /\ target' = t /\ pc' = "request" /\ port' = 0
          /\ UNCHANGED <<kind, requests, pending, verdict, dialled, refuted>>

Next ==
  CheckRequest \/ Request \/ Resolve \/ Dial \/ DialFails \/ Proof \/ Breaks \/ Redirect

(* The validation goes on: each wait ends with its context. *)
Spec == Init /\ [][Next]_vars /\ WF_vars(Next)

-----------------------------------------------------------------------------
(* The ports that a validation may connect to. *)
ChallengePorts ==
  IF kind = "tls-alpn-01" THEN {IF TestPort # 0 THEN TestPort ELSE 443}
  ELSE IF TestPort # 0 THEN {TestPort, 443} ELSE {80, 443}

(* Every connection, of redirects included, goes to an ip that the egress  *)
(* policy permits, at the port of the challenge, though the resolver may   *)
(* answer each lookup differently and mix permitted and other addresses    *)
(* (resolve, dial, HTTP01.dial).                                           *)
DialsPermitted ==
  \A d \in dialled : d.ip \in Public \cup Allowed /\ d.port \in ChallengePorts

(* A validation fails for good only if something else than the network     *)
(* failed on the way (retryable, which keeps a problem in the chain).      *)
OutageIsRetried == verdict = "final" => refuted

(* Redirects and addresses run out, so that a validation ends by itself.   *)
ValidationEnds == <>(verdict # "none")

=============================================================================
