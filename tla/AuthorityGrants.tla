--------------------------- MODULE AuthorityGrants ---------------------------
(***************************************************************************)
(* What an Authority Token permits, from its validation                    *)
(* (challenge/tkauth.go) through the grants of the authorizations          *)
(* (worker.go), the certificate request (csr.go, finalize.go) and the      *)
(* dispatch (issuance.go) to the leaf the CA returns (chain.go), for one   *)
(* order.  The concurrency of these steps is the subject of OrderLifecycle;*)
(* here time passes between them.                                          *)
(***************************************************************************)
EXTENDS Integers, FiniteSets, FiniteSetsExt

CONSTANTS
  Raw,         \* names as clients, tokens and certificates spell them
  Canon,       \* Canon[n] is the canonical form of n
  Types,       \* Types[n] is the type of a canonical name
  Orders,      \* the sets of identifiers that orders are created for
  Tokens, NoToken,
  Authorities, \* trusted authority -> [from, until], the validity of its certificate
  AccountKey,
  None,
  Skew,        \* tolerated on exp and nbf
  Outlive,     \* tnAuthListOutlive
  MaxTime

Times == 1..MaxTime
ZeroTime == 0
TokenTypes == {"TNAuthList", "NfInstanceId"}
Accepted == [names : SUBSET Raw, ca : BOOLEAN]
Leaves == [sans : SUBSET Raw, cn : Raw \cup {None}, ca : BOOLEAN,
           notBefore : Times, notAfter : Times \cup {MaxTime + 1}]

(* What is assumed of the constants; MCValidators has it evaluated. *)
GrantsAssumption ==
  /\ Canon \in [Raw -> Raw] /\ \A n \in Raw : Canon[Canon[n]] = Canon[n]
  /\ \A n \in Raw : Types[Canon[n]] \in {"dns", "ip", "uri", "TNAuthList", "NfInstanceId"}
  /\ NoToken \notin Tokens
  /\ \A t \in Tokens : t.exp \in Nat \ {0} /\ t.ca \in BOOLEAN /\ t.sans \subseteq Raw
  /\ Skew \in Nat /\ MaxTime \in Nat \ {0, 1} /\ Outlive \in BOOLEAN
  /\ \A r \in Accepted \cup Leaves : r # None

VARIABLES
  now,
  order,    \* [ids, notBefore, notAfter, status]; a zero time is no bound
  authzs,   \* identifier -> [status, ca, expires, names, token]; token is history
  csr,      \* [names, ca] of the accepted request
  issuance, \* [validations, deadline] of the dispatch, and its time as history
  cert      \* the leaf published

vars == <<now, order, authzs, csr, issuance, cert>>

(* An authorization that is valid for a token remembers it. *)
TypeOK ==
  /\ now \in Times
  /\ order.ids \in Orders /\ order.status \in {"pending", "ready", "processing", "valid", "invalid"}
  /\ {order.notBefore, order.notAfter} \subseteq {ZeroTime} \cup Times
  /\ \A i \in order.ids :
       /\ authzs[i].status \in {"pending", "checked", "valid", "invalid"}
       /\ authzs[i].names \subseteq Raw /\ authzs[i].ca \in BOOLEAN
       /\ authzs[i].token # NoToken <=>
            authzs[i].status \in {"checked", "valid"} /\ Types[i] \in TokenTypes
  /\ order.status \in {"processing", "valid"} => csr # None
  /\ order.status = "valid" <=> cert # None

Ungranted(status) ==
  [status |-> status, ca |-> FALSE, expires |-> ZeroTime, names |-> {}, token |-> NoToken]

Init ==
  /\ now = 1
  /\ order \in [ids : Orders, notBefore : {ZeroTime, 2}, notAfter : {ZeroTime, MaxTime - 1},
                status : {"pending"}]
  /\ authzs = [i \in order.ids |-> Ungranted("pending")]
  /\ csr = None /\ issuance = None /\ cert = None

-----------------------------------------------------------------------------
(* checkClaims: the token is for this identifier, these times and this key.*)
CheckClaims(t, i) ==
  /\ t.type = Types[i] /\ Canon[t.value] = i
  /\ now <= t.exp + Skew
  /\ t.nbf # ZeroTime => now >= t.nbf - Skew
  /\ t.fingerprint = AccountKey

(* AuthorityCertificate, and the validity of the certificate it returns. *)
AuthorityTrusted(t) ==
  /\ t.authority \in DOMAIN Authorities
  /\ Authorities[t.authority].from <= now /\ now <= Authorities[t.authority].until

(* nfGrant: the names of the token beyond its own instance; the URN of     *)
(* another instance is refused.                                            *)
NamesUsable(t, i) == \A n \in t.sans : Types[Canon[n]] = "NfInstanceId" => Canon[n] = i
NfNames(t, i) == {Canon[n] : n \in t.sans} \ {i}

(* checkGrant of the worker, on top of any validator. *)
GrantUsable(names) == \A n \in names : Types[n] \in {"dns", "ip", "uri"}

(* ValidateGrant. *)
ValidToken(t, i) ==
  /\ t.wellFormed /\ AuthorityTrusted(t) /\ CheckClaims(t, i)
  /\ Types[i] = "NfInstanceId" => NamesUsable(t, i) /\ GrantUsable(NfNames(t, i))
Grant(t, i) ==
  [status |-> "checked", expires |-> t.exp, token |-> t,
   ca |-> t.ca /\ Types[i] # "NfInstanceId",
   names |-> IF Types[i] = "NfInstanceId" THEN NfNames(t, i) ELSE {}]

(* The validation of a challenge: of a token, or of control over a name,   *)
(* which grants nothing beyond it.                                         *)
Validate(i) ==
  /\ order.status = "pending" /\ authzs[i].status = "pending"
  /\ \/ /\ Types[i] \in TokenTypes
        /\ \E t \in Tokens :
             authzs' = [authzs EXCEPT ![i] = IF ValidToken(t, i) THEN Grant(t, i) ELSE Ungranted("invalid")]
     \/ /\ Types[i] \notin TokenTypes
        /\ authzs' = [authzs EXCEPT ![i] = Ungranted("checked")]
  /\ UNCHANGED <<now, order, csr, issuance, cert>>

(* completeValidation stores the result and the status of the order. *)
CompleteValidation(i) ==
  /\ order.status = "pending" /\ authzs[i].status \in {"checked", "invalid"}
  /\ LET done == authzs[i].status = "checked"
     IN /\ authzs' = [authzs EXCEPT ![i].status = IF done THEN "valid" ELSE "invalid"]
        /\ order' = [order EXCEPT !.status =
             IF ~done THEN "invalid"
             ELSE IF \A j \in order.ids : authzs'[j].status = "valid" THEN "ready" ELSE "pending"]
  /\ UNCHANGED <<now, csr, issuance, cert>>

-----------------------------------------------------------------------------
(* commonNameExempt, and the names that a request or a leaf asserts. *)
CommonNameExempt(ids) ==
  \/ \E i \in ids : Types[i] = "NfInstanceId"
  \/ Cardinality(ids) = 1 /\ \A i \in ids : Types[i] = "TNAuthList"
CanonNames(sans) == {Canon[n] : n \in sans}
CommonName(x) ==
  IF x.cn = None \/ CommonNameExempt(CanonNames(x.sans)) THEN {} ELSE {Canon[x.cn]}

(* coversIdentifiers *)
\* Mutant: the names need only include those of the order.
CoversOrder(names, granted) == order.ids \subseteq names
CoversIdentifiers(names, granted) ==
  order.ids \subseteq names /\ names \subseteq order.ids \cup granted

GrantNames == UNION {authzs[i].names : i \in order.ids}

(* checkCAGrants: every authorization granted exactly what is requested. *)
CheckCAGrants(ca) == \A i \in order.ids : authzs[i].ca = ca

Requests == [sans : SUBSET Raw, cn : Raw \cup {None}, ca : BOOLEAN]

(* serveFinalize with a request that checkCSR accepts. *)
Finalize ==
  /\ order.status = "ready"
  /\ \E r \in Requests :
       LET names == CanonNames(r.sans) \cup CommonName(r)
       IN /\ names # {} /\ CoversIdentifiers(names, GrantNames) /\ CheckCAGrants(r.ca)
          /\ csr' = [names |-> names, ca |-> r.ca]
  /\ order' = [order EXCEPT !.status = "processing"]
  /\ UNCHANGED <<now, authzs, issuance, cert>>

-----------------------------------------------------------------------------
Bounded(S) == {t \in S : t # ZeroTime}

(* validationEvidence: an authority list may outlive its token. *)
GrantExpires(i) ==
  IF Outlive /\ Types[i] = "TNAuthList" THEN ZeroTime ELSE authzs[i].expires

(* grantExpiry of the validations, and issuedNotAfter. *)
GrantExpiry(S) == IF Bounded(S) = {} THEN ZeroTime ELSE Min(Bounded(S))
IssuedNotAfter(bound) == GrantExpiry({order.notAfter, bound})

(* issuanceAuthorization and beginIssuance.  The order itself expires      *)
(* after MaxTime.                                                          *)
BeginIssuance ==
  /\ order.status = "processing" /\ issuance = None
  /\ LET expiries == {authzs[i].expires : i \in order.ids}
     IN IF \E t \in Bounded(expiries) : t <= now
        THEN order' = [order EXCEPT !.status = "invalid"] /\ UNCHANGED issuance
        ELSE /\ issuance' = [bound |-> GrantExpiry({GrantExpires(i) : i \in order.ids}), names |-> GrantNames,
                             deadline |-> Min(Bounded(expiries) \cup {MaxTime + 1}), at |-> now]
             /\ UNCHANGED order
  /\ UNCHANGED <<now, authzs, csr, cert>>

(* certificateIdentifiers: no name twice, the common name among them. *)
LeafNamesOK(leaf) ==
  /\ leaf.sans # {} /\ \A m, n \in leaf.sans : Canon[m] = Canon[n] => m = n
  /\ CommonName(leaf) \subseteq CanonNames(leaf.sans)

(* checkLeafCACertificate *)
LeafCAOK(leaf) == leaf.ca = (csr.ca /\ \E i \in order.ids : Types[i] = "TNAuthList")

(* The times of checkChain, which knows no bound if a time is zero. *)
LeafTimesOK(leaf) ==
  /\ leaf.notAfter > now /\ leaf.notAfter > leaf.notBefore
  /\ leaf.notBefore >= order.notBefore
  /\ leaf.notBefore <= now \/ leaf.notBefore <= order.notBefore
  /\ \A bound \in Bounded({IssuedNotAfter(issuance.bound), issuance.bound}) : leaf.notAfter <= bound

(* recordIssuedResult for a leaf that passes checkChain.  The CA signs     *)
(* what it likes; a leaf that does not pass is kept with a failed order.   *)
Publish ==
  /\ order.status = "processing" /\ issuance # None
  /\ \E leaf \in Leaves :
       /\ LeafTimesOK(leaf) /\ LeafNamesOK(leaf) /\ LeafCAOK(leaf)
       /\ CoversIdentifiers(CanonNames(leaf.sans), issuance.names)
       /\ cert' = leaf
  /\ order' = [order EXCEPT !.status = "valid"]
  /\ UNCHANGED <<now, authzs, csr, issuance>>

Unpublished ==
  /\ order.status = "processing" /\ issuance # None
  /\ order' = [order EXCEPT !.status = "invalid"]
  /\ UNCHANGED <<now, authzs, csr, issuance, cert>>

Tick ==
  /\ now < MaxTime /\ order.status \notin {"valid", "invalid"}
  /\ now' = now + 1
  /\ UNCHANGED <<order, authzs, csr, issuance, cert>>

Next ==
  \/ \E i \in order.ids : Validate(i) \/ CompleteValidation(i)
  \/ Finalize \/ BeginIssuance \/ Publish \/ Unpublished \/ Tick

Spec == Init /\ [][Next]_vars

-----------------------------------------------------------------------------
(* The tokens that the order rests on. *)
Attested == {authzs[i].token : i \in order.ids} \ {NoToken}

(* The request given to the CA, and the certificate published for it, name *)
(* the identifiers of the order and, beyond them, only names in the sans   *)
(* of a token that an authority issued to the account for an identifier of *)
(* the order, however the names are spelled on the way (nfGrant, checkCSR, *)
(* checkChain).                                                            *)
NamesAttested ==
  LET attested(names) ==
        /\ order.ids \subseteq names
        /\ \A n \in names \ order.ids :
             \E t \in Attested :
               /\ \E m \in t.sans : Canon[m] = n
               /\ t.fingerprint = AccountKey /\ Canon[t.value] \in order.ids
  IN /\ csr # None => attested(csr.names)
     /\ cert # None => attested(CanonNames(cert.sans) \cup CommonName(cert))

(* A certificate is a CA certificate exactly if it was requested as one,   *)
(* and then a token of the account says so for every identifier            *)
(* (checkCAGrants, checkLeafCACertificate).                                *)
CAAttested ==
  cert # None /\ cert.ca =>
    /\ csr.ca
    /\ \A i \in order.ids : \E t \in Attested : t.ca /\ Canon[t.value] = i

(* Issuance is dispatched while every token is alive, with a deadline for  *)
(* signing that none of them outlasts, and the certificate does not        *)
(* outlive a token, though tokens are accepted Skew after their end; an    *)
(* authority list may be configured to outlive its token, not to be signed *)
(* after it (issuanceAuthorization, validationEvidence, checkChain).       *)
EndsWithToken ==
  cert # None =>
    \A i \in order.ids : authzs[i].token # NoToken =>
      /\ issuance.at < authzs[i].token.exp /\ issuance.deadline <= authzs[i].token.exp
      /\ cert.notAfter <= authzs[i].token.exp \/ (Outlive /\ Types[i] = "TNAuthList")

(* A certificate carries what its tokens attest, and while they do: its    *)
(* names, whether it is a CA certificate, when it was signed and when it   *)
(* ends (checkCSR, checkCAGrants, issuanceAuthorization, checkChain).      *)
CertificateAttested == NamesAttested /\ CAAttested /\ EndsWithToken

=============================================================================
