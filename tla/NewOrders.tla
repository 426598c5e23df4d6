------------------------------ MODULE NewOrders ------------------------------
(***************************************************************************)
(* The newOrder requests of order.go and renewal.go and the order list of  *)
(* account.go: what becomes of a payload, the calls of the Limiter and of  *)
(* the Policy on the way, the claim on the certificate an order replaces   *)
(* (CreateOrder, claimReplacement), and a client that reads the list page  *)
(* by page while orders come and go.  An order goes on from its creation   *)
(* as OrderMachine says; only what the expiry of an order decides is kept. *)
(***************************************************************************)
EXTENDS Integers, Sequences, FiniteSets, Functions

CONSTANTS
  Requests,        \* newOrder requests; the order of a request has its name as ID
  Accounts, None,
  Certs,           \* certificates that an order may replace: [account, identifiers]
  RawIdentifiers,  \* identifiers of payloads: [type, wild, name, form]
  Payloads,        \* [identifiers, notBefore, notAfter, profile, replaces]
  Bounds,          \* times that the Policy may set as notBefore or notAfter
  Supported,       \* the optional identifier types the server is configured for
  Validators,      \* the configured challenge types
  Profiles, DefaultProfile,
  Renewal,         \* is Config.RenewalInfo set?
  Choosing, PreApproving,  \* does the Policy implement ProfileChooser, PreApprover?
  MaxIdentifiers, OrderLifetime, PageSize,
  MaxTime,         \* bound: the clock
  MaxLists         \* bound: walks through the list of orders

VARIABLES
  now,
  order,      \* Store.orders, None where there is no record
  authz,      \* Store.authzs of each order, in the order of its identifiers
  orderIDs,   \* Store.orderIDs
  replacedBy, \* Certificate.ReplacedByOrderID
  req,        \* the newOrder requests
  fin,        \* a finalization that read the order and its clock
  walk, lists \* the client that reads the list of orders

vars == <<now, order, authz, orderIDs, replacedBy, req, fin, walk, lists>>

-----------------------------------------------------------------------------
Min2(a, b) == IF a < b THEN a ELSE b

(* Identifiers. *)
Token(id) == id.type \in {"TNAuthList", "NfInstanceId"}

(* Identifier.Normalize: one canonical form, or None for a bad value. *)
Normalize(id) == IF id.form = "bad" THEN None ELSE [id EXCEPT !.form = "canonical"]

NormalizeAll(ids) == [i \in DOMAIN ids |-> Normalize(ids[i])]

Count(ids, type) == Cardinality({i \in DOMAIN ids : ids[i].type = type})

(* challengeTypesFor. *)
ChallengeTypesFor(id) ==
  {t \in Validators : /\ (t = "tkauth-01") = Token(id)
                      /\ id.wild => t = "dns-01"
                      /\ id.type = "ip" => t # "dns-01"}

(* The test of a validity period in buildOrder and in reviewOrder. *)
PeriodOK(nb, na) == None \notin {nb, na} => na > nb

(* NormalizeIdentifiers and the checks of buildOrder on the identifiers    *)
(* and on the validity period.                                             *)
AcceptableIdentifiers(ids) ==
  LET norm == NormalizeAll(ids)
  IN /\ ids # <<>> /\ Len(ids) <= MaxIdentifiers
     /\ \A i \in DOMAIN ids : ids[i].type \in {"dns"} \cup Supported
     /\ None \notin Range(norm) /\ IsInjective(norm)
     /\ Count(norm, "TNAuthList") <= 1 /\ Count(norm, "NfInstanceId") <= 1
     /\ Count(norm, "TNAuthList") = 0 \/ Count(norm, "NfInstanceId") = 0
     /\ \A i \in DOMAIN norm : ChallengeTypesFor(norm[i]) # {}

Acceptable(p) == AcceptableIdentifiers(p.identifiers) /\ PeriodOK(p.notBefore, p.notAfter)

(* selectProfile: what an acceptable request may be issued under. *)
SelectProfile(requested) ==
  IF requested # None THEN {requested} \cap Profiles
  ELSE IF Choosing THEN Profiles \cup {DefaultProfile} ELSE {DefaultProfile}

-----------------------------------------------------------------------------
(* buildAuthorizations: one authorization per identifier, in order. *)
BuildAuthorizations(draft, granted) ==
  [i \in DOMAIN draft.identifiers |->
    LET id == draft.identifiers[i]
    IN [identifier |-> [id EXCEPT !.wild = FALSE], wildcard |-> id.wild,
        status |-> IF id \in granted THEN "valid" ELSE "pending",
        preApproved |-> id \in granted,
        challenges |-> IF id \in granted THEN {} ELSE ChallengeTypesFor(id)]]

(* authorizationIndexKey: the scope of an authorization. *)
IndexKey(a) == [a.identifier EXCEPT !.wild = a.wildcard]

(* Order.StatusAt. *)
StatusAt(o, at) == IF o.status \in {"pending", "ready"} /\ o.expires <= at
                   THEN "invalid" ELSE o.status

-----------------------------------------------------------------------------
NoWalk == [pc |-> "idle", account |-> None, cursor |-> None, ids |-> <<>>, more |-> FALSE,
           at |-> 0, listed |-> <<>>, start |-> {}]
NewRequest == [pc |-> "new", payload |-> None, draft |-> None, granted |-> {}]
NoFinalize == [order |-> None]

IdentifierRec == [type : STRING, wild : BOOLEAN, name : STRING,
                  form : {"canonical", "variant", "bad"}]
Statuses == {"pending", "ready", "processing", "valid", "invalid"}
OrderRec ==
  [account : Accounts, status : Statuses, dispatched : BOOLEAN, expires : Nat,
   identifiers : Seq(IdentifierRec), notBefore : Int \cup {None}, notAfter : Int \cup {None},
   replaces : Certs \cup {None}, profile : Profiles \cup {DefaultProfile}, createdAt : Nat]
(* What is assumed of the constants; MCNewOrders has it evaluated. *)
NewOrderAssumption ==
  /\ RawIdentifiers \subseteq IdentifierRec
  /\ \A p \in Payloads : /\ p.identifiers \in Seq(RawIdentifiers)
                         /\ {p.notBefore, p.notAfter} \subseteq Int \cup {None}
  /\ Bounds \subseteq Int
  /\ {OrderLifetime, PageSize, MaxTime} \subseteq Nat
  /\ None \notin Requests \cup Certs \cup IdentifierRec \cup OrderRec

Phases == {"new", "replaces", "limit", "review", "preapprove", "create", "refused", "created"}

(* A request that creates an order holds a draft of it, and the walk reads *)
(* orders that are stored.                                                 *)
TypeOK ==
  /\ now \in 0..MaxTime
  /\ \A q \in Requests :
       /\ req[q].pc \in Phases
       /\ (req[q].draft # None) = (req[q].pc \in Phases \ {"new", "refused", "created"})
       /\ order[q] \in OrderRec \cup {None}
       /\ (order[q] # None) = (req[q].pc = "created")
       /\ order[q] # None => Len(authz[q]) = Len(order[q].identifiers)
  /\ \A a \in Accounts : /\ IsInjective(orderIDs[a])
                         /\ Range(orderIDs[a]) \subseteq {q \in Requests : order[q] # None}
  /\ replacedBy \in [Certs -> Requests \cup {None}]
  /\ Range(walk.ids) \subseteq {q \in Requests : order[q] # None}
  /\ lists \in 0..MaxLists

Init ==
  /\ now = 0
  /\ order = [q \in Requests |-> None]
  /\ authz = [q \in Requests |-> <<>>]
  /\ orderIDs = [a \in Accounts |-> <<>>]
  /\ replacedBy = [c \in Certs |-> None]
  /\ req = [q \in Requests |-> NewRequest]
  /\ fin = NoFinalize
  /\ walk = NoWalk /\ lists = 0

-----------------------------------------------------------------------------
(* serveNewOrder, one action for each call of the Store or of the host.    *)
Refuse(q) ==
  /\ req' = [req EXCEPT ![q] = [NewRequest EXCEPT !.pc = "refused"]]
  /\ UNCHANGED <<now, order, authz, orderIDs, replacedBy, fin, walk, lists>>

Proceed(q, pc, draft) ==
  /\ req' = [req EXCEPT ![q].pc = pc, ![q].draft = draft]
  /\ UNCHANGED <<now, order, authz, orderIDs, replacedBy, fin, walk, lists>>

(* The payload is checked and the profile is chosen. *)
CheckPayload(q, a, p) ==
  \/ /\ ~Acceptable(p) \/ SelectProfile(p.profile) = {} \/ (Choosing /\ p.profile = None)
     /\ Refuse(q)
  \/ /\ Acceptable(p)
     /\ \E profile \in SelectProfile(p.profile) :
          req' = [req EXCEPT ![q].pc = "replaces", ![q].payload = p, ![q].draft =
            [account |-> a, status |-> "pending", dispatched |-> FALSE,
             expires |-> now + OrderLifetime, identifiers |-> NormalizeAll(p.identifiers),
             notBefore |-> p.notBefore, notAfter |-> p.notAfter, replaces |-> None,
             profile |-> profile, createdAt |-> now]]
     /\ UNCHANGED <<now, order, authz, orderIDs, replacedBy, fin, walk, lists>>

ServeNewOrder(q) ==
  /\ req[q].pc = "new"
  /\ \E a \in Accounts, p \in Payloads : CheckPayload(q, a, p)

(* checkReplaces: the predecessor is a certificate of the account and      *)
(* shares an identifier with the order.                                    *)
CheckReplaces(q) ==
  LET d == req[q].draft
      c == req[q].payload.replaces
  IN /\ req[q].pc = "replaces"
     /\ IF c = None \/ ~Renewal THEN Proceed(q, "limit", d)
        ELSE IF c \in Certs /\ c.account = d.account
                /\ c.identifiers \cap Range(d.identifiers) # {}
        THEN Proceed(q, "limit", [d EXCEPT !.replaces = c])
        ELSE Refuse(q)

CheckLimit(q) ==
  /\ req[q].pc = "limit"
  /\ Proceed(q, "review", req[q].draft) \/ Refuse(q)

(* What Policy.NewOrder may make of its copy of the order. *)
PolicyCopy(d, nb, na, ids, pf) ==
  [d EXCEPT !.notBefore = nb, !.notAfter = na, !.identifiers = ids, !.profile = pf]
PolicyCopies(d) ==
  {PolicyCopy(d, nb, na, ids, pf) :
     nb \in Bounds \cup {d.notBefore}, na \in Bounds \cup {d.notAfter},
     ids \in {d.identifiers, <<d.identifiers[1]>>}, pf \in {d.profile, DefaultProfile}}

(* reviewOrder keeps the validity period of the policy and refuses any     *)
(* other change.                                                           *)
ReviewOrder(q) ==
  LET d == req[q].draft
  IN /\ req[q].pc = "review"
     /\ \/ Refuse(q)
        \/ \E reviewed \in PolicyCopies(d) :
             IF /\ [reviewed EXCEPT !.notBefore = d.notBefore, !.notAfter = d.notAfter] = d
                /\ PeriodOK(reviewed.notBefore, reviewed.notAfter)
             THEN Proceed(q, "preapprove", reviewed) ELSE Refuse(q)

(* preApprove: a PreApprover names identifiers of the order, in any form. *)
\* Mutant: the identifiers are kept as the policy spelled them.
PreApproveRaw(q) ==
  /\ req[q].pc = "preapprove"
  /\ \E ids \in IF PreApproving THEN SUBSET RawIdentifiers ELSE {{}} :
       \/ /\ {Normalize(id) : id \in ids} \subseteq Range(req[q].draft.identifiers)
          /\ req' = [req EXCEPT ![q].pc = "create", ![q].granted = ids]
          /\ UNCHANGED <<now, order, authz, orderIDs, replacedBy, fin, walk, lists>>
       \/ PreApproving /\ Refuse(q)
PreApprove(q) ==
  /\ req[q].pc = "preapprove"
  /\ \E ids \in IF PreApproving THEN SUBSET RawIdentifiers ELSE {{}} :
       LET granted == {Normalize(id) : id \in ids}
       IN \/ /\ granted \subseteq Range(req[q].draft.identifiers)
             /\ req' = [req EXCEPT ![q].pc = "create", ![q].granted = granted]
             /\ UNCHANGED <<now, order, authz, orderIDs, replacedBy, fin, walk, lists>>
          \/ PreApproving /\ Refuse(q)

(* claimReplacement: no live order replaces the certificate already.       *)
\* Mutant: the previous order is taken for dead when the new one ends.
ClaimableAtEnd(d) ==
  LET prev == replacedBy[d.replaces]
  IN prev # None => StatusAt(order[prev], d.expires) = "invalid"
Claimable(d) ==
  LET prev == replacedBy[d.replaces]
  IN prev # None => StatusAt(order[prev], d.createdAt) = "invalid"

(* CreateOrder, one write, after buildAuthorizations. *)
CreateOrder(q) ==
  LET d == req[q].draft
      g == req[q].granted
  IN /\ req[q].pc = "create" /\ order[q] = None
     /\ d.replaces # None => Claimable(d)
     /\ order' = [order EXCEPT ![q] = [d EXCEPT !.status =
          IF Cardinality(g) = Len(d.identifiers) THEN "ready" ELSE "pending"]]
     /\ authz' = [authz EXCEPT ![q] = BuildAuthorizations(d, g)]
     /\ orderIDs' = [orderIDs EXCEPT ![d.account] = Append(@, q)]
     /\ replacedBy' = [c \in Certs |-> IF c = d.replaces THEN q ELSE replacedBy[c]]
     /\ req' = [req EXCEPT ![q].pc = "created", ![q].draft = None, ![q].granted = {}]
     /\ UNCHANGED <<now, fin, walk, lists>>

(* The certificate is being replaced already (replacementProblem). *)
AlreadyReplaced(q) ==
  LET d == req[q].draft
  IN /\ req[q].pc = "create"
     /\ d.replaces # None /\ ~Claimable(d)
     /\ Refuse(q)

(* CertificateByRenewalID or CreateOrder fails. *)
StoreFails(q) ==
  /\ \/ req[q].pc = "replaces" /\ Renewal /\ req[q].payload.replaces # None
     \/ req[q].pc = "create"
  /\ Refuse(q)

-----------------------------------------------------------------------------
(* What becomes of an order: the outcomes of the validation and issuance   *)
(* workers and of a finalization, where its expiry or its status decides.  *)
MoveTo(q, status) ==
  /\ order' = [order EXCEPT ![q].status = status]
  /\ UNCHANGED <<now, orderIDs, replacedBy, req, walk, lists>>

(* deriveOrderStatus: the last proof of an order that has not expired. *)
Validated(q) ==
  /\ order[q] # None /\ StatusAt(order[q], now) = "pending"
  /\ MoveTo(q, "ready")
  /\ authz' = [authz EXCEPT ![q] = [i \in DOMAIN @ |-> [@[i] EXCEPT !.status = "valid"]]]
  /\ UNCHANGED fin

(* A challenge fails or an authorization is deactivated. *)
Invalidated(q) ==
  /\ order[q] # None /\ order[q].status \in {"pending", "ready"}
  /\ MoveTo(q, "invalid")
  /\ authz' = [authz EXCEPT ![q] = [i \in DOMAIN @ |-> [@[i] EXCEPT !.status = "invalid"]]]
  /\ UNCHANGED fin

(* serveFinalize reads the order and its clock, and stores later. *)
FinalizeRead(q) ==
  /\ fin.order = None
  /\ order[q] # None /\ StatusAt(order[q], now) = "ready"
  /\ fin' = [order |-> q]
  /\ UNCHANGED <<now, order, authz, orderIDs, replacedBy, req, walk, lists>>

FinalizeStore(q) ==
  /\ fin.order = q
  /\ fin' = NoFinalize
  /\ MoveTo(q, IF order[q].status = "ready" THEN "processing" ELSE order[q].status)
  /\ UNCHANGED authz

(* dispatchSnapshot: an order that expired before its dispatch fails. *)
Dispatch(q) ==
  /\ order[q] # None /\ order[q].status = "processing" /\ ~order[q].dispatched
  /\ order' = IF order[q].expires <= now THEN [order EXCEPT ![q].status = "invalid"]
              ELSE [order EXCEPT ![q].dispatched = TRUE]
  /\ UNCHANGED <<now, authz, orderIDs, replacedBy, req, fin, walk, lists>>

(* The Issuer decides a dispatched order. *)
Decided(q) ==
  /\ order[q] # None /\ order[q].status = "processing" /\ order[q].dispatched
  /\ \E status \in {"valid", "invalid"} : MoveTo(q, status)
  /\ UNCHANGED <<authz, fin>>

-----------------------------------------------------------------------------
(* serveAccountOrders.  A client starts at the first page and follows the  *)
(* link to the next one; start is a history of what was stored then.       *)
StartList(a) ==
  /\ walk.pc \in {"idle", "done"} /\ lists < MaxLists
  /\ lists' = lists + 1
  /\ walk' = [NoWalk EXCEPT !.pc = "page", !.account = a, !.start = Range(orderIDs[a])]
  /\ UNCHANGED <<now, order, authz, orderIDs, replacedBy, req, fin>>

(* Store.OrderIDs: up to limit IDs after the given one, which is in the    *)
(* list: a cursor is the last ID of the page before.                       *)
OrderIDs(a, after, limit) ==
  LET first == IF after = None THEN 1
               ELSE 1 + CHOOSE i \in DOMAIN orderIDs[a] : orderIDs[a][i] = after
  IN SubSeq(orderIDs[a], first, Min2(first + limit - 1, Len(orderIDs[a])))

(* One ID more than a page tells whether there is a next page. *)
\* Mutant: the page is read without the ID that tells of a next page.
ListPageExact ==
  LET ids == OrderIDs(walk.account, walk.cursor, PageSize)
  IN /\ walk.pc = "page"
     /\ walk' = [walk EXCEPT !.pc = "orders", !.ids = ids, !.more = Len(ids) > PageSize,
          !.cursor = IF ids = <<>> THEN @ ELSE ids[Len(ids)], !.at = now]
     /\ UNCHANGED <<now, order, authz, orderIDs, replacedBy, req, fin, lists>>
ListPage ==
  LET ids == OrderIDs(walk.account, walk.cursor, PageSize + 1)
      page == SubSeq(ids, 1, Min2(PageSize, Len(ids)))
  IN /\ walk.pc = "page"
     /\ walk' = [walk EXCEPT !.pc = "orders", !.ids = page, !.more = Len(ids) > PageSize,
          !.cursor = IF page = <<>> THEN @ ELSE page[Len(page)], !.at = now]
     /\ UNCHANGED <<now, order, authz, orderIDs, replacedBy, req, fin, lists>>

(* Each order of the page is read, and left out when it is invalid. *)
ListOrder ==
  /\ walk.pc = "orders" /\ walk.ids # <<>>
  /\ walk' = [walk EXCEPT !.ids = Tail(@),
       !.listed = IF StatusAt(order[walk.ids[1]], walk.at) # "invalid"
                  THEN Append(@, walk.ids[1]) ELSE @]
  /\ UNCHANGED <<now, order, authz, orderIDs, replacedBy, req, fin, lists>>

(* The page is written; the client follows its link. *)
ListWritten ==
  /\ walk.pc = "orders" /\ walk.ids = <<>>
  /\ walk' = [walk EXCEPT !.pc = IF walk.more THEN "page" ELSE "done"]
  /\ UNCHANGED <<now, order, authz, orderIDs, replacedBy, req, fin, lists>>

ListFails ==
  /\ walk.pc \in {"page", "orders"}
  /\ walk' = NoWalk
  /\ UNCHANGED <<now, order, authz, orderIDs, replacedBy, req, fin, lists>>

-----------------------------------------------------------------------------
Tick ==
  /\ now < MaxTime
  /\ now' = now + 1
  /\ UNCHANGED <<order, authz, orderIDs, replacedBy, req, fin, walk, lists>>

Next ==
  \/ \E q \in Requests :
       \/ ServeNewOrder(q) \/ CheckReplaces(q) \/ CheckLimit(q) \/ ReviewOrder(q) \/ PreApprove(q)
       \/ CreateOrder(q) \/ AlreadyReplaced(q) \/ StoreFails(q)
       \/ Validated(q) \/ Invalidated(q) \/ FinalizeRead(q) \/ FinalizeStore(q)
       \/ Dispatch(q) \/ Decided(q)
  \/ \E a \in Accounts : StartList(a)
  \/ ListPage \/ ListOrder \/ ListWritten \/ ListFails
  \/ Tick

Spec == Init /\ [][Next]_vars

-----------------------------------------------------------------------------
(* A stored order can be completed, and only by proof: its authorizations  *)
(* stand for its identifiers one by one, wildcard names included; each is  *)
(* granted by the policy or offers a challenge that can prove it; and the  *)
(* order is past pending only if all of them are valid                     *)
(* (buildAuthorizations and authorizationIndexKey).                        *)
OrderIsProvable ==
  \A q \in Requests : order[q] # None =>
    /\ \A i \in DOMAIN order[q].identifiers :
         LET a == authz[q][i]
         IN /\ IndexKey(a) = order[q].identifiers[i]
            /\ IF a.preApproved THEN a.challenges = {} /\ a.status # "pending"
               ELSE /\ a.challenges # {}
                    /\ a.wildcard => a.challenges = {"dns-01"}
    /\ order[q].status \in {"ready", "processing", "valid"} =>
         \A i \in DOMAIN authz[q] : authz[q][i].status = "valid"

(* The order stored is the one asked for, whatever the hooks of the host   *)
(* did with their copies: the identifiers and the profile of the payload,  *)
(* and a validity period that is not empty (reviewOrder, selectProfile).   *)
AsRequested ==
  \A q \in Requests : order[q] # None =>
    LET p == req[q].payload
    IN /\ order[q].identifiers = NormalizeAll(p.identifiers)
       /\ p.profile # None => order[q].profile = p.profile
       /\ PeriodOK(order[q].notBefore, order[q].notAfter)

(* A stored order is the one asked for, and can be proved (serveNewOrder). *)
OrderAsAsked == AsRequested /\ OrderIsProvable

(* The order may still lead to a certificate. *)
Standing(o) ==
  \/ o.status = "valid" \/ (o.status = "processing" /\ o.dispatched)
  \/ o.status \in {"pending", "ready", "processing"} /\ now < o.expires

(* A certificate has one replacement: an order that replaces it and may    *)
(* still lead to a certificate is the one the certificate names.  An order *)
(* that claimReplacement took for dead may still be finalized by a request *)
(* that read it before it expired, but it is never dispatched.             *)
OneLiveReplacement ==
  \A q \in Requests :
    order[q] # None /\ order[q].replaces # None /\ Standing(order[q]) =>
      replacedBy[order[q].replaces] = q

(* A client that follows the links of the order list to its end has seen   *)
(* every order that was there when it began and may still lead to a        *)
(* certificate, and no order twice (serveAccountOrders and OrderIDs).      *)
ListComplete ==
  walk.pc = "done" =>
    /\ IsInjective(walk.listed)
    /\ \A q \in Range(walk.listed) : order[q].account = walk.account
    /\ \A q \in walk.start : Standing(order[q]) => q \in Range(walk.listed)

=============================================================================
