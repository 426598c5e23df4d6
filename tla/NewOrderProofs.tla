--------------------------- MODULE NewOrderProofs ---------------------------
(***************************************************************************)
(* The proofs about NewOrders, for any requests, payloads and policies.    *)
(***************************************************************************)
EXTENDS NewOrders, FiniteSetTheorems, TLAPS

Drafting == {"replaces", "limit", "review", "preapprove", "create"}
AuthzRec ==
  [identifier : IdentifierRec, wildcard : BOOLEAN, status : {"pending", "valid", "invalid"},
   preApproved : BOOLEAN, challenges : SUBSET Validators]
RequestRec ==
  [pc : Phases, payload : Payloads \cup {None}, draft : OrderRec \cup {None},
   granted : SUBSET IdentifierRec]

(* The order d is as the payload p asked for it. *)
Asked(d, p) ==
  /\ d.identifiers = NormalizeAll(p.identifiers)
  /\ p.profile # None => d.profile = p.profile
  /\ PeriodOK(d.notBefore, d.notAfter)
  /\ \A i \in DOMAIN d.identifiers : ChallengeTypesFor(d.identifiers[i]) # {}

(* What a request r holds on its way at time t. *)
DraftOK(r, t) ==
  r.pc \in Drafting =>
    /\ r.draft \in OrderRec /\ r.draft.createdAt <= t /\ ~r.draft.dispatched
    /\ r.payload \in Payloads /\ Asked(r.draft, r.payload)
    /\ r.pc = "create" => r.granted \subseteq Range(r.draft.identifiers)

(* An authorization stands for its identifier. *)
Stands(a, id) ==
  /\ IndexKey(a) = id
  /\ IF a.preApproved THEN a.challenges = {} /\ a.status # "pending"
     ELSE a.challenges # {} /\ (a.wildcard => a.challenges = {"dns-01"})

(* What is stored of the order of a request r and of its authorizations. *)
StoredOK(o, az, r) ==
  /\ r.pc # "created" => o = None
  /\ o # None =>
       /\ Asked(o, r.payload)
       /\ o.status \in {"pending", "ready"} => ~o.dispatched
       /\ az \in [DOMAIN o.identifiers -> AuthzRec]
       /\ \A i \in DOMAIN o.identifiers : Stands(az[i], o.identifiers[i])
       /\ o.status \in {"ready", "processing", "valid"} =>
            \A i \in DOMAIN o.identifiers : az[i].status = "valid"

Typed ==
  /\ now \in Nat
  /\ req \in [Requests -> RequestRec]
  /\ order \in [Requests -> OrderRec \cup {None}]
  /\ authz \in [Requests -> Seq(AuthzRec)]
  /\ replacedBy \in [Certs -> Requests \cup {None}]
  /\ fin \in [order : Requests \cup {None}]
  /\ fin.order # None => order[fin.order] # None

(* The inductive invariant behind OrderAsAsked. *)
Kept ==
  /\ Typed
  /\ \A q \in Requests : DraftOK(req[q], now) /\ StoredOK(order[q], authz[q], req[q])

-----------------------------------------------------------------------------
(* A step of serveNewOrder before CreateOrder replaces the request's local *)
(* state by r and leaves the store alone.                                  *)
LEMMA RequestStep ==
  ASSUME Kept, NEW q \in Requests, NEW r \in RequestRec,
         req[q].pc # "created", r.pc # "created", DraftOK(r, now),
         req' = [req EXCEPT ![q] = r],
         UNCHANGED <<now, order, authz, replacedBy, fin>>
  PROVE  Kept'
<1>1. Typed'
  BY DEF Kept, Typed
<1>2. ASSUME NEW p \in Requests
      PROVE  DraftOK(req'[p], now) /\ StoredOK(order[p], authz[p], req'[p])
  <2>1. CASE p = q
    <3>1. req'[p] = r /\ order[p] = None
      BY <2>1 DEF Kept, Typed, StoredOK
    <3> QED BY <3>1 DEF StoredOK
  <2>2. CASE p # q
    BY <2>2 DEF Kept, Typed
  <2> QED BY <2>1, <2>2
<1> QED BY <1>1, <1>2 DEF Kept

(* A refusal forgets the request's payload and draft. *)
LEMMA RefuseStep ==
  ASSUME Kept, NEW q \in Requests, req[q].pc # "created", Refuse(q)
  PROVE  Kept'
<1> DEFINE r == [NewRequest EXCEPT !.pc = "refused"]
<1>1. r \in RequestRec /\ r.pc = "refused"
  BY DEF RequestRec, NewRequest, Phases
<1>2. DraftOK(r, now)
  BY <1>1 DEF DraftOK, Drafting
<1>3. req' = [req EXCEPT ![q] = r] /\ UNCHANGED <<now, order, authz, replacedBy, fin>>
  BY DEF Refuse
<1> HIDE DEF r
<1> QED BY Zenon, <1>1, <1>2, <1>3, RequestStep

(* A request that goes on keeps a draft that is as the payload asked. *)
LEMMA ProceedStep ==
  ASSUME Kept, NEW q \in Requests, NEW phase \in Drafting \ {"create"}, NEW d \in OrderRec,
         req[q].pc \in Drafting, d.createdAt <= now, ~d.dispatched, Asked(d, req[q].payload),
         Proceed(q, phase, d)
  PROVE  Kept'
<1> DEFINE r == [req[q] EXCEPT !.pc = phase, !.draft = d]
<1>1. req[q] \in RequestRec
  BY DEF Kept, Typed
<1>2. r \in RequestRec /\ r.pc = phase /\ r.draft = d /\ r.payload = req[q].payload
  BY Zenon, <1>1 DEF RequestRec, Drafting, Phases
<1>3. DraftOK(r, now)
  BY <1>2 DEF DraftOK, Kept, Drafting
<1>4. req' = [req EXCEPT ![q] = r] /\ UNCHANGED <<now, order, authz, replacedBy, fin>>
  BY Zenon DEF Proceed, Kept, Typed
<1> HIDE DEF r
<1> QED BY Zenon, <1>2, <1>3, <1>4, RequestStep DEF Drafting

-----------------------------------------------------------------------------
(* NormalizeIdentifiers of an acceptable list gives a list of identifiers. *)
LEMMA NormalizedList ==
  ASSUME NewOrderAssumption, NEW ids \in Seq(RawIdentifiers), None \notin Range(NormalizeAll(ids))
  PROVE  NormalizeAll(ids) \in Seq(IdentifierRec)
<1>1. DOMAIN ids = 1..Len(ids) /\ Len(ids) \in Nat
  OBVIOUS
<1>2. ASSUME NEW i \in 1..Len(ids)
      PROVE  Normalize(ids[i]) \in IdentifierRec
  <2>1. ids[i] \in IdentifierRec
    BY DEF NewOrderAssumption
  <2>2. Normalize(ids[i]) # None
    BY <1>1 DEF NormalizeAll, Range
  <2> QED BY <2>1, <2>2 DEF Normalize, IdentifierRec
<1> QED BY <1>1, <1>2 DEF NormalizeAll

(* The payload is checked and becomes the draft of the order (buildOrder). *)
LEMMA CheckPayloadKept ==
  ASSUME NewOrderAssumption, Kept, NEW q \in Requests, NEW a \in Accounts, NEW p \in Payloads,
         req[q].pc = "new", CheckPayload(q, a, p)
  PROVE  Kept'
<1>1. req[q].pc = "new" /\ req[q] \in RequestRec /\ now \in Nat
  BY DEF Kept, Typed
<1>2. CASE Refuse(q)
  BY <1>1, <1>2, RefuseStep
<1>3. CASE ~Refuse(q)
  <2>1. Acceptable(p)
    BY <1>3 DEF CheckPayload
  <2>2. PICK profile \in SelectProfile(p.profile) :
          req' = [req EXCEPT ![q].pc = "replaces", ![q].payload = p, ![q].draft =
               [account |-> a, status |-> "pending", dispatched |-> FALSE,
                expires |-> now + OrderLifetime, identifiers |-> NormalizeAll(p.identifiers),
                notBefore |-> p.notBefore, notAfter |-> p.notAfter, replaces |-> None,
                profile |-> profile, createdAt |-> now]]
    BY <1>3 DEF CheckPayload
  <2>3. UNCHANGED <<now, order, authz, replacedBy, fin>>
    BY <1>3 DEF CheckPayload
  <2> DEFINE d == [account |-> a, status |-> "pending", dispatched |-> FALSE,
                expires |-> now + OrderLifetime, identifiers |-> NormalizeAll(p.identifiers),
                notBefore |-> p.notBefore, notAfter |-> p.notAfter, replaces |-> None,
                profile |-> profile, createdAt |-> now]
             r == [req[q] EXCEPT !.pc = "replaces", !.payload = p, !.draft = d]
  <2>4. req' = [req EXCEPT ![q] = r]
    BY Zenon, <2>2 DEF Kept, Typed
  <2>5. d \in OrderRec
    <3>1. NormalizeAll(p.identifiers) \in Seq(IdentifierRec)
      BY <2>1, NormalizedList DEF NewOrderAssumption, Acceptable, AcceptableIdentifiers
    <3>2. profile \in Profiles \cup {DefaultProfile}
      BY DEF SelectProfile
    <3>3. now + OrderLifetime \in Nat
      BY <1>1 DEF NewOrderAssumption
    <3>4. p.notBefore \in Int \cup {None} /\ p.notAfter \in Int \cup {None}
      BY DEF NewOrderAssumption
    <3> QED BY <1>1, <3>1, <3>2, <3>3, <3>4 DEF OrderRec, Statuses
  <2>6. Asked(d, p)
    <3>1. d.identifiers = NormalizeAll(p.identifiers) /\ d.profile = profile
          /\ d.notBefore = p.notBefore /\ d.notAfter = p.notAfter
      OBVIOUS
    <3>2. p.profile # None => profile = p.profile
      BY DEF SelectProfile
    <3>3. PeriodOK(p.notBefore, p.notAfter)
          /\ \A i \in DOMAIN NormalizeAll(p.identifiers) : ChallengeTypesFor(NormalizeAll(p.identifiers)[i]) # {}
      BY <2>1 DEF Acceptable, AcceptableIdentifiers
    <3> HIDE DEF d
    <3> QED BY <3>1, <3>2, <3>3 DEF Asked
  <2>7. d.createdAt = now /\ ~d.dispatched
    OBVIOUS
  <2> HIDE DEF d
  <2>8. r \in RequestRec /\ r.pc = "replaces" /\ r.draft = d /\ r.payload = p
    BY Zenon, <1>1, <2>5 DEF RequestRec, Phases
  <2> HIDE DEF r
  <2>9. DraftOK(r, now)
    BY <1>1, <2>5, <2>6, <2>7, <2>8 DEF DraftOK
  <2> QED BY ZenonT(30), <1>1, <2>3, <2>4, <2>8, <2>9, RequestStep
<1> QED BY <1>2, <1>3

(* A request on its way holds a draft of the order asked for. *)
LEMMA DraftHeld ==
  ASSUME Kept, NEW q \in Requests, req[q].pc \in Drafting
  PROVE  /\ req[q].draft \in OrderRec /\ req[q].draft.createdAt <= now /\ ~req[q].draft.dispatched
         /\ Asked(req[q].draft, req[q].payload)
  BY DEF Kept, DraftOK

(* checkReplaces only sets the certificate to replace. *)
LEMMA CheckReplacesKept ==
  ASSUME Kept, NEW q \in Requests, CheckReplaces(q)
  PROVE  Kept'
<1> DEFINE d == req[q].draft
           c == req[q].payload.replaces
           e == [d EXCEPT !.replaces = c]
<1>1. req[q].pc = "replaces" /\ req[q].pc \in Drafting
  BY DEF CheckReplaces, Drafting
<1>2. d \in OrderRec /\ d.createdAt <= now /\ ~d.dispatched /\ Asked(d, req[q].payload)
  BY <1>1, DraftHeld
<1>3. \/ Proceed(q, "limit", d)
      \/ c \in Certs /\ Proceed(q, "limit", e)
      \/ Refuse(q)
  BY DEF CheckReplaces
<1>4. CASE Proceed(q, "limit", d)
  BY <1>1, <1>2, <1>4, ProceedStep DEF Drafting
<1>5. CASE c \in Certs /\ Proceed(q, "limit", e)
  <2> HIDE DEF c, d
  <2>1. e \in OrderRec /\ e.createdAt = d.createdAt /\ e.identifiers = d.identifiers
        /\ e.profile = d.profile /\ e.notBefore = d.notBefore /\ e.notAfter = d.notAfter
        /\ e.dispatched = d.dispatched
    BY <1>2, <1>5 DEF OrderRec
  <2> HIDE DEF e
  <2>2. Asked(e, req[q].payload) /\ e.createdAt <= now /\ ~e.dispatched
    BY <1>2, <2>1 DEF Asked
  <2>3. "limit" \in Drafting \ {"create"}
    BY DEF Drafting
  <2> QED BY <1>1, <1>5, <2>1, <2>2, <2>3, ProceedStep
<1>6. CASE Refuse(q)
  BY <1>1, <1>6, RefuseStep
<1> QED BY <1>3, <1>4, <1>5, <1>6

(* The Limiter refuses or changes nothing. *)
LEMMA CheckLimitKept ==
  ASSUME Kept, NEW q \in Requests, CheckLimit(q)
  PROVE  Kept'
<1>1. req[q].pc = "limit" /\ req[q].pc \in Drafting /\ "review" \in Drafting \ {"create"}
  BY DEF CheckLimit, Drafting
<1>2. CASE Proceed(q, "review", req[q].draft)
  BY <1>1, <1>2, DraftHeld, ProceedStep
<1>3. CASE Refuse(q)
  BY <1>1, <1>3, RefuseStep
<1> QED BY <1>2, <1>3 DEF CheckLimit

(* reviewOrder takes over the validity period of the policy, tested again, *)
(* and nothing else.                                                       *)
LEMMA ReviewOrderKept ==
  ASSUME NewOrderAssumption, Kept, NEW q \in Requests, ReviewOrder(q)
  PROVE  Kept'
<1> DEFINE d == req[q].draft
<1>1. req[q].pc = "review" /\ req[q].pc \in Drafting /\ "preapprove" \in Drafting \ {"create"}
  BY Zenon DEF ReviewOrder, Drafting
<1>2. d \in OrderRec /\ d.createdAt <= now /\ ~d.dispatched /\ Asked(d, req[q].payload)
  BY <1>1, DraftHeld
<1>3. CASE Refuse(q)
  BY <1>1, <1>3, RefuseStep
<1>4. ASSUME NEW nb \in Bounds \cup {d.notBefore}, NEW na \in Bounds \cup {d.notAfter},
             NEW ids, NEW pf, NEW e,
             e = PolicyCopy(d, nb, na, ids, pf),
             [e EXCEPT !.notBefore = d.notBefore, !.notAfter = d.notAfter] = d,
             PeriodOK(e.notBefore, e.notAfter), Proceed(q, "preapprove", e)
      PROVE  Kept'
  <2> HIDE DEF d
  <2>1. ids = d.identifiers /\ pf = d.profile
    <3>1. e.identifiers = ids /\ e.profile = pf
      BY <1>2, <1>4 DEF OrderRec, PolicyCopy
    <3>2. [e EXCEPT !.notBefore = d.notBefore, !.notAfter = d.notAfter].identifiers = ids
          /\ [e EXCEPT !.notBefore = d.notBefore, !.notAfter = d.notAfter].profile = pf
      BY <1>2, <1>4, <3>1 DEF OrderRec, PolicyCopy
    <3> QED BY Zenon, <1>4, <3>2
  <2>2. {nb, na} \subseteq Int \cup {None}
    BY <1>2 DEF OrderRec, NewOrderAssumption
  <2>3. e \in OrderRec /\ e.createdAt = d.createdAt /\ e.identifiers = d.identifiers
        /\ e.profile = d.profile /\ e.dispatched = d.dispatched
    BY ZenonT(30), <1>2, <1>4, <2>1, <2>2 DEF OrderRec, PolicyCopy
  <2>4. Asked(e, req[q].payload) /\ e.createdAt <= now /\ ~e.dispatched
    BY <1>2, <1>4, <2>3 DEF Asked
  <2> QED BY <1>1, <1>4, <2>3, <2>4, ProceedStep
<1>5. CASE ~Refuse(q)
  <2>1. PICK e \in PolicyCopies(d) :
          /\ [e EXCEPT !.notBefore = d.notBefore, !.notAfter = d.notAfter] = d
          /\ PeriodOK(e.notBefore, e.notAfter) /\ Proceed(q, "preapprove", e)
    BY Zenon, <1>5 DEF ReviewOrder
  <2>2. PICK nb \in Bounds \cup {d.notBefore}, na \in Bounds \cup {d.notAfter},
             ids \in {d.identifiers, <<d.identifiers[1]>>}, pf \in {d.profile, DefaultProfile} :
          e = PolicyCopy(d, nb, na, ids, pf)
    <3> HIDE DEF d
    <3> QED BY <2>1, SMTT(20) DEF PolicyCopies
  <2> HIDE DEF d
  <2> QED BY Zenon, <1>4, <2>1, <2>2
<1> QED BY <1>3, <1>5

(* preApprove grants identifiers of the order only. *)
LEMMA PreApproveKept ==
  ASSUME Kept, NEW q \in Requests, PreApprove(q)
  PROVE  Kept'
<1>1. req[q].pc = "preapprove" /\ req[q].pc \in Drafting /\ req[q] \in RequestRec
  BY DEF PreApprove, Drafting, Kept, Typed
<1>2. req[q].draft \in OrderRec /\ req[q].draft.createdAt <= now /\ ~req[q].draft.dispatched
      /\ req[q].payload \in Payloads
      /\ Asked(req[q].draft, req[q].payload)
  BY <1>1 DEF Kept, DraftOK
<1>3. CASE Refuse(q)
  BY <1>1, <1>3, RefuseStep
<1>4. ASSUME NEW g, g \subseteq Range(req[q].draft.identifiers),
             req' = [req EXCEPT ![q].pc = "create", ![q].granted = g],
             UNCHANGED <<now, order, authz, replacedBy, fin>>
      PROVE  Kept'
  <2> DEFINE r == [req[q] EXCEPT !.pc = "create", !.granted = g]
  <2>1. g \subseteq IdentifierRec
    BY <1>2, <1>4 DEF OrderRec, Range
  <2>2. r \in RequestRec /\ r.pc = "create" /\ r.granted = g /\ r.draft = req[q].draft
        /\ r.payload = req[q].payload
    BY Zenon, <1>1, <2>1 DEF RequestRec, Phases
  <2>3. req' = [req EXCEPT ![q] = r]
    BY Zenon, <1>4 DEF Kept, Typed
  <2> HIDE DEF r
  <2>4. DraftOK(r, now)
    BY <1>2, <1>4, <2>2 DEF DraftOK
  <2> QED BY Zenon, <1>1, <1>4, <2>2, <2>3, <2>4, RequestStep
<1> QED BY <1>3, <1>4 DEF PreApprove

(* The Store refuses the order. *)
LEMMA RefusedByStoreKept ==
  ASSUME Kept, NEW q \in Requests, AlreadyReplaced(q) \/ StoreFails(q)
  PROVE  Kept'
<1>1. req[q].pc # "created" /\ Refuse(q)
  BY DEF AlreadyReplaced, StoreFails
<1> QED BY <1>1, RefuseStep

-----------------------------------------------------------------------------
(* A list has no more different members than entries. *)
LEMMA RangeOfList ==
  ASSUME NEW S, NEW s \in Seq(S)
  PROVE  IsFiniteSet(Range(s)) /\ Cardinality(Range(s)) <= Len(s)
<1>1. DOMAIN s = 1..Len(s) /\ Len(s) \in Nat
  OBVIOUS
<1>2. IsFiniteSet(1..Len(s)) /\ Cardinality(1..Len(s)) = Len(s)
  BY <1>1, FS_Interval
<1>3. s \in Surjection(1..Len(s), Range(s))
  <2>1. s \in [1..Len(s) -> Range(s)]
    BY <1>1 DEF Range
  <2>2. \A t \in Range(s) : \E i \in 1..Len(s) : s[i] = t
    BY <1>1 DEF Range
  <2> QED BY <2>1, <2>2 DEF Surjection
<1> QED BY <1>2, <1>3, FS_Surjection

(* CreateOrder stores the draft, and buildAuthorizations gives it one      *)
(* authorization per identifier.                                           *)
LEMMA Built ==
  ASSUME NEW d \in OrderRec, NEW g, g \subseteq Range(d.identifiers),
         \A i \in DOMAIN d.identifiers : ChallengeTypesFor(d.identifiers[i]) # {}
  PROVE  LET az == BuildAuthorizations(d, g)
         IN  /\ az \in Seq(AuthzRec)
             /\ az \in [DOMAIN d.identifiers -> AuthzRec]
             /\ \A i \in DOMAIN d.identifiers : Stands(az[i], d.identifiers[i])
             /\ Cardinality(g) = Len(d.identifiers) =>
                  \A i \in DOMAIN d.identifiers : az[i].status = "valid"
<1> DEFINE az == BuildAuthorizations(d, g)
<1>1. d.identifiers \in Seq(IdentifierRec)
  BY DEF OrderRec
<1>2. DOMAIN d.identifiers = 1..Len(d.identifiers) /\ Len(d.identifiers) \in Nat
  BY <1>1
<1>3. ASSUME NEW i \in DOMAIN d.identifiers
      PROVE  az[i] \in AuthzRec /\ Stands(az[i], d.identifiers[i])
             /\ (d.identifiers[i] \in g => az[i].status = "valid")
  <2> DEFINE id == d.identifiers[i]
             bare == [id EXCEPT !.wild = FALSE]
  <2>1. id \in IdentifierRec
    BY <1>1, <1>2
  <2>2. bare \in IdentifierRec /\ [bare EXCEPT !.wild = id.wild] = id
    BY Zenon, <2>1 DEF IdentifierRec
  <2>3. az[i] = [identifier |-> bare, wildcard |-> id.wild,
                 status |-> IF id \in g THEN "valid" ELSE "pending",
                 preApproved |-> id \in g,
                 challenges |-> IF id \in g THEN {} ELSE ChallengeTypesFor(id)]
    BY DEF BuildAuthorizations
  <2>4. ChallengeTypesFor(id) # {} /\ ChallengeTypesFor(id) \subseteq Validators
        /\ (id.wild => ChallengeTypesFor(id) = {"dns-01"})
    BY DEF ChallengeTypesFor
  <2>5. id.wild \in BOOLEAN
    BY <2>1 DEF IdentifierRec
  <2> HIDE DEF id, bare, az
  <2>6. az[i].identifier = bare /\ az[i].wildcard = id.wild
        /\ az[i].status = (IF id \in g THEN "valid" ELSE "pending")
        /\ az[i].preApproved = (id \in g)
        /\ az[i].challenges = (IF id \in g THEN {} ELSE ChallengeTypesFor(id))
    BY <2>3
  <2>7. az[i] \in AuthzRec
    BY <2>2, <2>3, <2>4, <2>5 DEF AuthzRec
  <2>8. Stands(az[i], id)
    <3>1. IndexKey(az[i]) = id
      BY <2>2, <2>6 DEF IndexKey
    <3>2. CASE id \in g
      BY Zenon, <2>6, <3>1, <3>2 DEF Stands
    <3>3. CASE id \notin g
      BY Zenon, <2>4, <2>6, <3>1, <3>3 DEF Stands
    <3> QED BY <3>2, <3>3
  <2>9. id \in g => az[i].status = "valid"
    BY <2>6
  <2> QED BY <2>7, <2>8, <2>9 DEF id
<1>4. az \in [DOMAIN d.identifiers -> AuthzRec]
  <2>1. az = [i \in DOMAIN d.identifiers |-> az[i]]
    BY DEF BuildAuthorizations
  <2> HIDE DEF az
  <2> QED BY <1>3, <2>1
<1>5. az \in Seq(AuthzRec)
  <2> HIDE DEF az
  <2> QED BY <1>2, <1>4
<1>6. Cardinality(g) = Len(d.identifiers) => \A i \in DOMAIN d.identifiers : az[i].status = "valid"
  <2>1. SUFFICES ASSUME Cardinality(g) = Len(d.identifiers) PROVE g = Range(d.identifiers)
    BY <1>3 DEF Range
  <2>2. IsFiniteSet(Range(d.identifiers)) /\ Cardinality(Range(d.identifiers)) <= Len(d.identifiers)
    BY <1>1, RangeOfList
  <2>3. Cardinality(g) <= Cardinality(Range(d.identifiers))
        /\ (Cardinality(Range(d.identifiers)) = Cardinality(g) => Range(d.identifiers) = g)
    BY <2>2, FS_Subset
  <2>4. Cardinality(Range(d.identifiers)) \in Nat
    BY <2>2, FS_CardinalityType
  <2> QED BY <1>2, <2>1, <2>2, <2>3, <2>4
<1> QED BY <1>3, <1>4, <1>5, <1>6

(* CreateOrder is one write of the order and of its authorizations. *)
LEMMA CreateOrderKept ==
  ASSUME NewOrderAssumption, Kept, NEW q \in Requests, CreateOrder(q)
  PROVE  Kept'
<1> DEFINE d == req[q].draft
           g == req[q].granted
           st == IF Cardinality(g) = Len(d.identifiers) THEN "ready" ELSE "pending"
           o == [d EXCEPT !.status = st]
           az == BuildAuthorizations(d, g)
           r == [req[q] EXCEPT !.pc = "created", !.draft = None, !.granted = {}]
<1>1. req[q].pc = "create" /\ req[q].pc \in Drafting /\ req[q] \in RequestRec
  BY DEF CreateOrder, Drafting, Kept, Typed
<1>2. d \in OrderRec /\ ~d.dispatched /\ Asked(d, req[q].payload) /\ g \subseteq Range(d.identifiers)
  BY <1>1 DEF Kept, DraftOK
<1>3. order' = [order EXCEPT ![q] = o] /\ authz' = [authz EXCEPT ![q] = az]
      /\ req' = [req EXCEPT ![q] = r] /\ UNCHANGED <<now, fin>>
  BY Zenon DEF CreateOrder, Kept, Typed
<1>4. replacedBy' \in [Certs -> Requests \cup {None}]
  BY DEF CreateOrder, Kept, Typed
<1>5. /\ az \in Seq(AuthzRec) /\ az \in [DOMAIN d.identifiers -> AuthzRec]
      /\ \A i \in DOMAIN d.identifiers : Stands(az[i], d.identifiers[i])
      /\ Cardinality(g) = Len(d.identifiers) =>
           \A i \in DOMAIN d.identifiers : az[i].status = "valid"
  BY Zenon, <1>2, Built DEF Asked
<1> HIDE DEF d, g, az
<1>6. /\ o \in OrderRec /\ o.status = st /\ o.identifiers = d.identifiers /\ o.profile = d.profile
      /\ o.notBefore = d.notBefore /\ o.notAfter = d.notAfter /\ o.dispatched = d.dispatched
  BY <1>2 DEF OrderRec, Statuses
<1>7. r \in RequestRec /\ r.pc = "created" /\ r.payload = req[q].payload
  BY ZenonT(30), <1>1 DEF RequestRec, Phases
<1> HIDE DEF o, r
<1>8. Asked(o, r.payload)
  BY <1>2, <1>6, <1>7 DEF Asked
<1>9. StoredOK(o, az, r)
  BY <1>2, <1>5, <1>6, <1>7, <1>8 DEF StoredOK
<1>10. DraftOK(r, now)
  BY <1>7 DEF DraftOK, Drafting
<1>11. o # None
  BY <1>6 DEF NewOrderAssumption
<1>12. Typed'
  <2>1. fin'.order # None => order'[fin'.order] # None
    BY <1>3, <1>11 DEF Kept, Typed
  <2> QED BY <1>3, <1>4, <1>5, <1>6, <1>7, <2>1 DEF Kept, Typed
<1>13. ASSUME NEW p \in Requests
       PROVE  DraftOK(req'[p], now') /\ StoredOK(order'[p], authz'[p], req'[p])
  <2>1. CASE p = q
    BY <1>3, <1>9, <1>10, <2>1 DEF Kept, Typed
  <2>2. CASE p # q
    BY <1>3, <2>2 DEF Kept, Typed
  <2> QED BY <2>1, <2>2
<1> QED BY <1>12, <1>13 DEF Kept

-----------------------------------------------------------------------------
(* The order old and its authorizations may become o and az. *)
MayMove(old, o, az) ==
  /\ o \in OrderRec
  /\ o.identifiers = old.identifiers /\ o.profile = old.profile
  /\ o.notBefore = old.notBefore /\ o.notAfter = old.notAfter
  /\ o.status \in {"pending", "ready"} => ~o.dispatched
  /\ az \in [DOMAIN o.identifiers -> AuthzRec]
  /\ \A i \in DOMAIN o.identifiers : Stands(az[i], o.identifiers[i])
  /\ o.status \in {"ready", "processing", "valid"} =>
       \A i \in DOMAIN o.identifiers : az[i].status = "valid"

(* An order that moves on keeps what was asked for, and its authorizations *)
(* keep standing for its identifiers.                                      *)
LEMMA OrderStep ==
  ASSUME NewOrderAssumption, Kept, NEW q \in Requests, order[q] # None,
         NEW o, NEW az, MayMove(order[q], o, az),
         order' = [order EXCEPT ![q] = o], authz' = [authz EXCEPT ![q] = az],
         fin' \in {fin, NoFinalize}, UNCHANGED <<now, req, replacedBy>>
  PROVE  Kept'
<1>1. o # None
  BY DEF NewOrderAssumption, MayMove
<1>2. az \in Seq(AuthzRec)
  <2>1. o.identifiers \in Seq(IdentifierRec)
    BY DEF OrderRec, MayMove
  <2>2. DOMAIN o.identifiers = 1..Len(o.identifiers) /\ Len(o.identifiers) \in Nat
    BY <2>1
  <2> QED BY <2>2 DEF MayMove
<1>3. Typed'
  <2>1. fin' \in [order : Requests \cup {None}] /\ (fin'.order # None => fin' = fin)
    BY DEF NoFinalize, Kept, Typed
  <2>2. fin'.order # None => order'[fin'.order] # None
    BY <1>1, <2>1 DEF Kept, Typed
  <2> QED BY <1>2, <2>1, <2>2 DEF Kept, Typed, MayMove
<1>4. Asked(o, req[q].payload)
  BY DEF Kept, StoredOK, Asked, MayMove
<1>5. StoredOK(o, az, req[q])
  BY <1>4 DEF Kept, StoredOK, MayMove
<1>6. ASSUME NEW p \in Requests
      PROVE  StoredOK(order'[p], authz'[p], req'[p])
  <2>1. CASE p = q
    BY <1>5, <2>1 DEF Kept, Typed
  <2>2. CASE p # q
    BY <2>2 DEF Kept, Typed
  <2> QED BY <2>1, <2>2
<1> QED BY <1>3, <1>6 DEF Kept

(* What is stored of an order. *)
LEMMA OrderHeld ==
  ASSUME Kept, NEW q \in Requests, order[q] # None
  PROVE  /\ order[q] \in OrderRec
         /\ order[q].status \in {"pending", "ready"} => ~order[q].dispatched
         /\ authz[q] \in [DOMAIN order[q].identifiers -> AuthzRec]
         /\ \A i \in DOMAIN order[q].identifiers : Stands(authz[q][i], order[q].identifiers[i])
         /\ order[q].status \in {"ready", "processing", "valid"} =>
              \A i \in DOMAIN order[q].identifiers : authz[q][i].status = "valid"
  BY DEF Kept, Typed, StoredOK

(* A change of status, or of the dispatch, that leaves the authorizations. *)
LEMMA MoveStep ==
  ASSUME NewOrderAssumption, Kept, NEW q \in Requests, order[q] # None,
         NEW st \in Statuses, NEW sent \in BOOLEAN,
         st \in {"ready", "processing", "valid"} =>
           order[q].status \in {"ready", "processing", "valid"},
         st \in {"pending", "ready"} => ~sent,
         order' = [order EXCEPT ![q] = [@ EXCEPT !.status = st, !.dispatched = sent]],
         fin' \in {fin, NoFinalize}, UNCHANGED <<now, req, replacedBy, authz>>
  PROVE  Kept'
<1> DEFINE o == [order[q] EXCEPT !.status = st, !.dispatched = sent]
<1>1. order[q] \in OrderRec
  BY OrderHeld
<1>2. /\ o \in OrderRec /\ o.status = st /\ o.dispatched = sent /\ o.identifiers = order[q].identifiers
      /\ o.profile = order[q].profile /\ o.notBefore = order[q].notBefore /\ o.notAfter = order[q].notAfter
  BY Zenon, <1>1 DEF OrderRec
<1>3. order' = [order EXCEPT ![q] = o] /\ authz' = [authz EXCEPT ![q] = authz[q]]
  BY DEF Kept, Typed
<1> HIDE DEF o
<1>4. MayMove(order[q], o, authz[q])
  BY <1>2, OrderHeld DEF MayMove
<1> QED BY Zenon, <1>3, <1>4, OrderStep

(* The workers' outcomes for all authorizations of an order. *)
LEMMA ProofsMove ==
  ASSUME NewOrderAssumption, Kept, NEW q \in Requests, order[q] # None,
         NEW st \in Statuses, NEW result \in {"valid", "invalid"},
         st \in {"ready", "processing", "valid"} => result = "valid",
         order[q].status \in {"pending", "ready"}
  PROVE  MayMove(order[q], [order[q] EXCEPT !.status = st],
                 [i \in DOMAIN authz[q] |-> [authz[q][i] EXCEPT !.status = result]])
<1> DEFINE o == [order[q] EXCEPT !.status = st]
           az == [i \in DOMAIN authz[q] |-> [authz[q][i] EXCEPT !.status = result]]
           ids == order[q].identifiers
<1>1. order[q] \in OrderRec /\ authz[q] \in [DOMAIN ids -> AuthzRec]
  BY OrderHeld
<1>2. /\ o \in OrderRec /\ o.status = st /\ o.dispatched = order[q].dispatched /\ o.identifiers = ids
      /\ o.profile = order[q].profile /\ o.notBefore = order[q].notBefore /\ o.notAfter = order[q].notAfter
  BY <1>1 DEF OrderRec
<1>3. ASSUME NEW i \in DOMAIN ids
      PROVE  az[i] \in AuthzRec /\ Stands(az[i], ids[i]) /\ az[i].status = result
  <2> DEFINE a == authz[q][i]
             b == [a EXCEPT !.status = result]
  <2>1. az[i] = b
    BY <1>1
  <2>2. a \in AuthzRec /\ Stands(a, ids[i])
    BY <1>1, OrderHeld
  <2> HIDE DEF a, az, ids
  <2>3. b \in AuthzRec /\ b.status = result /\ b.identifier = a.identifier
        /\ b.wildcard = a.wildcard /\ b.preApproved = a.preApproved /\ b.challenges = a.challenges
    BY <2>2 DEF AuthzRec
  <2> HIDE DEF b
  <2>4. Stands(b, ids[i])
    BY <2>2, <2>3 DEF Stands, IndexKey
  <2> QED BY <2>1, <2>3, <2>4
<1>4. az \in [DOMAIN ids -> AuthzRec]
  <2>1. DOMAIN authz[q] = DOMAIN ids
    BY <1>1
  <2>2. az = [i \in DOMAIN ids |-> az[i]]
    BY <2>1
  <2> HIDE DEF az, ids
  <2> QED BY <1>3, <2>2
<1>5. order[q].status \in {"pending", "ready"} => ~order[q].dispatched
  BY OrderHeld
<1>6. MayMove(order[q], o, az)
  <2> HIDE DEF o, az
  <2> QED BY <1>2, <1>3, <1>4, <1>5 DEF MayMove
<1> QED BY <1>6

(* The outcomes of the workers and of a finalization. *)
LEMMA MovesKept ==
  ASSUME NewOrderAssumption, Kept, NEW q \in Requests,
         Validated(q) \/ Invalidated(q) \/ FinalizeRead(q) \/ FinalizeStore(q) \/ Dispatch(q) \/ Decided(q)
  PROVE  Kept'
<1>1. CASE Validated(q)
  <2> DEFINE o == [order[q] EXCEPT !.status = "ready"]
             az == [i \in DOMAIN authz[q] |-> [authz[q][i] EXCEPT !.status = "valid"]]
  <2>1. order[q] # None /\ order[q].status \in {"pending", "ready"}
    BY <1>1 DEF Validated, StatusAt
  <2>2. MayMove(order[q], o, az)
    BY Zenon, <2>1, ProofsMove DEF Statuses
  <2>3. order' = [order EXCEPT ![q] = o] /\ authz' = [authz EXCEPT ![q] = az]
        /\ UNCHANGED <<now, req, replacedBy, fin>>
    BY <1>1 DEF Validated, MoveTo
  <2> HIDE DEF o, az
  <2> QED BY Zenon, <2>1, <2>2, <2>3, OrderStep
<1>2. CASE Invalidated(q)
  <2> DEFINE o == [order[q] EXCEPT !.status = "invalid"]
             az == [i \in DOMAIN authz[q] |-> [authz[q][i] EXCEPT !.status = "invalid"]]
  <2>1. order[q] # None /\ order[q].status \in {"pending", "ready"}
    BY <1>2 DEF Invalidated, StatusAt
  <2>2. MayMove(order[q], o, az)
    BY ZenonT(30), <2>1, ProofsMove DEF Statuses
  <2>3. order' = [order EXCEPT ![q] = o] /\ authz' = [authz EXCEPT ![q] = az]
        /\ UNCHANGED <<now, req, replacedBy, fin>>
    BY <1>2 DEF Invalidated, MoveTo
  <2> HIDE DEF o, az
  <2> QED BY ZenonT(30), <2>1, <2>2, <2>3, OrderStep
<1>3. CASE FinalizeRead(q)
  <2>1. Typed'
    BY <1>3 DEF FinalizeRead, Kept, Typed
  <2> QED BY <1>3, <2>1 DEF FinalizeRead, Kept
<1>4. CASE FinalizeStore(q)
  <2> DEFINE st == IF order[q].status = "ready" THEN "processing" ELSE order[q].status
  <2>1. order[q] # None /\ fin' \in {fin, NoFinalize} /\ UNCHANGED <<now, req, replacedBy, authz>>
    BY <1>4 DEF FinalizeStore, MoveTo, Kept, Typed, NewOrderAssumption
  <2>2. order[q] \in OrderRec
    BY <2>1, OrderHeld
  <2>3. st \in Statuses /\ order[q].dispatched \in BOOLEAN
        /\ (st \in {"ready", "processing", "valid"} => order[q].status \in {"ready", "processing", "valid"})
        /\ (st \in {"pending", "ready"} => ~order[q].dispatched)
    BY <2>1, <2>2, OrderHeld DEF OrderRec, Statuses
  <2>4. order' = [order EXCEPT ![q] = [@ EXCEPT !.status = st, !.dispatched = order[q].dispatched]]
    <3>1. order' = [order EXCEPT ![q].status = st]
      BY <1>4 DEF FinalizeStore, MoveTo
    <3> HIDE DEF st
    <3>2. [order[q] EXCEPT !.status = st, !.dispatched = order[q].dispatched] = [order[q] EXCEPT !.status = st]
      BY ZenonT(30), <2>2 DEF OrderRec
    <3> QED BY Zenon, <3>1, <3>2 DEF Kept, Typed
  <2> HIDE DEF st
  <2> QED BY Zenon, <2>1, <2>3, <2>4, MoveStep
<1>5. CASE Dispatch(q)
  <2>1. order[q] # None /\ order[q].status = "processing" /\ ~order[q].dispatched
        /\ UNCHANGED <<now, req, replacedBy, authz, fin>>
    BY <1>5 DEF Dispatch
  <2>2. order[q] \in OrderRec
    BY <2>1, OrderHeld
  <2>3. CASE order[q].expires <= now
    <3>1. order' = [order EXCEPT ![q] = [@ EXCEPT !.status = "invalid", !.dispatched = order[q].dispatched]]
      <4>1. order' = [order EXCEPT ![q].status = "invalid"]
        BY <1>5, <2>3 DEF Dispatch
      <4>2. [order[q] EXCEPT !.status = "invalid", !.dispatched = order[q].dispatched]
              = [order[q] EXCEPT !.status = "invalid"]
        BY Zenon, <2>2 DEF OrderRec
      <4> QED BY Zenon, <4>1, <4>2 DEF Kept, Typed
    <3>2. order[q].dispatched \in BOOLEAN /\ "invalid" \in Statuses
      BY <2>2 DEF OrderRec, Statuses
    <3> QED BY ZenonT(30), <2>1, <3>1, <3>2, MoveStep
  <2>4. CASE ~(order[q].expires <= now)
    <3>1. order' = [order EXCEPT ![q] = [@ EXCEPT !.status = "processing", !.dispatched = TRUE]]
      <4>1. order' = [order EXCEPT ![q].dispatched = TRUE]
        BY <1>5, <2>4 DEF Dispatch
      <4>2. [order[q] EXCEPT !.status = "processing", !.dispatched = TRUE]
              = [order[q] EXCEPT !.dispatched = TRUE]
        BY ZenonT(30), <2>1, <2>2 DEF OrderRec
      <4> QED BY Zenon, <4>1, <4>2 DEF Kept, Typed
    <3>2. "processing" \in Statuses
      BY DEF Statuses
    <3> QED BY ZenonT(30), <2>1, <3>1, <3>2, MoveStep
  <2> QED BY <2>3, <2>4
<1>6. CASE Decided(q)
  <2>1. order[q] # None /\ order[q].status = "processing" /\ order[q].dispatched = TRUE
        /\ UNCHANGED <<now, req, replacedBy, authz, fin>>
    <3>1. order[q] # None /\ order[q].dispatched
      BY <1>6 DEF Decided
    <3>2. order[q].dispatched \in BOOLEAN
      BY <3>1, OrderHeld DEF OrderRec
    <3> QED BY <1>6, <3>1, <3>2 DEF Decided, MoveTo
  <2>2. order[q] \in OrderRec
    BY <2>1, OrderHeld
  <2>3. PICK st \in {"valid", "invalid"} : order' = [order EXCEPT ![q].status = st]
    BY Zenon, <1>6 DEF Decided, MoveTo
  <2>4. [order[q] EXCEPT !.status = st, !.dispatched = TRUE] = [order[q] EXCEPT !.status = st]
    BY Zenon, <2>1, <2>2 DEF OrderRec
  <2>5. order' = [order EXCEPT ![q] = [@ EXCEPT !.status = st, !.dispatched = TRUE]]
    BY ZenonT(30), <2>3, <2>4 DEF Kept, Typed
  <2>6. st \in Statuses
    BY DEF Statuses
  <2> QED BY Zenon, <2>1, <2>5, <2>6, MoveStep
<1> QED BY <1>1, <1>2, <1>3, <1>4, <1>5, <1>6

-----------------------------------------------------------------------------
(* Kept holds at the start and every step of the server keeps it. *)
LEMMA KeptInit ==
  ASSUME NewOrderAssumption, Init
  PROVE  Kept
<1>1. NewRequest \in RequestRec /\ NewRequest.pc = "new"
  BY DEF NewRequest, RequestRec, Phases
<1>2. Typed
  BY <1>1 DEF Init, Typed, NoFinalize
<1> QED BY <1>1, <1>2 DEF Init, Kept, DraftOK, StoredOK, Drafting

LEMMA KeptStep ==
  ASSUME NewOrderAssumption, Kept, [Next]_vars
  PROVE  Kept'
<1>1. ASSUME NEW q \in Requests, ServeNewOrder(q) PROVE Kept'
  BY <1>1, CheckPayloadKept DEF ServeNewOrder
<1>2. ASSUME NEW q \in Requests,
             \/ CheckReplaces(q) \/ CheckLimit(q) \/ ReviewOrder(q) \/ PreApprove(q)
             \/ CreateOrder(q) \/ AlreadyReplaced(q) \/ StoreFails(q)
      PROVE  Kept'
  BY <1>2, CheckReplacesKept, CheckLimitKept, ReviewOrderKept, PreApproveKept,
     CreateOrderKept, RefusedByStoreKept
<1>3. ASSUME NEW q \in Requests,
             Validated(q) \/ Invalidated(q) \/ FinalizeRead(q) \/ FinalizeStore(q) \/ Dispatch(q) \/ Decided(q)
      PROVE  Kept'
  BY <1>3, MovesKept
<1>4. CASE UNCHANGED <<now, order, authz, replacedBy, req, fin>>
  BY <1>4 DEF Kept, Typed
<1>5. CASE Tick
  <2>1. now \in Nat /\ now' = now + 1 /\ UNCHANGED <<order, authz, replacedBy, req, fin>>
    BY <1>5 DEF Tick, Kept, Typed
  <2>2. Typed'
    BY <2>1 DEF Kept, Typed
  <2>3. ASSUME NEW q \in Requests PROVE DraftOK(req[q], now + 1)
    BY <2>1 DEF Kept, DraftOK, OrderRec
  <2> QED BY <2>1, <2>2, <2>3 DEF Kept
<1>6. ASSUME NEW a \in Accounts, StartList(a)
      PROVE  Kept'
  BY <1>4, <1>6 DEF StartList
<1>7. CASE ListPage \/ ListOrder \/ ListWritten \/ ListFails \/ UNCHANGED vars
  BY <1>4, <1>7 DEF ListPage, ListOrder, ListWritten, ListFails, vars
<1> QED BY <1>1, <1>2, <1>3, <1>5, <1>6, <1>7 DEF Next

(* Whatever was asked for, and whatever the hooks of the host did with     *)
(* their copies, the order stored is the one asked for, each of its        *)
(* authorizations stands for its identifier and can be proved, and it is   *)
(* past pending only by proof (reviewOrder, selectProfile,                 *)
(* buildAuthorizations, authorizationIndexKey).                            *)
THEOREM OrdersAreAsAsked ==
  ASSUME NewOrderAssumption
  PROVE  Spec => []OrderAsAsked
<1>1. Init => Kept
  BY KeptInit
<1>2. Kept /\ [Next]_vars => Kept'
  BY KeptStep
<1>3. Kept => OrderAsAsked
  <2> SUFFICES ASSUME Kept, NEW q \in Requests, order[q] # None
               PROVE  /\ Asked(order[q], req[q].payload)
                      /\ \A i \in DOMAIN order[q].identifiers : Stands(authz[q][i], order[q].identifiers[i])
                      /\ order[q].status \in {"ready", "processing", "valid"} =>
                           \A i \in DOMAIN authz[q] : authz[q][i].status = "valid"
    BY DEF OrderAsAsked, AsRequested, OrderIsProvable, Asked, Stands
  <2>1. DOMAIN authz[q] = DOMAIN order[q].identifiers
    BY DEF Kept, StoredOK
  <2> QED BY <2>1 DEF Kept, StoredOK
<1> QED BY <1>1, <1>2, <1>3, PTL DEF Spec

-----------------------------------------------------------------------------
(* The order of p could already lead to a certificate before the step, and *)
(* replaces what it replaced.                                              *)
Before(p) ==
  order'[p] # None /\ Standing(order[p])' =>
    order[p] # None /\ order[p].replaces = order'[p].replaces /\ Standing(order[p])

(* A step that changes one order's status at most: no order comes back to  *)
(* life.                                                                   *)
LEMMA NoRevival ==
  ASSUME Kept, NEW q \in Requests, order[q] # None, now' = now,
         NEW st \in Statuses, NEW sent \in BOOLEAN,
         order' = [order EXCEPT ![q] = [@ EXCEPT !.status = st, !.dispatched = sent]],
         \/ st = "invalid"
         \/ Standing(order[q])
         \/ st = order[q].status /\ sent = order[q].dispatched
         \/ order[q].status = "ready" /\ st = "processing" /\ sent = order[q].dispatched /\ ~sent
  PROVE  \A p \in Requests : Before(p)
<1> DEFINE o == [order[q] EXCEPT !.status = st, !.dispatched = sent]
<1>1. order[q] \in OrderRec /\ now \in Nat
  BY OrderHeld DEF Kept, Typed
<1>2. o.status = st /\ o.dispatched = sent /\ o.replaces = order[q].replaces /\ o.expires = order[q].expires
  BY <1>1 DEF OrderRec
<1>3. \A p \in Requests : order'[p] = IF p = q THEN o ELSE order[p]
  BY DEF Kept, Typed
<1> HIDE DEF o
<1>4. Standing(o) => Standing(order[q])
  BY <1>1, <1>2 DEF Standing, OrderRec, Statuses
<1>5. ASSUME NEW p \in Requests, order'[p] # None, Standing(order[p])'
      PROVE  order[p] # None /\ order[p].replaces = order'[p].replaces /\ Standing(order[p])
  <2>1. CASE p = q
    <3>1. order'[p] = o
      BY Zenon, <1>3, <2>1
    <3>2. Standing(o)
      BY ZenonT(30), <1>5, <3>1 DEF Standing
    <3> QED BY <1>2, <1>4, <2>1, <3>1, <3>2
  <2>2. CASE p # q
    BY <1>3, <1>5, <2>2 DEF Standing
  <2> QED BY <2>1, <2>2
<1> QED BY <1>5 DEF Before

(* The workers and a finalization bring no order back to life: an order    *)
(* that expired is finalized at most, and then fails its dispatch.         *)
LEMMA MovesRevive ==
  ASSUME NewOrderAssumption, Kept, NEW q \in Requests,
         Validated(q) \/ Invalidated(q) \/ FinalizeStore(q) \/ Dispatch(q) \/ Decided(q)
  PROVE  \A p \in Requests : Before(p)
<1>1. order[q] # None /\ now' = now
  BY DEF Validated, Invalidated, FinalizeStore, Dispatch, Decided, MoveTo, Kept, Typed, NewOrderAssumption
<1>2. order[q] \in OrderRec /\ (order[q].status \in {"pending", "ready"} => ~order[q].dispatched) /\ now \in Nat
  BY <1>1, OrderHeld DEF Kept, Typed
<1>3. order[q].dispatched \in BOOLEAN /\ order[q].status \in Statuses /\ order[q].expires \in Nat
  BY <1>2 DEF OrderRec
<1>4. ASSUME NEW st \in Statuses, order' = [order EXCEPT ![q].status = st],
             \/ st = "invalid" \/ Standing(order[q]) \/ st = order[q].status
             \/ order[q].status = "ready" /\ st = "processing" /\ ~order[q].dispatched
      PROVE  \A p \in Requests : Before(p)
  <2>1. [order[q] EXCEPT !.status = st, !.dispatched = order[q].dispatched] = [order[q] EXCEPT !.status = st]
    BY Zenon, <1>2 DEF OrderRec
  <2>2. order' = [order EXCEPT ![q] = [@ EXCEPT !.status = st, !.dispatched = order[q].dispatched]]
    BY Zenon, <1>4, <2>1 DEF Kept, Typed
  <2> QED BY ZenonT(30), <1>1, <1>3, <1>4, <2>2, NoRevival
<1>5. CASE Validated(q)
  <2>1. order' = [order EXCEPT ![q].status = "ready"] /\ Standing(order[q]) /\ "ready" \in Statuses
    BY <1>2, <1>3, <1>5 DEF Validated, MoveTo, StatusAt, Standing, Statuses
  <2> QED BY Zenon, <1>4, <2>1
<1>6. CASE Invalidated(q)
  <2>1. order' = [order EXCEPT ![q].status = "invalid"] /\ "invalid" \in Statuses
    BY <1>6 DEF Invalidated, MoveTo, Statuses
  <2> QED BY Zenon, <1>4, <2>1
<1>7. CASE FinalizeStore(q)
  <2> DEFINE st == IF order[q].status = "ready" THEN "processing" ELSE order[q].status
  <2>1. order' = [order EXCEPT ![q].status = st]
    BY <1>7 DEF FinalizeStore, MoveTo
  <2>2. st \in Statuses
    BY <1>3 DEF Statuses
  <2>3. \/ order[q].status = "ready" /\ st = "processing" /\ ~order[q].dispatched
        \/ st = order[q].status
    BY <1>2
  <2> HIDE DEF st
  <2> QED BY ZenonT(30), <1>4, <2>1, <2>2, <2>3
<1>8. CASE Dispatch(q)
  <2>1. CASE order[q].expires <= now
    <3>1. order' = [order EXCEPT ![q].status = "invalid"] /\ "invalid" \in Statuses
      BY <1>8, <2>1 DEF Dispatch, Statuses
    <3> QED BY ZenonT(30), <1>4, <3>1
  <2>2. CASE ~(order[q].expires <= now)
    <3>1. order' = [order EXCEPT ![q].dispatched = TRUE] /\ order[q].status = "processing"
          /\ "processing" \in Statuses
      BY <1>8, <2>2 DEF Dispatch, Statuses
    <3>2. [order[q] EXCEPT !.status = "processing", !.dispatched = TRUE]
              = [order[q] EXCEPT !.dispatched = TRUE]
      BY Zenon, <1>2, <3>1 DEF OrderRec
    <3>3. order' = [order EXCEPT ![q] = [@ EXCEPT !.status = "processing", !.dispatched = TRUE]]
      BY ZenonT(30), <3>1, <3>2 DEF Kept, Typed
    <3>4. Standing(order[q])
      BY <1>2, <1>3, <2>2, <3>1 DEF Standing
    <3> QED BY ZenonT(30), <1>1, <3>1, <3>3, <3>4, NoRevival
  <2> QED BY <2>1, <2>2
<1>9. CASE Decided(q)
  <2>1. PICK st \in {"valid", "invalid"} : order' = [order EXCEPT ![q].status = st]
    BY Zenon, <1>9 DEF Decided, MoveTo
  <2>2. Standing(order[q]) /\ st \in Statuses
    BY <1>9 DEF Decided, Standing, Statuses
  <2> QED BY Zenon, <1>4, <2>1, <2>2
<1> QED BY <1>5, <1>6, <1>7, <1>8, <1>9

(* claimReplacement lets an order take the certificate over only once the  *)
(* order that held it is dead for good.                                    *)
LEMMA ClaimIsSafe ==
  ASSUME NewOrderAssumption, Kept, OneLiveReplacement, NEW q \in Requests, CreateOrder(q)
  PROVE  OneLiveReplacement'
<1> DEFINE d == req[q].draft
<1>1. d \in OrderRec /\ d.createdAt <= now /\ now \in Nat
  BY DEF CreateOrder, Kept, Typed, DraftOK, Drafting
<1>2. now' = now /\ order[q] = None
  BY DEF CreateOrder
<1>3. ASSUME NEW p \in Requests, p # q PROVE order'[p] = order[p]
  BY <1>3 DEF CreateOrder, Kept, Typed
<1>4. order'[q].replaces = d.replaces
  <2>1. ASSUME NEW st PROVE [d EXCEPT !.status = st].replaces = d.replaces
    BY <1>1 DEF OrderRec
  <2> QED BY <2>1 DEF CreateOrder, Kept, Typed
<1>5. replacedBy' = [c \in Certs |-> IF c = d.replaces THEN q ELSE replacedBy[c]]
  BY DEF CreateOrder
<1>6. ASSUME NEW p \in Requests, order'[p] # None, order'[p].replaces # None, Standing(order[p])'
      PROVE  replacedBy'[order'[p].replaces] = p
  <2>1. CASE p = q
    <3>1. d.replaces \in Certs
      BY <1>1, <1>4, <1>6, <2>1 DEF OrderRec
    <3> QED BY <1>4, <1>5, <2>1, <3>1
  <2>2. CASE p # q
    <3>1. order[p] # None /\ order[p].replaces # None /\ order'[p] = order[p]
      BY <1>3, <1>6, <2>2
    <3>2. Standing(order[p])
      BY <1>2, <1>6, <3>1 DEF Standing
    <3>3. replacedBy[order[p].replaces] = p
      BY <3>1, <3>2 DEF OneLiveReplacement
    <3>4. order[p] \in OrderRec
      BY <3>1, OrderHeld
    <3>5. order[p].replaces \in Certs /\ order[p].expires \in Nat
      BY <3>1, <3>4 DEF OrderRec
    <3>6. order[p].replaces # d.replaces
      <4> SUFFICES ASSUME order[p].replaces = d.replaces PROVE FALSE
        OBVIOUS
      <4>1. Claimable(d) /\ p # None
        BY <3>1 DEF CreateOrder, NewOrderAssumption
      <4>2. StatusAt(order[p], d.createdAt) = "invalid"
        BY <3>3, <4>1 DEF Claimable
      <4>3. d.createdAt \in Nat
        BY <1>1 DEF OrderRec
      <4> HIDE DEF d
      <4> QED BY <1>1, <3>2, <3>5, <4>2, <4>3 DEF StatusAt, Standing
    <3> HIDE DEF d
    <3> QED BY <1>5, <3>1, <3>3, <3>5, <3>6
  <2> QED BY <2>1, <2>2
<1> QED BY <1>6 DEF OneLiveReplacement

(* A certificate has one replacement: while any number of requests claim   *)
(* it, and orders expire, fail and are finalized late, an order that may   *)
(* still lead to a certificate is the one its predecessor names            *)
(* (claimReplacement, CreateOrder, dispatchSnapshot).                      *)
THEOREM ReplacementIsUnique ==
  ASSUME NewOrderAssumption
  PROVE  Spec => []OneLiveReplacement
<1> DEFINE Inv == Kept /\ OneLiveReplacement
<1>1. Init => Inv
  BY KeptInit DEF Init, OneLiveReplacement
<1>2. Inv /\ [Next]_vars => Inv'
  <2> SUFFICES ASSUME Kept, OneLiveReplacement, [Next]_vars
               PROVE  OneLiveReplacement'
    BY KeptStep
  <2>1. ASSUME \A p \in Requests : Before(p), replacedBy' = replacedBy
        PROVE  OneLiveReplacement'
    BY <2>1 DEF OneLiveReplacement, Before
  <2>2. ASSUME order' = order, replacedBy' = replacedBy, now' = now
        PROVE  OneLiveReplacement'
    BY <2>2 DEF OneLiveReplacement, Standing
  <2>3. ASSUME NEW q \in Requests,
               Validated(q) \/ Invalidated(q) \/ FinalizeStore(q) \/ Dispatch(q) \/ Decided(q)
        PROVE  OneLiveReplacement'
    <3>1. \A p \in Requests : Before(p)
      BY <2>3, MovesRevive
    <3>2. replacedBy' = replacedBy
      BY <2>3 DEF Validated, Invalidated, FinalizeStore, Dispatch, Decided, MoveTo
    <3> QED BY <2>1, <3>1, <3>2
  <2>4. ASSUME NEW q \in Requests, ServeNewOrder(q) PROVE OneLiveReplacement'
    BY <2>2, <2>4 DEF ServeNewOrder, CheckPayload, Refuse
  <2>5. ASSUME NEW q \in Requests,
               \/ CheckReplaces(q) \/ CheckLimit(q) \/ ReviewOrder(q) \/ PreApprove(q)
               \/ AlreadyReplaced(q) \/ StoreFails(q) \/ FinalizeRead(q)
        PROVE  OneLiveReplacement'
    BY Zenon, <2>2, <2>5 DEF CheckReplaces, CheckLimit, ReviewOrder, PreApprove, AlreadyReplaced,
                      StoreFails, FinalizeRead, Proceed, Refuse
  <2>6. ASSUME NEW q \in Requests, CreateOrder(q)
        PROVE  OneLiveReplacement'
    BY <2>6, ClaimIsSafe
  <2>7. CASE Tick
    <3>1. now \in Nat /\ now' = now + 1 /\ order' = order /\ replacedBy' = replacedBy
      BY <2>7 DEF Tick, Kept, Typed
    <3>2. ASSUME NEW p \in Requests, order[p] # None, Standing(order[p])'
          PROVE  Standing(order[p])
      <4>1. order[p].expires \in Nat
        BY <3>2, OrderHeld DEF OrderRec
      <4> QED BY <3>1, <3>2, <4>1 DEF Standing
    <3> QED BY <2>1, <3>1, <3>2 DEF Before
  <2>8. ASSUME NEW a \in Accounts, StartList(a)
        PROVE  OneLiveReplacement'
    BY <2>2, <2>8 DEF StartList
  <2>9. CASE ListPage \/ ListOrder \/ ListWritten \/ ListFails \/ UNCHANGED vars
    BY <2>2, <2>9 DEF ListPage, ListOrder, ListWritten, ListFails, vars
  <2> QED BY <2>3, <2>4, <2>5, <2>6, <2>7, <2>8, <2>9 DEF Next
<1>3. Inv => OneLiveReplacement
  OBVIOUS
<1> QED BY <1>1, <1>2, <1>3, PTL DEF Spec

-----------------------------------------------------------------------------
(* The list of orders. *)

(* The list of an account names orders of the account, each once. *)
ListsOK ==
  /\ orderIDs \in [Accounts -> Seq(Requests)]
  /\ \A a \in Accounts :
       /\ IsInjective(orderIDs[a])
       /\ \A i \in DOMAIN orderIDs[a] :
            order[orderIDs[a][i]] # None /\ order[orderIDs[a][i]].account = a

WalkRec ==
  [pc : {"idle", "page", "orders", "done"}, account : Accounts \cup {None},
   cursor : Requests \cup {None}, ids : Seq(Requests), more : BOOLEAN, at : Nat,
   listed : Seq(Requests), start : SUBSET Requests]

(* The walk w has read the list L up to its k-th entry, and its page ends  *)
(* with the n-th: what is left of the page are the entries between them,   *)
(* and what was listed are different ones of the first k.                  *)
At(w, L, n, k) ==
  /\ n \in 0..Len(L) /\ k \in 0..n
  /\ w.cursor = IF n = 0 THEN None ELSE L[n]
  /\ Len(w.ids) = n - k /\ \A i \in 1..(n - k) : w.ids[i] = L[k + i]
  /\ IsInjective(w.listed) /\ \A j \in DOMAIN w.listed : \E i \in 1..k : w.listed[j] = L[i]
  /\ \A q \in w.start : \E i \in 1..Len(L) : L[i] = q
  /\ w.pc \in {"page", "done"} => k = n
  /\ w.pc = "done" \/ (w.pc = "orders" /\ ~w.more) =>
       \A q \in w.start : \E i \in 1..n : L[i] = q

(* An order among the first k that may still lead to a certificate has     *)
(* been listed.                                                            *)
Seen(w, L, k) ==
  \A i \in 1..k : Standing(order[L[i]]) => \E j \in DOMAIN w.listed : w.listed[j] = L[i]

WalkOK ==
  /\ walk \in WalkRec /\ walk.at <= now
  /\ walk.pc # "idle" =>
       /\ walk.account \in Accounts
       /\ \E n, k \in Nat : At(walk, orderIDs[walk.account], n, k) /\ Seen(walk, orderIDs[walk.account], k)

(* The inductive invariant behind ListComplete, beside Kept. *)
Listing == ListsOK /\ WalkOK

(* No order is removed, moves to another account or comes back to life. *)
Outlives ==
  \A p \in Requests : order[p] # None =>
    /\ order'[p] # None /\ order'[p].account = order[p].account
    /\ Standing(order[p])' => Standing(order[p])

(* What happens to the orders of a list does not spoil a walk through it. *)
LEMMA OrdersMove ==
  ASSUME Listing, now \in Nat, now' \in Nat, now <= now', Outlives, UNCHANGED <<orderIDs, walk>>
  PROVE  Listing'
<1>1. ASSUME NEW a \in Accounts, NEW i \in DOMAIN orderIDs[a]
      PROVE  /\ orderIDs[a][i] \in Requests
             /\ order'[orderIDs[a][i]] # None /\ order'[orderIDs[a][i]].account = a
             /\ Standing(order[orderIDs[a][i]])' => Standing(order[orderIDs[a][i]])
  BY DEF Listing, ListsOK, Outlives
<1>2. ListsOK'
  BY <1>1 DEF Listing, ListsOK
<1>3. WalkOK'
  <2>1. CASE walk.pc = "idle"
    BY <2>1 DEF Listing, WalkOK, WalkRec
  <2>2. CASE walk.pc # "idle"
    <3> DEFINE L == orderIDs[walk.account]
    <3>1. PICK n, k \in Nat : At(walk, L, n, k) /\ Seen(walk, L, k)
      BY <2>2 DEF Listing, WalkOK
    <3>2. walk.account \in Accounts /\ L \in Seq(Requests) /\ k <= Len(L)
      BY <2>2, <3>1 DEF Listing, WalkOK, ListsOK, At
    <3>3. Seen(walk, L, k)'
      <4> SUFFICES ASSUME NEW i \in 1..k, Standing(order[L[i]])'
                   PROVE  \E j \in DOMAIN walk.listed : walk.listed[j] = L[i]
        BY DEF Seen
      <4>1. i \in DOMAIN L
        BY <3>2
      <4>2. Standing(order[L[i]])
        BY Zenon, <1>1, <3>2, <4>1
      <4> QED BY <3>1, <4>2 DEF Seen
    <3>4. At(walk, L, n, k)'
      BY Zenon, <3>1 DEF At
    <3>5. walk' \in WalkRec /\ walk'.at <= now' /\ walk'.account \in Accounts
      BY <3>2 DEF Listing, WalkOK, WalkRec
    <3> QED BY Zenon, <3>3, <3>4, <3>5 DEF WalkOK
  <2> QED BY <2>1, <2>2
<1> QED BY <1>2, <1>3 DEF Listing

(* The outcomes of the workers and of a finalization change the status of  *)
(* an order, or its dispatch, and nothing else of it.                      *)
LEMMA MovesOutlive ==
  ASSUME NewOrderAssumption, Kept, NEW q \in Requests,
         Validated(q) \/ Invalidated(q) \/ FinalizeStore(q) \/ Dispatch(q) \/ Decided(q)
  PROVE  Outlives
<1>1. \A p \in Requests : Before(p)
  BY MovesRevive
<1>2. order[q] # None
  BY DEF Validated, Invalidated, FinalizeStore, Dispatch, Decided, Kept, Typed, NewOrderAssumption
<1>3. order[q] \in OrderRec
  BY <1>2, OrderHeld
<1>4. \/ \E st \in Statuses : order' = [order EXCEPT ![q].status = st]
      \/ order' = [order EXCEPT ![q].dispatched = TRUE]
  <2>1. order[q].status \in Statuses
    BY <1>3 DEF OrderRec
  <2> QED BY Zenon, <2>1 DEF Validated, Invalidated, FinalizeStore, Dispatch, Decided, MoveTo, Statuses
<1>5. ASSUME NEW p \in Requests, order[p] # None
      PROVE  order'[p] # None /\ order'[p].account = order[p].account
  <2>1. CASE p # q
    BY <1>4, <1>5, <2>1 DEF Kept, Typed
  <2>2. CASE p = q
    <3>1. ASSUME NEW st \in Statuses
          PROVE  [order[q] EXCEPT !.status = st] \in OrderRec /\ [order[q] EXCEPT !.status = st].account = order[q].account
      BY <1>3 DEF OrderRec
    <3>2. /\ [order[q] EXCEPT !.dispatched = TRUE] \in OrderRec
          /\ [order[q] EXCEPT !.dispatched = TRUE].account = order[q].account
      BY Zenon, <1>3 DEF OrderRec
    <3>3. \/ \E st \in Statuses : order'[q] = [order[q] EXCEPT !.status = st]
          \/ order'[q] = [order[q] EXCEPT !.dispatched = TRUE]
      BY Zenon, <1>4 DEF Kept, Typed
    <3>4. order'[q] \in OrderRec /\ order'[q].account = order[q].account
      BY Zenon, <3>1, <3>2, <3>3
    <3> QED BY <2>2, <3>4 DEF NewOrderAssumption
  <2> QED BY <2>1, <2>2
<1> QED BY <1>1, <1>5 DEF Outlives, Before

(* A longer list leaves the place of a walk as it is. *)
LEMMA AtAppended ==
  ASSUME NEW L \in Seq(Requests), NEW q \in Requests, NEW w \in WalkRec,
         NEW n \in Nat, NEW k \in Nat, At(w, L, n, k)
  PROVE  At(w, Append(L, q), n, k)
<1> DEFINE M == Append(L, q)
<1>1. Len(M) = Len(L) + 1 /\ Len(L) \in Nat /\ \A i \in 1..Len(L) : M[i] = L[i]
  OBVIOUS
<1>2. n \in 0..Len(L) /\ k \in 0..n
  BY DEF At
<1> HIDE DEF M
<1>3. n \in 0..Len(M) /\ w.cursor = IF n = 0 THEN None ELSE M[n]
  BY <1>1, <1>2 DEF At
<1>4. Len(w.ids) = n - k /\ \A i \in 1..(n - k) : w.ids[i] = M[k + i]
  BY <1>1, <1>2 DEF At
<1>5. \A j \in DOMAIN w.listed : \E i \in 1..k : w.listed[j] = M[i]
  <2>1. \A i \in 1..k : M[i] = L[i]
    BY <1>1, <1>2
  <2>2. \A j \in DOMAIN w.listed : \E i \in 1..k : w.listed[j] = L[i]
    BY DEF At
  <2> QED BY Zenon, <2>1, <2>2
<1>6. \A p \in w.start : \E i \in 1..Len(M) : M[i] = p
  BY <1>1 DEF At
<1>7. w.pc = "done" \/ (w.pc = "orders" /\ ~w.more) =>
        \A p \in w.start : \E i \in 1..n : M[i] = p
  BY <1>1, <1>2 DEF At
<1> QED BY Zenon, <1>2, <1>3, <1>4, <1>5, <1>6, <1>7 DEF At, M

(* CreateOrder puts the new order at the end of its account's list. *)
LEMMA CreateLists ==
  ASSUME NewOrderAssumption, Kept, Listing, NEW q \in Requests, CreateOrder(q)
  PROVE  Listing'
<1> DEFINE d == req[q].draft
<1>1. d \in OrderRec /\ now \in Nat
  BY DEF CreateOrder, Kept, Typed, DraftOK, Drafting
<1>2. d.account \in Accounts
  BY <1>1 DEF OrderRec
<1>3. now' = now /\ walk' = walk /\ order[q] = None
      /\ orderIDs' = [orderIDs EXCEPT ![d.account] = Append(@, q)]
  BY DEF CreateOrder
<1>4. ASSUME NEW p \in Requests, p # q PROVE order'[p] = order[p]
  BY <1>4 DEF CreateOrder, Kept, Typed
<1>5. order'[q] # None /\ order'[q].account = d.account
  <2>1. ASSUME NEW st \in Statuses
        PROVE  [d EXCEPT !.status = st] \in OrderRec /\ [d EXCEPT !.status = st].account = d.account
    BY <1>1 DEF OrderRec
  <2>2. PICK st \in Statuses : order'[q] = [d EXCEPT !.status = st]
    BY DEF CreateOrder, Kept, Typed, Statuses
  <2> QED BY <2>1, <2>2 DEF NewOrderAssumption
<1> HIDE DEF d
<1>6. ASSUME NEW a \in Accounts
      PROVE  /\ orderIDs[a] \in Seq(Requests)
             /\ orderIDs'[a] = IF a = d.account THEN Append(orderIDs[a], q) ELSE orderIDs[a]
  BY <1>3 DEF Listing, ListsOK
<1>7. ASSUME NEW a \in Accounts, NEW i \in DOMAIN orderIDs[a]
      PROVE  /\ orderIDs[a][i] \in Requests /\ orderIDs[a][i] # q
             /\ order'[orderIDs[a][i]] = order[orderIDs[a][i]]
             /\ order'[orderIDs[a][i]] # None /\ order'[orderIDs[a][i]].account = a
  BY <1>3, <1>4 DEF Listing, ListsOK
<1>8. ListsOK'
  <2>1. orderIDs' \in [Accounts -> Seq(Requests)]
    BY <1>2, <1>3 DEF Listing, ListsOK
  <2>2. ASSUME NEW a \in Accounts
        PROVE  /\ IsInjective(orderIDs'[a])
               /\ \A i \in DOMAIN orderIDs'[a] :
                    order'[orderIDs'[a][i]] # None /\ order'[orderIDs'[a][i]].account = a
    <3>1. CASE a # d.account
      BY <1>6, <1>7, <3>1 DEF Listing, ListsOK
    <3>2. CASE a = d.account
      <4> DEFINE L == orderIDs[a]
                 M == Append(L, q)
      <4>1. L \in Seq(Requests) /\ orderIDs'[a] = M
        BY Zenon, <1>6, <3>2
      <4>2. \A i \in DOMAIN M : (i \in DOMAIN L /\ M[i] = L[i]) \/ (i = Len(L) + 1 /\ M[i] = q)
        <5>1. L \in Seq(Requests)
          BY <4>1
        <5> HIDE DEF L
        <5>2. DOMAIN M = 1..(Len(L) + 1) /\ DOMAIN L = 1..Len(L) /\ Len(L) \in Nat
          BY <5>1
        <5>3. \A i \in 1..(Len(L) + 1) : M[i] = IF i = Len(L) + 1 THEN q ELSE L[i]
          BY <5>1
        <5>4. ASSUME NEW i \in 1..(Len(L) + 1), i # Len(L) + 1 PROVE i \in 1..Len(L)
          BY <5>2, <5>4
        <5> HIDE DEF M
        <5> QED BY Zenon, <5>2, <5>3, <5>4
      <4>3. IsInjective(L)
        BY DEF Listing, ListsOK
      <4> HIDE DEF M
      <4>4. IsInjective(M)
        BY <1>7, <4>1, <4>2, <4>3 DEF IsInjective
      <4>5. \A i \in DOMAIN M : order'[M[i]] # None /\ order'[M[i]].account = a
        BY <1>5, <1>7, <3>2, <4>2
      <4> QED BY <4>1, <4>4, <4>5
    <3> QED BY <3>1, <3>2
  <2> QED BY <2>1, <2>2 DEF ListsOK
<1>9. WalkOK'
  <2>1. CASE walk.pc = "idle"
    BY <1>3, <2>1 DEF Listing, WalkOK
  <2>2. CASE walk.pc # "idle"
    <3> DEFINE L == orderIDs[walk.account]
               M == orderIDs'[walk.account]
    <3>1. PICK n, k \in Nat : At(walk, L, n, k) /\ Seen(walk, L, k)
      BY <2>2 DEF Listing, WalkOK
    <3>2. walk.account \in Accounts /\ walk \in WalkRec
      BY <2>2 DEF Listing, WalkOK
    <3>3. L \in Seq(Requests) /\ M = IF walk.account = d.account THEN Append(L, q) ELSE L
      BY <1>6, <3>2
    <3>4. k <= Len(L)
      BY <3>1, <3>3 DEF At
    <3>5. At(walk, M, n, k)
      BY Zenon, <3>1, <3>2, <3>3, AtAppended
    <3>6. ASSUME NEW i \in 1..k
          PROVE  M[i] = L[i] /\ i \in DOMAIN L
      BY <3>3, <3>4
    <3>7. Seen(walk, L, k)'
      <4> SUFFICES ASSUME NEW i \in 1..k, Standing(order[L[i]])'
                   PROVE  \E j \in DOMAIN walk.listed : walk.listed[j] = M[i]
        BY Zenon, <1>3 DEF Seen
      <4>1. order'[M[i]] = order[L[i]]
        <5>1. M[i] = L[i] /\ i \in DOMAIN L
          BY <3>6
        <5>2. order'[L[i]] = order[L[i]]
          BY <1>7, <3>2, <5>1
        <5> QED BY Zenon, <5>1, <5>2
      <4>2. Standing(order[L[i]])
        <5>1. L' = M
          BY <1>3
        <5> HIDE DEF L, M
        <5> QED BY <1>3, <4>1, <5>1 DEF Standing
      <4> QED BY <3>1, <3>6, <4>2 DEF Seen
    <3> QED BY <1>3, <3>2, <3>5, <3>7 DEF WalkOK, Listing
  <2> QED BY <2>1, <2>2
<1> QED BY <1>8, <1>9 DEF Listing

(* A walk that begins has read nothing of the list. *)
LEMMA StartWalks ==
  ASSUME NewOrderAssumption, Kept, Listing, NEW a \in Accounts, StartList(a)
  PROVE  Listing'
<1>1. /\ walk' = [pc |-> "page", account |-> a, cursor |-> None, ids |-> <<>>, more |-> FALSE,
                  at |-> 0, listed |-> <<>>, start |-> Range(orderIDs[a])]
      /\ UNCHANGED <<now, order, orderIDs>>
  BY Zenon DEF StartList, NoWalk
<1>2. orderIDs[a] \in Seq(Requests) /\ now \in Nat
  BY DEF Listing, ListsOK, Kept, Typed
<1>3. \A q \in Range(orderIDs[a]) : \E i \in 1..Len(orderIDs[a]) : orderIDs[a][i] = q
  BY <1>2 DEF Range
<1>4. Range(orderIDs[a]) \subseteq Requests
  BY <1>2 DEF Range
<1>5. walk' \in WalkRec /\ walk'.at <= now'
  BY <1>1, <1>2, <1>4 DEF WalkRec
<1>6. At(walk', orderIDs[a], 0, 0)
  BY <1>1, <1>2, <1>3 DEF At, IsInjective
<1>7. Seen(walk, orderIDs[a], 0)'
  BY DEF Seen
<1>8. WalkOK'
  BY Zenon, <1>1, <1>5, <1>6, <1>7 DEF WalkOK
<1>9. ListsOK'
  BY <1>1 DEF Listing, ListsOK
<1> QED BY <1>8, <1>9 DEF Listing

(* Store.OrderIDs after the n-th entry: the entries that follow it. *)
LEMMA PageRead ==
  ASSUME NewOrderAssumption, NEW a \in Accounts, orderIDs[a] \in Seq(Requests), IsInjective(orderIDs[a]),
         NEW n \in 0..Len(orderIDs[a]), NEW limit \in Nat, limit > 0,
         NEW after, n = 0 => after = None, n # 0 => after = orderIDs[a][n],
         NEW page, page = OrderIDs(a, after, limit)
  PROVE  /\ page \in Seq(Requests)
         /\ Len(page) = Min2(limit, Len(orderIDs[a]) - n)
         /\ \A i \in 1..Len(page) : page[i] = orderIDs[a][n + i]
<1> DEFINE L == orderIDs[a]
           first == IF after = None THEN 1 ELSE 1 + CHOOSE i \in DOMAIN L : L[i] = after
           last == Min2(first + limit - 1, Len(L))
<1>1. DOMAIN L = 1..Len(L) /\ Len(L) \in Nat
  OBVIOUS
<1>2. first = n + 1
  <2>1. CASE n = 0
    BY <2>1
  <2>2. CASE n # 0
    <3>1. n \in DOMAIN L /\ after = L[n]
      BY <1>1, <2>2
    <3>2. after # None
      BY <3>1 DEF NewOrderAssumption
    <3>3. (CHOOSE i \in DOMAIN L : L[i] = after) = n
      BY Zenon, <3>1 DEF IsInjective
    <3>4. first = 1 + CHOOSE i \in DOMAIN L : L[i] = after
      BY Zenon, <3>2
    <3> HIDE DEF first
    <3>5. first = 1 + n
      BY Zenon, <3>3, <3>4
    <3> QED BY <3>5
  <2> QED BY <2>1, <2>2
<1>3. OrderIDs(a, after, limit) = SubSeq(L, first, last)
  BY DEF OrderIDs
<1> HIDE DEF first, L
<1>4. last = Min2(n + limit, Len(L)) /\ last \in n..Len(L)
  BY <1>1, <1>2 DEF Min2, L
<1> HIDE DEF last
<1>5. L \in Seq(Requests) /\ n \in 0..Len(L)
  BY DEF L
<1> DEFINE ids == SubSeq(L, n + 1, last)
<1>6. ids \in Seq(Requests) /\ Len(ids) = last - n /\ \A i \in 1..(last - n) : ids[i] = L[n + i]
  <2>1. CASE last = n
    BY <1>1, <1>4, <1>5, <2>1
  <2>2. CASE last # n
    <3>1. n + 1 \in 1..Len(L) /\ last \in n + 1..Len(L)
      BY <1>1, <1>4, <1>5, <2>2
    <3>2. ids \in Seq(Requests)
      BY <1>5, <3>1
    <3>3. Len(ids) = last - (n + 1) + 1
      BY <1>1, <1>5, <3>1
    <3>4. ASSUME NEW i \in 1..(last - n) PROVE ids[i] = L[n + i]
      BY <1>1, <1>5, <3>1
    <3>5. last - (n + 1) + 1 = last - n
      BY <1>1, <1>5, <3>1
    <3> HIDE DEF ids
    <3> QED BY Zenon, <3>2, <3>3, <3>4, <3>5
  <2> QED BY <2>1, <2>2
<1>7. last - n = Min2(limit, Len(L) - n)
  <2>1. n \in Nat /\ Len(L) \in Nat /\ limit \in Nat
    BY <1>1, <1>5
  <2>2. CASE n + limit < Len(L)
    BY <1>4, <2>1, <2>2 DEF Min2
  <2>3. CASE ~(n + limit < Len(L))
    BY <1>4, <2>1, <2>3 DEF Min2
  <2> QED BY <2>2, <2>3
<1> HIDE DEF ids
<1>8. page = ids
  BY <1>2, <1>3 DEF ids
<1> QED BY <1>6, <1>7, <1>8 DEF L

(* A page goes on where the one before it ended, and the ID that is read   *)
(* beyond it tells whether the list does.                                  *)
LEMMA ListPageWalks ==
  ASSUME NewOrderAssumption, Kept, Listing, ListPage
  PROVE  Listing'
<1> DEFINE a == walk.account
           L == orderIDs[a]
           ids == OrderIDs(a, walk.cursor, PageSize + 1)
           page == SubSeq(ids, 1, Min2(PageSize, Len(ids)))
<1>1. walk.pc = "page" /\ UNCHANGED <<now, order, orderIDs>>
  BY DEF ListPage
<1>2. walk' = [walk EXCEPT !.pc = "orders", !.ids = page, !.more = Len(ids) > PageSize,
                 !.cursor = IF page = <<>> THEN walk.cursor ELSE page[Len(page)], !.at = now]
  BY Zenon DEF ListPage
<1>3. a \in Accounts /\ L \in Seq(Requests) /\ IsInjective(L) /\ walk \in WalkRec /\ now \in Nat
  BY <1>1 DEF Listing, ListsOK, WalkOK, Kept, Typed
<1>4. PICK n, k \in Nat : At(walk, L, n, k) /\ Seen(walk, L, k)
  BY <1>1 DEF Listing, WalkOK
<1>5. k = n /\ n \in 0..Len(L) /\ walk.cursor = IF n = 0 THEN None ELSE L[n]
  BY <1>1, <1>4 DEF At
<1>a. At(walk, L, n, n) /\ Seen(walk, L, n)
  BY Zenon, <1>4, <1>5
<1>6. PageSize \in Nat /\ PageSize + 1 \in Nat /\ PageSize + 1 > 0
  BY DEF NewOrderAssumption
<1>7. /\ ids \in Seq(Requests) /\ Len(ids) = Min2(PageSize + 1, Len(L) - n)
      /\ \A i \in 1..Len(ids) : ids[i] = L[n + i]
  <2>1. ids = OrderIDs(a, walk.cursor, PageSize + 1)
    OBVIOUS
  <2> HIDE DEF a, ids
  <2>2. a \in Accounts /\ orderIDs[a] \in Seq(Requests) /\ IsInjective(orderIDs[a])
    BY <1>3
  <2>3. n \in 0..Len(orderIDs[a]) /\ (n = 0 => walk.cursor = None) /\ (n # 0 => walk.cursor = orderIDs[a][n])
    BY <1>5
  <2> DEFINE after == walk.cursor
             limit == PageSize + 1
  <2>4. limit \in Nat /\ limit > 0
    BY <1>6
  <2>5. ids = OrderIDs(a, after, limit) /\ (n = 0 => after = None) /\ (n # 0 => after = orderIDs[a][n])
    BY <2>1, <2>3
  <2> HIDE DEF after, limit
  <2>6. /\ ids \in Seq(Requests) /\ Len(ids) = Min2(limit, Len(orderIDs[a]) - n)
        /\ \A i \in 1..Len(ids) : ids[i] = orderIDs[a][n + i]
    BY SMT, <2>2, <2>3, <2>4, <2>5, PageRead
  <2> QED BY <2>6 DEF limit
<1> HIDE DEF a, L, ids
<1> DEFINE m == Min2(PageSize, Len(ids))
<1>8. Len(L) \in Nat /\ Len(ids) \in Nat
  BY <1>3, <1>7
<1>9. m \in 0..Len(ids) /\ m \in 0..(Len(L) - n) /\ (~(Len(ids) > PageSize) => n + m = Len(L))
  BY <1>5, <1>6, <1>7, <1>8 DEF Min2
<1>10. page \in Seq(Requests) /\ Len(page) = m /\ \A i \in 1..m : page[i] = ids[i]
  <2> HIDE DEF m
  <2>1. page = SubSeq(ids, 1, m)
    BY DEF m
  <2> HIDE DEF page
  <2> QED BY <1>7, <1>8, <1>9, <2>1
<1>11. (page = <<>>) = (m = 0)
  BY <1>9, <1>10
<1> DEFINE c == IF page = <<>> THEN walk.cursor ELSE page[Len(page)]
<1>12. c = (IF n + m = 0 THEN None ELSE L[n + m]) /\ c \in Requests \cup {None}
  <2> HIDE DEF page, m
  <2>1. CASE m = 0
    BY <1>3, <1>5, <1>9, <1>11, <2>1 DEF WalkRec
  <2>2. CASE m # 0
    <3>1. m \in 1..Len(ids) /\ n + m # 0
      BY <1>5, <1>9, <2>2
    <3>2. c = page[m] /\ page[m] = ids[m] /\ ids[m] = L[n + m] /\ page[m] \in Requests
      BY <1>7, <1>10, <1>11, <2>2, <3>1
    <3> QED BY <3>1, <3>2
  <2> QED BY <2>1, <2>2
<1> HIDE DEF page, m, c
<1>13. /\ walk' \in WalkRec /\ walk'.pc = "orders" /\ walk'.account = a /\ walk'.ids = page
       /\ walk'.more = (Len(ids) > PageSize) /\ walk'.cursor = c /\ walk'.at = now
       /\ walk'.listed = walk.listed /\ walk'.start = walk.start
  <2>1. walk' = [walk EXCEPT !.pc = "orders", !.ids = page, !.more = Len(ids) > PageSize,
                   !.cursor = c, !.at = now]
    BY <1>2 DEF c
  <2>2. (Len(ids) > PageSize) \in BOOLEAN
    OBVIOUS
  <2> QED BY Zenon, <1>3, <1>10, <1>12, <2>1, <2>2 DEF WalkRec, a
<1>14. At(walk', L, n + m, n)
  <2>1. n + m \in 0..Len(L) /\ n \in 0..(n + m) /\ (n + m) - n = m
    BY <1>5, <1>8, <1>9
  <2>2. walk'.cursor = IF n + m = 0 THEN None ELSE L[n + m]
    BY Zenon, <1>12, <1>13
  <2>3. Len(walk'.ids) = m /\ \A i \in 1..m : walk'.ids[i] = L[n + i]
    BY <1>7, <1>8, <1>9, <1>10, <1>13
  <2>4. IsInjective(walk'.listed) /\ \A j \in DOMAIN walk'.listed : \E i \in 1..n : walk'.listed[j] = L[i]
    <3>1. IsInjective(walk.listed) /\ \A j \in DOMAIN walk.listed : \E i \in 1..n : walk.listed[j] = L[i]
      BY Zenon, <1>a DEF At
    <3>2. walk'.listed = walk.listed
      BY <1>13
    <3> QED BY Zenon, <3>1, <3>2
  <2>5. \A q \in walk'.start : \E i \in 1..Len(L) : L[i] = q
    BY Zenon, <1>a, <1>13 DEF At
  <2>6. ~walk'.more => n + m = Len(L)
    BY Zenon, <1>9, <1>13
  <2> QED BY Zenon, <1>13, <2>1, <2>2, <2>3, <2>4, <2>5, <2>6 DEF At
<1>b. L' = L
  BY <1>1, <1>13 DEF L, a
<1>15. Seen(walk, L, n)'
  <2> SUFFICES ASSUME NEW i \in 1..n, Standing(order[L[i]])'
               PROVE  \E j \in DOMAIN walk.listed : walk.listed[j] = L[i]
    BY Zenon, <1>b, <1>13 DEF Seen
  <2>1. Standing(order[L[i]])
    BY <1>1, <1>b DEF Standing
  <2> QED BY Zenon, <1>a, <2>1 DEF Seen
<1>16. WalkOK'
  <2>1. n + m \in Nat /\ n \in Nat /\ now <= now
    BY <1>3, <1>5, <1>9
  <2>2. orderIDs'[walk'.account] = L'
    BY DEF L, a
  <2>3. At(walk', L', n + m, n)
    BY Zenon, <1>b, <1>14
  <2> QED BY Zenon, <1>1, <1>3, <1>13, <1>15, <2>1, <2>2, <2>3 DEF WalkOK
<1>17. ListsOK'
  BY <1>1 DEF Listing, ListsOK
<1> QED BY <1>16, <1>17 DEF Listing

(* An order that may still lead to a certificate is not left out. *)
LEMMA StandingIsListed ==
  ASSUME Kept, NEW p \in Requests, order[p] # None, Standing(order[p]), NEW t \in Nat, t <= now
  PROVE  StatusAt(order[p], t) # "invalid"
<1>1. order[p] \in OrderRec /\ now \in Nat
  BY OrderHeld DEF Kept, Typed
<1>2. order[p].expires \in Nat
  BY <1>1 DEF OrderRec
<1> QED BY <1>1, <1>2 DEF Standing, StatusAt

(* The next order of the page is read, and listed unless it is invalid. *)
LEMMA ListOrderWalks ==
  ASSUME NewOrderAssumption, Kept, Listing, ListOrder
  PROVE  Listing'
<1> DEFINE a == walk.account
           L == orderIDs[a]
           p == walk.ids[1]
           more == IF StatusAt(order[p], walk.at) # "invalid" THEN Append(walk.listed, p) ELSE walk.listed
<1>1. walk.pc = "orders" /\ walk.ids # <<>> /\ UNCHANGED <<now, order, orderIDs>>
  BY DEF ListOrder
<1>2. walk' = [walk EXCEPT !.ids = Tail(walk.ids), !.listed = more]
  BY Zenon DEF ListOrder
<1>3. a \in Accounts /\ L \in Seq(Requests) /\ IsInjective(L) /\ walk \in WalkRec
      /\ now \in Nat /\ walk.at <= now
  BY ZenonT(30), <1>1 DEF Listing, ListsOK, WalkOK, Kept, Typed
<1>4. PICK n, k \in Nat : At(walk, L, n, k) /\ Seen(walk, L, k)
  BY <1>1 DEF Listing, WalkOK
<1>5. walk.ids \in Seq(Requests) /\ walk.listed \in Seq(Requests) /\ walk.at \in Nat
  BY <1>3 DEF WalkRec
<1>6. n \in 0..Len(L) /\ k \in 0..n /\ Len(L) \in Nat
      /\ Len(walk.ids) = n - k /\ \A i \in 1..(n - k) : walk.ids[i] = L[k + i]
  BY <1>3, <1>4 DEF At
<1>7. n - k \in Nat /\ n - k >= 1 /\ p = L[k + 1] /\ k + 1 \in 1..Len(L) /\ p \in Requests
  <2>1. Len(walk.ids) >= 1
    BY <1>1, <1>5
  <2>2. n - k >= 1 /\ k + 1 \in 1..Len(L) /\ n - k \in Nat
    BY <1>6, <2>1
  <2>3. walk.ids[1] = L[k + 1]
    BY <1>6, <2>2
  <2> QED BY <1>3, <2>2, <2>3
<1>8. order[p] # None
  <2>1. k + 1 \in DOMAIN L
    BY <1>3, <1>7
  <2> QED BY Zenon, <1>3, <1>7, <2>1 DEF Listing, ListsOK
<1>9. Tail(walk.ids) \in Seq(Requests) /\ Len(Tail(walk.ids)) = n - (k + 1)
      /\ \A i \in 1..(n - (k + 1)) : Tail(walk.ids)[i] = L[(k + 1) + i]
  <2>1. Tail(walk.ids) \in Seq(Requests) /\ Len(Tail(walk.ids)) = Len(walk.ids) - 1
        /\ \A i \in 1..(Len(walk.ids) - 1) : Tail(walk.ids)[i] = walk.ids[i + 1]
    BY <1>1, <1>5
  <2> QED BY <1>6, <1>7, <2>1
<1> HIDE DEF a, L, p
<1>10. \A j \in DOMAIN walk.listed : \E i \in 1..k : walk.listed[j] = L[i]
  BY Zenon, <1>4 DEF At
<1>11. IsInjective(walk.listed)
  BY Zenon, <1>4 DEF At
<1>12. \A j \in DOMAIN walk.listed : walk.listed[j] # p
  <2> SUFFICES ASSUME NEW j \in DOMAIN walk.listed, walk.listed[j] = p PROVE FALSE
    OBVIOUS
  <2>1. PICK i \in 1..k : p = L[i]
    BY <1>10
  <2>2. i \in DOMAIN L /\ k + 1 \in DOMAIN L /\ i # k + 1
    BY <1>3, <1>6, <1>7
  <2> QED BY Zenon, <1>3, <1>7, <2>1, <2>2 DEF IsInjective
<1>13. /\ more \in Seq(Requests) /\ IsInjective(more)
       /\ \A j \in DOMAIN more : more[j] = p \/ (j \in DOMAIN walk.listed /\ more[j] = walk.listed[j])
       /\ \A j \in DOMAIN walk.listed : j \in DOMAIN more /\ more[j] = walk.listed[j]
       /\ StatusAt(order[p], walk.at) # "invalid" => \E j \in DOMAIN more : more[j] = p
  <2>1. CASE StatusAt(order[p], walk.at) # "invalid"
    <3> DEFINE M == Append(walk.listed, p)
               e == Len(walk.listed) + 1
    <3>1. /\ M \in Seq(Requests) /\ DOMAIN M = 1..e /\ M[e] = p /\ e \in Nat /\ e >= 1
          /\ DOMAIN walk.listed = 1..(e - 1) /\ \A j \in 1..(e - 1) : M[j] = walk.listed[j]
      BY <1>5, <1>7
    <3>2. more = M
      BY <2>1
    <3> HIDE DEF M, e, more
    <3>3. IsInjective(M)
      <4> SUFFICES ASSUME NEW i \in 1..e, NEW j \in 1..e, M[i] = M[j], i # j PROVE FALSE
        BY <3>1 DEF IsInjective
      <4>a. ASSUME NEW x \in 1..e, x # e PROVE x \in DOMAIN walk.listed /\ M[x] = walk.listed[x]
        BY <3>1, <4>a
      <4>1. CASE i = e
        BY Zenon, <1>12, <3>1, <4>a, <4>1
      <4>2. CASE j = e
        BY Zenon, <1>12, <3>1, <4>a, <4>2
      <4>3. CASE i # e /\ j # e
        <5>1. i \in DOMAIN walk.listed /\ j \in DOMAIN walk.listed
          BY <3>1, <4>3
        <5> QED BY <1>11, <3>1, <5>1 DEF IsInjective
      <4> QED BY <4>1, <4>2, <4>3
    <3> QED BY <3>1, <3>2, <3>3
  <2>2. CASE StatusAt(order[p], walk.at) = "invalid"
    <3>1. more = walk.listed
      BY <2>2
    <3> HIDE DEF more
    <3> QED BY Zenon, <1>5, <1>11, <2>2, <3>1
  <2> QED BY Zenon, <2>1, <2>2
<1> HIDE DEF more
<1>14. /\ walk' \in WalkRec /\ walk'.pc = "orders" /\ walk'.account = a /\ walk'.ids = Tail(walk.ids)
       /\ walk'.more = walk.more /\ walk'.cursor = walk.cursor /\ walk'.at = walk.at
       /\ walk'.listed = more /\ walk'.start = walk.start
  BY Zenon, <1>1, <1>2, <1>3, <1>9, <1>13 DEF WalkRec, a
<1>15. At(walk', L, n, k + 1)
  <2>1. k + 1 \in 0..n /\ n \in 0..Len(L) /\ \A i \in 1..k : i \in 1..(k + 1)
    BY <1>6, <1>7
  <2>2. walk'.cursor = IF n = 0 THEN None ELSE L[n]
    BY Zenon, <1>4, <1>14 DEF At
  <2>3. Len(walk'.ids) = n - (k + 1) /\ \A i \in 1..(n - (k + 1)) : walk'.ids[i] = L[(k + 1) + i]
    BY Zenon, <1>9, <1>14
  <2>4. IsInjective(walk'.listed)
    BY <1>13, <1>14
  <2>5. ASSUME NEW j \in DOMAIN walk'.listed PROVE \E i \in 1..(k + 1) : walk'.listed[j] = L[i]
    <3>1. CASE more[j] = p
      <4>1. k + 1 \in 1..(k + 1)
        BY <1>6
      <4> QED BY Zenon, <1>7, <1>14, <3>1, <4>1
    <3>2. CASE j \in DOMAIN walk.listed /\ more[j] = walk.listed[j]
      BY Zenon, <1>10, <1>14, <2>1, <3>2
    <3> QED BY Zenon, <1>13, <1>14, <3>1, <3>2
  <2>6. \A q \in walk'.start : \E i \in 1..Len(L) : L[i] = q
    BY Zenon, <1>4, <1>14 DEF At
  <2>7. ~walk'.more => \A q \in walk'.start : \E i \in 1..n : L[i] = q
    BY Zenon, <1>1, <1>4, <1>14 DEF At
  <2> QED BY Zenon, <1>14, <2>1, <2>2, <2>3, <2>4, <2>5, <2>6, <2>7 DEF At
<1>16. L' = L
  BY <1>1, <1>14 DEF L, a
<1>17. Seen(walk, L, k + 1)'
  <2> SUFFICES ASSUME NEW i \in 1..(k + 1), Standing(order[L[i]])'
               PROVE  \E j \in DOMAIN more : more[j] = L[i]
    BY Zenon, <1>14, <1>16 DEF Seen
  <2>1. Standing(order[L[i]])
    BY <1>1, <1>16 DEF Standing
  <2>2. CASE i = k + 1
    <3>1. Standing(order[p])
      BY Zenon, <1>7, <2>1, <2>2
    <3>2. StatusAt(order[p], walk.at) # "invalid"
      BY Zenon, <1>3, <1>5, <1>7, <1>8, <3>1, StandingIsListed
    <3> QED BY Zenon, <1>7, <1>13, <2>2, <3>2
  <2>3. CASE i # k + 1
    <3>1. i \in 1..k
      BY <1>6, <2>3
    <3>2. PICK j \in DOMAIN walk.listed : walk.listed[j] = L[i]
      BY Zenon, <1>4, <2>1, <3>1 DEF Seen
    <3> QED BY Zenon, <1>13, <3>2
  <2> QED BY <2>2, <2>3
<1>18. WalkOK'
  <2>1. k + 1 \in Nat /\ n \in Nat
    BY <1>6
  <2>2. orderIDs'[walk'.account] = L'
    BY DEF L, a
  <2>3. At(walk', L', n, k + 1)
    BY Zenon, <1>15, <1>16
  <2> QED BY Zenon, <1>1, <1>3, <1>14, <1>17, <2>1, <2>2, <2>3 DEF WalkOK
<1>19. ListsOK'
  BY <1>1 DEF Listing, ListsOK
<1> QED BY <1>18, <1>19 DEF Listing

(* The page is written: the client goes on, or has come to the end. *)
LEMMA ListWrittenWalks ==
  ASSUME Listing, ListWritten
  PROVE  Listing'
<1> DEFINE a == walk.account
           L == orderIDs[a]
<1>1. walk.pc = "orders" /\ walk.ids = <<>> /\ UNCHANGED <<now, order, orderIDs>>
      /\ walk' = [walk EXCEPT !.pc = IF walk.more THEN "page" ELSE "done"]
  BY Zenon DEF ListWritten
<1>2. a \in Accounts /\ walk \in WalkRec /\ walk.at <= now
  BY <1>1 DEF Listing, WalkOK
<1>3. PICK n, k \in Nat : At(walk, L, n, k) /\ Seen(walk, L, k)
  BY <1>1 DEF Listing, WalkOK
<1>4. n = k
  BY <1>1, <1>3 DEF At
<1>5. /\ walk' \in WalkRec /\ walk'.pc = (IF walk.more THEN "page" ELSE "done")
      /\ walk'.account = a /\ walk'.ids = walk.ids
      /\ walk'.more = walk.more /\ walk'.cursor = walk.cursor /\ walk'.at = walk.at
      /\ walk'.listed = walk.listed /\ walk'.start = walk.start
  BY Zenon, <1>1, <1>2 DEF WalkRec
<1> HIDE DEF a, L
<1>6. At(walk', L, n, k)
  <2>1. walk'.pc = "done" => ~walk.more
    BY <1>2, <1>5 DEF WalkRec
  <2>2. ~walk.more => \A q \in walk.start : \E i \in 1..n : L[i] = q
    BY Zenon, <1>1, <1>3 DEF At
  <2>3. walk'.pc # "orders"
    BY <1>5
  <2>4. /\ n \in 0..Len(L) /\ k \in 0..n
        /\ walk.cursor = IF n = 0 THEN None ELSE L[n]
        /\ Len(walk.ids) = n - k /\ \A i \in 1..(n - k) : walk.ids[i] = L[k + i]
        /\ IsInjective(walk.listed) /\ \A j \in DOMAIN walk.listed : \E i \in 1..k : walk.listed[j] = L[i]
        /\ \A q \in walk.start : \E i \in 1..Len(L) : L[i] = q
    BY Zenon, <1>3 DEF At
  <2>5. /\ walk'.cursor = IF n = 0 THEN None ELSE L[n]
        /\ Len(walk'.ids) = n - k /\ \A i \in 1..(n - k) : walk'.ids[i] = L[k + i]
    BY Zenon, <1>5, <2>4
  <2>6. IsInjective(walk'.listed) /\ \A j \in DOMAIN walk'.listed : \E i \in 1..k : walk'.listed[j] = L[i]
    <3>1. walk'.listed = walk.listed
      BY <1>5
    <3> QED BY Zenon, <2>4, <3>1
  <2>7. \A q \in walk'.start : \E i \in 1..Len(L) : L[i] = q
    BY Zenon, <1>5, <2>4
  <2>8. walk'.pc = "done" => \A q \in walk'.start : \E i \in 1..n : L[i] = q
    BY Zenon, <1>5, <2>1, <2>2
  <2> QED BY Zenon, <1>4, <2>3, <2>4, <2>5, <2>6, <2>7, <2>8 DEF At
<1>7. L' = L
  BY <1>1, <1>5 DEF L, a
<1>8. Seen(walk, L, k)'
  <2> SUFFICES ASSUME NEW i \in 1..k, Standing(order[L[i]])'
               PROVE  \E j \in DOMAIN walk.listed : walk.listed[j] = L[i]
    BY Zenon, <1>5, <1>7 DEF Seen
  <2>1. Standing(order[L[i]])
    BY <1>1, <1>7 DEF Standing
  <2> QED BY Zenon, <1>3, <2>1 DEF Seen
<1>9. WalkOK'
  <2>1. orderIDs'[walk'.account] = L'
    BY DEF L, a
  <2>2. At(walk', L', n, k)
    BY Zenon, <1>6, <1>7
  <2> QED BY Zenon, <1>1, <1>2, <1>5, <1>8, <2>1, <2>2 DEF WalkOK
<1>10. ListsOK'
  BY <1>1 DEF Listing, ListsOK
<1> QED BY <1>9, <1>10 DEF Listing

(* A client that follows the links of the order list, page by page, while  *)
(* orders come and go, sees every order that was there when it began and   *)
(* may still lead to a certificate, and no order twice                     *)
(* (serveAccountOrders, OrderIDs and the order list of CreateOrder).       *)
THEOREM OrderListIsComplete ==
  ASSUME NewOrderAssumption
  PROVE  Spec => []ListComplete
<1> DEFINE Inv == Kept /\ Listing
<1>1. Init => Inv
  <2> SUFFICES ASSUME Init PROVE Listing
    BY KeptInit
  <2>1. walk = [pc |-> "idle", account |-> None, cursor |-> None, ids |-> <<>>, more |-> FALSE,
                at |-> 0, listed |-> <<>>, start |-> {}] /\ now = 0
    BY DEF Init, NoWalk
  <2>2. WalkOK
    BY <2>1 DEF WalkOK, WalkRec
  <2>3. ListsOK
    BY DEF Init, ListsOK, IsInjective
  <2> QED BY <2>2, <2>3 DEF Listing
<1>2. Inv /\ [Next]_vars => Inv'
  <2> SUFFICES ASSUME Kept, Listing, [Next]_vars
               PROVE  Listing'
    BY KeptStep
  <2>1. now \in Nat
    BY DEF Kept, Typed
  <2>2. ASSUME UNCHANGED <<now, order, orderIDs, walk>>
        PROVE  Listing'
    <3>1. Outlives
      BY Zenon, <2>2 DEF Outlives, Standing
    <3>2. now' \in Nat /\ now <= now'
      BY <2>1, <2>2
    <3> QED BY Zenon, <2>1, <2>2, <3>1, <3>2, OrdersMove
  <2>3. ASSUME NEW q \in Requests,
               Validated(q) \/ Invalidated(q) \/ FinalizeStore(q) \/ Dispatch(q) \/ Decided(q)
        PROVE  Listing'
    <3>1. Outlives
      BY <2>3, MovesOutlive
    <3>2. UNCHANGED <<now, orderIDs, walk>>
      BY <2>3 DEF Validated, Invalidated, FinalizeStore, Dispatch, Decided, MoveTo
    <3>3. now' \in Nat /\ now <= now'
      BY <2>1, <3>2
    <3> QED BY <2>1, <3>1, <3>2, <3>3, OrdersMove
  <2>4. ASSUME NEW q \in Requests, ServeNewOrder(q) PROVE Listing'
    BY <2>2, <2>4 DEF ServeNewOrder, CheckPayload, Refuse
  <2>5. ASSUME NEW q \in Requests,
               \/ CheckReplaces(q) \/ CheckLimit(q) \/ ReviewOrder(q) \/ PreApprove(q)
               \/ AlreadyReplaced(q) \/ StoreFails(q) \/ FinalizeRead(q)
        PROVE  Listing'
    BY Zenon, <2>2, <2>5 DEF CheckReplaces, CheckLimit, ReviewOrder, PreApprove, AlreadyReplaced,
                      StoreFails, FinalizeRead, Proceed, Refuse
  <2>6. ASSUME NEW q \in Requests, CreateOrder(q)
        PROVE  Listing'
    BY <2>6, CreateLists
  <2>7. CASE Tick
    <3>1. now' = now + 1 /\ order' = order /\ UNCHANGED <<orderIDs, walk>>
      BY <2>7 DEF Tick
    <3>2. ASSUME NEW p \in Requests, order[p] # None, Standing(order[p])'
          PROVE  Standing(order[p])
      <4>1. order[p].expires \in Nat
        BY <3>2, OrderHeld DEF OrderRec
      <4> QED BY <2>1, <3>1, <3>2, <4>1 DEF Standing
    <3>3. Outlives
      BY <3>1, <3>2 DEF Outlives
    <3>4. now' \in Nat /\ now <= now'
      BY <2>1, <3>1
    <3> QED BY <2>1, <3>1, <3>3, <3>4, OrdersMove
  <2>8. ASSUME NEW a \in Accounts, StartList(a)
        PROVE  Listing'
    BY <2>8, StartWalks
  <2>9. CASE ListPage \/ ListOrder \/ ListWritten
    BY <2>9, ListPageWalks, ListOrderWalks, ListWrittenWalks
  <2>10. CASE ListFails
    <3>1. walk' = [pc |-> "idle", account |-> None, cursor |-> None, ids |-> <<>>, more |-> FALSE,
                   at |-> 0, listed |-> <<>>, start |-> {}] /\ UNCHANGED <<now, order, orderIDs>>
      BY <2>10 DEF ListFails, NoWalk
    <3>2. WalkOK'
      BY <2>1, <3>1 DEF WalkOK, WalkRec
    <3>3. ListsOK'
      BY <3>1 DEF Listing, ListsOK
    <3> QED BY <3>2, <3>3 DEF Listing
  <2>11. CASE UNCHANGED vars
    BY <2>2, <2>11 DEF vars
  <2> QED BY <2>3, <2>4, <2>5, <2>6, <2>7, <2>8, <2>9, <2>10, <2>11 DEF Next
<1>3. Inv => ListComplete
  <2> SUFFICES ASSUME Listing, walk.pc = "done" PROVE ListComplete
    BY DEF ListComplete
  <2> DEFINE a == walk.account
             L == orderIDs[a]
  <2>1. PICK n, k \in Nat : At(walk, L, n, k) /\ Seen(walk, L, k)
    BY DEF Listing, WalkOK
  <2>2. a \in Accounts /\ L \in Seq(Requests)
    BY DEF Listing, WalkOK, ListsOK
  <2>3. k = n /\ n \in 0..Len(L) /\ \A i \in 1..n : i \in DOMAIN L
    BY <2>1, <2>2 DEF At
  <2>4. IsInjective(walk.listed)
    BY <2>1 DEF At
  <2>5. ASSUME NEW q \in Range(walk.listed) PROVE order[q].account = a
    <3>1. PICK j \in DOMAIN walk.listed : q = walk.listed[j]
      BY DEF Range
    <3>2. PICK i \in 1..k : q = L[i]
      BY <2>1, <3>1 DEF At
    <3> QED BY <2>2, <2>3, <3>2 DEF Listing, ListsOK
  <2>6. ASSUME NEW q \in walk.start, Standing(order[q]) PROVE q \in Range(walk.listed)
    <3>1. PICK i \in 1..n : L[i] = q
      BY <2>1 DEF At
    <3>2. \E j \in DOMAIN walk.listed : walk.listed[j] = q
      BY Zenon, <2>1, <2>3, <2>6, <3>1 DEF Seen
    <3> QED BY <3>2 DEF Range
  <2> QED BY <2>4, <2>5, <2>6 DEF ListComplete
<1> QED BY <1>1, <1>2, <1>3, PTL DEF Spec

=============================================================================
