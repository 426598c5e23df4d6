---------------------------- MODULE AgreementProofs ----------------------------
(*****************************************************************************)
(* Towards Agreed, the invariant by which orders agree with their            *)
(* authorizations, authorizations with their challenges, and certificates    *)
(* with the CA: the shapes that a step may have, why each of them keeps the  *)
(* stored records in agreement, why a run that goes on without writing       *)
(* stays informed of what is stored, and that every step of a worker has one *)
(* of these shapes and keeps Agreed.                                         *)
(*****************************************************************************)
EXTENDS CoherenceProofs

(* A leaf goes to Zenon unless it names another prover. *)
USE ZenonT(20)

-----------------------------------------------------------------------------
(* What a step does to the stored orders, authorizations and challenges.    *)

FieldsKept(o) ==
  /\ order'[o].csr = order[o].csr /\ order'[o].op = order[o].op
  /\ order'[o].deadline = order[o].deadline
  /\ order'[o].cert = order[o].cert /\ order'[o].unpublished = order[o].unpublished

(* Nothing but revisions, tasks and the account. *)
Quiet ==
  /\ UNCHANGED <<order, authz, cert>>
  /\ \A c \in Challenges : ch'[c].status = ch[c].status

(* A response is accepted. *)
Responds(c) ==
  /\ ch[c].status = "pending" /\ ch'[c].status = "processing"
  /\ \A d \in Challenges : d # c => ch'[d] = ch[d]
  /\ UNCHANGED <<order, authz, cert>>

(* The verdict on a challenge is committed with its authorization and order. *)
DecidesAuthz(c, a) ==
  /\ ch[c].status = "processing" /\ ch'[c].status \in Settled
  /\ \A d \in Challenges : d # c => ch'[d] = ch[d]
  /\ \A b \in Authzs : b # a => authz'[b] = authz[b]
  /\ authz[a].rev < authz'[a].rev
  /\ authz[a].status # "pending" =>
       /\ authz'[a].status = authz[a].status
       /\ authz'[a].expires = authz[a].expires /\ authz'[a].grantExpires = authz[a].grantExpires
  /\ authz[a].status = "pending" => authz'[a].status \in {"pending", "valid", "invalid"}
  /\ ch'[c].status = "valid" => authz[a].status = "pending" /\ authz'[a].status = "valid"
  /\ ch'[c].status = "invalid" => authz'[a].status = authz[a].status \/ authz'[a].status = "invalid"
DecidesOrder(a, o) ==
  /\ \A p \in Orders : p # o => order'[p] = order[p]
  /\ order[o].rev < order'[o].rev /\ FieldsKept(o)
  /\ order[o].status # "pending" => order'[o].status = order[o].status
  /\ order[o].status = "pending" =>
       /\ order'[o].status \in {"pending", "ready", "invalid"}
       /\ order'[o].status = "ready" => \A b \in AuthzsOf(o) : authz'[b].status = "valid"
       /\ order'[o].status = "pending" =>
            /\ authz'[a].status \notin TerminalAuthz
            /\ \E b \in AuthzsOf(o) : authz'[b].status = "pending"
Decides(c) ==
  /\ DecidesAuthz(c, AuthzOf[c]) /\ DecidesOrder(AuthzOf[c], OrderOf[AuthzOf[c]])
  /\ UNCHANGED cert

(* An authorization is deactivated, and takes an undispatched order along. *)
Deactivates(a) ==
  /\ authz[a].status \in {"pending", "valid"} /\ authz'[a].status = "deactivated"
  /\ authz[a].rev < authz'[a].rev
  /\ authz'[a].expires = authz[a].expires /\ authz'[a].grantExpires = authz[a].grantExpires
  /\ \A b \in Authzs : b # a => authz'[b] = authz[b]
  /\ \A p \in Orders : p # OrderOf[a] => order'[p] = order[p]
  /\ Undispatched(OrderOf[a]) =>
       /\ order'[OrderOf[a]].status = "invalid" /\ FieldsKept(OrderOf[a])
       /\ order[OrderOf[a]].rev < order'[OrderOf[a]].rev
  /\ ~Undispatched(OrderOf[a]) => order'[OrderOf[a]] = order[OrderOf[a]]
  /\ UNCHANGED <<ch, cert>>

(* An order is finalized. *)
Finalizes(o) ==
  /\ order[o].status = "ready" /\ order'[o].status = "processing"
  /\ order[o].op = None /\ order'[o].op = None
  /\ order[o].csr = None /\ order'[o].csr \in CSRs
  /\ order[o].rev < order'[o].rev
  /\ \A p \in Orders : p # o => order'[p] = order[p]
  /\ UNCHANGED <<authz, ch, cert>>

(* A dispatch is recorded. *)
Dispatches(o) ==
  /\ account.status = "valid"
  /\ order[o].status = "processing" /\ order'[o].status = "processing"
  /\ order[o].op = None /\ order'[o].op # None
  /\ order'[o].csr = order[o].csr
  /\ order[o].rev < order'[o].rev
  /\ order'[o].deadline <= OrderLifetime
  /\ \A a \in AuthzsOf(o) : Covers(order'[o].deadline, authz[a])
  /\ \A p \in Orders : p # o => order'[p] = order[p]
  /\ UNCHANGED <<authz, ch, cert>>

(* An order is settled, with its certificate or without one. *)
Publishes(o) ==
  LET op == order[o].op
      l == ca[op].leaf
  IN  /\ op # None /\ ca[op].state = "issued" /\ l \in Leaves \ BadLeaves
      /\ order'[o].cert = l /\ cert[l] = None /\ cert'[l] = o
      /\ \A k \in Leaves : k # l => cert'[k] = cert[k]
GivesUp(o) ==
  LET op == order[o].op IN
  /\ cert' = cert
  /\ op # None => \/ ca[op].state = "rejected"
                  \/ ca[op].state = "issued" /\ order'[o].unpublished
Settles(o) ==
  /\ order[o].status = "processing" /\ order'[o].status \in Settled
  /\ order[o].rev < order'[o].rev
  /\ order'[o].csr = order[o].csr /\ order'[o].op = order[o].op
  /\ order[o].op # None => order'[o].deadline = order[o].deadline
  /\ order'[o].status = "valid" => Publishes(o)
  /\ order'[o].status = "invalid" => GivesUp(o)
  /\ \A p \in Orders : p # o => order'[p] = order[p]
  /\ UNCHANGED <<authz, ch>>

Shape ==
  \/ Quiet
  \/ \E c \in Challenges : Responds(c) \/ Decides(c)
  \/ \E a \in Authzs : Deactivates(a)
  \/ \E o \in Orders : Finalizes(o) \/ Dispatches(o) \/ Settles(o)

-----------------------------------------------------------------------------
(* What every step keeps. *)

AuthzAdvances(a) ==
  \/ authz'[a] = authz[a]
  \/ /\ authz[a].rev < authz'[a].rev
     /\ authz[a].status # "pending" =>
          /\ authz'[a].status # "pending"
          /\ authz'[a].expires = authz[a].expires /\ authz'[a].grantExpires = authz[a].grantExpires
     /\ Undispatched(OrderOf[a]) => order[OrderOf[a]].rev < order'[OrderOf[a]].rev
OrderKeeps(o) ==
  \/ order'[o] = order[o]
  \/ /\ order[o].rev < order'[o].rev
     /\ order[o].op # None => order'[o].op = order[o].op /\ order'[o].deadline = order[o].deadline
CAKeeps ==
  \A op \in TaskIDs :
    /\ ca[op].state \in {"issued", "rejected"} => ca'[op] = ca[op]
    /\ ca[op].state # "unknown" => ca'[op].deadline = ca[op].deadline
    /\ ca[op].state = "unknown" /\ ca'[op].state # "unknown" =>
         \E o \in Orders : order[o].op = op /\ ca'[op].deadline = order[o].deadline
    /\ ca[op].state # "issued" /\ ca'[op].state = "issued" => ca'[op].leaf \in Leaves
Evolves ==
  /\ \A a \in Authzs : AuthzAdvances(a)
  /\ \A o \in Orders : OrderKeeps(o)
  /\ CAKeeps /\ KeepsTasks

(* The tables of the store have their types. *)
LEMMA Tables ==
  ASSUME TypeInv
  PROVE  /\ order \in [Orders -> OrderRec] /\ authz \in [Authzs -> AuthzRec]
         /\ ch \in [Challenges -> ChallengeRec] /\ ca \in [TaskIDs -> CARec]
         /\ cert \in [Leaves -> Orders \cup {None}]
         /\ \A o \in Orders : /\ order[o].rev \in Nat /\ order[o].deadline \in Nat
                              /\ order[o].op \in TaskIDs \cup {None}
         /\ \A a \in Authzs : authz[a].rev \in Nat /\ authz[a].expires \in Nat
BY DEF TypeInv, TypeOK, StoreTypeOK, IssuanceTypeOK, OrderRec, AuthzRec

(* A challenge belongs to an authorization, and that to an order. *)
LEMMA Parents ==
  /\ \A c \in Challenges : AuthzOf[c] \in Authzs
  /\ \A a \in Authzs : OrderOf[a] \in Orders /\ a \in AuthzsOf(OrderOf[a])
  /\ \A o \in Orders : \A a \in AuthzsOf(o) : a \in Authzs /\ OrderOf[a] = o
BY StoreAssumption DEF AuthzsOf

(* Each shape of a step advances the authorizations and keeps the orders.  *)
LEMMA ShapeEvolves ==
  ASSUME Agreed, Shape, CAKeeps, KeepsTasks
  PROVE  Evolves
<1>1. CASE Quiet \/ \E c \in Challenges : Responds(c)
  BY <1>1 DEF Evolves, AuthzAdvances, OrderKeeps, Quiet, Responds
<1>2. ASSUME NEW c \in Challenges, Decides(c) PROVE Evolves
  <2>1. \A a \in Authzs : AuthzAdvances(a)
    BY <1>2, Parents DEF Decides, DecidesAuthz, DecidesOrder, AuthzAdvances
  <2>2. \A o \in Orders : OrderKeeps(o)
    BY <1>2 DEF Decides, DecidesOrder, OrderKeeps, FieldsKept
  <2> QED BY <2>1, <2>2 DEF Evolves
<1>3. ASSUME NEW a \in Authzs, Deactivates(a) PROVE Evolves
  <2>1. \A b \in Authzs : AuthzAdvances(b)
    BY <1>3 DEF Deactivates, AuthzAdvances
  <2>2. \A o \in Orders : OrderKeeps(o)
    BY <1>3 DEF Deactivates, OrderKeeps, FieldsKept
  <2> QED BY <2>1, <2>2 DEF Evolves
<1>4. ASSUME NEW o \in Orders, Finalizes(o) \/ Dispatches(o) \/ Settles(o) PROVE Evolves
  <2>1. \A b \in Authzs : AuthzAdvances(b)
    BY <1>4 DEF Finalizes, Dispatches, Settles, AuthzAdvances
  <2>2. \A p \in Orders : OrderKeeps(p)
    BY <1>4 DEF Finalizes, Dispatches, Settles, OrderKeeps
  <2> QED BY <2>1, <2>2 DEF Evolves
<1> QED BY <1>1, <1>2, <1>3, <1>4 DEF Shape

-----------------------------------------------------------------------------
(* What others know survives a step. *)

(* What the fields of a run that Agreed is about range over, at each step. *)
LEMMA MoreTypes ==
  ASSUME TypeInv, NEW w \in Workers
  PROVE  /\ run[w].pc \in HoldsAuthz =>
              /\ run[w].pc # "idle" /\ AuthzIn(run[w]) \in Authzs
              /\ OrderIn(run[w]) = OrderOf[AuthzIn(run[w])]
              /\ run[w].authz \in AuthzRec /\ run[w].authz.rev \in Nat
         /\ run[w].pc \in HoldsOrder =>
              /\ run[w].pc # "idle" /\ OrderIn(run[w]) \in Orders
              /\ run[w].order \in OrderRec /\ run[w].order.rev \in Nat
              /\ run[w].order.op \in TaskIDs \cup {None} /\ run[w].order.deadline \in Nat
<1>1. run[w] \in RunRec /\ TypedRun(run[w])
  BY RunFacts
<1>2. run[w].pc \in HoldsAuthz => run[w].pc # "idle" /\ task[run[w].task].kind = "validate"
  BY <1>1 DEF HoldsAuthz, HoldsCh, ValidationPC, TypedRun
<1>3. run[w].pc \in HoldsAuthz => task[run[w].task].target \in Challenges
  BY <1>2, HeldTypes
<1>4. run[w].pc \in HoldsAuthz =>
        /\ AuthzIn(run[w]) \in Authzs /\ OrderIn(run[w]) = OrderOf[AuthzIn(run[w])]
        /\ run[w].authz \in AuthzRec /\ run[w].authz.rev \in Nat
  BY <1>1, <1>2, <1>3, Parents DEF AuthzIn, OrderIn, TypedRun, AuthzRec
<1>5. run[w].pc \in HoldsOrder => run[w].pc # "idle" /\ run[w].order \in OrderRec
  BY <1>1 DEF HoldsOrder, IssuancePC, TypedRun
<1>6. run[w].pc \in HoldsOrder =>
        /\ OrderIn(run[w]) \in Orders /\ run[w].order.rev \in Nat
        /\ run[w].order.op \in TaskIDs \cup {None} /\ run[w].order.deadline \in Nat
  BY <1>5, HeldTypes DEF OrderRec
<1> QED BY <1>2, <1>4, <1>5, <1>6

(* While an order is undispatched its revision vouches for its             *)
(* authorizations: each of their writes advances it as well.               *)
LEMMA UndispatchedVouches ==
  ASSUME TypeInv, Evolves, NEW o \in Orders, order'[o] = order[o], Undispatched(o),
         NEW b \in AuthzsOf(o)
  PROVE  authz'[b] = authz[b]
<1>1. b \in Authzs /\ OrderOf[b] = o
  BY Parents
<1>2. AuthzAdvances(b)
  BY <1>1 DEF Evolves
<1>3. ~(order[o].rev < order'[o].rev)
  BY SMT, Tables
<1> QED BY <1>1, <1>2, <1>3 DEF AuthzAdvances

(* A run that does not step knows after the step what it knew before it.   *)
LEMMA OthersInformed ==
  ASSUME Agreed, TypeInv', Evolves, NEW w \in Workers, run'[w] = run[w]
  PROVE  Informed(run[w])'
<1>r. PICK r : r = run[w]
  OBVIOUS
<1>0. /\ TypeInv /\ KnowsOrder(r) /\ KnowsAuthz(r) /\ KnowsDerived(r) /\ KnowsFields(r)
      /\ KnowsDispatch(r) /\ KnowsResult(r)
  BY <1>r DEF Agreed, Informed, Coherent, Knows
<1>1. r.pc # "idle" => OrderIn(r)' = OrderIn(r) /\ AuthzIn(r)' = AuthzIn(r)
  BY <1>0, <1>r, HeldTypes DEF Evolves, KeepsTasks, OrderIn, AuthzIn
<1>a. PICK a : a = AuthzIn(r)
  OBVIOUS
<1>o. PICK o : o = OrderIn(r)
  OBVIOUS
<1>2. r.pc \in HoldsAuthz =>
        /\ a \in Authzs /\ o = OrderOf[a] /\ r.authz.rev \in Nat /\ AuthzIn(r)' = a
  BY <1>0, <1>1, <1>r, <1>a, <1>o, MoreTypes
<1>3. r.pc \in HoldsOrder =>
        /\ o \in Orders /\ OrderIn(r)' = o /\ r.order \in OrderRec /\ r.order.rev \in Nat
        /\ r.order.op \in TaskIDs \cup {None}
  BY <1>0, <1>1, <1>r, <1>a, <1>o, MoreTypes
<1>4. /\ \A b \in Authzs : authz[b].rev \in Nat /\ authz'[b].rev \in Nat
      /\ \A p \in Orders : order[p].rev \in Nat /\ order'[p].rev \in Nat
  <2>1. /\ \A b \in Authzs : authz'[b].rev \in Nat
        /\ \A p \in Orders : order'[p].rev \in Nat
    BY DEF TypeInv, TypeOK, StoreTypeOK, OrderRec, AuthzRec
  <2> QED BY <1>0, <2>1, Tables
<1>5. KnowsAuthz(r)'
  <2> SUFFICES ASSUME r.pc \in HoldsAuthz PROVE KnowsAuthz(r)'
    BY DEF KnowsAuthz
  <2>1. AuthzAdvances(a)
    BY <1>2 DEF Evolves
  <2>2. authz'[a] = authz[a] \/ authz[a].rev < authz'[a].rev
    BY <2>1 DEF AuthzAdvances
  <2>3. authz[a].status # "pending" => authz'[a].status # "pending"
    BY <2>1 DEF AuthzAdvances
  <2>4. r.authz.rev <= authz[a].rev
    BY <1>a, <1>0 DEF KnowsAuthz
  <2>5. r.authz.rev <= authz'[a].rev /\ (r.authz.rev = authz'[a].rev => authz'[a] = authz[a])
    BY SMT, <1>2, <1>4, <2>2, <2>4
  <2> QED BY <1>a, <1>0, <1>2, <2>3, <2>5 DEF KnowsAuthz
<1>6. ASSUME r.pc \in HoldsOrder
      PROVE  r.order.rev <= order[o].rev /\ (r.order.rev = order'[o].rev => order'[o] = order[o])
  <2>1. OrderKeeps(o)
    BY <1>3, <1>6 DEF Evolves
  <2>2. order'[o] = order[o] \/ order[o].rev < order'[o].rev
    BY <2>1 DEF OrderKeeps
  <2>3. r.order.rev <= order[o].rev
    BY <1>o, <1>0, <1>6 DEF KnowsOrder
  <2> QED BY SMT, <1>3, <1>4, <1>6, <2>2, <2>3
<1>7. KnowsDerived(r)'
  <2> SUFFICES ASSUME r.pc \in {"derive", "complete"} PROVE KnowsDerived(r)'
    BY DEF KnowsDerived
  <2>1. r.pc \in HoldsAuthz /\ r.pc \in HoldsOrder
    BY DEF HoldsAuthz, HoldsCh, HoldsOrder, ValidationPC
  <2>2. /\ AuthzIn(r) \notin r.todo /\ AuthzIn(r)' \notin r.todo
        /\ r.pc = "complete" => r.todo = {}
        /\ r.todo \subseteq AuthzsOf(o)
    BY <1>a, <1>o, <1>0, <1>2, <2>1 DEF KnowsDerived
  <2> DEFINE s == IF r.pc = "derive" THEN r.status ELSE r.order.status
  <2>3. ASSUME r.order.rev = order'[o].rev, order'[o].status = "pending"
        PROVE  Derived(r, o, s)'
    <3>1. order'[o] = order[o]
      BY <1>6, <2>1, <2>3
    <3>2. Undispatched(o)
      BY <2>3, <3>1 DEF Undispatched
    <3>3. \A b \in AuthzsOf(o) : authz'[b] = authz[b]
      BY <1>0, <1>3, <2>1, <3>1, <3>2, UndispatchedVouches
    <3>4. Derived(r, o, s)
      BY <1>o, <1>0, <2>3, <3>1 DEF KnowsDerived
    <3>5. \A b \in AuthzsOf(o) : Seen(r, b)' = Seen(r, b)
      BY <1>a, <1>2, <2>1, <3>3 DEF Seen
    <3> HIDE DEF s
    <3> QED BY <3>4, <3>5 DEF Derived
  <2> QED BY <1>3, <2>1, <2>2, <2>3 DEF KnowsDerived
<1>8. r.pc \in HoldsOrder /\ order[o].op # None =>
        order'[o].op = order[o].op /\ order'[o].deadline = order[o].deadline
  BY <1>3 DEF Evolves, OrderKeeps
<1>9. KnowsFields(r)'
  <2>1. CASE r.pc \in {"derive", "complete"}
    BY <1>o, <1>0, <1>3, <1>6, <2>1 DEF KnowsFields, HoldsOrder
  <2>2. CASE r.pc \in {"issue", "await"}
    <3>1. r.order.op # None /\ order[o].op = r.order.op /\ r.pc \in HoldsOrder
      <4>1. r.order.op \in TaskIDs
        BY <1>0, <1>r, <2>2, RunFacts DEF TypedRun
      <4> QED BY <1>0, <1>o, <2>2, <4>1, StoreAssumption DEF KnowsOrder, HoldsOrder, IssuancePC
    <3> QED BY <1>o, <1>0, <1>3, <1>8, <2>2, <3>1 DEF KnowsFields
  <2>3. CASE r.pc = "record"
    <3>1. r.pc \in HoldsOrder
      BY <2>3 DEF HoldsOrder, IssuancePC
    <3> QED BY <1>o, <1>0, <1>3, <1>8, <2>3, <3>1 DEF KnowsFields
  <2> QED BY <2>1, <2>2, <2>3 DEF KnowsFields
<1>10. KnowsDispatch(r)'
  <2>1. r.pc \in {"dispatchAccount", "snapshot", "policy"} => r.order.op = None
    BY <1>0 DEF KnowsDispatch
  <2> SUFFICES ASSUME r.pc \in {"snapshot", "policy", "begin"} PROVE KnowsDispatch(r)'
    BY <2>1 DEF KnowsDispatch
  <2>2. r.pc \in HoldsOrder
    BY DEF HoldsOrder, IssuancePC
  <2>3. ASSUME NEW b \in AuthzsOf(o) \ r.todo
        PROVE  /\ r.snap[b] \in AuthzRec /\ r.snap[b].rev <= authz'[b].rev
               /\ r.snap[b].rev = authz'[b].rev => r.snap[b] = authz'[b]
               /\ Covers(r.order.deadline, r.snap[b])
    <3>1. /\ r.snap[b] \in AuthzRec /\ r.snap[b].rev <= authz[b].rev
          /\ r.snap[b].rev = authz[b].rev => r.snap[b] = authz[b]
          /\ Covers(r.order.deadline, r.snap[b])
      BY <1>o, <1>0 DEF KnowsDispatch
    <3>2. b \in Authzs /\ r.snap[b].rev \in Nat
      BY <3>1 DEF AuthzsOf, AuthzRec
    <3>3. authz'[b] = authz[b] \/ authz[b].rev < authz'[b].rev
      BY <3>2 DEF Evolves, AuthzAdvances
    <3>4. r.snap[b].rev <= authz'[b].rev /\ (r.snap[b].rev = authz'[b].rev => authz'[b] = authz[b])
      BY SMT, <1>4, <3>1, <3>2, <3>3
    <3> QED BY <3>1, <3>4
  <2>4. r.order.deadline <= OrderLifetime /\ (r.pc # "snapshot" => r.todo = {})
    BY <1>0 DEF KnowsDispatch
  <2> QED BY <1>3, <2>1, <2>2, <2>3, <2>4 DEF KnowsDispatch
<1>11. KnowsResult(r)'
  <2> SUFFICES ASSUME r.pc = "record" PROVE KnowsResult(r)'
    BY DEF KnowsResult
  <2>1. r.order.op \in TaskIDs \cup {None}
    BY <1>3 DEF HoldsOrder, IssuancePC
  <2>2. r.order.op # None /\ ca[r.order.op].state \in {"issued", "rejected"} =>
          ca'[r.order.op] = ca[r.order.op]
    BY <2>1 DEF Evolves, CAKeeps
  <2> QED BY <1>0, <2>2 DEF KnowsResult
<1>12. KnowsAuthz(run[w])'
  BY <1>r, <1>5 DEF KnowsAuthz, AuthzIn
<1>d. KnowsDerived(run[w])'
  BY <1>r, <1>7 DEF KnowsDerived, AuthzIn, OrderIn, Derived, Seen
<1>13. KnowsFields(run[w])' /\ KnowsResult(run[w])'
  BY <1>r, <1>9, <1>11 DEF KnowsFields, KnowsResult, OrderIn
<1>e. KnowsDispatch(run[w])'
  BY <1>r, <1>10 DEF KnowsDispatch, OrderIn
<1> QED BY <1>12, <1>13, <1>d, <1>e DEF Informed

(* The same for a request. *)
LEMMA OtherRequestsInformed ==
  ASSUME Agreed, TypeInv', Evolves, NEW h \in Handlers, hand'[h] = hand[h]
  PROVE  KnowsAuthzs(hand[h])'
<1>r. PICK r : r = hand[h]
  OBVIOUS
<1>0. TypeInv /\ KnowsRequest(r) /\ TypedHand(r) /\ KnowsAuthzs(r)
  BY <1>r DEF Agreed, Coherent, TypeInv
<1>t. /\ \A b \in Authzs : authz[b].rev \in Nat /\ authz'[b].rev \in Nat
      /\ \A p \in Orders : order[p].rev \in Nat /\ order'[p].rev \in Nat
  <2>1. /\ \A b \in Authzs : authz'[b].rev \in Nat
        /\ \A p \in Orders : order'[p].rev \in Nat
    BY DEF TypeInv, TypeOK, StoreTypeOK, OrderRec, AuthzRec
  <2> QED BY <1>0, <2>1, Tables
<1>1. ASSUME r.pc = "deactivate"
      PROVE  /\ r.copy.rev <= authz'[r.id].rev
             /\ r.copy.rev = authz'[r.id].rev => authz'[r.id] = authz[r.id]
  <2>1. r.id \in Authzs /\ r.copy.rev \in Nat /\ r.copy.rev <= authz[r.id].rev
    BY <1>0, <1>1 DEF TypedHand, AuthzRec, KnowsAuthzs
  <2>2. authz'[r.id] = authz[r.id] \/ authz[r.id].rev < authz'[r.id].rev
    BY <2>1 DEF Evolves, AuthzAdvances
  <2> QED BY SMT, <1>t, <2>1, <2>2
<1>2. ASSUME r.pc \in {"finDerive", "finStore"}, r.copy.rev = order'[r.id].rev
      PROVE  /\ r.copy.rev = order[r.id].rev
             /\ \A b \in AuthzsOf(r.id) : authz'[b] = authz[b]
  <2>1. r.id \in Orders /\ r.copy.rev \in Nat /\ r.copy.rev <= order[r.id].rev
    BY <1>0, <1>2 DEF TypedHand, OrderRec, KnowsRequest
  <2>2. order'[r.id] = order[r.id] \/ order[r.id].rev < order'[r.id].rev
    BY <2>1 DEF Evolves, OrderKeeps
  <2>3. order'[r.id] = order[r.id] /\ r.copy.rev = order[r.id].rev
    BY SMT, <1>2, <1>t, <2>1, <2>2
  <2>4. Undispatched(r.id)
    BY <1>0, <1>2, <2>3 DEF KnowsRequest, Undispatched, Open
  <2> QED BY <1>0, <2>1, <2>3, <2>4, UndispatchedVouches
<1>3. KnowsAuthzs(r)'
  <2>1. CASE r.pc = "deactivate"
    BY <1>0, <1>1, <2>1 DEF KnowsAuthzs
  <2>2. CASE r.pc \in {"finDerive", "finStore"}
    BY <1>0, <1>2, <2>2 DEF KnowsAuthzs
  <2> QED BY <2>1, <2>2 DEF KnowsAuthzs
<1> QED BY <1>r, <1>3 DEF KnowsAuthzs

-----------------------------------------------------------------------------
(* What the store says about itself survives each shape of a step. *)

StoreAgreed == OrderAgrees /\ EvidenceExists /\ DeadlineCovers /\ ResultFollows

(* A step that leaves orders and authorizations alone leaves them agreeing. *)
LEMMA OrdersAgree ==
  ASSUME Agreed, Shape
  PROVE  OrderAgrees'
<1>0. OrderAgrees /\ OrderFollowsStatus
  BY DEF Agreed, Coherent
<1> DEFINE Agrees(o) ==
      /\ order'[o].status = "pending" =>
           /\ \E a \in AuthzsOf(o) : authz'[a].status = "pending"
           /\ \A a \in AuthzsOf(o) : authz'[a].status \notin TerminalAuthz
      /\ order'[o].status = "ready" \/ (order'[o].status = "processing" /\ order'[o].op = None) =>
           \A a \in AuthzsOf(o) : authz'[a].status = "valid"
<1> SUFFICES ASSUME NEW o \in Orders
             PROVE  Agrees(o)
  BY DEF OrderAgrees
<1>1. CASE Quiet \/ \E c \in Challenges : Responds(c)
  BY <1>0, <1>1 DEF OrderAgrees, Quiet, Responds
<1>2. ASSUME NEW c \in Challenges, Decides(c) PROVE Agrees(o)
  <2>a. PICK x \in Authzs : x = AuthzOf[c]
    BY Parents
  <2>1. /\ DecidesOrder(x, OrderOf[x]) /\ OrderOf[x] \in Orders
        /\ \A b \in Authzs : b # x => authz'[b] = authz[b]
        /\ authz[x].status # "pending" => authz'[x].status = authz[x].status
    BY <1>2, <2>a, Parents DEF Decides, DecidesAuthz
  <2>2. CASE o # OrderOf[x]
    <3>1. \A a \in AuthzsOf(o) : authz'[a] = authz[a]
      BY <2>1, <2>2, Parents
    <3>2. order'[o] = order[o]
      BY <2>1, <2>2 DEF DecidesOrder
    <3> QED BY <1>0, <3>1, <3>2 DEF OrderAgrees
  <2>3. CASE o = OrderOf[x] /\ order[o].status = "pending"
    <3>1. \A a \in AuthzsOf(o) : a # x => authz'[a] = authz[a]
      BY <2>1, Parents
    <3>2. order'[o].status \in {"pending", "ready", "invalid"}
      BY <2>1, <2>3 DEF DecidesOrder
    <3>3. order'[o].status = "ready" => \A a \in AuthzsOf(o) : authz'[a].status = "valid"
      BY <2>1, <2>3 DEF DecidesOrder
    <3>4. order'[o].status = "pending" =>
            /\ \E a \in AuthzsOf(o) : authz'[a].status = "pending"
            /\ \A a \in AuthzsOf(o) : authz'[a].status \notin TerminalAuthz
      BY <1>0, <2>1, <2>3, <3>1 DEF DecidesOrder, OrderAgrees
    <3> QED BY <3>2, <3>3, <3>4
  <2>4. CASE o = OrderOf[x] /\ order[o].status # "pending"
    <3>1. order'[o].status = order[o].status /\ order'[o].op = order[o].op
      BY <2>1, <2>4 DEF DecidesOrder, FieldsKept
    <3>2. ASSUME NEW a \in AuthzsOf(o), authz[a].status = "valid" PROVE authz'[a].status = "valid"
      BY <2>1, <3>2, Parents
    <3> QED BY <1>0, <2>4, <3>1, <3>2 DEF OrderAgrees
  <2> QED BY <2>2, <2>3, <2>4
<1>3. ASSUME NEW x \in Authzs, Deactivates(x) PROVE Agrees(o)
  <2>1. CASE o # OrderOf[x]
    <3>1. \A a \in AuthzsOf(o) : authz'[a] = authz[a]
      BY <1>3, <2>1, Parents DEF Deactivates
    <3>2. order'[o] = order[o]
      BY <1>3, <2>1 DEF Deactivates
    <3> QED BY <1>0, <3>1, <3>2 DEF OrderAgrees
  <2>2. CASE o = OrderOf[x]
    BY <1>3, <2>2 DEF Deactivates, Undispatched
  <2> QED BY <2>1, <2>2
<1>4. ASSUME NEW p \in Orders, Finalizes(p) \/ Dispatches(p) \/ Settles(p) PROVE Agrees(o)
  <2>1. authz' = authz /\ (p # o => order'[o] = order[o])
    BY <1>4 DEF Finalizes, Dispatches, Settles
  <2>2. CASE p # o
    BY <1>0, <2>1, <2>2 DEF OrderAgrees
  <2>3. CASE p = o /\ Finalizes(p)
    BY <1>0, <2>1, <2>3 DEF OrderAgrees, Finalizes
  <2>4. CASE p = o /\ (Dispatches(p) \/ Settles(p))
    BY <2>4 DEF Dispatches, Settles, Settled
  <2> QED BY <1>4, <2>2, <2>3, <2>4
<1> QED BY <1>1, <1>2, <1>3, <1>4 DEF Shape

(* Evidence appears with the verdict and never disappears. *)
LEMMA EvidenceStays ==
  ASSUME Agreed, Shape
  PROVE  EvidenceExists'
<1>0. EvidenceExists
  BY DEF Agreed
<1> DEFINE Proved(a) == a \in PreApproved \/ \E c \in ChallengesOf(a) : ch'[c].status = "valid"
           Backed ==
             /\ \A a \in Authzs : authz'[a].status = "valid" => Proved(a)
             /\ \A d \in Challenges : ch'[d].status = "valid" =>
                  authz'[AuthzOf[d]].status \in {"valid", "deactivated"}
<1> SUFFICES Backed
  BY DEF EvidenceExists, HasEvidence
<1>1. CASE Quiet
  <2>1. \A d \in Challenges : ch'[d].status = "valid" <=> ch[d].status = "valid"
    BY <1>1 DEF Quiet
  <2>2. authz' = authz
    BY <1>1 DEF Quiet
  <2> QED BY <1>0, <2>1, <2>2 DEF EvidenceExists, HasEvidence, ChallengesOf
<1>2. ASSUME NEW c \in Challenges, Responds(c) PROVE Backed
  <2>1. \A d \in Challenges : ch'[d].status = "valid" <=> ch[d].status = "valid"
    BY <1>2 DEF Responds
  <2>2. authz' = authz
    BY <1>2 DEF Responds
  <2> QED BY <1>0, <2>1, <2>2 DEF EvidenceExists, HasEvidence, ChallengesOf
<1>3. ASSUME NEW c \in Challenges, Decides(c) PROVE Backed
  <2>x. PICK x \in Authzs : x = AuthzOf[c]
    BY Parents
  <2>0. DecidesAuthz(c, x)
    BY <1>3, <2>x DEF Decides
  <2>1. \A d \in Challenges : ch[d].status = "valid" => ch'[d].status = "valid"
    BY <2>0 DEF DecidesAuthz
  <2>2. ASSUME NEW a \in Authzs, authz'[a].status = "valid" PROVE Proved(a)
    <3>1. CASE authz[a].status = "valid"
      BY <1>0, <2>1, <3>1 DEF EvidenceExists, HasEvidence, ChallengesOf
    <3>2. CASE authz[a].status # "valid"
      <4>1. a = x /\ authz[a].status = "pending"
        BY <2>0, <2>2, <3>2 DEF DecidesAuthz
      <4>2. ch'[c].status = "valid"
        BY <2>0, <2>2, <4>1 DEF DecidesAuthz, Settled
      <4> QED BY <2>x, <4>1, <4>2 DEF ChallengesOf
    <3> QED BY <3>1, <3>2
  <2>3. ASSUME NEW d \in Challenges, ch'[d].status = "valid"
        PROVE  authz'[AuthzOf[d]].status \in {"valid", "deactivated"}
    <3>1. CASE d = c
      BY <2>0, <2>3, <2>x, <3>1 DEF DecidesAuthz
    <3>2. CASE d # c
      <4>1. ch[d].status = "valid"
        BY <2>0, <2>3, <3>2 DEF DecidesAuthz
      <4>2. authz[AuthzOf[d]].status \in {"valid", "deactivated"} /\ AuthzOf[d] \in Authzs
        BY <1>0, <4>1, Parents DEF EvidenceExists
      <4>3. authz'[AuthzOf[d]].status = authz[AuthzOf[d]].status
        BY <2>0, <4>2 DEF DecidesAuthz
      <4> QED BY <4>2, <4>3
    <3> QED BY <3>1, <3>2
  <2> QED BY <2>2, <2>3
<1>4. ASSUME NEW x \in Authzs, Deactivates(x) PROVE Backed
  <2>1. /\ \A a \in Authzs : authz'[a].status = "valid" => authz[a].status = "valid"
        /\ \A a \in Authzs : authz'[a] = authz[a] \/ authz'[a].status = "deactivated"
        /\ ch' = ch
    BY <1>4 DEF Deactivates
  <2> QED BY <1>0, <2>1, Parents DEF EvidenceExists, HasEvidence
<1>5. ASSUME NEW o \in Orders, Finalizes(o) \/ Dispatches(o) \/ Settles(o) PROVE Backed
  <2>1. authz' = authz /\ ch' = ch
    BY <1>5 DEF Finalizes, Dispatches, Settles
  <2> QED BY <1>0, <2>1 DEF EvidenceExists, HasEvidence
<1> QED BY <1>1, <1>2, <1>3, <1>4, <1>5 DEF Shape

(* An operation appears on an order only by a dispatch of that order. *)
LEMMA OnlyDispatches ==
  ASSUME Shape, NEW o \in Orders, order[o].op = None, order'[o].op # None
  PROVE  Dispatches(o)
<1>1. order'[o] # order[o]
  OBVIOUS
<1>2. ~Quiet /\ \A c \in Challenges : ~Responds(c)
  BY <1>1 DEF Quiet, Responds
<1>3. \A c \in Challenges : ~Decides(c)
  BY <1>1 DEF Decides, DecidesOrder, FieldsKept
<1>4. \A a \in Authzs : ~Deactivates(a)
  BY <1>1 DEF Deactivates, FieldsKept
<1>5. \A p \in Orders : ~Finalizes(p) /\ ~Settles(p)
  BY <1>1 DEF Finalizes, Settles
<1>6. \A p \in Orders : Dispatches(p) => p = o
  BY <1>1 DEF Dispatches
<1> QED BY <1>2, <1>3, <1>4, <1>5, <1>6 DEF Shape

(* The recorded deadline goes on covering the order and its authorizations. *)
LEMMA DeadlinesCover ==
  ASSUME Agreed, TypeInv', Shape, Evolves
  PROVE  DeadlineCovers'
<1>0. /\ TypeInv /\ OrderAgrees /\ DeadlineCovers /\ OrderFollowsStatus /\ OneOperation
  BY DEF Agreed, Coherent
<1>1. ASSUME NEW o \in Orders, order'[o].op # None
      PROVE  /\ order'[o].deadline <= OrderLifetime
             /\ \A a \in AuthzsOf(o) : authz'[a].status # "pending" /\ Covers(order'[o].deadline, authz'[a])
  <2>1. CASE order[o].op # None
    <3>1. order'[o].deadline = order[o].deadline
      BY <2>1 DEF Evolves, OrderKeeps
    <3>2. /\ order[o].deadline <= OrderLifetime
          /\ \A a \in AuthzsOf(o) : authz[a].status # "pending" /\ Covers(order[o].deadline, authz[a])
      BY <1>0, <2>1 DEF DeadlineCovers
    <3>3. ASSUME NEW a \in AuthzsOf(o)
          PROVE  /\ authz'[a].status # "pending"
                 /\ authz'[a].expires = authz[a].expires /\ authz'[a].grantExpires = authz[a].grantExpires
      <4>1. a \in Authzs /\ authz[a].status # "pending"
        BY <3>2, Parents
      <4> QED BY <4>1 DEF Evolves, AuthzAdvances
    <3> QED BY <3>1, <3>2, <3>3 DEF Covers
  <2>2. CASE order[o].op = None
    <3>1. Dispatches(o)
      BY <1>1, <2>2, OnlyDispatches
    <3>2. \A a \in AuthzsOf(o) : authz[a].status = "valid"
      BY <1>0, <3>1 DEF OrderAgrees, Dispatches
    <3> QED BY <3>1, <3>2 DEF Dispatches
  <2> QED BY <2>1, <2>2
<1>2. ASSUME NEW op \in TaskIDs, ca'[op].state # "unknown"
      PROVE  ca'[op].deadline = order'[task'[op].target].deadline
  <2>0. op # None
    BY StoreAssumption
  <2>1. PICK o \in Orders : order[o].op = op /\ ca'[op].deadline = order[o].deadline
    <3>1. CASE ca[op].state = "unknown"
      BY <1>2, <3>1 DEF Evolves, CAKeeps
    <3>2. CASE ca[op].state # "unknown"
      <4>1. PICK o \in Orders : task[op].target = o /\ order[o].op = op
        BY <1>0, <3>2 DEF OneOperation
      <4>2. ca'[op].deadline = order[o].deadline
        BY <1>0, <3>2, <4>1 DEF DeadlineCovers, Evolves, CAKeeps
      <4> QED BY <4>1, <4>2
    <3> QED BY <3>1, <3>2
  <2>2. ~FreshTask(op) /\ task[op].target = o
    BY <1>0, <2>0, <2>1 DEF OrderFollowsStatus
  <2>3. task'[op].target = o
    BY <2>2 DEF Evolves, KeepsTasks
  <2>4. order'[o].deadline = order[o].deadline
    BY <2>0, <2>1 DEF Evolves, OrderKeeps
  <2> QED BY <2>1, <2>3, <2>4
<1> QED BY <1>1, <1>2 DEF DeadlineCovers

(* An order that is settled stays settled with the CA. *)
LEMMA ResultsFollow ==
  ASSUME Agreed, TypeInv', Shape, Evolves
  PROVE  ResultFollows'
<1>0. TypeInv /\ OrderFollowsStatus /\ ResultFollows
  BY DEF Agreed, Coherent
<1>t. ca \in [TaskIDs -> CARec] /\ \A o \in Orders : order[o].op \in TaskIDs \cup {None}
  BY <1>0, Tables
<1>l. \A op \in TaskIDs : ca'[op].state = "issued" => ca'[op].leaf \in Leaves
  BY <1>0 DEF ResultFollows, Evolves, CAKeeps
<1> DEFINE Follows(o) ==
      LET op == order'[o].op IN
      /\ op # None =>
           \/ order'[o].status = "processing"
           \/ order'[o].status = "valid" /\ order'[o].cert = ca'[op].leaf
           \/ order'[o].status = "invalid" /\ ca'[op].state = "rejected"
           \/ order'[o].status = "invalid" /\ ca'[op].state = "issued" /\ order'[o].unpublished
      /\ order'[o].status = "valid" <=> \E l \in Leaves : cert'[l] = o
      /\ \A l \in Leaves : cert'[l] = o =>
           /\ op # None /\ ca'[op].state = "issued"
           /\ order'[o].cert = l /\ ca'[op].leaf = l /\ l \notin BadLeaves
<1> SUFFICES ASSUME NEW o \in Orders PROVE Follows(o)
  BY <1>l DEF ResultFollows, SettledWithCA
<1>op. PICK op \in TaskIDs \cup {None} : op = order[o].op
  BY <1>t
<1>f. /\ op # None =>
           \/ order[o].status = "processing"
           \/ order[o].status = "valid" /\ order[o].cert = ca[op].leaf
           \/ order[o].status = "invalid" /\ ca[op].state = "rejected"
           \/ order[o].status = "invalid" /\ ca[op].state = "issued" /\ order[o].unpublished
      /\ order[o].status = "valid" <=> \E l \in Leaves : cert[l] = o
      /\ \A l \in Leaves : cert[l] = o =>
           /\ op # None /\ ca[op].state = "issued"
           /\ order[o].cert = l /\ ca[op].leaf = l /\ l \notin BadLeaves
  BY <1>0, <1>op DEF ResultFollows, SettledWithCA
<1>k. op # None /\ ca[op].state \in {"issued", "rejected"} => ca'[op] = ca[op]
  BY DEF Evolves, CAKeeps
<1>v. order[o].status = "valid" => op # None /\ ca'[op] = ca[op] /\ ca[op].state = "issued"
  BY <1>f, <1>k
(* An order whose status and result stay, while its certificates do. *)
<1>1. ASSUME order'[o].status = order[o].status, FieldsKept(o),
             \A l \in Leaves : cert'[l] = o <=> cert[l] = o
      PROVE  Follows(o)
  <2>1. order'[o].op = op /\ order'[o].cert = order[o].cert /\ order'[o].unpublished = order[o].unpublished
    BY <1>1, <1>op DEF FieldsKept
  <2>2. op # None =>
           \/ order[o].status = "processing"
           \/ order[o].status = "valid" /\ order[o].cert = ca'[op].leaf
           \/ order[o].status = "invalid" /\ ca'[op].state = "rejected"
           \/ order[o].status = "invalid" /\ ca'[op].state = "issued" /\ order[o].unpublished
    BY <1>f, <1>k, <1>v
  <2>3. \A l \in Leaves : cert[l] = o =>
           /\ op # None /\ ca'[op].state = "issued"
           /\ order[o].cert = l /\ ca'[op].leaf = l /\ l \notin BadLeaves
    BY <1>f, <1>k
  <2> QED BY <1>1, <1>f, <2>1, <2>2, <2>3
(* An order that is not dispatched and gets no certificate. *)
<1>2. ASSUME order[o].status # "valid", order'[o].status # "valid", order'[o].op = None, cert' = cert
      PROVE  Follows(o)
  BY <1>2, <1>f
<1>3. CASE order'[o] = order[o] /\ \A l \in Leaves : cert'[l] = o <=> cert[l] = o
  BY <1>1, <1>3 DEF FieldsKept
<1>4. CASE Quiet \/ \E c \in Challenges : Responds(c)
  BY <1>3, <1>4 DEF Quiet, Responds
<1>5. ASSUME NEW c \in Challenges, Decides(c) PROVE Follows(o)
  <2>1. CASE o # OrderOf[AuthzOf[c]]
    BY <1>3, <1>5, <2>1 DEF Decides, DecidesOrder
  <2>2. CASE o = OrderOf[AuthzOf[c]]
    <3>1. DecidesOrder(AuthzOf[c], o) /\ cert' = cert
      BY <1>5, <2>2 DEF Decides
    <3>2. CASE order[o].status # "pending"
      BY <1>1, <3>1, <3>2 DEF DecidesOrder
    <3>3. CASE order[o].status = "pending"
      <4>1. op = None
        BY <1>0, <1>op, <3>3 DEF OrderFollowsStatus, Open
      <4>2. order'[o].op = None /\ order'[o].status # "valid"
        BY <1>op, <3>1, <3>3, <4>1 DEF DecidesOrder, FieldsKept
      <4> QED BY <1>2, <3>1, <3>3, <4>2
    <3> QED BY <3>2, <3>3
  <2> QED BY <2>1, <2>2
<1>6. ASSUME NEW a \in Authzs, Deactivates(a) PROVE Follows(o)
  <2>1. CASE o # OrderOf[a] \/ ~Undispatched(o)
    BY <1>3, <1>6, <2>1 DEF Deactivates
  <2>2. CASE o = OrderOf[a] /\ Undispatched(o)
    <3>1. order[o].op = None /\ order[o].status # "valid"
      BY <1>0, <2>2 DEF Undispatched, OrderFollowsStatus, Open
    <3>2. order'[o].op = None /\ order'[o].status = "invalid" /\ cert' = cert
      BY <1>6, <2>2, <3>1 DEF Deactivates, FieldsKept
    <3> QED BY <1>2, <3>1, <3>2
  <2> QED BY <2>1, <2>2
<1>7. ASSUME NEW p \in Orders, Finalizes(p) \/ Dispatches(p) PROVE Follows(o)
  <2>1. CASE o # p
    BY <1>3, <1>7, <2>1 DEF Finalizes, Dispatches
  <2>2. CASE o = p
    <3>1. order[o].status # "valid" /\ order'[o].status = "processing" /\ cert' = cert
      BY <1>7, <2>2 DEF Finalizes, Dispatches
    <3> QED BY <1>f, <3>1
  <2> QED BY <2>1, <2>2
<1>8. ASSUME NEW p \in Orders, Settles(p) PROVE Follows(o)
  <2>o. None \notin Orders
    BY StoreAssumption
  <2>1. CASE o # p
    <3>1. order'[o] = order[o]
      BY <1>8, <2>1 DEF Settles
    <3>2. ASSUME NEW l \in Leaves PROVE cert'[l] = o <=> cert[l] = o
      BY <1>8, <2>1, <2>o DEF Settles, Settled, Publishes, GivesUp
    <3> QED BY <1>3, <3>1, <3>2
  <2>2. CASE o = p
    <3>1. /\ order[o].status = "processing" /\ order'[o].op = op /\ order'[o].status \in Settled
          /\ order'[o].status = "valid" => Publishes(o)
          /\ order'[o].status = "invalid" => GivesUp(o)
      BY <1>8, <1>op, <2>2 DEF Settles
    <3>2. \A l \in Leaves : cert[l] # o
      BY <1>f, <3>1
    <3>3. CASE order'[o].status = "valid"
      <4>1. PICK l \in Leaves : l = ca[op].leaf
        BY <1>op, <3>1, <3>3 DEF Publishes
      <4>2. /\ op # None /\ ca[op].state = "issued" /\ l \notin BadLeaves
            /\ order'[o].cert = l /\ cert'[l] = o /\ \A k \in Leaves : k # l => cert'[k] = cert[k]
        BY <1>op, <3>1, <3>3, <4>1 DEF Publishes
      <4>3. ca'[op] = ca[op]
        BY <1>k, <4>2
      <4> QED BY <3>1, <3>2, <3>3, <4>1, <4>2, <4>3
    <3>4. CASE order'[o].status = "invalid"
      <4>1. /\ cert' = cert
            /\ op # None => \/ ca[op].state = "rejected"
                            \/ ca[op].state = "issued" /\ order'[o].unpublished
        BY <1>op, <3>1, <3>4 DEF GivesUp
      <4> QED BY <1>k, <3>1, <3>2, <3>4, <4>1
    <3> QED BY <3>1, <3>3, <3>4 DEF Settled
  <2> QED BY <2>1, <2>2
<1> QED BY <1>4, <1>5, <1>6, <1>7, <1>8 DEF Shape

(* Together: the store's part of Agreed survives each shape of a step. *)
LEMMA StoreAgrees ==
  ASSUME Agreed, TypeInv', Shape, CAKeeps, KeepsTasks
  PROVE  Evolves /\ StoreAgreed'
BY ShapeEvolves, OrdersAgree, EvidenceStays, DeadlinesCover, ResultsFollow DEF StoreAgreed

-----------------------------------------------------------------------------
(* Who steps, and what the others keep. *)

(* A step of a worker. *)
LEMMA WorkerAgrees ==
  ASSUME Agreed, Coherent', NEW w \in Workers, WorkerSteps(w) \/ WorkerFaults(w),
         Shape, CAKeeps, KeepsTasks, Informed(run[w])'
  PROVE  Agreed'
<1>1. TypeInv /\ TypeInv' /\ UNCHANGED <<hand, acked>>
  BY DEF Agreed, Coherent, WorkerSteps, WorkerFaults
<1>2. Evolves /\ StoreAgreed'
  BY <1>1, StoreAgrees
<1>3. ASSUME NEW v \in Workers PROVE Informed(run[v])'
  BY <1>1, <1>2, OwnRun, OthersInformed
<1>4. ASSUME NEW h \in Handlers PROVE KnowsAuthzs(hand[h])'
  BY <1>1, <1>2, OtherRequestsInformed
<1> QED BY <1>2, <1>3, <1>4 DEF Agreed, StoreAgreed

(* What is known of a store and a CA that do not change stays known. *)
LEMMA SameKnowledge ==
  ASSUME NEW r, UNCHANGED <<storeVars, ca>>, Informed(r)
  PROVE  Informed(r)'
<1>0. UNCHANGED <<order, authz, ch, task, ca>>
  BY DEF storeVars
<1>1. KnowsAuthz(r)'
  BY <1>0 DEF Informed, KnowsAuthz, AuthzIn
<1>2. KnowsDerived(r)'
  BY <1>0 DEF Informed, KnowsDerived, AuthzIn, OrderIn, Derived, Seen
<1>3. KnowsFields(r)'
  BY <1>0 DEF Informed, KnowsFields, OrderIn
<1>4. KnowsDispatch(r)'
  BY <1>0 DEF Informed, KnowsDispatch, OrderIn
<1>5. KnowsResult(r)'
  BY <1>0 DEF Informed, KnowsResult
<1> QED BY <1>1, <1>2, <1>3, <1>4, <1>5 DEF Informed

(* A step of a worker that leaves the store and the CA alone. *)
LEMMA SilentRunAgrees ==
  ASSUME Agreed, Coherent', NEW w \in Workers, WorkerSteps(w) \/ WorkerFaults(w),
         UNCHANGED <<storeVars, ca>>, Informed(run'[w])
  PROVE  Shape /\ Agreed'
<1>1. Shape /\ CAKeeps
  BY DEF Shape, Quiet, CAKeeps, storeVars
<1>2. KeepsTasks
  BY SameTasks DEF Agreed, Coherent, storeVars
<1>r. PICK r : r = run'[w]
  OBVIOUS
<1>3. Informed(run[w])'
  BY <1>r, SameKnowledge
<1> QED BY <1>1, <1>2, <1>3, WorkerAgrees

(* A step of a request. *)
LEMMA RequestAgrees ==
  ASSUME Agreed, Coherent', NEW h \in Handlers, UNCHANGED <<run, ca>>, NEW q, Move(h, q),
         Shape, KeepsTasks, KnowsAuthzs(hand[h])'
  PROVE  Agreed'
<1>1. /\ TypeInv /\ TypeInv' /\ CAKeeps
      /\ \A g \in Handlers : g # h => hand'[g] = hand[g]
  BY DEF Agreed, Coherent, CAKeeps, Move, TypeInv, TypeOK, HandlerTypeOK
<1>2. Evolves /\ StoreAgreed'
  BY <1>1, StoreAgrees
<1>3. ASSUME NEW v \in Workers PROVE Informed(run[v])'
  BY <1>1, <1>2, OthersInformed
<1>4. ASSUME NEW g \in Handlers PROVE KnowsAuthzs(hand[g])'
  BY <1>1, <1>2, OtherRequestsInformed
<1> QED BY <1>2, <1>3, <1>4 DEF Agreed, StoreAgreed

(* A step of a request that leaves the store alone. *)
LEMMA SilentRequestAgrees ==
  ASSUME Agreed, Coherent', NEW h \in Handlers, UNCHANGED <<run, ca, storeVars>>, NEW q, Move(h, q),
         KnowsAuthzs(hand'[h])
  PROVE  Shape /\ Agreed'
<1>1. Shape
  BY DEF Shape, Quiet, storeVars
<1>2. KeepsTasks
  BY SameTasks DEF Agreed, Coherent, storeVars
<1>3. KnowsAuthzs(hand[h])'
  BY DEF KnowsAuthzs, storeVars
<1> QED BY <1>1, <1>2, <1>3, RequestAgrees

(* The clock, the CA and stuttering. *)
LEMMA SurroundingsAgree ==
  ASSUME Agreed, Coherent', UNCHANGED <<storeVars, run, hand, acked>>, CAKeeps
  PROVE  Shape /\ Agreed'
<1>1. Shape
  BY DEF Shape, Quiet, storeVars
<1>2. KeepsTasks /\ TypeInv'
  BY SameTasks DEF Agreed, Coherent, storeVars
<1>3. Evolves /\ StoreAgreed'
  BY <1>1, <1>2, StoreAgrees
<1>4. ASSUME NEW v \in Workers PROVE Informed(run[v])'
  BY <1>2, <1>3, OthersInformed
<1>5. ASSUME NEW h \in Handlers PROVE KnowsAuthzs(hand[h])'
  BY <1>2, <1>3, OtherRequestsInformed
<1> QED BY <1>1, <1>3, <1>4, <1>5 DEF Agreed, StoreAgreed

-----------------------------------------------------------------------------
(* Validation runs. *)

(* The steps at which a run relies on none of this. *)
LEMMA NothingMore ==
  ASSUME NEW r, r.pc \in {"idle", "reschedule", "finish", "challenge", "authorization", "issuanceOrder"}
  PROVE  Informed(r)
BY DEF Informed, KnowsAuthz, KnowsDerived, KnowsFields, KnowsDispatch, KnowsResult, HoldsAuthz, HoldsCh,
       ValidationPC

(* A run that goes on with its authorization copy, or decides it. *)
LEMMA AuthzKnown ==
  ASSUME NEW r, NEW q, r.pc \in HoldsAuthz, KnowsAuthz(r), q.task = r.task, q.authz.rev = r.authz.rev,
         q.pc \in {"account", "validate", "order", "reload", "retry"},
         q.pc = "validate" => q.authz.status = "pending",
         \/ q.authz = r.authz /\ (q.ch.status = "valid" <=> r.ch.status = "valid")
         \/ r.authz.status = "pending" /\ q.authz.status = "valid" /\ q.ch.status = "valid"
         \/ r.authz.status = "pending" /\ q.authz.status = "invalid" /\ q.ch.status # "valid"
  PROVE  Informed(q)
<1>a. PICK a : a = AuthzIn(r)
  OBVIOUS
<1>b. AuthzIn(q) = a
  BY <1>a DEF AuthzIn
<1>1. r.authz.status = "pending" /\ r.authz.rev = authz[a].rev => authz[a].status = "pending"
  BY <1>a DEF KnowsAuthz
<1>2. KnowsAuthz(q)
  BY <1>a, <1>b, <1>1 DEF KnowsAuthz
<1> QED BY <1>2 DEF Informed, KnowsDerived, KnowsFields, KnowsDispatch, KnowsResult

(* An authorization that a reader sees pending is stored pending. *)
LEMMA EffectivelyOpen ==
  ASSUME NEW a, NEW t
  PROVE  /\ EffectiveAuthzStatus(a, t) = "pending" => a.status = "pending"
         /\ EffectiveAuthzStatus(a, t) = "valid" => a.status = "valid"
         /\ a.status \in AuthzStatus => EffectiveAuthzStatus(a, t) \in AuthzStatus
BY DEF EffectiveAuthzStatus, AuthzStatus

(* runValidation up to the outcome is informed. *)
LEMMA ValidationReadsInformed ==
  ASSUME Agreed, TypeInv', NEW w \in Workers,
         \/ ReadChallenge(w) \/ ReadAuthorization(w) \/ ReadAccount(w)
         \/ ValidateSucceeds(w) \/ ValidateRefuses(w) \/ ValidateErrs(w)
  PROVE  Informed(run'[w])
<1>r. PICK r : r = run[w]
  OBVIOUS
<1>q. PICK q : q = run'[w]
  OBVIOUS
<1>0. /\ TypeInv /\ r \in RunRec /\ TypedRun(r) /\ KnowsChallenge(r) /\ KnowsAuthz(r)
      /\ run \in [Workers -> RunRec] /\ run' \in [Workers -> RunRec]
  BY <1>r, RunFacts DEF Agreed, Informed, Coherent, Knows, TypeInv, TypeOK, WorkerTypeOK
<1>1. CASE ReadChallenge(w)
  <2>1. q.pc \in {"authorization", "finish"}
    BY <1>0, <1>1, <1>r, <1>q DEF ReadChallenge, Local, RunRec
  <2>2. Informed(q)
    BY SMT, <2>1, NothingMore
  <2> QED BY <1>q, <2>2
<1>2. CASE ReadAuthorization(w)
  <2>a. PICK a : a = AuthzIn(r)
    OBVIOUS
  <2>1. r.pc = "authorization" /\ q = [r EXCEPT !.pc = "account", !.authz = authz[a]]
    BY <1>0, <1>2, <1>r, <1>q, <2>a DEF ReadAuthorization, Local, AuthzIn, Target
  <2>2. q.pc = "account" /\ q.authz = authz[a] /\ q.task = r.task /\ q.ch = r.ch
    BY <1>0, <2>1 DEF RunRec
  <2>3. r.ch.status = "processing"
    BY <1>0, <2>1 DEF KnowsChallenge, HoldsCh, ValidationPC
  <2>4. a \in Authzs /\ authz[a].rev \in Nat /\ AuthzIn(q) = a
    <3>1. a \in Authzs
      BY <1>0, <1>r, <2>1, <2>a, RunFacts DEF ValidationPC, AuthzIn, Target
    <3> QED BY <1>0, <2>2, <2>a, <3>1, MoreTypes DEF AuthzIn, TypeInv, TypeOK, StoreTypeOK, AuthzRec
  <2>5. authz[a].rev <= authz[a].rev
    BY SMT, <2>4
  <2>6. KnowsAuthz(q)
    BY <2>2, <2>3, <2>4, <2>5 DEF KnowsAuthz
  <2> QED BY <1>q, <2>2, <2>6 DEF Informed, KnowsDerived, KnowsFields, KnowsDispatch, KnowsResult
<1>3. CASE ReadAccount(w) \/ ValidateSucceeds(w) \/ ValidateRefuses(w) \/ ValidateErrs(w)
  <2>1. r.pc \in {"account", "validate"} /\ r.pc \in HoldsAuthz
    BY <1>3, <1>r DEF ReadAccount, ValidateSucceeds, ValidateRefuses, ValidateErrs,
                      HoldsAuthz, HoldsCh, ValidationPC
  <2>2. r.ch.status = "processing" /\ r.ch \in ChallengeRec /\ r.authz \in AuthzRec
    BY <1>0, <2>1 DEF KnowsChallenge, TypedRun, HoldsAuthz
  <2>3. r.pc = "validate" => r.authz.status = "pending"
    BY <1>0, <2>1 DEF KnowsAuthz
  <2>4. LET f == ChallengeFails(r) IN
        /\ f.pc = "order" /\ f.task = r.task /\ f.authz = r.authz /\ f.ch.status = "invalid"
    <3>1. LET f == ChallengeFails(r) IN
          /\ f.pc = "order" /\ f.task = r.task /\ f.authz = r.authz /\ f.ch = [r.ch EXCEPT !.status = "invalid"]
      BY <1>0 DEF ChallengeFails, RunRec
    <3> QED BY <2>2, <3>1 DEF ChallengeRec
  <2>5. LET f == BothFail(r) IN
        /\ f.pc = "order" /\ f.task = r.task /\ f.authz.rev = r.authz.rev
        /\ f.authz.status = "invalid" /\ f.ch.status = "invalid"
    <3>1. LET f == BothFail(r) IN
          /\ f.pc = "order" /\ f.task = r.task /\ f.authz = [r.authz EXCEPT !.status = "invalid"]
          /\ f.ch = [r.ch EXCEPT !.status = "invalid"]
      BY <1>0 DEF ChallengeFails, BothFail, RunRec
    <3> QED BY <2>2, <3>1 DEF ChallengeRec, AuthzRec
  <2>6. \A pc \in {"validate", "retry"} :
          LET f == [r EXCEPT !.pc = pc] IN f.pc = pc /\ f.authz = r.authz /\ f.ch = r.ch /\ f.task = r.task
    BY <1>0 DEF RunRec
  <2>7. CASE ReadAccount(w) \/ ValidateRefuses(w) \/ ValidateErrs(w)
    <3>1. \/ q = ChallengeFails(r)
          \/ q = BothFail(r) /\ r.authz.status = "pending"
          \/ q = [r EXCEPT !.pc = "validate"] /\ r.authz.status = "pending"
          \/ q = [r EXCEPT !.pc = "retry"]
      BY <1>0, <1>r, <1>q, <2>3, <2>7, EffectivelyOpen DEF ReadAccount, ValidateRefuses, ValidateErrs, Local
    <3>2. CASE q = ChallengeFails(r)
      BY <1>0, <1>q, <2>1, <2>2, <2>4, <3>2, AuthzKnown
    <3>3. CASE q = BothFail(r) /\ r.authz.status = "pending"
      BY <1>0, <1>q, <2>1, <2>2, <2>5, <3>3, AuthzKnown
    <3>4. CASE q = [r EXCEPT !.pc = "validate"] /\ r.authz.status = "pending"
      <4>1. q.pc = "validate" /\ q.authz = r.authz /\ q.ch = r.ch /\ q.task = r.task
        BY <2>6, <3>4
      <4> QED BY <1>0, <1>q, <2>1, <2>2, <3>4, <4>1, AuthzKnown
    <3>5. CASE q = [r EXCEPT !.pc = "retry"]
      <4>1. q.pc = "retry" /\ q.authz = r.authz /\ q.ch = r.ch /\ q.task = r.task
        BY <2>6, <3>5
      <4> QED BY <1>0, <1>q, <2>1, <2>2, <3>5, <4>1, AuthzKnown
    <3> QED BY <3>1, <3>2, <3>3, <3>4, <3>5
  <2>8. CASE ValidateSucceeds(w)
    <3>1. r.authz.status = "pending"
      BY <1>r, <2>3, <2>8 DEF ValidateSucceeds
    <3>2. PICK g \in GrantTimes :
            q = [r EXCEPT !.pc = "order", !.ch.status = "valid",
                          !.authz = [@ EXCEPT !.status = "valid", !.expires = now + AuthzLifetime,
                                              !.grantExpires = g]]
      BY <1>0, <1>r, <1>q, <2>8 DEF ValidateSucceeds, Local
    <3>3. /\ q.pc = "order" /\ q.task = r.task /\ q.ch = [r.ch EXCEPT !.status = "valid"]
          /\ q.authz = [r.authz EXCEPT !.status = "valid", !.expires = now + AuthzLifetime, !.grantExpires = g]
      BY <1>0, <3>2 DEF RunRec
    <3>4. q.ch.status = "valid" /\ q.authz.status = "valid" /\ q.authz.rev = r.authz.rev
      BY <2>2, <3>3 DEF ChallengeRec, AuthzRec
    <3> QED BY <1>0, <1>q, <2>1, <3>1, <3>3, <3>4, AuthzKnown
  <2> QED BY <1>3, <2>7, <2>8
<1> QED BY <1>1, <1>2, <1>3

(* Settle leaves a run informed whose derivation covers every authorization. *)
LEMMA SettleInformed ==
  ASSUME NEW r \in RunRec, NEW s \in {"pending", "ready", "invalid"}, NEW o, o = OrderIn(r),
         r.order \in OrderRec, r.pc \in HoldsAuthz, KnowsAuthz(r), task[r.task].kind = "validate",
         r.order.rev = order[o].rev =>
           /\ r.order.status = order[o].status /\ r.order.deadline = order[o].deadline
           /\ r.order.cert = order[o].cert /\ r.order.unpublished = order[o].unpublished,
         r.order.rev = order[o].rev /\ order[o].status = "pending" =>
           /\ s = "ready" => \A b \in AuthzsOf(o) : Seen(r, b) = "valid"
           /\ s = "pending" =>
                r.authz.status \notin TerminalAuthz /\ \E b \in AuthzsOf(o) : Seen(r, b) = "pending"
  PROVE  Informed(Settle(r, s))
<1>q. PICK q : q = Settle(r, s)
  OBVIOUS
<1>1. /\ q.pc = "complete" /\ q.task = r.task /\ q.ch = r.ch /\ q.authz = r.authz /\ q.todo = {}
      /\ q.order = [r.order EXCEPT !.status = IF @ = "pending" /\ s # "pending" THEN s ELSE @]
  BY <1>q DEF Settle, RunRec
<1>2. /\ q.order.rev = r.order.rev /\ q.order.deadline = r.order.deadline
      /\ q.order.cert = r.order.cert /\ q.order.unpublished = r.order.unpublished
      /\ r.order.status = "pending" => q.order.status = s
  BY <1>1 DEF OrderRec
<1>3. AuthzIn(q) = AuthzIn(r) /\ OrderIn(q) = o /\ \A b : Seen(q, b) = Seen(r, b)
  BY <1>1 DEF AuthzIn, OrderIn, Seen
<1>4. KnowsAuthz(q)
  BY <1>1, <1>3 DEF KnowsAuthz
<1>5. AuthzsOf(o) \ q.todo = AuthzsOf(o)
  BY <1>1
<1>6. KnowsDerived(q)
  <2>1. ASSUME q.order.rev = order[o].rev, order[o].status = "pending"
        PROVE  Derived(q, o, q.order.status)
    <3>1. q.order.status = s
      BY <1>2, <2>1
    <3> QED BY <1>1, <1>2, <1>3, <1>5, <2>1, <3>1 DEF Derived
  <2> QED BY <1>1, <1>3, <2>1 DEF KnowsDerived
<1>7. KnowsFields(q)
  BY <1>1, <1>2, <1>3 DEF KnowsFields
<1> QED BY <1>q, <1>1, <1>4, <1>6, <1>7 DEF Informed, KnowsDispatch, KnowsResult

(* One step of deriveOrderStatus. *)
LEMMA DeriveMeans ==
  ASSUME NEW sofar, NEW s \in AuthzStatus
  PROVE  /\ Derive(sofar, s) = "ready" => sofar = "ready" /\ s = "valid"
         /\ Derive(sofar, s) = "pending" => s \notin TerminalAuthz /\ (s = "pending" \/ sofar = "pending")
BY DEF Derive, AuthzStatus, TerminalAuthz

(* completeValidation starts from its own authorization. *)
LEMMA ReadOrderInformed ==
  ASSUME Agreed, TypeInv', NEW w \in Workers, ReadOrder(w)
  PROVE  Informed(run'[w])
<1>r. PICK r : r = run[w]
  OBVIOUS
<1>q. PICK q : q = run'[w]
  OBVIOUS
<1>0. /\ TypeInv /\ r \in RunRec /\ TypedRun(r) /\ KnowsAuthz(r)
      /\ run \in [Workers -> RunRec] /\ run' \in [Workers -> RunRec]
  BY <1>r, RunFacts DEF Agreed, Informed, Coherent, TypeInv, TypeOK, WorkerTypeOK
<1>a. PICK a : a = AuthzIn(r)
  OBVIOUS
<1>o. PICK o : o = OrderOf[a]
  OBVIOUS
<1>s. PICK status : status = IF OrderLifetime <= now THEN "invalid"
                             ELSE Derive("ready", EffectiveAuthzStatus(r.authz, now))
  OBVIOUS
<1>n. PICK next : next = [r EXCEPT !.order = order[o], !.tries = @ + 1]
  OBVIOUS
<1>m. PICK more : more = [next EXCEPT !.pc = "derive", !.todo = AuthzsOf(o) \ {a}, !.status = status, !.at = now]
  OBVIOUS
<1>1. /\ r.pc = "order" /\ r.pc \in HoldsAuthz
      /\ \/ (status = "invalid" \/ AuthzsOf(o) \ {a} = {}) /\ q = Settle(next, status)
         \/ status # "invalid" /\ q = more
  BY <1>0, <1>r, <1>q, <1>a, <1>o, <1>s, <1>n, <1>m
     DEF ReadOrder, Local, AuthzIn, Target, HoldsAuthz, HoldsCh, ValidationPC
<1>2. /\ a \in Authzs /\ o \in Orders /\ OrderIn(r) = o /\ r.authz \in AuthzRec /\ order[o] \in OrderRec
      /\ task[r.task].kind = "validate" /\ r.tries + 1 \in 0..3 /\ r.todo \in SUBSET Authzs
  <2>1. a \in Authzs /\ OrderIn(r) = o /\ r.authz \in AuthzRec
    BY <1>0, <1>r, <1>1, <1>a, <1>o, MoreTypes
  <2>2. o \in Orders
    BY <1>o, <2>1, Parents
  <2>3. task[r.task].kind = "validate" /\ r.tries < 3 /\ r.tries \in 0..3 /\ order \in [Orders -> OrderRec]
    BY <1>0, <1>1 DEF ValidationPC, TypedRun, RunRec, TypeInv, TypeOK, StoreTypeOK
  <2>4. r.tries + 1 \in 0..3
    BY SMT, <2>3
  <2> QED BY <1>0, <2>1, <2>2, <2>3, <2>4 DEF RunRec
<1>3. status \in {"pending", "ready", "invalid"}
  BY <1>s, DeriveFrom
<1>4. a \in AuthzsOf(o)
  BY <1>2, <1>o DEF AuthzsOf
<1>5. /\ status = "ready" => r.authz.status = "valid"
      /\ status = "pending" => r.authz.status = "pending"
  <2>1. EffectiveAuthzStatus(r.authz, now) \in AuthzStatus
    BY <1>2, EffectivelyOpen DEF AuthzRec
  <2>2. \A x \in AuthzStatus :
          /\ Derive("ready", x) = "ready" => x = "valid"
          /\ Derive("ready", x) = "pending" => x = "pending"
    BY DeriveMeans
  <2>3. /\ status = "ready" => EffectiveAuthzStatus(r.authz, now) = "valid"
        /\ status = "pending" => EffectiveAuthzStatus(r.authz, now) = "pending"
    BY <1>s, <2>1, <2>2
  <2> QED BY <2>3, EffectivelyOpen
<1>6. /\ next \in RunRec /\ next.order = order[o] /\ next.pc = "order" /\ next.task = r.task
      /\ next.ch = r.ch /\ next.authz = r.authz
  <2>1. \A x \in OrderRec, n \in 0..3 :
          LET p == [r EXCEPT !.order = x, !.tries = n]
          IN  /\ p \in RunRec /\ p.order = x /\ p.pc = r.pc /\ p.task = r.task /\ p.ch = r.ch
              /\ p.authz = r.authz
    BY <1>0 DEF RunRec
  <2>2. next = [r EXCEPT !.order = order[o], !.tries = r.tries + 1]
    BY <1>0, <1>n DEF RunRec
  <2> QED BY <1>1, <1>2, <2>1, <2>2
<1>7. AuthzIn(next) = a /\ OrderIn(next) = o /\ Seen(next, a) = r.authz.status /\ KnowsAuthz(next)
  BY <1>0, <1>1, <1>2, <1>6, <1>a DEF AuthzIn, OrderIn, Seen, KnowsAuthz
<1>8. CASE (status = "invalid" \/ AuthzsOf(o) \ {a} = {}) /\ q = Settle(next, status)
  <2>1. /\ status = "ready" => \A b \in AuthzsOf(o) : Seen(next, b) = "valid"
        /\ status = "pending" =>
             next.authz.status \notin TerminalAuthz /\ \E b \in AuthzsOf(o) : Seen(next, b) = "pending"
    <3>1. status # "invalid" => \A b \in AuthzsOf(o) : b = a
      BY <1>8
    <3> QED BY <1>4, <1>5, <1>6, <1>7, <3>1 DEF TerminalAuthz
  <2>2. next.pc \in HoldsAuthz /\ task[next.task].kind = "validate"
    BY <1>1, <1>2, <1>6
  <2> HIDE <1>n
  <2>3. Informed(Settle(next, status))
    BY <1>2, <1>3, <1>6, <1>7, <2>1, <2>2, SettleInformed
  <2> QED BY <1>q, <1>8, <2>3
<1>9. CASE status # "invalid" /\ q = more
  <2>1. /\ q.pc = "derive" /\ q.task = r.task /\ q.ch = r.ch /\ q.authz = r.authz
        /\ q.order = order[o] /\ q.todo = AuthzsOf(o) \ {a} /\ q.status = status
    BY <1>6, <1>9, <1>m DEF RunRec
  <2>2. AuthzIn(q) = a /\ OrderIn(q) = o /\ Seen(q, a) = r.authz.status
    BY <1>2, <1>a, <2>1 DEF AuthzIn, OrderIn, Seen
  <2>3. KnowsAuthz(q)
    BY <1>0, <1>1, <1>a, <2>1, <2>2 DEF KnowsAuthz
  <2>4. \A b : b \in AuthzsOf(o) \ q.todo <=> b = a
    BY <1>4, <2>1
  <2>5. Derived(q, o, status)
    BY <1>5, <2>1, <2>2, <2>4 DEF Derived, TerminalAuthz
  <2>6. KnowsDerived(q)
    BY <2>1, <2>2, <2>5 DEF KnowsDerived
  <2>7. KnowsFields(q)
    BY <2>1, <2>2 DEF KnowsFields
  <2> QED BY <1>q, <2>1, <2>3, <2>6, <2>7 DEF Informed, KnowsDispatch, KnowsResult
<1> QED BY <1>1, <1>8, <1>9

(* Each further authorization extends what was derived. *)
LEMMA DeriveInformed ==
  ASSUME Agreed, TypeInv', NEW w \in Workers, DeriveOrderStatus(w)
  PROVE  Informed(run'[w])
<1>r. PICK r : r = run[w]
  OBVIOUS
<1>q. PICK q : q = run'[w]
  OBVIOUS
<1>0. /\ TypeInv /\ r \in RunRec /\ TypedRun(r) /\ KnowsAuthz(r) /\ KnowsDerived(r) /\ KnowsFields(r)
      /\ KnowsOrder(r) /\ run \in [Workers -> RunRec] /\ run' \in [Workers -> RunRec]
  BY <1>r, RunFacts DEF Agreed, Informed, Coherent, Knows, TypeInv, TypeOK, WorkerTypeOK
<1>1. r.pc = "derive" /\ r.pc \in HoldsAuthz /\ r.pc \in HoldsOrder
  BY <1>r DEF DeriveOrderStatus, HoldsAuthz, HoldsOrder, HoldsCh, ValidationPC
<1>2. PICK b \in r.todo :
        LET status == Derive(r.status, EffectiveAuthzStatus(authz[b], r.at))
        IN  q = IF status = "invalid" \/ r.todo = {b} THEN Settle(r, status)
                ELSE [r EXCEPT !.todo = @ \ {b}, !.status = status]
  BY <1>0, <1>r, <1>q DEF DeriveOrderStatus, Local
<1>a. PICK a : a = AuthzIn(r)
  OBVIOUS
<1>o. PICK o : o = OrderIn(r)
  OBVIOUS
<1>s. PICK status : status = Derive(r.status, EffectiveAuthzStatus(authz[b], r.at))
  OBVIOUS
<1>3. \/ (status = "invalid" \/ r.todo = {b}) /\ q = Settle(r, status)
      \/ status # "invalid" /\ q = [r EXCEPT !.todo = @ \ {b}, !.status = status]
  BY <1>2, <1>s
<1>4. /\ a \in Authzs /\ o \in Orders /\ a \in AuthzsOf(o) /\ b \in Authzs /\ b \in AuthzsOf(o)
      /\ a \notin r.todo /\ a # b
      /\ authz[b].status \in AuthzStatus /\ r.order \in OrderRec
      /\ task[r.task].kind = "validate" /\ r.status \in {"pending", "ready"}
  <2>1. a \in Authzs /\ o = OrderOf[a] /\ o \in Orders /\ r.order \in OrderRec
    BY <1>0, <1>r, <1>1, <1>a, <1>o, MoreTypes
  <2>2. r.todo \subseteq AuthzsOf(o) /\ authz \in [Authzs -> AuthzRec] /\ a \notin r.todo
    BY <1>0, <1>1, <1>a, <1>o DEF RunRec, KnowsDerived, TypeInv, TypeOK, StoreTypeOK
  <2>3. task[r.task].kind = "validate" /\ r.status \in {"pending", "ready"}
    BY <1>0, <1>1 DEF TypedRun, ValidationPC, KnowsOrder
  <2>4. b \in AuthzsOf(o) /\ b \in Authzs
    BY <1>2, <2>1, <2>2, Parents
  <2>5. authz[b].status \in AuthzStatus
    BY <2>2, <2>4 DEF AuthzRec
  <2> QED BY <1>2, <2>1, <2>2, <2>3, <2>4, <2>5, Parents
<1>5. status \in {"pending", "ready", "invalid"}
  BY <1>4, <1>s, DeriveFrom
<1>6. /\ status = "ready" => r.status = "ready" /\ authz[b].status = "valid"
      /\ status = "pending" => authz[b].status = "pending" \/ r.status = "pending"
  <2>1. EffectiveAuthzStatus(authz[b], r.at) \in AuthzStatus
    BY <1>4, EffectivelyOpen
  <2>2. \A x, y : x \in AuthzStatus =>
          /\ Derive(y, x) = "ready" => y = "ready" /\ x = "valid"
          /\ Derive(y, x) = "pending" => x = "pending" \/ y = "pending"
    BY DeriveMeans
  <2>3. /\ status = "ready" => r.status = "ready" /\ EffectiveAuthzStatus(authz[b], r.at) = "valid"
        /\ status = "pending" => EffectiveAuthzStatus(authz[b], r.at) = "pending" \/ r.status = "pending"
    BY <1>s, <2>1, <2>2
  <2> QED BY <2>3, EffectivelyOpen
<1>7. ASSUME r.order.rev = order[o].rev, order[o].status = "pending"
      PROVE  /\ status = "ready" => \A c \in AuthzsOf(o) \ (r.todo \ {b}) : Seen(r, c) = "valid"
             /\ status = "pending" =>
                  /\ r.authz.status \notin TerminalAuthz
                  /\ \E c \in AuthzsOf(o) \ (r.todo \ {b}) : Seen(r, c) = "pending"
  <2>1. Derived(r, o, r.status)
    BY <1>0, <1>1, <1>7, <1>o DEF KnowsDerived
  <2>2. Seen(r, b) = authz[b].status /\ Seen(r, a) = r.authz.status
    BY <1>4, <1>a DEF Seen
  <2>3. status = "ready" => \A c \in AuthzsOf(o) \ (r.todo \ {b}) : Seen(r, c) = "valid"
    BY <1>6, <2>1, <2>2 DEF Derived
  <2>4. ASSUME status = "pending"
        PROVE  /\ r.authz.status \notin TerminalAuthz
               /\ \E c \in AuthzsOf(o) \ (r.todo \ {b}) : Seen(r, c) = "pending"
    <3>1. CASE r.status = "pending"
      BY <2>1, <3>1 DEF Derived
    <3>2. CASE r.status = "ready"
      <4>1. r.authz.status = "valid"
        BY <1>4, <2>1, <2>2, <3>2 DEF Derived
      <4>2. authz[b].status = "pending"
        BY <1>6, <2>4, <3>2
      <4> QED BY <1>4, <2>2, <4>1, <4>2 DEF TerminalAuthz
    <3> QED BY <1>4, <3>1, <3>2
  <2> QED BY <2>3, <2>4
<1>8. /\ r.order.rev = order[o].rev => r.order.status = order[o].status
      /\ r.order.rev = order[o].rev =>
           /\ r.order.deadline = order[o].deadline
           /\ r.order.cert = order[o].cert /\ r.order.unpublished = order[o].unpublished
  BY <1>0, <1>1, <1>o DEF KnowsFields
<1>9. CASE (status = "invalid" \/ r.todo = {b}) /\ q = Settle(r, status)
  <2>1. \A c : c \in AuthzsOf(o) \ (r.todo \ {b}) => c \in AuthzsOf(o)
    OBVIOUS
  <2>2. r.todo = {b} => \A c \in AuthzsOf(o) : c \in AuthzsOf(o) \ (r.todo \ {b})
    OBVIOUS
  <2>3. r.order.rev = order[o].rev /\ order[o].status = "pending" =>
          /\ status = "ready" => \A c \in AuthzsOf(o) : Seen(r, c) = "valid"
          /\ status = "pending" =>
               r.authz.status \notin TerminalAuthz /\ \E c \in AuthzsOf(o) : Seen(r, c) = "pending"
    BY <1>7, <1>9, <2>1, <2>2
  <2>4. Informed(Settle(r, status))
    BY <1>0, <1>1, <1>4, <1>5, <1>8, <1>o, <2>3, SettleInformed
  <2> QED BY <1>q, <1>9, <2>4
<1>10. CASE status # "invalid" /\ q = [r EXCEPT !.todo = @ \ {b}, !.status = status]
  <2>1. /\ q.pc = "derive" /\ q.task = r.task /\ q.ch = r.ch /\ q.authz = r.authz
        /\ q.order = r.order /\ q.todo = r.todo \ {b} /\ q.status = status
    BY <1>0, <1>1, <1>10 DEF RunRec
  <2>2. AuthzIn(q) = a /\ OrderIn(q) = o /\ \A c : Seen(q, c) = Seen(r, c)
    BY <1>a, <1>o, <2>1 DEF AuthzIn, OrderIn, Seen
  <2>3. KnowsAuthz(q)
    BY <1>0, <1>1, <1>a, <2>1, <2>2 DEF KnowsAuthz
  <2>4. ASSUME q.order.rev = order[o].rev, order[o].status = "pending" PROVE Derived(q, o, q.status)
    BY <1>7, <2>1, <2>2, <2>4 DEF Derived
  <2>5. q.todo \subseteq AuthzsOf(o) /\ a \notin q.todo
    BY <1>0, <1>1, <1>4, <1>o, <2>1 DEF KnowsDerived
  <2>6. KnowsDerived(q)
    BY <2>1, <2>2, <2>4, <2>5 DEF KnowsDerived
  <2>7. KnowsFields(q)
    BY <1>8, <2>1, <2>2 DEF KnowsFields
  <2> QED BY <1>q, <2>1, <2>3, <2>6, <2>7 DEF Informed, KnowsDispatch, KnowsResult
<1> QED BY <1>3, <1>9, <1>10

(* A commit that conflicts reloads; an authorization that was decided       *)
(* meanwhile overrules the run, one still pending is overwritten.           *)
LEMMA ReloadInformed ==
  ASSUME Agreed, TypeInv', NEW w \in Workers, CommitValidationFails(w) \/ ReloadAuthorization(w)
  PROVE  Informed(run'[w])
<1>r. PICK r : r = run[w]
  OBVIOUS
<1>q. PICK q : q = run'[w]
  OBVIOUS
<1>0. /\ TypeInv /\ r \in RunRec /\ TypedRun(r) /\ KnowsAuthz(r) /\ KnowsChallenge(r)
      /\ run \in [Workers -> RunRec] /\ run' \in [Workers -> RunRec]
  BY <1>r, RunFacts DEF Agreed, Informed, Coherent, Knows, TypeInv, TypeOK, WorkerTypeOK
<1>1. r.pc \in {"complete", "reload"} /\ r.pc \in HoldsAuthz
  BY <1>r DEF CommitValidationFails, ReloadAuthorization, HoldsAuthz, HoldsCh, ValidationPC
<1>2. CASE CommitValidationFails(w)
  <2>1. q = [r EXCEPT !.pc = "reload", !.order = None] \/ q = [r EXCEPT !.pc = "reschedule", !.order = None]
    BY <1>0, <1>2, <1>r, <1>q DEF CommitValidationFails, Local
  <2>2. q.pc \in {"reload", "reschedule"} /\ q.task = r.task /\ q.ch = r.ch /\ q.authz = r.authz
    BY <1>0, <2>1 DEF RunRec
  <2>3. CASE q.pc = "reload"
    BY <1>0, <1>1, <1>q, <2>2, <2>3, AuthzKnown
  <2>4. CASE q.pc = "reschedule"
    BY SMT, <1>q, <2>4, NothingMore
  <2> QED BY <2>2, <2>3, <2>4
<1>3. CASE ReloadAuthorization(w)
  <2>a. PICK a : a = AuthzIn(r)
    OBVIOUS
  <2>1. r.pc = "reload"
    BY <1>3, <1>r DEF ReloadAuthorization
  <2>p. PICK pc : pc = IF r.tries = 3 THEN "reschedule" ELSE "order"
    OBVIOUS
  <2>2. \/ /\ EffectiveAuthzStatus(authz[a], now) # "pending"
           /\ q = [r EXCEPT !.pc = pc, !.ch.status = "invalid", !.authz = authz[a]]
        \/ /\ EffectiveAuthzStatus(authz[a], now) = "pending"
           /\ q = [r EXCEPT !.pc = pc, !.authz.rev = authz[a].rev]
    BY <1>0, <1>3, <1>r, <1>q, <2>a, <2>p DEF ReloadAuthorization, Local, AuthzIn, Target
  <2>3. a \in Authzs /\ authz[a].rev \in Nat /\ r.authz \in AuthzRec /\ r.ch \in ChallengeRec
    BY <1>0, <1>1, <1>r, <2>a, MoreTypes DEF TypeInv, TypeOK, StoreTypeOK, AuthzRec, TypedRun, HoldsAuthz
  <2>4. q.pc = pc /\ q.task = r.task
    BY <1>0, <2>2 DEF RunRec
  <2>5. AuthzIn(q) = a /\ authz[a].rev <= authz[a].rev
    BY SMT, <2>a, <2>3, <2>4 DEF AuthzIn
  <2>6. KnowsAuthz(q)
    <3>1. CASE q = [r EXCEPT !.pc = pc, !.ch.status = "invalid", !.authz = authz[a]]
      <4>1. q.authz = authz[a] /\ q.ch.status = "invalid"
        BY <1>0, <2>3, <3>1 DEF RunRec, ChallengeRec
      <4> QED BY <2>p, <2>4, <2>5, <4>1 DEF KnowsAuthz
    <3>2. CASE /\ EffectiveAuthzStatus(authz[a], now) = "pending"
               /\ q = [r EXCEPT !.pc = pc, !.authz.rev = authz[a].rev]
      <4>1. q.authz = [r.authz EXCEPT !.rev = authz[a].rev] /\ q.ch = r.ch
        BY <1>0, <3>2 DEF RunRec
      <4>2. q.authz.rev = authz[a].rev /\ q.authz.status = r.authz.status
        BY <2>3, <4>1 DEF AuthzRec
      <4>3. authz[a].status = "pending"
        BY <3>2, EffectivelyOpen
      <4>4. r.ch.status = "valid" => r.authz.status = "valid"
        BY <1>0, <1>1 DEF KnowsAuthz
      <4>5. r.ch.status # "valid" => r.authz.status \in {"pending", "invalid"}
        BY <1>0, <1>1, <2>a, <4>3 DEF KnowsAuthz
      <4> QED BY <2>p, <2>4, <2>5, <4>1, <4>2, <4>3, <4>4, <4>5 DEF KnowsAuthz
    <3> QED BY <2>2, <3>1, <3>2
  <2> QED BY <1>q, <2>p, <2>4, <2>6 DEF Informed, KnowsDerived, KnowsFields, KnowsDispatch, KnowsResult
<1> QED BY <1>2, <1>3

-----------------------------------------------------------------------------
(* Issuance runs. *)

(* What failing, withholding and publishing put into the copy. *)
LEMMA OutcomeDetails ==
  ASSUME NEW r \in RunRec, r.order \in OrderRec, NEW l
  PROVE  /\ LET f == Fail(r) IN
            f.leaf = None /\ f.order.status = "invalid" /\ f.order.deadline = r.order.deadline
         /\ LET f == Fail(NoDispatch(r)) IN f.leaf = None /\ f.order.status = "invalid"
         /\ LET f == Withhold(r) IN
            /\ f.leaf = None /\ f.order.status = "invalid" /\ f.order.unpublished
            /\ f.order.deadline = r.order.deadline
         /\ LET f == Publish(r, l) IN
            /\ f.leaf = l /\ f.order.status = "valid" /\ f.order.cert = l
            /\ f.order.deadline = r.order.deadline
<1>1. ASSUME NEW q \in RunRec, q.order \in OrderRec
      PROVE  /\ Fail(q).leaf = None /\ Fail(q).order.status = "invalid"
             /\ Fail(q).order.deadline = q.order.deadline
             /\ Fail(q).order.unpublished = q.order.unpublished
  <2>1. Fail(q).leaf = None /\ Fail(q).order = [q.order EXCEPT !.status = "invalid"]
    BY <1>1 DEF Fail, RunRec
  <2> QED BY <1>1, <2>1 DEF OrderRec
<1>2. Fail(NoDispatch(r)).leaf = None /\ Fail(NoDispatch(r)).order.status = "invalid"
  BY <1>1, NoDispatchType
<1> DEFINE u == [r EXCEPT !.order.unpublished = TRUE, !.order.cert = None]
<1>3. u \in RunRec /\ u.order \in OrderRec /\ u.order.unpublished /\ u.order.deadline = r.order.deadline
  <2>1. u.order = [r.order EXCEPT !.unpublished = TRUE, !.cert = None] /\ u \in RunRec
    BY DEF RunRec, OrderRec
  <2> HIDE DEF u
  <2>2. /\ u.order \in OrderRec /\ u.order.unpublished = TRUE
        /\ u.order.deadline = r.order.deadline
    BY <2>1 DEF OrderRec
  <2> QED BY <2>1, <2>2
<1>4. Withhold(r) = Fail(u)
  BY DEF Withhold
<1> HIDE DEF u
<1>5. /\ Withhold(r).leaf = None /\ Withhold(r).order.status = "invalid" /\ Withhold(r).order.unpublished
      /\ Withhold(r).order.deadline = r.order.deadline
  BY <1>1, <1>3, <1>4
<1>6. /\ Publish(r, l).leaf = l /\ Publish(r, l).order.status = "valid" /\ Publish(r, l).order.cert = l
      /\ Publish(r, l).order.deadline = r.order.deadline
  <2>1. Publish(r, l).leaf = l /\ Publish(r, l).order = [r.order EXCEPT !.status = "valid", !.cert = l]
    BY DEF Publish, RunRec
  <2> QED BY <2>1 DEF OrderRec
<1> QED BY <1>1, <1>2, <1>5, <1>6

(* A run about to record an outcome of an order never dispatched. *)
LEMMA GivenUp ==
  ASSUME NEW q, q.pc = "record", q.order.op = None, q.order.status = "invalid", q.leaf = None
  PROVE  Informed(q)
BY DEF Informed, KnowsAuthz, KnowsDerived, KnowsFields, KnowsDispatch, KnowsResult, HoldsAuthz, HoldsCh,
       ValidationPC

(* A run about to record what the CA decided. *)
LEMMA Decided ==
  ASSUME NEW q, q.pc = "record", q.order.op # None,
         order[OrderIn(q)].op = q.order.op, q.order.deadline = order[OrderIn(q)].deadline, KnowsResult(q)
  PROVE  Informed(q)
BY DEF Informed, KnowsAuthz, KnowsDerived, KnowsFields, KnowsDispatch, HoldsAuthz, HoldsCh, ValidationPC

(* issuanceOrder and dispatchSnapshot's first step. *)
LEMMA DispatchStartsInformed ==
  ASSUME Agreed, TypeInv', NEW w \in Workers, ReadIssuanceOrder(w) \/ DispatchAccount(w)
  PROVE  Informed(run'[w])
<1>r. PICK r : r = run[w]
  OBVIOUS
<1>q. PICK q : q = run'[w]
  OBVIOUS
<1>0. /\ TypeInv /\ r \in RunRec /\ TypedRun(r) /\ KnowsDispatch(r)
      /\ run \in [Workers -> RunRec] /\ run' \in [Workers -> RunRec]
  BY <1>r, RunFacts DEF Agreed, Informed, Coherent, TypeInv, TypeOK, WorkerTypeOK
<1>1. CASE ReadIssuanceOrder(w)
  <2>o. PICK o : o = task[r.task].target
    OBVIOUS
  <2>p. PICK p : p = [r EXCEPT !.order = order[o]]
    OBVIOUS
  <2>1. /\ r.pc = "issuanceOrder"
        /\ \/ q = [r EXCEPT !.pc = "finish"]
           \/ q = Request(p)
           \/ order[o].op = None /\ q = [p EXCEPT !.pc = "dispatchAccount"]
    BY <1>0, <1>1, <1>r, <1>q, <2>o, <2>p DEF ReadIssuanceOrder, Step, Target
  <2>2. o \in Orders /\ order[o] \in OrderRec /\ task[r.task].kind = "issue" /\ now \in Nat
    BY <1>0, <1>r, <2>1, <2>o, RunFacts DEF IssuancePC, TypedRun, Target
  <2>3. p \in RunRec /\ p.order = order[o] /\ p.task = r.task
    BY <1>0, <2>2, <2>p DEF RunRec
  <2>4. CASE q = [r EXCEPT !.pc = "finish"]
    <3>1. q.pc = "finish"
      BY <1>0, <2>4 DEF RunRec
    <3> QED BY SMT, <1>q, <3>1, NothingMore
  <2>5. CASE q = Request(p)
    <3>1. q.pc = "issue" /\ q.order = order[o] /\ q.task = r.task
      BY <2>2, <2>3, <2>5, RequestType
    <3>2. OrderIn(q) = o
      BY <2>2, <2>o, <3>1 DEF OrderIn
    <3> QED BY <1>q, <3>1, <3>2 DEF Informed, KnowsAuthz, KnowsDerived, KnowsFields, KnowsDispatch,
                                    KnowsResult, HoldsAuthz, HoldsCh, ValidationPC
  <2>6. CASE order[o].op = None /\ q = [p EXCEPT !.pc = "dispatchAccount"]
    <3>1. q.pc = "dispatchAccount" /\ q.order = order[o]
      BY <2>3, <2>6 DEF RunRec
    <3> QED BY <1>q, <2>6, <3>1 DEF Informed, KnowsAuthz, KnowsDerived, KnowsFields, KnowsDispatch,
                                    KnowsResult, HoldsAuthz, HoldsCh, ValidationPC
  <2> QED BY <2>1, <2>4, <2>5, <2>6
<1>2. CASE DispatchAccount(w)
  <2>d. PICK d : d = [r.order EXCEPT !.deadline = OrderLifetime]
    OBVIOUS
  <2>1. /\ r.pc = "dispatchAccount"
        /\ \/ q = Fail(r)
           \/ q = [r EXCEPT !.pc = "snapshot", !.acct = account.rev, !.at = now,
                            !.todo = AuthzsOf(Target(w)), !.order = d]
    BY <1>2, <1>r, <1>q, <1>0, <2>d DEF DispatchAccount, Step, RunRec
  <2>2. r.order \in OrderRec /\ r.order.op = None /\ task[r.task].kind = "issue"
    BY <1>0, <2>1 DEF TypedRun, KnowsDispatch, HoldsOrder, IssuancePC
  <2>3. CASE q = Fail(r)
    <3>1. q.pc = "record" /\ q.order.op = None /\ q.leaf = None /\ q.order.status = "invalid"
      BY <1>0, <2>2, <2>3, OutcomeFields, OutcomeDetails
    <3> QED BY <1>q, <3>1, GivenUp
  <2>4. CASE q = [r EXCEPT !.pc = "snapshot", !.acct = account.rev, !.at = now,
                           !.todo = AuthzsOf(Target(w)), !.order = d]
    <3>1. q.pc = "snapshot" /\ q.order = d /\ q.todo = AuthzsOf(Target(w)) /\ q.task = r.task
      BY <1>0, <2>4 DEF RunRec
    <3>2. d.op = None /\ d.deadline = OrderLifetime
      BY <2>2, <2>d DEF OrderRec
    <3>3. OrderIn(q) = Target(w)
      BY <1>r, <2>2, <3>1 DEF OrderIn, Target
    <3>4. OrderLifetime <= OrderLifetime
      BY SMT, StoreAssumption
    <3>5. KnowsDispatch(q)
      BY <3>1, <3>2, <3>3, <3>4 DEF KnowsDispatch
    <3> QED BY <1>q, <3>1, <3>5 DEF Informed, KnowsAuthz, KnowsDerived, KnowsFields,
                                    KnowsResult, HoldsAuthz, HoldsCh, ValidationPC
  <2> QED BY <2>1, <2>3, <2>4
<1> QED BY <1>1, <1>2

(* The deadline only moves forward, to what the authorization allows. *)
LEMMA EarlierCovers ==
  ASSUME NEW d \in Nat, NEW a \in AuthzRec
  PROVE  LET e == Earlier(Earlier(d, a.expires), a.grantExpires) IN
         e \in Nat /\ e <= d /\ Covers(e, a)
<1>1. a.expires \in Nat /\ a.grantExpires \in Nat \cup {None}
  BY DEF AuthzRec
<1> QED BY SMT, <1>1, StoreAssumption DEF Earlier, Covers
(* An earlier deadline covers what a later one does. *)
LEMMA CoversLess ==
  ASSUME NEW d \in Nat, NEW e \in Nat, e <= d, NEW a \in AuthzRec, Covers(d, a)
  PROVE  Covers(e, a)
<1>1. a.expires \in Nat /\ a.grantExpires \in Nat \cup {None}
  BY DEF AuthzRec
<1> QED BY SMT, <1>1 DEF Covers

(* Each authorization of the snapshot tightens the deadline. *)
LEMMA SnapshotInformed ==
  ASSUME Agreed, TypeInv', NEW w \in Workers, Snapshot(w)
  PROVE  Informed(run'[w])
<1>r. PICK r : r = run[w]
  OBVIOUS
<1>q. PICK q : q = run'[w]
  OBVIOUS
<1>0. /\ TypeInv /\ r \in RunRec /\ TypedRun(r) /\ KnowsDispatch(r)
      /\ run \in [Workers -> RunRec] /\ run' \in [Workers -> RunRec]
  BY <1>r, RunFacts DEF Agreed, Informed, Coherent, TypeInv, TypeOK, WorkerTypeOK
<1>1. r.pc = "snapshot"
  BY <1>r DEF Snapshot
<1>2. PICK a \in r.todo :
        LET next == [r EXCEPT !.snap[a] = authz[a], !.todo = @ \ {a},
                      !.order.deadline = Earlier(Earlier(@, authz[a].expires), authz[a].grantExpires)]
        IN  Step(w, IF ~Dispatchable(authz[a], r.at) THEN Fail(NoDispatch(r))
                    ELSE IF ~HasEvidence(a) THEN [r EXCEPT !.pc = "reschedule"]
                    ELSE IF r.todo = {a} THEN [next EXCEPT !.pc = "policy"]
                    ELSE next)
  BY <1>r DEF Snapshot
<1>o. PICK o : o = OrderIn(r)
  OBVIOUS
<1>e. PICK e : e = Earlier(Earlier(r.order.deadline, authz[a].expires), authz[a].grantExpires)
  OBVIOUS
<1>d. PICK d : d = [r.order EXCEPT !.deadline = e]
  OBVIOUS
<1>s. PICK s : s = [r.snap EXCEPT ![a] = authz[a]]
  OBVIOUS
<1>n. PICK next : next = [r EXCEPT !.snap = s, !.todo = @ \ {a}, !.order = d]
  OBVIOUS
<1>3. \/ q = Fail(NoDispatch(r))
      \/ q = [r EXCEPT !.pc = "reschedule"]
      \/ q = [next EXCEPT !.pc = "policy"] /\ r.todo = {a}
      \/ q = next
  BY <1>0, <1>2, <1>q, <1>e, <1>d, <1>s, <1>n DEF RunRec, Step
<1>4. /\ r.order \in OrderRec /\ r.order.op = None /\ r.order.deadline \in Nat /\ a \in Authzs
      /\ authz[a] \in AuthzRec /\ authz[a].rev \in Nat /\ r.snap \in [Authzs -> AuthzRec \cup {None}]
  <2>1. r.order \in OrderRec /\ r.order.op = None
    BY <1>0, <1>1 DEF TypedRun, KnowsDispatch, HoldsOrder, IssuancePC
  <2>2. a \in Authzs /\ r.snap \in [Authzs -> AuthzRec \cup {None}]
    BY <1>0, <1>2 DEF RunRec
  <2>3. authz[a] \in AuthzRec
    BY <1>0, <2>2 DEF TypeInv, TypeOK, StoreTypeOK
  <2> QED BY <2>1, <2>2, <2>3 DEF OrderRec, AuthzRec
<1>5. e \in Nat /\ e <= r.order.deadline /\ Covers(e, authz[a])
  BY <1>4, <1>e, EarlierCovers
<1>6. CASE q = Fail(NoDispatch(r))
  <2>1. q.pc = "record" /\ q.order.op = None /\ q.leaf = None /\ q.order.status = "invalid"
    BY <1>0, <1>4, <1>6, OutcomeFields, OutcomeDetails
  <2> QED BY <1>q, <2>1, GivenUp
<1>7. CASE q = [r EXCEPT !.pc = "reschedule"]
  <2>1. q.pc = "reschedule"
    BY <1>0, <1>7 DEF RunRec
  <2> QED BY SMT, <1>q, <2>1, NothingMore
<1>8. CASE (q = [next EXCEPT !.pc = "policy"] /\ r.todo = {a}) \/ q = next
  <2>1. /\ d.op = None /\ d.deadline = e
        /\ s[a] = authz[a] /\ \A b \in Authzs : b # a => s[b] = r.snap[b]
    BY <1>4, <1>d, <1>s DEF OrderRec
  <2>2. /\ next.pc = r.pc /\ next.task = r.task /\ next.snap = s /\ next.todo = r.todo \ {a}
        /\ next.order = d
    BY <1>0, <1>n DEF RunRec
  <2>3. LET p == [next EXCEPT !.pc = "policy"] IN
        p.pc = "policy" /\ p.task = r.task /\ p.snap = s /\ p.todo = r.todo \ {a} /\ p.order = d
    BY <1>0, <1>n DEF RunRec
  <2>4. /\ q.pc = "snapshot" \/ (q.pc = "policy" /\ r.todo = {a})
        /\ q.task = r.task /\ q.snap = s /\ q.todo = r.todo \ {a} /\ q.order = d
    BY <1>1, <1>8, <2>2, <2>3
  <2>5. q.pc = "policy" => q.todo = {}
    BY <2>4
  <2>6. OrderIn(q) = o
    BY <1>o, <2>4 DEF OrderIn
  <2>7. e <= OrderLifetime
    <3>1. r.order.deadline <= OrderLifetime
      BY <1>0, <1>1 DEF KnowsDispatch
    <3> QED BY SMT, <1>4, <1>5, <3>1, StoreAssumption
  <2>8. ASSUME NEW b \in AuthzsOf(o) \ q.todo
        PROVE  /\ s[b] \in AuthzRec /\ s[b].rev <= authz[b].rev
               /\ s[b].rev = authz[b].rev => s[b] = authz[b]
               /\ Covers(e, s[b])
    <3>1. CASE b = a
      <4>1. authz[a].rev <= authz[a].rev
        BY SMT, <1>4
      <4> QED BY <1>4, <1>5, <2>1, <3>1, <4>1
    <3>2. CASE b # a
      <4>1. b \in AuthzsOf(o) \ r.todo /\ b \in Authzs
        BY <2>4, <2>8, <3>2 DEF AuthzsOf
      <4>2. s[b] = r.snap[b]
        BY <2>1, <3>2, <4>1
      <4>3. /\ r.snap[b] \in AuthzRec /\ r.snap[b].rev <= authz[b].rev
            /\ r.snap[b].rev = authz[b].rev => r.snap[b] = authz[b]
            /\ Covers(r.order.deadline, r.snap[b])
        BY <1>0, <1>1, <1>o, <4>1 DEF KnowsDispatch
      <4>4. Covers(e, r.snap[b])
        BY <1>4, <1>5, <4>3, CoversLess
      <4> QED BY <4>2, <4>3, <4>4
    <3> QED BY <3>1, <3>2
  <2>9. KnowsDispatch(q)
    BY <2>1, <2>4, <2>5, <2>6, <2>7, <2>8 DEF KnowsDispatch
  <2> QED BY <1>q, <2>4, <2>9 DEF Informed, KnowsAuthz, KnowsDerived, KnowsFields, KnowsResult,
                                  HoldsAuthz, HoldsCh, ValidationPC
<1> QED BY <1>3, <1>6, <1>7, <1>8

(* The policy's answer, and a dispatch that conflicts. *)
LEMMA PolicyInformed ==
  ASSUME Agreed, TypeInv', NEW w \in Workers,
         PolicyAllows(w) \/ PolicyRefuses(w) \/ PolicyErrs(w) \/ DispatchConflict(w)
  PROVE  Informed(run'[w])
<1>r. PICK r : r = run[w]
  OBVIOUS
<1>q. PICK q : q = run'[w]
  OBVIOUS
<1>0. /\ TypeInv /\ r \in RunRec /\ TypedRun(r) /\ KnowsDispatch(r)
      /\ run \in [Workers -> RunRec] /\ run' \in [Workers -> RunRec]
  BY <1>r, RunFacts DEF Agreed, Informed, Coherent, TypeInv, TypeOK, WorkerTypeOK
<1>1. r.order \in OrderRec
  BY <1>0, <1>r DEF PolicyAllows, PolicyRefuses, PolicyErrs, DispatchConflict, TypedRun, HoldsOrder, IssuancePC
<1>d. PICK d : d = [r.order EXCEPT !.op = r.task]
  OBVIOUS
<1>2. \/ r.pc = "policy" /\ q = Fail(NoDispatch(r))
      \/ r.pc = "policy" /\ q = [r EXCEPT !.pc = "begin", !.order = d]
      \/ q = [r EXCEPT !.pc = "reschedule"]
  BY <1>0, <1>r, <1>q, <1>d
     DEF PolicyAllows, PolicyRefuses, PolicyErrs, DispatchConflict, Step, RunRec
<1>3. CASE r.pc = "policy" /\ q = Fail(NoDispatch(r))
  <2>1. r.order.op = None
    BY <1>0, <1>3 DEF KnowsDispatch
  <2>2. q.pc = "record" /\ q.order.op = None /\ q.leaf = None /\ q.order.status = "invalid"
    BY <1>0, <1>1, <1>3, <2>1, OutcomeFields, OutcomeDetails
  <2> QED BY <1>q, <2>2, GivenUp
<1>4. CASE r.pc = "policy" /\ q = [r EXCEPT !.pc = "begin", !.order = d]
  <2>1. q.pc = "begin" /\ q.task = r.task /\ q.order = d /\ q.todo = r.todo /\ q.snap = r.snap
    BY <1>0, <1>4 DEF RunRec
  <2>2. d.deadline = r.order.deadline
    BY <1>1, <1>d DEF OrderRec
  <2>3. OrderIn(q) = OrderIn(r)
    BY <2>1 DEF OrderIn
  <2>4. KnowsDispatch(q)
    BY <1>0, <1>4, <2>1, <2>2, <2>3 DEF KnowsDispatch
  <2> QED BY <1>q, <2>1, <2>4 DEF Informed, KnowsAuthz, KnowsDerived, KnowsFields, KnowsResult,
                                  HoldsAuthz, HoldsCh, ValidationPC
<1>5. CASE q = [r EXCEPT !.pc = "reschedule"]
  <2>1. q.pc = "reschedule"
    BY <1>0, <1>5 DEF RunRec
  <2> QED BY SMT, <1>q, <2>1, NothingMore
<1> QED BY <1>2, <1>3, <1>4, <1>5

(* A run that calls the CA holds the recorded operation and deadline. *)
LEMMA CallerInformed ==
  ASSUME Agreed, NEW w \in Workers, run[w].pc \in {"issue", "await"}
  PROVE  LET r == run[w]
             o == OrderIn(r)
         IN  /\ o \in Orders /\ r.order \in OrderRec /\ r.order.op \in TaskIDs /\ r.order.op # None
             /\ order[o].op = r.order.op /\ r.order.deadline = order[o].deadline
<1>r. PICK r : r = run[w]
  OBVIOUS
<1>0. TypeInv /\ TypedRun(r) /\ KnowsOrder(r) /\ KnowsFields(r)
  BY <1>r DEF Agreed, Informed, Coherent, Knows, TypeInv
<1>1. r.pc \in HoldsOrder
  BY <1>r DEF HoldsOrder, IssuancePC
<1>2. OrderIn(r) \in Orders /\ r.order \in OrderRec
  BY <1>0, <1>1, <1>r, MoreTypes
<1>3. r.order.op \in TaskIDs
  BY <1>0, <1>r DEF TypedRun
<1>4. r.order.op # None
  BY <1>3, StoreAssumption
<1>5. order[OrderIn(r)].op = r.order.op /\ r.order.deadline = order[OrderIn(r)].deadline
  BY <1>0, <1>1, <1>r DEF KnowsOrder, KnowsFields
<1> QED BY <1>r, <1>2, <1>3, <1>4, <1>5

(* The CA's answer decides what is recorded. *)
LEMMA AnswersInformed ==
  ASSUME Agreed, TypeInv', NEW w \in Workers,
         AnswerIssued(w) \/ AnswerMuddled(w) \/ AnswerRejected(w) \/ AnswerPending(w)
  PROVE  Informed(run'[w])
<1>r. PICK r : r = run[w]
  OBVIOUS
<1>q. PICK q : q = run'[w]
  OBVIOUS
<1>l. PICK l : l = ca[r.order.op].leaf
  OBVIOUS
<1>o. PICK o : o = OrderIn(r)
  OBVIOUS
<1>0. /\ TypeInv /\ r \in RunRec
      /\ run \in [Workers -> RunRec] /\ run' \in [Workers -> RunRec]
  BY <1>r, RunFacts DEF Agreed, Coherent, TypeInv, TypeOK, WorkerTypeOK
<1>1. /\ r.pc = "await"
      /\ \/ ca[r.order.op].state = "issued" /\ q = Withhold(r)
         \/ ca[r.order.op].state = "issued" /\ l \notin BadLeaves /\ q = Publish(r, l)
         \/ ca[r.order.op].state = "rejected" /\ q = Fail(r)
         \/ q = [r EXCEPT !.pc = "reschedule"]
  BY <1>0, <1>r, <1>q, <1>l DEF AnswerIssued, AnswerMuddled, AnswerRejected, AnswerPending, Step
<1>2. /\ r.order \in OrderRec /\ r.order.op \in TaskIDs /\ r.order.op # None
      /\ order[o].op = r.order.op /\ r.order.deadline = order[o].deadline
  BY <1>1, <1>r, <1>o, CallerInformed
<1>3. ca[r.order.op].state = "issued" => l \in Leaves
  BY <1>2, <1>l DEF Agreed, ResultFollows
<1>4. CASE q = [r EXCEPT !.pc = "reschedule"]
  <2>1. q.pc = "reschedule"
    BY <1>0, <1>4 DEF RunRec
  <2> QED BY SMT, <1>q, <2>1, NothingMore
<1>5. ASSUME q \in {Fail(r), Withhold(r), Publish(r, l)}
      PROVE  /\ q.pc = "record" /\ q.order.op # None /\ q.order.op = r.order.op
             /\ order[OrderIn(q)].op = q.order.op /\ q.order.deadline = order[OrderIn(q)].deadline
  <2>0. q \in {Fail(r), Fail(NoDispatch(r)), Withhold(r), Publish(r, l)}
    BY <1>5
  <2> HIDE <1>5
  <2>1. q.pc = "record" /\ q.task = r.task /\ q.order.op = r.order.op
    BY SMT, <1>0, <1>2, <2>0, OutcomeFields
  <2>2. q.order.deadline = r.order.deadline
    <3>1. /\ Fail(r).order.deadline = r.order.deadline
          /\ Withhold(r).order.deadline = r.order.deadline
          /\ Publish(r, l).order.deadline = r.order.deadline
      BY SMT, <1>0, <1>2, OutcomeDetails
    <3> QED BY <1>5, <3>1
  <2>3. OrderIn(q) = o
    BY <1>o, <2>1 DEF OrderIn
  <2> QED BY <1>2, <2>1, <2>2, <2>3
<1>6. CASE ca[r.order.op].state = "issued" /\ q = Withhold(r)
  <2>1. q.leaf = None /\ q.order.status = "invalid" /\ q.order.unpublished
    BY <1>0, <1>2, <1>6, OutcomeDetails
  <2>2. KnowsResult(q)
    BY <1>5, <1>6, <2>1 DEF KnowsResult
  <2> QED BY <1>5, <1>6, <1>q, <2>2, Decided
<1>7. CASE ca[r.order.op].state = "issued" /\ l \notin BadLeaves /\ q = Publish(r, l)
  <2>0. Publish(r, l).leaf = l /\ Publish(r, l).order.status = "valid" /\ Publish(r, l).order.cert = l
    BY SMT, <1>0, <1>2, OutcomeDetails
  <2>1. q.leaf = l /\ q.order.status = "valid" /\ q.order.cert = l
    BY <1>7, <2>0
  <2>2. KnowsResult(q)
    BY <1>3, <1>5, <1>7, <1>l, <2>1 DEF KnowsResult
  <2> QED BY <1>5, <1>7, <1>q, <2>2, Decided
<1>8. CASE ca[r.order.op].state = "rejected" /\ q = Fail(r)
  <2>1. q.leaf = None /\ q.order.status = "invalid"
    BY <1>0, <1>2, <1>8, OutcomeDetails
  <2>2. KnowsResult(q)
    BY <1>5, <1>8, <2>1 DEF KnowsResult
  <2> QED BY <1>5, <1>8, <1>q, <2>2, Decided
<1> QED BY <1>1, <1>4, <1>6, <1>7, <1>8

(* A certificate that is stored already is withheld. *)
LEMMA RecordFailsInformed ==
  ASSUME Agreed, TypeInv', NEW w \in Workers, RecordFails(w)
  PROVE  Informed(run'[w])
<1>r. PICK r : r = run[w]
  OBVIOUS
<1>q. PICK q : q = run'[w]
  OBVIOUS
<1>0. /\ TypeInv /\ r \in RunRec /\ TypedRun(r) /\ KnowsOrder(r) /\ KnowsResult(r) /\ KnowsFields(r)
      /\ run \in [Workers -> RunRec] /\ run' \in [Workers -> RunRec]
  BY <1>r, RunFacts DEF Agreed, Informed, Coherent, Knows, TypeInv, TypeOK, WorkerTypeOK
<1>1. /\ r.pc = "record"
      /\ (r.leaf # None /\ q = Withhold(r)) \/ q = [r EXCEPT !.pc = "reschedule"]
  BY <1>0, <1>r, <1>q DEF RecordFails, Step
<1>2. r.order \in OrderRec /\ r.order.status \in Settled
  BY <1>0, <1>1 DEF TypedRun, KnowsOrder, HoldsOrder, IssuancePC
<1>3. CASE q = [r EXCEPT !.pc = "reschedule"]
  <2>1. q.pc = "reschedule"
    BY <1>0, <1>3 DEF RunRec
  <2> QED BY SMT, <1>q, <2>1, NothingMore
<1>4. CASE r.leaf # None /\ q = Withhold(r)
  <2>1. r.order.op # None /\ ca[r.order.op].state = "issued"
    BY <1>0, <1>1, <1>2, <1>4 DEF KnowsResult, Settled
  <2>2. order[OrderIn(r)].op = r.order.op /\ r.order.deadline = order[OrderIn(r)].deadline
    BY <1>0, <1>1, <2>1 DEF KnowsFields
  <2>3. q.pc = "record" /\ q.task = r.task /\ q.order.op = r.order.op
    BY <1>0, <1>2, <1>4, OutcomeFields
  <2>4. /\ q.leaf = None /\ q.order.status = "invalid" /\ q.order.unpublished
        /\ q.order.deadline = r.order.deadline
    BY <1>0, <1>2, <1>4, OutcomeDetails
  <2>5. OrderIn(q) = OrderIn(r)
    BY <2>3 DEF OrderIn
  <2>6. KnowsResult(q)
    BY <2>1, <2>3, <2>4 DEF KnowsResult
  <2> QED BY <1>q, <2>1, <2>2, <2>3, <2>4, <2>5, <2>6, Decided
<1> QED BY <1>1, <1>3, <1>4

-----------------------------------------------------------------------------
(* Each step of a worker has a shape and keeps Agreed. *)

(* A run that has just started, or ended, relies on none of this. *)
LEMMA FreshRunInformed ==
  ASSUME NEW w \in Workers, run'[w].pc \in {"idle", "reschedule", "finish", "challenge", "issuanceOrder"}
  PROVE  Informed(run[w])'
BY DEF Informed, KnowsAuthz, KnowsDerived, KnowsFields, KnowsDispatch, KnowsResult, HoldsAuthz, HoldsCh,
       ValidationPC

(* The steps that write nothing. *)
LEMMA SilentStepsAgree ==
  ASSUME Agreed, Coherent', NEW w \in Workers, WorkerSteps(w) \/ WorkerFaults(w),
         UNCHANGED ca,
         \/ ReadChallenge(w) \/ ReadAuthorization(w) \/ ReadAccount(w)
         \/ ValidateSucceeds(w) \/ ValidateRefuses(w) \/ ValidateErrs(w)
         \/ ReadOrder(w) \/ DeriveOrderStatus(w) \/ CommitValidationFails(w) \/ ReloadAuthorization(w)
         \/ ReadIssuanceOrder(w)
         \/ DispatchAccount(w) \/ Snapshot(w) \/ PolicyAllows(w) \/ PolicyRefuses(w)
         \/ PolicyErrs(w) \/ DispatchConflict(w)
         \/ AnswerIssued(w) \/ AnswerMuddled(w) \/ AnswerRejected(w) \/ AnswerPending(w)
         \/ RecordFails(w) \/ Crash(w) \/ CallFails(w)
  PROVE  Shape /\ Agreed'
<1>1. UNCHANGED storeVars
  BY DEF Local, Step, ReadChallenge, ReadAuthorization, ReadAccount, ValidateSucceeds, ValidateRefuses,
         ValidateErrs, ReadOrder, DeriveOrderStatus, CommitValidationFails, ReloadAuthorization,
         ReadIssuanceOrder, DispatchAccount, Snapshot, PolicyAllows, PolicyRefuses, PolicyErrs,
         DispatchConflict, AnswerIssued, AnswerMuddled, AnswerRejected, AnswerPending, RecordFails,
         Crash, CallFails
<1>2. TypeInv'
  BY DEF Coherent
<1>3. CASE Crash(w) \/ CallFails(w)
  <2>1. run \in [Workers -> RunRec]
    BY DEF Agreed, Coherent, TypeInv, TypeOK, WorkerTypeOK
  <2>2. run'[w].pc \in {"idle", "reschedule"}
    BY SMT, <1>3, <2>1 DEF Crash, CallFails, End, Goto, Idle, RunRec
  <2> QED BY SMT, <1>1, <2>2, NothingMore, SilentRunAgrees
<1> QED BY <1>1, <1>2, <1>3, SilentRunAgrees, ValidationReadsInformed, ReadOrderInformed, DeriveInformed,
           ReloadInformed, DispatchStartsInformed, SnapshotInformed, PolicyInformed, AnswersInformed,
           RecordFailsInformed

(* Claims and releases only move tasks. *)
LEMMA ClaimsAgree ==
  ASSUME Agreed, Coherent', NEW w \in Workers, WorkerSteps(w) \/ WorkerFaults(w), UNCHANGED ca,
         Claim(w) \/ ClaimLapsed(w) \/ Reschedule(w) \/ Finish(w)
  PROVE  Shape /\ Agreed'
<1>0. TypeInv /\ run \in [Workers -> RunRec] /\ TypedRun(run[w])
  BY DEF Agreed, Coherent, TypeInv, TypeOK, WorkerTypeOK
<1>1. CASE Claim(w) \/ ClaimLapsed(w)
  <2>1. PICK t \in TaskIDs : StartRun(w, t)
    BY <1>1 DEF Claim, ClaimLapsed
  <2>2. ClaimTask(t) /\ now' = now /\ UNCHANGED <<order, authz, ch, cert>> /\ ~FreshTask(t)
    BY <2>1 DEF StartRun, ClaimTask, Live, FreshTask
  <2>3. KeepsTasks
    BY <1>0, <2>2, ClaimType
  <2>4. run'[w].pc \in {"challenge", "issuanceOrder"}
    BY <1>0, <2>1 DEF StartRun, Idle
  <2>5. Shape /\ CAKeeps
    BY <2>2 DEF Shape, Quiet, CAKeeps
  <2>6. Informed(run[w])'
    BY SMT, <2>4, FreshRunInformed
  <2> QED BY <2>3, <2>5, <2>6, WorkerAgrees
<1>2. CASE Reschedule(w) \/ Finish(w)
  <2>1. run'[w].pc = "idle" /\ UNCHANGED <<order, authz, ch, cert>>
    BY SMT, <1>0, <1>2 DEF Reschedule, Finish, End, Idle, RescheduleTask, FinishTask, storeVars
  <2>2. run[w].task \in TaskIDs /\ ~FreshTask(run[w].task)
    BY <1>0, <1>2 DEF Reschedule, Finish, TypedRun
  <2>3. KeepsTasks
    <3>1. CASE UNCHANGED storeVars
      BY <1>0, <3>1, SameTasks DEF storeVars
    <3>2. CASE ~UNCHANGED storeVars
      <4>1. ReleaseTask(run[w].task) \/ RemoveTask(run[w].task)
        BY <1>2, <3>2 DEF Reschedule, Finish, RescheduleTask, FinishTask
      <4> QED BY <1>0, <2>2, <4>1, ReleaseType
    <3> QED BY <3>1, <3>2
  <2>4. Shape /\ CAKeeps
    BY <2>1 DEF Shape, Quiet, CAKeeps
  <2>5. Informed(run[w])'
    BY SMT, <2>1, FreshRunInformed
  <2> QED BY <2>3, <2>4, <2>5, WorkerAgrees
<1> QED BY <1>1, <1>2

(* A retry rewrites the challenge as it was. *)
LEMMA RetryAgrees ==
  ASSUME Agreed, Coherent', NEW w \in Workers, WorkerSteps(w) \/ WorkerFaults(w), UNCHANGED ca, RetryRun(w)
  PROVE  Shape /\ Agreed'
<1>r. PICK r : r = run[w]
  OBVIOUS
<1>0. /\ TypeInv /\ run \in [Workers -> RunRec]
      /\ r \in RunRec /\ TypedRun(r) /\ KnowsChallenge(r)
  BY <1>r DEF Agreed, Coherent, TypeInv, TypeOK, WorkerTypeOK, Knows
<1>1. r.pc = "retry"
  BY <1>r DEF RetryRun
<1>2. run'[w].pc \in {"idle", "reschedule"}
  BY SMT, <1>0 DEF RetryRun, End, Goto, Idle, RunRec
<1>3. CASE UNCHANGED storeVars
  BY SMT, <1>2, <1>3, NothingMore, SilentRunAgrees
<1>4. CASE RetryValidation(r.task, r.fence, Target(w), r.ch)
  <2>c. PICK c : c = task[r.task].target
    OBVIOUS
  <2>1. /\ r.task \in TaskIDs /\ ~FreshTask(r.task) /\ c \in Challenges /\ r.ch \in ChallengeRec
        /\ c = Target(w)
    BY <1>0, <1>1, <1>r, <2>c, RunFacts DEF TypedRun, ValidationPC, HoldsCh, Target
  <2>2. /\ ch[c].rev = r.ch.rev /\ ch' = [ch EXCEPT ![c] = Stored(r.ch)]
        /\ ReleaseTask(r.task) /\ UNCHANGED <<order, authz, cert>>
    BY <1>4, <2>1 DEF RetryValidation, CheckChallenge
  <2>3. ch[c].status = "processing" /\ r.ch.status = "processing"
    BY <1>0, <1>1, <2>2, <2>c DEF KnowsChallenge, HoldsCh, ValidationPC
  <2>4. ch \in [Challenges -> ChallengeRec] /\ Stored(r.ch).status = "processing"
    BY <1>0, <2>1, <2>3, StoredFields DEF TypeInv, TypeOK, StoreTypeOK
  <2>5. \A d \in Challenges : ch'[d].status = ch[d].status
    BY <2>1, <2>2, <2>3, <2>4
  <2>6. KeepsTasks
    BY <1>0, <2>1, <2>2, ReleaseType
  <2>7. Shape /\ CAKeeps
    BY <2>2, <2>5 DEF Shape, Quiet, CAKeeps
  <2>8. Informed(run[w])'
    BY SMT, <1>2, FreshRunInformed
  <2> QED BY <2>6, <2>7, <2>8, WorkerAgrees
<1> QED BY <1>3, <1>4, <1>r DEF RetryRun

(* The remaining fields of what a method stores. *)
LEMMA StoredMore ==
  /\ \A x \in AuthzRec :
       /\ Stored(x).rev = x.rev + 1 /\ Stored(x).status = x.status
       /\ Stored(x).expires = x.expires /\ Stored(x).grantExpires = x.grantExpires
  /\ \A x \in OrderRec :
       /\ Stored(x).deadline = x.deadline /\ Stored(x).cert = x.cert
       /\ Stored(x).unpublished = x.unpublished
BY DEF Stored, AuthzRec, OrderRec

(* CompleteValidation decides the authorization and derives the order. *)
LEMMA CommitDecides ==
  ASSUME Agreed, NEW w \in Workers, CommitValidation(w)
  PROVE  /\ Target(w) \in Challenges /\ Decides(Target(w))
         /\ KeepsTasks /\ run'[w].pc = "idle"
<1>r. PICK r : r = run[w]
  OBVIOUS
<1>c. PICK c : c = task[r.task].target
  OBVIOUS
<1>a. PICK a : a = AuthzIn(r)
  OBVIOUS
<1>o. PICK o : o = OrderIn(r)
  OBVIOUS
<1>0. /\ TypeInv /\ run \in [Workers -> RunRec] /\ r \in RunRec /\ TypedRun(r)
      /\ KnowsChallenge(r) /\ KnowsOrder(r) /\ KnowsAuthz(r) /\ KnowsDerived(r) /\ KnowsFields(r)
  BY <1>r DEF Agreed, Coherent, Informed, TypeInv, TypeOK, WorkerTypeOK, Knows
<1>1. /\ r.pc = "complete" /\ c = Target(w) /\ run'[w].pc = "idle"
      /\ CompleteValidation(r.task, r.fence, c, r.ch, r.authz, r.order)
  BY <1>0, <1>r, <1>c DEF CommitValidation, Target, End, Idle
<1>2. r.pc \in HoldsCh /\ r.pc \in HoldsAuthz /\ r.pc \in HoldsOrder
  BY <1>1 DEF HoldsCh, HoldsAuthz, HoldsOrder, ValidationPC
<1>3. /\ r.task \in TaskIDs /\ ~FreshTask(r.task) /\ c \in Challenges /\ r.ch \in ChallengeRec
      /\ r.authz \in AuthzRec /\ r.order \in OrderRec /\ a \in Authzs /\ o \in Orders
      /\ a = AuthzOf[c] /\ o = OrderOf[a]
  BY <1>0, <1>1, <1>2, <1>r, <1>c, <1>a, <1>o, RunFacts, MoreTypes DEF TypedRun, ValidationPC, AuthzIn
<1>4. /\ ch[c].rev = r.ch.rev /\ ch' = [ch EXCEPT ![c] = Stored(r.ch)]
      /\ authz[a].rev = r.authz.rev /\ authz' = [authz EXCEPT ![a] = Stored(r.authz)]
      /\ order[o].rev = r.order.rev /\ order' = [order EXCEPT ![o] = Stored(r.order)]
      /\ RemoveTask(r.task) /\ cert' = cert
  BY <1>1, <1>3 DEF CompleteValidation, ValidationCurrent, CheckChallenge, CheckAuthorization, CheckOrder
<1>5. /\ ch \in [Challenges -> ChallengeRec] /\ authz \in [Authzs -> AuthzRec]
      /\ order \in [Orders -> OrderRec] /\ r.authz.rev \in Nat /\ r.order.rev \in Nat
  BY <1>0, <1>3 DEF TypeInv, TypeOK, StoreTypeOK, AuthzRec, OrderRec
<1>6. /\ ch'[c].status = r.ch.status
      /\ \A d \in Challenges : d # c => ch'[d] = ch[d]
  BY <1>3, <1>4, <1>5, StoredFields
<1>7. /\ authz'[a].status = r.authz.status
      /\ authz'[a].expires = r.authz.expires /\ authz'[a].grantExpires = r.authz.grantExpires
      /\ \A b \in Authzs : b # a => authz'[b] = authz[b]
  BY <1>3, <1>4, <1>5, StoredMore
<1>8. /\ order'[o].status = r.order.status /\ order'[o].csr = r.order.csr /\ order'[o].op = r.order.op
      /\ order'[o].deadline = r.order.deadline /\ order'[o].cert = r.order.cert
      /\ order'[o].unpublished = r.order.unpublished
      /\ \A p \in Orders : p # o => order'[p] = order[p]
  BY <1>3, <1>4, <1>5, StoredFields, StoredMore
<1>9. authz[a].rev < authz'[a].rev /\ order[o].rev < order'[o].rev
  <2>1. authz'[a].rev = r.authz.rev + 1 /\ order'[o].rev = r.order.rev + 1
    BY <1>3, <1>4, <1>5, StoredFields, StoredMore
  <2> QED BY SMT, <1>4, <1>5, <2>1
<1>10. DecidesAuthz(c, a)
  <2>1. ch[c].status = "processing" /\ r.ch.status \in Settled
    BY <1>0, <1>1, <1>2, <1>4, <1>c DEF KnowsChallenge
  <2>2. \/ r.authz = authz[a]
        \/ authz[a].status = "pending" /\ r.authz.status \in {"pending", "valid", "invalid"}
    BY <1>0, <1>2, <1>4, <1>a DEF KnowsAuthz
  <2>3. r.ch.status = "valid" => r.authz.status = "valid" /\ authz[a].status = "pending"
    BY <1>0, <1>2, <1>4, <1>a DEF KnowsAuthz
  <2>4. r.ch.status = "invalid" => r.authz.status = authz[a].status \/ r.authz.status = "invalid"
    <3>1. r.ch.status # "valid" /\ r.authz.status \notin {"pending", "invalid"} => authz[a].status # "pending"
      BY <1>0, <1>2, <1>a DEF KnowsAuthz
    <3> QED BY <2>2, <3>1
  <2>5. authz[a].status = "pending" => r.authz.status \in {"pending", "valid", "invalid"}
    BY <2>2
  <2> QED BY <1>6, <1>7, <1>9, <2>1, <2>2, <2>3, <2>4, <2>5 DEF DecidesAuthz
<1>11. DecidesOrder(a, o)
  <2>1. FieldsKept(o)
    <3>1. r.order.csr = order[o].csr /\ r.order.op = order[o].op
      BY <1>0, <1>1, <1>2, <1>4, <1>o DEF KnowsOrder
    <3>2. /\ r.order.deadline = order[o].deadline
          /\ r.order.cert = order[o].cert /\ r.order.unpublished = order[o].unpublished
      BY <1>0, <1>1, <1>4, <1>o DEF KnowsFields
    <3> QED BY <1>8, <3>1, <3>2 DEF FieldsKept
  <2>2. \/ r.order.status = order[o].status
        \/ order[o].status = "pending" /\ r.order.status \in {"ready", "invalid"}
    BY <1>0, <1>1, <1>2, <1>4, <1>o DEF KnowsOrder, ValidationPC
  <2>3. \A b \in AuthzsOf(o) : Seen(r, b) = authz'[b].status
    <3> SUFFICES ASSUME NEW b \in AuthzsOf(o) PROVE Seen(r, b) = authz'[b].status
      OBVIOUS
    <3>1. b \in Authzs
      BY DEF AuthzsOf
    <3> QED BY <1>7, <1>a, <3>1 DEF Seen
  <2>4. order[o].status = "pending" =>
          /\ r.order.status = "ready" => \A b \in AuthzsOf(o) : authz'[b].status = "valid"
          /\ r.order.status = "pending" =>
               authz'[a].status \notin TerminalAuthz /\ \E b \in AuthzsOf(o) : authz'[b].status = "pending"
    <3>1. order[o].status = "pending" => Derived(r, o, r.order.status)
      BY <1>0, <1>1, <1>4, <1>o DEF KnowsDerived
    <3>2. \A b \in AuthzsOf(o) : b \in AuthzsOf(o) \ r.todo
      BY <1>0, <1>1 DEF KnowsDerived
    <3> QED BY <1>7, <2>3, <3>1, <3>2 DEF Derived
  <2> QED BY <1>8, <1>9, <2>1, <2>2, <2>4 DEF DecidesOrder
<1>12. KeepsTasks
  BY <1>0, <1>3, <1>4, ReleaseType
<1> QED BY <1>1, <1>3, <1>4, <1>10, <1>11, <1>12 DEF Decides

(* A validation that commits keeps the agreement. *)
LEMMA CommitAgrees ==
  ASSUME Agreed, Coherent', NEW w \in Workers, WorkerSteps(w) \/ WorkerFaults(w), UNCHANGED ca,
         CommitValidation(w)
  PROVE  Shape /\ Agreed'
<1>1. Shape /\ KeepsTasks /\ run'[w].pc = "idle"
  BY CommitDecides DEF Shape
<1>2. CAKeeps
  BY DEF CAKeeps
<1>3. Informed(run[w])'
  BY SMT, <1>1, FreshRunInformed
<1> QED BY <1>1, <1>2, <1>3, WorkerAgrees

(* BeginIssuance records a deadline that covers what it was decided from. *)
LEMMA DispatchAgrees ==
  ASSUME Agreed, Coherent', NEW w \in Workers, WorkerSteps(w) \/ WorkerFaults(w), StoreDispatch(w)
  PROVE  Shape /\ Agreed'
<1>r. PICK r : r = run[w]
  OBVIOUS
<1>o. PICK o : o = OrderIn(r)
  OBVIOUS
<1>p. PICK p : p = [r EXCEPT !.order = Stored(r.order)]
  OBVIOUS
<1>0. /\ TypeInv /\ run \in [Workers -> RunRec] /\ r \in RunRec /\ TypedRun(r) /\ KnowsOrder(r)
      /\ KnowsDispatch(r)
  BY <1>r DEF Agreed, Coherent, Informed, TypeInv, TypeOK, WorkerTypeOK, Knows
<1>1. r.pc = "begin" /\ ca' = ca /\ run'[w] = Request(p)
  BY <1>0, <1>r, <1>p DEF StoreDispatch
<1>2. /\ r.task \in TaskIDs /\ ~FreshTask(r.task) /\ r.order \in OrderRec /\ o \in Orders
      /\ task[r.task].kind = "issue" /\ task[r.task].target = o /\ o = Target(w)
  BY <1>0, <1>1, <1>r, <1>o, HeldTypes DEF TypedRun, IssuancePC, HoldsOrder, OrderIn, Target
<1>3. /\ order[o].rev = r.order.rev /\ order' = [order EXCEPT ![o] = Stored(r.order)]
      /\ order[o].status = "processing" /\ order[o].op = None /\ UNCHANGED <<authz, ch, task, cert>>
      /\ account.status = "valid" /\ \A a \in AuthzsOf(o) : authz[a].rev = r.snap[a].rev
  BY <1>r, <1>2 DEF StoreDispatch, BeginIssuance, DispatchCurrent, CheckOrder, CheckAuthorization
<1>4. r.order.csr = order[o].csr /\ r.order.op = r.task /\ r.order.status = "processing"
  BY <1>0, <1>1, <1>3, <1>o DEF KnowsOrder, HoldsOrder, IssuancePC
<1>5. /\ order \in [Orders -> OrderRec] /\ r.order.rev \in Nat /\ Stored(r.order) \in OrderRec
      /\ Stored(r.order).rev = r.order.rev + 1 /\ Stored(r.order).status = r.order.status
      /\ Stored(r.order).csr = r.order.csr /\ Stored(r.order).op = r.order.op
      /\ Stored(r.order).deadline = r.order.deadline
  BY <1>0, <1>2, StoredFields, StoredMore, StoredType DEF TypeInv, TypeOK, StoreTypeOK, OrderRec
<1>6. /\ order[o].rev < order'[o].rev /\ order'[o] = Stored(r.order) /\ order'[o].status = "processing"
      /\ order'[o].csr = order[o].csr /\ order'[o].op = r.task /\ order'[o].deadline = r.order.deadline
      /\ \A x \in Orders : x # o => order'[x] = order[x]
  BY SMT, <1>2, <1>3, <1>4, <1>5
<1>7. r.order.deadline <= OrderLifetime /\ \A a \in AuthzsOf(o) : Covers(r.order.deadline, authz[a])
  <2>1. r.order.deadline <= OrderLifetime /\ r.todo = {}
    BY <1>0, <1>1 DEF KnowsDispatch
  <2>2. ASSUME NEW a \in AuthzsOf(o) PROVE Covers(r.order.deadline, authz[a])
    BY <1>0, <1>1, <1>3, <1>o, <2>1 DEF KnowsDispatch
  <2> QED BY <2>1, <2>2
<1>8. Dispatches(o)
  <2>1. r.task # None
    BY <1>2, StoreAssumption
  <2> QED BY <1>3, <1>6, <1>7, <2>1 DEF Dispatches
<1>9. KeepsTasks
  BY <1>0, <1>3, SameTasks
<1>10. Shape /\ CAKeeps
  BY <1>1, <1>2, <1>8 DEF Shape, CAKeeps
<1>11. Informed(run[w])'
  <2>1. p \in RunRec /\ p.task = r.task /\ p.order = Stored(r.order)
    BY <1>0, <1>5, <1>p DEF RunRec
  <2>2. now \in Nat
    BY <1>0, RunFacts
  <2>3. run'[w].pc = "issue" /\ run'[w].task = r.task /\ run'[w].order = order'[o]
    <3>1. Request(p).pc = "issue" /\ Request(p).task = r.task /\ Request(p).order = Stored(r.order)
      BY <1>5, <2>1, <2>2, RequestType
    <3> QED BY <1>1, <1>6, <3>1
  <2>4. OrderIn(run[w])' = o
    BY <1>2, <1>3, <2>3 DEF OrderIn
  <2> QED BY <2>3, <2>4 DEF Informed, KnowsAuthz, KnowsDerived, KnowsFields, KnowsDispatch, KnowsResult,
                            HoldsAuthz, HoldsCh, ValidationPC
<1> QED BY <1>9, <1>10, <1>11, WorkerAgrees

(* CompleteIssuance settles the order with what the CA decided. *)
LEMMA RecordAgrees ==
  ASSUME Agreed, Coherent', NEW w \in Workers, WorkerSteps(w) \/ WorkerFaults(w), Record(w)
  PROVE  Shape /\ Agreed'
<1>r. PICK r : r = run[w]
  OBVIOUS
<1>o. PICK o : o = OrderIn(r)
  OBVIOUS
<1>0. /\ TypeInv /\ run \in [Workers -> RunRec] /\ r \in RunRec /\ TypedRun(r) /\ KnowsOrder(r)
      /\ KnowsFields(r) /\ KnowsResult(r)
  BY <1>r DEF Agreed, Coherent, Informed, TypeInv, TypeOK, WorkerTypeOK, Knows
<1>1. r.pc = "record" /\ ca' = ca /\ run'[w].pc = "idle"
  BY <1>0, <1>r DEF Record, End, Idle
<1>2. /\ r.task \in TaskIDs /\ ~FreshTask(r.task) /\ r.order \in OrderRec /\ o \in Orders
      /\ task[r.task].kind = "issue" /\ task[r.task].target = o /\ o = Target(w)
  BY <1>0, <1>1, <1>r, <1>o, HeldTypes DEF TypedRun, IssuancePC, HoldsOrder, OrderIn, Target
<1>3. /\ order[o].rev = r.order.rev /\ order' = [order EXCEPT ![o] = Stored(r.order)]
      /\ UNCHANGED <<authz, ch>> /\ RemoveTask(r.task)
      /\ r.leaf # None => cert[r.leaf] = None
      /\ cert' = IF r.leaf = None THEN cert ELSE [cert EXCEPT ![r.leaf] = o]
  BY <1>r, <1>2 DEF Record, CompleteIssuance, CheckOrder
<1>4. /\ r.order.csr = order[o].csr /\ r.order.op = order[o].op /\ r.order.status \in Settled
      /\ order[o].status = "processing"
  BY <1>0, <1>1, <1>3, <1>o DEF KnowsOrder, HoldsOrder, IssuancePC
<1>5. /\ order \in [Orders -> OrderRec] /\ r.order.rev \in Nat /\ cert \in [Leaves -> Orders \cup {None}]
  BY <1>0, <1>2 DEF TypeInv, TypeOK, StoreTypeOK, OrderRec
<1>6. /\ order'[o].rev = r.order.rev + 1 /\ order'[o].status = r.order.status
      /\ order'[o].csr = r.order.csr /\ order'[o].op = r.order.op
      /\ order'[o].deadline = r.order.deadline /\ order'[o].cert = r.order.cert
      /\ order'[o].unpublished = r.order.unpublished
      /\ \A x \in Orders : x # o => order'[x] = order[x]
  BY <1>2, <1>3, <1>5, StoredFields, StoredMore
<1>7. order[o].rev < order'[o].rev
  BY SMT, <1>3, <1>5, <1>6
<1>8. order[o].op # None => order'[o].deadline = order[o].deadline
  BY <1>0, <1>1, <1>4, <1>6, <1>o DEF KnowsFields
<1>9. ASSUME order'[o].status = "valid" PROVE Publishes(o)
  <2>1. /\ r.leaf \in Leaves \ BadLeaves /\ r.order.cert = r.leaf
        /\ order[o].op # None /\ ca[order[o].op].state = "issued" /\ ca[order[o].op].leaf = r.leaf
    BY <1>0, <1>1, <1>4, <1>6, <1>9 DEF KnowsResult
  <2>2. r.leaf # None
    BY <2>1, StoreAssumption
  <2>3. cert' = [cert EXCEPT ![r.leaf] = o] /\ cert[r.leaf] = None
    BY <1>3, <2>2
  <2>4. cert'[r.leaf] = o /\ \A k \in Leaves : k # r.leaf => cert'[k] = cert[k]
    BY <1>5, <2>1, <2>3
  <2> QED BY <1>6, <2>1, <2>3, <2>4 DEF Publishes
<1>10. ASSUME order'[o].status = "invalid" PROVE GivesUp(o)
  <2>1. /\ r.leaf = None
        /\ order[o].op # None => \/ ca[order[o].op].state = "rejected"
                                 \/ ca[order[o].op].state = "issued" /\ r.order.unpublished
    BY <1>0, <1>1, <1>4, <1>6, <1>10 DEF KnowsResult
  <2> QED BY <1>3, <1>6, <2>1 DEF GivesUp
<1>11. Settles(o)
  BY <1>3, <1>4, <1>6, <1>7, <1>8, <1>9, <1>10 DEF Settles
<1>12. KeepsTasks
  BY <1>0, <1>2, <1>3, ReleaseType
<1>13. Shape /\ CAKeeps
  BY <1>1, <1>2, <1>11 DEF Shape, CAKeeps
<1>14. Informed(run[w])'
  BY SMT, <1>1, FreshRunInformed
<1> QED BY <1>12, <1>13, <1>14, WorkerAgrees

(* The CA is told the deadline that the order recorded. *)
LEMMA IssueAgrees ==
  ASSUME Agreed, Coherent', NEW w \in Workers, WorkerSteps(w) \/ WorkerFaults(w), Issue(w)
  PROVE  Shape /\ Agreed'
<1>r. PICK r : r = run[w]
  OBVIOUS
<1>o. PICK o : o = OrderIn(r)
  OBVIOUS
<1>n. PICK n : n = r.order.op
  OBVIOUS
<1>0. /\ TypeInv /\ run \in [Workers -> RunRec] /\ r \in RunRec /\ ca \in [TaskIDs -> CARec]
      /\ UNCHANGED storeVars /\ r.pc = "issue"
  BY <1>r DEF Agreed, Coherent, TypeInv, TypeOK, WorkerTypeOK, IssuanceTypeOK, Issue
<1>1. o \in Orders /\ n \in TaskIDs /\ order[o].op = n /\ r.order.deadline = order[o].deadline
  BY <1>0, <1>r, <1>o, <1>n, CallerInformed
<1>2. \/ ca' = ca
      \/ /\ ca[n].state = "unknown"
         /\ \E s \in {"rejected", "open"} :
              ca' = [ca EXCEPT ![n] = [state |-> s, leaf |-> None, deadline |-> r.order.deadline]]
  <2>s. PICK s : s = IF r.recoveryOnly \/ r.order.deadline <= now THEN "rejected" ELSE "open"
    OBVIOUS
  <2>1. s \in {"rejected", "open"}
    BY <2>s
  <2>2. ca' = IF ca[n].state = "unknown"
              THEN [ca EXCEPT ![n] = [state |-> s, leaf |-> None, deadline |-> r.order.deadline]] ELSE ca
    BY <1>r, <1>n, <2>s DEF Issue
  <2> QED BY <2>1, <2>2
<1>3. CAKeeps
  <2>1. CASE ca' = ca
    BY <2>1 DEF CAKeeps
  <2>2. CASE ca' # ca
    <3>1. PICK s \in {"rejected", "open"} :
            ca' = [ca EXCEPT ![n] = [state |-> s, leaf |-> None, deadline |-> r.order.deadline]]
      BY <1>2, <2>2
    <3>2. ca'[n].state = s /\ ca'[n].deadline = r.order.deadline /\ ca[n].state = "unknown"
      BY <1>0, <1>1, <1>2, <2>2, <3>1
    <3>3. \A op \in TaskIDs : op # n => ca'[op] = ca[op]
      BY <1>0, <3>1
    <3>4. s # "issued" /\ s # "unknown"
      OBVIOUS
    <3> QED BY <1>1, <3>2, <3>3, <3>4 DEF CAKeeps
  <2> QED BY <2>1, <2>2
<1>4. Shape
  BY <1>0 DEF Shape, Quiet, storeVars
<1>5. KeepsTasks
  BY <1>0, SameTasks DEF storeVars
<1>6. Informed(run[w])'
  <2>1. run'[w] = [r EXCEPT !.pc = "await"]
    BY <1>0, <1>r DEF Issue, Goto
  <2>2. run'[w].pc = "await" /\ run'[w].order = r.order /\ run'[w].task = r.task
    BY <1>0, <2>1 DEF RunRec
  <2>3. OrderIn(run[w])' = o /\ order' = order
    BY <1>0, <1>o, <2>2 DEF OrderIn, storeVars
  <2> QED BY <1>1, <2>2, <2>3 DEF Informed, KnowsAuthz, KnowsDerived, KnowsFields, KnowsDispatch,
                                  KnowsResult, HoldsAuthz, HoldsCh, ValidationPC
<1> QED BY <1>3, <1>4, <1>5, <1>6, WorkerAgrees

(* Any step of a worker. *)
LEMMA WorkersAgree ==
  ASSUME Agreed, Coherent', NEW w \in Workers, WorkerSteps(w) \/ WorkerFaults(w)
  PROVE  Shape /\ Agreed'
<1>1. \/ /\ UNCHANGED ca
         /\ \/ Claim(w) \/ ClaimLapsed(w) \/ Reschedule(w) \/ Finish(w) \/ ValidationStep(w)
            \/ Crash(w) \/ CallFails(w) \/ ValidateErrs(w)
      \/ IssuanceStep(w) \/ PolicyErrs(w) \/ AnswerMuddled(w) \/ AnswerPending(w)
  BY DEF WorkerSteps, WorkerFaults
<1>2. CASE StoreDispatch(w) \/ Record(w) \/ Issue(w)
  BY <1>2, DispatchAgrees, RecordAgrees, IssueAgrees
<1>3. CASE /\ IssuanceStep(w) \/ PolicyErrs(w) \/ AnswerMuddled(w) \/ AnswerPending(w)
           /\ ~(StoreDispatch(w) \/ Record(w) \/ Issue(w))
  <2>1. UNCHANGED ca
    BY <1>3 DEF IssuanceStep, ReadIssuanceOrder, DispatchAccount, Snapshot, PolicyAllows, PolicyRefuses,
                DispatchConflict, AnswerIssued, AnswerRejected, RecordFails, PolicyErrs, AnswerMuddled,
                AnswerPending, Step
  <2> QED BY <1>3, <2>1, SilentStepsAgree DEF IssuanceStep
<1>4. CASE /\ UNCHANGED ca
           /\ \/ Claim(w) \/ ClaimLapsed(w) \/ Reschedule(w) \/ Finish(w) \/ ValidationStep(w)
              \/ Crash(w) \/ CallFails(w) \/ ValidateErrs(w)
  BY <1>4, ClaimsAgree, CommitAgrees, RetryAgrees, SilentStepsAgree DEF ValidationStep
<1> QED BY <1>1, <1>2, <1>3, <1>4
===============================================================================
