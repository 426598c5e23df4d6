---------------------------- MODULE LifecycleProofs ----------------------------
(***************************************************************************)
(* The order lifecycle agrees: like the steps of a worker, every step of a *)
(* request and of their surroundings has one of the shapes of              *)
(* AgreementProofs and keeps Agreed.  That statuses move legally, that a   *)
(* dispatch is current, that the CA signs in time and that the lifecycle   *)
(* implements OrderMachine follow from it.  The last part bounds the       *)
(* validations of an account by a count over tasks and requests, which     *)
(* rests on the types alone.                                               *)
(***************************************************************************)
EXTENDS AgreementProofs, FiniteSetTheorems

(* A leaf goes to Zenon unless it names another prover. *)
USE ZenonT(20)

-----------------------------------------------------------------------------
(* Requests. *)

(* The steps at which a request relies on none of this. *)
LEMMA RequestNothingMore ==
  ASSUME NEW r, r.pc \in {"idle", "signed", "respAuthz", "respCount", "respStore", "finReload"}
  PROVE  KnowsAuthzs(r)
BY DEF KnowsAuthzs

(* A request that just answered relies on none of this either. *)
LEMMA FreeInformed ==
  ASSUME NEW h \in Handlers, hand'[h].pc \in {"idle", "finReload"}
  PROVE  KnowsAuthzs(hand[h])'
BY DEF KnowsAuthzs

(* deactivateAuthorization holds the authorization it read. *)
LEMMA DeactivateInformed ==
  ASSUME Agreed, NEW h \in Handlers, NEW a \in Authzs, Deactivate(h, a)
  PROVE  KnowsAuthzs(hand'[h])
<1>q. PICK q : q = hand'[h]
  OBVIOUS
<1>0. TypeInv /\ hand \in [Handlers -> HandRec] /\ authz[a] \in AuthzRec /\ authz[a].rev \in Nat
  BY Tables DEF Agreed, Coherent, TypeInv, TypeOK, HandlerTypeOK
<1>1. authz[a].status \in {"pending", "valid"}
  <2>1. EffectiveAuthzStatus(authz[a], now) \in {"pending", "valid"}
    BY SMT DEF Deactivate, AuthzMoves
  <2> QED BY <2>1, EffectivelyOpen
<1>2. q.pc = "deactivate" /\ q.id = a /\ q.copy = [authz[a] EXCEPT !.status = "deactivated"]
  BY <1>0, <1>q DEF Deactivate, Move, Free
<1>3. /\ q.copy.status = "deactivated" /\ q.copy.rev = authz[a].rev
      /\ q.copy.expires = authz[a].expires /\ q.copy.grantExpires = authz[a].grantExpires
  BY <1>0, <1>2 DEF AuthzRec
<1>4. q.copy.rev <= authz[a].rev
  BY SMT, <1>0, <1>3
<1> QED BY <1>q, <1>1, <1>2, <1>3, <1>4 DEF KnowsAuthzs

(* serveFinalize knows the authorizations it has read so far to be valid    *)
(* as long as the order has not changed.                                    *)
LEMMA FinalizeInformed ==
  ASSUME Agreed, NEW h \in Handlers,
         \/ \E o \in Orders, csr \in CSRs : Finalize(h, o, csr)
         \/ FinalizeDerive(h) \/ FinalizeReload(h)
  PROVE  KnowsAuthzs(hand'[h])
<1>r. PICK r : r = hand[h]
  OBVIOUS
<1>q. PICK q : q = hand'[h]
  OBVIOUS
<1>0. /\ TypeInv /\ hand \in [Handlers -> HandRec] /\ r \in HandRec /\ TypedHand(r) /\ KnowsAuthzs(r)
      /\ authz \in [Authzs -> AuthzRec]
  BY <1>r, Tables DEF Agreed, Coherent, TypeInv, TypeOK, HandlerTypeOK
<1>1. ASSUME NEW o \in Orders, NEW csr \in CSRs, Finalize(h, o, csr) PROVE KnowsAuthzs(q)
  <2>1. \/ q = [Free EXCEPT !.pc = "finDerive", !.id = o, !.copy = order[o], !.csr = csr,
                            !.todo = AuthzsOf(o), !.status = "ready", !.at = now]
        \/ q = Free
    BY <1>0, <1>1, <1>q DEF Finalize, Acknowledge, Reply, Move
  <2>2. q.pc = "idle" \/ (q.pc = "finDerive" /\ q.id = o /\ q.todo = AuthzsOf(o))
    <3>1. CASE q = Free
      BY <3>1 DEF Free
    <3>2. CASE q # Free
      BY <2>1, <3>2 DEF Free
    <3> QED BY <3>1, <3>2
  <2> QED BY <2>2 DEF KnowsAuthzs
<1>2. CASE FinalizeReload(h)
  <2>0. Reply(h)
    BY <1>2 DEF FinalizeReload, Acknowledge
  <2>1. q.pc = "idle"
    BY <1>0, <1>q, <2>0 DEF Reply, Move, Free
  <2> QED BY <1>q, <2>1 DEF KnowsAuthzs
<1>3. CASE FinalizeDerive(h)
  <2>a. PICK a \in r.todo :
          LET status == Derive(r.status, EffectiveAuthzStatus(authz[a], r.at)) IN
          \/ Move(h, [r EXCEPT !.todo = @ \ {a}, !.status = status])
          \/ /\ status = "ready" /\ r.todo = {a}
             /\ Move(h, [r EXCEPT !.pc = "finStore", !.todo = {}, !.status = None, !.at = 0,
                                  !.copy.status = "processing", !.copy.csr = r.csr])
          \/ Move(h, Free)
    BY <1>3, <1>r DEF FinalizeDerive, Reply
  <2>s. PICK s : s = Derive(r.status, EffectiveAuthzStatus(authz[a], r.at))
    OBVIOUS
  <2>p. r.pc = "finDerive"
    BY <1>3, <1>r DEF FinalizeDerive
  <2>1. a \in Authzs /\ authz[a].status \in AuthzStatus
    BY <1>0 DEF HandRec, AuthzRec
  <2>2. EffectiveAuthzStatus(authz[a], r.at) \in AuthzStatus
    BY <2>1, EffectivelyOpen
  <2>3. \A x \in AuthzStatus : Derive(r.status, x) = "ready" => r.status = "ready" /\ x = "valid"
    BY DeriveMeans
  <2>4. s = "ready" => r.status = "ready" /\ authz[a].status = "valid"
    BY <2>s, <2>2, <2>3, EffectivelyOpen
  <2>5. \/ q = [r EXCEPT !.todo = @ \ {a}, !.status = s]
        \/ s = "ready" /\ r.todo = {a} /\
           q = [r EXCEPT !.pc = "finStore", !.todo = {}, !.status = None, !.at = 0,
                         !.copy.status = "processing", !.copy.csr = r.csr]
        \/ q = Free
    BY <1>0, <1>q, <2>a, <2>s DEF Move
  <2>6. r.status = "ready" /\ r.copy.rev = order[r.id].rev =>
          \A b \in AuthzsOf(r.id) \ r.todo : authz[b].status = "valid"
    BY <1>0, <2>p DEF KnowsAuthzs
  <2>7. CASE q = [r EXCEPT !.todo = @ \ {a}, !.status = s]
    <3>1. /\ q.pc = "finDerive" /\ q.id = r.id /\ q.copy = r.copy /\ q.todo = r.todo \ {a} /\ q.status = s
      BY <1>0, <2>p, <2>7 DEF HandRec
    <3> QED BY <1>q, <2>4, <2>6, <3>1 DEF KnowsAuthzs
  <2>8. CASE s = "ready" /\ r.todo = {a} /\
             q = [r EXCEPT !.pc = "finStore", !.todo = {}, !.status = None, !.at = 0,
                           !.copy.status = "processing", !.copy.csr = r.csr]
    <3>1. /\ q.pc = "finStore" /\ q.id = r.id /\ q.todo = {}
          /\ q.copy = [r.copy EXCEPT !.status = "processing", !.csr = r.csr]
      BY <1>0, <2>8 DEF HandRec
    <3>2. r.copy \in OrderRec
      BY <1>0, <2>p DEF TypedHand
    <3>3. q.copy.rev = r.copy.rev
      BY <3>1, <3>2 DEF OrderRec
    <3> QED BY <1>q, <2>4, <2>6, <2>8, <3>1, <3>3 DEF KnowsAuthzs
  <2>9. CASE q = Free
    <3>1. q.pc = "idle"
      BY <2>9 DEF Free
    <3> QED BY <1>q, <3>1 DEF KnowsAuthzs
  <2> QED BY <2>5, <2>7, <2>8, <2>9
<1> QED BY <1>q, <1>1, <1>2, <1>3


(* The steps of a request that leave the store alone. *)
LEMMA SilentRequestsAgree ==
  ASSUME Agreed, Coherent', NEW h \in Handlers, UNCHANGED <<run, ca>>,
         \/ Authenticate(h) \/ Answer(h)
         \/ \E c \in Challenges : Respond(h, c)
         \/ RespondAuthorization(h) \/ RespondCount(h)
         \/ \E a \in Authzs : Deactivate(h, a)
         \/ \E o \in Orders, csr \in CSRs : Finalize(h, o, csr)
         \/ FinalizeDerive(h) \/ FinalizeReload(h)
  PROVE  Shape /\ Agreed'
<1>r. PICK r : r = hand[h]
  OBVIOUS
<1>0. hand \in [Handlers -> HandRec] /\ r \in HandRec
  BY <1>r DEF Agreed, Coherent, TypeInv, TypeOK, HandlerTypeOK
<1>1. UNCHANGED storeVars
  BY DEF Authenticate, Answer, Respond, RespondAuthorization, RespondCount, Deactivate, Finalize,
         FinalizeDerive, FinalizeReload, Reading
<1>2. PICK q : Move(h, q)
  BY DEF Authenticate, Answer, Respond, RespondAuthorization, RespondCount, Deactivate, Finalize,
         FinalizeDerive, FinalizeReload, Acknowledge, Reply
<1>3. KnowsAuthzs(hand'[h])
  <2>1. CASE Authenticate(h) \/ Answer(h) \/ \E c \in Challenges : Respond(h, c)
    <3>1. hand'[h].pc \in {"idle", "signed", "respAuthz"}
      <4>1. CASE Authenticate(h)
        BY <1>0, <4>1 DEF Authenticate, Move, Free
      <4>2. CASE Answer(h)
        <5>1. hand'[h] = Free
          BY <1>0, <4>2 DEF Answer, Reply, Move
        <5> QED BY <5>1, FreeIdle
      <4>3. ASSUME NEW c \in Challenges, Respond(h, c) PROVE hand'[h].pc = "respAuthz"
        BY <1>0, <4>3 DEF Respond, Move, Free
      <4> QED BY <2>1, <4>1, <4>2, <4>3
    <3> QED BY SMT, <3>1, RequestNothingMore
  <2>2. CASE RespondAuthorization(h) \/ RespondCount(h)
    <3>1. \/ hand'[h] = [r EXCEPT !.pc = "respCount"]
          \/ hand'[h] = [r EXCEPT !.pc = "respStore", !.copy.status = "processing"]
          \/ hand'[h] = Free
      BY <1>0, <1>r, <2>2 DEF RespondAuthorization, RespondCount, Reply, Move
    <3>2. hand'[h].pc \in {"idle", "respCount", "respStore"}
      <4>1. hand'[h] = Free => hand'[h].pc = "idle"
        BY FreeIdle
      <4>2. hand'[h] # Free => hand'[h].pc \in {"respCount", "respStore"}
        BY <1>0, <3>1 DEF HandRec
      <4> QED BY <4>1, <4>2
    <3> QED BY SMT, <3>2, RequestNothingMore
  <2> QED BY <2>1, <2>2, DeactivateInformed, FinalizeInformed
<1> QED BY <1>1, <1>2, <1>3, SilentRequestAgrees

(* acceptChallenge's commit. *)
LEMMA RespondAgrees ==
  ASSUME Agreed, Coherent', NEW h \in Handlers, UNCHANGED <<run, ca>>, RespondStore(h)
  PROVE  Shape /\ Agreed'
<1>r. PICK r : r = hand[h]
  OBVIOUS
<1>0. /\ TypeInv /\ hand \in [Handlers -> HandRec] /\ TypedHand(r) /\ KnowsRequest(r)
      /\ r.pc = "respStore" /\ Move(h, Free) /\ ch \in [Challenges -> ChallengeRec]
  BY <1>r, Tables DEF Agreed, Coherent, TypeInv, TypeOK, HandlerTypeOK, RespondStore, Reply
<1>1. hand'[h] = Free
  BY <1>0 DEF Move
<1>2. hand'[h].pc = "idle"
  BY <1>1, FreeIdle
<1>3. CASE UNCHANGED storeVars
  <2>1. KnowsAuthzs(hand'[h])
    BY SMT, <1>2, RequestNothingMore
  <2> QED BY <1>0, <1>3, <2>1, SilentRequestAgrees
<1>4. CASE AcceptChallenge(r.id, r.copy)
  <2>c. PICK c \in Challenges : c = r.id
    BY <1>0 DEF TypedHand
  <2>1. /\ r.copy \in ChallengeRec /\ ch[c].status = "pending" /\ r.copy.status = "processing"
    BY <1>0, <1>4, <2>c DEF TypedHand, AcceptChallenge, CheckChallenge, KnowsRequest
  <2>2. UNCHANGED <<order, authz, cert>> /\ InsertTask("validate", c)
    BY <1>4, <2>c DEF AcceptChallenge
  <2>3. ch'[c].status = "processing" /\ \A d \in Challenges : d # c => ch'[d] = ch[d]
    BY <1>0, <1>4, <2>c, <2>1 DEF AcceptChallenge, Stored, ChallengeRec
  <2>4. Shape
    BY <2>1, <2>2, <2>3 DEF Shape, Responds
  <2>5. KeepsTasks
    BY SMT, <1>0, <2>2, InsertType
  <2>6. KnowsAuthzs(hand[h])'
    BY SMT, <1>2, FreeInformed
  <2> QED BY <1>0, <2>4, <2>5, <2>6, RequestAgrees
<1> QED BY <1>r, <1>3, <1>4 DEF RespondStore

(* serveFinalize's commit: the revision it passes vouches for the          *)
(* authorizations it read, so the order it finalizes is ready.             *)
LEMMA FinalizeAgrees ==
  ASSUME Agreed, Coherent', NEW h \in Handlers, UNCHANGED <<run, ca>>, FinalizeStore(h)
  PROVE  Shape /\ Agreed'
<1>r. PICK r : r = hand[h]
  OBVIOUS
<1>0. /\ TypeInv /\ hand \in [Handlers -> HandRec] /\ r \in HandRec /\ TypedHand(r) /\ KnowsRequest(r)
      /\ KnowsAuthzs(r) /\ OrderAgrees /\ OrderFollowsStatus
      /\ r.pc = "finStore" /\ order \in [Orders -> OrderRec]
  BY <1>r, Tables DEF Agreed, Coherent, TypeInv, TypeOK, HandlerTypeOK, FinalizeStore
<1>1. CASE Move(h, [r EXCEPT !.pc = "finReload", !.copy = None]) /\ UNCHANGED storeVars
  <2>1. hand'[h].pc = "finReload"
    BY <1>0, <1>1 DEF Move, HandRec
  <2>2. KnowsAuthzs(hand'[h])
    BY SMT, <2>1, RequestNothingMore
  <2> QED BY <1>1, <2>2, SilentRequestAgrees
<1>2. CASE FinalizeOrder(r.id, r.copy) /\ Acknowledge(h, r.id, r.csr)
  <2>o. PICK o \in Orders : o = r.id
    BY <1>0 DEF TypedHand
  <2>1. /\ r.copy \in OrderRec /\ order[o].rev = r.copy.rev /\ order[o].status \in Open
        /\ r.copy.status = "processing" /\ r.copy.csr = r.csr /\ r.copy.op = None /\ r.csr \in CSRs
    BY <1>0, <1>2, <2>o DEF TypedHand, FinalizeOrder, CheckOrder, KnowsRequest
  <2>2. \A b \in AuthzsOf(o) : authz[b].status = "valid"
    BY <1>0, <2>o, <2>1 DEF KnowsAuthzs
  <2>3. order[o].status = "ready" /\ order[o].csr = None /\ order[o].op = None
    BY <1>0, <2>1, <2>2 DEF OrderAgrees, OrderFollowsStatus, Open
  <2>4. UNCHANGED <<ch, authz, cert>> /\ InsertTask("issue", o)
    BY <1>2, <2>o DEF FinalizeOrder
  <2>5. /\ order'[o].rev = r.copy.rev + 1 /\ order'[o].status = "processing"
        /\ order'[o].csr = r.csr /\ order'[o].op = None
        /\ \A p \in Orders : p # o => order'[p] = order[p]
    BY <1>0, <1>2, <2>o, <2>1 DEF FinalizeOrder, Stored, OrderRec
  <2>6. order[o].rev < order'[o].rev
    BY SMT, <1>0, <2>1, <2>5, Tables
  <2>7. Shape
    BY <2>1, <2>3, <2>4, <2>5, <2>6 DEF Shape, Finalizes
  <2>8. KeepsTasks
    BY SMT, <1>0, <2>4, InsertType
  <2>9. Move(h, Free) /\ hand'[h].pc = "idle"
    BY <1>0, <1>2 DEF Acknowledge, Reply, Move, Free
  <2>10. KnowsAuthzs(hand[h])'
    BY SMT, <2>9, FreeInformed
  <2> QED BY <2>7, <2>8, <2>9, <2>10, RequestAgrees
<1> QED BY <1>r, <1>1, <1>2 DEF FinalizeStore


(* deactivateAuthorization's commit: what passes its revision was pending   *)
(* or valid, and the order goes with it unless it was dispatched.           *)
LEMMA DeactivateAgrees ==
  ASSUME Agreed, Coherent', NEW h \in Handlers, UNCHANGED <<run, ca>>, DeactivateStore(h)
  PROVE  Shape /\ Agreed'
<1>r. PICK r : r = hand[h]
  OBVIOUS
<1>0. /\ TypeInv /\ hand \in [Handlers -> HandRec] /\ TypedHand(r) /\ KnowsAuthzs(r)
      /\ r.pc = "deactivate" /\ Move(h, Free)
      /\ authz \in [Authzs -> AuthzRec] /\ order \in [Orders -> OrderRec]
  BY <1>r, Tables DEF Agreed, Coherent, TypeInv, TypeOK, HandlerTypeOK, DeactivateStore, Reply
<1>1. hand'[h] = Free
  BY <1>0 DEF Move
<1>2. hand'[h].pc = "idle"
  BY <1>1, FreeIdle
<1>3. CASE UNCHANGED storeVars
  <2>1. KnowsAuthzs(hand'[h])
    BY SMT, <1>2, RequestNothingMore
  <2> QED BY <1>0, <1>3, <2>1, SilentRequestAgrees
<1>4. CASE UpdateAuthorization(r.id, r.copy)
  <2>a. PICK a \in Authzs : a = r.id
    BY <1>0 DEF TypedHand
  <2>o. PICK o \in Orders : o = OrderOf[a]
    BY Parents
  <2>1. /\ r.copy \in AuthzRec /\ r.copy.rev = authz[a].rev /\ r.copy.status = "deactivated"
        /\ authz[a].status \in {"pending", "valid"}
        /\ r.copy.expires = authz[a].expires /\ r.copy.grantExpires = authz[a].grantExpires
    BY <1>0, <1>4, <2>a DEF TypedHand, UpdateAuthorization, CheckAuthorization, KnowsAuthzs
  <2>2. /\ authz' = [authz EXCEPT ![a] = Stored(r.copy)] /\ UNCHANGED <<ch, task, cert>>
        /\ Undispatched(o) => order' = [order EXCEPT ![o].status = "invalid", ![o].rev = @ + 1]
        /\ ~Undispatched(o) => order' = order
    BY <1>4, <2>a, <2>o, <2>1 DEF UpdateAuthorization, TerminalAuthz
  <2>3. /\ authz'[a].rev = authz[a].rev + 1 /\ authz'[a].status = "deactivated"
        /\ authz'[a].expires = authz[a].expires /\ authz'[a].grantExpires = authz[a].grantExpires
        /\ \A b \in Authzs : b # a => authz'[b] = authz[b]
    BY <1>0, <2>1, <2>2 DEF Stored, AuthzRec
  <2>4. authz[a].rev < authz'[a].rev
    BY SMT, <1>0, <2>3, Tables
  <2>5. /\ \A p \in Orders : p # o => order'[p] = order[p]
        /\ Undispatched(o) =>
             order'[o].status = "invalid" /\ FieldsKept(o) /\ order[o].rev < order'[o].rev
        /\ ~Undispatched(o) => order'[o] = order[o]
    <3>1. CASE ~Undispatched(o)
      BY <2>2, <3>1
    <3>2. CASE Undispatched(o)
      <4>1. \A p \in Orders : p # o => order'[p] = order[p]
        BY <1>0, <2>2, <3>2
      <4>2. order'[o] = [order[o] EXCEPT !.status = "invalid", !.rev = @ + 1]
        BY <1>0, <2>2, <3>2
      <4>3. order'[o].status = "invalid" /\ FieldsKept(o) /\ order'[o].rev = order[o].rev + 1
        BY <1>0, <4>2 DEF OrderRec, FieldsKept
      <4>4. order[o].rev < order'[o].rev
        BY SMT, <1>0, <4>3, Tables
      <4> QED BY <3>2, <4>1, <4>3, <4>4
    <3> QED BY <3>1, <3>2
  <2>6. Deactivates(a)
    BY <2>o, <2>1, <2>2, <2>3, <2>4, <2>5 DEF Deactivates
  <2>7. Shape /\ KeepsTasks
    BY <1>0, <2>2, <2>6, SameTasks DEF Shape
  <2>8. KnowsAuthzs(hand[h])'
    BY SMT, <1>2, FreeInformed
  <2> QED BY <1>0, <2>7, <2>8, RequestAgrees
<1> QED BY <1>r, <1>3, <1>4 DEF DeactivateStore

(* An account update touches no order. *)
LEMMA AccountAgrees ==
  ASSUME Agreed, Coherent', NEW h \in Handlers, UNCHANGED <<run, ca>>,
         NEW status, ChangeAccount(h, status)
  PROVE  Shape /\ Agreed'
<1>0. TypeInv /\ hand \in [Handlers -> HandRec] /\ Move(h, Free) /\ UNCHANGED <<order, authz, ch, task, cert>>
  BY DEF Agreed, Coherent, TypeInv, TypeOK, HandlerTypeOK, ChangeAccount, Reply, UpdateAccount, storeVars
<1>1. hand'[h] = Free
  BY <1>0 DEF Move
<1>2. hand'[h].pc = "idle"
  BY <1>1, FreeIdle
<1>3. Shape /\ KeepsTasks
  BY <1>0, SameTasks DEF Shape, Quiet
<1>4. KnowsAuthzs(hand[h])'
  BY SMT, <1>2, FreeInformed
<1> QED BY <1>0, <1>3, <1>4, RequestAgrees

(* Any step of a request. *)
LEMMA RequestsAgree ==
  ASSUME Agreed, Coherent', NEW h \in Handlers, HandlerStep(h), UNCHANGED <<run, ca>>
  PROVE  Shape /\ Agreed'
BY SilentRequestsAgree, RespondAgrees, FinalizeAgrees, DeactivateAgrees, AccountAgrees DEF HandlerStep

-----------------------------------------------------------------------------
(* The CA decides an open operation once, and keeps its deadline. *)
LEMMA CAAgrees ==
  ASSUME Agreed, Coherent', NEW op \in TaskIDs, CAStep(op)
  PROVE  Shape /\ Agreed'
<1>0. ca \in [TaskIDs -> CARec] /\ ca[op].state = "open" /\ UNCHANGED <<storeVars, run, hand, acked>>
  BY Tables DEF Agreed, Coherent, CAStep, CASigns, CARejects
<1>1. \A x \in TaskIDs : x # op => ca'[x] = ca[x]
  BY <1>0 DEF CAStep, CASigns, CARejects
<1>2. /\ ca'[op].deadline = ca[op].deadline
      /\ ca'[op].state = "issued" => ca'[op].leaf \in Leaves
  <2>1. CASE CASigns(op)
    <3>1. PICK l \in Leaves : ca' = [ca EXCEPT ![op].state = "issued", ![op].leaf = l]
      BY <2>1 DEF CASigns
    <3>2. ca'[op] = [ca[op] EXCEPT !.state = "issued", !.leaf = l]
      BY <1>0, <3>1
    <3> QED BY <1>0, <3>2 DEF CARec
  <2>2. CASE CARejects(op)
    <3>1. ca'[op] = [ca[op] EXCEPT !.state = "rejected"]
      BY <1>0, <2>2 DEF CARejects
    <3>2. ca'[op].state = "rejected" /\ ca'[op].deadline = ca[op].deadline
      BY <1>0, <3>1 DEF CARec
    <3> QED BY <3>2
  <2> QED BY <2>1, <2>2 DEF CAStep
<1>3. CAKeeps
  BY <1>0, <1>1, <1>2 DEF CAKeeps
<1> QED BY <1>0, <1>3, SurroundingsAgree

(* At the start an order is ready when all its authorizations were         *)
(* pre-approved, and pending otherwise.                                    *)
LEMMA AgreedStart ==
  ASSUME Init, Coherent
  PROVE  Agreed
<1>2. ASSUME NEW w \in Workers PROVE Informed(run[w])
  <2>1. run[w].pc = "idle"
    BY DEF Init, WorkerInit, Idle
  <2> QED BY SMT, <2>1, NothingMore
<1>3. ASSUME NEW h \in Handlers PROVE KnowsAuthzs(hand[h])
  <2>1. hand[h] = Free
    BY DEF Init, HandlerInit
  <2>2. hand[h].pc = "idle"
    BY <2>1, FreeIdle
  <2> QED BY SMT, <2>2, RequestNothingMore
<1>4. \A a \in Authzs : authz[a].status = IF a \in PreApproved THEN "valid" ELSE "pending"
  BY DEF Init, StoreInit, NewAuthz
<1>5. ASSUME NEW o \in Orders
      PROVE  /\ order[o].status = IF AuthzsOf(o) \subseteq PreApproved THEN "ready" ELSE "pending"
             /\ order[o].op = None
  BY DEF Init, StoreInit, NewOrder
<1>6. OrderAgrees
  BY <1>4, <1>5 DEF OrderAgrees, AuthzsOf, TerminalAuthz
<1>7. \A c \in Challenges : ch[c].status = "pending"
  BY DEF Init, StoreInit
<1>8. EvidenceExists
  BY <1>4, <1>7 DEF EvidenceExists, HasEvidence
<1>9. \A op \in TaskIDs : ca[op].state = "unknown"
  BY DEF Init, CAInit
<1>10. DeadlineCovers
  BY <1>5, <1>9 DEF DeadlineCovers
<1>11. ResultFollows
  <2>1. \A l \in Leaves : cert[l] = None
    BY DEF Init, StoreInit
  <2>2. None \notin Orders
    BY StoreAssumption
  <2> QED BY <1>5, <1>9, <2>1, <2>2 DEF ResultFollows, SettledWithCA
<1> QED BY <1>2, <1>3, <1>6, <1>8, <1>10, <1>11 DEF Agreed

(* Every step has one of the shapes, and none breaks Agreed. *)
LEMMA AgreedStep ==
  ASSUME Agreed, Coherent', [Next]_vars
  PROVE  Shape /\ Agreed'
<1>1. ASSUME NEW w \in Workers, WorkerSteps(w) \/ WorkerFaults(w) PROVE Shape /\ Agreed'
  BY <1>1, WorkersAgree
<1>2. ASSUME NEW h \in Handlers, HandlerStep(h) /\ UNCHANGED <<run, faults, ca>> PROVE Shape /\ Agreed'
  BY <1>2, RequestsAgree
<1>3. ASSUME NEW op \in TaskIDs, CAStep(op) PROVE Shape /\ Agreed'
  BY <1>3, CAAgrees
<1>4. CASE Tick \/ UNCHANGED vars
  <2>1. UNCHANGED <<storeVars, run, hand, acked>> /\ CAKeeps
    BY <1>4 DEF Tick, vars, storeVars, CAKeeps
  <2> QED BY <2>1, SurroundingsAgree
<1> QED BY <1>1, <1>2, <1>3, <1>4 DEF Next, Rest

-----------------------------------------------------------------------------
(* No step of the lifecycle breaks Agreed, and each has one of the shapes. *)
LEMMA AgreedMove ==
  ASSUME Agreed, [Next]_vars
  PROVE  Shape /\ Agreed'
<1>1. Coherent'
  BY CoherentStep DEF Agreed
<1> QED BY <1>1, AgreedStep

(* Agreed is an invariant: stored orders, authorizations, challenges and   *)
(* certificates agree, and a run or request whose copies are of the        *)
(* current revision knows what is stored.                                  *)
THEOREM Agreement == Spec => []Agreed
<1>1. Init => Agreed
  BY AgreedStart, CoherentStart
<1>2. Agreed /\ [Next]_vars => Agreed'
  BY AgreedMove
<1> QED BY <1>1, <1>2, PTL DEF Spec

(* The stored order agrees with its stored authorizations at every moment, *)
(* however the reads of concurrent validations, finalizations and          *)
(* deactivations interleave (completeValidation, serveFinalize,            *)
(* UpdateAuthorization).                                                   *)
THEOREM OrdersAgreeWithAuthzs == Spec => []OrderAgrees
<1>1. Agreed => OrderAgrees
  BY DEF Agreed
<1> QED BY <1>1, Agreement, PTL

(* validationEvidence finds a successful challenge behind every valid      *)
(* authorization that was not pre-approved.                                *)
THEOREM ValidMeansProved == Spec => []EvidenceExists
<1>1. Agreed => EvidenceExists
  BY DEF Agreed
<1> QED BY <1>1, Agreement, PTL

(* Every certificate the CA signed is published by its order, withheld on  *)
(* it, or still to be fetched by its task; nothing else is published       *)
(* (recordIssuedResult, failOrder).                                        *)
THEOREM NoResultLost == Spec => []ResultRetained
<1>1. Agreed => ResultRetained
  <2> SUFFICES ASSUME Agreed, NEW o \in Orders
               PROVE  /\ order[o].op # None /\ ca[order[o].op].state = "issued" =>
                           \/ order[o].status = "processing"
                           \/ order[o].status = "valid" /\ order[o].cert = ca[order[o].op].leaf
                           \/ order[o].status = "invalid" /\ order[o].unpublished
                      /\ order[o].status = "valid" <=> \E l \in Leaves : cert[l] = o
                      /\ \A l \in Leaves : cert[l] = o =>
                           /\ order[o].op # None /\ order[o].cert = l
                           /\ ca[order[o].op].leaf = l /\ l \notin BadLeaves
    BY DEF ResultRetained
  <2>1. SettledWithCA(o)
    BY DEF Agreed, ResultFollows
  <2> QED BY <2>1 DEF SettledWithCA
<1> QED BY <1>1, Agreement, PTL

(* An order is dispatched only while its account and all its               *)
(* authorizations are valid, and proved, at that very step                 *)
(* (BeginIssuance), not merely when the worker read them.                  *)
THEOREM DispatchesAreCurrent == Spec => DispatchIsCurrent
<1> DEFINE Current ==
      \A o \in Orders : order[o].op = None /\ order'[o].op # None =>
        /\ account.status = "valid"
        /\ \A a \in AuthzsOf(o) : authz[a].status = "valid" /\ HasEvidence(a)
<1>1. Agreed /\ [Next]_vars => [Current]_vars
  <2> SUFFICES ASSUME Agreed, [Next]_vars, NEW o \in Orders, order[o].op = None, order'[o].op # None
               PROVE  /\ account.status = "valid"
                      /\ \A a \in AuthzsOf(o) : authz[a].status = "valid" /\ HasEvidence(a)
    BY DEF Current
  <2>1. Dispatches(o)
    BY AgreedMove, OnlyDispatches
  <2>2. account.status = "valid" /\ \A a \in AuthzsOf(o) : authz[a].status = "valid"
    BY <2>1 DEF Agreed, OrderAgrees, Dispatches
  <2>3. \A a \in AuthzsOf(o) : HasEvidence(a)
    BY <2>2, Parents DEF Agreed, EvidenceExists
  <2> QED BY <2>2, <2>3
<1>2. Spec => [][Current]_vars
  BY <1>1, Agreement, PTL DEF Spec
<1> QED BY <1>2 DEF DispatchIsCurrent

(* The CA comes to hold a certificate only by signing one. *)
LEMMA OnlySigns ==
  ASSUME Agreed, [Next]_vars, NEW op \in TaskIDs, ca[op].state # "issued", ca'[op].state = "issued"
  PROVE  CASigns(op)
<1>0. ca \in [TaskIDs -> CARec] /\ ca' # ca
  BY Tables DEF Agreed, Coherent
<1>1. ASSUME NEW w \in Workers, WorkerSteps(w) \/ WorkerFaults(w) PROVE FALSE
  <2>1. Issue(w)
    BY <1>0, <1>1 DEF WorkerSteps, WorkerFaults, IssuanceStep, ReadIssuanceOrder, DispatchAccount, Snapshot,
         PolicyAllows, PolicyRefuses, StoreDispatch, DispatchConflict, AnswerIssued, AnswerRejected, Record,
         RecordFails, PolicyErrs, AnswerMuddled, AnswerPending, Step
  <2>s. PICK s : s = IF run[w].recoveryOnly \/ run[w].order.deadline <= now THEN "rejected" ELSE "open"
    OBVIOUS
  <2>2. s # "issued"
    BY <2>s
  <2>3. PICK n : ca' = [ca EXCEPT ![n] = [state |-> s, leaf |-> None, deadline |-> run[w].order.deadline]]
    BY <1>0, <2>1, <2>s DEF Issue
  <2>4. ca'[op].state = s \/ ca'[op] = ca[op]
    BY <1>0, <2>3
  <2> QED BY <2>2, <2>4
<1>2. PICK x \in TaskIDs : CAStep(x)
  BY <1>0, <1>1 DEF Next, Tick, Rest, vars
<1>3. x = op
  BY <1>0, <1>2 DEF CAStep, CASigns, CARejects
<1>4. ~CARejects(op)
  <2>1. CARejects(op) => ca'[op] = [ca[op] EXCEPT !.state = "rejected"]
    BY <1>0 DEF CARejects
  <2>2. [ca[op] EXCEPT !.state = "rejected"].state = "rejected"
    BY <1>0 DEF CARec
  <2> QED BY <2>1, <2>2
<1> QED BY <1>2, <1>3, <1>4 DEF CAStep

(* The CA never signs once the order, one of its authorizations or an      *)
(* authority token has expired: the deadline recorded at dispatch covers   *)
(* them all, and every later attempt carries the recorded one.             *)
THEOREM SigningIsInTime == Spec => SignsInTime
<1> DEFINE InTime ==
      \A op \in TaskIDs : ca[op].state # "issued" /\ ca'[op].state = "issued" =>
        LET o == task[op].target IN
        /\ now < OrderLifetime
        /\ \A a \in AuthzsOf(o) :
             /\ now < authz[a].expires
             /\ authz[a].grantExpires # None => now < authz[a].grantExpires
<1>1. Agreed /\ [Next]_vars => [InTime]_vars
  <2> SUFFICES ASSUME Agreed, [Next]_vars, NEW op \in TaskIDs,
                      ca[op].state # "issued", ca'[op].state = "issued"
               PROVE  /\ now < OrderLifetime
                      /\ \A a \in AuthzsOf(task[op].target) :
                           /\ now < authz[a].expires
                           /\ authz[a].grantExpires # None => now < authz[a].grantExpires
    BY DEF InTime
  <2>1. now < ca[op].deadline /\ ca[op].state # "unknown"
    BY OnlySigns DEF CASigns
  <2>2. PICK o \in Orders : task[op].target = o /\ order[o].op = op
    BY <2>1 DEF Agreed, Coherent, OneOperation
  <2>3. ca[op].deadline = order[o].deadline /\ order[o].op # None
    BY <2>1, <2>2, StoreAssumption DEF Agreed, DeadlineCovers
  <2>4. order[o].deadline <= OrderLifetime /\ \A a \in AuthzsOf(o) : Covers(order[o].deadline, authz[a])
    BY <2>3 DEF Agreed, DeadlineCovers
  <2>5. now \in Nat /\ order[o].deadline \in Nat /\ OrderLifetime \in Nat
    BY SMT, StoreAssumption, Tables DEF Agreed, Coherent, TypeInv, TypeOK, StoreTypeOK
  <2>6. ASSUME NEW a \in AuthzsOf(o)
        PROVE  now < authz[a].expires /\ (authz[a].grantExpires # None => now < authz[a].grantExpires)
    <3>1. authz[a].expires \in Nat /\ authz[a].grantExpires \in Nat \cup {None}
      <4>1. authz \in [Authzs -> AuthzRec] /\ a \in Authzs
        BY Tables, Parents DEF Agreed, Coherent
      <4> QED BY <4>1 DEF AuthzRec
    <3>2. /\ order[o].deadline <= authz[a].expires
          /\ authz[a].grantExpires # None => order[o].deadline <= authz[a].grantExpires
      BY <2>4 DEF Covers
    <3> QED BY SMT, <2>1, <2>3, <2>5, <3>1, <3>2
  <2>7. now < OrderLifetime
    BY SMT, <2>1, <2>3, <2>4, <2>5
  <2> QED BY <2>2, <2>6, <2>7
<1>2. Spec => [][InTime]_vars
  BY <1>1, Agreement, PTL DEF Spec
<1> QED BY <1>2 DEF SignsInTime


(* Statuses only move as CanTransition allows, and a CSR, an OperationID   *)
(* and its deadline stay once set, although no commit path checks the      *)
(* move: the revisions and fences suffice.                                 *)
THEOREM MovesAreLegal == Spec => LegalMoves
<1> DEFINE OrderLegal(o) ==
             /\ order'[o].status # order[o].status => <<order[o].status, order'[o].status>> \in OrderMoves
             /\ order[o].csr # None => order'[o].csr = order[o].csr
             /\ order[o].op # None => order'[o].op = order[o].op /\ order'[o].deadline = order[o].deadline
           AuthzLegal(a) ==
             authz'[a].status # authz[a].status => <<authz[a].status, authz'[a].status>> \in AuthzMoves
           ChallengeLegal(c) ==
             ch'[c].status # ch[c].status => <<ch[c].status, ch'[c].status>> \in ChallengeMoves
           Legal ==
             /\ \A o \in Orders : OrderLegal(o)
             /\ \A a \in Authzs : AuthzLegal(a)
             /\ \A c \in Challenges : ChallengeLegal(c)
<1>1. ASSUME Agreed, [Next]_vars PROVE Legal
  <2>0. Shape /\ OrderFollowsStatus
    BY <1>1, AgreedMove DEF Agreed, Coherent
  <2>1. ASSUME NEW o \in Orders PROVE OrderLegal(o)
    <3>0. order'[o] = order[o] => OrderLegal(o)
      OBVIOUS
    <3>1. CASE Quiet \/ \E c \in Challenges : Responds(c)
      BY <3>0, <3>1 DEF Quiet, Responds
    <3>2. ASSUME NEW c \in Challenges, Decides(c) PROVE OrderLegal(o)
      <4>1. CASE o # OrderOf[AuthzOf[c]]
        BY <3>0, <3>2, <4>1 DEF Decides, DecidesOrder
      <4>2. CASE o = OrderOf[AuthzOf[c]]
        <5>1. /\ order[o].status # "pending" => order'[o].status = order[o].status
              /\ order[o].status = "pending" => order'[o].status \in {"pending", "ready", "invalid"}
              /\ FieldsKept(o)
          BY <3>2, <4>2 DEF Decides, DecidesOrder
        <5> QED BY <5>1 DEF FieldsKept, OrderMoves
      <4> QED BY <4>1, <4>2
    <3>3. ASSUME NEW a \in Authzs, Deactivates(a) PROVE OrderLegal(o)
      <4>1. CASE o # OrderOf[a] \/ ~Undispatched(o)
        BY <3>0, <3>3, <4>1 DEF Deactivates
      <4>2. CASE o = OrderOf[a] /\ Undispatched(o)
        <5>1. order'[o].status = "invalid" /\ FieldsKept(o)
          BY <3>3, <4>2 DEF Deactivates
        <5>2. order[o].status \in {"pending", "ready", "processing"}
          BY <4>2 DEF Undispatched
        <5> QED BY <5>1, <5>2 DEF FieldsKept, OrderMoves
      <4> QED BY <4>1, <4>2
    <3>4. ASSUME NEW p \in Orders, Finalizes(p) PROVE OrderLegal(o)
      BY <3>0, <3>4 DEF Finalizes, OrderMoves
    <3>5. ASSUME NEW p \in Orders, Dispatches(p) PROVE OrderLegal(o)
      BY <3>0, <3>5 DEF Dispatches
    <3>6. ASSUME NEW p \in Orders, Settles(p) PROVE OrderLegal(o)
      BY <3>0, <3>6 DEF Settles, Settled, OrderMoves
    <3> QED BY <2>0, <3>1, <3>2, <3>3, <3>4, <3>5, <3>6 DEF Shape
  <2>2. ASSUME NEW a \in Authzs PROVE AuthzLegal(a)
    <3>1. ASSUME NEW c \in Challenges, Decides(c) PROVE AuthzLegal(a)
      BY <3>1 DEF Decides, DecidesAuthz, AuthzMoves
    <3>2. ASSUME NEW b \in Authzs, Deactivates(b) PROVE AuthzLegal(a)
      BY <3>2 DEF Deactivates, AuthzMoves
    <3> QED BY <2>0, <3>1, <3>2 DEF Shape, Quiet, Responds, Finalizes, Dispatches, Settles
  <2>3. ASSUME NEW c \in Challenges PROVE ChallengeLegal(c)
    <3>1. ASSUME NEW d \in Challenges, Responds(d) \/ Decides(d) PROVE ChallengeLegal(c)
      BY <3>1 DEF Responds, Decides, DecidesAuthz, Settled, ChallengeMoves
    <3> QED BY <2>0, <3>1 DEF Shape, Quiet, Deactivates, Finalizes, Dispatches, Settles
  <2> QED BY <2>1, <2>2, <2>3
<1>2. Agreed /\ [Next]_vars => [Legal]_vars
  BY <1>1
<1>3. Spec => [][Legal]_vars
  <2> HIDE DEF Legal
  <2> QED BY <1>2, Agreement, PTL DEF Spec
<1> QED BY <1>3 DEF LegalMoves

-----------------------------------------------------------------------------
(* The refinement of OrderMachine, one step per shape. *)

(* A freshly created order is an initial state of the machine. *)
LEMMA MachineStart ==
  ASSUME Init
  PROVE  Machine!Init
<1>1. \A a \in Authzs : authz[a].status = IF a \in PreApproved THEN "valid" ELSE "pending"
  BY DEF Init, StoreInit, NewAuthz
<1>2. \A o \in Orders :
        /\ order[o].status = IF Machine!Of(o) \subseteq PreApproved THEN "ready" ELSE "pending"
        /\ order[o].csr = None /\ order[o].op = None
  BY DEF Init, StoreInit, NewOrder, AuthzsOf, Machine!Of
<1>3. \A c \in Challenges : ch[c].status = "pending"
  BY DEF Init, StoreInit
<1> QED BY <1>1, <1>2, <1>3 DEF Machine!Init

(* A step that keeps a status, a CSR or a dispatch keeps it in the machine. *)
LEMMA MachineKeeps ==
  /\ (\A a \in Authzs : authz'[a].status = authz[a].status) =>
       [a \in Authzs |-> authz'[a].status] = [a \in Authzs |-> authz[a].status]
  /\ (\A c \in Challenges : ch'[c].status = ch[c].status) =>
       [c \in Challenges |-> ch'[c].status] = [c \in Challenges |-> ch[c].status]
  /\ (\A o \in Orders : order'[o].status = order[o].status) =>
       [o \in Orders |-> order'[o].status] = [o \in Orders |-> order[o].status]
  /\ (\A o \in Orders : order'[o].csr = order[o].csr) =>
       [o \in Orders |-> order'[o].csr] = [o \in Orders |-> order[o].csr]
  /\ (\A o \in Orders : order'[o].op = None <=> order[o].op = None) =>
       {o \in Orders : order'[o].op # None} = {o \in Orders : order[o].op # None}
OBVIOUS
(* One challenge's new status, as the machine sees it. *)
LEMMA ChallengeSet ==
  ASSUME NEW x \in Challenges, NEW s, ch'[x].status = s, \A c \in Challenges : c # x => ch'[c] = ch[c]
  PROVE  [c \in Challenges |-> ch'[c].status] = [[c \in Challenges |-> ch[c].status] EXCEPT ![x] = s]
OBVIOUS
(* One authorization's new status, as the machine sees it. *)
LEMMA AuthzSet ==
  ASSUME NEW x \in Authzs, NEW s, authz'[x].status = s, \A a \in Authzs : a # x => authz'[a] = authz[a]
  PROVE  [a \in Authzs |-> authz'[a].status] = [[a \in Authzs |-> authz[a].status] EXCEPT ![x] = s]
OBVIOUS
(* One order's new status, as the machine sees it. *)
LEMMA OrderSet ==
  ASSUME NEW x \in Orders, NEW s, order'[x].status = s, \A o \in Orders : o # x => order'[o] = order[o]
  PROVE  [o \in Orders |-> order'[o].status] = [[o \in Orders |-> order[o].status] EXCEPT ![x] = s]
OBVIOUS

(* Decisions on a challenge are the machine's: a success validates the      *)
(* authorization, a failure refuses it or is discarded.                     *)
LEMMA MachineDecides ==
  ASSUME Agreed, NEW c \in Challenges, Decides(c)
  PROVE  Machine!Validate(c) \/ Machine!Refuse(c) \/ Machine!Discard(c)
<1>a. PICK a \in Authzs : a = AuthzOf[c]
  BY Parents
<1>o. PICK o \in Orders : o = OrderOf[a] /\ Machine!Of(o) = AuthzsOf(o) /\ a \in AuthzsOf(o)
  BY Parents DEF Machine!Of, AuthzsOf
<1>0. DecidesAuthz(c, a) /\ DecidesOrder(a, o) /\ OrderAgrees
  BY <1>a, <1>o DEF Agreed, Decides
<1>1. /\ [p \in Orders |-> order'[p].csr] = [p \in Orders |-> order[p].csr]
      /\ {p \in Orders : order'[p].op # None} = {p \in Orders : order[p].op # None}
  <2>1. \A p \in Orders : order'[p].csr = order[p].csr /\ order'[p].op = order[p].op
    BY <1>0 DEF DecidesOrder, FieldsKept
  <2> QED BY <2>1, MachineKeeps
<1>2. [d \in Challenges |-> ch'[d].status] =
        [[d \in Challenges |-> ch[d].status] EXCEPT ![c] = ch'[c].status]
  BY <1>0, ChallengeSet DEF DecidesAuthz
<1>3. [b \in Authzs |-> authz'[b].status] =
        [[b \in Authzs |-> authz[b].status] EXCEPT ![a] = authz'[a].status]
  BY <1>0, AuthzSet DEF DecidesAuthz
<1>4. [p \in Orders |-> order'[p].status] =
        [[p \in Orders |-> order[p].status] EXCEPT ![o] = order'[o].status]
  BY <1>0, OrderSet DEF DecidesOrder
<1>5. /\ \A p \in Orders : [q \in Orders |-> order[q].status][p] = order[p].status
      /\ \A b \in Authzs : [x \in Authzs |-> authz[x].status][b] = authz[b].status
      /\ \A b \in Authzs : [x \in Authzs |-> authz'[x].status][b] = authz'[b].status
      /\ \A d \in Challenges : [x \in Challenges |-> ch[x].status][d] = ch[d].status
  OBVIOUS
<1>6. order'[o].status = order[o].status =>
        [p \in Orders |-> order'[p].status] = [p \in Orders |-> order[p].status]
  <2>1. \A p \in Orders : p # o => order'[p].status = order[p].status
    BY <1>0 DEF DecidesOrder
  <2> QED BY <2>1, MachineKeeps
<1>7. CASE ch'[c].status = "valid"
  <2>1. ch[c].status = "processing" /\ authz[a].status = "pending" /\ authz'[a].status = "valid"
    BY <1>0, <1>7 DEF DecidesAuthz
  <2>2. \/ /\ \A b \in AuthzsOf(o) : authz'[b].status = "valid"
           /\ order'[o].status = IF order[o].status = "pending" THEN "ready" ELSE order[o].status
        \/ /\ \E b \in AuthzsOf(o) : authz'[b].status # "valid"
           /\ order'[o].status = order[o].status
        \/ order'[o].status = IF order[o].status = "pending" THEN "invalid" ELSE order[o].status
    BY <1>0 DEF DecidesOrder
  <2>3. \A b \in AuthzsOf(o) : b \in Authzs
    BY DEF AuthzsOf
  <2>4. \/ /\ \A b \in Machine!Of(o) : [x \in Authzs |-> authz'[x].status][b] = "valid"
           /\ [p \in Orders |-> order'[p].status] =
                [[p \in Orders |-> order[p].status] EXCEPT ![o] = IF @ = "pending" THEN "ready" ELSE @]
        \/ /\ \E b \in Machine!Of(o) : [x \in Authzs |-> authz'[x].status][b] # "valid"
           /\ [p \in Orders |-> order'[p].status] = [p \in Orders |-> order[p].status]
        \/ [p \in Orders |-> order'[p].status] =
             [[p \in Orders |-> order[p].status] EXCEPT ![o] = IF @ = "pending" THEN "invalid" ELSE @]
    <3>1. CASE /\ \A b \in AuthzsOf(o) : authz'[b].status = "valid"
               /\ order'[o].status = IF order[o].status = "pending" THEN "ready" ELSE order[o].status
      BY <1>o, <1>4, <2>3, <3>1
    <3>2. CASE /\ \E b \in AuthzsOf(o) : authz'[b].status # "valid"
               /\ order'[o].status = order[o].status
      BY <1>o, <1>6, <2>3, <3>2
    <3>3. CASE order'[o].status = IF order[o].status = "pending" THEN "invalid" ELSE order[o].status
      BY <1>4, <3>3
    <3> QED BY <2>2, <3>1, <3>2, <3>3
  <2> QED BY <1>a, <1>o, <1>1, <1>2, <1>3, <1>5, <1>7, <2>1, <2>4 DEF Machine!Validate
<1>8. CASE ch'[c].status = "invalid" /\ authz'[a].status # authz[a].status
  <2>1. ch[c].status = "processing" /\ authz[a].status = "pending" /\ authz'[a].status = "invalid"
    BY <1>0, <1>8 DEF DecidesAuthz
  <2>2. order'[o].status = IF order[o].status = "pending" THEN "invalid" ELSE order[o].status
    BY <1>0, <1>o, <2>1 DEF DecidesOrder, TerminalAuthz
  <2> QED BY <1>a, <1>o, <1>1, <1>2, <1>3, <1>4, <1>5, <1>8, <2>1, <2>2 DEF Machine!Refuse
<1>9. CASE ch'[c].status = "invalid" /\ authz'[a].status = authz[a].status
  <2>1. ch[c].status = "processing"
    BY <1>0 DEF DecidesAuthz
  <2>2. \A b \in Authzs : authz'[b].status = authz[b].status
    BY <1>0, <1>9 DEF DecidesAuthz
  <2>3. order'[o].status = order[o].status \/ (order[o].status = "pending" /\ order'[o].status = "invalid")
    <3>1. order[o].status = "pending" => order'[o].status # "ready"
      <4> SUFFICES ASSUME order[o].status = "pending", order'[o].status = "ready" PROVE FALSE
        OBVIOUS
      <4>1. PICK b \in AuthzsOf(o) : authz[b].status = "pending"
        BY <1>0 DEF OrderAgrees
      <4>2. authz'[b].status = "pending"
        BY <2>2, <4>1, Parents
      <4>3. authz'[b].status = "valid"
        BY <1>0 DEF DecidesOrder
      <4> QED BY <4>2, <4>3
    <3> QED BY <1>0, <3>1 DEF DecidesOrder
  <2>4. [b \in Authzs |-> authz'[b].status] = [b \in Authzs |-> authz[b].status]
    BY <2>2, MachineKeeps
  <2> QED BY <1>a, <1>o, <1>1, <1>2, <1>4, <1>5, <1>6, <1>9, <2>1, <2>3, <2>4 DEF Machine!Discard
<1> QED BY <1>0, <1>7, <1>8, <1>9 DEF DecidesAuthz, Settled

(* So are deactivations. *)
LEMMA MachineDeactivates ==
  ASSUME Agreed, NEW a \in Authzs, Deactivates(a)
  PROVE  Machine!Deactivate(a)
<1>o. PICK o \in Orders : o = OrderOf[a]
  BY Parents
<1>1. /\ [p \in Orders |-> order'[p].csr] = [p \in Orders |-> order[p].csr]
      /\ {p \in Orders : order'[p].op # None} = {p \in Orders : order[p].op # None}
      /\ [d \in Challenges |-> ch'[d].status] = [d \in Challenges |-> ch[d].status]
  <2>1. \A p \in Orders : order'[p].csr = order[p].csr /\ order'[p].op = order[p].op
    BY <1>o DEF Deactivates, FieldsKept
  <2>2. ch' = ch
    BY DEF Deactivates
  <2> QED BY <2>1, <2>2, MachineKeeps
<1>2. [b \in Authzs |-> authz'[b].status] =
        [[b \in Authzs |-> authz[b].status] EXCEPT ![a] = "deactivated"]
  BY AuthzSet DEF Deactivates
<1>3. Machine!Open(o) <=> Undispatched(o)
  BY DEF Machine!Open, Undispatched
<1>4. [p \in Orders |-> order'[p].status] =
        IF Undispatched(o) THEN [[p \in Orders |-> order[p].status] EXCEPT ![o] = "invalid"]
        ELSE [p \in Orders |-> order[p].status]
  <2>1. CASE Undispatched(o)
    BY <1>o, <2>1, OrderSet DEF Deactivates
  <2>2. CASE ~Undispatched(o)
    BY <1>o, <2>2, MachineKeeps DEF Deactivates
  <2> QED BY <2>1, <2>2
<1>5. [b \in Authzs |-> authz[b].status][a] \in {"pending", "valid"}
  BY DEF Deactivates
<1> QED BY <1>o, <1>1, <1>2, <1>3, <1>4, <1>5 DEF Machine!Deactivate


(* So are responses, finalizations, dispatches and results. *)
LEMMA MachineMoves ==
  ASSUME Agreed, NEW o \in Orders, Finalizes(o) \/ Dispatches(o) \/ Settles(o)
  PROVE  Machine!Finalize(o) \/ Machine!Dispatch(o) \/ Machine!Settle(o)
<1>0. /\ \A p \in Orders : p # o => order'[p] = order[p]
      /\ UNCHANGED <<authz, ch>>
  BY DEF Finalizes, Dispatches, Settles
<1>1. /\ [b \in Authzs |-> authz'[b].status] = [b \in Authzs |-> authz[b].status]
      /\ [d \in Challenges |-> ch'[d].status] = [d \in Challenges |-> ch[d].status]
  BY <1>0, MachineKeeps
<1>2. [p \in Orders |-> order'[p].status] =
        [[p \in Orders |-> order[p].status] EXCEPT ![o] = order'[o].status]
  BY <1>0, OrderSet
<1>3. /\ [p \in Orders |-> order[p].status][o] = order[o].status
      /\ \A b \in Authzs : [x \in Authzs |-> authz[x].status][b] = authz[b].status
      /\ o \in {p \in Orders : order[p].op # None} <=> order[o].op # None
  OBVIOUS
<1>4. order'[o].csr = order[o].csr =>
        [p \in Orders |-> order'[p].csr] = [p \in Orders |-> order[p].csr]
  BY <1>0, MachineKeeps
<1>5. (order'[o].op = None <=> order[o].op = None) =>
        {p \in Orders : order'[p].op # None} = {p \in Orders : order[p].op # None}
  BY <1>0, MachineKeeps
<1>6. CASE Finalizes(o)
  <2>1. /\ order[o].status = "ready" /\ order'[o].status = "processing"
        /\ order[o].op = None /\ order'[o].op = None /\ order'[o].csr \in CSRs
    BY <1>6 DEF Finalizes
  <2>2. [p \in Orders |-> order'[p].csr] =
          [[p \in Orders |-> order[p].csr] EXCEPT ![o] = order'[o].csr]
    BY <1>0
  <2> QED BY <1>1, <1>2, <1>3, <1>5, <2>1, <2>2 DEF Machine!Finalize
<1>7. CASE Dispatches(o)
  <2>1. /\ order[o].status = "processing" /\ order'[o].status = order[o].status
        /\ order[o].op = None /\ order'[o].op # None /\ order'[o].csr = order[o].csr
    BY <1>7 DEF Dispatches
  <2>2. {p \in Orders : order'[p].op # None} = {p \in Orders : order[p].op # None} \cup {o}
    BY <1>0, <2>1
  <2>3. [p \in Orders |-> order'[p].status] = [p \in Orders |-> order[p].status]
    BY <1>0, <2>1, MachineKeeps
  <2>4. \A a \in Machine!Of(o) : authz[a].status = "valid" /\ a \in Authzs
    BY <2>1 DEF Agreed, OrderAgrees, Machine!Of, AuthzsOf
  <2> QED BY <1>1, <1>3, <1>4, <2>1, <2>2, <2>3, <2>4 DEF Machine!Dispatch
<1>8. CASE Settles(o)
  <2>1. /\ order[o].status = "processing" /\ order'[o].status \in {"valid", "invalid"}
        /\ order'[o].op = order[o].op /\ order'[o].csr = order[o].csr
        /\ order'[o].status = "valid" => order[o].op # None
    BY <1>8 DEF Settles, Settled, Publishes
  <2> QED BY <1>1, <1>2, <1>3, <1>4, <1>5, <2>1 DEF Machine!Settle
<1> QED BY <1>6, <1>7, <1>8

(* Every step of the lifecycle is a step of the machine or none. *)
LEMMA MachineStep ==
  ASSUME Agreed, [Next]_vars
  PROVE  [Machine!Next]_(Machine!machineVars)
<1>1. CASE Quiet
  <2>1. /\ order' = order /\ authz' = authz /\ \A c \in Challenges : ch'[c].status = ch[c].status
    BY <1>1 DEF Quiet
  <2>2. /\ [b \in Authzs |-> authz'[b].status] = [b \in Authzs |-> authz[b].status]
        /\ [d \in Challenges |-> ch'[d].status] = [d \in Challenges |-> ch[d].status]
        /\ [o \in Orders |-> order'[o].status] = [o \in Orders |-> order[o].status]
        /\ [o \in Orders |-> order'[o].csr] = [o \in Orders |-> order[o].csr]
        /\ {o \in Orders : order'[o].op # None} = {o \in Orders : order[o].op # None}
    BY <2>1, MachineKeeps
  <2> QED BY <2>2 DEF Machine!machineVars
<1>2. ASSUME NEW c \in Challenges, Responds(c) PROVE Machine!Respond(c)
  <2>1. [d \in Challenges |-> ch'[d].status] =
          [[d \in Challenges |-> ch[d].status] EXCEPT ![c] = "processing"]
    BY <1>2, ChallengeSet DEF Responds
  <2>2. [d \in Challenges |-> ch[d].status][c] = "pending"
    BY <1>2 DEF Responds
  <2>3. order' = order /\ authz' = authz
    BY <1>2 DEF Responds
  <2> QED BY <2>1, <2>2, <2>3 DEF Machine!Respond
<1>3. ASSUME NEW c \in Challenges, Decides(c)
      PROVE  Machine!Validate(c) \/ Machine!Refuse(c) \/ Machine!Discard(c)
  BY <1>3, MachineDecides
<1>4. ASSUME NEW a \in Authzs, Deactivates(a) PROVE Machine!Deactivate(a)
  BY <1>4, MachineDeactivates
<1>5. ASSUME NEW o \in Orders, Finalizes(o) \/ Dispatches(o) \/ Settles(o)
      PROVE  Machine!Finalize(o) \/ Machine!Dispatch(o) \/ Machine!Settle(o)
  BY <1>5, MachineMoves
<1>6. Shape
  BY AgreedMove
<1> QED BY <1>1, <1>2, <1>3, <1>4, <1>5, <1>6 DEF Shape, Machine!Next

(* The server, its workers and its store together implement OrderMachine:  *)
(* seen from the stored statuses, a challenge, its authorization and its   *)
(* order change together, and a dispatch happens only while every          *)
(* authorization is valid, whatever runs concurrently.                     *)
THEOREM MachineImplemented == Spec => ImplementsMachine
<1>1. Init => Machine!Init
  BY MachineStart
<1>2. Agreed /\ [Next]_vars => [Machine!Next]_(Machine!machineVars)
  BY MachineStep
<1>3. Spec => Machine!Spec
  BY <1>1, <1>2, Agreement, PTL DEF Spec, Machine!Spec
<1> QED BY <1>3 DEF ImplementsMachine

-----------------------------------------------------------------------------
(* The bound on the validations of an account. *)

Responding == {h \in Handlers : hand[h].pc = "respStore"}
Backlog == IsFiniteSet(LiveTasks("validate")) /\ BacklogBounded

(* No worker brings a task to life. *)
LEMMA WorkersFreeTasks ==
  ASSUME TypeInv, NEW w \in Workers, WorkerSteps(w) \/ WorkerFaults(w)
  PROVE  \A t \in TaskIDs : Live(t)' => Live(t) /\ task'[t].kind = task[t].kind
<1>0. task \in [TaskIDs -> TaskRec]
  BY DEF TypeInv, TypeOK, StoreTypeOK
<1>1. ASSUME NEW t \in TaskIDs, Live(t), NEW s \in TaskIDs, Live(s)',
             \/ ReleaseTask(t) \/ RemoveTask(t)
             \/ task' = [task EXCEPT ![t].state = "leased", ![t].fence = @ + 1]
      PROVE  Live(s) /\ task'[s].kind = task[s].kind
  <2>1. CASE s # t
    BY <1>0, <1>1, <2>1 DEF ReleaseTask, RemoveTask, Live
  <2>2. CASE s = t
    <3>1. \/ task'[t] = [task[t] EXCEPT !.state = "queued"]
          \/ task'[t] = [task[t] EXCEPT !.state = "gone"]
          \/ task'[t] = [task[t] EXCEPT !.state = "leased", !.fence = @ + 1]
      BY <1>0, <1>1 DEF ReleaseTask, RemoveTask
    <3>2. task'[t].kind = task[t].kind
      BY <1>0, <3>1 DEF TaskRec
    <3> QED BY <1>1, <2>2, <3>2
  <2> QED BY <2>1, <2>2
<1>2. CASE task' = task
  BY <1>2 DEF Live
<1>3. CASE task' # task
  <2>1. CASE Claim(w) \/ ClaimLapsed(w)
    <3>1. PICK t \in TaskIDs : ClaimTask(t)
      BY <2>1 DEF Claim, ClaimLapsed, StartRun
    <3> QED BY <1>1, <3>1 DEF ClaimTask
  <2>2. CASE ~(Claim(w) \/ ClaimLapsed(w))
    <3>1. /\ run[w].pc # "idle" /\ CheckTask(run[w].task, run[w].fence)
          /\ RemoveTask(run[w].task) \/ ReleaseTask(run[w].task)
      BY <1>3, <2>2 DEF WorkerSteps, WorkerFaults, Reschedule, RescheduleTask, Finish, FinishTask, Crash,
           CallFails, storeVars,
           ValidationStep, ReadChallenge, ReadAuthorization, ReadAccount, ValidateSucceeds, ValidateRefuses,
           ValidateErrs, ReadOrder, DeriveOrderStatus, CommitValidation, CompleteValidation,
           ValidationCurrent, CommitValidationFails, ReloadAuthorization, RetryRun, RetryValidation, Local,
           IssuanceStep, ReadIssuanceOrder, DispatchAccount, Snapshot, PolicyAllows, PolicyRefuses,
           StoreDispatch, BeginIssuance, DispatchConflict, Issue, AnswerIssued, AnswerRejected, Record,
           CompleteIssuance, RecordFails, PolicyErrs, AnswerMuddled, AnswerPending, Step
    <3>2. run[w].task \in TaskIDs
      BY <3>1 DEF TypeInv, TypedRun
    <3> QED BY <1>1, <3>1, <3>2 DEF CheckTask
  <2> QED BY <2>1, <2>2
<1> QED BY <1>2, <1>3

(* A step that neither brings a validation to life nor lets a response pass. *)
LEMMA BacklogShrinks ==
  ASSUME TypeInv, Backlog, LiveTasks("validate")' \subseteq LiveTasks("validate"),
         Responding' \subseteq Responding
  PROVE  Backlog'
<1>0. IsFiniteSet(Handlers) /\ MaxPendingValidations \in Nat
  BY SMT, HandlerAssumption
<1>1. IsFiniteSet(Responding) /\ IsFiniteSet(LiveTasks("validate"))
  BY <1>0, FS_Subset DEF Responding, Backlog
<1>2. /\ IsFiniteSet(LiveTasks("validate")')
      /\ Cardinality(LiveTasks("validate")') <= Cardinality(LiveTasks("validate"))
      /\ Cardinality(Responding') <= Cardinality(Responding) /\ IsFiniteSet(Responding')
  BY <1>1, FS_Subset
<1>3. /\ Cardinality(LiveTasks("validate")) \in Nat /\ Cardinality(LiveTasks("validate")') \in Nat
      /\ Cardinality(Responding) \in Nat /\ Cardinality(Responding') \in Nat
      /\ Cardinality(Handlers) \in Nat
  BY <1>0, <1>1, <1>2, FS_CardinalityType
<1>4. Cardinality(LiveTasks("validate")) + Cardinality(Responding)
        <= MaxPendingValidations - 1 + Cardinality(Handlers)
  BY DEF Backlog, BacklogBounded, Responding
<1>5. Cardinality(LiveTasks("validate")') + Cardinality(Responding')
        <= MaxPendingValidations - 1 + Cardinality(Handlers)
  BY SMT, <1>0, <1>2, <1>3, <1>4
<1> QED BY <1>2, <1>5 DEF Backlog, BacklogBounded, Responding


(* A response passes the count, or is committed. *)
LEMMA BacklogResponds ==
  ASSUME TypeInv, Backlog, NEW h \in Handlers, RespondCount(h) \/ RespondStore(h)
  PROVE  Backlog'
<1>r. PICK r : r = hand[h]
  OBVIOUS
<1>0. /\ hand \in [Handlers -> HandRec] /\ r \in HandRec /\ TypedHand(r)
      /\ IsFiniteSet(Handlers) /\ MaxPendingValidations \in Nat
      /\ IsFiniteSet(LiveTasks("validate")) /\ IsFiniteSet(Responding)
  <2>1. IsFiniteSet(Handlers) /\ MaxPendingValidations \in Nat
    BY SMT, HandlerAssumption
  <2>2. IsFiniteSet(Responding)
    BY <2>1, FS_Subset DEF Responding
  <2> QED BY <1>r, <2>1, <2>2 DEF TypeInv, TypeOK, HandlerTypeOK, Backlog
<1>c. /\ Cardinality(LiveTasks("validate")) \in Nat /\ Cardinality(Handlers) \in Nat
      /\ Cardinality(Responding) \in Nat
  BY <1>0, FS_CardinalityType
<1>b. Cardinality(LiveTasks("validate")) + Cardinality(Responding)
        <= MaxPendingValidations - 1 + Cardinality(Handlers)
  BY DEF Backlog, BacklogBounded, Responding
<1>1. CASE Reply(h)
  <2>1. \A g \in Handlers : hand'[g] = hand[g] \/ hand'[g].pc = "idle"
    BY <1>0, <1>1, FreeIdle DEF Reply, Move
  <2>2. hand'[h] = Free
    BY <1>0, <1>1 DEF Reply, Move
  <2>3. Responding' \subseteq Responding
    BY <2>1 DEF Responding
  <2>4. CASE task' = task
    <3>1. LiveTasks("validate")' \subseteq LiveTasks("validate")
      BY <2>4 DEF LiveTasks, Live
    <3> QED BY <2>3, <3>1, BacklogShrinks
  <2>5. CASE task' # task
    <3>1. r.pc = "respStore" /\ InsertTask("validate", r.id)
      BY <1>r, <2>5 DEF RespondCount, Reading, storeVars, RespondStore, AcceptChallenge
    <3>2. PICK n \in TaskIDs :
            /\ FreshTask(n)
            /\ task'[n] = [state |-> "queued", kind |-> "validate", target |-> r.id, fence |-> 0]
            /\ \A t \in TaskIDs : t # n => task'[t] = task[t]
      BY <3>1, Inserted
    <3>3. task'[n].state = "queued" /\ task'[n].kind = "validate"
      BY SMT, <3>2
    <3>4. n \notin LiveTasks("validate") /\ LiveTasks("validate")' = LiveTasks("validate") \cup {n}
      BY <3>2, <3>3 DEF LiveTasks, Live, FreshTask
    <3>5. h \in Responding /\ h \notin Responding'
      BY <1>r, <2>2, <3>1, FreeIdle DEF Responding
    <3>6. \A g \in Handlers : g # h => hand'[g] = hand[g]
      BY <1>0, <1>1 DEF Reply, Move
    <3>7. Responding' = Responding \ {h}
      BY <3>5, <3>6 DEF Responding
    <3>8. /\ IsFiniteSet(LiveTasks("validate")')
          /\ Cardinality(LiveTasks("validate")') = Cardinality(LiveTasks("validate")) + 1
      BY <1>0, <3>4, FS_AddElement
    <3>9. Cardinality(Responding') = Cardinality(Responding) - 1
      BY <1>0, <3>5, <3>7, FS_RemoveElement
    <3>10. Cardinality(LiveTasks("validate")') + Cardinality(Responding')
             <= MaxPendingValidations - 1 + Cardinality(Handlers)
      BY SMT, <1>0, <1>b, <1>c, <3>8, <3>9
    <3> QED BY <3>8, <3>10 DEF Backlog, BacklogBounded, Responding
  <2> QED BY <2>4, <2>5
<1>2. CASE ~Reply(h)
  <2>1. Cardinality(LiveTasks("validate")) < MaxPendingValidations /\ task' = task
    BY <1>2 DEF RespondCount, RespondStore, Reading, storeVars
  <2>2. LiveTasks("validate")' = LiveTasks("validate")
    BY <2>1 DEF LiveTasks, Live
  <2>3. IsFiniteSet(Responding') /\ Cardinality(Responding') <= Cardinality(Handlers)
    BY <1>0, FS_Subset DEF Responding
  <2>4. Cardinality(Responding') \in Nat
    BY <2>3, FS_CardinalityType
  <2>5. Cardinality(LiveTasks("validate")') + Cardinality(Responding')
          <= MaxPendingValidations - 1 + Cardinality(Handlers)
    BY SMT, <1>0, <1>c, <2>1, <2>2, <2>3, <2>4
  <2> QED BY <1>0, <2>2, <2>5 DEF Backlog, BacklogBounded, Responding
<1> QED BY <1>1, <1>2

(* The other requests let no response pass and enqueue no validation. *)
LEMMA BacklogOthers ==
  ASSUME TypeInv, Backlog, NEW h \in Handlers, HandlerStep(h), ~RespondCount(h), ~RespondStore(h)
  PROVE  Backlog'
<1>r. PICK r : r = hand[h]
  OBVIOUS
<1>0. hand \in [Handlers -> HandRec] /\ r \in HandRec
  BY <1>r DEF TypeInv, TypeOK, HandlerTypeOK
<1>1. PICK q : Move(h, q) /\ q.pc # "respStore"
  <2>1. CASE Reply(h)
    BY <2>1, FreeIdle DEF Reply
  <2>2. CASE Authenticate(h)
    <3>1. [Free EXCEPT !.pc = "signed", !.copy = account].pc = "signed"
      BY DEF Free
    <3> QED BY <2>2, <3>1 DEF Authenticate
  <2>3. ASSUME NEW c \in Challenges, Respond(h, c)
        PROVE  \E x : Move(h, x) /\ x.pc # "respStore"
    <3>1. [Free EXCEPT !.pc = "respAuthz", !.id = c, !.copy = ch[c]].pc = "respAuthz"
      BY DEF Free
    <3> QED BY <2>3, <3>1 DEF Respond
  <2>4. CASE RespondAuthorization(h) /\ ~Reply(h)
    <3>1. [r EXCEPT !.pc = "respCount"].pc = "respCount"
      BY <1>0 DEF HandRec
    <3> QED BY <1>r, <2>4, <3>1 DEF RespondAuthorization
  <2>5. ASSUME NEW o \in Orders, NEW csr \in CSRs, Finalize(h, o, csr), ~Reply(h)
        PROVE  \E x : Move(h, x) /\ x.pc # "respStore"
    <3>1. [Free EXCEPT !.pc = "finDerive", !.id = o, !.copy = order[o], !.csr = csr,
                       !.todo = AuthzsOf(o), !.status = "ready", !.at = now].pc = "finDerive"
      BY DEF Free
    <3> QED BY <2>5, <3>1 DEF Finalize, Acknowledge
  <2>6. CASE FinalizeDerive(h) /\ ~Reply(h)
    <3>1. PICK a, s :
            \/ Move(h, [r EXCEPT !.todo = @ \ {a}, !.status = s])
            \/ Move(h, [r EXCEPT !.pc = "finStore", !.todo = {}, !.status = None, !.at = 0,
                                 !.copy.status = "processing", !.copy.csr = r.csr])
      BY <1>r, <2>6 DEF FinalizeDerive
    <3>2. [r EXCEPT !.todo = @ \ {a}, !.status = s].pc = "finDerive"
      BY <1>0, <1>r, <2>6 DEF FinalizeDerive, HandRec
    <3>3. [r EXCEPT !.pc = "finStore", !.todo = {}, !.status = None, !.at = 0,
                    !.copy.status = "processing", !.copy.csr = r.csr].pc = "finStore"
      BY <1>0 DEF HandRec
    <3> QED BY <3>1, <3>2, <3>3
  <2>7. CASE FinalizeStore(h) /\ ~Reply(h)
    <3>1. [r EXCEPT !.pc = "finReload", !.copy = None].pc = "finReload"
      BY <1>0 DEF HandRec
    <3> QED BY <1>r, <2>7, <3>1 DEF FinalizeStore, Acknowledge
  <2>8. ASSUME NEW a \in Authzs, Deactivate(h, a)
        PROVE  \E x : Move(h, x) /\ x.pc # "respStore"
    <3>1. [Free EXCEPT !.pc = "deactivate", !.id = a,
                       !.copy = [authz[a] EXCEPT !.status = "deactivated"]].pc = "deactivate"
      BY DEF Free
    <3> QED BY <2>8, <3>1 DEF Deactivate
  <2> QED BY <2>1, <2>2, <2>3, <2>4, <2>5, <2>6, <2>7, <2>8
          DEF HandlerStep, Answer, FinalizeReload, Acknowledge, DeactivateStore, ChangeAccount
<1>2. Responding' \subseteq Responding
  BY <1>0, <1>1 DEF Move, Responding
<1>3. LiveTasks("validate")' \subseteq LiveTasks("validate")
  <2>1. CASE task' = task
    BY <2>1 DEF LiveTasks, Live
  <2>2. CASE task' # task
    <3>1. InsertTask("issue", r.id)
      BY <1>r, <2>2 DEF HandlerStep, Authenticate, Answer, Respond, RespondAuthorization, Finalize,
           FinalizeDerive, FinalizeStore, FinalizeOrder, FinalizeReload, Deactivate, DeactivateStore,
           ChangeAccount, UpdateAuthorization, UpdateAccount, Reading, storeVars
    <3>2. PICK n \in TaskIDs :
            /\ task'[n] = [state |-> "queued", kind |-> "issue", target |-> r.id, fence |-> 0]
            /\ \A t \in TaskIDs : t # n => task'[t] = task[t]
      BY <3>1, Inserted
    <3>3. task'[n].kind = "issue"
      BY SMT, <3>2
    <3> QED BY <3>2, <3>3 DEF LiveTasks, Live
  <2> QED BY <2>1, <2>2
<1> QED BY <1>2, <1>3, BacklogShrinks

(* The bound on an account's unfinished validations is exceeded by no more *)
(* than the responses that passed the check together (acceptChallenge).    *)
THEOREM BacklogIsBounded == Spec => []BacklogBounded
<1>1. ASSUME Init PROVE Backlog
  <2>1. LiveTasks("validate") = {}
    BY SMT, <1>1 DEF Init, StoreInit, LiveTasks, Live
  <2>2. {h \in Handlers : hand[h].pc = "respStore"} = {}
    BY <1>1, FreeIdle DEF Init, HandlerInit
  <2>3. IsFiniteSet(Handlers) /\ MaxPendingValidations \in Nat \ {0}
    BY SMT, HandlerAssumption
  <2>4. Cardinality(Handlers) \in Nat
    BY <2>3, FS_CardinalityType
  <2>5. 0 + 0 <= MaxPendingValidations - 1 + Cardinality(Handlers)
    BY SMT, <2>3, <2>4
  <2> QED BY <2>1, <2>2, <2>5, FS_EmptySet DEF Backlog, BacklogBounded
<1>2. ASSUME TypeInv, Backlog, [Next]_vars PROVE Backlog'
  <2>1. ASSUME NEW w \in Workers, WorkerSteps(w) \/ WorkerFaults(w) PROVE Backlog'
    <3>1. LiveTasks("validate")' \subseteq LiveTasks("validate")
      BY <1>2, <2>1, WorkersFreeTasks DEF LiveTasks
    <3>2. Responding' \subseteq Responding
      BY <2>1 DEF WorkerSteps, WorkerFaults, Responding
    <3> QED BY <1>2, <3>1, <3>2, BacklogShrinks
  <2>2. ASSUME NEW h \in Handlers, HandlerStep(h) PROVE Backlog'
    BY <1>2, <2>2, BacklogResponds, BacklogOthers
  <2>3. ASSUME task' = task, hand' = hand PROVE Backlog'
    BY <1>2, <2>3, BacklogShrinks DEF LiveTasks, Live, Responding
  <2> QED BY <1>2, <2>1, <2>2, <2>3
          DEF Next, Rest, Tick, vars, storeVars, CAStep, CASigns, CARejects
<1>3. Backlog => BacklogBounded
  BY DEF Backlog
<1> QED BY <1>1, <1>2, <1>3, TypeCorrect, PTL DEF Spec
===============================================================================
