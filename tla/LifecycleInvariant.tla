-------------------------- MODULE LifecycleInvariant --------------------------
(***************************************************************************)
(* The strengthenings that make the invariants of OrderLifecycle           *)
(* inductive: what each run and each request knows at each of its steps.   *)
(***************************************************************************)
EXTENDS OrderLifecycle

-----------------------------------------------------------------------------
(* Types that depend on the step. *)

HoldsCh == ValidationPC \ {"challenge"}
HoldsAuthz == HoldsCh \ {"authorization"}
HoldsOrder == {"derive", "complete"} \cup (IssuancePC \ {"issuanceOrder"})

TypedTask(t) ==
  ~FreshTask(t) =>
    /\ task[t].kind = "validate" => task[t].target \in Challenges
    /\ task[t].kind = "issue" => task[t].target \in Orders

TypedRun(r) ==
  /\ r.pc # "idle" => r.task \in TaskIDs /\ ~FreshTask(r.task)
  /\ r.pc \in ValidationPC => task[r.task].kind = "validate"
  /\ r.pc \in IssuancePC => task[r.task].kind = "issue"
  /\ r.pc \in HoldsCh => r.ch \in ChallengeRec
  /\ r.pc \in HoldsAuthz => r.authz \in AuthzRec
  /\ r.pc \in HoldsOrder => r.order \in OrderRec
  /\ r.pc \in {"challenge", "authorization", "account", "validate", "order"} => r.tries < 3
  /\ r.pc = "derive" => r.status \in OrderStatus
  /\ r.pc \in {"issue", "await"} => r.order.op \in TaskIDs

TypedHand(r) ==
  /\ r.pc = "signed" => r.copy \in AccountRec
  /\ r.pc \in {"respAuthz", "respCount", "respStore"} => r.id \in Challenges /\ r.copy \in ChallengeRec
  /\ r.pc \in {"finDerive", "finStore"} => r.copy \in OrderRec
  /\ r.pc \in {"finDerive", "finStore", "finReload"} => r.id \in Orders /\ r.csr \in CSRs
  /\ r.pc = "finDerive" => r.status \in OrderStatus
  /\ r.pc = "deactivate" => r.id \in Authzs /\ r.copy \in AuthzRec

(* Every run and every request holds, at each step, the copies that step   *)
(* uses, and works on a task of the kind its step belongs to.              *)
TypeInv ==
  /\ TypeOK
  /\ \A t \in TaskIDs : TypedTask(t)
  /\ \A w \in Workers : TypedRun(run[w])
  /\ \A h \in Handlers : TypedHand(hand[h])

-----------------------------------------------------------------------------
(* What a copy says about the stored resource: a copy is never newer, and   *)
(* one of the current revision still tells the truth.                       *)

Open == {"pending", "ready"}
Settled == {"valid", "invalid"}

OrderIn(r) ==
  IF task[r.task].kind = "validate" THEN OrderOf[AuthzOf[task[r.task].target]]
  ELSE task[r.task].target

(* The challenge copy of a validation run, before and after the verdict. *)
KnowsChallenge(r) ==
  LET c == task[r.task].target IN
  r.pc \in HoldsCh =>
    /\ r.ch.rev <= ch[c].rev
    /\ r.ch.rev = ch[c].rev => ch[c].status = "processing"
    /\ r.ch.status \in IF r.pc \in {"authorization", "account", "validate", "retry"}
                       THEN {"processing"} ELSE Settled

(* The order copy of either kind of run.  Between "begin" and the commit of *)
(* the dispatch the copy has an operation that the store does not have.     *)
KnowsOrder(r) ==
  LET o == OrderIn(r) IN
  r.pc \in HoldsOrder =>
    /\ r.order.rev <= order[o].rev
    /\ r.order.rev = order[o].rev =>
         /\ r.order.csr = order[o].csr
         /\ r.pc # "begin" => r.order.op = order[o].op
         /\ r.pc \in ValidationPC =>
              \/ r.order.status = order[o].status
              \/ order[o].status = "pending" /\ r.order.status \in {"ready", "invalid"}
         /\ r.pc \in IssuancePC => order[o].status = "processing"
    /\ r.pc = "derive" => r.status \in {"pending", "ready"}
    /\ r.pc \in IssuancePC =>
         r.order.status \in IF r.pc = "record" THEN Settled ELSE {"processing"}
    /\ r.pc = "begin" => r.order.op = r.task
    /\ r.pc \in {"issue", "await"} => order[o].op = r.order.op

(* A task is given up only once its target is settled. *)
KnowsSettled(r) ==
  r.pc = "finish" =>
    IF task[r.task].kind = "validate" THEN ch[task[r.task].target].status \in Settled
    ELSE order[task[r.task].target].status \in Settled

Knows(r) == KnowsChallenge(r) /\ KnowsOrder(r) /\ KnowsSettled(r)

(* The copy of a request: a response saw the challenge pending, a           *)
(* finalization saw the order open.                                         *)
KnowsRequest(r) ==
  /\ r.pc \in {"respAuthz", "respCount", "respStore"} =>
       /\ r.copy.rev <= ch[r.id].rev
       /\ r.copy.rev = ch[r.id].rev => ch[r.id].status = "pending"
  /\ r.pc = "respStore" => r.copy.status = "processing"
  /\ r.pc \in {"finDerive", "finStore"} =>
       /\ r.copy.rev <= order[r.id].rev
       /\ r.copy.rev = order[r.id].rev => order[r.id].status \in Open
       /\ r.copy.op = None
  /\ r.pc = "finStore" => r.copy.status = "processing" /\ r.copy.csr = r.csr

(* What the store says about itself. *)
TaskFollowsStatus ==
  \A t \in TaskIDs : ~FreshTask(t) =>
    IF task[t].kind = "validate" THEN ch[task[t].target].status # "pending"
    ELSE order[task[t].target].status \notin Open
OrderFollowsStatus ==
  \A o \in Orders :
    /\ order[o].status \in Open => order[o].csr = None /\ order[o].op = None
    /\ order[o].op # None =>
         ~FreshTask(order[o].op) /\ task[order[o].op].kind = "issue" /\ task[order[o].op].target = o

(* No copy of the current revision misleads its holder, so a commit that   *)
(* passes its revision checks continues from what is stored; from this     *)
(* WorkTracked, OneOperation and AcknowledgedCSR follow step by step.      *)
Coherent ==
  /\ TypeInv
  /\ \A w \in Workers : Knows(run[w])
  /\ \A h \in Handlers : KnowsRequest(hand[h])
  /\ TaskFollowsStatus /\ OrderFollowsStatus
  /\ WorkTracked /\ OneOperation /\ AcknowledgedCSR

-----------------------------------------------------------------------------
(* What runs and requests know of the authorizations, and what follows for  *)
(* the order.                                                                *)

AuthzIn(r) == AuthzOf[task[r.task].target]

(* The authorization copy of a validation run.  One of the current revision *)
(* is what is stored, or decides an authorization that is still pending;    *)
(* and a verdict that rests on a decided authorization stays one.           *)
KnowsAuthz(r) ==
  LET a == AuthzIn(r) IN
  r.pc \in HoldsAuthz =>
    /\ r.authz.rev <= authz[a].rev
    /\ r.authz.rev = authz[a].rev =>
         \/ r.authz = authz[a]
         \/ authz[a].status = "pending" /\ r.authz.status \in {"pending", "valid", "invalid"}
    /\ r.pc = "validate" => r.authz.status = "pending"
    /\ r.ch.status = "valid" =>
         /\ r.authz.status = "valid"
         /\ r.authz.rev = authz[a].rev => authz[a].status = "pending"
    /\ r.ch.status # "valid" /\ r.authz.status \notin {"pending", "invalid"} =>
         authz[a].status # "pending"

(* What completeValidation derived so far for a pending order that nobody  *)
(* has written since it was read, with the run's own authorization         *)
(* standing in for the stored one.                                         *)
Seen(r, b) == IF b = AuthzIn(r) THEN r.authz.status ELSE authz[b].status
Derived(r, o, status) ==
  /\ status = "ready" => \A b \in AuthzsOf(o) \ r.todo : Seen(r, b) = "valid"
  /\ status = "pending" =>
       /\ r.authz.status \notin TerminalAuthz
       /\ \E b \in AuthzsOf(o) \ r.todo : Seen(r, b) = "pending"
KnowsDerived(r) ==
  LET o == OrderIn(r) IN
  r.pc \in {"derive", "complete"} =>
    /\ r.todo \subseteq AuthzsOf(o) /\ AuthzIn(r) \notin r.todo
    /\ r.pc = "complete" => r.todo = {}
    /\ r.order.rev = order[o].rev /\ order[o].status = "pending" =>
         Derived(r, o, IF r.pc = "derive" THEN r.status ELSE r.order.status)

(* The fields of an order copy that no property above needed: a copy of    *)
(* the current revision differs from the stored order only in what the     *)
(* run is about to write.                                                  *)
KnowsFields(r) ==
  LET o == OrderIn(r) IN
  /\ r.pc \in {"derive", "complete"} /\ r.order.rev = order[o].rev =>
       /\ r.pc = "derive" => r.order.status = order[o].status
       /\ r.order.deadline = order[o].deadline
       /\ r.order.cert = order[o].cert /\ r.order.unpublished = order[o].unpublished
  /\ r.pc \in {"issue", "await"} => r.order.deadline = order[o].deadline
  /\ r.pc = "record" /\ r.order.op # None =>
       order[o].op = r.order.op /\ r.order.deadline = order[o].deadline

(* The snapshot a dispatch is decided from, and the deadline it proposes.  *)
Covers(deadline, a) ==
  deadline <= a.expires /\ (a.grantExpires # None => deadline <= a.grantExpires)
KnowsDispatch(r) ==
  LET o == OrderIn(r) IN
  /\ r.pc \in {"dispatchAccount", "snapshot", "policy"} => r.order.op = None
  /\ r.pc \in {"snapshot", "policy", "begin"} =>
       /\ r.order.deadline <= OrderLifetime
       /\ r.pc # "snapshot" => r.todo = {}
       /\ \A a \in AuthzsOf(o) \ r.todo :
            /\ r.snap[a] \in AuthzRec /\ r.snap[a].rev <= authz[a].rev
            /\ r.snap[a].rev = authz[a].rev => r.snap[a] = authz[a]
            /\ Covers(r.order.deadline, r.snap[a])

(* The outcome a run is about to record is the one the CA decided on. *)
KnowsResult(r) ==
  LET op == r.order.op IN
  r.pc = "record" =>
    /\ r.order.status = "valid" =>
         /\ r.leaf \in Leaves \ BadLeaves /\ r.order.cert = r.leaf
         /\ op # None /\ ca[op].state = "issued" /\ ca[op].leaf = r.leaf
    /\ r.order.status = "invalid" =>
         /\ r.leaf = None
         /\ op # None => \/ ca[op].state = "rejected"
                         \/ ca[op].state = "issued" /\ r.order.unpublished

(* The copy of a deactivation, and what a finalization derived so far. *)
KnowsAuthzs(r) ==
  /\ r.pc = "deactivate" =>
       /\ r.copy.status = "deactivated" /\ r.copy.rev <= authz[r.id].rev
       /\ r.copy.rev = authz[r.id].rev =>
            /\ authz[r.id].status \in {"pending", "valid"}
            /\ r.copy.expires = authz[r.id].expires /\ r.copy.grantExpires = authz[r.id].grantExpires
  /\ r.pc = "finStore" => r.todo = {}
  /\ /\ r.pc = "finStore" \/ (r.pc = "finDerive" /\ r.status = "ready")
     /\ r.copy.rev = order[r.id].rev
     => \A b \in AuthzsOf(r.id) \ r.todo : authz[b].status = "valid"

(* The deadline recorded with a dispatch, and known to the CA, covers the  *)
(* order and its authorizations, none of which is undecided any more.      *)
DeadlineCovers ==
  /\ \A o \in Orders : order[o].op # None =>
       /\ order[o].deadline <= OrderLifetime
       /\ \A a \in AuthzsOf(o) :
            authz[a].status # "pending" /\ Covers(order[o].deadline, authz[a])
  /\ \A op \in TaskIDs : ca[op].state # "unknown" =>
       ca[op].deadline = order[task[op].target].deadline

(* A dispatched order that is settled has settled with the CA. *)
SettledWithCA(o) ==
  LET op == order[o].op IN
  /\ op # None =>
       \/ order[o].status = "processing"
       \/ order[o].status = "valid" /\ order[o].cert = ca[op].leaf
       \/ order[o].status = "invalid" /\ ca[op].state = "rejected"
       \/ order[o].status = "invalid" /\ ca[op].state = "issued" /\ order[o].unpublished
  /\ order[o].status = "valid" <=> \E l \in Leaves : cert[l] = o
  /\ \A l \in Leaves : cert[l] = o =>
       /\ op # None /\ ca[op].state = "issued"
       /\ order[o].cert = l /\ ca[op].leaf = l /\ l \notin BadLeaves
ResultFollows ==
  /\ \A o \in Orders : SettledWithCA(o)
  /\ \A op \in TaskIDs : ca[op].state = "issued" => ca[op].leaf \in Leaves

(* The order agrees with its authorizations, an authorization with its     *)
(* challenges and a certificate with the CA, and every run and request     *)
(* whose copies are current knows that they do.                            *)
Informed(r) ==
  KnowsAuthz(r) /\ KnowsDerived(r) /\ KnowsFields(r) /\ KnowsDispatch(r) /\ KnowsResult(r)
Agreed ==
  /\ Coherent
  /\ \A w \in Workers : Informed(run[w])
  /\ \A h \in Handlers : KnowsAuthzs(hand[h])
  /\ OrderAgrees /\ EvidenceExists /\ DeadlineCovers /\ ResultFollows
=============================================================================
