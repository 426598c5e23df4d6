---------------------------- MODULE OrderLifecycle ----------------------------
(***************************************************************************)
(* The life of an order from its creation to its certificate: the request  *)
(* handlers, the validation and issuance workers and the CA, which         *)
(* interact only through the Store.                                        *)
(***************************************************************************)
EXTENDS ValidationWorker, IssuanceWorker, RequestHandlers

vars == <<now, account, order, authz, ch, task, cert, run, faults, ca, hand, acked>>

Init == StoreInit /\ WorkerInit /\ CAInit /\ HandlerInit

Tick ==
  /\ now < MaxTime
  /\ now' = now + 1
  /\ UNCHANGED <<storeVars, run, faults, ca, hand, acked>>

(* What a worker does on its own, and what befalls it. *)
WorkerSteps(w) ==
  /\ \/ (Claim(w) \/ Reschedule(w) \/ Finish(w) \/ ValidationStep(w)) /\ UNCHANGED ca
     \/ IssuanceStep(w)
  /\ UNCHANGED <<hand, acked>>
WorkerFaults(w) ==
  /\ \/ (ClaimLapsed(w) \/ Crash(w) \/ CallFails(w) \/ ValidateErrs(w)) /\ UNCHANGED ca
     \/ PolicyErrs(w) \/ AnswerMuddled(w) \/ AnswerPending(w)
  /\ UNCHANGED <<hand, acked>>
CAStep(op) == (CASigns(op) \/ CARejects(op)) /\ UNCHANGED <<hand, acked>>

(* Nothing is left to do and the clock has reached its bound.  Any other   *)
(* state without a successor is a deadlock.                                *)
Rest ==
  /\ now = MaxTime
  /\ \A w \in Workers : run[w].pc = "idle"
  /\ \A h \in Handlers : hand[h].pc = "idle"
  /\ \A t \in TaskIDs : ~Live(t) /\ ca[t].state # "open"
  /\ UNCHANGED vars

Next ==
  \/ Tick
  \/ \E w \in Workers : WorkerSteps(w) \/ WorkerFaults(w)
  \/ \E op \in TaskIDs : CAStep(op)
  \/ \E h \in Handlers : HandlerStep(h) /\ UNCHANGED <<run, faults, ca>>
  \/ Rest

Spec == Init /\ [][Next]_vars

(* The store, the local state of runs and requests and the CA's records    *)
(* keep their types.                                                       *)
TypeOK == StoreTypeOK /\ WorkerTypeOK /\ IssuanceTypeOK /\ HandlerTypeOK

-----------------------------------------------------------------------------
(* Safety. *)

(* Accepted work is never lost and never doubled: a processing challenge   *)
(* has an unfinished validation task and a processing order an unfinished  *)
(* issuance task, whichever crashes, lapsed leases and conflicts runs      *)
(* suffer (AcceptChallenge and FinalizeOrder enqueue with the status       *)
(* change, CompleteValidation and CompleteIssuance dequeue with theirs),   *)
(* and no target is ever given a second task.                              *)
WorkTracked ==
  /\ \A c \in Challenges : ch[c].status = "processing" =>
       \E t \in LiveTasks("validate") : task[t].target = c
  /\ \A o \in Orders : order[o].status = "processing" =>
       \E t \in LiveTasks("issue") : task[t].target = o
  /\ \A s, t \in TaskIDs :
       ~FreshTask(s) /\ ~FreshTask(t) /\ s # t =>
         task[s].kind # task[t].kind \/ task[s].target # task[t].target

(* The CA only ever hears of an operation that the order had recorded      *)
(* durably, so one order has one OperationID on every attempt, from        *)
(* whichever worker (beginIssuance commits before the first CA call).      *)
OneOperation ==
  \A op \in TaskIDs : ca[op].state # "unknown" =>
    \E o \in Orders : task[op].target = o /\ order[o].op = op

(* The stored order agrees with its stored authorizations at every moment, *)
(* although each validation derives the status from reads that others may  *)
(* overtake: a pending order has an authorization still to be decided and  *)
(* none that failed; a ready order, and a processing one not yet           *)
(* dispatched, rest on valid authorizations only.                          *)
OrderAgrees ==
  \A o \in Orders :
    /\ order[o].status = "pending" =>
         /\ \E a \in AuthzsOf(o) : authz[a].status = "pending"
         /\ \A a \in AuthzsOf(o) : authz[a].status \notin TerminalAuthz
    /\ order[o].status = "ready" \/ (order[o].status = "processing" /\ order[o].op = None) =>
         \A a \in AuthzsOf(o) : authz[a].status = "valid"

(* validationEvidence finds a successful challenge behind every valid      *)
(* authorization that was not pre-approved, and no challenge succeeded     *)
(* without its authorization.                                              *)
EvidenceExists ==
  /\ \A a \in Authzs : authz[a].status = "valid" => HasEvidence(a)
  /\ \A c \in Challenges : ch[c].status = "valid" => authz[AuthzOf[c]].status \in {"valid", "deactivated"}

(* Every certificate the CA signed is accounted for: published by exactly  *)
(* its order, withheld on the invalid order as UnpublishedResult, or still *)
(* to be fetched by the order's task; and nothing else is published.       *)
ResultRetained ==
  \A o \in Orders :
    LET op == order[o].op IN
    /\ op # None /\ ca[op].state = "issued" =>
         \/ order[o].status = "processing"
         \/ order[o].status = "valid" /\ order[o].cert = ca[op].leaf
         \/ order[o].status = "invalid" /\ order[o].unpublished
    /\ order[o].status = "valid" <=> \E l \in Leaves : cert[l] = o
    /\ \A l \in Leaves : cert[l] = o =>
         op # None /\ order[o].cert = l /\ ca[op].leaf = l /\ l \notin BadLeaves

(* A client that was told its finalization succeeded has its CSR in the    *)
(* order for good, also when two finalizations race (serveFinalize).       *)
AcknowledgedCSR == \A p \in acked : order[p[1]].csr = p[2]

(* The bound on an account's validations is exceeded by no more than the   *)
(* requests that passed the check together (acceptChallenge).              *)
BacklogBounded ==
  Cardinality(LiveTasks("validate")) + Cardinality({h \in Handlers : hand[h].pc = "respStore"})
    <= MaxPendingValidations - 1 + Cardinality(Handlers)

-----------------------------------------------------------------------------
(* Action properties. *)

(* Statuses only move as CanTransition allows, and a CSR, an OperationID   *)
(* and a certificate stay once set.  Nothing in the commit paths checks    *)
(* the move: the revisions and fences have to.                             *)
LegalMoves ==
  [][/\ \A o \in Orders :
          /\ order'[o].status # order[o].status => <<order[o].status, order'[o].status>> \in OrderMoves
          /\ order[o].csr # None => order'[o].csr = order[o].csr
          /\ order[o].op # None => order'[o].op = order[o].op /\ order'[o].deadline = order[o].deadline
     /\ \A a \in Authzs : authz'[a].status # authz[a].status =>
          <<authz[a].status, authz'[a].status>> \in AuthzMoves
     /\ \A c \in Challenges : ch'[c].status # ch[c].status =>
          <<ch[c].status, ch'[c].status>> \in ChallengeMoves]_vars

(* A run whose task was claimed again, or finished, by another worker      *)
(* changes nothing in the store, at whichever step it was overtaken.       *)
StaleRunWritesNothing ==
  [][\A w \in Workers :
       LET t == run[w].task IN
       run'[w] # run[w] /\ run[w].pc # "idle" /\ ~(Live(t) /\ Holds(w, t))
         => UNCHANGED storeVars]_vars

(* An order is dispatched only while its account and all its               *)
(* authorizations are valid at that very step, not merely when the worker  *)
(* read them (BeginIssuance).                                              *)
DispatchIsCurrent ==
  [][\A o \in Orders : order[o].op = None /\ order'[o].op # None =>
       /\ account.status = "valid"
       /\ \A a \in AuthzsOf(o) : authz[a].status = "valid" /\ HasEvidence(a)]_vars

(* The CA never signs once the order, one of its authorizations or an      *)
(* authority token has expired: the Deadline recorded at dispatch covers   *)
(* them all, and later attempts keep it.                                   *)
SignsInTime ==
  [][\A op \in TaskIDs : ca[op].state # "issued" /\ ca'[op].state = "issued" =>
       LET o == task[op].target IN
       /\ now < OrderLifetime
       /\ \A a \in AuthzsOf(o) :
            /\ now < authz[a].expires
            /\ authz[a].grantExpires # None => now < authz[a].grantExpires]_vars

-----------------------------------------------------------------------------
(* The order machine is implemented: every step is a step of OrderMachine  *)
(* or changes none of the statuses.                                        *)
Machine == INSTANCE OrderMachine WITH
  ord <- [o \in Orders |-> order[o].status],
  az <- [a \in Authzs |-> authz[a].status],
  chal <- [c \in Challenges |-> ch[c].status],
  csr <- [o \in Orders |-> order[o].csr],
  sent <- {o \in Orders : order[o].op # None}

(* The server, its workers and its store together do what OrderMachine     *)
(* promises, atomically as seen from the stored statuses.                  *)
ImplementsMachine == Machine!Spec

-----------------------------------------------------------------------------
(* Liveness.  A worker that can go on does, a CA decides what it accepted, *)
(* and the faults of a behaviour are finitely many; clients need not act.  *)
Fairness ==
  /\ \A w \in Workers : WF_vars(WorkerSteps(w))
  /\ \A op \in TaskIDs : WF_vars(CAStep(op))
FairSpec == Spec /\ Fairness

(* Work that was accepted is done: a challenge response is decided, and a  *)
(* finalized order becomes valid or invalid, whatever attempts fail (Run,  *)
(* runValidation, runIssuance).                                            *)
WorkSettles ==
  /\ \A c \in Challenges : ch[c].status = "processing" ~> ch[c].status \in {"valid", "invalid"}
  /\ \A o \in Orders : order[o].status = "processing" ~> order[o].status \in {"valid", "invalid"}
=============================================================================
