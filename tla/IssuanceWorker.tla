--------------------------- MODULE IssuanceWorker ---------------------------
(***************************************************************************)
(* The issuance run of issuance.go (runIssuance, beginIssuance,            *)
(* recordIssuedResult, failOrder), one action per Store, policy or issuer  *)
(* call, and the external CA behind the Issuer interface.                  *)
(***************************************************************************)
EXTENDS Worker

CONSTANT BadLeaves  \* leaves that checkChain refuses

ASSUME LeafAssumption == BadLeaves \subseteq Leaves

VARIABLE ca  \* the CA's record of each OperationID

CARec == [state : {"unknown", "open", "issued", "rejected"}, leaf : Leaves \cup {None}, deadline : Nat]
CAInit == ca = [op \in TaskIDs |-> [state |-> "unknown", leaf |-> None, deadline |-> 0]]

(* A step of the run that changes neither the store nor the CA. *)
Step(w, r) ==
  /\ run' = [run EXCEPT ![w] = r]
  /\ UNCHANGED <<now, storeVars, ca>>

(* A dispatch that does not happen leaves Issuance nil. *)
NoDispatch(r) == [r EXCEPT !.order.deadline = 0]
(* failOrder: the copy that the next step commits. *)
Fail(r) == [r EXCEPT !.pc = "record", !.order.status = "invalid", !.leaf = None,
                     !.todo = {}, !.at = 0, !.acct = 0, !.snap = NoSnapshot]
(* issueRequest reads the clock just before the CA is called. *)
Request(r) == [r EXCEPT !.pc = "issue", !.recoveryOnly = r.order.deadline <= now,
                        !.todo = {}, !.at = 0, !.acct = 0, !.snap = NoSnapshot]

-----------------------------------------------------------------------------
(* issuanceOrder: recovery goes straight to the CA, dispatch comes first. *)
ReadIssuanceOrder(w) ==
  LET o == Target(w)
      r == [run[w] EXCEPT !.order = order[o]]
  IN  /\ run[w].pc = "issuanceOrder"
      /\ Step(w, IF order[o].status # "processing" THEN [run[w] EXCEPT !.pc = "finish"]
                 ELSE IF order[o].op # None THEN Request(r)
                 ELSE [r EXCEPT !.pc = "dispatchAccount"])
      /\ UNCHANGED faults

(* dispatchSnapshot: the order's expiry, then the account. *)
DispatchAccount(w) ==
  LET r == run[w] IN
  /\ r.pc = "dispatchAccount"
  /\ Step(w, IF OrderLifetime <= now \/ account.status # "valid" THEN Fail(r)
             ELSE [r EXCEPT !.pc = "snapshot", !.acct = account.rev, !.at = now,
                            !.todo = AuthzsOf(Target(w)), !.order.deadline = OrderLifetime])
  /\ UNCHANGED faults

\* Mutant: the order's own expiry is kept.
EarlierIgnored(d, e) == d
(* issuanceAuthorization: the snapshot and the earliest deadline.          *)
Earlier(d, e) == IF e # None /\ e < d THEN e ELSE d
HasEvidence(a) == a \in PreApproved \/ \E c \in ChallengesOf(a) : ch[c].status = "valid"
Dispatchable(a, t) ==
  /\ EffectiveAuthzStatus(a, t) = "valid"
  /\ a.grantExpires = None \/ a.grantExpires > t

(* One authorization and its evidence; missing evidence is an error that   *)
(* only releases the task.                                                 *)
Snapshot(w) ==
  LET r == run[w] IN
  /\ r.pc = "snapshot"
  /\ \E a \in r.todo :
       LET next == [r EXCEPT !.snap[a] = authz[a], !.todo = @ \ {a},
                             !.order.deadline = Earlier(Earlier(@, authz[a].expires), authz[a].grantExpires)]
       IN  Step(w, IF ~Dispatchable(authz[a], r.at) THEN Fail(NoDispatch(r))
                   ELSE IF ~HasEvidence(a) THEN [r EXCEPT !.pc = "reschedule"]
                   ELSE IF r.todo = {a} THEN [next EXCEPT !.pc = "policy"]
                   ELSE next)
  /\ UNCHANGED faults

\* Mutant: the CA is called before the dispatch is recorded.
PolicyAllowsUnrecorded(w) ==
  LET r == run[w] IN
  /\ r.pc = "policy"
  /\ Step(w, IF r.order.deadline <= now THEN Fail(NoDispatch(r))
             ELSE Request([r EXCEPT !.order.op = r.task]))
  /\ UNCHANGED faults
(* checkIssuancePolicy, then the deadline once more.  A failure drops the  *)
(* proposed Issuance.                                                      *)
PolicyAllows(w) ==
  LET r == run[w] IN
  /\ r.pc = "policy"
  /\ Step(w, IF r.order.deadline <= now THEN Fail(NoDispatch(r))
             ELSE [r EXCEPT !.pc = "begin", !.order.op = r.task])
  /\ UNCHANGED faults

PolicyRefuses(w) ==
  /\ run[w].pc = "policy"
  /\ Step(w, Fail(NoDispatch(run[w])))
  /\ UNCHANGED faults

PolicyErrs(w) ==
  LET r == run[w] IN
  /\ r.pc = "policy"
  /\ Step(w, IF r.fence < MaxAttempts THEN [r EXCEPT !.pc = "reschedule"] ELSE Fail(NoDispatch(r)))
  /\ Fault

(* storeDispatch: any failure releases the task. *)
StoreDispatch(w) ==
  LET r == run[w] IN
  /\ r.pc = "begin"
  /\ BeginIssuance(r.task, r.fence, Target(w), r.order, r.acct, r.snap, r.at)
  /\ run' = [run EXCEPT ![w] = Request([r EXCEPT !.order = Stored(@)])]
  /\ UNCHANGED <<now, faults, ca>>

DispatchConflict(w) ==
  LET r == run[w] IN
  /\ r.pc = "begin"
  /\ ~DispatchCurrent(r.task, r.fence, Target(w), r.order, r.acct, r.snap, r.at)
  /\ Step(w, [r EXCEPT !.pc = "reschedule"])
  /\ UNCHANGED faults

-----------------------------------------------------------------------------
(* The CA, from the contract of Issuer (issuer.go): one durable result per *)
(* OperationID, and no new signing for a RecoveryOnly request or past the  *)
(* Deadline.                                                               *)
Issue(w) ==
  LET r == run[w]
      op == r.order.op
      opened == [state |-> IF r.recoveryOnly \/ r.order.deadline <= now THEN "rejected" ELSE "open",
                 leaf |-> None, deadline |-> r.order.deadline]
  IN  /\ r.pc = "issue"
      /\ ca' = IF ca[op].state = "unknown" THEN [ca EXCEPT ![op] = opened] ELSE ca
      /\ Goto(w, "await")
      /\ UNCHANGED <<now, storeVars, faults>>

CASigns(op) ==
  /\ ca[op].state = "open" /\ now < ca[op].deadline
  /\ \E l \in Leaves : ca' = [ca EXCEPT ![op].state = "issued", ![op].leaf = l]
  /\ UNCHANGED <<now, storeVars, run, faults>>
CARejects(op) ==
  /\ ca[op].state = "open"
  /\ ca' = [ca EXCEPT ![op].state = "rejected"]
  /\ UNCHANGED <<now, storeVars, run, faults>>

-----------------------------------------------------------------------------
(* The answer.  A chain that fails its checks, or that comes with an error *)
(* or another outcome, is kept as UnpublishedResult.                       *)
Publish(r, l) == [r EXCEPT !.pc = "record", !.leaf = l,
                           !.order.status = "valid", !.order.cert = l]
\* Mutant: an unacceptable chain is dropped.
WithholdNothing(r) == Fail([r EXCEPT !.order.cert = None])
Withhold(r) == Fail([r EXCEPT !.order.unpublished = TRUE, !.order.cert = None])

AnswerIssued(w) ==
  LET r == run[w]
      l == ca[r.order.op].leaf
  IN  /\ r.pc = "await" /\ ca[r.order.op].state = "issued"
      /\ Step(w, IF l \in BadLeaves THEN Withhold(r) ELSE Publish(r, l))
      /\ UNCHANGED faults

AnswerMuddled(w) ==
  /\ run[w].pc = "await" /\ ca[run[w].order.op].state = "issued"
  /\ Step(w, Withhold(run[w]))
  /\ Fault

AnswerRejected(w) ==
  /\ run[w].pc = "await" /\ ca[run[w].order.op].state = "rejected"
  /\ Step(w, Fail(run[w]))
  /\ UNCHANGED faults

AnswerPending(w) ==
  /\ run[w].pc = "await" /\ ca[run[w].order.op].state = "open"
  /\ Step(w, [run[w] EXCEPT !.pc = "reschedule"])
  /\ Fault

(* recordIssuedResult and failOrder commit through CompleteIssuance. *)
Record(w) ==
  LET r == run[w] IN
  /\ r.pc = "record"
  /\ CompleteIssuance(r.task, r.fence, Target(w), r.order, r.leaf)
  /\ End(w)
  /\ UNCHANGED <<now, faults, ca>>

(* ErrConflict: the leaf is stored already, so the result is withheld. Any *)
(* other failure releases the task.                                        *)
RecordFails(w) ==
  LET r == run[w]
      current == CheckTask(r.task, r.fence) /\ CheckOrder(Target(w), r.order)
  IN  /\ r.pc = "record"
      /\ \/ current /\ r.leaf # None /\ cert[r.leaf] # None /\ Step(w, Withhold(r))
         \/ ~current /\ Step(w, [r EXCEPT !.pc = "reschedule"])
      /\ UNCHANGED faults

IssuanceStep(w) ==
  \/ ReadIssuanceOrder(w) \/ DispatchAccount(w) \/ Snapshot(w)
  \/ PolicyAllows(w) \/ PolicyRefuses(w) \/ StoreDispatch(w) \/ DispatchConflict(w)
  \/ Issue(w) \/ AnswerIssued(w) \/ AnswerRejected(w)
  \/ Record(w) \/ RecordFails(w)

IssuanceTypeOK == ca \in [TaskIDs -> CARec]
=============================================================================
