--------------------------- MODULE CoherenceProofs ----------------------------
(*****************************************************************************)
(* The order lifecycle, for every set of orders, authorizations, challenges, *)
(* workers and requests.  First what the writes of the Store and the copies  *)
(* that runs and requests hold have in common in every proof: their types,   *)
(* and what they leave alone.  Then TypeInv is an invariant, and a run that  *)
(* was overtaken writes nothing.  Then Coherent is one: no copy of the       *)
(* current revision misleads its holder.  That accepted work is tracked,     *)
(* that an order has one operation at the CA and that an acknowledged CSR    *)
(* stays are consequences.                                                   *)
(*****************************************************************************)
EXTENDS LifecycleInvariant, TLAPS

(* A leaf goes to Zenon unless it names another prover. *)
USE ZenonT(20)

-----------------------------------------------------------------------------
(* The writes of the Store and the copies. *)

(* The empty dispatch snapshot is typed. *)
LEMMA NoSnapshotType == NoSnapshot \in [Authzs -> AuthzRec \cup {None}]
BY DEF NoSnapshot

(* Withdrawing a dispatch leaves a typed order copy (beginIssuance). *)
LEMMA NoDispatchType ==
  ASSUME NEW r \in RunRec, r.order \in OrderRec
  PROVE  /\ NoDispatch(r) \in RunRec
         /\ NoDispatch(r).order \in OrderRec
         /\ NoDispatch(r).task = r.task
<1>1. [r.order EXCEPT !.deadline = 0] \in OrderRec
  BY DEF OrderRec
<1> QED BY <1>1 DEF RunRec, NoDispatch

(* issueRequest makes a typed request from the order copy it leaves alone. *)
LEMMA RequestType ==
  ASSUME NEW r \in RunRec, r.order \in OrderRec, now \in Nat
  PROVE  /\ Request(r) \in RunRec
         /\ Request(r).order = r.order
         /\ Request(r).pc = "issue"
         /\ Request(r).task = r.task
<1> DEFINE late == r.order.deadline <= now
           q(b) == [r EXCEPT !.pc = "issue", !.recoveryOnly = b, !.todo = {}, !.at = 0,
                             !.acct = 0, !.snap = NoSnapshot]
<1>1. \A b \in BOOLEAN :
        q(b) \in RunRec /\ q(b).order = r.order /\ q(b).pc = "issue" /\ q(b).task = r.task
  BY NoSnapshotType DEF RunRec, PC, IssuancePC
<1>2. late \in BOOLEAN
  BY SMT DEF OrderRec
<1>3. Request(r) = q(late)
  BY DEF Request
<1> HIDE DEF late, q
<1> QED BY <1>1, <1>2, <1>3

(* What TypeInv says of the store and of one worker's run. *)
LEMMA RunFacts ==
  ASSUME TypeInv, NEW w \in Workers
  PROVE  /\ run[w] \in RunRec /\ TypedRun(run[w]) /\ now \in Nat
         /\ account \in AccountRec /\ order \in [Orders -> OrderRec]
         /\ authz \in [Authzs -> AuthzRec] /\ ch \in [Challenges -> ChallengeRec]
         /\ faults \in 0..MaxFaults
         /\ run[w].pc \in ValidationPC =>
              /\ Target(w) \in Challenges /\ AuthzOf[Target(w)] \in Authzs
              /\ OrderOf[AuthzOf[Target(w)]] \in Orders
         /\ run[w].pc \in IssuancePC => Target(w) \in Orders
<1>1. /\ run[w] \in RunRec /\ TypedRun(run[w]) /\ now \in Nat
      /\ account \in AccountRec /\ order \in [Orders -> OrderRec]
      /\ authz \in [Authzs -> AuthzRec] /\ ch \in [Challenges -> ChallengeRec]
      /\ faults \in 0..MaxFaults
  BY SMT, StoreAssumption DEF TypeInv, TypeOK, StoreTypeOK, WorkerTypeOK
<1>2. run[w].pc # "idle" => run[w].task \in TaskIDs /\ TypedTask(run[w].task) /\ ~FreshTask(run[w].task)
  BY <1>1 DEF TypeInv, TypedRun
<1>3. run[w].pc \in ValidationPC => Target(w) \in Challenges
  BY <1>1, <1>2 DEF TypedRun, TypedTask, Target, ValidationPC
<1>4. run[w].pc \in IssuancePC => Target(w) \in Orders
  BY <1>1, <1>2 DEF TypedRun, TypedTask, Target, IssuancePC
<1> QED BY <1>1, <1>3, <1>4, StoreAssumption

(* Tasks keep their kind and target once enqueued. *)
KeepsTasks ==
  \A t \in TaskIDs :
    /\ TypedTask(t)'
    /\ ~FreshTask(t) => ~FreshTask(t)' /\ task'[t].kind = task[t].kind /\ task'[t].target = task[t].target

(* Advancing the Revision keeps the type of a resource. *)
LEMMA StoredType ==
  /\ \A x \in OrderRec : Stored(x) \in OrderRec /\ Stored(x).op = x.op
  /\ \A x \in AuthzRec : Stored(x) \in AuthzRec
  /\ \A x \in ChallengeRec : Stored(x) \in ChallengeRec
  /\ \A x \in AccountRec : Stored(x) \in AccountRec
BY SMT DEF Stored, OrderRec, AuthzRec, ChallengeRec, AccountRec

(* insertTask keeps the task table typed and the other tasks as they were. *)
LEMMA InsertType ==
  ASSUME TypeInv, NEW kind \in {"validate", "issue"}, NEW target,
         kind = "validate" => target \in Challenges, kind = "issue" => target \in Orders,
         InsertTask(kind, target)
  PROVE  task' \in [TaskIDs -> TaskRec] /\ KeepsTasks
<1> DEFINE n == NextTaskID
           e == [state |-> "queued", kind |-> kind, target |-> target, fence |-> 0]
<1>1. n \in TaskIDs /\ FreshTask(n)
  BY DEF InsertTask, NextTaskID
<1>2. task' = [task EXCEPT ![n] = e]
  BY DEF InsertTask
<1>3. task \in [TaskIDs -> TaskRec]
  BY DEF TypeInv, TypeOK, StoreTypeOK
<1>4. e \in TaskRec
  BY DEF TaskRec
<1> HIDE DEF n
<1>5. task' \in [TaskIDs -> TaskRec]
  BY <1>1, <1>2, <1>3, <1>4
<1>6. KeepsTasks
  <2> SUFFICES ASSUME NEW t \in TaskIDs
               PROVE  /\ TypedTask(t)'
                      /\ ~FreshTask(t) => ~FreshTask(t)' /\ task'[t].kind = task[t].kind
                                          /\ task'[t].target = task[t].target
    BY DEF KeepsTasks
  <2>1. CASE t = n
    BY <1>1, <1>2, <1>3, <2>1 DEF TypedTask, FreshTask
  <2>2. CASE t # n
    BY <1>1, <1>2, <1>3, <2>2 DEF TypedTask, FreshTask, TypeInv
  <2> QED BY <2>1, <2>2
<1> QED BY <1>5, <1>6

(* So does any change of the state and fence of a used task. *)
LEMMA TaskUpdateType ==
  ASSUME TypeInv, NEW t \in TaskIDs, ~FreshTask(t),
         NEW s \in {"queued", "leased", "gone"}, NEW f \in Nat,
         task' = [task EXCEPT ![t].state = s, ![t].fence = f]
  PROVE  task' \in [TaskIDs -> TaskRec] /\ KeepsTasks
<1>1. task \in [TaskIDs -> TaskRec]
  BY DEF TypeInv, TypeOK, StoreTypeOK
<1> DEFINE e == [task[t] EXCEPT !.state = s, !.fence = f]
<1>2. e \in TaskRec /\ e.kind = task[t].kind /\ e.target = task[t].target /\ e.state = s
  BY <1>1 DEF TaskRec
<1>3. task' = [task EXCEPT ![t] = e]
  BY <1>1
<1> HIDE DEF e
<1>4. task' \in [TaskIDs -> TaskRec]
  BY <1>1, <1>2, <1>3
<1>5. KeepsTasks
  <2> SUFFICES ASSUME NEW u \in TaskIDs
               PROVE  /\ TypedTask(u)'
                      /\ ~FreshTask(u) => ~FreshTask(u)' /\ task'[u].kind = task[u].kind
                                          /\ task'[u].target = task[u].target
    BY DEF KeepsTasks
  <2> TypedTask(u)
    BY DEF TypeInv
  <2> QED BY <1>1, <1>2, <1>3 DEF TypedTask, FreshTask
<1> QED BY <1>4, <1>5

(* So does a method that leaves the task table alone. *)
LEMMA SameTasks ==
  ASSUME TypeInv, task' = task
  PROVE  task' \in [TaskIDs -> TaskRec] /\ KeepsTasks
BY DEF TypeInv, TypeOK, StoreTypeOK, KeepsTasks, TypedTask, FreshTask

(* So do removeTask and RescheduleTask. *)
LEMMA ReleaseType ==
  ASSUME TypeInv, NEW t \in TaskIDs, ~FreshTask(t), RemoveTask(t) \/ ReleaseTask(t)
  PROVE  task' \in [TaskIDs -> TaskRec] /\ KeepsTasks
<1>1. task \in [TaskIDs -> TaskRec]
  BY DEF TypeInv, TypeOK, StoreTypeOK
<1>2. task[t].fence \in Nat
  BY <1>1 DEF TaskRec
<1>3. \E s \in {"queued", "leased", "gone"} :
        task' = [task EXCEPT ![t].state = s, ![t].fence = task[t].fence]
  BY <1>1 DEF RemoveTask, ReleaseTask, TaskRec
<1> QED BY <1>2, <1>3, TaskUpdateType

(* ClaimTask keeps the store typed. *)
LEMMA ClaimType ==
  ASSUME TypeInv, NEW t \in TaskIDs, ClaimTask(t), now' = now
  PROVE  StoreTypeOK' /\ KeepsTasks
<1>1. task \in [TaskIDs -> TaskRec]
  BY DEF TypeInv, TypeOK, StoreTypeOK
<1>2. task[t].fence + 1 \in Nat /\ ~FreshTask(t)
  BY SMT, <1>1 DEF TaskRec, ClaimTask, Live, FreshTask
<1>3. task' = [task EXCEPT ![t].state = "leased", ![t].fence = task[t].fence + 1]
  BY <1>1 DEF ClaimTask
<1>4. task' \in [TaskIDs -> TaskRec] /\ KeepsTasks
  BY <1>2, <1>3, TaskUpdateType
<1> QED BY <1>4 DEF ClaimTask, StoreTypeOK, TypeInv, TypeOK

(* A worker's step leaves the local state of every other run alone.        *)
LEMMA OwnRun ==
  ASSUME TypeInv, NEW v \in Workers, WorkerSteps(v) \/ WorkerFaults(v),
         NEW w \in Workers, w # v
  PROVE  run'[w] = run[w]
<1>0. run \in [Workers -> RunRec]
  BY DEF TypeInv, TypeOK, WorkerTypeOK
<1>1. ASSUME NEW r, Local(v, r) \/ Step(v, r) PROVE run'[w] = run[w]
  BY <1>0, <1>1 DEF Local, Step
<1>2. ASSUME End(v) \/ \E pc : Goto(v, pc) PROVE run'[w] = run[w]
  BY <1>0, <1>2 DEF End, Goto
<1>3. ASSUME NEW t, StartRun(v, t) PROVE run'[w] = run[w]
  BY <1>0, <1>3 DEF StartRun
<1>4. CASE ValidationStep(v) \/ ValidateErrs(v)
  BY <1>1, <1>2, <1>4
     DEF ValidationStep, ReadChallenge, ReadAuthorization, ReadAccount, ValidateSucceeds,
         ValidateRefuses, ValidateErrs, ReadOrder, DeriveOrderStatus, CommitValidation,
         CommitValidationFails, ReloadAuthorization, RetryRun
<1>5. CASE StoreDispatch(v)
  BY <1>0, <1>5 DEF StoreDispatch
<1>6. CASE IssuanceStep(v) \/ PolicyErrs(v) \/ AnswerMuddled(v) \/ AnswerPending(v)
  BY <1>1, <1>2, <1>5, <1>6
     DEF IssuanceStep, ReadIssuanceOrder, DispatchAccount, Snapshot, PolicyAllows, PolicyRefuses,
         PolicyErrs, DispatchConflict, Issue, AnswerIssued, AnswerMuddled, AnswerRejected,
         AnswerPending, Record, RecordFails
<1>7. CASE \/ Claim(v) \/ ClaimLapsed(v) \/ Reschedule(v) \/ Finish(v) \/ Crash(v) \/ CallFails(v)
  BY <1>2, <1>3, <1>7 DEF Claim, ClaimLapsed, Reschedule, Finish, Crash, CallFails
<1> QED BY <1>4, <1>6, <1>7 DEF WorkerSteps, WorkerFaults

(* InsertTask stores one queued task under an identifier not used before. *)
LEMMA Inserted ==
  ASSUME TypeInv, NEW kind, NEW target, InsertTask(kind, target)
  PROVE  \E n \in TaskIDs :
           /\ FreshTask(n)
           /\ task'[n] = [state |-> "queued", kind |-> kind, target |-> target, fence |-> 0]
           /\ \A t \in TaskIDs : t # n => task'[t] = task[t]
<1>1. NextTaskID \in TaskIDs /\ FreshTask(NextTaskID)
  BY DEF InsertTask, NextTaskID
<1> HIDE DEF NextTaskID
<1> QED BY <1>1 DEF InsertTask, TypeInv, TypeOK, StoreTypeOK

(* A request that answered is idle. *)
LEMMA FreeIdle ==
  Free.pc = "idle"
BY DEF Free

(* What the fields of a run range over, at each step. *)
LEMMA HeldTypes ==
  ASSUME TypeInv, NEW w \in Workers
  PROVE  /\ run[w].pc # "idle" =>
              /\ run[w].task \in TaskIDs /\ ~FreshTask(run[w].task)
              /\ OrderIn(run[w]) \in Orders
              /\ task[run[w].task].kind = "validate" => task[run[w].task].target \in Challenges
              /\ task[run[w].task].kind # "validate" => task[run[w].task].target \in Orders
         /\ run[w].pc \in HoldsCh => run[w].ch.rev \in Nat
         /\ run[w].pc \in HoldsOrder => run[w].order.rev \in Nat
<1>1. run[w] \in RunRec /\ TypedRun(run[w])
  BY RunFacts
<1>2. run[w].pc # "idle" =>
        /\ run[w].task \in TaskIDs /\ TypedTask(run[w].task) /\ ~FreshTask(run[w].task)
        /\ task[run[w].task] \in TaskRec
  BY <1>1 DEF TypeInv, TypedRun, TypeOK, StoreTypeOK
<1>3. run[w].pc # "idle" =>
        /\ task[run[w].task].kind = "validate" => task[run[w].task].target \in Challenges
        /\ task[run[w].task].kind # "validate" => task[run[w].task].target \in Orders
  BY <1>2 DEF TypedTask, TaskRec
<1>4. run[w].pc # "idle" => OrderIn(run[w]) \in Orders
  BY <1>3, StoreAssumption DEF OrderIn
<1>5. run[w].pc \in HoldsCh => run[w].ch.rev \in Nat
  BY <1>1 DEF TypedRun, ChallengeRec
<1>6. run[w].pc \in HoldsOrder => run[w].order.rev \in Nat
  BY <1>1 DEF TypedRun, OrderRec
<1> QED BY <1>2, <1>3, <1>4, <1>5, <1>6

(* deriveOrderStatus never returns a status past finalization. *)
LEMMA DeriveFrom ==
  ASSUME NEW sofar \in {"pending", "ready"}, NEW s
  PROVE  Derive(sofar, s) \in {"pending", "ready", "invalid"}
BY DEF Derive

(* Whether a run fails, withholds or publishes, it commits an outcome for  *)
(* the order as it was read.                                               *)
LEMMA OutcomeFields ==
  ASSUME NEW r \in RunRec, r.order \in OrderRec, NEW l,
         NEW f \in {Fail(r), Fail(NoDispatch(r)), Withhold(r), Publish(r, l)}
  PROVE  /\ f.pc = "record" /\ f.task = r.task /\ f.order.status \in Settled
         /\ f.order.rev = r.order.rev /\ f.order.csr = r.order.csr /\ f.order.op = r.order.op
<1> DEFINE SameOrder(q) ==
      /\ q.task = r.task /\ q.order.rev = r.order.rev
      /\ q.order.csr = r.order.csr /\ q.order.op = r.order.op
<1>1. ASSUME NEW q \in RunRec, q.order \in OrderRec, SameOrder(q)
      PROVE  Fail(q).pc = "record" /\ SameOrder(Fail(q)) /\ Fail(q).order.status = "invalid"
  <2>1. /\ Fail(q).pc = "record" /\ Fail(q).task = q.task
        /\ Fail(q).order = [q.order EXCEPT !.status = "invalid"]
    BY <1>1 DEF Fail, RunRec
  <2> QED BY <1>1, <2>1 DEF OrderRec
<1>2. NoDispatch(r) \in RunRec /\ NoDispatch(r).order \in OrderRec /\ SameOrder(NoDispatch(r))
  <2>1. NoDispatch(r).order = [r.order EXCEPT !.deadline = 0]
    BY DEF NoDispatch, RunRec
  <2> QED BY <2>1, NoDispatchType DEF OrderRec
<1> DEFINE u == [r EXCEPT !.order.unpublished = TRUE, !.order.cert = None]
<1>3. u \in RunRec /\ u.order \in OrderRec /\ SameOrder(u)
  BY DEF RunRec, OrderRec
<1>4. Withhold(r) = Fail(u)
  BY DEF Withhold
<1>5. Publish(r, l).pc = "record" /\ SameOrder(Publish(r, l)) /\ Publish(r, l).order.status = "valid"
  <2>1. /\ Publish(r, l).pc = "record" /\ Publish(r, l).task = r.task
        /\ Publish(r, l).order = [r.order EXCEPT !.status = "valid", !.cert = l]
    BY DEF Publish, RunRec
  <2> QED BY <2>1 DEF OrderRec
<1>6. SameOrder(r)
  OBVIOUS
<1> HIDE DEF u, SameOrder
<1>7. f.pc = "record" /\ SameOrder(f) /\ f.order.status \in {"valid", "invalid"}
  BY SMT, <1>1, <1>2, <1>3, <1>4, <1>5, <1>6
<1> QED BY <1>7 DEF SameOrder, Settled

(* The fields of what a method stores. *)
LEMMA StoredFields ==
  /\ \A x \in ChallengeRec : Stored(x).rev = x.rev + 1 /\ Stored(x).status = x.status
  /\ \A x \in OrderRec :
       /\ Stored(x).rev = x.rev + 1 /\ Stored(x).status = x.status
       /\ Stored(x).csr = x.csr /\ Stored(x).op = x.op
BY DEF Stored, ChallengeRec, OrderRec

-----------------------------------------------------------------------------
(* The steps of a run that write nothing. *)

(* What stays as it is in a step of a worker that neither writes to the    *)
(* store nor reaches the CA.                                               *)
LEMMA LocalStep ==
  ASSUME TypeInv, NEW w \in Workers, NEW r \in RunRec,
         run' = [run EXCEPT ![w] = r], TypedRun(r),
         UNCHANGED <<now, storeVars, ca, hand, acked>>, faults' \in 0..MaxFaults
  PROVE  TypeInv'
<1>1. TypeOK'
  BY DEF TypeInv, TypeOK, StoreTypeOK, WorkerTypeOK, IssuanceTypeOK, HandlerTypeOK, storeVars
<1>2. \A t \in TaskIDs : TypedTask(t)'
  BY DEF TypeInv, TypedTask, FreshTask, storeVars
<1>3. \A v \in Workers : TypedRun(run[v])'
  <2> SUFFICES ASSUME NEW v \in Workers PROVE TypedRun(run[v])'
    OBVIOUS
  <2>1. run'[v] = (IF v = w THEN r ELSE run[v])
    BY DEF TypeInv, TypeOK, WorkerTypeOK
  <2>2. TypedRun(run'[v])
    BY <2>1 DEF TypeInv
  <2> QED BY <2>2 DEF TypedRun, FreshTask, storeVars
<1>4. \A h \in Handlers : TypedHand(hand[h])'
  BY DEF TypeInv, TypedHand, storeVars
<1> QED BY <1>1, <1>2, <1>3, <1>4 DEF TypeInv

-----------------------------------------------------------------------------
(* The operators that build the next local state of a run. *)

(* A worker that runs nothing is well typed. *)
LEMMA IdleType == Idle \in RunRec /\ TypedRun(Idle)
BY SMT, NoSnapshotType DEF Idle, RunRec, PC, TypedRun, ValidationPC, IssuancePC, HoldsCh, HoldsAuthz, HoldsOrder

(* deriveOrderStatus returns an order status. *)
LEMMA DeriveType ==
  ASSUME NEW sofar \in OrderStatus, NEW s
  PROVE  Derive(sofar, s) \in OrderStatus
BY DEF Derive, OrderStatus

(* The copy of a failed challenge that completeValidation goes on with is typed. *)
LEMMA ChallengeFailsType ==
  ASSUME NEW r \in RunRec, r.ch \in ChallengeRec, r.authz \in AuthzRec
  PROVE  /\ ChallengeFails(r) \in RunRec
         /\ ChallengeFails(r).pc = "order"
         /\ ChallengeFails(r).ch \in ChallengeRec
         /\ ChallengeFails(r).authz = r.authz
         /\ ChallengeFails(r).task = r.task
         /\ ChallengeFails(r).tries = r.tries
<1>1. [r.ch EXCEPT !.status = "invalid"] \in ChallengeRec
  BY DEF ChallengeRec, ChallengeStatus
<1> QED BY <1>1 DEF ChallengeFails, RunRec, PC, ValidationPC

(* The same when the authorization fails with its challenge. *)
LEMMA BothFailType ==
  ASSUME NEW r \in RunRec, r.ch \in ChallengeRec, r.authz \in AuthzRec
  PROVE  /\ BothFail(r) \in RunRec
         /\ BothFail(r).pc = "order"
         /\ BothFail(r).ch \in ChallengeRec
         /\ BothFail(r).authz \in AuthzRec
         /\ BothFail(r).task = r.task
         /\ BothFail(r).tries = r.tries
<1>1. [r.authz EXCEPT !.status = "invalid"] \in AuthzRec
  BY DEF AuthzRec, AuthzStatus
<1>2. [r.ch EXCEPT !.status = "invalid"] \in ChallengeRec
  BY DEF ChallengeRec, ChallengeStatus
<1> QED BY <1>1, <1>2 DEF BothFail, ChallengeFails, RunRec, PC, ValidationPC

(* The order copy completeValidation is about to commit is typed. *)
LEMMA SettleType ==
  ASSUME NEW r \in RunRec, r.order \in OrderRec, NEW status \in OrderStatus
  PROVE  /\ Settle(r, status) \in RunRec
         /\ Settle(r, status).order \in OrderRec
         /\ Settle(r, status).pc = "complete"
         /\ Settle(r, status).task = r.task
         /\ Settle(r, status).ch = r.ch
         /\ Settle(r, status).authz = r.authz
<1>1. [r.order EXCEPT !.status = IF @ = "pending" /\ status # "pending" THEN status ELSE @] \in OrderRec
  BY DEF OrderRec, OrderStatus
<1> QED BY <1>1 DEF Settle, RunRec, PC, ValidationPC

(* The invalid order copy of failOrder is typed and goes to CompleteIssuance. *)
LEMMA FailType ==
  ASSUME NEW r \in RunRec, r.order \in OrderRec
  PROVE  /\ Fail(r) \in RunRec
         /\ Fail(r).order \in OrderRec
         /\ Fail(r).pc = "record"
         /\ Fail(r).task = r.task
<1>1. [r.order EXCEPT !.status = "invalid"] \in OrderRec
  BY DEF OrderRec, OrderStatus
<1> QED BY <1>1, NoSnapshotType DEF RunRec, PC, IssuancePC, Fail

(* The valid order copy of recordIssuedResult is typed. *)
LEMMA PublishType ==
  ASSUME NEW r \in RunRec, r.order \in OrderRec, NEW l \in Leaves \cup {None}
  PROVE  /\ Publish(r, l) \in RunRec
         /\ Publish(r, l).order \in OrderRec
         /\ Publish(r, l).pc = "record"
         /\ Publish(r, l).task = r.task
<1>1. [r.order EXCEPT !.status = "valid", !.cert = l] \in OrderRec
  BY DEF OrderRec, OrderStatus
<1> QED BY <1>1 DEF RunRec, PC, IssuancePC, Publish

(* The invalid order copy with its UnpublishedResult is typed. *)
LEMMA WithholdType ==
  ASSUME NEW r \in RunRec, r.order \in OrderRec
  PROVE  /\ Withhold(r) \in RunRec
         /\ Withhold(r).order \in OrderRec
         /\ Withhold(r).pc = "record"
         /\ Withhold(r).task = r.task
<1> DEFINE q == [r EXCEPT !.order.unpublished = TRUE, !.order.cert = None]
<1>1. q \in RunRec /\ q.order \in OrderRec /\ q.task = r.task
  BY DEF RunRec, OrderRec
<1> QED BY <1>1, FailType DEF Withhold

-----------------------------------------------------------------------------
(* Steps of a run that write nothing, one case per action. *)

(* runValidation up to the outcome of the validation keeps the types. *)
LEMMA ValidationReads ==
  ASSUME TypeInv, NEW w \in Workers, UNCHANGED <<ca, hand, acked>>,
         \/ ReadChallenge(w) \/ ReadAuthorization(w) \/ ReadAccount(w)
         \/ ValidateSucceeds(w) \/ ValidateRefuses(w) \/ ValidateErrs(w)
  PROVE  TypeInv'
<1>r. PICK r : r = run[w]
  OBVIOUS
<1>0. r \in RunRec /\ TypedRun(r)
  BY <1>r, RunFacts
<1>1. CASE ReadChallenge(w)
  <2>1. r.pc = "challenge" /\ ch[Target(w)] \in ChallengeRec
    BY <1>1, <1>r, RunFacts DEF ReadChallenge, ValidationPC
  <2> DEFINE p == [r EXCEPT !.pc = "authorization", !.ch = ch[Target(w)]]
             q == [r EXCEPT !.pc = "finish"]
  <2>2. p \in RunRec /\ q \in RunRec
    BY <1>0, <2>1 DEF RunRec, PC, ValidationPC
  <2>3. TypedRun(p) /\ TypedRun(q)
    BY <1>0, <2>1 DEF TypedRun, RunRec, ValidationPC, IssuancePC, HoldsCh, HoldsAuthz, HoldsOrder
  <2>4. run' = [run EXCEPT ![w] = p] \/ run' = [run EXCEPT ![w] = q]
    BY <1>1, <1>r DEF ReadChallenge, Local
  <2> QED BY <1>1, <2>2, <2>3, <2>4, LocalStep, RunFacts DEF ReadChallenge, Local, storeVars
<1>2. CASE ReadAuthorization(w)
  <2>1. r.pc = "authorization" /\ authz[AuthzOf[Target(w)]] \in AuthzRec
    BY <1>2, <1>r, RunFacts DEF ReadAuthorization, ValidationPC
  <2> DEFINE p == [r EXCEPT !.pc = "account", !.authz = authz[AuthzOf[Target(w)]]]
  <2>2. p \in RunRec /\ TypedRun(p)
    BY <1>0, <2>1 DEF RunRec, TypedRun, PC, ValidationPC, IssuancePC, HoldsCh, HoldsAuthz, HoldsOrder
  <2>3. run' = [run EXCEPT ![w] = p]
    BY <1>2, <1>r DEF ReadAuthorization, Local
  <2> QED BY <1>2, <2>2, <2>3, LocalStep, RunFacts DEF ReadAuthorization, Local
<1>3. ASSUME r.pc \in {"account", "validate"}
      PROVE  /\ r.ch \in ChallengeRec /\ r.authz \in AuthzRec
             /\ TypedRun(ChallengeFails(r)) /\ TypedRun(BothFail(r))
  <2>1. r.ch \in ChallengeRec /\ r.authz \in AuthzRec
    BY <1>0, <1>3 DEF TypedRun, ValidationPC, HoldsCh, HoldsAuthz
  <2>2. TypedRun(ChallengeFails(r))
    BY <1>0, <1>3, <2>1, ChallengeFailsType
       DEF RunRec, TypedRun, ValidationPC, IssuancePC, HoldsCh, HoldsAuthz, HoldsOrder
  <2>3. TypedRun(BothFail(r))
    BY <1>0, <1>3, <2>1, BothFailType
       DEF RunRec, TypedRun, ValidationPC, IssuancePC, HoldsCh, HoldsAuthz, HoldsOrder
  <2> QED BY <2>1, <2>2, <2>3
<1>4. CASE ReadAccount(w)
  <2>1. r.pc = "account"
    BY <1>4, <1>r DEF ReadAccount
  <2> DEFINE p == [r EXCEPT !.pc = "validate"]
  <2>2. p \in RunRec /\ TypedRun(p)
    BY <1>0, <2>1 DEF RunRec, TypedRun, PC, ValidationPC, IssuancePC, HoldsCh, HoldsAuthz, HoldsOrder
  <2>3. \E q \in {p, ChallengeFails(r), BothFail(r)} : run' = [run EXCEPT ![w] = q]
    BY <1>4, <1>r DEF ReadAccount, Local
  <2> QED BY <1>0, <1>3, <1>4, <2>1, <2>2, <2>3, LocalStep, RunFacts, ChallengeFailsType, BothFailType
          DEF ReadAccount, Local
<1>5. CASE ValidateSucceeds(w)
  <2>0. r.pc = "validate"
    BY <1>5, <1>r DEF ValidateSucceeds
  <2>1. r.pc = "validate" /\ now + AuthzLifetime \in Nat
    BY SMT, <2>0, RunFacts, StoreAssumption
  <2>2. PICK g \in GrantTimes :
          run' = [run EXCEPT ![w] =
                    [r EXCEPT !.pc = "order", !.ch.status = "valid",
                              !.authz = [@ EXCEPT !.status = "valid", !.expires = now + AuthzLifetime,
                                                  !.grantExpires = g]]]
    BY <1>5, <1>r DEF ValidateSucceeds, Local
  <2> DEFINE c == [r.ch EXCEPT !.status = "valid"]
             a == [r.authz EXCEPT !.status = "valid", !.expires = now + AuthzLifetime, !.grantExpires = g]
             p == [r EXCEPT !.pc = "order", !.ch = c, !.authz = a]
  <2>3. c \in ChallengeRec
    BY <1>3, <2>1 DEF ChallengeRec, ChallengeStatus
  <2>4. a \in AuthzRec
    BY <1>3, <2>1, GrantAssumption DEF AuthzRec, AuthzStatus
  <2>5. run' = [run EXCEPT ![w] = p]
    BY <2>2, <1>0 DEF RunRec
  <2> HIDE DEF c, a
  <2>6. p \in RunRec /\ TypedRun(p)
    BY <1>0, <2>1, <2>3, <2>4 DEF RunRec, TypedRun, PC, ValidationPC, IssuancePC, HoldsCh, HoldsAuthz, HoldsOrder
  <2> QED BY <1>5, <2>5, <2>6, LocalStep, RunFacts DEF ValidateSucceeds, Local
<1>6. CASE ValidateRefuses(w)
  BY <1>r, <1>0, <1>3, <1>6, BothFailType, LocalStep, RunFacts DEF ValidateRefuses, Local
<1>7. CASE ValidateErrs(w)
  <2>1. r.pc = "validate" /\ faults' \in 0..MaxFaults
    BY SMT, <1>7, <1>r, RunFacts, WorkerAssumption DEF ValidateErrs, Fault
  <2> DEFINE p == [r EXCEPT !.pc = "retry"]
  <2>2. p \in RunRec /\ TypedRun(p)
    BY <1>0, <2>1 DEF RunRec, TypedRun, PC, ValidationPC, IssuancePC, HoldsCh, HoldsAuthz, HoldsOrder
  <2>3. \E q \in {p, BothFail(r)} : run' = [run EXCEPT ![w] = q]
    BY <1>7, <1>r DEF ValidateErrs, Local
  <2> QED BY <1>0, <1>3, <1>7, <2>1, <2>2, <2>3, LocalStep, BothFailType DEF ValidateErrs, Local
<1> QED BY <1>1, <1>2, <1>4, <1>5, <1>6, <1>7

(* The reads and retries of completeValidation keep the types. *)
LEMMA ValidationLoop ==
  ASSUME TypeInv, NEW w \in Workers, UNCHANGED <<ca, hand, acked>>,
         \/ ReadOrder(w) \/ DeriveOrderStatus(w) \/ CommitValidationFails(w) \/ ReloadAuthorization(w)
  PROVE  TypeInv'
<1>r. PICK r : r = run[w]
  OBVIOUS
<1>0. r \in RunRec /\ TypedRun(r)
  BY <1>r, RunFacts
<1>1. CASE ReadOrder(w)
  <2> DEFINE a == AuthzOf[Target(w)]
             o == OrderOf[a]
             status == IF OrderLifetime <= now THEN "invalid"
                       ELSE Derive("ready", EffectiveAuthzStatus(r.authz, now))
             next == [r EXCEPT !.order = order[o], !.tries = @ + 1]
             more == [next EXCEPT !.pc = "derive", !.todo = AuthzsOf(o) \ {a}, !.status = status, !.at = now]
  <2>1. r.pc = "order"
    BY <1>1, <1>r DEF ReadOrder
  <2>2. order[o] \in OrderRec /\ now \in Nat
    BY <1>r, <2>1, RunFacts DEF ValidationPC
  <2>3. status \in OrderStatus
    BY DeriveType DEF OrderStatus
  <2>4. run' = [run EXCEPT ![w] = Settle(next, status)] \/ run' = [run EXCEPT ![w] = more]
    BY <1>1, <1>r DEF ReadOrder, Local
  <2>5. AuthzsOf(o) \ {a} \in SUBSET Authzs
    BY DEF AuthzsOf
  <2>6. r.tries + 1 \in 0..3
    BY SMT, <1>0, <2>1 DEF RunRec, TypedRun
  <2> HIDE DEF status, a
  <2>7. /\ next \in RunRec /\ next.order \in OrderRec /\ next.task = r.task /\ next.ch = r.ch
        /\ next.authz = r.authz /\ next.pc = r.pc
    BY <1>0, <2>2, <2>6 DEF RunRec
  <2> HIDE DEF next, o
  <2>8. more \in RunRec /\ TypedRun(more)
    BY <1>0, <2>1, <2>2, <2>3, <2>5, <2>7
       DEF RunRec, TypedRun, PC, ValidationPC, IssuancePC, HoldsCh, HoldsAuthz, HoldsOrder
  <2>9. Settle(next, status) \in RunRec /\ TypedRun(Settle(next, status))
    BY <1>0, <2>1, <2>3, <2>7, SettleType
       DEF TypedRun, ValidationPC, IssuancePC, HoldsCh, HoldsAuthz, HoldsOrder
  <2> QED BY <1>1, <2>4, <2>8, <2>9, LocalStep, RunFacts DEF ReadOrder, Local
<1>2. CASE DeriveOrderStatus(w)
  <2>1. r.pc = "derive"
    BY <1>2, <1>r DEF DeriveOrderStatus
  <2>2. PICK a \in r.todo :
          LET status == Derive(r.status, EffectiveAuthzStatus(authz[a], r.at))
          IN  Local(w, IF status = "invalid" \/ r.todo = {a} THEN Settle(r, status)
                       ELSE [r EXCEPT !.todo = @ \ {a}, !.status = status])
    BY <1>2, <1>r DEF DeriveOrderStatus
  <2> DEFINE status == Derive(r.status, EffectiveAuthzStatus(authz[a], r.at))
             more == [r EXCEPT !.todo = @ \ {a}, !.status = status]
  <2>3. status \in OrderStatus /\ r.order \in OrderRec
    BY <1>0, <2>1, DeriveType DEF TypedRun, HoldsOrder
  <2>4. run' = [run EXCEPT ![w] = Settle(r, status)] \/ run' = [run EXCEPT ![w] = more]
    BY <2>2 DEF Local
  <2> HIDE DEF status
  <2>5. more \in RunRec /\ TypedRun(more)
    BY <1>0, <2>1, <2>3 DEF RunRec, TypedRun, PC, ValidationPC, IssuancePC, HoldsCh, HoldsAuthz, HoldsOrder
  <2>6. Settle(r, status) \in RunRec /\ TypedRun(Settle(r, status))
    BY <1>0, <2>1, <2>3, SettleType DEF TypedRun, ValidationPC, IssuancePC, HoldsCh, HoldsAuthz, HoldsOrder
  <2> QED BY <1>2, <2>2, <2>4, <2>5, <2>6, LocalStep, RunFacts DEF DeriveOrderStatus, Local
<1>3. CASE CommitValidationFails(w)
  <2>1. r.pc = "complete"
    BY <1>3, <1>r DEF CommitValidationFails
  <2> DEFINE p == [r EXCEPT !.pc = "reload", !.order = None]
             q == [r EXCEPT !.pc = "reschedule", !.order = None]
  <2>2. run' = [run EXCEPT ![w] = p] \/ run' = [run EXCEPT ![w] = q]
    BY <1>3, <1>r DEF CommitValidationFails, Local
  <2>3. p \in RunRec /\ TypedRun(p)
    BY <1>0, <2>1 DEF RunRec, TypedRun, PC, ValidationPC, IssuancePC, HoldsCh, HoldsAuthz, HoldsOrder
  <2>4. q \in RunRec /\ TypedRun(q)
    BY <1>0, <2>1 DEF RunRec, TypedRun, PC, ValidationPC, IssuancePC, HoldsCh, HoldsAuthz, HoldsOrder
  <2> QED BY <1>3, <2>2, <2>3, <2>4, LocalStep, RunFacts DEF CommitValidationFails, Local
<1>4. CASE ReloadAuthorization(w)
  <2> DEFINE current == authz[AuthzOf[Target(w)]]
             pc == IF r.tries = 3 THEN "reschedule" ELSE "order"
             c == [r.ch EXCEPT !.status = "invalid"]
             a == [r.authz EXCEPT !.rev = current.rev]
             p == [r EXCEPT !.pc = pc, !.ch = c, !.authz = current]
             q == [r EXCEPT !.pc = pc, !.authz = a]
  <2>1. r.pc = "reload"
    BY <1>4, <1>r DEF ReloadAuthorization
  <2>2. current \in AuthzRec /\ r.ch \in ChallengeRec /\ r.authz \in AuthzRec
    BY <1>r, <1>0, <2>1, RunFacts DEF TypedRun, ValidationPC, HoldsCh, HoldsAuthz
  <2>3. c \in ChallengeRec /\ a \in AuthzRec
    BY <2>2 DEF ChallengeRec, ChallengeStatus, AuthzRec
  <2>4. run' = [run EXCEPT ![w] = p] \/ run' = [run EXCEPT ![w] = q]
    BY <1>4, <1>r, <1>0 DEF ReloadAuthorization, Local, RunRec
  <2>p. pc = "reschedule" \/ (pc = "order" /\ r.tries < 3)
    BY SMT, <1>0 DEF RunRec
  <2> HIDE DEF current, c, a, pc
  <2>5. p \in RunRec /\ TypedRun(p)
    BY <1>0, <2>1, <2>2, <2>3, <2>p
       DEF RunRec, TypedRun, PC, ValidationPC, IssuancePC, HoldsCh, HoldsAuthz, HoldsOrder
  <2>6. q \in RunRec /\ TypedRun(q)
    BY <1>0, <2>1, <2>2, <2>3, <2>p
       DEF RunRec, TypedRun, PC, ValidationPC, IssuancePC, HoldsCh, HoldsAuthz, HoldsOrder
  <2> QED BY <1>4, <2>4, <2>5, <2>6, LocalStep, RunFacts DEF ReloadAuthorization, Local
<1> QED BY <1>1, <1>2, <1>3, <1>4

(* beginIssuance up to its commit keeps the types. *)
LEMMA IssuanceDecides ==
  ASSUME TypeInv, NEW w \in Workers, UNCHANGED <<hand, acked>>,
         \/ ReadIssuanceOrder(w) \/ DispatchAccount(w) \/ Snapshot(w)
         \/ PolicyAllows(w) \/ PolicyRefuses(w) \/ PolicyErrs(w) \/ DispatchConflict(w)
  PROVE  TypeInv'
<1>r. PICK r : r = run[w]
  OBVIOUS
<1>0. r \in RunRec /\ TypedRun(r) /\ now \in Nat
  BY <1>r, RunFacts
<1>f. ASSUME NEW q \in RunRec, q.order \in OrderRec, q.task = r.task, r.pc \in IssuancePC
      PROVE  Fail(q) \in RunRec /\ TypedRun(Fail(q))
  BY <1>0, <1>f, FailType DEF TypedRun, ValidationPC, IssuancePC, HoldsCh, HoldsAuthz, HoldsOrder
<1>g. ASSUME r.pc \in IssuancePC
      PROVE  LET q == [r EXCEPT !.pc = "reschedule"] IN q \in RunRec /\ TypedRun(q)
  BY SMT, <1>0, <1>g DEF RunRec, TypedRun, PC, ValidationPC, IssuancePC, HoldsCh, HoldsAuthz, HoldsOrder
<1>1. CASE ReadIssuanceOrder(w)
  <2> DEFINE o == Target(w)
             p == [r EXCEPT !.order = order[o]]
             q == [r EXCEPT !.pc = "finish"]
             d == [p EXCEPT !.pc = "dispatchAccount"]
  <2>1. r.pc = "issuanceOrder"
    BY <1>1, <1>r DEF ReadIssuanceOrder
  <2>2. order[o] \in OrderRec
    BY <1>r, <2>1, RunFacts DEF IssuancePC
  <2>3. \/ run' = [run EXCEPT ![w] = q]
        \/ run' = [run EXCEPT ![w] = Request(p)] /\ order[o].op # None
        \/ run' = [run EXCEPT ![w] = d]
    BY <1>1, <1>r DEF ReadIssuanceOrder, Step
  <2>4. q \in RunRec /\ TypedRun(q)
    BY SMT, <1>0, <2>1 DEF RunRec, TypedRun, PC, ValidationPC, IssuancePC, HoldsCh, HoldsAuthz, HoldsOrder
  <2>5. p \in RunRec /\ p.order = order[o] /\ p.task = r.task /\ p.pc = r.pc
    BY <1>0, <2>2 DEF RunRec
  <2> HIDE DEF p
  <2>6. d \in RunRec /\ TypedRun(d)
    BY SMT, <1>0, <2>1, <2>2, <2>5 DEF RunRec, TypedRun, PC, ValidationPC, IssuancePC, HoldsCh, HoldsAuthz, HoldsOrder
  <2>7. order[o].op # None => Request(p) \in RunRec /\ TypedRun(Request(p))
    <3>1. order[o].op # None => order[o].op \in TaskIDs
      BY <2>2 DEF OrderRec
    <3> QED BY <3>1, <1>0, <2>1, <2>2, <2>5, RequestType
            DEF TypedRun, ValidationPC, IssuancePC, HoldsCh, HoldsAuthz, HoldsOrder
  <2> QED BY <1>1, <2>3, <2>4, <2>6, <2>7, LocalStep, RunFacts DEF ReadIssuanceOrder, Step
<1>2. CASE DispatchAccount(w)
  <2> DEFINE d == [r.order EXCEPT !.deadline = OrderLifetime]
             p == [r EXCEPT !.pc = "snapshot", !.acct = account.rev, !.at = now,
                            !.todo = AuthzsOf(Target(w)), !.order = d]
  <2>1. r.pc = "dispatchAccount"
    BY <1>2, <1>r DEF DispatchAccount
  <2>2. r.order \in OrderRec /\ account.rev \in Nat
    BY <1>0, <2>1, RunFacts DEF TypedRun, IssuancePC, HoldsOrder, AccountRec
  <2>3. d \in OrderRec
    BY <2>2, StoreAssumption DEF OrderRec
  <2>4. run' = [run EXCEPT ![w] = Fail(r)] \/ run' = [run EXCEPT ![w] = p]
    BY <1>2, <1>r, <1>0 DEF DispatchAccount, Step, RunRec
  <2>5. AuthzsOf(Target(w)) \in SUBSET Authzs
    BY DEF AuthzsOf
  <2> HIDE DEF d
  <2>6. p \in RunRec /\ TypedRun(p)
    BY <1>0, <2>1, <2>2, <2>3, <2>5 DEF RunRec, TypedRun, PC, ValidationPC, IssuancePC, HoldsCh, HoldsAuthz, HoldsOrder
  <2>7. Fail(r) \in RunRec /\ TypedRun(Fail(r))
    BY <1>0, <1>f, <2>1, <2>2 DEF IssuancePC
  <2> QED BY <1>2, <2>4, <2>6, <2>7, LocalStep, RunFacts DEF DispatchAccount, Step
<1>3. CASE Snapshot(w)
  <2>1. r.pc = "snapshot" /\ r.pc \in IssuancePC
    BY <1>3, <1>r DEF Snapshot, IssuancePC
  <2>2. r.order \in OrderRec
    BY <1>0, <2>1 DEF TypedRun, HoldsOrder, IssuancePC
  <2>3. PICK a \in r.todo :
          LET next == [r EXCEPT !.snap[a] = authz[a], !.todo = @ \ {a},
                        !.order.deadline = Earlier(Earlier(@, authz[a].expires), authz[a].grantExpires)]
          IN  Step(w, IF ~Dispatchable(authz[a], r.at) THEN Fail(NoDispatch(r))
                      ELSE IF ~HasEvidence(a) THEN [r EXCEPT !.pc = "reschedule"]
                      ELSE IF r.todo = {a} THEN [next EXCEPT !.pc = "policy"]
                      ELSE next)
    BY <1>3, <1>r DEF Snapshot
  <2> DEFINE dl == Earlier(Earlier(r.order.deadline, authz[a].expires), authz[a].grantExpires)
             d == [r.order EXCEPT !.deadline = dl]
             s == [r.snap EXCEPT ![a] = authz[a]]
             next == [r EXCEPT !.snap = s, !.todo = @ \ {a}, !.order = d]
             p == [next EXCEPT !.pc = "policy"]
             q == [r EXCEPT !.pc = "reschedule"]
  <2>4. authz[a] \in AuthzRec
    BY <1>0, <2>3, RunFacts DEF RunRec
  <2>5. dl \in Nat
    BY <2>2, <2>4 DEF Earlier, OrderRec, AuthzRec
  <2>6. d \in OrderRec
    <3> HIDE DEF dl
    <3> QED BY <2>2, <2>5 DEF OrderRec
  <2>7. s \in [Authzs -> AuthzRec \cup {None}]
    BY <1>0, <2>4 DEF RunRec
  <2>8. \E x \in {Fail(NoDispatch(r)), q, p, next} : run' = [run EXCEPT ![w] = x]
    BY <2>3, <1>0 DEF Step, RunRec
  <2> HIDE DEF d, s
  <2>9. next \in RunRec /\ TypedRun(next)
    BY <1>0, <2>1, <2>6, <2>7 DEF RunRec, TypedRun, PC, ValidationPC, IssuancePC, HoldsCh, HoldsAuthz, HoldsOrder
  <2> HIDE DEF next
  <2>10. next.pc = "snapshot"
    BY <1>0, <2>1 DEF next, RunRec
  <2>11. p \in RunRec /\ TypedRun(p)
    BY <2>9, <2>10 DEF RunRec, TypedRun, PC, ValidationPC, IssuancePC, HoldsCh, HoldsAuthz, HoldsOrder
  <2>12. Fail(NoDispatch(r)) \in RunRec /\ TypedRun(Fail(NoDispatch(r)))
    BY <1>0, <1>f, <2>1, <2>2, NoDispatchType
  <2>13. q \in RunRec /\ TypedRun(q)
    BY <1>g, <2>1
  <2> QED BY <1>3, <2>3, <2>8, <2>9, <2>11, <2>12, <2>13, LocalStep, RunFacts DEF Snapshot, Step
<1>4. CASE PolicyAllows(w)
  <2> DEFINE d == [r.order EXCEPT !.op = r.task]
             p == [r EXCEPT !.pc = "begin", !.order = d]
  <2>1. r.pc = "policy" /\ r.pc \in IssuancePC
    BY <1>4, <1>r DEF PolicyAllows, IssuancePC
  <2>2. r.order \in OrderRec /\ r.task \in TaskIDs
    BY <1>0, <2>1 DEF TypedRun, HoldsOrder, IssuancePC
  <2>3. d \in OrderRec
    BY <2>2 DEF OrderRec
  <2>4. run' = [run EXCEPT ![w] = Fail(NoDispatch(r))] \/ run' = [run EXCEPT ![w] = p]
    BY <1>4, <1>r, <1>0 DEF PolicyAllows, Step, RunRec
  <2> HIDE DEF d
  <2>5. p \in RunRec /\ TypedRun(p)
    BY <1>0, <2>1, <2>3 DEF RunRec, TypedRun, PC, ValidationPC, IssuancePC, HoldsCh, HoldsAuthz, HoldsOrder
  <2>6. Fail(NoDispatch(r)) \in RunRec /\ TypedRun(Fail(NoDispatch(r)))
    BY <1>0, <1>f, <2>1, <2>2, NoDispatchType
  <2> QED BY <1>4, <2>4, <2>5, <2>6, LocalStep, RunFacts DEF PolicyAllows, Step
<1>5. CASE PolicyRefuses(w) \/ PolicyErrs(w)
  <2> DEFINE q == [r EXCEPT !.pc = "reschedule"]
  <2>1. r.pc = "policy" /\ r.pc \in IssuancePC
    BY <1>5, <1>r DEF PolicyRefuses, PolicyErrs, IssuancePC
  <2>2. r.order \in OrderRec
    BY <1>0, <2>1 DEF TypedRun, HoldsOrder, IssuancePC
  <2>3. \E x \in {Fail(NoDispatch(r)), q} : run' = [run EXCEPT ![w] = x]
    BY <1>5, <1>r DEF PolicyRefuses, PolicyErrs, Step
  <2>4. faults' \in 0..MaxFaults /\ UNCHANGED <<now, storeVars, ca>>
    BY SMT, <1>5, RunFacts, WorkerAssumption DEF PolicyRefuses, PolicyErrs, Step, Fault
  <2> QED BY <1>0, <1>f, <1>g, <2>1, <2>2, <2>3, <2>4, NoDispatchType, LocalStep
<1>6. CASE DispatchConflict(w)
  BY <1>6, <1>r, <1>g, LocalStep, RunFacts DEF DispatchConflict, Step, IssuancePC
<1> QED BY <1>1, <1>2, <1>3, <1>4, <1>5, <1>6

(* Handling the CA's answer keeps the types (recordIssuedResult). *)
LEMMA IssuanceAnswers ==
  ASSUME TypeInv, NEW w \in Workers, UNCHANGED <<hand, acked>>,
         \/ AnswerIssued(w) \/ AnswerMuddled(w) \/ AnswerRejected(w) \/ AnswerPending(w)
         \/ RecordFails(w)
  PROVE  TypeInv'
<1>r. PICK r : r = run[w]
  OBVIOUS
<1> DEFINE q == [r EXCEPT !.pc = "reschedule"]
           l == ca[r.order.op].leaf
<1>0. r \in RunRec /\ TypedRun(r)
  BY <1>r, RunFacts
<1>1. r.pc \in {"await", "record"}
  BY <1>r DEF AnswerIssued, AnswerMuddled, AnswerRejected, AnswerPending, RecordFails
<1>2. r.order \in OrderRec
  BY <1>0, <1>1 DEF TypedRun, IssuancePC, HoldsOrder
<1>3. r.pc = "await" => l \in Leaves \cup {None}
  BY <1>0 DEF TypedRun, TypeInv, TypeOK, IssuanceTypeOK, CARec
<1>4. \/ run' = [run EXCEPT ![w] = Publish(r, l)] /\ r.pc = "await"
      \/ run' = [run EXCEPT ![w] = Withhold(r)]
      \/ run' = [run EXCEPT ![w] = Fail(r)]
      \/ run' = [run EXCEPT ![w] = q]
  BY <1>r DEF AnswerIssued, AnswerMuddled, AnswerRejected, AnswerPending, RecordFails, Step
<1>5. UNCHANGED <<now, storeVars, ca>> /\ faults' \in 0..MaxFaults
  BY SMT, RunFacts, WorkerAssumption
     DEF AnswerIssued, AnswerMuddled, AnswerRejected, AnswerPending, RecordFails, Step, Fault
<1>6. q \in RunRec /\ TypedRun(q)
  BY SMT, <1>0, <1>1 DEF RunRec, TypedRun, PC, ValidationPC, IssuancePC, HoldsCh, HoldsAuthz, HoldsOrder
<1>7. Fail(r) \in RunRec /\ TypedRun(Fail(r))
  BY <1>0, <1>1, <1>2, FailType DEF TypedRun, ValidationPC, IssuancePC, HoldsCh, HoldsAuthz, HoldsOrder
<1>8. Withhold(r) \in RunRec /\ TypedRun(Withhold(r))
  BY <1>0, <1>1, <1>2, WithholdType DEF TypedRun, ValidationPC, IssuancePC, HoldsCh, HoldsAuthz, HoldsOrder
<1>9. r.pc = "await" => Publish(r, l) \in RunRec /\ TypedRun(Publish(r, l))
  <2> HIDE DEF l
  <2> QED BY <1>0, <1>2, <1>3, PublishType DEF TypedRun, ValidationPC, IssuancePC, HoldsCh, HoldsAuthz, HoldsOrder
<1> HIDE DEF q, l
<1> QED BY <1>4, <1>5, <1>6, <1>7, <1>8, <1>9, LocalStep

(* A crash or a failed call keeps the types. *)
LEMMA RunStops ==
  ASSUME TypeInv, NEW w \in Workers, UNCHANGED <<ca, hand, acked>>, Crash(w) \/ CallFails(w)
  PROVE  TypeInv'
<1>r. PICK r : r = run[w]
  OBVIOUS
<1> DEFINE q == [r EXCEPT !.pc = "reschedule"]
<1>0. r \in RunRec /\ TypedRun(r)
  BY <1>r, RunFacts
<1>1. UNCHANGED <<now, storeVars>> /\ faults' \in 0..MaxFaults
  BY SMT, RunFacts, WorkerAssumption DEF Crash, CallFails, Fault
<1>2. CASE Crash(w)
  BY <1>1, <1>2, IdleType, LocalStep DEF Crash, End
<1>3. CASE CallFails(w)
  <2>1. r.pc \in ValidationPC \cup IssuancePC
    BY <1>3, <1>r DEF CallFails
  <2>2. run' = [run EXCEPT ![w] = q]
    BY <1>3, <1>r, RunFacts DEF CallFails, Goto, TypeInv, TypeOK, WorkerTypeOK
  <2>3. q \in RunRec /\ TypedRun(q)
    BY SMT, <1>0, <2>1 DEF RunRec, TypedRun, PC, ValidationPC, IssuancePC, HoldsCh, HoldsAuthz, HoldsOrder
  <2> QED BY <1>1, <2>2, <2>3, LocalStep
<1> QED BY <1>2, <1>3

-----------------------------------------------------------------------------
(* Steps that write. *)

(* A worker's write is well typed when its store method and its next state are. *)
LEMMA WorkerWrites ==
  ASSUME TypeInv, NEW w \in Workers, NEW r \in RunRec,
         run' = [run EXCEPT ![w] = r], TypedRun(r), StoreTypeOK', IssuanceTypeOK', KeepsTasks,
         UNCHANGED <<hand, acked>>, faults' \in 0..MaxFaults
  PROVE  TypeInv'
<1>1. TypeOK'
  BY DEF TypeInv, TypeOK, WorkerTypeOK, HandlerTypeOK
<1>2. \A t \in TaskIDs : TypedTask(t)'
  BY DEF KeepsTasks
<1>3. \A v \in Workers : TypedRun(run[v])'
  <2> SUFFICES ASSUME NEW v \in Workers PROVE TypedRun(run[v])'
    OBVIOUS
  <2>1. run'[v] = (IF v = w THEN r ELSE run[v])
    BY DEF TypeInv, TypeOK, WorkerTypeOK
  <2>2. TypedRun(run'[v])
    BY <2>1 DEF TypeInv
  <2>3. run'[v] \in RunRec
    BY <1>1 DEF TypeOK, WorkerTypeOK
  <2> QED BY <2>2, <2>3 DEF TypedRun, KeepsTasks, RunRec, ValidationPC, IssuancePC
<1>4. \A h \in Handlers : TypedHand(hand[h])'
  BY DEF TypeInv, TypedHand
<1> QED BY <1>1, <1>2, <1>3, <1>4 DEF TypeInv

(* The same for a request's write. *)
LEMMA HandlerWrites ==
  ASSUME TypeInv, NEW h \in Handlers, NEW r \in HandRec,
         hand' = [hand EXCEPT ![h] = r], TypedHand(r), StoreTypeOK', KeepsTasks,
         UNCHANGED <<run, faults, ca>>, acked' \subseteq Orders \X CSRs
  PROVE  TypeInv'
<1>1. TypeOK'
  BY DEF TypeInv, TypeOK, WorkerTypeOK, HandlerTypeOK, IssuanceTypeOK
<1>2. \A t \in TaskIDs : TypedTask(t)'
  BY DEF KeepsTasks
<1>3. \A v \in Workers : TypedRun(run[v])'
  <2> SUFFICES ASSUME NEW v \in Workers PROVE TypedRun(run[v])'
    OBVIOUS
  <2>2. TypedRun(run[v]) /\ run[v] \in RunRec
    BY DEF TypeInv, TypeOK, WorkerTypeOK
  <2> QED BY <2>2 DEF TypedRun, KeepsTasks, RunRec, ValidationPC, IssuancePC
<1>4. \A g \in Handlers : TypedHand(hand[g])'
  <2> SUFFICES ASSUME NEW g \in Handlers PROVE TypedHand(hand[g])'
    OBVIOUS
  <2>1. hand'[g] = (IF g = h THEN r ELSE hand[g])
    BY DEF TypeInv, TypeOK, HandlerTypeOK
  <2>2. TypedHand(hand'[g])
    BY <2>1 DEF TypeInv
  <2> QED BY <2>2 DEF TypedHand
<1> QED BY <1>1, <1>2, <1>3, <1>4 DEF TypeInv

-----------------------------------------------------------------------------
(* What the Store methods write. *)

(* So does every other Store method a worker calls with typed copies. *)
LEMMA WorkerMethodTypes ==
  ASSUME TypeInv, NEW t \in TaskIDs, ~FreshTask(t), NEW fence, now' = now,
         \/ RescheduleTask(t, fence)
         \/ FinishTask(t, fence)
         \/ \E c \in Challenges, x \in ChallengeRec : RetryValidation(t, fence, c, x)
         \/ \E c \in Challenges, x \in ChallengeRec, y \in AuthzRec, z \in OrderRec :
              CompleteValidation(t, fence, c, x, y, z)
         \/ \E o \in Orders, x \in OrderRec, l \in Leaves \cup {None} : CompleteIssuance(t, fence, o, x, l)
  PROVE  StoreTypeOK' /\ KeepsTasks
<1>0. /\ now \in 0..MaxTime /\ account \in AccountRec /\ order \in [Orders -> OrderRec]
      /\ authz \in [Authzs -> AuthzRec] /\ ch \in [Challenges -> ChallengeRec]
      /\ cert \in [Leaves -> Orders \cup {None}]
  BY DEF TypeInv, TypeOK, StoreTypeOK
<1>1. CASE RescheduleTask(t, fence) \/ FinishTask(t, fence)
  BY <1>0, <1>1, ReleaseType DEF RescheduleTask, FinishTask, StoreTypeOK
<1>2. CASE \E c \in Challenges, x \in ChallengeRec : RetryValidation(t, fence, c, x)
  <2>1. ch' \in [Challenges -> ChallengeRec] /\ ReleaseTask(t)
    BY <1>0, <1>2, StoredType DEF RetryValidation
  <2>2. UNCHANGED <<account, order, authz, cert>>
    BY <1>2 DEF RetryValidation
  <2> QED BY <1>0, <2>1, <2>2, ReleaseType DEF StoreTypeOK
<1>3. CASE \E c \in Challenges, x \in ChallengeRec, y \in AuthzRec, z \in OrderRec :
             CompleteValidation(t, fence, c, x, y, z)
  <2>1. /\ ch' \in [Challenges -> ChallengeRec] /\ authz' \in [Authzs -> AuthzRec]
        /\ order' \in [Orders -> OrderRec] /\ RemoveTask(t) /\ UNCHANGED <<account, cert>>
    BY <1>0, <1>3, StoredType DEF CompleteValidation
  <2> QED BY <1>0, <2>1, ReleaseType DEF StoreTypeOK
<1>4. CASE \E o \in Orders, x \in OrderRec, l \in Leaves \cup {None} : CompleteIssuance(t, fence, o, x, l)
  <2>1. /\ order' \in [Orders -> OrderRec] /\ RemoveTask(t) /\ UNCHANGED <<account, authz, ch>>
        /\ cert' \in [Leaves -> Orders \cup {None}]
    BY <1>0, <1>4, StoredType DEF CompleteIssuance
  <2> QED BY <1>0, <2>1, ReleaseType DEF StoreTypeOK
<1> QED BY <1>1, <1>2, <1>3, <1>4

-----------------------------------------------------------------------------
(* The writing steps of a worker. *)

(* Starting a run keeps the types. *)
LEMMA ClaimSteps ==
  ASSUME TypeInv, NEW w \in Workers, UNCHANGED <<ca, hand, acked>>, Claim(w) \/ ClaimLapsed(w)
  PROVE  TypeInv'
<1>1. PICK t \in TaskIDs : StartRun(w, t)
  BY DEF Claim, ClaimLapsed
<1>2. faults' \in 0..MaxFaults
  BY SMT, RunFacts, WorkerAssumption DEF Claim, ClaimLapsed, Fault
<1>3. StoreTypeOK' /\ KeepsTasks
  BY <1>1, ClaimType DEF StartRun
<1>4. /\ task[t] \in TaskRec /\ ~FreshTask(t)
  BY <1>1 DEF TypeInv, TypeOK, StoreTypeOK, StartRun, ClaimTask, Live, FreshTask
<1> DEFINE pc == IF task[t].kind = "validate" THEN "challenge" ELSE "issuanceOrder"
           r == [Idle EXCEPT !.pc = pc, !.task = t, !.fence = task[t].fence + 1]
<1>5. run' = [run EXCEPT ![w] = r]
  BY <1>1 DEF StartRun
<1>6. (pc = "challenge" /\ task[t].kind = "validate") \/ (pc = "issuanceOrder" /\ task[t].kind = "issue")
  BY <1>4 DEF TaskRec
<1>7. task[t].fence + 1 \in Nat
  BY SMT, <1>4 DEF TaskRec
<1> HIDE DEF pc
<1>8. r \in RunRec
  <2>1. pc \in PC
    BY <1>6 DEF PC, ValidationPC, IssuancePC
  <2>2. ASSUME NEW f \in Nat
        PROVE  [Idle EXCEPT !.pc = pc, !.task = t, !.fence = f] \in RunRec
    BY <2>1, IdleType DEF RunRec
  <2> QED BY <1>7, <2>2
<1>9. TypedRun(r)
  BY SMT, <1>4, <1>6 DEF TypedRun, Idle, ValidationPC, IssuancePC, HoldsCh, HoldsAuthz, HoldsOrder
<1>10. IssuanceTypeOK'
  BY DEF TypeInv, TypeOK, IssuanceTypeOK
<1> HIDE DEF r
<1> QED BY <1>2, <1>3, <1>5, <1>8, <1>9, <1>10, WorkerWrites

(* The commits that end a run keep the types. *)
LEMMA CommitSteps ==
  ASSUME TypeInv, NEW w \in Workers, UNCHANGED <<ca, hand, acked>>,
         Reschedule(w) \/ Finish(w) \/ CommitValidation(w) \/ RetryRun(w) \/ Record(w)
  PROVE  TypeInv'
<1>r. PICK r : r = run[w]
  OBVIOUS
<1>0. r \in RunRec /\ TypedRun(r)
  BY <1>r, RunFacts
<1>1. r.task \in TaskIDs /\ ~FreshTask(r.task) /\ now' = now /\ faults' = faults
  BY <1>r, <1>0 DEF TypedRun, Reschedule, Finish, CommitValidation, RetryRun, Record
<1>2. IssuanceTypeOK' /\ faults \in 0..MaxFaults
  BY RunFacts DEF TypeInv, TypeOK, IssuanceTypeOK
<1>3. ASSUME StoreTypeOK' /\ KeepsTasks, End(w)
      PROVE  TypeInv'
  BY <1>1, <1>2, <1>3, IdleType, WorkerWrites DEF End
<1>4. ASSUME UNCHANGED storeVars
      PROVE  StoreTypeOK' /\ KeepsTasks
  BY <1>1, <1>4, SameTasks DEF storeVars, StoreTypeOK, TypeInv, TypeOK
<1>5. CASE Reschedule(w) \/ Finish(w)
  BY <1>r, <1>1, <1>3, <1>4, <1>5, WorkerMethodTypes DEF Reschedule, Finish
<1>6. CASE CommitValidation(w)
  <2>1. r.pc = "complete"
    BY <1>r, <1>6 DEF CommitValidation
  <2>2. /\ Target(w) \in Challenges /\ r.ch \in ChallengeRec /\ r.authz \in AuthzRec /\ r.order \in OrderRec
    BY <1>r, <1>0, <2>1, RunFacts DEF TypedRun, ValidationPC, HoldsCh, HoldsAuthz, HoldsOrder
  <2>3. CompleteValidation(r.task, r.fence, Target(w), r.ch, r.authz, r.order) /\ End(w)
    BY <1>r, <1>6 DEF CommitValidation
  <2> QED BY <1>1, <1>3, <2>2, <2>3, WorkerMethodTypes
<1>7. CASE RetryRun(w)
  <2>1. r.pc = "retry"
    BY <1>r, <1>7 DEF RetryRun
  <2>2. Target(w) \in Challenges /\ r.ch \in ChallengeRec
    BY <1>r, <1>0, <2>1, RunFacts DEF TypedRun, ValidationPC, HoldsCh
  <2>3. CASE RetryValidation(r.task, r.fence, Target(w), r.ch) /\ End(w)
    BY <1>1, <1>3, <2>2, <2>3, WorkerMethodTypes
  <2>4. CASE (Goto(w, "reschedule") \/ End(w)) /\ UNCHANGED storeVars
    <3> DEFINE q == [r EXCEPT !.pc = "reschedule"]
    <3>1. q \in RunRec /\ TypedRun(q)
      BY <1>0, <2>1 DEF RunRec, TypedRun, PC, ValidationPC, IssuancePC, HoldsCh, HoldsAuthz, HoldsOrder
    <3>2. Goto(w, "reschedule") => run' = [run EXCEPT ![w] = q]
      BY <1>r DEF Goto, TypeInv, TypeOK, WorkerTypeOK
    <3> HIDE DEF q
    <3> QED BY <1>1, <1>2, <1>3, <1>4, <2>4, <3>1, <3>2, WorkerWrites
  <2> QED BY <1>7, <1>r, <2>3, <2>4 DEF RetryRun
<1>8. CASE Record(w)
  <2>1. r.pc = "record"
    BY <1>r, <1>8 DEF Record
  <2>2. Target(w) \in Orders /\ r.order \in OrderRec /\ r.leaf \in Leaves \cup {None}
    BY <1>r, <1>0, <2>1, RunFacts DEF TypedRun, IssuancePC, HoldsOrder, RunRec
  <2>3. CompleteIssuance(r.task, r.fence, Target(w), r.order, r.leaf) /\ End(w)
    BY <1>r, <1>8 DEF Record
  <2> QED BY <1>1, <1>3, <2>2, <2>3, WorkerMethodTypes
<1> QED BY <1>5, <1>6, <1>7, <1>8

(* The dispatch commit and the CA call keep the types. *)
LEMMA DispatchSteps ==
  ASSUME TypeInv, NEW w \in Workers, UNCHANGED <<hand, acked>>, StoreDispatch(w) \/ Issue(w)
  PROVE  TypeInv'
<1>r. PICK r : r = run[w]
  OBVIOUS
<1>0. r \in RunRec /\ TypedRun(r) /\ now \in Nat
  BY <1>r, RunFacts
<1>1. CASE StoreDispatch(w)
  <2> DEFINE d == Stored(r.order)
             p == [r EXCEPT !.order = d]
  <2>1. r.pc = "begin" /\ BeginIssuance(r.task, r.fence, Target(w), r.order, r.acct, r.snap, r.at)
    BY <1>1, <1>r DEF StoreDispatch
  <2>2. r.order \in OrderRec /\ Target(w) \in Orders /\ r.order.op # None
    BY <1>r, <1>0, <2>1, RunFacts DEF TypedRun, IssuancePC, HoldsOrder, BeginIssuance, DispatchCurrent
  <2>3. d \in OrderRec /\ d.op \in TaskIDs
    <3>1. r.order.op \in TaskIDs
      BY <2>2 DEF OrderRec
    <3> QED BY <2>2, <3>1, StoredType
  <2>4. StoreTypeOK' /\ KeepsTasks
    BY <1>1, <2>1, <2>2, <2>3, SameTasks DEF StoreDispatch, BeginIssuance, StoreTypeOK, TypeInv, TypeOK
  <2>5. run' = [run EXCEPT ![w] = Request(p)]
    BY <1>1, <1>r DEF StoreDispatch
  <2> HIDE DEF d
  <2>6. p \in RunRec /\ p.order = d /\ p.task = r.task /\ p.pc = r.pc
    BY <1>0, <2>3 DEF RunRec
  <2> HIDE DEF p
  <2>7. Request(p) \in RunRec /\ TypedRun(Request(p))
    BY <1>0, <2>1, <2>3, <2>6, RequestType
       DEF TypedRun, ValidationPC, IssuancePC, HoldsCh, HoldsAuthz, HoldsOrder
  <2>8. IssuanceTypeOK' /\ faults' \in 0..MaxFaults
    BY <1>1, RunFacts DEF TypeInv, TypeOK, IssuanceTypeOK, StoreDispatch
  <2> QED BY <2>4, <2>5, <2>7, <2>8, WorkerWrites
<1>2. CASE Issue(w)
  <2> DEFINE q == [r EXCEPT !.pc = "await"]
             late == r.recoveryOnly \/ r.order.deadline <= now
             opened == [state |-> IF late THEN "rejected" ELSE "open",
                        leaf |-> None, deadline |-> r.order.deadline]
  <2>1. r.pc = "issue"
    BY <1>2, <1>r DEF Issue
  <2>2. r.order \in OrderRec
    BY <1>0, <2>1 DEF TypedRun, HoldsOrder, IssuancePC
  <2>3. opened \in CARec
    BY <2>2 DEF CARec, OrderRec
  <2>4. ca' = [ca EXCEPT ![r.order.op] = opened] \/ ca' = ca
    BY <1>2, <1>r DEF Issue
  <2> HIDE DEF opened
  <2>5. IssuanceTypeOK'
    BY <2>3, <2>4 DEF IssuanceTypeOK, TypeInv, TypeOK
  <2>6. run' = [run EXCEPT ![w] = q]
    BY <1>2, <1>r DEF Issue, Goto, TypeInv, TypeOK, WorkerTypeOK
  <2>7. q \in RunRec /\ TypedRun(q)
    BY SMT, <1>0, <2>1 DEF RunRec, TypedRun, PC, ValidationPC, IssuancePC, HoldsCh, HoldsAuthz, HoldsOrder
  <2>8. StoreTypeOK' /\ KeepsTasks /\ faults' \in 0..MaxFaults
    BY <1>2, RunFacts, SameTasks DEF Issue, storeVars, StoreTypeOK, TypeInv, TypeOK
  <2> HIDE DEF q
  <2> QED BY <2>5, <2>6, <2>7, <2>8, WorkerWrites
<1> QED BY <1>1, <1>2

-----------------------------------------------------------------------------
(* The steps of a request. *)

(* What TypeInv says of the store and of one request. *)
LEMMA HandFacts ==
  ASSUME TypeInv, NEW h \in Handlers
  PROVE  /\ hand[h] \in HandRec /\ TypedHand(hand[h]) /\ now \in Nat
         /\ account \in AccountRec /\ order \in [Orders -> OrderRec]
         /\ authz \in [Authzs -> AuthzRec] /\ ch \in [Challenges -> ChallengeRec]
         /\ acked \subseteq Orders \X CSRs
BY SMT, StoreAssumption DEF TypeInv, TypeOK, StoreTypeOK, HandlerTypeOK

(* A request that ended is well typed. *)
LEMMA FreeType == Free \in HandRec /\ TypedHand(Free)
BY DEF Free, HandRec, HandlerPC, TypedHand

(* A read keeps the store typed. *)
LEMMA ReadingType ==
  ASSUME TypeInv, Reading
  PROVE  StoreTypeOK' /\ KeepsTasks
BY SameTasks DEF Reading, storeVars, StoreTypeOK, TypeInv, TypeOK

(* The reads of acceptChallenge and deactivateAuthorization keep the types. *)
LEMMA RequestReads ==
  ASSUME TypeInv, NEW h \in Handlers, UNCHANGED <<run, faults, ca>>,
         \/ Authenticate(h) \/ Answer(h)
         \/ \E c \in Challenges : Respond(h, c)
         \/ RespondAuthorization(h) \/ RespondCount(h)
         \/ \E a \in Authzs : Deactivate(h, a)
  PROVE  TypeInv'
<1>r. PICK r : r = hand[h]
  OBVIOUS
<1>0. r \in HandRec /\ TypedHand(r)
  BY <1>r, HandFacts
<1>s. StoreTypeOK' /\ KeepsTasks /\ acked' \subseteq Orders \X CSRs
  BY ReadingType, HandFacts
     DEF Authenticate, Answer, Respond, RespondAuthorization, RespondCount, Deactivate
<1>m. ASSUME NEW q \in HandRec, TypedHand(q), Move(h, q) PROVE TypeInv'
  BY <1>s, <1>m, HandlerWrites DEF Move
<1>f. ASSUME Reply(h) PROVE TypeInv'
  BY <1>f, <1>m, FreeType DEF Reply
<1>1. CASE Authenticate(h)
  <2> DEFINE q == [Free EXCEPT !.pc = "signed", !.copy = account]
  <2>1. q \in HandRec /\ TypedHand(q)
    BY HandFacts DEF HandRec, HandlerPC, TypedHand, Free
  <2>2. Move(h, q)
    BY <1>1 DEF Authenticate
  <2> HIDE DEF q
  <2> QED BY <2>1, <2>2, <1>m
<1>2. CASE Answer(h)
  BY <1>2, <1>f DEF Answer
<1>3. ASSUME NEW c \in Challenges, Respond(h, c) PROVE TypeInv'
  <2> DEFINE q == [Free EXCEPT !.pc = "respAuthz", !.id = c, !.copy = ch[c]]
  <2>1. q \in HandRec /\ TypedHand(q)
    BY HandFacts DEF HandRec, HandlerPC, TypedHand, Free
  <2>2. Move(h, q)
    BY <1>3 DEF Respond
  <2> HIDE DEF q
  <2> QED BY <2>1, <2>2, <1>m
<1>4. CASE RespondAuthorization(h)
  <2> DEFINE q == [r EXCEPT !.pc = "respCount"]
  <2>1. r.pc = "respAuthz" /\ (Move(h, q) \/ Reply(h))
    BY <1>4, <1>r DEF RespondAuthorization
  <2>2. q \in HandRec /\ TypedHand(q)
    BY <1>0, <2>1 DEF HandRec, HandlerPC, TypedHand
  <2> HIDE DEF q
  <2> QED BY <2>1, <2>2, <1>m, <1>f
<1>5. CASE RespondCount(h)
  <2> DEFINE q == [r EXCEPT !.pc = "respStore", !.copy.status = "processing"]
  <2>1. r.pc = "respCount" /\ (Move(h, q) \/ Reply(h))
    BY <1>5, <1>r DEF RespondCount
  <2>2. r.copy \in ChallengeRec
    BY <1>0, <2>1 DEF TypedHand
  <2>3. [r.copy EXCEPT !.status = "processing"] \in ChallengeRec
    BY <2>2 DEF ChallengeRec, ChallengeStatus
  <2>4. q = [r EXCEPT !.pc = "respStore", !.copy = [r.copy EXCEPT !.status = "processing"]]
    BY <1>0 DEF HandRec
  <2>5. q \in HandRec /\ TypedHand(q)
    BY <1>0, <2>1, <2>3, <2>4 DEF HandRec, HandlerPC, TypedHand
  <2> HIDE DEF q
  <2> QED BY <2>1, <2>5, <1>m, <1>f
<1>6. ASSUME NEW a \in Authzs, Deactivate(h, a) PROVE TypeInv'
  <2> DEFINE x == [authz[a] EXCEPT !.status = "deactivated"]
             q == [Free EXCEPT !.pc = "deactivate", !.id = a, !.copy = x]
  <2>1. x \in AuthzRec
    BY HandFacts DEF AuthzRec, AuthzStatus
  <2>2. Move(h, q)
    BY <1>6 DEF Deactivate
  <2> HIDE DEF x
  <2>3. q \in HandRec /\ TypedHand(q)
    BY <2>1 DEF HandRec, HandlerPC, TypedHand, Free
  <2> HIDE DEF q
  <2> QED BY <2>2, <2>3, <1>m
<1> QED BY <1>1, <1>2, <1>3, <1>4, <1>5, <1>6

(* The reads of serveFinalize keep the types. *)
LEMMA FinalizeReads ==
  ASSUME TypeInv, NEW h \in Handlers, UNCHANGED <<run, faults, ca>>,
         \/ \E o \in Orders, csr \in CSRs : Finalize(h, o, csr)
         \/ FinalizeDerive(h) \/ FinalizeReload(h)
  PROVE  TypeInv'
<1>r. PICK r : r = hand[h]
  OBVIOUS
<1>0. r \in HandRec /\ TypedHand(r)
  BY <1>r, HandFacts
<1>s. StoreTypeOK' /\ KeepsTasks
  BY ReadingType DEF Finalize, FinalizeDerive, FinalizeReload
<1>m. ASSUME NEW q \in HandRec, TypedHand(q), Move(h, q), acked' \subseteq Orders \X CSRs PROVE TypeInv'
  BY <1>s, <1>m, HandlerWrites DEF Move
<1>f. ASSUME Reply(h), acked' = acked PROVE TypeInv'
  BY <1>f, <1>m, FreeType, HandFacts DEF Reply
<1>k. ASSUME NEW o \in Orders, NEW csr \in CSRs, Acknowledge(h, o, csr) PROVE TypeInv'
  <2>1. acked' \subseteq Orders \X CSRs
    BY SMT, <1>k, HandFacts DEF Acknowledge
  <2> QED BY <1>k, <2>1, <1>m, FreeType DEF Reply, Acknowledge
<1>1. ASSUME NEW o \in Orders, NEW csr \in CSRs, Finalize(h, o, csr) PROVE TypeInv'
  <2> DEFINE todo == AuthzsOf(o)
             q == [Free EXCEPT !.pc = "finDerive", !.id = o, !.copy = order[o], !.csr = csr,
                               !.todo = todo, !.status = "ready", !.at = now]
  <2>1. todo \subseteq Authzs
    BY DEF AuthzsOf
  <2>2. (Move(h, q) /\ acked' = acked) \/ Acknowledge(h, o, csr)
    BY <1>1 DEF Finalize
  <2> HIDE DEF todo
  <2>3. q \in HandRec /\ TypedHand(q)
    BY <2>1, HandFacts DEF HandRec, HandlerPC, TypedHand, Free, OrderStatus
  <2> HIDE DEF q
  <2> QED BY <2>2, <2>3, <1>m, <1>k, HandFacts
<1>2. CASE FinalizeDerive(h)
  <2>1. r.pc = "finDerive" /\ acked' = acked
    BY <1>2, <1>r DEF FinalizeDerive
  <2>2. /\ r.copy \in OrderRec /\ r.csr \in CSRs /\ r.status \in OrderStatus /\ r.id \in Orders
        /\ r.todo \subseteq Authzs
    BY <1>0, <2>1 DEF TypedHand, HandRec
  <2>3. PICK a \in r.todo : 
          LET status == Derive(r.status, EffectiveAuthzStatus(authz[a], r.at))
          IN  \/ Move(h, [r EXCEPT !.todo = @ \ {a}, !.status = status])
              \/ Move(h, [r EXCEPT !.pc = "finStore", !.todo = {}, !.status = None, !.at = 0,
                                   !.copy.status = "processing", !.copy.csr = r.csr])
              \/ Reply(h)
    BY <1>2, <1>r DEF FinalizeDerive
  <2> DEFINE s == Derive(r.status, EffectiveAuthzStatus(authz[a], r.at))
             x == [r.copy EXCEPT !.status = "processing", !.csr = r.csr]
             p == [r EXCEPT !.todo = @ \ {a}, !.status = s]
             q == [r EXCEPT !.pc = "finStore", !.todo = {}, !.status = None, !.at = 0, !.copy = x]
  <2>4. Move(h, p) \/ Move(h, q) \/ Reply(h)
    <3>1. q = [r EXCEPT !.pc = "finStore", !.todo = {}, !.status = None, !.at = 0,
                        !.copy.status = "processing", !.copy.csr = r.csr]
      BY <1>0 DEF HandRec
    <3> QED BY <2>3, <3>1
  <2>5. s \in OrderStatus
    BY <2>2, DeriveType
  <2>6. x \in OrderRec
    BY <2>2 DEF OrderRec, OrderStatus
  <2> HIDE DEF s, x
  <2>7. p \in HandRec /\ TypedHand(p)
    BY <1>0, <2>1, <2>2, <2>5 DEF HandRec, TypedHand, HandlerPC
  <2>8. q \in HandRec /\ TypedHand(q)
    BY <1>0, <2>2, <2>6 DEF HandRec, TypedHand, HandlerPC
  <2> HIDE DEF p, q
  <2> QED BY <2>1, <2>4, <2>7, <2>8, <1>m, <1>f, HandFacts
<1>3. CASE FinalizeReload(h)
  <2>1. r.id \in Orders /\ r.csr \in CSRs
    BY <1>0, <1>3, <1>r DEF TypedHand, FinalizeReload
  <2> QED BY <1>3, <1>r, <2>1, <1>f, <1>k DEF FinalizeReload
<1> QED BY <1>1, <1>2, <1>3

(* The commits of the requests keep the types. *)
LEMMA RequestWrites ==
  ASSUME TypeInv, NEW h \in Handlers, UNCHANGED <<run, faults, ca>>,
         \/ RespondStore(h) \/ FinalizeStore(h) \/ DeactivateStore(h)
         \/ \E status \in {"valid", "deactivated"} : ChangeAccount(h, status)
  PROVE  TypeInv'
<1>r. PICK r : r = hand[h]
  OBVIOUS
<1>0. r \in HandRec /\ TypedHand(r)
  BY <1>r, HandFacts
<1>t. /\ now \in 0..MaxTime /\ account \in AccountRec /\ order \in [Orders -> OrderRec]
      /\ authz \in [Authzs -> AuthzRec] /\ ch \in [Challenges -> ChallengeRec]
      /\ cert \in [Leaves -> Orders \cup {None}] /\ acked \subseteq Orders \X CSRs
  BY DEF TypeInv, TypeOK, StoreTypeOK, HandlerTypeOK
<1>n. now' = now
  BY DEF RespondStore, FinalizeStore, DeactivateStore, ChangeAccount
<1>m. ASSUME NEW q \in HandRec, TypedHand(q), Move(h, q), StoreTypeOK' /\ KeepsTasks,
             acked' \subseteq Orders \X CSRs
      PROVE  TypeInv'
  BY <1>m, HandlerWrites DEF Move
<1>f. ASSUME Reply(h), acked' \subseteq Orders \X CSRs, StoreTypeOK' /\ KeepsTasks PROVE TypeInv'
  BY <1>f, <1>m, FreeType DEF Reply
<1>u. ASSUME UNCHANGED storeVars PROVE StoreTypeOK' /\ KeepsTasks
  BY <1>u, <1>n, ReadingType DEF Reading
<1>1. CASE RespondStore(h)
  <2>1. r.id \in Challenges /\ r.copy \in ChallengeRec
    BY <1>0, <1>1, <1>r DEF TypedHand, RespondStore
  <2>2. ASSUME AcceptChallenge(r.id, r.copy) PROVE StoreTypeOK' /\ KeepsTasks
    <3>1. ch' \in [Challenges -> ChallengeRec] /\ UNCHANGED <<account, order, authz, cert>>
      BY <1>t, <2>1, <2>2, StoredType DEF AcceptChallenge
    <3>2. task' \in [TaskIDs -> TaskRec] /\ KeepsTasks
      BY <2>1, <2>2, InsertType DEF AcceptChallenge
    <3> QED BY <1>t, <1>n, <3>1, <3>2 DEF StoreTypeOK
  <2> QED BY <1>1, <1>r, <1>t, <1>f, <1>u, <2>2 DEF RespondStore
<1>2. CASE FinalizeStore(h)
  <2>1. r.pc = "finStore" /\ r.id \in Orders /\ r.csr \in CSRs /\ r.copy \in OrderRec
    BY <1>0, <1>2, <1>r DEF TypedHand, FinalizeStore
  <2>2. ASSUME FinalizeOrder(r.id, r.copy) PROVE StoreTypeOK' /\ KeepsTasks
    <3>1. order' \in [Orders -> OrderRec] /\ UNCHANGED <<account, authz, ch, cert>>
      BY <1>t, <2>1, <2>2, StoredType DEF FinalizeOrder
    <3>2. task' \in [TaskIDs -> TaskRec] /\ KeepsTasks
      BY <2>1, <2>2, InsertType DEF FinalizeOrder
    <3> QED BY <1>t, <1>n, <3>1, <3>2 DEF StoreTypeOK
  <2> DEFINE q == [r EXCEPT !.pc = "finReload", !.copy = None]
  <2>3. q \in HandRec /\ TypedHand(q)
    BY <1>0, <2>1 DEF HandRec, TypedHand, HandlerPC
  <2>4. \/ FinalizeOrder(r.id, r.copy) /\ Reply(h) /\ acked' = acked \cup {<<r.id, r.csr>>}
        \/ Move(h, q) /\ UNCHANGED storeVars /\ acked' = acked
    BY <1>2, <1>r DEF FinalizeStore, Acknowledge
  <2> HIDE DEF q
  <2> QED BY SMT, <1>t, <1>f, <1>m, <1>u, <2>1, <2>2, <2>3, <2>4
<1>3. CASE DeactivateStore(h)
  <2>1. r.id \in Authzs /\ r.copy \in AuthzRec
    BY <1>0, <1>3, <1>r DEF TypedHand, DeactivateStore
  <2>2. ASSUME UpdateAuthorization(r.id, r.copy) PROVE StoreTypeOK' /\ KeepsTasks
    <3> DEFINE o == OrderOf[r.id]
               x == [order[o] EXCEPT !.status = "invalid", !.rev = @ + 1]
    <3>1. authz' \in [Authzs -> AuthzRec] /\ UNCHANGED <<account, ch, task, cert>>
      BY <1>t, <2>1, <2>2, StoredType DEF UpdateAuthorization
    <3>2. o \in Orders /\ order[o] \in OrderRec
      BY <1>t, <2>1, StoreAssumption
    <3>3. order' = order \/ order' = [order EXCEPT ![o].status = "invalid", ![o].rev = @ + 1]
      BY <2>2 DEF UpdateAuthorization
    <3>4. x \in OrderRec
      <4>1. [order[o] EXCEPT !.status = "invalid"] \in OrderRec /\ order[o].rev + 1 \in Nat
        BY SMT, <3>2 DEF OrderRec, OrderStatus
      <4>2. \A n \in Nat : [order[o] EXCEPT !.status = "invalid", !.rev = n] \in OrderRec
        BY <4>1 DEF OrderRec
      <4> QED BY <4>1, <4>2
    <3>5. order' = order \/ order' = [order EXCEPT ![o] = x]
      BY <1>t, <3>3
    <3> HIDE DEF x, o
    <3>6. order' \in [Orders -> OrderRec]
      BY <1>t, <3>2, <3>4, <3>5
    <3> QED BY <1>t, <1>n, <3>1, <3>6, SameTasks DEF StoreTypeOK
  <2> QED BY <1>3, <1>r, <1>t, <1>f, <1>u, <2>2 DEF DeactivateStore
<1>4. ASSUME NEW status \in {"valid", "deactivated"}, ChangeAccount(h, status) PROVE TypeInv'
  <2> DEFINE x == [r.copy EXCEPT !.status = status]
  <2>1. x \in AccountRec
    BY <1>0, <1>4, <1>r DEF TypedHand, ChangeAccount, Begin, AccountRec
  <2>2. UpdateAccount(x) \/ UNCHANGED storeVars
    BY <1>4, <1>r DEF ChangeAccount
  <2> HIDE DEF x
  <2>3. ASSUME UpdateAccount(x) PROVE StoreTypeOK' /\ KeepsTasks
    <3>1. account' \in AccountRec
      BY <2>1, <2>3, StoredType DEF UpdateAccount
    <3> QED BY <1>t, <1>n, <2>3, <3>1, SameTasks DEF UpdateAccount, StoreTypeOK
  <2> QED BY <1>4, <1>t, <1>f, <1>u, <2>2, <2>3 DEF ChangeAccount
<1> QED BY <1>1, <1>2, <1>3, <1>4

-----------------------------------------------------------------------------

(* The clock and the CA keep the types. *)
LEMMA OtherSteps ==
  ASSUME TypeInv,
         \/ Tick \/ UNCHANGED vars
         \/ \E op \in TaskIDs : CAStep(op)
  PROVE  TypeInv'
<1>1. CASE UNCHANGED vars
  BY <1>1 DEF vars, TypeInv, TypeOK, StoreTypeOK, WorkerTypeOK, IssuanceTypeOK, HandlerTypeOK,
              TypedTask, TypedRun, TypedHand, FreshTask
<1>2. CASE Tick
  <2>1. now' \in 0..MaxTime
    BY SMT, <1>2, StoreAssumption DEF Tick, TypeInv, TypeOK, StoreTypeOK
  <2> QED BY <1>2, <2>1 DEF Tick, storeVars, TypeInv, TypeOK, StoreTypeOK, WorkerTypeOK,
              IssuanceTypeOK, HandlerTypeOK, TypedTask, TypedRun, TypedHand, FreshTask
<1>3. ASSUME NEW op \in TaskIDs, CAStep(op) PROVE TypeInv'
  <2>1. ca \in [TaskIDs -> CARec]
    BY DEF TypeInv, TypeOK, IssuanceTypeOK
  <2>2. ca' \in [TaskIDs -> CARec]
    <3>1. CASE CASigns(op)
      <4>1. PICK l \in Leaves : ca' = [ca EXCEPT ![op].state = "issued", ![op].leaf = l]
        BY <3>1 DEF CASigns
      <4> DEFINE x == [ca[op] EXCEPT !.state = "issued", !.leaf = l]
      <4>2. x \in CARec /\ ca' = [ca EXCEPT ![op] = x]
        BY <2>1, <4>1 DEF CARec
      <4> HIDE DEF x
      <4> QED BY <2>1, <4>2
    <3>2. CASE CARejects(op)
      <4> DEFINE x == [ca[op] EXCEPT !.state = "rejected"]
      <4>2. x \in CARec /\ ca' = [ca EXCEPT ![op] = x]
        BY <2>1, <3>2 DEF CARec, CARejects
      <4> HIDE DEF x
      <4> QED BY <2>1, <4>2
    <3> QED BY <1>3, <3>1, <3>2 DEF CAStep
  <2>3. UNCHANGED <<now, storeVars, run, faults, hand, acked>>
    BY <1>3 DEF CAStep, CASigns, CARejects
  <2> QED BY <2>2, <2>3 DEF storeVars, TypeInv, TypeOK, StoreTypeOK, WorkerTypeOK,
              IssuanceTypeOK, HandlerTypeOK, TypedTask, TypedRun, TypedHand, FreshTask
<1> QED BY <1>1, <1>2, <1>3

(* The created resources, with no task and nobody at work, are typed. *)
LEMMA TypeStart ==
  ASSUME Init
  PROVE  TypeInv
<1>1. \A o \in Orders : NewOrder(o) \in OrderRec
  BY DEF NewOrder, OrderRec, OrderStatus
<1>2. \A a \in Authzs : NewAuthz(a) \in AuthzRec
  BY StoreAssumption DEF NewAuthz, AuthzRec, AuthzStatus
<1>3. StoreTypeOK
  BY SMT, <1>1, <1>2, StoreAssumption
     DEF Init, StoreInit, StoreTypeOK, AccountRec, ChallengeRec, ChallengeStatus, TaskRec
<1>4. WorkerTypeOK /\ \A w \in Workers : TypedRun(run[w])
  BY SMT, IdleType, WorkerAssumption DEF Init, WorkerInit, WorkerTypeOK
<1>5. IssuanceTypeOK
  BY DEF Init, CAInit, IssuanceTypeOK, CARec
<1>6. HandlerTypeOK /\ \A h \in Handlers : TypedHand(hand[h])
  BY FreeType DEF Init, HandlerInit, HandlerTypeOK
<1>7. \A t \in TaskIDs : TypedTask(t)
  BY DEF Init, StoreInit, TypedTask, FreshTask
<1> QED BY <1>3, <1>4, <1>5, <1>6, <1>7 DEF TypeInv, TypeOK

(* No step of the lifecycle breaks TypeInv. *)
LEMMA TypeStep ==
  ASSUME TypeInv, [Next]_vars
  PROVE  TypeInv'
<1>1. ASSUME NEW w \in Workers, WorkerSteps(w) PROVE TypeInv'
  BY <1>1, ValidationReads, ValidationLoop, IssuanceDecides, IssuanceAnswers,
     ClaimSteps, CommitSteps, DispatchSteps
     DEF WorkerSteps, ValidationStep, IssuanceStep, Record
<1>2. ASSUME NEW w \in Workers, WorkerFaults(w) PROVE TypeInv'
  BY <1>2, ValidationReads, IssuanceDecides, IssuanceAnswers, ClaimSteps, RunStops
     DEF WorkerFaults
<1>3. ASSUME NEW h \in Handlers, HandlerStep(h) /\ UNCHANGED <<run, faults, ca>> PROVE TypeInv'
  BY <1>3, RequestReads, FinalizeReads, RequestWrites DEF HandlerStep
<1> QED BY <1>1, <1>2, <1>3, OtherSteps DEF Next, Rest

(* Whatever the interleaving of requests, workers, crashes, lapsed leases  *)
(* and CA answers, the store keeps its types, and each run and request     *)
(* holds the copies that its next step uses and works on a task of the     *)
(* right kind.                                                             *)
THEOREM TypeCorrect == Spec => []TypeInv
<1>1. Init => TypeInv
  BY TypeStart
<1>2. TypeInv /\ [Next]_vars => TypeInv'
  BY TypeStep
<1> QED BY <1>1, <1>2, PTL DEF Spec

-----------------------------------------------------------------------------
(* Fencing. *)

(* A step of a run under way that writes to the store has checked the      *)
(* run's fence against its task.                                           *)
LEMMA WritesAreFenced ==
  ASSUME NEW w \in Workers, WorkerSteps(w) \/ WorkerFaults(w), run[w].pc # "idle",
         ~CheckTask(run[w].task, run[w].fence)
  PROVE  UNCHANGED storeVars
<1>1. ASSUME NEW r, Local(w, r) \/ Step(w, r) PROVE UNCHANGED storeVars
  BY <1>1 DEF Local, Step
<1>2. CASE ValidationStep(w) \/ ValidateErrs(w)
  BY <1>1, <1>2
     DEF ValidationStep, ReadChallenge, ReadAuthorization, ReadAccount, ValidateSucceeds,
         ValidateRefuses, ValidateErrs, ReadOrder, DeriveOrderStatus, CommitValidation,
         CompleteValidation, ValidationCurrent, CommitValidationFails, ReloadAuthorization,
         RetryRun, RetryValidation
<1>3. CASE IssuanceStep(w) \/ PolicyErrs(w) \/ AnswerMuddled(w) \/ AnswerPending(w)
  BY <1>1, <1>3
     DEF IssuanceStep, ReadIssuanceOrder, DispatchAccount, Snapshot, PolicyAllows, PolicyRefuses,
         PolicyErrs, StoreDispatch, BeginIssuance, DispatchCurrent, DispatchConflict, Issue,
         AnswerIssued, AnswerMuddled, AnswerRejected, AnswerPending, Record, CompleteIssuance,
         RecordFails
<1>4. CASE \/ Claim(w) \/ ClaimLapsed(w) \/ Reschedule(w) \/ Finish(w) \/ Crash(w) \/ CallFails(w)
  BY <1>4 DEF Claim, ClaimLapsed, StartRun, Reschedule, RescheduleTask, Finish, FinishTask,
              Crash, CallFails
<1> QED BY <1>2, <1>3, <1>4 DEF WorkerSteps, WorkerFaults

(* A run whose task was claimed again, or finished, by another worker      *)
(* changes nothing in the store, at whichever step it was overtaken: every *)
(* Store method a worker calls compares the fence.                         *)
THEOREM Fenced == Spec => StaleRunWritesNothing
<1> DEFINE Quiet ==
      \A w \in Workers :
        LET t == run[w].task IN
        run'[w] # run[w] /\ run[w].pc # "idle" /\ ~(Live(t) /\ Holds(w, t))
          => UNCHANGED storeVars
<1>1. TypeInv /\ [Next]_vars => [Quiet]_vars
  <2> SUFFICES ASSUME TypeInv, Next, NEW w \in Workers, run'[w] # run[w], run[w].pc # "idle",
                      ~(Live(run[w].task) /\ Holds(w, run[w].task))
               PROVE  UNCHANGED storeVars
    BY DEF Quiet
  <2>1. PICK v \in Workers : WorkerSteps(v) \/ WorkerFaults(v)
    BY DEF Next, Tick, CAStep, CASigns, CARejects, Rest, vars
  <2>2. v = w
    BY <2>1, OwnRun
  <2>3. ~CheckTask(run[w].task, run[w].fence)
    BY DEF CheckTask, Holds
  <2> QED BY <2>1, <2>2, <2>3, WritesAreFenced
<1> QED BY <1>1, TypeCorrect, PTL DEF Spec, StaleRunWritesNothing, Quiet

-----------------------------------------------------------------------------
(* Two facts that later proofs share. *)

-----------------------------------------------------------------------------
(* What runs and requests know of the resources they copied survives the   *)
(* steps of others, and a run that writes nothing goes on knowing it.      *)

(* What every write does to a resource: the revision advances, and nothing *)
(* that was decided is undecided again.                                    *)
ChallengeAdvances(c) ==
  \/ ch'[c] = ch[c]
  \/ /\ ch[c].rev < ch'[c].rev
     /\ ch[c].status # "pending" => ch'[c].status # "pending"
     /\ ch[c].status \in Settled => ch'[c].status \in Settled
OrderAdvances(o) ==
  \/ order'[o] = order[o]
  \/ /\ order[o].rev < order'[o].rev
     /\ order[o].status \notin Open => order'[o].status \notin Open
     /\ order[o].status \in Settled => order'[o].status \in Settled
     /\ order[o].csr # None => order'[o].csr = order[o].csr
     /\ order[o].op # None => order'[o].op = order[o].op
Advances ==
  /\ \A c \in Challenges : ChallengeAdvances(c)
  /\ \A o \in Orders : OrderAdvances(o)
  /\ KeepsTasks

(* Revisions are numbers. *)
LEMMA RevTypes ==
  ASSUME TypeInv
  PROVE  /\ \A c \in Challenges : ch[c].rev \in Nat
         /\ \A o \in Orders : order[o].rev \in Nat
BY DEF TypeInv, TypeOK, StoreTypeOK, ChallengeRec, OrderRec

(* What a run knows survives the steps of others: a copy that is current   *)
(* after the step was current before it, and nothing it copied changed.    *)
LEMMA OthersKnow ==
  ASSUME Coherent, TypeInv', Advances, NEW w \in Workers, run'[w] = run[w]
  PROVE  Knows(run[w])'
<1>r. PICK r : r = run[w]
  OBVIOUS
<1>0. TypeInv /\ KnowsChallenge(r) /\ KnowsOrder(r) /\ KnowsSettled(r)
  BY <1>r DEF Coherent, Knows
<1>1. r.pc \in ValidationPC \/ r.pc \in IssuancePC \/ r.pc = "finish" => r.pc # "idle"
  BY DEF ValidationPC, IssuancePC
<1>2. r.pc # "idle" =>
        /\ OrderIn(r)' = OrderIn(r) /\ OrderIn(r) \in Orders
        /\ task'[r.task].kind = task[r.task].kind /\ task'[r.task].target = task[r.task].target
        /\ task[r.task].kind = "validate" => task[r.task].target \in Challenges
        /\ task[r.task].kind # "validate" => task[r.task].target \in Orders
  BY <1>0, <1>r, HeldTypes DEF Advances, KeepsTasks, OrderIn
<1>3. KnowsChallenge(r)'
  <2> SUFFICES ASSUME r.pc \in HoldsCh PROVE KnowsChallenge(r)'
    BY DEF KnowsChallenge
  <2> DEFINE c == task[r.task].target
  <2>1. r.pc # "idle" /\ task[r.task].kind = "validate" /\ r.ch.rev \in Nat
    BY <1>0, <1>r, RunFacts, HeldTypes DEF HoldsCh, ValidationPC, TypedRun
  <2>2. c \in Challenges /\ task'[r.task].target = c
    BY <1>2, <2>1
  <2>3. ch[c].rev \in Nat /\ ch'[c].rev \in Nat
    BY <1>0, <2>2, RevTypes DEF TypeInv, TypeOK, StoreTypeOK, ChallengeRec
  <2>4. ChallengeAdvances(c)
    BY <2>2 DEF Advances
  <2> HIDE DEF c
  <2>5. /\ r.ch.rev <= ch[c].rev
        /\ r.ch.rev = ch[c].rev => ch[c].status = "processing"
    BY <1>0 DEF KnowsChallenge, c
  <2>6. /\ r.ch.rev <= ch'[c].rev
        /\ r.ch.rev = ch'[c].rev => ch'[c].status = "processing"
    BY SMT, <2>1, <2>3, <2>4, <2>5 DEF ChallengeAdvances
  <2> QED BY <1>0, <2>2, <2>6 DEF KnowsChallenge
<1>4. KnowsOrder(r)'
  <2> SUFFICES ASSUME r.pc \in HoldsOrder PROVE KnowsOrder(r)'
    BY DEF KnowsOrder
  <2> DEFINE o == OrderIn(r)
  <2>1. r.pc # "idle" /\ r.order.rev \in Nat
    BY <1>0, <1>r, HeldTypes DEF HoldsOrder, IssuancePC
  <2>2. o \in Orders /\ OrderIn(r)' = o
    BY <1>2, <2>1
  <2>3. order[o].rev \in Nat /\ order'[o].rev \in Nat
    BY <1>0, <2>2, RevTypes DEF TypeInv, TypeOK, StoreTypeOK, OrderRec
  <2>4. OrderAdvances(o)
    BY <2>2 DEF Advances
  <2>5. r.pc \in {"issue", "await"} => r.order.op # None
    BY SMT, <1>0, <1>r, RunFacts, StoreAssumption DEF TypedRun
  <2> HIDE DEF o
  <2>6. r.order.rev <= order[o].rev
    BY <1>0 DEF KnowsOrder, o
  <2>7. order'[o] = order[o] \/ order[o].rev < order'[o].rev
    BY <2>4 DEF OrderAdvances
  <2>8. r.order.rev <= order'[o].rev /\ (r.order.rev = order'[o].rev => order'[o] = order[o])
    BY SMT, <2>1, <2>3, <2>6, <2>7
  <2>9. r.pc \in {"issue", "await"} => order'[o].op = r.order.op
    BY SMT, <1>0, <2>4, <2>5 DEF KnowsOrder, OrderAdvances, o
  <2> QED BY <1>0, <2>2, <2>8, <2>9 DEF KnowsOrder, o
<1>5. KnowsSettled(r)'
  BY <1>0, <1>1, <1>2 DEF KnowsSettled, Advances, ChallengeAdvances, OrderAdvances
<1>6. KnowsChallenge(run[w])'
  BY <1>r, <1>3 DEF KnowsChallenge
<1>7. KnowsOrder(run[w])'
  BY <1>r, <1>4 DEF KnowsOrder, OrderIn
<1>8. KnowsSettled(run[w])'
  BY <1>r, <1>5 DEF KnowsSettled
<1> QED BY <1>6, <1>7, <1>8 DEF Knows

(* The same for a request. *)
LEMMA OtherRequestsKnow ==
  ASSUME Coherent, TypeInv', Advances, NEW h \in Handlers, hand'[h] = hand[h]
  PROVE  KnowsRequest(hand[h])'
<1>r. PICK r : r = hand[h]
  OBVIOUS
<1>0. TypeInv /\ KnowsRequest(r) /\ TypedHand(r)
  BY <1>r DEF Coherent, TypeInv
<1>1. ASSUME r.pc \in {"respAuthz", "respCount", "respStore"}
      PROVE  /\ r.copy.rev <= ch'[r.id].rev
             /\ r.copy.rev = ch'[r.id].rev => ch'[r.id].status = "pending"
  <2>1. r.id \in Challenges /\ r.copy.rev \in Nat
    BY <1>0, <1>1 DEF TypedHand, ChallengeRec
  <2>2. ch[r.id].rev \in Nat /\ ch'[r.id].rev \in Nat
    BY <1>0, <2>1, RevTypes DEF TypeInv, TypeOK, StoreTypeOK, ChallengeRec
  <2>3. ch'[r.id] = ch[r.id] \/ ch[r.id].rev < ch'[r.id].rev
    BY <2>1 DEF Advances, ChallengeAdvances
  <2> QED BY SMT, <1>0, <1>1, <2>1, <2>2, <2>3 DEF KnowsRequest
<1>2. ASSUME r.pc \in {"finDerive", "finStore"}
      PROVE  /\ r.copy.rev <= order'[r.id].rev
             /\ r.copy.rev = order'[r.id].rev => order'[r.id].status \in Open
  <2>1. r.id \in Orders /\ r.copy.rev \in Nat
    BY <1>0, <1>2 DEF TypedHand, OrderRec
  <2>2. order[r.id].rev \in Nat /\ order'[r.id].rev \in Nat
    BY <1>0, <2>1, RevTypes DEF TypeInv, TypeOK, StoreTypeOK, OrderRec
  <2>3. order'[r.id] = order[r.id] \/ order[r.id].rev < order'[r.id].rev
    BY <2>1 DEF Advances, OrderAdvances
  <2> QED BY SMT, <1>0, <1>2, <2>1, <2>2, <2>3 DEF KnowsRequest
<1> QED BY <1>r, <1>0, <1>1, <1>2 DEF KnowsRequest

(* The invariant's parts that are about the store alone. *)
StoreCoherent == TaskFollowsStatus /\ OrderFollowsStatus /\ WorkTracked /\ OneOperation /\ AcknowledgedCSR

(* A step that only moves a run on. *)
LEMMA RunStep ==
  ASSUME Coherent, TypeInv', NEW w \in Workers, UNCHANGED <<storeVars, ca, hand, acked>>,
         \A v \in Workers : v # w => run'[v] = run[v],
         Knows(run'[w])
  PROVE  Coherent'
<1>1. Advances
  BY DEF Coherent, TypeInv, Advances, ChallengeAdvances, OrderAdvances, KeepsTasks, TypedTask,
         FreshTask, storeVars
<1>2. ASSUME NEW v \in Workers PROVE Knows(run[v])'
  <2>1. CASE v = w
    BY <2>1 DEF Knows, KnowsChallenge, KnowsOrder, KnowsSettled, OrderIn, storeVars
  <2>2. CASE v # w
    BY <1>1, <2>2, OthersKnow
  <2> QED BY <2>1, <2>2
<1>3. ASSUME NEW h \in Handlers PROVE KnowsRequest(hand[h])'
  BY <1>1, OtherRequestsKnow
<1>4. StoreCoherent'
  BY SMT DEF Coherent, StoreCoherent, TaskFollowsStatus, OrderFollowsStatus, WorkTracked, OneOperation,
         AcknowledgedCSR, LiveTasks, Live, FreshTask, storeVars
<1> QED BY <1>2, <1>3, <1>4 DEF Coherent, StoreCoherent

-----------------------------------------------------------------------------
(* Validation runs. *)

(* A run that ends, or that is about to release its task, relies on nothing. *)
LEMMA NothingToKnow ==
  ASSUME NEW r, r.pc \in {"idle", "reschedule"}
  PROVE  Knows(r)
BY DEF Knows, KnowsChallenge, KnowsOrder, KnowsSettled, HoldsCh, HoldsOrder, ValidationPC, IssuancePC

(* A run that goes on with its challenge copy, and holds no order. *)
LEMMA ChallengeKnown ==
  ASSUME NEW r, NEW q, r.pc \in HoldsCh, KnowsChallenge(r), q.task = r.task, q.ch.rev = r.ch.rev,
         \/ q.pc \in {"authorization", "account", "validate", "retry"} /\ q.ch.status = "processing"
         \/ q.pc \in {"order", "reload"} /\ q.ch.status \in Settled
  PROVE  Knows(q)
BY DEF Knows, KnowsChallenge, KnowsOrder, KnowsSettled, HoldsCh, HoldsOrder, ValidationPC, IssuancePC

(* runValidation up to the outcome knows what it copied. *)
LEMMA ValidationReadsKnow ==
  ASSUME Coherent, TypeInv', NEW w \in Workers,
         \/ ReadChallenge(w) \/ ReadAuthorization(w) \/ ReadAccount(w)
         \/ ValidateSucceeds(w) \/ ValidateRefuses(w) \/ ValidateErrs(w)
  PROVE  Knows(run'[w])
<1>r. PICK r : r = run[w]
  OBVIOUS
<1>q. PICK q : q = run'[w]
  OBVIOUS
<1>0. /\ TypeInv /\ r \in RunRec /\ TypedRun(r) /\ KnowsChallenge(r)
      /\ run \in [Workers -> RunRec] /\ run' \in [Workers -> RunRec]
  BY <1>r, RunFacts DEF Coherent, Knows, TypeInv, TypeOK, WorkerTypeOK
<1>1. CASE ReadChallenge(w)
  <2> DEFINE c == Target(w)
  <2>1. /\ r.pc = "challenge" /\ c = task[r.task].target
        /\ IF ch[c].status = "processing" THEN q = [r EXCEPT !.pc = "authorization", !.ch = ch[c]]
           ELSE q = [r EXCEPT !.pc = "finish"]
    BY <1>0, <1>1, <1>r, <1>q DEF ReadChallenge, Local, Target
  <2>2. /\ c \in Challenges /\ ch[c] \in ChallengeRec /\ r.task \in TaskIDs /\ ~FreshTask(r.task)
        /\ task[r.task].kind = "validate"
    BY <1>0, <1>r, <2>1, RunFacts DEF ValidationPC, TypedRun
  <2>3. ch[c].status # "pending"
    BY <2>1, <2>2 DEF Coherent, TaskFollowsStatus
  <2> HIDE DEF c
  <2>4. CASE ch[c].status = "processing"
    <3>1. q.pc = "authorization" /\ q.ch = ch[c] /\ q.task = r.task
      BY <1>0, <2>1, <2>4 DEF RunRec
    <3> QED BY SMT, <1>q, <2>1, <2>2, <2>4, <3>1
            DEF Knows, KnowsChallenge, KnowsOrder, KnowsSettled, HoldsOrder, IssuancePC, ChallengeRec
  <2>5. CASE ch[c].status # "processing"
    <3>1. q.pc = "finish" /\ q.task = r.task
      BY <1>0, <2>1, <2>5 DEF RunRec
    <3>2. ch[c].status \in Settled
      BY <2>2, <2>3, <2>5 DEF ChallengeRec, ChallengeStatus, Settled
    <3> QED BY <1>q, <2>1, <2>2, <3>1, <3>2
            DEF Knows, KnowsChallenge, KnowsOrder, KnowsSettled, HoldsCh, HoldsOrder, IssuancePC, ValidationPC
  <2> QED BY <2>4, <2>5
<1>2. CASE ~ReadChallenge(w)
  <2>1. r.pc \in {"authorization", "account", "validate"} /\ r.pc \in HoldsCh
    BY <1>2, <1>r DEF ReadAuthorization, ReadAccount, ValidateSucceeds, ValidateRefuses, ValidateErrs,
                      HoldsCh, ValidationPC
  <2>2. r.ch.status = "processing" /\ r.ch \in ChallengeRec
    BY <1>0, <2>1 DEF KnowsChallenge, TypedRun
  <2>3. \/ q.pc \in {"account", "validate", "retry"} /\ q.ch = r.ch /\ q.task = r.task
        \/ \E s \in Settled : q.pc = "order" /\ q.ch = [r.ch EXCEPT !.status = s] /\ q.task = r.task
    <3>1. \A f \in {ChallengeFails(r), BothFail(r)} :
            f.pc = "order" /\ f.ch = [r.ch EXCEPT !.status = "invalid"] /\ f.task = r.task
      BY <1>0 DEF ChallengeFails, BothFail, RunRec
    <3>2. CASE ReadAuthorization(w)
      BY <1>0, <1>r, <1>q, <3>2 DEF ReadAuthorization, Local, RunRec
    <3>3. CASE ReadAccount(w) \/ ValidateRefuses(w) \/ ValidateErrs(w)
      <4>1. q \in {ChallengeFails(r), BothFail(r), [r EXCEPT !.pc = "validate"], [r EXCEPT !.pc = "retry"]}
        BY <1>0, <1>r, <1>q, <3>3 DEF ReadAccount, ValidateRefuses, ValidateErrs, Local
      <4>2. \A pc \in {"validate", "retry"} :
              LET f == [r EXCEPT !.pc = pc] IN f.pc = pc /\ f.ch = r.ch /\ f.task = r.task
        BY <1>0 DEF RunRec
      <4>3. "invalid" \in Settled
        BY DEF Settled
      <4> QED BY <3>1, <4>1, <4>2, <4>3
    <3>4. CASE ValidateSucceeds(w)
      <4>1. PICK x : q = [r EXCEPT !.pc = "order", !.ch.status = "valid", !.authz = x]
        BY <1>0, <1>r, <1>q, <3>4 DEF ValidateSucceeds, Local, RunRec
      <4>2. q.pc = "order" /\ q.ch = [r.ch EXCEPT !.status = "valid"] /\ q.task = r.task
        BY <1>0, <4>1 DEF RunRec
      <4> QED BY <4>2 DEF Settled
    <3> QED BY <1>2, <3>2, <3>3, <3>4
  <2>4. \/ q.pc \in {"account", "validate", "retry"} /\ q.ch.status = "processing"
        \/ q.pc = "order" /\ q.ch.status \in Settled
    BY <2>2, <2>3 DEF ChallengeRec
  <2>5. q.ch.rev = r.ch.rev /\ q.task = r.task
    BY <2>2, <2>3 DEF ChallengeRec
  <2> QED BY <1>0, <1>q, <2>1, <2>4, <2>5, ChallengeKnown
<1> QED BY <1>1, <1>2

(* Settle moves the order copy out of pending only. *)
LEMMA SettleKnows ==
  ASSUME NEW r \in RunRec, NEW s \in {"pending", "ready", "invalid"}, NEW o \in Orders,
         r.order \in OrderRec, KnowsChallenge(r), r.pc \in {"order", "derive"}, OrderIn(r) = o,
         task[r.task].kind = "validate", order[o].rev \in Nat, r.order.rev <= order[o].rev,
         r.order.rev = order[o].rev =>
           /\ r.order.csr = order[o].csr /\ r.order.op = order[o].op
           /\ \/ r.order.status = order[o].status
              \/ order[o].status = "pending" /\ r.order.status \in {"ready", "invalid"}
  PROVE  Knows(Settle(r, s))
<1>q. PICK q : q = Settle(r, s)
  OBVIOUS
<1>1. /\ q.pc = "complete" /\ q.task = r.task /\ q.ch = r.ch
      /\ q.order = [r.order EXCEPT !.status = IF @ = "pending" /\ s # "pending" THEN s ELSE @]
  BY <1>q DEF Settle, RunRec
<1>2. /\ q.order.rev = r.order.rev /\ q.order.csr = r.order.csr /\ q.order.op = r.order.op
      /\ \/ q.order.status = r.order.status
         \/ r.order.status = "pending" /\ q.order.status \in {"ready", "invalid"}
  BY <1>1 DEF OrderRec
<1>3. KnowsChallenge(q)
  BY <1>1 DEF KnowsChallenge, HoldsCh, ValidationPC
<1>4. OrderIn(q) = o
  BY <1>1 DEF OrderIn
<1>5. KnowsOrder(q)
  BY <1>1, <1>2, <1>4 DEF KnowsOrder, ValidationPC, IssuancePC
<1>6. KnowsSettled(q)
  BY <1>1 DEF KnowsSettled
<1> QED BY <1>q, <1>3, <1>5, <1>6 DEF Knows

(* The loop of completeValidation knows what it reads again. *)
LEMMA ValidationLoopKnows ==
  ASSUME Coherent, TypeInv', NEW w \in Workers,
         \/ ReadOrder(w) \/ DeriveOrderStatus(w) \/ CommitValidationFails(w) \/ ReloadAuthorization(w)
  PROVE  Knows(run'[w])
<1>r. PICK r : r = run[w]
  OBVIOUS
<1>q. PICK q : q = run'[w]
  OBVIOUS
<1>0. /\ TypeInv /\ r \in RunRec /\ TypedRun(r) /\ KnowsChallenge(r) /\ KnowsOrder(r)
      /\ run \in [Workers -> RunRec] /\ run' \in [Workers -> RunRec]
  BY <1>r, RunFacts DEF Coherent, Knows, TypeInv, TypeOK, WorkerTypeOK
<1>1. CASE ReadOrder(w)
  <2> DEFINE a == AuthzOf[Target(w)]
             o == OrderOf[a]
             status == IF OrderLifetime <= now THEN "invalid"
                       ELSE Derive("ready", EffectiveAuthzStatus(r.authz, now))
             next == [r EXCEPT !.order = order[o], !.tries = @ + 1]
             more == [next EXCEPT !.pc = "derive", !.todo = AuthzsOf(o) \ {a}, !.status = status, !.at = now]
  <2>1. r.pc = "order" /\ (q = Settle(next, status) \/ (status # "invalid" /\ q = more))
    BY <1>0, <1>1, <1>r, <1>q DEF ReadOrder, Local
  <2>2. /\ o \in Orders /\ order[o] \in OrderRec /\ order[o].rev \in Nat
        /\ OrderIn(r) = o /\ task[r.task].kind = "validate" /\ r.tries + 1 \in 0..3
    <3>1. o \in Orders /\ order \in [Orders -> OrderRec]
      BY <1>0, <1>r, <2>1, RunFacts DEF ValidationPC
    <3>2. task[r.task].kind = "validate" /\ r.tries < 3 /\ r.tries \in 0..3
      BY <1>0, <2>1 DEF ValidationPC, TypedRun, RunRec
    <3>3. OrderIn(r) = o
      BY <1>r, <3>2 DEF OrderIn, Target
    <3> QED BY SMT, <3>1, <3>2, <3>3 DEF OrderRec
  <2>3. status \in {"pending", "ready", "invalid"}
    BY DeriveFrom
  <2> HIDE DEF status, o
  <2>4. /\ next \in RunRec /\ next.order = order[o] /\ next.pc = "order" /\ next.task = r.task
        /\ next.ch = r.ch
    <3>1. \A x \in OrderRec, n \in 0..3 :
            LET p == [r EXCEPT !.order = x, !.tries = n]
            IN  p \in RunRec /\ p.order = x /\ p.pc = r.pc /\ p.task = r.task /\ p.ch = r.ch
      BY <1>0 DEF RunRec
    <3>2. next = [r EXCEPT !.order = order[o], !.tries = r.tries + 1]
      BY <1>0 DEF RunRec
    <3> QED BY <2>1, <2>2, <3>1, <3>2
  <2>5. status # "invalid" => more.pc = "derive" /\ more.task = r.task /\ more.ch = r.ch
                              /\ more.order = order[o] /\ more.status \in {"pending", "ready"}
    <3> HIDE DEF next
    <3> QED BY <2>3, <2>4 DEF RunRec
  <2> HIDE DEF next, more
  <2>6. KnowsChallenge(next) /\ OrderIn(next) = o
    BY <1>0, <2>1, <2>2, <2>4 DEF KnowsChallenge, OrderIn
  <2>7. Knows(Settle(next, status))
    BY SMT, <2>2, <2>3, <2>4, <2>6, SettleKnows
  <2>8. status # "invalid" => Knows(more)
    <3>1. status # "invalid" => OrderIn(more) = o
      BY <2>2, <2>5 DEF OrderIn
    <3> QED BY SMT, <1>0, <2>1, <2>2, <2>5, <3>1
            DEF Knows, KnowsChallenge, KnowsOrder, KnowsSettled, HoldsCh, ValidationPC, IssuancePC
  <2> QED BY <1>q, <2>1, <2>7, <2>8
<1>2. CASE DeriveOrderStatus(w)
  <2>1. r.pc = "derive"
    BY <1>2, <1>r DEF DeriveOrderStatus
  <2>2. PICK a \in r.todo :
          LET status == Derive(r.status, EffectiveAuthzStatus(authz[a], r.at))
          IN  q = IF status = "invalid" \/ r.todo = {a} THEN Settle(r, status)
                  ELSE [r EXCEPT !.todo = @ \ {a}, !.status = status]
    BY <1>0, <1>2, <1>r, <1>q DEF DeriveOrderStatus, Local
  <2> DEFINE status == Derive(r.status, EffectiveAuthzStatus(authz[a], r.at))
             more == [r EXCEPT !.todo = @ \ {a}, !.status = status]
             o == OrderIn(r)
  <2>3. q = Settle(r, status) \/ (status # "invalid" /\ q = more)
    BY <2>2
  <2>4. /\ o \in Orders /\ order[o].rev \in Nat /\ r.order \in OrderRec
        /\ task[r.task].kind = "validate" /\ r.status \in {"pending", "ready"}
    BY <1>0, <1>r, <2>1, HeldTypes, RevTypes DEF TypedRun, HoldsOrder, ValidationPC, KnowsOrder
  <2>5. status \in {"pending", "ready", "invalid"}
    BY <2>4, DeriveFrom
  <2> HIDE DEF status
  <2>6. more.pc = "derive" /\ more.task = r.task /\ more.ch = r.ch /\ more.order = r.order
        /\ more.status = status
    BY <1>0, <2>1 DEF RunRec
  <2> HIDE DEF more
  <2>7. status # "invalid" => Knows(more)
    <3>1. OrderIn(more) = o
      BY <2>6 DEF OrderIn
    <3> QED BY <1>0, <2>1, <2>4, <2>5, <2>6, <3>1
            DEF Knows, KnowsChallenge, KnowsOrder, KnowsSettled, HoldsCh, HoldsOrder, ValidationPC, IssuancePC
  <2>8. Knows(Settle(r, status))
    BY <1>0, <2>1, <2>4, <2>5, SettleKnows DEF KnowsOrder, HoldsOrder, ValidationPC
  <2> QED BY <1>q, <2>3, <2>7, <2>8
<1>3. CASE CommitValidationFails(w)
  <2>1. r.pc = "complete" /\ r.pc \in HoldsCh
    BY <1>3, <1>r DEF CommitValidationFails, HoldsCh, ValidationPC
  <2>2. q = [r EXCEPT !.pc = "reload", !.order = None] \/ q = [r EXCEPT !.pc = "reschedule", !.order = None]
    BY <1>0, <1>3, <1>r, <1>q DEF CommitValidationFails, Local
  <2>3. q.pc \in {"reload", "reschedule"} /\ q.task = r.task /\ q.ch = r.ch
    BY <1>0, <2>2 DEF RunRec
  <2>4. r.ch.status \in Settled
    BY <1>0, <2>1 DEF KnowsChallenge
  <2> QED BY SMT, <1>0, <1>q, <2>1, <2>3, <2>4, ChallengeKnown, NothingToKnow
<1>4. CASE ReloadAuthorization(w)
  <2>1. r.pc = "reload" /\ r.pc \in HoldsCh
    BY <1>4, <1>r DEF ReloadAuthorization, HoldsCh, ValidationPC
  <2>2. /\ q.pc \in {"order", "reschedule"} /\ q.task = r.task
        /\ q.ch = r.ch \/ q.ch = [r.ch EXCEPT !.status = "invalid"]
    BY <1>0, <1>4, <1>r, <1>q DEF ReloadAuthorization, Local, RunRec
  <2>3. r.ch \in ChallengeRec /\ r.ch.status \in Settled
    BY <1>0, <2>1 DEF KnowsChallenge, TypedRun
  <2>4. q.ch.rev = r.ch.rev /\ q.ch.status \in Settled
    BY <2>2, <2>3 DEF ChallengeRec, Settled
  <2> QED BY SMT, <1>0, <1>q, <2>1, <2>2, <2>4, ChallengeKnown, NothingToKnow
<1> QED BY <1>1, <1>2, <1>3, <1>4

-----------------------------------------------------------------------------
(* Issuance runs. *)

(* A run that goes on with the order copy as it was read. *)
LEMMA OrderKnown ==
  ASSUME NEW r, NEW q, r.pc \in IssuancePC \cap HoldsOrder, r.pc # "begin", KnowsOrder(r),
         q.task = r.task, q.order.rev = r.order.rev, q.order.csr = r.order.csr,
         q.order.op = r.order.op,
         \/ q.pc \in {"dispatchAccount", "snapshot", "policy"} /\ q.order.status = "processing"
         \/ q.pc = "record" /\ q.order.status \in Settled
  PROVE  Knows(q)
<1>1. OrderIn(q) = OrderIn(r)
  BY DEF OrderIn
<1> QED BY <1>1 DEF Knows, KnowsChallenge, KnowsOrder, KnowsSettled, HoldsCh, HoldsOrder, ValidationPC, IssuancePC

(* beginIssuance knows the order it copied up to its commit. *)
LEMMA IssuanceDecidesKnows ==
  ASSUME Coherent, TypeInv', NEW w \in Workers,
         \/ DispatchAccount(w) \/ Snapshot(w) \/ PolicyAllows(w) \/ PolicyRefuses(w)
         \/ PolicyErrs(w) \/ DispatchConflict(w)
  PROVE  Knows(run'[w])
<1>r. PICK r : r = run[w]
  OBVIOUS
<1>q. PICK q : q = run'[w]
  OBVIOUS
<1>0. /\ TypeInv /\ r \in RunRec /\ TypedRun(r) /\ KnowsOrder(r)
      /\ run \in [Workers -> RunRec] /\ run' \in [Workers -> RunRec]
  BY <1>r, RunFacts DEF Coherent, Knows, TypeInv, TypeOK, WorkerTypeOK
<1>1. r.pc \in {"dispatchAccount", "snapshot", "policy", "begin"} /\ r.pc \in IssuancePC \cap HoldsOrder
  BY <1>r DEF DispatchAccount, Snapshot, PolicyAllows, PolicyRefuses, PolicyErrs, DispatchConflict,
              HoldsOrder, IssuancePC
<1>2. r.order \in OrderRec /\ r.order.status = "processing"
  BY <1>0, <1>1 DEF TypedRun, KnowsOrder
<1>3. ASSUME r.pc # "begin", q \in {Fail(r), Fail(NoDispatch(r))} PROVE Knows(q)
  BY <1>0, <1>1, <1>2, <1>3, OutcomeFields, OrderKnown
<1>4. ASSUME q = [r EXCEPT !.pc = "reschedule"] PROVE Knows(q)
  <2>1. q.pc = "reschedule"
    BY <1>0, <1>4 DEF RunRec
  <2> QED BY SMT, <2>1, NothingToKnow
<1>5. CASE DispatchAccount(w)
  <2> DEFINE d == [r.order EXCEPT !.deadline = OrderLifetime]
             p == [r EXCEPT !.pc = "snapshot", !.acct = account.rev, !.at = now,
                            !.todo = AuthzsOf(Target(w)), !.order = d]
  <2>1. r.pc = "dispatchAccount" /\ (q = Fail(r) \/ q = p)
    BY <1>5, <1>r, <1>q, <1>0 DEF DispatchAccount, Step, RunRec
  <2>2. d.rev = r.order.rev /\ d.csr = r.order.csr /\ d.op = r.order.op /\ d.status = "processing"
    BY <1>2 DEF OrderRec
  <2> HIDE DEF d
  <2>3. p.pc = "snapshot" /\ p.task = r.task /\ p.order = d
    BY <1>0 DEF RunRec
  <2> HIDE DEF p
  <2> QED BY <1>0, <1>1, <1>3, <1>q, <2>1, <2>2, <2>3, OrderKnown
<1>6. CASE Snapshot(w)
  <2>1. r.pc = "snapshot"
    BY <1>6, <1>r DEF Snapshot
  <2>2. PICK a \in r.todo :
          LET next == [r EXCEPT !.snap[a] = authz[a], !.todo = @ \ {a},
                        !.order.deadline = Earlier(Earlier(@, authz[a].expires), authz[a].grantExpires)]
          IN  Step(w, IF ~Dispatchable(authz[a], r.at) THEN Fail(NoDispatch(r))
                      ELSE IF ~HasEvidence(a) THEN [r EXCEPT !.pc = "reschedule"]
                      ELSE IF r.todo = {a} THEN [next EXCEPT !.pc = "policy"]
                      ELSE next)
    BY <1>6, <1>r DEF Snapshot
  <2> DEFINE dl == Earlier(Earlier(r.order.deadline, authz[a].expires), authz[a].grantExpires)
             d == [r.order EXCEPT !.deadline = dl]
             s == [r.snap EXCEPT ![a] = authz[a]]
             next == [r EXCEPT !.snap = s, !.todo = @ \ {a}, !.order = d]
             p == [next EXCEPT !.pc = "policy"]
  <2>3. q \in {Fail(NoDispatch(r)), [r EXCEPT !.pc = "reschedule"], p, next}
    BY <2>2, <1>0, <1>q DEF RunRec, Step
  <2>4. d.rev = r.order.rev /\ d.csr = r.order.csr /\ d.op = r.order.op /\ d.status = "processing"
    BY <1>2 DEF OrderRec
  <2> HIDE DEF d, s
  <2>5. \A x \in {p, next} : x.pc \in {"snapshot", "policy"} /\ x.task = r.task /\ x.order = d
    BY <1>0, <2>1 DEF RunRec
  <2> HIDE DEF p, next
  <2>6. q \in {p, next} => Knows(q)
    BY <1>0, <1>1, <2>1, <2>4, <2>5, OrderKnown
  <2> QED BY <1>3, <1>4, <1>q, <2>1, <2>3, <2>6
<1>7. CASE PolicyAllows(w)
  <2> DEFINE d == [r.order EXCEPT !.op = r.task]
             p == [r EXCEPT !.pc = "begin", !.order = d]
  <2>1. r.pc = "policy" /\ (q = Fail(NoDispatch(r)) \/ q = p)
    BY <1>7, <1>r, <1>q, <1>0 DEF PolicyAllows, Step, RunRec
  <2>2. d.rev = r.order.rev /\ d.csr = r.order.csr /\ d.op = r.task /\ d.status = "processing"
    BY <1>2 DEF OrderRec
  <2> HIDE DEF d
  <2>3. p.pc = "begin" /\ p.task = r.task /\ p.order = d
    BY <1>0 DEF RunRec
  <2> HIDE DEF p
  <2>4. OrderIn(p) = OrderIn(r)
    BY <2>3 DEF OrderIn
  <2>5. Knows(p)
    BY <1>0, <1>1, <2>1, <2>2, <2>3, <2>4
       DEF Knows, KnowsChallenge, KnowsOrder, KnowsSettled, HoldsCh, ValidationPC, IssuancePC
  <2> QED BY <1>3, <1>q, <2>1, <2>5
<1>8. CASE PolicyRefuses(w) \/ PolicyErrs(w)
  <2>1. r.pc = "policy" /\ q \in {Fail(NoDispatch(r)), [r EXCEPT !.pc = "reschedule"]}
    BY <1>8, <1>r, <1>q, <1>0 DEF PolicyRefuses, PolicyErrs, Step
  <2> QED BY <1>3, <1>4, <1>q, <2>1
<1>9. CASE DispatchConflict(w)
  <2>1. q = [r EXCEPT !.pc = "reschedule"]
    BY <1>9, <1>r, <1>q, <1>0 DEF DispatchConflict, Step
  <2> QED BY <1>4, <1>q, <2>1
<1> QED BY <1>5, <1>6, <1>7, <1>8, <1>9

(* issuanceOrder goes on with a processing order or drops a settled one. *)
LEMMA ReadIssuanceOrderKnows ==
  ASSUME Coherent, TypeInv', NEW w \in Workers, ReadIssuanceOrder(w)
  PROVE  Knows(run'[w])
<1>r. PICK r : r = run[w]
  OBVIOUS
<1>q. PICK q : q = run'[w]
  OBVIOUS
<1>0. /\ TypeInv /\ r \in RunRec /\ TypedRun(r)
      /\ run \in [Workers -> RunRec] /\ run' \in [Workers -> RunRec]
  BY <1>r, RunFacts DEF Coherent, TypeInv, TypeOK, WorkerTypeOK
<1> DEFINE o == Target(w)
           p == [r EXCEPT !.order = order[o]]
<1>1. /\ r.pc = "issuanceOrder" /\ o = task[r.task].target
      /\ \/ order[o].status # "processing" /\ q = [r EXCEPT !.pc = "finish"]
         \/ order[o].status = "processing" /\ q = Request(p)
         \/ order[o].status = "processing" /\ q = [p EXCEPT !.pc = "dispatchAccount"]
  BY <1>0, <1>r, <1>q DEF ReadIssuanceOrder, Step, Target
<1>2. /\ o \in Orders /\ order[o] \in OrderRec /\ r.task \in TaskIDs /\ ~FreshTask(r.task)
      /\ task[r.task].kind = "issue" /\ now \in Nat
  BY <1>0, <1>r, <1>1, RunFacts DEF IssuancePC, TypedRun
<1>3. order[o].status \notin Open
  BY <1>1, <1>2 DEF Coherent, TaskFollowsStatus
<1> HIDE DEF o
<1>4. p \in RunRec /\ p.order = order[o] /\ p.task = r.task
  BY <1>0, <1>2 DEF RunRec
<1> HIDE DEF p
<1>5. CASE q = [r EXCEPT !.pc = "finish"] /\ order[o].status # "processing"
  <2>1. q.pc = "finish" /\ q.task = r.task
    BY <1>0, <1>5 DEF RunRec
  <2>2. order[o].status \in Settled
    BY <1>2, <1>3, <1>5 DEF OrderRec, OrderStatus, Settled, Open
  <2> QED BY <1>q, <1>1, <1>2, <2>1, <2>2
          DEF Knows, KnowsChallenge, KnowsOrder, KnowsSettled, HoldsCh, HoldsOrder, ValidationPC, IssuancePC
<1>6. CASE q \in {Request(p), [p EXCEPT !.pc = "dispatchAccount"]} /\ order[o].status = "processing"
  <2>1. q.pc \in {"issue", "dispatchAccount"} /\ q.order = order[o] /\ q.task = r.task
    <3>1. Request(p).pc = "issue" /\ Request(p).order = order[o] /\ Request(p).task = r.task
      BY <1>2, <1>4, RequestType
    <3>2. q = [p EXCEPT !.pc = "dispatchAccount"] =>
            q.pc = "dispatchAccount" /\ q.order = order[o] /\ q.task = r.task
      BY <1>4 DEF RunRec
    <3> QED BY <1>6, <3>1, <3>2
  <2>2. OrderIn(q) = o
    BY <1>1, <1>2, <2>1 DEF OrderIn
  <2>3. order[o].rev \in Nat
    BY <1>2 DEF OrderRec
  <2> QED BY SMT, <1>q, <1>6, <2>1, <2>2, <2>3
          DEF Knows, KnowsChallenge, KnowsOrder, KnowsSettled, HoldsCh, ValidationPC, IssuancePC
<1> QED BY <1>1, <1>5, <1>6

(* Handling the CA's answer goes on with the same order. *)
LEMMA IssuanceAnswersKnow ==
  ASSUME Coherent, TypeInv', NEW w \in Workers,
         \/ AnswerIssued(w) \/ AnswerMuddled(w) \/ AnswerRejected(w) \/ AnswerPending(w)
         \/ RecordFails(w) \/ Issue(w)
  PROVE  Knows(run'[w])
<1>r. PICK r : r = run[w]
  OBVIOUS
<1>q. PICK q : q = run'[w]
  OBVIOUS
<1>0. /\ TypeInv /\ r \in RunRec /\ TypedRun(r) /\ KnowsOrder(r)
      /\ run \in [Workers -> RunRec] /\ run' \in [Workers -> RunRec]
  BY <1>r, RunFacts DEF Coherent, Knows, TypeInv, TypeOK, WorkerTypeOK
<1>1. r.pc \in {"issue", "await", "record"} /\ r.pc \in IssuancePC \cap HoldsOrder
  BY <1>r DEF AnswerIssued, AnswerMuddled, AnswerRejected, AnswerPending, RecordFails, Issue,
              IssuancePC, HoldsOrder
<1>2. r.order \in OrderRec
  BY <1>0, <1>1 DEF TypedRun
<1>3. CASE Issue(w)
  <2>1. r.pc = "issue" /\ q = [r EXCEPT !.pc = "await"]
    BY <1>0, <1>3, <1>r, <1>q DEF Issue, Goto
  <2>2. q.pc = "await" /\ q.task = r.task /\ q.order = r.order
    BY <1>0, <2>1 DEF RunRec
  <2>3. OrderIn(q) = OrderIn(r)
    BY <2>2 DEF OrderIn
  <2> QED BY SMT, <1>0, <1>1, <1>q, <2>1, <2>2, <2>3
          DEF Knows, KnowsChallenge, KnowsOrder, KnowsSettled, HoldsCh, ValidationPC, IssuancePC
<1>4. CASE ~Issue(w)
  <2>1. \/ q = [r EXCEPT !.pc = "reschedule"]
        \/ q \in {Fail(r), Withhold(r), Publish(r, ca[r.order.op].leaf)}
    BY <1>0, <1>4, <1>r, <1>q
       DEF AnswerIssued, AnswerMuddled, AnswerRejected, AnswerPending, RecordFails, Step
  <2>2. CASE q = [r EXCEPT !.pc = "reschedule"]
    <3>1. q.pc = "reschedule"
      BY <1>0, <2>2 DEF RunRec
    <3> QED BY SMT, <1>q, <3>1, NothingToKnow
  <2>3. CASE q \in {Fail(r), Withhold(r), Publish(r, ca[r.order.op].leaf)}
    BY <1>0, <1>1, <1>2, <1>q, <2>3, OutcomeFields, OrderKnown
  <2> QED BY <2>1, <2>2, <2>3
<1> QED BY <1>3, <1>4

(* The steps of a run that write nothing keep Coherent. *)
LEMMA RunsStayCoherent ==
  ASSUME Coherent, TypeInv', NEW w \in Workers, WorkerSteps(w) \/ WorkerFaults(w),
         UNCHANGED <<storeVars, ca>>, Knows(run'[w])
  PROVE  Coherent'
<1>1. TypeInv /\ UNCHANGED <<hand, acked>>
  BY DEF Coherent, WorkerSteps, WorkerFaults
<1>2. \A v \in Workers : v # w => run'[v] = run[v]
  BY <1>1, OwnRun
<1> QED BY <1>1, <1>2, RunStep

(* Every step of a worker that writes nothing to the store. *)
LEMMA SilentStepsCohere ==
  ASSUME Coherent, TypeInv', NEW w \in Workers, WorkerSteps(w) \/ WorkerFaults(w),
         UNCHANGED ca,
         \/ ReadChallenge(w) \/ ReadAuthorization(w) \/ ReadAccount(w)
         \/ ValidateSucceeds(w) \/ ValidateRefuses(w) \/ ValidateErrs(w)
         \/ ReadOrder(w) \/ DeriveOrderStatus(w) \/ CommitValidationFails(w) \/ ReloadAuthorization(w)
         \/ ReadIssuanceOrder(w)
         \/ DispatchAccount(w) \/ Snapshot(w) \/ PolicyAllows(w) \/ PolicyRefuses(w)
         \/ PolicyErrs(w) \/ DispatchConflict(w)
         \/ AnswerIssued(w) \/ AnswerMuddled(w) \/ AnswerRejected(w) \/ AnswerPending(w)
         \/ RecordFails(w) \/ Crash(w) \/ CallFails(w)
  PROVE  Coherent'
<1>1. UNCHANGED storeVars
  BY DEF Local, Step, ReadChallenge, ReadAuthorization, ReadAccount, ValidateSucceeds, ValidateRefuses,
         ValidateErrs, ReadOrder, DeriveOrderStatus, CommitValidationFails, ReloadAuthorization,
         ReadIssuanceOrder, DispatchAccount, Snapshot, PolicyAllows, PolicyRefuses, PolicyErrs,
         DispatchConflict, AnswerIssued, AnswerMuddled, AnswerRejected, AnswerPending, RecordFails,
         Crash, CallFails
<1>2. CASE Crash(w) \/ CallFails(w)
  <2>1. run \in [Workers -> RunRec]
    BY DEF Coherent, TypeInv, TypeOK, WorkerTypeOK
  <2>2. run'[w].pc \in {"idle", "reschedule"}
    BY SMT, <1>2, <2>1 DEF Crash, CallFails, End, Goto, Idle, RunRec
  <2> QED BY SMT, <1>1, <2>2, NothingToKnow, RunsStayCoherent
<1> QED BY <1>1, <1>2, RunsStayCoherent, ValidationReadsKnow, ValidationLoopKnows,
           ReadIssuanceOrderKnows, IssuanceDecidesKnows, IssuanceAnswersKnow

-----------------------------------------------------------------------------
(* Steps that write to the store. *)

(* A write that accepts no new work, and dequeues only what is settled. *)
NoNewWork ==
  /\ \A t \in TaskIDs : FreshTask(t)' <=> FreshTask(t)
  /\ \A t \in TaskIDs : Live(t) /\ ~Live(t)' =>
       IF task[t].kind = "validate" THEN ch'[task[t].target].status \in Settled
       ELSE order'[task[t].target].status \in Settled
  /\ \A c \in Challenges : ch'[c].status = "processing" => ch[c].status = "processing"
  /\ \A o \in Orders : order'[o].status = "processing" => order[o].status = "processing"
  /\ \A o \in Orders :
       \/ order'[o] = order[o]
       \/ /\ order'[o].status \in Open => order'[o].csr = None /\ order'[o].op = None
          /\ order'[o].op # None =>
               \/ order'[o].op = order[o].op
               \/ /\ order'[o].op \in TaskIDs /\ ~FreshTask(order'[o].op)
                  /\ task[order'[o].op].kind = "issue" /\ task[order'[o].op].target = o

(* A known operation of the CA was known before. *)
NoNewOperation == \A op \in TaskIDs : ca'[op].state # "unknown" => ca[op].state # "unknown"

(* A write that advances the resources keeps the operations of the CA recorded. *)
LEMMA OperationKept ==
  ASSUME Coherent, Advances, NoNewOperation
  PROVE  OneOperation'
<1> SUFFICES ASSUME NEW op \in TaskIDs, ca'[op].state # "unknown"
             PROVE  \E o \in Orders : task'[op].target = o /\ order'[o].op = op
  BY DEF OneOperation
<1>1. PICK o \in Orders : task[op].target = o /\ order[o].op = op
  BY DEF Coherent, OneOperation, NoNewOperation
<1>2. op # None
  BY StoreAssumption
<1>3. ~FreshTask(op) /\ task'[op].target = task[op].target
  BY <1>1, <1>2 DEF Coherent, OrderFollowsStatus, Advances, KeepsTasks
<1>4. order'[o].op = op
  BY <1>1, <1>2 DEF Advances, OrderAdvances
<1> QED BY <1>1, <1>3, <1>4

(* Acknowledged CSRs survive every write that advances the resources. *)
LEMMA AcknowledgedKept ==
  ASSUME Coherent, Advances
  PROVE  \A p \in acked : order'[p[1]].csr = p[2]
<1> SUFFICES ASSUME NEW p \in acked PROVE order'[p[1]].csr = p[2]
  OBVIOUS
<1>1. p[1] \in Orders /\ p[2] \in CSRs
  BY DEF Coherent, TypeInv, TypeOK, HandlerTypeOK
<1>2. order[p[1]].csr = p[2] /\ p[2] # None
  BY <1>1, StoreAssumption DEF Coherent, AcknowledgedCSR
<1> QED BY <1>1, <1>2 DEF Advances, OrderAdvances

(* A write that accepts no new work keeps the store's part of Coherent. *)
LEMMA StoreKept ==
  ASSUME Coherent, Advances, NoNewWork, NoNewOperation, acked' = acked
  PROVE  StoreCoherent'
<1>0. /\ TypeInv /\ TaskFollowsStatus /\ OrderFollowsStatus /\ WorkTracked
      /\ \A t \in TaskIDs : TypedTask(t)
  BY DEF Coherent, TypeInv
<1>1. ASSUME NEW t \in TaskIDs, ~FreshTask(t)
      PROVE  /\ ~FreshTask(t)' /\ task'[t].kind = task[t].kind /\ task'[t].target = task[t].target
             /\ task[t].kind = "validate" => task[t].target \in Challenges
             /\ task[t].kind # "validate" => task[t].target \in Orders /\ task[t].kind = "issue"
  BY <1>0, <1>1 DEF Advances, KeepsTasks, TypedTask, TypeInv, TypeOK, StoreTypeOK, TaskRec
<1>2. ASSUME NEW t \in TaskIDs, Live(t) PROVE ~FreshTask(t)
  BY <1>2 DEF Live, FreshTask
<1>3. TaskFollowsStatus'
  <2> SUFFICES ASSUME NEW t \in TaskIDs, ~FreshTask(t)'
               PROVE  IF task'[t].kind = "validate" THEN ch'[task'[t].target].status # "pending"
                      ELSE order'[task'[t].target].status \notin Open
    BY DEF TaskFollowsStatus
  <2>1. ~FreshTask(t)
    BY DEF NoNewWork
  <2> QED BY SMT, <1>0, <1>1, <2>1 DEF TaskFollowsStatus, Advances, ChallengeAdvances, OrderAdvances
<1>4. OrderFollowsStatus'
  <2> SUFFICES ASSUME NEW o \in Orders
               PROVE  /\ order'[o].status \in Open => order'[o].csr = None /\ order'[o].op = None
                      /\ order'[o].op # None =>
                           /\ task'[order'[o].op].state # "unused" /\ task'[order'[o].op].kind = "issue"
                           /\ task'[order'[o].op].target = o
    BY DEF OrderFollowsStatus, FreshTask
  <2>1. order'[o].status \in Open => order'[o].csr = None /\ order'[o].op = None
    BY <1>0 DEF NoNewWork, OrderFollowsStatus
  <2>2. order'[o].op # None =>
          /\ order'[o].op \in TaskIDs /\ ~FreshTask(order'[o].op)
          /\ task[order'[o].op].kind = "issue" /\ task[order'[o].op].target = o
    BY SMT, <1>0 DEF NoNewWork, OrderFollowsStatus, TypeInv, TypeOK, StoreTypeOK, OrderRec
  <2>3. ASSUME NEW t \in TaskIDs, t = order'[o].op, ~FreshTask(t), task[t].kind = "issue", task[t].target = o
        PROVE  ~FreshTask(t)' /\ task'[t].kind = "issue" /\ task'[t].target = o
    BY <1>1, <2>3
  <2> QED BY <2>1, <2>2, <2>3 DEF FreshTask
<1>5. WorkTracked'
  <2>1. ASSUME NEW c \in Challenges, ch'[c].status = "processing"
        PROVE  \E t \in TaskIDs : Live(t)' /\ task'[t].kind = "validate" /\ task'[t].target = c
    <3>1. PICK t \in TaskIDs : Live(t) /\ task[t].kind = "validate" /\ task[t].target = c
      BY SMT, <1>0, <2>1 DEF WorkTracked, LiveTasks, NoNewWork
    <3>2. Live(t)'
      BY <2>1, <3>1 DEF NoNewWork, Settled
    <3> QED BY <1>1, <1>2, <3>1, <3>2
  <2>2. ASSUME NEW o \in Orders, order'[o].status = "processing"
        PROVE  \E t \in TaskIDs : Live(t)' /\ task'[t].kind = "issue" /\ task'[t].target = o
    <3>1. PICK t \in TaskIDs : Live(t) /\ task[t].kind = "issue" /\ task[t].target = o
      BY <1>0, <2>2 DEF WorkTracked, LiveTasks, NoNewWork
    <3>2. Live(t)'
      BY <2>2, <3>1 DEF NoNewWork, Settled
    <3> QED BY <1>1, <1>2, <3>1, <3>2
  <2>3. ASSUME NEW s \in TaskIDs, NEW t \in TaskIDs, ~FreshTask(s)', ~FreshTask(t)', s # t
        PROVE  task'[s].kind # task'[t].kind \/ task'[s].target # task'[t].target
    <3>1. ~FreshTask(s) /\ ~FreshTask(t)
      BY <2>3 DEF NoNewWork
    <3> QED BY SMT, <1>0, <1>1, <2>3, <3>1 DEF WorkTracked
  <2> QED BY SMT, <2>1, <2>2, <2>3 DEF WorkTracked, LiveTasks, Live, FreshTask
<1> QED BY <1>3, <1>4, <1>5, OperationKept, AcknowledgedKept DEF StoreCoherent, AcknowledgedCSR

(* A step of a worker that writes. *)
LEMMA WriteStep ==
  ASSUME Coherent, TypeInv', NEW w \in Workers, WorkerSteps(w) \/ WorkerFaults(w),
         Advances, StoreCoherent', Knows(run[w])'
  PROVE  Coherent'
<1>1. TypeInv /\ UNCHANGED <<hand, acked>>
  BY DEF Coherent, WorkerSteps, WorkerFaults
<1>2. ASSUME NEW v \in Workers PROVE Knows(run[v])'
  BY <1>1, OwnRun, OthersKnow
<1>3. ASSUME NEW h \in Handlers PROVE KnowsRequest(hand[h])'
  BY <1>1, OtherRequestsKnow
<1> QED BY <1>2, <1>3 DEF Coherent, StoreCoherent

(* A run that just started, or ended, relies on nothing. *)
LEMMA FreshRunKnows ==
  ASSUME NEW w \in Workers, run'[w].pc \in {"idle", "challenge", "issuanceOrder", "reschedule"}
  PROVE  Knows(run[w])'
BY DEF Knows, KnowsChallenge, KnowsOrder, KnowsSettled, HoldsCh, HoldsOrder, ValidationPC, IssuancePC

(* What a change of state or fence of one task leaves alone. *)
LEMMA TaskMoves ==
  ASSUME TypeInv, NEW t \in TaskIDs, ~FreshTask(t),
         \/ ReleaseTask(t) \/ RemoveTask(t)
         \/ task' = [task EXCEPT ![t].state = "leased", ![t].fence = @ + 1]
  PROVE  /\ \A s \in TaskIDs : (FreshTask(s)' <=> FreshTask(s)) /\ (s # t => task'[s] = task[s])
         /\ ~RemoveTask(t) => Live(t)'
<1>1. task \in [TaskIDs -> TaskRec]
  BY DEF TypeInv, TypeOK, StoreTypeOK
<1>2. \A s \in TaskIDs : s # t => task'[s] = task[s]
  BY <1>1 DEF ReleaseTask, RemoveTask
<1>3. task'[t].state \in {"queued", "leased", "gone"} /\ (~RemoveTask(t) => task'[t].state # "gone")
  BY SMT, <1>1 DEF ReleaseTask, RemoveTask, TaskRec
<1> QED BY SMT, <1>2, <1>3 DEF FreshTask, Live

(* A step that writes tasks only. *)
LEMMA TasksOnly ==
  ASSUME Coherent, UNCHANGED <<order, ch, ca, acked>>, KeepsTasks,
         \A t \in TaskIDs : FreshTask(t)' <=> FreshTask(t),
         \A t \in TaskIDs : Live(t) /\ ~Live(t)' =>
           IF task[t].kind = "validate" THEN ch[task[t].target].status \in Settled
           ELSE order[task[t].target].status \in Settled
  PROVE  Advances /\ StoreCoherent'
<1>1. Advances
  BY DEF Advances, ChallengeAdvances, OrderAdvances
<1>2. NoNewWork /\ NoNewOperation
  BY DEF NoNewWork, NoNewOperation
<1> QED BY <1>1, <1>2, StoreKept

(* Process starts a run that knows nothing yet. *)
LEMMA ClaimsCohere ==
  ASSUME Coherent, TypeInv', NEW w \in Workers, WorkerSteps(w) \/ WorkerFaults(w),
         Claim(w) \/ ClaimLapsed(w), UNCHANGED ca
  PROVE  Coherent'
<1>0. TypeInv /\ run \in [Workers -> RunRec] /\ UNCHANGED <<hand, acked>>
  BY DEF Coherent, TypeInv, TypeOK, WorkerTypeOK, WorkerSteps, WorkerFaults
<1>1. PICK t \in TaskIDs : StartRun(w, t)
  BY DEF Claim, ClaimLapsed
<1>2. ClaimTask(t) /\ now' = now /\ UNCHANGED <<order, ch>> /\ ~FreshTask(t)
  BY <1>1 DEF StartRun, ClaimTask, Live, FreshTask
<1>3. KeepsTasks
  BY <1>0, <1>2, ClaimType
<1>4. task' = [task EXCEPT ![t].state = "leased", ![t].fence = @ + 1]
  BY <1>2 DEF ClaimTask
<1>5. /\ \A s \in TaskIDs : (FreshTask(s)' <=> FreshTask(s)) /\ (s # t => task'[s] = task[s])
      /\ ~RemoveTask(t) => Live(t)'
  BY <1>0, <1>2, <1>4, TaskMoves
<1>6. Live(t)'
  <2>1. task \in [TaskIDs -> TaskRec]
    BY <1>0 DEF TypeInv, TypeOK, StoreTypeOK
  <2>2. task'[t].state = "leased"
    BY <1>4, <2>1 DEF TaskRec
  <2> QED BY <2>2 DEF Live
<1>7. \A s \in TaskIDs : Live(s) => Live(s)'
  BY <1>5, <1>6 DEF Live
<1>8. run'[w].pc \in {"challenge", "issuanceOrder"}
  BY <1>0, <1>1 DEF StartRun, Idle
<1> QED BY <1>0, <1>2, <1>3, <1>5, <1>7, <1>8, TasksOnly, FreshRunKnows, WriteStep

(* storeReschedule keeps the task, finishTask drops one whose target is settled. *)
LEMMA ReleasesCohere ==
  ASSUME Coherent, TypeInv', NEW w \in Workers, WorkerSteps(w) \/ WorkerFaults(w),
         Reschedule(w) \/ Finish(w), UNCHANGED ca
  PROVE  Coherent'
<1>r. PICK r : r = run[w]
  OBVIOUS
<1>0. /\ TypeInv /\ run \in [Workers -> RunRec] /\ UNCHANGED <<hand, acked>>
      /\ r \in RunRec /\ TypedRun(r) /\ KnowsSettled(r)
  BY <1>r DEF Coherent, TypeInv, TypeOK, WorkerTypeOK, WorkerSteps, WorkerFaults, Knows
<1>1. r.pc \in {"reschedule", "finish"} /\ r.task \in TaskIDs /\ ~FreshTask(r.task)
  BY <1>0, <1>r DEF Reschedule, Finish, TypedRun
<1>2. run'[w].pc = "idle"
  BY SMT, <1>0 DEF Reschedule, Finish, End, Idle
<1>3. CASE UNCHANGED storeVars
  <2>1. KeepsTasks /\ UNCHANGED <<order, ch, task>>
    BY <1>0, <1>3, SameTasks DEF storeVars
  <2>2. \A t \in TaskIDs : (FreshTask(t)' <=> FreshTask(t)) /\ (Live(t)' <=> Live(t))
    BY <2>1 DEF FreshTask, Live
  <2> QED BY <1>0, <1>2, <2>1, <2>2, TasksOnly, FreshRunKnows, WriteStep
<1>4. CASE ~UNCHANGED storeVars
  <2>1. /\ UNCHANGED <<order, ch>>
        /\ (ReleaseTask(r.task) \/ (RemoveTask(r.task) /\ r.pc = "finish"))
    BY <1>4, <1>r DEF Reschedule, Finish, RescheduleTask, FinishTask
  <2>2. KeepsTasks
    BY <1>0, <1>1, <2>1, ReleaseType
  <2>3. /\ \A s \in TaskIDs : (FreshTask(s)' <=> FreshTask(s)) /\ (s # r.task => task'[s] = task[s])
        /\ ~RemoveTask(r.task) => Live(r.task)'
    BY <1>0, <1>1, <2>1, TaskMoves
  <2>4. RemoveTask(r.task) /\ ~ReleaseTask(r.task) =>
          IF task[r.task].kind = "validate" THEN ch[task[r.task].target].status \in Settled
          ELSE order[task[r.task].target].status \in Settled
    BY <1>0, <2>1 DEF KnowsSettled
  <2>5. ReleaseTask(r.task) => Live(r.task)'
    BY SMT, <1>0, <1>1 DEF ReleaseTask, Live, TypeInv, TypeOK, StoreTypeOK, TaskRec
  <2>6. \A s \in TaskIDs : s # r.task /\ Live(s) => Live(s)'
    BY <2>3 DEF Live
  <2> QED BY <1>0, <1>2, <2>1, <2>2, <2>3, <2>4, <2>5, <2>6, TasksOnly, FreshRunKnows, WriteStep
<1> QED BY <1>3, <1>4

(* retryValidation rewrites a processing challenge and keeps its task. *)
LEMMA RetryCoheres ==
  ASSUME Coherent, TypeInv', NEW w \in Workers, WorkerSteps(w) \/ WorkerFaults(w),
         RetryRun(w), UNCHANGED ca
  PROVE  Coherent'
<1>r. PICK r : r = run[w]
  OBVIOUS
<1>0. /\ TypeInv /\ run \in [Workers -> RunRec] /\ UNCHANGED <<hand, acked>>
      /\ r \in RunRec /\ TypedRun(r) /\ KnowsChallenge(r)
  BY <1>r DEF Coherent, TypeInv, TypeOK, WorkerTypeOK, WorkerSteps, WorkerFaults, Knows
<1>1. r.pc = "retry"
  BY <1>r DEF RetryRun
<1>2. run'[w].pc \in {"idle", "reschedule"}
  BY SMT, <1>0 DEF RetryRun, End, Goto, Idle, RunRec
<1>3. CASE UNCHANGED storeVars
  BY SMT, <1>2, <1>3, NothingToKnow, RunsStayCoherent
<1>4. CASE RetryValidation(r.task, r.fence, Target(w), r.ch)
  <2> DEFINE c == task[r.task].target
  <2>1. /\ r.task \in TaskIDs /\ ~FreshTask(r.task) /\ c \in Challenges /\ r.ch \in ChallengeRec
        /\ c = Target(w)
    BY <1>0, <1>1, <1>r, RunFacts DEF TypedRun, ValidationPC, HoldsCh, Target
  <2>2. /\ ch[c].rev = r.ch.rev /\ ch' = [ch EXCEPT ![c] = Stored(r.ch)]
        /\ ReleaseTask(r.task) /\ order' = order
    BY <1>4, <2>1 DEF RetryValidation, CheckChallenge
  <2>3. ch[c].status = "processing" /\ r.ch.status = "processing"
    BY <1>0, <1>1, <2>2 DEF KnowsChallenge, HoldsCh, ValidationPC
  <2>4. /\ ch \in [Challenges -> ChallengeRec] /\ r.ch.rev \in Nat
        /\ Stored(r.ch).rev = r.ch.rev + 1 /\ Stored(r.ch).status = "processing"
    BY <1>0, <2>1, <2>3, StoredFields DEF TypeInv, TypeOK, StoreTypeOK, ChallengeRec
  <2> HIDE DEF c
  <2>5. /\ ch'[c].rev = ch[c].rev + 1 /\ ch'[c].status = "processing" /\ ch[c].rev \in Nat
        /\ \A d \in Challenges : d # c => ch'[d] = ch[d]
    BY <2>1, <2>2, <2>4
  <2>6. KeepsTasks
    BY <1>0, <2>1, <2>2, ReleaseType
  <2>7. /\ \A s \in TaskIDs : (FreshTask(s)' <=> FreshTask(s)) /\ (s # r.task => task'[s] = task[s])
        /\ Live(r.task)'
    <3>1. Live(r.task)'
      BY SMT, <1>0, <2>1, <2>2 DEF ReleaseTask, Live, TypeInv, TypeOK, StoreTypeOK, TaskRec
    <3> QED BY <1>0, <2>1, <2>2, <3>1, TaskMoves
  <2>8. \A s \in TaskIDs : Live(s) => Live(s)'
    BY <2>7 DEF Live
  <2>9. Advances
    BY SMT, <2>2, <2>3, <2>5, <2>6 DEF Advances, ChallengeAdvances, OrderAdvances, Settled
  <2>10. NoNewWork /\ NoNewOperation
    BY <2>2, <2>3, <2>5, <2>7, <2>8 DEF NoNewWork, NoNewOperation
  <2> QED BY <1>0, <1>2, <2>9, <2>10, StoreKept, FreshRunKnows, WriteStep
<1> QED BY <1>3, <1>4, <1>r DEF RetryRun

(* CompleteValidation settles the challenge and dequeues its task. *)
LEMMA CommitCoheres ==
  ASSUME Coherent, TypeInv', NEW w \in Workers, WorkerSteps(w) \/ WorkerFaults(w),
         CommitValidation(w), UNCHANGED ca
  PROVE  Coherent'
<1>r. PICK r : r = run[w]
  OBVIOUS
<1>0. /\ TypeInv /\ run \in [Workers -> RunRec] /\ UNCHANGED <<hand, acked>>
      /\ r \in RunRec /\ TypedRun(r) /\ KnowsChallenge(r) /\ KnowsOrder(r) /\ OrderFollowsStatus
  BY <1>r DEF Coherent, TypeInv, TypeOK, WorkerTypeOK, WorkerSteps, WorkerFaults, Knows
<1> DEFINE c == task[r.task].target
           o == OrderIn(r)
<1>1. /\ r.pc = "complete" /\ c = Target(w) /\ run'[w].pc = "idle"
      /\ CompleteValidation(r.task, r.fence, c, r.ch, r.authz, r.order)
  BY <1>0, <1>r DEF CommitValidation, Target, End, Idle
<1>2. /\ r.task \in TaskIDs /\ ~FreshTask(r.task) /\ c \in Challenges /\ r.ch \in ChallengeRec
      /\ r.order \in OrderRec /\ o \in Orders /\ task[r.task].kind = "validate"
  BY <1>0, <1>1, <1>r, RunFacts, HeldTypes DEF TypedRun, ValidationPC, HoldsCh, HoldsOrder
<1>3. o = OrderOf[AuthzOf[c]]
  BY <1>2 DEF OrderIn
<1>4. /\ ch[c].rev = r.ch.rev /\ ch' = [ch EXCEPT ![c] = Stored(r.ch)]
      /\ order[o].rev = r.order.rev /\ order' = [order EXCEPT ![o] = Stored(r.order)]
      /\ RemoveTask(r.task)
  BY <1>1, <1>3 DEF CompleteValidation, ValidationCurrent, CheckChallenge, CheckOrder
<1>5. /\ ch[c].status = "processing" /\ r.ch.status \in Settled
      /\ r.order.csr = order[o].csr /\ r.order.op = order[o].op
      /\ \/ r.order.status = order[o].status
         \/ order[o].status = "pending" /\ r.order.status \in {"ready", "invalid"}
  BY <1>0, <1>1, <1>4 DEF KnowsChallenge, KnowsOrder, HoldsCh, HoldsOrder, ValidationPC
<1>6. /\ ch \in [Challenges -> ChallengeRec] /\ order \in [Orders -> OrderRec]
      /\ r.ch.rev \in Nat /\ r.order.rev \in Nat
      /\ Stored(r.ch).rev = r.ch.rev + 1 /\ Stored(r.ch).status = r.ch.status
      /\ Stored(r.order).rev = r.order.rev + 1 /\ Stored(r.order).status = r.order.status
      /\ Stored(r.order).csr = r.order.csr /\ Stored(r.order).op = r.order.op
  BY <1>0, <1>2, StoredFields DEF TypeInv, TypeOK, StoreTypeOK, ChallengeRec, OrderRec
<1> HIDE DEF c, o
<1>7. /\ ch[c].rev < ch'[c].rev /\ ch'[c].status \in Settled
      /\ \A d \in Challenges : d # c => ch'[d] = ch[d]
  BY SMT, <1>2, <1>4, <1>5, <1>6
<1>8. /\ order[o].rev < order'[o].rev /\ order'[o].status = r.order.status
      /\ order'[o].csr = order[o].csr /\ order'[o].op = order[o].op
      /\ \A p \in Orders : p # o => order'[p] = order[p]
  BY SMT, <1>2, <1>4, <1>5, <1>6
<1>9. KeepsTasks
  BY <1>0, <1>2, <1>4, ReleaseType
<1>10. \A s \in TaskIDs : (FreshTask(s)' <=> FreshTask(s)) /\ (s # r.task => task'[s] = task[s])
  BY <1>0, <1>2, <1>4, TaskMoves
<1>11. Advances
  <2>1. ChallengeAdvances(c)
    BY <1>7 DEF ChallengeAdvances, Settled
  <2>2. OrderAdvances(o)
    BY <1>5, <1>8 DEF OrderAdvances, Settled, Open
  <2> QED BY <1>7, <1>8, <1>9, <2>1, <2>2 DEF Advances, ChallengeAdvances, OrderAdvances
<1>12. NoNewWork
  <2>1. \A s \in TaskIDs : s # r.task /\ Live(s) => Live(s)'
    BY <1>10 DEF Live
  <2>2. \A t \in TaskIDs : Live(t) /\ ~Live(t)' =>
          task[t].kind = "validate" /\ ch'[task[t].target].status \in Settled
    BY <1>2, <1>7, <2>1 DEF c
  <2>3. order'[o].status \in Open => order'[o].csr = None /\ order'[o].op = None
    BY <1>0, <1>2, <1>5, <1>8 DEF OrderFollowsStatus, Open
  <2>4. order'[o].status = "processing" => order[o].status = "processing"
    BY <1>5, <1>8
  <2>5. \A d \in Challenges : ch'[d].status = "processing" => ch[d].status = "processing"
    BY <1>7 DEF Settled
  <2>6. \A p \in Orders : order'[p].status = "processing" => order[p].status = "processing"
    BY <1>8, <2>4
  <2>7. \A p \in Orders :
          \/ order'[p] = order[p]
          \/ /\ order'[p].status \in Open => order'[p].csr = None /\ order'[p].op = None
             /\ order'[p].op = order[p].op
    BY <1>8, <2>3
  <2> QED BY <1>10, <2>2, <2>5, <2>6, <2>7 DEF NoNewWork
<1>13. NoNewOperation
  BY DEF NoNewOperation
<1> QED BY <1>0, <1>1, <1>11, <1>12, <1>13, StoreKept, FreshRunKnows, WriteStep

(* BeginIssuance records the operation, which is the task that carries it. *)
LEMMA DispatchCoheres ==
  ASSUME Coherent, TypeInv', NEW w \in Workers, WorkerSteps(w) \/ WorkerFaults(w), StoreDispatch(w)
  PROVE  Coherent'
<1>r. PICK r : r = run[w]
  OBVIOUS
<1>0. /\ TypeInv /\ run \in [Workers -> RunRec] /\ UNCHANGED <<hand, acked>>
      /\ r \in RunRec /\ TypedRun(r) /\ KnowsOrder(r) /\ OrderFollowsStatus
  BY <1>r DEF Coherent, TypeInv, TypeOK, WorkerTypeOK, WorkerSteps, WorkerFaults, Knows
<1> DEFINE o == OrderIn(r)
           p == [r EXCEPT !.order = Stored(r.order)]
<1>1. r.pc = "begin" /\ ca' = ca /\ run'[w] = Request(p)
  BY <1>0, <1>r DEF StoreDispatch
<1>2. /\ r.task \in TaskIDs /\ ~FreshTask(r.task) /\ r.order \in OrderRec /\ o \in Orders
      /\ task[r.task].kind = "issue" /\ task[r.task].target = o /\ o = Target(w)
  BY <1>0, <1>1, <1>r, HeldTypes DEF TypedRun, IssuancePC, HoldsOrder, OrderIn, Target
<1>3. /\ order[o].rev = r.order.rev /\ order' = [order EXCEPT ![o] = Stored(r.order)]
      /\ order[o].status = "processing" /\ order[o].op = None /\ UNCHANGED <<ch, task>>
  BY <1>r, <1>2 DEF StoreDispatch, BeginIssuance, DispatchCurrent, CheckOrder
<1>4. r.order.csr = order[o].csr /\ r.order.op = r.task /\ r.order.status = "processing"
  BY <1>0, <1>1, <1>3 DEF KnowsOrder, HoldsOrder, IssuancePC
<1>5. /\ order \in [Orders -> OrderRec] /\ r.order.rev \in Nat /\ Stored(r.order) \in OrderRec
      /\ Stored(r.order).rev = r.order.rev + 1 /\ Stored(r.order).status = r.order.status
      /\ Stored(r.order).csr = r.order.csr /\ Stored(r.order).op = r.order.op
  BY <1>0, <1>2, StoredFields, StoredType DEF TypeInv, TypeOK, StoreTypeOK, OrderRec
<1>6. Request(p).pc = "issue" /\ Request(p).task = r.task /\ Request(p).order = Stored(r.order)
  <2>1. p \in RunRec /\ p.task = r.task /\ p.order = Stored(r.order)
    BY <1>0, <1>5 DEF RunRec
  <2>2. now \in Nat
    BY <1>0, RunFacts
  <2> HIDE DEF p
  <2> QED BY <1>5, <2>1, <2>2, RequestType
<1> HIDE DEF o, p
<1>7. /\ order[o].rev < order'[o].rev /\ order'[o] = Stored(r.order) /\ order'[o].status = "processing"
      /\ order'[o].csr = order[o].csr /\ order'[o].op = r.task
      /\ \A x \in Orders : x # o => order'[x] = order[x]
  BY SMT, <1>2, <1>3, <1>4, <1>5
<1>8. KeepsTasks
  BY <1>0, <1>3, SameTasks
<1>9. \A s \in TaskIDs : (FreshTask(s)' <=> FreshTask(s)) /\ (Live(s)' <=> Live(s))
  BY <1>3 DEF FreshTask, Live
<1>10. Advances
  <2>1. OrderAdvances(o)
    BY <1>3, <1>7 DEF OrderAdvances, Settled, Open
  <2> QED BY <1>3, <1>7, <1>8, <2>1 DEF Advances, ChallengeAdvances, OrderAdvances
<1>11. NoNewWork
  <2>1. \A x \in Orders : order'[x].status = "processing" => order[x].status = "processing"
    BY <1>3, <1>7
  <2>2. order'[o].status \notin Open
    BY <1>7 DEF Open
  <2> QED BY <1>2, <1>3, <1>7, <1>9, <2>1, <2>2 DEF NoNewWork
<1>12. NoNewOperation
  BY <1>1 DEF NoNewOperation
<1>13. Knows(run[w])'
  <2>1. run'[w].pc = "issue" /\ run'[w].task = r.task /\ run'[w].order = order'[o]
    BY <1>1, <1>6, <1>7
  <2>2. OrderIn(run[w])' = o
    BY <1>2, <1>3, <2>1 DEF OrderIn
  <2>3. order'[o].rev \in Nat
    BY SMT, <1>5, <1>7
  <2> QED BY SMT, <1>7, <2>1, <2>2, <2>3
          DEF Knows, KnowsChallenge, KnowsOrder, KnowsSettled, HoldsCh, ValidationPC, IssuancePC
<1> QED BY <1>0, <1>10, <1>11, <1>12, <1>13, StoreKept, WriteStep

(* CompleteIssuance settles the order and dequeues its task. *)
LEMMA RecordCoheres ==
  ASSUME Coherent, TypeInv', NEW w \in Workers, WorkerSteps(w) \/ WorkerFaults(w), Record(w)
  PROVE  Coherent'
<1>r. PICK r : r = run[w]
  OBVIOUS
<1>0. /\ TypeInv /\ run \in [Workers -> RunRec] /\ UNCHANGED <<hand, acked>>
      /\ r \in RunRec /\ TypedRun(r) /\ KnowsOrder(r) /\ OrderFollowsStatus
  BY <1>r DEF Coherent, TypeInv, TypeOK, WorkerTypeOK, WorkerSteps, WorkerFaults, Knows
<1> DEFINE o == OrderIn(r)
<1>1. r.pc = "record" /\ ca' = ca /\ run'[w].pc = "idle"
  BY <1>0, <1>r DEF Record, End, Idle
<1>2. /\ r.task \in TaskIDs /\ ~FreshTask(r.task) /\ r.order \in OrderRec /\ o \in Orders
      /\ task[r.task].kind = "issue" /\ task[r.task].target = o /\ o = Target(w)
  BY <1>0, <1>1, <1>r, HeldTypes DEF TypedRun, IssuancePC, HoldsOrder, OrderIn, Target
<1>3. /\ order[o].rev = r.order.rev /\ order' = [order EXCEPT ![o] = Stored(r.order)]
      /\ ch' = ch /\ RemoveTask(r.task)
  BY <1>r, <1>2 DEF Record, CompleteIssuance, CheckOrder
<1>4. /\ r.order.csr = order[o].csr /\ r.order.op = order[o].op /\ r.order.status \in Settled
      /\ order[o].status = "processing"
  BY <1>0, <1>1, <1>3 DEF KnowsOrder, HoldsOrder, IssuancePC
<1>5. /\ order \in [Orders -> OrderRec] /\ r.order.rev \in Nat
      /\ Stored(r.order).rev = r.order.rev + 1 /\ Stored(r.order).status = r.order.status
      /\ Stored(r.order).csr = r.order.csr /\ Stored(r.order).op = r.order.op
  BY <1>0, <1>2, StoredFields DEF TypeInv, TypeOK, StoreTypeOK, OrderRec
<1> HIDE DEF o
<1>6. /\ order[o].rev < order'[o].rev /\ order'[o].status \in Settled
      /\ order'[o].csr = order[o].csr /\ order'[o].op = order[o].op
      /\ \A x \in Orders : x # o => order'[x] = order[x]
  BY SMT, <1>2, <1>3, <1>4, <1>5
<1>7. KeepsTasks
  BY <1>0, <1>2, <1>3, ReleaseType
<1>8. \A s \in TaskIDs : (FreshTask(s)' <=> FreshTask(s)) /\ (s # r.task => task'[s] = task[s])
  BY <1>0, <1>2, <1>3, TaskMoves
<1>9. Advances
  <2>1. OrderAdvances(o)
    BY <1>4, <1>6 DEF OrderAdvances, Settled, Open
  <2> QED BY <1>3, <1>6, <1>7, <2>1 DEF Advances, ChallengeAdvances, OrderAdvances
<1>10. NoNewWork
  <2>1. \A s \in TaskIDs : s # r.task /\ Live(s) => Live(s)'
    BY <1>8 DEF Live
  <2>2. \A t \in TaskIDs : Live(t) /\ ~Live(t)' =>
          task[t].kind # "validate" /\ order'[task[t].target].status \in Settled
    BY <1>2, <1>6, <2>1
  <2>3. order'[o].status \notin Open /\ order'[o].status # "processing"
    BY <1>6 DEF Settled, Open
  <2>4. \A x \in Orders : order'[x].status = "processing" => order[x].status = "processing"
    BY <1>6, <2>3
  <2> QED BY <1>3, <1>6, <1>8, <2>2, <2>3, <2>4 DEF NoNewWork
<1>11. NoNewOperation
  BY <1>1 DEF NoNewOperation
<1> QED BY <1>0, <1>1, <1>9, <1>10, <1>11, StoreKept, FreshRunKnows, WriteStep

(* The CA learns of an operation only from a run whose order recorded it. *)
LEMMA IssueCoheres ==
  ASSUME Coherent, TypeInv', NEW w \in Workers, WorkerSteps(w) \/ WorkerFaults(w), Issue(w)
  PROVE  Coherent'
<1>r. PICK r : r = run[w]
  OBVIOUS
<1>0. /\ TypeInv /\ UNCHANGED <<hand, acked, storeVars>>
      /\ r \in RunRec /\ TypedRun(r) /\ KnowsOrder(r) /\ OrderFollowsStatus
  BY <1>r DEF Coherent, TypeInv, TypeOK, WorkerTypeOK, WorkerSteps, WorkerFaults, Knows, Issue
<1>1. Advances
  BY <1>0 DEF TypeInv, Advances, ChallengeAdvances, OrderAdvances, KeepsTasks, TypedTask,
              FreshTask, storeVars
<1>2. TaskFollowsStatus' /\ OrderFollowsStatus' /\ WorkTracked' /\ AcknowledgedCSR'
  BY SMT, <1>0 DEF Coherent, TaskFollowsStatus, OrderFollowsStatus, WorkTracked, AcknowledgedCSR,
              LiveTasks, Live, FreshTask, storeVars
<1>3. OneOperation'
  <2> DEFINE o == OrderIn(r)
             n == r.order.op
  <2>1. r.pc = "issue"
    BY <1>r DEF Issue
  <2>2. o \in Orders /\ n \in TaskIDs /\ order[o].op = n
    BY <1>0, <1>r, <2>1, HeldTypes DEF TypedRun, KnowsOrder, HoldsOrder, IssuancePC
  <2>3. task[n].target = o
    BY <1>0, <2>2, StoreAssumption DEF OrderFollowsStatus
  <2>4. \A op \in TaskIDs : op # n => ca'[op] = ca[op]
    BY <1>0, <1>r, <2>2 DEF Issue, TypeInv, TypeOK, IssuanceTypeOK
  <2> QED BY <1>0, <2>2, <2>3, <2>4 DEF OneOperation, Coherent, storeVars
<1>4. Knows(run[w])'
  <2>1. Knows(run'[w])
    BY IssuanceAnswersKnow
  <2> QED BY <1>0, <2>1 DEF Knows, KnowsChallenge, KnowsOrder, KnowsSettled, OrderIn, storeVars
<1> QED BY <1>1, <1>2, <1>3, <1>4, WriteStep DEF StoreCoherent

-----------------------------------------------------------------------------
(* Requests and the remaining steps. *)

(* A request's step: the others keep what they know. *)
LEMMA RequestStep ==
  ASSUME Coherent, TypeInv', NEW h \in Handlers, UNCHANGED run,
         NEW q, Move(h, q), Advances, StoreCoherent', KnowsRequest(hand[h])'
  PROVE  Coherent'
<1>1. \A g \in Handlers : g # h => hand'[g] = hand[g]
  BY DEF Move, Coherent, TypeInv, TypeOK, HandlerTypeOK
<1>2. ASSUME NEW v \in Workers PROVE Knows(run[v])'
  BY OthersKnow
<1>3. ASSUME NEW g \in Handlers PROVE KnowsRequest(hand[g])'
  BY <1>1, OtherRequestsKnow
<1> QED BY <1>2, <1>3 DEF Coherent, StoreCoherent

(* A request that holds no copy has nothing to know. *)
LEMMA FreeKnows ==
  ASSUME NEW h \in Handlers, hand'[h].pc \in {"idle", "signed", "finReload", "deactivate"}
  PROVE  KnowsRequest(hand[h])'
BY DEF KnowsRequest

(* A request's step that leaves the store alone. *)
LEMMA SilentRequest ==
  ASSUME Coherent, TypeInv', NEW h \in Handlers, UNCHANGED <<run, ca, storeVars>>,
         NEW q, Move(h, q), KnowsRequest(hand'[h]), \A p \in acked' \ acked : order[p[1]].csr = p[2]
  PROVE  Coherent'
<1>1. Advances
  BY DEF Coherent, TypeInv, Advances, ChallengeAdvances, OrderAdvances, KeepsTasks, TypedTask,
         FreshTask, storeVars
<1>2. StoreCoherent'
  BY SMT DEF Coherent, StoreCoherent, TaskFollowsStatus, OrderFollowsStatus, WorkTracked, OneOperation,
         AcknowledgedCSR, LiveTasks, Live, FreshTask, storeVars
<1>3. KnowsRequest(hand[h])'
  BY DEF KnowsRequest, storeVars
<1> QED BY <1>1, <1>2, <1>3, RequestStep

(* acceptChallenge and deactivateAuthorization know what they read. *)
LEMMA RequestReadsCohere ==
  ASSUME Coherent, TypeInv', NEW h \in Handlers, UNCHANGED <<run, faults, ca>>,
         \/ Authenticate(h) \/ Answer(h)
         \/ \E c \in Challenges : Respond(h, c)
         \/ RespondAuthorization(h) \/ RespondCount(h)
         \/ \E a \in Authzs : Deactivate(h, a)
  PROVE  Coherent'
<1>r. PICK r : r = hand[h]
  OBVIOUS
<1>q. PICK q : q = hand'[h]
  OBVIOUS
<1>0. /\ TypeInv /\ hand \in [Handlers -> HandRec] /\ r \in HandRec /\ TypedHand(r) /\ KnowsRequest(r)
  BY <1>r DEF Coherent, TypeInv, TypeOK, HandlerTypeOK
<1>1. UNCHANGED <<storeVars, acked>> /\ \E x : Move(h, x)
  BY DEF Authenticate, Answer, Respond, RespondAuthorization, RespondCount, Deactivate, Reading, Reply
<1>2. CASE Authenticate(h) \/ Answer(h) \/ \E a \in Authzs : Deactivate(h, a)
  <2>1. CASE Authenticate(h)
    <3>1. q = [Free EXCEPT !.pc = "signed", !.copy = account]
      BY <1>0, <1>q, <2>1 DEF Authenticate, Move
    <3>2. KnowsRequest(q)
      BY <3>1 DEF KnowsRequest, Free
    <3> QED BY <1>q, <1>1, <3>2, SilentRequest
  <2>2. CASE Answer(h)
    <3>1. q = Free
      BY <1>0, <1>q, <2>2 DEF Answer, Reply, Move
    <3>2. KnowsRequest(q)
      BY <3>1 DEF KnowsRequest, Free
    <3> QED BY <1>q, <1>1, <3>2, SilentRequest
  <2>3. ASSUME NEW a \in Authzs, Deactivate(h, a) PROVE Coherent'
    <3>1. PICK x : q = [Free EXCEPT !.pc = "deactivate", !.id = a, !.copy = x]
      BY <1>0, <1>q, <2>3 DEF Deactivate, Move
    <3>2. KnowsRequest(q)
      BY <3>1 DEF KnowsRequest, Free
    <3> QED BY <1>q, <1>1, <3>2, SilentRequest
  <2> QED BY <1>2, <2>1, <2>2, <2>3
<1>3. ASSUME NEW c \in Challenges, Respond(h, c) PROVE Coherent'
  <2>1. q.pc = "respAuthz" /\ q.id = c /\ q.copy = ch[c] /\ ch[c].status = "pending"
    BY <1>0, <1>3, <1>q DEF Respond, Move, Free
  <2>2. ch[c].rev \in Nat
    BY <1>0, RevTypes
  <2>3. KnowsRequest(q)
    BY SMT, <2>1, <2>2 DEF KnowsRequest
  <2> QED BY <1>q, <1>1, <2>3, SilentRequest
<1>4. CASE RespondAuthorization(h) \/ RespondCount(h)
  <2>1. r.pc \in {"respAuthz", "respCount"}
    BY <1>4, <1>r DEF RespondAuthorization, RespondCount
  <2>2. r.copy \in ChallengeRec
    BY <1>0, <2>1 DEF TypedHand
  <2>3. \/ q = [r EXCEPT !.pc = "respCount"]
        \/ q = [r EXCEPT !.pc = "respStore", !.copy.status = "processing"]
        \/ q = Free
    BY <1>0, <1>4, <1>r, <1>q DEF RespondAuthorization, RespondCount, Move, Reply
  <2>4. CASE q = [r EXCEPT !.pc = "respCount"]
    <3>1. q.pc = "respCount" /\ q.id = r.id /\ q.copy = r.copy
      BY <1>0, <2>4 DEF HandRec
    <3>2. KnowsRequest(q)
      BY <1>0, <2>1, <3>1 DEF KnowsRequest
    <3> QED BY <1>q, <1>1, <3>2, SilentRequest
  <2>5. CASE q = [r EXCEPT !.pc = "respStore", !.copy.status = "processing"]
    <3>1. q.pc = "respStore" /\ q.id = r.id /\ q.copy = [r.copy EXCEPT !.status = "processing"]
      BY <1>0, <2>5 DEF HandRec
    <3>2. q.copy.rev = r.copy.rev /\ q.copy.status = "processing"
      BY <2>2, <3>1 DEF ChallengeRec
    <3>3. KnowsRequest(q)
      BY <1>0, <2>1, <3>1, <3>2 DEF KnowsRequest
    <3> QED BY <1>q, <1>1, <3>3, SilentRequest
  <2>6. CASE q = Free
    <3>1. KnowsRequest(q)
      BY <2>6 DEF KnowsRequest, Free
    <3> QED BY <1>q, <1>1, <3>1, SilentRequest
  <2> QED BY <2>3, <2>4, <2>5, <2>6
<1> QED BY <1>2, <1>3, <1>4

(* serveFinalize knows the order it read, and acknowledges only the CSR it holds. *)
LEMMA FinalizeReadsCohere ==
  ASSUME Coherent, TypeInv', NEW h \in Handlers, UNCHANGED <<run, faults, ca>>,
         \/ \E o \in Orders, csr \in CSRs : Finalize(h, o, csr)
         \/ FinalizeDerive(h) \/ FinalizeReload(h)
  PROVE  Coherent'
<1>r. PICK r : r = hand[h]
  OBVIOUS
<1>q. PICK q : q = hand'[h]
  OBVIOUS
<1>0. /\ TypeInv /\ hand \in [Handlers -> HandRec] /\ r \in HandRec /\ TypedHand(r) /\ KnowsRequest(r)
  BY <1>r DEF Coherent, TypeInv, TypeOK, HandlerTypeOK
<1>1. UNCHANGED storeVars /\ \E x : Move(h, x)
  BY DEF Finalize, FinalizeDerive, FinalizeReload, Acknowledge, Reading, Reply
<1>f. KnowsRequest(Free)
  BY DEF KnowsRequest, Free
<1>2. ASSUME NEW o \in Orders, NEW csr \in CSRs, Finalize(h, o, csr) PROVE Coherent'
  <2>1. CASE order[o].csr = csr /\ Acknowledge(h, o, csr)
    <3>1. q = Free /\ acked' = acked \cup {<<o, csr>>}
      BY <1>0, <1>q, <2>1 DEF Acknowledge, Reply, Move
    <3>2. \A p \in acked' \ acked : order[p[1]].csr = p[2]
      BY SMT, <2>1, <3>1
    <3> QED BY <1>q, <1>1, <1>f, <3>1, <3>2, SilentRequest
  <2>2. CASE ~(order[o].csr = csr /\ Acknowledge(h, o, csr))
    <3>0. /\ order[o].status \in Open /\ acked' = acked
          /\ Move(h, [Free EXCEPT !.pc = "finDerive", !.id = o, !.copy = order[o], !.csr = csr,
                                  !.todo = AuthzsOf(o), !.status = "ready", !.at = now])
      BY <1>2, <2>2 DEF Finalize, Open
    <3>1. q.pc = "finDerive" /\ q.id = o /\ q.copy = order[o]
      BY <1>0, <1>q, <3>0 DEF Move, Free
    <3>2. order[o].rev \in Nat /\ order[o].op = None
      BY <1>0, <3>0, RevTypes DEF Coherent, OrderFollowsStatus
    <3>3. KnowsRequest(q)
      BY SMT, <3>0, <3>1, <3>2 DEF KnowsRequest
    <3> QED BY <1>q, <1>1, <3>0, <3>3, SilentRequest
  <2> QED BY <2>1, <2>2
<1>3. CASE FinalizeDerive(h)
  <2>1. r.pc = "finDerive" /\ acked' = acked
    BY <1>3, <1>r DEF FinalizeDerive
  <2>2. r.copy \in OrderRec
    BY <1>0, <2>1 DEF TypedHand
  <2>3. PICK a, s :
          \/ Move(h, [r EXCEPT !.todo = @ \ {a}, !.status = s])
          \/ Move(h, [r EXCEPT !.pc = "finStore", !.todo = {}, !.status = None, !.at = 0,
                               !.copy.status = "processing", !.copy.csr = r.csr])
          \/ Reply(h)
    BY <1>3, <1>r DEF FinalizeDerive
  <2>4. \/ q = [r EXCEPT !.todo = @ \ {a}, !.status = s]
        \/ q = [r EXCEPT !.pc = "finStore", !.todo = {}, !.status = None, !.at = 0,
                         !.copy.status = "processing", !.copy.csr = r.csr]
        \/ q = Free
    BY <1>0, <1>q, <2>3 DEF Move, Reply
  <2>5. CASE q = [r EXCEPT !.todo = @ \ {a}, !.status = s]
    <3>1. q.pc = "finDerive" /\ q.id = r.id /\ q.copy = r.copy
      BY <1>0, <2>1, <2>5 DEF HandRec
    <3>2. KnowsRequest(q)
      BY <1>0, <2>1, <3>1 DEF KnowsRequest
    <3> QED BY <1>q, <1>1, <2>1, <3>2, SilentRequest
  <2>6. CASE q = [r EXCEPT !.pc = "finStore", !.todo = {}, !.status = None, !.at = 0,
                           !.copy.status = "processing", !.copy.csr = r.csr]
    <3>1. /\ q.pc = "finStore" /\ q.id = r.id /\ q.csr = r.csr
          /\ q.copy = [r.copy EXCEPT !.status = "processing", !.csr = r.csr]
      BY <1>0, <2>6 DEF HandRec
    <3>2. /\ q.copy.rev = r.copy.rev /\ q.copy.status = "processing" /\ q.copy.csr = r.csr
          /\ q.copy.op = r.copy.op
      BY <2>2, <3>1 DEF OrderRec
    <3>3. KnowsRequest(q)
      BY <1>0, <2>1, <3>1, <3>2 DEF KnowsRequest
    <3> QED BY <1>q, <1>1, <2>1, <3>3, SilentRequest
  <2> QED BY <1>q, <1>1, <1>f, <2>1, <2>4, <2>5, <2>6, SilentRequest
<1>4. CASE FinalizeReload(h)
  <2>1. \/ Reply(h) /\ acked' = acked
        \/ Acknowledge(h, r.id, r.csr) /\ order[r.id].csr = r.csr
    BY <1>4, <1>r DEF FinalizeReload
  <2>2. q = Free
    BY <1>0, <1>q, <2>1 DEF Acknowledge, Reply, Move
  <2>3. \A p \in acked' \ acked : order[p[1]].csr = p[2]
    BY SMT, <2>1 DEF Acknowledge
  <2> QED BY <1>q, <1>1, <1>f, <2>2, <2>3, SilentRequest
<1> QED BY <1>2, <1>3, <1>4

(* acceptChallenge's commit: the challenge leaves pending together with    *)
(* the one task it ever gets.                                              *)
LEMMA RespondCoheres ==
  ASSUME Coherent, TypeInv', NEW h \in Handlers, UNCHANGED <<run, faults, ca>>, RespondStore(h)
  PROVE  Coherent'
<1>r. PICK r : r = hand[h]
  OBVIOUS
<1>0. /\ TypeInv /\ hand \in [Handlers -> HandRec] /\ TypedHand(r) /\ KnowsRequest(r)
      /\ r.pc = "respStore" /\ acked' = acked /\ Move(h, Free)
  BY <1>r DEF Coherent, TypeInv, TypeOK, HandlerTypeOK, RespondStore, Reply
<1>1. hand'[h] = Free /\ KnowsRequest(Free)
  BY <1>0 DEF Move, KnowsRequest, Free
<1>2. CASE UNCHANGED storeVars
  BY <1>0, <1>1, <1>2, SilentRequest
<1>3. CASE AcceptChallenge(r.id, r.copy)
  <2>c. PICK c \in Challenges : c = r.id
    BY <1>0 DEF TypedHand
  <2>1. /\ r.copy \in ChallengeRec /\ ch[c].rev = r.copy.rev /\ ch[c].status = "pending"
        /\ r.copy.status = "processing"
    BY <1>0, <1>3, <2>c DEF TypedHand, AcceptChallenge, CheckChallenge, KnowsRequest
  <2>2. UNCHANGED <<order, authz, cert>> /\ InsertTask("validate", c)
    BY <1>3, <2>c DEF AcceptChallenge
  <2>3. PICK n \in TaskIDs :
          /\ FreshTask(n)
          /\ task'[n] = [state |-> "queued", kind |-> "validate", target |-> c, fence |-> 0]
          /\ \A t \in TaskIDs : t # n => task'[t] = task[t]
    BY <1>0, <2>2, Inserted
  <2>4. /\ ch'[c].rev = r.copy.rev + 1 /\ ch'[c].status = "processing"
        /\ \A d \in Challenges : d # c => ch'[d] = ch[d]
    BY <1>0, <1>3, <2>c, <2>1 DEF AcceptChallenge, Stored, ChallengeRec, TypeInv, TypeOK, StoreTypeOK
  <2>5. Advances
    <3>1. \A d \in Challenges : ChallengeAdvances(d)
      <4>1. ch[c].rev \in Nat
        BY <1>0, RevTypes
      <4> QED BY SMT, <2>1, <2>4, <4>1 DEF ChallengeAdvances, Settled
    <3>2. \A o \in Orders : OrderAdvances(o)
      BY <2>2 DEF OrderAdvances
    <3>3. KeepsTasks
      BY <2>3 DEF KeepsTasks, FreshTask, TypeInv
    <3> QED BY <3>1, <3>2, <3>3 DEF Advances
  <2>6. TaskFollowsStatus'
    <3> SUFFICES ASSUME NEW t \in TaskIDs, task'[t].state # "unused"
                 PROVE  IF task'[t].kind = "validate" THEN ch'[task'[t].target].status # "pending"
                        ELSE order'[task'[t].target].status \notin Open
      BY DEF TaskFollowsStatus, FreshTask
    <3>1. CASE t = n
      BY SMT, <2>3, <2>4, <3>1
    <3>2. CASE t # n
      <4>1. task'[t] = task[t] /\ ~FreshTask(t) /\ TypedTask(t)
        BY <1>0, <2>3, <3>2 DEF FreshTask, TypeInv
      <4>2. IF task[t].kind = "validate" THEN ch[task[t].target].status # "pending"
            ELSE order[task[t].target].status \notin Open
        BY <4>1 DEF Coherent, TaskFollowsStatus
      <4>3. task[t].kind = "validate" => task[t].target \in Challenges
        BY <4>1 DEF TypedTask, FreshTask
      <4> QED BY <2>2, <2>4, <4>1, <4>2, <4>3
    <3> QED BY <3>1, <3>2
  <2>7. OrderFollowsStatus'
    BY SMT, <1>0, <2>2, <2>3 DEF Coherent, OrderFollowsStatus, FreshTask, TypeInv, TypeOK, StoreTypeOK, OrderRec
  <2>8. WorkTracked'
    <3>1. ASSUME NEW d \in Challenges, ch'[d].status = "processing"
          PROVE  \E t \in TaskIDs : Live(t)' /\ task'[t].kind = "validate" /\ task'[t].target = d
      <4>1. CASE d = c
        BY SMT, <2>3, <4>1 DEF Live
      <4>2. CASE d # c
        <5>1. PICK t \in TaskIDs : Live(t) /\ task[t].kind = "validate" /\ task[t].target = d
          BY SMT, <2>4, <3>1, <4>2 DEF Coherent, WorkTracked, LiveTasks
        <5>2. task'[t] = task[t]
          BY <2>3, <5>1 DEF Live, FreshTask
        <5> QED BY <5>1, <5>2 DEF Live
      <4> QED BY <4>1, <4>2
    <3>2. ASSUME NEW o \in Orders, order'[o].status = "processing"
          PROVE  \E t \in TaskIDs : Live(t)' /\ task'[t].kind = "issue" /\ task'[t].target = o
      <4>1. PICK t \in TaskIDs : Live(t) /\ task[t].kind = "issue" /\ task[t].target = o
        BY <2>2, <3>2 DEF Coherent, WorkTracked, LiveTasks
      <4>2. task'[t] = task[t]
        BY <2>3, <4>1 DEF Live, FreshTask
      <4> QED BY <4>1, <4>2 DEF Live
    <3>3. ASSUME NEW t \in TaskIDs, t # n, ~FreshTask(t)
          PROVE  task[t].kind # "validate" \/ task[t].target # c
      BY <2>1, <3>3 DEF Coherent, TaskFollowsStatus
    <3>4. ASSUME NEW s \in TaskIDs, NEW t \in TaskIDs, ~FreshTask(s)', ~FreshTask(t)', s # t
          PROVE  task'[s].kind # task'[t].kind \/ task'[s].target # task'[t].target
      BY SMT, <2>3, <3>3, <3>4 DEF Coherent, WorkTracked, FreshTask
    <3> QED BY <3>1, <3>2, <3>4 DEF WorkTracked, LiveTasks
  <2>9. OneOperation' /\ AcknowledgedCSR'
    BY <1>0, <2>2, <2>5, OperationKept, AcknowledgedKept DEF NoNewOperation, AcknowledgedCSR
  <2>10. StoreCoherent'
    BY <2>6, <2>7, <2>8, <2>9 DEF StoreCoherent
  <2>11. KnowsRequest(hand[h])'
    BY SMT, <1>1, FreeKnows DEF Free
  <2> QED BY <1>0, <2>5, <2>10, <2>11, RequestStep
<1> QED BY <1>r, <1>2, <1>3 DEF RespondStore

(* serveFinalize's commit: the order leaves pending or ready together with *)
(* the one issuance task it ever gets, with the CSR that is acknowledged.  *)
LEMMA FinalizeCoheres ==
  ASSUME Coherent, TypeInv', NEW h \in Handlers, UNCHANGED <<run, faults, ca>>, FinalizeStore(h)
  PROVE  Coherent'
<1>r. PICK r : r = hand[h]
  OBVIOUS
<1>0. /\ TypeInv /\ hand \in [Handlers -> HandRec] /\ r \in HandRec /\ TypedHand(r) /\ KnowsRequest(r)
      /\ r.pc = "finStore"
  BY <1>r DEF Coherent, TypeInv, TypeOK, HandlerTypeOK, FinalizeStore
<1>2. CASE Move(h, [r EXCEPT !.pc = "finReload", !.copy = None]) /\ UNCHANGED <<storeVars, acked>>
  <2>1. hand'[h].pc = "finReload"
    BY <1>0, <1>2 DEF Move, HandRec
  <2>2. KnowsRequest(hand'[h])
    BY <2>1 DEF KnowsRequest
  <2> QED BY <1>2, <2>2, SilentRequest
<1>3. CASE FinalizeOrder(r.id, r.copy) /\ Acknowledge(h, r.id, r.csr)
  <2>o. PICK o \in Orders : o = r.id
    BY <1>0 DEF TypedHand
  <2>1. /\ r.copy \in OrderRec /\ order[o].rev = r.copy.rev /\ order[o].status \in Open
        /\ r.copy.status = "processing" /\ r.copy.csr = r.csr /\ r.copy.op = None
    BY <1>0, <1>3, <2>o DEF TypedHand, FinalizeOrder, CheckOrder, KnowsRequest
  <2>2. UNCHANGED <<ch, authz, cert>> /\ InsertTask("issue", o)
    BY <1>3, <2>o DEF FinalizeOrder
  <2>3. PICK n \in TaskIDs :
          /\ FreshTask(n)
          /\ task'[n] = [state |-> "queued", kind |-> "issue", target |-> o, fence |-> 0]
          /\ \A t \in TaskIDs : t # n => task'[t] = task[t]
    BY <1>0, <2>2, Inserted
  <2>4. /\ order'[o].rev = r.copy.rev + 1 /\ order'[o].status = "processing"
        /\ order'[o].csr = r.csr /\ order'[o].op = None
        /\ \A p \in Orders : p # o => order'[p] = order[p]
    BY <1>0, <1>3, <2>o, <2>1 DEF FinalizeOrder, Stored, OrderRec, TypeInv, TypeOK, StoreTypeOK
  <2>5. Advances
    <3>1. \A p \in Orders : OrderAdvances(p)
      <4>1. order[o].rev \in Nat /\ order[o].csr = None /\ order[o].op = None
        BY <1>0, <2>1, RevTypes DEF Coherent, OrderFollowsStatus
      <4> QED BY SMT, <2>1, <2>4, <4>1 DEF OrderAdvances, Open, Settled
    <3>2. \A c \in Challenges : ChallengeAdvances(c)
      BY <2>2 DEF ChallengeAdvances
    <3>3. KeepsTasks
      BY <2>3 DEF KeepsTasks, FreshTask, TypeInv
    <3> QED BY <3>1, <3>2, <3>3 DEF Advances
  <2>6. TaskFollowsStatus'
    <3> SUFFICES ASSUME NEW t \in TaskIDs, task'[t].state # "unused"
                 PROVE  IF task'[t].kind = "validate" THEN ch'[task'[t].target].status # "pending"
                        ELSE order'[task'[t].target].status \notin Open
      BY DEF TaskFollowsStatus, FreshTask
    <3>1. CASE t = n
      BY SMT, <2>3, <2>4, <3>1 DEF Open
    <3>2. CASE t # n
      <4>1. task'[t] = task[t] /\ ~FreshTask(t) /\ TypedTask(t) /\ task[t] \in TaskRec
        BY <1>0, <2>3, <3>2 DEF FreshTask, TypeInv, TypeOK, StoreTypeOK
      <4>2. IF task[t].kind = "validate" THEN ch[task[t].target].status # "pending"
            ELSE order[task[t].target].status \notin Open
        BY <4>1 DEF Coherent, TaskFollowsStatus
      <4>3. task[t].kind # "validate" => task[t].target \in Orders
        BY <4>1 DEF TypedTask, FreshTask, TaskRec
      <4> QED BY <2>2, <2>4, <4>1, <4>2, <4>3 DEF Open
    <3> QED BY <3>1, <3>2
  <2>7. OrderFollowsStatus'
    <3> SUFFICES ASSUME NEW p \in Orders
                 PROVE  /\ order'[p].status \in Open => order'[p].csr = None /\ order'[p].op = None
                        /\ order'[p].op # None =>
                             /\ task'[order'[p].op].state # "unused"
                             /\ task'[order'[p].op].kind = "issue" /\ task'[order'[p].op].target = p
      BY DEF OrderFollowsStatus, FreshTask
    <3>1. CASE p = o
      BY <2>4, <3>1 DEF Open
    <3>2. CASE p # o
      <4>1. order'[p] = order[p] /\ order[p] \in OrderRec
        BY <1>0, <2>4, <3>2 DEF TypeInv, TypeOK, StoreTypeOK
      <4>2. order[p].op # None => order[p].op \in TaskIDs
        BY <4>1 DEF OrderRec
      <4> QED BY SMT, <2>3, <4>1, <4>2 DEF Coherent, OrderFollowsStatus, FreshTask
    <3> QED BY <3>1, <3>2
  <2>8. WorkTracked'
    <3>1. ASSUME NEW p \in Orders, order'[p].status = "processing"
          PROVE  \E t \in TaskIDs : Live(t)' /\ task'[t].kind = "issue" /\ task'[t].target = p
      <4>1. CASE p = o
        BY SMT, <2>3, <4>1 DEF Live
      <4>2. CASE p # o
        <5>1. PICK t \in TaskIDs : Live(t) /\ task[t].kind = "issue" /\ task[t].target = p
          BY SMT, <2>4, <3>1, <4>2 DEF Coherent, WorkTracked, LiveTasks
        <5>2. task'[t] = task[t]
          BY <2>3, <5>1 DEF Live, FreshTask
        <5> QED BY <5>1, <5>2 DEF Live
      <4> QED BY <4>1, <4>2
    <3>2. ASSUME NEW c \in Challenges, ch'[c].status = "processing"
          PROVE  \E t \in TaskIDs : Live(t)' /\ task'[t].kind = "validate" /\ task'[t].target = c
      <4>1. PICK t \in TaskIDs : Live(t) /\ task[t].kind = "validate" /\ task[t].target = c
        BY <2>2, <3>2 DEF Coherent, WorkTracked, LiveTasks
      <4>2. task'[t] = task[t]
        BY <2>3, <4>1 DEF Live, FreshTask
      <4> QED BY <4>1, <4>2 DEF Live
    <3>3. ASSUME NEW t \in TaskIDs, t # n, ~FreshTask(t)
          PROVE  task[t].kind # "issue" \/ task[t].target # o
      BY <2>1, <3>3 DEF Coherent, TaskFollowsStatus
    <3>4. ASSUME NEW s \in TaskIDs, NEW t \in TaskIDs, ~FreshTask(s)', ~FreshTask(t)', s # t
          PROVE  task'[s].kind # task'[t].kind \/ task'[s].target # task'[t].target
      BY SMT, <2>3, <3>3, <3>4 DEF Coherent, WorkTracked, FreshTask
    <3> QED BY <3>1, <3>2, <3>4 DEF WorkTracked, LiveTasks
  <2>9. OneOperation'
    BY <2>5, OperationKept DEF NoNewOperation
  <2>10. AcknowledgedCSR'
    <3>1. acked' = acked \cup {<<o, r.csr>>}
      BY <1>3, <2>o DEF Acknowledge
    <3>2. ASSUME NEW p \in acked' PROVE order'[p[1]].csr = p[2]
      BY SMT, <2>4, <2>5, <3>1, AcknowledgedKept
    <3> QED BY <3>2 DEF AcknowledgedCSR
  <2>11. StoreCoherent'
    BY <2>6, <2>7, <2>8, <2>9, <2>10 DEF StoreCoherent
  <2>12. Move(h, Free) /\ hand'[h].pc = "idle"
    BY <1>0, <1>3 DEF Acknowledge, Reply, Move, Free
  <2>13. KnowsRequest(hand[h])'
    BY <2>12, FreeKnows
  <2> QED BY <2>5, <2>11, <2>12, <2>13, RequestStep
<1> QED BY <1>r, <1>2, <1>3 DEF FinalizeStore

(* Deactivating an authorization may end its order, when nothing was       *)
(* dispatched; the order's task stays.  Account updates touch neither.     *)
LEMMA OtherRequestsCohere ==
  ASSUME Coherent, TypeInv', NEW h \in Handlers, UNCHANGED <<run, faults, ca>>,
         \/ DeactivateStore(h)
         \/ \E status \in {"valid", "deactivated"} : ChangeAccount(h, status)
  PROVE  Coherent'
<1>0. TypeInv /\ hand \in [Handlers -> HandRec] /\ acked' = acked /\ Move(h, Free)
  BY DEF Coherent, TypeInv, TypeOK, HandlerTypeOK, DeactivateStore, ChangeAccount, Reply
<1>1. hand'[h].pc = "idle"
  BY <1>0 DEF Move, Free
<1>2. KnowsRequest(hand[h])'
  BY <1>1, FreeKnows
<1>3. UNCHANGED <<ch, task>>
  BY DEF DeactivateStore, ChangeAccount, UpdateAuthorization, UpdateAccount, storeVars
<1>4. \/ order' = order
      \/ \E o \in Orders : order' = [order EXCEPT ![o].status = "invalid", ![o].rev = @ + 1]
  <2>1. CASE DeactivateStore(h)
    <3>1. hand[h].id \in Authzs
      BY <1>0, <2>1 DEF DeactivateStore, TypeInv, TypedHand
    <3>2. OrderOf[hand[h].id] \in Orders
      BY <3>1, StoreAssumption
    <3> QED BY <2>1, <3>2 DEF DeactivateStore, UpdateAuthorization, storeVars
  <2>2. CASE \E status \in {"valid", "deactivated"} : ChangeAccount(h, status)
    BY <2>2 DEF ChangeAccount, UpdateAccount, storeVars
  <2> QED BY <2>1, <2>2
<1>5. ASSUME NEW o \in Orders
      PROVE  \/ order'[o] = order[o]
             \/ /\ order'[o].rev = order[o].rev + 1 /\ order'[o].status = "invalid"
                /\ order'[o].csr = order[o].csr /\ order'[o].op = order[o].op
  <2>1. order[o] \in OrderRec /\ order \in [Orders -> OrderRec]
    BY <1>0 DEF TypeInv, TypeOK, StoreTypeOK
  <2>2. ASSUME NEW p \in Orders, order' = [order EXCEPT ![p].status = "invalid", ![p].rev = @ + 1], p = o
        PROVE  /\ order'[o].rev = order[o].rev + 1 /\ order'[o].status = "invalid"
               /\ order'[o].csr = order[o].csr /\ order'[o].op = order[o].op
    BY <2>1, <2>2 DEF OrderRec
  <2>3. ASSUME NEW p \in Orders, order' = [order EXCEPT ![p].status = "invalid", ![p].rev = @ + 1], p # o
        PROVE  order'[o] = order[o]
    BY <2>1, <2>3
  <2> QED BY <1>4, <2>2, <2>3
<1>6. Advances
  <2>1. \A o \in Orders : OrderAdvances(o)
    BY SMT, <1>0, <1>5, RevTypes DEF OrderAdvances, Open, Settled
  <2>2. \A c \in Challenges : ChallengeAdvances(c)
    BY <1>3 DEF ChallengeAdvances
  <2>3. KeepsTasks
    BY <1>3 DEF KeepsTasks, FreshTask, TypeInv
  <2> QED BY <2>1, <2>2, <2>3 DEF Advances
<1>7. NoNewWork
  <2>1. \A o \in Orders :
          /\ order'[o].status = "processing" => order[o].status = "processing"
          /\ \/ order'[o] = order[o]
             \/ order'[o].status \notin Open /\ order'[o].op = order[o].op
    BY <1>5 DEF Open
  <2> QED BY <1>3, <2>1 DEF NoNewWork, Live, FreshTask
<1>8. StoreCoherent'
  BY <1>0, <1>6, <1>7, StoreKept DEF NoNewOperation
<1> QED BY <1>0, <1>2, <1>6, <1>8, RequestStep

(* The clock, the CA's decisions and stuttering leave the store, the runs  *)
(* and the requests alone.                                                 *)
LEMMA SurroundingsCohere ==
  ASSUME Coherent, TypeInv', UNCHANGED <<storeVars, run, hand, acked>>, NoNewOperation
  PROVE  Coherent'
<1>0. TypeInv
  BY DEF Coherent
<1>1. Advances
  BY <1>0 DEF TypeInv, Advances, ChallengeAdvances, OrderAdvances, KeepsTasks, TypedTask,
              FreshTask, storeVars
<1>2. NoNewWork
  BY DEF NoNewWork, Live, FreshTask, storeVars
<1>3. StoreCoherent'
  BY <1>1, <1>2, StoreKept
<1>4. ASSUME NEW w \in Workers PROVE Knows(run[w])'
  BY <1>1, OthersKnow
<1>5. ASSUME NEW h \in Handlers PROVE KnowsRequest(hand[h])'
  BY <1>1, OtherRequestsKnow
<1> QED BY <1>3, <1>4, <1>5 DEF Coherent, StoreCoherent

(* The CA decides only what it was already asked for. *)
LEMMA CACoheres ==
  ASSUME Coherent, TypeInv', NEW op \in TaskIDs, CAStep(op)
  PROVE  Coherent'
<1>1. UNCHANGED <<storeVars, run, hand, acked>> /\ ca[op].state = "open"
  BY DEF CAStep, CASigns, CARejects
<1>2. \A x \in TaskIDs : x # op => ca'[x] = ca[x]
  BY DEF CAStep, CASigns, CARejects, Coherent, TypeInv, TypeOK, IssuanceTypeOK
<1>3. NoNewOperation
  BY <1>1, <1>2 DEF NoNewOperation
<1> QED BY <1>1, <1>3, SurroundingsCohere

(* At the start nothing was accepted and nobody holds a copy. *)
LEMMA CoherentStart ==
  ASSUME Init
  PROVE  Coherent
<1>1. TypeInv
  BY TypeStart
<1>2. \A t \in TaskIDs : FreshTask(t) /\ ca[t].state = "unknown" /\ ~Live(t)
  BY DEF Init, StoreInit, CAInit, FreshTask, Live
<1>3. ASSUME NEW w \in Workers PROVE Knows(run[w])
  <2>1. run[w].pc = "idle"
    BY DEF Init, WorkerInit, Idle
  <2> QED BY <2>1 DEF Knows, KnowsChallenge, KnowsOrder, KnowsSettled, HoldsCh, HoldsAuthz, HoldsOrder,
                      ValidationPC, IssuancePC
<1>4. ASSUME NEW h \in Handlers PROVE KnowsRequest(hand[h])
  BY DEF Init, HandlerInit, Free, KnowsRequest
<1>5. ASSUME NEW o \in Orders
      PROVE  order[o].status # "processing" /\ order[o].csr = None /\ order[o].op = None
  BY DEF Init, StoreInit, NewOrder
<1>6. \A c \in Challenges : ch[c].status # "processing"
  BY DEF Init, StoreInit
<1>7. TaskFollowsStatus /\ OneOperation
  BY <1>2 DEF TaskFollowsStatus, OneOperation
<1>8. OrderFollowsStatus
  BY <1>5 DEF OrderFollowsStatus
<1>9. WorkTracked
  BY <1>2, <1>5, <1>6 DEF WorkTracked
<1>10. AcknowledgedCSR
  BY DEF AcknowledgedCSR, Init, HandlerInit
<1> QED BY <1>1, <1>3, <1>4, <1>7, <1>8, <1>9, <1>10 DEF Coherent

(* No step of the lifecycle breaks Coherent: one case per actor. *)
LEMMA CoherentStep ==
  ASSUME Coherent, [Next]_vars
  PROVE  Coherent'
<1>0. TypeInv'
  BY TypeStep DEF Coherent
<1>1. ASSUME NEW w \in Workers, WorkerSteps(w) PROVE Coherent'
  <2>1. CASE Claim(w) /\ UNCHANGED ca
    BY <1>0, <1>1, <2>1, ClaimsCohere
  <2>2. CASE (Reschedule(w) \/ Finish(w)) /\ UNCHANGED ca
    BY <1>0, <1>1, <2>2, ReleasesCohere
  <2>3. CASE ValidationStep(w) /\ UNCHANGED ca
    BY <1>0, <1>1, <2>3, SilentStepsCohere, RetryCoheres, CommitCoheres DEF ValidationStep
  <2>4. CASE IssuanceStep(w)
    <3>1. CASE StoreDispatch(w) \/ Record(w) \/ Issue(w)
      BY <1>0, <1>1, <3>1, DispatchCoheres, RecordCoheres, IssueCoheres
    <3>2. CASE ~(StoreDispatch(w) \/ Record(w) \/ Issue(w))
      <4>1. UNCHANGED ca
        BY <2>4, <3>2 DEF IssuanceStep, Step, ReadIssuanceOrder, DispatchAccount, Snapshot, PolicyAllows,
             PolicyRefuses, DispatchConflict, AnswerIssued, AnswerRejected, RecordFails
      <4> QED BY <1>0, <1>1, <2>4, <3>2, <4>1, SilentStepsCohere DEF IssuanceStep
    <3> QED BY <3>1, <3>2
  <2> QED BY <1>1, <2>1, <2>2, <2>3, <2>4 DEF WorkerSteps
<1>2. ASSUME NEW w \in Workers, WorkerFaults(w) PROVE Coherent'
  <2>1. CASE ClaimLapsed(w) /\ UNCHANGED ca
    BY <1>0, <1>2, <2>1, ClaimsCohere
  <2>0. UNCHANGED ca
    BY <1>2 DEF WorkerFaults, Step, PolicyErrs, AnswerMuddled, AnswerPending
  <2>2. CASE ~ClaimLapsed(w)
    BY <1>0, <1>2, <2>0, <2>2, SilentStepsCohere DEF WorkerFaults
  <2> QED BY <2>0, <2>1, <2>2
<1>3. ASSUME NEW h \in Handlers, HandlerStep(h) /\ UNCHANGED <<run, faults, ca>> PROVE Coherent'
  BY <1>0, <1>3, RequestReadsCohere, FinalizeReadsCohere, RespondCoheres, FinalizeCoheres,
     OtherRequestsCohere DEF HandlerStep
<1>4. ASSUME NEW op \in TaskIDs, CAStep(op) PROVE Coherent'
  BY <1>0, <1>4, CACoheres
<1>5. CASE Tick \/ UNCHANGED vars
  BY <1>0, <1>5, SurroundingsCohere DEF Tick, vars, storeVars, NoNewOperation
<1> QED BY <1>1, <1>2, <1>3, <1>4, <1>5 DEF Next, Rest

(* In every behaviour, for any number of orders, workers, requests and     *)
(* faults, a copy of the current revision tells its holder the truth, and  *)
(* tasks, statuses and operations follow one another.                      *)
THEOREM Coherence == Spec => []Coherent
<1>1. Init => Coherent
  BY CoherentStart
<1>2. Coherent /\ [Next]_vars => Coherent'
  BY CoherentStep
<1> QED BY <1>1, <1>2, PTL DEF Spec

(* Accepted work is never lost and never doubled, whichever crashes,       *)
(* lapsed leases and conflicts the workers meet.                           *)
THEOREM WorkIsTracked == Spec => []WorkTracked
<1>1. Coherent => WorkTracked
  BY DEF Coherent
<1> QED BY <1>1, Coherence, PTL

(* The CA hears of an order under one operation, the one recorded on the   *)
(* order before the first call.                                            *)
THEOREM OneOperationPerOrder == Spec => []OneOperation
<1>1. Coherent => OneOperation
  BY DEF Coherent
<1> QED BY <1>1, Coherence, PTL

(* The CSR of a finalization that was answered with success stays in the   *)
(* order, also when several finalizations race.                            *)
THEOREM AcknowledgedCSRStays == Spec => []AcknowledgedCSR
<1>1. Coherent => AcknowledgedCSR
  BY DEF Coherent
<1> QED BY <1>1, Coherence, PTL
===============================================================================
