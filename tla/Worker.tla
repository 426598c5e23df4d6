------------------------------- MODULE Worker -------------------------------
(***************************************************************************)
(* What every task run of worker.go has in common: the claim, the local    *)
(* state of a run, and the ways a run ends.  The steps of a validation and *)
(* of an issuance are in ValidationWorker and IssuanceWorker.  A run takes *)
(* one step per Store method and per call of host code (validator, policy, *)
(* issuer); between two of them every other process may act.               *)
(*                                                                         *)
(* Faults are a budget: a crash, a lease that lapses under a running       *)
(* worker, a Store or host call that fails for a transient reason, a CA    *)
(* that answers "pending".  Each uses one of MaxFaults.                    *)
(***************************************************************************)
EXTENDS AcmeStore

CONSTANTS
  Workers,     \* concurrent task runs, in one process or several
  MaxAttempts, \* WorkerConfig.MaxAttempts
  MaxFaults    \* bound on the faults of one behaviour

VARIABLES
  run,    \* the local state of each worker's task run
  faults  \* faults left

ASSUME WorkerAssumption == MaxAttempts \in Nat \ {0} /\ MaxFaults \in Nat

ValidationPC ==
  {"challenge", "authorization", "account", "validate", "order", "derive", "complete",
   "reload", "retry"}
IssuancePC ==
  {"issuanceOrder", "dispatchAccount", "snapshot", "policy", "begin", "issue", "await", "record"}
PC == {"idle", "reschedule", "finish"} \cup ValidationPC \cup IssuancePC

NoSnapshot == [a \in Authzs |-> None]
Idle ==
  [pc |-> "idle", task |-> None, fence |-> 0,
   ch |-> None, authz |-> None, order |-> None,        \* copies read from the store
   todo |-> {}, status |-> None, at |-> 0, tries |-> 0, \* deriveOrderStatus, and the commit loop
   acct |-> 0, snap |-> NoSnapshot,                    \* what a dispatch was decided from
   recoveryOnly |-> FALSE, leaf |-> None]
RunRec ==
  [pc : PC, task : TaskIDs \cup {None}, fence : Nat,
   ch : ChallengeRec \cup {None}, authz : AuthzRec \cup {None}, order : OrderRec \cup {None},
   todo : SUBSET Authzs, status : OrderStatus \cup {None}, at : Nat, tries : 0..3,
   acct : Nat, snap : [Authzs -> AuthzRec \cup {None}],
   recoveryOnly : BOOLEAN, leaf : Leaves \cup {None}]

WorkerInit == run = [w \in Workers |-> Idle] /\ faults = MaxFaults

(* The run of w works on its task's target. *)
Target(w) == task[run[w].task].target
Holds(w, t) == run[w].task = t /\ run[w].fence = task[t].fence

Goto(w, pc) == run' = [run EXCEPT ![w].pc = pc]
End(w) == run' = [run EXCEPT ![w] = Idle]
Fault == faults > 0 /\ faults' = faults - 1

-----------------------------------------------------------------------------
(* Run and process: a free worker claims a queued task, or a leased one    *)
(* whose lease lapsed.  The lease of a run that ended without releasing    *)
(* its task lapses by itself; one that lapses under a running worker is a  *)
(* fault.                                                                  *)
\* Mutant: only a released task is claimed again.
AbandonedForever(t) == FALSE
Abandoned(t) == task[t].state = "leased" /\ ~\E w \in Workers : Holds(w, t)

StartRun(w, t) ==
  /\ run[w].pc = "idle"
  /\ ClaimTask(t)
  /\ run' = [run EXCEPT ![w] =
               [Idle EXCEPT !.pc = IF task[t].kind = "validate" THEN "challenge" ELSE "issuanceOrder",
                            !.task = t, !.fence = task[t].fence + 1]]
  /\ UNCHANGED now
Claim(w) ==
  \E t \in TaskIDs :
    /\ task[t].state = "queued" \/ Abandoned(t)
    /\ StartRun(w, t)
    /\ UNCHANGED faults
ClaimLapsed(w) ==
  \E t \in TaskIDs :
    /\ task[t].state = "leased" /\ ~Abandoned(t)
    /\ StartRun(w, t)
    /\ Fault

(* storeReschedule and finishTask: a fenced run, or one whose task is gone, *)
(* only logs the failure.                                                   *)
Reschedule(w) ==
  /\ run[w].pc = "reschedule"
  /\ \/ RescheduleTask(run[w].task, run[w].fence)
     \/ ~CheckTask(run[w].task, run[w].fence) /\ UNCHANGED storeVars
  /\ End(w)
  /\ UNCHANGED <<now, faults>>

Finish(w) ==
  /\ run[w].pc = "finish"
  /\ \/ FinishTask(run[w].task, run[w].fence)
     \/ ~CheckTask(run[w].task, run[w].fence) /\ UNCHANGED storeVars
  /\ End(w)
  /\ UNCHANGED <<now, faults>>

(* The process dies, or the run's context ends with its lease: nothing is  *)
(* released.                                                               *)
Crash(w) ==
  /\ run[w].pc # "idle"
  /\ End(w)
  /\ Fault
  /\ UNCHANGED <<now, storeVars>>

(* A Store or issuer call fails for a reason other than a conflict and     *)
(* leaves no trace: dropOnNotFound, completeValidation, storeDispatch,     *)
(* handleIssuanceCommit and runIssuance release the task for a later       *)
(* attempt.  (Resources are never deleted, so their lookups never report   *)
(* ErrNotFound.)                                                           *)
CallFails(w) ==
  /\ run[w].pc \in (ValidationPC \ {"validate", "retry"}) \cup (IssuancePC \ {"policy"})
  /\ Goto(w, "reschedule")
  /\ Fault
  /\ UNCHANGED <<now, storeVars>>

WorkerTypeOK ==
  /\ run \in [Workers -> RunRec]
  /\ faults \in 0..MaxFaults
=============================================================================
