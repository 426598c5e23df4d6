-------------------------- MODULE ValidationWorker --------------------------
(***************************************************************************)
(* The validation run of worker.go (runValidation, validationTargets,      *)
(* completeValidation, deriveOrderStatus, retryValidation), one action per *)
(* Store or validator call.                                                *)
(***************************************************************************)
EXTENDS Worker

CONSTANT GrantTimes  \* the ValidationGrant.Expires a validator may return, None for zero

ASSUME GrantAssumption == GrantTimes \subseteq Nat \cup {None} /\ GrantTimes # {}

(* The run of w goes on with its fields changed, the store as it was. *)
Local(w, r) ==
  /\ run' = [run EXCEPT ![w] = r]
  /\ UNCHANGED <<now, storeVars>>

(* validationTargets: the challenge, then the authorization, then the account. *)
ReadChallenge(w) ==
  LET c == Target(w) IN
  /\ run[w].pc = "challenge"
  /\ Local(w, IF ch[c].status = "processing"
              THEN [run[w] EXCEPT !.pc = "authorization", !.ch = ch[c]]
              ELSE [run[w] EXCEPT !.pc = "finish"])
  /\ UNCHANGED faults

ReadAuthorization(w) ==
  /\ run[w].pc = "authorization"
  /\ Local(w, [run[w] EXCEPT !.pc = "account", !.authz = authz[AuthzOf[Target(w)]]])
  /\ UNCHANGED faults

(* The outcomes a run may commit. *)
ChallengeFails(r) == [r EXCEPT !.pc = "order", !.ch.status = "invalid"]
BothFail(r) == [ChallengeFails(r) EXCEPT !.authz.status = "invalid"]

ReadAccount(w) ==
  LET r == run[w] IN
  /\ r.pc = "account"
  /\ Local(w, IF EffectiveAuthzStatus(r.authz, now) # "pending" THEN ChallengeFails(r)
              ELSE IF account.status # "valid" THEN BothFail(r)
              ELSE [r EXCEPT !.pc = "validate"])
  /\ UNCHANGED faults

(* The validator answers; the clock is read again once it has.  An expired *)
(* authorization overrules whatever it said.                               *)
ValidateSucceeds(w) ==
  LET r == run[w] IN
  /\ r.pc = "validate" /\ r.authz.expires > now
  /\ \E g \in GrantTimes :
       Local(w, [r EXCEPT !.pc = "order", !.ch.status = "valid",
                          !.authz = [@ EXCEPT !.status = "valid", !.expires = now + AuthzLifetime,
                                              !.grantExpires = g]])
  /\ UNCHANGED faults

ValidateRefuses(w) ==
  /\ run[w].pc = "validate"
  /\ Local(w, BothFail(run[w]))
  /\ UNCHANGED faults

(* An error that is not a Problem is retried until the attempts run out. *)
ValidateErrs(w) ==
  LET r == run[w] IN
  /\ r.pc = "validate" /\ r.authz.expires > now
  /\ Local(w, IF r.fence < MaxAttempts THEN [r EXCEPT !.pc = "retry"] ELSE BothFail(r))
  /\ Fault

-----------------------------------------------------------------------------
(* completeValidation: load the order, derive its status with this run's   *)
(* authorization standing in for the stored copy, commit; at most 3 times. *)

(* order.Status is only ever moved out of pending. *)
Settle(r, status) ==
  [r EXCEPT !.pc = "complete", !.todo = {}, !.status = None, !.at = 0,
            !.order.status = IF @ = "pending" /\ status # "pending" THEN status ELSE @]

ReadOrder(w) ==
  LET r == run[w]
      a == AuthzOf[Target(w)]
      o == OrderOf[a]
      status == IF OrderLifetime <= now THEN "invalid"
                ELSE Derive("ready", EffectiveAuthzStatus(r.authz, now))
      others == AuthzsOf(o) \ {a}
      next == [r EXCEPT !.order = order[o], !.tries = @ + 1]
  IN  /\ r.pc = "order"
      /\ Local(w, IF status = "invalid" \/ others = {} THEN Settle(next, status)
                  ELSE [next EXCEPT !.pc = "derive", !.todo = others, !.status = status,
                                    !.at = now])
      /\ UNCHANGED faults

DeriveOrderStatus(w) ==
  LET r == run[w] IN
  /\ r.pc = "derive"
  /\ \E a \in r.todo :
       LET status == Derive(r.status, EffectiveAuthzStatus(authz[a], r.at))
       IN  Local(w, IF status = "invalid" \/ r.todo = {a} THEN Settle(r, status)
                    ELSE [r EXCEPT !.todo = @ \ {a}, !.status = status])
  /\ UNCHANGED faults

CommitValidation(w) ==
  LET r == run[w]
      c == Target(w)
  IN  /\ r.pc = "complete"
      /\ CompleteValidation(r.task, r.fence, c, r.ch, r.authz, r.order)
      /\ End(w)
      /\ UNCHANGED <<now, faults>>

\* Mutant: a conflict is taken for somebody else's success.
CommitValidationGivesUp(w) ==
  LET r == run[w] IN
  /\ r.pc = "complete"
  /\ ~ValidationCurrent(r.task, r.fence, Target(w), r.ch, r.authz, r.order)
  /\ Local(w, [r EXCEPT !.pc = "finish", !.order = None])
  /\ UNCHANGED faults
(* ErrNotFound for a task that is gone releases it (which then fails), any *)
(* mismatch reloads.                                                       *)
CommitValidationFails(w) ==
  LET r == run[w]
      c == Target(w)
  IN  /\ r.pc = "complete"
      /\ ~ValidationCurrent(r.task, r.fence, c, r.ch, r.authz, r.order)
      /\ Local(w, [r EXCEPT !.pc = IF Live(r.task) THEN "reload" ELSE "reschedule",
                            !.order = None])
      /\ UNCHANGED faults

\* Mutants: retried without end; the proof stands although the authorization
\* left pending; the current revision is adopted whatever the status.
ReloadWithoutEnd(w) ==
  LET r == run[w]
      current == authz[AuthzOf[Target(w)]]
  IN  /\ r.pc = "reload"
      /\ Local(w, IF EffectiveAuthzStatus(current, now) # "pending"
                  THEN [r EXCEPT !.pc = "order", !.ch.status = "invalid", !.authz = current]
                  ELSE [r EXCEPT !.pc = "order", !.authz.rev = current.rev])
      /\ UNCHANGED faults
ReloadKeepsProof(w) ==
  LET r == run[w]
      pc == IF r.tries = 3 THEN "reschedule" ELSE "order"
  IN  /\ r.pc = "reload"
      /\ Local(w, [r EXCEPT !.pc = pc, !.authz = authz[AuthzOf[Target(w)]]])
      /\ UNCHANGED faults
ReloadOverwrites(w) ==
  LET r == run[w]
      pc == IF r.tries = 3 THEN "reschedule" ELSE "order"
  IN  /\ r.pc = "reload"
      /\ Local(w, [r EXCEPT !.pc = pc, !.authz.rev = authz[AuthzOf[Target(w)]].rev])
      /\ UNCHANGED faults
(* An authorization that left pending settles the challenge as invalid and *)
(* keeps the authorization as it is; one still pending is overwritten.     *)
ReloadAuthorization(w) ==
  LET r == run[w]
      current == authz[AuthzOf[Target(w)]]
      pc == IF r.tries = 3 THEN "reschedule" ELSE "order"
  IN  /\ r.pc = "reload"
      /\ Local(w, IF EffectiveAuthzStatus(current, now) # "pending"
                  THEN [r EXCEPT !.pc = pc, !.ch.status = "invalid", !.authz = current]
                  ELSE [r EXCEPT !.pc = pc, !.authz.rev = current.rev])
      /\ UNCHANGED faults

(* retryValidation: a challenge that changed releases the task, a task     *)
(* that is gone ends the run.                                              *)
RetryRun(w) ==
  LET r == run[w]
      c == Target(w)
  IN  /\ r.pc = "retry"
      /\ \/ RetryValidation(r.task, r.fence, c, r.ch) /\ End(w)
         \/ /\ ~CheckTask(r.task, r.fence) \/ ~CheckChallenge(c, r.ch)
            /\ IF Live(r.task) THEN Goto(w, "reschedule") ELSE End(w)
            /\ UNCHANGED storeVars
      /\ UNCHANGED <<now, faults>>

ValidationStep(w) ==
  \/ ReadChallenge(w) \/ ReadAuthorization(w) \/ ReadAccount(w)
  \/ ValidateSucceeds(w) \/ ValidateRefuses(w)
  \/ ReadOrder(w) \/ DeriveOrderStatus(w)
  \/ CommitValidation(w) \/ CommitValidationFails(w) \/ ReloadAuthorization(w)
  \/ RetryRun(w)
=============================================================================
