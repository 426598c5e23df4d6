--------------------------- MODULE RequestHandlers ---------------------------
(***************************************************************************)
(* The signed requests that change the resources of an existing order:     *)
(* challenge responses (acceptChallenge), finalization (serveFinalize),    *)
(* authorization deactivation (deactivateAuthorization) and account        *)
(* updates (serveAccount).  A handler takes one step per Store method.  A  *)
(* refusal, a repeated request and a read only write an answer: the        *)
(* handler ends with the store as it was.                                  *)
(***************************************************************************)
EXTENDS AcmeStore

CONSTANTS
  Handlers,               \* concurrent requests
  Kinds,                  \* the requests clients make
  MaxPendingValidations,  \* Config.MaxPendingValidations
  MaxAccountRev           \* bound on contact updates, which never end by themselves

ASSUME HandlerAssumption ==
  /\ Kinds \subseteq {"challenge", "finalize", "deactivate", "account"}
  /\ IsFiniteSet(Handlers)
  /\ MaxPendingValidations \in Nat \ {0} /\ MaxAccountRev \in Nat

VARIABLES
  hand,  \* the local state of each request
  acked  \* <<order, CSR>> pairs whose finalization was answered with success

HandlerPC ==
  {"idle", "signed", "respAuthz", "respCount", "respStore", "finDerive", "finStore", "finReload",
   "deactivate"}
Free ==
  [pc |-> "idle", id |-> None, copy |-> None, csr |-> None,
   todo |-> {}, status |-> None, at |-> 0]
HandRec ==
  [pc : HandlerPC, id : Orders \cup Authzs \cup Challenges \cup {None},
   copy : OrderRec \cup AuthzRec \cup ChallengeRec \cup AccountRec \cup {None},
   csr : CSRs \cup {None}, todo : SUBSET Authzs, status : OrderStatus \cup {None}, at : Nat]

HandlerInit == hand = [h \in Handlers |-> Free] /\ acked = {}

Move(h, r) == hand' = [hand EXCEPT ![h] = r]
Reply(h) == Move(h, Free)
Reading == UNCHANGED <<now, storeVars>>

(* readSignedRequest and lookupAccount: the signing account must be valid  *)
(* now; whatever the request then does, it is not looked at again.         *)
Authenticate(h) ==
  /\ hand[h].pc = "idle" /\ account.status = "valid"
  /\ Move(h, [Free EXCEPT !.pc = "signed", !.copy = account])
  /\ UNCHANGED acked /\ Reading

Begin(h, kind) == hand[h].pc = "signed" /\ kind \in Kinds

(* Reads, and requests refused before they change anything. *)
Answer(h) ==
  /\ hand[h].pc = "signed"
  /\ Reply(h)
  /\ UNCHANGED acked /\ Reading

-----------------------------------------------------------------------------
(* acceptChallenge: the challenge, its authorization, the account's        *)
(* unfinished validations, then the commit.                                *)
Respond(h, c) ==
  /\ Begin(h, "challenge")
  /\ ch[c].status = "pending"
  /\ Move(h, [Free EXCEPT !.pc = "respAuthz", !.id = c, !.copy = ch[c]])
  /\ UNCHANGED acked /\ Reading

RespondAuthorization(h) ==
  LET r == hand[h] IN
  /\ r.pc = "respAuthz"
  /\ IF EffectiveAuthzStatus(authz[AuthzOf[r.id]], now) = "pending"
     THEN Move(h, [r EXCEPT !.pc = "respCount"])
     ELSE Reply(h)
  /\ UNCHANGED acked /\ Reading

\* Mutant: off by one.
RespondCountOneMore(h) ==
  LET r == hand[h] IN
  /\ r.pc = "respCount"
  /\ \/ /\ Cardinality(LiveTasks("validate")) <= MaxPendingValidations
        /\ Move(h, [r EXCEPT !.pc = "respStore", !.copy.status = "processing"])
     \/ Reply(h)
  /\ UNCHANGED acked /\ Reading
(* The Limiter may refuse as well. *)
RespondCount(h) ==
  LET r == hand[h] IN
  /\ r.pc = "respCount"
  /\ \/ /\ Cardinality(LiveTasks("validate")) < MaxPendingValidations
        /\ Move(h, [r EXCEPT !.pc = "respStore", !.copy.status = "processing"])
     \/ Reply(h)
  /\ UNCHANGED acked /\ Reading

(* On a mismatch the challenge is read again only to answer with it. *)
RespondStore(h) ==
  LET r == hand[h] IN
  /\ r.pc = "respStore"
  /\ \/ AcceptChallenge(r.id, r.copy)
     \/ ~CheckChallenge(r.id, r.copy) /\ UNCHANGED storeVars
  /\ Reply(h)
  /\ UNCHANGED <<now, acked>>

-----------------------------------------------------------------------------
(* serveFinalize.  readOwnedOrder derives the status of a pending or ready *)
(* order from its authorizations; a processing or valid one is only        *)
(* compared with the CSR.                                                  *)
Acknowledge(h, o, csr) == acked' = acked \cup {<<o, csr>>} /\ Reply(h)

Finalize(h, o, csr) ==
  /\ Begin(h, "finalize")
  /\ \/ /\ order[o].status \in {"pending", "ready"} /\ now < OrderLifetime
        /\ Move(h, [Free EXCEPT !.pc = "finDerive", !.id = o, !.copy = order[o], !.csr = csr,
                                !.todo = AuthzsOf(o), !.status = "ready", !.at = now])
        /\ UNCHANGED acked
     \/ /\ order[o].status \in {"processing", "valid"} /\ order[o].csr = csr
        /\ Acknowledge(h, o, csr)
  /\ Reading

(* The last authorization read: effectiveOrderStatus, then the CSR checks, *)
(* which may refuse.                                                       *)
FinalizeDerive(h) ==
  LET r == hand[h] IN
  /\ r.pc = "finDerive"
  /\ \E a \in r.todo :
       LET status == Derive(r.status, EffectiveAuthzStatus(authz[a], r.at))
       IN  \/ /\ status # "invalid" /\ r.todo # {a}
              /\ Move(h, [r EXCEPT !.todo = @ \ {a}, !.status = status])
           \/ /\ status = "ready" /\ r.todo = {a} /\ now < OrderLifetime
              /\ Move(h, [r EXCEPT !.pc = "finStore", !.todo = {}, !.status = None, !.at = 0,
                                   !.copy.status = "processing", !.copy.csr = r.csr])
           \/ (status = "invalid" \/ r.todo = {a}) /\ Reply(h)
  /\ UNCHANGED acked /\ Reading

FinalizeStore(h) ==
  LET r == hand[h] IN
  /\ r.pc = "finStore"
  /\ \/ FinalizeOrder(r.id, r.copy) /\ Acknowledge(h, r.id, r.csr)
     \/ /\ ~CheckOrder(r.id, r.copy)
        /\ Move(h, [r EXCEPT !.pc = "finReload", !.copy = None])
        /\ UNCHANGED <<storeVars, acked>>
  /\ UNCHANGED now

\* Mutant: any accepted CSR is taken for this one.
FinalizeReloadAny(h) ==
  LET r == hand[h] IN
  /\ r.pc = "finReload"
  /\ IF order[r.id].csr # None THEN Acknowledge(h, r.id, r.csr) ELSE Reply(h) /\ UNCHANGED acked
  /\ Reading
FinalizeReload(h) ==
  LET r == hand[h] IN
  /\ r.pc = "finReload"
  /\ IF order[r.id].csr = r.csr THEN Acknowledge(h, r.id, r.csr) ELSE Reply(h) /\ UNCHANGED acked
  /\ Reading

-----------------------------------------------------------------------------
(* deactivateAuthorization: pending and valid may move to deactivated. *)
Deactivate(h, a) ==
  /\ Begin(h, "deactivate")
  /\ <<EffectiveAuthzStatus(authz[a], now), "deactivated">> \in AuthzMoves
  /\ Move(h, [Free EXCEPT !.pc = "deactivate", !.id = a,
                          !.copy = [authz[a] EXCEPT !.status = "deactivated"]])
  /\ UNCHANGED acked /\ Reading

DeactivateStore(h) ==
  LET r == hand[h] IN
  /\ r.pc = "deactivate"
  /\ \/ UpdateAuthorization(r.id, r.copy)
     \/ ~CheckAuthorization(r.id, r.copy) /\ UNCHANGED storeVars
  /\ Reply(h)
  /\ UNCHANGED <<now, acked>>

(* serveAccount: a contact change, or deactivation, of the account that    *)
(* was looked up to verify the signature.                                  *)
ChangeAccount(h, status) ==
  LET copy == [hand[h].copy EXCEPT !.status = status] IN
  /\ Begin(h, "account")
  /\ copy.rev < MaxAccountRev
  /\ \/ UpdateAccount(copy)
     \/ account.rev # copy.rev /\ UNCHANGED storeVars
  /\ Reply(h)
  /\ UNCHANGED <<now, acked>>

HandlerStep(h) ==
  \/ Authenticate(h) \/ Answer(h)
  \/ \E c \in Challenges : Respond(h, c)
  \/ RespondAuthorization(h) \/ RespondCount(h) \/ RespondStore(h)
  \/ \E o \in Orders, csr \in CSRs : Finalize(h, o, csr)
  \/ FinalizeDerive(h) \/ FinalizeStore(h) \/ FinalizeReload(h)
  \/ \E a \in Authzs : Deactivate(h, a)
  \/ DeactivateStore(h)
  \/ \E status \in {"valid", "deactivated"} : ChangeAccount(h, status)

HandlerTypeOK ==
  /\ hand \in [Handlers -> HandRec]
  /\ acked \subseteq Orders \X CSRs
=============================================================================
