------------------------------ MODULE AcmeStore ------------------------------
(***************************************************************************)
(* The persisted resources of the ACME server and the Store methods the    *)
(* order lifecycle uses, translated from memstore/memstore.go.  A Store    *)
(* method is one atomic step (memstore holds its mutex throughout, a SQL   *)
(* store runs a transaction).  Every resource carries a Revision, every    *)
(* task a Fence, and a method that writes checks them: the operators       *)
(* below give, for each method, the condition under which it succeeds and  *)
(* what it then writes.                                                    *)
(*                                                                         *)
(* Data that no property tells apart is left out: URLs, identifiers,       *)
(* tokens, problem texts.  The Attempts of a task always equal its Fence   *)
(* (ClaimTask is the only method that changes either, insertTask zeroes    *)
(* both), so one counter stands for both.  RunAt and LeaseUntil are        *)
(* abstracted: a task is queued or leased, and a lease may lapse at any    *)
(* moment, because the claiming and the holding worker may run on          *)
(* machines whose clocks differ.                                           *)
(***************************************************************************)
EXTENDS Integers, FiniteSets

CONSTANTS
  Orders, Authzs, Challenges,   \* identifiers of the resources of one account
  OrderOf, AuthzOf,             \* Authorization.OrderID, Challenge.AuthorizationID
  PreApproved,                  \* authorizations granted by the PreApprover
  TaskIDs,                      \* the identifiers newID can return for tasks
  CSRs, Leaves,                 \* certificate requests, leaf certificates
  OrderLifetime, AuthzLifetime, \* Config.OrderLifetime, Config.AuthorizationLifetime
  MaxTime,                      \* bound: the clock stops here
  None                          \* the absent value (nil, zero time, empty string)

VARIABLES
  now,      \* what Clock.Now returns
  account,  \* the account that owns the resources: status and revision
  order, authz, ch,             \* stored resources by identifier
  task,     \* stored tasks by identifier
  cert      \* stored certificates: leaf -> order that published it, or None

storeVars == <<account, order, authz, ch, task, cert>>

ASSUME StoreAssumption ==
  /\ OrderOf \in [Authzs -> Orders]
  /\ AuthzOf \in [Challenges -> Authzs]
  /\ PreApproved \subseteq Authzs
  /\ \A o \in Orders : \E a \in Authzs : OrderOf[a] = o
  /\ \A a \in Authzs : a \in PreApproved <=> ~\E c \in Challenges : AuthzOf[c] = a
  /\ OrderLifetime \in Nat \ {0} /\ AuthzLifetime \in Nat \ {0} /\ MaxTime \in Nat
  /\ None \notin TaskIDs \cup CSRs \cup Leaves \cup Nat \cup Orders \cup Challenges

AuthzsOf(o) == {a \in Authzs : OrderOf[a] = o}
ChallengesOf(a) == {c \in Challenges : AuthzOf[c] = a}

-----------------------------------------------------------------------------
(* Status machines of status.go. *)

OrderStatus == {"pending", "ready", "processing", "valid", "invalid"}
AuthzStatus == {"pending", "valid", "invalid", "deactivated", "expired", "revoked"}
ChallengeStatus == {"pending", "processing", "valid", "invalid"}

TerminalAuthz == {"invalid", "deactivated", "expired", "revoked"}

OrderMoves ==
  {<<"pending", "ready">>, <<"pending", "invalid">>, <<"ready", "processing">>,
   <<"ready", "invalid">>, <<"processing", "valid">>, <<"processing", "invalid">>}
AuthzMoves ==
  {<<"pending", "valid">>, <<"pending", "invalid">>, <<"pending", "deactivated">>,
   <<"pending", "expired">>, <<"valid", "deactivated">>, <<"valid", "expired">>,
   <<"valid", "revoked">>}
ChallengeMoves ==
  {<<"pending", "processing">>, <<"pending", "valid">>, <<"pending", "invalid">>,
   <<"processing", "valid">>, <<"processing", "invalid">>}

-----------------------------------------------------------------------------
(* Records.  op and deadline stand for Order.Issuance: op = None is nil. *)

AccountRec == [status : {"valid", "deactivated"}, rev : Nat]
OrderRec ==
  [status : OrderStatus, rev : Nat, csr : CSRs \cup {None}, op : TaskIDs \cup {None},
   deadline : Nat, cert : Leaves \cup {None}, unpublished : BOOLEAN]
AuthzRec ==
  [status : AuthzStatus, rev : Nat, expires : Nat, grantExpires : Nat \cup {None}]
ChallengeRec == [status : ChallengeStatus, rev : Nat]
TaskRec ==
  [state : {"unused", "queued", "leased", "gone"}, kind : {"validate", "issue"},
   target : Challenges \cup Orders \cup {None}, fence : Nat]

(* effectiveAuthzStatus: what a reader sees at time t. *)
EffectiveAuthzStatus(a, t) ==
  IF a.status \in {"pending", "valid"} /\ a.expires <= t THEN "expired" ELSE a.status

(* One step of deriveOrderStatus: the status implied so far, and one more   *)
(* authorization status.                                                    *)
Derive(sofar, s) ==
  IF sofar = "invalid" \/ s \in TerminalAuthz THEN "invalid"
  ELSE IF s = "valid" THEN sofar ELSE "pending"

-----------------------------------------------------------------------------
(* buildAuthorizations and CreateOrder: the resources as they are created. *)

NewAuthz(a) ==
  [status |-> IF a \in PreApproved THEN "valid" ELSE "pending", rev |-> 1,
   expires |-> OrderLifetime, grantExpires |-> None]
NewOrder(o) ==
  [status |-> IF AuthzsOf(o) \subseteq PreApproved THEN "ready" ELSE "pending", rev |-> 1,
   csr |-> None, op |-> None, deadline |-> 0, cert |-> None, unpublished |-> FALSE]

StoreInit ==
  /\ now = 0
  /\ account = [status |-> "valid", rev |-> 1]
  /\ order = [o \in Orders |-> NewOrder(o)]
  /\ authz = [a \in Authzs |-> NewAuthz(a)]
  /\ ch = [c \in Challenges |-> [status |-> "pending", rev |-> 1]]
  /\ task = [t \in TaskIDs |->
               [state |-> "unused", kind |-> "validate", target |-> None, fence |-> 0]]
  /\ cert = [l \in Leaves |-> None]

-----------------------------------------------------------------------------
(* checkTask, checkOrder, checkAuthorization, checkChallenge. *)

Live(t) == task[t].state \in {"queued", "leased"}
\* Mutant: the fence is not compared.
CheckTaskUnfenced(t, fence) == Live(t)
CheckTask(t, fence) == Live(t) /\ task[t].fence = fence
CheckOrder(o, copy) == order[o].rev = copy.rev
CheckAuthorization(a, copy) == authz[a].rev = copy.rev
CheckChallenge(c, copy) == ch[c].rev = copy.rev

(* The method wrote the caller's copy and advanced its revision. *)
Stored(copy) == [copy EXCEPT !.rev = @ + 1]

FreshTask(t) == task[t].state = "unused"
NextTaskID == CHOOSE t \in TaskIDs : FreshTask(t)
InsertTask(kind, target) ==
  /\ \E t \in TaskIDs : FreshTask(t)
  /\ task' = [task EXCEPT ![NextTaskID] =
                [state |-> "queued", kind |-> kind, target |-> target, fence |-> 0]]
RemoveTask(t) == task' = [task EXCEPT ![t].state = "gone"]
ReleaseTask(t) == task' = [task EXCEPT ![t].state = "queued"]

LiveTasks(kind) == {t \in TaskIDs : Live(t) /\ task[t].kind = kind}

-----------------------------------------------------------------------------
(* Methods that serve requests. *)

AcceptChallenge(c, copy) ==
  /\ CheckChallenge(c, copy)
  /\ ch' = [ch EXCEPT ![c] = Stored(copy)]
  /\ InsertTask("validate", c)
  /\ UNCHANGED <<account, order, authz, cert>>

FinalizeOrder(o, copy) ==
  /\ CheckOrder(o, copy)
  /\ order' = [order EXCEPT ![o] = Stored(copy)]
  /\ InsertTask("issue", o)
  /\ UNCHANGED <<account, authz, ch, cert>>

\* Mutant: a finalized order is left alone.
UndispatchedUntilFinalized(o) == order[o].status \in {"pending", "ready"}
Undispatched(o) ==
  \/ order[o].status \in {"pending", "ready"}
  \/ order[o].status = "processing" /\ order[o].op = None
(* A terminal authorization also ends an order that has not dispatched. *)
\* Mutant: the order changes under its old revision.
UpdateAuthorizationSilently(a, copy) ==
  LET o == OrderOf[a] IN
  /\ CheckAuthorization(a, copy)
  /\ authz' = [authz EXCEPT ![a] = Stored(copy)]
  /\ order' = IF copy.status \in TerminalAuthz /\ Undispatched(o)
              THEN [order EXCEPT ![o].status = "invalid"]
              ELSE order
  /\ UNCHANGED <<account, ch, task, cert>>
UpdateAuthorization(a, copy) ==
  LET o == OrderOf[a] IN
  /\ CheckAuthorization(a, copy)
  /\ authz' = [authz EXCEPT ![a] = Stored(copy)]
  /\ order' = IF copy.status \in TerminalAuthz /\ Undispatched(o)
              THEN [order EXCEPT ![o].status = "invalid", ![o].rev = @ + 1]
              ELSE order
  /\ UNCHANGED <<account, ch, task, cert>>

UpdateAccount(copy) ==
  /\ account.rev = copy.rev
  /\ account' = Stored(copy)
  /\ UNCHANGED <<order, authz, ch, task, cert>>

-----------------------------------------------------------------------------
(* Methods that workers call. *)

ClaimTask(t) ==
  /\ Live(t)
  /\ task' = [task EXCEPT ![t].state = "leased", ![t].fence = @ + 1]
  /\ UNCHANGED <<account, order, authz, ch, cert>>

RescheduleTask(t, fence) ==
  /\ CheckTask(t, fence)
  /\ ReleaseTask(t)
  /\ UNCHANGED <<account, order, authz, ch, cert>>

FinishTask(t, fence) ==
  /\ CheckTask(t, fence)
  /\ RemoveTask(t)
  /\ UNCHANGED <<account, order, authz, ch, cert>>

RetryValidation(t, fence, c, copy) ==
  /\ CheckTask(t, fence)
  /\ CheckChallenge(c, copy)
  /\ ch' = [ch EXCEPT ![c] = Stored(copy)]
  /\ ReleaseTask(t)
  /\ UNCHANGED <<account, order, authz, cert>>

\* Mutant: the order is not compared.
ValidationCurrentSkewed(t, fence, c, chCopy, azCopy, ordCopy) ==
  /\ CheckTask(t, fence)
  /\ CheckChallenge(c, chCopy)
  /\ CheckAuthorization(AuthzOf[c], azCopy)
(* The order's revision advances with every validation, so two validations *)
(* of one order cannot both commit from the same snapshot of it.           *)
ValidationCurrent(t, fence, c, chCopy, azCopy, ordCopy) ==
  /\ CheckTask(t, fence)
  /\ CheckChallenge(c, chCopy)
  /\ CheckAuthorization(AuthzOf[c], azCopy)
  /\ CheckOrder(OrderOf[AuthzOf[c]], ordCopy)
CompleteValidation(t, fence, c, chCopy, azCopy, ordCopy) ==
  /\ ValidationCurrent(t, fence, c, chCopy, azCopy, ordCopy)
  /\ ch' = [ch EXCEPT ![c] = Stored(chCopy)]
  /\ authz' = [authz EXCEPT ![AuthzOf[c]] = Stored(azCopy)]
  /\ order' = [order EXCEPT ![OrderOf[AuthzOf[c]]] = Stored(ordCopy)]
  /\ RemoveTask(t)
  /\ UNCHANGED <<account, cert>>

\* Mutant: the account is not compared.
DispatchCurrentAnyAccount(t, fence, o, copy, acctRev, snap, authorizedAt) ==
  /\ CheckTask(t, fence)
  /\ CheckOrder(o, copy)
  /\ copy.op # None /\ order[o].status = "processing" /\ order[o].op = None
  /\ \A a \in AuthzsOf(o) :
        /\ CheckAuthorization(a, snap[a])
        /\ snap[a].status = "valid" /\ snap[a].expires > authorizedAt
(* The dispatch decision is stored only while everything it was taken from *)
(* is unchanged: the account, the order and each authorization.            *)
DispatchCurrent(t, fence, o, copy, acctRev, snap, authorizedAt) ==
  /\ CheckTask(t, fence)
  /\ CheckOrder(o, copy)
  /\ account.rev = acctRev /\ account.status = "valid"
  /\ copy.op # None /\ order[o].status = "processing" /\ order[o].op = None
  /\ \A a \in AuthzsOf(o) :
        /\ CheckAuthorization(a, snap[a])
        /\ snap[a].status = "valid" /\ snap[a].expires > authorizedAt
BeginIssuance(t, fence, o, copy, acctRev, snap, authorizedAt) ==
  /\ DispatchCurrent(t, fence, o, copy, acctRev, snap, authorizedAt)
  /\ order' = [order EXCEPT ![o] = Stored(copy)]
  /\ UNCHANGED <<account, authz, ch, task, cert>>

(* leaf = None records a failure.  A leaf that is already stored is        *)
(* ErrConflict.                                                            *)
CompleteIssuance(t, fence, o, copy, leaf) ==
  /\ CheckTask(t, fence)
  /\ CheckOrder(o, copy)
  /\ leaf # None => cert[leaf] = None
  /\ cert' = IF leaf = None THEN cert ELSE [cert EXCEPT ![leaf] = o]
  /\ order' = [order EXCEPT ![o] = Stored(copy)]
  /\ RemoveTask(t)
  /\ UNCHANGED <<account, authz, ch>>

(* StoreTypeOK: the records above, in the tables the methods keep. *)
StoreTypeOK ==
  /\ now \in 0..MaxTime
  /\ account \in AccountRec
  /\ order \in [Orders -> OrderRec]
  /\ authz \in [Authzs -> AuthzRec]
  /\ ch \in [Challenges -> ChallengeRec]
  /\ task \in [TaskIDs -> TaskRec]
  /\ cert \in [Leaves -> Orders \cup {None}]
=============================================================================
