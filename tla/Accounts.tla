------------------------------ MODULE Accounts ------------------------------
(***************************************************************************)
(* Accounts (account.go, eab.go) over the account tables of memstore:      *)
(* registration, contact changes, deactivation and key change by requests  *)
(* that run concurrently.  One action per Store method; what a request     *)
(* does between two of them is local.  A key stands for its thumbprint and *)
(* for its holder.                                                         *)
(***************************************************************************)
EXTENDS Integers

CONSTANTS
  Requests,          \* request slots, each serving one request at a time
  Keys,              \* account keys
  Kids,              \* external account key identifiers
  Contacts,          \* contact lists
  None,
  SingleUse,         \* Config.SingleUseExternalAccounts
  BindingRequired,   \* Meta.ExternalAccountRequired
  MaxAccounts,       \* bound: account IDs drawn
  MaxRevision        \* bound: revisions of one account

ASSUME AccountsAssumption ==
  /\ SingleUse \in BOOLEAN /\ BindingRequired \in BOOLEAN
  /\ MaxAccounts \in Nat /\ MaxRevision \in Nat
  /\ None \notin Keys \cup Kids \cup Contacts \cup Nat

VARIABLES
  account,   \* Store.accounts, None where there is no record
  byKey,     \* Store.accountByKey
  byClaim,   \* Store.accountByClaim
  req,       \* the requests in progress
  drawn      \* account IDs drawn so far

vars == <<account, byKey, byClaim, req, drawn>>
store == <<account, byKey, byClaim>>

Ids == 1..MaxAccounts
AccountRec == [key : Keys, status : {"valid", "deactivated"}, contact : Contacts,
               ext : Kids \cup {None}, claim : Kids \cup {None}, rev : Nat]

(* An account as AccountRegistry has it. *)
ViewRec == [key : Keys, status : {"valid", "deactivated"}, contact : Contacts,
            claim : Kids \cup {None}]

(* None is no record. *)
ASSUME NoneAssumption == None \notin AccountRec \cup ViewRec

NoRequest == [pc |-> "idle", signer |-> None, id |-> None, copy |-> None, reply |-> "none"]
Replies == {"none", "ok", "refused", "conflict", "error"}

(* The states a request can be in. *)
Idle == [pc : {"idle"}, signer : {None}, id : {None}, copy : {None}, reply : Replies]
Creating == [pc : {"create", "conflict"}, signer : Keys, id : Ids, copy : AccountRec,
             reply : {"none"}]
Updating == [pc : {"update", "owner"}, signer : Keys, id : Ids, copy : AccountRec,
             reply : {"none"}]

(* Every index entry names a stored account, and a request that is about   *)
(* to write holds a complete record.                                       *)
TypeOK ==
  /\ account \in [Ids -> AccountRec \cup {None}]
  /\ byKey \in [Keys -> Ids \cup {None}]
  /\ byClaim \in [Kids -> Ids \cup {None}]
  /\ req \in [Requests -> Idle \cup Creating \cup Updating]
  /\ drawn \in 0..MaxAccounts

Init ==
  /\ account = [i \in Ids |-> None]
  /\ byKey = [k \in Keys |-> None]
  /\ byClaim = [e \in Kids |-> None]
  /\ req = [q \in Requests |-> NoRequest]
  /\ drawn = 0

Answer(q, r) == req' = [req EXCEPT ![q] = [NoRequest EXCEPT !.reply = r]]
Hold(q, pc, k, i, a) == req' = [req EXCEPT ![q] =
  [pc |-> pc, signer |-> k, id |-> i, copy |-> a, reply |-> "none"]]

-----------------------------------------------------------------------------
(* Registration. *)

(* writeExistingAccount, for the owner of the key. *)
Existing(q, k) ==
  \E i \in Ids : /\ byKey[k] = i
                 /\ Answer(q, IF account[i].status = "valid" THEN "ok" ELSE "refused")

(* The account buildAccount returns for a request with a verified binding  *)
(* e, or without one.                                                      *)
NewRecord(k, c, e) ==
  [key |-> k, status |-> "valid", contact |-> c, ext |-> e,
   claim |-> IF SingleUse THEN e ELSE None, rev |-> 1]

(* serveNewAccount to the first lookup, and buildAccount, which looks at   *)
(* nothing stored.  Contacts, terms of service, binding, limiter and       *)
(* policy may refuse.                                                      *)
NewAccount(q, k, c, e, onlyReturnExisting) ==
  /\ req[q].pc = "idle"
  /\ \/ Existing(q, k) /\ UNCHANGED drawn
     \/ byKey[k] = None /\ Answer(q, "refused") /\ UNCHANGED drawn
     \/ /\ byKey[k] = None /\ ~onlyReturnExisting /\ drawn < MaxAccounts
        /\ BindingRequired => e # None
        /\ drawn' = drawn + 1
        /\ Hold(q, "create", k, drawn', NewRecord(k, c, e))
  /\ UNCHANGED store

CreateConflicts(i, a) ==
  \/ account[i] # None
  \/ byKey[a.key] # None
  \/ \E e \in Kids : e = a.claim /\ byClaim[e] # None

(* Store.CreateAccount. *)
\* Mutant: the claim is not looked up.
StoreCreateUnclaimed(i, a) ==
  /\ account[i] = None /\ byKey[a.key] = None
  /\ account' = [account EXCEPT ![i] = a]
  /\ byKey' = [byKey EXCEPT ![a.key] = i]
  /\ byClaim' = [e \in Kids |-> IF e = a.claim THEN i ELSE byClaim[e]]
StoreCreate(i, a) ==
  /\ ~CreateConflicts(i, a)
  /\ account' = [account EXCEPT ![i] = a]
  /\ byKey' = [byKey EXCEPT ![a.key] = i]
  /\ byClaim' = [e \in Kids |-> IF e = a.claim THEN i ELSE byClaim[e]]

(* The answer of a commit may be lost. *)
CreateAccount(q) ==
  LET r == req[q] IN
  /\ r.pc = "create"
  /\ \/ StoreCreate(r.id, r.copy) /\ \E reply \in {"ok", "error"} : Answer(q, reply)
     \/ /\ CreateConflicts(r.id, r.copy)
        /\ Hold(q, "conflict", r.signer, r.id, r.copy)
        /\ UNCHANGED store
  /\ UNCHANGED drawn

(* The second AccountByKey of serveNewAccount: the key found its owner     *)
(* meanwhile, or the binding belongs to another account.                   *)
CreateConflict(q) ==
  LET r == req[q] IN
  /\ r.pc = "conflict"
  /\ \/ Existing(q, r.signer)
     \/ byKey[r.signer] = None /\ Answer(q, IF r.copy.claim # None THEN "refused" ELSE "error")
  /\ UNCHANGED <<store, drawn>>

-----------------------------------------------------------------------------
(* Requests signed by an account. *)

(* readSignedRequest: lookupAccount, then the signature against the key of *)
(* the account just read.                                                  *)
Authentic(i, k) == account[i] # None /\ account[i].status = "valid" /\ account[i].key = k

(* serveAccount to its write.  Without a payload it only shows the         *)
(* account; a payload may be refused.                                      *)
ServeAccount(q, i, k, c, s) ==
  /\ req[q].pc = "idle"
  /\ \/ ~Authentic(i, k) /\ Answer(q, "refused")
     \/ Authentic(i, k) /\ \E reply \in {"ok", "refused"} : Answer(q, reply)
     \/ /\ Authentic(i, k) /\ account[i].rev < MaxRevision
        /\ Hold(q, "update", k, i, [account[i] EXCEPT !.contact = c, !.status = s])
  /\ UNCHANGED <<store, drawn>>

(* serveKeyChange to its write.  The inner message is signed by the new    *)
(* key and names the account and its old key.                              *)
KeyChange(q, i, k, old, new) ==
  LET proper == Authentic(i, k) /\ old = account[i].key /\ new # old IN
  /\ req[q].pc = "idle"
  /\ \/ ~proper /\ Answer(q, "refused")
     \/ /\ proper /\ account[i].rev < MaxRevision
        /\ Hold(q, "update", k, i, [account[i] EXCEPT !.key = new])
  /\ UNCHANGED <<store, drawn>>

Current(i, a) == account[i] # None /\ account[i].rev = a.rev
UpdateConflicts(i, a) ==
  \/ a.key # account[i].key /\ byKey[a.key] \notin {None, i}
  \/ /\ a.claim # account[i].claim
     /\ \E e \in Kids : e = a.claim /\ byClaim[e] \notin {None, i}

(* Store.UpdateAccount: the record, then the two indexes. *)
\* Mutant: the old key stays in the index.
StoreUpdateKeepsKey(i, a) ==
  /\ Current(i, a) /\ ~UpdateConflicts(i, a)
  /\ byKey' = [byKey EXCEPT ![a.key] = i]
  /\ byClaim' = [e \in Kids |-> IF e = a.claim THEN i
                                ELSE IF e = account[i].claim THEN None ELSE byClaim[e]]
  /\ account' = [account EXCEPT ![i] = [a EXCEPT !.rev = @ + 1]]
\* Mutant: the revision is not compared.
StoreUpdateBlindly(i, a) ==
  /\ ~UpdateConflicts(i, a)
  /\ byKey' = [byKey EXCEPT ![account[i].key] = None, ![a.key] = i]
  /\ byClaim' = [e \in Kids |-> IF e = a.claim THEN i
                                ELSE IF e = account[i].claim THEN None ELSE byClaim[e]]
  /\ account' = [account EXCEPT ![i] = [a EXCEPT !.rev = @ + 1]]
StoreUpdate(i, a) ==
  /\ Current(i, a) /\ ~UpdateConflicts(i, a)
  /\ byKey' = [byKey EXCEPT ![account[i].key] = None, ![a.key] = i]
  /\ byClaim' = [e \in Kids |-> IF e = a.claim THEN i
                                ELSE IF e = account[i].claim THEN None ELSE byClaim[e]]
  /\ account' = [account EXCEPT ![i] = [a EXCEPT !.rev = @ + 1]]

(* updateAccount.  A change of the key that conflicts, for whichever       *)
(* reason, looks for the owner of the new key.                             *)
UpdateAccount(q) ==
  LET r == req[q] IN
  /\ r.pc = "update"
  /\ \/ StoreUpdate(r.id, r.copy) /\ \E reply \in {"ok", "error"} : Answer(q, reply)
     \/ /\ ~Current(r.id, r.copy) \/ UpdateConflicts(r.id, r.copy)
        /\ IF r.copy.key # r.signer THEN Hold(q, "owner", r.signer, r.id, r.copy)
                                    ELSE Answer(q, "conflict")
        /\ UNCHANGED store
  /\ UNCHANGED drawn

(* The AccountByKey of serveKeyChange, which only adds a Location. *)
FindOwner(q) ==
  /\ req[q].pc = "owner"
  /\ Answer(q, "conflict")
  /\ UNCHANGED <<store, drawn>>

(* Any Store call may fail before it changes anything. *)
StoreFails(q) ==
  /\ req[q].pc # "idle"
  /\ Answer(q, IF req[q].pc = "owner" THEN "conflict" ELSE "error")
  /\ UNCHANGED <<store, drawn>>

Next == \E q \in Requests :
  \/ \E k \in Keys, c \in Contacts, e \in Kids \cup {None}, only \in BOOLEAN :
       NewAccount(q, k, c, e, only)
  \/ \E i \in Ids, k \in Keys, c \in Contacts, s \in {"valid", "deactivated"} :
       ServeAccount(q, i, k, c, s)
  \/ \E i \in Ids, k, old, new \in Keys : KeyChange(q, i, k, old, new)
  \/ CreateAccount(q) \/ CreateConflict(q) \/ UpdateAccount(q) \/ FindOwner(q) \/ StoreFails(q)

Spec == Init /\ [][Next]_vars

-----------------------------------------------------------------------------
(* The indexes of memstore say exactly what the accounts say, so a key and *)
(* a single-use binding each belong to at most one account, whatever       *)
(* registrations and key changes race.                                     *)
IndexesAgree ==
  /\ \A k \in Keys, i \in Ids : byKey[k] = i <=> account[i] # None /\ account[i].key = k
  /\ \A e \in Kids, i \in Ids : byClaim[e] = i <=> account[i] # None /\ account[i].claim = e

(* What the copy of a request r may be, beside the account it is of. *)
CopyAgrees(r) ==
  /\ r.pc = "create" => r.copy.status = "valid"
  /\ r.pc = "update" =>
       LET a == account[r.id] IN
       /\ a # None /\ r.copy.rev <= a.rev
       /\ r.copy.rev = a.rev =>
            /\ a.status = "valid" /\ a.key = r.signer
            /\ r.copy.ext = a.ext /\ r.copy.claim = a.claim
            /\ r.copy.key # a.key => r.copy.contact = a.contact /\ r.copy.status = a.status
(* A copy that would still pass the revision check of UpdateAccount may be *)
(* written: its account is valid, has the key that signed the request, and *)
(* differs from it by what was asked for alone.  Copies of earlier         *)
(* revisions stay behind for good (serveAccount, serveKeyChange).          *)
CopiesAgree == \A q \in Requests : CopyAgrees(req[q])

(* The accounts, their indexes and the copies on their way to the store    *)
(* agree: none of the three does so by itself through all steps            *)
(* (CreateAccount, UpdateAccount).                                         *)
AccountsInv == TypeOK /\ IndexesAgree /\ CopiesAgree

(* An account is changed only by a request signed with the key that the    *)
(* account has at the moment of the write, and the request changes only    *)
(* what it asked for: a key change no contact, an update no key.  Both     *)
(* rest on copies read earlier (serveAccount, serveKeyChange).             *)
ChangeIsAuthorized == [][
  \A i \in Ids : account[i] # None /\ account'[i] # account[i] =>
    \E q \in Requests :
      /\ req[q].pc = "update" /\ req[q].id = i /\ req[q].signer = account[i].key
      /\ account'[i].key # account[i].key =>
           account'[i].contact = account[i].contact /\ account'[i].status = account[i].status
      /\ account'[i].ext = account[i].ext ]_vars

(* A deactivated account never changes again, not by a request either that *)
(* was authenticated before the deactivation (lookupAccount).              *)
DeactivatedIsFinal == [][
  \A i \in Ids : account[i] # None /\ account[i].status = "deactivated" =>
    account'[i] = account[i] ]_vars

(* The accounts without their revisions are an AccountRegistry. *)
View == [i \in Ids |-> IF account[i] = None THEN None
  ELSE [key |-> account[i].key, status |-> account[i].status,
        contact |-> account[i].contact, claim |-> account[i].claim]]
R == INSTANCE AccountRegistry WITH reg <- View
(* Every step of the requests is one atomic registration, amendment or key *)
(* change of AccountRegistry, or changes no account (account.go as a       *)
(* whole over AccountStore).                                               *)
ImplementsRegistry == R!Registry
=============================================================================
