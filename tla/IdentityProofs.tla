---------------------------- MODULE IdentityProofs ----------------------------
(***************************************************************************)
(* Who holds an account and what a validation rests on: the proofs about   *)
(* Accounts, for any keys, identities and requests, and those about        *)
(* Validators, for every zone, address policy and sequence of answers.  A  *)
(* theorem about a part of a validation assumes what the module of that    *)
(* part says of the constants.                                             *)
(***************************************************************************)
EXTENDS Accounts, Validators, TLAPS

(* A leaf goes to the SMT solver unless it names another prover. *)
USE SMTT(20)

ReqRec == Idle \cup Creating \cup Updating

(* The three things a step can do: move a request on, write a new account, *)
(* or write a changed one.                                                 *)
Moves(q) ==
  /\ UNCHANGED store
  /\ \E r \in ReqRec : CopyAgrees(r) /\ req' = [req EXCEPT ![q] = r]
Creates(q) ==
  /\ req[q].pc = "create" /\ StoreCreate(req[q].id, req[q].copy)
  /\ \E reply \in Replies : Answer(q, reply)
Updates(q) ==
  /\ req[q].pc = "update" /\ StoreUpdate(req[q].id, req[q].copy)
  /\ \E reply \in Replies : Answer(q, reply)

-----------------------------------------------------------------------------
(* The shape of a step. *)

(* A request that is not idle holds a record and the name of an account.   *)
LEMMA Held ==
  ASSUME TypeOK, NEW q \in Requests, req[q].pc # "idle"
  PROVE  /\ req[q].signer \in Keys /\ req[q].id \in Ids /\ req[q].copy \in AccountRec
         /\ req[q].reply = "none"
  BY DEF TypeOK, Idle, Creating, Updating

(* An answered request is idle and holds nothing. *)
LEMMA AnswerMoves ==
  ASSUME NEW q \in Requests, NEW reply \in Replies, Answer(q, reply), UNCHANGED store
  PROVE  Moves(q)
<1>1. [NoRequest EXCEPT !.reply = reply] \in Idle
  BY DEF NoRequest, Idle
<1>2. CopyAgrees([NoRequest EXCEPT !.reply = reply])
  BY DEF NoRequest, CopyAgrees
<1> QED BY ZenonT(30), <1>1, <1>2 DEF Moves, Answer, ReqRec

(* A request that reads an account or asks for a new one holds a copy that *)
(* agrees with the store.                                                  *)
LEMMA HoldMoves ==
  ASSUME NEW q \in Requests, NEW at \in {"create", "conflict", "update", "owner"},
         NEW k \in Keys, NEW i \in Ids, NEW a \in AccountRec,
         CopyAgrees([pc |-> at, signer |-> k, id |-> i, copy |-> a, reply |-> "none"]),
         Hold(q, at, k, i, a), UNCHANGED store
  PROVE  Moves(q)
<1>1. [pc |-> at, signer |-> k, id |-> i, copy |-> a, reply |-> "none"] \in Creating \cup Updating
  BY DEF Creating, Updating
<1> QED BY ZenonT(30), <1>1 DEF Moves, Hold, ReqRec

(* The lookups and answers of serveNewAccount. *)
LEMMA ExistingMoves ==
  ASSUME NEW q \in Requests, NEW k, Existing(q, k), UNCHANGED store
  PROVE  Moves(q)
<1>1. "ok" \in Replies /\ "refused" \in Replies
  BY DEF Replies
<1> QED BY <1>1, AnswerMoves DEF Existing

(* serveNewAccount moves a request on. *)
LEMMA NewAccountMoves ==
  ASSUME TypeOK, NEW q \in Requests, NEW k \in Keys, NEW c \in Contacts,
         NEW e \in Kids \cup {None}, NEW only \in BOOLEAN, NewAccount(q, k, c, e, only)
  PROVE  Moves(q) /\ drawn' \in 0..MaxAccounts
<1>0. UNCHANGED store BY DEF NewAccount
<1>1. CASE Existing(q, k) /\ UNCHANGED drawn
  BY <1>0, <1>1, ExistingMoves DEF TypeOK
<1>2. CASE Answer(q, "refused") /\ UNCHANGED drawn
  BY <1>0, <1>2, AnswerMoves DEF Replies, TypeOK
<1>3. CASE /\ drawn < MaxAccounts /\ drawn' = drawn + 1
           /\ Hold(q, "create", k, drawn', NewRecord(k, c, e))
  <2>1. drawn' \in Ids /\ drawn' \in 0..MaxAccounts
    BY <1>3, AccountsAssumption DEF TypeOK, Ids
  <2>2. NewRecord(k, c, e) \in AccountRec /\ NewRecord(k, c, e).status = "valid"
    BY DEF NewRecord, AccountRec
  <2>3. CopyAgrees([pc |-> "create", signer |-> k, id |-> drawn',
                    copy |-> NewRecord(k, c, e), reply |-> "none"])
    BY <2>2 DEF CopyAgrees
  <2> HIDE DEF NewRecord
  <2> QED BY <1>0, <1>3, <2>1, <2>2, <2>3, HoldMoves
<1> QED BY <1>1, <1>2, <1>3 DEF NewAccount

(* serveAccount moves a request on. *)
LEMMA ServeAccountMoves ==
  ASSUME TypeOK, NEW q \in Requests, NEW i \in Ids, NEW k \in Keys, NEW c \in Contacts,
         NEW s \in {"valid", "deactivated"}, ServeAccount(q, i, k, c, s)
  PROVE  Moves(q)
<1>0. UNCHANGED store BY DEF ServeAccount
<1>1. CASE \E reply \in {"ok", "refused"} : Answer(q, reply)
  BY <1>0, <1>1, AnswerMoves DEF Replies
<1>2. CASE /\ Authentic(i, k)
           /\ Hold(q, "update", k, i, [account[i] EXCEPT !.contact = c, !.status = s])
  <2> DEFINE a == [account[i] EXCEPT !.contact = c, !.status = s]
  <2>1. account[i] \in AccountRec /\ account[i] # None
    BY <1>2 DEF Authentic, TypeOK
  <2>2. a \in AccountRec
    BY ZenonT(30), <2>1 DEF AccountRec
  <2>3. /\ a.rev = account[i].rev /\ a.key = account[i].key
        /\ a.ext = account[i].ext /\ a.claim = account[i].claim /\ a.rev \in Nat
    BY <2>1 DEF AccountRec
  <2> HIDE DEF a
  <2>4. CopyAgrees([pc |-> "update", signer |-> k, id |-> i, copy |-> a, reply |-> "none"])
    BY <1>2, <2>1, <2>3 DEF CopyAgrees, Authentic
  <2>5. Hold(q, "update", k, i, a)
    BY <1>2 DEF a
  <2> QED BY <1>0, <2>2, <2>4, <2>5, HoldMoves
<1> QED BY <1>1, <1>2 DEF ServeAccount

(* serveKeyChange moves a request on. *)
LEMMA KeyChangeMoves ==
  ASSUME TypeOK, NEW q \in Requests, NEW i \in Ids, NEW k \in Keys, NEW old \in Keys,
         NEW new \in Keys, KeyChange(q, i, k, old, new)
  PROVE  Moves(q)
<1>0. UNCHANGED store BY DEF KeyChange
<1>1. CASE Answer(q, "refused")
  BY <1>0, <1>1, AnswerMoves DEF Replies
<1>2. CASE Authentic(i, k) /\ Hold(q, "update", k, i, [account[i] EXCEPT !.key = new])
  <2> DEFINE a == [account[i] EXCEPT !.key = new]
  <2>1. account[i] \in AccountRec /\ account[i] # None
    BY <1>2 DEF Authentic, TypeOK
  <2>2. a \in AccountRec
    BY <2>1 DEF AccountRec
  <2>3. /\ a.rev = account[i].rev /\ a.ext = account[i].ext /\ a.claim = account[i].claim
        /\ a.contact = account[i].contact /\ a.status = account[i].status /\ a.rev \in Nat
    BY <2>1 DEF AccountRec
  <2> HIDE DEF a
  <2>4. CopyAgrees([pc |-> "update", signer |-> k, id |-> i, copy |-> a, reply |-> "none"])
    BY <1>2, <2>1, <2>3 DEF CopyAgrees, Authentic
  <2>5. Hold(q, "update", k, i, a)
    BY <1>2 DEF a
  <2> QED BY <1>0, <2>2, <2>4, <2>5, HoldMoves
<1> QED BY <1>1, <1>2 DEF KeyChange

(* Every step moves a request on, creates an account or updates one. *)
LEMMA Shapes ==
  ASSUME TypeOK, Next
  PROVE  /\ \E q \in Requests : Moves(q) \/ Creates(q) \/ Updates(q)
         /\ drawn' \in 0..MaxAccounts
<1>1. PICK q \in Requests :
        \/ \E k \in Keys, c \in Contacts, e \in Kids \cup {None}, only \in BOOLEAN :
             NewAccount(q, k, c, e, only)
        \/ \E i \in Ids, k \in Keys, c \in Contacts, s \in {"valid", "deactivated"} :
             ServeAccount(q, i, k, c, s)
        \/ \E i \in Ids, k, old, new \in Keys : KeyChange(q, i, k, old, new)
        \/ CreateAccount(q) \/ CreateConflict(q) \/ UpdateAccount(q)
        \/ FindOwner(q) \/ StoreFails(q)
  BY DEF Next
<1>0. drawn \in 0..MaxAccounts BY DEF TypeOK
<1>2. CASE \E k \in Keys, c \in Contacts, e \in Kids \cup {None}, only \in BOOLEAN :
             NewAccount(q, k, c, e, only)
  BY <1>2, NewAccountMoves
<1>3. CASE \E i \in Ids, k \in Keys, c \in Contacts, s \in {"valid", "deactivated"} :
             ServeAccount(q, i, k, c, s)
  BY ZenonT(30), <1>0, <1>3, ServeAccountMoves DEF ServeAccount
<1>4. CASE \E i \in Ids, k, old, new \in Keys : KeyChange(q, i, k, old, new)
  BY <1>0, <1>4, KeyChangeMoves DEF KeyChange
<1>5. CASE CreateAccount(q)
  <2>0. drawn' = drawn /\ req[q].pc = "create" BY <1>5 DEF CreateAccount
  <2>1. CASE StoreCreate(req[q].id, req[q].copy) /\ \E reply \in {"ok", "error"} : Answer(q, reply)
    BY <1>0, <2>0, <2>1 DEF Creates, Replies
  <2>2. CASE Hold(q, "conflict", req[q].signer, req[q].id, req[q].copy) /\ UNCHANGED store
    <3>1. CopyAgrees([pc |-> "conflict", signer |-> req[q].signer, id |-> req[q].id,
                      copy |-> req[q].copy, reply |-> "none"])
      BY DEF CopyAgrees
    <3> QED BY <1>0, <2>0, <2>2, <3>1, Held, HoldMoves
  <2> QED BY <1>5, <2>1, <2>2 DEF CreateAccount
<1>6. CASE CreateConflict(q)
  <2>1. UNCHANGED store /\ drawn' = drawn
    BY <1>6 DEF CreateConflict
  <2>2. \/ Existing(q, req[q].signer)
        \/ Answer(q, "refused") \/ Answer(q, "error")
    BY <1>6 DEF CreateConflict
  <2> QED BY <1>0, <2>1, <2>2, ExistingMoves, AnswerMoves DEF Replies
<1>7. CASE UpdateAccount(q)
  <2>0. drawn' = drawn /\ req[q].pc = "update" BY <1>7 DEF UpdateAccount
  <2>1. CASE StoreUpdate(req[q].id, req[q].copy) /\ \E reply \in {"ok", "error"} : Answer(q, reply)
    BY <1>0, <2>0, <2>1 DEF Updates, Replies
  <2>2. CASE Answer(q, "conflict") /\ UNCHANGED store
    BY <1>0, <2>0, <2>2, AnswerMoves DEF Replies
  <2>3. CASE Hold(q, "owner", req[q].signer, req[q].id, req[q].copy) /\ UNCHANGED store
    <3>1. CopyAgrees([pc |-> "owner", signer |-> req[q].signer, id |-> req[q].id,
                      copy |-> req[q].copy, reply |-> "none"])
      BY DEF CopyAgrees
    <3> QED BY <1>0, <2>0, <2>3, <3>1, Held, HoldMoves
  <2> QED BY <1>7, <2>1, <2>2, <2>3 DEF UpdateAccount
<1>8. CASE FindOwner(q) \/ StoreFails(q)
  <2>1. UNCHANGED store /\ drawn' = drawn /\ (Answer(q, "conflict") \/ Answer(q, "error"))
    BY <1>8 DEF FindOwner, StoreFails
  <2> QED BY <1>0, <2>1, AnswerMoves DEF Replies
<1> QED BY <1>1, <1>2, <1>3, <1>4, <1>5, <1>6, <1>7, <1>8

-----------------------------------------------------------------------------
(* The invariant. *)

(* Nothing is stored, and nothing is held, at the start. *)
LEMMA InitHolds == Init => AccountsInv
<1> SUFFICES ASSUME Init PROVE AccountsInv
  OBVIOUS
<1>1. NoRequest \in Idle /\ NoRequest.pc = "idle"
  BY DEF NoRequest, Idle, Replies
<1>2. TypeOK
  BY <1>1, AccountsAssumption DEF Init, TypeOK
<1>3. IndexesAgree
  BY AccountsAssumption DEF Init, IndexesAgree, Ids
<1>4. CopiesAgree
  BY ZenonT(30), <1>1 DEF Init, CopiesAgree, CopyAgrees
<1> QED BY <1>2, <1>3, <1>4 DEF AccountsInv

(* The record of an account a request holds, by its fields. *)
LEMMA Fields ==
  ASSUME NEW a \in AccountRec
  PROVE  /\ a.key \in Keys /\ a.status \in {"valid", "deactivated"} /\ a.contact \in Contacts
         /\ a.ext \in Kids \cup {None} /\ a.claim \in Kids \cup {None} /\ a.rev \in Nat
         /\ a # None
  BY NoneAssumption DEF AccountRec

(* A request that moves on leaves the other copies as they were. *)
LEMMA MovesKeeps ==
  ASSUME AccountsInv, NEW q \in Requests, Moves(q), drawn' \in 0..MaxAccounts
  PROVE  AccountsInv'
<1>1. PICK r \in ReqRec : CopyAgrees(r) /\ req' = [req EXCEPT ![q] = r]
  BY ZenonT(30) DEF Moves
<1>2. account' = account /\ byKey' = byKey /\ byClaim' = byClaim
  BY DEF Moves, store
<1>3. TypeOK'
  BY <1>1, <1>2 DEF AccountsInv, TypeOK, ReqRec
<1>4. IndexesAgree'
  BY <1>2 DEF AccountsInv, IndexesAgree
<1>5. ASSUME NEW p \in Requests PROVE CopyAgrees(req[p])'
  <2>1. CopyAgrees(req'[p])
    BY ZenonT(30), <1>1 DEF AccountsInv, TypeOK, CopiesAgree
  <2> QED BY <2>1, <1>2 DEF CopyAgrees
<1> QED BY <1>3, <1>4, <1>5 DEF AccountsInv, CopiesAgree

(* Store.CreateAccount adds an account, its key and its binding, none of   *)
(* which was there.                                                        *)
LEMMA CreatesKeeps ==
  ASSUME AccountsInv, NEW q \in Requests, Creates(q), drawn' \in 0..MaxAccounts
  PROVE  AccountsInv'
<1> DEFINE i == req[q].id
           a == req[q].copy
<1>1. i \in Ids /\ a \in AccountRec /\ account[i] = None /\ byKey[a.key] = None
      /\ \A e \in Kids : e = a.claim => byClaim[e] = None
  BY Held DEF AccountsInv, Creates, StoreCreate, CreateConflicts
<1>2. /\ account' = [account EXCEPT ![i] = a]
      /\ byKey' = [byKey EXCEPT ![a.key] = i]
      /\ byClaim' = [e \in Kids |-> IF e = a.claim THEN i ELSE byClaim[e]]
  BY DEF Creates, StoreCreate
<1>3. PICK reply \in Replies : Answer(q, reply)
  BY DEF Creates
<1>4. [NoRequest EXCEPT !.reply = reply] \in Idle
  BY DEF NoRequest, Idle
<1>5. req' = [req EXCEPT ![q] = [NoRequest EXCEPT !.reply = reply]]
  BY <1>3 DEF Answer
<1>6. i \in Nat /\ i # None
  BY <1>1, AccountsAssumption DEF Ids
<1>7. a.key \in Keys /\ a # None
  BY <1>1, Fields
<1>8. TypeOK'
  BY <1>1, <1>2, <1>4, <1>5, <1>7 DEF AccountsInv, TypeOK
<1> HIDE DEF i, a
<1>9. ASSUME NEW k \in Keys, NEW j \in Ids
      PROVE  byKey'[k] = j <=> account'[j] # None /\ account'[j].key = k
  <2>1. byKey[k] = j <=> account[j] # None /\ account[j].key = k
    BY DEF AccountsInv, IndexesAgree
  <2>2. byKey'[k] = IF k = a.key THEN i ELSE byKey[k]
    BY <1>2, <1>7 DEF AccountsInv, TypeOK
  <2>3. account'[j] = IF j = i THEN a ELSE account[j]
    BY <1>1, <1>2 DEF AccountsInv, TypeOK
  <2>4. j # None
    BY AccountsAssumption DEF Ids
  <2> QED BY <1>1, <1>7, <2>1, <2>2, <2>3, <2>4
<1>10. ASSUME NEW e \in Kids, NEW j \in Ids
       PROVE  byClaim'[e] = j <=> account'[j] # None /\ account'[j].claim = e
  <2>1. byClaim[e] = j <=> account[j] # None /\ account[j].claim = e
    BY DEF AccountsInv, IndexesAgree
  <2>2. byClaim'[e] = IF e = a.claim THEN i ELSE byClaim[e]
    BY <1>2
  <2>3. account'[j] = IF j = i THEN a ELSE account[j]
    BY <1>1, <1>2 DEF AccountsInv, TypeOK
  <2>4. j # None
    BY AccountsAssumption DEF Ids
  <2> QED BY <1>1, <1>7, <2>1, <2>2, <2>3, <2>4
<1>11. ASSUME NEW p \in Requests PROVE CopyAgrees(req[p])'
  <2>1. CASE p = q
    <3>1. req'[p].pc = "idle"
      BY <1>5, <2>1 DEF AccountsInv, TypeOK, NoRequest
    <3> QED BY <3>1 DEF CopyAgrees
  <2>2. CASE p # q
    <3>1. req'[p] = req[p] /\ CopyAgrees(req[p])
      BY ZenonT(30), <1>5, <2>2 DEF AccountsInv, TypeOK, CopiesAgree
    <3>2. req[p].pc = "update" => req[p].id # i /\ req[p].id \in Ids
      BY <1>1, <3>1, Held DEF CopyAgrees, AccountsInv
    <3>3. req[p].pc = "update" => account'[req[p].id] = account[req[p].id]
      BY <1>2, <3>2 DEF AccountsInv, TypeOK
    <3> QED BY <3>1, <3>3 DEF CopyAgrees
  <2> QED BY <2>1, <2>2
<1> QED BY <1>8, <1>9, <1>10, <1>11 DEF AccountsInv, IndexesAgree, CopiesAgree

(* Store.UpdateAccount writes a copy of the current revision: what is      *)
(* known of it, of the account it replaces and of the indexes.             *)
LEMMA UpdateFacts ==
  ASSUME AccountsInv, NEW q \in Requests, Updates(q)
  PROVE  LET i == req[q].id
             c == req[q].copy
             a == account[i]
             b == [c EXCEPT !.rev = c.rev + 1]
         IN /\ i \in Ids /\ i # None /\ c \in AccountRec /\ a \in AccountRec /\ b \in AccountRec
            /\ a # None /\ b # None /\ a.rev = c.rev
            /\ a.status = "valid" /\ a.key = req[q].signer
            /\ c.ext = a.ext /\ c.claim = a.claim
            /\ c.key # a.key =>
                 c.contact = a.contact /\ c.status = a.status /\ byKey[c.key] = None
            /\ b.key = c.key /\ b.claim = c.claim /\ b.rev = c.rev + 1 /\ b.ext = c.ext
            /\ b.contact = c.contact /\ b.status = c.status
            /\ account' = [account EXCEPT ![i] = b]
            /\ byKey' = [byKey EXCEPT ![a.key] = None, ![c.key] = i]
            /\ byClaim' = [e \in Kids |-> IF e = c.claim THEN i
                                          ELSE IF e = a.claim THEN None ELSE byClaim[e]]
<1> DEFINE i == req[q].id
           c == req[q].copy
           a == account[i]
           b == [c EXCEPT !.rev = c.rev + 1]
<1>1. i \in Ids /\ c \in AccountRec /\ req[q].pc = "update"
  BY Held DEF AccountsInv, Updates
<1>2. i # None
  BY <1>1, AccountsAssumption DEF Ids
<1>3. a # None /\ a.rev = c.rev /\ ~UpdateConflicts(i, c)
  BY DEF Updates, StoreUpdate, Current
<1>4. a \in AccountRec
  BY <1>1, <1>3 DEF AccountsInv, TypeOK
<1>5. b \in AccountRec
  BY <1>1 DEF AccountRec
<1>6. /\ b.key = c.key /\ b.claim = c.claim /\ b.rev = c.rev + 1 /\ b.ext = c.ext
      /\ b.contact = c.contact /\ b.status = c.status
  BY <1>1 DEF AccountRec
<1>7. b # None
  BY ZenonT(30), <1>5, Fields
<1>8. /\ a.status = "valid" /\ a.key = req[q].signer
      /\ c.ext = a.ext /\ c.claim = a.claim
      /\ c.key # a.key => c.contact = a.contact /\ c.status = a.status
  BY <1>1, <1>3 DEF AccountsInv, CopiesAgree, CopyAgrees
<1>9. c.key # a.key => byKey[c.key] = None
  <2>1. c.key # a.key => byKey[c.key] \in {None, i}
    BY <1>3 DEF UpdateConflicts
  <2>2. c.key \in Keys
    BY <1>1, Fields
  <2>3. byKey[c.key] = i => a.key = c.key
    BY <1>1, <2>2 DEF AccountsInv, IndexesAgree
  <2> QED BY <2>1, <2>3
<1>10. /\ account' = [account EXCEPT ![i] = b]
       /\ byKey' = [byKey EXCEPT ![a.key] = None, ![c.key] = i]
       /\ byClaim' = [e \in Kids |-> IF e = c.claim THEN i
                                     ELSE IF e = a.claim THEN None ELSE byClaim[e]]
  BY DEF Updates, StoreUpdate
<1> HIDE DEF i, c, a, b
<1>11. /\ i \in Ids /\ i # None /\ c \in AccountRec /\ a \in AccountRec /\ b \in AccountRec
       /\ a # None /\ b # None /\ a.rev = c.rev
       /\ a.status = "valid" /\ a.key = req[q].signer
       /\ c.ext = a.ext /\ c.claim = a.claim
       /\ c.key # a.key => c.contact = a.contact /\ c.status = a.status /\ byKey[c.key] = None
  BY <1>1, <1>2, <1>3, <1>4, <1>5, <1>7, <1>8, <1>9
<1> QED BY <1>6, <1>10, <1>11, ZenonT(30) DEF i, c, a, b

(* Store.UpdateAccount moves the key in the index, leaves the binding, and *)
(* leaves every other copy of the account behind.                          *)
LEMMA UpdatesKeeps ==
  ASSUME AccountsInv, NEW q \in Requests, Updates(q), drawn' \in 0..MaxAccounts
  PROVE  AccountsInv'
<1> DEFINE i == req[q].id
           c == req[q].copy
           a == account[i]
           b == [c EXCEPT !.rev = c.rev + 1]
<1>1. /\ i \in Ids /\ i # None /\ c \in AccountRec /\ a \in AccountRec /\ b \in AccountRec
      /\ a # None /\ b # None /\ a.rev = c.rev /\ c.claim = a.claim
      /\ c.key # a.key => byKey[c.key] = None
      /\ b.key = c.key /\ b.claim = c.claim /\ b.rev = c.rev + 1
      /\ account' = [account EXCEPT ![i] = b]
      /\ byKey' = [byKey EXCEPT ![a.key] = None, ![c.key] = i]
      /\ byClaim' = [e \in Kids |-> IF e = c.claim THEN i
                                    ELSE IF e = a.claim THEN None ELSE byClaim[e]]
  BY UpdateFacts, ZenonT(30)
<1>2. a.key \in Keys /\ c.key \in Keys /\ a.rev \in Nat
  BY <1>1, Fields
<1>3. PICK reply \in Replies : Answer(q, reply)
  BY DEF Updates
<1>4. [NoRequest EXCEPT !.reply = reply] \in Idle
  BY DEF NoRequest, Idle
<1>5. req' = [req EXCEPT ![q] = [NoRequest EXCEPT !.reply = reply]]
  BY <1>3 DEF Answer
<1>a. a = account[i] /\ i = req[q].id
  OBVIOUS
<1> HIDE DEF i, c, a, b
<1>6. TypeOK'
  BY <1>1, <1>2, <1>4, <1>5 DEF AccountsInv, TypeOK
<1>7. ASSUME NEW j \in Ids PROVE account'[j] = IF j = i THEN b ELSE account[j]
  BY <1>1 DEF AccountsInv, TypeOK
<1>8. ASSUME NEW k \in Keys, NEW j \in Ids
      PROVE  byKey'[k] = j <=> account'[j] # None /\ account'[j].key = k
  <2>1. /\ byKey[k] = j <=> account[j] # None /\ account[j].key = k
        /\ byKey[a.key] = i
        /\ byKey[k] = i <=> a # None /\ a.key = k
    BY <1>a, <1>1, <1>2 DEF AccountsInv, IndexesAgree
  <2>2. byKey'[k] = IF k = c.key THEN i ELSE IF k = a.key THEN None ELSE byKey[k]
    BY <1>1, <1>2 DEF AccountsInv, TypeOK
  <2>3. j # None
    BY AccountsAssumption DEF Ids
  <2> QED BY <1>1, <1>7, <2>1, <2>2, <2>3
<1>9. ASSUME NEW e \in Kids, NEW j \in Ids
      PROVE  byClaim'[e] = j <=> account'[j] # None /\ account'[j].claim = e
  <2>1. /\ byClaim[e] = j <=> account[j] # None /\ account[j].claim = e
        /\ byClaim[e] = i <=> a # None /\ a.claim = e
    BY <1>a, <1>1 DEF AccountsInv, IndexesAgree
  <2>2. byClaim'[e] = IF e = a.claim THEN i ELSE byClaim[e]
    BY <1>1
  <2> QED BY <1>1, <1>7, <2>1, <2>2
<1>10. ASSUME NEW p \in Requests PROVE CopyAgrees(req[p])'
  <2>1. CASE p = q
    <3>1. req'[p].pc = "idle"
      BY <1>5, <2>1 DEF AccountsInv, TypeOK, NoRequest
    <3> QED BY <3>1 DEF CopyAgrees
  <2>2. CASE p # q
    <3>1. req'[p] = req[p] /\ CopyAgrees(req[p])
      BY <1>5, <2>2 DEF AccountsInv, TypeOK, CopiesAgree
    <3>2. CASE req[p].pc = "update" /\ req[p].id = i
      <4>1. req[p].copy.rev <= a.rev /\ req[p].copy \in AccountRec
        BY ZenonT(30), <1>a, <3>1, <3>2, Held DEF CopyAgrees, AccountsInv
      <4>2. req[p].copy.rev \in Nat
        BY <4>1, Fields
      <4>3. account'[i] = b
        BY <1>1, <1>7
      <4>4. b.rev = a.rev + 1
        BY <1>1
      <4>5. req[p].copy.rev <= b.rev /\ req[p].copy.rev # b.rev
        BY <1>2, <4>1, <4>2, <4>4
      <4> QED BY ZenonT(30), <1>1, <3>1, <3>2, <4>3, <4>5 DEF CopyAgrees
    <3>3. CASE req[p].pc = "update" /\ req[p].id # i
      <4>1. account'[req[p].id] = account[req[p].id]
        BY <1>7, <3>3, Held DEF AccountsInv
      <4> QED BY ZenonT(30), <3>1, <4>1 DEF CopyAgrees
    <3>4. CASE req[p].pc # "update"
      BY ZenonT(30), <3>1, <3>4 DEF CopyAgrees
    <3> QED BY <3>2, <3>3, <3>4
  <2> QED BY <2>1, <2>2
<1> QED BY <1>6, <1>8, <1>9, <1>10 DEF AccountsInv, IndexesAgree, CopiesAgree

(* The invariant is kept by every step. *)
LEMMA StepHolds == AccountsInv /\ [Next]_vars => AccountsInv'
<1> SUFFICES ASSUME AccountsInv, [Next]_vars PROVE AccountsInv'
  OBVIOUS
<1>1. CASE Next
  <2>1. TypeOK BY DEF AccountsInv
  <2> QED BY <1>1, <2>1, Shapes, MovesKeeps, CreatesKeeps, UpdatesKeeps
<1>2. CASE UNCHANGED vars
  <2>1. UNCHANGED <<account, byKey, byClaim, req, drawn>>
    BY <1>2, ZenonT(30) DEF vars
  <2>2. TypeOK'
    BY <2>1, ZenonT(30) DEF AccountsInv, TypeOK
  <2>3. IndexesAgree'
    BY <2>1, SMTT(20) DEF AccountsInv, IndexesAgree
  <2>4. CopiesAgree'
    BY <2>1, ZenonT(30) DEF AccountsInv, CopiesAgree, CopyAgrees
  <2> QED BY <2>2, <2>3, <2>4, ZenonT(30) DEF AccountsInv
<1> QED BY <1>1, <1>2

(* A key and a single-use binding belong to at most one account and the    *)
(* indexes say to which, whatever registrations, updates and key changes   *)
(* race; a copy that may still be written was asked for by the holder of   *)
(* the account's key (serveNewAccount, serveAccount, serveKeyChange over   *)
(* CreateAccount and UpdateAccount).                                       *)
THEOREM AccountsSafe == Spec => []AccountsInv
BY InitHolds, StepHolds, PTL DEF Spec

-----------------------------------------------------------------------------
(* What a step may do to an account. *)

(* A step either leaves an account or writes it for a request whose copy   *)
(* is current.                                                             *)
LEMMA OnlyUpdatesChange ==
  ASSUME AccountsInv, [Next]_vars, NEW i \in Ids, account[i] # None, account'[i] # account[i]
  PROVE  \E q \in Requests : Updates(q) /\ req[q].id = i
<1>1. Next
  BY DEF vars
<1>2. PICK q \in Requests : Moves(q) \/ Creates(q) \/ Updates(q)
  BY <1>1, Shapes DEF AccountsInv
<1>3. ~Moves(q)
  BY DEF Moves, store
<1>4. ~Creates(q)
  BY ZenonT(30), Held DEF Creates, StoreCreate, CreateConflicts, AccountsInv, TypeOK
<1>5. Updates(q) => req[q].id = i
  BY Held DEF Updates, StoreUpdate, AccountsInv, TypeOK
<1> QED BY <1>2, <1>3, <1>4, <1>5

(* An account is changed only by the holder of the key it has at the       *)
(* moment of the write, and only as asked: a key change alters no contact  *)
(* and no status, and nothing alters the binding (serveAccount,            *)
(* serveKeyChange).                                                        *)
THEOREM ChangesAuthorized == Spec => ChangeIsAuthorized
<1> DEFINE Authorized(i) == account[i] # None /\ account'[i] # account[i] =>
      \E q \in Requests :
        /\ req[q].pc = "update" /\ req[q].id = i /\ req[q].signer = account[i].key
        /\ account'[i].key # account[i].key =>
             account'[i].contact = account[i].contact /\ account'[i].status = account[i].status
        /\ account'[i].ext = account[i].ext
<1>1. ASSUME AccountsInv, [Next]_vars, NEW i \in Ids PROVE Authorized(i)
  <2> SUFFICES ASSUME account[i] # None, account'[i] # account[i] PROVE Authorized(i)
    OBVIOUS
  <2>1. PICK q \in Requests : Updates(q) /\ req[q].id = i
    BY <1>1, OnlyUpdatesChange
  <2> DEFINE c == req[q].copy
             a == account[i]
             b == [c EXCEPT !.rev = c.rev + 1]
  <2>2. /\ a.key = req[q].signer /\ c.ext = a.ext
        /\ c.key # a.key => c.contact = a.contact /\ c.status = a.status
        /\ b.key = c.key /\ b.ext = c.ext /\ b.contact = c.contact /\ b.status = c.status
        /\ account' = [account EXCEPT ![i] = b]
    BY <1>1, <2>1, UpdateFacts, ZenonT(30)
  <2>3. account'[i] = b
    BY <1>1, <2>2 DEF AccountsInv, TypeOK
  <2>4. req[q].pc = "update"
    BY <2>1 DEF Updates
  <2> HIDE DEF b, c
  <2> QED BY <2>1, <2>2, <2>3, <2>4
<1>2. AccountsInv /\ [Next]_vars => [\A i \in Ids : Authorized(i)]_vars
  BY <1>1
<1> QED BY <1>2, InitHolds, StepHolds, PTL DEF Spec, ChangeIsAuthorized

(* A deactivated account never changes again, not by a request either that *)
(* was authenticated before the deactivation (lookupAccount, serveAccount, *)
(* serveKeyChange).                                                        *)
THEOREM DeactivationFinal == Spec => DeactivatedIsFinal
<1> DEFINE Final(i) == account[i] # None /\ account[i].status = "deactivated" =>
      account'[i] = account[i]
<1>1. ASSUME AccountsInv, [Next]_vars, NEW i \in Ids PROVE Final(i)
  <2>1. ASSUME NEW q \in Requests, Updates(q), req[q].id = i PROVE account[i].status = "valid"
    BY <1>1, <2>1, UpdateFacts, ZenonT(30)
  <2> QED BY <1>1, <2>1, OnlyUpdatesChange
<1>2. AccountsInv /\ [Next]_vars => [\A i \in Ids : Final(i)]_vars
  BY <1>1
<1> QED BY <1>2, InitHolds, StepHolds, PTL DEF Spec, DeactivatedIsFinal

-----------------------------------------------------------------------------
(* The refinement. *)

(* An account as the registry has it. *)
Shown(a) == [key |-> a.key, status |-> a.status, contact |-> a.contact, claim |-> a.claim]

(* The registry has an account where the store has one. *)
LEMMA ViewAt ==
  ASSUME TypeOK, NEW i \in Ids
  PROVE  /\ account[i] = None => View[i] = None
         /\ account[i] # None => View[i] = Shown(account[i]) /\ View[i] # None
<1>1. View[i] = IF account[i] = None THEN None ELSE Shown(account[i])
  BY DEF View, Shown
<1>2. ASSUME NEW a \in AccountRec PROVE Shown(a) \in ViewRec
  BY Fields DEF Shown, ViewRec
<1>3. account[i] # None => Shown(account[i]) # None
  BY <1>2, NoneAssumption DEF TypeOK
<1> QED BY <1>1, <1>3

(* A key that is not in the index owns no account of the registry.         *)
LEMMA NotOwned ==
  ASSUME AccountsInv, NEW k \in Keys, byKey[k] = None
  PROVE  ~R!Owned(k)
<1>1. ASSUME NEW i \in Ids, View[i] # None PROVE View[i].key # k
  <2>1. account[i] # None /\ View[i] = Shown(account[i])
    BY <1>1, ViewAt DEF AccountsInv
  <2>2. account[i].key # k
    BY <2>1, AccountsAssumption DEF AccountsInv, IndexesAgree, Ids
  <2> QED BY <2>1, <2>2 DEF Shown
<1> QED BY <1>1 DEF R!Owned

(* A binding that is not in the index belongs to no account of the         *)
(* registry.                                                               *)
LEMMA NotBound ==
  ASSUME AccountsInv, NEW e \in Kids, byClaim[e] = None
  PROVE  ~R!Bound(e)
<1>1. ASSUME NEW i \in Ids, View[i] # None PROVE View[i].claim # e
  <2>1. account[i] # None /\ View[i] = Shown(account[i])
    BY <1>1, ViewAt DEF AccountsInv
  <2>2. account[i].claim # e
    BY <2>1, AccountsAssumption DEF AccountsInv, IndexesAgree, Ids
  <2> QED BY <2>1, <2>2 DEF Shown
<1> QED BY <1>1 DEF R!Bound

(* Store.CreateAccount registers. *)
LEMMA CreatesRegister ==
  ASSUME AccountsInv, NEW q \in Requests, Creates(q)
  PROVE  R!RNext
<1> DEFINE i == req[q].id
           a == req[q].copy
<1>1. /\ i \in Ids /\ a \in AccountRec /\ account[i] = None /\ byKey[a.key] = None
      /\ \A e \in Kids : e = a.claim => byClaim[e] = None
      /\ account' = [account EXCEPT ![i] = a]
  BY Held, ZenonT(30) DEF AccountsInv, Creates, StoreCreate, CreateConflicts
<1>2. a.status = "valid"
  BY DEF AccountsInv, CopiesAgree, CopyAgrees, Creates
<1> HIDE DEF i, a
<1>3. a.key \in Keys /\ a.contact \in Contacts /\ a.claim \in Kids \cup {None} /\ a # None
  BY <1>1, Fields
<1>4. View[i] = None
  BY <1>1, ViewAt DEF AccountsInv
<1>5. ~R!Owned(a.key) /\ (a.claim = None \/ ~R!Bound(a.claim))
  BY <1>1, <1>3, NotOwned, NotBound
<1>6. View' = [View EXCEPT ![i] = Shown(a)]
  BY ZenonT(30), <1>1, <1>3 DEF View, Shown, AccountsInv, TypeOK
<1>7. R!Register(i, a.key, a.contact, a.claim)
  BY <1>2, <1>4, <1>5, <1>6 DEF R!Register, Shown
<1> QED BY <1>1, <1>3, <1>7 DEF R!RNext

(* Store.UpdateAccount amends, or changes the key. *)
LEMMA UpdatesAmend ==
  ASSUME AccountsInv, NEW q \in Requests, Updates(q)
  PROVE  R!RNext
<1> DEFINE i == req[q].id
           c == req[q].copy
           a == account[i]
           b == [c EXCEPT !.rev = c.rev + 1]
<1>1. /\ i \in Ids /\ c \in AccountRec /\ a \in AccountRec /\ b \in AccountRec
      /\ a # None /\ b # None /\ a.status = "valid" /\ c.claim = a.claim
      /\ c.key # a.key => c.contact = a.contact /\ c.status = a.status /\ byKey[c.key] = None
      /\ b.key = c.key /\ b.claim = c.claim /\ b.contact = c.contact /\ b.status = c.status
      /\ account' = [account EXCEPT ![i] = b]
  BY UpdateFacts, ZenonT(30)
<1>2. View[i] = Shown(a) /\ View[i] # None
  BY <1>1, ViewAt DEF AccountsInv
<1> HIDE DEF i, c, a, b
<1>3. View' = [View EXCEPT ![i] = Shown(b)]
  BY ZenonT(30), <1>1 DEF View, Shown, AccountsInv, TypeOK
<1>4. R!Valid(i)
  BY <1>1, <1>2 DEF R!Valid, Shown
<1>5. c.key \in Keys /\ c.contact \in Contacts /\ c.status \in {"valid", "deactivated"}
  BY <1>1, Fields
<1>6. CASE c.key = a.key
  <2> DEFINE m == [key |-> a.key, status |-> a.status, contact |-> c.contact, claim |-> a.claim]
  <2>a. m = [Shown(a) EXCEPT !.contact = c.contact]
    BY DEF Shown
  <2>b. Shown(b) = [m EXCEPT !.status = c.status]
    BY <1>1, <1>6 DEF Shown
  <2>1. Shown(b) = [Shown(a) EXCEPT !.contact = c.contact, !.status = c.status]
    BY ZenonT(30), <2>a, <2>b
  <2>2. View' = [View EXCEPT ![i].contact = c.contact, ![i].status = c.status]
    BY ZenonT(30), <1>2, <1>3, <2>1 DEF View
  <2>3. R!Amend(i, c.contact, c.status)
    BY <1>4, <2>2 DEF R!Amend
  <2> QED BY <1>1, <1>5, <2>3 DEF R!RNext
<1>7. CASE c.key # a.key
  <2>1. Shown(b) = [Shown(a) EXCEPT !.key = c.key]
    BY <1>1, <1>7 DEF Shown
  <2>2. View' = [View EXCEPT ![i].key = c.key]
    BY <1>2, <1>3, <2>1
  <2>3. R!Rekey(i, c.key)
    BY <1>1, <1>4, <1>5, <1>7, <2>2, NotOwned DEF R!Rekey
  <2> QED BY <1>1, <1>5, <2>3 DEF R!RNext
<1> QED BY <1>6, <1>7

(* Requests that run concurrently over AccountStore are one atomic         *)
(* registration, amendment or key change after the other (account.go).     *)
THEOREM RegistryImplemented == Spec => ImplementsRegistry
<1>1. Init => R!RInit
  BY DEF Init, R!RInit, View
<1>2. AccountsInv /\ [Next]_vars => [R!RNext]_View
  <2> SUFFICES ASSUME AccountsInv, [Next]_vars PROVE R!RNext \/ View' = View
    OBVIOUS
  <2>1. CASE UNCHANGED vars
    BY <2>1 DEF vars, View
  <2>2. CASE Next
    <3>1. PICK q \in Requests : Moves(q) \/ Creates(q) \/ Updates(q)
      BY <2>2, Shapes DEF AccountsInv
    <3>2. CASE Moves(q)
      BY <3>2 DEF Moves, store, View
    <3> QED BY <3>1, <3>2, CreatesRegister, UpdatesAmend
  <2> QED BY <2>1, <2>2
<1> QED BY <1>1, <1>2, InitHolds, StepHolds, PTL DEF Spec, ImplementsRegistry, R!Registry

-----------------------------------------------------------------------------
(* The lookup of dns-01. *)

(* What the answers of an honest server are to the lookup: records of the  *)
(* zone, all there are for the name and for each owner that they mention.  *)
Complete ==
  /\ answers \subseteq zone
  /\ \A r \in zone : r.owner = Dns!name \/ (\E s \in answers : s.owner = r.owner) => r \in answers

(* The names followed so far are the only way that the zone leads.         *)
OfZone ==
  /\ last = "retry"
  /\ pc = "match" => Complete
  /\ \A i \in 1..Len(trace) - 1 :
       ~Dns!Conflicting(zone, trace[i]) /\ Dns!Aliases(zone, trace[i]) = {trace[i + 1]}
  /\ \A c \in Dns!Chains : Dns!LeadsToProof(c) =>
       Len(trace) <= Len(c) /\ \A i \in 1..Len(trace) : c[i] = trace[i]

DnsInv ==
  /\ Dns!TypeOK /\ Dns!DnsVerdict /\ Dns!OutageIsRetried
  /\ trace[1] = Question
  /\ pc = "match" => answers \subseteq evidence /\ "answers" \in heard
  /\ last = "final" => "oversize" \in heard
  /\ Dns!Honest => OfZone

(* The time that is left for the servers from the i-th on.                 *)
Share == Timeout \div Servers
TimeInv ==
  /\ elapsed \in 0..Timeout /\ until \in 0..Timeout /\ index \in 1..Servers + 1
  /\ pc = "query" /\ Len(trace) = 1 => Timeout - elapsed >= (Servers - index + 1) * Share
  /\ pc = "exchange" => index <= Servers /\ until >= elapsed
  /\ pc = "exchange" /\ Len(trace) = 1 =>
       until - elapsed >= Share /\ Timeout - until >= (Servers - index) * Share

-----------------------------------------------------------------------------
(* A share of the time that is left is no smaller than the share of a      *)
(* server, and leaves as much for each of the others (query).              *)
LEMMA ShareOfRest ==
  ASSUME NEW m \in Nat \ {0}, NEW k \in Nat, NEW rest \in Nat, rest >= m * k
  PROVE  /\ rest \div m \in Nat /\ rest \div m >= k /\ rest \div m <= rest
         /\ rest - rest \div m >= (m - 1) * k
<1>q. PICK q \in Int : q = rest \div m
  OBVIOUS
<1>1. q * m <= rest /\ rest < q * m + m
  BY <1>q
<1>2. q >= k
  <2>1. SUFFICES ASSUME q + 1 <= k PROVE FALSE
    OBVIOUS
  <2>2. (q + 1) * m <= k * m
    BY <2>1
  <2> QED BY <1>1, <2>2
<1>3. (m - 1) * k <= (m - 1) * q
  BY <1>2
<1>4. q <= q * m
  BY <1>2
<1> QED BY <1>q, <1>1, <1>2, <1>3, <1>4

(* Whatever the servers do, those that are left have their time. *)
LEMMA TimeStep ==
  ASSUME Dns!LookupAssumption, Dns!TypeOK, TimeInv, [Dns!Next]_(Dns!vars)
  PROVE  TimeInv'
<1>0. Servers \in Nat \ {0} /\ Timeout \in Nat /\ Share \in Nat
  BY DEF Dns!LookupAssumption, Share
<1>1. CASE Dns!Ask
  <2>0. /\ pc = "query" /\ index \in 1..Servers /\ elapsed \in Nat /\ elapsed < Timeout
        /\ until' = elapsed + (Timeout - elapsed) \div (Servers - index + 1)
        /\ pc' = "exchange" /\ UNCHANGED <<elapsed, trace, index>>
    BY <1>0, <1>1 DEF TimeInv, Dns!Ask
  <2>m. PICK m \in Nat \ {0} : m = Servers - index + 1
    BY <1>0, <2>0
  <2>r. PICK rest \in Nat : rest = Timeout - elapsed
    BY <1>0, <2>0
  <2>1. rest >= m * 0
    BY <2>r
  <2>2. rest \div m \in Nat /\ rest \div m <= rest
    BY <2>1, ShareOfRest
  <2>3. until' \in 0..Timeout /\ until' >= elapsed'
    BY <1>0, <2>0, <2>2, <2>m, <2>r
  <2>4. CASE Len(trace) = 1
    <3>1. rest >= m * Share
      BY <2>0, <2>4, <2>m, <2>r DEF TimeInv
    <3>2. rest \div m >= Share /\ rest - rest \div m >= (m - 1) * Share
      BY ZenonT(30), <1>0, <3>1, ShareOfRest
    <3>3. until' - elapsed' = rest \div m /\ Timeout - until' = rest - rest \div m
      BY <1>0, <2>0, <2>2, <2>m, <2>r
    <3>4. m - 1 = Servers - index'
      BY <1>0, <2>0, <2>m
    <3> QED BY <1>0, <2>0, <2>3, <3>2, <3>3, <3>4 DEF TimeInv, Share
  <2>5. CASE Len(trace) # 1
    BY <1>0, <2>0, <2>3, <2>5 DEF TimeInv
  <2> QED BY <2>4, <2>5
<1>2. ASSUME NEW failure, Dns!ServerFails(failure)
      PROVE  TimeInv'
  <2>0. /\ pc = "exchange" /\ index' = index + 1 /\ pc' = "query" /\ until' = 0
        /\ trace' = trace /\ elapsed' \in elapsed..until
    BY <1>2 DEF Dns!ServerFails
  <2>a. /\ elapsed \in 0..Timeout /\ until \in 0..Timeout /\ index \in 1..Servers + 1
        /\ index <= Servers
    BY <2>0, ZenonT(30) DEF TimeInv
  <2>t. PICK t \in Int : t = elapsed' /\ t >= elapsed /\ t <= until
    BY <2>0, <2>a
  <2>1. elapsed' \in 0..Timeout /\ index' \in 1..Servers + 1 /\ t \in 0..Timeout
    BY <1>0, <2>0, <2>a, <2>t
  <2>2. Servers - index' + 1 = Servers - index
    BY <1>0, <2>0, <2>a
  <2>3. PICK x \in Int : x = (Servers - index) * Share
    BY <1>0, <2>a
  <2>4. Len(trace) = 1 => Timeout - until >= x
    BY <2>0, <2>3, ZenonT(30) DEF TimeInv
  <2>5. Len(trace) = 1 => Timeout - t >= x
    <3>1. until \in Int /\ t \in Int /\ x \in Int /\ t <= until /\ Timeout \in Int
      BY <1>0, <2>3, <2>a, <2>t
    <3> QED BY <2>4, <3>1
  <2>6. Len(trace) = 1 => Timeout - elapsed' >= (Servers - index' + 1) * Share
    BY <2>2, <2>3, <2>5, <2>t, ZenonT(30)
  <2> QED BY <1>0, <2>0, <2>1, <2>6 DEF TimeInv, Share
<1>3. CASE Dns!ServerIsInvalid \/ Dns!ServerAnswers
  <2>1. elapsed' \in elapsed..until /\ until' = 0 /\ pc' \in {"done", "match"} /\ UNCHANGED <<trace, index>>
    BY <1>3, ZenonT(30) DEF Dns!ServerIsInvalid, Dns!ServerAnswers
  <2>2. elapsed \in 0..Timeout /\ until \in 0..Timeout /\ index \in 1..Servers + 1
    BY ZenonT(30) DEF TimeInv
  <2>3. elapsed' \in 0..Timeout /\ until' \in 0..Timeout
    BY <1>0, <2>1, <2>2
  <2>4. pc' # "query" /\ pc' # "exchange"
    BY <2>1
  <2> QED BY <2>1, <2>2, <2>3, <2>4, ZenonT(30) DEF TimeInv
<1>4. CASE Dns!GiveUp \/ Dns!Found \/ Dns!NoProof
  BY <1>0, <1>4 DEF TimeInv, Dns!GiveUp, Dns!Found, Dns!NoProof, Dns!End
<1>5. CASE Dns!Follow
  <2>1. Len(trace') = Len(trace) + 1 /\ Len(trace) >= 1
    BY <1>5 DEF Dns!TypeOK, Dns!Follow
  <2> QED BY <1>0, <1>5, <2>1 DEF TimeInv, Dns!Follow
<1>6. CASE UNCHANGED Dns!vars
  BY <1>6 DEF TimeInv, Dns!vars, Share
<1> QED BY <1>1, <1>2, <1>3, <1>4, <1>5, <1>6 DEF Dns!Next

-----------------------------------------------------------------------------
(* The verdict. *)

(* The name that is looked up. *)
LEMMA NameTyped ==
  ASSUME Dns!TypeOK
  PROVE  /\ Dns!name \in Names /\ Len(trace) \in Nat \ {0}
         /\ Dns!name = trace[Len(trace)] /\ trace \in [1..Len(trace) -> Names]
BY DEF Dns!TypeOK, Dns!name

(* The servers stay honest, or not. *)
LEMMA SameZone ==
  ASSUME zone' = zone
  PROVE  Dns!Honest' <=> Dns!Honest
BY ZenonT(30) DEF Dns!Honest

(* A record is its owner, type and value. *)
LEMMA RecordIs ==
  ASSUME Dns!LookupAssumption, NEW r \in Records
  PROVE  /\ r = [owner |-> r.owner, type |-> r.type, value |-> r.value]
         /\ r.owner \in Names
         /\ r.type = "CNAME" => r.value \in Names
BY DEF Dns!LookupAssumption

(* A complete answer has the records of the name that the zone has. *)
LEMMA AnswersAgree ==
  ASSUME Complete
  PROVE  /\ Dns!Aliases(answers, Dns!name) = Dns!Aliases(zone, Dns!name)
         /\ Dns!Matching(answers, Dns!name) = Dns!Matching(zone, Dns!name)
         /\ Dns!Conflicting(answers, Dns!name) = Dns!Conflicting(zone, Dns!name)
<1>1. \A r : r.owner = Dns!name => (r \in answers <=> r \in zone)
  BY ZenonT(30) DEF Complete
<1>2. Dns!Aliases(answers, Dns!name) = Dns!Aliases(zone, Dns!name)
  BY <1>1 DEF Dns!Aliases
<1>3. Dns!Matching(answers, Dns!name) = Dns!Matching(zone, Dns!name)
  BY <1>1 DEF Dns!Matching
<1> QED BY <1>2, <1>3 DEF Dns!Conflicting

(* A step that asks, is answered or fails leaves the names followed alone. *)
LEMMA LookupGoesOn ==
  ASSUME DnsInv, UNCHANGED <<zone, trace>>, evidence \subseteq evidence',
         Dns!TypeOK', Dns!OutageIsRetried', outcome' # "valid",
         pc' = "match" => answers' \subseteq evidence' /\ "answers" \in heard',
         last' = "final" => "oversize" \in heard',
         Dns!Honest => last' = "retry" /\ outcome' # "final" /\ (pc' = "match" => Complete')
  PROVE  DnsInv'
<1>1. Dns!ProofIsOwned'
  BY DEF DnsInv, Dns!DnsVerdict, Dns!ProofIsOwned
<1>2. Dns!VerdictIsOfZone'
  BY SameZone, ZenonT(30) DEF Dns!VerdictIsOfZone
<1>3. Dns!Honest => OfZone'
  BY ZenonT(30) DEF DnsInv, OfZone, Dns!LeadsToProof
<1> QED BY <1>1, <1>2, <1>3, SameZone, ZenonT(30) DEF DnsInv, Dns!DnsVerdict

(* A query, its failure and its answer (query, exchange, parseResponse).   *)
LEMMA QueryStep ==
  ASSUME Dns!LookupAssumption, DnsInv, TimeInv',
         Dns!Ask \/ (\E failure \in Dns!Replies : Dns!ServerFails(failure))
         \/ Dns!ServerIsInvalid \/ Dns!ServerAnswers
  PROVE  DnsInv'
<1>0. Dns!TypeOK /\ Dns!OutageIsRetried /\ elapsed' \in 0..Timeout /\ until' \in 0..Timeout
      /\ index' \in 1..Servers + 1
  BY ZenonT(30) DEF DnsInv, TimeInv
<1>1. CASE Dns!Ask
  <2>1. /\ pc' = "exchange" /\ outcome = "none"
        /\ UNCHANGED <<zone, trace, answers, last, outcome, heard, evidence>>
    BY <1>0, <1>1, ZenonT(30) DEF Dns!Ask, Dns!TypeOK
  <2>2. Dns!TypeOK'
    BY <1>0, <2>1, ZenonT(30) DEF Dns!TypeOK
  <2>3. Dns!Honest => last' = "retry"
    BY <2>1, ZenonT(30) DEF DnsInv, OfZone
  <2> QED BY <2>1, <2>2, <2>3, LookupGoesOn, ZenonT(30) DEF DnsInv, Dns!OutageIsRetried
<1>2. ASSUME NEW failure \in Dns!Replies, Dns!ServerFails(failure)
      PROVE  DnsInv'
  <2>1. /\ pc' = "query" /\ outcome = "none" /\ last' = Dns!Failure(failure) /\ heard' = heard \cup {failure}
        /\ failure \in {"unreachable", "oversize", "nxdomain", "servfail"}
        /\ Dns!Honest => failure # "oversize"
        /\ UNCHANGED <<zone, trace, answers, outcome, evidence>>
    BY <1>0, <1>2, ZenonT(30) DEF Dns!ServerFails, Dns!TypeOK
  <2>2. last' \in {"retry", "final"} /\ (last' = "final" => failure = "oversize")
    BY <2>1, ZenonT(30) DEF Dns!Failure
  <2>3. Dns!TypeOK'
    BY <1>0, <1>2, <2>1, <2>2, ZenonT(30) DEF Dns!TypeOK
  <2>4. Dns!OutageIsRetried'
    BY <2>1, ZenonT(30) DEF Dns!OutageIsRetried
  <2> QED BY <2>1, <2>2, <2>3, <2>4, LookupGoesOn, ZenonT(30)
<1>3. CASE Dns!ServerIsInvalid
  <2>1. /\ pc' = "done" /\ outcome' = "final" /\ last' = "retry" /\ heard' = heard \cup {"invalid"}
        /\ ~Dns!Honest /\ UNCHANGED <<zone, trace, answers, evidence>>
    BY <1>3, ZenonT(30) DEF Dns!ServerIsInvalid
  <2>2. Dns!TypeOK'
    BY <1>0, <2>1, ZenonT(30) DEF Dns!TypeOK, Dns!Replies
  <2>3. Dns!OutageIsRetried'
    BY <2>1, ZenonT(30) DEF Dns!OutageIsRetried
  <2> QED BY <2>1, <2>2, <2>3, LookupGoesOn, ZenonT(30)
<1>4. CASE Dns!ServerAnswers
  <2>1. PICK rs \in Dns!AnswersFor(Dns!name) : answers' = rs /\ evidence' = evidence \cup rs
    BY <1>4, ZenonT(30) DEF Dns!ServerAnswers
  <2>2. /\ pc' = "match" /\ outcome = "none" /\ last' = "retry" /\ heard' = heard \cup {"answers"}
        /\ UNCHANGED <<zone, trace, outcome>>
    BY <1>0, <1>4, ZenonT(30) DEF Dns!ServerAnswers, Dns!TypeOK
  <2>3. rs \subseteq Records /\ (Dns!Honest => Complete')
    <3>1. CASE Dns!Honest
      <4>1. PICK more \in SUBSET Names : rs = {r \in zone : r.owner \in {Dns!name} \cup more}
        BY <2>1, <3>1 DEF Dns!AnswersFor
      <4>2. Dns!name' = Dns!name
        BY <2>2, ZenonT(30) DEF Dns!name
      <4>3. zone \in (SUBSET Records) \cup {Absent}
        BY <1>0, ZenonT(30) DEF Dns!TypeOK
      <4>4. zone \subseteq Records
        BY <3>1, <4>3 DEF Dns!Honest
      <4> QED BY <2>1, <2>2, <4>1, <4>2, <4>4 DEF Complete
    <3>2. CASE ~Dns!Honest
      BY <2>1, <3>2, ZenonT(30) DEF Dns!AnswersFor
    <3> QED BY <3>1, <3>2
  <2>4. Dns!TypeOK'
    BY <1>0, <2>1, <2>2, <2>3, ZenonT(30) DEF Dns!TypeOK, Dns!Replies
  <2>5. Dns!OutageIsRetried'
    BY <2>2, ZenonT(30) DEF Dns!OutageIsRetried
  <2> QED BY <2>1, <2>2, <2>3, <2>4, <2>5, LookupGoesOn, ZenonT(30)
<1> QED BY <1>1, <1>2, <1>3, <1>4

(* The end of a lookup that leaves no doubt about its outcome. *)
LEMMA LookupEnds ==
  ASSUME Dns!LookupAssumption, DnsInv, NEW v \in {"retry", "final", "valid"}, Dns!End(v),
         v = "final" => heard \cap {"oversize", "invalid", "answers"} # {},
         v = "valid" => [owner |-> Dns!name, type |-> "TXT", value |-> Digest] \in evidence,
         Dns!Honest /\ v = "valid" => \E c \in Dns!Chains : Dns!LeadsToProof(c),
         Dns!Honest /\ v = "final" => \A c \in Dns!Chains : ~Dns!LeadsToProof(c)
  PROVE  DnsInv'
<1>1. /\ pc' = "done" /\ outcome' = v /\ last' = "retry" /\ answers' = Absent /\ until' = 0
      /\ UNCHANGED <<elapsed, zone, trace, index, heard, evidence>>
  BY ZenonT(30) DEF Dns!End
<1>2. Dns!TypeOK'
  <2>1. 0 \in 0..Timeout
    BY DEF Dns!LookupAssumption
  <2> QED BY <1>1, <2>1, ZenonT(30) DEF DnsInv, Dns!TypeOK
<1>3. Dns!OutageIsRetried'
  BY <1>1, ZenonT(30) DEF Dns!OutageIsRetried
<1>4. Dns!ProofIsOwned'
  <2>1. Dns!name' = Dns!name
    BY <1>1, ZenonT(30) DEF Dns!name
  <2> QED BY <1>1, <2>1 DEF DnsInv, Dns!DnsVerdict, Dns!ProofIsOwned
<1>5. \A c : Dns!LeadsToProof(c)' <=> Dns!LeadsToProof(c)
  BY <1>1 DEF Dns!LeadsToProof
<1>6. Dns!VerdictIsOfZone'
  BY <1>1, <1>5, SameZone, ZenonT(30) DEF Dns!VerdictIsOfZone
<1>7. Dns!Honest => OfZone'
  BY ZenonT(30), <1>1, <1>5 DEF DnsInv, OfZone
<1> QED BY <1>1, <1>2, <1>3, <1>4, <1>6, <1>7, SameZone, ZenonT(30) DEF DnsInv, Dns!DnsVerdict

(* What a chain to the proof says of the name that is looked up: it goes   *)
(* on as long as the zone has an alias, and ends with the proof.           *)
LEMMA ChainAtName ==
  ASSUME Dns!LookupAssumption, DnsInv, Dns!Honest, NEW c \in Dns!Chains, Dns!LeadsToProof(c)
  PROVE  /\ Len(trace) <= Len(c) /\ Len(c) <= MaxCNAMEs + 1 /\ Len(c) \in Nat
         /\ ~Dns!Conflicting(zone, Dns!name)
         /\ \/ /\ Dns!Aliases(zone, Dns!name) = {} /\ Len(c) = Len(trace)
               /\ [owner |-> Dns!name, type |-> "TXT", value |-> Digest] \in zone
            \/ /\ Len(c) > Len(trace) /\ Dns!Aliases(zone, Dns!name) = {c[Len(trace) + 1]}
               /\ \A i \in 1..Len(trace) : c[Len(trace) + 1] # trace[i]
<1>1. PICK n \in 0..MaxCNAMEs : c \in [1..n + 1 -> Names]
  BY DEF Dns!Chains
<1>0. MaxCNAMEs \in Nat
  BY DEF Dns!LookupAssumption
<1>2. n \in Nat /\ n <= MaxCNAMEs /\ Len(c) = n + 1 /\ DOMAIN c = 1..n + 1
  BY <1>1
<1>3. PICK l \in Nat \ {0} : l = Len(trace) /\ Dns!name = trace[l]
  BY ZenonT(30), NameTyped DEF DnsInv
<1>4. l <= n + 1 /\ \A i \in 1..l : c[i] = trace[i]
  BY <1>2, <1>3, ZenonT(30) DEF DnsInv, OfZone
<1>5. c[l] = Dns!name /\ l \in 1..n + 1
  BY <1>2, <1>3, <1>4
<1>6. ~Dns!Conflicting(zone, Dns!name)
  BY <1>2, <1>5 DEF Dns!LeadsToProof
<1>7. CASE l = n + 1
  <2>1. Dns!Aliases(zone, c[l]) = {} /\ [owner |-> c[l], type |-> "TXT", value |-> Digest] \in zone
    BY <1>2, <1>7, ZenonT(30) DEF Dns!LeadsToProof
  <2>2. Len(c) = Len(trace) /\ Len(c) <= MaxCNAMEs + 1 /\ Len(c) \in Nat /\ Len(trace) <= Len(c)
    BY <1>0, <1>2, <1>3, <1>7
  <2> QED BY <1>5, <1>6, <2>1, <2>2, ZenonT(30)
<1>8. CASE l < n + 1
  <2>1. l \in 1..Len(c) - 1 /\ l + 1 \in 1..n + 1
    BY <1>2, <1>3, <1>8
  <2>2. Dns!Aliases(zone, c[l]) = {c[l + 1]}
    BY <2>1, ZenonT(30) DEF Dns!LeadsToProof
  <2>3. ASSUME NEW i \in 1..l PROVE c[l + 1] # trace[i]
    <3>1. i \in 1..n + 1 /\ i # l + 1 /\ c[i] = trace[i]
      BY <1>2, <1>3, <1>4
    <3> QED BY <1>2, <2>1, <3>1, ZenonT(30) DEF Dns!LeadsToProof, Dns!IsInjective
  <2>4. Len(c) > Len(trace) /\ Len(c) <= MaxCNAMEs + 1 /\ Len(c) \in Nat /\ Len(trace) <= Len(c)
    BY <1>0, <1>2, <1>3, <1>8
  <2> QED BY <1>3, <1>5, <1>6, <2>2, <2>3, <2>4, ZenonT(30)
<1>9. l = n + 1 \/ l < n + 1
  BY <1>2, <1>3, <1>4
<1> QED BY <1>7, <1>8, <1>9, ZenonT(30)

(* The trace is a chain, once the zone has no further alias. *)
LEMMA TraceIsChain ==
  ASSUME Dns!LookupAssumption, DnsInv, Dns!Honest, Dns!Aliases(zone, Dns!name) = {},
         [owner |-> Dns!name, type |-> "TXT", value |-> Digest] \in zone
  PROVE  \E c \in Dns!Chains : Dns!LeadsToProof(c)
<1>1. PICK l \in Nat \ {0} : l = Len(trace) /\ Dns!name = trace[l] /\ trace \in [1..l -> Names]
  BY ZenonT(30), NameTyped DEF DnsInv
<1>2. l <= MaxCNAMEs + 1 /\ MaxCNAMEs \in Nat /\ Dns!IsInjective(trace)
  BY <1>1, ZenonT(30) DEF DnsInv, Dns!DnsVerdict, Dns!ProofIsOwned, Dns!LookupAssumption
<1>3. l - 1 \in 0..MaxCNAMEs /\ (l - 1) + 1 = l /\ l = Len(trace)
  BY <1>1, <1>2
<1>4. trace \in Dns!Chains
  BY <1>1, <1>3, ZenonT(30) DEF Dns!Chains
<1>5. ~Dns!Conflicting(zone, Dns!name)
  BY DEF Dns!Conflicting
<1>6. ASSUME NEW i \in 1..Len(trace) PROVE ~Dns!Conflicting(zone, trace[i])
  <2>0. i \in 1..l
    BY <1>3, ZenonT(30)
  <2>1. i = l \/ i \in 1..l - 1
    BY <2>0
  <2> QED BY <1>1, <1>3, <1>5, <2>1, ZenonT(30) DEF DnsInv, OfZone
<1>7. Dns!LeadsToProof(trace)
  BY <1>1, <1>2, <1>6, ZenonT(30) DEF Dns!LeadsToProof, DnsInv, OfZone
<1> QED BY <1>4, <1>7

(* lookup without an alias: the records of the name decide. *)
LEMMA FoundStep ==
  ASSUME Dns!LookupAssumption, DnsInv, Dns!Found
  PROVE  DnsInv'
<1>0. /\ pc = "match" /\ Dns!Aliases(answers, Dns!name) = {} /\ answers \subseteq evidence
      /\ "answers" \in heard /\ evidence \subseteq Records
  BY ZenonT(30) DEF Dns!Found, DnsInv, Dns!TypeOK
<1>p. PICK p : p = [owner |-> Dns!name, type |-> "TXT", value |-> Digest]
  BY ZenonT(30)
<1>1. Digest \in {r.value : r \in Dns!Matching(answers, Dns!name)} <=> p \in answers
  <2>1. ASSUME NEW r \in answers, r.owner = Dns!name, r.type = "TXT", r.value = Digest
        PROVE  r = p
    BY <1>0, <1>p, <2>1, RecordIs
  <2>2. p.owner = Dns!name /\ p.type = "TXT" /\ p.value = Digest
    BY <1>p
  <2> QED BY <2>1, <2>2 DEF Dns!Matching
<1>2. CASE p \in answers
  <2>1. Dns!End("valid")
    BY <1>1, <1>2, ZenonT(30) DEF Dns!Found
  <2>2. ASSUME Dns!Honest PROVE \E c \in Dns!Chains : Dns!LeadsToProof(c)
    <3>1. Complete
      BY <1>0, <2>2, ZenonT(30) DEF DnsInv, OfZone
    <3>2. Dns!Aliases(zone, Dns!name) = {} /\ p \in zone
      BY <1>0, <1>2, <3>1, AnswersAgree, ZenonT(30) DEF Complete
    <3> QED BY <1>p, <2>2, <3>2, TraceIsChain, ZenonT(30)
  <2>3. p \in evidence
    BY <1>0, <1>2, ZenonT(30)
  <2> QED BY <1>p, <2>1, <2>2, <2>3, LookupEnds, ZenonT(30)
<1>3. CASE p \notin answers
  <2>1. Dns!End("final")
    BY <1>1, <1>3, ZenonT(30) DEF Dns!Found
  <2>2. ASSUME Dns!Honest, NEW c \in Dns!Chains, Dns!LeadsToProof(c) PROVE FALSE
    <3>1. Complete
      BY <1>0, <2>2, ZenonT(30) DEF DnsInv, OfZone
    <3>2. Dns!Aliases(zone, Dns!name) = {}
      BY <1>0, <3>1, AnswersAgree, ZenonT(30)
    <3>3. p \in zone
      BY <1>p, <2>2, <3>2, ChainAtName
    <3>4. p.owner = Dns!name
      BY <1>p
    <3> QED BY <1>3, <3>1, <3>3, <3>4, ZenonT(30) DEF Complete
  <2>3. heard \cap {"oversize", "invalid", "answers"} # {}
    BY <1>0
  <2> QED BY <2>1, <2>2, <2>3, LookupEnds, ZenonT(30)
<1> QED BY <1>2, <1>3

(* Conflicting records, a loop and a chain that is too long. *)
LEMMA NoProofStep ==
  ASSUME Dns!LookupAssumption, DnsInv, Dns!NoProof
  PROVE  DnsInv'
<1>0. /\ pc = "match" /\ Dns!Aliases(answers, Dns!name) # {} /\ "answers" \in heard /\ Dns!End("final")
  BY ZenonT(30) DEF Dns!NoProof, DnsInv
<1>1. ASSUME Dns!Honest, NEW c \in Dns!Chains, Dns!LeadsToProof(c) PROVE FALSE
  <2>1. Complete
    BY <1>0, <1>1, ZenonT(30) DEF DnsInv, OfZone
  <2>2. /\ Dns!Aliases(zone, Dns!name) = Dns!Aliases(answers, Dns!name)
        /\ Dns!Conflicting(zone, Dns!name) = Dns!Conflicting(answers, Dns!name)
    BY <2>1, AnswersAgree, ZenonT(30)
  <2>3. /\ Len(c) > Len(trace) /\ Dns!Aliases(zone, Dns!name) = {c[Len(trace) + 1]}
        /\ \A i \in 1..Len(trace) : c[Len(trace) + 1] # trace[i]
        /\ ~Dns!Conflicting(zone, Dns!name)
        /\ Len(c) <= MaxCNAMEs + 1 /\ Len(c) \in Nat
    BY <1>0, <1>1, <2>2, ChainAtName, ZenonT(30)
  <2>4. Len(trace) \in Nat /\ MaxCNAMEs \in Nat /\ DOMAIN trace = 1..Len(trace)
    BY NameTyped DEF DnsInv, Dns!LookupAssumption
  <2>5. ~(Len(trace) > MaxCNAMEs)
    BY <2>3, <2>4
  <2>6. PICK alias \in Dns!Aliases(answers, Dns!name) : alias \in Dns!Range(trace)
    BY <2>2, <2>3, <2>5, ZenonT(30) DEF Dns!NoProof
  <2>7. PICK i \in 1..Len(trace) : alias = trace[i]
    BY <2>4, <2>6, ZenonT(30) DEF Dns!Range
  <2> QED BY <2>2, <2>3, <2>6, <2>7, ZenonT(30)
<1>2. heard \cap {"oversize", "invalid", "answers"} # {}
  BY <1>0
<1> QED BY <1>0, <1>1, <1>2, LookupEnds, ZenonT(30)

(* lookup follows an alias. *)
LEMMA FollowStep ==
  ASSUME Dns!LookupAssumption, DnsInv, TimeInv', Dns!Follow
  PROVE  DnsInv'
<1>0. /\ pc = "match" /\ ~Dns!Conflicting(answers, Dns!name) /\ answers \subseteq evidence
      /\ "answers" \in heard /\ evidence \subseteq Records
      /\ UNCHANGED <<elapsed, zone, until, last, outcome, heard, evidence>> /\ Dns!TypeOK
  BY ZenonT(30) DEF Dns!Follow, DnsInv, Dns!TypeOK
<1>a. PICK alias \in Dns!Aliases(answers, Dns!name) :
        /\ Len(trace) <= MaxCNAMEs /\ alias \notin Dns!Range(trace)
        /\ trace' = Append(trace, alias)
        /\ IF \E r \in answers : r.owner = alias THEN UNCHANGED <<pc, answers, index>>
           ELSE pc' = "query" /\ answers' = Absent /\ index' = 1
  BY ZenonT(30) DEF Dns!Follow
<1>l. PICK l \in Nat \ {0} : l = Len(trace) /\ Dns!name = trace[l] /\ trace \in [1..l -> Names]
  BY ZenonT(30), <1>0, NameTyped
<1>r. PICK r \in answers : r.owner = Dns!name /\ r.type = "CNAME" /\ r.value = alias
  BY <1>a, ZenonT(30) DEF Dns!Aliases
<1>1. alias \in Names /\ [owner |-> Dns!name, type |-> "CNAME", value |-> alias] \in evidence
  <2>1. r \in evidence /\ r \in Records
    BY <1>0, <1>r, ZenonT(30)
  <2>2. r = [owner |-> r.owner, type |-> r.type, value |-> r.value] /\ r.value \in Names
    BY <1>r, <2>1, RecordIs, ZenonT(30)
  <2> QED BY <1>r, <2>1, <2>2
<1>2. /\ trace' \in Seq(Names) /\ trace' # <<>> /\ Len(trace') = l + 1 /\ DOMAIN trace' = 1..l + 1
      /\ trace'[l + 1] = alias /\ \A i \in 1..l : trace'[i] = trace[i]
  BY <1>0, <1>1, <1>a, <1>l DEF Dns!TypeOK
<1>3. Dns!name' = alias
  BY <1>2 DEF Dns!name
<1>4. pc' = "match" => /\ answers' = answers /\ \E s \in answers : s.owner = alias
  BY <1>a, ZenonT(30)
<1>5. outcome = "none" /\ pc' \in {"match", "query"}
  BY <1>0, <1>a, ZenonT(30) DEF Dns!TypeOK
<1>6. Dns!TypeOK'
  <2>1. index' \in 1..Servers + 1 /\ (answers' = Absent \/ answers' = answers)
    BY <1>a, ZenonT(30) DEF TimeInv
  <2> QED BY <1>0, <1>2, <1>5, <2>1, ZenonT(30) DEF Dns!TypeOK
<1>7. Dns!ProofIsOwned'
  <2>1. l + 1 <= MaxCNAMEs + 1
    BY <1>a, <1>l DEF Dns!LookupAssumption
  <2>2. ASSUME NEW i \in 1..l + 1, NEW j \in 1..l + 1, trace'[i] = trace'[j] PROVE i = j
    <3>1. \A m \in 1..l : trace[m] # alias
      BY <1>a, <1>l, ZenonT(30) DEF Dns!Range
    <3>2. (i \in 1..l \/ i = l + 1) /\ (j \in 1..l \/ j = l + 1)
      BY <1>l
    <3>3. Dns!IsInjective(trace)
      BY ZenonT(30) DEF DnsInv, Dns!DnsVerdict, Dns!ProofIsOwned
    <3> QED BY <1>2, <1>l, <2>2, <3>1, <3>2, <3>3, ZenonT(30) DEF Dns!IsInjective
  <2>3. Dns!IsInjective(trace')
    BY <1>2, <2>2, ZenonT(30) DEF Dns!IsInjective
  <2>4. ASSUME NEW i \in 1..l
        PROVE  [owner |-> trace'[i], type |-> "CNAME", value |-> trace'[i + 1]] \in evidence'
    <3>1. CASE i = l
      BY <1>0, <1>1, <1>2, <1>l, <3>1, ZenonT(30)
    <3>2. CASE i \in 1..l - 1
      <4>1. i \in 1..Len(trace) - 1 /\ i + 1 \in 1..l
        BY <1>l, <3>2
      <4>2. [owner |-> trace[i], type |-> "CNAME", value |-> trace[i + 1]] \in evidence
        BY <4>1, ZenonT(30) DEF DnsInv, Dns!DnsVerdict, Dns!ProofIsOwned
      <4> QED BY <1>0, <1>2, <4>1, <4>2, ZenonT(30)
    <3> QED BY <3>1, <3>2
  <2>5. Len(trace') - 1 = l
    BY <1>2
  <2>6. outcome' # "valid"
    BY <1>0, <1>5, ZenonT(30)
  <2> QED BY <1>2, <2>1, <2>3, <2>4, <2>5, <2>6, ZenonT(30) DEF Dns!ProofIsOwned
<1>8. Dns!Honest => OfZone'
  <2>0. SUFFICES ASSUME Dns!Honest PROVE OfZone'
    OBVIOUS
  <2>1. Complete /\ last = "retry"
    BY <1>0, <2>0, ZenonT(30) DEF DnsInv, OfZone
  <2>2. Dns!Aliases(zone, Dns!name) = {alias} /\ ~Dns!Conflicting(zone, Dns!name)
    BY <1>0, <1>a, <2>1, AnswersAgree, ZenonT(30) DEF Dns!Conflicting
  <2>3. pc' = "match" => Complete'
    BY <1>0, <1>3, <1>4, <2>1, ZenonT(30) DEF Complete
  <2>4. ASSUME NEW i \in 1..l
        PROVE  ~Dns!Conflicting(zone, trace'[i]) /\ Dns!Aliases(zone, trace'[i]) = {trace'[i + 1]}
    <3>1. CASE i = l
      BY <1>2, <1>l, <2>2, <3>1, ZenonT(30)
    <3>2. CASE i \in 1..l - 1
      <4>1. i \in 1..Len(trace) - 1 /\ i + 1 \in 1..l
        BY <1>l, <3>2
      <4>2. ~Dns!Conflicting(zone, trace[i]) /\ Dns!Aliases(zone, trace[i]) = {trace[i + 1]}
        BY <2>0, <4>1, ZenonT(30) DEF DnsInv, OfZone
      <4> QED BY <1>2, <4>1, <4>2, ZenonT(30)
    <3> QED BY <3>1, <3>2
  <2>5. ASSUME NEW c \in Dns!Chains, Dns!LeadsToProof(c)
        PROVE  l + 1 <= Len(c) /\ \A i \in 1..l + 1 : c[i] = trace'[i]
    <3>1. Len(c) > Len(trace) /\ Len(c) \in Nat /\ {alias} = {c[l + 1]}
      BY <1>l, <2>0, <2>2, <2>5, ChainAtName, ZenonT(30)
    <3>2. l + 1 <= Len(c)
      BY <1>l, <3>1
    <3>3. \A i \in 1..l : c[i] = trace'[i]
      BY <1>2, <1>l, <2>0, <2>5, ZenonT(30) DEF DnsInv, OfZone
    <3>4. \A i \in 1..l + 1 : i \in 1..l \/ i = l + 1
      BY <1>l
    <3> QED BY <1>2, <3>1, <3>2, <3>3, <3>4, ZenonT(30)
  <2>6. Len(trace') - 1 = l
    BY <1>2
  <2>7. \A c : Dns!LeadsToProof(c)' <=> Dns!LeadsToProof(c)
    BY <1>0 DEF Dns!LeadsToProof
  <2> QED BY <1>0, <1>2, <2>1, <2>3, <2>4, <2>5, <2>6, <2>7, ZenonT(30) DEF OfZone
<1>9. trace'[1] = Question
  BY <1>2, <1>l DEF DnsInv
<1>10. Dns!VerdictIsOfZone' /\ Dns!OutageIsRetried'
  BY <1>0, <1>5, ZenonT(30) DEF Dns!VerdictIsOfZone, Dns!OutageIsRetried
<1> QED BY <1>0, <1>4, <1>6, <1>7, <1>8, <1>9, <1>10, SameZone, ZenonT(30) DEF DnsInv, Dns!DnsVerdict

(* Every step keeps DnsInv. *)
LEMMA DnsStep ==
  ASSUME Dns!LookupAssumption, DnsInv /\ TimeInv, [Dns!Next]_(Dns!vars)
  PROVE  DnsInv' /\ TimeInv'
<1>1. TimeInv'
  BY TimeStep, ZenonT(30) DEF DnsInv
<1>2. CASE Dns!GiveUp
  <2>1. CASE Dns!End("retry")
    BY <1>1, <2>1, LookupEnds, ZenonT(30)
  <2>2. CASE Dns!End(last)
    <3>1. last = "final" => ~Dns!Honest /\ heard \cap {"oversize", "invalid", "answers"} # {}
      BY ZenonT(30) DEF DnsInv, OfZone
    <3>2. last \in {"retry", "final"}
      BY ZenonT(30) DEF DnsInv, Dns!TypeOK
    <3> QED BY <1>1, <2>2, <3>1, <3>2, LookupEnds, ZenonT(30)
  <2> QED BY <1>2, <2>1, <2>2, ZenonT(30) DEF Dns!GiveUp
<1>3. CASE UNCHANGED Dns!vars
  <2>1. UNCHANGED <<elapsed, zone, pc, trace, answers, index, until, last, outcome, heard, evidence>>
    BY <1>3, ZenonT(30) DEF Dns!vars
  <2>2. Dns!TypeOK' /\ Dns!OutageIsRetried'
    BY <2>1, ZenonT(30) DEF DnsInv, Dns!TypeOK, Dns!OutageIsRetried
  <2>3. (Complete' <=> Complete) /\ \A c : Dns!LeadsToProof(c)' <=> Dns!LeadsToProof(c)
    BY <2>1, ZenonT(30) DEF Complete, Dns!name, Dns!LeadsToProof
  <2>4. OfZone' <=> OfZone
    BY <2>1, <2>3, ZenonT(30) DEF OfZone
  <2>5. Dns!VerdictIsOfZone'
    BY <2>1, <2>3, SameZone, ZenonT(30) DEF DnsInv, Dns!DnsVerdict, Dns!VerdictIsOfZone
  <2>6. Dns!ProofIsOwned'
    BY ZenonT(30), <2>1 DEF DnsInv, Dns!DnsVerdict, Dns!ProofIsOwned, Dns!name
  <2> QED BY <1>1, <2>1, <2>2, <2>4, <2>5, <2>6, SameZone, ZenonT(30) DEF DnsInv, Dns!DnsVerdict
<1> QED BY <1>1, <1>2, <1>3, QueryStep, FoundStep, NoProofStep, FollowStep, ZenonT(30) DEF Dns!Next

(* A lookup begins with the question and all of its time. *)
LEMMA DnsInit ==
  ASSUME Dns!LookupAssumption, Dns!Init
  PROVE  DnsInv /\ TimeInv
<1>0. /\ Servers \in Nat \ {0} /\ Timeout \in Nat /\ MaxCNAMEs \in Nat /\ Question \in Names
  BY DEF Dns!LookupAssumption
<1>1. /\ elapsed = 0 /\ pc = "query" /\ trace = <<Question>> /\ answers = Absent
      /\ zone \in (SUBSET Records) \cup {Absent}
      /\ index = 1 /\ until = 0 /\ last = "retry" /\ outcome = "none" /\ heard = {} /\ evidence = {}
  BY DEF Dns!Init
<1>2. /\ trace \in Seq(Names) /\ Len(trace) = 1 /\ trace # <<>> /\ trace[1] = Question
      /\ DOMAIN trace = 1..1
  BY <1>0, <1>1
<1>3. TimeInv
  <2>1. Servers * Share <= Timeout
    BY <1>0 DEF Share
  <2>2. Timeout - elapsed >= (Servers - index + 1) * Share
    BY <1>0, <1>1, <2>1 DEF Share
  <2> QED BY <1>0, <1>1, <2>2 DEF TimeInv
<1>4. Dns!TypeOK
  <2>1. elapsed \in 0..Timeout /\ until \in 0..Timeout /\ index \in 1..Servers + 1
    BY <1>0, <1>1
  <2> QED BY <1>1, <1>2, <2>1, ZenonT(30) DEF Dns!TypeOK
<1>5. Dns!ProofIsOwned
  <2>1. 1 <= MaxCNAMEs + 1 /\ 1..Len(trace) - 1 = {}
    BY <1>0, <1>2
  <2>2. Dns!IsInjective(trace)
    BY <1>2 DEF Dns!IsInjective
  <2> QED BY <1>1, <1>2, <2>1, <2>2, ZenonT(30) DEF Dns!ProofIsOwned
<1>6. OfZone
  <2>1. 1..Len(trace) - 1 = {} /\ 1..Len(trace) = {1}
    BY <1>2
  <2>2. \A c \in Dns!Chains : Dns!LeadsToProof(c) => Len(trace) <= Len(c) /\ c[1] = trace[1]
    BY <1>0, <1>2 DEF Dns!LeadsToProof, Dns!Chains
  <2> QED BY <1>1, <2>1, <2>2, ZenonT(30) DEF OfZone
<1> QED BY <1>1, <1>2, <1>3, <1>4, <1>5, <1>6, ZenonT(30)
        DEF DnsInv, Dns!DnsVerdict, Dns!VerdictIsOfZone, Dns!OutageIsRetried

(* The verdict of dns-01 is that of the names: for every zone that the     *)
(* servers answer from, and, whatever servers answer, only along a chain   *)
(* of aliases that was answered link by link (lookup).                     *)
THEOREM DnsVerdictHolds ==
  ASSUME Dns!LookupAssumption
  PROVE  Dns!Spec => []DnsVerdict
<1>1. Dns!Init => DnsInv /\ TimeInv
  BY DnsInit
<1>2. (DnsInv /\ TimeInv) /\ [Dns!Next]_(Dns!vars) => (DnsInv /\ TimeInv)'
  BY DnsStep
<1>3. DnsInv /\ TimeInv => DnsVerdict
  BY DEF DnsInv, DnsVerdict
<1> QED BY <1>1, <1>2, <1>3, PTL DEF Dns!Spec

(* Each of the servers that are asked for the name has an equal part of    *)
(* the time at least, for every number of servers, every timeout and       *)
(* however slow those before it were (the reserve in query).               *)
THEOREM ServersHaveTime ==
  ASSUME Dns!LookupAssumption
  PROVE  Dns!Spec => []EveryServerHasTime
<1>1. Dns!Init => DnsInv /\ TimeInv
  BY DnsInit
<1>2. (DnsInv /\ TimeInv) /\ [Dns!Next]_(Dns!vars) => (DnsInv /\ TimeInv)'
  BY DnsStep
<1>3. DnsInv /\ TimeInv => EveryServerHasTime
  BY ZenonT(30) DEF TimeInv, Share, Dns!EveryServerHasTime, EveryServerHasTime
<1> QED BY <1>1, <1>2, <1>3, PTL DEF Dns!Spec

-----------------------------------------------------------------------------
(* The connections of http-01 and tls-alpn-01. *)

(* Before a dial the port is one of the challenge and the addresses left   *)
(* are permitted, and a request may be begun only while one is left.       *)
HttpInv ==
  /\ Http!TypeOK /\ Http!DialsPermitted /\ Http!OutageIsRetried
  /\ \A k \in 1..Len(pending) : Http!Permits(pending[k])
  /\ stage = "check" => requests = 0
  /\ stage = "request" => kind = "http-01" /\ requests <= MaxRedirects
  /\ stage \in {"resolve", "dial", "proof"} => port \in Http!ChallengePorts

(* The end of a validation, in either of its forms, dials nothing.         *)
LEMMA HttpEnds ==
  ASSUME HttpInv, Http!Refute \/ Http!Retry
  PROVE  HttpInv'
<1>0. <<>> \in Seq(Addresses)
  OBVIOUS
<1>1. Http!TypeOK'
  BY ZenonT(30), <1>0 DEF HttpInv, Http!TypeOK, Http!Refute, Http!Retry
<1>2. Http!DialsPermitted' /\ Http!OutageIsRetried'
  BY DEF HttpInv, Http!DialsPermitted, Http!OutageIsRetried, Http!ChallengePorts, Http!Refute, Http!Retry
<1>3. pending' = <<>> /\ stage' = "done"
  BY DEF Http!Refute, Http!Retry
<1> QED BY <1>1, <1>2, <1>3 DEF HttpInv

(* An answer is used only if every address of it is permitted (resolve).   *)
LEMMA HttpResolves ==
  ASSUME HttpInv, stage = "resolve", NEW as \in Seq(Addresses), Http!Resolved(as)
  PROVE  HttpInv'
<1>1. CASE Http!Refute
  BY <1>1, HttpEnds
<1>2. CASE /\ Http!Acceptable(as) /\ pending' = as /\ stage' = "dial"
           /\ UNCHANGED <<kind, target, requests, port, verdict, dialled, refuted>>
  <2>1. Http!TypeOK'
    BY ZenonT(30), <1>2 DEF HttpInv, Http!TypeOK
  <2>2. Http!DialsPermitted' /\ Http!OutageIsRetried' /\ port' \in Http!ChallengePorts'
    BY <1>2 DEF HttpInv, Http!DialsPermitted, Http!OutageIsRetried, Http!ChallengePorts
  <2>3. \A k \in 1..Len(pending') : Http!Permits(pending'[k])
    BY ZenonT(30), <1>2 DEF Http!Acceptable, Http!Permits
  <2> QED BY ZenonT(30), <1>2, <2>1, <2>2, <2>3 DEF HttpInv, Http!Permits
<1> QED BY ZenonT(30), <1>1, <1>2 DEF Http!Resolved

(* Each step keeps HttpInv; a redirect begins again with CheckRedirect and *)
(* dials through the same checks.                                          *)
LEMMA HttpStep ==
  ASSUME Http!HttpAssumption, HttpInv, [Http!Next]_(Http!vars)
  PROVE  HttpInv'
<1>1. CASE Http!CheckRequest
  <2>1. CASE Http!Refute
    BY <2>1, HttpEnds
  <2>2. CASE ~Http!Refute
    <3>1. Http!TypeOK'
      BY <1>1, <2>2 DEF HttpInv, Http!TypeOK, Http!CheckRequest, Http!HttpAssumption
    <3>2. Http!DialsPermitted' /\ Http!OutageIsRetried'
      BY <1>1, <2>2 DEF HttpInv, Http!DialsPermitted, Http!OutageIsRetried, Http!ChallengePorts, Http!CheckRequest
    <3>3. stage' # "request" => port' \in Http!ChallengePorts' /\ stage' = "resolve"
      BY <1>1, <2>2 DEF Http!CheckRequest, Http!ChallengePorts
    <3>4. /\ stage' = "request" => kind' = "http-01" /\ requests' = 0
          /\ pending' = pending
      BY <1>1, <2>2 DEF HttpInv, Http!CheckRequest
    <3> QED BY <3>1, <3>2, <3>3, <3>4 DEF HttpInv, Http!Permits, Http!HttpAssumption
  <2> QED BY <2>1, <2>2
<1>2. CASE Http!Request
  <2>1. port' \in Http!ChallengePorts' /\ port' \in Ports \cup {TestPort}
    <3>1. stage = "request" /\ kind' = kind
      BY <1>2, ZenonT(30) DEF Http!Request
    <3>2. kind' = "http-01" /\ {80, 443} \subseteq Ports
      BY <3>1, ZenonT(30) DEF HttpInv, Http!HttpAssumption
    <3>3. \E p \in {80, 443} : port' = IF TestPort # 0 /\ p = 80 THEN TestPort ELSE p
      BY <1>2 DEF Http!Request
    <3> QED BY <3>2, <3>3 DEF Http!ChallengePorts
  <2>2. Http!TypeOK'
    BY <1>2, <2>1 DEF HttpInv, Http!TypeOK, Http!Request, Http!HttpAssumption
  <2>3. Http!DialsPermitted' /\ Http!OutageIsRetried'
    BY ZenonT(30), <1>2 DEF HttpInv, Http!DialsPermitted, Http!OutageIsRetried, Http!Request
  <2> QED BY <1>2, <2>1, <2>2, <2>3 DEF HttpInv, Http!Request, Http!Permits
<1>3. CASE Http!Resolve
  <2>1. CASE target.host \in Addresses /\ Http!Resolved(<<target.host>>)
    <3>1. <<target.host>> \in Seq(Addresses)
      BY <2>1
    <3> QED BY ZenonT(30), <1>3, <2>1, <3>1, HttpResolves DEF Http!Resolve
  <2>2. CASE \E as \in Answers : Http!Resolved(as)
    BY ZenonT(30), <1>3, <2>2, HttpResolves DEF Http!Resolve, Http!HttpAssumption
  <2>3. CASE Http!Retry \/ Http!Refute
    BY <2>3, HttpEnds
  <2> QED BY <1>3, <2>1, <2>2, <2>3 DEF Http!Resolve
<1>4. CASE Http!Dial
  <2>1. /\ pending \in Seq(Addresses) /\ pending # <<>> /\ Http!Permits(Head(pending))
        /\ Head(pending) \in Addresses
    BY <1>4 DEF HttpInv, Http!TypeOK, Http!Dial
  <2>2. port \in Http!ChallengePorts /\ port \in Ports \cup {TestPort}
    BY <1>4 DEF HttpInv, Http!Dial, Http!ChallengePorts, Http!HttpAssumption
  <2>3. PICK d : d = [ip |-> Head(pending).ip, port |-> port]
    BY ZenonT(30)
  <2>4. /\ d.ip \in Public \cup Allowed /\ d.port \in Http!ChallengePorts
        /\ d \in [ip : {a.ip : a \in Addresses}, port : Ports \cup {TestPort}]
    BY <2>1, <2>2, <2>3 DEF Http!Permits
  <2>5. dialled' = dialled \cup {d}
    BY <1>4, <2>3 DEF Http!Dial
  <2>6. pending' \in Seq(Addresses) /\ \A k \in 1..Len(pending') : Http!Permits(pending'[k])
    <3>1. /\ Tail(pending) \in Seq(Addresses)
          /\ \A k \in 1..Len(Tail(pending)) :
               Tail(pending)[k] = pending[k + 1] /\ k + 1 \in 1..Len(pending)
      BY <2>1
    <3>2. CASE pending' = <<>>
      BY <3>2
    <3>3. CASE pending' = Tail(pending)
      BY <3>1, <3>3 DEF HttpInv, Http!Permits
    <3> QED BY <1>4, <3>2, <3>3 DEF Http!Dial
  <2>7. Http!TypeOK'
    BY ZenonT(30), <1>4, <2>4, <2>5, <2>6 DEF HttpInv, Http!TypeOK, Http!Dial
  <2>8. Http!DialsPermitted' /\ Http!OutageIsRetried' /\ Http!ChallengePorts' = Http!ChallengePorts
    BY <1>4, <2>4, <2>5 DEF HttpInv, Http!DialsPermitted, Http!OutageIsRetried, Http!ChallengePorts, Http!Dial
  <2> QED BY <1>4, <2>2, <2>6, <2>7, <2>8 DEF HttpInv, Http!Dial, Http!Permits
<1>5. CASE Http!DialFails \/ Http!Breaks
  BY ZenonT(30), <1>5, HttpEnds DEF Http!DialFails, Http!Breaks
<1>6. CASE Http!Proof
  <2>1. CASE Http!Refute
    BY <2>1, HttpEnds
  <2>2. CASE ~Http!Refute
    <3>1. /\ stage' = "done" /\ verdict' = "valid"
          /\ UNCHANGED <<kind, target, requests, port, pending, dialled, refuted>>
      BY <1>6, <2>2 DEF Http!Proof
    <3>2. Http!TypeOK'
      BY ZenonT(30), <3>1 DEF HttpInv, Http!TypeOK
    <3> QED BY <3>1, <3>2
            DEF HttpInv, Http!DialsPermitted, Http!OutageIsRetried, Http!ChallengePorts, Http!Permits
  <2> QED BY <2>1, <2>2
<1>7. CASE Http!Redirect
  <2>1. CASE Http!Refute
    BY <2>1, HttpEnds
  <2>2. CASE ~Http!Refute
    <3>1. PICK t \in Http!Targets :
            /\ Http!RedirectOK(t) /\ target' = t /\ stage' = "request" /\ port' = 0
            /\ UNCHANGED <<kind, requests, pending, verdict, dialled, refuted>>
      BY <1>7, <2>2 DEF Http!Redirect
    <3>2. Http!TypeOK'
      BY ZenonT(30), <1>7, <3>1 DEF HttpInv, Http!TypeOK, Http!Redirect
    <3> QED BY <1>7, <3>1, <3>2
            DEF HttpInv, Http!DialsPermitted, Http!OutageIsRetried, Http!ChallengePorts, Http!Permits,
                Http!Redirect, Http!RedirectOK
  <2> QED BY <2>1, <2>2
<1>8. CASE UNCHANGED Http!vars
  <2>1. UNCHANGED <<kind, stage, target, requests, port, pending, verdict, dialled, refuted>>
    BY <1>8, ZenonT(30) DEF Http!vars
  <2>2. Http!TypeOK'
    BY <2>1, ZenonT(30) DEF HttpInv, Http!TypeOK
  <2>3. Http!DialsPermitted' /\ Http!OutageIsRetried'
    BY <2>1 DEF HttpInv, Http!DialsPermitted, Http!OutageIsRetried, Http!ChallengePorts, Http!Permits
  <2>4. \A k \in 1..Len(pending') : Http!Permits(pending'[k])
    BY <2>1, ZenonT(30) DEF HttpInv
  <2>5. /\ stage' = "check" => requests' = 0
        /\ stage' = "request" => kind' = "http-01" /\ requests' <= MaxRedirects
        /\ stage' \in {"resolve", "dial", "proof"} => port' \in Http!ChallengePorts'
    BY <2>1, ZenonT(30) DEF HttpInv, Http!ChallengePorts
  <2> QED BY <2>2, <2>3, <2>4, <2>5, ZenonT(30) DEF HttpInv, Http!Permits
<1> QED BY <1>1, <1>2, <1>3, <1>4, <1>5, <1>6, <1>7, <1>8 DEF Http!Next

(* A validation begins with nothing dialled. *)
LEMMA HttpInit ==
  ASSUME Http!HttpAssumption, Http!Init
  PROVE  HttpInv
<1>1. target \in Http!Targets
  BY DEF Http!Init, Http!Targets, Http!HttpAssumption
<1>2. /\ kind \in Http!Kinds /\ stage = "check" /\ requests = 0 /\ port = 0 /\ pending = <<>>
      /\ verdict = "none" /\ dialled = {} /\ refuted = FALSE /\ <<>> \in Seq(Addresses)
  BY DEF Http!Init
<1>3. requests \in 0..MaxRedirects + 1
  BY <1>2 DEF Http!HttpAssumption
<1>4. Http!TypeOK
  BY <1>1, <1>2, <1>3, ZenonT(30) DEF Http!TypeOK
<1> QED BY <1>4 DEF HttpInv, Http!Init, Http!DialsPermitted, Http!OutageIsRetried

(* Every dial goes to an address and a port that the egress policy         *)
(* permits, for every resolver, every chain of redirects and every policy  *)
(* (resolve, dial, HTTP01.dial, CheckRedirect).                            *)
THEOREM HttpDialsPermitted ==
  ASSUME Http!HttpAssumption
  PROVE  Http!Spec => []DialsPermitted
<1>1. Http!Init => HttpInv
  BY HttpInit
<1>2. HttpInv /\ [Http!Next]_(Http!vars) => HttpInv'
  BY HttpStep
<1>3. HttpInv => DialsPermitted
  BY DEF HttpInv, DialsPermitted
<1> QED BY <1>1, <1>2, <1>3, PTL DEF Http!Spec

(* A failure of the network alone refutes no challenge: servers that are   *)
(* down, late or do not know the name yet, in whichever order they fail,   *)
(* and connections that break at whichever request of a chain of redirects *)
(* (parseResponse, query, retryable).                                      *)
THEOREM OutagesAreRetried ==
  ASSUME Dns!LookupAssumption, Http!HttpAssumption
  PROVE  Dns!Spec /\ Http!Spec => []OutageIsRetried
<1>1. Dns!Init => DnsInv /\ TimeInv
  BY DnsInit
<1>2. (DnsInv /\ TimeInv) /\ [Dns!Next]_(Dns!vars) => (DnsInv /\ TimeInv)'
  BY DnsStep
<1>3. Http!Init => HttpInv
  BY HttpInit
<1>4. HttpInv /\ [Http!Next]_(Http!vars) => HttpInv'
  BY HttpStep
<1>5. DnsInv /\ HttpInv => OutageIsRetried
  BY ZenonT(30) DEF DnsInv, HttpInv, OutageIsRetried
<1> QED BY <1>1, <1>2, <1>3, <1>4, <1>5, PTL DEF Dns!Spec, Http!Spec
=============================================================================
