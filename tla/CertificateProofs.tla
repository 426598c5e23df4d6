------------------------- MODULE CertificateProofs --------------------------
(***************************************************************************)
(* What a certificate attests and how it is revoked: the proofs about      *)
(* Revocation, for every set of requests, reasons and replacing orders and *)
(* every bound on operations and failures, and those about TokenGrants,    *)
(* for every set of names, tokens and authorities.                         *)
(***************************************************************************)
EXTENDS Revocation, TokenGrants, TLAPS

Holding == {"call", "record", "lookup", "abandon"}
ReqRec == [pc : PCs, copy : CertRec, reason : Reasons \cup {None}, tries : 0..1,
           reply : Replies]

(* The operations that are known anywhere, each with its reason: to the    *)
(* CA, on the certificate, and in the copies of the requests.              *)
Pair(c) == <<c.op, c.reason>>
OfCert == {x \in {Pair(cert)} : cert.op # None}
OfRequests == {Pair(req[q].copy) : q \in {p \in Requests : req[p].pc \in Holding}}
Pairs == calls \cup OfCert \cup OfRequests

(* An operation has been drawn and has one reason wherever it is known. *)
PairsOK ==
  /\ \A x \in Pairs : x \in (1..drawn) \X Reasons
  /\ \A x, y \in Pairs : x[1] = y[1] => x[2] = y[2]

(* What a request r under way knows of the certificate and of the CA.  The *)
(* last conjunct is of operations whose refusals the CA holds on to.       *)
HeldOK(r) == r.pc # "idle" =>
  /\ r.reason \in Reasons /\ ~r.copy.revoked /\ r.copy.rev <= cert.rev
  /\ r.copy.rev = cert.rev =>
       /\ ~cert.revoked /\ r.copy.by = cert.by
       /\ r.pc \in {"begin", "call", "abandon"} => r.copy.op = cert.op
  /\ r.pc = "begin" => r.copy.op = None
  /\ r.pc \in {"record", "lookup"} => ca[r.copy.op] = "done" /\ Pair(r.copy) \in calls
  /\ r.copy.op \in FinalRefusals =>
       /\ r.pc = "call" => cert.revoked \/ cert.op = r.copy.op \/ ca[r.copy.op] = "refused"
       /\ r.pc = "abandon" => ca[r.copy.op] = "refused"
AllHeld == \A q \in Requests : HeldOK(req[q])

RevocationInv ==
  /\ TypeOK /\ PairsOK /\ AllHeld
  /\ RevocationIsTrue /\ AnsweredRevoked /\ ClaimKept
  /\ AcceptedIsKept

(* An answer is true of the certificate. *)
TrueReply(r) == r.reply \in {"ok", "already"} => cert.revoked

-----------------------------------------------------------------------------
(* Operations whose refusals are final are operations. *)
LEMMA FinalOps == FinalRefusals \subseteq Ops
  BY RevocationAssumption DEF Ops

(* At the start nothing is known. *)
LEMMA InitHolds == Init => RevocationInv
<1> SUFFICES ASSUME Init PROVE RevocationInv
  OBVIOUS
<1>1. NewCert \in CertRec /\ NewCert.op = None /\ ~NewCert.revoked
  BY DEF NewCert, CertRec
<1>2. TypeOK
  BY <1>1, RevocationAssumption DEF Init, TypeOK, PCs, Replies
<1>3. Pairs = {}
  BY <1>1 DEF Init, Pairs, OfCert, OfRequests, Holding
<1>4. AllHeld /\ AnsweredRevoked
  BY DEF Init, AllHeld, HeldOK, AnsweredRevoked
<1>5. RevocationIsTrue /\ ClaimKept /\ AcceptedIsKept
  BY <1>1, FinalOps DEF Init, RevocationIsTrue, ClaimKept, AcceptedIsKept
<1> QED BY <1>2, <1>3, <1>4, <1>5 DEF RevocationInv, PairsOK

(* A step that brings up no operation but a fresh one keeps one reason to  *)
(* an operation.                                                           *)
LEMMA PairsKept ==
  ASSUME RevocationInv, NEW r \in Reasons, drawn' \in Nat,
         \/ drawn' >= drawn /\ Pairs' \subseteq Pairs
         \/ drawn' = drawn + 1 /\ Pairs' \subseteq Pairs \cup {<<drawn + 1, r>>}
  PROVE  PairsOK'
<1>1. drawn \in Nat
  BY RevocationAssumption DEF RevocationInv, TypeOK
<1>2. \A x \in Pairs : x \in (1..drawn) \X Reasons /\ x[1] \in 1..drawn
  BY DEF RevocationInv, PairsOK
<1>3. \A x, y \in Pairs : x[1] = y[1] => x[2] = y[2]
  BY DEF RevocationInv, PairsOK
<1>4. CASE drawn' >= drawn /\ Pairs' \subseteq Pairs
  <2>1. (1..drawn) \subseteq 1..drawn'
    BY <1>1, <1>4
  <2>2. \A x \in Pairs' : x \in (1..drawn') \X Reasons
    BY <1>2, <1>4, <2>1
  <2>3. \A x, y \in Pairs' : x[1] = y[1] => x[2] = y[2]
    BY <1>3, <1>4
  <2> QED BY <2>2, <2>3 DEF PairsOK
<1>5. CASE drawn' = drawn + 1 /\ Pairs' \subseteq Pairs \cup {<<drawn + 1, r>>}
  <2> DEFINE n == <<drawn + 1, r>>
  <2>0. n[1] = drawn + 1 /\ n[2] = r /\ n \in (1..drawn') \X Reasons
    BY <1>1, <1>5
  <2>1. (1..drawn) \subseteq 1..drawn' /\ drawn + 1 \notin 1..drawn
    BY <1>1, <1>5
  <2> HIDE DEF n
  <2>2. \A x \in Pairs' : x \in (1..drawn') \X Reasons
    <3>1. \A x \in Pairs : x \in (1..drawn') \X Reasons
      BY <1>2, <2>1
    <3> QED BY <1>5, <2>0, <3>1 DEF n
  <2>3. \A x, y \in Pairs' : x[1] = y[1] => x[2] = y[2]
    <3>1. \A x \in Pairs : x[1] # n[1]
      BY <1>2, <2>0, <2>1
    <3>2. \A x \in Pairs' : x \in Pairs \/ x = n
      BY <1>5 DEF n
    <3> QED BY <1>3, <3>1, <3>2
  <2> QED BY <2>2, <2>3 DEF PairsOK
<1> QED BY <1>4, <1>5

(* A request of a known operation has it, and its reason, in its copy.     *)
LEMMA HeldPair ==
  ASSUME RevocationInv, NEW q \in Requests, req[q].pc \in Holding
  PROVE  /\ Pair(req[q].copy) \in Pairs
         /\ req[q].copy.op \in Ops /\ req[q].copy.reason \in Reasons
<1>1. Pair(req[q].copy) \in Pairs
  BY DEF Pairs, OfRequests
<1>2. Pair(req[q].copy) \in (1..drawn) \X Reasons
  BY <1>1 DEF RevocationInv, PairsOK
<1>3. req[q].copy.op \in 1..drawn /\ req[q].copy.reason \in Reasons
  BY <1>2 DEF Pair
<1>4. (1..drawn) \subseteq Ops
  BY RevocationAssumption DEF RevocationInv, TypeOK, Ops
<1> QED BY <1>1, <1>3, <1>4

-----------------------------------------------------------------------------
(* Steps of one request. *)

(* Only the request q moves. *)
OnlyRequest(q) ==
  /\ req' \in [Requests -> ReqRec]
  /\ \A p \in Requests \ {q} : req'[p] = req[p]

Bounds ==
  drawn' \in 0..MaxOps /\ drawn' >= drawn /\ faults' \in 0..MaxFaults

(* The request q moves and nothing else does. *)
Moves(q) ==
  /\ UNCHANGED <<cert, ca, calls, rorder>> /\ Bounds /\ OnlyRequest(q)
  /\ HeldOK(req'[q]) /\ TrueReply(req'[q])
  /\ req'[q].pc \in Holding => Pair(req'[q].copy) \in Pairs

(* A request that moves on keeps the invariant. *)
LEMMA MovesKeeps ==
  ASSUME RevocationInv, NEW q \in Requests, Moves(q)
  PROVE  RevocationInv'
<1>1. /\ cert' = cert /\ ca' = ca /\ calls' = calls /\ rorder' = rorder
      /\ OnlyRequest(q) /\ Bounds
  BY DEF Moves
<1>2. TypeOK'
  BY <1>1 DEF RevocationInv, TypeOK, OnlyRequest, Bounds, ReqRec
<1>3. PairsOK'
  <2>1. ASSUME NEW x \in OfRequests' PROVE x \in Pairs
    <3>1. PICK p \in Requests : req'[p].pc \in Holding /\ x = Pair(req'[p].copy)
      BY <2>1 DEF OfRequests
    <3>2. CASE p = q
      BY <3>1, <3>2 DEF Moves
    <3>3. CASE p # q
      BY <1>1, <3>1, <3>3 DEF OnlyRequest, Pairs, OfRequests
    <3> QED BY <3>2, <3>3
  <2>2. OfCert' = OfCert
    BY <1>1 DEF OfCert, Pair
  <2>3. Pairs' \subseteq Pairs
    BY <1>1, <2>1, <2>2 DEF Pairs
  <2>4. drawn' \in Nat /\ drawn' >= drawn
    BY <1>1, RevocationAssumption DEF Bounds
  <2>5. CASE Pairs' = {}
    BY <2>5 DEF PairsOK
  <2>6. CASE \E r \in Reasons : TRUE
    BY <2>3, <2>4, <2>6, PairsKept
  <2>7. Pairs' # {} => \E r \in Reasons : TRUE
    BY <2>3 DEF RevocationInv, PairsOK
  <2> QED BY <2>5, <2>6, <2>7
<1>4. ASSUME NEW p \in Requests PROVE HeldOK(req[p])' /\ TrueReply(req[p])'
  <2>1. HeldOK(req'[p]) /\ TrueReply(req'[p])
    BY <1>1 DEF Moves, OnlyRequest, RevocationInv, AllHeld, AnsweredRevoked, TrueReply
  <2> QED BY <1>1, <2>1 DEF HeldOK, TrueReply
<1>5. RevocationIsTrue' /\ ClaimKept' /\ AcceptedIsKept'
  BY <1>1 DEF RevocationInv, RevocationIsTrue, ClaimKept, AcceptedIsKept
<1>6. AllHeld' /\ AnsweredRevoked'
  BY <1>4 DEF AllHeld, AnsweredRevoked, TrueReply
<1> QED BY <1>2, <1>3, <1>5, <1>6 DEF RevocationInv

(* What a request is after it was answered. *)
LEMMA AnswerShape ==
  ASSUME TypeOK, NEW q \in Requests, NEW a \in Replies, Answer(q, a)
  PROVE  OnlyRequest(q) /\ req'[q].pc = "idle" /\ req'[q].reply = a /\ req'[q].copy = req[q].copy
  BY ZenonT(30) DEF TypeOK, Answer, OnlyRequest, ReqRec, PCs

(* What it is after it was sent on. *)
LEMMA GotoShape ==
  ASSUME TypeOK, NEW q \in Requests, NEW pc \in PCs, Goto(q, pc)
  PROVE  /\ OnlyRequest(q) /\ req'[q].pc = pc /\ req'[q].copy = req[q].copy
         /\ req'[q].reason = req[q].reason /\ req'[q].reply = req[q].reply
  BY DEF TypeOK, Goto, OnlyRequest, ReqRec

(* A request that is answered, truthfully, moves on. *)
LEMMA AnswerMoves ==
  ASSUME RevocationInv, NEW q \in Requests, NEW a \in Replies, Answer(q, a),
         a \in {"ok", "already"} => cert.revoked,
         UNCHANGED <<cert, ca, calls, rorder>>, Bounds
  PROVE  Moves(q)
<1>1. OnlyRequest(q) /\ req'[q].pc = "idle" /\ req'[q].reply = a
  BY AnswerShape DEF RevocationInv
<1> QED BY <1>1 DEF Moves, HeldOK, TrueReply, Holding

(* Bounds of the steps that draw nothing and do not fail. *)
LEMMA SameBounds ==
  ASSUME RevocationInv, UNCHANGED <<drawn, faults>>
  PROVE  Bounds
  BY RevocationAssumption DEF RevocationInv, TypeOK, Bounds

(* The switch of beginRevocation moves a request on: its copy is the       *)
(* certificate itself.                                                     *)
LEMMA ProceedMoves ==
  ASSUME RevocationInv, NEW q \in Requests, NEW r \in Reasons, NEW n \in 0..1,
         Proceed(q, cert, r, n), UNCHANGED <<cert, ca, calls, rorder, drawn, faults>>
  PROVE  Moves(q)
<1>0. Bounds
  BY SameBounds
<1>1. CASE cert.revoked
  <2>1. Answer(q, "already")
    BY <1>1 DEF Proceed, Answer
  <2> QED BY <1>0, <1>1, <2>1, AnswerMoves DEF Replies
<1>2. CASE ~cert.revoked
  <2> DEFINE s == [pc |-> IF cert.op = None THEN "begin" ELSE "call",
                   copy |-> cert, reason |-> r, tries |-> n, reply |-> "none"]
  <2>0. cert \in CertRec /\ cert.rev \in Nat
    BY DEF RevocationInv, TypeOK, CertRec
  <2>1. s \in ReqRec
    BY <2>0 DEF ReqRec, PCs, Replies
  <2>2. req' = [req EXCEPT ![q] = s]
    BY <1>2 DEF Proceed
  <2>3. /\ s.copy = cert /\ s.reason = r /\ s.reply = "none"
        /\ s.pc = IF cert.op = None THEN "begin" ELSE "call"
    OBVIOUS
  <2> HIDE DEF s
  <2>4. OnlyRequest(q) /\ req'[q] = s
    BY <2>1, <2>2 DEF RevocationInv, TypeOK, OnlyRequest, ReqRec
  <2>5. HeldOK(s) /\ TrueReply(s)
    BY <1>2, <2>0, <2>3 DEF HeldOK, TrueReply
  <2>6. s.pc \in Holding => Pair(s.copy) \in Pairs
    BY <2>3 DEF Holding, Pairs, OfCert
  <2> QED BY <1>0, <2>4, <2>5, <2>6 DEF Moves
<1> QED BY <1>1, <1>2

-----------------------------------------------------------------------------
(* Writes of the certificate. *)

(* The request q writes the certificate, which was not revoked: no claim   *)
(* is lost, a revocation is true, and an operation goes only when the CA   *)
(* has refused it.                                                         *)
Writes(q) ==
  /\ UNCHANGED <<ca, calls, rorder>> /\ Bounds /\ OnlyRequest(q)
  /\ ~cert.revoked
  /\ cert' \in CertRec /\ cert'.rev = cert.rev + 1 /\ cert'.by = cert.by
  /\ cert'.revoked => ca[cert'.op] = "done" /\ Pair(cert') \in calls
  /\ \A o \in FinalRefusals :
       cert.op = o => cert'.revoked \/ cert'.op = o \/ ca[o] = "refused"
  /\ HeldOK(req[q])' /\ TrueReply(req[q])' /\ PairsOK'

(* Every other copy is left behind by a write. *)
LEMMA WritesKeeps ==
  ASSUME RevocationInv, NEW q \in Requests, Writes(q)
  PROVE  RevocationInv'
<1>1. ca' = ca /\ calls' = calls /\ rorder' = rorder /\ OnlyRequest(q) /\ Bounds
  BY DEF Writes
<1>2. cert' \in CertRec /\ cert'.rev = cert.rev + 1 /\ cert'.by = cert.by /\ cert.rev \in Nat
  BY DEF Writes, RevocationInv, TypeOK, CertRec
<1>3. TypeOK'
  BY <1>1, <1>2 DEF RevocationInv, TypeOK, OnlyRequest, Bounds, ReqRec
<1>4. ASSUME NEW p \in Requests PROVE HeldOK(req[p])' /\ TrueReply(req[p])'
  <2>1. CASE p = q
    BY <2>1 DEF Writes
  <2>2. CASE p # q
    <3>1. req'[p] = req[p] /\ HeldOK(req[p]) /\ req[p] \in ReqRec
      BY <1>1, <2>2 DEF OnlyRequest, RevocationInv, AllHeld, TypeOK, ReqRec
    <3>2. req[p].copy.rev \in Nat
      BY <3>1 DEF ReqRec, CertRec
    <3>3. TrueReply(req[p])
      BY DEF RevocationInv, AnsweredRevoked, TrueReply
    <3>4. TrueReply(req[p])'
      BY <3>1, <3>3 DEF TrueReply, Writes
    <3>5. req[p].pc # "idle" => req[p].copy.rev <= cert.rev
      BY <3>1 DEF HeldOK
    <3>6. req[p].pc # "idle" => req[p].copy.rev <= cert'.rev /\ req[p].copy.rev # cert'.rev
      BY <1>2, <3>2, <3>5
    <3>7. req[p].copy.op \in FinalRefusals /\ req[p].pc = "call" =>
            cert'.revoked \/ cert'.op = req[p].copy.op \/ ca[req[p].copy.op] = "refused"
      <4>1. req[p].pc = "call" => req[p].copy.op \in Ops
        BY HeldPair DEF Holding
      <4>2. req[p].copy.op \in FinalRefusals /\ req[p].pc = "call" =>
              cert.op = req[p].copy.op \/ ca[req[p].copy.op] = "refused"
        BY <3>1 DEF HeldOK, Writes
      <4> QED BY <4>1, <4>2 DEF Writes
    <3> QED BY <1>1, <3>1, <3>4, <3>6, <3>7 DEF HeldOK
  <2> QED BY <2>1, <2>2
<1>5. RevocationIsTrue'
  BY <1>1 DEF Writes, RevocationIsTrue, Pair
<1>6. ClaimKept'
  BY <1>1, <1>2 DEF RevocationInv, ClaimKept
<1>7. AcceptedIsKept'
  <2> SUFFICES ASSUME NEW o \in FinalRefusals, ca[o] = "done"
               PROVE  cert'.revoked \/ cert'.op = o
    BY <1>1 DEF AcceptedIsKept
  <2>1. cert.op = o
    BY DEF RevocationInv, AcceptedIsKept, Writes
  <2> QED BY <2>1 DEF Writes
<1>8. AllHeld' /\ AnsweredRevoked'
  BY <1>4 DEF AllHeld, AnsweredRevoked, TrueReply
<1> QED BY <1>3, <1>5, <1>6, <1>7, <1>8 DEF RevocationInv, Writes

(* The record UpdateCertificate stores, by its fields. *)
LEMMA UpdateShape ==
  ASSUME NEW c \in CertRec, cert \in CertRec, UpdateCertificate(c)
  PROVE  /\ cert' \in CertRec /\ cert'.rev = cert.rev + 1 /\ c.rev = cert.rev
         /\ cert'.revoked = c.revoked /\ cert'.op = c.op /\ cert'.reason = c.reason
         /\ cert'.by = c.by
  BY DEF UpdateCertificate, Current, CertRec

(* beginRevocation over a current copy. *)
LEMMA BeginWrites ==
  ASSUME RevocationInv, NEW q \in Requests, BeginRevocation(q), cert' # cert
  PROVE  Writes(q)
<1> DEFINE k == req[q].copy
           c == [k EXCEPT !.op = drawn + 1, !.reason = req[q].reason]
<1>1. /\ req[q].pc = "begin" /\ drawn < MaxOps /\ drawn' = drawn + 1
      /\ UpdateCertificate(c) /\ req' = [req EXCEPT ![q].pc = "call", ![q].copy = cert']
      /\ ca' = ca /\ calls' = calls /\ rorder' = rorder /\ faults' = faults
  BY DEF BeginRevocation
<1>2. drawn \in Nat /\ drawn + 1 \in Ops /\ Bounds
  BY <1>1, RevocationAssumption DEF RevocationInv, TypeOK, Ops, Bounds
<1>3. HeldOK(req[q]) /\ req[q] \in ReqRec /\ cert \in CertRec
  BY DEF RevocationInv, AllHeld, TypeOK, ReqRec
<1>4. req[q].reason \in Reasons /\ ~k.revoked /\ k.op = None
  BY <1>1, <1>3 DEF HeldOK
<1>5. k \in CertRec
  BY <1>3 DEF ReqRec
<1>6. /\ c \in CertRec /\ c.revoked = k.revoked /\ c.op = drawn + 1
      /\ c.reason = req[q].reason /\ c.by = k.by /\ c.rev = k.rev
  BY Zenon, <1>2, <1>4, <1>5 DEF CertRec
<1> HIDE DEF c
<1>7. /\ cert' \in CertRec /\ cert'.rev = cert.rev + 1 /\ k.rev = cert.rev
      /\ ~cert'.revoked /\ cert'.op = drawn + 1 /\ cert'.reason = req[q].reason
      /\ cert'.by = k.by
  BY <1>1, <1>3, <1>4, <1>6, UpdateShape
<1>8. ~cert.revoked /\ k.by = cert.by /\ cert.op = None
  BY <1>1, <1>3, <1>4, <1>7 DEF HeldOK
<1>9. /\ OnlyRequest(q) /\ req'[q].pc = "call" /\ req'[q].copy = cert'
      /\ req'[q].reason = req[q].reason /\ req'[q].reply = req[q].reply
  BY ZenonT(30), <1>1, <1>7 DEF RevocationInv, TypeOK, OnlyRequest, ReqRec, PCs
<1>10. HeldOK(req[q])'
  <2>1. cert'.rev \in Nat
    BY <1>7 DEF CertRec
  <2> QED BY <1>4, <1>7, <1>9, <2>1 DEF HeldOK
<1>11. TrueReply(req[q])'
  BY <1>8, <1>9 DEF TrueReply, RevocationInv, AnsweredRevoked
<1>12. PairsOK'
  <2> DEFINE n == <<drawn + 1, req[q].reason>>
  <2>1. Pair(cert') = n
    BY <1>7 DEF Pair
  <2> HIDE DEF n
  <2>2. OfCert' \subseteq {n}
    BY <2>1 DEF OfCert, Pair
  <2>3. ASSUME NEW x \in OfRequests' PROVE x \in Pairs \cup {n}
    <3>1. PICK p \in Requests : req'[p].pc \in Holding /\ x = Pair(req'[p].copy)
      BY <2>3 DEF OfRequests
    <3>2. CASE p = q
      BY <1>9, <2>1, <3>1, <3>2
    <3>3. CASE p # q
      BY <1>9, <3>1, <3>3 DEF OnlyRequest, Pairs, OfRequests
    <3> QED BY <3>2, <3>3
  <2>4. Pairs' \subseteq Pairs \cup {n}
    BY <1>1, <2>2, <2>3 DEF Pairs
  <2> QED BY <1>1, <1>2, <1>4, <2>4, PairsKept DEF n
<1>13. \A o \in FinalRefusals :
         cert.op = o => cert'.revoked \/ cert'.op = o \/ ca[o] = "refused"
  BY <1>8, RevocationAssumption DEF Ops
<1> QED BY <1>1, <1>2, <1>7, <1>8, <1>9, <1>10, <1>11, <1>12, <1>13 DEF Writes

(* A write after which the request is answered: no operation is new. *)
LEMMA AnswerWrites ==
  ASSUME RevocationInv, NEW q \in Requests, NEW c \in CertRec, NEW a \in Replies,
         req[q].pc \in Holding, UpdateCertificate(c), Answer(q, a),
         UNCHANGED <<ca, calls, rorder, drawn, faults>>,
         ~cert.revoked, c.by = cert.by, c.op # None => Pair(c) \in Pairs,
         c.revoked => ca[c.op] = "done" /\ Pair(c) \in calls,
         a \in {"ok", "already"} => c.revoked,
         \A o \in FinalRefusals :
           cert.op = o => c.revoked \/ c.op = o \/ ca[o] = "refused"
  PROVE  Writes(q)
<1>1. cert \in CertRec
  BY DEF RevocationInv, TypeOK
<1>2. /\ cert' \in CertRec /\ cert'.rev = cert.rev + 1
      /\ cert'.revoked = c.revoked /\ cert'.op = c.op /\ cert'.reason = c.reason
      /\ cert'.by = c.by
  BY <1>1, UpdateShape
<1>3. OnlyRequest(q) /\ req'[q].pc = "idle" /\ req'[q].reply = a
  BY AnswerShape DEF RevocationInv
<1>4. HeldOK(req[q])' /\ TrueReply(req[q])'
  BY <1>2, <1>3 DEF HeldOK, TrueReply
<1>5. Pair(cert') = Pair(c)
  BY <1>2 DEF Pair
<1>6. PairsOK'
  <2>1. OfCert' \subseteq Pairs
    BY <1>2, <1>5 DEF OfCert, Pair
  <2>2. ASSUME NEW x \in OfRequests' PROVE x \in Pairs
    <3>1. PICK p \in Requests : req'[p].pc \in Holding /\ x = Pair(req'[p].copy)
      BY <2>2 DEF OfRequests
    <3>2. p # q
      BY <1>3, <3>1 DEF Holding
    <3> QED BY <1>3, <3>1, <3>2 DEF OnlyRequest, Pairs, OfRequests
  <2>3. calls' = calls
    OBVIOUS
  <2>4. Pairs' \subseteq Pairs
    BY <2>1, <2>2, <2>3 DEF Pairs
  <2>5. drawn' \in Nat /\ drawn' >= drawn
    BY RevocationAssumption DEF RevocationInv, TypeOK
  <2> QED BY <2>4, <2>5, HeldPair, PairsKept
<1> QED BY <1>2, <1>3, <1>4, <1>5, <1>6, SameBounds DEF Writes

(* recordRevocation over a current copy. *)
LEMMA RecordWrites ==
  ASSUME RevocationInv, NEW q \in Requests, req[q].pc = "record",
         UpdateCertificate([req[q].copy EXCEPT !.revoked = TRUE]), Answer(q, "ok"),
         UNCHANGED <<ca, calls, rorder, drawn, faults>>
  PROVE  Writes(q)
<1> DEFINE k == req[q].copy
           c == [k EXCEPT !.revoked = TRUE]
<1>1. HeldOK(req[q]) /\ k \in CertRec
  BY DEF RevocationInv, AllHeld, TypeOK
<1>2. /\ c \in CertRec /\ c.revoked = TRUE /\ c.op = k.op /\ c.reason = k.reason
      /\ c.by = k.by /\ c.rev = k.rev
  BY Zenon, <1>1 DEF CertRec
<1> HIDE DEF c
<1>3. UpdateCertificate(c) /\ c.rev = cert.rev
  BY DEF c, UpdateCertificate, Current
<1>4. ~cert.revoked /\ c.by = cert.by
  BY <1>1, <1>2, <1>3 DEF HeldOK
<1>5. ca[c.op] = "done" /\ Pair(c) \in calls
  BY <1>1, <1>2 DEF HeldOK, Pair
<1>6. Pair(c) \in Pairs /\ req[q].pc \in Holding /\ "ok" \in Replies
  BY <1>5 DEF Pairs, Holding, Replies
<1> QED BY <1>2, <1>3, <1>4, <1>5, <1>6, AnswerWrites

(* abandonRevocation over a current copy. *)
LEMMA AbandonWrites ==
  ASSUME RevocationInv, NEW q \in Requests, req[q].pc = "abandon",
         UpdateCertificate([req[q].copy EXCEPT !.op = None, !.reason = None]),
         Answer(q, "refused"), UNCHANGED <<ca, calls, rorder, drawn, faults>>
  PROVE  Writes(q)
<1> DEFINE k == req[q].copy
           c == [k EXCEPT !.op = None, !.reason = None]
<1>1. HeldOK(req[q]) /\ k \in CertRec
  BY DEF RevocationInv, AllHeld, TypeOK
<1>2. c \in CertRec /\ c.revoked = k.revoked /\ c.op = None /\ c.by = k.by /\ c.rev = k.rev
  BY Zenon, <1>1 DEF CertRec
<1> HIDE DEF c
<1>3. UpdateCertificate(c) /\ c.rev = cert.rev
  BY DEF c, UpdateCertificate, Current
<1>4. ~cert.revoked /\ c.by = cert.by /\ k.op = cert.op /\ ~c.revoked
  BY <1>1, <1>2, <1>3 DEF HeldOK
<1>5. cert.op \in FinalRefusals => ca[cert.op] = "refused"
  BY <1>1, <1>4 DEF HeldOK
<1>6. req[q].pc \in Holding /\ "refused" \in Replies
  BY DEF Holding, Replies
<1>7. \A o \in FinalRefusals :
        cert.op = o => c.revoked \/ c.op = o \/ ca[o] = "refused"
  BY <1>5
<1> QED BY <1>2, <1>3, <1>4, <1>6, <1>7, AnswerWrites

-----------------------------------------------------------------------------
(* Calls of the CA. *)

(* The request q has called the CA, which knew of no other operation than  *)
(* the request's and did not take back what it did.                        *)
Calls(q) ==
  LET o == req[q].copy.op IN
  /\ UNCHANGED <<cert, rorder, drawn, faults>> /\ OnlyRequest(q)
  /\ req[q].pc = "call" /\ calls' = calls \cup {Pair(req[q].copy)}
  /\ ca' \in [Ops -> {"unknown", "done", "refused"}]
  /\ \A x \in Ops : ca'[x] # ca[x] =>
       x = o /\ ca[x] # "done" /\ (x \in FinalRefusals => ca[x] # "refused")
  /\ req'[q].copy = req[q].copy /\ req'[q].reason = req[q].reason
  /\ req'[q].pc \in {"idle", "record", "abandon"}
  /\ req'[q].reply \notin {"ok", "already"} \/ req'[q].reply = req[q].reply
  /\ req'[q].pc = "record" => ca'[o] = "done"
  /\ req'[q].pc = "abandon" => ca'[o] = "refused"

(* A call keeps the invariant. *)
LEMMA CallsKeep ==
  ASSUME RevocationInv, NEW q \in Requests, Calls(q)
  PROVE  RevocationInv'
<1> DEFINE o == req[q].copy.op
<1>1. /\ cert' = cert /\ rorder' = rorder /\ drawn' = drawn /\ faults' = faults
      /\ OnlyRequest(q) /\ req[q].pc = "call" /\ calls' = calls \cup {Pair(req[q].copy)}
  BY DEF Calls
<1>2. Pair(req[q].copy) \in Pairs /\ o \in Ops /\ req[q].copy.reason \in Reasons
  BY <1>1, HeldPair DEF Holding
<1>3. HeldOK(req[q])
  BY DEF RevocationInv, AllHeld
<1>4. TypeOK'
  BY <1>1, <1>2 DEF RevocationInv, TypeOK, OnlyRequest, ReqRec, Calls, Pair
<1>5. \A x \in Ops : /\ ca[x] = "done" => ca'[x] = "done"
                     /\ x \in FinalRefusals /\ ca[x] = "refused" => ca'[x] = "refused"
  BY DEF Calls
<1>6. PairsOK'
  <2>1. OfCert' = OfCert
    BY <1>1 DEF OfCert, Pair
  <2>2. ASSUME NEW x \in OfRequests' PROVE x \in Pairs
    <3>1. PICK p \in Requests : req'[p].pc \in Holding /\ x = Pair(req'[p].copy)
      BY <2>2 DEF OfRequests
    <3>2. CASE p = q
      BY <1>2, <3>1, <3>2 DEF Calls
    <3>3. CASE p # q
      BY <1>1, <3>1, <3>3 DEF OnlyRequest, Pairs, OfRequests
    <3> QED BY <3>2, <3>3
  <2>3. Pairs' \subseteq Pairs
    BY <1>1, <1>2, <2>1, <2>2 DEF Pairs
  <2>4. drawn' \in Nat /\ drawn' >= drawn
    BY <1>1, RevocationAssumption DEF RevocationInv, TypeOK
  <2> QED BY <1>2, <2>3, <2>4, PairsKept
<1>7. ASSUME NEW p \in Requests PROVE HeldOK(req[p])' /\ TrueReply(req[p])'
  <2>0. TrueReply(req[p])
    BY DEF RevocationInv, AnsweredRevoked, TrueReply
  <2>1. CASE p = q
    <3>1. HeldOK(req[p])'
      BY <1>1, <1>3, <2>1 DEF HeldOK, Calls
    <3>2. TrueReply(req[p])'
      BY <1>1, <2>0, <2>1 DEF TrueReply, Calls
    <3> QED BY <3>1, <3>2
  <2>2. CASE p # q
    <3>1. req'[p] = req[p] /\ HeldOK(req[p])
      BY <1>1, <2>2 DEF OnlyRequest, RevocationInv, AllHeld
    <3>2. req[p].pc \in Holding => req[p].copy.op \in Ops
      BY HeldPair
    <3>3. HeldOK(req[p])'
      BY <1>1, <1>5, <3>1, <3>2 DEF HeldOK, Holding
    <3> QED BY <1>1, <2>0, <3>1, <3>3 DEF TrueReply
  <2> QED BY <2>1, <2>2
<1>8. RevocationIsTrue'
  <2>1. ASSUME cert.revoked
        PROVE  cert.op \in Ops /\ ca[cert.op] = "done" /\ <<cert.op, cert.reason>> \in calls
    <3>1. ca[cert.op] = "done" /\ <<cert.op, cert.reason>> \in calls
      BY <2>1 DEF RevocationInv, RevocationIsTrue
    <3> QED BY <3>1 DEF RevocationInv, TypeOK
  <2> QED BY <1>1, <1>5, <2>1 DEF RevocationIsTrue
<1>9. ClaimKept'
  BY <1>1 DEF RevocationInv, ClaimKept
<1>10. AcceptedIsKept'
  <2> SUFFICES ASSUME NEW x \in FinalRefusals, ca'[x] = "done"
               PROVE  cert.revoked \/ cert.op = x
    BY <1>1 DEF AcceptedIsKept
  <2>1. CASE ca[x] = "done"
    BY <2>1 DEF RevocationInv, AcceptedIsKept
  <2>2. CASE ca[x] # "done"
    <3>1. x = o /\ ca[x] # "refused"
      BY <2>2, FinalOps DEF Calls
    <3> QED BY <1>1, <1>3, <3>1 DEF HeldOK
  <2> QED BY <2>1, <2>2
<1>11. AllHeld' /\ AnsweredRevoked'
  BY <1>7 DEF AllHeld, AnsweredRevoked, TrueReply
<1> QED BY <1>4, <1>6, <1>8, <1>9, <1>10, <1>11 DEF RevocationInv

-----------------------------------------------------------------------------
(* Steps of the replacing orders. *)

(* claimReplacement leaves every copy behind and the operation in place.   *)
LEMMA ClaimKeeps ==
  ASSUME RevocationInv, NEW p \in Replacements, ClaimReplacement(p)
  PROVE  RevocationInv'
<1>1. /\ req' = req /\ ca' = ca /\ calls' = calls /\ drawn' = drawn /\ faults' = faults
      /\ rorder' = [rorder EXCEPT ![p] = "live"]
  BY DEF ClaimReplacement
<1>2. cert \in CertRec /\ cert.rev \in Nat
  BY DEF RevocationInv, TypeOK, CertRec
<1>3. /\ cert' \in CertRec /\ cert'.rev = cert.rev + 1 /\ cert'.by = p
      /\ cert'.revoked = cert.revoked /\ cert'.op = cert.op /\ cert'.reason = cert.reason
  <2>1. cert' = [cert EXCEPT !.by = p, !.rev = cert.rev + 1]
    BY DEF ClaimReplacement
  <2> DEFINE n == cert.rev + 1
  <2>a. n \in Nat
    BY <1>2
  <2>b. cert' = [cert EXCEPT !.by = p, !.rev = n]
    BY <2>1
  <2> HIDE DEF n
  <2>2. cert' \in CertRec
    BY <1>2, <2>a, <2>b, Zenon DEF CertRec
  <2>3. /\ cert'.rev = cert.rev + 1 /\ cert'.by = p
        /\ cert'.revoked = cert.revoked /\ cert'.op = cert.op /\ cert'.reason = cert.reason
    BY <1>2, <2>1 DEF CertRec
  <2> QED BY <2>2, <2>3
<1>4. TypeOK'
  BY <1>1, <1>3 DEF RevocationInv, TypeOK
<1>5. Pairs' = Pairs
  BY <1>1, <1>3 DEF Pairs, OfCert, OfRequests, Pair
<1>6. PairsOK'
  BY <1>1, <1>5 DEF RevocationInv, PairsOK
<1>7. ASSUME NEW q \in Requests PROVE HeldOK(req[q])'
  <2>1. HeldOK(req[q]) /\ req[q].copy.rev \in Nat
    BY DEF RevocationInv, AllHeld, TypeOK, CertRec
  <2>2. req[q].pc # "idle" => req[q].copy.rev <= cert'.rev /\ req[q].copy.rev # cert'.rev
    BY <1>2, <1>3, <2>1 DEF HeldOK
  <2> QED BY <1>1, <1>3, <2>1, <2>2 DEF HeldOK
<1>8. RevocationIsTrue' /\ AnsweredRevoked'
  BY <1>1, <1>3 DEF RevocationInv, RevocationIsTrue, AnsweredRevoked
<1>9. ClaimKept'
  <2> SUFFICES ASSUME NEW o \in Replacements, rorder'[o] = "live" PROVE o = p
    BY <1>3 DEF ClaimKept
  <2>1. o # p => rorder[o] = "live" /\ cert.by = o
    BY <1>1 DEF RevocationInv, TypeOK, ClaimKept
  <2> QED BY <2>1 DEF ClaimReplacement
<1>10. AcceptedIsKept'
  BY <1>1, <1>3 DEF RevocationInv, AcceptedIsKept
<1> QED BY <1>4, <1>6, <1>7, <1>8, <1>9, <1>10 DEF RevocationInv, AllHeld

(* The end of a replacing order changes nothing else. *)
LEMMA OrderEndsKeeps ==
  ASSUME RevocationInv, NEW p \in Replacements, OrderEnds(p)
  PROVE  RevocationInv'
<1>1. /\ req' = req /\ ca' = ca /\ calls' = calls /\ drawn' = drawn /\ faults' = faults
      /\ cert' = cert /\ rorder' = [rorder EXCEPT ![p] = "invalid"]
  BY DEF OrderEnds
<1>2. TypeOK' /\ ClaimKept'
  BY <1>1 DEF RevocationInv, TypeOK, ClaimKept
<1>3. Pairs' = Pairs
  BY <1>1 DEF Pairs, OfCert, OfRequests, Pair
<1>4. PairsOK' /\ AllHeld'
  BY <1>1, <1>3 DEF RevocationInv, PairsOK, AllHeld, HeldOK
<1>5. RevocationIsTrue' /\ AnsweredRevoked' /\ AcceptedIsKept'
  BY <1>1 DEF RevocationInv, RevocationIsTrue, AnsweredRevoked, AcceptedIsKept
<1> QED BY <1>2, <1>4, <1>5 DEF RevocationInv

-----------------------------------------------------------------------------
(* The shape of a step. *)

(* Store conflicts, lookups and failures only move the request. *)
LEMMA ConflictMoves ==
  ASSUME RevocationInv, NEW q \in Requests, NEW pc \in {"reload", "lookup"}, Goto(q, pc),
         UNCHANGED <<cert, ca, calls, rorder>>, Bounds,
         req[q].pc # "idle", pc = "lookup" => req[q].pc = "record"
  PROVE  Moves(q)
<1>1. /\ OnlyRequest(q) /\ req'[q].pc = pc /\ req'[q].copy = req[q].copy
      /\ req'[q].reason = req[q].reason /\ req'[q].reply = req[q].reply
  BY GotoShape DEF RevocationInv, PCs
<1>2. HeldOK(req[q]) /\ TrueReply(req[q])
  BY DEF RevocationInv, AllHeld, AnsweredRevoked, TrueReply
<1>3. HeldOK(req'[q]) /\ TrueReply(req'[q])
  BY <1>1, <1>2 DEF HeldOK, TrueReply
<1>4. req'[q].pc \in Holding => Pair(req'[q].copy) \in Pairs
  BY <1>1, HeldPair DEF Holding
<1> QED BY <1>1, <1>3, <1>4 DEF Moves

(* beginRevocation without a write. *)
LEMMA BeginMoves ==
  ASSUME RevocationInv, NEW q \in Requests, BeginRevocation(q), cert' = cert
  PROVE  Moves(q)
<1>1. /\ req[q].pc = "begin" /\ drawn < MaxOps /\ drawn' = drawn + 1
      /\ UNCHANGED <<cert, ca, calls, rorder, faults>>
  BY DEF BeginRevocation
<1>2. Bounds
  BY <1>1, RevocationAssumption DEF RevocationInv, TypeOK, Bounds
<1>3. CASE Goto(q, "reload") \/ Answer(q, "error")
  BY <1>1, <1>2, <1>3, ConflictMoves, AnswerMoves DEF Replies
<1>4. CASE UpdateCertificate([req[q].copy EXCEPT !.op = drawn + 1, !.reason = req[q].reason])
  <2> DEFINE c == [req[q].copy EXCEPT !.op = drawn + 1, !.reason = req[q].reason]
  <2>1. req[q].copy \in CertRec /\ req[q].reason \in Reasons \cup {None} /\ cert \in CertRec
    BY DEF RevocationInv, TypeOK
  <2>2. drawn + 1 \in Ops
    BY <1>1, RevocationAssumption DEF RevocationInv, TypeOK, Ops
  <2>3. c \in CertRec
    BY Zenon, <2>1, <2>2 DEF CertRec
  <2> HIDE DEF c
  <2>4. cert'.rev = cert.rev + 1 /\ cert.rev \in Nat
    BY Zenon, <1>4, <2>1, <2>3, UpdateShape DEF c, CertRec
  <2> QED BY <2>4
<1> QED BY <1>3, <1>4 DEF BeginRevocation

(* The lookup of recordRevocation. *)
LEMMA LookupMoves ==
  ASSUME RevocationInv, NEW q \in Requests, Lookup(q)
  PROVE  Moves(q)
<1>0. UNCHANGED <<cert, ca, calls, rorder>> /\ Bounds /\ req[q].pc = "lookup"
  BY SameBounds DEF Lookup
<1>1. CASE \/ cert.revoked /\ Answer(q, "ok")
           \/ Answer(q, "error")
  BY <1>0, <1>1, AnswerMoves DEF Replies
<1>2. CASE /\ ~cert.revoked
           /\ req' = [req EXCEPT ![q].pc = "record", ![q].tries = 1,
                ![q].copy = [cert EXCEPT !.op = req[q].copy.op, !.reason = req[q].copy.reason]]
  <2> DEFINE k == req[q].copy
             c == [cert EXCEPT !.op = k.op, !.reason = k.reason]
  <2>1. cert \in CertRec /\ cert.rev \in Nat /\ HeldOK(req[q]) /\ TrueReply(req[q])
    BY DEF RevocationInv, TypeOK, CertRec, AllHeld, AnsweredRevoked, TrueReply
  <2>2. k.op \in Ops /\ k.reason \in Reasons /\ Pair(k) \in Pairs
    BY <1>0, HeldPair DEF Holding
  <2>3. /\ c \in CertRec /\ c.op = k.op /\ c.reason = k.reason /\ c.revoked = cert.revoked
        /\ c.by = cert.by /\ c.rev = cert.rev
    BY Zenon, <2>1, <2>2 DEF CertRec
  <2> HIDE DEF c
  <2>4. req' = [req EXCEPT ![q].pc = "record", ![q].tries = 1, ![q].copy = c]
    BY <1>2 DEF c
  <2>5. /\ OnlyRequest(q) /\ req'[q].pc = "record" /\ req'[q].copy = c
        /\ req'[q].reason = req[q].reason /\ req'[q].reply = req[q].reply
    <3>1. req \in [Requests -> ReqRec]
      BY DEF RevocationInv, TypeOK, ReqRec
    <3>2. req' = [req EXCEPT ![q] = [req[q] EXCEPT !.pc = "record", !.tries = 1, !.copy = c]]
      BY Zenon, <2>4, <3>1
    <3>3. req[q] \in ReqRec
      BY <3>1
    <3>4. /\ req'[q] = [req[q] EXCEPT !.pc = "record", !.tries = 1, !.copy = c]
          /\ \A p \in Requests \ {q} : req'[p] = req[p]
      BY <3>1, <3>2
    <3>5. req'[q] \in ReqRec
      <4>1. 1 \in 0..1 /\ "record" \in PCs
        BY DEF PCs
      <4> QED BY <2>3, <3>3, <3>4, <4>1, Zenon DEF ReqRec
    <3>6. /\ req'[q].pc = "record" /\ req'[q].copy = c
          /\ req'[q].reason = req[q].reason /\ req'[q].reply = req[q].reply
      BY <3>3, <3>4 DEF ReqRec
    <3>7. req' \in [Requests -> ReqRec]
      BY <3>1, <3>2, <3>4, <3>5
    <3> QED BY <3>4, <3>6, <3>7 DEF OnlyRequest
  <2>6. Pair(c) = Pair(k)
    BY <2>3 DEF Pair
  <2>7. HeldOK(req'[q]) /\ TrueReply(req'[q])
    BY <1>0, <1>2, <2>1, <2>3, <2>5, <2>6 DEF HeldOK, TrueReply
  <2> QED BY <1>0, <2>2, <2>5, <2>6, <2>7 DEF Moves
<1> QED BY <1>1, <1>2 DEF Lookup

(* Revoker.Revoke, whatever it answers. *)
LEMMA CallShape ==
  ASSUME RevocationInv, NEW q \in Requests,
         CallAccepted(q) \/ CallRefused(q) \/ CallUncertain(q)
  PROVE  Calls(q)
<1> DEFINE o == req[q].copy.op
<1>1. Called(q)
  BY DEF CallAccepted, CallRefused, CallUncertain
<1>2. /\ UNCHANGED <<cert, rorder, drawn, faults>> /\ req[q].pc = "call"
      /\ calls' = calls \cup {Pair(req[q].copy)}
  BY <1>1 DEF Called, Pair
<1>3. o \in Ops
  BY <1>2, HeldPair DEF Holding
<1>4. ca \in [Ops -> {"unknown", "done", "refused"}] /\ TypeOK
  BY DEF RevocationInv, TypeOK
<1>5. MayAct(o) => ca[o] # "refused" \/ o \notin FinalRefusals
  BY DEF MayAct
<1> HIDE DEF o
<1>6. CASE CallAccepted(q)
  <2>1. MayAct(o) /\ ca' = [ca EXCEPT ![o] = "done"]
        /\ req' = [req EXCEPT ![q].pc = "record", ![q].tries = 0]
    BY <1>6 DEF CallAccepted, o
  <2>2. 0 \in 0..1 /\ "record" \in PCs
    BY DEF PCs
  <2>3. /\ OnlyRequest(q) /\ req'[q].pc = "record" /\ req'[q].copy = req[q].copy
        /\ req'[q].reason = req[q].reason /\ req'[q].reply = req[q].reply
    BY <1>4, <2>1, <2>2, Zenon DEF TypeOK, OnlyRequest, ReqRec
  <2>4. /\ ca' \in [Ops -> {"unknown", "done", "refused"}] /\ ca'[o] = "done"
        /\ \A x \in Ops : ca'[x] # ca[x] =>
             x = o /\ ca[x] # "done" /\ (x \in FinalRefusals => ca[x] # "refused")
    BY <1>3, <1>4, <1>5, <2>1
  <2> QED BY <1>2, <2>3, <2>4 DEF Calls, o
<1>7. CASE CallRefused(q)
  <2>1. ca[o] # "done" /\ ca' = [ca EXCEPT ![o] = "refused"] /\ Goto(q, "abandon")
    BY <1>7 DEF CallRefused, o
  <2>2. /\ OnlyRequest(q) /\ req'[q].pc = "abandon" /\ req'[q].copy = req[q].copy
        /\ req'[q].reason = req[q].reason /\ req'[q].reply = req[q].reply
    BY <1>4, <2>1, GotoShape DEF PCs
  <2>3. /\ ca' \in [Ops -> {"unknown", "done", "refused"}] /\ ca'[o] = "refused"
        /\ \A x \in Ops : ca'[x] # ca[x] =>
             x = o /\ ca[x] # "done" /\ (x \in FinalRefusals => ca[x] # "refused")
    BY <1>3, <1>4, <2>1
  <2> QED BY <1>2, <2>2, <2>3 DEF Calls, o
<1>8. CASE CallUncertain(q)
  <2>1. Answer(q, "error") /\ (ca' = ca \/ (MayAct(o) /\ ca' = [ca EXCEPT ![o] = "done"]))
    BY <1>8 DEF CallUncertain, o
  <2>2. /\ OnlyRequest(q) /\ req'[q].pc = "idle" /\ req'[q].copy = req[q].copy
        /\ req'[q].reply = "error" /\ req'[q].reason = req[q].reason
    <3>1. req'[q].reason = req[q].reason
      BY <1>4, <2>1 DEF TypeOK, Answer
    <3> QED BY <1>4, <2>1, <3>1, AnswerShape DEF Replies
  <2>3. /\ ca' \in [Ops -> {"unknown", "done", "refused"}]
        /\ \A x \in Ops : ca'[x] # ca[x] =>
             x = o /\ ca[x] # "done" /\ (x \in FinalRefusals => ca[x] # "refused")
    BY <1>3, <1>4, <1>5, <2>1
  <2> QED BY <1>2, <2>2, <2>3 DEF Calls, o
<1> QED BY <1>6, <1>7, <1>8

(* Every step of a request moves it, writes the certificate, or calls the  *)
(* CA.                                                                     *)
LEMMA Shapes ==
  ASSUME RevocationInv, NEW q \in Requests, RequestStep(q)
  PROVE  Moves(q) \/ Writes(q) \/ Calls(q)
<1>1. ASSUME NEW reason \in Reasons, Receive(q, reason) PROVE Moves(q)
  BY <1>1, ProceedMoves DEF Receive
<1>2. CASE BeginRevocation(q)
  BY <1>2, BeginMoves, BeginWrites
<1>3. CASE NewIDFails(q)
  BY <1>3, AnswerMoves, SameBounds DEF NewIDFails, Replies
<1>4. CASE Reload(q)
  <2>1. req[q].reason \in Reasons
    BY <1>4 DEF Reload, RevocationInv, AllHeld, HeldOK
  <2> QED BY <1>4, <2>1, ProceedMoves DEF Reload
<1>5. CASE CallAccepted(q) \/ CallRefused(q) \/ CallUncertain(q)
  BY <1>5, CallShape
<1>6. CASE RecordRevocation(q)
  <2>1. req[q].pc = "record" /\ UNCHANGED <<ca, calls, rorder, drawn, faults>>
    BY <1>6 DEF RecordRevocation
  <2>2. CASE UpdateCertificate([req[q].copy EXCEPT !.revoked = TRUE]) /\ Answer(q, "ok")
    BY <2>1, <2>2, RecordWrites
  <2>3. CASE Goto(q, "lookup") /\ UNCHANGED cert
    BY <2>1, <2>3, ConflictMoves, SameBounds
  <2> QED BY <1>6, <2>2, <2>3 DEF RecordRevocation
<1>7. CASE Lookup(q)
  BY <1>7, LookupMoves
<1>8. CASE AbandonRevocation(q)
  <2>1. /\ req[q].pc = "abandon" /\ UNCHANGED <<ca, calls, rorder, drawn, faults>>
        /\ Answer(q, "refused")
    BY <1>8, Zenon DEF AbandonRevocation
  <2>2. CASE UpdateCertificate([req[q].copy EXCEPT !.op = None, !.reason = None])
    BY Zenon, <2>1, <2>2, AbandonWrites
  <2>3. CASE UNCHANGED cert
    BY <2>1, <2>3, AnswerMoves, SameBounds DEF Replies
  <2> QED BY <1>8, <2>2, <2>3 DEF AbandonRevocation
<1>9. CASE Fail(q)
  <2>1. UNCHANGED <<cert, ca, calls, rorder>> /\ (Answer(q, "refused") \/ Answer(q, "error"))
    BY <1>9 DEF Fail
  <2>2. Bounds
    BY <1>9, RevocationAssumption DEF Fail, RevocationInv, TypeOK, Bounds
  <2> QED BY <2>1, <2>2, AnswerMoves DEF Replies
<1> QED BY <1>1, <1>2, <1>3, <1>4, <1>5, <1>6, <1>7, <1>8, <1>9 DEF RequestStep

(* The invariant is kept by every step. *)
LEMMA StepHolds == RevocationInv /\ [Next]_vars => RevocationInv'
<1> SUFFICES ASSUME RevocationInv, [Next]_vars PROVE RevocationInv'
  OBVIOUS
<1>1. CASE \E q \in Requests : RequestStep(q)
  BY <1>1, Shapes, MovesKeeps, WritesKeeps, CallsKeep
<1>2. CASE \E p \in Replacements : ClaimReplacement(p) \/ OrderEnds(p)
  BY <1>2, ClaimKeeps, OrderEndsKeeps
<1>3. CASE UNCHANGED vars
  <2>1. Pairs' = Pairs
    BY <1>3 DEF vars, Pairs, OfCert, OfRequests, Pair
  <2>2. TypeOK' /\ PairsOK' /\ AllHeld'
    BY <1>3, <2>1 DEF vars, RevocationInv, TypeOK, PairsOK, AllHeld, HeldOK
  <2> QED BY <1>3, <2>2 DEF vars, RevocationInv, RevocationIsTrue, AnsweredRevoked, ClaimKept,
                           AcceptedIsKept
<1> QED BY <1>1, <1>2, <1>3 DEF Next

(* One reason to an operation wherever it is known is one reason to the CA. *)
LEMMA OneReason == RevocationInv => OneReasonPerOperation
  BY DEF RevocationInv, PairsOK, Pairs, OneReasonPerOperation

-----------------------------------------------------------------------------
(* A certificate is recorded as revoked only under an operation the CA     *)
(* carried out and with the reason it was given; whoever is told so finds  *)
(* it recorded; and the CA never sees two reasons for an operation         *)
(* (revoke.go over UpdateCertificate).                                     *)
THEOREM RevocationSafe == Spec => []RevocationAgrees
<1>1. RevocationInv => RevocationAgrees
  BY OneReason DEF RevocationInv, RevocationAgrees
<1> QED BY <1>1, InitHolds, StepHolds, PTL DEF Spec

(* No write of a revocation loses the claim of a replacing order, so one   *)
(* certificate never has two live replacements (UpdateCertificate,         *)
(* claimReplacement).                                                      *)
THEOREM ClaimsKept == Spec => []ClaimKept
<1>1. RevocationInv => ClaimKept
  BY DEF RevocationInv
<1> QED BY <1>1, InitHolds, StepHolds, PTL DEF Spec

(* An operation that the CA carried out, and that it would not carry out   *)
(* after a refusal, stays on the certificate until the revocation is       *)
(* recorded, whatever fails in between, so a retry completes it            *)
(* (abandonRevocation, recordRevocation).                                  *)
THEOREM AcceptedKept == Spec => []AcceptedIsKept
<1>1. RevocationInv => AcceptedIsKept
  BY DEF RevocationInv
<1> QED BY <1>1, InitHolds, StepHolds, PTL DEF Spec

(* A recorded revocation is final: no late write of another request and no *)
(* claim undoes it or changes its operation (UpdateCertificate).           *)
THEOREM RevokedForGood == Spec => RevokedStays
<1> DEFINE Stays == cert.revoked => /\ cert'.revoked
                                    /\ cert'.op = cert.op /\ cert'.reason = cert.reason
<1>1. RevocationInv /\ [Next]_vars => [Stays]_vars
  <2> SUFFICES ASSUME RevocationInv, Next, cert.revoked
               PROVE  /\ cert'.revoked /\ cert'.op = cert.op /\ cert'.reason = cert.reason
    OBVIOUS
  <2>1. CASE \E q \in Requests : RequestStep(q)
    <3>1. PICK q \in Requests : Moves(q) \/ Writes(q) \/ Calls(q)
      BY <2>1, Shapes
    <3>2. cert' = cert
      BY <3>1 DEF Moves, Writes, Calls
    <3> QED BY <3>2
  <2>2. ASSUME NEW p \in Replacements, ClaimReplacement(p)
        PROVE  cert'.revoked /\ cert'.op = cert.op /\ cert'.reason = cert.reason
    BY <2>2 DEF ClaimReplacement, RevocationInv, TypeOK, CertRec
  <2>3. ASSUME NEW p \in Replacements, OrderEnds(p) PROVE cert' = cert
    BY <2>3 DEF OrderEnds
  <2> QED BY <2>1, <2>2, <2>3 DEF Next
<1> QED BY <1>1, InitHolds, StepHolds, PTL DEF Spec, RevokedStays

-----------------------------------------------------------------------------
(* The grants of authority tokens. *)

LOCAL INSTANCE WellFoundedInduction

(* From here on a leaf goes to the SMT solver unless it names another. *)
USE SMTT(20)

GrantRec == [status : {"pending", "checked", "valid", "invalid"}, ca : BOOLEAN, expires : Nat,
             names : SUBSET Raw, token : Tokens \cup {NoToken}]
OrderGrants == [ids : Orders, notBefore : Int, notAfter : Int,
                status : {"pending", "ready", "processing", "valid", "invalid"}]

(* What an authorization holds is what its token says; one without a token *)
(* grants nothing.                                                         *)
GrantOK(a, i) ==
  /\ a.token = NoToken => a.names = {} /\ a.ca = FALSE
  /\ a.token # NoToken =>
       /\ a.token.fingerprint = AccountKey /\ Canon[a.token.value] = i
       /\ \A n \in a.names : \E m \in a.token.sans : Canon[m] = n
       /\ a.ca => a.token.ca
       /\ a.expires = a.token.exp

(* What a dispatch holds was taken from the authorizations.                *)
DispatchOK ==
  /\ issuance.names = Grants!GrantNames
  /\ \A i \in tokenOrder.ids : authzs[i].token # NoToken =>
       /\ issuance.at < authzs[i].token.exp /\ issuance.deadline <= authzs[i].token.exp
       /\ \/ Outlive /\ Types[i] = "TNAuthList"
          \/ issuance.bound \in Nat \ {0} /\ issuance.bound <= authzs[i].token.exp

GrantsInv ==
  /\ tokenOrder \in OrderGrants /\ clock \in Nat
  /\ authzs \in [tokenOrder.ids -> GrantRec]
  /\ \A i \in tokenOrder.ids : GrantOK(authzs[i], i)
  /\ tokenOrder.status = "pending" => csr = Nothing
  /\ tokenOrder.status \in {"pending", "ready"} => issuance = Nothing
  /\ tokenOrder.status # "valid" => issued = Nothing
  /\ tokenOrder.status \in {"processing", "valid"} => Grants!CheckCAGrants(csr.ca)
  /\ issuance # Nothing => DispatchOK
  /\ Grants!CertificateAttested

-----------------------------------------------------------------------------
(* A set of natural numbers has a least one, and none of it is smaller. *)
LEMMA LeastTime ==
  ASSUME NEW S \in SUBSET Nat, S # {}
  PROVE  Grants!Min(S) \in S /\ \A t \in S : Grants!Min(S) <= t
<1>1. PICK m \in S : \A t \in S : ~(<<t, m>> \in OpToRel(<, Nat))
  BY ZenonT(30), NatLessThanWellFounded, WFMin
<1>2. ASSUME NEW t \in S PROVE m <= t
  <2>1. t \in Nat /\ m \in Nat
    OBVIOUS
  <2>2. SUFFICES ASSUME t < m PROVE FALSE
    BY <2>1
  <2>3. <<t, m>> \in {ss \in Nat \X Nat : ss[1] < ss[2]}
    BY <2>1, <2>2
  <2> QED BY <1>1, <2>3, ZenonT(30) DEF OpToRel
<1> QED BY <1>1, <1>2, ZenonT(30) DEF Grants!Min

(* A name beyond the order's that an authorization granted is attested. *)
LEMMA GrantsAttested ==
  ASSUME GrantsInv, NEW n \in Grants!GrantNames
  PROVE  \E t \in Grants!Attested :
           /\ \E m \in t.sans : Canon[m] = n
           /\ t.fingerprint = AccountKey /\ Canon[t.value] \in tokenOrder.ids
<1>1. PICK i \in tokenOrder.ids : n \in authzs[i].names
  BY DEF Grants!GrantNames
<1>2. GrantOK(authzs[i], i)
  BY ZenonT(30) DEF GrantsInv
<1>3. authzs[i].token # NoToken
  BY <1>1, <1>2, ZenonT(30) DEF GrantOK
<1>4. authzs[i].token \in Grants!Attested
  BY <1>3, ZenonT(30) DEF Grants!Attested
<1> QED BY <1>1, <1>2, <1>3, <1>4, ZenonT(30) DEF GrantOK

(* Only the time, or the status of the order, changes. *)
LEMMA GrantsKept ==
  ASSUME GrantsInv, clock' \in Nat, UNCHANGED <<authzs, csr, issuance, issued>>,
         tokenOrder' = tokenOrder \/ (issued = Nothing /\ tokenOrder' = [tokenOrder EXCEPT !.status = "invalid"])
  PROVE  GrantsInv'
<1>1. /\ tokenOrder' \in OrderGrants /\ tokenOrder'.ids = tokenOrder.ids
      /\ tokenOrder'.status = tokenOrder.status \/ (issued = Nothing /\ tokenOrder'.status = "invalid")
  BY DEF GrantsInv, OrderGrants
<1>2. Grants!GrantNames' = Grants!GrantNames /\ Grants!Attested' = Grants!Attested
  BY <1>1 DEF Grants!GrantNames, Grants!Attested
<1>3. Grants!CertificateAttested'
  BY <1>1, <1>2, ZenonT(30) DEF GrantsInv, Grants!CertificateAttested, Grants!NamesAttested, Grants!CAAttested,
     Grants!EndsWithToken
<1>4. issuance' # Nothing => DispatchOK'
  BY <1>1, <1>2, ZenonT(30) DEF GrantsInv, DispatchOK
<1> QED BY <1>1, <1>3, <1>4, ZenonT(30) DEF GrantsInv, Grants!CheckCAGrants

(* While the order is pending nothing rests on its authorizations, which   *)
(* may change one by one (checkGrant, completeValidation).                 *)
LEMMA GrantsChange ==
  ASSUME GrantsInv, tokenOrder.status = "pending", tokenOrder' \in OrderGrants, tokenOrder'.ids = tokenOrder.ids,
         tokenOrder'.status \in {"pending", "ready", "invalid"},
         NEW i \in tokenOrder.ids, NEW a \in GrantRec, GrantOK(a, i),
         authzs' = [authzs EXCEPT ![i] = a], UNCHANGED <<clock, csr, issuance, issued>>
  PROVE  GrantsInv'
<1>1. csr' = Nothing /\ issuance' = Nothing /\ issued' = Nothing
  BY ZenonT(30) DEF GrantsInv
<1>2. Grants!CertificateAttested'
  BY <1>1, ZenonT(30) DEF Grants!CertificateAttested, Grants!NamesAttested, Grants!CAAttested, Grants!EndsWithToken
<1>3. authzs' \in [tokenOrder'.ids -> GrantRec] /\ \A j \in tokenOrder'.ids : GrantOK(authzs'[j], j)
  BY DEF GrantsInv
<1> QED BY <1>1, <1>2, <1>3, ZenonT(30) DEF GrantsInv

(* The validation of a challenge. *)
LEMMA ValidateGrants ==
  ASSUME Grants!GrantsAssumption, GrantsInv, NEW i \in tokenOrder.ids, Grants!Validate(i)
  PROVE  GrantsInv'
<1>0. tokenOrder.status = "pending" /\ UNCHANGED <<clock, tokenOrder, csr, issuance, issued>>
  BY ZenonT(30) DEF Grants!Validate
<1>1. ASSUME NEW s \in {"checked", "invalid"}
      PROVE  Grants!Ungranted(s) \in GrantRec /\ GrantOK(Grants!Ungranted(s), i)
  BY ZenonT(30) DEF Grants!Ungranted, Grants!ZeroTime, GrantRec, GrantOK
<1>2. ASSUME NEW t \in Tokens, Grants!ValidToken(t, i)
      PROVE  Grants!Grant(t, i) \in GrantRec /\ GrantOK(Grants!Grant(t, i), i)
  <2>1. t.exp \in Nat /\ t.ca \in BOOLEAN /\ t.sans \subseteq Raw /\ Canon \in [Raw -> Raw] /\ t # NoToken
    BY DEF Grants!GrantsAssumption
  <2>2. t.fingerprint = AccountKey /\ Canon[t.value] = i
    BY <1>2, ZenonT(30) DEF Grants!ValidToken, Grants!CheckClaims
  <2>3. Grants!NfNames(t, i) \subseteq Raw /\ \A n \in Grants!NfNames(t, i) : \E m \in t.sans : Canon[m] = n
    BY <2>1 DEF Grants!NfNames
  <2>4. PICK g : g = Grants!Grant(t, i)
    OBVIOUS
  <2>5. /\ g \in GrantRec /\ g.token = t /\ g.expires = t.exp /\ (g.ca => t.ca)
        /\ \A n \in g.names : \E m \in t.sans : Canon[m] = n
    BY ZenonT(30), <2>1, <2>3, <2>4 DEF Grants!Grant, GrantRec
  <2> QED BY <2>1, <2>2, <2>4, <2>5, ZenonT(30) DEF GrantOK
<1>3. PICK a \in GrantRec : GrantOK(a, i) /\ authzs' = [authzs EXCEPT ![i] = a]
  BY <1>1, <1>2, ZenonT(30) DEF Grants!Validate
<1>4. tokenOrder' \in OrderGrants /\ tokenOrder'.ids = tokenOrder.ids /\ tokenOrder'.status = "pending"
  BY <1>0, ZenonT(30) DEF GrantsInv
<1> QED BY <1>0, <1>3, <1>4, GrantsChange, ZenonT(30)

(* completeValidation stores the result and the status of the order. *)
LEMMA CompleteGrants ==
  ASSUME GrantsInv, NEW i \in tokenOrder.ids, Grants!CompleteValidation(i)
  PROVE  GrantsInv'
<1>0. tokenOrder.status = "pending" /\ UNCHANGED <<clock, csr, issuance, issued>>
  BY ZenonT(30) DEF Grants!CompleteValidation
<1>1. PICK s \in {"valid", "invalid"} : authzs' = [authzs EXCEPT ![i].status = s]
  BY ZenonT(30) DEF Grants!CompleteValidation
<1>2. PICK o \in {"invalid", "ready", "pending"} : tokenOrder' = [tokenOrder EXCEPT !.status = o]
  BY DEF Grants!CompleteValidation
<1>3. tokenOrder' \in OrderGrants /\ tokenOrder'.ids = tokenOrder.ids /\ tokenOrder'.status = o
  BY <1>2 DEF GrantsInv, OrderGrants
<1>4. PICK a : a = [authzs[i] EXCEPT !.status = s]
  BY ZenonT(30)
<1>5. authzs[i] \in GrantRec /\ GrantOK(authzs[i], i)
  BY DEF GrantsInv
<1>6. a \in GrantRec /\ a.token = authzs[i].token /\ a.names = authzs[i].names /\ a.ca = authzs[i].ca
      /\ a.expires = authzs[i].expires
  BY <1>4, <1>5 DEF GrantRec
<1>7. GrantOK(a, i)
  BY <1>5, <1>6, ZenonT(30) DEF GrantOK
<1>8. authzs' = [authzs EXCEPT ![i] = a]
  BY <1>1, <1>4
<1> QED BY <1>0, <1>3, <1>6, <1>7, <1>8, GrantsChange, ZenonT(30)

(* checkCSR and serveFinalize. *)
LEMMA FinalizeGrants ==
  ASSUME GrantsInv, Grants!Finalize
  PROVE  GrantsInv'
<1>0. /\ tokenOrder.status = "ready" /\ tokenOrder' = [tokenOrder EXCEPT !.status = "processing"]
      /\ UNCHANGED <<clock, authzs, issuance, issued>>
  BY ZenonT(30) DEF Grants!Finalize
<1>1. tokenOrder' \in OrderGrants /\ tokenOrder'.ids = tokenOrder.ids /\ tokenOrder'.status = "processing"
  BY <1>0 DEF GrantsInv, OrderGrants
<1>2. issuance' = Nothing /\ issued' = Nothing
  BY <1>0, ZenonT(30) DEF GrantsInv
<1>3. PICK r \in Grants!Requests :
        /\ Grants!CoversIdentifiers(Grants!CanonNames(r.sans) \cup Grants!CommonName(r), Grants!GrantNames)
        /\ Grants!CheckCAGrants(r.ca)
        /\ csr' = [names |-> Grants!CanonNames(r.sans) \cup Grants!CommonName(r), ca |-> r.ca]
  BY ZenonT(30) DEF Grants!Finalize
<1>4. PICK names : names = Grants!CanonNames(r.sans) \cup Grants!CommonName(r)
  BY ZenonT(30)
<1>5. csr'.names = names /\ csr'.ca = r.ca
  BY <1>3, <1>4
<1>6. tokenOrder.ids \subseteq names /\ names \subseteq tokenOrder.ids \cup Grants!GrantNames
  BY <1>3, <1>4, ZenonT(30) DEF Grants!CoversIdentifiers
<1>7. Grants!Attested' = Grants!Attested
  BY <1>0, <1>1 DEF Grants!Attested
<1>a. \A n \in names \ tokenOrder.ids :
        \E t \in Grants!Attested : /\ \E m \in t.sans : Canon[m] = n
                                  /\ t.fingerprint = AccountKey /\ Canon[t.value] \in tokenOrder.ids
  BY <1>6, GrantsAttested, ZenonT(30)
<1>8. Grants!CertificateAttested'
  BY <1>1, <1>2, <1>5, <1>6, <1>7, <1>a, ZenonT(30)
     DEF Grants!CertificateAttested, Grants!NamesAttested, Grants!CAAttested, Grants!EndsWithToken
<1>9. Grants!CheckCAGrants(csr.ca)'
  BY <1>0, <1>1, <1>3, <1>5, ZenonT(30) DEF Grants!CheckCAGrants
<1> QED BY <1>0, <1>1, <1>2, <1>8, <1>9, ZenonT(30) DEF GrantsInv

(* The deadline and the bound of a dispatch are no later than the end of   *)
(* any token (issuanceAuthorization, validationEvidence, grantExpiry).     *)
LEMMA DispatchBounds ==
  ASSUME Grants!GrantsAssumption, GrantsInv, NEW i \in tokenOrder.ids, authzs[i].token # NoToken,
         NEW expiries, expiries = {authzs[j].expires : j \in tokenOrder.ids},
         ~(\E t \in Grants!Bounded(expiries) : t <= clock)
  PROVE  /\ clock < authzs[i].token.exp
         /\ Grants!Min(Grants!Bounded(expiries) \cup {LastTime + 1}) <= authzs[i].token.exp
         /\ \/ Outlive /\ Types[i] = "TNAuthList"
            \/ /\ Grants!GrantExpiry({Grants!GrantExpires(j) : j \in tokenOrder.ids}) \in Nat \ {0}
               /\ Grants!GrantExpiry({Grants!GrantExpires(j) : j \in tokenOrder.ids}) <= authzs[i].token.exp
<1>1. /\ authzs[i].token \in Tokens /\ authzs[i].expires = authzs[i].token.exp
      /\ \A j \in tokenOrder.ids : authzs[j].expires \in Nat
  <2>1. \A j \in tokenOrder.ids : authzs[j] \in GrantRec /\ GrantOK(authzs[j], j)
    BY ZenonT(30) DEF GrantsInv
  <2>2. \A j \in tokenOrder.ids : authzs[j].expires \in Nat
    BY <2>1, ZenonT(30) DEF GrantRec
  <2>3. authzs[i].token \in Tokens
    BY <2>1, ZenonT(30) DEF GrantRec
  <2>4. authzs[i].expires = authzs[i].token.exp
    BY <2>1, ZenonT(30) DEF GrantOK
  <2> QED BY <2>2, <2>3, <2>4, ZenonT(30)
<1>2. PICK e \in Nat \ {0} : e = authzs[i].token.exp /\ e = authzs[i].expires
  BY ZenonT(30), <1>1 DEF Grants!GrantsAssumption
<1>3. e \in Grants!Bounded(expiries) /\ Grants!Bounded(expiries) \subseteq Nat
  <2>1. e \in expiries
    BY <1>2, ZenonT(30)
  <2>2. expiries \subseteq Nat
    BY <1>1, ZenonT(30)
  <2> QED BY <1>2, <2>1, <2>2, ZenonT(30) DEF Grants!Bounded, Grants!ZeroTime
<1>4. clock < e
  <2>1. clock \in Nat /\ ~(e <= clock)
    BY <1>3, ZenonT(30) DEF GrantsInv
  <2> QED BY <2>1
<1>5. Grants!Min(Grants!Bounded(expiries) \cup {LastTime + 1}) <= e
  <2>1. LastTime + 1 \in Nat
    BY DEF Grants!GrantsAssumption
  <2>2. PICK S \in SUBSET Nat : S = Grants!Bounded(expiries) \cup {LastTime + 1} /\ e \in S
    BY ZenonT(30), <1>3, <2>1
  <2> QED BY <2>2, LeastTime, ZenonT(30)
<1>6. CASE ~(Outlive /\ Types[i] = "TNAuthList")
  <2>1. PICK G : G = {Grants!GrantExpires(j) : j \in tokenOrder.ids}
    BY ZenonT(30)
  <2>2. Grants!GrantExpires(i) = e
    BY <1>2, <1>6, ZenonT(30) DEF Grants!GrantExpires
  <2>3. \A j \in tokenOrder.ids : Grants!GrantExpires(j) \in Nat
    <3>1. Grants!ZeroTime \in Nat
      BY DEF Grants!ZeroTime
    <3> QED BY <1>1, <3>1, ZenonT(30) DEF Grants!GrantExpires
  <2>4. G \subseteq Nat /\ e \in G
    BY <2>1, <2>2, <2>3
  <2>5. PICK S \in SUBSET Nat : S = Grants!Bounded(G) /\ e \in S /\ 0 \notin S
    BY ZenonT(30), <2>4 DEF Grants!Bounded, Grants!ZeroTime
  <2>6. Grants!GrantExpiry(G) = Grants!Min(S)
    BY <2>5, ZenonT(30) DEF Grants!GrantExpiry
  <2>7. Grants!Min(S) \in S /\ Grants!Min(S) <= e
    BY <2>5, LeastTime, ZenonT(30)
  <2>8. Grants!Min(S) \in Nat \ {0}
    BY <2>5, <2>7
  <2> QED BY <1>2, <1>4, <1>5, <2>1, <2>6, <2>7, <2>8, ZenonT(30)
<1> QED BY <1>2, <1>4, <1>5, <1>6, ZenonT(30)

(* beginIssuance. *)
LEMMA BeginGrants ==
  ASSUME Grants!GrantsAssumption, GrantsInv, Grants!BeginIssuance
  PROVE  GrantsInv'
<1>0. tokenOrder.status = "processing" /\ issuance = Nothing /\ UNCHANGED <<clock, authzs, csr, issued>>
  BY ZenonT(30) DEF Grants!BeginIssuance
<1>e. PICK expiries : expiries = {authzs[i].expires : i \in tokenOrder.ids}
  BY ZenonT(30)
<1>1. CASE \E t \in Grants!Bounded(expiries) : t <= clock
  <2>1. tokenOrder' = [tokenOrder EXCEPT !.status = "invalid"] /\ UNCHANGED issuance
    BY <1>1, <1>e, ZenonT(30) DEF Grants!BeginIssuance
  <2>2. issued = Nothing /\ clock' \in Nat
    BY <1>0, ZenonT(30) DEF GrantsInv
  <2> QED BY <1>0, <2>1, <2>2, GrantsKept, ZenonT(30)
<1>2. CASE ~(\E t \in Grants!Bounded(expiries) : t <= clock)
  <2>1. /\ issuance' = [bound |-> Grants!GrantExpiry({Grants!GrantExpires(i) : i \in tokenOrder.ids}),
                        names |-> Grants!GrantNames,
                        deadline |-> Grants!Min(Grants!Bounded(expiries) \cup {LastTime + 1}), at |-> clock]
        /\ UNCHANGED tokenOrder
    BY <1>2, <1>e, ZenonT(30) DEF Grants!BeginIssuance
  <2>2. /\ issuance'.bound = Grants!GrantExpiry({Grants!GrantExpires(i) : i \in tokenOrder.ids})
        /\ issuance'.names = Grants!GrantNames
        /\ issuance'.deadline = Grants!Min(Grants!Bounded(expiries) \cup {LastTime + 1})
        /\ issuance'.at = clock
    BY ZenonT(30), <2>1
  <2>3. Grants!GrantNames' = Grants!GrantNames /\ Grants!Attested' = Grants!Attested
    BY ZenonT(30), <1>0, <2>1 DEF Grants!GrantNames, Grants!Attested
  <2>4. DispatchOK'
    BY <1>0, <1>2, <1>e, <2>1, <2>2, <2>3, DispatchBounds, ZenonT(30) DEF DispatchOK
  <2>5. issued' = Nothing
    BY <1>0, ZenonT(30) DEF GrantsInv
  <2>6. Grants!CertificateAttested'
    BY <1>0, <2>1, <2>3, <2>5, ZenonT(30) DEF GrantsInv, Grants!CertificateAttested, Grants!NamesAttested,
       Grants!CAAttested, Grants!EndsWithToken
  <2> QED BY <1>0, <2>1, <2>4, <2>5, <2>6, ZenonT(30) DEF GrantsInv, Grants!CheckCAGrants
<1> QED BY <1>1, <1>2

(* checkChain and recordIssuedResult. *)
LEMMA PublishGrants ==
  ASSUME Grants!GrantsAssumption, GrantsInv, Grants!Publish
  PROVE  GrantsInv'
<1>0. /\ tokenOrder.status = "processing" /\ issuance # Nothing /\ tokenOrder' = [tokenOrder EXCEPT !.status = "valid"]
      /\ UNCHANGED <<clock, authzs, csr, issuance>>
  BY ZenonT(30) DEF Grants!Publish
<1>1. tokenOrder' \in OrderGrants /\ tokenOrder'.ids = tokenOrder.ids /\ tokenOrder'.status = "valid"
  BY <1>0 DEF GrantsInv, OrderGrants
<1>2. PICK leaf \in Grants!Leaves :
        /\ Grants!LeafTimesOK(leaf) /\ Grants!LeafNamesOK(leaf) /\ Grants!LeafCAOK(leaf)
        /\ Grants!CoversIdentifiers(Grants!CanonNames(leaf.sans), issuance.names)
        /\ issued' = leaf
  BY ZenonT(30) DEF Grants!Publish
<1>3. Grants!GrantNames' = Grants!GrantNames /\ Grants!Attested' = Grants!Attested
  BY <1>0, <1>1 DEF Grants!GrantNames, Grants!Attested
<1>4. DispatchOK
  BY <1>0, ZenonT(30) DEF GrantsInv
<1>5. PICK names : names = Grants!CanonNames(leaf.sans)
  OBVIOUS
<1>6. /\ tokenOrder.ids \subseteq names /\ names \subseteq tokenOrder.ids \cup Grants!GrantNames
      /\ Grants!CanonNames(leaf.sans) \cup Grants!CommonName(leaf) = names
  BY ZenonT(30), <1>2, <1>4, <1>5 DEF DispatchOK, Grants!CoversIdentifiers, Grants!LeafNamesOK
<1>7. Grants!NamesAttested'
  <2>1. (Grants!CanonNames(issued.sans) \cup Grants!CommonName(issued))' = names
    BY ZenonT(30), <1>2, <1>6 DEF Grants!CanonNames, Grants!CommonName, Grants!CommonNameExempt
  <2>2. Grants!NamesAttested
    BY ZenonT(30) DEF GrantsInv, Grants!CertificateAttested
  <2>3. ASSUME NEW n \in names \ tokenOrder.ids
        PROVE  \E t \in Grants!Attested : /\ \E m \in t.sans : Canon[m] = n
                                          /\ t.fingerprint = AccountKey /\ Canon[t.value] \in tokenOrder.ids
    <3>1. n \in Grants!GrantNames
      BY <1>6, <2>3, ZenonT(30)
    <3> QED BY <3>1, GrantsAttested, ZenonT(30)
  <2> QED BY <1>0, <1>1, <1>3, <1>6, <2>1, <2>2, <2>3, ZenonT(30) DEF Grants!NamesAttested
<1>8. Grants!CAAttested'
  <2>1. SUFFICES ASSUME leaf.ca
                 PROVE  csr.ca /\ \A i \in tokenOrder.ids : \E t \in Grants!Attested : t.ca /\ Canon[t.value] = i
    BY <1>0, <1>1, <1>2, <1>3, ZenonT(30) DEF Grants!CAAttested
  <2>2. csr.ca
    BY ZenonT(30), <1>2, <2>1 DEF Grants!LeafCAOK
  <2>3. ASSUME NEW i \in tokenOrder.ids PROVE \E t \in Grants!Attested : t.ca /\ Canon[t.value] = i
    <3>1. authzs[i].ca = csr.ca /\ GrantOK(authzs[i], i)
      BY <1>0, ZenonT(30) DEF GrantsInv, Grants!CheckCAGrants
    <3>2. authzs[i].ca
      BY <2>2, <3>1
    <3>3. authzs[i].token # NoToken /\ authzs[i].token.ca /\ Canon[authzs[i].token.value] = i
      BY <3>1, <3>2, ZenonT(30) DEF GrantOK
    <3>4. authzs[i].token \in Grants!Attested
      BY <3>3, ZenonT(30) DEF Grants!Attested
    <3> QED BY <3>3, <3>4
  <2> QED BY <2>2, <2>3
<1>9. Grants!EndsWithToken'
  <2>1. ASSUME NEW i \in tokenOrder.ids, authzs[i].token # NoToken
        PROVE  leaf.notAfter <= authzs[i].token.exp \/ (Outlive /\ Types[i] = "TNAuthList")
    <3>1. CASE issuance.bound \in Nat \ {0} /\ issuance.bound <= authzs[i].token.exp
      <4>1. issuance.bound \in Grants!Bounded({Grants!IssuedNotAfter(issuance.bound), issuance.bound})
        BY <3>1 DEF Grants!Bounded, Grants!ZeroTime
      <4>2. leaf.notAfter <= issuance.bound
        BY <1>2, <4>1, ZenonT(30) DEF Grants!LeafTimesOK
      <4>3. leaf.notAfter \in Nat
        <5>1. leaf.notAfter \in 1..LastTime \cup {LastTime + 1} /\ LastTime \in Nat
          BY <1>2, ZenonT(30) DEF Grants!Leaves, Grants!Times, Grants!GrantsAssumption
        <5> QED BY <5>1
      <4>4. authzs[i].token.exp \in Nat
        BY ZenonT(30), <2>1 DEF GrantsInv, GrantRec, Grants!GrantsAssumption
      <4> QED BY <3>1, <4>2, <4>3, <4>4
    <3> QED BY <1>4, <2>1, <3>1, ZenonT(30) DEF DispatchOK
  <2> QED BY <1>0, <1>1, <1>2, <1>4, <2>1, ZenonT(30) DEF DispatchOK, Grants!EndsWithToken
<1>10. DispatchOK' /\ Grants!CheckCAGrants(csr.ca)'
  BY <1>0, <1>1, <1>3, <1>4, ZenonT(30) DEF GrantsInv, DispatchOK, Grants!CheckCAGrants
<1> QED BY <1>0, <1>1, <1>7, <1>8, <1>9, <1>10, ZenonT(30) DEF GrantsInv, Grants!CertificateAttested

(* Every step keeps GrantsInv. *)
LEMMA GrantsStep ==
  ASSUME Grants!GrantsAssumption, GrantsInv, [Grants!Next]_(Grants!vars)
  PROVE  GrantsInv'
<1>1. CASE Grants!Unpublished
  <2>1. issued = Nothing /\ clock' \in Nat
    BY <1>1, ZenonT(30) DEF GrantsInv, Grants!Unpublished
  <2> QED BY <1>1, <2>1, GrantsKept, ZenonT(30) DEF Grants!Unpublished
<1>2. CASE Grants!Tick
  <2>1. clock' \in Nat
    <3>1. clock \in Nat /\ clock' = clock + 1
      BY <1>2, ZenonT(30) DEF GrantsInv, Grants!Tick
    <3> QED BY <3>1
  <2> QED BY <1>2, <2>1, GrantsKept, ZenonT(30) DEF Grants!Tick
<1>3. CASE UNCHANGED Grants!vars
  <2>1. clock' \in Nat
    BY <1>3, ZenonT(30) DEF GrantsInv, Grants!vars
  <2> QED BY <1>3, <2>1, GrantsKept, ZenonT(30) DEF Grants!vars
<1> QED BY <1>1, <1>2, <1>3, ValidateGrants, CompleteGrants, FinalizeGrants, BeginGrants, PublishGrants, ZenonT(30)
        DEF Grants!Next

(* The parts of a step that the type of the grants is about. *)
LEMMA TypedOrder ==
  ASSUME Grants!GrantsAssumption, GrantsInv, Grants!TypeOK,
         NEW s \in {"pending", "ready", "processing", "valid", "invalid"},
         tokenOrder' = [tokenOrder EXCEPT !.status = s]
  PROVE  /\ tokenOrder'.ids = tokenOrder.ids /\ tokenOrder'.ids \in Orders /\ tokenOrder'.status = s
         /\ {tokenOrder'.notBefore, tokenOrder'.notAfter} \subseteq {Grants!ZeroTime} \cup Grants!Times
<1>1. /\ tokenOrder'.ids = tokenOrder.ids /\ tokenOrder'.status = s
      /\ tokenOrder'.notBefore = tokenOrder.notBefore /\ tokenOrder'.notAfter = tokenOrder.notAfter
  BY DEF GrantsInv, OrderGrants
<1> QED BY <1>1, ZenonT(30) DEF Grants!TypeOK

(* What an authorization holds, as TypeOK says it. *)
TypedGrant(a, i) ==
  /\ a.status \in {"pending", "checked", "valid", "invalid"} /\ a.names \subseteq Raw /\ a.ca \in BOOLEAN
  /\ a.token # NoToken <=> a.status \in {"checked", "valid"} /\ Types[i] \in Grants!TokenTypes

(* A step keeps the type of the grants: an authorization that is valid for *)
(* a token remembers it, and a valid order has a certificate (Validate,    *)
(* completeValidation, recordIssuedResult).                                *)
LEMMA GrantsTyped ==
  ASSUME Grants!GrantsAssumption, GrantsInv, Grants!TypeOK, [Grants!Next]_(Grants!vars)
  PROVE  Grants!TypeOK'
<1>0. \A i \in tokenOrder.ids : TypedGrant(authzs[i], i)
  BY ZenonT(30) DEF Grants!TypeOK, TypedGrant
<1>1. ASSUME NEW i \in tokenOrder.ids, NEW a, TypedGrant(a, i), authzs' = [authzs EXCEPT ![i] = a]
      PROVE  \A j \in tokenOrder.ids : TypedGrant(authzs'[j], j)
  <2>1. ASSUME NEW j \in tokenOrder.ids PROVE authzs'[j] = IF j = i THEN a ELSE authzs[j]
    BY ZenonT(30), <1>1 DEF GrantsInv
  <2> QED BY <1>0, <1>1, <2>1, ZenonT(30)
<1>2. ASSUME NEW i \in tokenOrder.ids, Grants!Validate(i) PROVE Grants!TypeOK'
  <2>0. /\ tokenOrder.status = "pending" /\ UNCHANGED <<clock, tokenOrder, csr, issuance, issued>>
    BY <1>2, ZenonT(30) DEF Grants!Validate
  <2>1. \A s : Grants!Ungranted(s) = [status |-> s, ca |-> FALSE, expires |-> 0, names |-> {}, token |-> NoToken]
    BY ZenonT(30) DEF Grants!Ungranted, Grants!ZeroTime
  <2>2. TypedGrant(Grants!Ungranted("invalid"), i)
    BY <2>1, ZenonT(30) DEF TypedGrant
  <2>3. Types[i] \notin Grants!TokenTypes => TypedGrant(Grants!Ungranted("checked"), i)
    BY <2>1, ZenonT(30) DEF TypedGrant
  <2>4. ASSUME NEW t \in Tokens, Grants!ValidToken(t, i), Types[i] \in Grants!TokenTypes
        PROVE  TypedGrant(Grants!Grant(t, i), i)
    <3>1. t.ca \in BOOLEAN /\ t.sans \subseteq Raw /\ Canon \in [Raw -> Raw] /\ t # NoToken
      BY DEF Grants!GrantsAssumption
    <3>2. Grants!NfNames(t, i) \subseteq Raw
      BY <3>1 DEF Grants!NfNames
    <3> QED BY ZenonT(30), <2>4, <3>1, <3>2 DEF Grants!Grant, TypedGrant
  <2>5. PICK a : TypedGrant(a, i) /\ authzs' = [authzs EXCEPT ![i] = a]
    BY <1>2, <2>2, <2>3, <2>4, ZenonT(30) DEF Grants!Validate
  <2>6. \A j \in tokenOrder.ids : TypedGrant(authzs'[j], j)
    BY <1>1, <2>5, ZenonT(30)
  <2> QED BY <2>0, <2>6, ZenonT(30) DEF Grants!TypeOK, TypedGrant
<1>3. ASSUME NEW i \in tokenOrder.ids, Grants!CompleteValidation(i) PROVE Grants!TypeOK'
  <2>0. tokenOrder.status = "pending" /\ UNCHANGED <<clock, csr, issuance, issued>>
    BY <1>3, ZenonT(30) DEF Grants!CompleteValidation
  <2>1. PICK s \in {"valid", "invalid"} :
          /\ authzs' = [authzs EXCEPT ![i].status = s]
          /\ s = "valid" <=> authzs[i].status = "checked"
          /\ authzs[i].status \in {"checked", "invalid"}
    BY <1>3, ZenonT(30) DEF Grants!CompleteValidation
  <2>2. PICK o \in {"invalid", "ready", "pending"} : tokenOrder' = [tokenOrder EXCEPT !.status = o]
    BY <1>3 DEF Grants!CompleteValidation
  <2>3. PICK a : a = [authzs[i] EXCEPT !.status = s]
    BY ZenonT(30)
  <2>4. /\ a.status = s /\ a.token = authzs[i].token /\ a.names = authzs[i].names /\ a.ca = authzs[i].ca
    BY <2>3 DEF GrantsInv, GrantRec
  <2>5. TypedGrant(a, i)
    BY <1>0, <2>1, <2>4 DEF TypedGrant
  <2>6. authzs' = [authzs EXCEPT ![i] = a]
    BY <2>1, <2>3
  <2>7. \A j \in tokenOrder.ids : TypedGrant(authzs'[j], j)
    BY <1>1, <2>5, <2>6, ZenonT(30)
  <2>8. issued = Nothing
    BY <2>0, ZenonT(30) DEF GrantsInv
  <2>9. /\ tokenOrder'.ids = tokenOrder.ids /\ tokenOrder'.ids \in Orders /\ tokenOrder'.status = o
        /\ {tokenOrder'.notBefore, tokenOrder'.notAfter} \subseteq {Grants!ZeroTime} \cup Grants!Times
    BY <2>2, TypedOrder, ZenonT(30)
  <2> QED BY <2>0, <2>2, <2>7, <2>8, <2>9, ZenonT(30) DEF Grants!TypeOK, TypedGrant
<1>4. CASE Grants!Finalize
  <2>0. /\ tokenOrder.status = "ready" /\ tokenOrder' = [tokenOrder EXCEPT !.status = "processing"]
        /\ UNCHANGED <<clock, authzs, issuance, issued>>
    BY <1>4, ZenonT(30) DEF Grants!Finalize
  <2>1. PICK r \in Grants!Requests :
          csr' = [names |-> Grants!CanonNames(r.sans) \cup Grants!CommonName(r), ca |-> r.ca]
    BY <1>4, ZenonT(30) DEF Grants!Finalize
  <2>2. Grants!CanonNames(r.sans) \cup Grants!CommonName(r) \subseteq Raw /\ r.ca \in BOOLEAN
    <3>1. r.sans \subseteq Raw /\ r.cn \in Raw \cup {Nothing} /\ r.ca \in BOOLEAN /\ Canon \in [Raw -> Raw]
      BY DEF Grants!Requests, Grants!GrantsAssumption
    <3>2. Grants!CanonNames(r.sans) \subseteq Raw
      BY ZenonT(30), <3>1 DEF Grants!CanonNames
    <3>3. Grants!CommonName(r) \subseteq Raw
      BY <3>1 DEF Grants!CommonName
    <3> QED BY ZenonT(30), <3>1, <3>2, <3>3
  <2>3. csr' # Nothing
    <3>1. csr' \in Grants!Accepted
      BY <2>1, <2>2, ZenonT(30) DEF Grants!Accepted
    <3> QED BY <3>1, ZenonT(30) DEF Grants!GrantsAssumption
  <2>4. issued = Nothing
    BY <2>0, ZenonT(30) DEF GrantsInv
  <2>5. /\ tokenOrder'.ids = tokenOrder.ids /\ tokenOrder'.ids \in Orders /\ tokenOrder'.status = "processing"
        /\ {tokenOrder'.notBefore, tokenOrder'.notAfter} \subseteq {Grants!ZeroTime} \cup Grants!Times
    BY <2>0, TypedOrder, ZenonT(30)
  <2> QED BY <2>0, <2>3, <2>4, <2>5, ZenonT(30) DEF Grants!TypeOK
<1>5. CASE Grants!Publish
  <2>0. /\ tokenOrder.status = "processing" /\ tokenOrder' = [tokenOrder EXCEPT !.status = "valid"]
        /\ UNCHANGED <<clock, authzs, csr, issuance>>
    BY <1>5, ZenonT(30) DEF Grants!Publish
  <2>1. issued' \in Grants!Leaves
    BY <1>5, ZenonT(30) DEF Grants!Publish
  <2>2. issued' # Nothing
    BY <2>1, ZenonT(30) DEF Grants!GrantsAssumption
  <2>3. /\ tokenOrder'.ids = tokenOrder.ids /\ tokenOrder'.ids \in Orders /\ tokenOrder'.status = "valid"
        /\ {tokenOrder'.notBefore, tokenOrder'.notAfter} \subseteq {Grants!ZeroTime} \cup Grants!Times
    BY <2>0, TypedOrder, ZenonT(30)
  <2> QED BY <2>0, <2>2, <2>3, ZenonT(30) DEF Grants!TypeOK
<1>6. CASE Grants!BeginIssuance \/ Grants!Unpublished
  <2>0. /\ tokenOrder.status = "processing" /\ UNCHANGED <<clock, authzs, csr, issued>>
        /\ tokenOrder' = tokenOrder \/ tokenOrder' = [tokenOrder EXCEPT !.status = "invalid"]
    BY <1>6, ZenonT(30) DEF Grants!BeginIssuance, Grants!Unpublished
  <2>1. CASE tokenOrder' = tokenOrder
    BY <2>0, <2>1, ZenonT(30) DEF Grants!TypeOK
  <2>2. CASE tokenOrder' = [tokenOrder EXCEPT !.status = "invalid"]
    <3>1. /\ tokenOrder'.ids = tokenOrder.ids /\ tokenOrder'.ids \in Orders /\ tokenOrder'.status = "invalid"
          /\ {tokenOrder'.notBefore, tokenOrder'.notAfter} \subseteq {Grants!ZeroTime} \cup Grants!Times
      BY <2>2, TypedOrder, ZenonT(30)
    <3>2. issued = Nothing
      BY <2>0, ZenonT(30) DEF GrantsInv
    <3> QED BY <2>0, <3>1, <3>2, ZenonT(30) DEF Grants!TypeOK
  <2> QED BY <2>0, <2>1, <2>2
<1>7. CASE Grants!Tick
  <2>1. clock' \in Grants!Times
    <3>1. clock \in 1..LastTime /\ LastTime \in Nat
      BY ZenonT(30) DEF Grants!TypeOK, Grants!Times, Grants!GrantsAssumption
    <3>2. clock' = clock + 1 /\ clock < LastTime
      BY <1>7, ZenonT(30) DEF Grants!Tick
    <3>3. clock' \in 1..LastTime
      BY <3>1, <3>2
    <3> QED BY <3>3, ZenonT(30) DEF Grants!Times
  <2> QED BY <1>7, <2>1, ZenonT(30) DEF Grants!Tick, Grants!TypeOK
<1>8. CASE UNCHANGED Grants!vars
  BY <1>8, ZenonT(30) DEF Grants!vars, Grants!TypeOK
<1> QED BY <1>2, <1>3, <1>4, <1>5, <1>6, <1>7, <1>8, ZenonT(30) DEF Grants!Next

(* A new order rests on nothing. *)
LEMMA GrantsInit ==
  ASSUME Grants!GrantsAssumption, Grants!Init
  PROVE  GrantsInv /\ Grants!TypeOK
<1>1. clock \in Nat /\ csr = Nothing /\ issuance = Nothing /\ issued = Nothing
  BY ZenonT(30) DEF Grants!Init
<1>2. tokenOrder \in OrderGrants /\ tokenOrder.status = "pending"
  BY DEF Grants!Init, OrderGrants, Grants!ZeroTime, Grants!GrantsAssumption
<1>3. PICK a : a = Grants!Ungranted("pending")
  OBVIOUS
<1>4. a \in GrantRec /\ a.token = NoToken /\ a.names = {} /\ a.ca = FALSE
  BY ZenonT(30), <1>3 DEF Grants!Ungranted, Grants!ZeroTime, GrantRec
<1>5. authzs = [i \in tokenOrder.ids |-> a]
  BY <1>3, ZenonT(30) DEF Grants!Init
<1>6. authzs \in [tokenOrder.ids -> GrantRec] /\ \A i \in tokenOrder.ids : GrantOK(authzs[i], i)
  BY ZenonT(30), <1>4, <1>5 DEF GrantOK
<1>7. Grants!CertificateAttested
  BY <1>1, ZenonT(30) DEF Grants!CertificateAttested, Grants!NamesAttested, Grants!CAAttested, Grants!EndsWithToken
<1>8. GrantsInv
  BY <1>1, <1>2, <1>6, <1>7, ZenonT(30) DEF GrantsInv
<1>9. /\ clock \in Grants!Times /\ tokenOrder.ids \in Orders
      /\ {tokenOrder.notBefore, tokenOrder.notAfter} \subseteq {Grants!ZeroTime} \cup Grants!Times
  <2>1. clock = 1 /\ tokenOrder.ids \in Orders /\ LastTime \in Nat \ {0, 1}
    BY ZenonT(30) DEF Grants!Init, Grants!GrantsAssumption
  <2>2. tokenOrder.notBefore \in {0, 2} /\ tokenOrder.notAfter \in {0, LastTime - 1}
    BY ZenonT(30) DEF Grants!Init, Grants!ZeroTime
  <2> QED BY <2>1, <2>2 DEF Grants!Times, Grants!ZeroTime
<1>10. \A i \in tokenOrder.ids : authzs[i] = a
  BY <1>5
<1>11. a.status = "pending"
  BY <1>3 DEF Grants!Ungranted
<1>12. Grants!TypeOK
  BY <1>1, <1>2, <1>4, <1>9, <1>10, <1>11, ZenonT(30) DEF Grants!TypeOK
<1> QED BY <1>8, <1>12

(* A certificate carries what authority tokens attest, and ends with them, *)
(* for every set of names, tokens, authorities and times (nfGrant,         *)
(* checkCSR, checkCAGrants, issuanceAuthorization, checkChain).            *)
THEOREM CertificatesAreAttested ==
  ASSUME Grants!GrantsAssumption
  PROVE  Grants!Spec => []CertificateAttested
<1>1. Grants!Init => GrantsInv /\ Grants!TypeOK
  BY GrantsInit
<1>2. (GrantsInv /\ Grants!TypeOK) /\ [Grants!Next]_(Grants!vars) => (GrantsInv /\ Grants!TypeOK)'
  BY GrantsStep, GrantsTyped
<1>3. GrantsInv /\ Grants!TypeOK => CertificateAttested
  BY ZenonT(30) DEF GrantsInv, CertificateAttested
<1> QED BY <1>1, <1>2, <1>3, PTL DEF Grants!Spec
=============================================================================
