----------------------------- MODULE Revocation -----------------------------
(***************************************************************************)
(* Revocation of one certificate (revoke.go) by concurrent requests, next  *)
(* to the orders that claim the certificate as their predecessor           *)
(* (memstore.claimReplacement), which change the same record.  One action  *)
(* per Store method or Revoker call; what a request does between two of    *)
(* them is local.  The Revoker is the host's, modelled from the contract   *)
(* of docs/guide/revocation.md.                                            *)
(***************************************************************************)
EXTENDS Integers, FiniteSets

CONSTANTS
  Requests,       \* request slots, each serving one revokeCert at a time
  Reasons,        \* CRL reason codes the configuration allows
  Replacements,   \* orders that name the certificate in replaces
  None,
  FinalRefusals,  \* the operations whose refusal, if any, the CA holds on to
  MaxOps,         \* bound: operation IDs drawn
  MaxFaults       \* bound: failed store calls and crashed requests

ASSUME RevocationAssumption ==
  /\ FinalRefusals \subseteq 1..MaxOps /\ MaxOps \in Nat /\ MaxFaults \in Nat
  /\ None \notin Reasons \cup Replacements \cup Nat

VARIABLES
  cert,    \* the stored Certificate
  req,     \* the request slots
  ca,      \* what the CA did with each operation
  calls,   \* the operation and reason of every Revoke call
  rorder,  \* the replacing orders: "none", "live" or "invalid"
  drawn,   \* operation IDs drawn so far
  faults

vars == <<cert, req, ca, calls, rorder, drawn, faults>>

Ops == 1..MaxOps
CertRec == [revoked : BOOLEAN, op : Ops \cup {None}, reason : Reasons \cup {None},
            by : Replacements \cup {None}, rev : Nat]
PCs == {"idle", "begin", "reload", "call", "record", "lookup", "abandon"}
Replies == {"none", "ok", "already", "refused", "error"}

(* Every call to the CA has an operation and a reason, and no request tries *)
(* to store anything more than twice (beginRevocation, recordRevocation).   *)
TypeOK ==
  /\ cert \in CertRec
  /\ req \in [Requests -> [pc : PCs, copy : CertRec, reason : Reasons \cup {None},
                           tries : 0..1, reply : Replies]]
  /\ ca \in [Ops -> {"unknown", "done", "refused"}]
  /\ calls \subseteq Ops \X Reasons
  /\ rorder \in [Replacements -> {"none", "live", "invalid"}]
  /\ drawn \in 0..MaxOps /\ faults \in 0..MaxFaults

NewCert == [revoked |-> FALSE, op |-> None, reason |-> None, by |-> None, rev |-> 1]

Init ==
  /\ cert = NewCert
  /\ req = [q \in Requests |->
       [pc |-> "idle", copy |-> NewCert, reason |-> None, tries |-> 0, reply |-> "none"]]
  /\ ca = [o \in Ops |-> "unknown"]
  /\ calls = {}
  /\ rorder = [p \in Replacements |-> "none"]
  /\ drawn = 0 /\ faults = 0

-----------------------------------------------------------------------------
(* Store.UpdateCertificate: c replaces the record when its revision is current. *)
Current(c) == c.rev = cert.rev
\* Mutant: the revision is not compared.
UpdateBlindly(c) == cert' = [c EXCEPT !.rev = cert.rev + 1]
UpdateCertificate(c) == Current(c) /\ cert' = [c EXCEPT !.rev = @ + 1]

Goto(q, pc) == req' = [req EXCEPT ![q].pc = pc]
Answer(q, r) == req' = [req EXCEPT ![q].pc = "idle", ![q].reply = r]

(* The switch of beginRevocation on a certificate just read. *)
Proceed(q, c, reason, n) ==
  IF c.revoked THEN req' = [req EXCEPT ![q].pc = "idle", ![q].reply = "already"]
  ELSE req' = [req EXCEPT ![q] =
         [pc |-> IF c.op = None THEN "begin" ELSE "call",
          copy |-> c, reason |-> reason, tries |-> n, reply |-> "none"]]

(* serveRevokeCert up to the lookup, for a request that passes the checks  *)
(* on its signature, reason and authority; one that does not changes       *)
(* nothing.                                                                *)
Receive(q, reason) ==
  /\ req[q].pc = "idle"
  /\ Proceed(q, cert, reason, 0)
  /\ UNCHANGED <<cert, ca, calls, rorder, drawn, faults>>

(* A fresh operation ID and the reason are committed before the CA call;   *)
(* a conflict is looked at once more.                                      *)
BeginRevocation(q) ==
  LET r == req[q]
      c == [r.copy EXCEPT !.op = drawn + 1, !.reason = r.reason]
  IN  /\ r.pc = "begin" /\ drawn < MaxOps
      /\ drawn' = drawn + 1
      /\ \/ /\ UpdateCertificate(c)
            /\ req' = [req EXCEPT ![q].pc = "call", ![q].copy = cert']
         \/ /\ ~Current(c)
            /\ IF r.tries = 0 THEN Goto(q, "reload") ELSE Answer(q, "error")
            /\ UNCHANGED cert
      /\ UNCHANGED <<ca, calls, rorder, faults>>

(* newID finds no randomness. *)
NewIDFails(q) ==
  /\ req[q].pc = "begin"
  /\ Answer(q, "error")
  /\ UNCHANGED <<cert, ca, calls, rorder, drawn, faults>>

Reload(q) ==
  /\ req[q].pc = "reload"
  /\ Proceed(q, cert, req[q].reason, 1)
  /\ UNCHANGED <<cert, ca, calls, rorder, drawn, faults>>

-----------------------------------------------------------------------------
(* Revoker.Revoke.  An operation the CA carried out succeeds again; whether *)
(* one it refused stays refused is told by FinalRefusals.                   *)
\* Mutant: the CA is given the reason of this request.
CalledWithOwnReason(q) ==
  /\ req[q].pc = "call"
  /\ calls' = calls \cup {<<req[q].copy.op, req[q].reason>>}
  /\ UNCHANGED <<cert, rorder, drawn, faults>>
Called(q) ==
  /\ req[q].pc = "call"
  /\ calls' = calls \cup {<<req[q].copy.op, req[q].copy.reason>>}
  /\ UNCHANGED <<cert, rorder, drawn, faults>>

MayAct(o) == ca[o] # "refused" \/ o \notin FinalRefusals

CallAccepted(q) ==
  LET o == req[q].copy.op IN
  /\ Called(q) /\ MayAct(o)
  /\ ca' = [ca EXCEPT ![o] = "done"]
  /\ req' = [req EXCEPT ![q].pc = "record", ![q].tries = 0]

(* A *Problem. *)
CallRefused(q) ==
  LET o == req[q].copy.op IN
  /\ Called(q) /\ ca[o] # "done"
  /\ ca' = [ca EXCEPT ![o] = "refused"]
  /\ Goto(q, "abandon")

(* Any other error, whether or not the CA acted. *)
CallUncertain(q) ==
  LET o == req[q].copy.op IN
  /\ Called(q)
  /\ ca' = ca \/ (MayAct(o) /\ ca' = [ca EXCEPT ![o] = "done"])
  /\ Answer(q, "error")

-----------------------------------------------------------------------------
(* recordRevocation: the accepted operation is written, once more over the *)
(* current record after a conflict.                                        *)
RecordRevocation(q) ==
  LET r == req[q] IN
  /\ r.pc = "record"
  /\ \/ UpdateCertificate([r.copy EXCEPT !.revoked = TRUE]) /\ Answer(q, "ok")
     \/ ~Current(r.copy) /\ Goto(q, "lookup") /\ UNCHANGED cert
  /\ UNCHANGED <<ca, calls, rorder, drawn, faults>>

(* A conflict with another revocation is success. *)
Lookup(q) ==
  LET r == req[q] IN
  /\ r.pc = "lookup"
  /\ \/ cert.revoked /\ Answer(q, "ok")
     \/ ~cert.revoked /\ r.tries = 1 /\ Answer(q, "error")
     \/ /\ ~cert.revoked /\ r.tries = 0
        /\ req' = [req EXCEPT ![q].pc = "record", ![q].tries = 1,
             ![q].copy = [cert EXCEPT !.op = r.copy.op, !.reason = r.copy.reason]]
  /\ UNCHANGED <<cert, ca, calls, rorder, drawn, faults>>

(* abandonRevocation: the refused operation is cleared, or a concurrent    *)
(* change is left in place.                                                *)
\* Mutant: whatever operation the record has by now is cleared.
AbandonLatest(q) ==
  /\ req[q].pc = "abandon"
  /\ IF cert.revoked THEN UNCHANGED cert
     ELSE cert' = [cert EXCEPT !.op = None, !.reason = None, !.rev = @ + 1]
  /\ Answer(q, "refused")
  /\ UNCHANGED <<ca, calls, rorder, drawn, faults>>
AbandonRevocation(q) ==
  LET c == [req[q].copy EXCEPT !.op = None, !.reason = None] IN
  /\ req[q].pc = "abandon"
  /\ UpdateCertificate(c) \/ (~Current(c) /\ UNCHANGED cert)
  /\ Answer(q, "refused")
  /\ UNCHANGED <<ca, calls, rorder, drawn, faults>>

(* A store call fails or the process stops: the request ends where it is.  *)
(* Only abandonRevocation answers as if nothing had happened.              *)
Fail(q) ==
  /\ req[q].pc # "idle" /\ faults < MaxFaults
  /\ faults' = faults + 1
  /\ Answer(q, IF req[q].pc = "abandon" THEN "refused" ELSE "error")
  /\ UNCHANGED <<cert, ca, calls, rorder, drawn>>

-----------------------------------------------------------------------------
(* Store.CreateOrder of an order with replaces, and its claim. *)
ClaimReplacement(p) ==
  /\ rorder[p] = "none"
  /\ \A previous \in Replacements : cert.by = previous => rorder[previous] = "invalid"
  /\ cert' = [cert EXCEPT !.by = p, !.rev = @ + 1]
  /\ rorder' = [rorder EXCEPT ![p] = "live"]
  /\ UNCHANGED <<req, ca, calls, drawn, faults>>

(* A replacing order fails or expires. *)
OrderEnds(p) ==
  /\ rorder[p] = "live"
  /\ rorder' = [rorder EXCEPT ![p] = "invalid"]
  /\ UNCHANGED <<cert, req, ca, calls, drawn, faults>>

RequestStep(q) ==
  \/ \E reason \in Reasons : Receive(q, reason)
  \/ BeginRevocation(q) \/ NewIDFails(q) \/ Reload(q)
  \/ CallAccepted(q) \/ CallRefused(q) \/ CallUncertain(q)
  \/ RecordRevocation(q) \/ Lookup(q) \/ AbandonRevocation(q)
  \/ Fail(q)

Next ==
  \/ \E q \in Requests : RequestStep(q)
  \/ \E p \in Replacements : ClaimReplacement(p) \/ OrderEnds(p)
Spec == Init /\ [][Next]_vars

-----------------------------------------------------------------------------
(* A certificate is recorded as revoked only under an operation the CA     *)
(* carried out, and with the reason the CA was given (recordRevocation).   *)
RevocationIsTrue ==
  cert.revoked => ca[cert.op] = "done" /\ <<cert.op, cert.reason>> \in calls

(* A recorded revocation is final: no late write of another request, and   *)
(* no claim, undoes it or changes its operation (UpdateCertificate).       *)
RevokedStays ==
  [][cert.revoked => /\ cert'.revoked
                     /\ cert'.op = cert.op /\ cert'.reason = cert.reason]_vars

(* Whoever is told that the certificate is revoked finds it recorded so.   *)
AnsweredRevoked ==
  \A q \in Requests : req[q].reply \in {"ok", "already"} => cert.revoked

(* The CA can deduplicate: it never sees an operation with two reasons,    *)
(* whoever retries it (beginRevocation).                                   *)
OneReasonPerOperation ==
  \A c, d \in calls : c[1] = d[1] => c[2] = d[2]

(* The certificate, the CA and the answers agree on a revocation: what is  *)
(* recorded or answered was carried out, under one operation with one      *)
(* reason (beginRevocation, callRevoker, recordRevocation).                *)
RevocationAgrees == TypeOK /\ RevocationIsTrue /\ AnsweredRevoked /\ OneReasonPerOperation

(* No write of a revocation loses a claim: a live replacing order is the   *)
(* one on the certificate, so there is at most one (claimReplacement).     *)
ClaimKept == \A p \in Replacements : rorder[p] = "live" => cert.by = p

(* Once the CA has revoked, the store says so or still has the operation,  *)
(* so that a retry completes it, whatever failed in between.  This is of   *)
(* operations that the CA does not carry out after it has refused them.    *)
AcceptedIsKept == \A o \in FinalRefusals : ca[o] = "done" => cert.revoked \/ cert.op = o

(* "If Revoke returns a *Problem, the server clears the recorded           *)
(* operation" (docs/guide/revocation.md).                                  *)
RefusalClears ==
  \A q \in Requests :
    req[q].reply = "refused" => cert.revoked \/ cert.op # req[q].copy.op
=============================================================================
