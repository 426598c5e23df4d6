---------------------------- MODULE OrderMachine ----------------------------
(***************************************************************************)
(* What the server promises about an order, its authorizations and its     *)
(* challenges (RFC 8555 section 7.1.6 as status.go and the Store contract  *)
(* of store.go state it), with no tasks, revisions, leases or workers: a   *)
(* challenge, its authorization and its order change together, in one      *)
(* step, and an order goes to the CA only while all its authorizations     *)
(* are valid.                                                              *)
(***************************************************************************)
CONSTANTS Orders, Authzs, Challenges, OrderOf, AuthzOf, PreApproved, CSRs, None

VARIABLES
  ord,   \* Order.Status
  az,    \* Authorization.Status
  chal,  \* Challenge.Status
  csr,   \* Order.CSR
  sent   \* the orders whose dispatch to the CA is recorded

machineVars == <<ord, az, chal, csr, sent>>

Of(o) == {a \in Authzs : OrderOf[a] = o}
Open(o) == ord[o] \in {"pending", "ready"} \/ (ord[o] = "processing" /\ o \notin sent)

Init ==
  /\ az = [a \in Authzs |-> IF a \in PreApproved THEN "valid" ELSE "pending"]
  /\ ord = [o \in Orders |-> IF Of(o) \subseteq PreApproved THEN "ready" ELSE "pending"]
  /\ chal = [c \in Challenges |-> "pending"]
  /\ csr = [o \in Orders |-> None]
  /\ sent = {}

(* The client responds to a challenge. *)
Respond(c) ==
  /\ chal[c] = "pending"
  /\ chal' = [chal EXCEPT ![c] = "processing"]
  /\ UNCHANGED <<ord, az, csr, sent>>

(* A proof succeeds: the order becomes ready exactly when the last of its  *)
(* authorizations does, unless it expired.                                 *)
Validate(c) ==
  LET a == AuthzOf[c]
      o == OrderOf[a]
  IN  /\ chal[c] = "processing" /\ az[a] = "pending"
      /\ chal' = [chal EXCEPT ![c] = "valid"]
      /\ az' = [az EXCEPT ![a] = "valid"]
      /\ \/ /\ \A b \in Of(o) : az'[b] = "valid"
            /\ ord' = [ord EXCEPT ![o] = IF @ = "pending" THEN "ready" ELSE @]
         \/ /\ \E b \in Of(o) : az'[b] # "valid"
            /\ UNCHANGED ord
         \/ ord' = [ord EXCEPT ![o] = IF @ = "pending" THEN "invalid" ELSE @]
      /\ UNCHANGED <<csr, sent>>

(* A proof fails: the authorization and the order fail with it. *)
Refuse(c) ==
  LET a == AuthzOf[c]
      o == OrderOf[a]
  IN  /\ chal[c] = "processing" /\ az[a] = "pending"
      /\ chal' = [chal EXCEPT ![c] = "invalid"]
      /\ az' = [az EXCEPT ![a] = "invalid"]
      /\ ord' = [ord EXCEPT ![o] = IF @ = "pending" THEN "invalid" ELSE @]
      /\ UNCHANGED <<csr, sent>>

(* A response whose authorization is decided already, or expired. *)
Discard(c) ==
  LET o == OrderOf[AuthzOf[c]] IN
  /\ chal[c] = "processing"
  /\ chal' = [chal EXCEPT ![c] = "invalid"]
  /\ \/ UNCHANGED ord
     \/ ord[o] = "pending" /\ ord' = [ord EXCEPT ![o] = "invalid"]
  /\ UNCHANGED <<az, csr, sent>>

Deactivate(a) ==
  LET o == OrderOf[a] IN
  /\ az[a] \in {"pending", "valid"}
  /\ az' = [az EXCEPT ![a] = "deactivated"]
  /\ ord' = IF Open(o) THEN [ord EXCEPT ![o] = "invalid"] ELSE ord
  /\ UNCHANGED <<chal, csr, sent>>

Finalize(o) ==
  /\ ord[o] = "ready"
  /\ ord' = [ord EXCEPT ![o] = "processing"]
  /\ \E r \in CSRs : csr' = [csr EXCEPT ![o] = r]
  /\ UNCHANGED <<az, chal, sent>>

Dispatch(o) ==
  /\ ord[o] = "processing" /\ o \notin sent
  /\ \A a \in Of(o) : az[a] = "valid"
  /\ sent' = sent \cup {o}
  /\ UNCHANGED <<ord, az, chal, csr>>

Settle(o) ==
  /\ ord[o] = "processing"
  /\ \/ o \in sent /\ ord' = [ord EXCEPT ![o] = "valid"]
     \/ ord' = [ord EXCEPT ![o] = "invalid"]
  /\ UNCHANGED <<az, chal, csr, sent>>

Next ==
  \/ \E c \in Challenges : Respond(c) \/ Validate(c) \/ Refuse(c) \/ Discard(c)
  \/ \E a \in Authzs : Deactivate(a)
  \/ \E o \in Orders : Finalize(o) \/ Dispatch(o) \/ Settle(o)

Spec == Init /\ [][Next]_machineVars
=============================================================================
