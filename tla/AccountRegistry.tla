--------------------------- MODULE AccountRegistry ---------------------------
(***************************************************************************)
(* What the account operations promise (AccountStore in store.go, RFC 8555 *)
(* section 7.3): a table of accounts that changes one account at a time.   *)
(* A key and a single-use binding belong to at most one account, a binding *)
(* stays with its account, and a deactivated account never changes again.  *)
(***************************************************************************)
CONSTANTS Ids, Keys, Kids, Contacts, None

VARIABLE reg

Owned(k) == \E i \in Ids : reg[i] # None /\ reg[i].key = k
Bound(e) == \E i \in Ids : reg[i] # None /\ reg[i].claim = e
Valid(i) == reg[i] # None /\ reg[i].status = "valid"

RInit == reg = [i \in Ids |-> None]

Register(i, k, c, e) ==
  /\ reg[i] = None /\ ~Owned(k) /\ (e = None \/ ~Bound(e))
  /\ reg' = [reg EXCEPT ![i] = [key |-> k, status |-> "valid", contact |-> c, claim |-> e]]

Amend(i, c, s) ==
  /\ Valid(i)
  /\ reg' = [reg EXCEPT ![i].contact = c, ![i].status = s]

Rekey(i, k) ==
  /\ Valid(i) /\ ~Owned(k)
  /\ reg' = [reg EXCEPT ![i].key = k]

RNext == \E i \in Ids :
  \/ \E k \in Keys, c \in Contacts, e \in Kids \cup {None} : Register(i, k, c, e)
  \/ \E c \in Contacts, s \in {"valid", "deactivated"} : Amend(i, c, s)
  \/ \E k \in Keys : Rekey(i, k)

Registry == RInit /\ [][RNext]_reg
=============================================================================
