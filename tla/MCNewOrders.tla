---------------------------- MODULE MCNewOrders ----------------------------
(***************************************************************************)
(* NewOrders within three scopes, one in each behaviour: a request with    *)
(* any payload before a policy with every hook, requests that replace the  *)
(* same certificate, and a client that reads the list of its orders.  A    *)
(* scope takes its steps from an instance with narrower constants, and the *)
(* invariants are those of NewOrders.                                      *)
(***************************************************************************)
EXTENDS NewOrders, SequencesExt, TLC

CONSTANTS p1, a1, Unknown

VARIABLE scope

Id(type, wild, name, form) == [type |-> type, wild |-> wild, name |-> name, form |-> form]
A == Id("dns", FALSE, "a", "canonical")

(* Two spellings of a name, its wildcard, a bad name and the other types. *)
AllIdentifiers ==
  {A, Id("dns", FALSE, "a", "variant"), Id("dns", TRUE, "a", "canonical"),
   Id("dns", FALSE, "a", "bad"), Id("ip", FALSE, "i", "canonical"),
   Id("TNAuthList", FALSE, "t", "canonical"), Id("NfInstanceId", FALSE, "n", "variant"),
   Id("uri", FALSE, "u", "canonical")}
Payload(ids, nb, na, profile, replaces) ==
  [identifiers |-> ids, notBefore |-> nb, notAfter |-> na, profile |-> profile,
   replaces |-> replaces]

OneCert == {[account |-> a1, identifiers |-> {A}]}
AllPayloads ==
  {Payload(ids, nb, na, profile, c) :
     ids \in BoundedSeq(AllIdentifiers, 2), nb \in {None, 1}, na \in {None, 1, 2},
     profile \in {None, "p", Unknown}, c \in OneCert \cup {None, Unknown}}
Replacing == {Payload(<<A>>, None, None, None, c) : c \in OneCert}
Plain == {Payload(<<A>>, None, None, None, None)}

-----------------------------------------------------------------------------
ASSUME NewOrdersAssumption == NewOrderAssumption

Asked == INSTANCE NewOrders WITH Requests <- {p1}, MaxTime <- 0, MaxLists <- 0
Replaced == INSTANCE NewOrders WITH
  Requests <- Requests \ {p1}, RawIdentifiers <- {}, Payloads <- Replacing, Bounds <- {},
  Choosing <- FALSE, PreApproving <- FALSE, MaxLists <- 0
Listed == INSTANCE NewOrders WITH
  Requests <- Requests \ {p1}, RawIdentifiers <- {}, Payloads <- Plain, Bounds <- {},
  Choosing <- FALSE, PreApproving <- FALSE, MaxTime <- 1

ScopedInit == scope \in {"asked", "replaced", "listed"} /\ Init
ScopedNext ==
  /\ UNCHANGED scope
  /\ \/ scope = "asked" /\ Asked!Next
     \/ scope = "replaced" /\ Replaced!Next
     \/ scope = "listed" /\ Listed!Next
ScopedSpec == ScopedInit /\ [][ScopedNext]_<<vars, scope>>

Symmetry == Permutations(Requests \ {p1})
=============================================================================
