--------------------------- MODULE MCOrderLifecycle ---------------------------
(* Small instances of OrderLifecycle: the resources, workers and requests   *)
(* are model values, and workers and requests are interchangeable.          *)
EXTENDS LifecycleInvariant, TLC
CONSTANTS o1, o2, a1, a2, c1, c2, c3, w1, w2, h1, h2

OneAuthz == a1 :> o1
TwoAuthzs == (a1 :> o1) @@ (a2 :> o1)
TwoOrders == (a1 :> o1) @@ (a2 :> o2)
NoChallenge == <<>>
OneChallenge == c1 :> a1
SharedAuthz == (c1 :> a1) @@ (c2 :> a1)
ThreeOfTwo == (c1 :> a1) @@ (c2 :> a1) @@ (c3 :> a2)

(* A bound for two orders: the second one is finalized only where requests *)
(* do not overlap, all ask for one CSR, and the account and the            *)
(* authorizations stay as they are.                                        *)
SecondOrderIsPlain ==
  order[o2].status # "ready" =>
    /\ Cardinality({h \in Handlers : hand[h].pc # "idle"}) <= 1
    /\ \A o \in Orders : order[o].csr \in {None, CHOOSE c \in CSRs : TRUE}
    /\ account.rev = 1
    /\ \A a \in Authzs : authz[a].status = "valid"

Symmetry == Permutations(Workers) \cup Permutations(Handlers)
=============================================================================
