------------------------------ MODULE MCNonces ------------------------------
(***************************************************************************)
(* In one behaviour the nonce manager moves alone, in another the requests *)
(* do; the part that is not under way stays in its initial state.  They    *)
(* share no state, as the requests rest on what the manager promises.      *)
(***************************************************************************)
EXTENDS NonceManager, RequestPipeline, TLC

VARIABLE part

BothInit == part \in {"manager", "requests"} /\ Init /\ RequestInit
BothNext ==
  \/ part = "manager" /\ Next /\ UNCHANGED <<part, requestVars>>
  \/ part = "requests" /\ RequestNext /\ UNCHANGED <<part, vars>>
BothSpec == BothInit /\ [][BothNext]_<<part, vars, requestVars>>

Symmetry == Permutations(Requests)
=============================================================================
