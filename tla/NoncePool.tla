------------------------------ MODULE NoncePool ------------------------------
(***************************************************************************)
(* What a nonce manager promises (nonce.go, and the comment on Manager): a *)
(* nonce is valid exactly once and until it expires; beyond the capacity   *)
(* the oldest is dropped, and nothing else ever is.                        *)
(***************************************************************************)
EXTENDS Integers, Sequences, FiniteSets

CONSTANTS Capacity, TTL

VARIABLES
  clock,
  issued,  \* the expiry of every nonce handed out so far, in order
  pool,    \* the nonces that would be accepted now
  reply    \* the last answer of Consume: the nonce and whether it was valid

poolVars == <<clock, issued, pool, reply>>

Fresh == Len(issued) + 1
Oldest(S) == {n \in S : \A k \in S : n <= k}
Room == IF Cardinality(pool) >= Capacity THEN pool \ Oldest(pool) ELSE pool

Init == clock = 0 /\ issued = <<>> /\ pool = {} /\ reply = <<0, FALSE>>

Issue ==
  /\ issued' = Append(issued, clock + TTL)
  /\ pool' = Room \cup {Fresh}
  /\ UNCHANGED <<clock, reply>>

(* No randomness: the room was made all the same. *)
Refuse == pool' = Room /\ UNCHANGED <<clock, issued, reply>>

Consume(n) ==
  /\ reply' = <<n, n \in pool>>
  /\ pool' = pool \ {n}
  /\ UNCHANGED <<clock, issued>>

Pass ==
  /\ clock' > clock
  /\ pool' = {n \in pool : clock' < issued[n]}
  /\ UNCHANGED <<issued, reply>>

Next == Issue \/ Refuse \/ (\E n \in 1..Fresh : Consume(n)) \/ Pass
Spec == Init /\ [][Next]_poolVars
=============================================================================
