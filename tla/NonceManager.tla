---------------------------- MODULE NonceManager ----------------------------
(***************************************************************************)
(* The in-process nonce manager of nonce/nonce.go: a map of live nonces    *)
(* and a queue of entries in issue order, with a head that skips entries   *)
(* and a compaction that drops the dead ones.  Every method holds the      *)
(* mutex throughout and is one action.  A nonce is the number of its       *)
(* issue: 128 random bits do not repeat, so the collision loop of Issue    *)
(* always ends at its first turn.                                          *)
(***************************************************************************)
EXTENDS Integers, Sequences, FiniteSets, FiniteSetsExt

CONSTANTS
  Capacity, TTL,      \* Options
  MaxIssued, MaxTime  \* bounds: nonces issued, clock

ASSUME NonceAssumption ==
  Capacity \in Nat \ {0} /\ TTL \in Nat \ {0} /\ MaxIssued \in Nat /\ MaxTime \in Nat

VARIABLES
  now,
  m,      \* the Manager: live (nonce -> expiry), queue, head
  given,  \* the expiry of every nonce issued so far
  reply   \* the last answer of Consume

vars == <<now, m, given, reply>>

IsLive(s, v) == v \in DOMAIN s.live
Without(live, V) == [v \in DOMAIN live \ V |-> live[v]]
Unread(s) == (s.head + 1)..Len(s.queue)

Init ==
  /\ now = 0
  /\ m = [live |-> <<>>, queue |-> <<>>, head |-> 0]
  /\ given = <<>>
  /\ reply = <<0, FALSE>>

(* The entries before position n are read and their nonces dropped. *)
ReadUpTo(s, n) ==
  [s EXCEPT !.head = n, !.live = Without(@, {s.queue[i].value : i \in (s.head + 1)..n})]

(* The entries of a queue at the positions of K, in their order. *)
InOrder(K) ==
  CHOOSE f \in [1..Cardinality(K) -> K] :
    (\A i, j \in 1..Cardinality(K) : i < j => f[i] < f[j]) /\ \A k \in K : \E i \in 1..Cardinality(K) : f[i] = k
Entries(queue, K) == [i \in 1..Cardinality(K) |-> queue[InOrder(K)[i]]]

\* Mutant: only a long prefix is compacted away.
CompactPrefix(s) ==
  IF s.head < Len(s.queue) \div 2 THEN s
  ELSE [s EXCEPT !.head = 0, !.queue = Entries(@, Unread(s))]
Compact(s) ==
  LET kept == {i \in Unread(s) : LET e == s.queue[i] IN IsLive(s, e.value) /\ s.live[e.value] = e.expires} IN
  IF s.head < Len(s.queue) \div 2 /\ Len(s.queue) - Cardinality(DOMAIN s.live) < Capacity THEN s
  ELSE [s EXCEPT !.head = 0, !.queue = Entries(@, kept)]

(* Up to the first nonce that is live and has not expired. *)
Purge(s, t) ==
  LET stop == {i \in Unread(s) : IsLive(s, s.queue[i].value) /\ t < s.live[s.queue[i].value]}
  IN  Compact(ReadUpTo(s, IF stop = {} THEN Len(s.queue) ELSE Min(stop) - 1))

(* Up to and including the first nonce that is live. *)
EvictOldest(s) ==
  LET stop == {i \in Unread(s) : IsLive(s, s.queue[i].value)}
  IN  Compact(ReadUpTo(s, IF stop = {} THEN Len(s.queue) ELSE Min(stop)))

(* The loop of Issue that evicts until there is room.  It ends after one   *)
(* turn at most, as QueueSound says.                                       *)
Full(s) == Cardinality(DOMAIN s.live) >= Capacity /\ s.head < Len(s.queue)
MakeRoom(s) == IF Full(s) THEN EvictOldest(s) ELSE s

Issue ==
  LET v == Len(given) + 1
      s == MakeRoom(Purge(m, now))
  IN  /\ v <= MaxIssued
      /\ m' = [s EXCEPT !.live = [n \in DOMAIN @ \cup {v} |-> IF n = v THEN now + TTL ELSE @[n]],
                        !.queue = Append(@, [value |-> v, expires |-> now + TTL])]
      /\ given' = Append(given, now + TTL)
      /\ UNCHANGED <<now, reply>>

(* The random source fails once room has been made. *)
IssueFails ==
  /\ m' = MakeRoom(Purge(m, now))
  /\ UNCHANGED <<now, given, reply>>

(* Any nonce, known or not. *)
\* Mutant: whatever is in the map is valid.
ConsumeExpired(v) ==
  /\ m' = [m EXCEPT !.live = Without(@, {v})]
  /\ reply' = <<v, IsLive(m, v)>>
  /\ UNCHANGED <<now, given>>
Consume(v) ==
  /\ m' = [m EXCEPT !.live = Without(@, {v})]
  /\ reply' = <<v, IsLive(m, v) /\ now < m.live[v]>>
  /\ UNCHANGED <<now, given>>

Tick ==
  /\ now < MaxTime
  /\ now' = now + 1
  /\ UNCHANGED <<m, given, reply>>

Next ==
  \/ Issue \/ IssueFails
  \/ \E v \in 1..(Len(given) + 1) : Consume(v)
  \/ Tick
Spec == Init /\ [][Next]_vars

-----------------------------------------------------------------------------
(* The manager finds every live nonce again when it has to drop it, in a   *)
(* queue that stays small although consumed nonces remain in it: each live *)
(* nonce has one unread entry, with its expiry, unread entries are in the  *)
(* order of issue, there are never twice as many entries as Capacity, and  *)
(* one eviction makes room (Issue, purge, evictOldest, compact).           *)
QueueSound ==
  /\ \A v \in DOMAIN m.live :
       \E i \in Unread(m) : m.queue[i] = [value |-> v, expires |-> m.live[v]]
  /\ \A i, j \in Unread(m) : i < j => m.queue[i].value < m.queue[j].value
  /\ Cardinality(DOMAIN m.live) <= Capacity /\ Len(m.queue) < 2 * Capacity
  /\ ~Full(MakeRoom(Purge(m, now)))

(* The manager implements the promise: single use, expiry, and eviction of *)
(* the oldest at capacity only.                                            *)
Pool == INSTANCE NoncePool WITH
  clock <- now, issued <- given, pool <- {v \in DOMAIN m.live : now < m.live[v]}
ImplementsPool == Pool!Spec
=============================================================================
