----------------------------- MODULE NonceProofs -----------------------------
(***************************************************************************)
(* The nonce manager for every capacity and lifetime, and the way of a     *)
(* request to its handler and its answer for every set of requests: nonces *)
(* are spent once and are earned.                                          *)
(***************************************************************************)
EXTENDS NonceManager, RequestPipeline, FiniteSetTheorems, TLAPS

-----------------------------------------------------------------------------
(* The nonce manager. *)

Entry == [value : Nat, expires : Nat]

(* A Manager whose unread entries are in the order of issue and lead to    *)
(* every live nonce, of which there are no more than its capacity.         *)
Sound(s) ==
  /\ s = [live |-> s.live, queue |-> s.queue, head |-> s.head]
  /\ DOMAIN s.live \subseteq 1..Len(given) /\ Cardinality(DOMAIN s.live) <= Capacity
  /\ s.live = [v \in DOMAIN s.live |-> given[v]]
  /\ s.queue \in Seq(Entry) /\ s.head \in Nat /\ s.head <= Len(s.queue)
  /\ \A v \in DOMAIN s.live : \E i \in Unread(s) : s.queue[i].value = v
  /\ \A i \in Unread(s) :
       s.queue[i].value \in 1..Len(given) /\ s.queue[i].expires = given[s.queue[i].value]
  /\ \A i, j \in Unread(s) : i < j => s.queue[i].value < s.queue[j].value

(* Later nonces expire later. *)
Dated ==
  /\ now \in Nat /\ given \in Seq(Nat)
  /\ \A i \in 1..Len(given) : given[i] <= now + TTL
  /\ \A i, j \in 1..Len(given) : i < j => given[i] <= given[j]

(* The invariant behind QueueSound and the refinement. *)
ManagerInv == Dated /\ Sound(m) /\ Len(m.queue) < 2 * Capacity

(* A set of numbers has a least one. *)
LEMMA LeastOf ==
  ASSUME NEW S \in SUBSET Nat, S # {}
  PROVE  \E n \in S : \A k \in S : n <= k
<1>1. PICK n \in S : \A k \in S : ~(<<k, n>> \in OpToRel(<, Nat))
  BY ZenonT(30), NatLessThanWellFounded, WFMin
<1>2. ASSUME NEW k \in S PROVE n <= k
  <2>1. k \in Nat /\ n \in Nat
    OBVIOUS
  <2>2. SUFFICES ASSUME k < n PROVE FALSE
    BY <2>1
  <2>3. <<k, n>> \in {ss \in Nat \X Nat : ss[1] < ss[2]}
    BY <2>1, <2>2
  <2> QED BY <1>1, <2>3, Zenon DEF OpToRel
<1> QED BY <1>2, Zenon

(* Min finds it. *)
LEMMA MinIsLeast ==
  ASSUME NEW S \in SUBSET Nat, S # {}
  PROVE  Min(S) \in S /\ \A k \in S : Min(S) <= k
BY LeastOf, Zenon DEF Min

(* An enumeration of K in order. *)
Enumerates(f, K) ==
  /\ f \in [1..Cardinality(K) -> K]
  /\ \A i, j \in 1..Cardinality(K) : i < j => f[i] < f[j]
  /\ \A k \in K : \E i \in 1..Cardinality(K) : f[i] = k

(* What enumerates a set without its least element enumerates it all,      *)
(* behind that element.                                                    *)
LEMMA EnumerateFrom ==
  ASSUME NEW K \in SUBSET Nat, IsFiniteSet(K), NEW n \in K, \A k \in K : n <= k,
         NEW f, Enumerates(f, K \ {n})
  PROVE  Enumerates([i \in 1..Cardinality(K) |-> IF i = 1 THEN n ELSE f[i - 1]], K)
<1> DEFINE c == Cardinality(K \ {n})
           g == [i \in 1..Cardinality(K) |-> IF i = 1 THEN n ELSE f[i - 1]]
<1>1. IsFiniteSet(K \ {n}) /\ Cardinality(K) = c + 1 /\ c \in Nat
  <2>1. IsFiniteSet(K \ {n}) /\ c = Cardinality(K) - 1
    BY FS_RemoveElement
  <2>2. c \in Nat /\ Cardinality(K) \in Nat
    BY <2>1, FS_CardinalityType, Zenon
  <2> QED BY <2>1, <2>2
<1>2. /\ f \in [1..c -> K \ {n}]
      /\ \A i, j \in 1..c : i < j => f[i] < f[j]
      /\ \A k \in K \ {n} : \E i \in 1..c : f[i] = k
  BY Zenon DEF Enumerates
<1> HIDE DEF c
<1>3. g[1] = n /\ \A i \in 1..c : i + 1 \in 1..(c + 1) /\ g[i + 1] = f[i]
  BY <1>1
<1>4. \A i \in 1..(c + 1) : i = 1 \/ (i - 1 \in 1..c /\ g[i] = f[i - 1])
  BY <1>1
<1> HIDE DEF g
<1>5. \A i \in 1..(c + 1) : g[i] \in K
  BY <1>2, <1>3, <1>4
<1>6. ASSUME NEW i \in 1..(c + 1), NEW j \in 1..(c + 1), i < j PROVE g[i] < g[j]
  <2>1. j - 1 \in 1..c /\ g[j] = f[j - 1] /\ f[j - 1] \in K \ {n}
    BY <1>1, <1>2, <1>4, <1>6
  <2>2. CASE i = 1
    <3>1. n \in Nat /\ f[j - 1] \in Nat /\ n <= f[j - 1] /\ n # f[j - 1]
      BY <2>1, Zenon
    <3> QED BY <1>3, <2>1, <2>2, <3>1
  <2>3. CASE i # 1
    <3>1. i - 1 \in 1..c /\ g[i] = f[i - 1]
      BY <1>4, <2>3
    <3>2. i - 1 < j - 1
      BY <1>1, <1>6
    <3>3. f[i - 1] < f[j - 1]
      BY <1>2, <2>1, <3>1, <3>2, Zenon
    <3> QED BY <2>1, <3>1, <3>3
  <2> QED BY <2>2, <2>3
<1>7. ASSUME NEW k \in K PROVE \E i \in 1..(c + 1) : g[i] = k
  <2>1. CASE k = n
    BY <1>1, <1>3, <2>1
  <2>2. CASE k # n
    <3>1. PICK i \in 1..c : f[i] = k
      BY <1>2, <2>2, Zenon
    <3> QED BY <1>3, <3>1, Zenon
  <2> QED BY <2>1, <2>2
<1>8. g \in [1..(c + 1) -> K]
  BY <1>1, <1>5 DEF g
<1> QED BY <1>1, <1>6, <1>7, <1>8, Zenon DEF Enumerates, g

(* Every finite set of positions has an enumeration, for a least one       *)
(* without would have none either without its least element.               *)
LEMMA Enumerable ==
  ASSUME NEW K \in SUBSET Nat, IsFiniteSet(K)
  PROVE  \E f : Enumerates(f, K)
<1> DEFINE Bad == {J \in SUBSET Nat : IsFiniteSet(J) /\ ~\E f : Enumerates(f, J)}
           Sizes == {c \in Nat : \E J \in Bad : Cardinality(J) = c}
<1>1. SUFFICES ASSUME K \in Bad PROVE FALSE
  BY Zenon
<1>2. \A J \in Bad : J \in SUBSET Nat /\ IsFiniteSet(J) /\ (~\E f : Enumerates(f, J)) /\ Cardinality(J) \in Sizes
  BY FS_CardinalityType, Zenon
<1>3. Sizes \in SUBSET Nat /\ Sizes # {}
  BY <1>1, <1>2, Zenon
<1>4. PICK c \in Sizes : \A d \in Sizes : c <= d
  BY <1>3, LeastOf, Zenon
<1>5. PICK J \in Bad : Cardinality(J) = c
  BY <1>4, Zenon
<1>d. \A L \in SUBSET Nat : IsFiniteSet(L) /\ L \notin Bad => \E f : Enumerates(f, L)
  BY Zenon
<1> HIDE DEF Bad, Sizes
<1>6. J # {}
  <2>1. SUFFICES ASSUME J = {} PROVE Enumerates([i \in {} |-> i], J)
    BY <1>2, <1>5, Zenon
  <2>2. 1..Cardinality({}) = {}
    BY FS_EmptySet
  <2> QED BY <2>1, <2>2 DEF Enumerates
<1>7. PICK n \in J : \A k \in J : n <= k
  BY <1>2, <1>5, <1>6, LeastOf, Zenon
<1>8. IsFiniteSet(J \ {n}) /\ Cardinality(J \ {n}) = c - 1 /\ J \ {n} \in SUBSET Nat
  BY <1>2, <1>5, FS_RemoveElement
<1>9. J \ {n} \notin Bad
  BY <1>2, <1>3, <1>4, <1>8
<1>10. PICK f : Enumerates(f, J \ {n})
  BY <1>d, <1>8, <1>9, Zenon
<1>11. \E h : Enumerates(h, J)
  BY <1>2, <1>7, <1>10, EnumerateFrom, Zenon
<1> QED BY <1>2, <1>5, <1>11, Zenon

(* InOrder finds it. *)
LEMMA InOrderIs ==
  ASSUME NEW K \in SUBSET Nat, IsFiniteSet(K)
  PROVE  Enumerates(InOrder(K), K)
<1>1. PICK f : Enumerates(f, K)
  BY Enumerable, Zenon
<1> QED BY <1>1, Zenon DEF Enumerates, InOrder

(* What an assignment to fields of a Manager leaves. *)
LEMMA FieldsSet ==
  ASSUME NEW s, s = [live |-> s.live, queue |-> s.queue, head |-> s.head], NEW l, NEW q, NEW n
  PROVE  /\ [s EXCEPT !.head = n, !.live = l] = [live |-> l, queue |-> s.queue, head |-> n]
         /\ [s EXCEPT !.head = n, !.queue = q] = [live |-> s.live, queue |-> q, head |-> n]
         /\ [s EXCEPT !.live = l, !.queue = q] = [live |-> l, queue |-> q, head |-> s.head]
         /\ [s EXCEPT !.live = l] = [live |-> l, queue |-> s.queue, head |-> s.head]
<1>1. s \in [live : {s.live}, queue : {s.queue}, head : {s.head}]
  BY Zenon
<1>2. [s EXCEPT !.head = n, !.live = l] =
        [x \in DOMAIN s |-> IF x = "live" THEN l ELSE IF x = "head" THEN n ELSE s[x]]
  BY Zenon
<1>3. [s EXCEPT !.head = n, !.queue = q] =
        [x \in DOMAIN s |-> IF x = "queue" THEN q ELSE IF x = "head" THEN n ELSE s[x]]
  BY Zenon
<1>4. [s EXCEPT !.live = l, !.queue = q] =
        [x \in DOMAIN s |-> IF x = "queue" THEN q ELSE IF x = "live" THEN l ELSE s[x]]
  BY Zenon
<1>5. [s EXCEPT !.live = l] = [x \in DOMAIN s |-> IF x = "live" THEN l ELSE s[x]]
  BY Zenon
<1>6. [s EXCEPT !.head = n, !.live = l] = [live |-> l, queue |-> s.queue, head |-> n]
  BY <1>1, <1>2
<1>7. [s EXCEPT !.head = n, !.queue = q] = [live |-> s.live, queue |-> q, head |-> n]
  BY <1>1, <1>3
<1>8. [s EXCEPT !.live = l, !.queue = q] = [live |-> l, queue |-> q, head |-> s.head]
  BY <1>1, <1>4
<1>9. [s EXCEPT !.live = l] = [live |-> l, queue |-> s.queue, head |-> s.head]
  BY <1>1, <1>5
<1> QED BY <1>6, <1>7, <1>8, <1>9, Zenon

(* Reading on drops the nonces of the entries read and no others.          *)
LEMMA ReadSound ==
  ASSUME given \in Seq(Nat), NEW s, Sound(s), NEW n \in Nat, s.head <= n, n <= Len(s.queue)
  PROVE  /\ Sound(ReadUpTo(s, n)) /\ ReadUpTo(s, n).queue = s.queue /\ ReadUpTo(s, n).head = n
         /\ DOMAIN ReadUpTo(s, n).live = DOMAIN s.live \ {s.queue[i].value : i \in (s.head + 1)..n}
<1> DEFINE V == {s.queue[i].value : i \in (s.head + 1)..n}
           r == ReadUpTo(s, n)
<1>1. r = [live |-> [v \in DOMAIN s.live \ V |-> s.live[v]], queue |-> s.queue, head |-> n]
  <2>1. s = [live |-> s.live, queue |-> s.queue, head |-> s.head]
    BY Zenon DEF Sound
  <2>2. ReadUpTo(s, n) = [s EXCEPT !.head = n, !.live = Without(@, V)]
    BY Zenon DEF ReadUpTo
  <2>3. Without(s.live, V) = [v \in DOMAIN s.live \ V |-> s.live[v]]
    BY Zenon DEF Without
  <2> HIDE DEF V
  <2> QED BY <2>1, <2>2, <2>3, Zenon
<1> HIDE DEF V, r
<1>0. s.head \in Nat /\ Len(s.queue) \in Nat
  <2>1. s.queue \in Seq(Entry) /\ s.head \in Nat
    BY Zenon DEF Sound
  <2> QED BY <2>1
<1>2. r.queue = s.queue /\ r.head = n /\ DOMAIN r.live = DOMAIN s.live \ V
  BY <1>1
<1>3. r.live = [v \in DOMAIN r.live |-> given[v]]
  <2>1. \A v \in DOMAIN s.live : s.live[v] = given[v]
    BY Zenon DEF Sound
  <2>2. r.live = [v \in DOMAIN s.live \ V |-> s.live[v]]
    BY <1>1
  <2> QED BY <1>2, <2>1, <2>2
<1>4. Unread(r) = (n + 1)..Len(s.queue) /\ Unread(r) \subseteq Unread(s)
  BY <1>0, <1>2 DEF Unread
<1>5. Cardinality(DOMAIN r.live) <= Capacity
  <2>1. IsFiniteSet(DOMAIN s.live)
    <3>1. IsFiniteSet(1..Len(given))
      BY FS_Interval
    <3> QED BY <3>1, FS_Subset, Zenon DEF Sound
  <2>2. DOMAIN r.live \in SUBSET DOMAIN s.live
    BY <1>2, Zenon
  <2>3. /\ Cardinality(DOMAIN r.live) <= Cardinality(DOMAIN s.live)
        /\ Cardinality(DOMAIN r.live) \in Nat /\ Cardinality(DOMAIN s.live) \in Nat
    BY <2>1, <2>2, FS_Subset, FS_CardinalityType, Zenon
  <2> QED BY <2>3, NonceAssumption DEF Sound
<1>6. ASSUME NEW v \in DOMAIN r.live PROVE \E i \in Unread(r) : r.queue[i].value = v
  <2>1. v \in DOMAIN s.live /\ v \notin V
    BY <1>2, Zenon
  <2>2. PICK i \in Unread(s) : s.queue[i].value = v
    BY <2>1, Zenon DEF Sound
  <2>3. i \notin (s.head + 1)..n
    BY <2>1, <2>2, Zenon DEF V
  <2>4. i \in (s.head + 1)..Len(s.queue)
    BY <2>2, Zenon DEF Unread
  <2>5. i \in (n + 1)..Len(s.queue)
    BY <1>0, <2>3, <2>4
  <2> QED BY <1>2, <1>4, <2>2, <2>5, Zenon
<1>7. DOMAIN r.live \subseteq 1..Len(given)
  BY <1>2, Zenon DEF Sound
<1>8. r = [live |-> r.live, queue |-> r.queue, head |-> r.head]
  BY <1>1
<1>9. Sound(r)
  BY <1>2, <1>3, <1>4, <1>5, <1>6, <1>7, <1>8, Zenon DEF Sound
<1> QED BY <1>2, <1>9, Zenon DEF r, V

(* The unread entries of live nonces are no more than the live nonces. *)
LEMMA KeptAreFew ==
  ASSUME given \in Seq(Nat), NEW s, Sound(s),
         NEW K \in SUBSET Unread(s), \A i \in K : s.queue[i].value \in DOMAIN s.live
  PROVE  /\ IsFiniteSet(K) /\ IsFiniteSet(DOMAIN s.live)
         /\ Cardinality(K) \in Nat /\ Cardinality(DOMAIN s.live) \in Nat
         /\ Cardinality(K) <= Cardinality(DOMAIN s.live)
<1>0. s.queue \in Seq(Entry) /\ s.head \in Nat
  BY Zenon DEF Sound
<1>1. IsFiniteSet(1..Len(given)) /\ IsFiniteSet(Unread(s)) /\ Unread(s) \subseteq Nat
  <2>1. 1 \in Int /\ Len(given) \in Int /\ s.head \in Nat /\ s.head + 1 \in Int /\ Len(s.queue) \in Int
    BY <1>0
  <2>2. IsFiniteSet(1..Len(given)) /\ IsFiniteSet((s.head + 1)..Len(s.queue))
    BY <2>1, FS_Interval, Zenon
  <2> QED BY <2>1, <2>2 DEF Unread
<1>2. IsFiniteSet(K) /\ IsFiniteSet(DOMAIN s.live)
  BY <1>1, FS_Subset, Zenon DEF Sound
<1>3. Cardinality(K) \in Nat /\ Cardinality(DOMAIN s.live) \in Nat
  BY <1>2, FS_CardinalityType, Zenon
<1>4. ASSUME Cardinality(DOMAIN s.live) < Cardinality(K) PROVE FALSE
  <2> DEFINE f == [i \in K |-> s.queue[i].value]
  <2>1. f \in [K -> DOMAIN s.live]
    BY Zenon
  <2> HIDE DEF f
  <2>2. PICK i \in K, j \in K : i # j /\ f[i] = f[j]
    BY <1>2, <1>4, <2>1, FS_PigeonHole
  <2>3. s.queue[i].value = s.queue[j].value
    BY <2>2, Zenon DEF f
  <2>4. i \in Nat /\ j \in Nat /\ i \in Unread(s) /\ j \in Unread(s)
    BY <1>1, Zenon
  <2>5. i < j \/ j < i
    BY <2>2, <2>4
  <2>6. s.queue[i].value < s.queue[j].value \/ s.queue[j].value < s.queue[i].value
    BY <2>4, <2>5, Zenon DEF Sound
  <2>7. s.queue[i].value \in 1..Len(given)
    BY <2>4, Zenon DEF Sound
  <2>8. \A a \in 1..Len(given) : ~(a < a)
    OBVIOUS
  <2> QED BY <2>3, <2>6, <2>7, <2>8, Zenon
<1> QED BY <1>2, <1>3, <1>4

(* The entries at some positions, in their order, are a queue. *)
LEMMA EntriesAre ==
  ASSUME NEW queue \in Seq(Entry), NEW K \in SUBSET (1..Len(queue)), IsFiniteSet(K)
  PROVE  /\ Entries(queue, K) \in Seq(Entry) /\ Len(Entries(queue, K)) = Cardinality(K)
         /\ \A i \in 1..Cardinality(K) : InOrder(K)[i] \in K /\ Entries(queue, K)[i] = queue[InOrder(K)[i]]
         /\ \A i, j \in 1..Cardinality(K) : i < j => InOrder(K)[i] < InOrder(K)[j]
         /\ \A k \in K : \E i \in 1..Cardinality(K) : InOrder(K)[i] = k
<1>1. K \in SUBSET Nat /\ Cardinality(K) \in Nat
  BY FS_CardinalityType
<1>2. Enumerates(InOrder(K), K)
  BY <1>1, InOrderIs, Zenon
<1>3. \A i \in 1..Cardinality(K) : InOrder(K)[i] \in K
  BY <1>2, Zenon DEF Enumerates
<1>4. \A k \in K : queue[k] \in Entry
  OBVIOUS
<1>5. Entries(queue, K) \in [1..Cardinality(K) -> Entry]
  BY <1>3, <1>4, Zenon DEF Entries
<1>6. Entries(queue, K) \in Seq(Entry) /\ Len(Entries(queue, K)) = Cardinality(K)
  BY <1>1, <1>5
<1>7. \A i \in 1..Cardinality(K) : Entries(queue, K)[i] = queue[InOrder(K)[i]]
  BY Zenon DEF Entries
<1> QED BY <1>2, <1>3, <1>6, <1>7, Zenon DEF Enumerates

(* Compacting forgets no live nonce, and leaves fewer dead entries than    *)
(* the capacity.                                                           *)
LEMMA CompactSound ==
  ASSUME given \in Seq(Nat), NEW s, Sound(s)
  PROVE  /\ Sound(Compact(s)) /\ Compact(s).live = s.live
         /\ Len(Compact(s).queue) < Cardinality(DOMAIN s.live) + Capacity
<1> DEFINE K == {i \in Unread(s) : s.queue[i].value \in DOMAIN s.live /\ s.live[s.queue[i].value] = s.queue[i].expires}
           c == [s EXCEPT !.head = 0, !.queue = Entries(@, K)]
           card == Cardinality(DOMAIN s.live)
<1>0. /\ s.queue \in Seq(Entry) /\ s.head \in Nat /\ Len(s.queue) \in Nat
      /\ Unread(s) = (s.head + 1)..Len(s.queue)
  <2>1. s.queue \in Seq(Entry) /\ s.head \in Nat
    BY Zenon DEF Sound
  <2> QED BY <2>1 DEF Unread
<1>k. K \in SUBSET Unread(s) /\ \A i \in K : s.queue[i].value \in DOMAIN s.live
  BY Zenon
<1>f. /\ IsFiniteSet(K) /\ Cardinality(K) \in Nat /\ card \in Nat /\ Cardinality(K) <= card
  BY <1>k, KeptAreFew, Zenon
<1>1. CASE s.head < Len(s.queue) \div 2 /\ Len(s.queue) - card < Capacity
  <2>1. Compact(s) = s
    BY <1>1, Zenon DEF Compact
  <2> HIDE DEF card
  <2>3. Len(s.queue) < card + Capacity
    BY <1>0, <1>1, <1>f, NonceAssumption
  <2> QED BY <2>1, <2>3, Zenon DEF card
<1>2. CASE ~(s.head < Len(s.queue) \div 2 /\ Len(s.queue) - card < Capacity)
  <2>1. Compact(s) = c
    BY <1>2, Zenon DEF Compact, IsLive
  <2>2. s = [live |-> s.live, queue |-> s.queue, head |-> s.head]
    BY Zenon DEF Sound
  <2>5. \A v \in DOMAIN s.live : \E i \in K : s.queue[i].value = v
    <3> TAKE v \in DOMAIN s.live
    <3>1. PICK i \in Unread(s) : s.queue[i].value = v
      BY Zenon DEF Sound
    <3>2. s.queue[i].expires = given[v] /\ s.live[v] = given[v]
      BY <3>1, Zenon DEF Sound
    <3>3. i \in K
      BY <3>1, <3>2, Zenon
    <3> QED BY <3>1, <3>3, Zenon
  <2> HIDE DEF K
  <2>6. c = [live |-> s.live, queue |-> Entries(s.queue, K), head |-> 0]
    <3>1. PICK e : e = Entries(s.queue, K)
      BY Zenon
    <3>2. c = [s EXCEPT !.head = 0, !.queue = e]
      BY <3>1, Zenon
    <3> HIDE DEF c
    <3> QED BY <2>2, <3>1, <3>2, FieldsSet, Zenon
  <2>7. K \in SUBSET (1..Len(s.queue))
    BY <1>0, <1>k
  <2>8. /\ c.live = s.live /\ c.queue = Entries(s.queue, K) /\ c.head = 0
        /\ c = [live |-> c.live, queue |-> c.queue, head |-> c.head]
    BY <2>6
  <2> HIDE DEF c
  <2>e. /\ Entries(s.queue, K) \in Seq(Entry) /\ Len(Entries(s.queue, K)) = Cardinality(K)
        /\ \A i \in 1..Cardinality(K) : InOrder(K)[i] \in K /\ Entries(s.queue, K)[i] = s.queue[InOrder(K)[i]]
        /\ \A i, j \in 1..Cardinality(K) : i < j => InOrder(K)[i] < InOrder(K)[j]
        /\ \A k \in K : \E i \in 1..Cardinality(K) : InOrder(K)[i] = k
    BY <1>0, <1>f, <2>7, EntriesAre
  <2>9. c.queue \in Seq(Entry) /\ Len(c.queue) = Cardinality(K) /\ Unread(c) = 1..Cardinality(K)
    <3>1. c.queue \in Seq(Entry) /\ Len(c.queue) = Cardinality(K)
      BY <2>8, <2>e, Zenon
    <3> QED BY <1>f, <2>8, <3>1 DEF Unread
  <2>10. \A i \in Unread(c) : InOrder(K)[i] \in Unread(s) /\ c.queue[i] = s.queue[InOrder(K)[i]]
    BY <1>k, <2>8, <2>9, <2>e, Zenon
  <2>11. \A i, j \in Unread(c) : i < j => InOrder(K)[i] < InOrder(K)[j]
    BY <2>9, <2>e, Zenon
  <2>12. \A i, j \in Unread(c) : i < j => c.queue[i].value < c.queue[j].value
    <3>1. \A k, l \in Unread(s) : k < l => s.queue[k].value < s.queue[l].value
      BY Zenon DEF Sound
    <3> TAKE i, j \in Unread(c)
    <3> HAVE i < j
    <3>2. PICK k \in Unread(s), l \in Unread(s) : c.queue[i] = s.queue[k] /\ c.queue[j] = s.queue[l] /\ k < l
      BY <2>10, <2>11, Zenon
    <3> QED BY <3>1, <3>2, Zenon
  <2>13. \A i \in Unread(c) :
           c.queue[i].value \in 1..Len(given) /\ c.queue[i].expires = given[c.queue[i].value]
    <3> TAKE i \in Unread(c)
    <3>1. PICK k \in Unread(s) : c.queue[i] = s.queue[k]
      BY <2>10, Zenon
    <3>2. s.queue[k].value \in 1..Len(given) /\ s.queue[k].expires = given[s.queue[k].value]
      BY Zenon DEF Sound
    <3> QED BY <3>1, <3>2
  <2>14. \A v \in DOMAIN c.live : \E i \in Unread(c) : c.queue[i].value = v
    <3> TAKE v \in DOMAIN c.live
    <3>1. PICK k \in K : s.queue[k].value = v
      BY <2>5, <2>8, Zenon
    <3>2. PICK i \in Unread(c) : InOrder(K)[i] = k
      BY <2>9, <2>e, Zenon
    <3> QED BY <2>10, <3>1, <3>2, Zenon
  <2>15. c.head \in Nat /\ c.head <= Len(c.queue)
    BY <1>f, <2>8, <2>9
  <2>16. Sound(c)
    BY <2>8, <2>9, <2>12, <2>13, <2>14, <2>15, Zenon DEF Sound
  <2>17. Len(c.queue) < card + Capacity
    BY <1>f, <2>9, NonceAssumption
  <2> QED BY <2>1, <2>8, <2>16, <2>17, Zenon
<1> QED BY <1>1, <1>2, Zenon

(* Purging drops the expired nonces and no others: those behind the first  *)
(* that has not expired were issued later and expire later.                *)
LEMMA PurgeSound ==
  ASSUME Dated, NEW s, Sound(s)
  PROVE  /\ Sound(Purge(s, now))
         /\ DOMAIN Purge(s, now).live = {v \in DOMAIN s.live : now < given[v]}
         /\ Len(Purge(s, now).queue) < Cardinality(DOMAIN Purge(s, now).live) + Capacity
<1> DEFINE stop == {i \in Unread(s) : IsLive(s, s.queue[i].value) /\ now < s.live[s.queue[i].value]}
           n == IF stop = {} THEN Len(s.queue) ELSE Min(stop) - 1
           r == ReadUpTo(s, n)
<1>0. /\ given \in Seq(Nat) /\ now \in Nat
      /\ s.queue \in Seq(Entry) /\ s.head \in Nat /\ s.head <= Len(s.queue)
  BY Zenon DEF Sound, Dated
<1>1. /\ Len(s.queue) \in Nat /\ Unread(s) = (s.head + 1)..Len(s.queue)
      /\ Unread(s) \subseteq Nat
  BY <1>0 DEF Unread
<1>2. Purge(s, now) = Compact(r)
  BY Zenon DEF Purge
<1>3. \A i \in Unread(s) : i \in stop <=> s.queue[i].value \in DOMAIN s.live /\ now < given[s.queue[i].value]
  BY Zenon DEF Sound, IsLive
<1>4. stop \subseteq Unread(s)
  BY Zenon
<1> HIDE DEF stop
<1>5. /\ n \in Nat /\ s.head <= n /\ n <= Len(s.queue)
      /\ \A i \in (s.head + 1)..n : i \in Unread(s) /\ i \notin stop
      /\ n < Len(s.queue) => n + 1 \in stop
  <2>1. CASE stop = {}
    BY <1>0, <1>1, <2>1
  <2>2. CASE stop # {}
    <3>1. Min(stop) \in stop /\ \A k \in stop : Min(stop) <= k
      BY <1>1, <1>4, <2>2, MinIsLeast, Zenon
    <3>2. Min(stop) \in (s.head + 1)..Len(s.queue) /\ n = Min(stop) - 1
      BY <1>1, <1>4, <2>2, <3>1, Zenon
    <3> HIDE DEF n
    <3>3. \A i \in (s.head + 1)..n : i \in Unread(s) /\ ~(Min(stop) <= i)
      BY <1>0, <1>1, <3>2
    <3>4. n \in Nat /\ s.head <= n /\ n <= Len(s.queue) /\ n + 1 = Min(stop)
      BY <1>0, <1>1, <3>2
    <3> QED BY <3>1, <3>3, <3>4, Zenon
  <2> QED BY <2>1, <2>2, Zenon
<1> HIDE DEF n
<1>r. given \in Seq(Nat) /\ n \in Nat /\ s.head <= n /\ n <= Len(s.queue)
  BY <1>0, <1>5, Zenon
<1>6. /\ Sound(r) /\ r.queue = s.queue /\ r.head = n
      /\ DOMAIN r.live = DOMAIN s.live \ {s.queue[i].value : i \in (s.head + 1)..n}
  <2> HIDE DEF n
  <2>1. ASSUME NEW k \in Nat, s.head <= k, k <= Len(s.queue)
        PROVE  /\ Sound(ReadUpTo(s, k)) /\ ReadUpTo(s, k).queue = s.queue /\ ReadUpTo(s, k).head = k
               /\ DOMAIN ReadUpTo(s, k).live = DOMAIN s.live \ {s.queue[i].value : i \in (s.head + 1)..k}
    BY <1>r, <2>1, ReadSound
  <2> QED BY <1>r, <2>1, Zenon
<1> HIDE DEF r
<1>7. ASSUME NEW v \in DOMAIN s.live, now < given[v] PROVE v \in DOMAIN r.live
  <2>1. SUFFICES ASSUME NEW i \in (s.head + 1)..n, s.queue[i].value = v PROVE FALSE
    BY <1>6, Zenon
  <2> QED BY <1>3, <1>5, <1>7, <2>1, Zenon
<1>8. ASSUME NEW v \in DOMAIN r.live PROVE v \in DOMAIN s.live /\ now < given[v]
  <2>1. v \in DOMAIN s.live
    BY <1>6, Zenon
  <2>2. PICK i \in Unread(r) : r.queue[i].value = v
    BY <1>6, Zenon DEF Sound
  <2>3. i \in (n + 1)..Len(s.queue)
    BY <1>6, <2>2, Zenon DEF Unread
  <2>4. n < Len(s.queue) /\ (i = n + 1 \/ n + 1 < i) /\ i \in Unread(s) /\ n + 1 \in Unread(s)
    BY <1>0, <1>1, <1>5, <2>3
  <2>5. n + 1 \in stop
    BY <1>5, <2>4, Zenon
  <2>6. CASE i = n + 1
    BY <1>3, <1>6, <2>1, <2>2, <2>4, <2>5, <2>6, Zenon
  <2>7. CASE n + 1 < i
    <3> DEFINE w == s.queue[n + 1].value
    <3>1. w \in 1..Len(given) /\ v \in 1..Len(given) /\ now < given[w]
      BY <1>3, <1>6, <2>2, <2>4, <2>5, Zenon DEF Sound
    <3>2. w < v
      BY <1>6, <2>2, <2>4, <2>7, Zenon DEF Sound
    <3> HIDE DEF w
    <3>3. given[w] <= given[v]
      BY <3>1, <3>2, Zenon DEF Dated
    <3>4. given[w] \in Nat /\ given[v] \in Nat
      BY <1>0, <3>1
    <3> QED BY <1>0, <2>1, <3>1, <3>3, <3>4
  <2> QED BY <2>4, <2>6, <2>7, Zenon
<1>9. DOMAIN r.live = {v \in DOMAIN s.live : now < given[v]}
  BY <1>7, <1>8, Zenon
<1> QED BY <1>0, <1>2, <1>6, <1>9, CompactSound, Zenon

(* Eviction drops the oldest live nonce and no other. *)
LEMMA EvictSound ==
  ASSUME given \in Seq(Nat), NEW s, Sound(s), DOMAIN s.live # {}
  PROVE  /\ Sound(EvictOldest(s))
         /\ Len(EvictOldest(s).queue) < Cardinality(DOMAIN EvictOldest(s).live) + Capacity
         /\ \E w \in DOMAIN s.live :
              (\A v \in DOMAIN s.live : w <= v) /\ DOMAIN EvictOldest(s).live = DOMAIN s.live \ {w}
<1> DEFINE stop == {i \in Unread(s) : IsLive(s, s.queue[i].value)}
           n == IF stop = {} THEN Len(s.queue) ELSE Min(stop)
           r == ReadUpTo(s, n)
<1>0. s.queue \in Seq(Entry) /\ s.head \in Nat /\ s.head <= Len(s.queue)
  BY Zenon DEF Sound
<1>1. /\ Len(s.queue) \in Nat /\ Unread(s) = (s.head + 1)..Len(s.queue)
      /\ Unread(s) \subseteq Nat
  BY <1>0 DEF Unread
<1>2. EvictOldest(s) = Compact(r)
  BY Zenon DEF EvictOldest
<1>3. \A i \in Unread(s) : i \in stop <=> s.queue[i].value \in DOMAIN s.live
  BY Zenon DEF IsLive
<1>4. stop \in SUBSET Nat /\ stop \subseteq Unread(s)
  BY <1>1, Zenon
<1>5. stop # {}
  <2>1. PICK v : v \in DOMAIN s.live
    BY Zenon
  <2>2. PICK i \in Unread(s) : s.queue[i].value = v
    BY <2>1, Zenon DEF Sound
  <2> QED BY <1>3, <2>1, <2>2, Zenon
<1> HIDE DEF stop
<1>6. n \in stop /\ \A k \in stop : n <= k
  BY <1>4, <1>5, MinIsLeast, Zenon
<1> HIDE DEF n
<1>7. n \in Unread(s) /\ n \in Nat /\ s.head <= n /\ n <= Len(s.queue)
  BY <1>0, <1>1, <1>4, <1>6
<1>8. /\ Sound(r) /\ r.queue = s.queue /\ r.head = n
      /\ DOMAIN r.live = DOMAIN s.live \ {s.queue[i].value : i \in (s.head + 1)..n}
  <2>1. ASSUME NEW k \in Nat, s.head <= k, k <= Len(s.queue)
        PROVE  /\ Sound(ReadUpTo(s, k)) /\ ReadUpTo(s, k).queue = s.queue /\ ReadUpTo(s, k).head = k
               /\ DOMAIN ReadUpTo(s, k).live = DOMAIN s.live \ {s.queue[i].value : i \in (s.head + 1)..k}
    BY <2>1, ReadSound
  <2> QED BY <1>7, <2>1, Zenon
<1> HIDE DEF r
<1> DEFINE w == s.queue[n].value
<1>9. w \in DOMAIN s.live
  BY <1>3, <1>6, <1>7, Zenon
<1>10. ASSUME NEW v \in DOMAIN s.live PROVE w <= v
  <2>1. PICK i \in Unread(s) : s.queue[i].value = v
    BY Zenon DEF Sound
  <2>2. i \in Nat /\ n <= i
    BY <1>1, <1>3, <1>6, <2>1, Zenon
  <2>3. i = n \/ n < i
    BY <1>7, <2>2
  <2>4. v \in 1..Len(given) /\ w \in 1..Len(given)
    BY <1>9, Zenon DEF Sound
  <2>5. n < i => w < v
    BY <1>7, <2>1, Zenon DEF Sound
  <2>6. i = n => v = w
    BY <2>1, Zenon
  <2> HIDE DEF w
  <2> QED BY <2>3, <2>4, <2>5, <2>6
<1>11. DOMAIN r.live = DOMAIN s.live \ {w}
  <2>1. ASSUME NEW i \in (s.head + 1)..n, s.queue[i].value \in DOMAIN s.live PROVE i = n
    <3>1. i \in Unread(s) /\ i \in Nat /\ i <= n
      BY <1>0, <1>1, <1>7
    <3>2. n <= i
      BY <1>3, <1>6, <2>1, <3>1, Zenon
    <3> QED BY <1>7, <3>1, <3>2
  <2>2. n \in (s.head + 1)..n
    BY <1>0, <1>1, <1>7
  <2>3. ASSUME NEW v \in DOMAIN s.live
        PROVE  v \in {s.queue[i].value : i \in (s.head + 1)..n} <=> v = w
    BY <2>1, <2>2, Zenon
  <2> HIDE DEF w
  <2> QED BY <1>8, <2>3, Zenon
<1>12. Sound(Compact(r)) /\ Compact(r).live = r.live /\ Len(Compact(r).queue) < Cardinality(DOMAIN r.live) + Capacity
  BY <1>8, CompactSound, Zenon
<1> HIDE DEF w
<1> QED BY <1>2, <1>9, <1>10, <1>11, <1>12, Zenon

(* The nonces that would be accepted now. *)
Accepted == {v \in DOMAIN m.live : now < m.live[v]}

(* The manager's promise counts as the library's theorems do.              *)
LEMMA PoolCounts ==
  /\ \A S : Pool!Cardinality(S) = Cardinality(S)
  /\ Pool!Room = IF Cardinality(Accepted) >= Capacity
                 THEN Accepted \ {n \in Accepted : \A k \in Accepted : n <= k} ELSE Accepted
<1>1. \A S : Pool!Cardinality(S) = Cardinality(S)
  BY Zenon DEF Pool!Cardinality, Cardinality
<1> QED BY <1>1, Zenon DEF Pool!Room, Pool!Oldest, Accepted

(* Issue makes room: the expired nonces go, and of the others the oldest   *)
(* if they are as many as the capacity.                                    *)
LEMMA RoomMade ==
  ASSUME ManagerInv
  PROVE  /\ Sound(MakeRoom(Purge(m, now))) /\ ~Full(MakeRoom(Purge(m, now)))
         /\ DOMAIN MakeRoom(Purge(m, now)).live = Pool!Room
         /\ Pool!Room \subseteq Accepted
         /\ IsFiniteSet(Pool!Room) /\ Cardinality(Pool!Room) \in Nat /\ Cardinality(Pool!Room) < Capacity
         /\ Len(MakeRoom(Purge(m, now)).queue) < Cardinality(Pool!Room) + Capacity
<1> DEFINE p == Purge(m, now)
<1>0. /\ given \in Seq(Nat) /\ Sound(m) /\ Dated
      /\ \A v \in DOMAIN m.live : m.live[v] = given[v]
  BY Zenon DEF ManagerInv, Dated, Sound
<1>1. /\ Sound(p) /\ DOMAIN p.live = {v \in DOMAIN m.live : now < given[v]}
      /\ Len(p.queue) < Cardinality(DOMAIN p.live) + Capacity
  BY <1>0, PurgeSound, Zenon
<1> HIDE DEF p
<1>2. DOMAIN p.live = Accepted
  BY <1>0, <1>1, Zenon DEF Accepted
<1>3. IsFiniteSet(Accepted) /\ Cardinality(Accepted) \in Nat /\ Cardinality(Accepted) <= Capacity
  <2>1. IsFiniteSet(1..Len(given)) /\ Accepted \in SUBSET (1..Len(given))
    <3>1. 1 \in Int /\ Len(given) \in Int
      BY <1>0
    <3> QED BY <1>1, <1>2, <3>1, FS_Interval, Zenon DEF Sound
  <2>2. IsFiniteSet(Accepted)
    BY <2>1, FS_Subset, Zenon
  <2> QED BY <1>1, <1>2, <2>2, FS_CardinalityType, Zenon DEF Sound
<1>4. Capacity \in Nat \ {0}
  BY NonceAssumption
<1>5. CASE Cardinality(Accepted) >= Capacity
  <2>1. Accepted # {}
    BY <1>3, <1>4, <1>5, FS_EmptySet
  <2>2. Full(p)
    <3>1. PICK v : v \in DOMAIN p.live
      BY <1>2, <2>1, Zenon
    <3>2. PICK i : i \in Unread(p)
      BY <1>1, <3>1, Zenon DEF Sound
    <3>3. p.queue \in Seq(Entry) /\ p.head \in Nat
      BY <1>1, Zenon DEF Sound
    <3>4. p.head < Len(p.queue)
      BY <3>2, <3>3 DEF Unread
    <3> QED BY <1>2, <1>5, <3>4, Zenon DEF Full
  <2>3. MakeRoom(p) = EvictOldest(p)
    BY <2>2, Zenon DEF MakeRoom
  <2>4. /\ Sound(EvictOldest(p))
        /\ Len(EvictOldest(p).queue) < Cardinality(DOMAIN EvictOldest(p).live) + Capacity
        /\ \E w \in DOMAIN p.live :
             (\A v \in DOMAIN p.live : w <= v) /\ DOMAIN EvictOldest(p).live = DOMAIN p.live \ {w}
    BY <1>0, <1>1, <1>2, <2>1, EvictSound, Zenon
  <2>5. PICK w \in Accepted :
          (\A v \in Accepted : w <= v) /\ DOMAIN EvictOldest(p).live = Accepted \ {w}
    BY <1>2, <2>4, Zenon
  <2>6. Accepted \subseteq Nat
    BY <1>1, <1>2 DEF Sound
  <2>7. {n \in Accepted : \A k \in Accepted : n <= k} = {w}
    <3>1. ASSUME NEW n \in Accepted, n <= w PROVE n = w
      BY <2>5, <2>6, <3>1
    <3> QED BY <2>5, <3>1, Zenon
  <2>8. Pool!Room = Accepted \ {w}
    BY <1>5, <2>7, PoolCounts, Zenon
  <2>9. IsFiniteSet(Accepted \ {w}) /\ Cardinality(Accepted \ {w}) = Cardinality(Accepted) - 1
    BY <1>3, FS_RemoveElement
  <2>10. Cardinality(Pool!Room) \in Nat /\ Cardinality(Pool!Room) < Capacity
    <3>1. Cardinality(Accepted \ {w}) \in Nat
      BY <2>9, FS_CardinalityType, Zenon
    <3>2. Cardinality(Accepted \ {w}) < Capacity
      BY <1>3, <1>4, <2>9, <3>1
    <3> QED BY <2>8, <3>1, <3>2, Zenon
  <2>11. ~Full(EvictOldest(p))
    <3>1. ~(Cardinality(Pool!Room) >= Capacity)
      BY <1>4, <2>10
    <3> QED BY <2>5, <2>8, <3>1, Zenon DEF Full
  <2>12. Pool!Room \subseteq Accepted /\ IsFiniteSet(Pool!Room)
    BY <2>8, <2>9, Zenon
  <2> QED BY <2>3, <2>4, <2>5, <2>8, <2>10, <2>11, <2>12, Zenon DEF p
<1>6. CASE ~(Cardinality(Accepted) >= Capacity)
  <2>1. ~Full(p)
    BY <1>2, <1>6, Zenon DEF Full
  <2>2. MakeRoom(p) = p
    BY <2>1, Zenon DEF MakeRoom
  <2>3. Pool!Room = Accepted
    BY <1>6, PoolCounts, Zenon
  <2>4. Cardinality(Pool!Room) < Capacity
    BY <1>3, <1>4, <1>6, <2>3
  <2> QED BY <1>1, <1>2, <1>3, <2>1, <2>2, <2>3, <2>4, Zenon DEF p
<1> QED BY <1>5, <1>6, Zenon

(* The room that Issue makes before it draws a nonce, or fails to.         *)
LEMMA RoomKeeps ==
  ASSUME ManagerInv, m' = MakeRoom(Purge(m, now)), UNCHANGED <<now, given>>
  PROVE  ManagerInv'
<1>1. /\ Sound(MakeRoom(Purge(m, now))) /\ Cardinality(Pool!Room) \in Nat /\ Cardinality(Pool!Room) < Capacity
      /\ Len(MakeRoom(Purge(m, now)).queue) < Cardinality(Pool!Room) + Capacity
  BY RoomMade, Zenon
<1>2. Sound(m)'
  BY <1>1, Zenon DEF Sound, Unread
<1>3. Len(m'.queue) \in Nat
  <2>1. m'.queue \in Seq(Entry)
    BY <1>2, Zenon DEF Sound
  <2> QED BY <2>1
<1>4. Len(m'.queue) < 2 * Capacity
  <2>1. Len(m'.queue) < Cardinality(Pool!Room) + Capacity
    BY <1>1, Zenon
  <2> QED BY <1>1, <1>3, <2>1, NonceAssumption
<1>5. Dated'
  BY Zenon DEF ManagerInv, Dated
<1> QED BY <1>2, <1>4, <1>5, Zenon DEF ManagerInv

(* A new nonce is the last of the queue and expires no sooner than others. *)
LEMMA IssueKeeps ==
  ASSUME ManagerInv, Issue
  PROVE  ManagerInv'
<1> DEFINE s == MakeRoom(Purge(m, now))
           v == Len(given) + 1
           l == [n \in DOMAIN s.live \cup {v} |-> IF n = v THEN now + TTL ELSE s.live[n]]
           e == [value |-> v, expires |-> now + TTL]
<1>1. /\ Sound(s) /\ DOMAIN s.live = Pool!Room /\ IsFiniteSet(Pool!Room)
      /\ Cardinality(Pool!Room) \in Nat /\ Cardinality(Pool!Room) < Capacity
      /\ Len(s.queue) < Cardinality(Pool!Room) + Capacity
  BY RoomMade, Zenon
<1>2. /\ m' = [s EXCEPT !.live = l, !.queue = Append(s.queue, e)]
      /\ given' = Append(given, now + TTL) /\ now' = now
  BY Zenon DEF Issue
<1> HIDE DEF s
<1>3. /\ s = [live |-> s.live, queue |-> s.queue, head |-> s.head]
      /\ s.queue \in Seq(Entry) /\ s.head \in Nat /\ s.head <= Len(s.queue)
      /\ DOMAIN s.live \subseteq 1..Len(given)
      /\ \A n \in DOMAIN s.live : s.live[n] = given[n]
  BY <1>1, Zenon DEF Sound
<1>4. /\ now \in Nat /\ given \in Seq(Nat) /\ TTL \in Nat \ {0} /\ Capacity \in Nat \ {0}
      /\ \A i \in 1..Len(given) : given[i] <= now + TTL
      /\ \A i, j \in 1..Len(given) : i < j => given[i] <= given[j]
  BY NonceAssumption DEF ManagerInv, Dated
<1>5. /\ v \in Nat /\ e \in Entry /\ v \in 1..v /\ 1..Len(given) \subseteq 1..v /\ v \notin 1..Len(given)
      /\ Len(given') = v /\ given'[v] = now + TTL /\ given' \in Seq(Nat)
      /\ \A i \in 1..Len(given) : given'[i] = given[i]
      /\ \A i \in 1..v : i = v \/ i \in 1..Len(given)
  BY <1>2, <1>4 DEF Entry
<1>6. /\ m'.live = l /\ m'.queue = Append(s.queue, e) /\ m'.head = s.head
      /\ m' = [live |-> m'.live, queue |-> m'.queue, head |-> m'.head]
  <2>1. m' = [live |-> l, queue |-> Append(s.queue, e), head |-> s.head]
    BY <1>2, <1>3, FieldsSet, Zenon
  <2> HIDE DEF l, e
  <2> QED BY <2>1
<1>7. DOMAIN l = DOMAIN s.live \cup {v} /\ l[v] = now + TTL /\ \A n \in DOMAIN s.live : l[n] = given[n]
  BY <1>3, <1>5, Zenon
<1> HIDE DEF l
<1>8. /\ m'.queue \in Seq(Entry) /\ Len(m'.queue) = Len(s.queue) + 1 /\ m'.queue[Len(m'.queue)] = e
      /\ Len(s.queue) \in Nat
      /\ \A i \in 1..Len(s.queue) : m'.queue[i] = s.queue[i]
  BY <1>3, <1>5, <1>6
<1>9. e.value = v /\ e.expires = now + TTL
  OBVIOUS
<1> HIDE DEF e, v
<1>10. Dated'
  <2>1. \A i \in 1..v : given'[i] <= now + TTL
    BY <1>4, <1>5
  <2>2. ASSUME NEW i \in 1..v, NEW j \in 1..v, i < j PROVE given'[i] <= given'[j]
    <3>1. i \in 1..Len(given)
      BY <1>5, <2>2
    <3>2. CASE j = v
      BY <1>4, <1>5, <3>1, <3>2
    <3>3. CASE j \in 1..Len(given)
      BY <1>4, <1>5, <2>2, <3>1, <3>3
    <3> QED BY <1>5, <3>2, <3>3
  <2> QED BY <1>2, <1>4, <1>5, <2>1, <2>2, Zenon DEF Dated
<1>11. Cardinality(DOMAIN l) <= Capacity
  <2>1. v \notin Pool!Room
    BY <1>1, <1>3, <1>5, Zenon
  <2>2. DOMAIN l = Pool!Room \cup {v}
    BY <1>1, <1>7, Zenon
  <2>3. Cardinality(Pool!Room \cup {v}) = Cardinality(Pool!Room) + 1
    BY <1>1, <2>1, FS_AddElement, Zenon
  <2>4. Cardinality(Pool!Room) + 1 <= Capacity
    BY <1>1, <1>4
  <2> QED BY <2>2, <2>3, <2>4, Zenon
<1>12. Len(m'.queue) < 2 * Capacity
  BY <1>1, <1>4, <1>8
<1>13. /\ Unread(m') = (s.head + 1)..(Len(s.queue) + 1) /\ Len(m'.queue) \in Unread(m')
       /\ \A i \in Unread(m') : i = Len(m'.queue) \/ (i \in Unread(s) /\ i \in 1..Len(s.queue))
       /\ \A i \in Unread(s) : i \in Unread(m') /\ i \in 1..Len(s.queue)
  BY <1>3, <1>6, <1>8 DEF Unread
<1>14. \A i \in Unread(s) : s.queue[i].value \in 1..Len(given) /\ s.queue[i].expires = given[s.queue[i].value]
  BY <1>1, Zenon DEF Sound
<1>15. \A n \in DOMAIN m'.live : \E i \in Unread(m') : m'.queue[i].value = n
  <2> TAKE n \in DOMAIN m'.live
  <2>1. CASE n = v
    BY <1>8, <1>9, <1>13, <2>1, Zenon
  <2>2. CASE n \in DOMAIN s.live
    <3>1. PICK i \in Unread(s) : s.queue[i].value = n
      BY <1>1, <2>2, Zenon DEF Sound
    <3> QED BY <1>8, <1>13, <3>1, Zenon
  <2> QED BY <1>6, <1>7, <2>1, <2>2, Zenon
<1>16. ASSUME NEW i \in Unread(m')
       PROVE  m'.queue[i].value \in 1..v /\ m'.queue[i].expires = given'[m'.queue[i].value]
  <2>1. CASE i = Len(m'.queue)
    BY <1>5, <1>8, <1>9, <2>1, Zenon
  <2>2. CASE i \in Unread(s) /\ i \in 1..Len(s.queue)
    <3>1. m'.queue[i] = s.queue[i]
      BY <1>8, <2>2, Zenon
    <3>2. s.queue[i].value \in 1..Len(given) /\ s.queue[i].expires = given[s.queue[i].value]
      BY <1>14, <2>2, Zenon
    <3>3. given'[s.queue[i].value] = given[s.queue[i].value] /\ s.queue[i].value \in 1..v
      BY <1>5, <3>2, Zenon
    <3> QED BY <3>1, <3>2, <3>3, Zenon
  <2> QED BY <1>13, <2>1, <2>2, Zenon
<1>17. ASSUME NEW i \in Unread(m'), NEW j \in Unread(m'), i < j
       PROVE  m'.queue[i].value < m'.queue[j].value
  <2>1. i \in Unread(s) /\ i \in 1..Len(s.queue)
    BY <1>3, <1>8, <1>13, <1>17
  <2>2. CASE j = Len(m'.queue)
    <3>1. s.queue[i].value \in 1..Len(given) /\ m'.queue[i].value = s.queue[i].value /\ m'.queue[j].value = v
      BY <1>8, <1>9, <1>14, <2>1, <2>2, Zenon
    <3>2. \A n \in 1..Len(given) : n < v
      BY <1>4 DEF v
    <3> QED BY <3>1, <3>2, Zenon
  <2>3. CASE j \in Unread(s) /\ j \in 1..Len(s.queue)
    <3>1. s.queue[i].value < s.queue[j].value
      BY <1>1, <1>17, <2>1, <2>3, Zenon DEF Sound
    <3> QED BY <1>8, <2>1, <2>3, <3>1, Zenon
  <2> QED BY <1>13, <2>2, <2>3, Zenon
<1>18. m'.live = [n \in DOMAIN m'.live |-> given'[n]]
  <2>1. \A n \in DOMAIN l : l[n] = given'[n]
    BY <1>3, <1>5, <1>7, Zenon
  <2>2. l = [n \in DOMAIN l |-> l[n]]
    BY Zenon DEF l
  <2> QED BY <1>6, <2>1, <2>2, Zenon
<1>19. DOMAIN m'.live \subseteq 1..Len(given') /\ m'.head \in Nat /\ m'.head <= Len(m'.queue)
  <2>1. DOMAIN l \subseteq 1..v
    BY <1>3, <1>5, <1>7, Zenon
  <2>2. s.head <= Len(s.queue) + 1
    BY <1>3, <1>8
  <2> QED BY <1>3, <1>5, <1>6, <1>8, <2>1, <2>2, Zenon
<1>20. Sound(m)'
  BY <1>5, <1>6, <1>8, <1>11, <1>15, <1>16, <1>17, <1>18, <1>19, Zenon DEF Sound, Unread
<1> QED BY <1>10, <1>12, <1>20, Zenon DEF ManagerInv

(* Consuming leaves the queue as it is. *)
LEMMA ConsumeKeeps ==
  ASSUME ManagerInv, NEW v, Consume(v)
  PROVE  ManagerInv' /\ m'.live = Without(m.live, {v})
<1>0. Sound(m) /\ m' = [m EXCEPT !.live = Without(m.live, {v})] /\ now' = now /\ given' = given
  BY Zenon DEF Consume, ManagerInv
<1>1. m = [live |-> m.live, queue |-> m.queue, head |-> m.head]
  BY <1>0, Zenon DEF Sound
<1>2. m' = [live |-> Without(m.live, {v}), queue |-> m.queue, head |-> m.head]
  BY <1>0, <1>1, FieldsSet, Zenon
<1>3. /\ m'.live = Without(m.live, {v}) /\ m'.queue = m.queue /\ m'.head = m.head
      /\ m' = [live |-> m'.live, queue |-> m'.queue, head |-> m'.head]
  BY <1>2
<1>4. DOMAIN m'.live = DOMAIN m.live \ {v} /\ m'.live = [n \in DOMAIN m'.live |-> given[n]]
  <2>1. \A n \in DOMAIN m.live : m.live[n] = given[n]
    BY <1>0, Zenon DEF Sound
  <2>2. DOMAIN Without(m.live, {v}) = DOMAIN m.live \ {v}
    BY Zenon DEF Without
  <2>3. Without(m.live, {v}) = [n \in DOMAIN m.live \ {v} |-> given[n]]
    BY <2>1, Zenon DEF Without
  <2> QED BY <1>3, <2>2, <2>3, Zenon
<1>5. Cardinality(DOMAIN m'.live) <= Capacity
  <2>1. /\ {} \in SUBSET Unread(m) /\ given \in Seq(Nat)
        /\ \A i \in {} : m.queue[i].value \in DOMAIN m.live
    BY Zenon DEF ManagerInv, Dated
  <2>2. IsFiniteSet(DOMAIN m.live) /\ Cardinality(DOMAIN m.live) \in Nat
    BY <1>0, <2>1, KeptAreFew, Zenon
  <2>3. DOMAIN m'.live \in SUBSET DOMAIN m.live
    BY <1>4, Zenon
  <2>4. Cardinality(DOMAIN m'.live) \in Nat /\ Cardinality(DOMAIN m'.live) <= Cardinality(DOMAIN m.live)
    BY <2>2, <2>3, FS_Subset, FS_CardinalityType, Zenon
  <2>5. Cardinality(DOMAIN m.live) <= Capacity
    BY <1>0, Zenon DEF Sound
  <2> QED BY <2>2, <2>4, <2>5, NonceAssumption
<1>6. Unread(m') = Unread(m)
  BY <1>3, Zenon DEF Unread
<1>7. Sound(m)'
  <2>1. /\ DOMAIN m.live \subseteq 1..Len(given)
        /\ m.queue \in Seq(Entry) /\ m.head \in Nat /\ m.head <= Len(m.queue)
        /\ \A n \in DOMAIN m.live : \E i \in Unread(m) : m.queue[i].value = n
        /\ \A i \in Unread(m) :
             m.queue[i].value \in 1..Len(given) /\ m.queue[i].expires = given[m.queue[i].value]
        /\ \A i, j \in Unread(m) : i < j => m.queue[i].value < m.queue[j].value
    BY <1>0, Zenon DEF Sound
  <2>2. /\ DOMAIN m'.live \subseteq 1..Len(given')
        /\ \A n \in DOMAIN m'.live : \E i \in Unread(m') : m'.queue[i].value = n
    <3>1. DOMAIN m'.live \subseteq 1..Len(given')
      BY <1>0, <1>4, <2>1, Zenon
    <3>2. ASSUME NEW n \in DOMAIN m'.live PROVE \E i \in Unread(m') : m'.queue[i].value = n
      <4>1. PICK i \in Unread(m) : m.queue[i].value = n
        BY <1>4, <2>1, Zenon
      <4> QED BY <1>3, <1>6, <4>1, Zenon
    <3> QED BY <3>1, <3>2, Zenon
  <2>3. \A i \in Unread(m') :
          m'.queue[i].value \in 1..Len(given') /\ m'.queue[i].expires = given'[m'.queue[i].value]
    BY <1>0, <1>3, <1>6, <2>1, Zenon
  <2>4. m'.queue \in Seq(Entry) /\ m'.head \in Nat /\ m'.head <= Len(m'.queue)
    BY <1>3, <2>1, Zenon
  <2>5. \A i, j \in Unread(m') : i < j => m'.queue[i].value < m'.queue[j].value
    BY <1>3, <1>6, <2>1, Zenon
  <2>6. m' = [live |-> m'.live, queue |-> m'.queue, head |-> m'.head]
    BY <1>3, Zenon
  <2>7. m'.live = [n \in DOMAIN m'.live |-> given'[n]]
    BY <1>0, <1>4, Zenon
  <2> QED BY <1>5, <2>2, <2>3, <2>4, <2>5, <2>6, <2>7, Zenon DEF Sound, Unread
<1>8. Dated'
  BY <1>0, Zenon DEF ManagerInv, Dated
<1> QED BY <1>3, <1>7, <1>8, Zenon DEF ManagerInv

(* So does the passing of time. *)
LEMMA TickKeeps ==
  ASSUME ManagerInv, Tick
  PROVE  ManagerInv'
<1>0. Sound(m) /\ Dated /\ Len(m.queue) < 2 * Capacity
  BY Zenon DEF ManagerInv
<1>1. m' = m /\ given' = given /\ now' = now + 1
  BY Zenon DEF Tick
<1>2. Sound(m)'
  BY <1>0, <1>1, Zenon DEF Sound, Unread
<1>3. Dated'
  <2>1. now' \in Nat /\ \A i \in 1..Len(given) : given[i] <= now + 1 + TTL
    BY <1>0, <1>1, NonceAssumption DEF Dated
  <2> QED BY <1>0, <1>1, <2>1, Zenon DEF Dated
<1> QED BY <1>0, <1>1, <1>2, <1>3, Zenon DEF ManagerInv

(* A manager starts without nonces. *)
LEMMA ManagerStart ==
  ASSUME Init
  PROVE  ManagerInv
<1>1. m.live = <<>> /\ m.queue = <<>> /\ m.head = 0 /\ now = 0 /\ given = <<>>
  BY DEF Init
<1>2. m = [live |-> m.live, queue |-> m.queue, head |-> m.head]
  BY DEF Init
<1>3. DOMAIN m.live = {} /\ Unread(m) = {} /\ Len(m.queue) = 0 /\ m.queue \in Seq(Entry) /\ given \in Seq(Nat)
  BY <1>1 DEF Unread
<1>4. m.live = [v \in DOMAIN m.live |-> given[v]]
  BY <1>1, <1>3
<1>5. Cardinality(DOMAIN m.live) = 0
  BY <1>3, FS_EmptySet, Zenon
<1>6. Sound(m)
  <2>1. m.head \in Nat /\ m.head <= Len(m.queue) /\ Cardinality(DOMAIN m.live) <= Capacity
    BY <1>1, <1>3, <1>5, NonceAssumption
  <2> QED BY <1>2, <1>3, <1>4, <2>1, Zenon DEF Sound
<1>7. Dated
  BY <1>1 DEF Dated
<1>8. Len(m.queue) < 2 * Capacity
  BY <1>3, NonceAssumption
<1> QED BY <1>6, <1>7, <1>8, Zenon DEF ManagerInv

(* Every step keeps the invariant. *)
LEMMA ManagerStep ==
  ASSUME ManagerInv, [Next]_vars
  PROVE  ManagerInv'
<1>1. CASE Issue
  BY <1>1, IssueKeeps, Zenon
<1>2. CASE IssueFails
  BY <1>2, RoomKeeps, Zenon DEF IssueFails
<1>3. ASSUME NEW v, Consume(v) PROVE ManagerInv'
  BY <1>3, ConsumeKeeps, Zenon
<1>4. CASE Tick
  BY <1>4, TickKeeps, Zenon
<1>5. CASE UNCHANGED vars
  <2>1. m' = m /\ given' = given /\ now' = now
    BY <1>5, Zenon DEF vars
  <2> QED BY <2>1, Zenon DEF ManagerInv, Sound, Dated, Unread
<1> QED BY <1>1, <1>2, <1>3, <1>4, <1>5, Zenon DEF Next

(* The manager finds every live nonce again, in a queue of less than twice *)
(* its capacity, and one eviction makes room (Issue, purge, evictOldest,   *)
(* compact).                                                               *)
THEOREM QueueStaysSound == Spec => []QueueSound
<1>1. ManagerInv => QueueSound
  <2> SUFFICES ASSUME ManagerInv PROVE QueueSound
    OBVIOUS
  <2>1. Sound(m) /\ Len(m.queue) < 2 * Capacity
    BY Zenon DEF ManagerInv
  <2>2. ~Full(MakeRoom(Purge(m, now)))
    BY RoomMade, Zenon
  <2>3. ASSUME NEW v \in DOMAIN m.live
        PROVE  \E i \in Unread(m) : m.queue[i] = [value |-> v, expires |-> m.live[v]]
    <3>1. PICK i \in Unread(m) : m.queue[i].value = v
      BY <2>1, Zenon DEF Sound
    <3>2. m.queue[i].expires = m.live[v]
      BY <2>1, <3>1, Zenon DEF Sound
    <3>3. m.queue[i] \in Entry
      <4>1. m.queue \in Seq(Entry) /\ m.head \in Nat
        BY <2>1, Zenon DEF Sound
      <4> QED BY <4>1 DEF Unread
    <3>4. m.queue[i] = [value |-> v, expires |-> m.live[v]]
      BY <3>1, <3>2, <3>3 DEF Entry
    <3> QED BY <3>4, Zenon
  <2> QED BY <2>1, <2>2, <2>3, Zenon DEF QueueSound, Sound
<1>2. Init => ManagerInv
  BY ManagerStart
<1>3. ManagerInv /\ [Next]_vars => ManagerInv'
  BY ManagerStep
<1> QED BY <1>1, <1>2, <1>3, PTL DEF Spec

(* The manager implements NoncePool: a nonce is valid once and until it    *)
(* expires, and only the oldest is dropped, at capacity only (Issue,       *)
(* Consume).                                                               *)
THEOREM PoolImplemented == Spec => ImplementsPool
<1>1. Init => Pool!Init
  <2> SUFFICES ASSUME Init PROVE Pool!Init
    OBVIOUS
  <2>1. m.live = <<>> /\ now = 0 /\ given = <<>> /\ reply = <<0, FALSE>>
    BY DEF Init
  <2>2. DOMAIN m.live = {}
    BY <2>1
  <2> QED BY <2>1, <2>2, Zenon DEF Pool!Init
<1>2. ASSUME ManagerInv, ManagerInv', [Next]_vars PROVE [Pool!Next]_(Pool!poolVars)
  <2>0. /\ \A n \in DOMAIN m.live : m.live[n] = given[n]
        /\ \A n \in DOMAIN m'.live : m'.live[n] = given'[n]
        /\ DOMAIN m.live \subseteq 1..Len(given) /\ given \in Seq(Nat) /\ now \in Nat
    BY <1>2, Zenon DEF ManagerInv, Sound, Dated
  <2>1. /\ DOMAIN MakeRoom(Purge(m, now)).live = Pool!Room /\ Pool!Room \subseteq Accepted
        /\ Sound(MakeRoom(Purge(m, now)))
    BY <1>2, RoomMade, Zenon
  <2>2. CASE Issue
    <3> DEFINE v == Len(given) + 1
    <3>1. DOMAIN m'.live = Pool!Room \cup {v}
      <4> DEFINE s == MakeRoom(Purge(m, now))
                 l == [n \in DOMAIN s.live \cup {v} |-> IF n = v THEN now + TTL ELSE s.live[n]]
      <4>1. m' = [s EXCEPT !.live = l, !.queue = Append(s.queue, [value |-> v, expires |-> now + TTL])]
        BY <2>2, Zenon DEF Issue
      <4>2. s = [live |-> s.live, queue |-> s.queue, head |-> s.head]
        BY <2>1, Zenon DEF Sound
      <4>3. DOMAIN l = Pool!Room \cup {v}
        BY <2>1, Zenon
      <4> HIDE DEF s, l
      <4>4. m' = [live |-> l, queue |-> Append(s.queue, [value |-> v, expires |-> now + TTL]), head |-> s.head]
        BY <4>1, <4>2, FieldsSet, Zenon
      <4>5. m'.live = l
        BY <4>4
      <4> QED BY <4>3, <4>5, Zenon
    <3>2. given' = Append(given, now + TTL) /\ now' = now /\ reply' = reply
      BY <2>2, Zenon DEF Issue
    <3>3. given'[v] = now + TTL /\ now < now + TTL /\ \A n \in 1..Len(given) : given'[n] = given[n]
      BY <2>0, <3>2, NonceAssumption
    <3> HIDE DEF v
    <3>4. Accepted' = Pool!Room \cup {v}
      BY <2>0, <2>1, <3>1, <3>2, <3>3, Zenon DEF Accepted
    <3>5. Pool!Issue
      BY <3>2, <3>4, Zenon DEF Pool!Issue, Pool!Fresh, Accepted, v
    <3> QED BY <3>5, Zenon DEF Pool!Next
  <2>3. CASE IssueFails
    <3>1. DOMAIN m'.live = Pool!Room /\ now' = now /\ given' = given /\ reply' = reply
      BY <2>1, <2>3, Zenon DEF IssueFails
    <3>2. Accepted' = Pool!Room
      BY <2>0, <2>1, <3>1, Zenon DEF Accepted
    <3>3. Pool!Refuse
      BY <3>1, <3>2, Zenon DEF Pool!Refuse, Accepted
    <3> QED BY <3>3, Zenon DEF Pool!Next
  <2>4. ASSUME NEW v \in 1..(Len(given) + 1), Consume(v) PROVE Pool!Next
    <3>1. now' = now /\ given' = given /\ reply' = <<v, IsLive(m, v) /\ now < m.live[v]>>
      BY <2>4, Zenon DEF Consume
    <3>2. m'.live = Without(m.live, {v})
      BY <1>2, <2>4, ConsumeKeeps, Zenon
    <3>3. DOMAIN m'.live = DOMAIN m.live \ {v}
      BY <3>2, Zenon DEF Without
    <3>4. Accepted' = Accepted \ {v}
      BY <2>0, <3>1, <3>3, Zenon DEF Accepted
    <3>5. (IsLive(m, v) /\ now < m.live[v]) = (v \in Accepted)
      BY DEF Accepted, IsLive
    <3>6. Pool!Consume(v)
      BY <3>1, <3>4, <3>5, Zenon DEF Pool!Consume, Accepted
    <3> QED BY <3>6, Zenon DEF Pool!Next, Pool!Fresh
  <2>5. CASE Tick
    <3>1. now' = now + 1 /\ m' = m /\ given' = given /\ reply' = reply
      BY <2>5, Zenon DEF Tick
    <3>2. now' > now /\ \A n \in 1..Len(given) : now' < given[n] => now < given[n]
      BY <2>0, <3>1
    <3>3. Accepted' = {n \in Accepted : now' < given[n]}
      BY <2>0, <3>1, <3>2, Zenon DEF Accepted
    <3>4. Pool!Pass
      BY <3>1, <3>2, <3>3, Zenon DEF Pool!Pass, Accepted
    <3> QED BY <3>4, Zenon DEF Pool!Next
  <2>6. CASE UNCHANGED vars
    BY <2>6, Zenon DEF vars, Pool!poolVars
  <2> QED BY <1>2, <2>2, <2>3, <2>4, <2>5, <2>6, Zenon DEF Next
<1>3. Init => ManagerInv
  BY ManagerStart
<1>4. ManagerInv /\ [Next]_vars => ManagerInv'
  BY ManagerStep
<1> QED BY <1>1, <1>2, <1>3, <1>4, PTL DEF Spec, ImplementsPool, Pool!Spec

-----------------------------------------------------------------------------
(* The request pipeline, with the Limiter and the nonce manager. *)

RequestRec ==
  [pc : Phases, path : Paths \cup {None}, nonce : Nat, key : {"kid", "jwk", None},
   spent : BOOLEAN, problem : {"other", "badNonce", "limit", None}, fresh : BOOLEAN, failed : BOOLEAN]

(* What the phase of a request says of it. *)
PhaseOK(r) ==
  /\ r.pc \in {"idle", "nonceLimit", "issue", "renewalLimit", "read", "consume"} => ~r.spent
  /\ r.pc \in {"authenticate", "handle"} => r.spent
  /\ r.pc \in {"read", "consume", "authenticate", "handle"} => r.path \in Signed
  /\ r.pc \in {"consume", "authenticate", "handle"} => r.key \in {"kid", "jwk"}
  /\ r.pc = "handle" => /\ r.path = "newAccount" => r.key = "jwk"
                        /\ r.path \in AccountResources => r.key = "kid"
  /\ r.pc = "problem" => r.problem # None
  /\ r.pc = "answered" /\ r.problem = "badNonce" => r.fresh \/ r.failed

(* A spent nonce was issued and is accepted no more. *)
NonceOK(r) == r.spent => r.nonce \in 1..Len(issued) /\ r.nonce \notin pool

(* The requests that were allowed a nonce and have not got it yet, those   *)
(* that were answered after spending one, and those that the Limiter may   *)
(* have been asked about.                                                  *)
Promised == {q \in Requests : ~req[q].spent /\ req[q].pc \in {"issue", "addNonce"}}
Settled == {q \in Requests : req[q].spent /\ req[q].pc = "answered"}
Asked == {q \in Requests : req[q].pc \in {"issue", "addNonce", "answered"}}

NoncesTyped ==
  /\ clock \in 0..PoolTime /\ issued \in Seq(Nat)
  /\ pool \subseteq 1..Len(issued) /\ Cardinality(pool) <= PoolCapacity

(* Beyond what is checked: a nonce that was given out has been paid for by *)
(* the Limiter's leave or by a request that spent one and was answered.    *)
PipelineInv ==
  /\ NoncesTyped
  /\ req \in [Requests -> RequestRec]
  /\ \A q \in Requests : PhaseOK(req[q]) /\ NonceOK(req[q])
  /\ \A q, r \in Requests : q # r /\ req[q].spent /\ req[r].spent => req[q].nonce # req[r].nonce
  /\ allowed \in Nat /\ allowed <= Cardinality(Asked)
  /\ Limited => Len(issued) + Cardinality(Promised) <= allowed + Cardinality(Settled)

(* The three ways in which a request goes on before its answer: a step     *)
(* that leaves nonces and Limiter alone, its nonce, and the Limiter's      *)
(* leave for a nonce.                                                      *)
Early(q) == req[q].pc \notin {"issue", "addNonce", "answered"}
Turns(q, r) ==
  /\ Early(q) /\ req' = [req EXCEPT ![q] = r]
  /\ r \in RequestRec /\ PhaseOK(r) /\ ~(r.spent /\ r.pc = "answered")
Proceeds(q, r) ==
  /\ Turns(q, r) /\ UNCHANGED <<clock, issued, pool, allowed>>
  /\ r.spent = req[q].spent /\ (r.spent => r.nonce = req[q].nonce)
  /\ Limited => r.spent \/ r.pc \notin {"issue", "addNonce"}
Spends(q, r) ==
  /\ Turns(q, r) /\ UNCHANGED <<clock, issued, allowed>>
  /\ r.nonce \in pool /\ pool' = pool \ {r.nonce}
  /\ r.pc = "authenticate" /\ r.spent /\ ~req[q].spent
Permitted(q, r) ==
  /\ Turns(q, r) /\ UNCHANGED <<clock, issued, pool>> /\ allowed' = allowed + 1
  /\ ~req[q].spent /\ ~r.spent /\ r.pc \in {"issue", "addNonce"}
(* The last step of a request that gets a nonce, or would. *)
Closes(q, r) ==
  /\ req[q].pc \in {"issue", "addNonce"} /\ req' = [req EXCEPT ![q] = r]
  /\ r \in RequestRec /\ PhaseOK(r) /\ r.pc = "answered"
  /\ r.spent = req[q].spent /\ (r.spent => r.nonce = req[q].nonce)
  /\ UNCHANGED allowed

-----------------------------------------------------------------------------
(* The manager counts as the library's theorems do.                        *)
LEMMA SameCount == \A S : Manager!Cardinality(S) = Cardinality(S)
BY Zenon DEF Manager!Cardinality, Cardinality

(* A change of one request is one of its membership in the three sets.     *)
LEMMA SetsChange ==
  ASSUME PipelineInv, NEW q \in Requests, NEW r, req' = [req EXCEPT ![q] = r]
  PROVE  /\ Promised' = IF ~r.spent /\ r.pc \in {"issue", "addNonce"}
                        THEN Promised \cup {q} ELSE Promised \ {q}
         /\ Settled' = IF r.spent /\ r.pc = "answered" THEN Settled \cup {q} ELSE Settled \ {q}
         /\ Asked' = IF r.pc \in {"issue", "addNonce", "answered"} THEN Asked \cup {q} ELSE Asked \ {q}
<1>1. req'[q] = r /\ \A x \in Requests \ {q} : req'[x] = req[x]
  BY DEF PipelineInv
<1>2. Promised' = IF ~r.spent /\ r.pc \in {"issue", "addNonce"} THEN Promised \cup {q} ELSE Promised \ {q}
  BY <1>1, Zenon DEF Promised
<1>3. Settled' = IF r.spent /\ r.pc = "answered" THEN Settled \cup {q} ELSE Settled \ {q}
  BY <1>1, Zenon DEF Settled
<1>4. Asked' = IF r.pc \in {"issue", "addNonce", "answered"} THEN Asked \cup {q} ELSE Asked \ {q}
  BY <1>1, Zenon DEF Asked
<1> QED BY <1>2, <1>3, <1>4, Zenon

(* There are finitely many requests of each kind. *)
LEMMA SetsFinite ==
  /\ IsFiniteSet(Promised) /\ IsFiniteSet(Settled) /\ IsFiniteSet(Asked)
  /\ Cardinality(Promised) \in Nat /\ Cardinality(Settled) \in Nat
  /\ Cardinality(Asked) \in 0..Cardinality(Requests)
<1>1. IsFiniteSet(Requests)
  BY PipelineAssumption
<1>2. Promised \in SUBSET Requests /\ Settled \in SUBSET Requests /\ Asked \in SUBSET Requests
  BY Zenon DEF Promised, Settled, Asked
<1>3. IsFiniteSet(Promised) /\ IsFiniteSet(Settled) /\ IsFiniteSet(Asked)
  BY <1>1, <1>2, FS_Subset, Zenon
<1>4. /\ Cardinality(Promised) \in Nat /\ Cardinality(Settled) \in Nat /\ Cardinality(Asked) \in Nat
      /\ Cardinality(Requests) \in Nat
  BY <1>1, <1>3, FS_CardinalityType, Zenon
<1>5. Cardinality(Asked) <= Cardinality(Requests)
  BY <1>1, <1>2, FS_Subset, Zenon
<1> QED BY <1>3, <1>4, <1>5

(* The same of the state after a step. *)
LEMMA AskedFinite ==
  /\ IsFiniteSet(Asked') /\ Cardinality(Asked') \in Nat
  /\ Cardinality(Promised') \in Nat /\ Cardinality(Settled') \in Nat
  /\ Cardinality(Asked)' = Cardinality(Asked')
  /\ Cardinality(Promised)' = Cardinality(Promised')
  /\ Cardinality(Settled)' = Cardinality(Settled')
<1>1. IsFiniteSet(Requests)
  BY PipelineAssumption
<1>2. Asked' \in SUBSET Requests /\ Promised' \in SUBSET Requests /\ Settled' \in SUBSET Requests
  BY Zenon DEF Asked, Promised, Settled
<1>3. IsFiniteSet(Asked') /\ IsFiniteSet(Promised') /\ IsFiniteSet(Settled')
  BY <1>1, <1>2, FS_Subset, Zenon
<1> QED BY <1>3, FS_CardinalityType, Zenon

(* Requests the Limiter was asked about are not forgotten. *)
LEMMA AskedGrows ==
  ASSUME Asked \subseteq Asked'
  PROVE  Cardinality(Asked) <= Cardinality(Asked)'
<1>1. IsFiniteSet(Asked') /\ Asked \in SUBSET Asked'
  BY AskedFinite, Zenon
<1> QED BY <1>1, FS_Subset, AskedFinite, Zenon

(* The requests stay as they should when one of them changes. *)
LEMMA RequestsKeep ==
  ASSUME PipelineInv, NEW q \in Requests, NEW r \in RequestRec, PhaseOK(r),
         req' = [req EXCEPT ![q] = r],
         \A x \in Requests \ {q} : NonceOK(req[x])', NonceOK(r)',
         r.spent => \A x \in Requests \ {q} : req[x].spent => req[x].nonce # r.nonce
  PROVE  /\ req' \in [Requests -> RequestRec]
         /\ \A x \in Requests : PhaseOK(req'[x]) /\ NonceOK(req[x])'
         /\ \A x, y \in Requests : x # y /\ req'[x].spent /\ req'[y].spent => req'[x].nonce # req'[y].nonce
<1>1. req'[q] = r /\ \A x \in Requests \ {q} : req'[x] = req[x]
  BY DEF PipelineInv
<1>2. req' \in [Requests -> RequestRec]
  BY DEF PipelineInv
<1>3. ASSUME NEW x \in Requests PROVE PhaseOK(req'[x]) /\ NonceOK(req[x])'
  <2>1. CASE x = q
    BY <1>1, <2>1, Zenon DEF NonceOK
  <2>2. CASE x # q
    BY <1>1, <2>2, Zenon DEF NonceOK, PipelineInv
  <2> QED BY <2>1, <2>2
<1>4. ASSUME NEW x \in Requests, NEW y \in Requests, x # y, req'[x].spent, req'[y].spent
      PROVE  req'[x].nonce # req'[y].nonce
  <2>1. CASE x = q
    BY <1>1, <1>4, <2>1, Zenon
  <2>2. CASE y = q
    BY <1>1, <1>4, <2>2, Zenon
  <2>3. CASE x # q /\ y # q
    BY <1>1, <1>4, <2>3, Zenon DEF PipelineInv
  <2> QED BY <2>1, <2>2, <2>3
<1> QED BY <1>2, <1>3, <1>4, Zenon

(* A pool that loses nonces stays within the capacity. *)
LEMMA PoolShrinks ==
  ASSUME NoncesTyped, NEW S \in SUBSET pool
  PROVE  Cardinality(S) <= PoolCapacity
<1>1. IsFiniteSet(1..Len(issued))
  BY FS_Interval DEF NoncesTyped
<1>2. pool \in SUBSET (1..Len(issued))
  BY Zenon DEF NoncesTyped
<1>3. IsFiniteSet(pool)
  BY <1>1, <1>2, FS_Subset, Zenon
<1>4. Cardinality(S) <= Cardinality(pool) /\ Cardinality(S) \in Nat /\ Cardinality(pool) \in Nat
  BY <1>3, FS_Subset, FS_CardinalityType, Zenon
<1> QED BY <1>4, PipelineAssumption DEF NoncesTyped

(* The steps before an answer keep the invariant.                          *)
LEMMA ProceedsKeeps ==
  ASSUME PipelineInv, NEW q \in Requests, NEW r, Proceeds(q, r)
  PROVE  PipelineInv'
<1>1. /\ Turns(q, r) /\ UNCHANGED <<clock, issued, pool, allowed>>
      /\ r.spent = req[q].spent /\ (r.spent => r.nonce = req[q].nonce)
      /\ Limited => r.spent \/ r.pc \notin {"issue", "addNonce"}
  BY Zenon DEF Proceeds
<1>2. /\ Early(q) /\ req' = [req EXCEPT ![q] = r] /\ r \in RequestRec /\ PhaseOK(r)
      /\ ~(r.spent /\ r.pc = "answered")
  BY <1>1, Zenon DEF Turns
<1>3. NoncesTyped'
  BY <1>1, Zenon DEF PipelineInv, NoncesTyped
<1>4. /\ \A x \in Requests \ {q} : NonceOK(req[x])'
      /\ NonceOK(r)'
      /\ r.spent => \A x \in Requests \ {q} : req[x].spent => req[x].nonce # r.nonce
  <2>1. NonceOK(r)' /\ (r.spent => \A x \in Requests \ {q} : req[x].spent => req[x].nonce # r.nonce)
    BY <1>1, Zenon DEF PipelineInv, NonceOK
  <2>2. ASSUME NEW x \in Requests \ {q} PROVE NonceOK(req[x])'
    <3>1. req'[x] = req[x]
      BY <1>2 DEF PipelineInv
    <3> QED BY <1>1, <3>1, Zenon DEF PipelineInv, NonceOK
  <2> QED BY <2>1, <2>2
<1>5. /\ req' \in [Requests -> RequestRec]
      /\ \A x \in Requests : PhaseOK(req'[x]) /\ NonceOK(req[x])'
      /\ \A x, y \in Requests : x # y /\ req'[x].spent /\ req'[y].spent => req'[x].nonce # req'[y].nonce
  BY <1>2, <1>4, RequestsKeep, Zenon
<1>6. /\ Asked \subseteq Asked' /\ Settled' = Settled
      /\ Limited => Promised' = Promised
  <2>1. q \notin Asked /\ q \notin Promised /\ q \notin Settled
    BY <1>2, Zenon DEF Asked, Promised, Settled, Early
  <2>2. Settled' = Settled \ {q} /\ Asked \subseteq Asked'
    BY Zenon, <1>2, <2>1, SetsChange
  <2>3. Limited => Promised' = Promised \ {q}
    BY ZenonT(30), <1>1, <1>2, SetsChange
  <2> QED BY <2>1, <2>2, <2>3, Zenon
<1>7. Cardinality(Asked) <= Cardinality(Asked)'
  BY <1>6, AskedGrows, Zenon
<1>8. allowed' \in Nat /\ allowed' <= Cardinality(Asked)'
  BY <1>1, <1>7, SetsFinite, AskedFinite DEF PipelineInv
<1>9. Limited => (Len(issued) + Cardinality(Promised) <= allowed + Cardinality(Settled))'
  BY <1>1, <1>6, Zenon DEF PipelineInv
<1> QED BY <1>3, <1>5, <1>8, <1>9, Zenon DEF PipelineInv

(* The consumed nonce leaves the pool, so no other request has it. *)
LEMMA SpendsKeeps ==
  ASSUME PipelineInv, NEW q \in Requests, NEW r, Spends(q, r)
  PROVE  PipelineInv'
<1>1. /\ Turns(q, r) /\ UNCHANGED <<clock, issued, allowed>>
      /\ r.nonce \in pool /\ pool' = pool \ {r.nonce}
      /\ r.pc = "authenticate" /\ r.spent /\ ~req[q].spent
  BY Zenon DEF Spends
<1>2. Early(q) /\ req' = [req EXCEPT ![q] = r] /\ r \in RequestRec /\ PhaseOK(r)
  BY <1>1, Zenon DEF Turns
<1>3. NoncesTyped'
  <2>1. clock' \in 0..PoolTime /\ issued' \in Seq(Nat) /\ pool' \subseteq 1..Len(issued')
    BY <1>1, Zenon DEF PipelineInv, NoncesTyped
  <2>2. Cardinality(pool') <= PoolCapacity
    BY <1>1, PoolShrinks DEF PipelineInv
  <2> QED BY <2>1, <2>2, Zenon DEF NoncesTyped
<1>4. /\ \A x \in Requests \ {q} : NonceOK(req[x])'
      /\ NonceOK(r)'
      /\ r.spent => \A x \in Requests \ {q} : req[x].spent => req[x].nonce # r.nonce
  <2>1. NonceOK(r)'
    BY <1>1, Zenon DEF PipelineInv, NonceOK, NoncesTyped
  <2>2. ASSUME NEW x \in Requests \ {q} PROVE NonceOK(req[x])' /\ (req[x].spent => req[x].nonce # r.nonce)
    <3>1. req'[x] = req[x]
      BY <1>2 DEF PipelineInv
    <3> QED BY <1>1, <3>1, Zenon DEF PipelineInv, NonceOK
  <2> QED BY <2>1, <2>2
<1>5. /\ req' \in [Requests -> RequestRec]
      /\ \A x \in Requests : PhaseOK(req'[x]) /\ NonceOK(req[x])'
      /\ \A x, y \in Requests : x # y /\ req'[x].spent /\ req'[y].spent => req'[x].nonce # req'[y].nonce
  BY <1>2, <1>4, RequestsKeep, Zenon
<1>6. Asked' = Asked /\ Settled' = Settled /\ Promised' = Promised
  <2>1. q \notin Asked /\ q \notin Promised /\ q \notin Settled
    BY <1>2, Zenon DEF Asked, Promised, Settled, Early
  <2>2. Asked' = Asked \ {q} /\ Settled' = Settled \ {q} /\ Promised' = Promised \ {q}
    BY ZenonT(30), <1>1, <1>2, SetsChange
  <2> QED BY <2>1, <2>2, Zenon
<1>7. /\ allowed' \in Nat /\ allowed' <= Cardinality(Asked)'
      /\ Limited => (Len(issued) + Cardinality(Promised) <= allowed + Cardinality(Settled))'
  BY <1>1, <1>6, Zenon DEF PipelineInv
<1> QED BY <1>3, <1>5, <1>7, Zenon DEF PipelineInv

(* Whom the Limiter allows a nonce was not asked about before.             *)
LEMMA PermittedKeeps ==
  ASSUME PipelineInv, NEW q \in Requests, NEW r, Permitted(q, r)
  PROVE  PipelineInv'
<1>1. /\ Turns(q, r) /\ UNCHANGED <<clock, issued, pool>> /\ allowed' = allowed + 1
      /\ ~req[q].spent /\ ~r.spent /\ r.pc \in {"issue", "addNonce"}
  BY Zenon DEF Permitted
<1>2. Early(q) /\ req' = [req EXCEPT ![q] = r] /\ r \in RequestRec /\ PhaseOK(r)
  BY <1>1, Zenon DEF Turns
<1>3. NoncesTyped'
  BY <1>1, Zenon DEF PipelineInv, NoncesTyped
<1>4. /\ \A x \in Requests \ {q} : NonceOK(req[x])'
      /\ NonceOK(r)'
  <2>1. NonceOK(r)'
    BY <1>1, Zenon DEF NonceOK
  <2>2. ASSUME NEW x \in Requests \ {q} PROVE NonceOK(req[x])'
    <3>1. req'[x] = req[x]
      BY <1>2 DEF PipelineInv
    <3> QED BY <1>1, <3>1, Zenon DEF PipelineInv, NonceOK
  <2> QED BY <2>1, <2>2
<1>5. /\ req' \in [Requests -> RequestRec]
      /\ \A x \in Requests : PhaseOK(req'[x]) /\ NonceOK(req[x])'
      /\ \A x, y \in Requests : x # y /\ req'[x].spent /\ req'[y].spent => req'[x].nonce # req'[y].nonce
  BY <1>1, <1>2, <1>4, RequestsKeep, Zenon
<1>6. Asked' = Asked \cup {q} /\ Settled' = Settled /\ Promised' = Promised \cup {q}
  <2>1. q \notin Settled
    BY <1>1, Zenon DEF Settled
  <2>2. Asked' = Asked \cup {q} /\ Settled' = Settled \ {q} /\ Promised' = Promised \cup {q}
    BY ZenonT(30), <1>1, <1>2, SetsChange
  <2> QED BY <2>1, <2>2, Zenon
<1>7. q \notin Asked /\ q \notin Promised
  BY <1>2, Zenon DEF Asked, Promised, Early
<1>8. /\ Cardinality(Asked)' = Cardinality(Asked) + 1
      /\ Cardinality(Promised)' = Cardinality(Promised) + 1
  BY Zenon, <1>6, <1>7, SetsFinite, AskedFinite, FS_AddElement
<1>9. allowed' \in Nat /\ allowed' <= Cardinality(Asked)'
  BY <1>1, <1>8, SetsFinite DEF PipelineInv
<1>10. Limited => (Len(issued) + Cardinality(Promised) <= allowed + Cardinality(Settled))'
  <2>1. Len(issued) \in Nat
    BY DEF PipelineInv, NoncesTyped
  <2>2. Len(issued)' = Len(issued) /\ Cardinality(Settled)' = Cardinality(Settled)
    BY <1>1, <1>6, Zenon
  <2> QED BY <1>1, <1>8, <2>1, <2>2, SetsFinite DEF PipelineInv
<1> QED BY <1>3, <1>5, <1>9, <1>10, Zenon DEF PipelineInv

(* The oldest nonce of a pool is one of it. *)
LEMMA OldestOfPool ==
  ASSUME NEW S \in SUBSET Nat, S # {}
  PROVE  \E n \in S : Manager!Oldest(S) = {n}
<1>2. PICK n \in S : \A k \in S : n <= k
  BY LeastOf, Zenon
<1>3. \A k \in S : k \in Manager!Oldest(S) <=> k = n
  <2> TAKE k \in S
  <2>1. k \in Manager!Oldest(S) => k <= n
    BY Zenon DEF Manager!Oldest
  <2>2. n \in Manager!Oldest(S)
    BY <1>2, Zenon DEF Manager!Oldest
  <2>3. k \in Nat /\ n \in Nat /\ n <= k
    BY <1>2
  <2> QED BY <2>1, <2>2, <2>3
<1>4. Manager!Oldest(S) \in SUBSET S
  BY Zenon DEF Manager!Oldest
<1> QED BY <1>3, <1>4, Zenon

(* makeRoom leaves room for a nonce. *)
LEMMA RoomIsMade ==
  ASSUME NoncesTyped
  PROVE  /\ Manager!Room \subseteq pool /\ IsFiniteSet(Manager!Room)
         /\ Cardinality(Manager!Room) \in Nat
         /\ Cardinality(Manager!Room) + 1 <= PoolCapacity
<1>1. IsFiniteSet(1..Len(issued)) /\ pool \in SUBSET (1..Len(issued)) /\ pool \in SUBSET Nat
  BY FS_Interval DEF NoncesTyped
<1>2. IsFiniteSet(pool)
  BY <1>1, FS_Subset, Zenon
<1>3. Cardinality(pool) \in Nat /\ Manager!Cardinality(pool) = Cardinality(pool)
  BY <1>2, FS_CardinalityType, SameCount, Zenon
<1>4. Cardinality(pool) <= PoolCapacity /\ PoolCapacity \in Nat \ {0}
  BY PipelineAssumption, Zenon DEF NoncesTyped
<1>5. CASE Cardinality(pool) >= PoolCapacity
  <2>1. pool # {}
    BY <1>3, <1>4, <1>5, FS_EmptySet
  <2>2. PICK n \in pool : Manager!Oldest(pool) = {n}
    BY <1>1, <2>1, OldestOfPool, Zenon
  <2>3. Manager!Room = pool \ {n}
    BY <1>3, <1>5, <2>2, Zenon DEF Manager!Room
  <2>4. IsFiniteSet(pool \ {n}) /\ Cardinality(pool \ {n}) = Cardinality(pool) - 1
    BY <1>2, FS_RemoveElement
  <2>5. Cardinality(pool \ {n}) \in Nat
    BY <2>4, FS_CardinalityType, Zenon
  <2> QED BY <1>3, <1>4, <2>3, <2>4, <2>5
<1>6. CASE ~(Cardinality(pool) >= PoolCapacity)
  <2>1. Manager!Room = pool
    BY <1>3, <1>6, Zenon DEF Manager!Room
  <2> QED BY <1>2, <1>3, <1>4, <1>6, <2>1
<1> QED BY <1>5, <1>6

(* Issue and Refuse keep the pool within its capacity, and neither takes   *)
(* up a nonce again.                                                       *)
LEMMA ManagerKeeps ==
  ASSUME NoncesTyped, Manager!Issue \/ Manager!Refuse
  PROVE  /\ NoncesTyped'
         /\ Len(issued') \in {Len(issued), Len(issued) + 1}
         /\ \A n \in 1..Len(issued) : n \notin pool => n \notin pool'
<1>1. Len(issued) \in Nat /\ issued \in Seq(Nat) /\ clock \in 0..PoolTime /\ PoolTime \in Nat /\ PoolTTL \in Nat
  BY PipelineAssumption DEF NoncesTyped
<1>r. PICK room : room = Manager!Room
  OBVIOUS
<1>2. /\ room \subseteq pool /\ IsFiniteSet(room) /\ Cardinality(room) \in Nat
      /\ Cardinality(room) + 1 <= PoolCapacity
  BY <1>r, RoomIsMade, Zenon
<1>3. room \subseteq 1..Len(issued) /\ PoolCapacity \in Nat
  BY <1>2, PipelineAssumption, Zenon DEF NoncesTyped
<1>4. CASE Manager!Issue
  <2>1. /\ issued' = Append(issued, clock + PoolTTL) /\ pool' = room \cup {Len(issued) + 1} /\ clock' = clock
    BY <1>4, <1>r, Zenon DEF Manager!Issue, Manager!Fresh
  <2>2. clock + PoolTTL \in Nat
    BY <1>1
  <2>3. issued' \in Seq(Nat) /\ Len(issued') = Len(issued) + 1
    BY <1>1, <2>1, <2>2
  <2>4. pool' \subseteq 1..Len(issued')
    <3>1. 1..Len(issued) \subseteq 1..Len(issued') /\ Len(issued) + 1 \in 1..Len(issued')
      BY <1>1, <2>3
    <3> QED BY <1>3, <2>1, <3>1, Zenon
  <2>5. \A n \in 1..Len(issued) : n # Len(issued) + 1
    BY <1>1
  <2>6. Cardinality(pool') = Cardinality(room) + 1
    <3>1. Len(issued) + 1 \notin room
      BY <1>3, <2>5, Zenon
    <3> QED BY ZenonT(30), <1>2, <2>1, <3>1, FS_AddElement
  <2>7. Cardinality(pool') <= PoolCapacity
    BY <1>2, <2>6
  <2>8. \A n \in 1..Len(issued) : n \notin pool => n \notin pool'
    BY <1>2, <2>1, <2>5, Zenon
  <2> QED BY <1>1, <2>1, <2>3, <2>4, <2>7, <2>8, Zenon DEF NoncesTyped
<1>5. CASE Manager!Refuse
  <2>1. pool' = room /\ issued' = issued /\ clock' = clock
    BY <1>5, <1>r, Zenon DEF Manager!Refuse
  <2>2. Cardinality(pool') <= PoolCapacity
    BY <1>2, <1>3, <2>1
  <2> QED BY <1>1, <1>2, <1>3, <2>1, <2>2, Zenon DEF NoncesTyped
<1> QED BY <1>4, <1>5

(* An answer hands out a nonce that was promised, or replaces a spent one. *)
LEMMA ClosesKeeps ==
  ASSUME PipelineInv, Manager!Issue \/ Manager!Refuse,
         NEW q \in Requests, NEW r, Closes(q, r)
  PROVE  PipelineInv'
<1>1. /\ req[q].pc \in {"issue", "addNonce"} /\ req' = [req EXCEPT ![q] = r]
      /\ r \in RequestRec /\ PhaseOK(r) /\ r.pc = "answered"
      /\ r.spent = req[q].spent /\ (r.spent => r.nonce = req[q].nonce)
      /\ UNCHANGED allowed
  BY Zenon DEF Closes
<1>2. /\ NoncesTyped' /\ Len(issued') \in {Len(issued), Len(issued) + 1}
      /\ \A n \in 1..Len(issued) : n \notin pool => n \notin pool'
  BY ManagerKeeps, Zenon DEF PipelineInv
<1>3. Len(issued) \in Nat /\ 1..Len(issued) \subseteq 1..Len(issued')
  <2>1. Len(issued) \in Nat
    BY DEF PipelineInv, NoncesTyped
  <2> QED BY <1>2, <2>1
<1>4. /\ \A x \in Requests \ {q} : NonceOK(req[x])'
      /\ NonceOK(r)'
      /\ r.spent => \A x \in Requests \ {q} : req[x].spent => req[x].nonce # r.nonce
  <2>1. NonceOK(r)' /\ (r.spent => \A x \in Requests \ {q} : req[x].spent => req[x].nonce # r.nonce)
    BY <1>1, <1>2, <1>3, Zenon DEF PipelineInv, NonceOK
  <2>2. ASSUME NEW x \in Requests \ {q} PROVE NonceOK(req[x])'
    <3>1. req'[x] = req[x]
      BY <1>1 DEF PipelineInv
    <3> QED BY <1>2, <1>3, <3>1, Zenon DEF PipelineInv, NonceOK
  <2> QED BY <2>1, <2>2
<1>5. /\ req' \in [Requests -> RequestRec]
      /\ \A x \in Requests : PhaseOK(req'[x]) /\ NonceOK(req[x])'
      /\ \A x, y \in Requests : x # y /\ req'[x].spent /\ req'[y].spent => req'[x].nonce # req'[y].nonce
  BY <1>1, <1>4, RequestsKeep, Zenon
<1>6. Asked' = Asked \cup {q} /\ q \in Asked
  <2>1. Asked' = Asked \cup {q}
    BY Zenon, <1>1, SetsChange
  <2> QED BY <1>1, <2>1, Zenon DEF Asked
<1>7. allowed' \in Nat /\ allowed' <= Cardinality(Asked)'
  BY <1>1, <1>6, Zenon DEF PipelineInv
<1>8. Cardinality(Promised)' + 1 <= Cardinality(Promised) + Cardinality(Settled)' - Cardinality(Settled)
  <2>1. CASE r.spent
    <3>1. q \notin Promised /\ q \notin Settled
      BY <1>1, <2>1, Zenon DEF Promised, Settled
    <3>2. Promised' = Promised \ {q} /\ Settled' = Settled \cup {q}
      BY Zenon, <1>1, <2>1, SetsChange
    <3>3. Promised' = Promised
      BY <3>1, <3>2, Zenon
    <3>4. Cardinality(Settled') = Cardinality(Settled) + 1
      BY <3>1, <3>2, SetsFinite, FS_AddElement, Zenon
    <3> QED BY <3>3, <3>4, SetsFinite, AskedFinite
  <2>2. CASE ~r.spent
    <3>1. q \in Promised /\ q \notin Settled
      BY <1>1, <2>2, Zenon DEF Promised, Settled
    <3>2. Promised' = Promised \ {q} /\ Settled' = Settled \ {q}
      BY ZenonT(30), <1>1, <2>2, SetsChange
    <3>3. Settled' = Settled
      BY <3>1, <3>2, Zenon
    <3>4. Cardinality(Promised') = Cardinality(Promised) - 1
      BY <3>1, <3>2, SetsFinite, FS_RemoveElement, Zenon
    <3> QED BY <3>3, <3>4, SetsFinite, AskedFinite
  <2> QED BY <2>1, <2>2
<1>9. Limited => (Len(issued) + Cardinality(Promised) <= allowed + Cardinality(Settled))'
  <2>1. Cardinality(Promised)' \in Nat /\ Cardinality(Settled)' \in Nat
    BY AskedFinite, SetsFinite
  <2>2. /\ allowed \in Nat /\ allowed' = allowed
        /\ Limited => Len(issued) + Cardinality(Promised) <= allowed + Cardinality(Settled)
    BY <1>1, Zenon DEF PipelineInv
  <2> QED BY <1>2, <1>3, <1>8, <2>1, <2>2, SetsFinite
<1> QED BY <1>2, <1>5, <1>7, <1>9, Zenon DEF PipelineInv

(* Nonces expire. *)
LEMMA PassKeeps ==
  ASSUME PipelineInv, Pass
  PROVE  PipelineInv'
<1>1. /\ clock < PoolTime /\ clock' = clock + 1 /\ UNCHANGED <<issued, req, allowed>>
      /\ pool' = {n \in pool : clock' < issued[n]}
  BY Zenon DEF Pass, Manager!Pass
<1>2. pool' \subseteq pool
  BY <1>1, Zenon
<1>3. clock' \in 0..PoolTime
  BY <1>1, PipelineAssumption DEF PipelineInv, NoncesTyped
<1>4. Cardinality(pool') <= PoolCapacity
  BY <1>2, PoolShrinks, Zenon DEF PipelineInv
<1>5. NoncesTyped'
  BY <1>1, <1>2, <1>3, <1>4, Zenon DEF PipelineInv, NoncesTyped
<1>6. Promised' = Promised /\ Settled' = Settled /\ Asked' = Asked
  BY <1>1, Zenon DEF Promised, Settled, Asked
<1> QED BY <1>1, <1>2, <1>5, <1>6, Zenon DEF PipelineInv, NonceOK

-----------------------------------------------------------------------------
(* Every action takes one of these forms. *)

(* A problem is to be written. *)
LEMMA ProblemProceeds ==
  ASSUME PipelineInv, NEW q \in Requests, Early(q),
         NEW p \in {"other", "badNonce"}, Problem(q, p)
  PROVE  \E r : Proceeds(q, r)
<1>1. PICK r : r = [req[q] EXCEPT !.pc = "problem", !.problem = p]
  OBVIOUS
<1>2. req[q] \in RequestRec
  BY Zenon DEF PipelineInv
<1>3. req' = [req EXCEPT ![q] = r] /\ UNCHANGED <<clock, issued, pool, allowed>>
  BY Zenon, <1>1, <1>2 DEF Problem, nonces, PipelineInv, RequestRec
<1>4. /\ r \in RequestRec /\ r.pc = "problem" /\ r.problem = p /\ r.spent = req[q].spent
      /\ r.nonce = req[q].nonce
  BY ZenonT(30), <1>1, <1>2 DEF RequestRec, Phases
<1>5. PhaseOK(r)
  BY <1>4, PipelineAssumption DEF PhaseOK
<1> QED BY Zenon, <1>3, <1>4, <1>5 DEF Proceeds, Turns

(* An answer without a nonce, of a request that spent none.                *)
LEMMA WrittenProceeds ==
  ASSUME PipelineInv, NEW q \in Requests, Early(q), ~req[q].spent,
         NEW p \in {"other", "limit", None}, Written(q, p)
  PROVE  \E r : Proceeds(q, r)
<1>1. PICK r : r = [NoRequest EXCEPT !.pc = "answered", !.problem = p, !.fresh = FALSE,
            !.failed = FALSE, !.spent = req[q].spent,
            !.nonce = IF req[q].spent THEN req[q].nonce ELSE 0]
  OBVIOUS
<1>2. req[q] \in RequestRec
  BY Zenon DEF PipelineInv
<1>3. req' = [req EXCEPT ![q] = r] /\ UNCHANGED <<clock, issued, pool, allowed>>
  BY <1>1, Zenon DEF Written, Answered, nonces
<1>4. r \in RequestRec /\ r.pc = "answered" /\ r.problem = p /\ r.spent = req[q].spent
  BY ZenonT(30), <1>1, <1>2 DEF RequestRec, Phases, NoRequest
<1>5. PhaseOK(r)
  BY <1>4, PipelineAssumption DEF PhaseOK
<1> QED BY Zenon, <1>3, <1>4, <1>5 DEF Proceeds, Turns

(* An answer with the nonce that the manager issued or could not issue.    *)
LEMMA AnsweredCloses ==
  ASSUME PipelineInv, NEW q \in Requests,
         req[q].pc \in {"issue", "addNonce"}, UNCHANGED allowed,
         NEW p \in {"other", "badNonce", "limit", None},
         NEW fresh \in BOOLEAN, NEW failed \in BOOLEAN, fresh \/ failed,
         Answered(q, p, fresh, failed)
  PROVE  \E r : Closes(q, r)
<1>1. PICK r : r = [NoRequest EXCEPT !.pc = "answered", !.problem = p, !.fresh = fresh,
            !.failed = failed, !.spent = req[q].spent,
            !.nonce = IF req[q].spent THEN req[q].nonce ELSE 0]
  OBVIOUS
<1>2. req[q] \in RequestRec
  BY Zenon DEF PipelineInv
<1>3. req' = [req EXCEPT ![q] = r]
  BY <1>1, Zenon DEF Answered
<1>4. /\ r \in RequestRec /\ r.pc = "answered" /\ r.fresh = fresh /\ r.failed = failed
      /\ r.spent = req[q].spent /\ (r.spent => r.nonce = req[q].nonce)
  <2>1. PICK n : n = IF req[q].spent THEN req[q].nonce ELSE 0
    OBVIOUS
  <2>2. n \in Nat /\ req[q].spent \in BOOLEAN
    BY <1>2, <2>1 DEF RequestRec
  <2>3. r = [pc |-> "answered", path |-> None, nonce |-> n, key |-> None, spent |-> req[q].spent,
             problem |-> p, fresh |-> fresh, failed |-> failed]
    BY Zenon, <1>1, <2>1 DEF NoRequest
  <2> QED BY ZenonT(30), <2>1, <2>2, <2>3 DEF RequestRec, Phases
<1>5. PhaseOK(r)
  BY <1>4 DEF PhaseOK
<1> QED BY <1>3, <1>4, <1>5, Zenon DEF Closes

(* A request that goes on and changes nothing but its phase, from one that *)
(* spent a nonce or to one that says no more of it.                        *)
LEMMA GoProceeds ==
  ASSUME PipelineInv, NEW q \in Requests, Early(q), NEW pc \in {"handle", "addNonce"},
         req[q].spent \/ (pc = "addNonce" /\ ~Limited), Go(q, pc),
         pc = "handle" => /\ req[q].path \in Signed /\ req[q].key \in {"kid", "jwk"}
                          /\ req[q].path = "newAccount" => req[q].key = "jwk"
                          /\ req[q].path \in AccountResources => req[q].key = "kid"
  PROVE  \E r : Proceeds(q, r)
<1>1. PICK r : r = [req[q] EXCEPT !.pc = pc]
  BY Zenon
<1>2. req[q] \in RequestRec
  BY Zenon DEF PipelineInv
<1>3. req' = [req EXCEPT ![q] = r] /\ UNCHANGED <<clock, issued, pool, allowed>>
  BY <1>1, <1>2 DEF Go, nonces, PipelineInv, RequestRec
<1>4. /\ r \in RequestRec /\ r.pc = pc /\ r.spent = req[q].spent /\ r.nonce = req[q].nonce
      /\ r.path = req[q].path /\ r.key = req[q].key
  BY <1>1, <1>2 DEF RequestRec, Phases
<1>5. PhaseOK(r)
  BY <1>4, Zenon DEF PhaseOK
<1>6. r.pc # "answered" /\ (Limited => r.spent \/ r.pc \notin {"issue", "addNonce"})
  BY <1>4
<1> QED BY <1>3, <1>4, <1>5, <1>6, Zenon DEF Proceeds, Turns

(* The Limiter's leave. *)
LEMMA LeavePermits ==
  ASSUME PipelineInv, NEW q \in Requests, Early(q), ~req[q].spent, NEW pc \in {"issue", "addNonce"},
         req' = [req EXCEPT ![q].pc = pc], UNCHANGED nonces, allowed' = allowed + 1
  PROVE  \E r : Permitted(q, r)
<1>1. PICK r : r = [req[q] EXCEPT !.pc = pc]
  BY Zenon
<1>2. req[q] \in RequestRec
  BY Zenon DEF PipelineInv
<1>3. req' = [req EXCEPT ![q] = r] /\ UNCHANGED <<clock, issued, pool>>
  BY <1>1, <1>2 DEF nonces, PipelineInv, RequestRec
<1>4. r \in RequestRec /\ r.pc = pc /\ r.spent = req[q].spent
  BY <1>1, <1>2 DEF RequestRec, Phases
<1>5. PhaseOK(r)
  BY <1>4, Zenon DEF PhaseOK
<1>6. r.pc # "answered"
  BY <1>4
<1> QED BY <1>3, <1>4, <1>5, <1>6, Zenon DEF Permitted, Turns

(* ServeHTTP. *)
LEMMA ServeMoves ==
  ASSUME PipelineInv, NEW q \in Requests,
         NEW path \in Paths, NEW method \in Methods, ServeHTTP(q, path, method)
  PROVE  \E r : Proceeds(q, r)
<1> DEFINE start(pc, p) == /\ req' = [req EXCEPT ![q].pc = pc, ![q].path = path, ![q].problem = p]
                           /\ UNCHANGED <<nonces, allowed>>
<1>1. Early(q) /\ ~req[q].spent /\ req[q] \in RequestRec
  BY Zenon DEF ServeHTTP, Early, PipelineInv, PhaseOK
<1>2. ASSUME NEW pc \in {"problem", "nonceLimit", "renewalLimit", "read"}, NEW p \in {"other", None},
             pc = "problem" => p # None, pc = "read" => path \in Signed, start(pc, p)
      PROVE  \E r : Proceeds(q, r)
  <2>1. PICK r : r = [req[q] EXCEPT !.pc = pc, !.path = path, !.problem = p]
    OBVIOUS
  <2>2. req' = [req EXCEPT ![q] = r] /\ UNCHANGED <<clock, issued, pool, allowed>>
    BY Zenon, <1>1, <1>2, <2>1 DEF nonces, PipelineInv, RequestRec
  <2>3. r \in RequestRec /\ r.pc = pc /\ r.problem = p /\ r.spent = req[q].spent /\ r.path = path
    BY ZenonT(30), <1>1, <2>1 DEF RequestRec, Phases
  <2>4. PhaseOK(r)
    BY <1>1, <1>2, <2>3, Zenon DEF PhaseOK
  <2>5. r.pc \notin {"answered", "issue", "addNonce"}
    BY <2>3
  <2> QED BY <1>1, <2>2, <2>3, <2>4, <2>5, Zenon DEF Proceeds, Turns
<1>3. CASE start("problem", "other")
  BY <1>2, <1>3, PipelineAssumption, Zenon
<1>4. CASE Written(q, None)
  BY <1>1, <1>4, WrittenProceeds, Zenon
<1>5. CASE start("nonceLimit", None) \/ start("renewalLimit", None)
  BY <1>2, <1>5, Zenon
<1>6. CASE path \in Signed /\ start("read", None)
  BY <1>2, <1>6, Zenon
<1> QED BY <1>3, <1>4, <1>5, <1>6, Zenon DEF ServeHTTP

(* readSignedRequest up to the nonce. *)
LEMMA ReadMoves ==
  ASSUME PipelineInv, NEW q \in Requests, NEW h \in Headers,
         ReadSignedRequest(q, h)
  PROVE  \E r : Proceeds(q, r)
<1>1. Early(q) /\ ~req[q].spent /\ req[q].path \in Signed /\ req[q] \in RequestRec
  BY Zenon DEF ReadSignedRequest, Early, PipelineInv, PhaseOK
<1>2. CASE Parse(h) # "ok" /\ Problem(q, Parse(h))
  <2>1. Parse(h) \in {"other", "badNonce"}
    BY <1>2 DEF Parse
  <2> QED BY <1>1, <1>2, <2>1, ProblemProceeds, Zenon
<1>3. ASSUME NEW n \in 0..Len(issued), NEW k \in {"kid", "jwk"},
             req' = [req EXCEPT ![q].pc = "consume", ![q].nonce = n, ![q].key = k],
             UNCHANGED <<nonces, allowed>>
      PROVE  \E r : Proceeds(q, r)
  <2>1. PICK r : r = [req[q] EXCEPT !.pc = "consume", !.nonce = n, !.key = k]
    OBVIOUS
  <2>2. req' = [req EXCEPT ![q] = r] /\ UNCHANGED <<clock, issued, pool, allowed>>
    BY Zenon, <1>1, <1>3, <2>1 DEF nonces, PipelineInv, RequestRec
  <2>3. n \in Nat
    BY DEF PipelineInv, NoncesTyped
  <2>4. /\ r \in RequestRec /\ r.pc = "consume" /\ r.key = k /\ r.spent = req[q].spent
        /\ r.path = req[q].path
    BY ZenonT(30), <1>1, <2>1, <2>3 DEF RequestRec, Phases
  <2>5. PhaseOK(r)
    BY <1>1, <2>4 DEF PhaseOK
  <2>6. r.pc \notin {"answered", "issue", "addNonce"}
    BY <2>4
  <2> QED BY <1>1, <2>2, <2>4, <2>5, <2>6, Zenon DEF Proceeds, Turns
<1>4. CASE Parse(h) = "ok"
  <2>1. PICK n \in 0..Len(issued) :
          /\ req' = [req EXCEPT ![q].pc = "consume", ![q].nonce = n, ![q].key = IF h.kid THEN "kid" ELSE "jwk"]
          /\ UNCHANGED <<nonces, allowed>>
    BY <1>4, Zenon DEF ReadSignedRequest
  <2>2. PICK k \in {"kid", "jwk"} : k = IF h.kid THEN "kid" ELSE "jwk"
    OBVIOUS
  <2> QED BY <1>3, <2>1, <2>2, Zenon
<1> QED BY <1>2, <1>4, Zenon DEF ReadSignedRequest

(* Consume. *)
LEMMA ConsumeMoves ==
  ASSUME PipelineInv, NEW q \in Requests, ConsumeNonce(q)
  PROVE  \E r : Proceeds(q, r) \/ Spends(q, r)
<1> DEFINE n == req[q].nonce
<1>1. /\ Early(q) /\ ~req[q].spent /\ req[q].path \in Signed /\ req[q].key \in {"kid", "jwk"}
      /\ req[q] \in RequestRec
  BY Zenon DEF ConsumeNonce, Early, PipelineInv, PhaseOK
<1>2. /\ pool' = pool \ {n} /\ UNCHANGED <<clock, issued, allowed>>
      /\ req' = [req EXCEPT ![q].pc = IF n \in pool THEN "authenticate" ELSE "problem",
                   ![q].spent = n \in pool, ![q].problem = IF n \in pool THEN None ELSE "badNonce"]
  BY Zenon DEF ConsumeNonce, Manager!Consume
<1>3. CASE n \in pool
  <2>1. PICK r : r = [req[q] EXCEPT !.pc = "authenticate", !.spent = TRUE, !.problem = None]
    OBVIOUS
  <2>2. req' = [req EXCEPT ![q] = r]
    BY <1>1, <1>2, <1>3, <2>1 DEF PipelineInv, RequestRec
  <2>3. /\ r \in RequestRec /\ r.pc = "authenticate" /\ r.spent /\ r.nonce = n
        /\ r.path = req[q].path /\ r.key = req[q].key
    BY ZenonT(30), <1>1, <2>1 DEF RequestRec, Phases
  <2>4. PhaseOK(r)
    BY <1>1, <2>3 DEF PhaseOK
  <2>5. r.pc # "answered"
    BY <2>3
  <2> QED BY <1>1, <1>2, <1>3, <2>2, <2>3, <2>4, <2>5, Zenon DEF Spends, Turns
<1>4. CASE n \notin pool
  <2>1. PICK r : r = [req[q] EXCEPT !.pc = "problem", !.spent = FALSE, !.problem = "badNonce"]
    OBVIOUS
  <2>2. req' = [req EXCEPT ![q] = r]
    <3>1. (n \in pool) = FALSE
      BY <1>4
    <3>2. req' = [req EXCEPT ![q].pc = "problem", ![q].spent = FALSE, ![q].problem = "badNonce"]
      BY <1>2, <3>1, Zenon
    <3> QED BY Zenon, <1>1, <2>1, <3>2 DEF PipelineInv, RequestRec
  <2>3. r \in RequestRec /\ r.pc = "problem" /\ r.spent = FALSE /\ r.problem = "badNonce"
    BY ZenonT(30), <1>1, <2>1 DEF RequestRec, Phases
  <2>4. PhaseOK(r)
    BY <2>3, PipelineAssumption DEF PhaseOK
  <2>5. r.pc \notin {"answered", "issue", "addNonce"} /\ req[q].spent = FALSE /\ pool' = pool
    BY <1>1, <1>2, <1>4, <2>3 DEF RequestRec
  <2> QED BY <1>1, <1>2, <2>2, <2>3, <2>4, <2>5, Zenon DEF Proceeds, Turns
<1> QED BY <1>3, <1>4, Zenon

(* The rest of readSignedRequest, and the handler. *)
LEMMA AuthenticateMoves ==
  ASSUME PipelineInv, NEW q \in Requests,
         ConsumeNonceFails(q) \/ Authenticate(q) \/ Handle(q)
  PROVE  \E r : Proceeds(q, r)
<1>1. CASE ConsumeNonceFails(q)
  <2>1. Early(q) /\ Problem(q, "other")
    BY <1>1, Zenon DEF ConsumeNonceFails, Early
  <2> QED BY <2>1, ProblemProceeds, Zenon
<1>2. CASE Authenticate(q)
  <2>1. /\ Early(q) /\ req[q].spent /\ req[q].path \in Signed /\ req[q].key \in {"kid", "jwk"}
    BY <1>2, Zenon DEF Authenticate, Early, PipelineInv, PhaseOK
  <2>2. CASE Problem(q, "other")
    BY <2>1, <2>2, ProblemProceeds, Zenon
  <2>3. CASE /\ \/ KeyMode(req[q].path) = "either"
                \/ KeyMode(req[q].path) = (IF req[q].key = "kid" THEN "account" ELSE "embedded")
             /\ Go(q, "handle")
    <3>1. /\ req[q].path = "newAccount" => req[q].key = "jwk"
          /\ req[q].path \in AccountResources => req[q].key = "kid"
      BY <2>1, <2>3 DEF KeyMode, AccountResources
    <3> QED BY <2>1, <2>3, <3>1, GoProceeds, Zenon
  <2> QED BY <1>2, <2>2, <2>3, Zenon DEF Authenticate
<1>3. CASE Handle(q)
  <2>1. Early(q) /\ req[q].spent
    BY <1>3, Zenon DEF Handle, Early, PipelineInv, PhaseOK
  <2>2. CASE Go(q, "addNonce")
    BY <2>1, <2>2, GoProceeds, Zenon
  <2>3. CASE Problem(q, "other")
    BY <2>1, <2>3, ProblemProceeds, Zenon
  <2> QED BY <1>3, <2>2, <2>3, Zenon DEF Handle
<1> QED BY <1>1, <1>2, <1>3

(* writeProblem and the Limiter. *)
LEMMA LimiterMoves ==
  ASSUME PipelineInv, NEW q \in Requests,
         WriteProblem(q) \/ NewNonceLimit(q) \/ RenewalLimit(q)
  PROVE  \E r : Proceeds(q, r) \/ Permitted(q, r)
<1>1. CASE WriteProblem(q)
  <2>1. Early(q) /\ req[q].problem \in {"other", "badNonce", "limit"}
    <3>1. req[q].pc = "problem" /\ req[q].problem # None /\ req[q] \in RequestRec
      BY <1>1, Zenon DEF WriteProblem, PipelineInv, PhaseOK
    <3> QED BY <3>1 DEF Early, RequestRec
  <2>2. CASE (req[q].spent \/ ~Limited) /\ Go(q, "addNonce")
    BY <2>1, <2>2, GoProceeds, Zenon
  <2>3. CASE /\ ~req[q].spent /\ allowed' = allowed + 1
             /\ req' = [req EXCEPT ![q].pc = "addNonce"] /\ UNCHANGED nonces
    BY <2>1, <2>3, LeavePermits, Zenon
  <2>4. CASE /\ ~req[q].spent
             /\ Written(q, IF req[q].problem = "badNonce" THEN "limit" ELSE req[q].problem)
    <3>1. PICK p \in {"other", "limit", None} :
            p = IF req[q].problem = "badNonce" THEN "limit" ELSE req[q].problem
      BY <2>1
    <3> QED BY <2>1, <2>4, <3>1, WrittenProceeds, Zenon
  <2> QED BY <1>1, <2>2, <2>3, <2>4, Zenon DEF WriteProblem
<1>2. CASE NewNonceLimit(q)
  <2>1. Early(q) /\ ~req[q].spent /\ req[q].pc = "nonceLimit" /\ req[q] \in RequestRec
    BY <1>2, Zenon DEF NewNonceLimit, Early, PipelineInv, PhaseOK
  <2>2. CASE Limited /\ allowed' = allowed + 1 /\ req' = [req EXCEPT ![q].pc = "issue"] /\ UNCHANGED nonces
    BY <2>1, <2>2, LeavePermits, Zenon
  <2>3. CASE ~Limited /\ allowed' = allowed /\ req' = [req EXCEPT ![q].pc = "issue"] /\ UNCHANGED nonces
    <3>1. PICK r : r = [req[q] EXCEPT !.pc = "issue"]
      BY ZenonT(30)
    <3>2. req' = [req EXCEPT ![q] = r] /\ UNCHANGED <<clock, issued, pool, allowed>>
      BY <2>1, <2>3, <3>1 DEF nonces, PipelineInv, RequestRec
    <3>3. r \in RequestRec /\ r.pc = "issue" /\ r.spent = req[q].spent /\ r.nonce = req[q].nonce
      BY <2>1, <3>1 DEF RequestRec, Phases
    <3>4. PhaseOK(r) /\ r.pc # "answered"
      BY <2>1, <3>3 DEF PhaseOK
    <3> QED BY <2>1, <2>3, <3>2, <3>3, <3>4, Zenon DEF Proceeds, Turns
  <2>4. CASE Written(q, "limit")
    BY <2>1, <2>4, WrittenProceeds, Zenon
  <2> QED BY <1>2, <2>2, <2>3, <2>4, Zenon DEF NewNonceLimit
<1>3. CASE RenewalLimit(q)
  <2>1. Early(q) /\ ~req[q].spent
    BY <1>3, Zenon DEF RenewalLimit, Early, PipelineInv, PhaseOK
  <2>2. CASE Written(q, None) \/ Written(q, "limit")
    BY <2>1, <2>2, WrittenProceeds, Zenon
  <2>3. CASE Problem(q, "other")
    BY <2>1, <2>3, ProblemProceeds, Zenon
  <2> QED BY <1>3, <2>2, <2>3, Zenon DEF RenewalLimit
<1> QED BY <1>1, <1>2, <1>3

(* addNonce and serveNewNonce. *)
LEMMA NonceMoves ==
  ASSUME PipelineInv, NEW q \in Requests, AddNonce(q) \/ NewNonce(q)
  PROVE  (Manager!Issue \/ Manager!Refuse) /\ \E r : Closes(q, r)
<1>1. req[q].problem \in {"other", "badNonce", "limit", None}
  BY DEF PipelineInv, RequestRec
<1>2. PICK p \in {"other", "badNonce", "limit", None}, fresh \in BOOLEAN, failed \in BOOLEAN :
        /\ fresh \/ failed
        /\ Answered(q, p, fresh, failed) /\ (Manager!Issue \/ Manager!Refuse)
  <2>1. CASE AddNonce(q)
    BY <1>1, <2>1, Zenon DEF AddNonce
  <2>2. CASE NewNonce(q)
    BY <2>2, Zenon DEF NewNonce
  <2> QED BY <2>1, <2>2
<1>3. req[q].pc \in {"issue", "addNonce"} /\ UNCHANGED allowed
  BY Zenon DEF AddNonce, NewNonce
<1> QED BY <1>2, <1>3, AnsweredCloses, Zenon

-----------------------------------------------------------------------------
(* Every step keeps PipelineInv. *)
LEMMA PipelineStep ==
  ASSUME PipelineInv, [RequestNext]_requestVars
  PROVE  PipelineInv'
<1>1. ASSUME NEW q \in Requests, \E r : Proceeds(q, r) \/ Spends(q, r) \/ Permitted(q, r)
      PROVE  PipelineInv'
  BY <1>1, ProceedsKeeps, SpendsKeeps, PermittedKeeps, Zenon
<1>2. ASSUME NEW q \in Requests, NEW path \in Paths, NEW method \in Methods,
             ServeHTTP(q, path, method)
      PROVE  PipelineInv'
  BY <1>1, <1>2, ServeMoves, Zenon
<1>3. ASSUME NEW q \in Requests, NEW h \in Headers, ReadSignedRequest(q, h)
      PROVE  PipelineInv'
  BY <1>1, <1>3, ReadMoves, Zenon
<1>4. ASSUME NEW q \in Requests,
             \/ ConsumeNonce(q) \/ ConsumeNonceFails(q) \/ Authenticate(q) \/ Handle(q)
             \/ WriteProblem(q) \/ NewNonceLimit(q) \/ RenewalLimit(q)
      PROVE  PipelineInv'
  BY <1>1, <1>4, ConsumeMoves, AuthenticateMoves, LimiterMoves, Zenon
<1>5. ASSUME NEW q \in Requests, AddNonce(q) \/ NewNonce(q) PROVE PipelineInv'
  BY <1>5, NonceMoves, ClosesKeeps, Zenon
<1>6. CASE UNCHANGED requestVars
  <2>1. UNCHANGED <<clock, issued, pool, req, allowed>>
    BY <1>6, Zenon DEF requestVars
  <2>2. Promised' = Promised /\ Settled' = Settled /\ Asked' = Asked
    BY <2>1, Zenon DEF Promised, Settled, Asked
  <2> QED BY <2>1, <2>2, Zenon DEF PipelineInv, NoncesTyped, NonceOK
<1> QED BY <1>2, <1>3, <1>4, <1>5, <1>6, PassKeeps, Zenon DEF RequestNext

(* The server starts without nonces and requests. *)
LEMMA PipelineInit ==
  ASSUME RequestInit
  PROVE  PipelineInv
<1>1. /\ clock = 0 /\ issued = <<>> /\ pool = {} /\ allowed = 0
      /\ req = [q \in Requests |-> NoRequest]
  BY Zenon DEF RequestInit, Manager!Init
<1>2. /\ NoRequest \in RequestRec /\ NoRequest.pc = "idle" /\ NoRequest.spent = FALSE
  BY DEF NoRequest, RequestRec, Phases
<1>3. PhaseOK(NoRequest) /\ NonceOK(NoRequest)
  BY <1>2 DEF PhaseOK, NonceOK
<1>4. req \in [Requests -> RequestRec] /\ \A q \in Requests : req[q] = NoRequest
  BY <1>1, <1>2
<1>5. NoncesTyped
  <2>1. <<>> \in Seq(Nat) /\ Cardinality({}) = 0 /\ PoolCapacity \in Nat /\ PoolTime \in Nat
    BY FS_EmptySet, PipelineAssumption
  <2> QED BY <1>1, <2>1 DEF NoncesTyped
<1>6. Promised = {} /\ Len(issued) = 0
  BY <1>1, <1>2, <1>4 DEF Promised
<1>7. /\ allowed \in Nat /\ allowed <= Cardinality(Asked)
      /\ Limited => Len(issued) + Cardinality(Promised) <= allowed + Cardinality(Settled)
  BY <1>1, <1>6, SetsFinite, FS_EmptySet
<1> QED BY <1>2, <1>3, <1>4, <1>5, <1>7, Zenon DEF PipelineInv

(* A handler runs only for a request that spent a nonce of its own, which  *)
(* no other request spent, and that has the kind of key its resource asks  *)
(* for, however many requests interleave (readSignedRequest, Consume).     *)
THEOREM HandlersAreAdmitted ==
  RequestSpec => []HandlersAdmitted
<1>1. PipelineInv => HandlersAdmitted
  <2> SUFFICES ASSUME PipelineInv PROVE HandlersAdmitted
    OBVIOUS
  <2>1. ASSUME NEW q \in Requests
        PROVE  /\ req[q].pc \in Phases
               /\ req[q].spent => req[q].nonce \in 1..Len(issued)
               /\ req[q].pc = "problem" => req[q].problem # None
    BY DEF PipelineInv, RequestRec, PhaseOK, NonceOK
  <2>2. allowed \in 0..Cardinality(Requests) /\ Cardinality(pool) <= PoolCapacity
    <3>1. Cardinality(Requests) \in Nat
      BY FS_CardinalityType, PipelineAssumption
    <3> QED BY <3>1, SetsFinite DEF PipelineInv, NoncesTyped
  <2>3. TypeOK
    BY <2>1, <2>2 DEF PipelineInv, NoncesTyped, TypeOK
  <2>4. NonceSpentOnce /\ HandledByItsKey
    BY Zenon DEF PipelineInv, PhaseOK, NonceSpentOnce, HandledByItsKey
  <2> QED BY <2>3, <2>4, Zenon DEF HandlersAdmitted
<1>2. RequestInit => PipelineInv
  BY PipelineInit
<1>3. PipelineInv /\ [RequestNext]_requestVars => PipelineInv'
  BY PipelineStep
<1> QED BY <1>1, <1>2, <1>3, PTL DEF RequestSpec

(* Every nonce given out was allowed by the Limiter or replaces a spent    *)
(* one, and yet a badNonce answer has one, unless the manager could not    *)
(* issue it (writeProblem, addNonce).                                      *)
THEOREM NoncesAreEarned ==
  RequestSpec => []NoncesOfAnswers
<1>1. PipelineInv => NoncesOfAnswers
  <2> SUFFICES ASSUME PipelineInv PROVE NoncesOfAnswers
    OBVIOUS
  <2>1. PICK S : S = {q \in Requests : req[q].spent}
    BY ZenonT(30)
  <2>2. IsFiniteSet(Requests) /\ S \in SUBSET Requests /\ Settled \in SUBSET S
    BY <2>1, PipelineAssumption DEF Settled
  <2>3. IsFiniteSet(S) /\ Cardinality(Settled) <= Cardinality(S) /\ Cardinality(S) \in Nat
    BY <2>2, FS_Subset, FS_CardinalityType, Zenon
  <2>4. Limited => Len(issued) <= allowed + Cardinality(S)
    <3>1. Len(issued) \in Nat
      BY DEF PipelineInv, NoncesTyped
    <3> QED BY <2>3, <3>1, SetsFinite DEF PipelineInv
  <2>5. NoncesEarned
    BY <2>1, <2>4 DEF NoncesEarned
  <2>6. BadNonceCarriesNonce
    BY Zenon DEF PipelineInv, PhaseOK, BadNonceCarriesNonce
  <2> QED BY <2>5, <2>6, Zenon DEF NoncesOfAnswers
<1>2. RequestInit => PipelineInv
  BY PipelineInit
<1>3. PipelineInv /\ [RequestNext]_requestVars => PipelineInv'
  BY PipelineStep
<1> QED BY <1>1, <1>2, <1>3, PTL DEF RequestSpec
==============================================================================
