--------------------------- MODULE KvStructProofs ---------------------------
(***************************************************************************)
(* Lemmas about the page table, for every table, and about the steps of    *)
(* sets, fires and the cache in KvStore.                                   *)
(*                                                                         *)
(* Shape says that parents and selections lead somewhere and end; Counts   *)
(* that each node's two counts are those of the anchors at it and at or    *)
(* below it; Trie that besides every node has an anchor below it and that  *)
(* no owner keeps pages nothing reads; Sound that each set's mapped length *)
(* is that of its terminal's path. The lemmas say what each operation of   *)
(* the table leaves of the nodes, the paths read through them, the         *)
(* reference counts and the registers.                                     *)
(*                                                                         *)
(* Struct is the structure of the whole store: the page table is sound,    *)
(* its pages are of the two pools, every lease is one of the cache's and   *)
(* every pin one of a move's, and fires and flat tables name sets that     *)
(* live. One lemma per action of a set, of a fire or of the cache shows    *)
(* that the action keeps it; those of the moves are in KvStoreProofs.      *)
(***************************************************************************)
EXTENDS KvStore, CollectionTheorems

-----------------------------------------------------------------------------
(* Walks: `next` names at most one node after each, and none comes round   *)
(* again.                                                                   *)
Ranked(next, rank) ==
  \A m \in DOMAIN next : next[m] # NoNode =>
    next[m] \in DOMAIN next /\ rank[next[m]] < rank[m]

Walk(next) ==
  /\ NoNode \notin DOMAIN next
  /\ \E rank \in [DOMAIN next -> Nat] :
       Ranked(next, rank) /\ \E k \in Nat : \A m \in DOMAIN next : rank[m] < k

(* What holds of a node once it holds of the one after it holds of all.    *)
LEMMA WalkInduction ==
  ASSUME NEW next, Walk(next), NEW S,
         \A m \in DOMAIN next : (next[m] # NoNode => next[m] \in S) => m \in S
  PROVE  DOMAIN next \subseteq S
<1> DEFINE B == DOMAIN next \ S
<1>1. PICK rank \in [DOMAIN next -> Nat] : Ranked(next, rank)
  BY DEF Walk
<1>2. SUFFICES ASSUME B # {} PROVE FALSE
  OBVIOUS
<1> DEFINE R == {rank[m] : m \in B}
<1>3. R \in SUBSET Nat /\ R # {}
  BY <1>1, <1>2
<1>4. PICK i \in R : \A j \in R : i <= j
  BY <1>3, Least
<1>5. PICK m \in B : i = rank[m]
  OBVIOUS
<1>6. next[m] # NoNode /\ next[m] \in B
  BY <1>5, <1>1 DEF Ranked
<1>7. rank[next[m]] \in R /\ rank[next[m]] < i /\ i \in Nat /\ rank[next[m]] \in Nat
  BY <1>6, <1>5, <1>1 DEF Ranked
<1> QED BY <1>7, <1>4

(* The nodes met going up from n are n and those met from the next.         *)
LEMMA UpUnfolds ==
  ASSUME NEW next, Walk(next), NEW n \in DOMAIN next
  PROVE  Up(next, n) = {n} \cup IF next[n] = NoNode THEN {} ELSE Up(next, next[n])
<1> DEFINE D == DOMAIN next
           Closed(E) == \A m \in E : next[m] # NoNode => next[m] \in E
           c == [m \in D |-> {k \in D : \A E \in SUBSET D : m \in E /\ Closed(E) => k \in E}]
           Is(f) == f = [m \in D |-> {m} \cup IF next[m] = NoNode THEN {} ELSE f[next[m]]]
           up == CHOOSE f : Is(f)
<1>0. \A m \in D : next[m] # NoNode => next[m] \in D
  BY DEF Walk, Ranked
<1>1. ASSUME NEW m \in D PROVE c[m] = {m} \cup IF next[m] = NoNode THEN {} ELSE c[next[m]]
  <2> DEFINE R == {m} \cup IF next[m] = NoNode THEN {} ELSE c[next[m]]
  <2>1. R \in SUBSET D
    BY <1>0
  <2>2. m \in R /\ Closed(R)
    <3>1. ASSUME NEW k \in R, next[k] # NoNode PROVE next[k] \in R
      <4>1. CASE k = m
        <5>1. next[m] \in c[next[m]]
          BY <4>1, <3>1, <1>0
        <5> QED BY <5>1, <4>1, <3>1
      <4>2. CASE k # m
        <5>1. next[m] # NoNode /\ k \in c[next[m]] /\ next[m] \in D /\ k \in D
          BY <4>2, <1>0
        <5>2. next[k] \in D
          BY <5>1, <3>1, <1>0
        <5>3. next[k] \in c[next[m]]
          BY <5>1, <5>2, <3>1
        <5> QED BY <5>3, <5>1
      <4> QED BY <4>1, <4>2
    <3> QED BY <3>1
  <2>3. c[m] \subseteq R
    <3>1. ASSUME NEW k \in c[m] PROVE k \in R
      <4>1. k \in D /\ \A E \in SUBSET D : m \in E /\ Closed(E) => k \in E
        BY <3>1
      <4> HIDE DEF R, c, Closed
      <4> QED BY <4>1, <2>1, <2>2
    <3> QED BY <3>1
  <2>4. R \subseteq c[m]
    <3>1. m \in c[m]
      OBVIOUS
    <3>2. ASSUME next[m] # NoNode, NEW k \in c[next[m]] PROVE k \in c[m]
      <4>1. next[m] \in D
        BY <3>2, <1>0
      <4>2. k \in D /\ \A E \in SUBSET D : next[m] \in E /\ Closed(E) => k \in E
        BY <4>1, <3>2
      <4>3. \A E \in SUBSET D : m \in E /\ Closed(E) => next[m] \in E
        BY <3>2
      <4> QED BY <4>2, <4>3
    <3> QED BY <3>1, <3>2
  <2> QED BY <2>3, <2>4
<1>2. Is(c)
  <2> HIDE DEF c
  <2> DEFINE d == [m \in D |-> {m} \cup IF next[m] = NoNode THEN {} ELSE c[next[m]]]
  <2>1. c = [m \in D |-> c[m]]
    BY DEF c
  <2>2. \A m \in D : c[m] = d[m]
    BY <1>1
  <2> QED BY <2>1, <2>2
<1>3. Is(up)
  <2> HIDE DEF Is, c
  <2> QED BY <1>2
<1>4. \A m : Up(next, m) = up[m]
  BY DEF Up
<1>5. up[n] = {n} \cup IF next[n] = NoNode THEN {} ELSE up[next[n]]
  <2> HIDE DEF up
  <2> QED BY <1>3
<1> HIDE DEF up
<1> QED BY <1>4, <1>5

(* A node's walk: itself, nodes of the domain, and with a node the walk of  *)
(* that node; of two nodes of it one comes first.                           *)
LEMMA UpIn ==
  ASSUME NEW next, Walk(next), NEW n \in DOMAIN next
  PROVE  /\ n \in Up(next, n) /\ Up(next, n) \subseteq DOMAIN next
         /\ next[n] # NoNode => next[n] \in DOMAIN next /\ Up(next, next[n]) \subseteq Up(next, n)
         /\ next[n] # NoNode => next[n] \in Up(next, n) /\ Up(next, n) = {n} \cup Up(next, next[n])
         /\ next[n] = NoNode => Up(next, n) = {n}
<1> DEFINE S == {m \in DOMAIN next : Up(next, m) \subseteq DOMAIN next}
<1>0. \A m \in DOMAIN next : next[m] # NoNode => next[m] \in DOMAIN next
  BY DEF Walk, Ranked
<1>1. ASSUME NEW m \in DOMAIN next, next[m] # NoNode => next[m] \in S PROVE m \in S
  BY <1>1, UpUnfolds
<1>2. DOMAIN next \subseteq S
  <2> HIDE DEF S
  <2> QED BY <1>1, WalkInduction
<1> QED BY <1>2, <1>0, UpUnfolds

(* What is met going up from a node of a walk is met by the walk.           *)
LEMMA UpTrans ==
  ASSUME NEW next, Walk(next), NEW n \in DOMAIN next, NEW m \in Up(next, n)
  PROVE  Up(next, m) \subseteq Up(next, n) /\ m \in DOMAIN next
<1> DEFINE S == {k \in DOMAIN next : \A j \in Up(next, k) : Up(next, j) \subseteq Up(next, k)}
<1>1. ASSUME NEW k \in DOMAIN next, next[k] # NoNode => next[k] \in S PROVE k \in S
  <2>1. ASSUME NEW j \in Up(next, k) PROVE Up(next, j) \subseteq Up(next, k)
    <3>1. CASE j = k
      BY <3>1
    <3>2. CASE j # k
      <4>1. next[k] # NoNode /\ j \in Up(next, next[k])
        BY <3>2, UpIn
      <4>2. Up(next, j) \subseteq Up(next, next[k])
        BY <4>1, <1>1
      <4> QED BY <4>1, <4>2, UpIn
    <3> QED BY <3>1, <3>2
  <2> QED BY <2>1
<1>2. DOMAIN next \subseteq S
  <2> HIDE DEF S
  <2> QED BY <1>1, WalkInduction
<1> QED BY <1>2, UpIn

(* Two nodes that meet each other going up are the same.                    *)
LEMMA UpOrder ==
  ASSUME NEW next, Walk(next), NEW n \in DOMAIN next, NEW m \in Up(next, n), n \in Up(next, m)
  PROVE  m = n
<1>1. PICK rank \in [DOMAIN next -> Nat] : Ranked(next, rank)
  BY DEF Walk
<1> DEFINE S == {x \in DOMAIN next : \A j \in Up(next, x) : j = x \/ rank[j] < rank[x]}
<1>2. ASSUME NEW x \in DOMAIN next, next[x] # NoNode => next[x] \in S PROVE x \in S
  <2>1. ASSUME NEW j \in Up(next, x), j # x PROVE rank[j] < rank[x]
    <3>1. next[x] # NoNode /\ j \in Up(next, next[x]) /\ next[x] \in DOMAIN next
      BY <2>1, UpIn
    <3>2. j = next[x] \/ rank[j] < rank[next[x]]
      BY <3>1, <1>2
    <3>3. rank[next[x]] < rank[x]
      BY <3>1, <1>1 DEF Ranked
    <3>4. j \in DOMAIN next
      BY <2>1, UpIn
    <3>5. rank[j] \in Nat /\ rank[x] \in Nat /\ rank[next[x]] \in Nat
      BY <3>4, <3>1, <1>1
    <3> QED BY <3>2, <3>3, <3>5
  <2> QED BY <2>1
<1>3. DOMAIN next \subseteq S
  <2> HIDE DEF S
  <2> QED BY <1>2, WalkInduction
<1>4. m \in DOMAIN next
  BY UpIn
<1>5. rank[m] \in Nat /\ rank[n] \in Nat
  BY <1>4, <1>1
<1>6. (m = n \/ rank[m] < rank[n]) /\ (n = m \/ rank[n] < rank[m])
  BY <1>3, <1>4
<1> QED BY <1>5, <1>6

(* Walks that agree where they pass are the same.                           *)
LEMMA UpSame ==
  ASSUME NEW next, Walk(next), NEW other, Walk(other),
         NEW E \in SUBSET (DOMAIN next \cap DOMAIN other),
         \A m \in E : next[m] = other[m] /\ (next[m] # NoNode => next[m] \in E)
  PROVE  \A n \in E : Up(next, n) = Up(other, n) /\ Up(next, n) \subseteq E
<1> DEFINE S == {m \in DOMAIN next : m \in E => Up(next, m) = Up(other, m) /\ Up(next, m) \subseteq E}
<1>1. ASSUME NEW m \in DOMAIN next, next[m] # NoNode => next[m] \in S PROVE m \in S
  <2>1. SUFFICES ASSUME m \in E PROVE Up(next, m) = Up(other, m) /\ Up(next, m) \subseteq E
    OBVIOUS
  <2>2. CASE next[m] = NoNode
    <3>1. other[m] = NoNode /\ m \in DOMAIN other
      BY <2>1, <2>2
    <3> QED BY <3>1, <2>1, <2>2, UpIn
  <2>3. CASE next[m] # NoNode
    <3>1. next[m] = other[m] /\ next[m] \in E /\ next[m] \in S /\ m \in DOMAIN other
      BY <2>1, <2>3, <1>1
    <3>2. Up(next, m) = {m} \cup Up(next, next[m]) /\ Up(other, m) = {m} \cup Up(other, next[m])
      BY <3>1, <2>3, UpIn
    <3> QED BY <3>1, <3>2, <2>1
  <2> QED BY <2>2, <2>3
<1>2. DOMAIN next \subseteq S
  <2> HIDE DEF S
  <2> QED BY <1>1, WalkInduction
<1> QED BY <1>2

(* What a walk collects is what the next node collects, then its own part.  *)
LEMMA JoinedUnfolds ==
  ASSUME NEW next, Walk(next), NEW part, NEW n \in DOMAIN next
  PROVE  Joined(next, part, n) =
           (IF next[n] = NoNode THEN <<>> ELSE Joined(next, part, next[n])) \o part[n]
<1>1. PICK rank \in [DOMAIN next -> Nat] :
        Ranked(next, rank) /\ \E k \in Nat : \A m \in DOMAIN next : rank[m] < k
  BY DEF Walk
<1>2. PICK top \in Nat : \A m \in DOMAIN next : rank[m] < top
  BY <1>1
<1> DEFINE E(k) == {m \in DOMAIN next : rank[m] < k}
           Onward(f, m) == (IF next[m] = NoNode THEN <<>> ELSE f[next[m]]) \o part[m]
           Is(f, k) == f = [m \in E(k) |-> Onward(f, m)]
           B == {k \in Nat : ~\E f : Is(f, k)}
           Whole(f) == f = [m \in DOMAIN next |-> Onward(f, m)]
           all == CHOOSE f : Whole(f)
<1>3. ASSUME B # {} PROVE FALSE
  <2>1. PICK k \in B : \A j \in B : k <= j
    BY <1>3, Least
  <2>2. k # 0
    <3>1. E(0) = {}
      BY <1>1
    <3> DEFINE f == [m \in {} |-> <<>>]
    <3>2. f = [m \in E(0) |-> Onward(f, m)]
      BY <3>1
    <3>3. Is(f, 0)
      BY <3>2
    <3> HIDE DEF Is
    <3> QED BY <3>3
  <2>3. k - 1 \in Nat /\ k - 1 \notin B
    <3>1. k \in Nat
      OBVIOUS
    <3> HIDE DEF B
    <3> QED BY <3>1, <2>1, <2>2
  <2>4. PICK f : Is(f, k - 1)
    BY <2>3
  <2> DEFINE g == [m \in E(k) |-> Onward(f, m)]
  <2>5. \A m \in E(k - 1) : m \in E(k) /\ g[m] = f[m]
    <3>1. ASSUME NEW m \in E(k - 1) PROVE m \in E(k) /\ f[m] = Onward(f, m)
      <4>1. m \in E(k)
        BY <2>3, <1>1
      <4>2. f[m] = [x \in E(k - 1) |-> Onward(f, x)][m]
        BY <2>4
      <4> HIDE DEF Onward, E
      <4> QED BY <4>1, <4>2
    <3> HIDE DEF Onward, E
    <3> QED BY <3>1
  <2>6. \A m \in E(k) : Onward(f, m) = Onward(g, m)
    <3>1. ASSUME NEW m \in E(k), next[m] # NoNode PROVE next[m] \in E(k - 1)
      <4>1. next[m] \in DOMAIN next /\ rank[next[m]] < rank[m] /\ rank[m] < k
        BY <3>1, <1>1 DEF Ranked
      <4>2. rank[next[m]] \in Nat /\ rank[m] \in Nat /\ k \in Nat
        BY <4>1, <1>1, <2>1
      <4> QED BY <4>1, <4>2
    <3>2. \A m \in E(k) : next[m] # NoNode => g[next[m]] = f[next[m]]
      BY <3>1, <2>5
    <3> HIDE DEF g, E
    <3> QED BY <3>2
  <2>7. g = [m \in E(k) |-> Onward(g, m)]
    <3>1. g = [m \in E(k) |-> Onward(f, m)]
      OBVIOUS
    <3> HIDE DEF g, E, Onward
    <3> QED BY <3>1, <2>6
  <2>8. Is(g, k)
    BY <2>7
  <2> HIDE DEF Is, g
  <2> QED BY <2>8, <2>1
<1>4. \E f : Whole(f)
  <2>1. PICK f : Is(f, top)
    BY <1>3, <1>2
  <2>2. E(top) = DOMAIN next
    BY <1>2
  <2> HIDE DEF E
  <2> QED BY <2>1, <2>2
<1>5. Whole(all)
  <2> HIDE DEF Whole
  <2> QED BY <1>4
<1>6. \A m : Joined(next, part, m) = all[m]
  BY DEF Joined
<1>7. all[n] = Onward(all, n)
  <2> HIDE DEF all, Onward
  <2> QED BY <1>5
<1> HIDE DEF all
<1> QED BY <1>6, <1>7

(* The same, with the two cases apart.                                      *)
LEMMA JoinedEnds ==
  ASSUME NEW next, Walk(next), NEW part, NEW n \in DOMAIN next
  PROVE  /\ next[n] = NoNode => Joined(next, part, n) = <<>> \o part[n]
         /\ next[n] # NoNode => Joined(next, part, n) = Joined(next, part, next[n]) \o part[n]
<1> HIDE DEF NoNode
<1> QED BY JoinedUnfolds

(* The items of a concatenation.                                            *)
LEMMA ConcatSet ==
  ASSUME NEW S, NEW a \in Seq(S), NEW b \in Seq(S)
  PROVE  ToSet(a \o b) = ToSet(a) \cup ToSet(b)
<1>1. /\ Len(a) \in Nat /\ Len(b) \in Nat /\ DOMAIN a = 1..Len(a) /\ DOMAIN b = 1..Len(b)
      /\ DOMAIN (a \o b) = 1..(Len(a) + Len(b))
      /\ \A i \in 1..Len(a) : (a \o b)[i] = a[i]
      /\ \A i \in 1..Len(b) : (a \o b)[Len(a) + i] = b[i]
  OBVIOUS
<1>2. ASSUME NEW x \in ToSet(a \o b) PROVE x \in ToSet(a) \cup ToSet(b)
  <2>1. PICK i \in 1..(Len(a) + Len(b)) : x = (a \o b)[i]
    BY <1>1 DEF ToSet
  <2>2. CASE i <= Len(a)
    BY <2>1, <2>2, <1>1 DEF ToSet
  <2>3. CASE ~(i <= Len(a))
    <3>1. i - Len(a) \in 1..Len(b) /\ Len(a) + (i - Len(a)) = i
      BY <2>1, <2>3, <1>1
    <3>2. x = b[i - Len(a)]
      BY <3>1, <2>1, <1>1
    <3> QED BY <3>1, <3>2, <1>1 DEF ToSet
  <2> QED BY <2>2, <2>3
<1>3. ASSUME NEW x \in ToSet(a) PROVE x \in ToSet(a \o b)
  <2>1. PICK i \in 1..Len(a) : x = a[i]
    BY <1>1 DEF ToSet
  <2>2. i \in 1..(Len(a) + Len(b)) /\ (a \o b)[i] = x
    BY <2>1, <1>1
  <2> QED BY <2>2, <1>1 DEF ToSet
<1>4. ASSUME NEW x \in ToSet(b) PROVE x \in ToSet(a \o b)
  <2>1. PICK i \in 1..Len(b) : x = b[i]
    BY <1>1 DEF ToSet
  <2>2. Len(a) + i \in 1..(Len(a) + Len(b)) /\ (a \o b)[Len(a) + i] = x
    BY <2>1, <1>1
  <2> QED BY <2>2, <1>1 DEF ToSet
<1> QED BY <1>2, <1>3, <1>4

(* A node's pages come after those of the nodes after it.                   *)
LEMMA JoinedParts ==
  ASSUME NEW next, Walk(next), NEW part, NEW L, \A m \in DOMAIN next : part[m] \in Seq(L),
         NEW n \in DOMAIN next
  PROVE  /\ Joined(next, part, n) \in Seq(L)
         /\ next[n] # NoNode =>
              /\ next[n] \in DOMAIN next
              /\ Joined(next, part, next[n]) \in Seq(L)
              /\ Joined(next, part, n) = Joined(next, part, next[n]) \o part[n]
         /\ next[n] = NoNode => Joined(next, part, n) = part[n]
<1> DEFINE S == {m \in DOMAIN next : Joined(next, part, m) \in Seq(L)}
<1>0. \A m \in DOMAIN next : next[m] # NoNode => next[m] \in DOMAIN next
  BY DEF Walk, Ranked
<1>1. ASSUME NEW m \in DOMAIN next, next[m] # NoNode => next[m] \in S PROVE m \in S
  <2>1. Joined(next, part, m) =
           (IF next[m] = NoNode THEN <<>> ELSE Joined(next, part, next[m])) \o part[m]
    BY JoinedUnfolds
  <2>2. (IF next[m] = NoNode THEN <<>> ELSE Joined(next, part, next[m])) \in Seq(L)
    BY <1>1
  <2> HIDE DEF NoNode
  <2>3. part[m] \in Seq(L)
    OBVIOUS
  <2>4. Joined(next, part, m) \in Seq(L)
    BY <2>1, <2>2, <2>3, ConcatProperties
  <2> QED BY <2>4
<1>2. DOMAIN next \subseteq S
  <2> HIDE DEF S
  <2> QED BY <1>1, WalkInduction
<1>3. Joined(next, part, n) =
           (IF next[n] = NoNode THEN <<>> ELSE Joined(next, part, next[n])) \o part[n]
  BY JoinedUnfolds
<1>4. next[n] = NoNode => <<>> \o part[n] = part[n]
  OBVIOUS
<1> QED BY <1>2, <1>0, <1>3, <1>4

(* The pages of a walk are those of its nodes.                              *)
LEMMA JoinedHas ==
  ASSUME NEW next, Walk(next), NEW part, NEW L, \A m \in DOMAIN next : part[m] \in Seq(L),
         NEW n \in DOMAIN next
  PROVE  ToSet(Joined(next, part, n)) = UNION {ToSet(part[m]) : m \in Up(next, n)}
<1> DEFINE S == {x \in DOMAIN next :
                  ToSet(Joined(next, part, x)) = UNION {ToSet(part[m]) : m \in Up(next, x)}}
<1>1. ASSUME NEW x \in DOMAIN next, next[x] # NoNode => next[x] \in S PROVE x \in S
  <2>1. CASE next[x] = NoNode
    <3>1. Joined(next, part, x) = part[x] /\ Up(next, x) = {x}
      BY <2>1, JoinedParts, UpIn
    <3> QED BY <3>1
  <2>2. CASE next[x] # NoNode
    <3> DEFINE a == Joined(next, part, next[x])
    <3>1. Joined(next, part, x) = a \o part[x] /\ a \in Seq(L) /\ part[x] \in Seq(L)
      BY <2>2, JoinedParts
    <3>2. Up(next, x) = {x} \cup Up(next, next[x])
      BY <2>2, UpIn
    <3>3. ToSet(a \o part[x]) = ToSet(a) \cup ToSet(part[x])
      <4> HIDE DEF a
      <4> QED BY <3>1, ConcatSet
    <3>4. ToSet(a) = UNION {ToSet(part[m]) : m \in Up(next, next[x])}
      BY <1>1, <2>2
    <3> QED BY <3>1, <3>2, <3>3, <3>4
  <2> QED BY <2>1, <2>2
<1>2. DOMAIN next \subseteq S
  <2> HIDE DEF S
  <2> QED BY <1>1, WalkInduction
<1> QED BY <1>2

(* The pages of a node further on come first.                               *)
LEMMA JoinedPrefix ==
  ASSUME NEW next, Walk(next), NEW part, NEW L, \A m \in DOMAIN next : part[m] \in Seq(L),
         NEW n \in DOMAIN next, NEW m \in Up(next, n)
  PROVE  /\ Len(Joined(next, part, m)) <= Len(Joined(next, part, n))
         /\ \A i \in 1..Len(Joined(next, part, m)) :
              Joined(next, part, n)[i] = Joined(next, part, m)[i]
<1> DEFINE Pre(x, y) == /\ Len(Joined(next, part, y)) <= Len(Joined(next, part, x))
                        /\ \A i \in 1..Len(Joined(next, part, y)) :
                             Joined(next, part, x)[i] = Joined(next, part, y)[i]
           S == {x \in DOMAIN next : \A y \in Up(next, x) : Pre(x, y)}
<1>1. ASSUME NEW x \in DOMAIN next, next[x] # NoNode => next[x] \in S PROVE x \in S
  <2>1. ASSUME NEW y \in Up(next, x) PROVE Pre(x, y)
    <3>1. CASE y = x
      <4>1. Joined(next, part, x) \in Seq(L)
        BY JoinedParts
      <4> QED BY <3>1, <4>1
    <3>2. CASE y # x
      <4>1. next[x] # NoNode /\ y \in Up(next, next[x]) /\ next[x] \in DOMAIN next
        BY <3>2, UpIn
      <4>2. Pre(next[x], y)
        BY <4>1, <1>1
      <4>3. y \in DOMAIN next
        BY UpIn
      <4>4. /\ Joined(next, part, x) = Joined(next, part, next[x]) \o part[x]
            /\ Joined(next, part, next[x]) \in Seq(L) /\ part[x] \in Seq(L)
            /\ Joined(next, part, y) \in Seq(L)
        BY <4>1, <4>3, JoinedParts
      <4> DEFINE a == Joined(next, part, next[x])
                 b == Joined(next, part, y)
      <4>5. /\ Len(a \o part[x]) = Len(a) + Len(part[x]) /\ Len(a) \in Nat /\ Len(b) \in Nat
            /\ Len(part[x]) \in Nat
            /\ \A i \in 1..Len(a) : (a \o part[x])[i] = a[i]
        <5> HIDE DEF a, b
        <5> QED BY <4>4
      <4> HIDE DEF a, b
      <4> QED BY <4>2, <4>4, <4>5 DEF a, b
    <3> QED BY <3>1, <3>2
  <2> QED BY <2>1
<1>2. DOMAIN next \subseteq S
  <2> HIDE DEF S
  <2> QED BY <1>1, WalkInduction
<1> QED BY <1>2

(* Two walks that agree on a set closed under next collect the same there.  *)
LEMMA JoinedSame ==
  ASSUME NEW next, Walk(next), NEW other, Walk(other), NEW part, NEW piece,
         NEW E \in SUBSET (DOMAIN next \cap DOMAIN other),
         \A m \in E : /\ next[m] = other[m] /\ part[m] = piece[m]
                       /\ (next[m] # NoNode => next[m] \in E)
  PROVE  \A n \in E : Joined(next, part, n) = Joined(other, piece, n)
<1> DEFINE S == {m \in DOMAIN next : m \in E => Joined(next, part, m) = Joined(other, piece, m)}
<1>0. \A m \in DOMAIN other :
        /\ other[m] = NoNode => Joined(other, piece, m) = <<>> \o piece[m]
        /\ other[m] # NoNode =>
             Joined(other, piece, m) = Joined(other, piece, other[m]) \o piece[m]
  BY JoinedEnds
<1>1. ASSUME NEW m \in DOMAIN next, next[m] # NoNode => next[m] \in S PROVE m \in S
  <2>1. SUFFICES ASSUME m \in E PROVE Joined(next, part, m) = Joined(other, piece, m)
    OBVIOUS
  <2>2. m \in DOMAIN other /\ next[m] = other[m] /\ part[m] = piece[m]
    BY <2>1
  <2>3. CASE next[m] = NoNode
    <3>1. Joined(next, part, m) = <<>> \o part[m]
      BY <2>3, JoinedEnds
    <3>2. Joined(other, piece, m) = <<>> \o piece[m]
      BY <2>2, <2>3, <1>0
    <3> QED BY <3>1, <3>2, <2>2
  <2>4. CASE next[m] # NoNode
    <3>1. Joined(next, part, m) = Joined(next, part, next[m]) \o part[m]
      BY <2>4, JoinedEnds
    <3>2. Joined(other, piece, m) = Joined(other, piece, next[m]) \o piece[m]
      BY <2>2, <2>4, <1>0
    <3>3. Joined(next, part, next[m]) = Joined(other, piece, next[m])
      BY <2>1, <2>4, <1>1
    <3> QED BY <3>1, <3>2, <3>3, <2>2
  <2> QED BY <2>3, <2>4
<1>2. DOMAIN next \subseteq S
  <2> HIDE DEF S
  <2> QED BY <1>1, WalkInduction
<1> QED BY <1>2

-----------------------------------------------------------------------------
(* The shape of a table: its nodes are records of the kind WithNode enters, *)
(* parents are there, a selection takes pages of an owner and an owner has  *)
(* some.                                                                     *)
Owns(t, n) == n \in DOMAIN t.nodes /\ ~t.nodes[n].sel

IsPage(p) == p \in [at : {p.at}, key : {p.key}] /\ p.at \in {"device", "host"} \X Nat

IsNode(r) ==
  /\ r \in [parent : Nat, sel : BOOLEAN, pages : {r.pages}, take : Nat,
            exact : Int, path : Int, idx : BOOLEAN]
  /\ r.pages \in Seq(ToSet(r.pages))
  /\ \A i \in DOMAIN r.pages : IsPage(r.pages[i])

IsTable(t) ==
  t \in [nodes : {t.nodes}, ws : {t.ws}, roots : {t.roots}, pins : {t.pins}, swaps : {t.swaps}]

Formed(t) ==
  /\ IsTable(t)
  /\ IsFiniteSet(DOMAIN t.nodes) /\ DOMAIN t.nodes \subseteq Nat \ {0}
  /\ t.nodes = [n \in DOMAIN t.nodes |-> t.nodes[n]]
  /\ \A n \in DOMAIN t.nodes : IsNode(t.nodes[n])

Linked(t) ==
  \A n \in DOMAIN t.nodes :
    /\ t.nodes[n].parent # NoNode => t.nodes[n].parent \in DOMAIN t.nodes
    /\ t.nodes[n].sel => /\ Owns(t, t.nodes[n].parent)
                         /\ t.nodes[n].take \in 1..Len(t.nodes[t.nodes[n].parent].pages)
                         /\ t.nodes[n].pages = <<>>
    /\ ~t.nodes[n].sel => t.nodes[n].pages # <<>>

Shape(t) == Formed(t) /\ Linked(t) /\ Walk(Parents(t))

(* The types of a node's fields.                                            *)
LEMMA NodeFields ==
  ASSUME NEW t, Shape(t), NEW n \in DOMAIN t.nodes
  PROVE  /\ n \in Nat /\ n # NoNode
         /\ t.nodes[n].parent \in Nat /\ t.nodes[n].sel \in BOOLEAN /\ t.nodes[n].take \in Nat
         /\ t.nodes[n].exact \in Int /\ t.nodes[n].path \in Int /\ t.nodes[n].idx \in BOOLEAN
         /\ t.nodes[n].pages \in Seq(ToSet(t.nodes[n].pages))
         /\ Len(t.nodes[n].pages) \in Nat
         /\ DOMAIN t.nodes[n].pages = 1..Len(t.nodes[n].pages)
         /\ \A i \in DOMAIN t.nodes[n].pages : IsPage(t.nodes[n].pages[i])
<1>1. IsNode(t.nodes[n]) /\ n \in Nat /\ n # NoNode
  BY DEF Shape, Formed, NoNode
<1> QED BY <1>1 DEF IsNode

(* A parent is a node; a selection takes a prefix of the pages of an owner. *)
LEMMA NodeLinks ==
  ASSUME NEW t, Shape(t), NEW n \in DOMAIN t.nodes
  PROVE  /\ t.nodes[n].parent # NoNode => t.nodes[n].parent \in DOMAIN t.nodes
         /\ t.nodes[n].sel => /\ t.nodes[n].parent \in DOMAIN t.nodes
                              /\ t.nodes[n].parent # NoNode
                              /\ ~t.nodes[t.nodes[n].parent].sel
                              /\ t.nodes[n].take \in 1..Len(t.nodes[t.nodes[n].parent].pages)
                              /\ t.nodes[n].pages = <<>>
         /\ ~t.nodes[n].sel => Len(t.nodes[n].pages) > 0
<1>1. ~t.nodes[n].sel => Len(t.nodes[n].pages) > 0
  <2>1. t.nodes[n].pages \in Seq(ToSet(t.nodes[n].pages))
    BY NodeFields
  <2> QED BY <2>1, EmptySeq DEF Shape, Linked
<1>2. t.nodes[n].sel => t.nodes[n].parent # NoNode
  BY DEF Shape, Linked, Owns, Formed, NoNode
<1> QED BY <1>1, <1>2 DEF Shape, Linked, Owns

(* The nodes a node's locations continue and lie in.                        *)
LEMMA PredecessorFacts ==
  ASSUME NEW t, Shape(t), NEW n \in DOMAIN t.nodes
  PROVE  /\ Predecessor(t, n) # NoNode => Predecessor(t, n) \in DOMAIN t.nodes
         /\ Source(t, n) \in DOMAIN t.nodes /\ ~t.nodes[Source(t, n)].sel
         /\ Predecessor(t, Source(t, n)) = Predecessor(t, n)
         /\ ContributionLen(t, n) \in 1..Len(t.nodes[Source(t, n)].pages)
         /\ ContributionLen(t, n) \in Nat
         /\ ~t.nodes[n].sel => Predecessor(t, n) = t.nodes[n].parent /\ Source(t, n) = n
                               /\ ContributionLen(t, n) = Len(t.nodes[n].pages)
<1> USE NodeLinks, NodeFields
<1>1. CASE t.nodes[n].sel
  <2> DEFINE p == t.nodes[n].parent
  <2>1. p \in DOMAIN t.nodes /\ ~t.nodes[p].sel /\ t.nodes[n].take \in 1..Len(t.nodes[p].pages)
    BY <1>1
  <2>2. t.nodes[p].parent # NoNode => t.nodes[p].parent \in DOMAIN t.nodes
    BY <2>1
  <2> QED BY <1>1, <2>1, <2>2 DEF Predecessor, Source, ContributionLen
<1>2. CASE ~t.nodes[n].sel
  BY <1>2 DEF Predecessor, Source, ContributionLen
<1> QED BY <1>1, <1>2

(* The predecessors of a well-shaped table end.                             *)
LEMMA PredecessorWalk ==
  ASSUME NEW t, Shape(t)
  PROVE  Walk(Predecessors(t)) /\ DOMAIN Predecessors(t) = DOMAIN t.nodes
<1>0. DOMAIN Predecessors(t) = DOMAIN t.nodes /\ DOMAIN Parents(t) = DOMAIN t.nodes
  BY DEF Predecessors, Parents
<1>1. PICK rank \in [DOMAIN t.nodes -> Nat] :
        Ranked(Parents(t), rank) /\ \E k \in Nat : \A m \in DOMAIN t.nodes : rank[m] < k
  BY <1>0 DEF Shape, Walk
<1>2. \A m \in DOMAIN t.nodes : t.nodes[m].parent # NoNode =>
        rank[t.nodes[m].parent] < rank[m]
  BY <1>1 DEF Ranked, Parents
<1>3. ASSUME NEW m \in DOMAIN t.nodes, Predecessor(t, m) # NoNode
      PROVE  Predecessor(t, m) \in DOMAIN t.nodes /\ rank[Predecessor(t, m)] < rank[m]
  <2>1. Predecessor(t, m) \in DOMAIN t.nodes
    BY <1>3, PredecessorFacts
  <2>2. CASE ~t.nodes[m].sel
    BY <2>1, <2>2, <1>2, <1>3 DEF Predecessor
  <2>3. CASE t.nodes[m].sel
    <3> DEFINE p == t.nodes[m].parent
    <3>1. p \in DOMAIN t.nodes /\ p # NoNode /\ Predecessor(t, m) = t.nodes[p].parent
      BY <2>3, NodeLinks DEF Predecessor
    <3>2. rank[p] < rank[m] /\ rank[t.nodes[p].parent] < rank[p]
      BY <3>1, <1>2, <1>3
    <3>3. rank[p] \in Nat /\ rank[m] \in Nat /\ rank[t.nodes[p].parent] \in Nat
      BY <3>1, <2>1, <1>1
    <3> QED BY <3>1, <3>2, <3>3, <2>1
  <2> QED BY <2>2, <2>3
<1>4. Ranked(Predecessors(t), rank)
  BY <1>3, <1>0 DEF Ranked, Predecessors
<1>5. NoNode \notin DOMAIN t.nodes
  BY DEF Shape, Formed, NoNode
<1> QED BY <1>4, <1>5, <1>1, <1>0 DEF Walk

(* The path of a node, by parent.                                           *)
LEMMA PathFacts ==
  ASSUME NEW t, Shape(t), NEW n \in DOMAIN t.nodes
  PROVE  /\ n \in PathNodes(t, n) /\ PathNodes(t, n) \subseteq DOMAIN t.nodes
         /\ t.nodes[n].parent = NoNode => PathNodes(t, n) = {n}
         /\ t.nodes[n].parent # NoNode =>
              /\ PathNodes(t, n) = {n} \cup PathNodes(t, t.nodes[n].parent)
              /\ t.nodes[n].parent \in PathNodes(t, n)
         /\ \A m \in PathNodes(t, n) :
              /\ PathNodes(t, m) \subseteq PathNodes(t, n)
              /\ n \in PathNodes(t, m) => m = n
<1> DEFINE next == Parents(t)
<1>1. Walk(next) /\ n \in DOMAIN next /\ next[n] = t.nodes[n].parent
      /\ DOMAIN next = DOMAIN t.nodes
  BY DEF Shape, Parents
<1>2. \A m : PathNodes(t, m) = Up(next, m)
  BY DEF PathNodes
<1> HIDE DEF next
<1>3. /\ n \in Up(next, n) /\ Up(next, n) \subseteq DOMAIN next
      /\ next[n] # NoNode => next[n] \in Up(next, n) /\ Up(next, n) = {n} \cup Up(next, next[n])
      /\ next[n] = NoNode => Up(next, n) = {n}
  BY <1>1, UpIn
<1>4. \A m \in Up(next, n) : Up(next, m) \subseteq Up(next, n) /\ (n \in Up(next, m) => m = n)
  BY <1>1, UpTrans, UpOrder
<1> QED BY <1>1, <1>2, <1>3, <1>4

(* The pages of a mapping, by predecessor.                                  *)
LEMMA PartsTyped ==
  ASSUME NEW t, Shape(t)
  PROVE  /\ DOMAIN Parts(t) = DOMAIN t.nodes
         /\ \A m \in DOMAIN t.nodes :
              /\ Parts(t)[m] = NodeLocations(t, m)
              /\ NodeLocations(t, m) \in Seq(Nat \X Nat)
              /\ Len(NodeLocations(t, m)) = ContributionLen(t, m)
              /\ \A i \in 1..ContributionLen(t, m) : NodeLocations(t, m)[i] = <<Source(t, m), i>>
<1>1. ASSUME NEW m \in DOMAIN t.nodes
      PROVE  /\ NodeLocations(t, m) \in Seq(Nat \X Nat)
             /\ Len(NodeLocations(t, m)) = ContributionLen(t, m)
             /\ \A i \in 1..ContributionLen(t, m) : NodeLocations(t, m)[i] = <<Source(t, m), i>>
  <2>1. ContributionLen(t, m) \in Nat /\ Source(t, m) \in DOMAIN t.nodes
    BY PredecessorFacts
  <2>2. Source(t, m) \in Nat
    BY <2>1, NodeFields
  <2> DEFINE k == ContributionLen(t, m)
             x == Source(t, m)
  <2> HIDE DEF k, x
  <2>3. [i \in 1..k |-> <<x, i>>] \in Seq(Nat \X Nat)
    <3>1. \A i \in 1..k : <<x, i>> \in Nat \X Nat
      BY <2>2 DEF x
    <3>2. k \in Nat
      BY <2>1 DEF k
    <3> QED BY <3>1, <3>2
  <2>4. Len([i \in 1..k |-> <<x, i>>]) = k
    BY <2>1 DEF k
  <2> QED BY <2>3, <2>4 DEF NodeLocations, k, x
<1> QED BY <1>1 DEF Parts

(* A path is its predecessor's path and the node's own contribution.        *)
LEMMA LocationFacts ==
  ASSUME NEW t, Shape(t)
  PROVE  /\ Locations(t, NoNode) = <<>>
         /\ \A n \in DOMAIN t.nodes \cup {NoNode} :
              /\ Locations(t, n) \in Seq(Nat \X Nat) /\ Len(Locations(t, n)) \in Nat
              /\ DOMAIN Locations(t, n) = 1..Len(Locations(t, n))
         /\ \A n \in DOMAIN t.nodes :
              /\ Locations(t, n) = Locations(t, Predecessor(t, n)) \o NodeLocations(t, n)
              /\ Len(Locations(t, n)) = Len(Locations(t, Predecessor(t, n))) + ContributionLen(t, n)
              /\ Before(t, n) = Len(Locations(t, Predecessor(t, n)))
              /\ Predecessor(t, n) \in DOMAIN t.nodes \cup {NoNode}
<1> DEFINE next == Predecessors(t)
           part == Parts(t)
           L == Nat \X Nat
<1>1. Walk(next) /\ DOMAIN next = DOMAIN t.nodes
  BY PredecessorWalk
<1>2. \A m \in DOMAIN t.nodes : next[m] = Predecessor(t, m)
  BY DEF Predecessors
<1>3. \A m \in DOMAIN t.nodes : /\ part[m] = NodeLocations(t, m) /\ part[m] \in Seq(L)
                                /\ Len(part[m]) = ContributionLen(t, m)
  BY PartsTyped
<1>4. \A m : m # NoNode => Locations(t, m) = Joined(next, part, m)
  BY DEF Locations
<1>5. Locations(t, NoNode) = <<>>
  BY DEF Locations
<1>6. NoNode \notin DOMAIN t.nodes
  BY DEF Shape, Formed, NoNode
<1> HIDE DEF next, part, L
<1>7. ASSUME NEW n \in DOMAIN t.nodes
      PROVE  /\ Locations(t, n) \in Seq(L)
             /\ Locations(t, Predecessor(t, n)) \in Seq(L)
             /\ Locations(t, n) = Locations(t, Predecessor(t, n)) \o NodeLocations(t, n)
             /\ Predecessor(t, n) \in DOMAIN t.nodes \cup {NoNode}
  <2>1. \A m \in DOMAIN next : part[m] \in Seq(L)
    BY <1>1, <1>3
  <2>2. n \in DOMAIN next /\ n # NoNode
    BY <1>1, <1>6
  <2>3. /\ Joined(next, part, n) \in Seq(L)
        /\ next[n] # NoNode =>
              /\ next[n] \in DOMAIN next
              /\ Joined(next, part, next[n]) \in Seq(L)
              /\ Joined(next, part, n) = Joined(next, part, next[n]) \o part[n]
        /\ next[n] = NoNode => Joined(next, part, n) = part[n]
    <3>1. next[n] = NoNode => Joined(next, part, n) = part[n]
      BY <1>1, <2>1, <2>2, JoinedParts
    <3>2. Joined(next, part, n) \in Seq(L)
      BY <1>1, <2>1, <2>2, JoinedParts
    <3>3. next[n] # NoNode => next[n] \in DOMAIN next
      BY <1>1, <2>1, <2>2, JoinedParts
    <3>4. next[n] # NoNode => Joined(next, part, next[n]) \in Seq(L)
      BY <3>3, <1>1, <2>1, <2>2, JoinedParts
    <3>5. next[n] # NoNode => Joined(next, part, n) = Joined(next, part, next[n]) \o part[n]
      BY <1>1, <2>1, <2>2, JoinedEnds
    <3> QED BY <3>1, <3>2, <3>3, <3>4, <3>5
  <2>4. CASE next[n] = NoNode
    <3>1. Locations(t, n) = part[n] /\ Locations(t, Predecessor(t, n)) = <<>>
      BY <2>3, <2>4, <2>2, <1>4, <1>5, <1>2
    <3>2. <<>> \o part[n] = part[n] /\ <<>> \in Seq(L)
      BY <1>3
    <3> QED BY <3>1, <3>2, <2>4, <1>2, <1>3, <2>2, <2>3, <1>4
  <2>5. CASE next[n] # NoNode
    <3>1. Locations(t, n) = Joined(next, part, n)
      BY <2>2, <1>4
    <3>2. Locations(t, next[n]) = Joined(next, part, next[n])
      BY <2>5, <1>4
    <3>3. next[n] = Predecessor(t, n) /\ part[n] = NodeLocations(t, n)
      BY <1>2, <1>3
    <3> QED BY <3>1, <3>2, <3>3, <2>3, <2>5, <1>1
  <2> QED BY <2>4, <2>5
<1>8. ASSUME NEW n \in DOMAIN t.nodes
      PROVE  /\ Len(Locations(t, n)) = Len(Locations(t, Predecessor(t, n))) + ContributionLen(t, n)
             /\ Before(t, n) = Len(Locations(t, Predecessor(t, n)))
  <2> DEFINE a == Locations(t, Predecessor(t, n))
             b == NodeLocations(t, n)
  <2>1. a \in Seq(L) /\ b \in Seq(L) /\ Locations(t, n) = a \o b /\ Len(b) = ContributionLen(t, n)
    BY <1>7, <1>3
  <2>2. Len(a \o b) = Len(a) + Len(b) /\ Len(a) \in Nat /\ Len(b) \in Nat
    <3> HIDE DEF a, b
    <3> QED BY <2>1, ConcatProperties, LenProperties
  <2> QED BY <2>1, <2>2 DEF Before
<1>9. \A n \in DOMAIN t.nodes \cup {NoNode} : Locations(t, n) \in Seq(L)
  <2>1. <<>> \in Seq(L)
    OBVIOUS
  <2> QED BY <1>7, <1>5, <2>1
<1>10. \A s \in Seq(L) : Len(s) \in Nat /\ DOMAIN s = 1..Len(s)
  BY SeqIndexed
<1> QED BY <1>5, <1>7, <1>8, <1>9, <1>10 DEF L

(* The segments of a mapping are on its path, with the nodes that have      *)
(* their pages.                                                             *)
LEMMA SegmentFacts ==
  ASSUME NEW t, Shape(t), NEW n \in DOMAIN t.nodes
  PROVE  /\ n \in Segments(t, n) /\ Segments(t, n) \subseteq PathNodes(t, n)
         /\ \A m \in Segments(t, n) : m \in DOMAIN t.nodes /\ Source(t, m) \in PathNodes(t, n)
         /\ ToSet(Locations(t, n)) = UNION {ToSet(NodeLocations(t, m)) : m \in Segments(t, n)}
<1> DEFINE next == Predecessors(t)
           part == Parts(t)
           L == Nat \X Nat
           S == {x \in DOMAIN t.nodes : Up(next, x) \subseteq PathNodes(t, x)}
<1>1. Walk(next) /\ DOMAIN next = DOMAIN t.nodes
  BY PredecessorWalk
<1>2. \A m \in DOMAIN t.nodes : next[m] = Predecessor(t, m)
  BY DEF Predecessors
<1>3. \A m \in DOMAIN t.nodes : part[m] = NodeLocations(t, m) /\ part[m] \in Seq(L)
  BY PartsTyped
<1> HIDE DEF next, part, L
<1>4. ASSUME NEW x \in DOMAIN t.nodes
      PROVE  /\ Source(t, x) \in PathNodes(t, x)
             /\ Predecessor(t, x) # NoNode => Predecessor(t, x) \in PathNodes(t, x)
  <2>1. CASE ~t.nodes[x].sel
    BY <2>1, PathFacts DEF Source, Predecessor
  <2>2. CASE t.nodes[x].sel
    <3> DEFINE p == t.nodes[x].parent
    <3>1. p \in DOMAIN t.nodes /\ p # NoNode
      BY <2>2, NodeLinks
    <3>2. p \in PathNodes(t, x) /\ PathNodes(t, p) \subseteq PathNodes(t, x)
      BY <3>1, PathFacts
    <3>3. t.nodes[p].parent # NoNode => t.nodes[p].parent \in PathNodes(t, p)
      BY <3>1, PathFacts
    <3> QED BY <2>2, <3>2, <3>3 DEF Source, Predecessor
  <2> QED BY <2>1, <2>2
<1>5. ASSUME NEW x \in DOMAIN next, next[x] # NoNode => next[x] \in S PROVE x \in S
  <2>1. CASE next[x] = NoNode
    BY <2>1, <1>1, UpIn, PathFacts
  <2>2. CASE next[x] # NoNode
    <3>1. Up(next, x) = {x} \cup Up(next, next[x])
      BY <2>2, <1>1, UpIn
    <3>2. next[x] \in PathNodes(t, x)
      BY <2>2, <1>1, <1>2, <1>4
    <3>3. PathNodes(t, next[x]) \subseteq PathNodes(t, x)
      BY <3>2, <1>1, PathFacts
    <3> QED BY <3>1, <3>2, <3>3, <2>2, <1>5, <1>1, PathFacts
  <2> QED BY <2>1, <2>2
<1>6. DOMAIN next \subseteq S
  <2> HIDE DEF S
  <2> QED BY <1>5, <1>1, WalkInduction
<1>7. Segments(t, n) = Up(next, n)
  BY DEF Segments, next
<1>8. n \in Segments(t, n) /\ Segments(t, n) \subseteq PathNodes(t, n)
  BY <1>6, <1>7, <1>1, UpIn
<1>9. \A m \in Segments(t, n) : m \in DOMAIN t.nodes /\ Source(t, m) \in PathNodes(t, n)
  BY <1>8, <1>4, PathFacts
<1>10. ToSet(Locations(t, n)) = UNION {ToSet(NodeLocations(t, m)) : m \in Segments(t, n)}
  <2>1. n # NoNode
    BY NodeFields
  <2>2. Locations(t, n) = Joined(next, part, n)
    BY <2>1 DEF Locations, next, part
  <2>3. \A m \in DOMAIN next : part[m] \in Seq(L)
    BY <1>1, <1>3
  <2>4. ToSet(Joined(next, part, n)) = UNION {ToSet(part[m]) : m \in Up(next, n)}
    BY <2>3, <1>1, JoinedHas
  <2>5. \A m \in Up(next, n) : part[m] = NodeLocations(t, m)
    BY <1>3, <1>7, <1>9
  <2> QED BY <2>2, <2>4, <2>5, <1>7
<1> QED BY <1>8, <1>9, <1>10

(* What a mapping names is there.                                           *)
LEMMA LocationsLive ==
  ASSUME NEW t, Shape(t), NEW n \in DOMAIN t.nodes \cup {NoNode}, NEW l \in ToSet(Locations(t, n))
  PROVE  /\ n \in DOMAIN t.nodes
         /\ l \in Nat \X Nat /\ Live(t, l) /\ l \in LiveLocations(t) /\ l[1] \in PathNodes(t, n)
         /\ \E m \in Segments(t, n) : l[1] = Source(t, m) /\ l[2] \in 1..ContributionLen(t, m)
<1>1. n \in DOMAIN t.nodes
  <2>1. Locations(t, NoNode) = <<>> /\ ToSet(<<>>) = {}
    BY LocationFacts DEF ToSet
  <2> QED BY <2>1
<1>2. PICK m \in Segments(t, n) : l \in ToSet(NodeLocations(t, m))
  BY <1>1, SegmentFacts
<1>3. m \in DOMAIN t.nodes /\ Source(t, m) \in PathNodes(t, n)
  BY <1>1, SegmentFacts
<1>4. PICK i \in 1..ContributionLen(t, m) : l = <<Source(t, m), i>>
  <2> DEFINE s == NodeLocations(t, m)
  <2>1. /\ s \in Seq(Nat \X Nat) /\ Len(s) = ContributionLen(t, m)
        /\ \A i \in 1..ContributionLen(t, m) : s[i] = <<Source(t, m), i>>
    BY <1>3, PartsTyped
  <2>2. DOMAIN s = 1..ContributionLen(t, m)
    <3> HIDE DEF s
    <3> QED BY <2>1
  <2> HIDE DEF s
  <2>3. l \in ToSet(s)
    BY <1>2 DEF s
  <2> QED BY <2>1, <2>2, <2>3 DEF ToSet
<1>5. /\ Source(t, m) \in DOMAIN t.nodes
      /\ ContributionLen(t, m) \in 1..Len(t.nodes[Source(t, m)].pages)
  BY <1>3, PredecessorFacts
<1>6. /\ DOMAIN t.nodes[Source(t, m)].pages = 1..Len(t.nodes[Source(t, m)].pages)
      /\ Source(t, m) \in Nat /\ Len(t.nodes[Source(t, m)].pages) \in Nat
  BY <1>5, NodeFields
<1>7. i \in DOMAIN t.nodes[Source(t, m)].pages /\ i \in Nat
  BY <1>4, <1>5, <1>6
<1>8. l[1] = Source(t, m) /\ l[2] = i
  BY <1>4
<1> QED BY <1>1, <1>3, <1>4, <1>5, <1>6, <1>7, <1>8 DEF Live, LiveLocations

(* The mapping that ends at n is that of its predecessor and its own pages.  *)
LEMMA LocationItems ==
  ASSUME NEW t, Shape(t), NEW n \in DOMAIN t.nodes
  PROVE  LET p == Predecessor(t, n)
             a == Len(Locations(t, p))
             c == ContributionLen(t, n)
         IN  /\ a \in Nat /\ c \in Nat /\ p \in DOMAIN t.nodes \cup {NoNode}
             /\ Before(t, n) = a /\ Len(Locations(t, n)) = a + c
             /\ \A j \in 1..a : Locations(t, n)[j] = Locations(t, p)[j]
             /\ \A j \in 1..c : Locations(t, n)[a + j] = <<Source(t, n), j>>
<1> DEFINE p == Predecessor(t, n)
           a == Locations(t, p)
           c == NodeLocations(t, n)
           s == Locations(t, n)
<1>1. p \in DOMAIN t.nodes \cup {NoNode}
  BY LocationFacts
<1>2. s = a \o c
  BY LocationFacts
<1>3. Len(s) = Len(a) + ContributionLen(t, n) /\ Before(t, n) = Len(a)
  BY LocationFacts
<1>4. a \in Seq(Nat \X Nat) /\ Len(a) \in Nat
  BY <1>1, LocationFacts
<1>5. c \in Seq(Nat \X Nat) /\ Len(c) = ContributionLen(t, n)
  BY PartsTyped
<1>6. \A i \in 1..ContributionLen(t, n) : c[i] = <<Source(t, n), i>>
  BY PartsTyped
<1>7. ContributionLen(t, n) \in Nat
  BY PredecessorFacts
<1>8. /\ \A j \in 1..Len(a) : s[j] = a[j]
      /\ \A j \in 1..Len(c) : s[Len(a) + j] = c[j]
  <2> HIDE DEF a, c, s
  <2>1. /\ Len(a) \in Nat /\ Len(c) \in Nat
        /\ \A j \in 1..(Len(a) + Len(c)) :
              s[j] = IF j <= Len(a) THEN a[j] ELSE c[j - Len(a)]
    BY <1>2, <1>4, <1>5, ConcatProperties
  <2>2. ASSUME NEW j \in 1..Len(a) PROVE s[j] = a[j]
    BY <2>1
  <2>3. ASSUME NEW j \in 1..Len(c) PROVE s[Len(a) + j] = c[j]
    <3>1. /\ Len(a) + j \in 1..(Len(a) + Len(c)) /\ ~(Len(a) + j <= Len(a))
          /\ (Len(a) + j) - Len(a) = j
      BY <2>1
    <3> QED BY <2>1, <3>1
  <2> QED BY <2>2, <2>3
<1> HIDE DEF a, c, s
<1>9. \A j \in 1..ContributionLen(t, n) : s[Len(a) + j] = <<Source(t, n), j>>
  BY <1>5, <1>6, <1>8
<1> QED BY <1>1, <1>3, <1>4, <1>7, <1>8, <1>9 DEF a, s

(* A page of a mapping is where its own node's mapping has it, and what     *)
(* comes before it is the same there.                                       *)
PlacedAt(t, n, i, l) ==
  /\ l[1] \in DOMAIN t.nodes /\ ~t.nodes[l[1]].sel
  /\ l[2] \in 1..ContributionLen(t, l[1])
  /\ i = Before(t, l[1]) + l[2] /\ i <= Len(Locations(t, l[1]))
  /\ \A j \in 1..i : Locations(t, l[1])[j] = Locations(t, n)[j]

(* The location at a position of a path is its owner's, at that position.   *)
LEMMA LocationPosition ==
  ASSUME NEW t, Shape(t), NEW n \in DOMAIN t.nodes, NEW i \in 1..Len(Locations(t, n))
  PROVE  PlacedAt(t, n, i, Locations(t, n)[i])
<1> DEFINE S == {x \in DOMAIN t.nodes :
                   \A k \in 1..Len(Locations(t, x)) : PlacedAt(t, x, k, Locations(t, x)[k])}
           next == Predecessors(t)
<1>1. Walk(next) /\ DOMAIN next = DOMAIN t.nodes
  BY PredecessorWalk
<1>2. \A m \in DOMAIN t.nodes : next[m] = Predecessor(t, m)
  BY DEF Predecessors
<1> HIDE DEF next
<1>3. Locations(t, NoNode) = <<>>
  BY LocationFacts
<1>4. ASSUME NEW x \in DOMAIN next, next[x] # NoNode => next[x] \in S PROVE x \in S
  <2> DEFINE p == Predecessor(t, x)
             a == Len(Locations(t, p))
             c == ContributionLen(t, x)
             o == Source(t, x)
             d == ContributionLen(t, o)
  <2>1. x \in DOMAIN t.nodes /\ next[x] = p
    BY <1>1, <1>2
  <2>2. /\ a \in Nat /\ c \in Nat /\ p \in DOMAIN t.nodes \cup {NoNode}
        /\ Len(Locations(t, x)) = a + c
        /\ \A j \in 1..a : Locations(t, x)[j] = Locations(t, p)[j]
        /\ \A j \in 1..c : Locations(t, x)[a + j] = <<o, j>>
    BY <2>1, LocationItems
  <2>3. /\ o \in DOMAIN t.nodes /\ ~t.nodes[o].sel /\ Predecessor(t, o) = p /\ c \in 1..Len(t.nodes[o].pages)
    BY <2>1, PredecessorFacts
  <2>4. d = Len(t.nodes[o].pages) /\ Source(t, o) = o
    BY <2>3, PredecessorFacts
  <2>5. /\ d \in Nat /\ Len(Locations(t, o)) = a + d /\ Before(t, o) = a
        /\ \A j \in 1..a : Locations(t, o)[j] = Locations(t, p)[j]
        /\ \A j \in 1..d : Locations(t, o)[a + j] = <<o, j>>
    <3>1. LET q == Predecessor(t, o)
              b == Len(Locations(t, q))
              e == ContributionLen(t, o)
          IN  /\ e \in Nat /\ Len(Locations(t, o)) = b + e /\ Before(t, o) = b
              /\ \A j \in 1..b : Locations(t, o)[j] = Locations(t, q)[j]
              /\ \A j \in 1..e : Locations(t, o)[b + j] = <<Source(t, o), j>>
      BY <2>3, LocationItems
    <3> QED BY <3>1, <2>3, <2>4
  <2> HIDE DEF a, c, o, d, p
  <2>6. ASSUME NEW k \in 1..Len(Locations(t, x)) PROVE PlacedAt(t, x, k, Locations(t, x)[k])
    <3>1. CASE k <= a
      <4>1. k \in 1..a /\ k \in Nat
        BY <3>1, <2>2
      <4>2. p # NoNode
        <5>1. Len(<<>>) = 0
          OBVIOUS
        <5> QED BY <4>1, <5>1, <1>3 DEF a
      <4>3. p \in S
        BY <4>2, <2>1, <1>4
      <4>4. PlacedAt(t, p, k, Locations(t, p)[k])
        BY <4>3, <4>1 DEF a
      <4>5. \A j \in 1..k : Locations(t, x)[j] = Locations(t, p)[j]
        BY <4>1, <2>2
      <4>6. Locations(t, x)[k] = Locations(t, p)[k]
        BY <4>1, <2>2
      <4> QED BY <4>4, <4>5, <4>6 DEF PlacedAt
    <3>2. CASE ~(k <= a)
      <4> DEFINE h == k - a
      <4>1. h \in 1..c /\ a + h = k /\ k \in Nat
        BY <3>2, <2>2
      <4>2. Locations(t, x)[k] = <<o, h>>
        BY <4>1, <2>2
      <4>3. h \in 1..d /\ c <= d
        BY <4>1, <2>2, <2>3, <2>4, <2>5
      <4>4. ASSUME NEW j \in 1..k PROVE Locations(t, o)[j] = Locations(t, x)[j]
        <5>1. CASE j <= a
          <6>1. j \in 1..a
            BY <5>1, <2>2
          <6> QED BY <6>1, <2>2, <2>5
        <5>2. CASE ~(j <= a)
          <6>1. j - a \in 1..c /\ a + (j - a) = j /\ j - a \in 1..d
            BY <5>2, <4>1, <4>3, <2>2, <2>5
          <6> QED BY <6>1, <2>2, <2>5
        <5> QED BY <5>1, <5>2
      <4>5. /\ k <= Len(Locations(t, o)) /\ k = Before(t, o) + h
        BY <4>1, <4>3, <2>2, <2>5
      <4>6. <<o, h>>[1] = o /\ <<o, h>>[2] = h
        OBVIOUS
      <4> HIDE DEF h
      <4> QED BY <4>2, <4>3, <4>4, <4>5, <4>6, <2>3 DEF PlacedAt, d
    <3> QED BY <3>1, <3>2
  <2> QED BY <2>1, <2>6
<1>5. DOMAIN next \subseteq S
  <2> HIDE DEF S
  <2> QED BY <1>4, <1>1, WalkInduction
<1> QED BY <1>5, <1>1

(* The pages of a segment come first in the mapping, and every length of a  *)
(* mapping ends in one of its segments.                                     *)
LEMMA SegmentPrefix ==
  ASSUME NEW t, Shape(t), NEW n \in DOMAIN t.nodes, NEW m \in Segments(t, n)
  PROVE  /\ m \in DOMAIN t.nodes /\ Len(Locations(t, m)) <= Len(Locations(t, n))
         /\ \A i \in 1..Len(Locations(t, m)) : Locations(t, n)[i] = Locations(t, m)[i]
<1> DEFINE next == Predecessors(t)
           part == Parts(t)
           L == Nat \X Nat
<1>1. Walk(next) /\ DOMAIN next = DOMAIN t.nodes
  BY PredecessorWalk
<1>2. \A x \in DOMAIN next : part[x] \in Seq(L)
  BY <1>1, PartsTyped
<1>3. m \in Up(next, n) /\ m \in DOMAIN t.nodes
  BY SegmentFacts DEF Segments
<1>0. \A x \in DOMAIN t.nodes : x # NoNode
  BY NodeFields
<1>4. Locations(t, n) = Joined(next, part, n) /\ Locations(t, m) = Joined(next, part, m)
  BY <1>0, <1>3 DEF Locations
<1> HIDE DEF next, part, L
<1>5. Len(Joined(next, part, m)) <= Len(Joined(next, part, n))
  BY <1>1, <1>2, <1>3, JoinedPrefix
<1>6. ASSUME NEW i \in 1..Len(Joined(next, part, m))
      PROVE  Joined(next, part, n)[i] = Joined(next, part, m)[i]
  <2>1. n \in DOMAIN next /\ m \in Up(next, n) /\ Walk(next)
    BY <1>1, <1>3
  <2> QED BY <2>1, <1>2, JoinedPrefix
<1> QED BY <1>3, <1>4, <1>5, <1>6

(* Every position of a path lies in the contribution of one segment.        *)
LEMMA BoundaryFound ==
  ASSUME NEW t, Shape(t), NEW n \in DOMAIN t.nodes, NEW b \in 1..Len(Locations(t, n))
  PROVE  \E m \in Segments(t, n) : Before(t, m) < b /\ b <= Before(t, m) + ContributionLen(t, m)
<1> DEFINE next == Predecessors(t)
           Good(x, k) == \E m \in Segments(t, x) :
                           Before(t, m) < k /\ k <= Before(t, m) + ContributionLen(t, m)
           S == {x \in DOMAIN t.nodes : \A k \in 1..Len(Locations(t, x)) : Good(x, k)}
<1>1. Walk(next) /\ DOMAIN next = DOMAIN t.nodes
  BY PredecessorWalk
<1>2. \A m \in DOMAIN t.nodes : next[m] = Predecessor(t, m)
  BY DEF Predecessors
<1>3. \A x : Segments(t, x) = Up(next, x)
  BY DEF Segments
<1> HIDE DEF next
<1>4. ASSUME NEW x \in DOMAIN next, next[x] # NoNode => next[x] \in S PROVE x \in S
  <2> DEFINE p == Predecessor(t, x)
  <2>1. /\ Len(Locations(t, x)) = Len(Locations(t, p)) + ContributionLen(t, x)
        /\ Before(t, x) = Len(Locations(t, p)) /\ Len(Locations(t, p)) \in Nat
        /\ p \in DOMAIN t.nodes \cup {NoNode} /\ ContributionLen(t, x) \in Nat
    BY <1>1, LocationFacts, PredecessorFacts
  <2>2. ASSUME NEW k \in 1..Len(Locations(t, x)) PROVE Good(x, k)
    <3>1. CASE k <= Len(Locations(t, p))
      <4>1. k \in 1..Len(Locations(t, p))
        BY <3>1, <2>1
      <4>2. p # NoNode
        <5>1. p = NoNode => Locations(t, p) = <<>>
          BY LocationFacts
        <5> QED BY <4>1, <5>1
      <4>3. p \in S
        BY <4>2, <1>2, <1>4, <1>1
      <4>4. Good(p, k)
        BY <4>3, <4>1
      <4>5. Segments(t, p) \subseteq Segments(t, x)
        BY <4>2, <1>1, <1>2, <1>3, UpIn
      <4> QED BY <4>4, <4>5
    <3>2. CASE ~(k <= Len(Locations(t, p)))
      <4>1. Before(t, x) < k /\ k <= Before(t, x) + ContributionLen(t, x)
        BY <3>2, <2>1
      <4>2. x \in Segments(t, x)
        BY <1>1, <1>3, UpIn
      <4> QED BY <4>1, <4>2
    <3> QED BY <3>1, <3>2
  <2> QED BY <2>2, <1>1
<1>5. DOMAIN next \subseteq S
  <2> HIDE DEF S
  <2> QED BY <1>4, <1>1, WalkInduction
<1> QED BY <1>5, <1>1
-----------------------------------------------------------------------------
(* Tables that agree on the links of some nodes, closed under parent, have  *)
(* the same paths there; where the lengths agree too, the same mappings.     *)
SameLinks(t, u, E) ==
  /\ E \subseteq DOMAIN t.nodes \cap DOMAIN u.nodes
  /\ \A m \in E : /\ t.nodes[m].parent = u.nodes[m].parent
                  /\ t.nodes[m].sel = u.nodes[m].sel
                  /\ t.nodes[m].take = u.nodes[m].take
                  /\ t.nodes[m].parent # NoNode => t.nodes[m].parent \in E

(* Tables with the same links over a closed set have the same paths there.  *)
LEMMA PathsSame ==
  ASSUME NEW t, Shape(t), NEW u, Shape(u), NEW E, SameLinks(t, u, E)
  PROVE  \A m \in E : /\ PathNodes(t, m) = PathNodes(u, m) /\ PathNodes(t, m) \subseteq E
                      /\ Predecessor(t, m) = Predecessor(u, m)
                      /\ Predecessor(t, m) # NoNode => Predecessor(t, m) \in E
                      /\ Source(t, m) = Source(u, m) /\ Source(t, m) \in E
<1>1. /\ Walk(Parents(t)) /\ Walk(Parents(u))
      /\ DOMAIN Parents(t) = DOMAIN t.nodes /\ DOMAIN Parents(u) = DOMAIN u.nodes
      /\ \A m \in DOMAIN t.nodes : Parents(t)[m] = t.nodes[m].parent
      /\ \A m \in DOMAIN u.nodes : Parents(u)[m] = u.nodes[m].parent
  BY DEF Shape, Parents
<1>2. /\ E \in SUBSET (DOMAIN Parents(t) \cap DOMAIN Parents(u))
      /\ \A m \in E : /\ Parents(t)[m] = Parents(u)[m]
                      /\ Parents(t)[m] # NoNode => Parents(t)[m] \in E
  BY <1>1 DEF SameLinks
<1>3. \A m \in E : PathNodes(t, m) = PathNodes(u, m) /\ PathNodes(t, m) \subseteq E
  <2>1. \A m \in E : Up(Parents(t), m) = Up(Parents(u), m) /\ Up(Parents(t), m) \subseteq E
    BY <1>1, <1>2, UpSame
  <2> QED BY <2>1 DEF PathNodes
<1>4. ASSUME NEW m \in E
      PROVE  /\ Predecessor(t, m) = Predecessor(u, m)
             /\ Predecessor(t, m) # NoNode => Predecessor(t, m) \in E
             /\ Source(t, m) = Source(u, m) /\ Source(t, m) \in E
  <2>1. m \in DOMAIN t.nodes /\ m \in DOMAIN u.nodes
    BY DEF SameLinks
  <2>2. CASE t.nodes[m].sel
    <3> DEFINE p == t.nodes[m].parent
    <3>1. p # NoNode /\ p \in E /\ u.nodes[m].parent = p /\ u.nodes[m].sel
      BY <2>1, <2>2, NodeLinks DEF SameLinks
    <3>2. t.nodes[p].parent = u.nodes[p].parent /\ (t.nodes[p].parent # NoNode => t.nodes[p].parent \in E)
      BY <3>1 DEF SameLinks
    <3> QED BY <2>2, <3>1, <3>2 DEF Predecessor, Source
  <2>3. CASE ~t.nodes[m].sel
    BY <2>3 DEF Predecessor, Source, SameLinks
  <2> QED BY <2>2, <2>3
<1> QED BY <1>3, <1>4

(* And the same locations where the contributions are as long.              *)
LEMMA LocationsSame ==
  ASSUME NEW t, Shape(t), NEW u, Shape(u), NEW E, SameLinks(t, u, E), NEW F \in SUBSET E,
         \A m \in F : /\ ContributionLen(t, m) = ContributionLen(u, m)
                      /\ Predecessor(t, m) # NoNode => Predecessor(t, m) \in F
  PROVE  \A m \in F : Locations(t, m) = Locations(u, m)
<1> DEFINE next == Predecessors(t)
           other == Predecessors(u)
           part == Parts(t)
           piece == Parts(u)
<1>1. /\ Walk(next) /\ DOMAIN next = DOMAIN t.nodes
      /\ Walk(other) /\ DOMAIN other = DOMAIN u.nodes
  BY PredecessorWalk
<1>2. /\ \A m \in DOMAIN t.nodes : next[m] = Predecessor(t, m) /\ part[m] = NodeLocations(t, m)
      /\ \A m \in DOMAIN u.nodes : other[m] = Predecessor(u, m) /\ piece[m] = NodeLocations(u, m)
  BY DEF Predecessors, Parts
<1>3. F \in SUBSET (DOMAIN next \cap DOMAIN other)
  BY <1>1 DEF SameLinks
<1>4. \A m \in F : Predecessor(t, m) = Predecessor(u, m) /\ NodeLocations(t, m) = NodeLocations(u, m)
  <2>1. \A m \in F : Predecessor(t, m) = Predecessor(u, m) /\ Source(t, m) = Source(u, m)
    BY PathsSame
  <2> QED BY <2>1 DEF NodeLocations
<1>5. \A m \in F : m # NoNode
  BY <1>3, <1>1 DEF Walk
<1>6. \A m \in F : Locations(t, m) = Joined(next, part, m) /\ Locations(u, m) = Joined(other, piece, m)
  BY <1>5 DEF Locations
<1> HIDE DEF next, other, part, piece
<1>7. \A m \in F : /\ next[m] = other[m] /\ part[m] = piece[m]
                   /\ (next[m] # NoNode => next[m] \in F)
  BY <1>1, <1>2, <1>3, <1>4
<1>8. \A m \in F : Joined(next, part, m) = Joined(other, piece, m)
  BY <1>1, <1>3, <1>7, JoinedSame
<1> QED BY <1>6, <1>8

(* Tables with the same tree: whatever else differs, paths and mappings do  *)
(* not.                                                                     *)
SameTree(t, u) ==
  /\ DOMAIN u.nodes = DOMAIN t.nodes
  /\ \A n \in DOMAIN t.nodes : /\ u.nodes[n].parent = t.nodes[n].parent
                               /\ u.nodes[n].sel = t.nodes[n].sel
                               /\ u.nodes[n].take = t.nodes[n].take
                               /\ Len(u.nodes[n].pages) = Len(t.nodes[n].pages)

(* Tables of one tree differ in no path, segment or location.               *)
LEMMA TreeSame ==
  ASSUME NEW t, Shape(t), NEW u, SameTree(t, u)
  PROVE  /\ Parents(u) = Parents(t)
         /\ \A n : PathNodes(u, n) = PathNodes(t, n)
         /\ \A n : Children(u, n) = Children(t, n)
         /\ \A n : Segments(u, n) = Segments(t, n)
         /\ \A n : Locations(u, n) = Locations(t, n)
         /\ \A n \in DOMAIN t.nodes : /\ Predecessor(u, n) = Predecessor(t, n)
                                      /\ ContributionLen(u, n) = ContributionLen(t, n)
                                      /\ Source(u, n) = Source(t, n)
                                      /\ Before(u, n) = Before(t, n)
<1>1. DOMAIN u.nodes = DOMAIN t.nodes
  BY DEF SameTree
<1>2. Parents(u) = Parents(t)
  BY DEF SameTree, Parents
<1>3. ASSUME NEW n \in DOMAIN t.nodes
      PROVE  /\ Predecessor(u, n) = Predecessor(t, n)
             /\ ContributionLen(u, n) = ContributionLen(t, n)
             /\ Source(u, n) = Source(t, n)
  <2>1. t.nodes[n].sel => t.nodes[n].parent \in DOMAIN t.nodes
    BY NodeLinks
  <2> QED BY <2>1 DEF SameTree, Predecessor, ContributionLen, Source
<1>4. Predecessors(u) = Predecessors(t)
  BY <1>1, <1>3 DEF Predecessors
<1>5. Parts(u) = Parts(t)
  <2>1. \A n \in DOMAIN t.nodes : NodeLocations(u, n) = NodeLocations(t, n)
    BY <1>3 DEF NodeLocations
  <2> QED BY <2>1, <1>1 DEF Parts
<1>6. \A n : Locations(u, n) = Locations(t, n)
  BY <1>4, <1>5 DEF Locations
<1>7. \A n : PathNodes(u, n) = PathNodes(t, n) /\ Segments(u, n) = Segments(t, n)
  BY <1>2, <1>4 DEF PathNodes, Segments
<1>8. \A n : Children(u, n) = Children(t, n)
  BY <1>1 DEF SameTree, Children
<1>9. \A n \in DOMAIN t.nodes : Before(u, n) = Before(t, n)
  BY <1>3, <1>6 DEF Before
<1> QED BY <1>2, <1>3, <1>6, <1>7, <1>8, <1>9

(* A table of the same tree as a well-shaped one is well shaped.            *)
LEMMA ShapeSame ==
  ASSUME NEW t, Shape(t), NEW u, SameTree(t, u), Formed(u)
  PROVE  Shape(u)
<1>1. Walk(Parents(u))
  BY TreeSame DEF Shape
<1>2. ASSUME NEW n \in DOMAIN u.nodes
      PROVE  /\ u.nodes[n].parent # NoNode => u.nodes[n].parent \in DOMAIN u.nodes
             /\ u.nodes[n].sel => /\ Owns(u, u.nodes[n].parent)
                                  /\ u.nodes[n].take \in 1..Len(u.nodes[u.nodes[n].parent].pages)
                                  /\ u.nodes[n].pages = <<>>
             /\ ~u.nodes[n].sel => u.nodes[n].pages # <<>>
  <2>1. n \in DOMAIN t.nodes /\ DOMAIN u.nodes = DOMAIN t.nodes
    BY DEF SameTree
  <2>2. /\ t.nodes[n].parent # NoNode => t.nodes[n].parent \in DOMAIN t.nodes
        /\ t.nodes[n].sel => /\ Owns(t, t.nodes[n].parent)
                             /\ t.nodes[n].take \in 1..Len(t.nodes[t.nodes[n].parent].pages)
                             /\ t.nodes[n].pages = <<>>
        /\ ~t.nodes[n].sel => t.nodes[n].pages # <<>>
    BY <2>1 DEF Shape, Linked
  <2>3. /\ u.nodes[n].parent = t.nodes[n].parent /\ u.nodes[n].sel = t.nodes[n].sel
        /\ u.nodes[n].take = t.nodes[n].take /\ Len(u.nodes[n].pages) = Len(t.nodes[n].pages)
    BY <2>1 DEF SameTree
  <2>4. u.nodes[n].pages \in Seq(ToSet(u.nodes[n].pages)) /\ t.nodes[n].pages \in Seq(ToSet(t.nodes[n].pages))
    BY <2>1, NodeFields DEF Formed, IsNode
  <2>5. u.nodes[n].pages = <<>> <=> t.nodes[n].pages = <<>>
    BY <2>3, <2>4, EmptySeq
  <2>6. t.nodes[n].sel => Owns(u, t.nodes[n].parent) /\ t.nodes[n].parent \in DOMAIN t.nodes
    BY <2>1, <2>2 DEF Owns, SameTree
  <2>7. t.nodes[n].sel => Len(u.nodes[t.nodes[n].parent].pages) = Len(t.nodes[t.nodes[n].parent].pages)
    BY <2>6 DEF SameTree
  <2> QED BY <2>1, <2>2, <2>3, <2>5, <2>6, <2>7
<1>3. Linked(u)
  BY <1>2 DEF Linked
<1> QED BY <1>1, <1>3 DEF Shape
-----------------------------------------------------------------------------
(* Counting anchors: f has the node of each.                                *)
AnchorsIn(f, X) == {a \in DOMAIN f : f[a] \in X}
Over(t, n) == {m \in DOMAIN t.nodes : n \in PathNodes(t, m)}

Counts(t, f) ==
  /\ IsFiniteSet(DOMAIN f)
  /\ \A a \in DOMAIN f : f[a] \in DOMAIN t.nodes
  /\ \A n \in DOMAIN t.nodes :
       /\ t.nodes[n].exact = Cardinality(AnchorsIn(f, {n}))
       /\ t.nodes[n].path = Cardinality(AnchorsIn(f, Over(t, n)))

AllAnchored(t) == \A n \in DOMAIN t.nodes : t.nodes[n].path > 0

(* g is f and one more anchor at each of A. *)
Extends(f, g, A) ==
  /\ DOMAIN f \subseteq DOMAIN g
  /\ \A a \in DOMAIN f : g[a] = f[a]
  /\ \A a \in DOMAIN g \ DOMAIN f : g[a] \in A
  /\ \A a, b \in DOMAIN g \ DOMAIN f : g[a] = g[b] => a = b
  /\ \A n \in A : \E a \in DOMAIN g \ DOMAIN f : g[a] = n

(* Anchors added at A, one each, raise the count over X by the size of A    *)
(* \cap X.                                                                  *)
LEMMA ExtendsCounts ==
  ASSUME NEW f, NEW g, NEW A, Extends(f, g, A), IsFiniteSet(DOMAIN g), NEW X
  PROVE  /\ IsFiniteSet(A) /\ IsFiniteSet(DOMAIN f)
         /\ Cardinality(A \cap X) \in Nat
         /\ Cardinality(AnchorsIn(f, X)) \in Nat
         /\ Cardinality(AnchorsIn(g, X)) = Cardinality(AnchorsIn(f, X)) + Cardinality(A \cap X)
<1> DEFINE K == DOMAIN g \ DOMAIN f
           F == {a \in DOMAIN f : f[a] \in X}
           M == {a \in K : g[a] \in X}
           G == {a \in DOMAIN g : g[a] \in X}
<1>1. IsFiniteSet(K) /\ IsFiniteSet(F) /\ IsFiniteSet(M) /\ IsFiniteSet(G) /\ IsFiniteSet(DOMAIN f)
  <2>1. \A S : S \subseteq DOMAIN g => IsFiniteSet(S)
    BY FS_Subset
  <2>2. K \subseteq DOMAIN g /\ F \subseteq DOMAIN g /\ M \subseteq DOMAIN g /\ G \subseteq DOMAIN g /\ DOMAIN f \subseteq DOMAIN g
    BY DEF Extends
  <2> HIDE DEF K, F, M, G
  <2> QED BY <2>1, <2>2
<1>2. G = F \cup M /\ F \cap M = {}
  BY DEF Extends
<1>3. Cardinality(G) = Cardinality(F) + Cardinality(M)
  <2> HIDE DEF K, F, M, G
  <2>1. Cardinality(F \cup M) = Cardinality(F) + Cardinality(M) - Cardinality(F \cap M)
    BY <1>1, FS_Union
  <2>2. Cardinality({}) = 0 /\ Cardinality(F) \in Nat /\ Cardinality(M) \in Nat
    BY <1>1, FS_EmptySet, FS_CardinalityType
  <2>3. Cardinality(F \cap M) = 0
    BY <2>2, <1>2
  <2>4. Cardinality(G) = Cardinality(F \cup M)
    BY <1>2
  <2> QED BY <2>1, <2>2, <2>3, <2>4
<1>4. IsFiniteSet(A \cap X) /\ Cardinality(A \cap X) = Cardinality(M)
  <2> DEFINE b == [a \in M |-> g[a]]
  <2>1. b \in Bijection(M, A \cap X)
    <3>1. b \in [M -> A \cap X]
      BY DEF Extends
    <3>2. \A x, y \in M : b[x] = b[y] => x = y
      BY DEF Extends
    <3>3. \A n \in A \cap X : \E a \in M : b[a] = n
      BY DEF Extends
    <3> HIDE DEF b, M
    <3>4. b \in Injection(M, A \cap X)
      BY <3>1, <3>2, Fun_IsInj
    <3>5. b \in Surjection(M, A \cap X)
      BY <3>1, <3>3, Fun_IsSurj
    <3> QED BY <3>4, <3>5 DEF Bijection
  <2> HIDE DEF M, b
  <2>2. ExistsBijection(M, A \cap X)
    BY <2>1 DEF ExistsBijection
  <2>3. Cardinality(M) = Cardinality(A \cap X) /\ IsFiniteSet(A \cap X)
    BY <2>2, <1>1, FS_Bijection
  <2> QED BY <2>3
<1>5. IsFiniteSet(A)
  <2> DEFINE b == [a \in K |-> g[a]]
  <2>1. b \in [K -> A] /\ \A n \in A : \E a \in K : b[a] = n
    BY DEF Extends
  <2> HIDE DEF b, K
  <2>2. b \in Surjection(K, A)
    BY <2>1, Fun_IsSurj
  <2> QED BY <2>2, <1>1, FS_Surjection
<1> HIDE DEF K, F, M, G
<1>6. Cardinality(F) \in Nat /\ Cardinality(A \cap X) \in Nat
  BY <1>1, <1>4, FS_CardinalityType
<1> QED BY <1>1, <1>3, <1>4, <1>5, <1>6 DEF F, G, AnchorsIn

(* A table with other counts at its nodes.                                  *)
Recounted(t, u) ==
  /\ Formed(u) /\ SameTree(t, u)
  /\ \A n \in DOMAIN t.nodes : u.nodes[n].pages = t.nodes[n].pages /\ u.nodes[n].idx = t.nodes[n].idx
  /\ u.ws = t.ws /\ u.roots = t.roots /\ u.pins = t.pins /\ u.swaps = t.swaps

(* Naturals are integers.                                                   *)
LEMMA NatInt == \A x \in Nat : x \in Int
OBVIOUS

(* A node counted again keeps all but its counts.                           *)
LEMMA CountingNode ==
  ASSUME NEW r, IsNode(r), NEW e \in Int, NEW p \in Int
  PROVE  LET q == Counting(r, e, p)
         IN  /\ IsNode(q) /\ q.parent = r.parent /\ q.sel = r.sel /\ q.take = r.take
             /\ q.pages = r.pages /\ q.idx = r.idx
             /\ q.exact = r.exact + e /\ q.path = r.path + p
<1> DEFINE q == Counting(r, e, p)
<1>1. /\ r \in [parent : Nat, sel : BOOLEAN, pages : {r.pages}, take : Nat,
               exact : Int, path : Int, idx : BOOLEAN]
      /\ r.pages \in Seq(ToSet(r.pages)) /\ \A i \in DOMAIN r.pages : IsPage(r.pages[i])
  BY DEF IsNode
<1>2. /\ q.parent = r.parent /\ q.sel = r.sel /\ q.take = r.take
      /\ q.pages = r.pages /\ q.idx = r.idx
      /\ q.exact = r.exact + e /\ q.path = r.path + p
  BY <1>1 DEF Counting
<1>3. q \in [parent : Nat, sel : BOOLEAN, pages : {r.pages}, take : Nat,
               exact : Int, path : Int, idx : BOOLEAN]
  <2>1. \A x, y \in Int : [r EXCEPT !.exact = x, !.path = y] \in
          [parent : Nat, sel : BOOLEAN, pages : {r.pages}, take : Nat,
           exact : Int, path : Int, idx : BOOLEAN]
    BY <1>1
  <2>2. r.exact + e \in Int /\ r.path + p \in Int
    BY <1>1
  <2>3. q = [r EXCEPT !.exact = r.exact + e, !.path = r.path + p]
    BY DEF Counting
  <2> QED BY <2>1, <2>2, <2>3
<1>4. IsNode(q)
  <2> HIDE DEF q
  <2> QED BY <1>1, <1>2, <1>3 DEF IsNode
<1> QED BY <1>2, <1>4

(* A table whose counts are moved by these amounts.                         *)
CountedBy(t, e, p) == [t EXCEPT !.nodes = [m \in DOMAIN @ |-> Counting(@[m], e[m], p[m])]]

(* A table counted again is the same table but for the counts.              *)
LEMMA CountedAgain ==
  ASSUME NEW t, Shape(t), NEW e, NEW p, \A n \in DOMAIN t.nodes : e[n] \in Int /\ p[n] \in Int,
         NEW u, u = CountedBy(t, e, p)
  PROVE  /\ Recounted(t, u) /\ Shape(u)
         /\ \A n \in DOMAIN t.nodes : /\ u.nodes[n].exact = t.nodes[n].exact + e[n]
                                      /\ u.nodes[n].path = t.nodes[n].path + p[n]
<1>1. IsTable(t) /\ IsFiniteSet(DOMAIN t.nodes) /\ DOMAIN t.nodes \subseteq Nat \ {0}
  BY DEF Shape, Formed
<1>2. /\ u.nodes = [m \in DOMAIN t.nodes |-> Counting(t.nodes[m], e[m], p[m])]
      /\ IsTable(u) /\ u.ws = t.ws /\ u.roots = t.roots /\ u.pins = t.pins /\ u.swaps = t.swaps
  BY <1>1 DEF IsTable, CountedBy
<1>3. DOMAIN u.nodes = DOMAIN t.nodes /\ \A n \in DOMAIN t.nodes : u.nodes[n] = Counting(t.nodes[n], e[n], p[n])
  BY <1>2
<1>4. \A n \in DOMAIN t.nodes :
        /\ IsNode(u.nodes[n]) /\ u.nodes[n].parent = t.nodes[n].parent /\ u.nodes[n].sel = t.nodes[n].sel
        /\ u.nodes[n].take = t.nodes[n].take /\ u.nodes[n].pages = t.nodes[n].pages
        /\ u.nodes[n].idx = t.nodes[n].idx
        /\ u.nodes[n].exact = t.nodes[n].exact + e[n] /\ u.nodes[n].path = t.nodes[n].path + p[n]
  <2>1. \A n \in DOMAIN t.nodes : IsNode(t.nodes[n])
    BY DEF Shape, Formed
  <2> QED BY <2>1, <1>3, CountingNode
<1>5. Formed(u)
  BY <1>1, <1>2, <1>3, <1>4 DEF Formed
<1>6. SameTree(t, u)
  BY <1>3, <1>4 DEF SameTree
<1>7. Shape(u)
  BY <1>5, <1>6, ShapeSame
<1> QED BY <1>2, <1>4, <1>5, <1>6, <1>7 DEF Recounted

(* The anchors at and through each node, as the operators on them count.    *)
Tallied(t, f, g, A, n) ==
  /\ Cardinality(A \cap {n}) \in Nat /\ Cardinality(Through(t, A, n)) \in Nat
  /\ Cardinality(AnchorsIn(f, {n})) \in Nat /\ Cardinality(AnchorsIn(f, Over(t, n))) \in Nat
  /\ Cardinality(AnchorsIn(g, {n})) = Cardinality(AnchorsIn(f, {n})) + Cardinality(A \cap {n})
  /\ Cardinality(AnchorsIn(g, Over(t, n)))
       = Cardinality(AnchorsIn(f, Over(t, n))) + Cardinality(Through(t, A, n))

(* What one more anchor at each node of A adds to each node's counts.       *)
LEMMA ThroughCounts ==
  ASSUME NEW t, Shape(t), NEW f, NEW g, NEW A, Extends(f, g, A), IsFiniteSet(DOMAIN g),
         \A a \in DOMAIN g : g[a] \in DOMAIN t.nodes
  PROVE  \A n : Tallied(t, f, g, A, n)
<1> SUFFICES ASSUME NEW n PROVE Tallied(t, f, g, A, n)
  OBVIOUS
<1>1. \A X : /\ Cardinality(A \cap X) \in Nat
             /\ Cardinality(AnchorsIn(f, X)) \in Nat
             /\ Cardinality(AnchorsIn(g, X)) = Cardinality(AnchorsIn(f, X)) + Cardinality(A \cap X)
  BY ExtendsCounts
<1>2. \A a \in A : a \in DOMAIN t.nodes
  BY DEF Extends
<1>3. A \cap Over(t, n) = Through(t, A, n)
  BY <1>2 DEF Through, Over
<1> QED BY <1>1, <1>3 DEF Tallied

(* add_anchors: the counts count the anchors afterwards too.                *)
LEMMA AnchorsAdded ==
  ASSUME NEW t, Shape(t), NEW f, Counts(t, f), NEW A, NEW g, Extends(f, g, A),
         IsFiniteSet(DOMAIN g), \A a \in DOMAIN g : g[a] \in DOMAIN t.nodes
  PROVE  LET u == AddAnchors(t, A)
         IN  /\ Recounted(t, u) /\ Shape(u) /\ Counts(u, g)
             /\ \A n \in DOMAIN t.nodes : /\ t.nodes[n].exact >= 0 /\ t.nodes[n].path >= 0
                                          /\ u.nodes[n].exact >= t.nodes[n].exact
                                          /\ u.nodes[n].path >= t.nodes[n].path
                                          /\ n \in A => u.nodes[n].path > 0 /\ u.nodes[n].exact > 0
             /\ AllAnchored(t) => AllAnchored(u)
<1> DEFINE u == AddAnchors(t, A)
           e == [m \in DOMAIN t.nodes |-> Cardinality(A \cap {m})]
           p == [m \in DOMAIN t.nodes |-> Cardinality(Through(t, A, m))]
<1>1. \A n : /\ Cardinality(A \cap {n}) \in Nat /\ Cardinality(Through(t, A, n)) \in Nat
             /\ Cardinality(AnchorsIn(f, {n})) \in Nat
             /\ Cardinality(AnchorsIn(f, Over(t, n))) \in Nat
             /\ Cardinality(AnchorsIn(g, {n})) = Cardinality(AnchorsIn(f, {n})) + Cardinality(A \cap {n})
             /\ Cardinality(AnchorsIn(g, Over(t, n)))
                  = Cardinality(AnchorsIn(f, Over(t, n))) + Cardinality(Through(t, A, n))
  <2>1. \A n : Tallied(t, f, g, A, n)
    BY ThroughCounts
  <2> QED BY <2>1 DEF Tallied
<1>2. u = CountedBy(t, e, p)
  BY DEF AddAnchors, CountedBy
<1>3. \A n \in DOMAIN t.nodes : e[n] \in Int /\ p[n] \in Int
  BY <1>1, NatInt
<1>4. /\ Recounted(t, u) /\ Shape(u)
      /\ \A n \in DOMAIN t.nodes : /\ u.nodes[n].exact = t.nodes[n].exact + e[n]
                                   /\ u.nodes[n].path = t.nodes[n].path + p[n]
  <2> HIDE DEF e, p, u
  <2> QED BY <1>2, <1>3, CountedAgain
<1>5. /\ DOMAIN u.nodes = DOMAIN t.nodes
      /\ \A n : Over(u, n) = Over(t, n)
  <2>1. SameTree(t, u)
    BY <1>4 DEF Recounted
  <2> QED BY <2>1, TreeSame DEF SameTree, Over
<1>6. \A n \in DOMAIN t.nodes :
        /\ u.nodes[n].exact = Cardinality(AnchorsIn(g, {n}))
        /\ u.nodes[n].path = Cardinality(AnchorsIn(g, Over(u, n)))
  <2>1. \A n \in DOMAIN t.nodes :
        /\ t.nodes[n].exact = Cardinality(AnchorsIn(f, {n}))
        /\ t.nodes[n].path = Cardinality(AnchorsIn(f, Over(t, n)))
    BY DEF Counts
  <2>2. \A n \in DOMAIN t.nodes : e[n] = Cardinality(A \cap {n}) /\ p[n] = Cardinality(Through(t, A, n))
    OBVIOUS
  <2> HIDE DEF u, e, p
  <2> QED BY <1>1, <1>4, <1>5, <2>1, <2>2
<1>7. Counts(u, g)
  <2> HIDE DEF u
  <2> QED BY <1>5, <1>6 DEF Counts
<1>8. ASSUME NEW n \in DOMAIN t.nodes
      PROVE  /\ t.nodes[n].exact \in Nat /\ t.nodes[n].path \in Nat
             /\ e[n] \in Nat /\ p[n] \in Nat
             /\ n \in A => e[n] > 0 /\ p[n] > 0
  <2>1. t.nodes[n].exact \in Nat /\ t.nodes[n].path \in Nat /\ e[n] \in Nat /\ p[n] \in Nat
    BY <1>1 DEF Counts
  <2>2. ASSUME n \in A PROVE e[n] > 0 /\ p[n] > 0
    <3>1. IsFiniteSet(A)
      BY ExtendsCounts
    <3>2. IsFiniteSet(A \cap {n}) /\ IsFiniteSet(Through(t, A, n))
      BY <3>1, FS_Subset DEF Through
    <3>3. n \in A \cap {n} /\ n \in Through(t, A, n)
      BY <2>2, PathFacts DEF Through
    <3>4. e[n] # 0 /\ p[n] # 0
      BY <3>2, <3>3, FS_EmptySet
    <3> QED BY <3>4, <2>1
  <2> QED BY <2>1, <2>2
<1> HIDE DEF u, e, p
<1>9. \A n \in DOMAIN t.nodes : /\ t.nodes[n].exact >= 0 /\ t.nodes[n].path >= 0
                                /\ u.nodes[n].exact >= t.nodes[n].exact
                                /\ u.nodes[n].path >= t.nodes[n].path
                                /\ n \in A => u.nodes[n].path > 0 /\ u.nodes[n].exact > 0
  BY <1>4, <1>8
<1>10. AllAnchored(t) => AllAnchored(u)
  BY <1>4, <1>5, <1>8 DEF AllAnchored
<1> QED BY <1>4, <1>7, <1>9, <1>10 DEF u

(* What is left of t: some of its nodes, each with the first of its pages.  *)
Pruned(t, u) ==
  /\ DOMAIN u.nodes \subseteq DOMAIN t.nodes
  /\ \A n \in DOMAIN u.nodes :
       /\ u.nodes[n].parent = t.nodes[n].parent /\ u.nodes[n].sel = t.nodes[n].sel
       /\ u.nodes[n].take = t.nodes[n].take /\ u.nodes[n].idx = t.nodes[n].idx
       /\ Len(u.nodes[n].pages) <= Len(t.nodes[n].pages)
       /\ \A i \in 1..Len(u.nodes[n].pages) : u.nodes[n].pages[i] = t.nodes[n].pages[i]

SameRest(t, u) == u.ws = t.ws /\ u.roots = t.roots /\ u.pins = t.pins /\ u.swaps = t.swaps

(* compact_owner keeps the longest prefix a selection takes.                *)
LEMMA KeptFits ==
  ASSUME NEW t, Shape(t), NEW n, Compactable(t, n)
  PROVE  /\ n \in DOMAIN t.nodes /\ ~t.nodes[n].sel
         /\ Kept(t, n) \in 1..Len(t.nodes[n].pages)
         /\ \A c \in Children(t, n) : c \in DOMAIN t.nodes /\ t.nodes[c].sel /\ t.nodes[c].take <= Kept(t, n)
         /\ \E c \in Children(t, n) : t.nodes[c].take = Kept(t, n)
<1> DEFINE T == {t.nodes[c].take : c \in Children(t, n)}
           k == Len(t.nodes[n].pages)
<1>1. n \in DOMAIN t.nodes /\ ~t.nodes[n].sel /\ Children(t, n) # {} /\ \A c \in Children(t, n) : t.nodes[c].sel
  BY DEF Compactable
<1>2. k \in Nat
  BY <1>1, NodeFields
<1>3. \A c \in Children(t, n) : c \in DOMAIN t.nodes /\ t.nodes[c].take \in 1..k
  BY <1>1, NodeLinks DEF Children
<1>4. T \in SUBSET (0..k) /\ T # {} /\ T \subseteq 1..k
  BY <1>1, <1>2, <1>3
<1>5. Max(T) \in T /\ \A j \in T : j <= Max(T)
  <2> HIDE DEF T, k
  <2> QED BY <1>2, <1>4, LastPosition
<1> QED BY <1>1, <1>3, <1>4, <1>5 DEF Kept

(* A node cut to its first pages keeps the rest of its fields.              *)
LEMMA CutNode ==
  ASSUME NEW r, IsNode(r), NEW k \in 1..Len(r.pages)
  PROVE  LET q == Cut(r, k)
         IN  /\ IsNode(q) /\ q.parent = r.parent /\ q.sel = r.sel /\ q.take = r.take
             /\ q.idx = r.idx /\ q.exact = r.exact /\ q.path = r.path
             /\ Len(q.pages) = k /\ \A i \in 1..k : q.pages[i] = r.pages[i]
<1> DEFINE q == Cut(r, k)
           P == SubSeq(r.pages, 1, k)
<1>1. /\ r \in [parent : Nat, sel : BOOLEAN, pages : {r.pages}, take : Nat,
               exact : Int, path : Int, idx : BOOLEAN]
      /\ r.pages \in Seq(ToSet(r.pages)) /\ \A i \in DOMAIN r.pages : IsPage(r.pages[i])
  BY DEF IsNode
<1>2. /\ q.parent = r.parent /\ q.sel = r.sel /\ q.take = r.take /\ q.pages = P
      /\ q.idx = r.idx /\ q.exact = r.exact /\ q.path = r.path
  BY <1>1 DEF Cut
<1>3. q \in [parent : Nat, sel : BOOLEAN, pages : {P}, take : Nat,
             exact : Int, path : Int, idx : BOOLEAN]
  BY <1>1 DEF Cut
<1>4. Len(r.pages) \in Nat /\ DOMAIN r.pages = 1..Len(r.pages)
  BY <1>1, LenProperties
<1>5. P \in Seq(ToSet(r.pages)) /\ Len(P) = k /\ \A i \in 1..k : P[i] = r.pages[i]
  <2> DEFINE s == r.pages
  <2> HIDE DEF s
  <2>1. s \in Seq(ToSet(s)) /\ 1 \in 1..(Len(s) + 1) /\ k \in 1..Len(s) /\ k \in 0..Len(s) /\ Len(s) \in Nat
    BY <1>1, <1>4 DEF s
  <2>2. SubSeq(s, 1, k) \in Seq(ToSet(s)) /\ Len(SubSeq(s, 1, k)) = k
        /\ \A i \in 1..k : SubSeq(s, 1, k)[i] = s[i]
    BY <2>1
  <2> QED BY <2>2 DEF s
<1> HIDE DEF P
<1>6. DOMAIN P = 1..k /\ P \in Seq(ToSet(P))
  <2>1. DOMAIN P = 1..k
    BY <1>5, LenProperties
  <2>2. P = [i \in 1..k |-> P[i]] /\ \A i \in 1..k : P[i] \in ToSet(P)
    BY <2>1, <1>5 DEF ToSet
  <2> QED BY <2>1, <2>2
<1>7. \A i \in DOMAIN P : IsPage(P[i])
  <2>1. \A i \in 1..k : i \in DOMAIN r.pages
    BY <1>4
  <2> QED BY <2>1, <1>1, <1>5, <1>6
<1>8. IsNode(q)
  <2> HIDE DEF q
  <2> QED BY <1>2, <1>3, <1>6, <1>7 DEF IsNode
<1> QED BY <1>2, <1>5, <1>8

(* A node whose pages come before another's has a child that owns pages, so *)
(* it is not compacted.                                                     *)
LEMMA PredecessorStays ==
  ASSUME NEW t, Shape(t), NEW n \in DOMAIN t.nodes
  PROVE  ~Compactable(t, Predecessor(t, n))
<1> SUFFICES ASSUME Compactable(t, Predecessor(t, n)) PROVE FALSE
  OBVIOUS
<1>1. \A c \in Children(t, Predecessor(t, n)) : t.nodes[c].sel
  BY DEF Compactable
<1>2. CASE t.nodes[n].sel
  <2>1. t.nodes[n].parent \in DOMAIN t.nodes /\ ~t.nodes[t.nodes[n].parent].sel
    BY <1>2, NodeLinks
  <2> QED BY <1>1, <1>2, <2>1 DEF Predecessor, Children
<1>3. CASE ~t.nodes[n].sel
  BY <1>1, <1>3 DEF Predecessor, Children
<1> QED BY <1>2, <1>3

Trim(t, S) == {n \in S : Compactable(t, n)}

(* compact_owner: nodes keep their links and counts, those compacted the    *)
(* pages that are taken of them.                                            *)
CompactedTo(t, S, u) ==
  /\ Shape(u) /\ SameRest(t, u) /\ Pruned(t, u) /\ DOMAIN u.nodes = DOMAIN t.nodes
  /\ \A n \in DOMAIN t.nodes :
       /\ u.nodes[n].exact = t.nodes[n].exact /\ u.nodes[n].path = t.nodes[n].path
       /\ n \notin Trim(t, S) => u.nodes[n] = t.nodes[n]
       /\ n \in Trim(t, S) => Len(u.nodes[n].pages) = Kept(t, n)

(* compact_owners only trims owners that nothing but selections reads.      *)
LEMMA CompactShape ==
  ASSUME NEW t, Shape(t), NEW S
  PROVE  CompactedTo(t, S, CompactOwners(t, S).t)
<1> DEFINE u == CompactOwners(t, S).t
           trim == Trim(t, S)
<1>1. IsTable(t) /\ IsFiniteSet(DOMAIN t.nodes) /\ DOMAIN t.nodes \subseteq Nat \ {0}
      /\ \A n \in DOMAIN t.nodes : IsNode(t.nodes[n])
  BY DEF Shape, Formed
<1>2. u = [t EXCEPT !.nodes = [n \in DOMAIN @ |-> IF n \in trim THEN Cut(@[n], Kept(t, n)) ELSE @[n]]]
  BY DEF CompactOwners, Result, Trim
<1>3. /\ u.nodes = [n \in DOMAIN t.nodes |-> IF n \in trim THEN Cut(t.nodes[n], Kept(t, n)) ELSE t.nodes[n]]
      /\ IsTable(u) /\ SameRest(t, u)
  <2> HIDE DEF u, trim
  <2> QED BY <1>1, <1>2 DEF IsTable, SameRest
<1> HIDE DEF u
<1>4. /\ DOMAIN u.nodes = DOMAIN t.nodes
      /\ \A n \in DOMAIN t.nodes : u.nodes[n] = IF n \in trim THEN Cut(t.nodes[n], Kept(t, n)) ELSE t.nodes[n]
  BY <1>3
<1>5. \A n \in trim : Compactable(t, n)
  BY DEF Trim
<1> HIDE DEF trim
<1>6. ASSUME NEW n \in DOMAIN t.nodes
      PROVE  /\ IsNode(u.nodes[n])
             /\ u.nodes[n].parent = t.nodes[n].parent /\ u.nodes[n].sel = t.nodes[n].sel
             /\ u.nodes[n].take = t.nodes[n].take /\ u.nodes[n].idx = t.nodes[n].idx
             /\ u.nodes[n].exact = t.nodes[n].exact /\ u.nodes[n].path = t.nodes[n].path
             /\ Len(u.nodes[n].pages) \in Nat
             /\ Len(u.nodes[n].pages) <= Len(t.nodes[n].pages)
             /\ \A i \in 1..Len(u.nodes[n].pages) : u.nodes[n].pages[i] = t.nodes[n].pages[i]
             /\ n \notin trim => u.nodes[n] = t.nodes[n]
             /\ n \in trim => Len(u.nodes[n].pages) = Kept(t, n)
  <2>1. CASE n \notin trim
    <3>1. u.nodes[n] = t.nodes[n]
      BY <1>4, <2>1
    <3>2. Len(t.nodes[n].pages) \in Nat
      BY NodeFields
    <3> QED BY <3>1, <3>2, <1>1, <2>1
  <2>2. CASE n \in trim
    <3>1. u.nodes[n] = Cut(t.nodes[n], Kept(t, n))
      BY <1>4, <2>2
    <3>2. Kept(t, n) \in 1..Len(t.nodes[n].pages)
      BY <1>5, <2>2, KeptFits
    <3>3. Len(t.nodes[n].pages) \in Nat
      BY NodeFields
    <3>4. LET q == Cut(t.nodes[n], Kept(t, n))
          IN  /\ IsNode(q) /\ q.parent = t.nodes[n].parent /\ q.sel = t.nodes[n].sel /\ q.take = t.nodes[n].take
              /\ q.idx = t.nodes[n].idx /\ q.exact = t.nodes[n].exact /\ q.path = t.nodes[n].path
              /\ Len(q.pages) = Kept(t, n) /\ \A i \in 1..Kept(t, n) : q.pages[i] = t.nodes[n].pages[i]
      BY <1>1, <3>2, CutNode
    <3> QED BY <3>1, <3>2, <3>3, <3>4, <2>2
  <2> QED BY <2>1, <2>2
<1>7. Formed(u)
  BY <1>1, <1>3, <1>4, <1>6 DEF Formed
<1>8. Parents(u) = Parents(t)
  BY <1>4, <1>6 DEF Parents
<1>9. ASSUME NEW n \in DOMAIN u.nodes
      PROVE  /\ u.nodes[n].parent # NoNode => u.nodes[n].parent \in DOMAIN u.nodes
             /\ u.nodes[n].sel => /\ Owns(u, u.nodes[n].parent)
                                  /\ u.nodes[n].take \in 1..Len(u.nodes[u.nodes[n].parent].pages)
                                  /\ u.nodes[n].pages = <<>>
             /\ ~u.nodes[n].sel => u.nodes[n].pages # <<>>
  <2>1. n \in DOMAIN t.nodes
    BY <1>4
  <2>2. u.nodes[n].parent # NoNode => u.nodes[n].parent \in DOMAIN u.nodes
    BY <2>1, <1>4, <1>6, NodeLinks
  <2>3. ASSUME u.nodes[n].sel
        PROVE  /\ Owns(u, u.nodes[n].parent)
               /\ u.nodes[n].take \in 1..Len(u.nodes[u.nodes[n].parent].pages)
               /\ u.nodes[n].pages = <<>>
    <3> DEFINE o == t.nodes[n].parent
    <3>1. t.nodes[n].sel /\ u.nodes[n].parent = o /\ u.nodes[n].take = t.nodes[n].take
      BY <2>1, <2>3, <1>6
    <3>2. o \in DOMAIN t.nodes /\ ~t.nodes[o].sel /\ t.nodes[n].take \in 1..Len(t.nodes[o].pages)
          /\ t.nodes[n].pages = <<>>
      BY <2>1, <3>1, NodeLinks
    <3>3. n \notin trim
      BY <3>1, <1>5 DEF Compactable
    <3>4. u.nodes[n].pages = <<>>
      BY <3>2, <3>3, <2>1, <1>4
    <3>5. Owns(u, o)
      BY <3>2, <1>4, <1>6 DEF Owns
    <3>6. t.nodes[n].take \in 1..Len(u.nodes[o].pages)
      <4>1. CASE o \in trim
        <5>1. n \in Children(t, o)
          BY <2>1 DEF Children
        <5>2. t.nodes[n].take <= Kept(t, o)
          BY <4>1, <5>1, <1>5, KeptFits
        <5>3. Len(u.nodes[o].pages) = Kept(t, o) /\ Kept(t, o) \in Nat
          BY <4>1, <3>2, <1>6
        <5> QED BY <5>2, <5>3, <3>2
      <4>2. CASE o \notin trim
        BY <4>2, <3>2, <1>6
      <4> QED BY <4>1, <4>2
    <3> QED BY <3>1, <3>4, <3>5, <3>6
  <2>4. ASSUME ~u.nodes[n].sel PROVE u.nodes[n].pages # <<>>
    <3>1. ~t.nodes[n].sel /\ Len(t.nodes[n].pages) > 0
      BY <2>1, <2>4, <1>6, NodeLinks
    <3>2. Len(u.nodes[n].pages) # 0
      <4>1. CASE n \in trim
        <5>1. Kept(t, n) \in 1..Len(t.nodes[n].pages)
          BY <4>1, <1>5, KeptFits
        <5> QED BY <5>1, <4>1, <2>1, <1>6
      <4>2. CASE n \notin trim
        BY <4>2, <3>1, <2>1, <1>6
      <4> QED BY <4>1, <4>2
    <3>3. Len(<<>>) = 0
      OBVIOUS
    <3> QED BY <3>2, <3>3
  <2> QED BY <2>2, <2>3, <2>4
<1>10. Shape(u)
  BY <1>7, <1>8, <1>9 DEF Shape, Linked
<1>11. Pruned(t, u)
  BY <1>4, <1>6 DEF Pruned
<1> QED BY <1>3, <1>4, <1>6, <1>10, <1>11 DEF CompactedTo, u, trim

(* It moves no path, and no location of a node it does not trim.            *)
LEMMA CompactTree ==
  ASSUME NEW t, Shape(t), NEW S, NEW u, CompactedTo(t, S, u)
  PROVE  /\ \A n : PathNodes(u, n) = PathNodes(t, n)
         /\ \A n : Children(u, n) = Children(t, n)
         /\ \A n : Compactable(u, n) <=> Compactable(t, n)
         /\ \A n \in DOMAIN t.nodes \ Trim(t, S) : Locations(u, n) = Locations(t, n)
<1>1. Parents(u) = Parents(t)
  BY DEF CompactedTo, Pruned, Parents
<1>2. \A n : PathNodes(u, n) = PathNodes(t, n)
  BY <1>1 DEF PathNodes
<1>3. \A n : Children(u, n) = Children(t, n)
  BY DEF Children, CompactedTo, Pruned
<1>4. ASSUME NEW n PROVE Compactable(u, n) <=> Compactable(t, n)
  <2>1. DOMAIN u.nodes = DOMAIN t.nodes /\ u.swaps = t.swaps
    BY DEF CompactedTo, SameRest
  <2>2. \A c \in DOMAIN t.nodes : u.nodes[c].sel = t.nodes[c].sel /\ u.nodes[c].exact = t.nodes[c].exact
    BY <2>1 DEF CompactedTo, Pruned
  <2>3. \A c \in Children(t, n) : c \in DOMAIN t.nodes
    BY DEF Children
  <2> QED BY <2>1, <2>2, <2>3, <1>3 DEF Compactable
<1>5. SameLinks(t, u, DOMAIN t.nodes)
  <2>1. \A m \in DOMAIN t.nodes : t.nodes[m].parent # NoNode => t.nodes[m].parent \in DOMAIN t.nodes
    BY NodeLinks
  <2> QED BY <2>1 DEF SameLinks, CompactedTo, Pruned
<1>6. \A m \in DOMAIN t.nodes \ Trim(t, S) :
        /\ ContributionLen(t, m) = ContributionLen(u, m)
        /\ Predecessor(t, m) # NoNode => Predecessor(t, m) \in DOMAIN t.nodes \ Trim(t, S)
  <2>1. \A m \in DOMAIN t.nodes \ Trim(t, S) : ContributionLen(t, m) = ContributionLen(u, m)
    BY DEF ContributionLen, CompactedTo
  <2>2. \A m \in DOMAIN t.nodes : Predecessor(t, m) \notin Trim(t, S)
    BY PredecessorStays DEF Trim
  <2> QED BY <2>1, <2>2, PredecessorFacts
<1>7. \A m \in DOMAIN t.nodes \ Trim(t, S) : Locations(t, m) = Locations(u, m)
  <2>1. Shape(u)
    BY DEF CompactedTo
  <2> DEFINE F == DOMAIN t.nodes \ Trim(t, S)
  <2>2. F \in SUBSET (DOMAIN t.nodes)
    OBVIOUS
  <2>3. \A m \in F : /\ ContributionLen(t, m) = ContributionLen(u, m)
                     /\ Predecessor(t, m) # NoNode => Predecessor(t, m) \in F
    BY <1>6
  <2>4. \A m \in F : Locations(t, m) = Locations(u, m)
    <3> HIDE DEF F
    <3> QED BY <2>1, <2>2, <2>3, <1>5, LocationsSame
  <2> QED BY <2>4
<1> QED BY <1>2, <1>3, <1>4, <1>7

(* It changes no count.                                                     *)
LEMMA CompactCounts ==
  ASSUME NEW t, Shape(t), NEW S, NEW u, CompactedTo(t, S, u), NEW f
  PROVE  Counts(t, f) <=> Counts(u, f)
<1>1. \A n : Over(u, n) = Over(t, n)
  BY CompactTree DEF Over, CompactedTo
<1>2. DOMAIN u.nodes = DOMAIN t.nodes /\ \A n \in DOMAIN t.nodes :
        u.nodes[n].exact = t.nodes[n].exact /\ u.nodes[n].path = t.nodes[n].path
  BY DEF CompactedTo
<1> QED BY <1>1, <1>2 DEF Counts

(* What goes with the pages is what they were in.                           *)
Lost(t, u) == BackingsAt(t, LiveLocations(t) \ LiveLocations(u))

(* The live locations are the pages the nodes own.                          *)
LEMMA LiveIn ==
  ASSUME NEW t, Shape(t), NEW l
  PROVE  l \in LiveLocations(t) <=> /\ l = <<l[1], l[2]>> /\ l[1] \in DOMAIN t.nodes
                                    /\ l[2] \in 1..Len(t.nodes[l[1]].pages)
<1>1. \A n \in DOMAIN t.nodes : DOMAIN t.nodes[n].pages = 1..Len(t.nodes[n].pages)
  BY NodeFields
<1> QED BY <1>1 DEF LiveLocations

(* It frees exactly the backings of the locations that went.                *)
LEMMA CompactFrees ==
  ASSUME NEW t, Shape(t), NEW S
  PROVE  CompactOwners(t, S).freed = Lost(t, CompactOwners(t, S).t)
<1> DEFINE u == CompactOwners(t, S).t
           G == {l \in LiveLocations(t) : l[1] \in Trim(t, S) /\ l[2] > Kept(t, l[1])}
<1>1. CompactedTo(t, S, u)
  BY CompactShape
<1>2. Shape(u)
  BY <1>1 DEF CompactedTo
<1>3. CompactOwners(t, S).freed = BackingsAt(t, G)
  BY DEF CompactOwners, Result, Trim
<1> HIDE DEF u
<1>4. ASSUME NEW l \in LiveLocations(t) PROVE l \in G <=> l \notin LiveLocations(u)
  <2>1. l = <<l[1], l[2]>> /\ l[1] \in DOMAIN t.nodes /\ l[2] \in 1..Len(t.nodes[l[1]].pages)
    BY LiveIn
  <2>2. l \in LiveLocations(u) <=> l[2] \in 1..Len(u.nodes[l[1]].pages)
    BY <2>1, <1>1, <1>2, LiveIn DEF CompactedTo
  <2>3. Len(t.nodes[l[1]].pages) \in Nat
    BY <2>1, NodeFields
  <2>4. CASE l[1] \in Trim(t, S)
    <3>1. Len(u.nodes[l[1]].pages) = Kept(t, l[1])
      BY <2>4, <2>1, <1>1 DEF CompactedTo
    <3>2. Kept(t, l[1]) \in Nat
      <4>1. Kept(t, l[1]) \in 1..Len(t.nodes[l[1]].pages)
        BY <2>4, KeptFits DEF Trim
      <4> QED BY <4>1
    <3> QED BY <2>1, <2>2, <2>3, <2>4, <3>1, <3>2
  <2>5. CASE l[1] \notin Trim(t, S)
    <3>1. u.nodes[l[1]] = t.nodes[l[1]]
      BY <2>5, <2>1, <1>1 DEF CompactedTo
    <3> QED BY <2>1, <2>2, <2>5, <3>1
  <2> QED BY <2>4, <2>5
<1>5. G = LiveLocations(t) \ LiveLocations(u)
  BY <1>4
<1> HIDE DEF G
<1> QED BY <1>3, <1>5 DEF Lost, u

(* A walk restricted to a set closed under next is a walk.                  *)
LEMMA WalkPart ==
  ASSUME NEW next, Walk(next), NEW E \in SUBSET DOMAIN next,
         \A m \in E : next[m] # NoNode => next[m] \in E
  PROVE  Walk([m \in E |-> next[m]])
<1>1. PICK rank \in [DOMAIN next -> Nat] :
        Ranked(next, rank) /\ \E k \in Nat : \A m \in DOMAIN next : rank[m] < k
  BY DEF Walk
<1> DEFINE part == [m \in E |-> next[m]]
           low == [m \in E |-> rank[m]]
<1>2. DOMAIN part = E /\ \A m \in E : part[m] = next[m] /\ low[m] = rank[m]
  OBVIOUS
<1>3. low \in [DOMAIN part -> Nat]
  OBVIOUS
<1>4. NoNode \notin DOMAIN part
  BY DEF Walk
<1> HIDE DEF part, low
<1>5. Ranked(part, low)
  BY <1>1, <1>2 DEF Ranked
<1>6. \E k \in Nat : \A m \in DOMAIN part : low[m] < k
  BY <1>1, <1>2
<1> QED BY <1>3, <1>4, <1>5, <1>6 DEF Walk, part

(* Nodes taken out with all that is below them.                             *)
Detached(t, dead) == [t EXCEPT !.nodes = Without(@, dead)]

(* A table without a set of nodes that holds their descendants is well      *)
(* shaped.                                                                  *)
LEMMA DetachShape ==
  ASSUME NEW t, Shape(t), NEW dead,
         \A n \in DOMAIN t.nodes \ dead : t.nodes[n].parent # NoNode => t.nodes[n].parent \notin dead
  PROVE  LET u == Detached(t, dead)
         IN  /\ Shape(u) /\ SameRest(t, u) /\ DOMAIN u.nodes = DOMAIN t.nodes \ dead
             /\ \A n \in DOMAIN u.nodes : u.nodes[n] = t.nodes[n]
             /\ \A n \in DOMAIN u.nodes : /\ PathNodes(u, n) = PathNodes(t, n)
                                          /\ Locations(u, n) = Locations(t, n)
                                          /\ Predecessor(u, n) = Predecessor(t, n)
<1> DEFINE u == Detached(t, dead)
           E == DOMAIN t.nodes \ dead
<1>1. IsTable(t) /\ IsFiniteSet(DOMAIN t.nodes) /\ DOMAIN t.nodes \subseteq Nat \ {0}
      /\ \A n \in DOMAIN t.nodes : IsNode(t.nodes[n])
  BY DEF Shape, Formed
<1>2. u.nodes = [n \in E |-> t.nodes[n]] /\ IsTable(u) /\ SameRest(t, u)
  BY <1>1 DEF IsTable, SameRest, Detached, Without
<1> HIDE DEF u
<1>3. DOMAIN u.nodes = E /\ \A n \in E : u.nodes[n] = t.nodes[n] /\ n \in DOMAIN t.nodes
  BY <1>2
<1>4. E \subseteq DOMAIN t.nodes /\ \A n \in E : t.nodes[n].parent # NoNode => t.nodes[n].parent \in E
  BY NodeLinks
<1> HIDE DEF E
<1>5. Formed(u)
  <2>1. IsFiniteSet(E)
    BY <1>1, <1>4, FS_Subset
  <2> QED BY <2>1, <1>1, <1>2, <1>3, <1>4 DEF Formed
<1>6. Walk(Parents(u))
  <2> DEFINE next == Parents(t)
  <2>1. Walk(next) /\ DOMAIN next = DOMAIN t.nodes /\ \A m \in DOMAIN t.nodes : next[m] = t.nodes[m].parent
    BY DEF Shape, Parents
  <2>2. Parents(u) = [m \in E |-> next[m]]
    BY <1>3, <2>1 DEF Parents
  <2> HIDE DEF next
  <2>3. Walk([m \in E |-> next[m]])
    BY <2>1, <1>4, WalkPart
  <2> QED BY <2>2, <2>3
<1>7. Linked(u)
  <2>1. \A n \in E : t.nodes[n].sel => /\ t.nodes[n].parent \in E /\ ~t.nodes[t.nodes[n].parent].sel
                                       /\ t.nodes[n].take \in 1..Len(t.nodes[t.nodes[n].parent].pages)
                                       /\ t.nodes[n].pages = <<>>
    BY <1>4, NodeLinks
  <2>2. \A n \in E : ~t.nodes[n].sel => t.nodes[n].pages # <<>>
    BY <1>4 DEF Shape, Linked
  <2> QED BY <2>1, <2>2, <1>3, <1>4 DEF Linked, Owns
<1>8. Shape(u)
  BY <1>5, <1>6, <1>7 DEF Shape
<1>9. SameLinks(t, u, E)
  BY <1>3, <1>4 DEF SameLinks
<1>10. \A m \in E : /\ PathNodes(t, m) = PathNodes(u, m)
                    /\ Predecessor(t, m) = Predecessor(u, m)
                    /\ Predecessor(t, m) # NoNode => Predecessor(t, m) \in E
  BY <1>8, <1>9, PathsSame
<1>11. \A m \in E : ContributionLen(t, m) = ContributionLen(u, m)
  BY <1>3 DEF ContributionLen
<1>12. \A m \in E : Locations(t, m) = Locations(u, m)
  <2>1. E \in SUBSET E
    OBVIOUS
  <2>2. \A m \in E : /\ ContributionLen(t, m) = ContributionLen(u, m)
                     /\ Predecessor(t, m) # NoNode => Predecessor(t, m) \in E
    BY <1>10, <1>11
  <2> QED BY <2>1, <2>2, <1>8, <1>9, LocationsSame
<1>13. DOMAIN u.nodes = DOMAIN t.nodes \ dead
  BY <1>3 DEF E
<1> QED BY <1>2, <1>3, <1>8, <1>10, <1>12, <1>13 DEF u

(* remove_anchors, the counts: a node is bare when its last anchor went.    *)
LEMMA AnchorsLess ==
  ASSUME NEW t, Shape(t), NEW g, Counts(t, g), NEW A, NEW f, Extends(f, g, A)
  PROVE  LET u == LessAnchors(t, A)
         IN  /\ Recounted(t, u) /\ Shape(u) /\ Counts(u, f)
             /\ \A n \in DOMAIN t.nodes : Through(t, A, n) = {} => u.nodes[n] = t.nodes[n]
             /\ \A n : n \in Bare(t, A) <=> /\ n \in DOMAIN t.nodes /\ Through(t, A, n) # {}
                                            /\ AnchorsIn(f, Over(t, n)) = {}
<1> DEFINE u == LessAnchors(t, A)
           e == [m \in DOMAIN t.nodes |-> 0 - Cardinality(A \cap {m})]
           p == [m \in DOMAIN t.nodes |-> 0 - Cardinality(Through(t, A, m))]
<1>0. IsFiniteSet(DOMAIN g) /\ \A a \in DOMAIN g : g[a] \in DOMAIN t.nodes
  BY DEF Counts
<1>1. \A n : Tallied(t, f, g, A, n)
  BY <1>0, ThroughCounts
<1>2. u = CountedBy(t, e, p)
  BY DEF LessAnchors, CountedBy
<1>31. \A n : Cardinality(A \cap {n}) \in Nat /\ Cardinality(Through(t, A, n)) \in Nat
  BY <1>1 DEF Tallied
<1>3. \A n \in DOMAIN t.nodes : e[n] = 0 - Cardinality(A \cap {n}) /\ p[n] = 0 - Cardinality(Through(t, A, n))
  OBVIOUS
<1>32. \A x \in Nat : 0 - x \in Int
  OBVIOUS
<1>33. \A n \in DOMAIN t.nodes : e[n] \in Int /\ p[n] \in Int
  BY <1>3, <1>31, <1>32
<1> HIDE DEF e, p, u
<1>4. /\ Recounted(t, u) /\ Shape(u)
      /\ \A n \in DOMAIN t.nodes : /\ u.nodes[n].exact = t.nodes[n].exact + e[n]
                                   /\ u.nodes[n].path = t.nodes[n].path + p[n]
  BY <1>2, <1>33, CountedAgain
<1>5. /\ DOMAIN u.nodes = DOMAIN t.nodes /\ \A n : Over(u, n) = Over(t, n)
  <2>1. SameTree(t, u)
    BY <1>4 DEF Recounted
  <2> QED BY <2>1, TreeSame DEF SameTree, Over
<1>6. IsFiniteSet(DOMAIN f) /\ IsFiniteSet(A)
  BY <1>0, ExtendsCounts
<1>7. \A a \in DOMAIN f : f[a] \in DOMAIN t.nodes
  BY <1>0 DEF Extends
<1>8. \A n \in DOMAIN t.nodes : /\ t.nodes[n].exact = Cardinality(AnchorsIn(g, {n}))
                                /\ t.nodes[n].path = Cardinality(AnchorsIn(g, Over(t, n)))
  BY DEF Counts
<1>9. \A n \in DOMAIN t.nodes : /\ u.nodes[n].exact = Cardinality(AnchorsIn(f, {n}))
                                /\ u.nodes[n].path = Cardinality(AnchorsIn(f, Over(u, n)))
  <2> SUFFICES ASSUME NEW n \in DOMAIN t.nodes
               PROVE  /\ u.nodes[n].exact = Cardinality(AnchorsIn(f, {n}))
                      /\ u.nodes[n].path = Cardinality(AnchorsIn(f, Over(t, n)))
    BY <1>5
  <2> DEFINE x == Cardinality(AnchorsIn(f, {n}))
             y == Cardinality(A \cap {n})
             z == Cardinality(AnchorsIn(f, Over(t, n)))
             v == Cardinality(Through(t, A, n))
  <2>1. x \in Nat /\ y \in Nat /\ z \in Nat /\ v \in Nat /\ t.nodes[n].exact = x + y /\ t.nodes[n].path = z + v
    BY <1>1, <1>8 DEF Tallied
  <2>2. u.nodes[n].exact = t.nodes[n].exact + (0 - y) /\ u.nodes[n].path = t.nodes[n].path + (0 - v)
    BY <1>3, <1>4
  <2> HIDE DEF x, y, z, v
  <2>3. u.nodes[n].exact = x /\ u.nodes[n].path = z
    BY <2>1, <2>2
  <2> QED BY <2>3 DEF x, z
<1>10. Counts(u, f)
  BY <1>5, <1>6, <1>7, <1>9 DEF Counts
<1>11. ASSUME NEW n \in DOMAIN t.nodes, Through(t, A, n) = {} PROVE u.nodes[n] = t.nodes[n]
  <2>1. A \cap {n} = {}
    BY <1>11, PathFacts DEF Through
  <2>2. e[n] = 0 /\ p[n] = 0
    BY <2>1, <1>3, <1>11, FS_EmptySet
  <2>3. u.nodes[n] = Counting(t.nodes[n], 0, 0)
    <3>1. IsTable(t)
      BY DEF Shape, Formed
    <3> QED BY <3>1, <1>2, <2>2 DEF IsTable, CountedBy
  <2>4. IsNode(t.nodes[n])
    BY DEF Shape, Formed
  <2>5. Counting(t.nodes[n], 0, 0) = t.nodes[n]
    <3> DEFINE r == t.nodes[n]
    <3>1. r.exact \in Int /\ r.path \in Int /\ r = [r EXCEPT !.exact = r.exact, !.path = r.path]
      BY <2>4 DEF IsNode
    <3>2. r.exact + 0 = r.exact /\ r.path + 0 = r.path
      BY <3>1
    <3> QED BY <3>1, <3>2 DEF Counting
  <2> QED BY <2>3, <2>5
<1>12. ASSUME NEW n
       PROVE  n \in Bare(t, A) <=> n \in DOMAIN t.nodes /\ Through(t, A, n) # {} /\ AnchorsIn(f, Over(t, n)) = {}
  <2>1. n \in Bare(t, A) <=> n \in DOMAIN t.nodes /\ Through(t, A, n) # {}
                             /\ t.nodes[n].path = Cardinality(Through(t, A, n))
    BY DEF Bare
  <2>2. ASSUME n \in DOMAIN t.nodes
        PROVE  t.nodes[n].path = Cardinality(Through(t, A, n)) <=> AnchorsIn(f, Over(t, n)) = {}
    <3>1. t.nodes[n].path = Cardinality(AnchorsIn(f, Over(t, n))) + Cardinality(Through(t, A, n))
          /\ Cardinality(AnchorsIn(f, Over(t, n))) \in Nat /\ Cardinality(Through(t, A, n)) \in Nat
      BY <2>2, <1>1, <1>8 DEF Tallied
    <3>2. IsFiniteSet(AnchorsIn(f, Over(t, n)))
      BY <1>6, FS_Subset DEF AnchorsIn
    <3>3. Cardinality(AnchorsIn(f, Over(t, n))) = 0 <=> AnchorsIn(f, Over(t, n)) = {}
      BY <3>2, FS_EmptySet
    <3> QED BY <3>1, <3>3
  <2> QED BY <2>1, <2>2
<1> QED BY <1>4, <1>10, <1>11, <1>12 DEF u

(* Where only selections read an owner no one anchors, one of them takes    *)
(* its last page.                                                           *)
Compacted(t) ==
  \A n \in DOMAIN t.nodes : Compactable(t, n) =>
    \E c \in Children(t, n) : t.nodes[c].take = Len(t.nodes[n].pages)

(* What letting go of anchors leaves, f being those left: they count, what  *)
(* they read is as it was, and what is freed is what no page is in now.     *)
Shed(t, u, f) ==
  /\ Shape(u) /\ Counts(u, f) /\ SameRest(t, u) /\ Pruned(t, u)
  /\ AllAnchored(t) => AllAnchored(u)
  /\ Compacted(t) => Compacted(u)
  /\ \A n \in DOMAIN u.nodes : u.nodes[n].exact # 0 => Locations(u, n) = Locations(t, n)
  /\ \A n \in DOMAIN u.nodes : u.nodes[n].exact # 0 => Len(u.nodes[n].pages) = Len(t.nodes[n].pages)
  /\ \A l \in t.swaps : l[1] \in DOMAIN u.nodes =>
       Len(u.nodes[l[1]].pages) = Len(t.nodes[l[1]].pages)
  /\ \A n \in DOMAIN u.nodes : u.nodes[n].exact <= t.nodes[n].exact

(* remove_anchors: nodes still anchored keep their locations.               *)
LEMMA AnchorsRemoved ==
  ASSUME NEW t, Shape(t), NEW g, Counts(t, g), NEW A, NEW f, Extends(f, g, A)
  PROVE  Shed(t, RemoveAnchors(t, A).t, f)
<1> DEFINE t1 == LessAnchors(t, A)
           path == {m \in DOMAIN t.nodes : Through(t, A, m) # {}}
           dead == {m \in DOMAIN t.nodes : PathNodes(t, m) \cap Bare(t, A) # {}}
           t2 == Detached(t1, dead)
           u == CompactOwners(t2, path).t
<1>1. RemoveAnchors(t, A).t = u
  BY DEF RemoveAnchors, DetachUnreferenced, Freeing, Detached, CompactOwners, Result
<1>2. /\ Recounted(t, t1) /\ Shape(t1) /\ Counts(t1, f)
      /\ \A n \in DOMAIN t.nodes : Through(t, A, n) = {} => t1.nodes[n] = t.nodes[n]
      /\ \A n : n \in Bare(t, A) <=> /\ n \in DOMAIN t.nodes /\ Through(t, A, n) # {}
                                     /\ AnchorsIn(f, Over(t, n)) = {}
  BY AnchorsLess
<1> HIDE DEF t1
<1>3. SameTree(t, t1)
  BY <1>2 DEF Recounted
<1>4. /\ DOMAIN t1.nodes = DOMAIN t.nodes
      /\ \A n : PathNodes(t1, n) = PathNodes(t, n) /\ Children(t1, n) = Children(t, n)
                /\ Locations(t1, n) = Locations(t, n)
  BY <1>3, TreeSame DEF SameTree
<1>5. \A n \in DOMAIN t1.nodes \ dead : t1.nodes[n].parent # NoNode => t1.nodes[n].parent \notin dead
  <2> SUFFICES ASSUME NEW n \in DOMAIN t1.nodes \ dead, t1.nodes[n].parent # NoNode, t1.nodes[n].parent \in dead
               PROVE FALSE
    OBVIOUS
  <2>1. n \in DOMAIN t.nodes /\ t1.nodes[n].parent = t.nodes[n].parent
    BY <1>3 DEF SameTree
  <2>2. PathNodes(t, t.nodes[n].parent) \subseteq PathNodes(t, n)
    BY <2>1, PathFacts
  <2> QED BY <2>1, <2>2
<1>6. /\ Shape(t2) /\ SameRest(t1, t2) /\ DOMAIN t2.nodes = DOMAIN t1.nodes \ dead
      /\ \A n \in DOMAIN t2.nodes : t2.nodes[n] = t1.nodes[n]
      /\ \A n \in DOMAIN t2.nodes : /\ PathNodes(t2, n) = PathNodes(t1, n)
                                    /\ Locations(t2, n) = Locations(t1, n)
  <2> HIDE DEF dead
  <2> QED BY <1>2, <1>5, DetachShape
<1> HIDE DEF t2
<1>7. \A a \in DOMAIN f : f[a] \in DOMAIN t2.nodes
  <2> SUFFICES ASSUME NEW a \in DOMAIN f, f[a] \in dead PROVE FALSE
    BY <1>2, <1>4, <1>6 DEF Counts
  <2>1. PICK m : m \in PathNodes(t, f[a]) /\ m \in Bare(t, A)
    OBVIOUS
  <2>2. f[a] \in Over(t, m)
    BY <2>1 DEF Over
  <2> QED BY <2>1, <2>2, <1>2 DEF AnchorsIn
<1>8. \A n \in DOMAIN t2.nodes : AnchorsIn(f, Over(t2, n)) = AnchorsIn(f, Over(t1, n))
  BY <1>6, <1>7 DEF AnchorsIn, Over
<1>9. Counts(t2, f)
  <2>1. /\ IsFiniteSet(DOMAIN f)
        /\ \A n \in DOMAIN t1.nodes : /\ t1.nodes[n].exact = Cardinality(AnchorsIn(f, {n}))
                                      /\ t1.nodes[n].path = Cardinality(AnchorsIn(f, Over(t1, n)))
    BY <1>2 DEF Counts
  <2>2. \A n \in DOMAIN t2.nodes : n \in DOMAIN t1.nodes /\ t2.nodes[n] = t1.nodes[n]
    BY <1>6
  <2>3. \A n \in DOMAIN t2.nodes : /\ t2.nodes[n].exact = Cardinality(AnchorsIn(f, {n}))
                                   /\ t2.nodes[n].path = Cardinality(AnchorsIn(f, Over(t2, n)))
    BY <1>8, <2>1, <2>2
  <2> QED BY <1>7, <2>1, <2>3 DEF Counts
<1>10. CompactedTo(t2, path, u)
  <2> HIDE DEF path
  <2> QED BY <1>6, CompactShape
<1> HIDE DEF u
<1>11. Counts(u, f) /\ Shape(u)
  <2> HIDE DEF path
  <2> QED BY <1>6, <1>9, <1>10, CompactCounts DEF CompactedTo
<1>12. SameRest(t, u)
  BY <1>2, <1>6, <1>10 DEF Recounted, SameRest, CompactedTo
<1>13. /\ DOMAIN u.nodes = DOMAIN t.nodes \ dead /\ DOMAIN t2.nodes = DOMAIN u.nodes
       /\ \A n \in DOMAIN u.nodes :
            /\ n \in DOMAIN t.nodes /\ t2.nodes[n] = t1.nodes[n]
            /\ t1.nodes[n].parent = t.nodes[n].parent /\ t1.nodes[n].sel = t.nodes[n].sel
            /\ t1.nodes[n].take = t.nodes[n].take /\ t1.nodes[n].idx = t.nodes[n].idx
            /\ t1.nodes[n].pages = t.nodes[n].pages
  BY <1>2, <1>3, <1>4, <1>6, <1>10 DEF SameTree, Recounted, CompactedTo
<1>14. Pruned(t, u)
  <2>1. Pruned(t2, u)
    BY <1>10 DEF CompactedTo
  <2>2. DOMAIN u.nodes \subseteq DOMAIN t.nodes
    BY <1>13
  <2>3. ASSUME NEW n \in DOMAIN u.nodes
        PROVE  /\ u.nodes[n].parent = t.nodes[n].parent /\ u.nodes[n].sel = t.nodes[n].sel
               /\ u.nodes[n].take = t.nodes[n].take /\ u.nodes[n].idx = t.nodes[n].idx
               /\ Len(u.nodes[n].pages) <= Len(t.nodes[n].pages)
               /\ \A i \in 1..Len(u.nodes[n].pages) : u.nodes[n].pages[i] = t.nodes[n].pages[i]
    <3>1. /\ t2.nodes[n].parent = t.nodes[n].parent /\ t2.nodes[n].sel = t.nodes[n].sel
          /\ t2.nodes[n].take = t.nodes[n].take /\ t2.nodes[n].idx = t.nodes[n].idx
          /\ t2.nodes[n].pages = t.nodes[n].pages
      BY <1>13
    <3> QED BY <2>1, <3>1 DEF Pruned
  <2> QED BY <2>2, <2>3 DEF Pruned
<1>15. AllAnchored(t) => AllAnchored(u)
  <2> SUFFICES ASSUME AllAnchored(t), NEW n \in DOMAIN u.nodes PROVE u.nodes[n].path > 0
    BY DEF AllAnchored
  <2>1. n \in DOMAIN t.nodes /\ n \notin dead /\ n \in PathNodes(t, n)
    BY <1>13, PathFacts
  <2>2. n \notin Bare(t, A)
    BY <2>1
  <2>3. u.nodes[n].path = t1.nodes[n].path
    BY <1>10, <1>13 DEF CompactedTo
  <2>4. CASE Through(t, A, n) = {}
    BY <2>1, <2>3, <2>4, <1>2 DEF AllAnchored
  <2>5. CASE Through(t, A, n) # {}
    <3>1. AnchorsIn(f, Over(t, n)) # {} /\ Over(t1, n) = Over(t, n)
      BY <2>1, <2>2, <2>5, <1>2, <1>4 DEF Over
    <3>2. t1.nodes[n].path = Cardinality(AnchorsIn(f, Over(t, n))) /\ IsFiniteSet(DOMAIN f)
      BY <3>1, <2>1, <1>2, <1>4 DEF Counts
    <3>3. IsFiniteSet(AnchorsIn(f, Over(t, n)))
      BY <3>2, FS_Subset DEF AnchorsIn
    <3>4. Cardinality(AnchorsIn(f, Over(t, n))) \in Nat /\ Cardinality(AnchorsIn(f, Over(t, n))) # 0
      BY <3>1, <3>3, FS_EmptySet, FS_CardinalityType
    <3> QED BY <2>3, <3>2, <3>4
  <2> QED BY <2>4, <2>5
<1>16. \A n \in DOMAIN u.nodes : u.nodes[n].exact # 0 => n \notin Trim(t2, path) /\ u.nodes[n] = t2.nodes[n]
  <2> SUFFICES ASSUME NEW n \in DOMAIN u.nodes, u.nodes[n].exact # 0 PROVE n \notin Trim(t2, path)
    BY <1>10, <1>13 DEF CompactedTo
  <2>1. t2.nodes[n].exact # 0
    BY <1>10, <1>13 DEF CompactedTo
  <2> QED BY <2>1 DEF Trim, Compactable
<1>17. \A n \in DOMAIN u.nodes : u.nodes[n].exact # 0 => Locations(u, n) = Locations(t, n)
  <2>1. \A n \in DOMAIN t2.nodes \ Trim(t2, path) : Locations(u, n) = Locations(t2, n)
    <3> HIDE DEF path
    <3> QED BY <1>6, <1>10, CompactTree
  <2> QED BY <2>1, <1>16, <1>13, <1>6, <1>4
<1>18. \A l \in t.swaps : l[1] \in DOMAIN u.nodes =>
         Len(u.nodes[l[1]].pages) = Len(t.nodes[l[1]].pages)
  <2> SUFFICES ASSUME NEW l \in t.swaps, l[1] \in DOMAIN u.nodes
               PROVE  Len(u.nodes[l[1]].pages) = Len(t.nodes[l[1]].pages)
    OBVIOUS
  <2>1. t2.swaps = t.swaps
    BY <1>2, <1>6 DEF Recounted, SameRest
  <2>2. l[1] \notin Trim(t2, path)
    BY <2>1 DEF Trim, Compactable
  <2>3. u.nodes[l[1]] = t2.nodes[l[1]]
    BY <2>2, <1>10, <1>13 DEF CompactedTo
  <2> QED BY <2>3, <1>13
<1>19. Compacted(t) => Compacted(u)
  <2> SUFFICES ASSUME Compacted(t), NEW n \in DOMAIN u.nodes, Compactable(u, n)
               PROVE  \E c \in Children(u, n) : u.nodes[c].take = Len(u.nodes[n].pages)
    BY DEF Compacted
  <2>1. Compactable(t2, n) /\ Children(u, n) = Children(t2, n)
    <3> HIDE DEF path
    <3> QED BY <1>6, <1>10, CompactTree
  <2>2. \A c \in DOMAIN t2.nodes : u.nodes[c].take = t2.nodes[c].take
    BY <1>10 DEF CompactedTo, Pruned
  <2>3. \A c \in Children(t2, n) : c \in DOMAIN t2.nodes
    BY DEF Children
  <2>4. n \in DOMAIN t2.nodes /\ n \in DOMAIN t.nodes /\ n \notin dead
    BY <1>13
  <2>5. CASE n \in path
    <3>1. n \in Trim(t2, path)
      BY <2>1, <2>5 DEF Trim
    <3>2. Len(u.nodes[n].pages) = Kept(t2, n)
      BY <3>1, <2>4, <1>10 DEF CompactedTo
    <3>3. \E c \in Children(t2, n) : t2.nodes[c].take = Kept(t2, n)
      BY <2>1, <1>6, KeptFits
    <3> QED BY <2>1, <2>2, <2>3, <3>2, <3>3
  <2>6. CASE n \notin path
    <3>1. Through(t, A, n) = {}
      BY <2>4, <2>6
    <3>2. u.nodes[n] = t2.nodes[n] /\ t2.nodes[n] = t1.nodes[n] /\ t1.nodes[n] = t.nodes[n]
      BY <3>1, <2>4, <2>6, <1>2, <1>10, <1>13 DEF CompactedTo, Trim
    <3>3. ASSUME NEW c \in Children(t, n) PROVE c \in DOMAIN u.nodes
      <4>1. c \in DOMAIN t.nodes /\ t.nodes[c].parent = n /\ n # NoNode
        BY <2>4, NodeFields DEF Children
      <4>2. PathNodes(t, c) = {c} \cup PathNodes(t, n) /\ n \in PathNodes(t, c)
        BY <4>1, PathFacts
      <4>3. c \notin Bare(t, A)
        <5> SUFFICES ASSUME c \in Bare(t, A) PROVE FALSE
          OBVIOUS
        <5>1. PICK a \in A : c \in PathNodes(t, a)
          BY <1>2 DEF Through
        <5>2. a \in DOMAIN t.nodes
          BY DEF Extends, Counts
        <5>3. n \in PathNodes(t, a)
          BY <5>1, <5>2, <4>2, PathFacts
        <5> QED BY <5>3, <3>1 DEF Through
      <4>4. c \notin dead
        BY <4>2, <4>3, <2>4
      <4> QED BY <4>1, <4>4, <1>13
    <3>4. Children(t2, n) = Children(t, n)
      BY <3>3, <1>13 DEF Children
    <3>5. Compactable(t, n)
      <4>1. \A c \in Children(t, n) : t2.nodes[c].sel = t.nodes[c].sel
        BY <3>3, <1>13
      <4>2. t2.swaps = t.swaps
        BY <1>2, <1>6 DEF Recounted, SameRest
      <4> QED BY <4>1, <4>2, <3>2, <3>4, <2>1, <2>4 DEF Compactable
    <3>6. PICK c \in Children(t, n) : t.nodes[c].take = Len(t.nodes[n].pages)
      BY <3>5, <2>4 DEF Compacted
    <3>7. c \in Children(u, n) /\ u.nodes[c].take = t.nodes[c].take
      BY <3>3, <3>4, <2>1, <1>14 DEF Pruned
    <3> QED BY <3>2, <3>6, <3>7
  <2> QED BY <2>5, <2>6
<1>20. \A n \in DOMAIN u.nodes : u.nodes[n].exact <= t.nodes[n].exact
  <2> SUFFICES ASSUME NEW n \in DOMAIN u.nodes PROVE u.nodes[n].exact <= t.nodes[n].exact
    OBVIOUS
  <2>1. u.nodes[n].exact = Cardinality(AnchorsIn(f, {n})) /\ t.nodes[n].exact = Cardinality(AnchorsIn(g, {n}))
    BY <1>11, <1>13 DEF Counts
  <2>2. Tallied(t, f, g, A, n)
    BY ThroughCounts DEF Counts
  <2> QED BY <2>1, <2>2 DEF Tallied
<1>21. \A n \in DOMAIN u.nodes : u.nodes[n].exact # 0 => Len(u.nodes[n].pages) = Len(t.nodes[n].pages)
  BY <1>16, <1>13, ZenonT(40)
<1>22. Shed(t, u, f)
  BY <1>11, <1>12, <1>14, <1>15, <1>17, <1>18, <1>19, <1>20, <1>21 DEF Shed
<1> QED BY <1>1, <1>22

(* It frees exactly the backings of the locations that went.                *)
LEMMA RemoveFrees ==
  ASSUME NEW t, Shape(t), NEW g, Counts(t, g), NEW A, NEW f, Extends(f, g, A)
  PROVE  RemoveAnchors(t, A).freed = Lost(t, RemoveAnchors(t, A).t)
<1> DEFINE t1 == LessAnchors(t, A)
           path == {m \in DOMAIN t.nodes : Through(t, A, m) # {}}
           dead == {m \in DOMAIN t.nodes : PathNodes(t, m) \cap Bare(t, A) # {}}
           t2 == Detached(t1, dead)
           u == CompactOwners(t2, path).t
           gone == CompactOwners(t2, path).freed
           D == {l \in LiveLocations(t1) : l[1] \in dead}
<1>1. RemoveAnchors(t, A).t = u /\ RemoveAnchors(t, A).freed = gone \cup BackingsAt(t1, D)
  BY DEF RemoveAnchors, DetachUnreferenced, Freeing, Detached, CompactOwners, Result
<1>2. Recounted(t, t1) /\ Shape(t1)
  BY AnchorsLess
<1> HIDE DEF t1
<1>3. SameTree(t, t1)
  BY <1>2 DEF Recounted
<1>4. DOMAIN t1.nodes = DOMAIN t.nodes /\ \A n \in DOMAIN t.nodes : t1.nodes[n].pages = t.nodes[n].pages
  BY <1>2, <1>3 DEF SameTree, Recounted
<1>5. \A n \in DOMAIN t1.nodes \ dead : t1.nodes[n].parent # NoNode => t1.nodes[n].parent \notin dead
  <2> SUFFICES ASSUME NEW n \in DOMAIN t1.nodes \ dead, t1.nodes[n].parent # NoNode, t1.nodes[n].parent \in dead
               PROVE FALSE
    OBVIOUS
  <2>1. n \in DOMAIN t.nodes /\ t1.nodes[n].parent = t.nodes[n].parent
    BY <1>3 DEF SameTree
  <2>2. PathNodes(t, t.nodes[n].parent) \subseteq PathNodes(t, n)
    BY <2>1, PathFacts
  <2> QED BY <2>1, <2>2
<1> HIDE DEF dead, path
<1>6. /\ Shape(t2) /\ DOMAIN t2.nodes = DOMAIN t1.nodes \ dead
      /\ \A n \in DOMAIN t2.nodes : t2.nodes[n] = t1.nodes[n]
  BY <1>2, <1>5, DetachShape
<1> HIDE DEF t2
<1>7. CompactedTo(t2, path, u)
  BY <1>6, CompactShape
<1>8. gone = Lost(t2, u)
  BY <1>6, CompactFrees
<1> HIDE DEF u, gone
<1>9. Shape(u) /\ DOMAIN u.nodes = DOMAIN t2.nodes
      /\ \A n \in DOMAIN u.nodes : Len(u.nodes[n].pages) <= Len(t2.nodes[n].pages)
  BY <1>7 DEF CompactedTo, Pruned
<1>10. \A l \in LiveLocations(t2) : l \in LiveLocations(t) /\ Page(t2, l) = Page(t, l) /\ l[1] \notin dead
  <2> SUFFICES ASSUME NEW l \in LiveLocations(t2)
               PROVE  l \in LiveLocations(t) /\ Page(t2, l) = Page(t, l) /\ l[1] \notin dead
    OBVIOUS
  <2>1. l = <<l[1], l[2]>> /\ l[1] \in DOMAIN t2.nodes /\ l[2] \in 1..Len(t2.nodes[l[1]].pages)
    BY <1>6, LiveIn
  <2>2. l[1] \in DOMAIN t.nodes /\ l[1] \notin dead /\ t2.nodes[l[1]].pages = t.nodes[l[1]].pages
    BY <2>1, <1>4, <1>6
  <2> QED BY <2>1, <2>2, LiveIn DEF Page
<1>11. \A l \in LiveLocations(u) : l \in LiveLocations(t2)
  <2> SUFFICES ASSUME NEW l \in LiveLocations(u) PROVE l \in LiveLocations(t2)
    OBVIOUS
  <2>1. l = <<l[1], l[2]>> /\ l[1] \in DOMAIN u.nodes /\ l[2] \in 1..Len(u.nodes[l[1]].pages)
    BY <1>9, LiveIn
  <2>2. Len(u.nodes[l[1]].pages) \in Nat /\ Len(t2.nodes[l[1]].pages) \in Nat
    BY <2>1, <1>6, <1>9, NodeFields
  <2>3. l[2] \in 1..Len(t2.nodes[l[1]].pages)
    BY <2>1, <2>2, <1>9
  <2> QED BY <2>1, <2>3, <1>6, <1>9, LiveIn
<1>12. \A l \in LiveLocations(t) : l \in LiveLocations(t1) /\ Page(t1, l) = Page(t, l)
  BY <1>2, <1>4, LiveIn DEF Page
<1>13. \A l \in LiveLocations(t1) : l \in LiveLocations(t)
  BY <1>2, <1>4, LiveIn
<1>14. \A l \in LiveLocations(t) : l[1] \in dead \/ l \in LiveLocations(t2)
  <2> SUFFICES ASSUME NEW l \in LiveLocations(t), l[1] \notin dead PROVE l \in LiveLocations(t2)
    OBVIOUS
  <2>1. l = <<l[1], l[2]>> /\ l[1] \in DOMAIN t.nodes /\ l[2] \in 1..Len(t.nodes[l[1]].pages)
    BY LiveIn
  <2> QED BY <2>1, <1>4, <1>6, LiveIn
<1>15. gone \cup BackingsAt(t1, D) = Lost(t, u)
  <2>1. ASSUME NEW b \in gone PROVE b \in Lost(t, u)
    <3>1. PICK l \in LiveLocations(t2) \ LiveLocations(u) : b = Page(t2, l).at
      BY <1>8 DEF Lost, BackingsAt
    <3>2. l \in LiveLocations(t) \ LiveLocations(u) /\ b = Page(t, l).at
      BY <3>1, <1>10
    <3> QED BY <3>2 DEF Lost, BackingsAt
  <2>2. ASSUME NEW b \in BackingsAt(t1, D) PROVE b \in Lost(t, u)
    <3>1. PICK l \in D : b = Page(t1, l).at
      BY DEF BackingsAt
    <3>2. l \in LiveLocations(t) /\ Page(t1, l) = Page(t, l)
      BY <1>12, <1>13
    <3>3. l \notin LiveLocations(u)
      BY <1>10, <1>11
    <3> QED BY <3>1, <3>2, <3>3 DEF Lost, BackingsAt
  <2>3. ASSUME NEW b \in Lost(t, u) PROVE b \in gone \cup BackingsAt(t1, D)
    <3>1. PICK l \in LiveLocations(t) \ LiveLocations(u) : b = Page(t, l).at
      BY DEF Lost, BackingsAt
    <3>2. CASE l[1] \in dead
      <4>1. l \in D /\ b = Page(t1, l).at
        BY <3>1, <3>2, <1>12
      <4> QED BY <4>1 DEF BackingsAt
    <3>3. CASE l[1] \notin dead
      <4>1. l \in LiveLocations(t2) \ LiveLocations(u) /\ b = Page(t2, l).at
        BY <3>1, <3>3, <1>14, <1>10
      <4> QED BY <4>1, <1>8 DEF Lost, BackingsAt
    <3> QED BY <3>2, <3>3
  <2> QED BY <2>1, <2>2, <2>3
<1> QED BY <1>1, <1>15

(* A fresh node id is in use nowhere.                                       *)
LEMMA FreshNodeFresh ==
  ASSUME NEW t, IsFiniteSet(DOMAIN t.nodes), NEW named, IsFiniteSet(named)
  PROVE  /\ FreshNode(t, named) \in Nat \ {0}
         /\ FreshNode(t, named) \notin DOMAIN t.nodes /\ FreshNode(t, named) \notin named
<1> DEFINE U == DOMAIN t.nodes \cup named
           c == Cardinality(U) + 1
           T == (1..c) \ U
<1>1. IsFiniteSet(U)
  BY FS_Union
<1> HIDE DEF U
<1>2. Cardinality(U) \in Nat /\ c \in Nat
  BY <1>1, FS_CardinalityType
<1>3. T # {}
  <2> SUFFICES ASSUME 1..c \subseteq U PROVE FALSE
    BY DEF T
  <2> HIDE DEF c
  <2>1. IsFiniteSet(1..c) /\ Cardinality(1..c) = c
    BY <1>2, CountTo
  <2>2. Cardinality(1..c) <= Cardinality(U)
    BY <1>1, FS_Subset
  <2>3. c <= Cardinality(U)
    BY <2>1, <2>2
  <2> QED BY <2>3, <1>2 DEF c
<1>4. T \in SUBSET Nat /\ T \subseteq Nat \ {0}
  BY <1>2
<1>5. Min(T) \in T
  <2> HIDE DEF T
  <2> QED BY <1>3, <1>4, FirstPosition
<1>6. FreshNode(t, named) = Min(T)
  BY DEF FreshNode, U
<1>7. Min(T) \in Nat \ {0} /\ Min(T) \notin U
  BY <1>4, <1>5
<1> QED BY <1>6, <1>7 DEF U

(* A node no one is below yet.                                              *)
IsLeaf(t, x, node) ==
  /\ x \in Nat \ {0} /\ x \notin DOMAIN t.nodes
  /\ IsNode(node) /\ node.exact = 0 /\ node.path = 0
  /\ node.parent # NoNode => node.parent \in DOMAIN t.nodes
  /\ node.sel => /\ Owns(t, node.parent)
                 /\ node.take \in 1..Len(t.nodes[node.parent].pages)
                 /\ node.pages = <<>>
  /\ ~node.sel => node.pages # <<>>

Grown(t, u, x, node) ==
  /\ Shape(u) /\ SameRest(t, u) /\ DOMAIN u.nodes = DOMAIN t.nodes \cup {x}
  /\ u.nodes[x] = node
  /\ \A n \in DOMAIN t.nodes : /\ u.nodes[n] = t.nodes[n]
                               /\ PathNodes(u, n) = PathNodes(t, n)
                               /\ Predecessor(u, n) = Predecessor(t, n)
                               /\ Locations(u, n) = Locations(t, n)
  /\ Locations(u, NoNode) = Locations(t, NoNode)
  /\ node.parent # NoNode => PathNodes(u, x) = {x} \cup PathNodes(t, node.parent)
  /\ node.parent = NoNode => PathNodes(u, x) = {x}

(* A node added below the others leaves every path as it was.               *)
LEMMA LeafAdded ==
  ASSUME NEW t, Shape(t), NEW x, NEW node, IsLeaf(t, x, node)
  PROVE  Grown(t, WithNode(t, x, node), x, node)
<1> DEFINE u == WithNode(t, x, node)
           E == DOMAIN t.nodes
<1>1. IsTable(t) /\ IsFiniteSet(E) /\ E \subseteq Nat \ {0} /\ \A n \in E : IsNode(t.nodes[n])
  BY DEF Shape, Formed
<1>2. u.nodes = [y \in E \cup {x} |-> IF y = x THEN node ELSE t.nodes[y]] /\ IsTable(u) /\ SameRest(t, u)
  BY <1>1 DEF IsTable, SameRest, WithNode, Put
<1> HIDE DEF u
<1>3. DOMAIN u.nodes = E \cup {x} /\ u.nodes[x] = node /\ \A n \in E : u.nodes[n] = t.nodes[n]
  BY <1>2 DEF IsLeaf
<1>4. Formed(u)
  <2>1. IsFiniteSet(E \cup {x})
    BY <1>1, FS_AddElement
  <2> QED BY <2>1, <1>1, <1>2, <1>3 DEF Formed, IsLeaf
<1>5. Walk(Parents(u))
  <2> DEFINE next == Parents(t)
             more == Parents(u)
  <2>1. Walk(next) /\ DOMAIN next = E /\ \A m \in E : next[m] = t.nodes[m].parent
    BY DEF Shape, Parents
  <2>2. DOMAIN more = E \cup {x} /\ more[x] = node.parent /\ \A m \in E : more[m] = next[m]
    BY <1>3, <2>1 DEF Parents
  <2>3. PICK rank \in [E -> Nat] : Ranked(next, rank) /\ \E k \in Nat : \A m \in E : rank[m] < k
    BY <2>1 DEF Walk
  <2>4. PICK k \in Nat : \A m \in E : rank[m] < k
    BY <2>3
  <2> HIDE DEF next, more, E
  <2> DEFINE high == [m \in E \cup {x} |-> IF m = x THEN k ELSE rank[m]]
  <2>5. high \in [E \cup {x} -> Nat]
    OBVIOUS
  <2>6. high[x] = k /\ \A m \in E : high[m] = rank[m]
    BY DEF IsLeaf, E
  <2>7. Ranked(more, high)
    <3>1. \A m \in E : next[m] # NoNode => next[m] \in E /\ rank[next[m]] < rank[m]
      BY <2>1, <2>3 DEF Ranked
    <3>2. node.parent # NoNode => node.parent \in E
      BY DEF IsLeaf, E
    <3> HIDE DEF high
    <3> QED BY <3>1, <3>2, <2>2, <2>4, <2>6 DEF Ranked
  <2>8. \A m \in E \cup {x} : high[m] < k + 1
    <3> HIDE DEF high
    <3>1. \A m \in E : rank[m] \in Nat
      BY <2>3
    <3> QED BY <2>4, <2>6, <3>1
  <2>9. k + 1 \in Nat
    OBVIOUS
  <2>10. NoNode \notin E \cup {x}
    BY <1>1 DEF IsLeaf, NoNode
  <2> HIDE DEF high
  <2> QED BY <2>2, <2>5, <2>7, <2>8, <2>9, <2>10 DEF Walk, more
<1>6. Linked(u)
  <2>1. \A n \in E : /\ t.nodes[n].parent # NoNode => t.nodes[n].parent \in E
                     /\ t.nodes[n].sel => /\ t.nodes[n].parent \in E /\ ~t.nodes[t.nodes[n].parent].sel
                                          /\ t.nodes[n].take \in 1..Len(t.nodes[t.nodes[n].parent].pages)
                                          /\ t.nodes[n].pages = <<>>
    BY NodeLinks
  <2>2. \A n \in E : ~t.nodes[n].sel => t.nodes[n].pages # <<>>
    BY DEF Shape, Linked
  <2>3. /\ node.parent # NoNode => node.parent \in E
        /\ node.sel => /\ node.parent \in E /\ ~t.nodes[node.parent].sel
                       /\ node.take \in 1..Len(t.nodes[node.parent].pages)
                       /\ node.pages = <<>>
        /\ ~node.sel => node.pages # <<>>
    BY DEF IsLeaf, Owns
  <2> HIDE DEF E
  <2> QED BY <2>1, <2>2, <2>3, <1>3 DEF Linked, Owns
<1>7. Shape(u)
  BY <1>4, <1>5, <1>6 DEF Shape
<1>8. SameLinks(t, u, E)
  <2>1. \A n \in E : t.nodes[n].parent # NoNode => t.nodes[n].parent \in E
    BY NodeLinks
  <2> QED BY <2>1, <1>3 DEF SameLinks
<1>9. \A m \in E : /\ PathNodes(t, m) = PathNodes(u, m)
                   /\ Predecessor(t, m) = Predecessor(u, m)
                   /\ Predecessor(t, m) # NoNode => Predecessor(t, m) \in E
  <2> HIDE DEF E
  <2> QED BY <1>7, <1>8, PathsSame
<1>10. \A m \in E : Locations(t, m) = Locations(u, m)
  <2>1. E \in SUBSET E /\ \A m \in E : ContributionLen(t, m) = ContributionLen(u, m)
    BY <1>3 DEF ContributionLen
  <2>2. \A m \in E : /\ ContributionLen(t, m) = ContributionLen(u, m)
                     /\ Predecessor(t, m) # NoNode => Predecessor(t, m) \in E
    BY <1>9, <2>1
  <2> HIDE DEF E
  <2> QED BY <2>1, <2>2, <1>7, <1>8, LocationsSame
<1>11. /\ node.parent # NoNode => PathNodes(u, x) = {x} \cup PathNodes(t, node.parent)
       /\ node.parent = NoNode => PathNodes(u, x) = {x}
  <2>1. x \in DOMAIN u.nodes /\ u.nodes[x].parent = node.parent
    BY <1>3
  <2>2. /\ node.parent = NoNode => PathNodes(u, x) = {x}
        /\ node.parent # NoNode => PathNodes(u, x) = {x} \cup PathNodes(u, node.parent)
    BY <2>1, <1>7, PathFacts
  <2>3. node.parent # NoNode => node.parent \in E
    BY DEF IsLeaf
  <2> QED BY <2>2, <2>3, <1>9
<1>12. Locations(u, NoNode) = Locations(t, NoNode)
  BY DEF Locations
<1> QED BY <1>2, <1>3, <1>7, <1>9, <1>10, <1>11, <1>12 DEF Grown, u

(* And no anchor at it yet.                                                 *)
LEMMA LeafCounts ==
  ASSUME NEW t, Shape(t), NEW x, NEW node, IsLeaf(t, x, node), NEW u, Grown(t, u, x, node),
         NEW f, Counts(t, f)
  PROVE  Counts(u, f)
<1>1. /\ IsFiniteSet(DOMAIN f) /\ \A a \in DOMAIN f : f[a] \in DOMAIN t.nodes
      /\ \A n \in DOMAIN t.nodes : /\ t.nodes[n].exact = Cardinality(AnchorsIn(f, {n}))
                                   /\ t.nodes[n].path = Cardinality(AnchorsIn(f, Over(t, n)))
  BY DEF Counts
<1>2. /\ DOMAIN u.nodes = DOMAIN t.nodes \cup {x} /\ u.nodes[x] = node /\ x \notin DOMAIN t.nodes
      /\ \A n \in DOMAIN t.nodes : u.nodes[n] = t.nodes[n] /\ PathNodes(u, n) = PathNodes(t, n)
                                   /\ PathNodes(t, n) \subseteq DOMAIN t.nodes
  BY PathFacts DEF Grown, IsLeaf
<1>3. \A n \in DOMAIN t.nodes : AnchorsIn(f, Over(u, n)) = AnchorsIn(f, Over(t, n))
  BY <1>1, <1>2 DEF AnchorsIn, Over
<1>4. AnchorsIn(f, {x}) = {} /\ AnchorsIn(f, Over(u, x)) = {}
  BY <1>1, <1>2 DEF AnchorsIn, Over
<1>5. node.exact = 0 /\ node.path = 0 /\ Cardinality({}) = 0
  BY FS_EmptySet DEF IsLeaf
<1>6. \A n \in DOMAIN u.nodes : /\ u.nodes[n].exact = Cardinality(AnchorsIn(f, {n}))
                                /\ u.nodes[n].path = Cardinality(AnchorsIn(f, Over(u, n)))
  BY <1>1, <1>2, <1>3, <1>4, <1>5
<1> QED BY <1>1, <1>2, <1>6 DEF Counts

(* Below a node on a path is a child of it on the path, unless it ends there. *)
LEMMA PathChild ==
  ASSUME NEW t, Shape(t), NEW n \in DOMAIN t.nodes, NEW m \in PathNodes(t, n), m # n
  PROVE  \E c \in Children(t, m) : c \in PathNodes(t, n)
<1> DEFINE next == Parents(t)
           S == {x \in DOMAIN t.nodes : \A y \in PathNodes(t, x) :
                   y # x => \E c \in Children(t, y) : c \in PathNodes(t, x)}
<1>1. Walk(next) /\ DOMAIN next = DOMAIN t.nodes /\ \A x \in DOMAIN t.nodes : next[x] = t.nodes[x].parent
  BY DEF Shape, Parents
<1>2. ASSUME NEW x \in DOMAIN t.nodes, t.nodes[x].parent # NoNode => t.nodes[x].parent \in S
      PROVE  x \in S
  <2> SUFFICES ASSUME NEW y \in PathNodes(t, x), y # x PROVE \E c \in Children(t, y) : c \in PathNodes(t, x)
    OBVIOUS
  <2> DEFINE p == t.nodes[x].parent
  <2>1. p # NoNode /\ PathNodes(t, x) = {x} \cup PathNodes(t, p) /\ x \in PathNodes(t, x)
    BY PathFacts
  <2>2. y \in PathNodes(t, p) /\ p \in S
    BY <2>1, <1>2
  <2>3. CASE y = p
    BY <2>1, <2>3 DEF Children
  <2>4. CASE y # p
    BY <2>1, <2>2, <2>4
  <2> QED BY <2>3, <2>4
<1>3. DOMAIN next \subseteq S
  <2> HIDE DEF next, S
  <2>1. \A x \in DOMAIN next : (next[x] # NoNode => next[x] \in S) => x \in S
    BY <1>1, <1>2
  <2> QED BY <2>1, <1>1, WalkInduction
<1> QED BY <1>1, <1>3

(* A mapping has a segment for each node on its path that owns pages: that   *)
(* node, or a selection of its pages.                                        *)
LEMMA OwnerRead ==
  ASSUME NEW t, Shape(t), NEW a \in DOMAIN t.nodes, NEW n \in PathNodes(t, a), ~t.nodes[n].sel
  PROVE  \/ n \in Segments(t, a)
         \/ \E c \in Children(t, n) : t.nodes[c].sel /\ c \in Segments(t, a)
<1> DEFINE next == Predecessors(t)
           Good(x, y) == \/ y \in Segments(t, x)
                         \/ \E c \in Children(t, y) : t.nodes[c].sel /\ c \in Segments(t, x)
           S == {x \in DOMAIN t.nodes : \A y \in PathNodes(t, x) : ~t.nodes[y].sel => Good(x, y)}
<1>1. Walk(next) /\ DOMAIN next = DOMAIN t.nodes
  BY PredecessorWalk
<1>2. \A m \in DOMAIN t.nodes : next[m] = Predecessor(t, m)
  BY DEF Predecessors
<1>3. \A x : Segments(t, x) = Up(next, x)
  BY DEF Segments
<1> HIDE DEF next
<1>4. ASSUME NEW x \in DOMAIN t.nodes, Predecessor(t, x) # NoNode => Predecessor(t, x) \in S
      PROVE  x \in S
  <2> SUFFICES ASSUME NEW y \in PathNodes(t, x), ~t.nodes[y].sel PROVE Good(x, y)
    OBVIOUS
  <2> DEFINE p == Predecessor(t, x)
  <2>1. x \in Segments(t, x) /\ (p # NoNode => Segments(t, p) \subseteq Segments(t, x))
    BY <1>1, <1>2, <1>3, UpIn
  <2>2. ASSUME p # NoNode, y \in PathNodes(t, p) PROVE Good(x, y)
    BY <2>1, <2>2, <1>4
  <2>3. CASE ~t.nodes[x].sel
    <3>1. y = x \/ (p # NoNode /\ y \in PathNodes(t, p))
      BY <2>3, PathFacts, PredecessorFacts
    <3> QED BY <2>1, <2>2, <3>1
  <2>4. CASE t.nodes[x].sel
    <3> DEFINE o == t.nodes[x].parent
    <3>1. o # NoNode /\ o \in DOMAIN t.nodes /\ ~t.nodes[o].sel /\ p = t.nodes[o].parent /\ x \in Children(t, o)
      BY <2>4, NodeLinks DEF Predecessor, Children
    <3>2. PathNodes(t, x) = {x} \cup PathNodes(t, o)
      BY <3>1, PathFacts
    <3>3. y = x \/ y = o \/ (p # NoNode /\ y \in PathNodes(t, p))
      BY <3>1, <3>2, PathFacts
    <3> QED BY <2>1, <2>2, <2>4, <3>1, <3>3
  <2> QED BY <2>3, <2>4
<1>5. DOMAIN next \subseteq S
  <2> HIDE DEF S
  <2>1. \A x \in DOMAIN next : (next[x] # NoNode => next[x] \in S) => x \in S
    BY <1>1, <1>2, <1>4
  <2> QED BY <2>1, <1>1, WalkInduction
<1> QED BY <1>1, <1>5

(* The predecessor of a segment is a segment.                               *)
LEMMA SegmentsUp ==
  ASSUME NEW t, Shape(t), NEW a \in DOMAIN t.nodes, NEW m \in Segments(t, a)
  PROVE  /\ m \in DOMAIN t.nodes
         /\ Predecessor(t, m) # NoNode => Predecessor(t, m) \in Segments(t, a)
<1> DEFINE next == Predecessors(t)
<1>1. Walk(next) /\ DOMAIN next = DOMAIN t.nodes
  BY PredecessorWalk
<1>2. \A x \in DOMAIN t.nodes : next[x] = Predecessor(t, x)
  BY DEF Predecessors
<1>3. Segments(t, a) = Up(next, a)
  BY DEF Segments
<1> HIDE DEF next
<1>4. Up(next, m) \subseteq Up(next, a) /\ m \in DOMAIN next
  BY <1>1, <1>3, UpTrans
<1>5. next[m] # NoNode => next[m] \in Up(next, m)
  BY <1>1, <1>4, UpIn
<1> QED BY <1>1, <1>2, <1>3, <1>4, <1>5

(* The parent of an owner on a path is read by the path.                    *)
LEMMA BeforeOwnerRead ==
  ASSUME NEW t, Shape(t), NEW a \in DOMAIN t.nodes, NEW c \in PathNodes(t, a), ~t.nodes[c].sel,
         t.nodes[c].parent # NoNode
  PROVE  t.nodes[c].parent \in Segments(t, a)
<1>1. c \in DOMAIN t.nodes
  BY PathFacts
<1>2. CASE c \in Segments(t, a)
  BY <1>2, SegmentsUp DEF Predecessor
<1>3. ASSUME NEW d \in Children(t, c), t.nodes[d].sel, d \in Segments(t, a)
      PROVE  t.nodes[c].parent \in Segments(t, a)
  BY <1>3, SegmentsUp DEF Predecessor, Children
<1> QED BY <1>2, <1>3, OwnerRead

(* A selection on a path is read by it.                                     *)
LEMMA SelectionRead ==
  ASSUME NEW t, Shape(t), NEW a \in DOMAIN t.nodes, NEW c \in PathNodes(t, a), t.nodes[c].sel
  PROVE  c \in Segments(t, a)
<1>1. CASE c = a
  BY <1>1, SegmentFacts
<1>2. CASE c # a
  <2>1. PICK d \in Children(t, c) : d \in PathNodes(t, a)
    BY <1>2, PathChild
  <2>2. d \in DOMAIN t.nodes /\ t.nodes[d].parent = c
    BY DEF Children
  <2>3. c # NoNode /\ c \in DOMAIN t.nodes
    BY PathFacts, NodeFields
  <2>4. ~t.nodes[d].sel
    BY <2>2, NodeLinks
  <2> QED BY <2>1, <2>2, <2>3, <2>4, BeforeOwnerRead
<1> QED BY <1>1, <1>2

(* A path holds the contribution of each of its segments.                   *)
LEMMA SegmentHas ==
  ASSUME NEW t, Shape(t), NEW a \in DOMAIN t.nodes, NEW m \in Segments(t, a),
         NEW i \in 1..ContributionLen(t, m)
  PROVE  <<Source(t, m), i>> \in ToSet(Locations(t, a))
<1>1. m \in DOMAIN t.nodes /\ ToSet(Locations(t, a)) = UNION {ToSet(NodeLocations(t, x)) : x \in Segments(t, a)}
  BY SegmentFacts
<1>2. NodeLocations(t, m) \in Seq(Nat \X Nat) /\ Len(NodeLocations(t, m)) = ContributionLen(t, m)
  BY <1>1, PartsTyped
<1>3. NodeLocations(t, m)[i] = <<Source(t, m), i>>
  BY <1>1, PartsTyped
<1>4. <<Source(t, m), i>> \in ToSet(NodeLocations(t, m))
  <2> DEFINE s == NodeLocations(t, m)
  <2>1. DOMAIN s = 1..ContributionLen(t, m)
    BY <1>2, LenProperties
  <2> QED BY <1>3, <2>1 DEF ToSet
<1> QED BY <1>1, <1>4

(* A node with a path count has an anchor at or below it.                   *)
LEMMA AnchorBelow ==
  ASSUME NEW t, NEW f, Counts(t, f), NEW n \in DOMAIN t.nodes, t.nodes[n].path > 0
  PROVE  \E a \in DOMAIN f : f[a] \in DOMAIN t.nodes /\ n \in PathNodes(t, f[a])
<1>1. t.nodes[n].path = Cardinality(AnchorsIn(f, Over(t, n)))
  BY DEF Counts
<1>2. AnchorsIn(f, Over(t, n)) # {}
  BY <1>1, FS_EmptySet
<1> QED BY <1>2 DEF AnchorsIn, Over

(* An anchored node has a count of its own.                                 *)
LEMMA AnchorAt ==
  ASSUME NEW t, NEW f, Counts(t, f), NEW a \in DOMAIN f
  PROVE  f[a] \in DOMAIN t.nodes /\ t.nodes[f[a]].exact # 0 /\ t.nodes[f[a]].exact > 0
<1> DEFINE n == f[a]
           X == AnchorsIn(f, {n})
<1>1. n \in DOMAIN t.nodes /\ t.nodes[n].exact = Cardinality(X) /\ IsFiniteSet(DOMAIN f)
  BY DEF Counts
<1>2. IsFiniteSet(X) /\ X # {}
  BY <1>1, FS_Subset DEF AnchorsIn
<1>3. Cardinality(X) \in Nat /\ Cardinality(X) # 0
  BY <1>2, FS_EmptySet, FS_CardinalityType
<1> QED BY <1>1, <1>3

(* Every page of a node no move has a page of is read.                      *)
LEMMA PagesRead ==
  ASSUME NEW t, Shape(t), NEW f, Counts(t, f), AllAnchored(t), Compacted(t),
         NEW l \in LiveLocations(t), \A k \in t.swaps : k[1] # l[1]
  PROVE  \E a \in DOMAIN f : l \in ToSet(Locations(t, f[a]))
<1> DEFINE n == l[1]
<1>1. l = <<n, l[2]>> /\ n \in DOMAIN t.nodes /\ l[2] \in 1..Len(t.nodes[n].pages)
  BY LiveIn
<1>2. ~t.nodes[n].sel
  <2> SUFFICES ASSUME t.nodes[n].sel PROVE FALSE
    OBVIOUS
  <2>1. t.nodes[n].pages = <<>> /\ Len(<<>>) = 0
    BY <1>1, NodeLinks
  <2> QED BY <2>1, <1>1
<1>3. ContributionLen(t, n) = Len(t.nodes[n].pages) /\ Source(t, n) = n
  BY <1>1, <1>2, PredecessorFacts
<1>4. ASSUME NEW a \in DOMAIN f, f[a] \in DOMAIN t.nodes, n \in Segments(t, f[a])
      PROVE  l \in ToSet(Locations(t, f[a]))
  <2>1. <<Source(t, n), l[2]>> \in ToSet(Locations(t, f[a]))
    BY <1>1, <1>3, <1>4, SegmentHas
  <2> QED BY <2>1, <1>1, <1>3
<1> HIDE DEF n
<1>5. CASE \E c \in Children(t, n) : ~t.nodes[c].sel
  <2>1. PICK c \in Children(t, n) : ~t.nodes[c].sel
    BY <1>5
  <2>2. c \in DOMAIN t.nodes /\ t.nodes[c].parent = n /\ n # NoNode
    BY <1>1, NodeFields DEF Children
  <2>3. PICK a \in DOMAIN f : f[a] \in DOMAIN t.nodes /\ c \in PathNodes(t, f[a])
    BY <2>2, AnchorBelow DEF AllAnchored
  <2>4. n \in Segments(t, f[a])
    BY <2>1, <2>2, <2>3, BeforeOwnerRead
  <2> QED BY <2>3, <2>4, <1>4
<1>6. CASE t.nodes[n].exact # 0
  <2>1. t.nodes[n].exact = Cardinality(AnchorsIn(f, {n}))
    BY <1>1 DEF Counts
  <2>2. AnchorsIn(f, {n}) # {}
    BY <2>1, <1>6, FS_EmptySet
  <2>3. PICK a \in DOMAIN f : f[a] = n
    BY <2>2 DEF AnchorsIn
  <2>4. n \in Segments(t, n)
    BY <1>1, SegmentFacts
  <2> QED BY <2>3, <2>4, <1>1, <1>4
<1>7. CASE (\A c \in Children(t, n) : t.nodes[c].sel) /\ t.nodes[n].exact = 0
  <2>1. PICK b \in DOMAIN f : f[b] \in DOMAIN t.nodes /\ n \in PathNodes(t, f[b])
    BY <1>1, AnchorBelow DEF AllAnchored
  <2>2. f[b] # n
    BY <1>7, AnchorAt
  <2>3. Children(t, n) # {}
    BY <2>1, <2>2, PathChild
  <2>4. Compactable(t, n)
    BY <1>1, <1>2, <1>7, <2>3 DEF Compactable, n
  <2>5. PICK c \in Children(t, n) : t.nodes[c].take = Len(t.nodes[n].pages)
    BY <2>4, <1>1 DEF Compacted
  <2>6. c \in DOMAIN t.nodes /\ t.nodes[c].parent = n /\ t.nodes[c].sel
    BY <1>7 DEF Children
  <2>7. PICK a \in DOMAIN f : f[a] \in DOMAIN t.nodes /\ c \in PathNodes(t, f[a])
    BY <2>6, AnchorBelow DEF AllAnchored
  <2>8. c \in Segments(t, f[a])
    BY <2>6, <2>7, SelectionRead
  <2>9. Source(t, c) = n /\ ContributionLen(t, c) = Len(t.nodes[n].pages)
    BY <2>5, <2>6 DEF Source, ContributionLen
  <2>10. <<Source(t, c), l[2]>> \in ToSet(Locations(t, f[a]))
    BY <2>7, <2>8, <2>9, <1>1, SegmentHas
  <2> QED BY <2>9, <2>10, <1>1
<1> QED BY <1>5, <1>6, <1>7

(* When what the anchors let go read is read by one that stays, nothing is  *)
(* lost.                                                                    *)
LEMMA NothingLost ==
  ASSUME NEW t, Shape(t), NEW g, Counts(t, g), AllAnchored(t), Compacted(t),
         NEW u, NEW f, NEW A, Extends(f, g, A), Shed(t, u, f),
         \A n \in A : \E a \in DOMAIN f : ToSet(Locations(t, n)) \subseteq ToSet(Locations(t, f[a]))
  PROVE  LiveLocations(u) = LiveLocations(t) /\ Lost(t, u) = {}
<1>1. Shape(u) /\ Counts(u, f) /\ SameRest(t, u) /\ Pruned(t, u)
  BY DEF Shed
<1>2. ASSUME NEW a \in DOMAIN f
      PROVE  f[a] \in DOMAIN u.nodes /\ f[a] \in DOMAIN t.nodes /\ Locations(u, f[a]) = Locations(t, f[a])
  <2>1. f[a] \in DOMAIN u.nodes /\ u.nodes[f[a]].exact # 0
    BY <1>1, AnchorAt
  <2> QED BY <2>1, <1>1 DEF Shed, Pruned
<1>3. ASSUME NEW a \in DOMAIN f, NEW l \in ToSet(Locations(t, f[a])) PROVE l \in LiveLocations(u)
  <2>1. f[a] \in DOMAIN u.nodes /\ l \in ToSet(Locations(u, f[a]))
    BY <1>2
  <2>2. f[a] \in DOMAIN u.nodes \cup {NoNode}
    BY <2>1
  <2> QED BY <2>1, <2>2, <1>1, LocationsLive
<1>4. ASSUME NEW b \in DOMAIN g, NEW l \in ToSet(Locations(t, g[b])) PROVE l \in LiveLocations(u)
  <2>1. CASE b \in DOMAIN f
    BY <2>1, <1>3 DEF Extends
  <2>2. CASE b \notin DOMAIN f
    <3>1. g[b] \in A
      BY <2>2 DEF Extends
    <3>2. PICK a \in DOMAIN f : l \in ToSet(Locations(t, f[a]))
      BY <3>1
    <3> QED BY <3>2, <1>3
  <2> QED BY <2>1, <2>2
<1>5. ASSUME NEW l \in LiveLocations(t) PROVE l \in LiveLocations(u)
  <2> DEFINE n == l[1]
  <2>1. l = <<n, l[2]>> /\ n \in DOMAIN t.nodes /\ l[2] \in 1..Len(t.nodes[n].pages)
    BY LiveIn
  <2>2. CASE \A k \in t.swaps : k[1] # n
    <3>1. PICK b \in DOMAIN g : l \in ToSet(Locations(t, g[b]))
      BY <2>2, PagesRead
    <3> QED BY <3>1, <1>4
  <2>3. CASE \E k \in t.swaps : k[1] = n
    <3>1. ~t.nodes[n].sel
      <4> SUFFICES ASSUME t.nodes[n].sel PROVE FALSE
        OBVIOUS
      <4>1. t.nodes[n].pages = <<>> /\ Len(<<>>) = 0
        BY <2>1, NodeLinks
      <4> QED BY <4>1, <2>1
    <3>2. PICK b \in DOMAIN g : g[b] \in DOMAIN t.nodes /\ n \in PathNodes(t, g[b])
      BY <2>1, AnchorBelow DEF AllAnchored
    <3>3. PICK m \in Segments(t, g[b]) : Source(t, m) = n /\ m \in DOMAIN t.nodes
      <4>1. CASE n \in Segments(t, g[b])
        BY <4>1, <2>1, <3>1 DEF Source
      <4>2. ASSUME NEW c \in Children(t, n), t.nodes[c].sel, c \in Segments(t, g[b])
            PROVE  Source(t, c) = n /\ c \in DOMAIN t.nodes
        BY <4>2 DEF Source, Children
      <4> QED BY <4>1, <4>2, <2>1, <3>1, <3>2, OwnerRead
    <3>4. 1 \in 1..ContributionLen(t, m)
      BY <3>3, PredecessorFacts
    <3>5. <<n, 1>> \in ToSet(Locations(t, g[b]))
      BY <3>2, <3>3, <3>4, SegmentHas
    <3>6. <<n, 1>> \in LiveLocations(u)
      BY <3>5, <1>4
    <3>7. n \in DOMAIN u.nodes
      BY <3>6, <1>1, LiveIn
    <3>8. Len(u.nodes[n].pages) = Len(t.nodes[n].pages)
      BY <3>7, <2>3 DEF Shed
    <3> QED BY <2>1, <3>7, <3>8, <1>1, LiveIn
  <2> QED BY <2>2, <2>3
<1>6. ASSUME NEW l \in LiveLocations(u) PROVE l \in LiveLocations(t)
  <2>1. l = <<l[1], l[2]>> /\ l[1] \in DOMAIN u.nodes /\ l[2] \in 1..Len(u.nodes[l[1]].pages)
    BY <1>1, LiveIn
  <2>2. l[1] \in DOMAIN t.nodes /\ Len(u.nodes[l[1]].pages) <= Len(t.nodes[l[1]].pages)
    BY <2>1, <1>1 DEF Pruned
  <2>3. Len(u.nodes[l[1]].pages) \in Nat /\ Len(t.nodes[l[1]].pages) \in Nat
    BY <2>1, <2>2, <1>1, NodeFields
  <2>4. l[2] \in 1..Len(t.nodes[l[1]].pages)
    BY <2>1, <2>2, <2>3
  <2> QED BY <2>1, <2>2, <2>4, LiveIn
<1>7. LiveLocations(u) = LiveLocations(t)
  BY <1>5, <1>6
<1> QED BY <1>7 DEF Lost, BackingsAt

(* The trie is sound: it has its shape, its nodes count the anchors there   *)
(* are, each has one, and pages no one reads are cut.                       *)
Trie(t) == /\ Shape(t) /\ Counts(t, AnchoredAt(t)) /\ AllAnchored(t) /\ Compacted(t)

(* Only what is not in the nodes differs.                                   *)
SameNodes(t, u) == IsTable(u) /\ u.nodes = t.nodes

(* A table with the same nodes has the same shape, paths and counts.        *)
LEMMA NodesSame ==
  ASSUME NEW t, Shape(t), NEW u, SameNodes(t, u)
  PROVE  /\ Shape(u) /\ SameTree(t, u) /\ LiveLocations(u) = LiveLocations(t)
         /\ AllAnchored(t) => AllAnchored(u)
         /\ \A n : Locations(u, n) = Locations(t, n)
         /\ \A n : PathNodes(u, n) = PathNodes(t, n)
         /\ \A f : Counts(t, f) => Counts(u, f)
<1>1. SameTree(t, u)
  BY DEF SameNodes, SameTree
<1>2. Formed(u)
  BY DEF Shape, Formed, SameNodes
<1>3. Shape(u)
  BY <1>1, <1>2, ShapeSame
<1>4. \A n : Locations(u, n) = Locations(t, n) /\ PathNodes(u, n) = PathNodes(t, n)
  BY <1>1, TreeSame
<1>5. \A n : Over(u, n) = Over(t, n)
  BY <1>4 DEF Over, SameNodes
<1>6. \A f : Counts(t, f) => Counts(u, f)
  BY <1>5 DEF Counts, SameNodes
<1>7. LiveLocations(u) = LiveLocations(t)
  BY DEF LiveLocations, SameNodes
<1>8. AllAnchored(t) => AllAnchored(u)
  BY DEF AllAnchored, SameNodes
<1> QED BY <1>1, <1>3, <1>4, <1>6, <1>7, <1>8

(* Compacting takes no account of anchors that come.                        *)
LEMMA RecountedCompacted ==
  ASSUME NEW t, Shape(t), Compacted(t), NEW u, SameTree(t, u), t.swaps \subseteq u.swaps,
         \A n \in DOMAIN t.nodes : u.nodes[n].exact = 0 => t.nodes[n].exact = 0
  PROVE  Compacted(u)
<1> SUFFICES ASSUME NEW n \in DOMAIN u.nodes, Compactable(u, n)
             PROVE  \E c \in Children(u, n) : u.nodes[c].take = Len(u.nodes[n].pages)
  BY DEF Compacted
<1>1. n \in DOMAIN t.nodes /\ Children(u, n) = Children(t, n) /\ DOMAIN u.nodes = DOMAIN t.nodes
  BY TreeSame DEF SameTree
<1>2. \A c \in Children(t, n) : c \in DOMAIN t.nodes /\ u.nodes[c].sel = t.nodes[c].sel /\ u.nodes[c].take = t.nodes[c].take
  BY DEF Children, SameTree
<1>3. u.nodes[n].sel = t.nodes[n].sel /\ Len(u.nodes[n].pages) = Len(t.nodes[n].pages)
  BY <1>1 DEF SameTree
<1>4. Compactable(t, n)
  BY <1>1, <1>2, <1>3 DEF Compactable
<1> QED BY <1>1, <1>2, <1>3, <1>4 DEF Compacted

(* The anchors: each set's terminal, each leased root, each pinned node.    *)
LEMMA AnchorKinds ==
  ASSUME NEW t
  PROVE  /\ DOMAIN AnchoredAt(t) = Anchors(t)
         /\ \A a : a \in Anchors(t) <=>
              \/ a = <<"set", a[2]>> /\ a[2] \in DOMAIN t.ws /\ t.ws[a[2]].terminal # NoNode
              \/ a = <<"root", a[2]>> /\ a[2] \in DOMAIN t.roots
              \/ a = <<"pin", a[2]>> /\ a[2] \in DOMAIN t.pins
         /\ \A w \in DOMAIN t.ws : t.ws[w].terminal # NoNode =>
              <<"set", w>> \in Anchors(t) /\ AnchoredAt(t)[<<"set", w>>] = t.ws[w].terminal
         /\ \A n \in DOMAIN t.roots : <<"root", n>> \in Anchors(t) /\ AnchoredAt(t)[<<"root", n>>] = n
         /\ \A n \in DOMAIN t.pins : <<"pin", n>> \in Anchors(t) /\ AnchoredAt(t)[<<"pin", n>>] = n
         /\ \A a \in Anchors(t) : /\ a[1] = "set" => AnchoredAt(t)[a] = t.ws[a[2]].terminal
                                  /\ a[1] # "set" => AnchoredAt(t)[a] = a[2]
<1>1. DOMAIN AnchoredAt(t) = Anchors(t)
  BY DEF AnchoredAt
<1>2. \A a \in Anchors(t) : AnchoredAt(t)[a] = IF a[1] = "set" THEN t.ws[a[2]].terminal ELSE a[2]
  BY DEF AnchoredAt
<1>3. \A a : a \in Anchors(t) <=>
              \/ a = <<"set", a[2]>> /\ a[2] \in DOMAIN t.ws /\ t.ws[a[2]].terminal # NoNode
              \/ a = <<"root", a[2]>> /\ a[2] \in DOMAIN t.roots
              \/ a = <<"pin", a[2]>> /\ a[2] \in DOMAIN t.pins
  BY DEF Anchors
<1> QED BY <1>1, <1>2, <1>3

(* What a trie with other anchors is, once they are counted.                *)
Counted(t, u) ==
  /\ Trie(u) /\ Recounted(t, u)
  /\ \A n : Locations(u, n) = Locations(t, n)
  /\ \A n : PathNodes(u, n) = PathNodes(t, n)
  /\ LiveLocations(u) = LiveLocations(t)

(* add_anchors for the anchors a change of the registers brings.            *)
LEMMA Adding ==
  ASSUME NEW t, Trie(t), NEW s, SameNodes(t, s), s.swaps = t.swaps, NEW A \in SUBSET DOMAIN t.nodes,
         Extends(AnchoredAt(t), AnchoredAt(s), A), IsFiniteSet(Anchors(s))
  PROVE  Counted(s, AddAnchors(s, A))
<1> DEFINE u == AddAnchors(s, A)
           f == AnchoredAt(t)
           g == AnchoredAt(s)
<1>1. Shape(t) /\ Counts(t, f) /\ AllAnchored(t) /\ Compacted(t)
  BY DEF Trie
<1>2. Shape(s) /\ Counts(s, f) /\ AllAnchored(s) /\ SameTree(t, s)
  BY <1>1, NodesSame
<1>3. IsFiniteSet(DOMAIN g)
  BY AnchorKinds
<1>4. \A a \in DOMAIN g : g[a] \in DOMAIN s.nodes
  <2>1. DOMAIN s.nodes = DOMAIN t.nodes
    BY DEF SameNodes
  <2> HIDE DEF f, g
  <2> QED BY <2>1, <1>1 DEF Extends, Counts, f, g
<1> HIDE DEF f, g
<1>5. /\ Recounted(s, u) /\ Shape(u) /\ Counts(u, g)
      /\ \A n \in DOMAIN s.nodes : s.nodes[n].exact >= 0 /\ u.nodes[n].exact >= s.nodes[n].exact
      /\ AllAnchored(s) => AllAnchored(u)
  BY <1>2, <1>3, <1>4, AnchorsAdded DEF f, g
<1> HIDE DEF u
<1>6. AnchoredAt(u) = g
  BY <1>5 DEF g, Recounted, AnchoredAt, Anchors
<1>7. SameTree(s, u) /\ u.swaps = s.swaps
  BY <1>5 DEF Recounted
<1>8. Compacted(s)
  BY <1>1, <1>2, RecountedCompacted DEF SameNodes
<1>9. \A n \in DOMAIN s.nodes : u.nodes[n].exact = 0 => s.nodes[n].exact = 0
  <2>1. \A n \in DOMAIN s.nodes : s.nodes[n].exact \in Int /\ u.nodes[n].exact \in Int
    BY <1>2, <1>5, <1>7, NodeFields DEF SameTree
  <2> QED BY <2>1, <1>5
<1>10. Compacted(u)
  BY <1>2, <1>7, <1>8, <1>9, RecountedCompacted
<1>11. Trie(u)
  BY <1>2, <1>5, <1>6, <1>10 DEF Trie
<1>12. /\ \A n : Locations(u, n) = Locations(s, n)
       /\ \A n : PathNodes(u, n) = PathNodes(s, n)
  BY <1>2, <1>7, TreeSame
<1>13. LiveLocations(u) = LiveLocations(s)
  BY <1>5 DEF Recounted, SameTree, LiveLocations
<1> QED BY <1>5, <1>11, <1>12, <1>13 DEF Counted, u

(* What letting anchors go leaves of t.                                     *)
Left(t, u) ==
  /\ Trie(u) /\ SameRest(t, u) /\ Pruned(t, u)
  /\ \A n \in DOMAIN u.nodes : u.nodes[n].exact # 0 => Locations(u, n) = Locations(t, n)
  /\ \A n \in DOMAIN u.nodes : u.nodes[n].exact # 0 => Len(u.nodes[n].pages) = Len(t.nodes[n].pages)
  /\ \A l \in t.swaps : l[1] \in DOMAIN u.nodes => Len(u.nodes[l[1]].pages) = Len(t.nodes[l[1]].pages)
  /\ \A a \in Anchors(u) : /\ AnchoredAt(u)[a] \in DOMAIN u.nodes
                           /\ Locations(u, AnchoredAt(u)[a]) = Locations(t, AnchoredAt(u)[a])

(* remove_anchors for those it takes: what is still anchored reads the      *)
(* same.                                                                    *)
LEMMA Removing ==
  ASSUME NEW s, Shape(s), NEW g, Counts(s, g), AllAnchored(s), Compacted(s), NEW A,
         Extends(AnchoredAt(s), g, A)
  PROVE  /\ Left(s, RemoveAnchors(s, A).t)
         /\ RemoveAnchors(s, A).freed = Lost(s, RemoveAnchors(s, A).t)
         /\ Shed(s, RemoveAnchors(s, A).t, AnchoredAt(s))
<1> DEFINE u == RemoveAnchors(s, A).t
           f == AnchoredAt(s)
<1>1. Shed(s, u, f)
  BY AnchorsRemoved
<1>2. RemoveAnchors(s, A).freed = Lost(s, u)
  BY RemoveFrees
<1> HIDE DEF u
<1>3. AnchoredAt(u) = f /\ Anchors(u) = Anchors(s)
  BY <1>1 DEF Shed, SameRest, AnchoredAt, Anchors, f
<1> HIDE DEF f
<1>4. Trie(u)
  BY <1>1, <1>3 DEF Shed, Trie
<1>5. ASSUME NEW a \in Anchors(u)
      PROVE  AnchoredAt(u)[a] \in DOMAIN u.nodes /\ Locations(u, AnchoredAt(u)[a]) = Locations(s, AnchoredAt(u)[a])
  <2>1. a \in DOMAIN f /\ Counts(u, f)
    BY <1>1, <1>3, AnchorKinds DEF Shed, f
  <2>2. f[a] \in DOMAIN u.nodes /\ u.nodes[f[a]].exact # 0
    BY <2>1, AnchorAt
  <2> QED BY <2>2, <1>1, <1>3 DEF Shed
<1> QED BY <1>1, <1>2, <1>4, <1>5 DEF Left, Shed, u, f

(* A new node is read by no one yet; the others are as compact as before.   *)
LEMMA LeafCompacted ==
  ASSUME NEW t, Trie(t), NEW x, NEW node, IsLeaf(t, x, node), NEW u, Grown(t, u, x, node)
  PROVE  Compacted(u)
<1>1. /\ DOMAIN u.nodes = DOMAIN t.nodes \cup {x} /\ u.nodes[x] = node /\ x \notin DOMAIN t.nodes
      /\ \A n \in DOMAIN t.nodes : u.nodes[n] = t.nodes[n]
      /\ u.swaps = t.swaps /\ x # NoNode
  BY DEF Grown, IsLeaf, SameRest, NoNode
<1>2. Shape(t) /\ Counts(t, AnchoredAt(t)) /\ AllAnchored(t) /\ Compacted(t)
  BY DEF Trie
<1> SUFFICES ASSUME NEW n \in DOMAIN u.nodes, Compactable(u, n)
             PROVE  \E c \in Children(u, n) : u.nodes[c].take = Len(u.nodes[n].pages)
  BY DEF Compacted
<1>3. n \in DOMAIN t.nodes
  <2> SUFFICES ASSUME n = x PROVE FALSE
    BY <1>1
  <2>1. PICK c \in DOMAIN u.nodes : u.nodes[c].parent = x
    BY DEF Compactable, Children
  <2>2. CASE c = x
    <3>1. node.parent = x /\ x # NoNode
      BY <2>1, <2>2, <1>1
    <3> QED BY <3>1, <1>1 DEF IsLeaf
  <2>3. CASE c \in DOMAIN t.nodes
    BY <2>1, <2>3, <1>1, <1>2, NodeLinks
  <2> QED BY <2>2, <2>3, <1>1
<1>4. Children(t, n) \subseteq Children(u, n)
  BY <1>1 DEF Children
<1>5. t.nodes[n].exact = 0 /\ ~t.nodes[n].sel /\ \A c \in Children(t, n) : t.nodes[c].sel
  <2>1. u.nodes[n] = t.nodes[n]
    BY <1>1, <1>3
  <2>2. \A c \in Children(t, n) : c \in Children(u, n) /\ u.nodes[c] = t.nodes[c]
    BY <1>1, <1>4 DEF Children
  <2> QED BY <2>1, <2>2 DEF Compactable
<1>6. Children(t, n) # {}
  <2>1. t.nodes[n].path > 0
    BY <1>2, <1>3 DEF AllAnchored
  <2> DEFINE f == AnchoredAt(t)
  <2>2. Counts(t, f)
    BY <1>2
  <2> HIDE DEF f
  <2>3. PICK a \in DOMAIN f : f[a] \in DOMAIN t.nodes /\ n \in PathNodes(t, f[a])
    BY <2>1, <2>2, <1>3, AnchorBelow
  <2>4. f[a] # n
    BY <2>2, <1>5, AnchorAt
  <2> QED BY <2>3, <2>4, <1>2, PathChild
<1>7. Compactable(t, n)
  BY <1>1, <1>3, <1>5, <1>6 DEF Compactable
<1>8. PICK c \in Children(t, n) : t.nodes[c].take = Len(t.nodes[n].pages)
  BY <1>2, <1>3, <1>7 DEF Compacted
<1>9. c \in DOMAIN t.nodes /\ u.nodes[c] = t.nodes[c] /\ u.nodes[n] = t.nodes[n]
  BY <1>1, <1>3, <1>8 DEF Children
<1> QED BY <1>4, <1>8, <1>9

(* Sound but for a node no one has anchored yet.                            *)
Almost(t, n) ==
  /\ Shape(t) /\ Counts(t, AnchoredAt(t)) /\ Compacted(t)
  /\ \A m \in DOMAIN t.nodes : m # n => t.nodes[m].path > 0

(* A trie is one but for the anchors of any node.                           *)
LEMMA TrieAlmost ==
  ASSUME NEW t, Trie(t), NEW n
  PROVE  Almost(t, n)
BY DEF Trie, Almost, AllAnchored

(* A leaf with no anchor yet makes an almost-trie.                          *)
LEMMA Sprouts ==
  ASSUME NEW t, Trie(t), NEW x, NEW node, IsLeaf(t, x, node)
  PROVE  /\ Grown(t, WithNode(t, x, node), x, node) /\ Almost(WithNode(t, x, node), x)
         /\ AnchoredAt(WithNode(t, x, node)) = AnchoredAt(t)
         /\ Anchors(WithNode(t, x, node)) = Anchors(t)
<1> DEFINE u == WithNode(t, x, node)
<1>1. Shape(t) /\ Counts(t, AnchoredAt(t)) /\ AllAnchored(t) /\ Compacted(t)
  BY DEF Trie
<1>2. Grown(t, u, x, node)
  BY <1>1, LeafAdded
<1> HIDE DEF u
<1>3. AnchoredAt(u) = AnchoredAt(t) /\ Anchors(u) = Anchors(t)
  BY <1>2 DEF Grown, SameRest, AnchoredAt, Anchors
<1>4. Counts(u, AnchoredAt(u))
  BY <1>1, <1>2, <1>3, LeafCounts
<1>5. Compacted(u)
  BY <1>2, LeafCompacted
<1>6. \A m \in DOMAIN u.nodes : m # x => u.nodes[m].path > 0
  BY <1>1, <1>2 DEF Grown, AllAnchored
<1>7. Shape(u)
  BY <1>2 DEF Grown
<1> QED BY <1>2, <1>3, <1>4, <1>5, <1>6, <1>7 DEF Almost, u

(* Which anchor is at which of the nodes that count them says nothing.      *)
LEMMA CountsRenamed ==
  ASSUME NEW t, NEW f, Counts(t, f), NEW c, NEW A, Extends(c, f, A),
         NEW g, Extends(c, g, A), IsFiniteSet(DOMAIN g)
  PROVE  Counts(t, g)
<1>1. /\ IsFiniteSet(DOMAIN f) /\ \A a \in DOMAIN f : f[a] \in DOMAIN t.nodes
      /\ \A n \in DOMAIN t.nodes : /\ t.nodes[n].exact = Cardinality(AnchorsIn(f, {n}))
                                   /\ t.nodes[n].path = Cardinality(AnchorsIn(f, Over(t, n)))
  BY DEF Counts
<1>2. ASSUME NEW X
      PROVE  Cardinality(AnchorsIn(f, X)) = Cardinality(AnchorsIn(g, X))
  <2>1. Cardinality(AnchorsIn(f, X)) = Cardinality(AnchorsIn(c, X)) + Cardinality(A \cap X)
    BY <1>1, ExtendsCounts
  <2>2. Cardinality(AnchorsIn(g, X)) = Cardinality(AnchorsIn(c, X)) + Cardinality(A \cap X)
    BY ExtendsCounts
  <2> QED BY <2>1, <2>2
<1>3. \A a \in DOMAIN g : g[a] \in DOMAIN t.nodes
  <2>1. \A a \in DOMAIN c : g[a] = c[a] /\ f[a] = c[a] /\ a \in DOMAIN f
    BY DEF Extends
  <2>2. \A n \in A : n \in DOMAIN t.nodes
    BY <1>1 DEF Extends
  <2> QED BY <2>1, <2>2, <1>1 DEF Extends
<1> QED BY <1>1, <1>2, <1>3 DEF Counts

(* One anchor goes from a node to another: with an anchor at both, before    *)
(* and after, there are as many at each node.                               *)
Bridge(f, g, A, B, h, k) ==
  /\ Extends(f, h, A) /\ Extends(g, k, B)
  /\ \E c : Extends(c, h, A \cup B) /\ Extends(c, k, A \cup B)
  /\ IsFiniteSet(DOMAIN h) /\ IsFiniteSet(DOMAIN k)

(* A moved anchor is one added and one removed.                             *)
LEMMA Bridges ==
  ASSUME NEW f, NEW g, NEW old, NEW new, old # new, NEW w, NEW j, j \notin DOMAIN f, j \notin DOMAIN g, j # w,
         IsFiniteSet(DOMAIN f),
         w \in DOMAIN f <=> old # NoNode, w \in DOMAIN f => f[w] = old,
         w \in DOMAIN g <=> new # NoNode, w \in DOMAIN g => g[w] = new,
         DOMAIN f \ {w} = DOMAIN g \ {w}, \A a \in DOMAIN f \ {w} : g[a] = f[a]
  PROVE  \E h, k : Bridge(f, g, {new} \ {NoNode}, {old} \ {NoNode}, h, k)
<1> DEFINE A == {new} \ {NoNode}
           B == {old} \ {NoNode}
           h == [a \in DOMAIN f \cup (IF new = NoNode THEN {} ELSE {j}) |-> IF a = j THEN new ELSE f[a]]
           k == [a \in DOMAIN g \cup (IF old = NoNode THEN {} ELSE {j}) |-> IF a = j THEN old ELSE g[a]]
           c == [a \in DOMAIN f \ {w} |-> f[a]]
<1>1. Extends(f, h, A)
  BY DEF Extends
<1>2. Extends(g, k, B)
  BY DEF Extends
<1>3. Extends(c, h, A \cup B)
  <2>1. DOMAIN c \subseteq DOMAIN h /\ \A a \in DOMAIN c : h[a] = c[a]
    OBVIOUS
  <2>2. \A a \in DOMAIN h \ DOMAIN c : (a = j /\ new # NoNode /\ h[a] = new) \/ (a = w /\ old # NoNode /\ h[a] = old)
    OBVIOUS
  <2>3. new # NoNode => j \in DOMAIN h \ DOMAIN c /\ h[j] = new
    OBVIOUS
  <2>4. old # NoNode => w \in DOMAIN h \ DOMAIN c /\ h[w] = old
    OBVIOUS
  <2> HIDE DEF h, c
  <2> QED BY <2>1, <2>2, <2>3, <2>4 DEF Extends
<1>4. Extends(c, k, A \cup B)
  <2>1. DOMAIN c \subseteq DOMAIN k /\ \A a \in DOMAIN c : k[a] = c[a]
    OBVIOUS
  <2>2. \A a \in DOMAIN k \ DOMAIN c : (a = j /\ old # NoNode /\ k[a] = old) \/ (a = w /\ new # NoNode /\ k[a] = new)
    OBVIOUS
  <2>3. old # NoNode => j \in DOMAIN k \ DOMAIN c /\ k[j] = old
    OBVIOUS
  <2>4. new # NoNode => w \in DOMAIN k \ DOMAIN c /\ k[w] = new
    OBVIOUS
  <2> HIDE DEF k, c
  <2> QED BY <2>1, <2>2, <2>3, <2>4 DEF Extends
<1>5. IsFiniteSet(DOMAIN h)
  <2>1. DOMAIN h = DOMAIN f \/ DOMAIN h = DOMAIN f \cup {j}
    OBVIOUS
  <2> QED BY <2>1, FS_AddElement
<1>6. IsFiniteSet(DOMAIN k)
  <2>1. DOMAIN k \subseteq DOMAIN f \cup {w} \cup {j}
    OBVIOUS
  <2>2. IsFiniteSet(DOMAIN f \cup {w} \cup {j})
    BY FS_AddElement
  <2> QED BY <2>1, <2>2, FS_Subset
<1> HIDE DEF h, k, c
<1> QED BY <1>1, <1>2, <1>3, <1>4, <1>5, <1>6 DEF Bridge

(* What MoveTerminal makes of t.                                            *)
MovedTo(t, w, n, r) ==
  /\ Trie(r.t) /\ Pruned(t, r.t) /\ r.freed = Lost(t, r.t)
  /\ r.t.ws = SetTerminal(t, w, n).ws /\ r.t.roots = t.roots /\ r.t.pins = t.pins /\ r.t.swaps = t.swaps
  /\ \A a \in Anchors(r.t) : /\ AnchoredAt(r.t)[a] \in DOMAIN r.t.nodes
                             /\ Locations(r.t, AnchoredAt(r.t)[a]) = Locations(t, AnchoredAt(r.t)[a])
  /\ \A l \in t.swaps : l[1] \in DOMAIN r.t.nodes => Len(r.t.nodes[l[1]].pages) = Len(t.nodes[l[1]].pages)
  /\ n # NoNode /\ ToSet(Locations(t, t.ws[w].terminal)) \subseteq ToSet(Locations(t, n))
       => LiveLocations(r.t) = LiveLocations(t) /\ r.freed = {}

IsSet(e) ==
  e \in [terminal : Nat, mapped : Nat, suspended : BOOLEAN, folded : Nat, prompt : Nat,
         logged : {e.logged}, cuts : {e.cuts}, tail : Nat, owner : Nat, failed : BOOLEAN]

IsSets(t) == t.ws = [w \in DOMAIN t.ws |-> t.ws[w]] /\ \A w \in DOMAIN t.ws : IsSet(t.ws[w])

(* Every node above an anchor has a path count.                             *)
LEMMA AnchorAbove ==
  ASSUME NEW t, NEW f, Counts(t, f), NEW a \in DOMAIN f, NEW n \in DOMAIN t.nodes, n \in PathNodes(t, f[a])
  PROVE  t.nodes[n].path > 0
<1> DEFINE S == AnchorsIn(f, Over(t, n))
<1>1. t.nodes[n].path = Cardinality(S) /\ a \in S
  BY DEF Counts, AnchorsIn, Over
<1>2. IsFiniteSet(S)
  BY FS_Subset DEF Counts, AnchorsIn
<1> HIDE DEF S
<1>3. Cardinality(S) \in Nat /\ Cardinality(S) # 0
  BY <1>1, <1>2, FS_CardinalityType, FS_EmptySet
<1> QED BY <1>1, <1>3

(* A table loses nothing to itself.                                         *)
LEMMA NoneLost == ASSUME NEW t PROVE Lost(t, t) = {}
BY DEF Lost, BackingsAt

(* A table is a pruning of itself.                                          *)
LEMMA PrunedSelf == ASSUME NEW t, Shape(t) PROVE Pruned(t, t)
<1>1. \A n \in DOMAIN t.nodes : Len(t.nodes[n].pages) \in Nat
  BY NodeFields
<1> QED BY <1>1 DEF Pruned

(* A terminal set to what it is changes no set.                             *)
LEMMA TerminalSame ==
  ASSUME NEW t, IsTable(t), IsSets(t), NEW w \in DOMAIN t.ws, NEW n, n = t.ws[w].terminal
  PROVE  SetTerminal(t, w, n).ws = t.ws
<1>1. IsSet(t.ws[w])
  BY DEF IsSets
<1>2. [t.ws[w] EXCEPT !.terminal = n] = t.ws[w]
  BY <1>1 DEF IsSet
<1>3. SetTerminal(t, w, n).ws = [t.ws EXCEPT ![w].terminal = n]
  BY DEF SetTerminal, IsTable
<1>4. \A x \in DOMAIN t.ws : [t.ws EXCEPT ![w].terminal = n][x] = t.ws[x]
  BY <1>2
<1> QED BY <1>3, <1>4 DEF IsSets

(* Anchors are at nodes of the table.                                       *)
LEMMA AnchorsLive ==
  ASSUME NEW t, Counts(t, AnchoredAt(t))
  PROVE  /\ \A a \in Anchors(t) : AnchoredAt(t)[a] \in DOMAIN t.nodes
         /\ \A w \in DOMAIN t.ws : t.ws[w].terminal \in DOMAIN t.nodes \cup {NoNode}
         /\ \A n \in DOMAIN t.roots : n \in DOMAIN t.nodes
         /\ \A n \in DOMAIN t.pins : n \in DOMAIN t.nodes
<1>1. \A a \in Anchors(t) : AnchoredAt(t)[a] \in DOMAIN t.nodes
  BY AnchorKinds DEF Counts
<1>2. \A w \in DOMAIN t.ws : t.ws[w].terminal # NoNode =>
         <<"set", w>> \in Anchors(t) /\ AnchoredAt(t)[<<"set", w>>] = t.ws[w].terminal
  BY AnchorKinds
<1>3. \A n \in DOMAIN t.roots : <<"root", n>> \in Anchors(t) /\ AnchoredAt(t)[<<"root", n>>] = n
  BY AnchorKinds
<1>4. \A n \in DOMAIN t.pins : <<"pin", n>> \in Anchors(t) /\ AnchoredAt(t)[<<"pin", n>>] = n
  BY AnchorKinds
<1>5. \A w \in DOMAIN t.ws : t.ws[w].terminal \in DOMAIN t.nodes \cup {NoNode}
  BY <1>1, <1>2
<1>6. \A n \in DOMAIN t.roots : n \in DOMAIN t.nodes
  BY <1>1, <1>3
<1>7. \A n \in DOMAIN t.pins : n \in DOMAIN t.nodes
  BY <1>1, <1>4
<1> QED BY <1>1, <1>5, <1>6, <1>7

(* move_terminal to where the set already is.                               *)
LEMMA StaysTerminal ==
  ASSUME NEW t, IsSets(t), NEW w \in DOMAIN t.ws, NEW n, n = t.ws[w].terminal, Almost(t, n)
  PROVE  MovedTo(t, w, n, Result(t, {}))
<1>1. Shape(t) /\ Counts(t, AnchoredAt(t)) /\ Compacted(t)
  BY DEF Almost
<1>2. AllAnchored(t)
  <2>1. ASSUME n \in DOMAIN t.nodes
        PROVE  t.nodes[n].path > 0
    <3>1. n # NoNode
      BY <2>1, <1>1, NodeFields
    <3>2. <<"set", w>> \in DOMAIN AnchoredAt(t) /\ AnchoredAt(t)[<<"set", w>>] = n
      BY <3>1, AnchorKinds
    <3>3. n \in PathNodes(t, n)
      BY <2>1, <1>1, PathFacts
    <3> QED BY <3>2, <3>3, <2>1, <1>1, AnchorAbove
  <2> QED BY <2>1 DEF Almost, AllAnchored
<1>3. Trie(t)
  BY <1>1, <1>2 DEF Trie
<1>4. SetTerminal(t, w, n).ws = t.ws
  BY <1>1, TerminalSame DEF Shape, Formed
<1>5. Lost(t, t) = {} /\ Pruned(t, t)
  BY <1>1, NoneLost, PrunedSelf
<1>6. \A a \in Anchors(t) : AnchoredAt(t)[a] \in DOMAIN t.nodes
  BY <1>1, AnchorsLive
<1> QED BY <1>3, <1>4, <1>5, <1>6 DEF MovedTo, Result

(* move_terminal: the others read the same, and what is freed is what went. *)
LEMMA MovesTerminal ==
  ASSUME NEW t, IsSets(t), NEW w \in DOMAIN t.ws, NEW n \in DOMAIN t.nodes \cup {NoNode}, Almost(t, n)
  PROVE  MovedTo(t, w, n, MoveTerminal(t, w, n))
<1> DEFINE old == t.ws[w].terminal
           A == {n} \ {NoNode}
           B == {old} \ {NoNode}
           v == AddAnchors(t, A)
           s == SetTerminal(v, w, n)
           u == RemoveAnchors(s, B).t
           f == AnchoredAt(t)
           g == AnchoredAt(s)
<1>1. CASE old = n
  BY <1>1, StaysTerminal DEF MoveTerminal
<1>2. CASE old # n
  <2>1. Shape(t) /\ Counts(t, f) /\ Compacted(t) /\ IsTable(t)
    BY DEF Almost, Shape, Formed
  <2>2. A \subseteq DOMAIN t.nodes /\ IsFiniteSet(DOMAIN f)
    BY <2>1 DEF Counts
  <2>3. v.ws = t.ws /\ v.roots = t.roots /\ v.pins = t.pins /\ v.swaps = t.swaps /\ IsTable(v)
    BY <2>1 DEF IsTable, AddAnchors
  <2>4. /\ s.nodes = v.nodes /\ s.roots = t.roots /\ s.pins = t.pins /\ s.swaps = t.swaps /\ IsTable(s)
        /\ s.ws = SetTerminal(t, w, n).ws
        /\ DOMAIN s.ws = DOMAIN t.ws /\ s.ws[w].terminal = n
        /\ \A x \in DOMAIN t.ws : x # w => s.ws[x] = t.ws[x]
    <3> HIDE DEF v
    <3>1. s.ws = [t.ws EXCEPT ![w].terminal = n] /\ SetTerminal(t, w, n).ws = [t.ws EXCEPT ![w].terminal = n]
      BY <2>1, <2>3 DEF SetTerminal, IsTable
    <3>2. IsSet(t.ws[w])
      BY DEF IsSets
    <3>3. [t.ws[w] EXCEPT !.terminal = n].terminal = n
      BY <3>2 DEF IsSet
    <3>4. s.nodes = v.nodes /\ s.roots = t.roots /\ s.pins = t.pins /\ s.swaps = t.swaps /\ IsTable(s)
      BY <2>3 DEF SetTerminal, IsTable
    <3> HIDE DEF s
    <3> QED BY <3>1, <3>3, <3>4
  <2>5. PICK h, k : Bridge(f, g, A, B, h, k)
    <3> DEFINE j == <<"was", w>>
               x == <<"set", w>>
    <3>1. j \notin DOMAIN f /\ j \notin DOMAIN g /\ j # x
      BY DEF AnchoredAt, Anchors
    <3>2. /\ x \in DOMAIN f <=> old # NoNode
          /\ x \in DOMAIN f => f[x] = old
      BY DEF AnchoredAt, Anchors
    <3>3. /\ x \in DOMAIN g <=> n # NoNode
          /\ x \in DOMAIN g => g[x] = n
      <4> HIDE DEF s
      <4> QED BY <2>4 DEF AnchoredAt, Anchors
    <3>4. DOMAIN f \ {x} = DOMAIN g \ {x}
      <4> HIDE DEF s
      <4> QED BY <2>4 DEF AnchoredAt, Anchors
    <3>5. \A a \in DOMAIN f \ {x} : g[a] = f[a]
      <4> SUFFICES ASSUME NEW a \in DOMAIN f \ {x} PROVE g[a] = f[a]
        OBVIOUS
      <4>1. a \in Anchors(t) /\ a \in Anchors(s)
        BY <3>4 DEF AnchoredAt
      <4>2. a[1] = "set" => a[2] \in DOMAIN t.ws /\ a[2] # w
        BY <4>1 DEF Anchors
      <4> HIDE DEF s
      <4> QED BY <4>1, <4>2, <2>4 DEF AnchoredAt
    <3> HIDE DEF s, f, g, j, x, old
    <3> QED BY <3>1, <3>2, <3>3, <3>4, <3>5, <2>2, <1>2, Bridges
  <2> HIDE DEF f, g, s, v, A, B
  <2>6. Extends(f, h, A) /\ Extends(g, k, B) /\ IsFiniteSet(DOMAIN h) /\ IsFiniteSet(DOMAIN k)
        /\ \E c : Extends(c, h, A \cup B) /\ Extends(c, k, A \cup B)
    BY <2>5 DEF Bridge
  <2>7. \A a \in DOMAIN h : h[a] \in DOMAIN t.nodes
    BY <2>1, <2>2, <2>6 DEF Extends, Counts
  <2>8. /\ Recounted(t, v) /\ Shape(v) /\ Counts(v, h)
        /\ \A m \in DOMAIN t.nodes : /\ t.nodes[m].exact >= 0 /\ t.nodes[m].path >= 0
                                     /\ v.nodes[m].exact >= t.nodes[m].exact
                                     /\ v.nodes[m].path >= t.nodes[m].path
                                     /\ m \in A => v.nodes[m].path > 0 /\ v.nodes[m].exact > 0
    BY <2>1, <2>6, <2>7, AnchorsAdded DEF v
  <2>9. SameTree(t, v) /\ DOMAIN v.nodes = DOMAIN t.nodes
    BY <2>8 DEF Recounted, SameTree
  <2>10. AllAnchored(v)
    <3>1. \A m \in DOMAIN t.nodes : m # n => t.nodes[m].path > 0
      BY DEF Almost
    <3>2. n \in DOMAIN t.nodes => n \in A
      BY <2>1, NodeFields DEF A
    <3>3. \A m \in DOMAIN t.nodes : t.nodes[m].path \in Int /\ v.nodes[m].path \in Int
      BY <2>1, <2>8, <2>9, NodeFields
    <3> QED BY <3>1, <3>2, <3>3, <2>8, <2>9 DEF AllAnchored
  <2>11. Compacted(v)
    <3>1. \A m \in DOMAIN t.nodes : t.nodes[m].exact \in Int /\ v.nodes[m].exact \in Int
      BY <2>1, <2>8, <2>9, NodeFields
    <3>2. \A m \in DOMAIN t.nodes : v.nodes[m].exact = 0 => t.nodes[m].exact = 0
      BY <3>1, <2>8
    <3> QED BY <3>2, <2>1, <2>3, <2>9, RecountedCompacted
  <2>12. SameNodes(v, s)
    BY <2>4 DEF SameNodes
  <2>13. /\ Shape(s) /\ SameTree(v, s) /\ LiveLocations(s) = LiveLocations(v) /\ AllAnchored(s)
         /\ \A m : Locations(s, m) = Locations(v, m)
         /\ Counts(s, h)
    BY <2>8, <2>10, <2>12, NodesSame
  <2>14. Compacted(s)
    BY <2>3, <2>4, <2>8, <2>11, <2>13, RecountedCompacted
  <2>15. Counts(s, k)
    BY <2>6, <2>13, CountsRenamed
  <2>16. Left(s, u) /\ RemoveAnchors(s, B).freed = Lost(s, u) /\ Shed(s, u, g)
    BY <2>6, <2>13, <2>14, <2>15, Removing DEF g
  <2>17. MoveTerminal(t, w, n) = RemoveAnchors(s, B)
    BY <1>2 DEF MoveTerminal, s, v, A, B
  <2> HIDE DEF u
  <2>18. \A m : Locations(s, m) = Locations(t, m)
    BY <2>1, <2>9, <2>13, TreeSame
  <2>19. LiveLocations(s) = LiveLocations(t)
    <3>1. \A m \in DOMAIN t.nodes : v.nodes[m].pages = t.nodes[m].pages
      BY <2>8 DEF Recounted
    <3> QED BY <3>1, <2>9, <2>13 DEF LiveLocations
  <2>20. \A m \in DOMAIN t.nodes : s.nodes[m].pages = t.nodes[m].pages /\ s.nodes[m].idx = t.nodes[m].idx
           /\ s.nodes[m].parent = t.nodes[m].parent /\ s.nodes[m].sel = t.nodes[m].sel /\ s.nodes[m].take = t.nodes[m].take
    BY <2>4, <2>8, <2>9 DEF Recounted, SameTree
  <2>21. Lost(s, u) = Lost(t, u)
    <3>1. \A l \in LiveLocations(t) : Page(s, l) = Page(t, l)
      BY <2>20, <2>1, LiveIn DEF Page
    <3> QED BY <3>1, <2>19 DEF Lost, BackingsAt
  <2>22. Pruned(t, u)
    <3>1. Pruned(s, u) /\ DOMAIN s.nodes = DOMAIN t.nodes
      BY <2>16, <2>4, <2>9 DEF Left
    <3> QED BY <3>1, <2>20 DEF Pruned
  <2>23. u.ws = s.ws /\ u.roots = s.roots /\ u.pins = s.pins /\ u.swaps = s.swaps /\ Trie(u)
    BY <2>16 DEF Left, SameRest
  <2>24. \A l \in t.swaps : l[1] \in DOMAIN u.nodes => Len(u.nodes[l[1]].pages) = Len(t.nodes[l[1]].pages)
    <3>1. \A l \in s.swaps : l[1] \in DOMAIN u.nodes => Len(u.nodes[l[1]].pages) = Len(s.nodes[l[1]].pages)
      BY <2>16 DEF Left
    <3> QED BY <3>1, <2>4, <2>20, <2>22 DEF Pruned
  <2>25. \A a \in Anchors(u) : /\ AnchoredAt(u)[a] \in DOMAIN u.nodes
                               /\ Locations(u, AnchoredAt(u)[a]) = Locations(t, AnchoredAt(u)[a])
    BY <2>16, <2>18 DEF Left
  <2>26. ASSUME n # NoNode, ToSet(Locations(t, old)) \subseteq ToSet(Locations(t, n))
         PROVE  LiveLocations(u) = LiveLocations(t) /\ Lost(t, u) = {}
    <3>1. <<"set", w>> \in DOMAIN g /\ g[<<"set", w>>] = n
      BY <2>26, <2>4 DEF g, AnchoredAt, Anchors
    <3>2. \A m \in B : ToSet(Locations(s, m)) \subseteq ToSet(Locations(s, g[<<"set", w>>]))
      BY <2>26, <2>18, <3>1 DEF B
    <3>3. \A m \in B : \E a \in DOMAIN g : ToSet(Locations(s, m)) \subseteq ToSet(Locations(s, g[a]))
      BY <3>1, <3>2
    <3>4. LiveLocations(u) = LiveLocations(s) /\ Lost(s, u) = {}
      BY <3>3, <2>6, <2>13, <2>14, <2>15, <2>16, NothingLost
    <3> QED BY <3>4, <2>19, <2>21
  <2>27. RemoveAnchors(s, B).t = u
    BY DEF u
  <2> QED BY <2>4, <2>16, <2>17, <2>21, <2>22, <2>23, <2>24, <2>25, <2>26, <2>27 DEF MovedTo
<1> QED BY <1>1, <1>2

(* The table with at most the one node more, and what is as before.         *)
Sprouted(t, u, x) ==
  /\ Almost(u, x) /\ x \in DOMAIN u.nodes /\ SameRest(t, u)
  /\ DOMAIN u.nodes = DOMAIN t.nodes \cup {x}
  /\ \A m \in DOMAIN t.nodes : u.nodes[m] = t.nodes[m] /\ Locations(u, m) = Locations(t, m)
  /\ AnchoredAt(u) = AnchoredAt(t) /\ Anchors(u) = Anchors(t)

(* A node of the table is a sprout already there.                           *)
LEMMA SproutsNone ==
  ASSUME NEW t, Trie(t), NEW x \in DOMAIN t.nodes
  PROVE  Sprouted(t, t, x)
<1>1. Almost(t, x)
  BY TrieAlmost
<1> QED BY <1>1 DEF Sprouted, SameRest

(* A leaf is a sprout.                                                      *)
LEMMA SproutsLeaf ==
  ASSUME NEW t, Trie(t), NEW x, NEW node, IsLeaf(t, x, node)
  PROVE  Sprouted(t, WithNode(t, x, node), x) /\ Shape(WithNode(t, x, node))
         /\ WithNode(t, x, node).nodes[x] = node
BY Sprouts DEF Sprouted, Grown

(* A selection adds no location.                                            *)
LEMMA SproutedLive ==
  ASSUME NEW t, Shape(t), NEW u, NEW x, Sprouted(t, u, x), u.nodes[x].sel
  PROVE  LiveLocations(u) = LiveLocations(t)
<1>1. Shape(u) /\ DOMAIN u.nodes = DOMAIN t.nodes \cup {x} /\ \A m \in DOMAIN t.nodes : u.nodes[m] = t.nodes[m]
  BY DEF Sprouted, Almost
<1>2. DOMAIN u.nodes[x].pages = {}
  <2>1. u.nodes[x].pages = <<>>
    BY <1>1, NodeLinks
  <2> QED BY <2>1
<1>3. \A l : l \in LiveLocations(u) <=> l \in LiveLocations(t)
  <2> SUFFICES ASSUME NEW l PROVE l \in LiveLocations(u) <=> l \in LiveLocations(t)
    OBVIOUS
  <2>1. l \in LiveLocations(u) <=> \E m \in DOMAIN u.nodes : l \in {m} \X DOMAIN u.nodes[m].pages
    BY DEF LiveLocations
  <2>2. l \in LiveLocations(t) <=> \E m \in DOMAIN t.nodes : l \in {m} \X DOMAIN t.nodes[m].pages
    BY DEF LiveLocations
  <2>3. \A m \in DOMAIN u.nodes : m \notin DOMAIN t.nodes => l \notin {m} \X DOMAIN u.nodes[m].pages
    BY <1>1, <1>2
  <2> QED BY <2>1, <2>2, <2>3, <1>1
<1> QED BY <1>3

(* boundary_terminal: a node whose mapping is the first b pages of n's.     *)
EndsAt(t, n, b, named, at) ==
  /\ Sprouted(t, at.t, at.node)
  /\ at.node \notin DOMAIN t.nodes => at.node \notin named
  /\ LiveLocations(at.t) = LiveLocations(t)
  /\ Len(Locations(at.t, at.node)) = b
  /\ \A i \in 1..b : Locations(at.t, at.node)[i] = Locations(t, n)[i]

(* A selection of an owner's first pages is a leaf.                         *)
LEMMA SelectionLeaf ==
  ASSUME NEW t, Shape(t), NEW x \in Nat \ {0}, x \notin DOMAIN t.nodes, NEW o, Owns(t, o),
         NEW k \in 1..Len(t.nodes[o].pages)
  PROVE  IsLeaf(t, x, Selection(o, k))
<1> DEFINE node == Selection(o, k)
<1>1. /\ node.parent = o /\ node.sel = TRUE /\ node.pages = <<>> /\ node.take = k
      /\ node.exact = 0 /\ node.path = 0 /\ node.idx = FALSE
  BY DEF Selection
<1>2. o \in Nat /\ Len(t.nodes[o].pages) \in Nat
  BY NodeFields DEF Owns
<1>3. k \in Nat
  BY <1>2
<1>4. node \in [parent : Nat, sel : BOOLEAN, pages : {node.pages}, take : Nat,
            exact : Int, path : Int, idx : BOOLEAN]
  BY <1>2, <1>3 DEF Selection
<1>5. node.pages \in Seq(ToSet(node.pages)) /\ DOMAIN node.pages = {}
  BY <1>1 DEF ToSet
<1> HIDE DEF node
<1>6. IsNode(node)
  BY <1>4, <1>5 DEF IsNode
<1>7. o \in DOMAIN t.nodes
  BY DEF Owns
<1> QED BY <1>1, <1>6, <1>7 DEF IsLeaf, node

(* take_of: a node that ends k pages into a segment.                        *)
LEMMA Takes ==
  ASSUME NEW t, Trie(t), NEW m \in DOMAIN t.nodes, NEW k \in 1..ContributionLen(t, m),
         NEW x \in Nat \ {0}, x \notin DOMAIN t.nodes
  PROVE  LET at == TakeOf(t, m, k, x)
         IN  /\ Sprouted(t, at.t, at.node) /\ LiveLocations(at.t) = LiveLocations(t)
             /\ at.node = m \/ at.node = x
             /\ Len(Locations(at.t, at.node)) = Before(t, m) + k
             /\ \A i \in 1..(Before(t, m) + k) : Locations(at.t, at.node)[i] = Locations(t, m)[i]
<1> DEFINE p == Predecessor(t, m)
           a == Len(Locations(t, p))
           c == ContributionLen(t, m)
           o == Source(t, m)
           at == TakeOf(t, m, k, x)
<1>1. Shape(t)
  BY DEF Trie
<1>2. /\ a \in Nat /\ c \in Nat /\ p \in DOMAIN t.nodes \cup {NoNode}
      /\ Before(t, m) = a /\ Len(Locations(t, m)) = a + c
      /\ \A j \in 1..a : Locations(t, m)[j] = Locations(t, p)[j]
      /\ \A j \in 1..c : Locations(t, m)[a + j] = <<o, j>>
  BY <1>1, LocationItems
<1>3. CASE k = c
  <2>1. at = [t |-> t, node |-> m]
    BY <1>3 DEF TakeOf
  <2>2. at.t = t /\ at.node = m
    BY <2>1
  <2> HIDE DEF at
  <2> QED BY <2>2, <1>2, <1>3, SproutsNone DEF at
<1>4. CASE k # c
  <2> DEFINE u == WithNode(t, x, Selection(o, k))
  <2>1. at = [t |-> u, node |-> x]
    BY <1>4 DEF TakeOf
  <2>2. at.t = u /\ at.node = x
    BY <2>1
  <2>3. /\ o \in DOMAIN t.nodes /\ ~t.nodes[o].sel /\ Predecessor(t, o) = p /\ c \in 1..Len(t.nodes[o].pages)
        /\ Predecessor(t, o) = t.nodes[o].parent
    BY <1>1, PredecessorFacts
  <2>4. Owns(t, o) /\ k \in 1..Len(t.nodes[o].pages)
    <3>1. Len(t.nodes[o].pages) \in Nat
      BY <1>1, <2>3, NodeFields
    <3> QED BY <2>3, <3>1, <1>2 DEF Owns
  <2>5. IsLeaf(t, x, Selection(o, k))
    BY <1>1, <2>4, SelectionLeaf
  <2>6. Sprouted(t, u, x) /\ Shape(u) /\ u.nodes[x] = Selection(o, k)
    BY <2>5, SproutsLeaf
  <2> HIDE DEF u, at, o, p
  <2>7. u.nodes[x].sel /\ u.nodes[x].parent = o /\ u.nodes[x].take = k
    BY <2>6 DEF Selection
  <2>8. LiveLocations(u) = LiveLocations(t)
    BY <1>1, <2>6, <2>7, SproutedLive
  <2>9. Predecessor(u, x) = p /\ Source(u, x) = o /\ ContributionLen(u, x) = k
    <3>1. u.nodes[o] = t.nodes[o]
      BY <2>3, <2>6 DEF Sprouted
    <3> QED BY <3>1, <2>3, <2>7 DEF Predecessor, Source, ContributionLen
  <2>10. Locations(u, p) = Locations(t, p)
    BY <1>2, <2>6 DEF Sprouted, Locations
  <2>11. x \in DOMAIN u.nodes
    BY <2>6 DEF Sprouted
  <2>12. /\ Len(Locations(u, x)) = a + k
         /\ \A j \in 1..a : Locations(u, x)[j] = Locations(t, p)[j]
         /\ \A j \in 1..k : Locations(u, x)[a + j] = <<o, j>>
    <3>1. LET q == Predecessor(u, x)
              e == Len(Locations(u, q))
              d == ContributionLen(u, x)
          IN  /\ Len(Locations(u, x)) = e + d
              /\ \A j \in 1..e : Locations(u, x)[j] = Locations(u, q)[j]
              /\ \A j \in 1..d : Locations(u, x)[e + j] = <<Source(u, x), j>>
      BY <2>6, <2>11, LocationItems
    <3> QED BY <3>1, <2>9, <2>10
  <2>13. k \in Nat /\ k <= c
    BY <1>2
  <2>14. \A i \in 1..(a + k) : Locations(u, x)[i] = Locations(t, m)[i]
    <3> SUFFICES ASSUME NEW i \in 1..(a + k) PROVE Locations(u, x)[i] = Locations(t, m)[i]
      OBVIOUS
    <3> HIDE DEF a, c
    <3>1. CASE i <= a
      BY <3>1, <2>12, <1>2, <2>13
    <3>2. CASE i > a
      <4>1. i - a \in 1..k /\ i - a \in 1..c /\ i = a + (i - a)
        BY <3>2, <1>2, <2>13
      <4> QED BY <4>1, <2>12, <1>2, SMTT(20)
    <3> QED BY <3>1, <3>2, <1>2, <2>13
  <2>15. Before(t, m) = a
    BY <1>2
  <2> HIDE DEF a
  <2> QED BY <2>2, <2>6, <2>8, <2>12, <2>14, <2>15 DEF at
<1> QED BY <1>3, <1>4

(* boundary_terminal: a node whose path is the first b pages of another's.  *)
LEMMA BoundaryEnds ==
  ASSUME NEW t, Trie(t), NEW n \in DOMAIN t.nodes, NEW b \in 1..Len(Locations(t, n)),
         NEW named, IsFiniteSet(named)
  PROVE  EndsAt(t, n, b, named, BoundaryTerminal(t, n, b, named))
<1> DEFINE m == CHOOSE m \in Segments(t, n) :
                  Before(t, m) < b /\ b <= Before(t, m) + ContributionLen(t, m)
           x == FreshNode(t, named)
           at == BoundaryTerminal(t, n, b, named)
<1>1. Shape(t)
  BY DEF Trie
<1>2. m \in Segments(t, n) /\ Before(t, m) < b /\ b <= Before(t, m) + ContributionLen(t, m)
  BY <1>1, BoundaryFound
<1>3. at = TakeOf(t, m, b - Before(t, m), x)
  BY DEF BoundaryTerminal
<1> HIDE DEF m, at
<1>4. /\ m \in DOMAIN t.nodes /\ Len(Locations(t, m)) <= Len(Locations(t, n))
      /\ \A i \in 1..Len(Locations(t, m)) : Locations(t, n)[i] = Locations(t, m)[i]
  BY <1>1, <1>2, SegmentPrefix
<1>5. x \in Nat \ {0} /\ x \notin DOMAIN t.nodes /\ x \notin named
  BY <1>1, FreshNodeFresh DEF Shape, Formed
<1>6. /\ Before(t, m) \in Nat /\ ContributionLen(t, m) \in Nat
      /\ Len(Locations(t, m)) = Before(t, m) + ContributionLen(t, m)
  BY <1>1, <1>4, LocationItems
<1>7. Len(Locations(t, n)) \in Nat
  BY <1>1, LocationFacts
<1> DEFINE k == b - Before(t, m)
<1>8. b \in Nat /\ k \in 1..ContributionLen(t, m) /\ Before(t, m) + k = b
  BY <1>2, <1>6, <1>7
<1> HIDE DEF k, x
<1>9. /\ Sprouted(t, at.t, at.node) /\ LiveLocations(at.t) = LiveLocations(t)
      /\ at.node = m \/ at.node = x
      /\ Len(Locations(at.t, at.node)) = Before(t, m) + k
      /\ \A i \in 1..(Before(t, m) + k) : Locations(at.t, at.node)[i] = Locations(t, m)[i]
  BY <1>3, <1>4, <1>5, <1>8, Takes DEF k
<1>10. \A i \in 1..b : Locations(at.t, at.node)[i] = Locations(t, n)[i]
  <2>1. \A i \in 1..b : i \in 1..Len(Locations(t, m))
    BY <1>2, <1>6, <1>8
  <2> QED BY <2>1, <1>4, <1>8, <1>9
<1> QED BY <1>4, <1>5, <1>8, <1>9, <1>10 DEF EndsAt, at

(* A set's terminal is an anchor.                                           *)
LEMMA SetAnchor ==
  ASSUME NEW t, NEW w \in DOMAIN t.ws, t.ws[w].terminal # NoNode
  PROVE  /\ <<"set", w>> \in Anchors(t) /\ <<"set", w>> \in DOMAIN AnchoredAt(t)
         /\ AnchoredAt(t)[<<"set", w>>] = t.ws[w].terminal
BY AnchorKinds

(* A leased root is an anchor.                                              *)
LEMMA RootAnchor ==
  ASSUME NEW t, NEW n \in DOMAIN t.roots
  PROVE  /\ <<"root", n>> \in Anchors(t) /\ <<"root", n>> \in DOMAIN AnchoredAt(t)
         /\ AnchoredAt(t)[<<"root", n>>] = n
BY AnchorKinds

(* A pinned node is an anchor.                                              *)
LEMMA PinAnchor ==
  ASSUME NEW t, NEW n \in DOMAIN t.pins
  PROVE  /\ <<"pin", n>> \in Anchors(t) /\ <<"pin", n>> \in DOMAIN AnchoredAt(t)
         /\ AnchoredAt(t)[<<"pin", n>>] = n
BY AnchorKinds

(* Nothing that the trie counts differs.                                    *)
LEMMA TrieKept ==
  ASSUME NEW t, Trie(t), NEW u, SameNodes(t, u), t.swaps \subseteq u.swaps, AnchoredAt(u) = AnchoredAt(t)
  PROVE  /\ Trie(u) /\ LiveLocations(u) = LiveLocations(t)
         /\ \A n : Locations(u, n) = Locations(t, n)
         /\ \A n : PathNodes(u, n) = PathNodes(t, n)
<1>1. Shape(t) /\ Counts(t, AnchoredAt(t)) /\ AllAnchored(t) /\ Compacted(t)
  BY DEF Trie
<1>2. /\ Shape(u) /\ SameTree(t, u) /\ LiveLocations(u) = LiveLocations(t) /\ AllAnchored(u)
      /\ \A n : Locations(u, n) = Locations(t, n)
      /\ \A n : PathNodes(u, n) = PathNodes(t, n)
      /\ Counts(u, AnchoredAt(u))
  BY <1>1, NodesSame
<1>3. Compacted(u)
  <2>1. \A n \in DOMAIN t.nodes : u.nodes[n].exact = 0 => t.nodes[n].exact = 0
    BY DEF SameNodes
  <2> QED BY <1>1, <1>2, <2>1, RecountedCompacted
<1> QED BY <1>2, <1>3 DEF Trie

(* The anchors depend on the terminals, the roots and the pins alone.       *)
LEMMA AnchorsSame ==
  ASSUME NEW t, NEW u, DOMAIN u.ws = DOMAIN t.ws, \A w \in DOMAIN t.ws : u.ws[w].terminal = t.ws[w].terminal,
         DOMAIN u.roots = DOMAIN t.roots, DOMAIN u.pins = DOMAIN t.pins
  PROVE  AnchoredAt(u) = AnchoredAt(t) /\ Anchors(u) = Anchors(t)
<1>1. Anchors(u) = Anchors(t)
  BY DEF Anchors
<1>2. \A a \in Anchors(t) : a[1] = "set" => a[2] \in DOMAIN t.ws
  BY DEF Anchors
<1> QED BY <1>1, <1>2 DEF AnchoredAt

(* A working set's entry put in the place of another.                       *)
WithSet(t, w, e) == [t EXCEPT !.ws[w] = e]

Replaced(t, u, w, e) ==
  /\ SameNodes(t, u) /\ IsSets(u) /\ DOMAIN u.ws = DOMAIN t.ws
  /\ u.ws[w] = e /\ \A x \in DOMAIN t.ws : x # w => u.ws[x] = t.ws[x]
  /\ u.roots = t.roots /\ u.pins = t.pins /\ u.swaps = t.swaps

(* One set's record replaced.                                               *)
LEMMA SetPut ==
  ASSUME NEW t, IsTable(t), IsSets(t), NEW w \in DOMAIN t.ws, NEW e, IsSet(e)
  PROVE  Replaced(t, WithSet(t, w, e), w, e)
<1> DEFINE u == WithSet(t, w, e)
<1>1. u.nodes = t.nodes /\ u.roots = t.roots /\ u.pins = t.pins /\ u.swaps = t.swaps /\ u.ws = [t.ws EXCEPT ![w] = e]
      /\ IsTable(u)
  BY DEF WithSet, IsTable
<1> HIDE DEF u
<1>2. DOMAIN u.ws = DOMAIN t.ws /\ u.ws[w] = e /\ \A x \in DOMAIN t.ws : x # w => u.ws[x] = t.ws[x]
  BY <1>1
<1>3. u.ws = [x \in DOMAIN u.ws |-> u.ws[x]]
  BY <1>1
<1>4. IsSets(u)
  BY <1>2, <1>3 DEF IsSets
<1> QED BY <1>1, <1>2, <1>4 DEF SameNodes, Replaced, u

(* The mapping of a set that has one is as long as it says.                 *)
Sized(t) == \A w \in DOMAIN t.ws : t.ws[w].mapped = Len(Locations(t, t.ws[w].terminal))

Sound(t) == Trie(t) /\ IsSets(t) /\ Sized(t)

(* What every other anchor than w's reads is as it was.                     *)
OthersRead(t, u, w) ==
  \A a \in Anchors(u) : a # <<"set", w>> =>
    /\ a \in Anchors(t) /\ AnchoredAt(u)[a] = AnchoredAt(t)[a]
    /\ Locations(u, AnchoredAt(u)[a]) = Locations(t, AnchoredAt(u)[a])

OtherSets(t, u, w) ==
  /\ DOMAIN u.ws = DOMAIN t.ws /\ \A x \in DOMAIN t.ws : x # w => u.ws[x] = t.ws[x]
  /\ u.roots = t.roots /\ u.pins = t.pins /\ u.swaps = t.swaps

(* Who reads the same locations keeps its size.                             *)
LEMMA OthersSized ==
  ASSUME NEW t, NEW u, NEW w, OtherSets(t, u, w), OthersRead(t, u, w)
  PROVE  \A x \in DOMAIN t.ws : x # w => Locations(u, t.ws[x].terminal) = Locations(t, t.ws[x].terminal)
<1> SUFFICES ASSUME NEW x \in DOMAIN t.ws, x # w
             PROVE  Locations(u, t.ws[x].terminal) = Locations(t, t.ws[x].terminal)
  OBVIOUS
<1>1. x \in DOMAIN u.ws /\ u.ws[x] = t.ws[x]
  BY DEF OtherSets
<1>2. CASE t.ws[x].terminal = NoNode
  BY <1>2 DEF Locations
<1>3. CASE t.ws[x].terminal # NoNode
  <2>1. <<"set", x>> \in Anchors(u) /\ AnchoredAt(u)[<<"set", x>>] = t.ws[x].terminal
    BY <1>1, <1>3, SetAnchor
  <2>2. <<"set", x>> # <<"set", w>>
    OBVIOUS
  <2> QED BY <2>1, <2>2 DEF OthersRead
<1> QED BY <1>2, <1>3

(* move_terminal touches no other set.                                      *)
LEMMA MovedOthers ==
  ASSUME NEW t, IsTable(t), IsSets(t), NEW w \in DOMAIN t.ws, NEW n \in Nat, NEW r, MovedTo(t, w, n, r)
  PROVE  /\ OtherSets(t, r.t, w) /\ OthersRead(t, r.t, w) /\ IsSets(r.t)
         /\ r.t.ws[w] = [t.ws[w] EXCEPT !.terminal = n]
         /\ Locations(r.t, n) = Locations(t, n)
         /\ n # NoNode => n \in DOMAIN r.t.nodes
<1> DEFINE u == r.t
<1>1. u.ws = [t.ws EXCEPT ![w].terminal = n] /\ u.roots = t.roots /\ u.pins = t.pins /\ u.swaps = t.swaps
  BY DEF MovedTo, SetTerminal, IsTable
<1>2. \A a \in Anchors(u) : /\ AnchoredAt(u)[a] \in DOMAIN u.nodes
                            /\ Locations(u, AnchoredAt(u)[a]) = Locations(t, AnchoredAt(u)[a])
  BY DEF MovedTo
<1> HIDE DEF u
<1>3. DOMAIN u.ws = DOMAIN t.ws /\ u.ws[w] = [t.ws[w] EXCEPT !.terminal = n]
      /\ \A x \in DOMAIN t.ws : x # w => u.ws[x] = t.ws[x]
  BY <1>1
<1>4. IsSet(t.ws[w])
  BY DEF IsSets
<1>5. IsSet(u.ws[w]) /\ u.ws[w].terminal = n
  BY <1>3, <1>4 DEF IsSet
<1>6. IsSets(u)
  <2>1. u.ws = [x \in DOMAIN u.ws |-> u.ws[x]]
    BY <1>1
  <2> QED BY <2>1, <1>3, <1>5 DEF IsSets
<1>7. OthersRead(t, u, w)
  <2> SUFFICES ASSUME NEW a \in Anchors(u), a # <<"set", w>>
               PROVE  a \in Anchors(t) /\ AnchoredAt(u)[a] = AnchoredAt(t)[a]
    BY <1>2 DEF OthersRead
  <2>1. a[1] = "set" => a[2] \in DOMAIN t.ws /\ a[2] # w
    BY <1>3 DEF Anchors
  <2>2. a \in Anchors(t)
    BY <2>1, <1>1, <1>3 DEF Anchors
  <2> QED BY <2>1, <2>2, <1>3 DEF AnchoredAt
<1>8. Locations(u, n) = Locations(t, n) /\ (n # NoNode => n \in DOMAIN u.nodes)
  <2>1. CASE n = NoNode
    BY <2>1 DEF Locations
  <2>2. CASE n # NoNode
    <3>1. <<"set", w>> \in Anchors(u) /\ AnchoredAt(u)[<<"set", w>>] = n
      BY <1>3, <1>5, <2>2, SetAnchor
    <3> QED BY <3>1, <1>2
  <2> QED BY <2>1, <2>2
<1> QED BY <1>1, <1>3, <1>6, <1>7, <1>8 DEF OtherSets, u

IsPages(pages) == pages \in Seq(ToSet(pages)) /\ \A i \in DOMAIN pages : IsPage(pages[i])

(* The items of a concatenation, by position.                               *)
LEMMA ConcatItems ==
  ASSUME NEW S, NEW a \in Seq(S), NEW b \in Seq(S)
  PROVE  /\ a \o b \in Seq(S) /\ Len(a \o b) = Len(a) + Len(b) /\ Len(a) \in Nat /\ Len(b) \in Nat
         /\ DOMAIN (a \o b) = 1..(Len(a) + Len(b))
         /\ \A i \in 1..Len(a) : (a \o b)[i] = a[i]
         /\ \A i \in 1..Len(b) : (a \o b)[Len(a) + i] = b[i]
OBVIOUS

(* A sequence is one over its own items.                                    *)
LEMMA OwnSet == ASSUME NEW S, NEW s \in Seq(S) PROVE s \in Seq(ToSet(s))
<1>1. \A i \in 1..Len(s) : s[i] \in ToSet(s)
  BY DEF ToSet
<1> QED BY <1>1

LongerNode(r, pages) == [r EXCEPT !.pages = r.pages \o pages]

IsLonger(r, pages, q) ==
  /\ IsNode(q) /\ q.parent = r.parent /\ q.sel = r.sel /\ q.take = r.take
  /\ q.idx = r.idx /\ q.exact = r.exact /\ q.path = r.path
  /\ Len(r.pages) \in Nat /\ Len(pages) \in Nat
  /\ Len(q.pages) = Len(r.pages) + Len(pages)
  /\ \A i \in 1..Len(r.pages) : q.pages[i] = r.pages[i]
  /\ \A i \in 1..Len(pages) : q.pages[Len(r.pages) + i] = pages[i]

(* An owner with pages appended.                                            *)
LEMMA ExtendedNode ==
  ASSUME NEW r, IsNode(r), NEW pages, IsPages(pages)
  PROVE  IsLonger(r, pages, LongerNode(r, pages))
<1> DEFINE q == LongerNode(r, pages)
<1> DEFINE both == r.pages \o pages
           S == ToSet(r.pages) \cup ToSet(pages)
<1>1. r.pages \in Seq(S) /\ pages \in Seq(S)
  BY DEF IsNode, IsPages
<1>2. /\ both \in Seq(S) /\ Len(both) = Len(r.pages) + Len(pages) /\ Len(r.pages) \in Nat /\ Len(pages) \in Nat
      /\ DOMAIN both = 1..(Len(r.pages) + Len(pages))
      /\ \A i \in 1..Len(r.pages) : both[i] = r.pages[i]
      /\ \A i \in 1..Len(pages) : both[Len(r.pages) + i] = pages[i]
  <2> HIDE DEF S
  <2> QED BY <1>1, ConcatItems
<1>3. both \in Seq(ToSet(both))
  <2> HIDE DEF both, S
  <2> QED BY <1>2, OwnSet
<1>4. \A i \in DOMAIN both : IsPage(both[i])
  <2> SUFFICES ASSUME NEW i \in DOMAIN both PROVE IsPage(both[i])
    OBVIOUS
  <2> HIDE DEF both
  <2>1. CASE i <= Len(r.pages)
    <3>1. i \in 1..Len(r.pages) /\ DOMAIN r.pages = 1..Len(r.pages)
      BY <1>2, <2>1 DEF IsNode
    <3> QED BY <3>1, <1>2 DEF IsNode
  <2>2. CASE i > Len(r.pages)
    <3> DEFINE j == i - Len(r.pages)
    <3>1. j \in 1..Len(pages) /\ i = Len(r.pages) + j /\ DOMAIN pages = 1..Len(pages)
      BY <1>2, <2>2 DEF IsPages
    <3> HIDE DEF j
    <3> QED BY <3>1, <1>2 DEF IsPages
  <2> QED BY <2>1, <2>2, <1>2
<1> HIDE DEF both
<1>5. /\ q.parent = r.parent /\ q.sel = r.sel /\ q.take = r.take /\ q.pages = both
      /\ q.idx = r.idx /\ q.exact = r.exact /\ q.path = r.path
      /\ q \in [parent : Nat, sel : BOOLEAN, pages : {q.pages}, take : Nat,
            exact : Int, path : Int, idx : BOOLEAN]
  BY DEF IsNode, both, LongerNode
<1> HIDE DEF q
<1>6. IsNode(q)
  BY <1>3, <1>4, <1>5 DEF IsNode
<1> QED BY <1>2, <1>5, <1>6 DEF IsLonger, q

(* A node with more pages, that no one is below.                            *)
Longer(t, x, pages) == [t EXCEPT !.nodes[x].pages = @ \o pages]

Lengthened(t, x, pages, v) ==
  /\ Shape(v) /\ SameRest(t, v) /\ DOMAIN v.nodes = DOMAIN t.nodes /\ x \in DOMAIN t.nodes
  /\ \A n \in DOMAIN t.nodes : n # x => v.nodes[n] = t.nodes[n]
  /\ v.nodes[x] = LongerNode(t.nodes[x], pages)
  /\ \A n : PathNodes(v, n) = PathNodes(t, n)
  /\ \A n : Children(v, n) = Children(t, n)
  /\ \A n \in DOMAIN t.nodes \cup {NoNode} : n # x => Locations(v, n) = Locations(t, n)

(* Pages appended to an owner without children move no other path.          *)
LEMMA Lengthens ==
  ASSUME NEW t, Shape(t), NEW x \in DOMAIN t.nodes, ~t.nodes[x].sel, Children(t, x) = {},
         NEW pages, IsPages(pages)
  PROVE  Lengthened(t, x, pages, Longer(t, x, pages))
<1> DEFINE v == Longer(t, x, pages)
           q == LongerNode(t.nodes[x], pages)
<1>1. IsTable(t) /\ IsNode(t.nodes[x]) /\ t.nodes = [n \in DOMAIN t.nodes |-> t.nodes[n]]
  BY DEF Shape, Formed
<1>2. /\ IsTable(v) /\ v.ws = t.ws /\ v.roots = t.roots /\ v.pins = t.pins /\ v.swaps = t.swaps
      /\ v.nodes = [t.nodes EXCEPT ![x] = q]
  BY <1>1 DEF Longer, IsTable, LongerNode
<1>q. q = LongerNode(t.nodes[x], pages)
  OBVIOUS
<1> HIDE DEF v, q
<1>3. /\ IsNode(q) /\ q.parent = t.nodes[x].parent /\ q.sel = t.nodes[x].sel /\ q.take = t.nodes[x].take
      /\ q.exact = t.nodes[x].exact /\ q.path = t.nodes[x].path
      /\ Len(t.nodes[x].pages) \in Nat /\ Len(pages) \in Nat
      /\ Len(q.pages) = Len(t.nodes[x].pages) + Len(pages)
  <2>1. IsLonger(t.nodes[x], pages, q)
    BY <1>1, <1>q, ExtendedNode
  <2> QED BY <2>1 DEF IsLonger
<1>4. /\ DOMAIN v.nodes = DOMAIN t.nodes /\ v.nodes[x] = q
      /\ \A n \in DOMAIN t.nodes : n # x => v.nodes[n] = t.nodes[n]
      /\ v.nodes = [n \in DOMAIN v.nodes |-> v.nodes[n]]
  BY <1>2
<1>5. Formed(v)
  BY <1>2, <1>3, <1>4 DEF Formed, Shape
<1>6. \A n \in DOMAIN t.nodes : /\ v.nodes[n].parent = t.nodes[n].parent /\ v.nodes[n].sel = t.nodes[n].sel
                                /\ v.nodes[n].take = t.nodes[n].take
  BY <1>3, <1>4
<1>7. Parents(v) = Parents(t)
  BY <1>4, <1>6 DEF Parents
<1>8. /\ \A n : PathNodes(v, n) = PathNodes(t, n)
      /\ \A n : Children(v, n) = Children(t, n)
  BY <1>4, <1>6, <1>7 DEF PathNodes, Children
<1>9. Linked(v)
  <2> SUFFICES ASSUME NEW n \in DOMAIN v.nodes
               PROVE  /\ v.nodes[n].parent # NoNode => v.nodes[n].parent \in DOMAIN v.nodes
                      /\ v.nodes[n].sel => /\ Owns(v, v.nodes[n].parent)
                                           /\ v.nodes[n].take \in 1..Len(v.nodes[v.nodes[n].parent].pages)
                                           /\ v.nodes[n].pages = <<>>
                      /\ ~v.nodes[n].sel => v.nodes[n].pages # <<>>
    BY DEF Linked
  <2>1. /\ t.nodes[n].parent # NoNode => t.nodes[n].parent \in DOMAIN t.nodes
        /\ t.nodes[n].sel => /\ t.nodes[n].parent \in DOMAIN t.nodes
                             /\ ~t.nodes[t.nodes[n].parent].sel
                             /\ t.nodes[n].take \in 1..Len(t.nodes[t.nodes[n].parent].pages)
                             /\ t.nodes[n].pages = <<>>
    BY <1>4, NodeLinks
  <2>2. ~t.nodes[n].sel => t.nodes[n].pages # <<>>
    BY <1>4 DEF Shape, Linked
  <2>3. t.nodes[n].parent # x
    BY <1>4 DEF Children
  <2>4. CASE n = x
    <3>1. Len(t.nodes[x].pages) > 0
      BY NodeLinks
    <3>2. Len(q.pages) > 0
      BY <3>1, <1>3
    <3>3. q.pages # <<>>
      BY <3>2
    <3> QED BY <3>3, <2>1, <2>4, <1>3, <1>4
  <2>5. CASE n # x
    BY <2>1, <2>2, <2>3, <2>5, <1>4, <1>6 DEF Owns
  <2> QED BY <2>4, <2>5
<1>10. Shape(v)
  BY <1>5, <1>7, <1>9 DEF Shape
<1> DEFINE E == DOMAIN t.nodes
           F == DOMAIN t.nodes \ {x}
<1>11. SameLinks(t, v, E)
  BY <1>4, <1>6, NodeLinks DEF SameLinks
<1>12. \A m \in F : /\ ContributionLen(t, m) = ContributionLen(v, m)
                    /\ Predecessor(t, m) # NoNode => Predecessor(t, m) \in F
  <2> SUFFICES ASSUME NEW m \in F
               PROVE  /\ ContributionLen(t, m) = ContributionLen(v, m)
                      /\ Predecessor(t, m) # NoNode => Predecessor(t, m) \in F
    OBVIOUS
  <2>1. ContributionLen(t, m) = ContributionLen(v, m)
    BY <1>4 DEF ContributionLen
  <2>2. Predecessor(t, m) # NoNode => Predecessor(t, m) \in DOMAIN t.nodes
    BY PredecessorFacts
  <2>3. t.nodes[m].sel => t.nodes[m].parent \in DOMAIN t.nodes
    BY NodeLinks
  <2>4. \A n \in DOMAIN t.nodes : t.nodes[n].parent # x
    BY DEF Children
  <2>5. Predecessor(t, m) # x
    BY <2>3, <2>4 DEF Predecessor
  <2> QED BY <2>1, <2>2, <2>5
<1>13. \A m \in F : Locations(t, m) = Locations(v, m)
  <2> HIDE DEF E
  <2>1. F \in SUBSET E
    BY DEF E
  <2> HIDE DEF F
  <2> QED BY <2>1, <1>10, <1>11, <1>12, LocationsSame
<1>14. \A n \in DOMAIN t.nodes \cup {NoNode} : n # x => Locations(v, n) = Locations(t, n)
  BY <1>13 DEF Locations
<1> QED BY <1>2, <1>4, <1>8, <1>10, <1>14 DEF Lengthened, SameRest, v, q

(* And disturb no count.                                                    *)
LEMMA LengthenedTrie ==
  ASSUME NEW t, Trie(t), NEW x, NEW pages, IsPages(pages), NEW v, Lengthened(t, x, pages, v),
         t.nodes[x].exact # 0
  PROVE  Trie(v) /\ AnchoredAt(v) = AnchoredAt(t) /\ Anchors(v) = Anchors(t)
<1>1. Shape(t) /\ Counts(t, AnchoredAt(t)) /\ AllAnchored(t) /\ Compacted(t)
  BY DEF Trie
<1>2. AnchoredAt(v) = AnchoredAt(t) /\ Anchors(v) = Anchors(t)
  BY DEF Lengthened, SameRest, AnchoredAt, Anchors
<1>3. x \in DOMAIN t.nodes /\ IsNode(t.nodes[x])
  BY <1>1 DEF Lengthened, Shape, Formed
<1>4. \A n \in DOMAIN t.nodes : /\ v.nodes[n].exact = t.nodes[n].exact /\ v.nodes[n].path = t.nodes[n].path
                                /\ v.nodes[n].sel = t.nodes[n].sel /\ v.nodes[n].take = t.nodes[n].take
  <2>1. v.nodes[x].exact = t.nodes[x].exact /\ v.nodes[x].path = t.nodes[x].path
        /\ v.nodes[x].sel = t.nodes[x].sel /\ v.nodes[x].take = t.nodes[x].take
    <3>1. IsLonger(t.nodes[x], pages, v.nodes[x])
      BY <1>3, ExtendedNode DEF Lengthened
    <3> QED BY <3>1 DEF IsLonger
  <2> QED BY <2>1 DEF Lengthened
<1>5. DOMAIN v.nodes = DOMAIN t.nodes /\ \A n : Over(v, n) = Over(t, n)
  BY DEF Lengthened, Over
<1>6. Counts(v, AnchoredAt(v))
  BY <1>1, <1>2, <1>4, <1>5 DEF Counts
<1>7. AllAnchored(v)
  BY <1>1, <1>4, <1>5 DEF AllAnchored
<1>8. Compacted(v)
  <2> SUFFICES ASSUME NEW n \in DOMAIN v.nodes, Compactable(v, n)
               PROVE  \E c \in Children(v, n) : v.nodes[c].take = Len(v.nodes[n].pages)
    BY DEF Compacted
  <2>1. Children(v, n) = Children(t, n) /\ v.swaps = t.swaps
    BY DEF Lengthened, SameRest
  <2>2. \A c \in Children(t, n) : c \in DOMAIN t.nodes
    BY DEF Children
  <2>3. n # x
    BY <1>3, <1>4 DEF Compactable
  <2>4. v.nodes[n] = t.nodes[n]
    BY <1>5, <2>3 DEF Lengthened
  <2>5. Compactable(t, n)
    BY <2>1, <2>2, <2>4, <1>4, <1>5 DEF Compactable
  <2>6. \E c \in Children(t, n) : t.nodes[c].take = Len(t.nodes[n].pages)
    BY <1>1, <1>5, <2>5 DEF Compacted
  <2> QED BY <2>1, <2>2, <2>4, <2>6, <1>4
<1>9. Shape(v)
  BY DEF Lengthened
<1> QED BY <1>2, <1>6, <1>7, <1>8, <1>9 DEF Trie

(* A node with one anchor of its own is one anchor's alone.                 *)
LEMMA AloneAt ==
  ASSUME NEW t, NEW f, Counts(t, f), NEW n \in DOMAIN t.nodes, t.nodes[n].exact = 1,
         NEW a \in DOMAIN f, NEW b \in DOMAIN f, f[a] = n, f[b] = n
  PROVE  a = b
<1> DEFINE S == AnchorsIn(f, {n})
<1>1. Cardinality(S) = 1 /\ a \in S /\ b \in S
  BY DEF Counts, AnchorsIn
<1>2. IsFiniteSet(S)
  BY FS_Subset DEF Counts, AnchorsIn
<1> HIDE DEF S
<1>3. \E z : S = {z}
  BY <1>1, <1>2, FS_Singleton
<1> QED BY <1>1, <1>3

Remaps(t, u, w, k) ==
  /\ SameNodes(t, u) /\ IsSets(u) /\ OtherSets(t, u, w)
  /\ u.ws[w] = [t.ws[w] EXCEPT !.mapped = k]
  /\ u.ws[w].mapped = k /\ u.ws[w].terminal = t.ws[w].terminal
  /\ AnchoredAt(u) = AnchoredAt(t) /\ Anchors(u) = Anchors(t)

(* A set's mapped length replaced.                                          *)
LEMMA Remapped ==
  ASSUME NEW t, IsTable(t), IsSets(t), NEW w \in DOMAIN t.ws, NEW k \in Nat
  PROVE  Remaps(t, SetMapped(t, w, k), w, k)
<1> DEFINE u == SetMapped(t, w, k)
           e == [t.ws[w] EXCEPT !.mapped = k]
<1>1. IsSet(t.ws[w])
  BY DEF IsSets
<1>2. IsSet(e) /\ e.mapped = k /\ e.terminal = t.ws[w].terminal
  BY <1>1 DEF IsSet
<1>3. u = WithSet(t, w, e)
  BY DEF SetMapped, WithSet, IsTable
<1> HIDE DEF u, e
<1>4. /\ SameNodes(t, u) /\ IsSets(u) /\ DOMAIN u.ws = DOMAIN t.ws
      /\ u.ws[w] = e /\ \A x \in DOMAIN t.ws : x # w => u.ws[x] = t.ws[x]
      /\ u.roots = t.roots /\ u.pins = t.pins /\ u.swaps = t.swaps
  BY <1>2, <1>3, SetPut DEF Replaced
<1>5. \A x \in DOMAIN t.ws : u.ws[x].terminal = t.ws[x].terminal
  BY <1>2, <1>4
<1>6. AnchoredAt(u) = AnchoredAt(t) /\ Anchors(u) = Anchors(t)
  BY <1>4, <1>5, AnchorsSame
<1> QED BY <1>2, <1>4, <1>6 DEF OtherSets, Remaps, u, e

(* Pruning moves no page that stays.                                        *)
LEMMA PrunedPage ==
  ASSUME NEW t, Shape(t), NEW u, Shape(u), Pruned(t, u), NEW l \in LiveLocations(u)
  PROVE  l \in LiveLocations(t) /\ Page(u, l) = Page(t, l)
<1>1. l = <<l[1], l[2]>> /\ l[1] \in DOMAIN u.nodes /\ l[2] \in 1..Len(u.nodes[l[1]].pages)
  BY LiveIn
<1>2. /\ l[1] \in DOMAIN t.nodes /\ Len(u.nodes[l[1]].pages) <= Len(t.nodes[l[1]].pages)
      /\ u.nodes[l[1]].pages[l[2]] = t.nodes[l[1]].pages[l[2]]
  BY <1>1 DEF Pruned
<1>3. Len(t.nodes[l[1]].pages) \in Nat /\ Len(u.nodes[l[1]].pages) \in Nat
  BY <1>1, <1>2, NodeFields
<1>4. l[2] \in 1..Len(t.nodes[l[1]].pages)
  BY <1>1, <1>2, <1>3
<1> QED BY <1>1, <1>2, <1>4, LiveIn DEF Page

(* publish_appended: pages mapped at the end of w's, in places of their own. *)
Appending(t, w, pages, named, u) ==
  /\ Trie(u) /\ IsSets(u) /\ OtherSets(t, u, w) /\ OthersRead(t, u, w)
  /\ u.ws[w] = [t.ws[w] EXCEPT !.terminal = u.ws[w].terminal, !.mapped = t.ws[w].mapped + Len(pages)]
  /\ LET old == Locations(t, t.ws[w].terminal)
         now == Locations(u, u.ws[w].terminal)
     IN  /\ Len(now) = Len(old) + Len(pages)
         /\ \A i \in 1..Len(old) : now[i] = old[i]
         /\ \A i \in 1..Len(pages) : /\ now[Len(old) + i] \in LiveLocations(u) \ LiveLocations(t)
                                     /\ Page(u, now[Len(old) + i]) = pages[i]
         /\ \A l \in LiveLocations(u) \ LiveLocations(t) : \E i \in 1..Len(pages) : l = now[Len(old) + i]
  /\ \A l \in LiveLocations(t) : l \in LiveLocations(u) /\ Page(u, l) = Page(t, l)
  /\ \A n \in DOMAIN u.nodes \ DOMAIN t.nodes : n \notin named

MorePages(t, x, k, pages, v) ==
  /\ k \in Nat /\ Len(pages) \in Nat /\ Len(v.nodes[x].pages) = k + Len(pages)
  /\ \A l \in LiveLocations(t) : l \in LiveLocations(v) /\ Page(v, l) = Page(t, l)
  /\ \A i \in 1..Len(pages) : /\ <<x, k + i>> \in LiveLocations(v) \ LiveLocations(t)
                              /\ Page(v, <<x, k + i>>) = pages[i]
  /\ \A l \in LiveLocations(v) \ LiveLocations(t) : \E i \in 1..Len(pages) : l = <<x, k + i>>

(* The locations an appended owner gains.                                   *)
LEMMA LengthenedLive ==
  ASSUME NEW t, Shape(t), NEW x, NEW pages, IsPages(pages), NEW v, Lengthened(t, x, pages, v)
  PROVE  MorePages(t, x, Len(t.nodes[x].pages), pages, v)
<1> DEFINE k == Len(t.nodes[x].pages)
<1>1. /\ Shape(v) /\ DOMAIN v.nodes = DOMAIN t.nodes /\ x \in DOMAIN t.nodes
      /\ \A n \in DOMAIN t.nodes : n # x => v.nodes[n] = t.nodes[n]
      /\ v.nodes[x] = LongerNode(t.nodes[x], pages)
  BY DEF Lengthened
<1>2. IsLonger(t.nodes[x], pages, v.nodes[x])
  BY <1>1, ExtendedNode DEF Shape, Formed
<1>3. /\ k \in Nat /\ Len(pages) \in Nat /\ Len(v.nodes[x].pages) = k + Len(pages)
      /\ \A i \in 1..k : v.nodes[x].pages[i] = t.nodes[x].pages[i]
      /\ \A i \in 1..Len(pages) : v.nodes[x].pages[k + i] = pages[i]
  BY <1>2 DEF IsLonger
<1> HIDE DEF k
<1>k. k = Len(t.nodes[x].pages)
  BY DEF k
<1>4. ASSUME NEW l \in LiveLocations(t)
      PROVE  l \in LiveLocations(v) /\ Page(v, l) = Page(t, l)
  <2>1. l = <<l[1], l[2]>> /\ l[1] \in DOMAIN t.nodes /\ l[2] \in 1..Len(t.nodes[l[1]].pages)
    BY LiveIn
  <2>2. CASE l[1] # x
    <3>1. v.nodes[l[1]] = t.nodes[l[1]]
      BY <2>1, <2>2, <1>1
    <3> QED BY <2>1, <3>1, <1>1, LiveIn DEF Page
  <2>3. CASE l[1] = x
    <3>1. l[2] \in 1..k /\ l[2] \in 1..Len(v.nodes[x].pages)
      BY <2>1, <2>3, <1>3, <1>k
    <3>2. Page(v, l) = Page(t, l)
      BY <3>1, <2>3, <1>3 DEF Page
    <3> QED BY <3>1, <3>2, <2>1, <2>3, <1>1, LiveIn
  <2> QED BY <2>2, <2>3
<1>5. ASSUME NEW i \in 1..Len(pages)
      PROVE  <<x, k + i>> \in LiveLocations(v) \ LiveLocations(t) /\ Page(v, <<x, k + i>>) = pages[i]
  <2> DEFINE l == <<x, k + i>>
  <2>1. l[1] = x /\ l[2] = k + i /\ l = <<l[1], l[2]>>
    OBVIOUS
  <2>2. k + i \in 1..Len(v.nodes[x].pages) /\ k + i \notin 1..k
    BY <1>3
  <2> HIDE DEF l
  <2>3. l \in LiveLocations(v)
    BY <2>1, <2>2, <1>1, LiveIn
  <2>4. l \notin LiveLocations(t)
    BY <2>1, <2>2, <1>k, LiveIn
  <2>5. Page(v, l) = pages[i]
    BY <2>1, <1>3 DEF Page
  <2> QED BY <2>3, <2>4, <2>5 DEF l
<1>6. ASSUME NEW l \in LiveLocations(v) \ LiveLocations(t)
      PROVE  \E i \in 1..Len(pages) : l = <<x, k + i>>
  <2>1. l = <<l[1], l[2]>> /\ l[1] \in DOMAIN v.nodes /\ l[2] \in 1..Len(v.nodes[l[1]].pages)
    BY <1>1, LiveIn
  <2>2. l[1] = x
    <3>1. l[1] # x => v.nodes[l[1]] = t.nodes[l[1]]
      BY <2>1, <1>1
    <3> QED BY <3>1, <2>1, <1>1, LiveIn
  <2>3. l[2] \notin 1..k
    BY <2>1, <2>2, <1>1, <1>k, LiveIn
  <2>4. l[2] - k \in 1..Len(pages) /\ l[2] = k + (l[2] - k)
    BY <2>1, <2>2, <2>3, <1>3
  <2> QED BY <2>1, <2>2, <2>4
<1> QED BY <1>3, <1>4, <1>5, <1>6 DEF k, MorePages

(* The mapping after pages were put at the end of the node x it ends at.     *)
Continues(t, old, u, x, k, pages) ==
  LET a == Len(Locations(t, old))
  IN  /\ a \in Nat /\ Len(pages) \in Nat
      /\ Len(Locations(u, x)) = a + Len(pages)
      /\ \A i \in 1..a : Locations(u, x)[i] = Locations(t, old)[i]
      /\ \A i \in 1..Len(pages) : Locations(u, x)[a + i] = <<x, k + i>>

(* The path it then has.                                                    *)
LEMMA LongerContinues ==
  ASSUME NEW t, Shape(t), NEW x, NEW pages, IsPages(pages), NEW v, Lengthened(t, x, pages, v),
         ~t.nodes[x].sel, Children(t, x) = {}
  PROVE  Continues(t, x, v, x, Len(t.nodes[x].pages), pages)
<1> DEFINE p == t.nodes[x].parent
           b == Len(Locations(t, p))
           k == Len(t.nodes[x].pages)
           n == Len(pages)
<1>1. Shape(v) /\ x \in DOMAIN t.nodes /\ x \in DOMAIN v.nodes
  BY DEF Lengthened
<1>2. IsLonger(t.nodes[x], pages, v.nodes[x])
  <2>1. v.nodes[x] = LongerNode(t.nodes[x], pages) /\ IsNode(t.nodes[x])
    BY <1>1 DEF Lengthened, Shape, Formed
  <2> QED BY <2>1, ExtendedNode
<1>3. ~v.nodes[x].sel /\ v.nodes[x].parent = p /\ k \in Nat /\ n \in Nat /\ Len(v.nodes[x].pages) = k + n
  BY <1>2 DEF IsLonger
<1>4. p # x
  BY <1>1 DEF Children
<1>5. p \in DOMAIN t.nodes \cup {NoNode}
  BY <1>1, NodeLinks
<1>6. Locations(v, p) = Locations(t, p)
  BY <1>4, <1>5 DEF Lengthened
<1>7. /\ Predecessor(t, x) = p /\ ContributionLen(t, x) = k /\ Source(t, x) = x
      /\ Predecessor(v, x) = p /\ ContributionLen(v, x) = k + n /\ Source(v, x) = x
  BY <1>3 DEF Predecessor, ContributionLen, Source
<1> HIDE DEF k, n, p
<1>8. /\ b \in Nat /\ Len(Locations(t, x)) = b + k
      /\ \A j \in 1..b : Locations(t, x)[j] = Locations(t, p)[j]
      /\ \A j \in 1..k : Locations(t, x)[b + j] = <<x, j>>
  <2>1. LET q == Predecessor(t, x)
            e == Len(Locations(t, q))
            d == ContributionLen(t, x)
        IN  /\ e \in Nat /\ Len(Locations(t, x)) = e + d
            /\ \A j \in 1..e : Locations(t, x)[j] = Locations(t, q)[j]
            /\ \A j \in 1..d : Locations(t, x)[e + j] = <<Source(t, x), j>>
    BY <1>1, LocationItems
  <2> QED BY <2>1, <1>7
<1>9. /\ Len(Locations(v, x)) = b + (k + n)
      /\ \A j \in 1..b : Locations(v, x)[j] = Locations(t, p)[j]
      /\ \A j \in 1..(k + n) : Locations(v, x)[b + j] = <<x, j>>
  <2>1. LET q == Predecessor(v, x)
            e == Len(Locations(v, q))
            d == ContributionLen(v, x)
        IN  /\ e \in Nat /\ Len(Locations(v, x)) = e + d
            /\ \A j \in 1..e : Locations(v, x)[j] = Locations(v, q)[j]
            /\ \A j \in 1..d : Locations(v, x)[e + j] = <<Source(v, x), j>>
    BY <1>1, LocationItems
  <2> QED BY <2>1, <1>6, <1>7
<1> DEFINE a == Len(Locations(t, x))
<1> HIDE DEF b, a
<1>10. a \in Nat /\ a = b + k
  BY <1>3, <1>8 DEF a
<1>11. \A i \in 1..a : Locations(v, x)[i] = Locations(t, x)[i]
  <2> SUFFICES ASSUME NEW i \in 1..a PROVE Locations(v, x)[i] = Locations(t, x)[i]
    OBVIOUS
  <2>1. CASE i <= b
    <3>1. i \in 1..b
      BY <2>1, <1>8, <1>10
    <3> QED BY <3>1, <1>8, <1>9
  <2>2. CASE i > b
    <3> DEFINE j == i - b
    <3>1. j \in 1..k /\ j \in 1..(k + n) /\ i = b + j
      BY <2>2, <1>3, <1>8, <1>10
    <3> HIDE DEF j
    <3> QED BY <3>1, <1>8, <1>9
  <2> QED BY <2>1, <2>2, <1>8, <1>10
<1>12. \A i \in 1..n : Locations(v, x)[a + i] = <<x, k + i>>
  <2> SUFFICES ASSUME NEW i \in 1..n PROVE Locations(v, x)[a + i] = <<x, k + i>>
    OBVIOUS
  <2>1. k + i \in 1..(k + n) /\ a + i = b + (k + i)
    BY <1>3, <1>8, <1>10
  <2> QED BY <2>1, <1>9
<1>13. Len(Locations(v, x)) = a + n
  BY <1>3, <1>8, <1>9, <1>10
<1> QED BY <1>3, <1>10, <1>11, <1>12, <1>13 DEF Continues, a, k, n

(* publish_appended where the terminal is the set's alone.                  *)
LEMMA AppendsInPlace ==
  ASSUME NEW t, Trie(t), IsSets(t), NEW w \in DOMAIN t.ws, NEW x, x = t.ws[w].terminal, x # NoNode,
         CanExtendInPlace(t, x), NEW pages, IsPages(pages), NEW named
  PROVE  Appending(t, w, pages, named, SetMapped(Longer(t, x, pages), w, t.ws[w].mapped + Len(pages)))
<1> DEFINE v == Longer(t, x, pages)
           m == t.ws[w].mapped + Len(pages)
           u == SetMapped(v, w, m)
           k == Len(t.nodes[x].pages)
<1>1. Shape(t) /\ Counts(t, AnchoredAt(t)) /\ IsTable(t)
  BY DEF Trie, Shape, Formed
<1>2. x \in DOMAIN t.nodes /\ ~t.nodes[x].sel /\ Children(t, x) = {} /\ t.nodes[x].exact = 1
  BY <1>1, AnchorsLive DEF CanExtendInPlace
<1>3. Lengthened(t, x, pages, v)
  BY <1>1, <1>2, Lengthens
<1> HIDE DEF v
<1>4. Trie(v) /\ AnchoredAt(v) = AnchoredAt(t) /\ Anchors(v) = Anchors(t)
  BY <1>2, <1>3, LengthenedTrie
<1>5. SameRest(t, v) /\ DOMAIN v.nodes = DOMAIN t.nodes /\ IsTable(v) /\ Shape(v)
  BY <1>3, <1>4 DEF Lengthened, Trie, Shape, Formed
<1>6. IsSets(v) /\ w \in DOMAIN v.ws /\ v.ws = t.ws
  BY <1>5 DEF IsSets, SameRest
<1>7. m \in Nat
  <2>1. t.ws[w].mapped \in Nat
    BY DEF IsSets, IsSet
  <2>2. Len(pages) \in Nat
    BY DEF IsPages
  <2> QED BY <2>1, <2>2
<1> HIDE DEF u, m
<1>8. Remaps(v, u, w, m)
  BY <1>5, <1>6, <1>7, Remapped DEF u
<1>9. /\ SameNodes(v, u) /\ IsSets(u) /\ OtherSets(v, u, w)
      /\ u.ws[w] = [t.ws[w] EXCEPT !.mapped = m] /\ u.ws[w].terminal = x
      /\ AnchoredAt(u) = AnchoredAt(t) /\ Anchors(u) = Anchors(t)
  BY <1>4, <1>6, <1>8 DEF Remaps
<1>10. /\ Trie(u) /\ LiveLocations(u) = LiveLocations(v)
       /\ \A n : Locations(u, n) = Locations(v, n)
  BY <1>4, <1>9, TrieKept DEF OtherSets
<1>11. OtherSets(t, u, w)
  BY <1>5, <1>6, <1>9 DEF OtherSets, SameRest
<1>12. OthersRead(t, u, w)
  <2> SUFFICES ASSUME NEW a \in Anchors(t), a # <<"set", w>>
               PROVE  Locations(u, AnchoredAt(t)[a]) = Locations(t, AnchoredAt(t)[a])
    BY <1>9 DEF OthersRead
  <2>1. a \in DOMAIN AnchoredAt(t) /\ AnchoredAt(t)[a] \in DOMAIN t.nodes
    BY <1>1, AnchorsLive DEF AnchoredAt
  <2>2. <<"set", w>> \in DOMAIN AnchoredAt(t) /\ AnchoredAt(t)[<<"set", w>>] = x
    BY SetAnchor
  <2> DEFINE f == AnchoredAt(t)
  <2> HIDE DEF f
  <2>3. f[a] # x
    <3>1. Counts(t, f) /\ a \in DOMAIN f /\ <<"set", w>> \in DOMAIN f /\ f[<<"set", w>>] = x
      BY <1>1, <2>1, <2>2 DEF f
    <3> QED BY <3>1, <1>2, AloneAt
  <2> QED BY <2>1, <2>3, <1>3, <1>10 DEF Lengthened, f
<1>13. Continues(t, x, v, x, k, pages)
  BY <1>1, <1>2, <1>3, LongerContinues
<1>14. MorePages(t, x, k, pages, v)
  BY <1>1, <1>3, LengthenedLive
<1>15. \A l \in LiveLocations(v) : Page(u, l) = Page(v, l)
  BY <1>9 DEF SameNodes, Page
<1>16. u.ws[w] = [t.ws[w] EXCEPT !.terminal = u.ws[w].terminal, !.mapped = t.ws[w].mapped + Len(pages)]
  <2>1. IsSet(t.ws[w])
    BY DEF IsSets
  <2>2. [t.ws[w] EXCEPT !.mapped = m] = [t.ws[w] EXCEPT !.terminal = x, !.mapped = m]
    BY <2>1 DEF IsSet
  <2> QED BY <2>2, <1>9 DEF m
<1> HIDE DEF k
<1>17. \A i \in 1..Len(pages) : <<x, k + i>> \in LiveLocations(u) \ LiveLocations(t) /\ Page(u, <<x, k + i>>) = pages[i]
  BY <1>10, <1>14, <1>15 DEF MorePages
<1>18. \A l \in LiveLocations(u) \ LiveLocations(t) : \E i \in 1..Len(pages) : l = <<x, k + i>>
  BY <1>10, <1>14 DEF MorePages
<1>19. \A l \in LiveLocations(t) : l \in LiveLocations(u) /\ Page(u, l) = Page(t, l)
  BY <1>10, <1>14, <1>15 DEF MorePages
<1> DEFINE old == Locations(t, t.ws[w].terminal)
           now == Locations(u, u.ws[w].terminal)
<1>20. /\ Len(now) = Len(old) + Len(pages)
       /\ \A i \in 1..Len(old) : now[i] = old[i]
       /\ \A i \in 1..Len(pages) : now[Len(old) + i] = <<x, k + i>>
  BY <1>9, <1>10, <1>13 DEF Continues
<1> HIDE DEF old, now
<1>21. \A i \in 1..Len(pages) : /\ now[Len(old) + i] \in LiveLocations(u) \ LiveLocations(t)
                                /\ Page(u, now[Len(old) + i]) = pages[i]
  BY <1>17, <1>20
<1>22. \A l \in LiveLocations(u) \ LiveLocations(t) : \E i \in 1..Len(pages) : l = now[Len(old) + i]
  BY <1>18, <1>20
<1>23. DOMAIN u.nodes = DOMAIN t.nodes
  BY <1>5, <1>9 DEF SameNodes
<1> QED BY <1>9, <1>10, <1>11, <1>12, <1>16, <1>19, <1>20, <1>21, <1>22, <1>23 DEF Appending, old, now, u, v, m

(* A new owner is a leaf.                                                   *)
LEMMA OwnedLeaf ==
  ASSUME NEW t, Shape(t), NEW x \in Nat \ {0}, x \notin DOMAIN t.nodes,
         NEW p \in DOMAIN t.nodes \cup {NoNode}, NEW pages, IsPages(pages), pages # <<>>
  PROVE  IsLeaf(t, x, Owned(p, pages))
<1> DEFINE node == Owned(p, pages)
<1>1. /\ node.parent = p /\ node.sel = FALSE /\ node.pages = pages /\ node.take = 0
      /\ node.exact = 0 /\ node.path = 0 /\ node.idx = FALSE
  BY DEF Owned
<1>2. p \in Nat
  BY NodeFields DEF NoNode
<1>3. node \in [parent : Nat, sel : BOOLEAN, pages : {node.pages}, take : Nat,
            exact : Int, path : Int, idx : BOOLEAN]
  BY <1>2 DEF Owned
<1> HIDE DEF node
<1>4. IsNode(node)
  BY <1>1, <1>3 DEF IsNode, IsPages
<1> QED BY <1>1, <1>4 DEF IsLeaf, node

(* The path of a new owner.                                                 *)
LEMMA LeafContinues ==
  ASSUME NEW t, Shape(t), NEW x, NEW p \in DOMAIN t.nodes \cup {NoNode}, NEW pages, IsPages(pages),
         NEW v, Sprouted(t, v, x), v.nodes[x] = Owned(p, pages)
  PROVE  Continues(t, p, v, x, 0, pages)
<1>1. Shape(v) /\ x \in DOMAIN v.nodes
  BY DEF Sprouted, Almost
<1>2. Predecessor(v, x) = p /\ ContributionLen(v, x) = Len(pages) /\ Source(v, x) = x
  BY DEF Predecessor, ContributionLen, Source, Owned
<1>3. Locations(v, p) = Locations(t, p)
  BY DEF Sprouted, Locations
<1>4. LET q == Predecessor(v, x)
          e == Len(Locations(v, q))
          d == ContributionLen(v, x)
      IN  /\ e \in Nat /\ d \in Nat /\ Len(Locations(v, x)) = e + d
          /\ \A j \in 1..e : Locations(v, x)[j] = Locations(v, q)[j]
          /\ \A j \in 1..d : Locations(v, x)[e + j] = <<Source(v, x), j>>
  BY <1>1, LocationItems
<1> DEFINE a == Len(Locations(t, p))
<1>5. /\ a \in Nat /\ Len(pages) \in Nat /\ Len(Locations(v, x)) = a + Len(pages)
      /\ \A j \in 1..a : Locations(v, x)[j] = Locations(t, p)[j]
      /\ \A j \in 1..Len(pages) : Locations(v, x)[a + j] = <<x, j>>
  BY <1>2, <1>3, <1>4
<1>6. \A j \in 1..Len(pages) : 0 + j = j
  BY <1>5
<1> QED BY <1>5, <1>6 DEF Continues

(* The locations a new owner brings.                                        *)
LEMMA SproutedMore ==
  ASSUME NEW t, Shape(t), NEW x, x \notin DOMAIN t.nodes, NEW p, NEW pages, IsPages(pages),
         NEW v, Sprouted(t, v, x), v.nodes[x] = Owned(p, pages)
  PROVE  MorePages(t, x, 0, pages, v)
<1>1. Shape(v) /\ DOMAIN v.nodes = DOMAIN t.nodes \cup {x} /\ \A m \in DOMAIN t.nodes : v.nodes[m] = t.nodes[m]
  BY DEF Sprouted, Almost
<1>2. v.nodes[x].pages = pages /\ Len(pages) \in Nat
  BY DEF Owned, IsPages
<1>3. \A l \in LiveLocations(t) : l \in LiveLocations(v) /\ Page(v, l) = Page(t, l)
  <2> SUFFICES ASSUME NEW l \in LiveLocations(t) PROVE l \in LiveLocations(v) /\ Page(v, l) = Page(t, l)
    OBVIOUS
  <2>1. l = <<l[1], l[2]>> /\ l[1] \in DOMAIN t.nodes /\ l[2] \in 1..Len(t.nodes[l[1]].pages)
    BY LiveIn
  <2>2. v.nodes[l[1]] = t.nodes[l[1]] /\ l[1] \in DOMAIN v.nodes
    BY <2>1, <1>1
  <2> QED BY <2>1, <2>2, <1>1, LiveIn DEF Page
<1>4. ASSUME NEW i \in 1..Len(pages)
      PROVE  <<x, 0 + i>> \in LiveLocations(v) \ LiveLocations(t) /\ Page(v, <<x, 0 + i>>) = pages[i]
  <2> DEFINE l == <<x, i>>
  <2>1. l[1] = x /\ l[2] = i /\ l = <<l[1], l[2]>> /\ 0 + i = i
    BY <1>2
  <2> HIDE DEF l
  <2>2. l \in LiveLocations(v)
    BY <2>1, <1>1, <1>2, LiveIn
  <2>3. l \notin LiveLocations(t)
    BY <2>1, LiveIn
  <2>4. Page(v, l) = pages[i]
    BY <2>1, <1>2 DEF Page
  <2> QED BY <2>1, <2>2, <2>3, <2>4
<1>5. ASSUME NEW l \in LiveLocations(v) \ LiveLocations(t)
      PROVE  \E i \in 1..Len(pages) : l = <<x, 0 + i>>
  <2>1. l = <<l[1], l[2]>> /\ l[1] \in DOMAIN v.nodes /\ l[2] \in 1..Len(v.nodes[l[1]].pages)
    BY <1>1, LiveIn
  <2>2. l[1] = x
    <3>1. l[1] # x => l[1] \in DOMAIN t.nodes /\ v.nodes[l[1]] = t.nodes[l[1]]
      BY <2>1, <1>1
    <3> QED BY <3>1, <2>1, LiveIn
  <2>3. l[2] \in 1..Len(pages) /\ l[2] = 0 + l[2]
    BY <2>1, <2>2, <1>2
  <2> QED BY <2>1, <2>2, <2>3
<1>6. Len(v.nodes[x].pages) = 0 + Len(pages) /\ 0 \in Nat
  BY <1>2
<1> QED BY <1>2, <1>3, <1>4, <1>5, <1>6 DEF MorePages

(* publish_appended through a new owner.                                    *)
LEMMA AppendsFresh ==
  ASSUME NEW t, Trie(t), IsSets(t), NEW w \in DOMAIN t.ws, NEW pages, IsPages(pages), pages # <<>>,
         NEW named, IsFiniteSet(named), NEW x, x = FreshNode(t, named)
  PROVE  Appending(t, w, pages, named,
           SetMapped(MoveTerminal(WithNode(t, x, Owned(t.ws[w].terminal, pages)), w, x).t, w,
                     t.ws[w].mapped + Len(pages)))
<1> DEFINE p == t.ws[w].terminal
           v == WithNode(t, x, Owned(p, pages))
           r == MoveTerminal(v, w, x)
           m == t.ws[w].mapped + Len(pages)
           u == SetMapped(r.t, w, m)
<1>1. Shape(t) /\ Counts(t, AnchoredAt(t)) /\ IsTable(t)
  BY DEF Trie, Shape, Formed
<1>2. x \in Nat \ {0} /\ x \notin DOMAIN t.nodes /\ x \notin named /\ x # NoNode /\ x \in Nat
  BY <1>1, FreshNodeFresh DEF Shape, Formed, NoNode
<1>3. p \in DOMAIN t.nodes \cup {NoNode}
  BY <1>1, AnchorsLive
<1>4. Sprouted(t, v, x) /\ Shape(v) /\ v.nodes[x] = Owned(p, pages)
  <2>1. IsLeaf(t, x, Owned(p, pages))
    BY <1>1, <1>2, <1>3, OwnedLeaf
  <2> QED BY <2>1, SproutsLeaf
<1> HIDE DEF v, p
<1>5. /\ SameRest(t, v) /\ Almost(v, x) /\ x \in DOMAIN v.nodes /\ DOMAIN v.nodes = DOMAIN t.nodes \cup {x}
      /\ Anchors(v) = Anchors(t) /\ AnchoredAt(v) = AnchoredAt(t) /\ IsTable(v)
      /\ \A n \in DOMAIN t.nodes : Locations(v, n) = Locations(t, n)
  BY <1>4 DEF Sprouted, Shape, Formed
<1>6. v.ws = t.ws /\ IsSets(v) /\ w \in DOMAIN v.ws /\ v.ws[w].terminal = p
  BY <1>5 DEF SameRest, IsSets, p
<1>7. Continues(t, p, v, x, 0, pages)
  BY <1>1, <1>3, <1>4, LeafContinues
<1>8. MorePages(t, x, 0, pages, v)
  BY <1>1, <1>2, <1>4, SproutedMore
<1>9. MovedTo(v, w, x, r)
  BY <1>5, <1>6, MovesTerminal
<1> HIDE DEF r
<1>10. /\ OtherSets(v, r.t, w) /\ OthersRead(v, r.t, w) /\ IsSets(r.t)
       /\ r.t.ws[w] = [v.ws[w] EXCEPT !.terminal = x]
       /\ Locations(r.t, x) = Locations(v, x)
  BY <1>2, <1>5, <1>6, <1>9, MovedOthers
<1>11. ToSet(Locations(v, p)) \subseteq ToSet(Locations(v, x))
  <2>1. Locations(v, p) = Locations(t, p)
    BY <1>3, <1>5 DEF Locations
  <2>2. DOMAIN Locations(t, p) = 1..Len(Locations(t, p)) /\ DOMAIN Locations(v, x) = 1..Len(Locations(v, x))
    BY <1>1, <1>3, <1>4, <1>5, LocationFacts
  <2>3. \A i \in 1..Len(Locations(t, p)) : i \in DOMAIN Locations(v, x) /\ Locations(v, x)[i] = Locations(t, p)[i]
    BY <1>7, <2>2 DEF Continues
  <2> QED BY <2>1, <2>2, <2>3 DEF ToSet
<1>12. LiveLocations(r.t) = LiveLocations(v) /\ Trie(r.t) /\ Pruned(v, r.t)
  BY <1>2, <1>6, <1>9, <1>11 DEF MovedTo
<1>13. IsTable(r.t) /\ Shape(r.t)
  BY <1>12 DEF Trie, Shape, Formed
<1>14. w \in DOMAIN r.t.ws
  BY <1>6, <1>10 DEF OtherSets
<1>15. m \in Nat
  <2>1. t.ws[w].mapped \in Nat
    BY DEF IsSets, IsSet
  <2>2. Len(pages) \in Nat
    BY DEF IsPages
  <2> QED BY <2>1, <2>2
<1> HIDE DEF u, m
<1>16. Remaps(r.t, u, w, m)
  BY <1>10, <1>13, <1>14, <1>15, Remapped DEF u
<1>17. /\ SameNodes(r.t, u) /\ IsSets(u) /\ OtherSets(r.t, u, w)
       /\ u.ws[w] = [r.t.ws[w] EXCEPT !.mapped = m] /\ u.ws[w].terminal = r.t.ws[w].terminal
       /\ AnchoredAt(u) = AnchoredAt(r.t) /\ Anchors(u) = Anchors(r.t)
  BY <1>16 DEF Remaps
<1>18. /\ Trie(u) /\ LiveLocations(u) = LiveLocations(r.t)
       /\ \A n : Locations(u, n) = Locations(r.t, n)
  BY <1>12, <1>17, TrieKept DEF OtherSets
<1>19. OtherSets(t, u, w)
  BY <1>5, <1>6, <1>10, <1>17 DEF OtherSets, SameRest
<1>20. OthersRead(t, u, w)
  <2> SUFFICES ASSUME NEW a \in Anchors(u), a # <<"set", w>>
               PROVE  /\ a \in Anchors(t) /\ AnchoredAt(u)[a] = AnchoredAt(t)[a]
                      /\ Locations(u, AnchoredAt(u)[a]) = Locations(t, AnchoredAt(u)[a])
    BY DEF OthersRead
  <2>1. /\ a \in Anchors(v) /\ AnchoredAt(r.t)[a] = AnchoredAt(v)[a]
        /\ Locations(r.t, AnchoredAt(r.t)[a]) = Locations(v, AnchoredAt(r.t)[a])
    BY <1>10, <1>17 DEF OthersRead
  <2>2. a \in Anchors(t) /\ AnchoredAt(u)[a] = AnchoredAt(t)[a]
    BY <2>1, <1>5, <1>17
  <2>3. AnchoredAt(t)[a] \in DOMAIN t.nodes
    BY <2>2, <1>1, AnchorsLive
  <2> DEFINE n == AnchoredAt(t)[a]
  <2>4. n \in DOMAIN t.nodes /\ AnchoredAt(u)[a] = n /\ AnchoredAt(r.t)[a] = n
    BY <2>1, <2>2, <2>3, <1>5
  <2> HIDE DEF n
  <2>5. Locations(u, n) = Locations(r.t, n) /\ Locations(r.t, n) = Locations(v, n) /\ Locations(v, n) = Locations(t, n)
    BY <2>1, <2>4, <1>5, <1>18
  <2> QED BY <2>2, <2>4, <2>5
<1>21. u.ws[w].terminal = x
  <2>1. IsSet(v.ws[w])
    BY <1>6 DEF IsSets
  <2> QED BY <2>1, <1>10, <1>17 DEF IsSet
<1>22. u.ws[w] = [t.ws[w] EXCEPT !.terminal = u.ws[w].terminal, !.mapped = t.ws[w].mapped + Len(pages)]
  <2>1. IsSet(t.ws[w])
    BY DEF IsSets
  <2>2. u.ws[w] = [[t.ws[w] EXCEPT !.terminal = x] EXCEPT !.mapped = m]
    BY <1>6, <1>10, <1>17
  <2>3. [[t.ws[w] EXCEPT !.terminal = x] EXCEPT !.mapped = m] = [t.ws[w] EXCEPT !.terminal = x, !.mapped = m]
    BY <2>1 DEF IsSet
  <2> QED BY <2>2, <2>3, <1>21 DEF m
<1>23. \A l \in LiveLocations(v) : Page(u, l) = Page(v, l)
  <2>1. \A l \in LiveLocations(v) : Page(r.t, l) = Page(v, l)
    BY <1>4, <1>12, <1>13, PrunedPage
  <2> QED BY <2>1, <1>17 DEF SameNodes, Page
<1>24. LiveLocations(u) = LiveLocations(v)
  BY <1>12, <1>18
<1>25. \A i \in 1..Len(pages) : <<x, 0 + i>> \in LiveLocations(u) \ LiveLocations(t) /\ Page(u, <<x, 0 + i>>) = pages[i]
  BY <1>8, <1>23, <1>24 DEF MorePages
<1>26. \A l \in LiveLocations(u) \ LiveLocations(t) : \E i \in 1..Len(pages) : l = <<x, 0 + i>>
  BY <1>8, <1>24 DEF MorePages
<1>27. \A l \in LiveLocations(t) : l \in LiveLocations(u) /\ Page(u, l) = Page(t, l)
  BY <1>8, <1>23, <1>24 DEF MorePages
<1> DEFINE old == Locations(t, t.ws[w].terminal)
           now == Locations(u, u.ws[w].terminal)
<1>28. /\ Len(now) = Len(old) + Len(pages)
       /\ \A i \in 1..Len(old) : now[i] = old[i]
       /\ \A i \in 1..Len(pages) : now[Len(old) + i] = <<x, 0 + i>>
  <2>1. now = Locations(v, x) /\ old = Locations(t, p)
    BY <1>10, <1>18, <1>21 DEF p
  <2> HIDE DEF now, old
  <2> QED BY <2>1, <1>7 DEF Continues
<1> HIDE DEF old, now
<1>29. \A i \in 1..Len(pages) : /\ now[Len(old) + i] \in LiveLocations(u) \ LiveLocations(t)
                                /\ Page(u, now[Len(old) + i]) = pages[i]
  BY <1>25, <1>28
<1>30. \A l \in LiveLocations(u) \ LiveLocations(t) : \E i \in 1..Len(pages) : l = now[Len(old) + i]
  BY <1>26, <1>28
<1>31. \A n \in DOMAIN u.nodes \ DOMAIN t.nodes : n \notin named
  BY <1>2, <1>5, <1>12, <1>17 DEF SameNodes, Pruned
<1> QED BY <1>17, <1>18, <1>19, <1>20, <1>22, <1>27, <1>28, <1>29, <1>30, <1>31 DEF Appending, old, now, u, r, v, m, p

(* publish_appended of nothing.                                             *)
LEMMA AppendsNone ==
  ASSUME NEW t, Trie(t), IsSets(t), NEW w \in DOMAIN t.ws, NEW named
  PROVE  Appending(t, w, <<>>, named, t)
<1>1. IsSet(t.ws[w])
  BY DEF IsSets
<1>2. t.ws[w] = [t.ws[w] EXCEPT !.terminal = t.ws[w].terminal, !.mapped = t.ws[w].mapped + 0]
  <2>1. t.ws[w].mapped \in Nat
    BY <1>1 DEF IsSet
  <2>2. t.ws[w].mapped + 0 = t.ws[w].mapped
    BY <2>1
  <2>3. t.ws[w] = [t.ws[w] EXCEPT !.terminal = t.ws[w].terminal, !.mapped = t.ws[w].mapped]
    BY <1>1 DEF IsSet
  <2> QED BY <2>2, <2>3
<1>3. Shape(t) /\ Counts(t, AnchoredAt(t))
  BY DEF Trie
<1>4. t.ws[w].terminal \in DOMAIN t.nodes \cup {NoNode}
  BY <1>3, AnchorsLive
<1>5. Len(Locations(t, t.ws[w].terminal)) \in Nat
  BY <1>3, <1>4, LocationFacts
<1>6. Len(<<>>) = 0 /\ 1..0 = {}
  OBVIOUS
<1> QED BY <1>2, <1>5, <1>6 DEF Appending, OtherSets, OthersRead

(* publish_appended: the old path, then the pages given, at new locations.  *)
LEMMA Appends ==
  ASSUME NEW t, Trie(t), IsSets(t), NEW w \in DOMAIN t.ws, NEW pages, IsPages(pages),
         NEW named, IsFiniteSet(named)
  PROVE  Appending(t, w, pages, named, PublishAppended(t, w, pages, named))
<1> DEFINE end == t.ws[w].terminal
           x == FreshNode(t, named)
<1>1. CASE pages = <<>>
  BY <1>1, AppendsNone DEF PublishAppended
<1>2. CASE pages # <<>> /\ end # NoNode /\ CanExtendInPlace(t, end)
  <2>1. PublishAppended(t, w, pages, named) = SetMapped(Longer(t, end, pages), w, t.ws[w].mapped + Len(pages))
    BY <1>2 DEF PublishAppended, Longer
  <2> QED BY <1>2, <2>1, AppendsInPlace
<1>3. CASE pages # <<>> /\ ~(end # NoNode /\ CanExtendInPlace(t, end))
  <2>1. PublishAppended(t, w, pages, named) =
          SetMapped(MoveTerminal(WithNode(t, x, Owned(end, pages)), w, x).t, w, t.ws[w].mapped + Len(pages))
    BY <1>3 DEF PublishAppended
  <2> QED BY <1>3, <2>1, AppendsFresh
<1> QED BY <1>1, <1>2, <1>3

(* A table with a node where the first b pages of n's mapping end.          *)
EndsHere(t, n, b, named, at) ==
  /\ Almost(at.t, at.node) /\ at.node \in DOMAIN at.t.nodes \cup {NoNode} /\ SameRest(t, at.t)
  /\ \A m \in DOMAIN at.t.nodes \ DOMAIN t.nodes : m \notin named
  /\ \A m \in DOMAIN t.nodes : /\ m \in DOMAIN at.t.nodes /\ at.t.nodes[m] = t.nodes[m]
                               /\ Locations(at.t, m) = Locations(t, m)
  /\ AnchoredAt(at.t) = AnchoredAt(t) /\ Anchors(at.t) = Anchors(t)
  /\ LiveLocations(at.t) = LiveLocations(t)
  /\ Len(Locations(at.t, at.node)) = b
  /\ \A i \in 1..b : Locations(at.t, at.node)[i] = Locations(t, n)[i]

(* A boundary found is a place to cut to.                                   *)
LEMMA EndsBoundary ==
  ASSUME NEW t, NEW n, NEW b, NEW named, NEW at, EndsAt(t, n, b, named, at)
  PROVE  EndsHere(t, n, b, named, at)
BY DEF EndsAt, Sprouted, EndsHere

(* Nothing is a place to cut to.                                            *)
LEMMA EndsAtNone ==
  ASSUME NEW t, Trie(t), NEW n, NEW named
  PROVE  EndsHere(t, n, 0, named, [t |-> t, node |-> NoNode])
<1>1. Almost(t, NoNode)
  BY TrieAlmost
<1>2. Locations(t, NoNode) = <<>> /\ Len(<<>>) = 0 /\ 1..0 = {}
  BY DEF Locations
<1> QED BY <1>1, <1>2 DEF EndsHere, SameRest

(* The mapping of w is now the first b pages of n's.                        *)
Cutting(t, w, n, b, named, u, freed) ==
  /\ Trie(u) /\ IsSets(u) /\ OtherSets(t, u, w) /\ OthersRead(t, u, w)
  /\ u.ws[w] = [t.ws[w] EXCEPT !.terminal = u.ws[w].terminal, !.mapped = b]
  /\ Len(Locations(u, u.ws[w].terminal)) = b
  /\ \A i \in 1..b : Locations(u, u.ws[w].terminal)[i] = Locations(t, n)[i]
  /\ \A l \in LiveLocations(u) : l \in LiveLocations(t) /\ Page(u, l) = Page(t, l)
  /\ freed = Lost(t, u)
  /\ \A m \in DOMAIN u.nodes \ DOMAIN t.nodes : m \notin named
  /\ \A l \in t.swaps : l \in LiveLocations(t) /\ l[1] \in DOMAIN u.nodes => l \in LiveLocations(u)
  /\ LET old == Locations(t, t.ws[w].terminal)
     IN  Len(old) <= b /\ b # 0 /\ (\A i \in 1..Len(old) : Locations(t, n)[i] = old[i])
           => freed = {} /\ LiveLocations(u) = LiveLocations(t)

(* Nodes kept keep their pages.                                             *)
LEMMA SamePages ==
  ASSUME NEW t, Shape(t), NEW v, \A m \in DOMAIN t.nodes : v.nodes[m] = t.nodes[m], NEW l \in LiveLocations(t)
  PROVE  Page(v, l) = Page(t, l)
<1>1. l[1] \in DOMAIN t.nodes
  BY LiveIn
<1> QED BY <1>1 DEF Page

(* A set cut to a prefix of a path: what is freed is what no one reads.     *)
LEMMA Cuts ==
  ASSUME NEW t, Trie(t), IsSets(t), NEW w \in DOMAIN t.ws, NEW n, NEW b \in Nat, NEW named, NEW at,
         EndsHere(t, n, b, named, at)
  PROVE  Cutting(t, w, n, b, named, SetMapped(CutTo(at, w).t, w, b), CutTo(at, w).freed)
<1> DEFINE v == at.t
           x == at.node
           r == CutTo(at, w)
           u == SetMapped(r.t, w, b)
<1>1. Shape(t) /\ Counts(t, AnchoredAt(t)) /\ IsTable(t)
  BY DEF Trie, Shape, Formed
<1>2. /\ Almost(v, x) /\ x \in DOMAIN v.nodes \cup {NoNode} /\ SameRest(t, v)
      /\ \A m \in DOMAIN v.nodes \ DOMAIN t.nodes : m \notin named
      /\ \A m \in DOMAIN t.nodes : m \in DOMAIN v.nodes /\ v.nodes[m] = t.nodes[m] /\ Locations(v, m) = Locations(t, m)
      /\ AnchoredAt(v) = AnchoredAt(t) /\ Anchors(v) = Anchors(t)
      /\ LiveLocations(v) = LiveLocations(t)
      /\ Len(Locations(v, x)) = b
      /\ \A i \in 1..b : Locations(v, x)[i] = Locations(t, n)[i]
  BY DEF EndsHere
<1>3. r = MoveTerminal(v, w, x)
  BY DEF CutTo
<1> HIDE DEF v, x, r
<1>4. Shape(v) /\ IsTable(v)
  BY <1>2 DEF Almost, Shape, Formed
<1>5. v.ws = t.ws /\ IsSets(v) /\ w \in DOMAIN v.ws
  BY <1>2 DEF SameRest, IsSets
<1>6. x \in Nat
  BY <1>2, <1>4, NodeFields DEF NoNode
<1>7. MovedTo(v, w, x, r)
  BY <1>2, <1>3, <1>5, MovesTerminal
<1>8. /\ OtherSets(v, r.t, w) /\ OthersRead(v, r.t, w) /\ IsSets(r.t)
      /\ r.t.ws[w] = [v.ws[w] EXCEPT !.terminal = x]
      /\ Locations(r.t, x) = Locations(v, x)
  BY <1>4, <1>5, <1>6, <1>7, MovedOthers
<1>9. /\ Trie(r.t) /\ Pruned(v, r.t) /\ r.freed = Lost(v, r.t)
      /\ \A l \in v.swaps : l[1] \in DOMAIN r.t.nodes => Len(r.t.nodes[l[1]].pages) = Len(v.nodes[l[1]].pages)
  BY <1>7 DEF MovedTo
<1>10. IsTable(r.t) /\ Shape(r.t) /\ w \in DOMAIN r.t.ws
  BY <1>5, <1>8, <1>9 DEF Trie, Shape, Formed, OtherSets
<1> HIDE DEF u
<1>11. Remaps(r.t, u, w, b)
  BY <1>8, <1>10, Remapped DEF u
<1>12. /\ SameNodes(r.t, u) /\ IsSets(u) /\ OtherSets(r.t, u, w)
       /\ u.ws[w] = [r.t.ws[w] EXCEPT !.mapped = b] /\ u.ws[w].terminal = r.t.ws[w].terminal
       /\ AnchoredAt(u) = AnchoredAt(r.t) /\ Anchors(u) = Anchors(r.t)
  BY <1>11 DEF Remaps
<1>13. /\ Trie(u) /\ LiveLocations(u) = LiveLocations(r.t)
       /\ \A m : Locations(u, m) = Locations(r.t, m)
  BY <1>9, <1>12, TrieKept DEF OtherSets
<1>14. OtherSets(t, u, w)
  BY <1>2, <1>5, <1>8, <1>12 DEF OtherSets, SameRest
<1>15. OthersRead(t, u, w)
  <2> SUFFICES ASSUME NEW a \in Anchors(u), a # <<"set", w>>
               PROVE  /\ a \in Anchors(t) /\ AnchoredAt(u)[a] = AnchoredAt(t)[a]
                      /\ Locations(u, AnchoredAt(u)[a]) = Locations(t, AnchoredAt(u)[a])
    BY DEF OthersRead
  <2>1. /\ a \in Anchors(v) /\ AnchoredAt(r.t)[a] = AnchoredAt(v)[a]
        /\ Locations(r.t, AnchoredAt(r.t)[a]) = Locations(v, AnchoredAt(r.t)[a])
    BY <1>8, <1>12 DEF OthersRead
  <2>2. a \in Anchors(t) /\ AnchoredAt(u)[a] = AnchoredAt(t)[a]
    BY <2>1, <1>2, <1>12
  <2>3. AnchoredAt(t)[a] \in DOMAIN t.nodes
    BY <2>2, <1>1, AnchorsLive
  <2> DEFINE y == AnchoredAt(t)[a]
  <2>4. y \in DOMAIN t.nodes /\ AnchoredAt(u)[a] = y /\ AnchoredAt(r.t)[a] = y
    BY <2>1, <2>2, <2>3, <1>2
  <2> HIDE DEF y
  <2>5. Locations(u, y) = Locations(r.t, y) /\ Locations(r.t, y) = Locations(v, y) /\ Locations(v, y) = Locations(t, y)
    BY <2>1, <2>4, <1>2, <1>13
  <2> QED BY <2>2, <2>4, <2>5
<1>16. u.ws[w].terminal = x
  <2>1. IsSet(v.ws[w])
    BY <1>5 DEF IsSets
  <2> QED BY <2>1, <1>8, <1>12 DEF IsSet
<1>17. u.ws[w] = [t.ws[w] EXCEPT !.terminal = u.ws[w].terminal, !.mapped = b]
  <2>1. IsSet(t.ws[w])
    BY DEF IsSets
  <2>2. u.ws[w] = [[t.ws[w] EXCEPT !.terminal = x] EXCEPT !.mapped = b]
    BY <1>5, <1>8, <1>12
  <2>3. [[t.ws[w] EXCEPT !.terminal = x] EXCEPT !.mapped = b] = [t.ws[w] EXCEPT !.terminal = x, !.mapped = b]
    BY <2>1 DEF IsSet
  <2> QED BY <2>2, <2>3, <1>16
<1>18. Locations(u, u.ws[w].terminal) = Locations(v, x)
  BY <1>8, <1>13, <1>16
<1>19. \A l \in LiveLocations(t) : Page(v, l) = Page(t, l)
  BY <1>1, <1>2, SamePages
<1>20. \A l \in LiveLocations(u) : l \in LiveLocations(t) /\ Page(u, l) = Page(t, l)
  <2>1. \A l \in LiveLocations(u) : l \in LiveLocations(v) /\ Page(r.t, l) = Page(v, l)
    BY <1>4, <1>9, <1>10, <1>13, PrunedPage
  <2>2. \A l : Page(u, l) = Page(r.t, l)
    BY <1>12 DEF SameNodes, Page
  <2> QED BY <2>1, <2>2, <1>2, <1>19
<1>21. r.freed = Lost(t, u)
  BY <1>2, <1>9, <1>13, <1>19 DEF Lost, BackingsAt
<1>22. \A m \in DOMAIN u.nodes \ DOMAIN t.nodes : m \notin named
  BY <1>2, <1>9, <1>12 DEF SameNodes, Pruned
<1>23. \A l \in t.swaps : l \in LiveLocations(t) /\ l[1] \in DOMAIN u.nodes => l \in LiveLocations(u)
  <2> SUFFICES ASSUME NEW l \in t.swaps, l \in LiveLocations(t), l[1] \in DOMAIN u.nodes
               PROVE  l \in LiveLocations(u)
    OBVIOUS
  <2>1. l[1] \in DOMAIN r.t.nodes /\ l \in v.swaps
    BY <1>2, <1>12 DEF SameNodes, SameRest
  <2>2. l = <<l[1], l[2]>> /\ l[1] \in DOMAIN v.nodes /\ l[2] \in 1..Len(v.nodes[l[1]].pages)
    BY <1>2, <1>4, LiveIn
  <2> QED BY <2>1, <2>2, <1>9, <1>10, <1>13, LiveIn
<1> DEFINE old == Locations(t, t.ws[w].terminal)
<1>24. ASSUME Len(old) <= b, b # 0, \A i \in 1..Len(old) : Locations(t, n)[i] = old[i]
       PROVE  r.freed = {} /\ LiveLocations(u) = LiveLocations(t)
  <2>1. t.ws[w].terminal \in DOMAIN t.nodes \cup {NoNode}
    BY <1>1, AnchorsLive
  <2>2. Locations(v, v.ws[w].terminal) = old
    BY <2>1, <1>2, <1>5 DEF Locations
  <2>3. Len(old) \in Nat /\ DOMAIN old = 1..Len(old)
    BY <2>1, <1>1, LocationFacts
  <2>4. DOMAIN Locations(v, x) = 1..Len(Locations(v, x))
    BY <1>2, <1>4, LocationFacts
  <2> HIDE DEF old
  <2>5. \A i \in 1..Len(old) : i \in DOMAIN Locations(v, x) /\ Locations(v, x)[i] = old[i]
    BY <1>24, <2>3, <2>4, <1>2
  <2>6. ToSet(old) \subseteq ToSet(Locations(v, x))
    BY <2>3, <2>5 DEF ToSet
  <2>7. x # NoNode
    <3>1. Locations(v, NoNode) = <<>>
      BY DEF Locations
    <3>2. Len(<<>>) = 0
      OBVIOUS
    <3> QED BY <1>24, <1>2, <3>1, <3>2
  <2> QED BY <2>2, <2>6, <2>7, <1>2, <1>7, <1>13 DEF MovedTo
<1> QED BY <1>2, <1>12, <1>13, <1>14, <1>15, <1>17, <1>18, <1>20, <1>21, <1>22, <1>23, <1>24 DEF Cutting, u, r, old

(* The last Len(s) items of s are s.                                        *)
LEMMA WholeSeq ==
  ASSUME NEW S, NEW s \in Seq(S)
  PROVE  LastOf(Len(s), s) = s
<1>1. Len(s) \in Nat /\ Len(s) - Len(s) + 1 = 1
  OBVIOUS
<1>2. SubSeq(s, 1, Len(s)) = s
  OBVIOUS
<1> QED BY <1>1, <1>2 DEF LastOf

(* A set's locations are its terminal's path.                               *)
LEMMA WsLocationsAll ==
  ASSUME NEW t, Sound(t), NEW w \in DOMAIN t.ws
  PROVE  /\ WsLocations(t, w) = Locations(t, t.ws[w].terminal)
         /\ t.ws[w].terminal \in DOMAIN t.nodes \cup {NoNode}
         /\ Len(WsLocations(t, w)) = t.ws[w].mapped /\ t.ws[w].mapped \in Nat
         /\ WsLocations(t, w) \in Seq(Nat \X Nat)
         /\ DOMAIN WsLocations(t, w) = 1..t.ws[w].mapped
         /\ \A l \in ToSet(WsLocations(t, w)) : l \in Nat \X Nat /\ Live(t, l) /\ l \in LiveLocations(t)
<1>1. Shape(t) /\ Counts(t, AnchoredAt(t))
  BY DEF Sound, Trie
<1>2. t.ws[w].terminal \in DOMAIN t.nodes \cup {NoNode}
  BY <1>1, AnchorsLive
<1>3. /\ Locations(t, t.ws[w].terminal) \in Seq(Nat \X Nat) /\ Len(Locations(t, t.ws[w].terminal)) \in Nat
      /\ DOMAIN Locations(t, t.ws[w].terminal) = 1..Len(Locations(t, t.ws[w].terminal))
  BY <1>1, <1>2, LocationFacts
<1>4. t.ws[w].mapped = Len(Locations(t, t.ws[w].terminal))
  BY DEF Sound, Sized
<1>5. WsLocations(t, w) = Locations(t, t.ws[w].terminal)
  BY <1>3, <1>4, WholeSeq DEF WsLocations
<1>6. \A l \in ToSet(WsLocations(t, w)) : l \in Nat \X Nat /\ Live(t, l) /\ l \in LiveLocations(t)
  BY <1>1, <1>2, <1>5, LocationsLive
<1> QED BY <1>2, <1>3, <1>4, <1>5, <1>6

(* A set cut where it already ends.                                         *)
LEMMA CutsNone ==
  ASSUME NEW t, Sound(t), NEW w \in DOMAIN t.ws, NEW named
  PROVE  Cutting(t, w, t.ws[w].terminal, t.ws[w].mapped, named, SetMapped(t, w, t.ws[w].mapped), {})
<1> DEFINE k == t.ws[w].mapped
           u == SetMapped(t, w, k)
<1>1. Trie(t) /\ IsSets(t) /\ Sized(t) /\ IsTable(t) /\ IsSet(t.ws[w]) /\ Shape(t)
  BY DEF Sound, Trie, Shape, Formed, IsSets
<1>2. k \in Nat /\ t.ws[w].mapped = k
  BY <1>1 DEF IsSet
<1> HIDE DEF u
<1>3. Remaps(t, u, w, k)
  BY <1>1, <1>2, Remapped DEF u
<1>4. /\ SameNodes(t, u) /\ IsSets(u) /\ OtherSets(t, u, w)
      /\ u.ws[w] = [t.ws[w] EXCEPT !.mapped = k] /\ u.ws[w].terminal = t.ws[w].terminal
      /\ AnchoredAt(u) = AnchoredAt(t) /\ Anchors(u) = Anchors(t)
  BY <1>3 DEF Remaps
<1>5. /\ Trie(u) /\ LiveLocations(u) = LiveLocations(t)
      /\ \A m : Locations(u, m) = Locations(t, m)
  BY <1>1, <1>4, TrieKept DEF OtherSets
<1>6. [t.ws[w] EXCEPT !.mapped = k] = [t.ws[w] EXCEPT !.terminal = u.ws[w].terminal, !.mapped = k]
  BY <1>1, <1>4 DEF IsSet
<1>7. Len(Locations(t, t.ws[w].terminal)) = k
  BY <1>1 DEF Sized
<1>8. Lost(t, u) = {} /\ \A l : Page(u, l) = Page(t, l)
  BY <1>4, <1>5 DEF Lost, BackingsAt, Page, SameNodes
<1>9. OthersRead(t, u, w) /\ DOMAIN u.nodes = DOMAIN t.nodes
  BY <1>4, <1>5 DEF OthersRead, SameNodes
<1> HIDE DEF k
<1> QED BY <1>4, <1>5, <1>6, <1>7, <1>8, <1>9 DEF Cutting, u, k

(* replace_tail: what w mapped after the first of its pages is cut, and     *)
(* pages come in its place.                                                 *)
Retailed(t, w, from, pages, named, r) ==
  \E c : /\ Cutting(t, w, t.ws[w].terminal, from, named, c, r.freed)
         /\ Appending(c, w, pages, named, r.t)

(* replace_tail: a cut, then an append.                                     *)
LEMMA Retails ==
  ASSUME NEW t, Sound(t), NEW w \in DOMAIN t.ws, NEW from \in 0..t.ws[w].mapped,
         NEW pages, IsPages(pages), NEW named, IsFiniteSet(named)
  PROVE  Retailed(t, w, from, pages, named, ReplaceTail(t, w, from, pages, named))
<1> DEFINE end == t.ws[w].terminal
<1>1. Trie(t) /\ IsSets(t) /\ Sized(t) /\ Shape(t) /\ Counts(t, AnchoredAt(t)) /\ IsSet(t.ws[w])
  BY DEF Sound, Trie, IsSets
<1>2. t.ws[w].mapped \in Nat /\ from \in Nat
  BY <1>1 DEF IsSet
<1>3. end \in DOMAIN t.nodes \cup {NoNode} /\ t.ws[w].mapped = Len(Locations(t, end))
  BY <1>1, AnchorsLive DEF Sized
<1>4. ASSUME NEW r, Cutting(t, w, end, from, named, SetMapped(r.t, w, from), r.freed)
      PROVE  Retailed(t, w, from, pages, named, Appended(r, w, from, pages, named))
  <2> DEFINE c == SetMapped(r.t, w, from)
             q == Appended(r, w, from, pages, named)
  <2>1. Trie(c) /\ IsSets(c) /\ w \in DOMAIN c.ws
    BY <1>4 DEF Cutting, OtherSets
  <2>2. Appending(c, w, pages, named, PublishAppended(c, w, pages, named))
    <3> HIDE DEF c
    <3> QED BY <2>1, Appends
  <2>3. q.t = PublishAppended(c, w, pages, named) /\ q.freed = r.freed
    BY DEF Appended, Then, Result
  <2> HIDE DEF c, q
  <2> QED BY <1>4, <2>2, <2>3 DEF Retailed, c, q
<1>5. CASE from = t.ws[w].mapped
  <2> DEFINE r == Result(t, {})
  <2>1. r.t = t /\ r.freed = {}
    BY DEF Result
  <2>2. ReplaceTail(t, w, from, pages, named) = Appended(r, w, from, pages, named)
    BY <1>5 DEF ReplaceTail
  <2>3. Cutting(t, w, end, from, named, SetMapped(r.t, w, from), r.freed)
    BY <1>5, <2>1, CutsNone
  <2> HIDE DEF r
  <2> QED BY <2>2, <2>3, <1>4
<1>6. CASE from # t.ws[w].mapped
  <2> DEFINE at == IF from = 0 THEN [t |-> t, node |-> NoNode] ELSE BoundaryTerminal(t, end, from, named)
             r == CutTo(at, w)
  <2>1. EndsHere(t, end, from, named, at)
    <3>1. CASE from = 0
      BY <3>1, <1>1, EndsAtNone
    <3>2. CASE from # 0
      <4>1. end # NoNode
        <5>1. Len(Locations(t, NoNode)) = 0
          BY DEF Locations
        <5> QED BY <5>1, <3>2, <1>2, <1>3
      <4>2. end \in DOMAIN t.nodes /\ from \in 1..Len(Locations(t, end))
        BY <4>1, <3>2, <1>2, <1>3
      <4>3. EndsAt(t, end, from, named, BoundaryTerminal(t, end, from, named))
        BY <4>2, <1>1, BoundaryEnds
      <4> QED BY <4>3, <3>2, EndsBoundary
    <3> QED BY <3>1, <3>2
  <2>2. ReplaceTail(t, w, from, pages, named) = Appended(r, w, from, pages, named)
    BY <1>6 DEF ReplaceTail
  <2> HIDE DEF at
  <2>3. Cutting(t, w, end, from, named, SetMapped(r.t, w, from), r.freed)
    BY <2>1, <1>1, <1>2, Cuts
  <2> HIDE DEF r
  <2> QED BY <2>2, <2>3, <1>4
<1> QED BY <1>5, <1>6

(* attach: w maps the pages of a path up to this one.                       *)
LEMMA PathPrefixIn ==
  ASSUME NEW t, Shape(t), NEW loc, Live(t, loc)
  PROVE  /\ loc[1] \in DOMAIN t.nodes /\ ~t.nodes[loc[1]].sel
         /\ PathPrefixLen(t, loc) \in 1..Len(Locations(t, loc[1]))
         /\ PathPrefixLen(t, loc) = Before(t, loc[1]) + loc[2]
         /\ PathPrefixLen(t, loc) \in Nat
<1> DEFINE n == loc[1]
<1>1. n \in DOMAIN t.nodes /\ loc[2] \in DOMAIN t.nodes[n].pages
  BY DEF Live
<1>2. loc[2] \in 1..Len(t.nodes[n].pages) /\ Len(t.nodes[n].pages) \in Nat
  BY <1>1, NodeFields
<1>3. ~t.nodes[n].sel
  <2> SUFFICES ASSUME t.nodes[n].sel PROVE FALSE
    OBVIOUS
  <2>1. t.nodes[n].pages = <<>>
    BY <1>1, NodeLinks
  <2> QED BY <2>1, <1>1
<1>4. ContributionLen(t, n) = Len(t.nodes[n].pages)
  BY <1>3 DEF ContributionLen
<1>5. Before(t, n) \in Nat /\ Len(Locations(t, n)) = Before(t, n) + ContributionLen(t, n)
  BY <1>1, LocationItems
<1> DEFINE a == Before(t, n)
           c == ContributionLen(t, n)
           k == Len(Locations(t, n))
<1>6. PathPrefixLen(t, loc) = k - (c - loc[2])
  BY DEF PathPrefixLen
<1> HIDE DEF a, c, k
<1>7. a \in Nat /\ c \in Nat /\ k = a + c /\ loc[2] \in 1..c
  BY <1>2, <1>4, <1>5 DEF a, c, k
<1>8. k - (c - loc[2]) \in 1..k /\ k - (c - loc[2]) = a + loc[2] /\ a + loc[2] \in Nat
  BY <1>7
<1> QED BY <1>1, <1>3, <1>6, <1>8 DEF k, a

Attaching(t, w, loc, named, u) ==
  /\ Cutting(t, w, loc[1], PathPrefixLen(t, loc), named, u, {})
  /\ LiveLocations(u) = LiveLocations(t)

(* attach: a set moved to a longer path it is a prefix of frees nothing.    *)
LEMMA Attaches ==
  ASSUME NEW t, Sound(t), NEW w \in DOMAIN t.ws, NEW loc, Live(t, loc), CanAttach(t, w, loc),
         NEW named, IsFiniteSet(named)
  PROVE  Attaching(t, w, loc, named, Attach(t, w, loc, named))
<1> DEFINE n == loc[1]
           b == PathPrefixLen(t, loc)
           at == BoundaryTerminal(t, n, b, named)
           u == SetMapped(CutTo(at, w).t, w, b)
           old == Locations(t, t.ws[w].terminal)
           path == Locations(t, n)
<1>1. Trie(t) /\ IsSets(t) /\ Sized(t) /\ Shape(t)
  BY DEF Sound, Trie
<1>2. n \in DOMAIN t.nodes /\ b \in 1..Len(Locations(t, n)) /\ b \in Nat
  BY <1>1, PathPrefixIn
<1>3. EndsHere(t, n, b, named, at)
  BY <1>1, <1>2, BoundaryEnds, EndsBoundary
<1>4. Attach(t, w, loc, named) = u
  BY DEF Attach
<1>5. WsLocations(t, w) = old /\ Len(old) = t.ws[w].mapped /\ t.ws[w].mapped \in Nat
  BY WsLocationsAll
<1>6. t.ws[w].mapped < b /\ old = SubSeq(path, 1, t.ws[w].mapped)
  BY <1>5 DEF CanAttach
<1> HIDE DEF at, b
<1>7. Cutting(t, w, n, b, named, u, CutTo(at, w).freed)
  BY <1>1, <1>2, <1>3, Cuts
<1>8. path \in Seq(Nat \X Nat) /\ Len(path) \in Nat
  BY <1>1, <1>2, LocationFacts
<1> HIDE DEF u, path, old
<1>9. Len(old) <= b /\ b # 0 /\ \A i \in 1..Len(old) : path[i] = old[i]
  <2> DEFINE k == t.ws[w].mapped
  <2>1. k \in Nat /\ k <= Len(path) /\ old = SubSeq(path, 1, k) /\ Len(old) = k
    BY <1>2, <1>5, <1>6, <1>8 DEF path
  <2> HIDE DEF k
  <2>2. \A i \in 1..k : SubSeq(path, 1, k)[i] = path[i]
    BY <2>1, <1>8
  <2> QED BY <2>1, <2>2, <1>2, <1>6 DEF k
<1>10. CutTo(at, w).freed = {} /\ LiveLocations(u) = LiveLocations(t)
  BY <1>7, <1>9 DEF Cutting, path, old
<1> QED BY <1>4, <1>7, <1>10 DEF Attaching, b

(* The same pages, read along the same paths: only counts, or what is not   *)
(* in the nodes, differ.                                                    *)
Alike(t, u) ==
  /\ DOMAIN u.nodes = DOMAIN t.nodes /\ LiveLocations(u) = LiveLocations(t)
  /\ \A l \in LiveLocations(t) : Page(u, l) = Page(t, l)
  /\ \A n : Locations(u, n) = Locations(t, n)
  /\ \A n : PathNodes(u, n) = PathNodes(t, n)

(* Anchors added at every node that had none make a trie.                   *)
LEMMA Anchored ==
  ASSUME NEW t, Shape(t), Counts(t, AnchoredAt(t)), Compacted(t),
         NEW A \in SUBSET DOMAIN t.nodes, \A m \in DOMAIN t.nodes : m \notin A => t.nodes[m].path > 0,
         NEW s, SameNodes(t, s), s.swaps = t.swaps,
         Extends(AnchoredAt(t), AnchoredAt(s), A), IsFiniteSet(Anchors(s))
  PROVE  Trie(AddAnchors(s, A)) /\ SameRest(s, AddAnchors(s, A)) /\ Alike(t, AddAnchors(s, A))
<1> DEFINE u == AddAnchors(s, A)
           f == AnchoredAt(t)
           g == AnchoredAt(s)
<1>2. /\ Shape(s) /\ Counts(s, f) /\ SameTree(t, s) /\ LiveLocations(s) = LiveLocations(t)
      /\ \A n : Locations(s, n) = Locations(t, n)
      /\ \A n : PathNodes(s, n) = PathNodes(t, n)
  BY NodesSame
<1>3. IsFiniteSet(DOMAIN g)
  BY AnchorKinds
<1>4. \A a \in DOMAIN g : g[a] \in DOMAIN s.nodes
  <2>1. DOMAIN s.nodes = DOMAIN t.nodes
    BY DEF SameNodes
  <2> HIDE DEF f, g
  <2> QED BY <2>1 DEF Extends, Counts, f, g
<1> HIDE DEF f, g
<1>5. /\ Recounted(s, u) /\ Shape(u) /\ Counts(u, g)
      /\ \A n \in DOMAIN s.nodes : /\ s.nodes[n].exact >= 0 /\ u.nodes[n].exact >= s.nodes[n].exact
                                   /\ s.nodes[n].path >= 0 /\ u.nodes[n].path >= s.nodes[n].path
                                   /\ n \in A => u.nodes[n].path > 0
  BY <1>2, <1>3, <1>4, AnchorsAdded DEF f, g
<1> HIDE DEF u
<1>6. AnchoredAt(u) = g
  BY <1>5 DEF g, Recounted, AnchoredAt, Anchors
<1>7. SameTree(s, u) /\ u.swaps = s.swaps /\ DOMAIN u.nodes = DOMAIN t.nodes
  BY <1>5 DEF Recounted, SameTree, SameNodes
<1>8. Compacted(s)
  BY <1>2, RecountedCompacted DEF SameNodes
<1>9. \A n \in DOMAIN s.nodes : /\ s.nodes[n].exact \in Int /\ u.nodes[n].exact \in Int
                                /\ s.nodes[n].path \in Int /\ u.nodes[n].path \in Int
  BY <1>2, <1>5, <1>7, NodeFields DEF SameTree
<1>10. Compacted(u)
  <2>1. \A n \in DOMAIN s.nodes : u.nodes[n].exact = 0 => s.nodes[n].exact = 0
    BY <1>5, <1>9
  <2> QED BY <2>1, <1>2, <1>7, <1>8, RecountedCompacted
<1>11. AllAnchored(u)
  <2> SUFFICES ASSUME NEW n \in DOMAIN u.nodes PROVE u.nodes[n].path > 0
    BY DEF AllAnchored
  <2>1. n \in DOMAIN s.nodes /\ n \in DOMAIN t.nodes /\ s.nodes[n] = t.nodes[n]
    BY <1>7 DEF SameNodes
  <2>2. n \notin A => s.nodes[n].path > 0
    BY <2>1
  <2> QED BY <2>1, <2>2, <1>5, <1>9
<1>12. Trie(u)
  BY <1>5, <1>6, <1>10, <1>11 DEF Trie
<1>13. /\ \A n : Locations(u, n) = Locations(t, n)
       /\ \A n : PathNodes(u, n) = PathNodes(t, n)
  BY <1>2, <1>7, TreeSame
<1>14. LiveLocations(u) = LiveLocations(t)
  BY <1>2, <1>5 DEF Recounted, SameTree, LiveLocations
<1>15. \A l \in LiveLocations(t) : Page(u, l) = Page(t, l)
  <2>1. \A n \in DOMAIN t.nodes : u.nodes[n].pages = t.nodes[n].pages
    BY <1>5 DEF Recounted, SameNodes
  <2> QED BY <2>1, LiveIn DEF Page
<1>16. SameRest(s, u)
  BY <1>5 DEF Recounted, SameRest
<1> QED BY <1>7, <1>12, <1>13, <1>14, <1>15, <1>16 DEF Alike, u

(* What letting anchors go makes of t: those left read what they read, and  *)
(* what is freed is what no page is in any more.                            *)
Shrunk(t, s, u, freed) ==
  /\ Trie(u) /\ SameRest(s, u) /\ freed = Lost(t, u)
  /\ DOMAIN u.nodes \subseteq DOMAIN t.nodes
  /\ \A l \in LiveLocations(u) : l \in LiveLocations(t) /\ Page(u, l) = Page(t, l)
  /\ \A a \in Anchors(u) : /\ AnchoredAt(u)[a] \in DOMAIN u.nodes
                           /\ Locations(u, AnchoredAt(u)[a]) = Locations(t, AnchoredAt(u)[a])
  /\ \A l \in t.swaps : l \in LiveLocations(t) /\ l[1] \in DOMAIN u.nodes => l \in LiveLocations(u)

(* Pruning brings no location and moves no page.                            *)
LEMMA PrunedPages ==
  ASSUME NEW t, Shape(t), NEW u, Shape(u), Pruned(t, u)
  PROVE  \A l \in LiveLocations(u) : l \in LiveLocations(t) /\ Page(u, l) = Page(t, l)
<1> SUFFICES ASSUME NEW l \in LiveLocations(u) PROVE l \in LiveLocations(t) /\ Page(u, l) = Page(t, l)
  OBVIOUS
<1> DEFINE n == l[1]
<1>1. l = <<n, l[2]>> /\ n \in DOMAIN u.nodes /\ l[2] \in 1..Len(u.nodes[n].pages)
  BY LiveIn
<1>2. n \in DOMAIN t.nodes /\ Len(u.nodes[n].pages) <= Len(t.nodes[n].pages) /\ u.nodes[n].pages[l[2]] = t.nodes[n].pages[l[2]]
  BY <1>1 DEF Pruned
<1>3. Len(u.nodes[n].pages) \in Nat /\ Len(t.nodes[n].pages) \in Nat
  BY <1>1, <1>2, NodeFields
<1>4. l[2] \in 1..Len(t.nodes[n].pages)
  BY <1>1, <1>2, <1>3
<1> QED BY <1>1, <1>2, <1>4, LiveIn DEF Page

(* Anchors taken away: what still has one reads the same.                   *)
LEMMA LetsGo ==
  ASSUME NEW t, Trie(t), NEW s, SameNodes(t, s), s.swaps = t.swaps,
         NEW A, Extends(AnchoredAt(s), AnchoredAt(t), A)
  PROVE  Shrunk(t, s, RemoveAnchors(s, A).t, RemoveAnchors(s, A).freed)
<1> DEFINE u == RemoveAnchors(s, A).t
           g == AnchoredAt(t)
<1>1. Shape(t) /\ Counts(t, g) /\ AllAnchored(t) /\ Compacted(t)
  BY DEF Trie
<1>2. /\ Shape(s) /\ SameTree(t, s) /\ LiveLocations(s) = LiveLocations(t) /\ AllAnchored(s) /\ Counts(s, g)
      /\ \A n : Locations(s, n) = Locations(t, n)
  BY <1>1, NodesSame
<1>3. Compacted(s)
  BY <1>1, <1>2, RecountedCompacted DEF SameNodes
<1>4. Left(s, u) /\ RemoveAnchors(s, A).freed = Lost(s, u)
  BY <1>2, <1>3, Removing
<1> HIDE DEF u, g
<1>5. Trie(u) /\ SameRest(s, u) /\ Pruned(s, u) /\ Shape(u)
  BY <1>4 DEF Left, Trie
<1>6. Lost(s, u) = Lost(t, u)
  <2>1. \A l : Page(s, l) = Page(t, l)
    BY DEF Page, SameNodes
  <2> QED BY <2>1, <1>2 DEF Lost, BackingsAt
<1>7. \A l \in LiveLocations(u) : l \in LiveLocations(t) /\ Page(u, l) = Page(t, l)
  <2>1. \A l \in LiveLocations(u) : l \in LiveLocations(s) /\ Page(u, l) = Page(s, l)
    BY <1>2, <1>5, PrunedPages
  <2> QED BY <2>1, <1>2 DEF Page, SameNodes
<1>8. DOMAIN u.nodes \subseteq DOMAIN t.nodes
  BY <1>5 DEF Pruned, SameNodes
<1>9. \A a \in Anchors(u) : /\ AnchoredAt(u)[a] \in DOMAIN u.nodes
                            /\ Locations(u, AnchoredAt(u)[a]) = Locations(t, AnchoredAt(u)[a])
  BY <1>2, <1>4 DEF Left
<1>10. ASSUME NEW l \in t.swaps, l \in LiveLocations(t), l[1] \in DOMAIN u.nodes
       PROVE  l \in LiveLocations(u)
  <2>1. Len(u.nodes[l[1]].pages) = Len(s.nodes[l[1]].pages)
    BY <1>4, <1>10 DEF Left
  <2>2. l = <<l[1], l[2]>> /\ l[2] \in 1..Len(s.nodes[l[1]].pages)
    BY <1>2, <1>10, LiveIn
  <2> QED BY <2>1, <2>2, <1>5, <1>10, LiveIn
<1> QED BY <1>4, <1>5, <1>6, <1>7, <1>8, <1>9, <1>10 DEF Shrunk, u

(* The mappings of the sets are as long as they say as long as what they    *)
(* read is the same.                                                        *)
FewerSets(t, s) ==
  /\ IsSets(s) /\ DOMAIN s.ws \subseteq DOMAIN t.ws
  /\ \A w \in DOMAIN s.ws : s.ws[w].terminal = t.ws[w].terminal /\ s.ws[w].mapped = t.ws[w].mapped

(* A sound table shrunk is sound.                                           *)
LEMMA ShrunkSound ==
  ASSUME NEW t, Sound(t), NEW s, FewerSets(t, s), NEW u, NEW freed, Shrunk(t, s, u, freed)
  PROVE  /\ Sound(u)
         /\ \A w \in DOMAIN u.ws : Locations(u, u.ws[w].terminal) = Locations(t, u.ws[w].terminal)
<1>1. Trie(u) /\ u.ws = s.ws
  BY DEF Shrunk, SameRest
<1>2. IsSets(u)
  BY <1>1 DEF FewerSets, IsSets
<1>3. ASSUME NEW w \in DOMAIN u.ws PROVE Locations(u, u.ws[w].terminal) = Locations(t, u.ws[w].terminal)
  <2>1. CASE u.ws[w].terminal = NoNode
    BY <2>1 DEF Locations
  <2>2. CASE u.ws[w].terminal # NoNode
    <3>1. <<"set", w>> \in Anchors(u) /\ AnchoredAt(u)[<<"set", w>>] = u.ws[w].terminal
      BY <2>2, SetAnchor
    <3> QED BY <3>1 DEF Shrunk
  <2> QED BY <2>1, <2>2
<1>4. Sized(u)
  BY <1>1, <1>3 DEF Sized, Sound, FewerSets
<1> QED BY <1>1, <1>2, <1>3, <1>4 DEF Sound

(* The parts of a sound table.                                              *)
LEMMA SoundFacts ==
  ASSUME NEW t, Sound(t)
  PROVE  /\ Trie(t) /\ Shape(t) /\ Formed(t) /\ IsTable(t) /\ IsSets(t)
         /\ Counts(t, AnchoredAt(t)) /\ AllAnchored(t) /\ Compacted(t)
BY DEF Sound, Trie, Shape, Formed

(* release_working_set_backings                                             *)
WithoutSet(t, w) == [t EXCEPT !.ws = Without(@, {w})]

Unset(t, w, r) ==
  /\ Sound(r.t) /\ Shrunk(t, WithoutSet(t, w), r.t, r.freed)
  /\ DOMAIN r.t.ws = DOMAIN t.ws \ {w} /\ \A x \in DOMAIN r.t.ws : r.t.ws[x] = t.ws[x]
  /\ r.t.roots = t.roots /\ r.t.pins = t.pins /\ r.t.swaps = t.swaps

(* remove_ws: the set goes, the others read the same.                       *)
LEMMA RemovesWs ==
  ASSUME NEW t, Sound(t), NEW w \in DOMAIN t.ws
  PROVE  Unset(t, w, RemoveWs(t, w))
<1> DEFINE s == WithoutSet(t, w)
           A == {t.ws[w].terminal} \ {NoNode}
           r == RemoveWs(t, w)
<1>1. IsTable(t) /\ Trie(t) /\ IsSets(t)
  BY SoundFacts
<1>2. /\ SameNodes(t, s) /\ s.roots = t.roots /\ s.pins = t.pins /\ s.swaps = t.swaps
      /\ s.ws = [x \in DOMAIN t.ws \ {w} |-> t.ws[x]]
  BY <1>1 DEF WithoutSet, IsTable, Without, SameNodes
<1>3. r = RemoveAnchors(s, A)
  BY DEF RemoveWs, WithoutSet
<1> HIDE DEF s, r
<1>4. DOMAIN s.ws = DOMAIN t.ws \ {w} /\ \A x \in DOMAIN s.ws : s.ws[x] = t.ws[x]
  BY <1>2
<1>5. Extends(AnchoredAt(s), AnchoredAt(t), A)
  <2> DEFINE x == <<"set", w>>
  <2>1. \A a : a \in Anchors(s) <=> a \in Anchors(t) /\ a # x
    BY <1>2, <1>4 DEF Anchors
  <2>2. x \in Anchors(t) <=> t.ws[w].terminal # NoNode
    BY DEF Anchors
  <2>3. x \in Anchors(t) => AnchoredAt(t)[x] = t.ws[w].terminal
    BY <2>2, SetAnchor
  <2>4. \A a \in Anchors(s) : AnchoredAt(s)[a] = AnchoredAt(t)[a]
    <3> SUFFICES ASSUME NEW a \in Anchors(s) PROVE AnchoredAt(s)[a] = AnchoredAt(t)[a]
      OBVIOUS
    <3>1. a[1] = "set" => a[2] \in DOMAIN s.ws
      BY DEF Anchors
    <3> QED BY <2>1, <3>1, <1>4 DEF AnchoredAt
  <2>5. DOMAIN AnchoredAt(s) = Anchors(s) /\ DOMAIN AnchoredAt(t) = Anchors(t)
    BY DEF AnchoredAt
  <2> HIDE DEF x
  <2> QED BY <2>1, <2>2, <2>3, <2>4, <2>5 DEF Extends
<1>6. Shrunk(t, s, r.t, r.freed)
  BY <1>1, <1>2, <1>3, <1>5, LetsGo
<1>7. FewerSets(t, s)
  <2>1. IsSets(s)
    BY <1>1, <1>2, <1>4 DEF IsSets
  <2> QED BY <2>1, <1>4 DEF FewerSets
<1>8. Sound(r.t)
  BY <1>6, <1>7, ShrunkSound
<1>9. r.t.ws = s.ws /\ r.t.roots = t.roots /\ r.t.pins = t.pins /\ r.t.swaps = t.swaps
  BY <1>2, <1>6 DEF Shrunk, SameRest
<1> QED BY <1>4, <1>6, <1>8, <1>9 DEF Unset, s, r

(* Anchors of one kind, at each of A.                                       *)
LEMMA ExtendsTagged ==
  ASSUME NEW f, NEW g, NEW A, NEW k,
         \A a : a \in DOMAIN g <=> a \in DOMAIN f \/ \E n \in A : a = <<k, n>>,
         \A n \in A : <<k, n>> \notin DOMAIN f /\ g[<<k, n>>] = n,
         \A a \in DOMAIN f : g[a] = f[a]
  PROVE  Extends(f, g, A)
<1>1. \A a \in DOMAIN g \ DOMAIN f : \E n \in A : a = <<k, n>>
  OBVIOUS
<1>2. \A a \in DOMAIN g \ DOMAIN f : g[a] \in A /\ a = <<k, g[a]>>
  BY <1>1
<1>3. \A n \in A : <<k, n>> \in DOMAIN g \ DOMAIN f /\ g[<<k, n>>] = n
  OBVIOUS
<1>4. \A n \in A : \E a \in DOMAIN g \ DOMAIN f : g[a] = n
  BY <1>3
<1>5. \A a, b \in DOMAIN g \ DOMAIN f : g[a] = g[b] => a = b
  BY <1>2
<1>6. DOMAIN f \subseteq DOMAIN g
  OBVIOUS
<1> QED BY <1>2, <1>4, <1>5, <1>6 DEF Extends

(* let_go: holders of nodes.                                                *)
IsHolds(h) == h = [n \in DOMAIN h |-> h[n]] /\ \A n \in DOMAIN h : h[n] \in Nat \ {0}

WithRoots(t, roots) == [t EXCEPT !.roots = roots]
WithPins(t, pins) == [t EXCEPT !.pins = pins]

Rerooted(t, roots, r) ==
  /\ Sound(r.t) /\ Shrunk(t, WithRoots(t, roots), r.t, r.freed)
  /\ r.t.ws = t.ws /\ r.t.roots = roots /\ r.t.pins = t.pins /\ r.t.swaps = t.swaps

Repinned(t, pins, r) ==
  /\ Sound(r.t) /\ Shrunk(t, WithPins(t, pins), r.t, r.freed)
  /\ r.t.ws = t.ws /\ r.t.roots = t.roots /\ r.t.pins = pins /\ r.t.swaps = t.swaps

(* Leases given up.                                                         *)
LEMMA FewerRoots ==
  ASSUME NEW t, Sound(t), NEW roots, NEW A, DOMAIN roots = DOMAIN t.roots \ A, A \subseteq DOMAIN t.roots
  PROVE  Rerooted(t, roots, RemoveAnchors(WithRoots(t, roots), A))
<1> DEFINE s == WithRoots(t, roots)
           r == RemoveAnchors(s, A)
<1>1. IsTable(t) /\ Trie(t) /\ IsSets(t)
  BY SoundFacts
<1>2. SameNodes(t, s) /\ s.roots = roots /\ s.ws = t.ws /\ s.pins = t.pins /\ s.swaps = t.swaps
  BY <1>1 DEF WithRoots, IsTable, SameNodes
<1> HIDE DEF s
<1>3. Extends(AnchoredAt(s), AnchoredAt(t), A)
  <2>1. \A a : a \in Anchors(t) <=> a \in Anchors(s) \/ \E n \in A : a = <<"root", n>>
    BY <1>2 DEF Anchors
  <2>2. \A n \in A : <<"root", n>> \notin Anchors(s) /\ AnchoredAt(t)[<<"root", n>>] = n
    BY <1>2, RootAnchor, ZenonT(40) DEF Anchors
  <2>3. \A a \in Anchors(s) : AnchoredAt(t)[a] = AnchoredAt(s)[a]
    BY <2>1, <1>2 DEF AnchoredAt
  <2>4. DOMAIN AnchoredAt(s) = Anchors(s) /\ DOMAIN AnchoredAt(t) = Anchors(t)
    BY DEF AnchoredAt
  <2> QED BY <2>1, <2>2, <2>3, <2>4, ExtendsTagged
<1>4. Shrunk(t, s, r.t, r.freed)
  BY <1>1, <1>2, <1>3, LetsGo
<1> HIDE DEF r
<1>5. FewerSets(t, s)
  BY <1>1, <1>2 DEF FewerSets, IsSets
<1>6. Sound(r.t)
  BY <1>4, <1>5, ShrunkSound
<1>7. r.t.ws = s.ws /\ r.t.roots = s.roots /\ r.t.pins = s.pins /\ r.t.swaps = s.swaps
  BY <1>4 DEF Shrunk, SameRest
<1> QED BY <1>2, <1>4, <1>6, <1>7 DEF Rerooted, s, r

(* Pins given up.                                                           *)
LEMMA FewerPins ==
  ASSUME NEW t, Sound(t), NEW pins, NEW A, DOMAIN pins = DOMAIN t.pins \ A, A \subseteq DOMAIN t.pins
  PROVE  Repinned(t, pins, RemoveAnchors(WithPins(t, pins), A))
<1> DEFINE s == WithPins(t, pins)
           r == RemoveAnchors(s, A)
<1>1. IsTable(t) /\ Trie(t) /\ IsSets(t)
  BY SoundFacts
<1>2. SameNodes(t, s) /\ s.pins = pins /\ s.ws = t.ws /\ s.roots = t.roots /\ s.swaps = t.swaps
  BY <1>1 DEF WithPins, IsTable, SameNodes
<1> HIDE DEF s
<1>3. Extends(AnchoredAt(s), AnchoredAt(t), A)
  <2>1. \A a : a \in Anchors(t) <=> a \in Anchors(s) \/ \E n \in A : a = <<"pin", n>>
    BY <1>2 DEF Anchors
  <2>2. \A n \in A : <<"pin", n>> \notin Anchors(s) /\ AnchoredAt(t)[<<"pin", n>>] = n
    BY <1>2, PinAnchor DEF Anchors
  <2>3. \A a \in Anchors(s) : AnchoredAt(t)[a] = AnchoredAt(s)[a]
    BY <2>1, <1>2 DEF AnchoredAt
  <2>4. DOMAIN AnchoredAt(s) = Anchors(s) /\ DOMAIN AnchoredAt(t) = Anchors(t)
    BY DEF AnchoredAt
  <2> QED BY <2>1, <2>2, <2>3, <2>4, ExtendsTagged
<1>4. Shrunk(t, s, r.t, r.freed)
  BY <1>1, <1>2, <1>3, LetsGo
<1> HIDE DEF r
<1>5. FewerSets(t, s)
  BY <1>1, <1>2 DEF FewerSets, IsSets
<1>6. Sound(r.t)
  BY <1>4, <1>5, ShrunkSound
<1>7. r.t.ws = s.ws /\ r.t.roots = s.roots /\ r.t.pins = s.pins /\ r.t.swaps = s.swaps
  BY <1>4 DEF Shrunk, SameRest
<1> QED BY <1>2, <1>4, <1>6, <1>7 DEF Repinned, s, r

(* Anchors come: what the trie is, and who reads what, stay.                *)
LEMMA AddedSet ==
  ASSUME NEW S, IsFiniteSet(S), NEW T, NEW k, NEW A, IsFiniteSet(A),
         \A a : a \in T <=> a \in S \/ \E n \in A : a = <<k, n>>
  PROVE  IsFiniteSet(T)
<1> DEFINE B == {<<k, n>> : n \in A}
<1>1. IsFiniteSet(B)
  <2> DEFINE F == [n \in A |-> <<k, n>>]
  <2>1. F \in [A -> B]
    OBVIOUS
  <2>2. \A b \in B : \E n \in A : F[n] = b
    OBVIOUS
  <2>3. F \in Surjection(A, B)
    BY <2>1, <2>2 DEF Surjection
  <2> QED BY <2>3, FS_Surjection
<1>2. T = S \cup B
  OBVIOUS
<1> QED BY <1>1, <1>2, FS_Union

Rooting(t, n, u) ==
  /\ Trie(u) /\ Alike(t, u)
  /\ u.ws = t.ws /\ u.roots = Hold(t.roots, {n}) /\ u.pins = t.pins /\ u.swaps = t.swaps

(* lease_root of a node, old or new.                                        *)
LEMMA LeasesRoot ==
  ASSUME NEW t, NEW n \in DOMAIN t.nodes, Almost(t, n)
  PROVE  Rooting(t, n, LeaseRoot(t, n))
<1> DEFINE roots == Hold(t.roots, {n})
           s == WithRoots(t, roots)
           A == {n} \ DOMAIN t.roots
           u == AddAnchors(s, A)
<1>1. Shape(t) /\ Counts(t, AnchoredAt(t)) /\ Compacted(t) /\ IsTable(t) /\ IsFiniteSet(Anchors(t))
  BY DEF Almost, Shape, Formed, Counts, AnchoredAt
<1>2. SameNodes(t, s) /\ s.roots = roots /\ s.ws = t.ws /\ s.pins = t.pins /\ s.swaps = t.swaps
  BY <1>1 DEF WithRoots, IsTable, SameNodes
<1>3. u = LeaseRoot(t, n)
  BY DEF LeaseRoot, WithRoots
<1>4. DOMAIN roots = DOMAIN t.roots \cup {n}
  BY DEF Hold
<1> HIDE DEF s, u, roots
<1>5. \A a : a \in Anchors(s) <=> a \in Anchors(t) \/ \E m \in A : a = <<"root", m>>
  BY <1>2, <1>4 DEF Anchors
<1>6. Extends(AnchoredAt(t), AnchoredAt(s), A)
  <2>2. \A m \in A : <<"root", m>> \notin Anchors(t) /\ AnchoredAt(s)[<<"root", m>>] = m
    BY <1>2, <1>4, RootAnchor DEF Anchors
  <2>3. \A a \in Anchors(t) : AnchoredAt(s)[a] = AnchoredAt(t)[a]
    BY <1>5, <1>2 DEF AnchoredAt
  <2>4. DOMAIN AnchoredAt(s) = Anchors(s) /\ DOMAIN AnchoredAt(t) = Anchors(t)
    BY DEF AnchoredAt
  <2> QED BY <1>5, <2>2, <2>3, <2>4, ExtendsTagged
<1>7. IsFiniteSet(A)
  BY FS_Singleton, FS_Subset
<1>8. IsFiniteSet(Anchors(s))
  BY <1>1, <1>5, <1>7, AddedSet
<1>9. \A m \in DOMAIN t.nodes : m \notin A => t.nodes[m].path > 0
  <2>1. n \in DOMAIN t.roots => t.nodes[n].path > 0
    <3> SUFFICES ASSUME n \in DOMAIN t.roots PROVE t.nodes[n].path > 0
      OBVIOUS
    <3>1. <<"root", n>> \in DOMAIN AnchoredAt(t) /\ AnchoredAt(t)[<<"root", n>>] = n
      BY RootAnchor
    <3>2. n \in PathNodes(t, n)
      BY <1>1, PathFacts
    <3> QED BY <3>1, <3>2, <1>1, AnchorAbove
  <2>2. \A m \in DOMAIN t.nodes : m # n => t.nodes[m].path > 0
    BY DEF Almost
  <2> QED BY <2>1, <2>2
<1>10. Trie(u) /\ SameRest(s, u) /\ Alike(t, u)
  <2>1. A \in SUBSET DOMAIN t.nodes
    OBVIOUS
  <2> HIDE DEF A
  <2> QED BY <2>1, <1>1, <1>2, <1>6, <1>8, <1>9, Anchored DEF u
<1>11. u.ws = t.ws /\ u.roots = roots /\ u.pins = t.pins /\ u.swaps = t.swaps
  BY <1>2, <1>10 DEF SameRest
<1> QED BY <1>3, <1>10, <1>11 DEF Rooting, roots

Pinning(t, nodes, u) ==
  /\ Trie(u) /\ Alike(t, u)
  /\ u.ws = t.ws /\ u.roots = t.roots /\ u.pins = Hold(t.pins, nodes) /\ u.swaps = t.swaps

(* pin_all.                                                                 *)
LEMMA Pins ==
  ASSUME NEW t, Trie(t), NEW nodes \in SUBSET DOMAIN t.nodes
  PROVE  Pinning(t, nodes, PinAll(t, nodes))
<1> DEFINE pins == Hold(t.pins, nodes)
           s == WithPins(t, pins)
           A == nodes \ DOMAIN t.pins
           u == AddAnchors(s, A)
<1>1. Shape(t) /\ Counts(t, AnchoredAt(t)) /\ Compacted(t) /\ IsTable(t) /\ IsFiniteSet(Anchors(t))
      /\ IsFiniteSet(DOMAIN t.nodes) /\ \A m \in DOMAIN t.nodes : t.nodes[m].path > 0
  BY DEF Trie, AllAnchored, Shape, Formed, Counts, AnchoredAt
<1>2. SameNodes(t, s) /\ s.pins = pins /\ s.ws = t.ws /\ s.roots = t.roots /\ s.swaps = t.swaps
  BY <1>1 DEF WithPins, IsTable, SameNodes
<1>3. u = PinAll(t, nodes)
  BY DEF PinAll, WithPins
<1>4. DOMAIN pins = DOMAIN t.pins \cup nodes
  BY DEF Hold
<1> HIDE DEF s, u, pins
<1>5. \A a : a \in Anchors(s) <=> a \in Anchors(t) \/ \E m \in A : a = <<"pin", m>>
  <2>1. DOMAIN s.pins = DOMAIN t.pins \cup A
    BY <1>2, <1>4
  <2> HIDE DEF A
  <2> QED BY <2>1, <1>2 DEF Anchors
<1>6. Extends(AnchoredAt(t), AnchoredAt(s), A)
  <2>1. \A m \in A : m \in DOMAIN s.pins /\ m \notin DOMAIN t.pins
    BY <1>2, <1>4
  <2> HIDE DEF A
  <2>2. \A m \in A : <<"pin", m>> \notin Anchors(t) /\ AnchoredAt(s)[<<"pin", m>>] = m
    BY <2>1, PinAnchor DEF Anchors
  <2>3. \A a \in Anchors(t) : AnchoredAt(s)[a] = AnchoredAt(t)[a]
    BY <1>5, <1>2 DEF AnchoredAt
  <2>4. DOMAIN AnchoredAt(s) = Anchors(s) /\ DOMAIN AnchoredAt(t) = Anchors(t)
    BY DEF AnchoredAt
  <2> QED BY <1>5, <2>2, <2>3, <2>4, ExtendsTagged
<1>7. IsFiniteSet(A) /\ A \in SUBSET DOMAIN t.nodes
  <2>1. A \subseteq DOMAIN t.nodes
    OBVIOUS
  <2> HIDE DEF A
  <2> QED BY <2>1, <1>1, FS_Subset
<1>8. IsFiniteSet(Anchors(s))
  <2> HIDE DEF A
  <2> QED BY <1>1, <1>5, <1>7, AddedSet
<1>10. Trie(u) /\ SameRest(s, u) /\ Alike(t, u)
  <2> HIDE DEF A
  <2> QED BY <1>1, <1>2, <1>6, <1>7, <1>8, Anchored DEF u
<1>11. u.ws = t.ws /\ u.roots = t.roots /\ u.pins = pins /\ u.swaps = t.swaps
  BY <1>2, <1>10 DEF SameRest
<1> QED BY <1>3, <1>10, <1>11 DEF Pinning, pins

(* What a node is in, and what it is keyed by, may change in place.         *)
SamePlaces(t, u) ==
  /\ Formed(u) /\ SameTree(t, u)
  /\ \A n \in DOMAIN t.nodes : u.nodes[n].exact = t.nodes[n].exact /\ u.nodes[n].path = t.nodes[n].path
  /\ u.ws = t.ws /\ u.roots = t.roots /\ u.pins = t.pins /\ u.swaps = t.swaps

(* Alike but for what the pages are.                                        *)
ReadAlike(t, u) ==
  /\ DOMAIN u.nodes = DOMAIN t.nodes /\ LiveLocations(u) = LiveLocations(t)
  /\ \A n : Locations(u, n) = Locations(t, n)
  /\ \A n : PathNodes(u, n) = PathNodes(t, n)

(* Other backings, keys or index bits leave a sound table sound.            *)
LEMMA PlacesSound ==
  ASSUME NEW t, Sound(t), NEW u, SamePlaces(t, u)
  PROVE  Sound(u) /\ ReadAlike(t, u)
<1>1. Shape(t) /\ Counts(t, AnchoredAt(t)) /\ AllAnchored(t) /\ Compacted(t) /\ IsSets(t) /\ Sized(t)
  BY SoundFacts DEF Sound
<1>2. SameTree(t, u) /\ DOMAIN u.nodes = DOMAIN t.nodes /\ Shape(u)
  BY <1>1, ShapeSame DEF SamePlaces, SameTree
<1>3. /\ \A n : Locations(u, n) = Locations(t, n)
      /\ \A n : PathNodes(u, n) = PathNodes(t, n)
  BY <1>1, <1>2, TreeSame
<1>4. AnchoredAt(u) = AnchoredAt(t)
  BY DEF AnchoredAt, Anchors, SamePlaces
<1>5. Counts(u, AnchoredAt(u))
  <2>1. \A n : Over(u, n) = Over(t, n)
    BY <1>2, <1>3 DEF Over
  <2> QED BY <2>1, <1>1, <1>2, <1>4 DEF Counts, SamePlaces
<1>6. AllAnchored(u) /\ Compacted(u)
  <2>1. t.swaps \subseteq u.swaps /\ \A n \in DOMAIN t.nodes : u.nodes[n].exact = 0 => t.nodes[n].exact = 0
    BY DEF SamePlaces
  <2> QED BY <2>1, <1>1, <1>2, RecountedCompacted DEF AllAnchored, SamePlaces
<1>7. IsSets(u) /\ Sized(u)
  BY <1>1, <1>3 DEF IsSets, Sized, SamePlaces
<1>8. LiveLocations(u) = LiveLocations(t)
  <2>1. \A n \in DOMAIN t.nodes : DOMAIN u.nodes[n].pages = DOMAIN t.nodes[n].pages
    BY <1>1, <1>2, NodeFields DEF SameTree
  <2> QED BY <2>1, <1>2 DEF LiveLocations
<1> QED BY <1>2, <1>3, <1>5, <1>6, <1>7, <1>8 DEF Sound, Trie, ReadAlike

(* A node with other pages in the place of its own.                         *)
PagesFor(r, idx, pages) ==
  /\ idx \in BOOLEAN /\ pages = [i \in 1..Len(r.pages) |-> pages[i]]
  /\ \A i \in 1..Len(r.pages) : IsPage(pages[i])

PagedNode(r, q, idx, pages) ==
  /\ IsNode(q) /\ q.parent = r.parent /\ q.sel = r.sel /\ q.take = r.take
  /\ q.exact = r.exact /\ q.path = r.path /\ q.idx = idx /\ q.pages = pages
  /\ Len(q.pages) = Len(r.pages)

(* A node with its pages replaced one for one.                              *)
LEMMA PagesPut ==
  ASSUME NEW r, IsNode(r), NEW idx, NEW pages, PagesFor(r, idx, pages)
  PROVE  PagedNode(r, WithPages(r, idx, pages), idx, pages)
<1> DEFINE q == WithPages(r, idx, pages)
           k == Len(r.pages)
<1>1. /\ r \in [parent : Nat, sel : BOOLEAN, pages : {r.pages}, take : Nat,
               exact : Int, path : Int, idx : BOOLEAN]
      /\ r.pages \in Seq(ToSet(r.pages)) /\ k \in Nat
  BY DEF IsNode
<1>2. /\ q.parent = r.parent /\ q.sel = r.sel /\ q.take = r.take /\ q.exact = r.exact /\ q.path = r.path
      /\ q.idx = idx /\ q.pages = pages
      /\ q \in [parent : Nat, sel : BOOLEAN, pages : {pages}, take : Nat,
                exact : Int, path : Int, idx : BOOLEAN]
  BY <1>1 DEF WithPages, PagesFor
<1>3. DOMAIN pages = 1..k /\ pages = [i \in 1..k |-> pages[i]] /\ \A i \in 1..k : IsPage(pages[i])
  BY DEF PagesFor
<1> HIDE DEF k
<1>4. pages \in Seq(ToSet(pages)) /\ Len(pages) = k
  <2>1. \A i \in 1..k : pages[i] \in ToSet(pages)
    BY <1>3 DEF ToSet
  <2>2. pages \in [1..k -> ToSet(pages)]
    BY <2>1, <1>3
  <2>3. pages \in Seq(ToSet(pages))
    BY <2>2, <1>1
  <2> QED BY <2>3, <1>1, <1>3
<1> HIDE DEF q
<1>5. IsNode(q)
  BY <1>2, <1>3, <1>4 DEF IsNode
<1> QED BY <1>2, <1>4, <1>5 DEF PagedNode, q, k

NewPages(t, idx, pages) ==
  [t EXCEPT !.nodes = [n \in DOMAIN @ |-> WithPages(@[n], idx[n], pages[n])]]

(* A table with its pages replaced one for one.                             *)
LEMMA PagesReplaced ==
  ASSUME NEW t, Shape(t), NEW idx, NEW pages,
         \A n \in DOMAIN t.nodes : PagesFor(t.nodes[n], idx[n], pages[n]),
         NEW u, u = NewPages(t, idx, pages)
  PROVE  SamePlaces(t, u) /\ \A n \in DOMAIN t.nodes : u.nodes[n].pages = pages[n]
<1>1. IsTable(t) /\ IsFiniteSet(DOMAIN t.nodes) /\ DOMAIN t.nodes \subseteq Nat \ {0}
  BY DEF Shape, Formed
<1>2. /\ u.nodes = [m \in DOMAIN t.nodes |-> WithPages(t.nodes[m], idx[m], pages[m])]
      /\ IsTable(u) /\ u.ws = t.ws /\ u.roots = t.roots /\ u.pins = t.pins /\ u.swaps = t.swaps
  BY <1>1 DEF IsTable, NewPages
<1>3. DOMAIN u.nodes = DOMAIN t.nodes /\ \A n \in DOMAIN t.nodes : u.nodes[n] = WithPages(t.nodes[n], idx[n], pages[n])
  BY <1>2
<1>4. \A n \in DOMAIN t.nodes : PagedNode(t.nodes[n], u.nodes[n], idx[n], pages[n])
  <2>1. \A n \in DOMAIN t.nodes : IsNode(t.nodes[n])
    BY DEF Shape, Formed
  <2> QED BY <2>1, <1>3, PagesPut
<1>5. Formed(u)
  BY <1>1, <1>2, <1>3, <1>4 DEF Formed, PagedNode
<1>6. SameTree(t, u)
  BY <1>3, <1>4 DEF SameTree, PagedNode
<1> QED BY <1>2, <1>4, <1>5, <1>6 DEF SamePlaces, PagedNode

(* replace_backings                                                         *)
Rebacked(t, locs, at, u) ==
  /\ Sound(u) /\ ReadAlike(t, u) /\ SameRest(t, u)
  /\ \A l \in LiveLocations(t) : /\ Page(u, l).at = IF l \in locs THEN at[l] ELSE Page(t, l).at
                                 /\ Page(u, l).key = Page(t, l).key

IsBacking(b) == b \in {"device", "host"} \X Nat

(* set_backings moves the given locations and no other.                     *)
LEMMA SetsBackings ==
  ASSUME NEW t, Sound(t), NEW locs, NEW at, \A l \in locs : IsBacking(at[l])
  PROVE  Rebacked(t, locs, at, SetBackings(t, locs, at))
<1> DEFINE idx == [n \in DOMAIN t.nodes |-> t.nodes[n].idx]
           page(n, i) == IF <<n, i>> \in locs THEN [t.nodes[n].pages[i] EXCEPT !.at = at[<<n, i>>]]
                                              ELSE t.nodes[n].pages[i]
           pages == [n \in DOMAIN t.nodes |-> [i \in DOMAIN t.nodes[n].pages |-> page(n, i)]]
           u == SetBackings(t, locs, at)
<1>1. Shape(t) /\ IsTable(t)
  BY SoundFacts
<1>2. \A n \in DOMAIN t.nodes : \A i \in DOMAIN t.nodes[n].pages :
        /\ IsPage(page(n, i)) /\ page(n, i).key = t.nodes[n].pages[i].key
        /\ page(n, i).at = IF <<n, i>> \in locs THEN at[<<n, i>>] ELSE t.nodes[n].pages[i].at
  <2> SUFFICES ASSUME NEW n \in DOMAIN t.nodes, NEW i \in DOMAIN t.nodes[n].pages
               PROVE  /\ IsPage(page(n, i)) /\ page(n, i).key = t.nodes[n].pages[i].key
                      /\ page(n, i).at = IF <<n, i>> \in locs THEN at[<<n, i>>] ELSE t.nodes[n].pages[i].at
    OBVIOUS
  <2>1. IsPage(t.nodes[n].pages[i])
    BY <1>1, NodeFields
  <2> DEFINE p == t.nodes[n].pages[i]
  <2>2. CASE <<n, i>> \in locs
    <3>1. IsBacking(at[<<n, i>>])
      BY <2>2
    <3>2. \A b : IsBacking(b) => /\ IsPage([p EXCEPT !.at = b]) /\ [p EXCEPT !.at = b].key = p.key
                                 /\ [p EXCEPT !.at = b].at = b
      BY <2>1 DEF IsPage, IsBacking
    <3> QED BY <3>1, <3>2, <2>2
  <2>3. CASE <<n, i>> \notin locs
    BY <2>1, <2>3
  <2> QED BY <2>2, <2>3
<1> HIDE DEF page
<1>3. \A n \in DOMAIN t.nodes : PagesFor(t.nodes[n], idx[n], pages[n])
  <2> SUFFICES ASSUME NEW n \in DOMAIN t.nodes PROVE PagesFor(t.nodes[n], idx[n], pages[n])
    OBVIOUS
  <2>1. DOMAIN t.nodes[n].pages = 1..Len(t.nodes[n].pages) /\ t.nodes[n].idx \in BOOLEAN
    BY <1>1, NodeFields
  <2>2. pages[n] = [i \in 1..Len(t.nodes[n].pages) |-> page(n, i)]
    BY <2>1
  <2> QED BY <1>2, <2>1, <2>2 DEF PagesFor
<1>4. u = NewPages(t, idx, pages)
  BY DEF NewPages, SetBackings, page
<1>5. \A n \in DOMAIN t.nodes : \A i \in DOMAIN t.nodes[n].pages : pages[n][i] = page(n, i)
  OBVIOUS
<1> HIDE DEF idx, pages, u
<1>6. SamePlaces(t, u) /\ \A n \in DOMAIN t.nodes : u.nodes[n].pages = pages[n]
  BY <1>1, <1>3, <1>4, PagesReplaced
<1>7. Sound(u) /\ ReadAlike(t, u) /\ SameRest(t, u)
  BY <1>6, PlacesSound DEF SamePlaces, SameRest
<1>8. ASSUME NEW l \in LiveLocations(t)
      PROVE  /\ Page(u, l).at = IF l \in locs THEN at[l] ELSE Page(t, l).at
             /\ Page(u, l).key = Page(t, l).key
  <2>1. l = <<l[1], l[2]>> /\ l[1] \in DOMAIN t.nodes /\ l[2] \in DOMAIN t.nodes[l[1]].pages
    BY <1>1, LiveIn, NodeFields
  <2>2. Page(u, l) = page(l[1], l[2])
    BY <2>1, <1>5, <1>6 DEF Page
  <2> QED BY <2>1, <2>2, <1>2 DEF Page
<1> QED BY <1>7, <1>8 DEF Rebacked, u

(* commit_hashes                                                            *)
Rekeyed(t, u) ==
  /\ Sound(u) /\ ReadAlike(t, u) /\ SameRest(t, u)
  /\ \A l \in LiveLocations(t) : Page(u, l).at = Page(t, l).at

(* seal_pages moves no page.                                                *)
LEMMA SealsPages ==
  ASSUME NEW t, Sound(t), NEW locs, NEW keys
  PROVE  Rekeyed(t, SealPages(t, locs, keys))
<1> DEFINE at(loc) == CHOOSE i \in DOMAIN locs : locs[i] = loc
           idx == [n \in DOMAIN t.nodes |-> t.nodes[n].idx \/ <<n, 1>> \in ToSet(locs)]
           page(n, i) == IF <<n, i>> \in ToSet(locs) THEN [t.nodes[n].pages[i] EXCEPT !.key = keys[at(<<n, i>>)]]
                                                     ELSE t.nodes[n].pages[i]
           pages == [n \in DOMAIN t.nodes |-> [i \in DOMAIN t.nodes[n].pages |-> page(n, i)]]
           u == SealPages(t, locs, keys)
<1>1. Shape(t) /\ IsTable(t)
  BY SoundFacts
<1>2. \A n \in DOMAIN t.nodes : \A i \in DOMAIN t.nodes[n].pages :
        IsPage(page(n, i)) /\ page(n, i).at = t.nodes[n].pages[i].at
  <2> SUFFICES ASSUME NEW n \in DOMAIN t.nodes, NEW i \in DOMAIN t.nodes[n].pages
               PROVE  IsPage(page(n, i)) /\ page(n, i).at = t.nodes[n].pages[i].at
    OBVIOUS
  <2>1. IsPage(t.nodes[n].pages[i])
    BY <1>1, NodeFields
  <2> DEFINE p == t.nodes[n].pages[i]
  <2>2. \A k : IsPage([p EXCEPT !.key = k]) /\ [p EXCEPT !.key = k].at = p.at
    BY <2>1 DEF IsPage
  <2> HIDE DEF at
  <2> QED BY <2>1, <2>2
<1>3. \A n \in DOMAIN t.nodes : PagesFor(t.nodes[n], idx[n], pages[n])
  <2> HIDE DEF page
  <2> SUFFICES ASSUME NEW n \in DOMAIN t.nodes PROVE PagesFor(t.nodes[n], idx[n], pages[n])
    OBVIOUS
  <2>1. DOMAIN t.nodes[n].pages = 1..Len(t.nodes[n].pages) /\ t.nodes[n].idx \in BOOLEAN
    BY <1>1, NodeFields
  <2>2. pages[n] = [i \in 1..Len(t.nodes[n].pages) |-> page(n, i)]
    BY <2>1
  <2>3. idx[n] \in BOOLEAN
    BY <2>1
  <2> QED BY <1>2, <2>1, <2>2, <2>3 DEF PagesFor
<1>4. u = NewPages(t, idx, pages)
  BY DEF NewPages, SealPages
<1> HIDE DEF page
<1>5. \A n \in DOMAIN t.nodes : \A i \in DOMAIN t.nodes[n].pages : pages[n][i] = page(n, i)
  OBVIOUS
<1> HIDE DEF idx, pages, u
<1>6. SamePlaces(t, u) /\ \A n \in DOMAIN t.nodes : u.nodes[n].pages = pages[n]
  BY <1>1, <1>3, <1>4, PagesReplaced
<1>7. Sound(u) /\ ReadAlike(t, u) /\ SameRest(t, u)
  BY <1>6, PlacesSound DEF SamePlaces, SameRest
<1>8. ASSUME NEW l \in LiveLocations(t)
      PROVE  Page(u, l).at = Page(t, l).at
  <2>1. l = <<l[1], l[2]>> /\ l[1] \in DOMAIN t.nodes /\ l[2] \in DOMAIN t.nodes[l[1]].pages
    BY <1>1, LiveIn, NodeFields
  <2>2. Page(u, l) = page(l[1], l[2])
    BY <2>1, <1>5, <1>6 DEF Page
  <2> QED BY <2>1, <2>2, <1>2 DEF Page
<1> QED BY <1>7, <1>8 DEF Rekeyed, u

(* unpin_swap_locations: what was in the move and no one reads any more is  *)
(* cut.                                                                     *)
WithSwaps(t, swaps) == [t EXCEPT !.swaps = swaps]

Unswapped(t, locs, r) ==
  /\ Sound(r.t) /\ r.freed = Lost(t, r.t)
  /\ r.t.ws = t.ws /\ r.t.roots = t.roots /\ r.t.pins = t.pins /\ r.t.swaps = t.swaps \ locs
  /\ DOMAIN r.t.nodes = DOMAIN t.nodes
  /\ \A l \in LiveLocations(r.t) : l \in LiveLocations(t) /\ Page(r.t, l) = Page(t, l)
  /\ \A a \in Anchors(r.t) : Locations(r.t, AnchoredAt(r.t)[a]) = Locations(t, AnchoredAt(r.t)[a])
  /\ \A l \in r.t.swaps : l \in LiveLocations(t) => l \in LiveLocations(r.t)

(* unpin_swaps compacts owners that a swap held back.                       *)
LEMMA UnpinsSwaps ==
  ASSUME NEW t, Sound(t), NEW locs
  PROVE  Unswapped(t, locs, UnpinSwaps(t, locs))
<1> DEFINE s == WithSwaps(t, t.swaps \ locs)
           S == {loc[1] : loc \in locs \cap t.swaps}
           r == CompactOwners(s, S)
           u == r.t
<1>1. /\ Trie(t) /\ Shape(t) /\ IsTable(t) /\ IsSets(t) /\ Counts(t, AnchoredAt(t)) /\ AllAnchored(t)
      /\ Compacted(t) /\ Sized(t)
  BY SoundFacts DEF Sound
<1>2. SameNodes(t, s) /\ s.ws = t.ws /\ s.roots = t.roots /\ s.pins = t.pins /\ s.swaps = t.swaps \ locs
  BY <1>1 DEF WithSwaps, IsTable, SameNodes
<1>3. UnpinSwaps(t, locs) = r
  BY DEF UnpinSwaps, WithSwaps
<1> HIDE DEF s
<1>4. /\ Shape(s) /\ SameTree(t, s) /\ LiveLocations(s) = LiveLocations(t) /\ AllAnchored(s)
      /\ Counts(s, AnchoredAt(t))
      /\ \A n : Locations(s, n) = Locations(t, n)
  BY <1>1, <1>2, NodesSame
<1>5. CompactedTo(s, S, u) /\ r.freed = Lost(s, u)
  BY <1>4, CompactShape, CompactFrees
<1> HIDE DEF r, u, S
<1>6. /\ Shape(u) /\ SameRest(s, u) /\ Pruned(s, u) /\ DOMAIN u.nodes = DOMAIN s.nodes
      /\ \A n \in DOMAIN s.nodes :
           /\ u.nodes[n].exact = s.nodes[n].exact /\ u.nodes[n].path = s.nodes[n].path
           /\ n \notin Trim(s, S) => u.nodes[n] = s.nodes[n]
           /\ n \in Trim(s, S) => Len(u.nodes[n].pages) = Kept(s, n)
  BY <1>5 DEF CompactedTo
<1>7. AnchoredAt(u) = AnchoredAt(t) /\ Anchors(u) = Anchors(t)
  BY <1>2, <1>6 DEF AnchoredAt, Anchors, SameRest
<1>8. Counts(u, AnchoredAt(u))
  BY <1>4, <1>5, <1>7, CompactCounts
<1>9. AllAnchored(u)
  BY <1>4, <1>6 DEF AllAnchored
<1>10. /\ \A n : Children(u, n) = Children(s, n)
       /\ \A n : Compactable(u, n) <=> Compactable(s, n)
       /\ \A n \in DOMAIN s.nodes \ Trim(s, S) : Locations(u, n) = Locations(s, n)
  BY <1>4, <1>5, CompactTree
<1>11. Compacted(u)
  <2> SUFFICES ASSUME NEW n \in DOMAIN u.nodes, Compactable(u, n)
               PROVE  \E c \in Children(u, n) : u.nodes[c].take = Len(u.nodes[n].pages)
    BY DEF Compacted
  <2>1. Compactable(s, n) /\ Children(u, n) = Children(s, n) /\ n \in DOMAIN s.nodes
    BY <1>6, <1>10
  <2>2. \A c \in Children(s, n) : u.nodes[c].take = s.nodes[c].take
    BY <1>6 DEF Children, Pruned
  <2>3. CASE n \in S
    <3>1. n \in Trim(s, S)
      BY <2>1, <2>3 DEF Trim
    <3>2. \E c \in Children(s, n) : s.nodes[c].take = Kept(s, n)
      BY <2>1, <1>4, KeptFits
    <3> QED BY <3>1, <3>2, <2>1, <2>2, <1>6
  <2>4. CASE n \notin S
    <3>1. u.nodes[n] = s.nodes[n]
      BY <2>1, <2>4, <1>6 DEF Trim
    <3>2. \A l \in t.swaps : l[1] # n
      <4> SUFFICES ASSUME NEW l \in t.swaps, l[1] = n PROVE FALSE
        OBVIOUS
      <4>1. l \notin locs
        BY <2>4 DEF S
      <4>2. l \in s.swaps
        BY <4>1, <1>2
      <4> QED BY <4>2, <2>1 DEF Compactable
    <3>3. Compactable(t, n) /\ Children(t, n) = Children(s, n)
      BY <3>2, <2>1, <1>2 DEF Compactable, Children, SameNodes
    <3>4. \E c \in Children(t, n) : t.nodes[c].take = Len(t.nodes[n].pages)
      BY <3>3, <1>1, <2>1, <1>2 DEF Compacted, SameNodes
    <3> QED BY <3>1, <3>3, <3>4, <2>1, <2>2, <1>2 DEF SameNodes
  <2> QED BY <2>3, <2>4
<1>12. Trie(u)
  BY <1>6, <1>8, <1>9, <1>11 DEF Trie
<1>13. \A a \in Anchors(u) : Locations(u, AnchoredAt(u)[a]) = Locations(t, AnchoredAt(u)[a])
  <2> SUFFICES ASSUME NEW a \in Anchors(u) PROVE Locations(u, AnchoredAt(u)[a]) = Locations(t, AnchoredAt(u)[a])
    OBVIOUS
  <2> DEFINE n == AnchoredAt(u)[a]
  <2>1. a \in DOMAIN AnchoredAt(u)
    BY AnchorKinds
  <2>2. n \in DOMAIN u.nodes /\ u.nodes[n].exact # 0
    BY <2>1, <1>8, AnchorAt
  <2>3. n \in DOMAIN s.nodes /\ n \notin Trim(s, S)
    BY <2>2, <1>6 DEF Trim, Compactable
  <2> QED BY <2>3, <1>4, <1>10
<1>14. \A l \in LiveLocations(u) : l \in LiveLocations(t) /\ Page(u, l) = Page(t, l)
  <2>1. \A l \in LiveLocations(u) : l \in LiveLocations(s) /\ Page(u, l) = Page(s, l)
    BY <1>4, <1>6, PrunedPages
  <2> QED BY <2>1, <1>2, <1>4 DEF Page, SameNodes
<1>15. Lost(s, u) = Lost(t, u)
  <2>1. \A l : Page(s, l) = Page(t, l)
    BY <1>2 DEF Page, SameNodes
  <2> QED BY <2>1, <1>4 DEF Lost, BackingsAt
<1>16. ASSUME NEW l \in u.swaps, l \in LiveLocations(t) PROVE l \in LiveLocations(u)
  <2>1. l[1] \in DOMAIN s.nodes /\ l = <<l[1], l[2]>> /\ l[2] \in 1..Len(s.nodes[l[1]].pages)
    BY <1>16, <1>4, LiveIn
  <2>2. l \in s.swaps
    BY <1>6 DEF SameRest
  <2>3. l[1] \notin Trim(s, S)
    BY <2>2 DEF Trim, Compactable
  <2> QED BY <2>1, <2>3, <1>6, LiveIn
<1>17. IsSets(u) /\ Sized(u)
  <2>1. u.ws = t.ws
    BY <1>2, <1>6 DEF SameRest
  <2>2. \A w \in DOMAIN t.ws : Locations(u, t.ws[w].terminal) = Locations(t, t.ws[w].terminal)
    <3> SUFFICES ASSUME NEW w \in DOMAIN t.ws PROVE Locations(u, t.ws[w].terminal) = Locations(t, t.ws[w].terminal)
      OBVIOUS
    <3>1. CASE t.ws[w].terminal = NoNode
      BY <3>1 DEF Locations
    <3>2. CASE t.ws[w].terminal # NoNode
      <4>1. <<"set", w>> \in Anchors(u) /\ AnchoredAt(u)[<<"set", w>>] = t.ws[w].terminal
        BY <2>1, <3>2, SetAnchor
      <4> QED BY <4>1, <1>13
    <3> QED BY <3>1, <3>2
  <2> QED BY <2>1, <2>2, <1>1 DEF IsSets, Sized
<1>18. u.ws = t.ws /\ u.roots = t.roots /\ u.pins = t.pins /\ u.swaps = t.swaps \ locs /\ DOMAIN u.nodes = DOMAIN t.nodes
  BY <1>2, <1>6 DEF SameRest, SameNodes
<1> QED BY <1>3, <1>5, <1>12, <1>13, <1>14, <1>15, <1>16, <1>17, <1>18 DEF Unswapped, Sound, u

(* Entries of working sets change, but neither what they map nor how much.  *)
Edited(t, u) ==
  /\ SameNodes(t, u) /\ u.roots = t.roots /\ u.pins = t.pins /\ u.swaps = t.swaps
  /\ IsSets(u) /\ DOMAIN u.ws = DOMAIN t.ws
  /\ \A w \in DOMAIN t.ws : u.ws[w].terminal = t.ws[w].terminal /\ u.ws[w].mapped = t.ws[w].mapped

(* Tables with the same nodes read alike.                                   *)
LEMMA NodesAlike ==
  ASSUME NEW t, Shape(t), NEW u, SameNodes(t, u)
  PROVE  Alike(t, u)
<1>1. /\ LiveLocations(u) = LiveLocations(t)
      /\ \A n : Locations(u, n) = Locations(t, n)
      /\ \A n : PathNodes(u, n) = PathNodes(t, n)
  BY NodesSame
<1> QED BY <1>1 DEF Alike, Page, SameNodes

(* An edit of the sets' records that moves no terminal reads alike.         *)
LEMMA EditsSound ==
  ASSUME NEW t, Sound(t), NEW u, Edited(t, u)
  PROVE  Sound(u) /\ Alike(t, u)
<1>1. Trie(t) /\ Shape(t) /\ Sized(t)
  BY SoundFacts DEF Sound
<1>2. AnchoredAt(u) = AnchoredAt(t)
  BY AnchorsSame DEF Edited
<1>3. Trie(u) /\ \A n : Locations(u, n) = Locations(t, n)
  BY <1>1, <1>2, TrieKept DEF Edited
<1>4. Sized(u)
  BY <1>1, <1>3 DEF Sized, Edited
<1> QED BY <1>1, <1>3, <1>4, NodesAlike DEF Sound, Edited

(* Pages are in a move now.                                                 *)
LEMMA SwapsAdded ==
  ASSUME NEW t, Sound(t), NEW swaps, t.swaps \subseteq swaps
  PROVE  /\ Sound(WithSwaps(t, swaps)) /\ Alike(t, WithSwaps(t, swaps))
         /\ WithSwaps(t, swaps).ws = t.ws /\ WithSwaps(t, swaps).roots = t.roots
         /\ WithSwaps(t, swaps).pins = t.pins /\ WithSwaps(t, swaps).swaps = swaps
<1> DEFINE u == WithSwaps(t, swaps)
<1>1. Trie(t) /\ Shape(t) /\ Sized(t) /\ IsTable(t) /\ IsSets(t)
  BY SoundFacts DEF Sound
<1>2. SameNodes(t, u) /\ u.ws = t.ws /\ u.roots = t.roots /\ u.pins = t.pins /\ u.swaps = swaps
  BY <1>1 DEF WithSwaps, IsTable, SameNodes
<1> HIDE DEF u
<1>3. AnchoredAt(u) = AnchoredAt(t)
  BY <1>2, AnchorsSame
<1>4. Trie(u) /\ \A n : Locations(u, n) = Locations(t, n)
  BY <1>1, <1>2, <1>3, TrieKept
<1>5. Sized(u) /\ IsSets(u)
  BY <1>1, <1>2, <1>4 DEF Sized, IsSets
<1>6. Alike(t, u)
  BY <1>1, <1>2, NodesAlike
<1> QED BY <1>2, <1>4, <1>5, <1>6 DEF Sound, u

(* A set is entered where another ends, or with no page at all.             *)
WithNewSet(t, c, e) == [t EXCEPT !.ws = Put(@, c, e)]

Entered(t, c, e, u) ==
  /\ Sound(u) /\ Alike(t, u) /\ u.roots = t.roots /\ u.pins = t.pins /\ u.swaps = t.swaps
  /\ DOMAIN u.ws = DOMAIN t.ws \cup {c} /\ u.ws[c] = e
  /\ \A w \in DOMAIN t.ws : u.ws[w] = t.ws[w]

(* A set entered at a node of the table.                                    *)
LEMMA EntersSet ==
  ASSUME NEW t, Sound(t), NEW c, c \notin DOMAIN t.ws, NEW e, IsSet(e),
         e.terminal \in DOMAIN t.nodes \cup {NoNode}, e.mapped = Len(Locations(t, e.terminal))
  PROVE  Entered(t, c, e, AddAnchors(WithNewSet(t, c, e), {e.terminal} \ {NoNode}))
<1> DEFINE s == WithNewSet(t, c, e)
           A == {e.terminal} \ {NoNode}
           u == AddAnchors(s, A)
           x == <<"set", c>>
<1>1. /\ Trie(t) /\ Shape(t) /\ IsTable(t) /\ IsSets(t) /\ Counts(t, AnchoredAt(t)) /\ AllAnchored(t)
      /\ Compacted(t) /\ Sized(t) /\ IsFiniteSet(Anchors(t))
  BY SoundFacts DEF Sound, Counts, AnchoredAt
<1>2. /\ SameNodes(t, s) /\ s.roots = t.roots /\ s.pins = t.pins /\ s.swaps = t.swaps
      /\ s.ws = [w \in DOMAIN t.ws \cup {c} |-> IF w = c THEN e ELSE t.ws[w]]
  BY <1>1 DEF WithNewSet, IsTable, Put, SameNodes
<1> HIDE DEF s
<1>3. DOMAIN s.ws = DOMAIN t.ws \cup {c} /\ s.ws[c] = e /\ \A w \in DOMAIN t.ws : s.ws[w] = t.ws[w]
  BY <1>2
<1>4. IsSets(s)
  BY <1>1, <1>2, <1>3 DEF IsSets
<1>5. x \notin Anchors(t) /\ \A a : a \in Anchors(s) <=> a \in Anchors(t) \/ (a = x /\ e.terminal # NoNode)
  BY <1>2, <1>3 DEF Anchors
<1>6. Extends(AnchoredAt(t), AnchoredAt(s), A)
  <2>1. e.terminal # NoNode => AnchoredAt(s)[x] = e.terminal
    BY <1>3, SetAnchor
  <2>2. \A a \in Anchors(t) : AnchoredAt(s)[a] = AnchoredAt(t)[a]
    <3> SUFFICES ASSUME NEW a \in Anchors(t) PROVE AnchoredAt(s)[a] = AnchoredAt(t)[a]
      OBVIOUS
    <3>1. a[1] = "set" => a[2] \in DOMAIN t.ws
      BY DEF Anchors
    <3> QED BY <1>5, <3>1, <1>3 DEF AnchoredAt
  <2>3. DOMAIN AnchoredAt(s) = Anchors(s) /\ DOMAIN AnchoredAt(t) = Anchors(t)
    BY DEF AnchoredAt
  <2> HIDE DEF x
  <2> QED BY <1>5, <2>1, <2>2, <2>3 DEF Extends
<1>7. IsFiniteSet(Anchors(s))
  <2>1. IsFiniteSet(Anchors(t) \cup {x})
    BY <1>1, FS_AddElement
  <2>2. Anchors(s) \subseteq Anchors(t) \cup {x}
    BY <1>5
  <2> QED BY <2>1, <2>2, FS_Subset
<1>8. A \in SUBSET DOMAIN t.nodes /\ \A m \in DOMAIN t.nodes : m \notin A => t.nodes[m].path > 0
  BY <1>1 DEF AllAnchored
<1>9. Trie(u) /\ SameRest(s, u) /\ Alike(t, u)
  <2> HIDE DEF A
  <2> QED BY <1>1, <1>2, <1>6, <1>7, <1>8, Anchored
<1> HIDE DEF u
<1>10. u.ws = s.ws /\ u.roots = t.roots /\ u.pins = t.pins /\ u.swaps = t.swaps
  BY <1>2, <1>9 DEF SameRest
<1>11. Sized(u)
  <2>1. \A n : Locations(u, n) = Locations(t, n)
    BY <1>9 DEF Alike
  <2> QED BY <2>1, <1>1, <1>3, <1>10 DEF Sized
<1>12. IsSets(u)
  BY <1>4, <1>10 DEF IsSets
<1>13. Entered(t, c, e, u)
  BY <1>3, <1>9, <1>10, <1>11, <1>12 DEF Sound, Entered
<1> QED BY <1>13 DEF u, s

(* A set entered empty.                                                     *)
LEMMA EntersEmpty ==
  ASSUME NEW t, Sound(t), NEW c, c \notin DOMAIN t.ws, NEW e, IsSet(e), e.terminal = NoNode, e.mapped = 0
  PROVE  Entered(t, c, e, WithNewSet(t, c, e))
<1> DEFINE u == WithNewSet(t, c, e)
<1>1. /\ Trie(t) /\ Shape(t) /\ IsTable(t) /\ IsSets(t) /\ Sized(t)
  BY SoundFacts DEF Sound
<1>2. /\ SameNodes(t, u) /\ u.roots = t.roots /\ u.pins = t.pins /\ u.swaps = t.swaps
      /\ u.ws = [w \in DOMAIN t.ws \cup {c} |-> IF w = c THEN e ELSE t.ws[w]]
  BY <1>1 DEF WithNewSet, IsTable, Put, SameNodes
<1> HIDE DEF u
<1>3. DOMAIN u.ws = DOMAIN t.ws \cup {c} /\ u.ws[c] = e /\ \A w \in DOMAIN t.ws : u.ws[w] = t.ws[w]
  BY <1>2
<1>4. IsSets(u)
  BY <1>1, <1>2, <1>3 DEF IsSets
<1>5. Anchors(u) = Anchors(t)
  BY <1>2, <1>3 DEF Anchors
<1>6. AnchoredAt(u) = AnchoredAt(t)
  <2>1. \A a \in Anchors(t) : a[1] = "set" => a[2] \in DOMAIN t.ws
    BY DEF Anchors
  <2> QED BY <2>1, <1>3, <1>5 DEF AnchoredAt
<1>7. Trie(u) /\ \A n : Locations(u, n) = Locations(t, n)
  BY <1>1, <1>2, <1>6, TrieKept
<1>8. Sized(u)
  <2>1. Locations(u, NoNode) = <<>>
    BY DEF Locations
  <2> QED BY <2>1, <1>1, <1>3, <1>7 DEF Sized
<1>9. Alike(t, u)
  BY <1>1, <1>2, NodesAlike
<1> QED BY <1>2, <1>3, <1>4, <1>7, <1>8, <1>9 DEF Sound, Entered, u

(* What every operation on the table that adds no page promises: the pages  *)
(* left are in what they were in, ids that are named are not given again,   *)
(* pages in a move go only with their node, and an anchor that stays reads  *)
(* what it read, but for the sets W that are mapped anew.                   *)
StillRead(t, u, W) ==
  \A a \in Anchors(u) : a \notin {"set"} \X W /\ a \in Anchors(t) /\ AnchoredAt(u)[a] = AnchoredAt(t)[a] =>
    Locations(u, AnchoredAt(u)[a]) = Locations(t, AnchoredAt(u)[a])

Passed(t, u, named, W) ==
  /\ \A l \in LiveLocations(u) : l \in LiveLocations(t) /\ Page(u, l).at = Page(t, l).at
  /\ \A m \in DOMAIN u.nodes : m \in DOMAIN t.nodes \/ m \notin named
  /\ \A l \in t.swaps : l \in u.swaps /\ l \in LiveLocations(t) /\ l[1] \in DOMAIN u.nodes => l \in LiveLocations(u)
  /\ StillRead(t, u, W)

(* Reading alike passes everything on.                                      *)
LEMMA AlikePassed ==
  ASSUME NEW t, NEW u, Alike(t, u), NEW named
  PROVE  Passed(t, u, named, {}) /\ Lost(t, u) = {}
BY DEF Alike, Passed, StillRead, Lost, BackingsAt

(* So does shrinking, but for what is freed.                                *)
LEMMA ShrunkPassed ==
  ASSUME NEW t, NEW s, NEW u, NEW freed, Shrunk(t, s, u, freed), NEW named
  PROVE  Passed(t, u, named, {}) /\ freed = Lost(t, u)
BY DEF Shrunk, Passed, StillRead

(* So does giving up swaps.                                                 *)
LEMMA UnswappedPassed ==
  ASSUME NEW t, NEW locs, NEW r, Unswapped(t, locs, r), NEW named
  PROVE  Passed(t, r.t, named, {}) /\ r.freed = Lost(t, r.t)
BY DEF Unswapped, Passed, StillRead

(* So does sealing.                                                         *)
LEMMA RekeyedPassed ==
  ASSUME NEW t, NEW u, Rekeyed(t, u), NEW named
  PROVE  Passed(t, u, named, {}) /\ Lost(t, u) = {}
BY DEF Rekeyed, ReadAlike, Passed, StillRead, Lost, BackingsAt

(* So does cutting a set, for every other set.                              *)
LEMMA CuttingPassed ==
  ASSUME NEW t, NEW w, NEW n, NEW b, NEW named, NEW u, NEW freed, Cutting(t, w, n, b, named, u, freed)
  PROVE  Passed(t, u, named, {w}) /\ freed = Lost(t, u)
<1>1. /\ \A l \in LiveLocations(u) : l \in LiveLocations(t) /\ Page(u, l).at = Page(t, l).at
      /\ \A m \in DOMAIN u.nodes : m \in DOMAIN t.nodes \/ m \notin named
      /\ \A l \in t.swaps : l \in u.swaps /\ l \in LiveLocations(t) /\ l[1] \in DOMAIN u.nodes => l \in LiveLocations(u)
      /\ freed = Lost(t, u) /\ OthersRead(t, u, w)
  BY DEF Cutting
<1>2. StillRead(t, u, {w})
  <2>1. \A a : a \notin {"set"} \X {w} => a # <<"set", w>>
    OBVIOUS
  <2> QED BY <1>1, <2>1 DEF OthersRead, StillRead
<1> QED BY <1>1, <1>2 DEF Passed

(* lease_root at the boundary: what is kept of a mapping.                    *)
Keeping(t, named, node, u) ==
  /\ Sound(u) /\ LiveLocations(u) = LiveLocations(t) /\ \A l \in LiveLocations(t) : Page(u, l) = Page(t, l)
  /\ u.ws = t.ws /\ u.roots = Hold(t.roots, {node}) /\ u.pins = t.pins /\ u.swaps = t.swaps
  /\ DOMAIN t.nodes \subseteq DOMAIN u.nodes
  /\ \A m \in DOMAIN t.nodes : Locations(u, m) = Locations(t, m)
  /\ \A m \in DOMAIN u.nodes : m \in DOMAIN t.nodes \/ m \notin named
  /\ node \in DOMAIN u.nodes

(* A lease on a prefix of a path leaves every path as it was.               *)
LEMMA Keeps ==
  ASSUME NEW t, Sound(t), NEW n \in DOMAIN t.nodes, NEW b \in 1..Len(Locations(t, n)),
         NEW named, IsFiniteSet(named), NEW at, at = BoundaryTerminal(t, n, b, named)
  PROVE  Keeping(t, named, at.node, LeaseRoot(at.t, at.node))
<1> DEFINE v == at.t
           x == at.node
           u == LeaseRoot(v, x)
<1>1. Trie(t) /\ IsSets(t) /\ Sized(t) /\ Shape(t) /\ Counts(t, AnchoredAt(t))
  BY SoundFacts DEF Sound
<1>2. EndsAt(t, n, b, named, at)
  BY <1>1, BoundaryEnds
<1>3. /\ Almost(v, x) /\ x \in DOMAIN v.nodes /\ SameRest(t, v) /\ DOMAIN v.nodes = DOMAIN t.nodes \cup {x}
      /\ \A m \in DOMAIN t.nodes : v.nodes[m] = t.nodes[m] /\ Locations(v, m) = Locations(t, m)
      /\ x \notin DOMAIN t.nodes => x \notin named
      /\ LiveLocations(v) = LiveLocations(t)
  BY <1>2 DEF EndsAt, Sprouted
<1> HIDE DEF v, x
<1>4. Rooting(v, x, u)
  BY <1>3, LeasesRoot
<1> HIDE DEF u
<1>5. /\ Trie(u) /\ DOMAIN u.nodes = DOMAIN v.nodes /\ LiveLocations(u) = LiveLocations(v)
      /\ \A l \in LiveLocations(v) : Page(u, l) = Page(v, l)
      /\ \A m : Locations(u, m) = Locations(v, m)
      /\ u.ws = v.ws /\ u.roots = Hold(v.roots, {x}) /\ u.pins = v.pins /\ u.swaps = v.swaps
  BY <1>4 DEF Rooting, Alike
<1>6. u.ws = t.ws /\ u.roots = Hold(t.roots, {x}) /\ u.pins = t.pins /\ u.swaps = t.swaps
  BY <1>3, <1>5 DEF SameRest
<1>7. \A m \in DOMAIN t.nodes : Locations(u, m) = Locations(t, m)
  BY <1>3, <1>5
<1>8. IsSets(u) /\ Sized(u)
  <2>1. \A w \in DOMAIN t.ws : t.ws[w].terminal \in DOMAIN t.nodes \cup {NoNode}
    BY <1>1, AnchorsLive
  <2>2. Locations(u, NoNode) = Locations(t, NoNode)
    BY DEF Locations
  <2> QED BY <2>1, <2>2, <1>1, <1>6, <1>7 DEF IsSets, Sized
<1>9. \A l \in LiveLocations(t) : Page(u, l) = Page(t, l)
  BY <1>1, <1>3, <1>5, SamePages
<1>10. Keeping(t, named, x, u)
  BY <1>3, <1>5, <1>6, <1>7, <1>8, <1>9 DEF Keeping, Sound
<1> QED BY <1>10 DEF u, x, v

(* It passes everything on.                                                 *)
LEMMA KeepingPassed ==
  ASSUME NEW t, Sound(t), NEW named, NEW node, NEW u, Keeping(t, named, node, u)
  PROVE  Passed(t, u, named, {}) /\ Lost(t, u) = {}
<1>1. \A a \in Anchors(t) : AnchoredAt(t)[a] \in DOMAIN t.nodes
  BY SoundFacts, AnchorsLive
<1>2. StillRead(t, u, {})
  BY <1>1 DEF StillRead, Keeping
<1> QED BY <1>2 DEF Keeping, Passed, Lost, BackingsAt

(* What pages are in: device pages there are, or slots below.               *)
IsBackingHere(b) == b \in ({"device"} \X DevicePages) \cup ({"host"} \X Slots)

Placed(t) == \A l \in LiveLocations(t) : IsBackingHere(Page(t, l).at)

InvTable == Sound(tab) /\ Placed(tab)

(* The log of a set, and where fires under way cut it.                      *)
IsLog(e) == e.logged \in Seq(Tokens) /\ e.cuts \subseteq Nat \X Nat

InvLogs == \A w \in DOMAIN tab.ws : IsLog(tab.ws[w])

InvPool ==
  /\ free \subseteq DevicePages /\ slots \subseteq Slots
  /\ pending \subseteq Nat \X DevicePages
  /\ seq \in Nat /\ outstanding \subseteq Nat

InvUsed ==
  /\ used \in [sets : Nat, fires : Nat, moves : Nat]
  /\ DOMAIN tab.ws \subseteq 1..used.sets /\ DOMAIN fires \subseteq 1..used.fires
  /\ DOMAIN moves \subseteq 1..used.moves

InvFlat ==
  /\ DOMAIN flat = DOMAIN tab.ws
  /\ \A w \in DOMAIN flat : flat[w] = Stale \/ flat[w] \in [1..tab.ws[w].mapped -> DevicePages]

(* The cache's entries are what its roots are held for.                     *)
Entries(c, r) == {e \in DOMAIN c : e.root = r}

IsEntry(e) == e = [root |-> e.root, owner |-> e.owner, decoded |-> e.decoded]

RootsExact(t, c) ==
  /\ IsFiniteSet(DOMAIN c) /\ \A e \in DOMAIN c : IsEntry(e) /\ c[e] \in Nat \ {0}
  /\ \A r : r \in DOMAIN t.roots <=> Entries(c, r) # {}
  /\ \A r \in DOMAIN t.roots : t.roots[r] = SumFunctionOnSet(c, Entries(c, r))

(* The moves and held runs are what the nodes are pinned for.               *)
Holders(mv, n) == {m \in DOMAIN mv : n \in mv[m].pinned}

PinsExact(t, mv) ==
  /\ \A n : n \in DOMAIN t.pins <=> Holders(mv, n) # {}
  /\ \A n \in DOMAIN t.pins : t.pins[n] = Cardinality(Holders(mv, n))

IsMove(m) ==
  /\ m \in [kind : {"out", "in", "quoted", "reader"}, proc : Nat, sets : {m.sets}, ws : Nat,
            pages : SUBSET [loc : Nat \X Nat, gpu : DevicePages, slot : Slots],
            pinned : SUBSET Nat, run : Seq(Nat \X Nat), grant : SUBSET DevicePages]
  /\ IsFiniteSet(m.pages) /\ IsFiniteSet(m.pinned)
  /\ m.kind = "quoted" => m.pinned = {}

InvMoves ==
  /\ \A m \in DOMAIN moves : IsMove(moves[m])
  /\ PinsExact(tab, moves)

IsFire(f) ==
  f \in [ws : Nat, start : Nat, toks : Seq(Tokens), grant : SUBSET DevicePages,
          phase : {"granted", "prepared", "queued", "lost"}, seq : Nat, copies : {f.copies},
          pages : {f.pages}]

InvFires ==
  \A f \in DOMAIN fires :
    /\ IsFire(fires[f])
    /\ fires[f].phase # "lost" => fires[f].ws \in DOMAIN tab.ws

Struct ==
  /\ InvTable /\ InvLogs /\ InvPool /\ InvUsed /\ InvFlat /\ RootsExact(tab, cache) /\ InvMoves /\ InvFires

(* The lowest n of a set of numbers.                                        *)
LowestOf(n, S, T) ==
  T \in SUBSET S /\ Cardinality(T) = n /\ \A x \in T, y \in S \ T : x < y

(* Lowest(n, S) is the n least of S.                                        *)
LEMMA LowestFound ==
  ASSUME NEW S \in SUBSET Nat, IsFiniteSet(S), NEW n \in 0..Cardinality(S)
  PROVE  LowestOf(n, S, Lowest(n, S))
<1> DEFINE c == Cardinality(S)
           D == {k \in 0..c : ~\E T \in SUBSET S : LowestOf(k, S, T)}
<1>1. c \in Nat
  BY FS_CardinalityType
<1>2. D = {}
  <2> SUFFICES ASSUME D # {} PROVE FALSE
    OBVIOUS
  <2>1. PICK k \in D : \A j \in D : k <= j
    <3>1. D \in SUBSET Nat
      BY <1>1
    <3> HIDE DEF D
    <3> QED BY <3>1, Least
  <2>2. k \in 0..c
    OBVIOUS
  <2>3. k # 0
    <3>1. LowestOf(0, S, {})
      BY FS_EmptySet DEF LowestOf
    <3> QED BY <3>1
  <2>4. k - 1 \in 0..c /\ k - 1 \notin D
    BY <1>1, <2>1, <2>2, <2>3
  <2>5. PICK T \in SUBSET S : LowestOf(k - 1, S, T)
    BY <2>4
  <2>6. IsFiniteSet(T) /\ Cardinality(T) = k - 1
    BY <2>5, FS_Subset DEF LowestOf
  <2>7. S \ T # {}
    <3> SUFFICES ASSUME S = T PROVE FALSE
      BY <2>5
    <3> QED BY <2>2, <2>3, <2>6, <1>1
  <2>8. PICK x \in S \ T : \A y \in S \ T : x <= y
    <3>1. (S \ T) \in SUBSET Nat
      OBVIOUS
    <3> QED BY <3>1, <2>7, Least
  <2>9. Cardinality(T \cup {x}) = k
    <3>1. Cardinality(T \cup {x}) = Cardinality(T) + 1
      BY <2>6, <2>8, FS_AddElement
    <3> QED BY <3>1, <2>2, <2>6
  <2>10. \A a \in T \cup {x}, b \in S \ (T \cup {x}) : a < b
    <3> SUFFICES ASSUME NEW a \in T \cup {x}, NEW b \in S \ (T \cup {x}) PROVE a < b
      OBVIOUS
    <3>1. a \in Nat /\ b \in Nat /\ x \in Nat /\ b \in S \ T /\ b # x
      OBVIOUS
    <3>2. CASE a \in T
      BY <3>1, <3>2, <2>5 DEF LowestOf
    <3>3. CASE a = x
      BY <3>1, <3>3, <2>8
    <3> QED BY <3>2, <3>3
  <2>11. LowestOf(k, S, T \cup {x}) /\ T \cup {x} \in SUBSET S
    BY <2>8, <2>9, <2>10 DEF LowestOf
  <2>12. k \notin D
    BY <2>11
  <2> QED BY <2>1, <2>12
<1>3. \E T \in SUBSET S : LowestOf(n, S, T)
  BY <1>2
<1> HIDE DEF D
<1>4. \E T \in SUBSET S : Cardinality(T) = n /\ \A x \in T, y \in S \ T : x < y
  BY <1>3 DEF LowestOf
<1> QED BY <1>4 DEF LowestOf, Lowest

(* SetToSeq lists a finite set once.                                        *)
LEMMA ListedLen ==
  ASSUME NEW S, IsFiniteSet(S)
  PROVE  /\ SetToSeq(S) \in Seq(S) /\ Len(SetToSeq(S)) = Cardinality(S)
         /\ DOMAIN SetToSeq(S) = 1..Cardinality(S) /\ Cardinality(S) \in Nat
         /\ ToSet(SetToSeq(S)) = S
         /\ \A i, j \in DOMAIN SetToSeq(S) : SetToSeq(S)[i] = SetToSeq(S)[j] => i = j
<1> DEFINE s == SetToSeq(S)
           n == Len(s)
<1>1. s \in Seq(S) /\ ToSet(s) = S /\ \A i, j \in DOMAIN s : s[i] = s[j] => i = j
  BY SetListed
<1> HIDE DEF s
<1>2. n \in Nat /\ DOMAIN s = 1..n
  BY <1>1
<1>3. s \in Bijection(1..n, S)
  <2>1. s \in [1..n -> S]
    BY <1>1, <1>2
  <2>2. s \in Injection(1..n, S)
    BY <2>1, <1>1, <1>2 DEF Injection, IsInjective
  <2>3. \A y \in S : \E i \in 1..n : s[i] = y
    BY <1>1, <1>2 DEF ToSet
  <2>4. s \in Surjection(1..n, S)
    BY <2>1, <2>3 DEF Surjection
  <2> QED BY <2>2, <2>4 DEF Bijection
<1>4. Cardinality(S) = n
  <2>1. ExistsBijection(1..n, S)
    BY <1>3 DEF ExistsBijection
  <2> HIDE DEF n
  <2> QED BY <2>1, <1>2, CountTo, FS_Bijection
<1> QED BY <1>1, <1>2, <1>4 DEF s

(* The image of a finite set is finite.                                     *)
LEMMA FiniteImage ==
  ASSUME NEW S, IsFiniteSet(S), NEW f
  PROVE  IsFiniteSet({f[x] : x \in S})
<1> DEFINE T == {f[x] : x \in S}
           g == [x \in S |-> f[x]]
<1>1. g \in [S -> T] /\ \A y \in T : \E x \in S : g[x] = y
  OBVIOUS
<1>2. g \in Surjection(S, T)
  BY <1>1 DEF Surjection
<1> HIDE DEF g, T
<1>3. IsFiniteSet(T)
  BY <1>2, FS_Surjection
<1> QED BY <1>3 DEF T

(* The items of a sequence are finitely many.                               *)
LEMMA SeqSetFinite ==
  ASSUME NEW S, NEW s \in Seq(S)
  PROVE  IsFiniteSet(ToSet(s))
<1>1. IsFiniteSet(1..Len(s)) /\ DOMAIN s = 1..Len(s)
  BY CountTo
<1>2. IsFiniteSet({s[i] : i \in DOMAIN s})
  BY <1>1, FiniteImage
<1> QED BY <1>2 DEF ToSet

(* The live locations are finitely many.                                    *)
LEMMA LiveFinite ==
  ASSUME NEW t, Shape(t)
  PROVE  IsFiniteSet(LiveLocations(t)) /\ LiveLocations(t) \subseteq Nat \X Nat
<1> DEFINE f == [n \in DOMAIN t.nodes |-> {n} \X DOMAIN t.nodes[n].pages]
           U == {f[n] : n \in DOMAIN t.nodes}
<1>1. IsFiniteSet(DOMAIN t.nodes)
  BY DEF Shape, Formed
<1>2. IsFiniteSet(U)
  <2> HIDE DEF f
  <2> QED BY <1>1, FiniteImage
<1>3. ASSUME NEW n \in DOMAIN t.nodes PROVE IsFiniteSet(f[n]) /\ f[n] \subseteq Nat \X Nat
  <2>1. Len(t.nodes[n].pages) \in Nat /\ DOMAIN t.nodes[n].pages = 1..Len(t.nodes[n].pages) /\ n \in Nat
    BY NodeFields
  <2>2. IsFiniteSet(DOMAIN t.nodes[n].pages) /\ IsFiniteSet({n})
    BY <2>1, CountTo, FS_Singleton
  <2>3. IsFiniteSet({n} \X DOMAIN t.nodes[n].pages)
    BY <2>2, FS_Product
  <2>4. {n} \X DOMAIN t.nodes[n].pages \subseteq Nat \X Nat
    BY <2>1
  <2> QED BY <2>3, <2>4
<1>4. LiveLocations(t) = UNION U
  BY DEF LiveLocations
<1>5. \A T \in U : IsFiniteSet(T) /\ T \subseteq Nat \X Nat
  BY <1>3
<1> HIDE DEF U
<1> QED BY <1>2, <1>4, <1>5, FS_UNION

(* The ids that moves name are finitely many.                               *)
NamedBy(m) == {p.loc[1] : p \in m.pages} \cup m.pinned \cup {l[1] : l \in ToSet(m.run)}

(* A move names finitely many nodes.                                        *)
LEMMA NamedByFinite ==
  ASSUME NEW m, IsMove(m)
  PROVE  IsFiniteSet(NamedBy(m))
<1>1. m.run \in Seq(Nat \X Nat) /\ IsFiniteSet(m.pages) /\ IsFiniteSet(m.pinned)
  BY DEF IsMove
<1>2. IsFiniteSet(ToSet(m.run))
  BY <1>1, SeqSetFinite
<1> DEFINE f == [p \in m.pages |-> p.loc[1]]
           g == [l \in ToSet(m.run) |-> l[1]]
<1>3. IsFiniteSet({f[p] : p \in m.pages})
  BY <1>1, FiniteImage
<1>4. IsFiniteSet({g[l] : l \in ToSet(m.run)})
  BY <1>2, FiniteImage
<1>5. {f[p] : p \in m.pages} = {p.loc[1] : p \in m.pages} /\ {g[l] : l \in ToSet(m.run)} = {l[1] : l \in ToSet(m.run)}
  OBVIOUS
<1> HIDE DEF f, g
<1> QED BY <1>1, <1>3, <1>4, <1>5, FS_Union DEF NamedBy

(* So do all the moves together.                                            *)
LEMMA NamedFinite ==
  ASSUME InvMoves, InvUsed
  PROVE  IsFiniteSet(Named) /\ IsFiniteSet(DOMAIN moves)
<1>1. IsFiniteSet(DOMAIN moves)
  <2>1. used.moves \in Nat /\ DOMAIN moves \subseteq 1..used.moves
    BY DEF InvUsed
  <2> QED BY <2>1, CountTo, FS_Subset
<1> DEFINE f == [m \in DOMAIN moves |-> NamedBy(moves[m])]
           U == {f[m] : m \in DOMAIN moves}
<1>2. IsFiniteSet(U)
  BY <1>1, FiniteImage
<1>3. \A T \in U : IsFiniteSet(T)
  BY NamedByFinite DEF InvMoves
<1>4. Named = UNION U
  BY DEF Named, NamedBy
<1> HIDE DEF U
<1> QED BY <1>1, <1>2, <1>3, <1>4, FS_UNION

(* What is let go was placed, and goes back where it is from.               *)
LEMMA LostPlaced ==
  ASSUME NEW t, Placed(t), NEW u
  PROVE  \A b \in Lost(t, u) : IsBackingHere(b)
BY DEF Lost, BackingsAt, Placed

(* What passes keeps its backing in the pools.                              *)
LEMMA PassedPlaced ==
  ASSUME NEW t, Placed(t), NEW u, NEW named, NEW W, Passed(t, u, named, W)
  PROVE  Placed(u)
BY DEF Passed, Placed

(* What is given back belongs to the pools.                                 *)
LEMMA ReturnedTyped ==
  ASSUME NEW B, \A b \in B : IsBackingHere(b)
  PROVE  DeviceOf(B) \subseteq DevicePages /\ SlotsOf(B) \subseteq Slots
BY DEF IsBackingHere, DeviceOf, SlotsOf, OnDevice

PoolTyped(fr, pend, sl) ==
  fr \subseteq DevicePages /\ pend \subseteq Nat \X DevicePages /\ sl \subseteq Slots

(* Retiring keeps the pools' types.                                         *)
LEMMA DueTyped ==
  ASSUME NEW pend, pend \subseteq Nat \X DevicePages, NEW out, NEW more, more \subseteq DevicePages
  PROVE  /\ pend \ Due(pend, out) \subseteq Nat \X DevicePages
         /\ more \cup {e[2] : e \in Due(pend, out)} \subseteq DevicePages
BY DEF Due

(* GiveBack keeps the pools' types.                                         *)
LEMMA GivesBack ==
  ASSUME InvPool, NEW r, \A b \in r.freed : IsBackingHere(b), NEW back, back \subseteq DevicePages,
         GiveBack(r, back), UNCHANGED epochs
  PROVE  InvPool'
<1>1. DeviceOf(r.freed) \subseteq DevicePages /\ SlotsOf(r.freed) \subseteq Slots
  BY ReturnedTyped
<1>2. Recycled(seq, r.freed) \subseteq Nat \X DevicePages
  BY <1>1 DEF Recycled, InvPool
<1>3. free' \subseteq DevicePages /\ pending' \subseteq Nat \X DevicePages
  <2>1. free \cup back \subseteq DevicePages
    BY DEF InvPool
  <2> QED BY <1>2, <2>1, DueTyped DEF GiveBack, Retire
<1>4. slots' \subseteq Slots
  BY <1>1 DEF GiveBack, InvPool
<1> QED BY <1>3, <1>4 DEF InvPool, epochs

(* So does settling an epoch.                                               *)
LEMMA SettlesTyped ==
  ASSUME InvPool, NEW epoch, NEW back, back \subseteq DevicePages, Settle(epoch, back), UNCHANGED slots
  PROVE  InvPool'
<1>1. free \cup back \subseteq DevicePages /\ pending \subseteq Nat \X DevicePages
  BY DEF InvPool
<1>2. CASE epoch = 0
  BY <1>1, <1>2 DEF Settle, epochs, InvPool
<1>3. CASE epoch # 0
  <2>1. free' \subseteq DevicePages /\ pending' \subseteq Nat \X DevicePages
    BY <1>1, <1>3, DueTyped DEF Settle, Retire
  <2> QED BY <2>1, <1>3 DEF Settle, InvPool
<1> QED BY <1>2, <1>3

(* flatten                                                                  *)
FlatFor(v, n) == v = Stale \/ v \in [1..n -> DevicePages]

(* A flat table has one device page per mapped page, or is stale.           *)
LEMMA FlattenTyped ==
  ASSUME NEW t, Sound(t), Placed(t), NEW w \in DOMAIN t.ws
  PROVE  FlatFor(Flatten(t, w), t.ws[w].mapped)
<1> DEFINE locs == WsLocations(t, w)
<1>1. DOMAIN locs = 1..t.ws[w].mapped /\ \A l \in ToSet(locs) : l \in LiveLocations(t)
  BY WsLocationsAll
<1> HIDE DEF locs
<1>2. Flatten(t, w) = FlatIds(t, locs)
  BY DEF Flatten, locs
<1>3. CASE \E l \in ToSet(locs) : ~OnDevice(Page(t, l).at)
  BY <1>2, <1>3 DEF FlatIds, FlatFor
<1>4. CASE \A l \in ToSet(locs) : OnDevice(Page(t, l).at)
  <2>1. \A i \in DOMAIN locs : Page(t, locs[i]).at[2] \in DevicePages
    <3> SUFFICES ASSUME NEW i \in DOMAIN locs PROVE Page(t, locs[i]).at[2] \in DevicePages
      OBVIOUS
    <3>1. locs[i] \in ToSet(locs)
      BY DEF ToSet
    <3>2. IsBackingHere(Page(t, locs[i]).at) /\ OnDevice(Page(t, locs[i]).at)
      BY <3>1, <1>1, <1>4 DEF Placed
    <3> QED BY <3>2 DEF IsBackingHere, OnDevice
  <2>2. FlatIds(t, locs) = [i \in 1..t.ws[w].mapped |-> Page(t, locs[i]).at[2]]
    BY <1>1, <1>4 DEF FlatIds
  <2> QED BY <2>1, <2>2, <1>1, <1>2 DEF FlatFor
<1> QED BY <1>3, <1>4

(* An entry more (keep), and its root held once more.                       *)
LEMMA EntriesFinite ==
  ASSUME NEW t, NEW c, RootsExact(t, c), NEW r
  PROVE  /\ IsFiniteSet(Entries(c, r)) /\ Entries(c, r) \subseteq DOMAIN c
         /\ \A e \in Entries(c, r) : c[e] \in Nat \ {0}
<1>1. Entries(c, r) \subseteq DOMAIN c
  BY DEF Entries
<1> QED BY <1>1, FS_Subset DEF RootsExact

(* One more entry of the cache, one more lease of its root.                 *)
LEMMA RootHeld ==
  ASSUME NEW t, NEW c, RootsExact(t, c), NEW e, IsEntry(e), NEW u, u.roots = Hold(t.roots, {e.root})
  PROVE  RootsExact(u, Hold(c, {e}))
<1> DEFINE d == Hold(c, {e})
<1>1. /\ DOMAIN d = DOMAIN c \cup {e} /\ \A x \in DOMAIN c : x # e => d[x] = c[x]
      /\ d[e] = Count(c, e) + 1
  <2>1. \A x \in DOMAIN c : c[x] \in Nat
    BY DEF RootsExact
  <2> QED BY <2>1 DEF Hold, Count
<1>2. Count(c, e) \in Nat /\ (e \in DOMAIN c => Count(c, e) = c[e]) /\ (e \notin DOMAIN c => Count(c, e) = 0)
  BY DEF Count, RootsExact
<1> HIDE DEF d
<1>3. IsFiniteSet(DOMAIN d)
  BY <1>1, FS_AddElement DEF RootsExact
<1>4. \A x \in DOMAIN d : IsEntry(x) /\ d[x] \in Nat \ {0}
  BY <1>1, <1>2 DEF RootsExact
<1>5. \A r : r # e.root => Entries(d, r) = Entries(c, r)
  BY <1>1 DEF Entries
<1>6. Entries(d, e.root) = Entries(c, e.root) \cup {e}
  BY <1>1 DEF Entries
<1>7. \A r : r \in DOMAIN u.roots <=> Entries(d, r) # {}
  <2>1. DOMAIN u.roots = DOMAIN t.roots \cup {e.root}
    BY DEF Hold
  <2> QED BY <1>5, <1>6, <2>1 DEF RootsExact
<1>8. ASSUME NEW r \in DOMAIN u.roots PROVE u.roots[r] = SumFunctionOnSet(d, Entries(d, r))
  <2>1. u.roots[r] = Count(t.roots, r) + (IF r = e.root THEN 1 ELSE 0)
    BY DEF Hold
  <2>2. Count(t.roots, r) = SumFunctionOnSet(c, Entries(c, r))
    <3>1. CASE r \in DOMAIN t.roots
      BY <3>1 DEF Count, RootsExact
    <3>2. CASE r \notin DOMAIN t.roots
      <4>1. Entries(c, r) = {}
        BY <3>2 DEF RootsExact
      <4> QED BY <3>2, <4>1, SumEmpty DEF Count
    <3> QED BY <3>1, <3>2
  <2>3. IsFiniteSet(Entries(c, r)) /\ Entries(c, r) \subseteq DOMAIN c /\ \A x \in Entries(c, r) : c[x] \in Nat \ {0}
    BY EntriesFinite
  <2>4. SumFunctionOnSet(c, Entries(c, r)) \in Nat
    BY <2>3, SumNat
  <2>5. CASE r # e.root
    <3>1. \A x \in Entries(c, r) : c[x] \in Int /\ c[x] = d[x]
      <4>1. e \notin Entries(c, r)
        BY <2>5 DEF Entries
      <4> QED BY <4>1, <2>3, <1>1
    <3>2. SumFunctionOnSet(c, Entries(c, r)) = SumFunctionOnSet(d, Entries(c, r))
      BY <3>1, <2>3, SumSame
    <3> QED BY <3>2, <2>1, <2>2, <2>4, <2>5, <1>5
  <2>6. CASE r = e.root /\ e \in DOMAIN c
    <3>1. e \in Entries(c, r) /\ Entries(d, r) = Entries(c, r)
      BY <2>6, <1>6 DEF Entries
    <3>2. \A x \in Entries(c, r) : c[x] \in Int /\ d[x] \in Int
      BY <2>3, <1>4, <1>1
    <3>3. \A x \in Entries(c, r) : x # e => d[x] = c[x]
      BY <2>3, <1>1
    <3>4. SumFunctionOnSet(d, Entries(c, r)) = SumFunctionOnSet(c, Entries(c, r)) + d[e] - c[e]
      BY <3>1, <3>2, <3>3, <2>3, SumChanged
    <3>5. d[e] - c[e] = 1 /\ c[e] \in Nat /\ d[e] \in Nat
      BY <1>1, <1>2, <2>6
    <3> QED BY <3>1, <3>4, <3>5, <2>1, <2>2, <2>4, <2>6
  <2>7. CASE r = e.root /\ e \notin DOMAIN c
    <3> DEFINE S == Entries(d, r)
    <3>1. e \notin Entries(c, r) /\ S = Entries(c, r) \cup {e}
      BY <2>7, <1>6 DEF Entries
    <3>2. S \ {e} = Entries(c, r) /\ e \in S
      BY <3>1
    <3>3. IsFiniteSet(S) /\ \A x \in S : d[x] \in Int
      <4>1. S \subseteq DOMAIN d
        BY <3>1, <2>3, <1>1
      <4> QED BY <4>1, <1>3, <1>4, FS_Subset
    <3> HIDE DEF S
    <3>4. SumFunctionOnSet(d, S) = d[e] + SumFunctionOnSet(d, Entries(c, r))
      BY <3>2, <3>3, SumStep
    <3>5. \A x \in Entries(c, r) : c[x] \in Int /\ c[x] = d[x]
      BY <3>1, <2>3, <1>1
    <3>6. SumFunctionOnSet(c, Entries(c, r)) = SumFunctionOnSet(d, Entries(c, r))
      BY <3>5, <2>3, SumSame
    <3>7. d[e] = 1
      BY <1>1, <1>2, <2>7
    <3> QED BY <3>4, <3>6, <3>7, <2>1, <2>2, <2>4, <2>7 DEF S
  <2> QED BY <2>5, <2>6, <2>7
<1>9. RootsExact(u, d)
  BY <1>3, <1>4, <1>7, <1>8 DEF RootsExact
<1> QED BY <1>9 DEF d

(* Entries dropped, and their roots released.                               *)
LessRoots(t, c, entries) ==
  [n \in DOMAIN t.roots \ {n \in {e.root : e \in entries} : t.roots[n] <= SumFunctionOnSet(c, {e \in entries : e.root = n})} |->
     t.roots[n] - (IF n \in {e.root : e \in entries} THEN SumFunctionOnSet(c, {e \in entries : e.root = n}) ELSE 0)]

(* Entries dropped give up as many leases.                                  *)
LEMMA RootsLess ==
  ASSUME NEW t, NEW c, RootsExact(t, c), NEW entries \in SUBSET DOMAIN c, NEW u, u.roots = LessRoots(t, c, entries)
  PROVE  /\ RootsExact(u, Without(c, entries))
         /\ {e.root : e \in entries} \subseteq DOMAIN t.roots
<1> DEFINE d == Without(c, entries)
           In(r) == {e \in entries : e.root = r}
           roots == {e.root : e \in entries}
<1>1. DOMAIN d = DOMAIN c \ entries /\ \A x \in DOMAIN d : d[x] = c[x]
  BY DEF Without
<1>2. roots \subseteq DOMAIN t.roots
  BY DEF RootsExact, Entries
<1>3. \A r : In(r) \subseteq Entries(c, r) /\ Entries(d, r) = Entries(c, r) \ In(r)
  BY <1>1 DEF Entries
<1>4. DOMAIN u.roots = DOMAIN t.roots \ {n \in roots : t.roots[n] <= SumFunctionOnSet(c, In(n))}
  BY DEF LessRoots
<1>5. \A n \in DOMAIN u.roots : u.roots[n] = t.roots[n] - (IF n \in roots THEN SumFunctionOnSet(c, In(n)) ELSE 0)
  BY <1>4 DEF LessRoots
<1>6. \A r : r \notin roots => In(r) = {}
  OBVIOUS
<1> HIDE DEF d, In, roots
<1>7. ASSUME NEW r
      PROVE  /\ SumFunctionOnSet(c, Entries(c, r)) = SumFunctionOnSet(c, In(r)) + SumFunctionOnSet(d, Entries(d, r))
             /\ SumFunctionOnSet(c, In(r)) \in Nat /\ SumFunctionOnSet(d, Entries(d, r)) \in Nat
             /\ Entries(d, r) # {} => SumFunctionOnSet(d, Entries(d, r)) > 0
             /\ Entries(d, r) = {} => SumFunctionOnSet(d, Entries(d, r)) = 0
  <2>1. IsFiniteSet(Entries(c, r)) /\ Entries(c, r) \subseteq DOMAIN c /\ \A x \in Entries(c, r) : c[x] \in Nat \ {0}
    BY EntriesFinite
  <2>2. In(r) \in SUBSET Entries(c, r) /\ Entries(d, r) = Entries(c, r) \ In(r)
    BY <1>3
  <2>3. IsFiniteSet(In(r)) /\ IsFiniteSet(Entries(d, r))
    BY <2>1, <2>2, FS_Subset
  <2>4. SumFunctionOnSet(c, Entries(c, r)) = SumFunctionOnSet(c, In(r)) + SumFunctionOnSet(c, Entries(d, r))
    <3>1. \A x \in Entries(c, r) : c[x] \in Int
      BY <2>1
    <3> QED BY <2>1, <2>2, <3>1, SumSplit
  <2>5. \A x \in Entries(d, r) : c[x] \in Int /\ c[x] = d[x] /\ d[x] \in Nat \ {0}
    BY <2>1, <2>2, <1>1 DEF Entries
  <2>6. SumFunctionOnSet(c, Entries(d, r)) = SumFunctionOnSet(d, Entries(d, r))
    BY <2>3, <2>5, SumSame
  <2>7. SumFunctionOnSet(c, In(r)) \in Nat
    BY <2>3, <2>1, <2>2, SumNat
  <2>8. SumFunctionOnSet(d, Entries(d, r)) \in Nat
    BY <2>3, <2>5, SumNat
  <2>9. ASSUME NEW x \in Entries(d, r) PROVE SumFunctionOnSet(d, Entries(d, r)) > 0
    <3>1. d[x] <= SumFunctionOnSet(d, Entries(d, r)) /\ d[x] \in Nat \ {0}
      <4>1. \A y \in Entries(d, r) : d[y] \in Nat
        BY <2>5
      <4> QED BY <2>3, <2>5, <4>1, SumBound
    <3> QED BY <3>1, <2>8
  <2> QED BY <2>4, <2>6, <2>7, <2>8, <2>9, SumEmpty
<1>8. \A r \in DOMAIN t.roots : t.roots[r] = SumFunctionOnSet(c, Entries(c, r))
  BY DEF RootsExact
<1>9. ASSUME NEW r PROVE r \in DOMAIN u.roots <=> Entries(d, r) # {}
  <2>1. CASE r \notin DOMAIN t.roots
    BY <2>1, <1>4, <1>3 DEF RootsExact
  <2>2. CASE r \in DOMAIN t.roots /\ r \notin roots
    <3>1. Entries(d, r) = Entries(c, r)
      BY <2>2, <1>6, <1>3
    <3> QED BY <3>1, <2>2, <1>4 DEF RootsExact
  <2>3. CASE r \in roots
    <3>1. r \in DOMAIN t.roots /\ t.roots[r] = SumFunctionOnSet(c, Entries(c, r))
      BY <2>3, <1>2, <1>8
    <3> QED BY <2>3, <3>1, <1>4, <1>7
  <2> QED BY <2>1, <2>2, <2>3
<1>10. ASSUME NEW r \in DOMAIN u.roots PROVE u.roots[r] = SumFunctionOnSet(d, Entries(d, r))
  <2>1. r \in DOMAIN t.roots /\ t.roots[r] = SumFunctionOnSet(c, Entries(c, r))
    BY <1>4, <1>8
  <2>2. CASE r \in roots
    BY <2>1, <2>2, <1>5, <1>7
  <2>3. CASE r \notin roots
    <3>1. SumFunctionOnSet(c, In(r)) = 0
      BY <2>3, <1>6, SumEmpty
    <3> QED BY <2>1, <2>3, <3>1, <1>5, <1>7
  <2> QED BY <2>2, <2>3
<1>11. IsFiniteSet(DOMAIN d) /\ \A e \in DOMAIN d : IsEntry(e) /\ d[e] \in Nat \ {0}
  BY <1>1, FS_Subset DEF RootsExact
<1>12. RootsExact(u, d)
  BY <1>9, <1>10, <1>11 DEF RootsExact
<1> QED BY <1>2, <1>12 DEF d, roots

(* Dropping cache entries shrinks the table to the leases left.             *)
LEMMA Drops ==
  ASSUME NEW t, Sound(t), RootsExact(t, cache), NEW entries \in SUBSET DOMAIN cache
  PROVE  Rerooted(t, LessRoots(t, cache, entries), Dropped(t, entries))
<1> DEFINE less == RootsOf(entries)
           last == {n \in DOMAIN less : t.roots[n] <= less[n]}
           roots == {e.root : e \in entries}
           now == LessRoots(t, cache, entries)
<1>1. DOMAIN less = roots /\ \A n \in roots : less[n] = SumFunctionOnSet(cache, {e \in entries : e.root = n})
  BY DEF RootsOf
<1>2. roots \subseteq DOMAIN t.roots
  BY DEF RootsExact, Entries
<1>3. Dropped(t, entries) = RemoveAnchors([t EXCEPT !.roots = [n \in DOMAIN @ \ last |-> @[n] - Count(less, n)]], last)
  BY DEF Dropped, ReleaseRoots
<1>4. last = {n \in roots : t.roots[n] <= SumFunctionOnSet(cache, {e \in entries : e.root = n})}
  BY <1>1
<1>5. now = [n \in DOMAIN t.roots \ last |-> t.roots[n] - Count(less, n)]
  <2>1. \A n : Count(less, n) = IF n \in roots THEN SumFunctionOnSet(cache, {e \in entries : e.root = n}) ELSE 0
    BY <1>1 DEF Count
  <2> QED BY <1>4, <2>1 DEF LessRoots
<1>6. Dropped(t, entries) = RemoveAnchors(WithRoots(t, now), last)
  BY <1>3, <1>5 DEF WithRoots
<1>7. DOMAIN now = DOMAIN t.roots \ last /\ last \subseteq DOMAIN t.roots
  BY <1>5, <1>2, <1>4
<1> HIDE DEF last, now
<1>8. Rerooted(t, now, RemoveAnchors(WithRoots(t, now), last))
  BY <1>7, FewerRoots
<1> QED BY <1>6, <1>8 DEF now

(* Nodes pinned for one move or reader more, or less.                       *)
LEMMA HoldersMore ==
  ASSUME NEW t, NEW mv, PinsExact(t, mv), IsFiniteSet(DOMAIN mv), NEW k, NEW nodes, NEW mv2,
         \A n : Holders(mv2, n) = IF n \in nodes THEN Holders(mv, n) \cup {k} ELSE Holders(mv, n),
         \A n \in nodes : k \notin Holders(mv, n),
         NEW u, u.pins = Hold(t.pins, nodes)
  PROVE  PinsExact(u, mv2)
<1>1. DOMAIN u.pins = DOMAIN t.pins \cup nodes
  BY DEF Hold
<1>2. \A n : n \in DOMAIN u.pins <=> Holders(mv2, n) # {}
  BY <1>1 DEF PinsExact
<1>3. ASSUME NEW n \in DOMAIN u.pins PROVE u.pins[n] = Cardinality(Holders(mv2, n))
  <2>1. IsFiniteSet(Holders(mv, n))
    <3>1. Holders(mv, n) \subseteq DOMAIN mv
      BY DEF Holders
    <3> QED BY <3>1, FS_Subset
  <2>2. Cardinality(Holders(mv, n)) \in Nat
    BY <2>1, FS_CardinalityType
  <2>3. Count(t.pins, n) = Cardinality(Holders(mv, n))
    <3>1. CASE n \in DOMAIN t.pins
      BY <3>1 DEF PinsExact, Count
    <3>2. CASE n \notin DOMAIN t.pins
      <4>1. Holders(mv, n) = {}
        BY <3>2 DEF PinsExact
      <4> QED BY <3>2, <4>1, FS_EmptySet DEF Count
    <3> QED BY <3>1, <3>2
  <2>4. u.pins[n] = Count(t.pins, n) + (IF n \in nodes THEN 1 ELSE 0)
    BY <1>1 DEF Hold
  <2>5. CASE n \in nodes
    <3>1. Cardinality(Holders(mv, n) \cup {k}) = Cardinality(Holders(mv, n)) + 1
      BY <2>1, <2>5, FS_AddElement
    <3> QED BY <3>1, <2>3, <2>4, <2>5
  <2>6. CASE n \notin nodes
    BY <2>6, <2>2, <2>3, <2>4
  <2> QED BY <2>5, <2>6
<1> QED BY <1>2, <1>3 DEF PinsExact

LessPins(pins, nodes) ==
  [n \in DOMAIN pins \ {n \in nodes : pins[n] = 1} |-> IF n \in nodes THEN pins[n] - 1 ELSE pins[n]]

(* A move that ends gives up its pins.                                      *)
LEMMA HoldersLess ==
  ASSUME NEW t, NEW mv, PinsExact(t, mv), IsFiniteSet(DOMAIN mv), NEW k, NEW nodes, NEW mv2,
         \A n : Holders(mv2, n) = Holders(mv, n) \ {k},
         \A n : n \in nodes <=> k \in Holders(mv, n),
         NEW u, u.pins = LessPins(t.pins, nodes)
  PROVE  PinsExact(u, mv2) /\ nodes \subseteq DOMAIN t.pins
<1>1. nodes \subseteq DOMAIN t.pins
  BY DEF PinsExact
<1>2. ASSUME NEW n \in DOMAIN t.pins
      PROVE  /\ IsFiniteSet(Holders(mv, n)) /\ Cardinality(Holders(mv, n)) \in Nat
             /\ t.pins[n] = Cardinality(Holders(mv, n))
             /\ n \in nodes => Cardinality(Holders(mv2, n)) = Cardinality(Holders(mv, n)) - 1
             /\ n \notin nodes => Holders(mv2, n) = Holders(mv, n)
             /\ Holders(mv2, n) # {} <=> ~(n \in nodes /\ t.pins[n] = 1)
  <2>1. IsFiniteSet(Holders(mv, n))
    <3>1. Holders(mv, n) \subseteq DOMAIN mv
      BY DEF Holders
    <3> QED BY <3>1, FS_Subset
  <2>2. t.pins[n] = Cardinality(Holders(mv, n)) /\ Cardinality(Holders(mv, n)) \in Nat /\ Holders(mv, n) # {}
    BY <2>1, FS_CardinalityType DEF PinsExact
  <2>3. CASE n \in nodes
    <3>1. Cardinality(Holders(mv2, n)) = Cardinality(Holders(mv, n)) - 1 /\ IsFiniteSet(Holders(mv2, n))
      BY <2>1, <2>3, FS_RemoveElement
    <3>2. Holders(mv2, n) = {} <=> Cardinality(Holders(mv2, n)) = 0
      BY <3>1, FS_EmptySet
    <3> QED BY <2>1, <2>2, <2>3, <3>1, <3>2
  <2>4. CASE n \notin nodes
    <3>1. Holders(mv2, n) = Holders(mv, n)
      BY <2>4
    <3> QED BY <2>1, <2>2, <2>4, <3>1
  <2> QED BY <2>3, <2>4
<1>3. DOMAIN u.pins = DOMAIN t.pins \ {n \in nodes : t.pins[n] = 1}
  BY DEF LessPins
<1>4. ASSUME NEW n PROVE n \in DOMAIN u.pins <=> Holders(mv2, n) # {}
  <2>1. CASE n \in DOMAIN t.pins
    BY <2>1, <1>2, <1>3
  <2>2. CASE n \notin DOMAIN t.pins
    <3>1. Holders(mv, n) = {}
      BY <2>2 DEF PinsExact
    <3> QED BY <3>1, <2>2, <1>3
  <2> QED BY <2>1, <2>2
<1>5. ASSUME NEW n \in DOMAIN u.pins PROVE u.pins[n] = Cardinality(Holders(mv2, n))
  <2>1. n \in DOMAIN t.pins /\ u.pins[n] = IF n \in nodes THEN t.pins[n] - 1 ELSE t.pins[n]
    BY <1>3 DEF LessPins
  <2> QED BY <2>1, <1>2
<1> QED BY <1>1, <1>4, <1>5 DEF PinsExact

(* Moves that pin the same leave the pins exact.                            *)
LEMMA HoldersSame ==
  ASSUME NEW t, NEW mv, PinsExact(t, mv), NEW mv2, \A n : Holders(mv2, n) = Holders(mv, n),
         NEW u, u.pins = t.pins
  PROVE  PinsExact(u, mv2)
BY DEF PinsExact

(* unpin_all shrinks the table to the pins left.                            *)
LEMMA Unpins ==
  ASSUME NEW t, Sound(t), NEW nodes, nodes \subseteq DOMAIN t.pins
  PROVE  Repinned(t, LessPins(t.pins, nodes), UnpinAll(t, nodes))
<1> DEFINE last == {n \in nodes : t.pins[n] = 1}
           now == LessPins(t.pins, nodes)
<1>1. UnpinAll(t, nodes) = RemoveAnchors(WithPins(t, now), last)
  BY DEF UnpinAll, LessPins, WithPins
<1>2. DOMAIN now = DOMAIN t.pins \ last /\ last \subseteq DOMAIN t.pins
  BY DEF LessPins
<1> HIDE DEF last, now
<1>3. Repinned(t, now, RemoveAnchors(WithPins(t, now), last))
  BY <1>2, FewerPins
<1> QED BY <1>1, <1>3 DEF now

(* What an operation leaves, and what it lets go.                           *)
Good(r) == Sound(r.t) /\ Placed(r.t) /\ \A b \in r.freed : IsBackingHere(b)

(* A result that passes on what it keeps gives back pages of the pools.     *)
LEMMA GoodPassed ==
  ASSUME NEW t, Placed(t), NEW r, Sound(r.t), NEW named, NEW W, Passed(t, r.t, named, W), r.freed = Lost(t, r.t)
  PROVE  Good(r)
BY PassedPlaced, LostPlaced DEF Good

(* So does giving up leases.                                                *)
LEMMA GoodRerooted ==
  ASSUME NEW t, Placed(t), NEW roots, NEW r, Rerooted(t, roots, r)
  PROVE  Good(r)
<1>1. Sound(r.t) /\ Shrunk(t, WithRoots(t, roots), r.t, r.freed)
  BY DEF Rerooted
<1>2. Passed(t, r.t, {}, {}) /\ r.freed = Lost(t, r.t)
  BY <1>1, ShrunkPassed
<1> QED BY <1>1, <1>2, GoodPassed

(* So does giving up pins.                                                  *)
LEMMA GoodRepinned ==
  ASSUME NEW t, Placed(t), NEW pins, NEW r, Repinned(t, pins, r)
  PROVE  Good(r)
<1>1. Sound(r.t) /\ Shrunk(t, WithPins(t, pins), r.t, r.freed)
  BY DEF Repinned
<1>2. Passed(t, r.t, {}, {}) /\ r.freed = Lost(t, r.t)
  BY <1>1, ShrunkPassed
<1> QED BY <1>1, <1>2, GoodPassed

(* So does removing a set.                                                  *)
LEMMA GoodUnset ==
  ASSUME NEW t, Placed(t), NEW w, NEW r, Unset(t, w, r)
  PROVE  Good(r)
<1>1. Sound(r.t) /\ Shrunk(t, WithoutSet(t, w), r.t, r.freed)
  BY DEF Unset
<1>2. Passed(t, r.t, {}, {}) /\ r.freed = Lost(t, r.t)
  BY <1>1, ShrunkPassed
<1> QED BY <1>1, <1>2, GoodPassed

(* So does giving up swaps.                                                 *)
LEMMA GoodUnswapped ==
  ASSUME NEW t, Placed(t), NEW locs, NEW r, Unswapped(t, locs, r)
  PROVE  Good(r)
<1>1. Sound(r.t)
  BY DEF Unswapped
<1>2. Passed(t, r.t, {}, {}) /\ r.freed = Lost(t, r.t)
  BY UnswappedPassed
<1> QED BY <1>1, <1>2, GoodPassed

(* A table that reads alike keeps its pages in the pools.                   *)
LEMMA AlikePlaced ==
  ASSUME NEW t, Placed(t), NEW u, Alike(t, u)
  PROVE  Placed(u)
BY DEF Alike, Placed

(* So does one sealed.                                                      *)
LEMMA RekeyedPlaced ==
  ASSUME NEW t, Placed(t), NEW u, Rekeyed(t, u)
  PROVE  Placed(u)
BY DEF Rekeyed, ReadAlike, Placed

(* The mapping kept for launches, where sets stay as long as they are.      *)
SameLens(t, u, S) ==
  /\ DOMAIN u.ws = DOMAIN t.ws
  /\ \A w \in DOMAIN t.ws : w \notin S => u.ws[w].mapped = t.ws[w].mapped

(* Flat tables taken again have one page per mapped page.                   *)
LEMMA FlatRefreshed ==
  ASSUME InvFlat, Sound(tab'), Placed(tab'), NEW S, SameLens(tab, tab', S), flat' = Refreshed(S, tab')
  PROVE  InvFlat'
<1>1. DOMAIN flat' = DOMAIN tab.ws /\ \A w \in DOMAIN tab.ws : flat'[w] = IF w \in S THEN Flatten(tab', w) ELSE flat[w]
  BY DEF Refreshed, LiveSets
<1>2. ASSUME NEW w \in DOMAIN tab.ws PROVE FlatFor(flat'[w], tab'.ws[w].mapped)
  <2>1. CASE w \in S
    <3>1. FlatFor(Flatten(tab', w), tab'.ws[w].mapped)
      BY FlattenTyped DEF SameLens
    <3> QED BY <3>1, <2>1, <1>1
  <2>2. CASE w \notin S
    BY <1>1, <2>2 DEF InvFlat, SameLens, FlatFor
  <2> QED BY <2>1, <2>2
<1> QED BY <1>1, <1>2 DEF InvFlat, FlatFor, SameLens

(* Flat tables left alone still fit sets whose length did not change.       *)
LEMMA FlatStays ==
  ASSUME InvFlat, SameLens(tab, tab', {}), flat' = flat
  PROVE  InvFlat'
BY DEF InvFlat, SameLens

(* Fires stay with their sets.                                              *)
LEMMA FiresStay ==
  ASSUME InvFires, fires' = fires, DOMAIN tab'.ws = DOMAIN tab.ws
  PROVE  InvFires'
BY DEF InvFires, IsFire

(* Numbers handed out stay ahead of the sets, fires and moves.              *)
LEMMA UsedStays ==
  ASSUME InvUsed, used' = used, DOMAIN tab'.ws = DOMAIN tab.ws, DOMAIN fires' \subseteq DOMAIN fires,
         DOMAIN moves' \subseteq DOMAIN moves
  PROVE  InvUsed'
BY DEF InvUsed

(* The pools left alone.                                                    *)
LEMMA PoolStays ==
  ASSUME InvPool, UNCHANGED <<pool, slots, epochs>>
  PROVE  InvPool'
BY DEF InvPool, pool, epochs

(* Token logs left alone.                                                   *)
LEMMA LogsStay ==
  ASSUME InvLogs, DOMAIN tab'.ws \subseteq DOMAIN tab.ws,
         \A w \in DOMAIN tab'.ws : tab'.ws[w].logged = tab.ws[w].logged /\ tab'.ws[w].cuts = tab.ws[w].cuts
  PROVE  InvLogs'
BY DEF InvLogs, IsLog

(* One set's log replaced or added.                                         *)
LEMMA LogAdded ==
  ASSUME InvLogs, NEW c, IsLog(tab'.ws[c]), DOMAIN tab'.ws \subseteq DOMAIN tab.ws \cup {c},
         \A w \in DOMAIN tab.ws : w # c => tab'.ws[w] = tab.ws[w]
  PROVE  InvLogs'
BY DEF InvLogs, IsLog

(* What is known of a set's tokens.                                         *)
LEMMA KnownTokens ==
  ASSUME NEW e, IsLog(e)
  PROVE  Known(e) \in Seq(Tokens) /\ Len(Known(e)) \in Nat
<1> DEFINE S == {Len(e.logged)} \cup {c[2] : c \in e.cuts}
<1>1. S \in SUBSET Nat /\ S # {} /\ Len(e.logged) \in S
  BY DEF IsLog
<1> HIDE DEF S
<1>2. Min(S) \in S /\ Min(S) <= Len(e.logged)
  BY <1>1, FirstPosition
<1>a. e.logged \in Seq(Tokens) /\ Len(e.logged) \in Nat
  BY DEF IsLog
<1>3. Min(S) \in 0..Len(e.logged)
  <2> DEFINE m == Min(S)
             n == Len(e.logged)
  <2>1. m \in Nat /\ m <= n /\ n \in Nat
    BY <1>1, <1>2, <1>a
  <2> HIDE DEF m, n
  <2>2. m \in 0..n
    BY <2>1
  <2> QED BY <2>2 DEF m, n
<1>4. Known(e) = SubSeq(e.logged, 1, Min(S))
  BY DEF Known, S
<1> QED BY <1>3, <1>4, <1>a

(* create_working_set                                                       *)
LEMMA SetsNumbered ==
  ASSUME InvUsed, Number("sets", MaxSets)
  PROVE  /\ used.sets + 1 \in Nat /\ used.sets + 1 \notin DOMAIN tab.ws
         /\ used' \in [sets : Nat, fires : Nat, moves : Nat]
         /\ used'.sets = used.sets + 1 /\ used'.fires = used.fires /\ used'.moves = used.moves
         /\ DOMAIN tab.ws \cup {used.sets + 1} \subseteq 1..used'.sets
<1>1. used \in [sets : Nat, fires : Nat, moves : Nat] /\ DOMAIN tab.ws \subseteq 1..used.sets
  BY DEF InvUsed
<1>2. used' = [used EXCEPT !["sets"] = used["sets"] + 1]
  BY DEF Number
<1>3. used["sets"] = used.sets
  OBVIOUS
<1> QED BY <1>1, <1>2, <1>3

(* Create keeps the structure.                                              *)
LEMMA CreateStruct ==
  ASSUME Struct, Create
  PROVE  Struct'
<1> DEFINE w == used.sets + 1
<1> USE DEF Struct
<1>1. Sound(tab) /\ Placed(tab)
  BY DEF InvTable
<1>2. /\ w \in Nat /\ w \notin DOMAIN tab.ws
      /\ used' \in [sets : Nat, fires : Nat, moves : Nat]
      /\ used'.sets = used.sets + 1 /\ used'.fires = used.fires /\ used'.moves = used.moves
      /\ DOMAIN tab.ws \cup {w} \subseteq 1..used'.sets
  BY SetsNumbered DEF Create
<1>3. /\ tab' = WithNewSet(tab, w, EmptySet(w)) /\ flat' = Put(flat, w, <<>>)
      /\ UNCHANGED <<pool, slots, cache, epochs, fires, moves, away>>
  BY DEF Create, WithNewSet
<1> HIDE DEF w
<1>4. IsSet(EmptySet(w)) /\ EmptySet(w).terminal = NoNode /\ EmptySet(w).mapped = 0
  BY <1>2 DEF EmptySet, IsSet, NoNode
<1>5. Entered(tab, w, EmptySet(w), tab')
  BY <1>1, <1>2, <1>3, <1>4, EntersEmpty
<1>6. /\ Sound(tab') /\ Alike(tab, tab') /\ tab'.roots = tab.roots /\ tab'.pins = tab.pins
      /\ DOMAIN tab'.ws = DOMAIN tab.ws \cup {w} /\ tab'.ws[w].mapped = 0
      /\ \A x \in DOMAIN tab.ws : tab'.ws[x] = tab.ws[x]
  BY <1>4, <1>5 DEF Entered
<1>7. InvTable'
  BY <1>1, <1>6, AlikePlaced DEF InvTable
<1>8. InvPool'
  BY <1>3, PoolStays
<1>9. InvUsed'
  BY <1>2, <1>3, <1>6 DEF InvUsed
<1>10. InvFlat'
  <2>1. DOMAIN flat' = DOMAIN tab'.ws /\ flat'[w] = <<>> /\ \A x \in DOMAIN flat : x # w => flat'[x] = flat[x]
    BY <1>3, <1>6 DEF Put, InvFlat
  <2>2. <<>> \in [1..0 -> DevicePages]
    OBVIOUS
  <2>3. DOMAIN flat = DOMAIN tab.ws /\ \A x \in DOMAIN flat : FlatFor(flat[x], tab.ws[x].mapped)
    BY DEF InvFlat, FlatFor
  <2>4. \A x \in DOMAIN flat' : FlatFor(flat'[x], tab'.ws[x].mapped)
    <3>1. FlatFor(flat'[w], tab'.ws[w].mapped)
      BY <2>1, <2>2, <1>6 DEF FlatFor
    <3> QED BY <3>1, <2>1, <2>3, <1>6
  <2> QED BY <2>1, <2>4 DEF InvFlat, FlatFor
<1>11. RootsExact(tab, cache)'
  BY <1>3, <1>6 DEF RootsExact
<1>12. InvMoves'
  <2>1. PinsExact(tab', moves)
    BY <1>6, HoldersSame DEF InvMoves
  <2> QED BY <2>1, <1>3 DEF InvMoves, IsMove
<1>13. InvFires'
  BY <1>3, <1>6 DEF InvFires, IsFire
<1>14. InvLogs'
  <2>1. IsLog(tab'.ws[w])
    BY <1>4, <1>5 DEF Entered, EmptySet, IsLog
  <2> QED BY <1>6, <2>1, LogAdded
<1> QED BY <1>7, <1>8, <1>9, <1>10, <1>11, <1>12, <1>13, <1>14

(* fork                                                                     *)
LEMMA ForkStruct ==
  ASSUME Struct, NEW w \in LiveSets, Fork(w)
  PROVE  Struct'
<1> DEFINE c == used.sets + 1
           e == tab.ws[w]
           child == [e EXCEPT !.logged = Known(e), !.cuts = {}, !.suspended = FALSE]
<1> USE DEF Struct
<1>1. Sound(tab) /\ Placed(tab) /\ w \in DOMAIN tab.ws
  BY DEF InvTable, LiveSets
<1>2. /\ c \in Nat /\ c \notin DOMAIN tab.ws
      /\ used' \in [sets : Nat, fires : Nat, moves : Nat]
      /\ used'.sets = used.sets + 1 /\ used'.fires = used.fires /\ used'.moves = used.moves
      /\ DOMAIN tab.ws \cup {c} \subseteq 1..used'.sets
  BY SetsNumbered DEF Fork
<1>3. /\ tab' = AddAnchors(WithNewSet(tab, c, child), {e.terminal} \ {NoNode})
      /\ flat' = Put(flat, c, Flatten(tab', c))
      /\ UNCHANGED <<pool, slots, cache, epochs, fires, moves, away>>
  BY DEF Fork, WithNewSet
<1>b. IsLog(child)
  <2>1. IsSet(e) /\ IsLog(e)
    BY <1>1 DEF Sound, IsSets, InvLogs
  <2>2. Known(e) \in Seq(Tokens)
    BY <2>1, KnownTokens
  <2> QED BY <2>1, <2>2 DEF IsSet, IsLog
<1>4. IsSet(child) /\ child.terminal = e.terminal /\ child.mapped = e.mapped
  <2>1. IsSet(e)
    BY <1>1 DEF Sound, IsSets
  <2> QED BY <2>1 DEF IsSet
<1>5. e.terminal \in DOMAIN tab.nodes \cup {NoNode} /\ e.mapped = Len(Locations(tab, e.terminal))
  BY <1>1, WsLocationsAll
<1> HIDE DEF c, child, e
<1>6. Entered(tab, c, child, tab')
  BY <1>1, <1>2, <1>3, <1>4, <1>5, EntersSet
<1>7. /\ Sound(tab') /\ Alike(tab, tab') /\ tab'.roots = tab.roots /\ tab'.pins = tab.pins
      /\ DOMAIN tab'.ws = DOMAIN tab.ws \cup {c}
      /\ \A x \in DOMAIN tab.ws : tab'.ws[x] = tab.ws[x]
  BY <1>6 DEF Entered
<1>8. Placed(tab')
  BY <1>1, <1>7, AlikePlaced
<1>9. InvTable'
  BY <1>7, <1>8 DEF InvTable
<1>10. InvPool'
  BY <1>3, PoolStays
<1>11. InvUsed'
  BY <1>2, <1>3, <1>7 DEF InvUsed
<1>12. InvFlat'
  <2>1. DOMAIN flat' = DOMAIN tab'.ws /\ flat'[c] = Flatten(tab', c) /\ \A x \in DOMAIN flat : x # c => flat'[x] = flat[x]
    BY <1>3, <1>7 DEF Put, InvFlat
  <2>2. FlatFor(Flatten(tab', c), tab'.ws[c].mapped)
    BY <1>7, <1>8, FlattenTyped
  <2> QED BY <2>1, <2>2, <1>2, <1>7 DEF InvFlat, FlatFor
<1>13. RootsExact(tab, cache)'
  BY <1>3, <1>7 DEF RootsExact
<1>14. InvMoves'
  <2>1. PinsExact(tab', moves)
    BY <1>7, HoldersSame DEF InvMoves
  <2> QED BY <2>1, <1>3 DEF InvMoves, IsMove
<1>15. InvFires'
  BY <1>3, <1>7 DEF InvFires, IsFire
<1>16. InvLogs'
  <2>1. IsLog(tab'.ws[c])
    BY <1>6, <1>b DEF Entered
  <2> QED BY <1>7, <2>1, LogAdded
<1> QED BY <1>9, <1>10, <1>11, <1>12, <1>13, <1>14, <1>15, <1>16

(* Nothing changed but what a set says of itself, or the keys of pages.     *)
Tended(t, u) ==
  /\ Sound(u) /\ ReadAlike(t, u) /\ \A l \in LiveLocations(t) : Page(u, l).at = Page(t, l).at
  /\ DOMAIN u.ws = DOMAIN t.ws
  /\ \A w \in DOMAIN t.ws : /\ u.ws[w].terminal = t.ws[w].terminal /\ u.ws[w].mapped = t.ws[w].mapped
                            /\ u.ws[w].owner = t.ws[w].owner /\ u.ws[w].suspended = t.ws[w].suspended
  /\ u.roots = t.roots /\ u.pins = t.pins /\ u.swaps = t.swaps

(* Tending twice is tending.                                                *)
LEMMA TendedOn ==
  ASSUME NEW t, NEW u, NEW v, Tended(t, u), Tended(u, v)
  PROVE  Tended(t, v)
BY DEF Tended, ReadAlike

(* Sealing is tending.                                                      *)
LEMMA TendedKeys ==
  ASSUME NEW t, NEW u, Rekeyed(t, u)
  PROVE  Tended(t, u)
BY DEF Tended, Rekeyed, SameRest

(* So is editing records without moving a terminal.                         *)
LEMMA TendedEdit ==
  ASSUME NEW t, Sound(t), NEW u, Edited(t, u),
         \A w \in DOMAIN t.ws : u.ws[w].owner = t.ws[w].owner /\ u.ws[w].suspended = t.ws[w].suspended
  PROVE  Tended(t, u)
<1>1. Sound(u) /\ Alike(t, u)
  BY EditsSound
<1> QED BY <1>1 DEF Edited, Alike, Tended, ReadAlike

(* So is replacing one record.                                              *)
LEMMA TendedSet ==
  ASSUME NEW t, Sound(t), NEW w \in DOMAIN t.ws, NEW e, IsSet(e), e.terminal = t.ws[w].terminal,
         e.mapped = t.ws[w].mapped, e.owner = t.ws[w].owner, e.suspended = t.ws[w].suspended
  PROVE  Tended(t, WithSet(t, w, e)) /\ WithSet(t, w, e).ws[w] = e
<1>1. IsTable(t) /\ IsSets(t)
  BY SoundFacts
<1> DEFINE u == WithSet(t, w, e)
<1>2. Replaced(t, u, w, e)
  BY <1>1, SetPut
<1> HIDE DEF u
<1>3. Edited(t, u)
  BY <1>2 DEF Replaced, Edited
<1>4. \A x \in DOMAIN t.ws : u.ws[x].owner = t.ws[x].owner /\ u.ws[x].suspended = t.ws[x].suspended
  BY <1>2 DEF Replaced
<1>5. Tended(t, u)
  BY <1>3, <1>4, TendedEdit
<1> QED BY <1>2, <1>5 DEF u, Replaced

(* The parts of the structure that tending the table keeps.                 *)
LEMMA TendedParts ==
  ASSUME Struct, Tended(tab, tab'), UNCHANGED <<flat, cache, moves>>
  PROVE  InvTable' /\ InvFlat' /\ RootsExact(tab, cache)' /\ InvMoves' /\ DOMAIN tab'.ws = DOMAIN tab.ws
<1> USE DEF Struct
<1>1. /\ Sound(tab') /\ ReadAlike(tab, tab') /\ \A l \in LiveLocations(tab) : Page(tab', l).at = Page(tab, l).at
      /\ DOMAIN tab'.ws = DOMAIN tab.ws /\ tab'.roots = tab.roots /\ tab'.pins = tab.pins
      /\ SameLens(tab, tab', {})
  BY DEF Tended, SameLens
<1>2. Placed(tab')
  BY <1>1 DEF InvTable, ReadAlike, Placed
<1>3. InvFlat'
  BY <1>1, FlatStays
<1>4. PinsExact(tab', moves)
  BY <1>1, HoldersSame DEF InvMoves
<1>5. InvMoves'
  BY <1>4 DEF InvMoves, IsMove
<1>6. RootsExact(tab, cache)'
  BY <1>1 DEF RootsExact
<1> QED BY <1>1, <1>2, <1>3, <1>5, <1>6 DEF InvTable

(* Those that a step beside the table keeps.                                *)
LEMMA TabStays ==
  ASSUME Struct, UNCHANGED <<tab, flat, cache, moves>>
  PROVE  InvTable' /\ InvLogs' /\ InvFlat' /\ RootsExact(tab, cache)' /\ InvMoves' /\ DOMAIN tab'.ws = DOMAIN tab.ws
BY DEF Struct, InvTable, InvLogs, IsLog, InvFlat, RootsExact, InvMoves, IsMove, PinsExact

(* Fires taken out, or changed one at a time.                               *)
LEMMA FireGone ==
  ASSUME InvFires, NEW f, fires' = Without(fires, {f}), DOMAIN tab'.ws = DOMAIN tab.ws
  PROVE  InvFires' /\ DOMAIN fires' \subseteq DOMAIN fires
BY DEF InvFires, IsFire, Without

(* A fire replaced by one of the right type.                                *)
LEMMA FireReplaced ==
  ASSUME InvFires, NEW f \in DOMAIN fires, NEW g, fires' = [fires EXCEPT ![f] = g], IsFire(g),
         g.phase # "lost" => g.ws \in DOMAIN tab.ws, DOMAIN tab'.ws = DOMAIN tab.ws
  PROVE  InvFires' /\ DOMAIN fires' \subseteq DOMAIN fires
BY DEF InvFires, IsFire

(* kv_demand                                                                *)
LEMMA PagesCounted ==
  ASSUME NEW n \in Nat
  PROVE  PageAt(n) \in Nat /\ PagesUpTo(n) \in Nat
<1>1. PageSize \in Nat /\ PageSize > 0
  BY KvAssumption
<1>2. n + PageSize - 1 \in Nat
  BY <1>1
<1>3. \A a, d \in Nat : d > 0 => a \div d \in Nat
  OBVIOUS
<1> QED BY <1>1, <1>2, <1>3 DEF PageAt, PagesUpTo

(* A fire's demand covers the pages it copies.                              *)
LEMMA DemandCounted ==
  ASSUME NEW t, Sound(t), NEW w \in DOMAIN t.ws, NEW start \in Nat, NEW end \in Nat
  PROVE  /\ CopyFrom(t, w, start, end) \in 1..(t.ws[w].mapped + 1)
         /\ Demand(t, w, start, end) \in Nat
         /\ t.ws[w].mapped + 1 - CopyFrom(t, w, start, end) <= Demand(t, w, start, end)
<1> DEFINE locs == WsLocations(t, w)
           n == t.ws[w].mapped
           S == {n + 1} \cup {i \in (PageAt(start) + 1)..Min({PagesUpTo(end), n}) : PageReaders(t, locs[i]) # 1}
           c == CopyFrom(t, w, start, end)
           M == Max({0, PagesUpTo(end) - n})
<1>1. n \in Nat /\ Len(locs) = n
  BY WsLocationsAll
<1>2. PageAt(start) \in Nat /\ PagesUpTo(end) \in Nat
  BY PagesCounted
<1>3. c = Min(S)
  BY <1>1 DEF CopyFrom, FirstShared
<1>4. S \in SUBSET Nat /\ S # {} /\ n + 1 \in S /\ \A i \in S : i >= 1
  BY <1>1, <1>2
<1> HIDE DEF S, c
<1>5. c \in S /\ c <= n + 1
  BY <1>3, <1>4, FirstPosition
<1>6. c \in 1..(n + 1)
  BY <1>1, <1>4, <1>5
<1>7. M \in Nat
  <2> DEFINE k == PagesUpTo(end) - n
  <2>1. k \in Int
    BY <1>1, <1>2
  <2> HIDE DEF k
  <2>2. Max({0, k}) = IF k > 0 THEN k ELSE 0
    <3>1. CASE k > 0
      <4>1. \A x \in {0, k} : (\A y \in {0, k} : x >= y) <=> x = k
        BY <2>1, <3>1
      <4> QED BY <4>1, <3>1 DEF Max
    <3>2. CASE ~(k > 0)
      <4>1. \A x \in {0, k} : (\A y \in {0, k} : x >= y) <=> x = 0
        BY <2>1, <3>2
      <4> QED BY <4>1, <3>2 DEF Max
    <3> QED BY <3>1, <3>2
  <2> QED BY <2>1, <2>2 DEF k
<1>8. Demand(t, w, start, end) = (n + 1 - c) + M
  BY DEF Demand, c
<1> HIDE DEF M
<1>9. Demand(t, w, start, end) \in Nat /\ n + 1 - c <= Demand(t, w, start, end)
  BY <1>1, <1>6, <1>7, <1>8
<1> QED BY <1>6, <1>9 DEF c

(* What the structure says of one set.                                      *)
LEMMA SetFacts ==
  ASSUME Struct, NEW w \in DOMAIN tab.ws
  PROVE  /\ w \in Nat /\ w # 0 /\ IsSet(tab.ws[w]) /\ Sound(tab) /\ Placed(tab)
         /\ Starts(tab.ws[w]) \subseteq Nat
<1>1. Sound(tab) /\ Placed(tab) /\ IsSet(tab.ws[w])
  BY DEF Struct, InvTable, Sound, IsSets
<1>2. w \in Nat /\ w # 0
  BY DEF Struct, InvUsed
<1>3. Starts(tab.ws[w]) \subseteq Nat
  <2>1. tab.ws[w].folded \in Nat /\ tab.ws[w].tail \in Nat
    BY <1>1 DEF IsSet
  <2> QED BY <2>1 DEF Starts
<1> QED BY <1>1, <1>2, <1>3

(* The token lists a run offers.                                            *)
LEMMA TokensLen ==
  ASSUME NEW lens \in SUBSET Nat, NEW toks \in TokenSeqs(lens)
  PROVE  Len(toks) \in lens /\ toks \in Seq(Tokens)
<1> PICK n \in lens : toks \in [1..n -> Tokens]
  BY DEF TokenSeqs
<1> QED OBVIOUS

(* Quote keeps the structure.                                               *)
LEMMA QuoteStruct ==
  ASSUME Struct, NEW w \in LiveSets, NEW start \in Starts(tab.ws[w]), NEW toks \in Seq(Tokens),
         Quote(w, start, toks)
  PROVE  Struct'
<1> DEFINE k == used.fires + 1
           g == [ws |-> w, start |-> start, toks |-> toks, grant |-> free \ free',
                 phase |-> "granted", seq |-> 0, copies |-> {}, pages |-> <<>>]
<1> USE DEF Struct
<1>1. w \in DOMAIN tab.ws /\ w \in Nat /\ start \in Nat
  BY SetFacts DEF LiveSets
<1>2. /\ free' \subseteq free /\ fires' = Put(fires, k, g) /\ Number("fires", MaxFires)
      /\ UNCHANGED <<tab, pending, slots, flat, cache, epochs, moves, away>>
  BY DEF Quote
<1>3. IsFire(g) /\ g.ws = w
  <2>1. free \ free' \subseteq DevicePages
    BY DEF InvPool
  <2> QED BY <1>1, <2>1 DEF IsFire
<1> HIDE DEF g
<1>4. /\ used' \in [sets : Nat, fires : Nat, moves : Nat] /\ k \in Nat /\ k \notin DOMAIN fires
      /\ used'.sets = used.sets /\ used'.fires = k /\ used'.moves = used.moves
      /\ DOMAIN fires \cup {k} \subseteq 1..used'.fires
  <2>1. used \in [sets : Nat, fires : Nat, moves : Nat] /\ DOMAIN fires \subseteq 1..used.fires
    BY DEF InvUsed
  <2>2. used' = [used EXCEPT !["fires"] = used["fires"] + 1] /\ used["fires"] = used.fires
    BY <1>2 DEF Number
  <2> QED BY <2>1, <2>2
<1> HIDE DEF k
<1>5. InvTable' /\ InvLogs' /\ InvFlat' /\ RootsExact(tab, cache)' /\ InvMoves'
  BY <1>2, TabStays
<1>6. InvPool'
  BY <1>2 DEF InvPool, epochs
<1>7. DOMAIN fires' = DOMAIN fires \cup {k} /\ fires'[k] = g /\ \A f \in DOMAIN fires : f # k => fires'[f] = fires[f]
  BY <1>2 DEF Put
<1>8. InvUsed'
  BY <1>2, <1>4, <1>7 DEF InvUsed
<1>9. InvFires'
  BY <1>1, <1>2, <1>3, <1>4, <1>7 DEF InvFires, IsFire
<1> QED BY <1>5, <1>6, <1>8, <1>9

(* FireGivesUp keeps the structure.                                         *)
LEMMA FireGivesUpStruct ==
  ASSUME Struct, NEW f \in DOMAIN fires, FireGivesUp(f)
  PROVE  Struct'
<1> USE DEF Struct
<1>1. /\ free' = free \cup fires[f].grant /\ fires' = Without(fires, {f})
      /\ UNCHANGED <<tab, pending, slots, flat, cache, epochs, moves, away, used>>
  BY DEF FireGivesUp
<1>2. InvTable' /\ InvLogs' /\ InvFlat' /\ RootsExact(tab, cache)' /\ InvMoves'
  BY <1>1, TabStays
<1>3. InvFires' /\ DOMAIN fires' \subseteq DOMAIN fires
  BY <1>1, FireGone
<1>4. InvPool'
  <2>1. fires[f].grant \subseteq DevicePages
    BY DEF InvFires, IsFire
  <2> QED BY <1>1, <2>1 DEF InvPool, epochs
<1>5. InvUsed'
  BY <1>1, <1>3, UsedStays
<1> QED BY <1>2, <1>3, <1>4, <1>5

(* FireRefused keeps the structure.                                         *)
LEMMA FireRefusedStruct ==
  ASSUME Struct, NEW f \in DOMAIN fires, FireRefused(f)
  PROVE  Struct'
<1> USE DEF Struct
<1>1. /\ Settle(fires[f].seq, fires[f].grant) /\ fires' = Without(fires, {f})
      /\ UNCHANGED <<tab, slots, flat, cache, moves, away, used>>
  BY DEF FireRefused
<1>2. InvTable' /\ InvLogs' /\ InvFlat' /\ RootsExact(tab, cache)' /\ InvMoves'
  BY <1>1, TabStays
<1>3. InvFires' /\ DOMAIN fires' \subseteq DOMAIN fires
  BY <1>1, FireGone
<1>4. InvPool'
  <2>1. fires[f].grant \subseteq DevicePages
    BY DEF InvFires, IsFire
  <2> QED BY <1>1, <2>1, SettlesTyped
<1>5. InvUsed'
  BY <1>1, <1>3, UsedStays
<1> QED BY <1>2, <1>3, <1>4, <1>5

(* What the structure says of one fire.                                     *)
LEMMA FireFacts ==
  ASSUME Struct, NEW f \in DOMAIN fires, fires[f].phase # "lost"
  PROVE  /\ IsFire(fires[f]) /\ fires[f].ws \in DOMAIN tab.ws /\ fires[f].start \in Nat
         /\ fires[f].toks \in Seq(Tokens) /\ End(f) \in Nat /\ f \in Nat /\ fires[f].grant \subseteq DevicePages
<1>1. IsFire(fires[f]) /\ fires[f].ws \in DOMAIN tab.ws
  BY DEF Struct, InvFires
<1>a. f \in Nat
  BY DEF Struct, InvUsed
<1>2. fires[f].start \in Nat /\ fires[f].toks \in Seq(Tokens) /\ fires[f].grant \subseteq DevicePages
  BY <1>1 DEF IsFire
<1> QED BY <1>1, <1>2, <1>a DEF End

(* A record with a log replaces another.                                    *)
LEMMA SetLogged ==
  ASSUME InvLogs, Sound(tab), NEW w \in DOMAIN tab.ws, NEW e, IsSet(e), IsLog(e), tab' = WithSet(tab, w, e)
  PROVE  InvLogs'
<1>1. Replaced(tab, tab', w, e)
  BY SoundFacts, SetPut
<1> QED BY <1>1, LogAdded DEF Replaced

(* FireSubmit keeps the structure.                                          *)
LEMMA FireSubmitStruct ==
  ASSUME Struct, NEW f \in DOMAIN fires, FireSubmit(f)
  PROVE  Struct' /\ Tended(tab, tab')
<1> DEFINE w == fires[f].ws
           e == [tab.ws[w] EXCEPT !.cuts = @ \cup {<<f, fires[f].start>>}, !.tail = End(f)]
           g == [fires[f] EXCEPT !.phase = "queued", !.pages = flat[w], !.grant = {}]
<1> USE DEF Struct
<1>1. fires[f].phase = "prepared"
  BY DEF FireSubmit
<1>2. /\ IsFire(fires[f]) /\ w \in DOMAIN tab.ws /\ End(f) \in Nat /\ fires[f].grant \subseteq DevicePages
      /\ f \in Nat /\ fires[f].start \in Nat
  BY <1>1, FireFacts
<1>3. Sound(tab) /\ IsSet(tab.ws[w])
  BY <1>2, SetFacts
<1>4. /\ tab' = WithSet(tab, w, e) /\ fires' = [fires EXCEPT ![f] = g] /\ free' = free \cup fires[f].grant
      /\ UNCHANGED <<pending, slots, flat, cache, epochs, moves, away, used>>
  <2>1. tab' = [tab EXCEPT !.ws[w].cuts = @ \cup {<<f, fires[f].start>>}, !.ws[w].tail = End(f)]
    BY DEF FireSubmit
  <2>2. tab' = WithSet(tab, w, e)
    <3>1. IsTable(tab) /\ tab.ws = [x \in DOMAIN tab.ws |-> tab.ws[x]]
      BY <1>3, SoundFacts DEF IsSets
    <3> QED BY <2>1, <3>1, <1>2 DEF WithSet, IsTable
  <2> QED BY <2>2 DEF FireSubmit
<1>b. IsLog(e)
  BY <1>2, <1>3 DEF IsLog, InvLogs, IsSet
<1>5. /\ IsSet(e) /\ e.terminal = tab.ws[w].terminal /\ e.mapped = tab.ws[w].mapped /\ e.owner = tab.ws[w].owner
      /\ e.suspended = tab.ws[w].suspended
  BY <1>2, <1>3 DEF IsSet
<1>6. IsFire(g) /\ g.ws = w
  BY <1>2 DEF IsFire
<1> HIDE DEF e, g
<1>7. Tended(tab, tab')
  BY <1>2, <1>3, <1>4, <1>5, TendedSet
<1>8. InvTable' /\ InvFlat' /\ RootsExact(tab, cache)' /\ InvMoves' /\ DOMAIN tab'.ws = DOMAIN tab.ws
  BY <1>4, <1>7, TendedParts
<1>9. InvFires' /\ DOMAIN fires' \subseteq DOMAIN fires
  BY <1>2, <1>4, <1>6, <1>8, FireReplaced
<1>10. InvPool'
  BY <1>2, <1>4 DEF InvPool, epochs
<1>11. InvUsed'
  BY <1>4, <1>8, <1>9, UsedStays
<1>12. InvLogs'
  BY <1>2, <1>3, <1>4, <1>5, <1>b, SetLogged
<1> QED BY <1>7, <1>8, <1>9, <1>10, <1>11, <1>12

(* Marking a process's sets failed only tends the table.                    *)
LEMMA FailingTended ==
  ASSUME NEW t, Sound(t), NEW p, NEW broken \in BOOLEAN
  PROVE  Tended(t, Failing(t, p, broken))
<1> DEFINE u == Failing(t, p, broken)
<1>1. IsTable(t) /\ IsSets(t)
  BY SoundFacts
<1> DEFINE ws == [w \in DOMAIN t.ws |->
                  IF t.ws[w].owner = p THEN Failed(t.ws[w], broken) ELSE t.ws[w]]
<1>a. u = [t EXCEPT !.ws = ws]
  BY DEF Failing
<1>b. \A x : [t EXCEPT !.ws = x].ws = x
  BY <1>1 DEF IsTable
<1>c. u.ws = ws
  BY <1>a, <1>b
<1>2. u = [t EXCEPT !.ws = u.ws] /\ u.ws = ws
  BY <1>a, <1>c
<1> HIDE DEF u
<1>3. SameNodes(t, u) /\ u.roots = t.roots /\ u.pins = t.pins /\ u.swaps = t.swaps
  BY <1>1, <1>2 DEF SameNodes, IsTable
<1>4. ASSUME NEW w \in DOMAIN t.ws
      PROVE  /\ IsSet(u.ws[w]) /\ u.ws[w].terminal = t.ws[w].terminal /\ u.ws[w].mapped = t.ws[w].mapped
             /\ u.ws[w].owner = t.ws[w].owner /\ u.ws[w].suspended = t.ws[w].suspended
  <2>1. IsSet(t.ws[w])
    BY <1>1 DEF IsSets
  <2>2. u.ws[w] = t.ws[w] \/ u.ws[w] = Failed(t.ws[w], broken)
    BY <1>2
  <2> QED BY <2>1, <2>2 DEF IsSet, Failed
<1>5. DOMAIN u.ws = DOMAIN t.ws /\ u.ws = [w \in DOMAIN u.ws |-> u.ws[w]]
  BY <1>2
<1>6. Edited(t, u)
  BY <1>3, <1>4, <1>5 DEF Edited, IsSets
<1>7. Tended(t, u)
  BY <1>4, <1>6, TendedEdit
<1> QED BY <1>7 DEF u

(* And keeps its logs.                                                      *)
LEMMA FailingLogged ==
  ASSUME NEW t, Sound(t), NEW p, NEW broken \in BOOLEAN, \A w \in DOMAIN t.ws : IsLog(t.ws[w])
  PROVE  \A w \in DOMAIN Failing(t, p, broken).ws : IsLog(Failing(t, p, broken).ws[w])
<1> DEFINE ws == [w \in DOMAIN t.ws |-> IF t.ws[w].owner = p THEN Failed(t.ws[w], broken) ELSE t.ws[w]]
<1>1. Failing(t, p, broken) = [t EXCEPT !.ws = ws]
  BY DEF Failing
<1>2. \A x : [t EXCEPT !.ws = x].ws = x
  BY SoundFacts DEF IsTable
<1>3. Failing(t, p, broken).ws = ws
  BY <1>1, <1>2
<1>4. \A w \in DOMAIN t.ws : IsSet(t.ws[w]) /\ IsLog(Failed(t.ws[w], broken))
  <2>1. \A w \in DOMAIN t.ws : IsSet(t.ws[w])
    BY SoundFacts DEF IsSets
  <2> QED BY <2>1 DEF IsSet, IsLog, Failed
<1> QED BY <1>3, <1>4

(* FireLost keeps the structure.                                            *)
LEMMA FireLostStruct ==
  ASSUME Struct, NEW f \in DOMAIN fires, NEW broken \in BOOLEAN, FireLost(f, broken)
  PROVE  Struct' /\ Tended(tab, tab')
<1> DEFINE w == fires[f].ws
           e == [tab.ws[w] EXCEPT !.cuts = @ \cup {<<f, fires[f].start>>}]
           g == [fires[f] EXCEPT !.phase = "lost", !.grant = {}]
           t == WithSet(tab, w, e)
<1> USE DEF Struct
<1>1. fires[f].phase = "prepared"
  BY DEF FireLost
<1>2. /\ IsFire(fires[f]) /\ w \in DOMAIN tab.ws /\ fires[f].grant \subseteq DevicePages
      /\ f \in Nat /\ fires[f].start \in Nat
  BY <1>1, FireFacts
<1>3. Sound(tab) /\ IsSet(tab.ws[w])
  BY <1>2, SetFacts
<1>4. /\ tab' = Failing(t, tab.ws[w].owner, broken) /\ free' = free \cup fires[f].grant
      /\ fires' = Without(fires, {f}) \/ fires' = [fires EXCEPT ![f] = g]
      /\ UNCHANGED <<pending, slots, flat, cache, epochs, moves, away, used>>
  <2>1. [tab EXCEPT !.ws[w].cuts = @ \cup {<<f, fires[f].start>>}] = t
    <3>1. IsTable(tab) /\ tab.ws = [x \in DOMAIN tab.ws |-> tab.ws[x]]
      BY <1>3, SoundFacts DEF IsSets
    <3> QED BY <3>1, <1>2 DEF WithSet, IsTable
  <2>2. fires' = Without(fires, {f}) \/ fires' = [fires EXCEPT ![f] = g]
    BY DEF FireLost
  <2>3. tab' = Failing(t, tab.ws[w].owner, broken)
    BY <2>1 DEF FireLost
  <2> QED BY <2>2, <2>3 DEF FireLost
<1>b. IsLog(e)
  BY <1>2, <1>3 DEF IsLog, InvLogs, IsSet
<1>5. /\ IsSet(e) /\ e.terminal = tab.ws[w].terminal /\ e.mapped = tab.ws[w].mapped /\ e.owner = tab.ws[w].owner
      /\ e.suspended = tab.ws[w].suspended
  BY <1>2, <1>3 DEF IsSet
<1>6. IsFire(g) /\ g.phase = "lost"
  BY <1>2 DEF IsFire
<1> HIDE DEF e, g
<1>7. Tended(tab, t)
  BY <1>2, <1>3, <1>5, TendedSet
<1>c. \A x \in DOMAIN t.ws : IsLog(t.ws[x])
  <2>1. Replaced(tab, t, w, e)
    BY <1>2, <1>3, <1>5, SoundFacts, SetPut
  <2> QED BY <2>1, <1>b DEF Replaced, InvLogs
<1> HIDE DEF t
<1>8. Tended(t, tab')
  <2>1. Sound(t)
    BY <1>7 DEF Tended
  <2> QED BY <2>1, <1>4, FailingTended
<1>9. Tended(tab, tab')
  BY <1>7, <1>8, TendedOn
<1>10. InvTable' /\ InvFlat' /\ RootsExact(tab, cache)' /\ InvMoves' /\ DOMAIN tab'.ws = DOMAIN tab.ws
  BY <1>4, <1>9, TendedParts
<1>11. InvFires' /\ DOMAIN fires' \subseteq DOMAIN fires
  BY <1>4, <1>6, <1>10, FireReplaced, FireGone
<1>12. InvPool'
  BY <1>2, <1>4 DEF InvPool, epochs
<1>13. InvUsed'
  BY <1>4, <1>10, <1>11, UsedStays
<1>14. InvLogs'
  <2>1. Sound(t)
    BY <1>7 DEF Tended
  <2> QED BY <2>1, <1>c, <1>4, FailingLogged DEF InvLogs
<1> QED BY <1>9, <1>10, <1>11, <1>12, <1>13, <1>14

(* The larger of two numbers.                                               *)
LEMMA LargerOf ==
  ASSUME NEW a \in Nat, NEW b \in Nat
  PROVE  Max({a, b}) \in Nat /\ a <= Max({a, b}) /\ b <= Max({a, b}) /\ Max({a, b}) \in {a, b}
<1>1. CASE a >= b
  <2>1. \E x \in {a, b} : \A y \in {a, b} : x >= y
    BY <1>1
  <2> QED BY <2>1 DEF Max
<1>2. CASE ~(a >= b)
  <2>1. \E x \in {a, b} : \A y \in {a, b} : x >= y
    BY <1>2
  <2> QED BY <2>1 DEF Max
<1> QED BY <1>1, <1>2

(* The smaller of two numbers.                                              *)
LEMMA SmallerOf ==
  ASSUME NEW a \in Nat, NEW b \in Nat
  PROVE  Min({a, b}) \in Nat /\ Min({a, b}) <= a /\ Min({a, b}) <= b /\ Min({a, b}) \in {a, b}
<1> DEFINE S == {a, b}
<1>1. S \in SUBSET Nat /\ S # {}
  OBVIOUS
<1> HIDE DEF S
<1>2. Min(S) \in S /\ \A y \in S : Min(S) <= y
  BY <1>1, FirstPosition
<1> QED BY <1>1, <1>2 DEF S

(* Rows entered into a log keep it a list of tokens.                        *)
LEMMA RowsLogged ==
  ASSUME NEW logged \in Seq(Tokens), NEW start \in Nat, NEW toks \in Seq(Tokens)
  PROVE  /\ LogRows(logged, start, toks) \in Seq(Tokens)
         /\ SubSeq(logged, 1, Min({start, Len(logged)})) \in Seq(Tokens)
<1> DEFINE m == Min({start, Len(logged)})
<1>1. Len(logged) \in Nat
  OBVIOUS
<1>2. m \in Nat /\ m <= Len(logged)
  BY <1>1, SmallerOf
<1> HIDE DEF m
<1>3. SubSeq(logged, 1, m) \in Seq(Tokens)
  BY <1>1, <1>2
<1>4. SubSeq(logged, 1, m) \o toks \in Seq(Tokens)
  BY <1>3
<1> QED BY <1>3, <1>4 DEF LogRows, m

(* The full pages of a log are counted.                                     *)
LEMMA FullCounted ==
  ASSUME NEW e, IsSet(e), IsLog(e)
  PROVE  Full(e) \in Nat
<1> DEFINE n == Len(Known(e))
           m == Min({n, e.folded})
           k == m \div PageSize
<1>1. n \in Nat /\ e.folded \in Nat /\ e.mapped \in Nat
  BY KnownTokens DEF IsSet
<1> HIDE DEF n
<1>2. m \in Nat
  BY <1>1, SmallerOf
<1> HIDE DEF m
<1>3. k \in Nat
  BY <1>2, PagesCounted DEF PageAt
<1> HIDE DEF k
<1>4. Min({k, e.mapped}) \in Nat
  BY <1>1, <1>3, SmallerOf
<1> QED BY <1>4 DEF Full, k, m, n

SameLogs(t, u) ==
  \A x \in DOMAIN t.ws : u.ws[x].logged = t.ws[x].logged /\ u.ws[x].cuts = t.ws[x].cuts

WithPrompt(t, w, n) == [t EXCEPT !.ws[w].prompt = n]
WithFolded(t, w, n) == [t EXCEPT !.ws[w].folded = n]

(* Setting a prompt's length only tends the table.                          *)
LEMMA PromptTended ==
  ASSUME NEW t, Sound(t), NEW w \in DOMAIN t.ws, NEW n \in Nat
  PROVE  Tended(t, WithPrompt(t, w, n)) /\ SameLogs(t, WithPrompt(t, w, n))
<1> DEFINE e == [t.ws[w] EXCEPT !.prompt = n]
           u == WithSet(t, w, e)
<1>1. IsTable(t) /\ IsSets(t) /\ IsSet(t.ws[w])
  BY SoundFacts DEF IsSets
<1>2. WithPrompt(t, w, n) = u
  BY <1>1 DEF WithPrompt, WithSet, IsTable, IsSets
<1>3. /\ IsSet(e) /\ e.terminal = t.ws[w].terminal /\ e.mapped = t.ws[w].mapped /\ e.owner = t.ws[w].owner
      /\ e.logged = t.ws[w].logged /\ e.cuts = t.ws[w].cuts /\ e.suspended = t.ws[w].suspended
  BY <1>1 DEF IsSet
<1> HIDE DEF e
<1>4. Tended(t, u) /\ Replaced(t, u, w, e)
  BY <1>1, <1>3, TendedSet, SetPut
<1> HIDE DEF u
<1>5. SameLogs(t, u)
  BY <1>3, <1>4 DEF Replaced, SameLogs
<1> QED BY <1>2, <1>4, <1>5

(* So does setting the folded length.                                       *)
LEMMA FoldedTended ==
  ASSUME NEW t, Sound(t), NEW w \in DOMAIN t.ws, NEW n \in Nat
  PROVE  /\ Tended(t, WithFolded(t, w, n)) /\ SameLogs(t, WithFolded(t, w, n))
         /\ IsSet(WithFolded(t, w, n).ws[w]) 
<1> DEFINE e == [t.ws[w] EXCEPT !.folded = n]
           u == WithSet(t, w, e)
<1>1. IsTable(t) /\ IsSets(t) /\ IsSet(t.ws[w])
  BY SoundFacts DEF IsSets
<1>2. WithFolded(t, w, n) = u
  BY <1>1 DEF WithFolded, WithSet, IsTable, IsSets
<1>3. /\ IsSet(e) /\ e.terminal = t.ws[w].terminal /\ e.mapped = t.ws[w].mapped /\ e.owner = t.ws[w].owner
      /\ e.logged = t.ws[w].logged /\ e.cuts = t.ws[w].cuts /\ e.suspended = t.ws[w].suspended
  BY <1>1 DEF IsSet
<1> HIDE DEF e
<1>4. Tended(t, u) /\ Replaced(t, u, w, e)
  BY <1>1, <1>3, TendedSet, SetPut
<1> HIDE DEF u
<1>5. SameLogs(t, u) /\ IsSet(u.ws[w])
  BY <1>3, <1>4 DEF Replaced, SameLogs
<1> QED BY <1>2, <1>4, <1>5

(* So does sealing.                                                         *)
LEMMA SealTended ==
  ASSUME NEW t, Sound(t), NEW w \in DOMAIN t.ws, NEW locs, NEW sealed, NEW full \in Nat, NEW decoded \in BOOLEAN
  PROVE  Tended(t, Seal(t, w, locs, sealed, full, decoded)) /\ SameLogs(t, Seal(t, w, locs, sealed, full, decoded))
<1> DEFINE root == IF sealed = 0 THEN <<>> ELSE Page(t, locs[sealed]).key
           keys == [i \in 1..(full - sealed) |->
                 root \o SubSeq(t.ws[w].logged, sealed * PageSize + 1, (sealed + i) * PageSize)]
           u == SealPages(t, SubSeq(locs, sealed + 1, full), keys)
           n == IF decoded THEN u.ws[w].prompt ELSE Max({u.ws[w].prompt, full})
<1>1. Rekeyed(t, u)
  BY SealsPages
<1>2. Seal(t, w, locs, sealed, full, decoded) = IF full <= sealed THEN t ELSE WithPrompt(u, w, n)
  BY DEF Seal, WithPrompt
<1> HIDE DEF u
<1>3. Tended(t, u) /\ Sound(u) /\ u.ws = t.ws
  BY <1>1, TendedKeys DEF Rekeyed, SameRest
<1>4. n \in Nat
  <2>1. u.ws[w].prompt \in Nat
    BY <1>3, SoundFacts DEF IsSets, IsSet
  <2> QED BY <2>1, LargerOf
<1> HIDE DEF n
<1>5. Tended(u, WithPrompt(u, w, n)) /\ SameLogs(u, WithPrompt(u, w, n))
  BY <1>3, <1>4, PromptTended
<1>6. Tended(t, WithPrompt(u, w, n)) /\ SameLogs(t, WithPrompt(u, w, n))
  BY <1>3, <1>5, TendedOn DEF SameLogs
<1>7. Tended(t, t) /\ SameLogs(t, t)
  BY DEF Tended, ReadAlike, SameLogs
<1> QED BY <1>2, <1>6, <1>7

(* So does folding.                                                         *)
LEMMA FoldTended ==
  ASSUME NEW t, Sound(t), NEW w \in DOMAIN t.ws, IsLog(t.ws[w]), NEW to \in Nat, NEW decoded \in BOOLEAN
  PROVE  Tended(t, Fold(t, w, to, decoded)) /\ SameLogs(t, Fold(t, w, to, decoded))
<1> DEFINE n == Max({t.ws[w].folded, to})
           u == WithFolded(t, w, n)
           full == Full(u.ws[w])
           v == Seal(u, w, WsLocations(t, w), SealedPrefix(t, w), full, decoded)
<1>1. Fold(t, w, to, decoded) = v
  BY DEF Fold, WithFolded
<1>2. n \in Nat
  <2>1. t.ws[w].folded \in Nat
    BY SoundFacts DEF IsSets, IsSet
  <2> QED BY <2>1, LargerOf
<1> HIDE DEF n
<1>3. Tended(t, u) /\ SameLogs(t, u) /\ IsSet(u.ws[w])
  BY <1>2, FoldedTended
<1> HIDE DEF u
<1>4. Sound(u) /\ w \in DOMAIN u.ws /\ IsLog(u.ws[w])
  BY <1>3 DEF Tended, SameLogs, IsLog
<1>5. full \in Nat
  BY <1>3, <1>4, FullCounted
<1> HIDE DEF full
<1>6. Tended(u, v) /\ SameLogs(u, v)
  BY <1>4, <1>5, SealTended
<1> HIDE DEF v
<1>7. Tended(t, v)
  BY <1>3, <1>6, TendedOn
<1>8. SameLogs(t, v)
  <2>1. DOMAIN u.ws = DOMAIN t.ws
    BY <1>3 DEF Tended
  <2> QED BY <2>1, <1>3, <1>6 DEF SameLogs
<1> QED BY <1>1, <1>7, <1>8

(* FireSettles keeps the structure.                                         *)
LEMMA FireSettlesStruct ==
  ASSUME Struct, NEW f \in DOMAIN fires, NEW ok \in BOOLEAN, NEW to \in Nat, NEW decoded \in BOOLEAN,
         FireSettles(f, ok, to, decoded)
  PROVE  Struct' /\ Tended(tab, tab')
<1> DEFINE w == fires[f].ws
           e == tab.ws[w]
           logged == IF ok THEN LogRows(e.logged, fires[f].start, fires[f].toks)
                     ELSE SubSeq(e.logged, 1, Min({fires[f].start, Len(e.logged)}))
           g == [e EXCEPT !.logged = logged, !.cuts = {c \in e.cuts : c[1] # f}]
           t == WithSet(tab, w, g)
           ended == [tab EXCEPT !.ws[w].logged = logged, !.ws[w].cuts = {c \in @ : c[1] # f}]
<1> USE DEF Struct
<1>a. tab' = IF ok THEN Fold(ended, w, to, decoded) ELSE Failing(ended, e.owner, TRUE)
  BY DEF FireSettles
<1>b. /\ Settle(fires[f].seq, {}) /\ fires' = Without(fires, {f})
      /\ UNCHANGED <<slots, flat, cache, moves, away, used>>
  BY DEF FireSettles
<1>1. fires[f].phase = "queued"
  BY DEF FireSettles
<1>2. w \in DOMAIN tab.ws /\ fires[f].toks \in Seq(Tokens) /\ fires[f].start \in Nat
  BY <1>1, FireFacts
<1>3. Sound(tab) /\ IsSet(e) /\ IsLog(e) /\ IsTable(tab) /\ IsSets(tab)
  BY <1>2, SetFacts, SoundFacts DEF InvLogs
<1>4. logged \in Seq(Tokens)
  <2>1. e.logged \in Seq(Tokens)
    BY <1>3 DEF IsLog
  <2> QED BY <1>2, <2>1, RowsLogged
<1> HIDE DEF logged
<1>5. /\ IsSet(g) /\ IsLog(g) /\ g.terminal = e.terminal /\ g.mapped = e.mapped /\ g.owner = e.owner
      /\ g.suspended = e.suspended
  BY <1>3, <1>4 DEF IsSet, IsLog
<1>6. ended = t
  BY <1>2, <1>3 DEF IsTable, IsSets, WithSet
<1> HIDE DEF ended, t
<1>7. /\ tab' = IF ok THEN Fold(t, w, to, decoded) ELSE Failing(t, e.owner, TRUE)
      /\ Settle(fires[f].seq, {}) /\ fires' = Without(fires, {f})
      /\ UNCHANGED <<slots, flat, cache, moves, away, used>>
  BY <1>6, <1>a, <1>b
<1> HIDE DEF g
<1>8. Tended(tab, t) /\ Replaced(tab, t, w, g)
  BY <1>2, <1>3, <1>5, TendedSet, SetPut DEF t
<1>9. Sound(t) /\ DOMAIN t.ws = DOMAIN tab.ws /\ \A x \in DOMAIN t.ws : IsLog(t.ws[x])
  BY <1>5, <1>8 DEF Tended, Replaced, InvLogs
<1>10. Tended(t, tab') /\ \A x \in DOMAIN tab'.ws : IsLog(tab'.ws[x])
  <2>1. CASE ok
    <3>1. Tended(t, tab') /\ SameLogs(t, tab')
      BY <2>1, <1>2, <1>7, <1>9, FoldTended
    <3> QED BY <3>1, <1>9 DEF Tended, SameLogs, IsLog
  <2>2. CASE ~ok
    <3>1. tab' = Failing(t, e.owner, TRUE)
      BY <2>2, <1>7
    <3> QED BY <3>1, <1>9, FailingTended, FailingLogged
  <2> QED BY <2>1, <2>2
<1>11. Tended(tab, tab') /\ InvLogs'
  BY <1>8, <1>10, TendedOn DEF InvLogs
<1>12. InvTable' /\ InvFlat' /\ RootsExact(tab, cache)' /\ InvMoves' /\ DOMAIN tab'.ws = DOMAIN tab.ws
  BY <1>7, <1>11, TendedParts
<1>13. InvFires' /\ DOMAIN fires' \subseteq DOMAIN fires
  BY <1>7, <1>12, FireGone
<1>14. InvPool'
  BY <1>7, SettlesTyped
<1>15. InvUsed'
  BY <1>7, <1>12, <1>13, UsedStays
<1> QED BY <1>11, <1>12, <1>13, <1>14, <1>15

(* keep_sealed_prefix: entries are added, and nothing else changes.         *)
KeptOk(r) ==
  /\ Sound(r.t) /\ RootsExact(r.t, r.cache)
  /\ LiveLocations(r.t) = LiveLocations(tab) /\ \A l \in LiveLocations(tab) : Page(r.t, l) = Page(tab, l)
  /\ r.t.ws = tab.ws /\ r.t.pins = tab.pins /\ r.t.swaps = tab.swaps
  /\ DOMAIN tab.nodes \subseteq DOMAIN r.t.nodes
  /\ \A m \in DOMAIN tab.nodes : Locations(r.t, m) = Locations(tab, m)
  /\ \A m \in DOMAIN r.t.nodes : m \in DOMAIN tab.nodes \/ m \notin Named

(* Keeping one prefix in the cache leaves every path as it was.             *)
LEMMA KeepKept ==
  ASSUME Struct, NEW r, KeptOk(r), NEW w \in DOMAIN tab.ws, NEW pages \in 1..tab.ws[w].mapped, NEW decoded
  PROVE  KeptOk(Keep(r, w, pages, decoded))
<1> DEFINE n == tab.ws[w].terminal
           at == BoundaryTerminal(r.t, n, pages, Named)
           e == [root |-> at.node, owner |-> tab.ws[w].owner, decoded |-> decoded]
           u == LeaseRoot(at.t, at.node)
           k == Keep(r, w, pages, decoded)
<1>1. Sound(tab) /\ IsFiniteSet(Named)
  BY NamedFinite DEF Struct, InvTable
<1>2. /\ WsLocations(tab, w) = Locations(tab, n) /\ n \in DOMAIN tab.nodes \cup {NoNode}
      /\ Len(Locations(tab, n)) = tab.ws[w].mapped /\ tab.ws[w].mapped \in Nat
  BY <1>1, WsLocationsAll
<1>3. n \in DOMAIN tab.nodes
  <2>1. Locations(tab, NoNode) = <<>>
    BY <1>1, SoundFacts, LocationFacts
  <2> QED BY <1>2, <2>1
<1>4. n \in DOMAIN r.t.nodes /\ pages \in 1..Len(Locations(r.t, n)) /\ Sound(r.t)
  BY <1>2, <1>3 DEF KeptOk
<1>5. k.t = u /\ k.cache = Hold(r.cache, {e})
  BY DEF Keep, KeptAt
<1>6. IsEntry(e) /\ e.root = at.node
  BY DEF IsEntry
<1> HIDE DEF at, e, k
<1>7. Keeping(r.t, Named, at.node, u)
  BY <1>1, <1>4, Keeps DEF at
<1> HIDE DEF u
<1>8. RootsExact(u, Hold(r.cache, {e}))
  <2>1. u.roots = Hold(r.t.roots, {e.root})
    BY <1>6, <1>7 DEF Keeping
  <2> QED BY <2>1, <1>6, RootHeld DEF KeptOk
<1>9. KeptOk(k)
  <2>1. /\ Sound(u) /\ LiveLocations(u) = LiveLocations(r.t) /\ \A l \in LiveLocations(r.t) : Page(u, l) = Page(r.t, l)
        /\ u.ws = r.t.ws /\ u.pins = r.t.pins /\ u.swaps = r.t.swaps /\ DOMAIN r.t.nodes \subseteq DOMAIN u.nodes
        /\ \A m \in DOMAIN r.t.nodes : Locations(u, m) = Locations(r.t, m)
        /\ \A m \in DOMAIN u.nodes : m \in DOMAIN r.t.nodes \/ m \notin Named
    BY <1>7 DEF Keeping
  <2>2. /\ LiveLocations(r.t) = LiveLocations(tab) /\ \A l \in LiveLocations(tab) : Page(r.t, l) = Page(tab, l)
        /\ r.t.ws = tab.ws /\ r.t.pins = tab.pins /\ r.t.swaps = tab.swaps
        /\ DOMAIN tab.nodes \subseteq DOMAIN r.t.nodes
        /\ \A m \in DOMAIN tab.nodes : Locations(r.t, m) = Locations(tab, m)
        /\ \A m \in DOMAIN r.t.nodes : m \in DOMAIN tab.nodes \/ m \notin Named
    BY DEF KeptOk
  <2>3. /\ LiveLocations(u) = LiveLocations(tab) /\ \A l \in LiveLocations(tab) : Page(u, l) = Page(tab, l)
        /\ u.ws = tab.ws /\ u.pins = tab.pins /\ u.swaps = tab.swaps /\ DOMAIN tab.nodes \subseteq DOMAIN u.nodes
    BY <2>1, <2>2
  <2>4. /\ \A m \in DOMAIN tab.nodes : Locations(u, m) = Locations(tab, m)
        /\ \A m \in DOMAIN u.nodes : m \in DOMAIN tab.nodes \/ m \notin Named
    BY <2>1, <2>2
  <2> QED BY <2>1, <2>3, <2>4, <1>5, <1>8 DEF KeptOk
<1> QED BY <1>9 DEF k

(* The sealed prefixes are no longer than what is mapped.                   *)
LEMMA SealedCounted ==
  ASSUME NEW t, Sound(t), NEW w \in DOMAIN t.ws
  PROVE  SealedResidentPrefix(t, w) \in 0..t.ws[w].mapped /\ SealedPrefix(t, w) \in 0..t.ws[w].mapped
<1> DEFINE locs == WsLocations(t, w)
           n == t.ws[w].mapped
           S == {k \in 0..n : \A i \in 1..k : Page(t, locs[i]).key # NoKey /\ Settled(t, locs[i])}
           T == {k \in 0..n : \A i \in 1..k : Page(t, locs[i]).key # NoKey}
<1>1. n \in Nat /\ Len(locs) = n
  BY WsLocationsAll
<1>2. S \in SUBSET (0..n) /\ 0 \in S /\ T \in SUBSET (0..n) /\ 0 \in T
  BY <1>1
<1>3. SealedResidentPrefix(t, w) = Max(S) /\ SealedPrefix(t, w) = Max(T)
  BY <1>1 DEF SealedResidentPrefix, SealedPrefix, PrefixWhile
<1> HIDE DEF S, T
<1>4. Max(S) \in S /\ Max(T) \in T
  <2>1. S # {} /\ T # {}
    BY <1>2
  <2> QED BY <1>1, <1>2, <2>1, LastPosition
<1> QED BY <1>2, <1>3, <1>4

(* So do all the prefixes a released set leaves behind.                     *)
LEMMA KeepsSealed ==
  ASSUME Struct, NEW w \in DOMAIN tab.ws
  PROVE  KeptOk(KeepSealedPrefix(w))
<1> DEFINE all == SealedResidentPrefix(tab, w)
           prompt == Min({tab.ws[w].prompt, all})
           none == [t |-> tab, cache |-> cache]
           first == IF prompt > 0 THEN Keep(none, w, prompt, FALSE) ELSE none
<1>1. Sound(tab) /\ tab.ws[w].prompt \in Nat /\ tab.ws[w].mapped \in Nat
  BY SetFacts DEF IsSet
<1>2. all \in Nat /\ all <= tab.ws[w].mapped
  <2>1. all \in 0..tab.ws[w].mapped
    BY <1>1, SealedCounted
  <2> QED BY <1>1, <2>1
<1> HIDE DEF all
<1>3. prompt \in Nat /\ prompt <= all
  BY <1>1, <1>2, SmallerOf
<1> HIDE DEF prompt
<1>4. KeptOk(none)
  BY <1>1 DEF KeptOk, Struct
<1> HIDE DEF none
<1>5. KeptOk(first)
  <2>1. CASE prompt > 0
    <3>1. prompt \in 1..tab.ws[w].mapped
      BY <1>1, <1>2, <1>3, <2>1
    <3> QED BY <2>1, <3>1, <1>4, KeepKept
  <2>2. CASE ~(prompt > 0)
    BY <2>2, <1>4
  <2> QED BY <2>1, <2>2
<1> HIDE DEF first
<1>6. KeepSealedPrefix(w) = KeepAll(first, w, all, prompt)
  BY DEF KeepSealedPrefix, first, none, prompt, all
<1>7. CASE all > prompt
  <2>1. all \in 1..tab.ws[w].mapped
    BY <1>1, <1>2, <1>3, <1>7
  <2>2. KeptOk(Keep(first, w, all, TRUE))
    BY <2>1, <1>5, KeepKept
  <2> QED BY <2>2, <1>6, <1>7 DEF KeepAll
<1>8. CASE ~(all > prompt)
  BY <1>5, <1>6, <1>8 DEF KeepAll
<1> QED BY <1>7, <1>8

(* Release keeps the structure.                                             *)
LEMMA ReleaseStruct ==
  ASSUME Struct, NEW w \in LiveSets, Release(w)
  PROVE  Struct'
<1> DEFINE k == KeepSealedPrefix(w)
           r == RemoveWs(k.t, w)
<1> USE DEF Struct
<1>1. /\ w \in DOMAIN tab.ws /\ FiresOf(w) = {} /\ cache' = k.cache /\ GiveBack(r, {}) /\ flat' = Without(flat, {w})
      /\ UNCHANGED <<epochs, fires, moves, away, used>>
  BY DEF Release, LiveSets, ReleaseKeeping
<1>2. KeptOk(k)
  BY <1>1, KeepsSealed
<1> HIDE DEF k
<1>3. Sound(k.t) /\ k.t.ws = tab.ws /\ k.t.pins = tab.pins /\ RootsExact(k.t, k.cache)
  BY <1>2 DEF KeptOk
<1>4. Placed(k.t)
  BY <1>2 DEF KeptOk, InvTable, Placed
<1>5. Unset(k.t, w, r)
  BY <1>1, <1>3, RemovesWs
<1> HIDE DEF r
<1>6. Good(r)
  BY <1>4, <1>5, GoodUnset
<1>7. /\ tab' = r.t /\ Sound(tab') /\ DOMAIN tab'.ws = DOMAIN tab.ws \ {w} /\ tab'.roots = k.t.roots
      /\ tab'.pins = tab.pins /\ \A x \in DOMAIN tab'.ws : tab'.ws[x] = tab.ws[x]
  BY <1>1, <1>3, <1>5 DEF Unset, GiveBack
<1>8. InvTable'
  BY <1>6, <1>7 DEF Good, InvTable
<1>9. InvPool'
  BY <1>1, <1>6, GivesBack DEF Good
<1>10. InvUsed'
  BY <1>1, <1>7 DEF InvUsed
<1>11. InvFlat'
  BY <1>1, <1>7 DEF InvFlat, Without
<1>12. RootsExact(tab, cache)'
  BY <1>1, <1>3, <1>7 DEF RootsExact
<1>13. InvMoves'
  <2>1. PinsExact(tab', moves)
    BY <1>7, HoldersSame DEF InvMoves
  <2> QED BY <2>1, <1>1 DEF InvMoves, IsMove
<1>14. InvFires'
  BY <1>1, <1>7 DEF InvFires, IsFire, FiresOf
<1>15. InvLogs'
  BY <1>7, LogsStay
<1> QED BY <1>8, <1>9, <1>10, <1>11, <1>12, <1>13, <1>14, <1>15

(* drop_entries                                                             *)
LEMMA DropStruct ==
  ASSUME Struct, NEW entries \in SUBSET DOMAIN cache, DropEntries(entries),
         UNCHANGED <<flat, epochs, fires, moves, away, used>>
  PROVE  Struct'
<1> DEFINE r == Dropped(tab, entries)
           roots == LessRoots(tab, cache, entries)
<1> USE DEF Struct
<1>1. Sound(tab) /\ Placed(tab)
  BY DEF InvTable
<1>2. Rerooted(tab, roots, r)
  BY <1>1, Drops
<1>3. cache' = Without(cache, entries) /\ GiveBack(r, {})
  BY DEF DropEntries
<1> HIDE DEF r
<1>4. Good(r)
  BY <1>1, <1>2, GoodRerooted
<1>5. tab' = r.t /\ Sound(tab') /\ tab'.ws = tab.ws /\ tab'.roots = roots /\ tab'.pins = tab.pins
  BY <1>2, <1>3 DEF Rerooted, GiveBack
<1>6. InvTable'
  BY <1>4, <1>5 DEF Good, InvTable
<1>7. InvPool'
  BY <1>3, <1>4, GivesBack DEF Good
<1>8. InvUsed' /\ InvFires'
  BY <1>5, UsedStays, FiresStay
<1>9. InvFlat'
  BY <1>5, FlatStays DEF SameLens
<1>10. RootsExact(tab', cache')
  BY <1>3, <1>5, RootsLess
<1>11. InvMoves'
  <2>1. PinsExact(tab', moves)
    BY <1>5, HoldersSame DEF InvMoves
  <2> QED BY <2>1 DEF InvMoves, IsMove
<1>12. InvLogs'
  BY <1>5, LogsStay
<1> QED BY <1>6, <1>7, <1>8, <1>9, <1>10, <1>11, <1>12

(* Reclaiming or discarding the cache keeps the structure.                  *)
LEMMA CacheStruct ==
  ASSUME Struct, ReclaimCache \/ \E owner : DiscardCache(owner)
  PROVE  Struct'
<1>1. CASE ReclaimCache
  <2> PICK order, n : DropEntries(UNION {GroupOf(order[i]) : i \in 1..n}) /\ UNCHANGED <<flat, epochs, fires, moves, away, used>>
    BY <1>1 DEF ReclaimCache
  <2> DEFINE S == UNION {GroupOf(order[i]) : i \in 1..n}
  <2>1. S \in SUBSET DOMAIN cache
    BY DEF GroupOf, Reclaimable
  <2> HIDE DEF S
  <2> QED BY <2>1, DropStruct DEF S
<1>2. CASE \E owner : DiscardCache(owner)
  <2> PICK owner : DiscardCache(owner)
    BY <1>2
  <2> DEFINE S == {e \in DOMAIN cache : e.owner = owner}
  <2>1. S \in SUBSET DOMAIN cache /\ DropEntries(S) /\ UNCHANGED <<flat, epochs, fires, moves, away, used>>
    BY DEF DiscardCache
  <2> HIDE DEF S
  <2> QED BY <2>1, DropStruct
<1> QED BY <1>1, <1>2

(* sealed_run: what comes out of a search that goes on from where each of   *)
(* its steps ends.                                                          *)
Onwards(g, k, B, L, Sg) ==
  IF B[k] = {} THEN {<<>>}
  ELSE UNION {{Sg[k][n] \o more : more \in g[k + L[k][n]]} : n \in B[k]}

Ahead(N, B, L) == \A k \in 0..N : \A n \in B[k] : k + L[k][n] \in (k + 1)..N

IsOnwards(g, N, B, L, Sg) == g = [k \in 0..N |-> Onwards(g, k, B, L, Sg)]

(* Runs found onwards depend on what is found further on alone.             *)
LEMMA OnwardsSame ==
  ASSUME NEW g, NEW h, NEW k, NEW B, NEW L, NEW Sg, \A n \in B[k] : h[k + L[k][n]] = g[k + L[k][n]]
  PROVE  Onwards(h, k, B, L, Sg) = Onwards(g, k, B, L, Sg)
<1>1. UNION {{Sg[k][n] \o more : more \in h[k + L[k][n]]} : n \in B[k]}
        = UNION {{Sg[k][n] \o more : more \in g[k + L[k][n]]} : n \in B[k]}
  BY SMTT(20)
<1> QED BY <1>1 DEF Onwards

(* The recursive search for runs is well defined.                           *)
LEMMA OnwardsExists ==
  ASSUME NEW N \in Nat, NEW B, NEW L, NEW Sg, Ahead(N, B, L)
  PROVE  \E g : IsOnwards(g, N, B, L, Sg)
<1> DEFINE Solves(g, m) == \A k \in m..N : g[k] = Onwards(g, k, B, L, Sg)
           F == {j \in 0..(N + 1) : ~\E g : Solves(g, N + 1 - j)}
<1>1. F = {}
  <2>1. SUFFICES ASSUME F # {} PROVE FALSE
    OBVIOUS
  <2>2. F \in SUBSET Nat
    OBVIOUS
  <2>3. PICK j \in F : \A i \in F : j <= i
    BY <2>1, <2>2, Least
  <2>4. j \in 1..(N + 1)
    <3>1. Solves([k \in {} |-> 0], N + 1 - 0)
      OBVIOUS
    <3>2. 0 \notin F
      BY <3>1
    <3> QED BY <3>2, <2>3
  <2> DEFINE m == N + 1 - j
  <2>5. m \in 0..N /\ N + 1 - (j - 1) = m + 1 /\ j - 1 \in 0..(N + 1)
    BY <2>4
  <2>6. j - 1 \notin F
    BY <2>3, <2>4
  <2>7. PICK g : Solves(g, m + 1)
    BY <2>5, <2>6
  <2> DEFINE h == [k \in 0..N |-> IF k = m THEN Onwards(g, m, B, L, Sg) ELSE g[k]]
  <2>8. ASSUME NEW k \in m..N PROVE Onwards(h, k, B, L, Sg) = Onwards(g, k, B, L, Sg)
    <3>1. ASSUME NEW n \in B[k] PROVE h[k + L[k][n]] = g[k + L[k][n]]
      <4>1. k + L[k][n] \in (k + 1)..N /\ k \in 0..N
        BY <2>5 DEF Ahead
      <4> DEFINE j0 == k + L[k][n]
      <4>2. j0 \in 0..N /\ j0 # m
        BY <4>1, <2>5
      <4> HIDE DEF j0, m
      <4>3. h[j0] = g[j0]
        BY <4>2
      <4> QED BY <4>3 DEF j0
    <3>a. \A n \in B[k] : h[k + L[k][n]] = g[k + L[k][n]]
      BY <3>1
    <3> HIDE DEF h, m
    <3> QED BY <3>a, OnwardsSame
  <2>9. Solves(h, m)
    <3> SUFFICES ASSUME NEW k \in m..N PROVE h[k] = Onwards(h, k, B, L, Sg)
      OBVIOUS
    <3>1. CASE k = m
      BY <3>1, <2>5, <2>8
    <3>2. CASE k # m
      <4>1. k \in (m + 1)..N /\ k \in 0..N
        BY <3>2, <2>5
      <4>2. g[k] = Onwards(g, k, B, L, Sg)
        BY <4>1, <2>7
      <4>3. h[k] = g[k]
        BY <3>2, <4>1
      <4> HIDE DEF h
      <4> QED BY <4>2, <4>3, <2>8
    <3> QED BY <3>1, <3>2
  <2> HIDE DEF h
  <2>10. j \in 0..(N + 1) /\ ~\E x : Solves(x, N + 1 - j)
    BY <2>3
  <2> QED BY <2>9, <2>10
<1>2. PICK g : Solves(g, 0)
  <2>1. N + 1 \notin F /\ N + 1 \in 0..(N + 1) /\ N + 1 - (N + 1) = 0
    BY <1>1
  <2> QED BY <2>1
<1> DEFINE h == [k \in 0..N |-> g[k]]
<1>3. ASSUME NEW k \in 0..N PROVE h[k] = Onwards(h, k, B, L, Sg)
  <2>1. \A n \in B[k] : h[k + L[k][n]] = g[k + L[k][n]]
    BY DEF Ahead
  <2>2. h[k] = Onwards(g, k, B, L, Sg)
    BY <1>2
  <2> HIDE DEF h
  <2>3. UNION {{Sg[k][n] \o more : more \in h[k + L[k][n]]} : n \in B[k]}
          = UNION {{Sg[k][n] \o more : more \in g[k + L[k][n]]} : n \in B[k]}
    BY <2>1, ZenonT(40)
  <2> QED BY <2>2, <2>3 DEF Onwards
<1>4. h = [k \in 0..N |-> h[k]]
  OBVIOUS
<1> HIDE DEF h
<1>5. IsOnwards(h, N, B, L, Sg)
  BY <1>3, <1>4 DEF IsOnwards
<1> QED BY <1>5

Stretches(N, B, L, Sg, S) ==
  \A k \in 0..N : \A n \in B[k] : Sg[k][n] \in Seq(S) /\ Len(Sg[k][n]) = L[k][n]

Fitting(runs, S, n) == \A r \in runs : r \in Seq(S) /\ Len(r) <= n

(* The runs it finds fit the keys left.                                     *)
LEMMA OnwardsTyped ==
  ASSUME NEW N \in Nat, NEW B, NEW L, NEW Sg, Ahead(N, B, L), NEW g, IsOnwards(g, N, B, L, Sg),
         NEW S, Stretches(N, B, L, Sg, S)
  PROVE  \A k \in 0..N : Fitting(g[k], S, N - k)
<1> DEFINE F == {j \in 0..N : ~Fitting(g[N - j], S, j)}
<1>1. F = {}
  <2>1. SUFFICES ASSUME F # {} PROVE FALSE
    OBVIOUS
  <2>2. F \in SUBSET Nat
    OBVIOUS
  <2>3. PICK j \in F : \A i \in F : j <= i
    BY <2>1, <2>2, Least
  <2> DEFINE k == N - j
  <2>4. k \in 0..N /\ j \in 0..N
    OBVIOUS
  <2>5. ASSUME NEW n \in B[k]
        PROVE  Fitting(g[k + L[k][n]], S, j - L[k][n]) /\ L[k][n] \in Nat
    <3> DEFINE x == k + L[k][n]
    <3>1. x \in (k + 1)..N
      BY <2>4 DEF Ahead
    <3>0. Sg[k][n] \in Seq(S) /\ Len(Sg[k][n]) = L[k][n]
      BY <2>4 DEF Stretches
    <3>a. L[k][n] \in Nat
      BY <3>0
    <3>b. N - x = j - L[k][n]
      BY <3>a, <2>4
    <3> HIDE DEF x
    <3>2. N - x \in 0..N /\ N - x < j /\ N - (N - x) = x
      BY <3>1, <2>4
    <3>3. N - x \notin F
      BY <3>2, <2>3, <2>4
    <3>4. Fitting(g[x], S, N - x)
      BY <3>2, <3>3
    <3> QED BY <3>4, <3>a, <3>b DEF x
  <2>6. g[k] = Onwards(g, k, B, L, Sg)
    BY <2>4 DEF IsOnwards
  <2>7. \A n \in B[k] : Sg[k][n] \in Seq(S) /\ Len(Sg[k][n]) = L[k][n]
    BY <2>4 DEF Stretches
  <2> HIDE DEF k
  <2>8. ASSUME NEW r \in Onwards(g, k, B, L, Sg) PROVE r \in Seq(S) /\ Len(r) <= j
    <3>1. CASE B[k] = {}
      <4>1. r = <<>>
        BY <3>1 DEF Onwards
      <4> QED BY <4>1, <2>4
    <3>2. CASE B[k] # {}
      <4>1. r \in UNION {{Sg[k][n] \o more : more \in g[k + L[k][n]]} : n \in B[k]}
        BY <3>2 DEF Onwards
      <4>2. PICK n \in B[k] : r \in {Sg[k][n] \o more : more \in g[k + L[k][n]]}
        BY <4>1
      <4>3. PICK more \in g[k + L[k][n]] : r = Sg[k][n] \o more
        BY <4>2
      <4>4. /\ Sg[k][n] \in Seq(S) /\ Len(Sg[k][n]) = L[k][n] /\ L[k][n] \in Nat
            /\ more \in Seq(S) /\ Len(more) <= j - L[k][n]
        BY <2>5, <2>7 DEF Fitting
      <4>5. r \in Seq(S) /\ Len(r) = Len(Sg[k][n]) + Len(more) /\ Len(more) \in Nat
        BY <4>3, <4>4, ConcatItems
      <4> QED BY <4>4, <4>5, <2>4
    <3> QED BY <3>1, <3>2
  <2>9. Fitting(g[k], S, j)
    BY <2>6, <2>8 DEF Fitting
  <2>10. ~Fitting(g[k], S, j)
    BY <2>3 DEF k
  <2> QED BY <2>9, <2>10
<1>2. ASSUME NEW k \in 0..N PROVE Fitting(g[k], S, N - k)
  <2>1. N - k \in 0..N /\ N - (N - k) = k
    OBVIOUS
  <2>2. N - k \notin F
    BY <1>1
  <2> QED BY <2>1, <2>2
<1> QED BY <1>2

AtRest(t) == {l \in LiveLocations(t) : l \notin t.swaps}

(* The run one node offers is at rest.                                      *)
LEMMA NodeRunIn ==
  ASSUME NEW t, Shape(t), NEW n \in DOMAIN t.nodes, NEW keys, Len(keys) \in Nat, NEW resident
  PROVE  /\ NodeRun(t, n, keys, resident) \in 0..Len(keys)
         /\ FirstPages(n, NodeRun(t, n, keys, resident)) \in Seq(AtRest(t))
         /\ Len(FirstPages(n, NodeRun(t, n, keys, resident))) = NodeRun(t, n, keys, resident)
<1> DEFINE S == {k \in 0..Len(keys) : \A i \in 1..k :
                   /\ Live(t, <<n, i>>)
                   /\ Page(t, <<n, i>>).key = keys[i]
                   /\ resident => OnDevice(Page(t, <<n, i>>).at)
                   /\ <<n, i>> \notin t.swaps}
           m == NodeRun(t, n, keys, resident)
<1>1. S \in SUBSET (0..Len(keys)) /\ 0 \in S
  OBVIOUS
<1>2. m = Max(S)
  BY DEF NodeRun
<1>3. Max(S) \in S
  <2>1. S # {}
    BY <1>1
  <2> HIDE DEF S
  <2> QED BY <1>1, <2>1, LastPosition
<1>4. m \in 0..Len(keys) /\ \A i \in 1..m : Live(t, <<n, i>>) /\ <<n, i>> \notin t.swaps
  BY <1>2, <1>3
<1> HIDE DEF m, S
<1>5. \A i \in 1..m : <<n, i>> \in AtRest(t)
  BY <1>4 DEF AtRest, Live, LiveLocations
<1>6. FirstPages(n, m) \in [1..m -> AtRest(t)]
  BY <1>5 DEF FirstPages
<1>7. FirstPages(n, m) \in Seq(AtRest(t)) /\ Len(FirstPages(n, m)) = m
  BY <1>4, <1>6
<1> QED BY <1>4, <1>7 DEF m

(* The sealed runs are lists of locations at rest.                          *)
LEMMA RunsFound ==
  ASSUME NEW t, Shape(t), NEW K, NEW keys \in Seq(K), NEW resident
  PROVE  Fitting(SealedRuns(t, keys, resident), AtRest(t), Len(keys))
<1> DEFINE N == Len(keys)
           rest(k) == SubSeq(keys, k + 1, Len(keys))
           B == [k \in 0..N |-> Furthest(t, rest(k), resident)]
           L == [k \in 0..N |-> [n \in B[k] |-> NodeRun(t, n, rest(k), resident)]]
           Sg == [k \in 0..N |-> [n \in B[k] |-> FirstPages(n, NodeRun(t, n, rest(k), resident))]]
           Raw(g, k) == IF Furthest(t, rest(k), resident) = {} THEN {<<>>}
                        ELSE UNION {{FirstPages(n, NodeRun(t, n, rest(k), resident)) \o more :
                                        more \in g[k + NodeRun(t, n, rest(k), resident)]} :
                                    n \in Furthest(t, rest(k), resident)}
           Is(g) == g = [k \in 0..N |-> Raw(g, k)]
           run == CHOOSE g : Is(g)
<1>1. N \in Nat /\ \A k \in 0..N : Len(rest(k)) = N - k
  OBVIOUS
<1>2. ASSUME NEW k \in 0..N, NEW n \in B[k]
      PROVE  /\ NodeRun(t, n, rest(k), resident) \in 1..(N - k)
             /\ FirstPages(n, NodeRun(t, n, rest(k), resident)) \in Seq(AtRest(t))
             /\ Len(FirstPages(n, NodeRun(t, n, rest(k), resident))) = NodeRun(t, n, rest(k), resident)
  <2>1. n \in DOMAIN t.nodes /\ NodeRun(t, n, rest(k), resident) > 0
    BY DEF Furthest
  <2>2. Len(rest(k)) = N - k /\ N - k \in Nat
    BY <1>1
  <2> HIDE DEF B, rest, N
  <2>3. /\ NodeRun(t, n, rest(k), resident) \in 0..Len(rest(k))
        /\ FirstPages(n, NodeRun(t, n, rest(k), resident)) \in Seq(AtRest(t))
        /\ Len(FirstPages(n, NodeRun(t, n, rest(k), resident))) = NodeRun(t, n, rest(k), resident)
    BY <2>1, <2>2, NodeRunIn
  <2> QED BY <2>1, <2>2, <2>3
<1>3. Ahead(N, B, L)
  <2> SUFFICES ASSUME NEW k \in 0..N, NEW n \in B[k] PROVE k + L[k][n] \in (k + 1)..N
    BY DEF Ahead
  <2>1. L[k][n] \in 1..(N - k)
    BY <1>2
  <2> HIDE DEF L, N
  <2> QED BY <2>1, <1>1
<1>4. Stretches(N, B, L, Sg, AtRest(t))
  BY <1>2 DEF Stretches
<1>5. ASSUME NEW g, NEW k \in 0..N PROVE Raw(g, k) = Onwards(g, k, B, L, Sg)
  <2>1. B[k] = Furthest(t, rest(k), resident)
    OBVIOUS
  <2>2. \A n \in B[k] : L[k][n] = NodeRun(t, n, rest(k), resident) /\ Sg[k][n] = FirstPages(n, NodeRun(t, n, rest(k), resident))
    OBVIOUS
  <2> DEFINE X == Furthest(t, rest(k), resident)
             l == [n \in X |-> NodeRun(t, n, rest(k), resident)]
  <2>3. \A n \in X : L[k][n] = NodeRun(t, n, rest(k), resident) /\ Sg[k][n] = FirstPages(n, NodeRun(t, n, rest(k), resident))
    BY <2>1, <2>2
  <2> HIDE DEF B, L, Sg, rest
  <2>4. UNION {{FirstPages(n, NodeRun(t, n, rest(k), resident)) \o more :
                                        more \in g[k + NodeRun(t, n, rest(k), resident)]} : n \in X}
        = UNION {{Sg[k][n] \o more : more \in g[k + L[k][n]]} : n \in X}
    <3> HIDE DEF X
    <3> DEFINE a(n) == NodeRun(t, n, rest(k), resident)
    <3>1. \A n \in X : L[k][n] = a(n) /\ Sg[k][n] = FirstPages(n, a(n))
      BY <2>3
    <3> HIDE DEF a
    <3>2. \A n \in X : {FirstPages(n, a(n)) \o more : more \in g[k + a(n)]} = {Sg[k][n] \o more : more \in g[k + L[k][n]]}
      BY <3>1
    <3> DEFINE A(n) == {FirstPages(n, a(n)) \o more : more \in g[k + a(n)]}
               C(n) == {Sg[k][n] \o more : more \in g[k + L[k][n]]}
    <3>3. \A n \in X : A(n) = C(n)
      BY <3>2
    <3> HIDE DEF A, C
    <3>4. UNION {A(n) : n \in X} = UNION {C(n) : n \in X}
      BY <3>3
    <3> QED BY <3>4 DEF a, A, C
  <2> QED BY <2>1, <2>4 DEF Onwards
<1> HIDE DEF B, L, Sg
<1>6. PICK h : IsOnwards(h, N, B, L, Sg)
  <2> HIDE DEF N
  <2> QED BY <1>1, <1>3, OnwardsExists
<1>7. Is(h)
  <2> HIDE DEF Raw
  <2>1. [k \in 0..N |-> Onwards(h, k, B, L, Sg)] = [k \in 0..N |-> Raw(h, k)]
    BY <1>5
  <2> QED BY <1>6, <2>1 DEF IsOnwards
<1>8. Is(run)
  <2> HIDE DEF Is
  <2> QED BY <1>7
<1>9. SealedRuns(t, keys, resident) = run[0]
  BY DEF SealedRuns
<1> HIDE DEF run
<1>10. IsOnwards(run, N, B, L, Sg)
  <2>1. run = [k \in 0..N |-> Raw(run, k)]
    BY <1>8
  <2> HIDE DEF Raw
  <2>2. [k \in 0..N |-> Onwards(run, k, B, L, Sg)] = [k \in 0..N |-> Raw(run, k)]
    BY <1>5
  <2> QED BY <2>1, <2>2 DEF IsOnwards
<1> HIDE DEF N
<1>11. \A k \in 0..N : Fitting(run[k], AtRest(t), N - k)
  BY <1>1, <1>3, <1>4, <1>10, OnwardsTyped
<1>12. Fitting(run[0], AtRest(t), N)
  BY <1>1, <1>11
<1> QED BY <1>9, <1>12 DEF N

(* A function on 1..n is a list.                                            *)
LEMMA ListOf ==
  ASSUME NEW S, NEW n \in Nat, NEW s \in [1..n -> S]
  PROVE  s \in Seq(S) /\ Len(s) = n
OBVIOUS

(* Two lists joined.                                                        *)
LEMMA JoinOf ==
  ASSUME NEW S, NEW s \in Seq(S), NEW r \in Seq(S)
  PROVE  s \o r \in Seq(S) /\ Len(s \o r) = Len(s) + Len(r)
OBVIOUS

(* A pass has a key per page.                                               *)
LEMMA KeysListed ==
  ASSUME Struct, NEW w \in DOMAIN tab.ws, NEW toks \in Seq(Tokens)
  PROVE  \E K : PassKeys(w, toks) \in Seq(K) /\ Len(PassKeys(w, toks)) = tab.ws[w].mapped + Len(toks) \div PageSize
<1> DEFINE locs == WsLocations(tab, w)
           own == KeysAt(tab, locs)
           n == tab.ws[w].mapped
           k == Len(toks) \div PageSize
           more == [i \in 1..k |-> (IF own = <<>> THEN <<>> ELSE Last(own)) \o SubSeq(toks, 1, i * PageSize)]
           K == ToSet(own) \cup ToSet(more)
<1>1. n \in Nat /\ DOMAIN locs = 1..n
  BY SetFacts, WsLocationsAll
<1>2. k \in Nat
  <2>1. Len(toks) \in Nat
    OBVIOUS
  <2> QED BY <2>1, PagesCounted DEF PageAt
<1> HIDE DEF locs, k
<1>3. own = [i \in 1..n |-> Page(tab, locs[i]).key]
  BY <1>1 DEF KeysAt
<1>4. own \in [1..n -> K]
  <2>1. \A i \in 1..n : own[i] \in ToSet(own)
    BY <1>3 DEF ToSet
  <2> QED BY <1>3, <2>1
<1>5. PassKeys(w, toks) = own \o more
  BY DEF PassKeys, KeysOn, k, locs
<1> HIDE DEF own
<1>6. more \in [1..k -> K]
  <2>1. \A i \in 1..k : more[i] \in ToSet(more)
    BY DEF ToSet
  <2> QED BY <2>1
<1> HIDE DEF more, K
<1> HIDE DEF n
<1>7. own \in Seq(K) /\ Len(own) = n
  BY <1>1, <1>4, ListOf
<1>8. more \in Seq(K) /\ Len(more) = k
  BY <1>2, <1>6, ListOf
<1>9. own \o more \in Seq(K) /\ Len(own \o more) = n + k
  BY <1>7, <1>8, JoinOf
<1> QED BY <1>5, <1>9 DEF k, n

(* The first items of a list.                                               *)
LEMMA PartOf ==
  ASSUME NEW S, NEW s \in Seq(S), NEW m \in 0..Len(s)
  PROVE  SubSeq(s, 1, m) \in Seq(S) /\ Len(SubSeq(s, 1, m)) = m /\ \A i \in 1..m : SubSeq(s, 1, m)[i] = s[i]
OBVIOUS

(* What attach_run can map of a run: a part of it, and settled.             *)
(* A run that the path to its last page agrees with.                        *)
OnPath(run) == \A i \in 1..Len(run) : Locations(tab, Last(run)[1])[i] = run[i]

(* What can be attached of a run is a beginning of it, settled and on one   *)
(* path.                                                                    *)
LEMMA AttachableIn ==
  ASSUME NEW S, S \subseteq LiveLocations(tab), Sound(tab), NEW run \in Seq(S)
  PROVE  /\ Attachable(run) \in Seq(S) /\ Len(Attachable(run)) <= Len(run)
         /\ \A l \in ToSet(Attachable(run)) : Settled(tab, l)
         /\ OnPath(Attachable(run))
<1> DEFINE G == {k \in 0..Len(run) : \A i \in 1..k : Settled(tab, run[i])}
           k == Max(G)
           settled == SubSeq(run, 1, k)
           path == Locations(tab, Last(settled)[1])
           H == {j \in 0..Min({Len(settled), Len(path)}) : SubSeq(path, 1, j) = SubSeq(settled, 1, j)}
<1>1. Len(run) \in Nat /\ 0 \in G /\ G \in SUBSET (0..Len(run))
  OBVIOUS
<1>2. k \in G
  <2>1. G # {}
    BY <1>1
  <2> HIDE DEF G
  <2> QED BY <1>1, <2>1, LastPosition
<1>3. k \in 0..Len(run) /\ \A i \in 1..k : Settled(tab, run[i])
  BY <1>2
<1>4. Attachable(run) = IF k = 0 THEN <<>> ELSE Agreed(settled)
  BY DEF Attachable, PrefixWhile
<1> HIDE DEF k, G
<1>5. CASE k = 0
  <2>1. Attachable(run) = <<>>
    BY <1>4, <1>5
  <2> QED BY <2>1, <1>1 DEF ToSet, OnPath
<1>6. CASE k # 0
  <2>1. settled \in Seq(S) /\ Len(settled) = k /\ k \in Nat /\ \A i \in 1..k : settled[i] = run[i]
    BY <1>3, PartOf
  <2>2. Last(settled) \in S
    BY <2>1, <1>6 DEF Last
  <2> HIDE DEF settled
  <2>3. Last(settled)[1] \in DOMAIN tab.nodes
    BY <2>2 DEF LiveLocations
  <2>4. Len(path) \in Nat
    BY <2>3, SoundFacts, LocationFacts
  <2> DEFINE b == Min({Len(settled), Len(path)})
             j == Max(H)
  <2>5. b \in Nat /\ b <= k
    BY <2>1, <2>4, SmallerOf
  <2>6. H \in SUBSET (0..b) /\ 0 \in H
    <3>1. SubSeq(path, 1, 0) = <<>> /\ SubSeq(settled, 1, 0) = <<>>
      <4>1. path \in Seq(Nat \X Nat)
        BY <2>3, SoundFacts, LocationFacts
      <4> QED BY <4>1, <2>1
    <3> QED BY <3>1, <2>5
  <2> HIDE DEF H, b
  <2>7. j \in H
    <3>1. H # {}
      BY <2>6
    <3> QED BY <3>1, <2>5, <2>6, LastPosition
  <2>9. Agreed(settled) = SubSeq(settled, 1, j)
    BY DEF Agreed, H, b
  <2> HIDE DEF j
  <2>8. j \in 0..Len(settled) /\ j \in Nat /\ j <= k
    BY <2>1, <2>5, <2>6, <2>7
  <2>10. SubSeq(settled, 1, j) \in Seq(S) /\ Len(SubSeq(settled, 1, j)) = j /\ \A i \in 1..j : SubSeq(settled, 1, j)[i] = settled[i]
    BY <2>1, <2>8, PartOf
  <2> DEFINE a == Attachable(run)
  <2>11. a \in Seq(S) /\ Len(a) = j /\ \A i \in 1..j : a[i] = settled[i]
    BY <2>9, <2>10, <1>4, <1>6
  <2> HIDE DEF a
  <2>12. \A l \in ToSet(a) : Settled(tab, l)
    <3>1. \A i \in 1..j : a[i] = run[i] /\ i \in 1..k
      BY <2>1, <2>8, <2>11
    <3> QED BY <3>1, <2>11, <1>3 DEF ToSet
  <2>13. j <= Len(run)
    BY <2>8, <1>3
  <2>14. OnPath(a)
    <3>1. SUFFICES ASSUME NEW i \in 1..j PROVE Locations(tab, Last(a)[1])[i] = a[i]
      BY <2>11 DEF OnPath
    <3>2. j \in 1..Len(path) /\ path \in Seq(Nat \X Nat)
      <4>1. path \in Seq(Nat \X Nat)
        BY <2>3, SoundFacts, LocationFacts
      <4>2. b <= Len(path)
        BY <2>1, <2>4, SmallerOf DEF b
      <4>3. j \in Nat /\ j <= b /\ 1 <= j
        BY <2>5, <2>6, <2>7, <2>8, <3>1
      <4> QED BY <4>1, <4>2, <4>3, <2>4, <2>5
    <3>3. \A q \in 1..j : path[q] = settled[q]
      <4>1. SubSeq(path, 1, j) = SubSeq(settled, 1, j)
        BY <2>7 DEF H
      <4>2. \A q \in 1..j : SubSeq(path, 1, j)[q] = path[q]
        BY <3>2, PartOf
      <4> QED BY <4>1, <4>2, <2>10
    <3>4. Last(a) = path[j]
      <4>1. Last(a) = a[j]
        BY <2>11 DEF Last
      <4>2. j \in 1..j
        BY <2>8, <3>1
      <4> HIDE DEF path
      <4> QED BY <4>1, <4>2, <3>3, <2>11
    <3>5. PlacedAt(tab, Last(settled)[1], j, path[j])
      BY <2>3, <3>2, SoundFacts, LocationPosition
    <3>6. Locations(tab, Last(a)[1])[i] = path[i]
      BY <3>4, <3>5, <3>1 DEF PlacedAt
    <3> QED BY <3>1, <3>3, <3>6, <2>11
  <2> QED BY <2>11, <2>12, <2>13, <2>14 DEF a
<1> QED BY <1>5, <1>6

(* A set cut leaves the table sound.                                        *)
LEMMA CutSound ==
  ASSUME NEW t, Sound(t), NEW w \in DOMAIN t.ws, NEW n, NEW b, NEW named, NEW u, NEW freed,
         Cutting(t, w, n, b, named, u, freed)
  PROVE  Sound(u) /\ DOMAIN u.ws = DOMAIN t.ws /\ u.ws[w].mapped = b
<1>1. /\ Trie(u) /\ IsSets(u) /\ OtherSets(t, u, w) /\ OthersRead(t, u, w)
      /\ u.ws[w] = [t.ws[w] EXCEPT !.terminal = u.ws[w].terminal, !.mapped = b]
      /\ Len(Locations(u, u.ws[w].terminal)) = b
  BY DEF Cutting
<1>2. IsSet(t.ws[w])
  BY SoundFacts DEF IsSets
<1>3. u.ws[w].mapped = b
  BY <1>1, <1>2 DEF IsSet
<1>4. \A x \in DOMAIN t.ws : x # w => Locations(u, t.ws[x].terminal) = Locations(t, t.ws[x].terminal)
  BY <1>1, OthersSized
<1>5. Sized(u)
  BY <1>1, <1>3, <1>4 DEF Sized, Sound, OtherSets
<1> QED BY <1>1, <1>3, <1>5 DEF Sound, OtherSets

(* What is mapped into w: the pages of a run, all settled, which are those  *)
(* of the trie's path to the last of them. Then w's own record changes.     *)
Supplied(w, run, u, e) ==
  /\ run \in Seq(LiveLocations(tab)) /\ Len(run) > tab.ws[w].mapped /\ OnPath(run)
  /\ \A l \in ToSet(run) : Settled(tab, l)
  /\ Cutting(tab, w, Last(run)[1], Len(run), Named, u, {}) /\ LiveLocations(u) = LiveLocations(tab)
  /\ IsSet(e) /\ IsLog(e) /\ e.terminal = u.ws[w].terminal /\ e.mapped = u.ws[w].mapped
  /\ e.owner = u.ws[w].owner /\ e.suspended = u.ws[w].suspended
  /\ tab' = WithSet(u, w, e) /\ flat' = Refreshed({w}, tab')

(* Supply maps such a run into the set.                                     *)
LEMMA SupplyMaps ==
  ASSUME Struct, NEW w \in LiveSets, NEW toks \in Seq(Tokens), Supply(w, toks)
  PROVE  \E run, u, e : Supplied(w, run, u, e)
<1> DEFINE held == tab.ws[w].mapped
<1> USE DEF Struct
<1>1. /\ w \in DOMAIN tab.ws /\ IsSet(tab.ws[w]) /\ Sound(tab) /\ Placed(tab) /\ IsLog(tab.ws[w])
  BY SetFacts DEF LiveSets, InvLogs
<1>2. PICK found \in SealedRuns(tab, PassKeys(w, toks), TRUE) :
        SupplyRun(w, toks, held, Attachable(found)) /\ UNCHANGED <<pool, slots, cache, epochs, fires, moves, away, used>>
  BY DEF Supply
<1> DEFINE run == Attachable(found)
           k == Len(toks) \div PageSize
           S == AtRest(tab)
<1>3. found \in Seq(S) /\ Len(found) <= held + k
  <2>1. PICK K : PassKeys(w, toks) \in Seq(K) /\ Len(PassKeys(w, toks)) = held + k
    BY <1>1, KeysListed
  <2>2. Fitting(SealedRuns(tab, PassKeys(w, toks), TRUE), S, Len(PassKeys(w, toks)))
    BY <2>1, <1>1, SoundFacts, RunsFound
  <2> QED BY <2>1, <2>2, <1>2 DEF Fitting
<1>4. S \subseteq LiveLocations(tab)
  BY DEF AtRest
<1> HIDE DEF S
<1>5. run \in Seq(S) /\ Len(run) <= Len(found) /\ OnPath(run) /\ \A l \in ToSet(run) : Settled(tab, l)
  BY <1>1, <1>3, <1>4, AttachableIn
<1> HIDE DEF run
<1>6. /\ Len(run) > held /\ PathPrefixLen(tab, Last(run)) = Len(run) /\ CanAttach(tab, w, Last(run))
      /\ tab' = [Attach(tab, w, Last(run), Named) EXCEPT !.ws[w] = MappedIn(@, toks, held, Len(run))]
      /\ flat' = Refreshed({w}, tab')
  BY <1>2 DEF SupplyRun, run
<1>7. held \in Nat /\ Len(run) \in Nat /\ k \in Nat /\ Len(toks) \in Nat
  <2>1. Len(toks) \in Nat
    OBVIOUS
  <2>2. k \in Nat
    BY <2>1, PagesCounted DEF PageAt
  <2>3. Len(run) \in Nat
    BY <1>5
  <2> QED BY <1>1, <2>1, <2>2, <2>3 DEF IsSet
<1>8. Live(tab, Last(run))
  <2>1. Last(run) \in S
    BY <1>5, <1>6, <1>7 DEF Last
  <2> QED BY <2>1, <1>4 DEF LiveLocations, Live
<1> DEFINE u == Attach(tab, w, Last(run), Named)
           e == MappedIn(u.ws[w], toks, held, Len(run))
<1>9. tab' = WithSet(u, w, e)
  BY <1>6 DEF WithSet
<1>10. Attaching(tab, w, Last(run), Named, u)
  <2>1. IsFiniteSet(Named)
    BY NamedFinite
  <2> QED BY <2>1, <1>1, <1>6, <1>8, Attaches
<1> HIDE DEF u
<1>11. Cutting(tab, w, Last(run)[1], Len(run), Named, u, {}) /\ LiveLocations(u) = LiveLocations(tab)
  BY <1>6, <1>10 DEF Attaching
<1>12. Sound(u) /\ DOMAIN u.ws = DOMAIN tab.ws /\ u.ws[w].mapped = Len(run)
  BY <1>1, <1>11, CutSound
<1>13. /\ OtherSets(tab, u, w) /\ u.ws[w].logged = tab.ws[w].logged /\ u.ws[w].cuts = tab.ws[w].cuts
       /\ \A l \in LiveLocations(u) : l \in LiveLocations(tab) /\ Page(u, l) = Page(tab, l)
  <2>1. OtherSets(tab, u, w) /\ u.ws[w] = [tab.ws[w] EXCEPT !.terminal = u.ws[w].terminal, !.mapped = Len(run)]
    BY <1>11 DEF Cutting
  <2>2. u.ws[w].logged = tab.ws[w].logged /\ u.ws[w].cuts = tab.ws[w].cuts
    BY <2>1, <1>1 DEF IsSet
  <2> QED BY <2>1, <2>2, <1>11 DEF Cutting
<1>14. /\ IsSet(e) /\ IsLog(e) /\ e.terminal = u.ws[w].terminal /\ e.mapped = u.ws[w].mapped
       /\ e.owner = u.ws[w].owner /\ e.suspended = u.ws[w].suspended
  <2> DEFINE x == u.ws[w]
             pages == Len(run)
             n == (pages - held) * PageSize
             part == SubSeq(toks, 1, n)
             logged == LogRows(x.logged, held * PageSize, part)
             fo == Max({x.folded, pages * PageSize})
             pr == Max({x.prompt, pages})
             ta == pages * PageSize
  <2>1. IsSet(x) /\ IsLog(x)
    BY <1>1, <1>12, <1>13, SoundFacts DEF IsSets, IsLog
  <2>2. PageSize \in Nat /\ PageSize > 0
    BY KvAssumption
  <2>3. held * PageSize \in Nat /\ ta \in Nat
    BY <1>7, <2>2, SMTT(20)
  <2>4. n \in 0..Len(toks)
    <3> DEFINE d == pages - held
    <3>1. d \in Nat /\ d <= k
      <4>1. Len(found) \in Nat
        BY <1>3
      <4> QED BY <4>1, <1>3, <1>5, <1>6, <1>7
    <3> HIDE DEF d
    <3>2. d * PageSize \in Nat
      BY <3>1, <2>2
    <3>3. k * PageSize <= Len(toks) /\ k * PageSize \in Nat
      BY <1>7, <2>2
    <3>4. d * PageSize <= k * PageSize
      BY <3>1, <2>2, <1>7
    <3>5. d * PageSize \in 0..Len(toks)
      BY <3>2, <3>3, <3>4, <1>7
    <3> QED BY <3>5 DEF d
  <2> HIDE DEF n
  <2>5. part \in Seq(Tokens)
    BY <2>4, PartOf
  <2> HIDE DEF part
  <2>6. logged \in Seq(Tokens)
    BY <2>1, <2>3, <2>5, RowsLogged DEF IsLog
  <2> HIDE DEF logged
  <2>7. fo \in Nat /\ pr \in Nat
    BY <2>1, <2>3, <1>7, LargerOf DEF IsSet
  <2>8. e = [x EXCEPT !.folded = fo, !.prompt = pr, !.logged = logged, !.tail = ta]
    BY DEF MappedIn, logged, part, n
  <2> HIDE DEF e, x, fo, pr, ta
  <2>9. IsSet(e) /\ IsLog(e) /\ e.terminal = x.terminal /\ e.mapped = x.mapped /\ e.owner = x.owner
        /\ e.suspended = x.suspended
    BY <2>1, <2>3, <2>6, <2>7, <2>8 DEF IsSet, IsLog
  <2> QED BY <2>9 DEF x
<1> HIDE DEF e
<1>15. run \in Seq(LiveLocations(tab))
  BY <1>4, <1>5
<1>16. Supplied(w, run, u, e)
  BY <1>5, <1>6, <1>9, <1>11, <1>14, <1>15 DEF Supplied
<1> QED BY <1>16

(* Supply keeps the structure.                                              *)
LEMMA SupplyStruct ==
  ASSUME Struct, NEW w \in LiveSets, NEW toks \in Seq(Tokens), Supply(w, toks)
  PROVE  Struct'
<1> USE DEF Struct
<1>1. w \in DOMAIN tab.ws /\ Sound(tab) /\ Placed(tab)
  BY SetFacts DEF LiveSets
<1>2. UNCHANGED <<pool, slots, cache, epochs, fires, moves, away, used>>
  BY DEF Supply
<1>3. PICK run, u, e : Supplied(w, run, u, e)
  BY SupplyMaps
<1>11. Cutting(tab, w, Last(run)[1], Len(run), Named, u, {})
  BY <1>3 DEF Supplied
<1>12. Sound(u) /\ DOMAIN u.ws = DOMAIN tab.ws /\ u.ws[w].mapped = Len(run)
  BY <1>1, <1>11, CutSound
<1>13. /\ OtherSets(tab, u, w)
       /\ \A l \in LiveLocations(u) : l \in LiveLocations(tab) /\ Page(u, l) = Page(tab, l)
  BY <1>11 DEF Cutting
<1>14. /\ IsSet(e) /\ IsLog(e) /\ e.terminal = u.ws[w].terminal /\ e.mapped = u.ws[w].mapped
       /\ e.owner = u.ws[w].owner /\ e.suspended = u.ws[w].suspended
       /\ tab' = WithSet(u, w, e) /\ flat' = Refreshed({w}, tab')
  BY <1>3 DEF Supplied
<1>15. Tended(u, tab') /\ Replaced(u, tab', w, e)
  BY <1>1, <1>12, <1>14, TendedSet, SetPut, SoundFacts
<1>16. Placed(u)
  BY <1>1, <1>13 DEF Placed
<1>17. /\ Sound(tab') /\ Placed(tab') /\ DOMAIN tab'.ws = DOMAIN tab.ws /\ tab'.roots = tab.roots /\ tab'.pins = tab.pins
       /\ SameLens(tab, tab', {w})
  <2>1. Sound(tab') /\ DOMAIN tab'.ws = DOMAIN tab.ws /\ tab'.roots = tab.roots /\ tab'.pins = tab.pins
    BY <1>12, <1>13, <1>15 DEF Tended, OtherSets
  <2>2. SameLens(tab, tab', {w})
    BY <2>1, <1>12, <1>13, <1>15 DEF Tended, OtherSets, SameLens
  <2>3. Placed(tab')
    BY <1>15, <1>16 DEF Tended, ReadAlike, Placed
  <2> QED BY <2>1, <2>2, <2>3
<1>18. InvTable' /\ InvFlat'
  BY <1>14, <1>17, FlatRefreshed DEF InvTable
<1>19. InvPool' /\ InvUsed' /\ InvFires'
  BY <1>2, <1>17, PoolStays, UsedStays, FiresStay
<1>20. RootsExact(tab, cache)'
  BY <1>2, <1>17 DEF RootsExact
<1>21. InvMoves'
  <2>1. PinsExact(tab', moves)
    BY <1>17, HoldersSame DEF InvMoves
  <2> QED BY <2>1, <1>2 DEF InvMoves, IsMove
<1>22. InvLogs'
  <2>1. \A x \in DOMAIN tab.ws : x # w => tab'.ws[x] = tab.ws[x]
    BY <1>12, <1>13, <1>15 DEF Replaced, OtherSets
  <2>2. tab'.ws[w] = e
    BY <1>15 DEF Replaced
  <2> QED BY <2>1, <2>2, <1>14, <1>17, LogAdded
<1> QED BY <1>18, <1>19, <1>20, <1>21, <1>22

(* Pages that are all on the device.                                        *)
PagesHere(pages) ==
  IsPages(pages) /\ \A i \in 1..Len(pages) : IsBackingHere(pages[i].at) /\ OnDevice(pages[i].at)

(* What appending leaves, with what was to be freed before.                 *)
Rewritten(t, w, r) ==
  /\ Good(r) /\ OtherSets(t, r.t, w) /\ w \in DOMAIN r.t.ws
  /\ r.t.ws[w].logged = t.ws[w].logged /\ r.t.ws[w].cuts = t.ws[w].cuts

(* A device page is a backing of the pools.                                 *)
LEMMA DeviceHere ==
  ASSUME NEW p \in DevicePages, NEW k
  PROVE  IsPage([at |-> Device(p), key |-> k]) /\ IsBackingHere(Device(p)) /\ OnDevice(Device(p))
BY KvAssumption DEF IsPage, Device, OnDevice, IsBackingHere, DevicePages

(* Pages of the pools appended leave the table sound and placed.            *)
LEMMA AppendSound ==
  ASSUME NEW t, Sound(t), Placed(t), NEW w \in DOMAIN t.ws, NEW pages, PagesHere(pages), NEW named, NEW u,
         Appending(t, w, pages, named, u)
  PROVE  /\ Sound(u) /\ Placed(u) /\ OtherSets(t, u, w) /\ u.ws[w].mapped = t.ws[w].mapped + Len(pages)
         /\ u.ws[w].logged = t.ws[w].logged /\ u.ws[w].cuts = t.ws[w].cuts
<1> DEFINE old == Locations(t, t.ws[w].terminal)
           now == Locations(u, u.ws[w].terminal)
<1>1. /\ Trie(u) /\ IsSets(u) /\ OtherSets(t, u, w) /\ OthersRead(t, u, w)
      /\ u.ws[w] = [t.ws[w] EXCEPT !.terminal = u.ws[w].terminal, !.mapped = t.ws[w].mapped + Len(pages)]
      /\ Len(now) = Len(old) + Len(pages)
      /\ \A i \in 1..Len(pages) : Page(u, now[Len(old) + i]) = pages[i]
      /\ \A l \in LiveLocations(u) \ LiveLocations(t) : \E i \in 1..Len(pages) : l = now[Len(old) + i]
      /\ \A l \in LiveLocations(t) : Page(u, l) = Page(t, l)
  BY DEF Appending
<1>2. IsSet(t.ws[w]) /\ Len(old) = t.ws[w].mapped
  BY SoundFacts DEF IsSets, Sound, Sized
<1>3. u.ws[w].mapped = t.ws[w].mapped + Len(pages) /\ u.ws[w].logged = t.ws[w].logged /\ u.ws[w].cuts = t.ws[w].cuts
  BY <1>1, <1>2 DEF IsSet
<1>4. \A x \in DOMAIN t.ws : x # w => Locations(u, t.ws[x].terminal) = Locations(t, t.ws[x].terminal)
  BY <1>1, OthersSized
<1>5. Sized(u)
  BY <1>1, <1>2, <1>3, <1>4 DEF Sized, Sound, OtherSets
<1>6. Placed(u)
  <2> SUFFICES ASSUME NEW l \in LiveLocations(u) PROVE IsBackingHere(Page(u, l).at)
    BY DEF Placed
  <2>1. CASE l \in LiveLocations(t)
    BY <2>1, <1>1 DEF Placed
  <2>2. CASE l \notin LiveLocations(t)
    <3>1. PICK i \in 1..Len(pages) : l = now[Len(old) + i]
      BY <2>2, <1>1
    <3>2. Page(u, l) = pages[i]
      BY <3>1, <1>1
    <3> QED BY <3>2 DEF PagesHere
  <2> QED BY <2>1, <2>2
<1> QED BY <1>1, <1>3, <1>5, <1>6 DEF Sound

(* The copies of the pages from `from` on.                                  *)
CopiedPages(t, locs, from, ids) ==
  [i \in 1..(Len(locs) + 1 - from) |-> [at |-> Device(ids[i]), key |-> Page(t, locs[from + i - 1]).key]]

(* A list of pages of the pools.                                            *)
LEMMA ListHere ==
  ASSUME NEW n \in Nat, NEW pages, pages = [i \in 1..n |-> pages[i]],
         \A i \in 1..n : IsPage(pages[i]) /\ IsBackingHere(pages[i].at) /\ OnDevice(pages[i].at)
  PROVE  PagesHere(pages) /\ Len(pages) = n
<1>1. pages \in [1..n -> ToSet(pages)]
  BY DEF ToSet
<1>2. pages \in Seq(ToSet(pages)) /\ Len(pages) = n /\ DOMAIN pages = 1..n
  BY <1>1, ListOf
<1> QED BY <1>2 DEF PagesHere, IsPages

(* The table is as it was, or w's mapping is cut and goes on with pages on  *)
(* the device.                                                              *)
CopiedIn(t, w, r) ==
  \/ r.t = t
  \/ \E pages : \E from \in 0..t.ws[w].mapped : PagesHere(pages) /\ Retailed(t, w, from, pages, Named, r)

(* Copy-before-write keeps the table sound, whichever page it starts at.    *)
LEMMA CopiesMade ==
  ASSUME NEW t, Sound(t), Placed(t), NEW w \in DOMAIN t.ws, NEW from \in 1..(t.ws[w].mapped + 1),
         NEW ids \in Seq(DevicePages), t.ws[w].mapped + 1 - from <= Len(ids), IsFiniteSet(Named)
  PROVE  /\ Rewritten(t, w, Copied(t, w, WsLocations(t, w), from, ids))
         /\ CopiedIn(t, w, Copied(t, w, WsLocations(t, w), from, ids))
<1> DEFINE n == t.ws[w].mapped
           locs == WsLocations(t, w)
           r == Copied(t, w, locs, from, ids)
           k == n + 1 - from
           pages == CopiedPages(t, locs, from, ids)
<1>1. n \in Nat /\ Len(locs) = n
  BY WsLocationsAll
<1>2. CASE from = n + 1
  <2>1. r = Result(t, {})
    BY <1>1, <1>2 DEF Copied
  <2> QED BY <2>1 DEF Rewritten, Good, Result, OtherSets, CopiedIn
<1>3. CASE from # n + 1
  <2>1. from \in Nat /\ k \in Nat /\ from - 1 \in 0..n /\ k <= Len(ids)
    BY <1>1
  <2>2. r = ReplaceTail(t, w, from - 1, pages, Named)
    BY <1>1, <1>3 DEF Copied, CopiedPages
  <2>3. \A i \in 1..k : ids[i] \in DevicePages
    BY <2>1
  <2>4. pages = [i \in 1..k |-> [at |-> Device(ids[i]), key |-> Page(t, locs[from + i - 1]).key]]
    BY <1>1 DEF CopiedPages
  <2> HIDE DEF pages, k, locs, r, n
  <2>5. PagesHere(pages)
    <3>1. \A i \in 1..k : IsPage(pages[i]) /\ IsBackingHere(pages[i].at) /\ OnDevice(pages[i].at)
      BY <2>3, <2>4, DeviceHere
    <3>2. pages = [i \in 1..k |-> pages[i]]
      BY <2>4
    <3> QED BY <2>1, <3>1, <3>2, ListHere
  <2>6. Retailed(t, w, from - 1, pages, Named, r)
    <3>1. IsPages(pages)
      BY <2>5 DEF PagesHere
    <3> QED BY <2>1, <2>2, <3>1, Retails DEF n
  <2>7. PICK c : Cutting(t, w, t.ws[w].terminal, from - 1, Named, c, r.freed) /\ Appending(c, w, pages, Named, r.t)
    BY <2>6 DEF Retailed
  <2>8. Sound(c) /\ DOMAIN c.ws = DOMAIN t.ws
    BY <2>7, CutSound
  <2>9. Placed(c) /\ OtherSets(t, c, w) /\ c.ws[w].logged = t.ws[w].logged /\ c.ws[w].cuts = t.ws[w].cuts
    <3>1. /\ OtherSets(t, c, w) /\ c.ws[w] = [t.ws[w] EXCEPT !.terminal = c.ws[w].terminal, !.mapped = from - 1]
          /\ \A l \in LiveLocations(c) : l \in LiveLocations(t) /\ Page(c, l) = Page(t, l)
      BY <2>7 DEF Cutting
    <3>2. IsSet(t.ws[w])
      BY SoundFacts DEF IsSets
    <3> QED BY <3>1, <3>2 DEF IsSet, Placed
  <2>10. /\ Sound(r.t) /\ Placed(r.t) /\ OtherSets(c, r.t, w)
         /\ r.t.ws[w].logged = c.ws[w].logged /\ r.t.ws[w].cuts = c.ws[w].cuts
    BY <2>5, <2>7, <2>8, <2>9, AppendSound
  <2>11. \A b \in r.freed : IsBackingHere(b)
    <3>1. r.freed = Lost(t, c)
      BY <2>7 DEF Cutting
    <3> QED BY <3>1, LostPlaced
  <2>12. Rewritten(t, w, r)
    BY <2>9, <2>10, <2>11 DEF Rewritten, Good, OtherSets
  <2>13. CopiedIn(t, w, r)
    BY <2>1, <2>5, <2>6 DEF CopiedIn, n
  <2> QED BY <2>12, <2>13 DEF r, locs
<1> QED BY <1>2, <1>3

(* Pages backed after it keep it sound.                                     *)
LEMMA MoreBacked ==
  ASSUME NEW t, NEW w \in DOMAIN t.ws, NEW r, Rewritten(t, w, r), NEW ids \in Seq(DevicePages), IsFiniteSet(Named)
  PROVE  /\ Rewritten(t, w, Backed(r, w, ids))
         /\ \E pages : PagesHere(pages) /\ Appending(r.t, w, pages, Named, Backed(r, w, ids).t)
<1> DEFINE pages == [i \in DOMAIN ids |-> [at |-> Device(ids[i]), key |-> NoKey]]
           u == PublishAppended(r.t, w, pages, Named)
           n == Len(ids)
<1>1. n \in Nat /\ DOMAIN ids = 1..n /\ \A i \in 1..n : ids[i] \in DevicePages
  OBVIOUS
<1>2. Backed(r, w, ids) = Result(u, r.freed)
  BY DEF Backed, Then
<1> HIDE DEF n
<1>3. \A i \in 1..n : IsPage(pages[i]) /\ IsBackingHere(pages[i].at) /\ OnDevice(pages[i].at)
  BY <1>1, DeviceHere
<1>4. pages = [i \in 1..n |-> pages[i]]
  BY <1>1
<1> HIDE DEF pages
<1>5. PagesHere(pages)
  BY <1>1, <1>3, <1>4, ListHere
<1>6. Sound(r.t) /\ Placed(r.t) /\ w \in DOMAIN r.t.ws
  BY DEF Rewritten, Good
<1>7. Appending(r.t, w, pages, Named, u)
  <2>1. Trie(r.t) /\ IsSets(r.t) /\ IsPages(pages)
    BY <1>5, <1>6, SoundFacts DEF PagesHere
  <2> QED BY <2>1, <1>6, Appends
<1> HIDE DEF u
<1>8. /\ Sound(u) /\ Placed(u) /\ OtherSets(r.t, u, w)
      /\ u.ws[w].logged = r.t.ws[w].logged /\ u.ws[w].cuts = r.t.ws[w].cuts
  BY <1>5, <1>6, <1>7, AppendSound
<1>9. Rewritten(t, w, Result(u, r.freed))
  BY <1>8 DEF Rewritten, Good, Result, OtherSets
<1> QED BY <1>2, <1>5, <1>7, <1>9 DEF Result

(* The last items of a list.                                                *)
LEMMA RestOf ==
  ASSUME NEW S, NEW s \in Seq(S), NEW k \in 0..Len(s)
  PROVE  SubSeq(s, k + 1, Len(s)) \in Seq(S)
OBVIOUS

(* A flat table that is not stale has the mapped length.                    *)
LEMMA FlatLen ==
  ASSUME Struct, NEW w \in DOMAIN tab.ws, FlatTable(w) # Stale
  PROVE  FlatTable(w) \in [1..tab.ws[w].mapped -> DevicePages] /\ Len(FlatTable(w)) = tab.ws[w].mapped
<1>1. FlatTable(w) \in [1..tab.ws[w].mapped -> DevicePages]
  <2>1. CASE flat[w] = Stale
    <3>1. FlatFor(Flatten(tab, w), tab.ws[w].mapped)
      BY FlattenTyped DEF Struct, InvTable
    <3> QED BY <2>1, <3>1 DEF FlatTable, FlatFor
  <2>2. CASE flat[w] # Stale
    BY <2>2 DEF FlatTable, Struct, InvFlat
  <2> QED BY <2>1, <2>2
<1>2. tab.ws[w].mapped \in Nat
  BY SetFacts DEF Struct, IsSet
<1> QED BY <1>1, <1>2, ListOf

(* What a fire's preparation makes of the table: the pages it gets, where   *)
(* the copies begin and how many there are.                                 *)
FireFrom(f) == CopyFrom(tab, fires[f].ws, fires[f].start, End(f))
FireNeed(f) == Demand(tab, fires[f].ws, fires[f].start, End(f))
FireIds(f) == OneByOne(Lowest(FireNeed(f), fires[f].grant))
FireCopies(f) == Len(FlatTable(fires[f].ws)) + 1 - FireFrom(f)
FireCopied(f) == Copied(tab, fires[f].ws, WsLocations(tab, fires[f].ws), FireFrom(f), FireIds(f))
FireRest(f) == SubSeq(FireIds(f), FireCopies(f) + 1, Len(FireIds(f)))
FireTable(f) == Backed(FireCopied(f), fires[f].ws, FireRest(f))

(* What a fire's preparation counts with is in range: where it writes from, *)
(* the ids it was granted, the copies among them and the rest.              *)
LEMMA FireCounted ==
  ASSUME Struct, NEW f \in DOMAIN fires, FirePrepare(f)
  PROVE  /\ fires[f].ws \in DOMAIN tab.ws /\ Sound(tab) /\ Placed(tab) /\ IsFiniteSet(Named)
         /\ FireFrom(f) \in 1..(tab.ws[fires[f].ws].mapped + 1) /\ FireIds(f) \in Seq(DevicePages)
         /\ tab.ws[fires[f].ws].mapped + 1 - FireFrom(f) <= Len(FireIds(f))
         /\ FireCopies(f) \in 0..Len(FireIds(f)) /\ FireRest(f) \in Seq(DevicePages)
<1> DEFINE w == fires[f].ws
           G == fires[f].grant
           T == Lowest(FireNeed(f), G)
<1> USE DEF Struct
<1>1. fires[f].phase = "granted" /\ FireNeed(f) <= Cardinality(G) /\ FlatTable(w) # Stale
  BY DEF FirePrepare, FireNeed
<1>2. w \in DOMAIN tab.ws /\ fires[f].start \in Nat /\ End(f) \in Nat /\ G \subseteq DevicePages
  BY <1>1, FireFacts
<1>3. Sound(tab) /\ Placed(tab) /\ tab.ws[w].mapped \in Nat /\ IsFiniteSet(Named)
  BY <1>2, SetFacts, NamedFinite DEF IsSet, InvTable
<1>4. FireFrom(f) \in 1..(tab.ws[w].mapped + 1) /\ FireNeed(f) \in Nat /\ tab.ws[w].mapped + 1 - FireFrom(f) <= FireNeed(f)
  BY <1>2, <1>3, DemandCounted DEF FireFrom, FireNeed
<1>5. Len(FlatTable(w)) = tab.ws[w].mapped
  BY <1>1, <1>2, FlatLen
<1>6. FireIds(f) \in Seq(DevicePages) /\ Len(FireIds(f)) = FireNeed(f)
  <2>1. IsFiniteSet(DevicePages) /\ DevicePages \subseteq Nat
    <3>1. NumPages \in Nat
      BY KvAssumption
    <3> QED BY <3>1, FS_Interval DEF DevicePages
  <2>2. IsFiniteSet(G) /\ Cardinality(G) \in Nat /\ G \in SUBSET Nat
    BY <1>2, <2>1, FS_Subset, FS_CardinalityType
  <2>3. FireNeed(f) \in 0..Cardinality(G)
    BY <1>1, <1>4, <2>2
  <2>4. LowestOf(FireNeed(f), G, T)
    BY <2>2, <2>3, LowestFound
  <2>5. T \subseteq G /\ Cardinality(T) = FireNeed(f) /\ IsFiniteSet(T)
    BY <2>2, <2>4, FS_Subset DEF LowestOf
  <2> HIDE DEF T
  <2>6. SetToSeq(T) \in Seq(T) /\ Len(SetToSeq(T)) = FireNeed(f)
    BY <2>5, ListedLen
  <2>7. SetToSeq(T) \in Seq(DevicePages)
    BY <2>6, <2>5, <1>2
  <2> QED BY <2>6, <2>7 DEF T, OneByOne, FireIds
<1>7. FireCopies(f) \in 0..Len(FireIds(f))
  BY <1>3, <1>4, <1>5, <1>6 DEF FireCopies
<1>8. FireRest(f) \in Seq(DevicePages)
  BY <1>6, <1>7, RestOf DEF FireRest
<1> QED BY <1>2, <1>3, <1>4, <1>6, <1>7, <1>8

(* FirePrepare keeps the structure.                                         *)
LEMMA FirePrepareStruct ==
  ASSUME Struct, NEW f \in DOMAIN fires, FirePrepare(f)
  PROVE  Struct'
<1> DEFINE w == fires[f].ws
           ids == FireIds(f)
           from == FireFrom(f)
           old == FlatTable(w)
           copies == FireCopies(f)
           epoch == IF copies > 0 THEN seq + 1 ELSE seq
           r1 == FireCopied(f)
           r == FireTable(f)
           g == [fires[f] EXCEPT !.phase = "prepared", !.grant = @ \ ToSet(ids),
                                 !.seq = IF copies > 0 THEN epoch ELSE 0,
                                 !.copies = CopyPlan(old, from, ids, copies)]
<1> USE DEF Struct
<1>1. fires[f].phase = "granted"
  BY DEF FirePrepare
<1>2. /\ IsFire(fires[f]) /\ w \in DOMAIN tab.ws /\ fires[f].start \in Nat /\ End(f) \in Nat
      /\ fires[f].grant \subseteq DevicePages
  BY <1>1, FireFacts
<1>3. /\ PrepareWrite(f, w, old, from, ids)
      /\ UNCHANGED <<free, cache, moves, away, used>>
  BY DEF FirePrepare, FireIds, FireFrom, FireNeed
<1>4. /\ Published(r, epoch) /\ flat' = Refreshed({w}, tab') /\ seq' = epoch
      /\ outstanding' = (IF copies > 0 THEN outstanding \cup {epoch} ELSE outstanding)
      /\ fires' = [fires EXCEPT ![f] = g]
  <2>1. /\ Published(r, epoch) /\ flat' = Refreshed({w}, tab') /\ seq' = epoch
        /\ outstanding' = (IF copies > 0 THEN outstanding \cup {epoch} ELSE outstanding)
    BY <1>3 DEF PrepareWrite, FireTable, FireCopied, FireRest, FireCopies
  <2>2. fires' = [fires EXCEPT ![f] = g]
    BY <1>3 DEF PrepareWrite, FireCopies
  <2> QED BY <2>1, <2>2
<1>5. /\ Sound(tab) /\ Placed(tab) /\ IsFiniteSet(Named) /\ from \in 1..(tab.ws[w].mapped + 1)
      /\ ids \in Seq(DevicePages) /\ tab.ws[w].mapped + 1 - from <= Len(ids)
      /\ copies \in 0..Len(ids) /\ FireRest(f) \in Seq(DevicePages)
  BY FireCounted
<1> HIDE DEF from, old, ids
<1>10. Rewritten(tab, w, r1)
  BY <1>2, <1>5, CopiesMade DEF FireCopied, ids, from
<1> HIDE DEF copies, r1
<1>11. Rewritten(tab, w, r)
  BY <1>2, <1>5, <1>10, MoreBacked DEF FireTable, r1
<1> HIDE DEF r
<1>12. /\ Good(r) /\ OtherSets(tab, r.t, w) /\ r.t.ws[w].logged = tab.ws[w].logged /\ r.t.ws[w].cuts = tab.ws[w].cuts
  BY <1>11 DEF Rewritten
<1>13. tab' = r.t /\ pending' = Recycled(epoch, r.freed) /\ slots' = slots \cup SlotsOf(r.freed)
  BY <1>4 DEF Published
<1>14. Sound(tab') /\ Placed(tab') /\ SameLens(tab, tab', {w}) /\ DOMAIN tab'.ws = DOMAIN tab.ws
       /\ tab'.roots = tab.roots /\ tab'.pins = tab.pins
  BY <1>12, <1>13 DEF Good, OtherSets, SameLens
<1>15. InvTable' /\ InvFlat'
  BY <1>4, <1>14, FlatRefreshed DEF InvTable
<1>16. epoch \in Nat /\ InvPool'
  <2>1. epoch \in Nat
    BY DEF InvPool
  <2>2. DeviceOf(r.freed) \subseteq DevicePages /\ SlotsOf(r.freed) \subseteq Slots
    BY <1>12, ReturnedTyped DEF Good
  <2> HIDE DEF epoch
  <2>3. pending' \subseteq Nat \X DevicePages
    BY <2>1, <2>2, <1>13 DEF Recycled, InvPool
  <2>4. outstanding' \subseteq Nat
    BY <2>1, <1>4 DEF InvPool
  <2> QED BY <2>1, <2>2, <2>3, <2>4, <1>3, <1>4, <1>13 DEF InvPool
<1>17. IsFire(g) /\ g.ws = w
  <2> DEFINE s == IF copies > 0 THEN epoch ELSE 0
             cp == CopyPlan(old, from, ids, copies)
             gr == fires[f].grant \ ToSet(ids)
  <2>1. s \in Nat /\ gr \subseteq DevicePages
    BY <1>2, <1>16
  <2>2. g = [fires[f] EXCEPT !.phase = "prepared", !.grant = gr, !.seq = s, !.copies = cp]
    OBVIOUS
  <2> HIDE DEF s, cp, gr, g
  <2> QED BY <1>2, <2>1, <2>2 DEF IsFire
<1> HIDE DEF g
<1>18. InvFires' /\ DOMAIN fires' \subseteq DOMAIN fires
  BY <1>2, <1>4, <1>14, <1>17, FireReplaced
<1>19. InvUsed'
  BY <1>3, <1>14, <1>18, UsedStays
<1>20. RootsExact(tab, cache)'
  BY <1>3, <1>14 DEF RootsExact
<1>21. InvMoves'
  <2>1. PinsExact(tab', moves)
    BY <1>14, HoldersSame DEF InvMoves
  <2> QED BY <2>1, <1>3 DEF InvMoves, IsMove
<1>22. InvLogs'
  <2>1. \A x \in DOMAIN tab.ws : tab'.ws[x].logged = tab.ws[x].logged /\ tab'.ws[x].cuts = tab.ws[x].cuts
    BY <1>12, <1>13 DEF OtherSets
  <2> QED BY <2>1, <1>14, LogsStay
<1> QED BY <1>15, <1>16, <1>18, <1>19, <1>20, <1>21, <1>22
=============================================================================
