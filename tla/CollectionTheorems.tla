------------------------- MODULE CollectionTheorems -------------------------
(***************************************************************************)
(* Sequences and sums, for the proofs about the modules that queue and     *)
(* count.  First, what is left of a sequence when one of its elements is   *)
(* taken out, put in or when it is put in another order.  Then sums over   *)
(* finite sets as the community modules define them: a fold that takes the *)
(* elements of the set in an order of its own.  The fold is shown to       *)
(* exist, not to depend on that order, and to follow the change of a       *)
(* summand, the split of the set and the renaming of its elements.  What   *)
(* holds of every finite set is shown by way of a smallest set that is an  *)
(* exception.                                                              *)
(***************************************************************************)
EXTENDS Integers, Sequences, FiniteSets, SequencesExt, FiniteSetsExt, Functions, TLAPS,
        WellFoundedInduction, FiniteSetTheorems, FunctionTheorems, SequenceTheorems

LEMMA SeqIndexed ==
  ASSUME NEW S, NEW s \in Seq(S)
  PROVE  /\ Len(s) \in Nat /\ DOMAIN s = 1..Len(s)
         /\ \A i \in DOMAIN s : s[i] \in S
         /\ ToSet(s) \subseteq S
BY DEF ToSet

(* Every non-empty set of positions has a first one.                       *)
LEMMA Least ==
  ASSUME NEW T \in SUBSET Nat, T # {}
  PROVE  \E i \in T : \A j \in T : i <= j
<1> DEFINE R == {ab \in Nat \X Nat : ab[1] < ab[2]}
<1>0. IsWellFoundedOn(R, Nat)
  BY NatLessThanWellFounded DEF OpToRel
<1> HIDE DEF R
<1>1. PICK i \in T : \A j \in T : ~(<<j, i>> \in R)
  BY <1>0, WFMin
<1>2. ASSUME NEW j \in T PROVE i <= j
  <2>1. i \in Nat /\ j \in Nat
    OBVIOUS
  <2>2. <<j, i>> \in Nat \X Nat /\ <<j, i>>[1] = j /\ <<j, i>>[2] = i
    BY <2>1
  <2>3. ~(j < i)
    BY <1>1, <2>2 DEF R
  <2> QED BY <2>1, <2>3
<1> QED BY <1>2

LEMMA CountTo == ASSUME NEW n \in Nat PROVE IsFiniteSet(1..n) /\ Cardinality(1..n) = n
BY FS_Interval

(* Every element of a finite set, once each, in a sequence.                *)
LEMMA SetListed ==
  ASSUME NEW S, IsFiniteSet(S)
  PROVE  /\ SetToSeq(S) \in Seq(S) /\ ToSet(SetToSeq(S)) = S
         /\ \A i, j \in DOMAIN SetToSeq(S) : SetToSeq(S)[i] = SetToSeq(S)[j] => i = j
<1> DEFINE n == Cardinality(S)
           t == SetToSeq(S)
<1>1. n \in Nat /\ ExistsBijection(1..n, S)
  BY FS_CardinalityType
<1>2. PICK f : f \in Bijection(1..n, S)
  BY <1>1 DEF ExistsBijection
<1>3. f \in [1..n -> S] /\ IsInjective(f)
  BY <1>2 DEF Bijection, Injection
<1>4. t \in [1..n -> S] /\ IsInjective(t)
  BY <1>3 DEF SetToSeq
<1>5. IsFiniteSet(1..n) /\ Cardinality(1..n) = n
  BY <1>1, CountTo
<1> HIDE DEF t
<1>6. t \in Surjection(1..n, S)
  <2>1. t \in Injection(1..n, S)
    BY <1>4 DEF Injection
  <2> QED BY <1>5, <2>1, FS_Injection
<1>7. ToSet(t) = S
  BY <1>4, <1>6 DEF Surjection, ToSet
<1>8. t \in Seq(S)
  <2> HIDE DEF n
  <2> QED BY <1>1, <1>4, SeqDef
<1> QED BY <1>4, <1>7, <1>8 DEF t, IsInjective

(* Taking one out of the middle leaves the others.                         *)
LEMMA RemoveItems ==
  ASSUME NEW S, NEW s \in Seq(S), NEW i \in DOMAIN s
  PROVE  /\ RemoveAt(s, i) \in Seq(S)
         /\ Len(RemoveAt(s, i)) = Len(s) - 1 /\ DOMAIN RemoveAt(s, i) = 1..(Len(s) - 1)
         /\ \A k \in 1..(Len(s) - 1) :
              /\ k \in Nat /\ k + 1 \in DOMAIN s /\ k \in DOMAIN s
              /\ RemoveAt(s, i)[k] = s[IF k < i THEN k ELSE k + 1]
         /\ \A j \in DOMAIN s : j # i => \E k \in 1..(Len(s) - 1) : RemoveAt(s, i)[k] = s[j]
<1>1. /\ Len(s) \in Nat /\ DOMAIN s = 1..Len(s) /\ i \in 1..Len(s) /\ i \in Nat
      /\ \A k \in 1..Len(s) : s[k] \in S
  BY SeqIndexed
<1> DEFINE t == RemoveAt(s, i)
           a == SubSeq(s, 1, i - 1)
           b == SubSeq(s, i + 1, Len(s))
<1>2. /\ a \in Seq(S) /\ Len(a) = i - 1
      /\ \A k \in 1..(i - 1) : a[k] = s[k]
  <2>1. \A k \in 1..(i - 1) : s[k] \in S
    BY <1>1
  <2>2. /\ a \in Seq(S) /\ Len(a) = (IF 1 <= i - 1 THEN (i - 1) - 1 + 1 ELSE 0)
        /\ \A k \in 1..((i - 1) - 1 + 1) : a[k] = s[1 + k - 1]
    BY <1>1, <2>1, SubSeqProperties
  <2> HIDE DEF a
  <2> QED BY <1>1, <2>2
<1>3. /\ b \in Seq(S) /\ Len(b) = Len(s) - i
      /\ \A k \in 1..(Len(s) - i) : b[k] = s[i + k]
  <2>1. \A k \in (i + 1)..Len(s) : s[k] \in S
    BY <1>1
  <2>2. /\ b \in Seq(S) /\ Len(b) = (IF i + 1 <= Len(s) THEN Len(s) - (i + 1) + 1 ELSE 0)
        /\ \A k \in 1..(Len(s) - (i + 1) + 1) : b[k] = s[(i + 1) + k - 1]
    BY <1>1, <2>1, SubSeqProperties
  <2> HIDE DEF b
  <2>3. Len(s) - (i + 1) + 1 = Len(s) - i /\ \A k \in Nat : (i + 1) + k - 1 = i + k
    BY <1>1
  <2>4. Len(b) = Len(s) - i
    BY <1>1, <2>2
  <2>5. ASSUME NEW k \in 1..(Len(s) - i) PROVE b[k] = s[i + k]
    <3>1. k \in 1..(Len(s) - (i + 1) + 1) /\ (i + 1) + k - 1 = i + k
      BY <1>1, <2>3
    <3> QED BY <2>2, <3>1
  <2> QED BY <2>2, <2>4, <2>5
<1>4. t = a \o b
  BY DEF RemoveAt
<1> HIDE DEF a, b, t
<1>5. /\ t \in Seq(S) /\ Len(t) = Len(a) + Len(b)
      /\ \A k \in 1..(Len(a) + Len(b)) : t[k] = IF k <= Len(a) THEN a[k] ELSE b[k - Len(a)]
  <2>1. /\ a \o b \in Seq(S) /\ Len(a \o b) = Len(a) + Len(b)
        /\ \A k \in 1..(Len(a) + Len(b)) :
             (a \o b)[k] = IF k <= Len(a) THEN a[k] ELSE b[k - Len(a)]
    BY <1>2, <1>3, ConcatProperties
  <2> QED BY <1>4, <2>1
<1>6. /\ Len(t) = Len(s) - 1 /\ DOMAIN t = 1..(Len(s) - 1)
  BY <1>1, <1>2, <1>3, <1>5, SeqIndexed
<1>7. ASSUME NEW k \in 1..(Len(s) - 1)
      PROVE  /\ k \in Nat /\ k + 1 \in DOMAIN s /\ k \in DOMAIN s
             /\ t[k] = s[IF k < i THEN k ELSE k + 1]
  <2>1. CASE k < i
    BY <1>1, <1>2, <1>3, <1>5, <2>1
  <2>2. CASE ~(k < i)
    <3>1. k - (i - 1) \in 1..(Len(s) - i) /\ i + (k - (i - 1)) = k + 1 /\ ~(k <= i - 1)
      BY <1>1, <2>2
    <3>2. k \in 1..(Len(a) + Len(b)) /\ Len(a) = i - 1
      BY <1>1, <1>2, <1>3
    <3>3. t[k] = b[k - (i - 1)]
      BY <1>5, <3>1, <3>2
    <3>4. b[k - (i - 1)] = s[k + 1]
      BY <1>3, <3>1
    <3>5. k \in Nat /\ k + 1 \in DOMAIN s /\ k \in DOMAIN s
      BY <1>1
    <3> QED BY <2>2, <3>3, <3>4, <3>5
  <2> QED BY <2>1, <2>2
<1>8. ASSUME NEW j \in DOMAIN s, j # i PROVE \E k \in 1..(Len(s) - 1) : t[k] = s[j]
  <2>1. CASE j < i
    <3>1. j \in 1..(Len(s) - 1)
      BY <1>1, <2>1
    <3> QED BY <1>6, <1>7, <2>1, <3>1
  <2>2. CASE ~(j < i)
    <3>1. j - 1 \in 1..(Len(s) - 1) /\ ~(j - 1 < i) /\ (j - 1) + 1 = j
      BY <1>1, <1>8, <2>2
    <3> QED BY <1>6, <1>7, <3>1
  <2> QED BY <2>1, <2>2
<1> QED BY <1>5, <1>6, <1>7, <1>8 DEF t

(* Putting one in moves those behind it up by one.                         *)
LEMMA InsertItems ==
  ASSUME NEW S, NEW s \in Seq(S), NEW e \in S, NEW i \in 1..(Len(s) + 1)
  PROVE  /\ InsertAt(s, i, e) \in Seq(S)
         /\ DOMAIN InsertAt(s, i, e) = 1..(Len(s) + 1)
         /\ InsertAt(s, i, e)[i] = e
         /\ \A k \in DOMAIN s : k < i => InsertAt(s, i, e)[k] = s[k]
         /\ \A k \in DOMAIN s : ~(k < i) => InsertAt(s, i, e)[k + 1] = s[k]
<1>1. /\ Len(s) \in Nat /\ DOMAIN s = 1..Len(s) /\ i \in Nat /\ i <= Len(s) + 1 /\ 1 <= i
      /\ \A k \in 1..Len(s) : s[k] \in S
  BY SeqIndexed
<1> DEFINE t == InsertAt(s, i, e)
           a == SubSeq(s, 1, i - 1)
           b == SubSeq(s, i, Len(s))
           ae == a \o <<e>>
<1>2. /\ a \in Seq(S) /\ Len(a) = i - 1
      /\ \A k \in 1..(i - 1) : a[k] = s[k]
  <2>1. \A k \in 1..(i - 1) : s[k] \in S
    BY <1>1
  <2>2. /\ a \in Seq(S) /\ Len(a) = (IF 1 <= i - 1 THEN (i - 1) - 1 + 1 ELSE 0)
        /\ \A k \in 1..((i - 1) - 1 + 1) : a[k] = s[1 + k - 1]
    BY <1>1, <2>1, SubSeqProperties
  <2> HIDE DEF a
  <2> QED BY <1>1, <2>2
<1>3. /\ b \in Seq(S) /\ Len(b) = Len(s) - i + 1
      /\ \A k \in 1..(Len(s) - i + 1) : b[k] = s[i + k - 1]
  <2>1. \A k \in i..Len(s) : s[k] \in S
    BY <1>1
  <2>2. /\ b \in Seq(S) /\ Len(b) = (IF i <= Len(s) THEN Len(s) - i + 1 ELSE 0)
        /\ \A k \in 1..(Len(s) - i + 1) : b[k] = s[i + k - 1]
    BY <1>1, <2>1, SubSeqProperties
  <2> HIDE DEF b
  <2>4. Len(b) = Len(s) - i + 1
    BY <1>1, <2>2
  <2> QED BY <2>2, <2>4
<1>4. t = ae \o b
  BY DEF InsertAt
<1>5. <<e>> \in Seq(S) /\ Len(<<e>>) = 1 /\ <<e>>[1] = e
  OBVIOUS
<1> HIDE DEF a, b, t
<1>6. /\ ae \in Seq(S) /\ Len(ae) = i
      /\ \A k \in 1..i : ae[k] = IF k <= i - 1 THEN a[k] ELSE e
  <2>1. /\ ae \in Seq(S) /\ Len(ae) = Len(a) + Len(<<e>>)
        /\ \A k \in 1..(Len(a) + Len(<<e>>)) :
             ae[k] = IF k <= Len(a) THEN a[k] ELSE <<e>>[k - Len(a)]
    BY <1>2, <1>5, ConcatProperties
  <2>2. Len(a) + Len(<<e>>) = i /\ Len(a) = i - 1
    BY <1>1, <1>2, <1>5
  <2> HIDE DEF ae
  <2>3. ASSUME NEW k \in 1..i PROVE ae[k] = IF k <= i - 1 THEN a[k] ELSE e
    <3>1. ~(k <= i - 1) => k - Len(a) = 1
      BY <1>1, <2>2
    <3> QED BY <1>5, <2>1, <2>2, <3>1
  <2> QED BY <2>1, <2>2, <2>3
<1> HIDE DEF ae
<1>7. /\ t \in Seq(S) /\ Len(t) = Len(s) + 1
      /\ \A k \in 1..(Len(s) + 1) : t[k] = IF k <= i THEN ae[k] ELSE b[k - i]
  <2>1. /\ ae \o b \in Seq(S) /\ Len(ae \o b) = Len(ae) + Len(b)
        /\ \A k \in 1..(Len(ae) + Len(b)) :
             (ae \o b)[k] = IF k <= Len(ae) THEN ae[k] ELSE b[k - Len(ae)]
    BY <1>3, <1>6, ConcatProperties
  <2>2. Len(ae) + Len(b) = Len(s) + 1
    BY <1>1, <1>3, <1>6
  <2> QED BY <1>4, <1>6, <2>1, <2>2
<1>8. DOMAIN t = 1..(Len(s) + 1)
  BY <1>7, SeqIndexed
<1>9. t[i] = e
  BY <1>1, <1>6, <1>7
<1>10. ASSUME NEW k \in DOMAIN s, k < i PROVE t[k] = s[k]
  <2>1. k \in 1..(Len(s) + 1) /\ k <= i /\ k \in 1..i /\ k \in 1..(i - 1) /\ k <= i - 1
    BY <1>1, <1>10
  <2> QED BY <1>2, <1>6, <1>7, <2>1
<1>11. ASSUME NEW k \in DOMAIN s, ~(k < i) PROVE t[k + 1] = s[k]
  <2>1. /\ k + 1 \in 1..(Len(s) + 1) /\ ~(k + 1 <= i) /\ (k + 1) - i \in 1..(Len(s) - i + 1)
        /\ i + ((k + 1) - i) - 1 = k
    BY <1>1, <1>11
  <2> QED BY <1>3, <1>7, <2>1
<1> QED BY <1>7, <1>8, <1>9, <1>10, <1>11 DEF t

(* The first and the last of a set of positions.                           *)
LEMMA FirstPosition ==
  ASSUME NEW T \in SUBSET Nat, T # {}
  PROVE  Min(T) \in T /\ \A j \in T : Min(T) <= j
BY Least DEF Min

LEMMA LastPosition ==
  ASSUME NEW n \in Nat, NEW T \in SUBSET (0..n), T # {}
  PROVE  Max(T) \in T /\ \A j \in T : j <= Max(T)
<1> DEFINE U == {n - i : i \in T}
<1>1. U \in SUBSET Nat /\ U # {}
  <2>1. \A i \in T : n - i \in Nat
    OBVIOUS
  <2>2. U \in SUBSET Nat
    BY <2>1
  <2>3. U # {}
    OBVIOUS
  <2> QED BY <2>2, <2>3
<1>2. PICK u \in U : \A v \in U : u <= v
  <2> HIDE DEF U
  <2> QED BY <1>1, Least
<1>3. PICK i \in T : u = n - i
  BY <1>2
<1>4. ASSUME NEW j \in T PROVE j <= i
  <2>1. n - j \in U
    OBVIOUS
  <2>2. n - i <= n - j
    BY <1>2, <1>3, <2>1
  <2> QED BY <2>2
<1>5. \E x \in T : \A y \in T : x >= y
  BY <1>4
<1>6. Max(T) \in T /\ \A y \in T : Max(T) >= y
  BY <1>5 DEF Max
<1> QED BY <1>6
-----------------------------------------------------------------------------
(* Sums. *)

Picked(s) == CHOOSE x \in s : TRUE

(* g adds up f over the subsets of S.                                      *)
AddsUp(g, f, S) ==
  g = [s \in SUBSET S |-> IF s = {} THEN 0 ELSE f[Picked(s)] + g[s \ {Picked(s)}]]

(* The finite sets of a family that is not empty have a smallest one.      *)
LEMMA SmallestSet ==
  ASSUME NEW S, IsFiniteSet(S), NEW Q \in SUBSET (SUBSET S), Q # {}
  PROVE  \E T \in Q : \A U \in Q : U \subseteq T => U = T
<1>1. Q \subseteq FiniteSubsetsOf(S)
  BY FS_Subset DEF FiniteSubsetsOf
<1>2. IsWellFoundedOn(StrictSubsetOrdering(S), FiniteSubsetsOf(S))
  BY FS_StrictSubsetOrderingWellFounded
<1>3. PICK T \in Q : \A U \in Q : ~(<<U, T>> \in StrictSubsetOrdering(S))
  BY <1>1, <1>2, WFMin
<1>4. ASSUME NEW U \in Q, U \subseteq T PROVE U = T
  <2>1. <<U, T>> \in (SUBSET S) \X (SUBSET S) /\ <<U, T>>[1] = U /\ <<U, T>>[2] = T
    OBVIOUS
  <2>2. ~(<<U, T>> \in StrictSubsetOrdering(S))
    BY <1>3
  <2> QED
    BY <1>4, <2>1, <2>2 DEF StrictSubsetOrdering
<1> QED
  BY <1>4

LEMMA PickedIn == ASSUME NEW s, s # {} PROVE Picked(s) \in s
BY DEF Picked

(* What adds up f over S adds it up over a part of S.                      *)
LEMMA AddsUpPart ==
  ASSUME NEW S, NEW T \in SUBSET S, NEW f, NEW g, AddsUp(g, f, S)
  PROVE  AddsUp([s \in SUBSET T |-> g[s]], f, T)
<1> DEFINE h == [s \in SUBSET T |-> g[s]]
<1>1. ASSUME NEW s \in SUBSET T
      PROVE  h[s] = IF s = {} THEN 0 ELSE f[Picked(s)] + h[s \ {Picked(s)}]
  <2>1. s \in SUBSET S /\ s \ {Picked(s)} \in SUBSET T
    OBVIOUS
  <2>2. g[s] = IF s = {} THEN 0 ELSE f[Picked(s)] + g[s \ {Picked(s)}]
    BY <2>1 DEF AddsUp
  <2> QED
    BY <2>1, <2>2
<1>2. h = [s \in SUBSET T |-> IF s = {} THEN 0 ELSE f[Picked(s)] + h[s \ {Picked(s)}]]
  BY <1>1
<1> QED
  BY <1>2 DEF AddsUp

(* Two that add up f over S agree.                                         *)
LEMMA AddsUpUnique ==
  ASSUME NEW S, IsFiniteSet(S), NEW f, NEW g, NEW h, AddsUp(g, f, S), AddsUp(h, f, S)
  PROVE  \A s \in SUBSET S : g[s] = h[s]
<1> DEFINE Q == {s \in SUBSET S : g[s] # h[s]}
<1>1. SUFFICES ASSUME Q # {} PROVE FALSE
  OBVIOUS
<1>2. PICK T \in Q : \A U \in Q : U \subseteq T => U = T
  <2>1. Q \in SUBSET (SUBSET S)
    OBVIOUS
  <2> HIDE DEF Q
  <2> QED
    BY <1>1, <2>1, SmallestSet
<1>3. /\ g[T] = IF T = {} THEN 0 ELSE f[Picked(T)] + g[T \ {Picked(T)}]
      /\ h[T] = IF T = {} THEN 0 ELSE f[Picked(T)] + h[T \ {Picked(T)}]
  BY DEF AddsUp
<1>4. T # {}
  BY <1>2, <1>3
<1>5. T \ {Picked(T)} \in SUBSET S /\ T \ {Picked(T)} # T
  BY <1>4, PickedIn
<1>6. g[T \ {Picked(T)}] = h[T \ {Picked(T)}]
  BY <1>2, <1>5
<1> QED
  BY <1>2, <1>3, <1>4, <1>6

(* The sum over S exists.                                                  *)
LEMMA AddsUpExists ==
  ASSUME NEW S, IsFiniteSet(S), NEW f
  PROVE  \E g : AddsUp(g, f, S)
<1> DEFINE Q == {T \in SUBSET S : ~\E g : AddsUp(g, f, T)}
<1>1. SUFFICES ASSUME Q # {} PROVE FALSE
  OBVIOUS
<1>2. PICK T \in Q : \A U \in Q : U \subseteq T => U = T
  <2>1. Q \in SUBSET (SUBSET S)
    OBVIOUS
  <2> HIDE DEF Q
  <2> QED
    BY <1>1, <2>1, SmallestSet
<1>3. \A U \in SUBSET T : U # T => \E g : AddsUp(g, f, U)
  BY <1>2
<1> DEFINE G(U) == CHOOSE g : AddsUp(g, f, U)
           v(s) == IF s = {} THEN 0 ELSE f[Picked(s)] + G(s \ {Picked(s)})[s \ {Picked(s)}]
           h == [s \in SUBSET T |-> v(s)]
<1>4. \A U \in SUBSET T : U # T => AddsUp(G(U), f, U)
  BY <1>3
<1>5. ASSUME NEW U \in SUBSET T, U # T PROVE G(U)[U] = v(U)
  <2>1. AddsUp(G(U), f, U)
    BY <1>4, <1>5
  <2> HIDE DEF G
  <2>2. G(U)[U] = IF U = {} THEN 0 ELSE f[Picked(U)] + G(U)[U \ {Picked(U)}]
    BY <2>1 DEF AddsUp
  <2>3. CASE U = {}
    BY <2>2, <2>3
  <2>4. CASE U # {}
    <3> DEFINE W == U \ {Picked(U)}
    <3>0. W # T
      BY <1>5
    <3>1. W \in SUBSET U /\ W \in SUBSET T /\ W # T /\ W \in SUBSET S
      BY <3>0
    <3>2. AddsUp(G(W), f, W)
      BY <1>4, <3>1
    <3>3. AddsUp([s \in SUBSET W |-> G(U)[s]], f, W)
      <4> HIDE DEF W
      <4> QED
        BY <2>1, <3>1, AddsUpPart
    <3>4. IsFiniteSet(W)
      BY <3>1, FS_Subset
    <3>5. [s \in SUBSET W |-> G(U)[s]][W] = G(W)[W]
      BY <3>2, <3>3, <3>4, AddsUpUnique
    <3>6. G(U)[W] = G(W)[W]
      BY <3>5
    <3> QED
      BY <2>2, <2>4, <3>6
  <2> QED
    BY <2>3, <2>4
<1>6. ASSUME NEW s \in SUBSET T
      PROVE  h[s] = IF s = {} THEN 0 ELSE f[Picked(s)] + h[s \ {Picked(s)}]
  <2>1. CASE s = {}
    BY <2>1
  <2>2. CASE s # {}
    <3> DEFINE W == s \ {Picked(s)}
    <3>1. W \in SUBSET T /\ W # T
      BY <2>2, PickedIn
    <3>2. h[W] = G(W)[W]
      BY <1>5, <3>1
    <3> HIDE DEF G
    <3>3. h[s] = f[Picked(s)] + G(W)[W]
      BY <2>2
    <3> QED
      BY <2>2, <3>2, <3>3
  <2> QED
    BY <2>1, <2>2
<1> HIDE DEF v
<1>7. h = [s \in SUBSET T |-> IF s = {} THEN 0 ELSE f[Picked(s)] + h[s \ {Picked(s)}]]
  BY <1>6
<1>8. AddsUp(h, f, T)
  BY <1>7 DEF AddsUp
<1> QED
  BY <1>2, <1>8

(* The sum over S takes the elements of S one by one, in its own order.    *)
LEMMA SumUnfolds ==
  ASSUME NEW S, IsFiniteSet(S), NEW f
  PROVE  SumFunctionOnSet(f, S) = IF S = {} THEN 0
           ELSE f[Picked(S)] + SumFunctionOnSet(f, S \ {Picked(S)})
<1> DEFINE G(U) == CHOOSE g : AddsUp(g, f, U)
           T == S \ {Picked(S)}
<1>1. \A U : SumFunctionOnSet(f, U) = G(U)[U]
  BY DEF SumFunctionOnSet, FoldFunctionOnSet, MapThenFoldSet, AddsUp, Picked
<1>2. IsFiniteSet(T) /\ T \in SUBSET S
  BY FS_Subset
<1>3. AddsUp(G(S), f, S) /\ AddsUp(G(T), f, T)
  <2>1. (\E g : AddsUp(g, f, S)) /\ (\E g : AddsUp(g, f, T))
    BY <1>2, AddsUpExists
  <2> QED
    BY <2>1
<1> HIDE DEF G
<1>4. G(S)[S] = IF S = {} THEN 0 ELSE f[Picked(S)] + G(S)[T]
  BY <1>3 DEF AddsUp
<1>5. G(S)[T] = G(T)[T]
  <2> HIDE DEF T
  <2>1. AddsUp([s \in SUBSET T |-> G(S)[s]], f, T)
    BY <1>2, <1>3, AddsUpPart
  <2>2. [s \in SUBSET T |-> G(S)[s]][T] = G(T)[T]
    BY <1>2, <1>3, <2>1, AddsUpUnique
  <2> QED
    BY <2>2
<1> QED
  BY <1>1, <1>4, <1>5

(* An empty sum is zero, and the order does not matter.                    *)
THEOREM SumEmpty == ASSUME NEW f PROVE SumFunctionOnSet(f, {}) = 0
BY SumUnfolds, FS_EmptySet

(* Sums of integers are integers. *)
LEMMA SumInt ==
  ASSUME NEW S, IsFiniteSet(S), NEW f, \A x \in S : f[x] \in Int
  PROVE  \A T \in SUBSET S : SumFunctionOnSet(f, T) \in Int
<1> DEFINE Q == {T \in SUBSET S : SumFunctionOnSet(f, T) \notin Int}
<1>1. SUFFICES ASSUME Q # {} PROVE FALSE
  OBVIOUS
<1>2. PICK T \in Q : \A U \in Q : U \subseteq T => U = T
  <2>1. Q \in SUBSET (SUBSET S)
    OBVIOUS
  <2> HIDE DEF Q
  <2> QED
    BY <1>1, <2>1, SmallestSet
<1>3. IsFiniteSet(T)
  BY FS_Subset
<1>4. T # {}
  BY <1>2, SumEmpty, SMTT(20)
<1>5. Picked(T) \in T
  BY <1>4, PickedIn
<1>6. SumFunctionOnSet(f, T \ {Picked(T)}) \in Int
  BY <1>2, <1>5
<1>7. SumFunctionOnSet(f, T) = f[Picked(T)] + SumFunctionOnSet(f, T \ {Picked(T)})
  BY <1>3, <1>4, SumUnfolds
<1> QED
  BY <1>5, <1>6, <1>7

(* A sum is any one of its terms and the sum of the others. *)
THEOREM SumStep ==
  ASSUME NEW S, IsFiniteSet(S), NEW f, \A x \in S : f[x] \in Int, NEW z \in S
  PROVE  SumFunctionOnSet(f, S) = f[z] + SumFunctionOnSet(f, S \ {z})
<1> DEFINE Q == {T \in SUBSET S : \E x \in T :
                   SumFunctionOnSet(f, T) # f[x] + SumFunctionOnSet(f, T \ {x})}
<1>1. SUFFICES ASSUME Q # {} PROVE FALSE
  OBVIOUS
<1>2. PICK T \in Q : \A U \in Q : U \subseteq T => U = T
  <2>1. Q \in SUBSET (SUBSET S)
    OBVIOUS
  <2> HIDE DEF Q
  <2> QED
    BY <1>1, <2>1, SmallestSet
<1>3. PICK x \in T : SumFunctionOnSet(f, T) # f[x] + SumFunctionOnSet(f, T \ {x})
  OBVIOUS
<1> DEFINE y == Picked(T)
<1>4. y \in T /\ x \in S /\ y \in S
  BY PickedIn
<1>5. SumFunctionOnSet(f, T) = f[y] + SumFunctionOnSet(f, T \ {y})
  <2>1. IsFiniteSet(T)
    BY FS_Subset
  <2> QED
    BY <2>1, SumUnfolds
<1> HIDE DEF y
<1>6. x # y
  BY <1>3, <1>5
<1> DEFINE W == (T \ {x}) \ {y}
<1>7. SumFunctionOnSet(f, T \ {y}) = f[x] + SumFunctionOnSet(f, W)
  <2>1. (T \ {y}) \ {x} = W
    OBVIOUS
  <2> QED
    BY <1>2, <1>4, <1>6, <2>1
<1>8. SumFunctionOnSet(f, T \ {x}) = f[y] + SumFunctionOnSet(f, W)
  <2>1. T \ {x} \in SUBSET S /\ T \ {x} # T /\ y \in T \ {x} /\ T \ {x} \subseteq T
    BY <1>4, <1>6
  <2> QED
    BY <1>2, <2>1
<1>9. SumFunctionOnSet(f, W) \in Int /\ f[x] \in Int /\ f[y] \in Int
  <2>1. W \in SUBSET S
    OBVIOUS
  <2> QED
    BY <1>4, <2>1, SumInt
<1> QED
  BY <1>3, <1>5, <1>7, <1>8, <1>9

(* The sums of a family are those of its parts.  A claim about the sum of  *)
(* every part of S holds of all if it holds of none and of each with one   *)
(* more.                                                                   *)
THEOREM SumNat ==
  ASSUME NEW S, IsFiniteSet(S), NEW f, \A x \in S : f[x] \in Nat
  PROVE  SumFunctionOnSet(f, S) \in Nat
<1> DEFINE Q == {T \in SUBSET S : SumFunctionOnSet(f, T) \notin Nat}
<1>1. SUFFICES ASSUME Q # {} PROVE FALSE
  OBVIOUS
<1>2. PICK T \in Q : \A U \in Q : U \subseteq T => U = T
  <2>1. Q \in SUBSET (SUBSET S)
    OBVIOUS
  <2> HIDE DEF Q
  <2> QED
    BY <1>1, <2>1, SmallestSet
<1>3. IsFiniteSet(T)
  BY FS_Subset
<1>4. PICK x \in T : TRUE
  <2>0. SumFunctionOnSet(f, T) \notin Nat /\ SumFunctionOnSet(f, {}) = 0
    BY SumEmpty
  <2>1. T # {}
    BY <2>0
  <2> QED
    BY <2>1
<1>5. SumFunctionOnSet(f, T \ {x}) \in Nat
  BY <1>2
<1>6. SumFunctionOnSet(f, T) = f[x] + SumFunctionOnSet(f, T \ {x})
  <2>1. \A y \in T : f[y] \in Int
    OBVIOUS
  <2> HIDE DEF Q
  <2> QED
    BY <1>3, <2>1, SumStep
<1> QED
  BY <1>5, <1>6

(* A summand is at most the sum.                                           *)
THEOREM SumBound ==
  ASSUME NEW S, IsFiniteSet(S), NEW f, \A x \in S : f[x] \in Nat, NEW z \in S
  PROVE  f[z] <= SumFunctionOnSet(f, S)
<1>1. SumFunctionOnSet(f, S) = f[z] + SumFunctionOnSet(f, S \ {z})
  BY SumStep
<1>2. IsFiniteSet(S \ {z})
  BY FS_Subset
<1>3. SumFunctionOnSet(f, S \ {z}) \in Nat
  BY <1>2, SumNat
<1> QED
  BY <1>1, <1>3

(* Sums add up, summand by summand.                                        *)
THEOREM SumPlus ==
  ASSUME NEW S, IsFiniteSet(S), NEW f, NEW g, NEW h,
         \A x \in S : f[x] \in Int /\ g[x] \in Int /\ h[x] = f[x] + g[x]
  PROVE  SumFunctionOnSet(h, S) = SumFunctionOnSet(f, S) + SumFunctionOnSet(g, S)
<1> DEFINE Q == {T \in SUBSET S :
                   SumFunctionOnSet(h, T) # SumFunctionOnSet(f, T) + SumFunctionOnSet(g, T)}
<1>1. SUFFICES ASSUME Q # {} PROVE FALSE
  OBVIOUS
<1>2. PICK T \in Q : \A U \in Q : U \subseteq T => U = T
  <2>1. Q \in SUBSET (SUBSET S)
    OBVIOUS
  <2> HIDE DEF Q
  <2> QED
    BY <1>1, <2>1, SmallestSet
<1>3. IsFiniteSet(T)
  BY FS_Subset
<1>4. PICK x \in T : TRUE
  <2>1. SUFFICES ASSUME T = {} PROVE FALSE
    OBVIOUS
  <2>2. /\ SumFunctionOnSet(f, T) = 0 /\ SumFunctionOnSet(g, T) = 0
        /\ SumFunctionOnSet(h, T) = 0
    BY <2>1, SumEmpty
  <2> QED
    BY <2>2
<1>5. T \ {x} \in SUBSET S /\ T \ {x} # T
  OBVIOUS
<1>6. SumFunctionOnSet(h, T \ {x}) = SumFunctionOnSet(f, T \ {x}) + SumFunctionOnSet(g, T \ {x})
  BY <1>2, <1>5
<1>7. \A y \in T : f[y] \in Int /\ g[y] \in Int /\ h[y] \in Int
  OBVIOUS
<1>8. /\ SumFunctionOnSet(h, T) = h[x] + SumFunctionOnSet(h, T \ {x})
      /\ SumFunctionOnSet(f, T) = f[x] + SumFunctionOnSet(f, T \ {x})
      /\ SumFunctionOnSet(g, T) = g[x] + SumFunctionOnSet(g, T \ {x})
  <2> HIDE DEF Q
  <2> QED
    BY <1>3, <1>7, SumStep
<1>9. SumFunctionOnSet(f, T \ {x}) \in Int /\ SumFunctionOnSet(g, T \ {x}) \in Int
  BY <1>5, SumInt
<1>10. h[x] = f[x] + g[x] /\ f[x] \in Int /\ g[x] \in Int
  OBVIOUS
<1> QED
  BY <1>2, <1>6, <1>8, <1>9, <1>10

(* Renaming the elements one to one changes no sum.                        *)
THEOREM SumRenamed ==
  ASSUME NEW S, IsFiniteSet(S), NEW R, NEW b \in Bijection(S, R), NEW f, NEW g,
         \A x \in S : f[x] \in Int /\ g[b[x]] = f[x]
  PROVE  SumFunctionOnSet(g, R) = SumFunctionOnSet(f, S)
<1> DEFINE To(T) == {b[x] : x \in T}
           Q == {T \in SUBSET S : SumFunctionOnSet(g, To(T)) # SumFunctionOnSet(f, T)}
<1>0. /\ \A x \in S : b[x] \in R
      /\ \A x, y \in S : b[x] = b[y] => x = y
      /\ \A r \in R : \E x \in S : b[x] = r
  BY DEF Bijection, Injection, Surjection, IsInjective
<1>a. IsFiniteSet(R)
  BY FS_Bijection DEF ExistsBijection
<1>b. To(S) = R
  BY <1>0
<1>1. SUFFICES ASSUME Q # {} PROVE FALSE
  BY <1>b
<1>2. PICK T \in Q : \A U \in Q : U \subseteq T => U = T
  <2>1. Q \in SUBSET (SUBSET S)
    OBVIOUS
  <2> HIDE DEF Q
  <2> QED
    BY <1>1, <2>1, SmallestSet
<1>3. IsFiniteSet(T) /\ IsFiniteSet(To(T)) /\ To(T) \in SUBSET R
  <2>1. To(T) \in SUBSET R
    BY <1>0
  <2> QED
    BY <1>a, <2>1, FS_Subset
<1>4. T # {}
  <2>1. SUFFICES ASSUME T = {} PROVE FALSE
    OBVIOUS
  <2>2. To(T) = {}
    BY <2>1
  <2> QED
    BY <1>2, <2>1, <2>2, SumEmpty
<1>4a. PICK x \in T : TRUE
  BY <1>4
<1>5. T \ {x} \in SUBSET S /\ T \ {x} # T
  OBVIOUS
<1>6. SumFunctionOnSet(g, To(T \ {x})) = SumFunctionOnSet(f, T \ {x})
  BY <1>2, <1>5
<1>7. To(T \ {x}) = To(T) \ {b[x]} /\ b[x] \in To(T)
  BY <1>0
<1>8. \A y \in To(T) : g[y] \in Int
  BY <1>0
<1> HIDE DEF To
<1>9. /\ SumFunctionOnSet(f, T) = f[x] + SumFunctionOnSet(f, T \ {x})
      /\ SumFunctionOnSet(g, To(T)) = g[b[x]] + SumFunctionOnSet(g, To(T) \ {b[x]})
  BY <1>3, <1>7, <1>8, SumStep
<1>10. x \in S /\ g[b[x]] = f[x]
  OBVIOUS
<1> QED
  BY <1>2, <1>6, <1>7, <1>9, <1>10

(* The sum over a set and over the rest.                                   *)
THEOREM SumSplit ==
  ASSUME NEW S, IsFiniteSet(S), NEW f, \A x \in S : f[x] \in Int, NEW A \in SUBSET S
  PROVE  SumFunctionOnSet(f, S) = SumFunctionOnSet(f, A) + SumFunctionOnSet(f, S \ A)
<1> DEFINE Q == {T \in SUBSET A :
                   SumFunctionOnSet(f, S) # SumFunctionOnSet(f, T) + SumFunctionOnSet(f, S \ T)}
<1>1. SUFFICES ASSUME Q # {} PROVE FALSE
  OBVIOUS
<1>2. PICK T \in Q : \A U \in Q : U \subseteq T => U = T
  <2>1. Q \in SUBSET (SUBSET S)
    OBVIOUS
  <2> HIDE DEF Q
  <2> QED
    BY <1>1, <2>1, SmallestSet
<1>3. IsFiniteSet(T) /\ \A U \in SUBSET S : IsFiniteSet(U)
  BY FS_Subset
<1>4. T # {}
  <2>1. SUFFICES ASSUME T = {} PROVE FALSE
    OBVIOUS
  <2>2. SumFunctionOnSet(f, S \ T) = SumFunctionOnSet(f, S) /\ SumFunctionOnSet(f, S) \in Int
    BY <2>1, SumInt
  <2> QED
    BY <1>2, <2>1, <2>2, SumEmpty
<1>4a. PICK x \in T : TRUE
  BY <1>4
<1> DEFINE U == T \ {x}
<1>5. U \in SUBSET A /\ U # T /\ U \in SUBSET S /\ T \in SUBSET S /\ x \in S
  OBVIOUS
<1>6. SumFunctionOnSet(f, S) = SumFunctionOnSet(f, U) + SumFunctionOnSet(f, S \ U)
  BY <1>2, <1>5
<1>7. SumFunctionOnSet(f, T) = f[x] + SumFunctionOnSet(f, U)
  BY <1>3, <1>5, SumStep
<1>8. SumFunctionOnSet(f, S \ U) = f[x] + SumFunctionOnSet(f, S \ T)
  <2>1. (S \ U) \ {x} = S \ T /\ x \in S \ U /\ S \ U \in SUBSET S
    OBVIOUS
  <2>2. IsFiniteSet(S \ U)
    BY <1>3, <2>1
  <2>3. \A y \in S \ U : f[y] \in Int
    OBVIOUS
  <2> HIDE DEF U
  <2> QED
    BY <2>1, <2>2, <2>3, SumStep
<1>9. /\ SumFunctionOnSet(f, U) \in Int /\ SumFunctionOnSet(f, S \ T) \in Int
      /\ SumFunctionOnSet(f, S) \in Int /\ f[x] \in Int
  <2>1. U \in SUBSET S /\ S \ T \in SUBSET S /\ S \in SUBSET S
    OBVIOUS
  <2> QED
    BY <1>5, <2>1, SumInt
<1> QED
  BY <1>2, <1>6, <1>7, <1>8, <1>9

(* Summands that are zero add nothing.                                     *)
THEOREM SumZero ==
  ASSUME NEW S, IsFiniteSet(S), NEW f, \A x \in S : f[x] = 0
  PROVE  SumFunctionOnSet(f, S) = 0
<1> DEFINE Q == {T \in SUBSET S : SumFunctionOnSet(f, T) # 0}
<1>1. SUFFICES ASSUME Q # {} PROVE FALSE
  OBVIOUS
<1>2. PICK T \in Q : \A U \in Q : U \subseteq T => U = T
  <2>1. Q \in SUBSET (SUBSET S)
    OBVIOUS
  <2> HIDE DEF Q
  <2> QED
    BY <1>1, <2>1, SmallestSet
<1>3. IsFiniteSet(T)
  BY FS_Subset
<1>4. PICK x \in T : TRUE
  <2>0. SumFunctionOnSet(f, T) # 0 /\ SumFunctionOnSet(f, {}) = 0
    BY SumEmpty
  <2>1. T # {}
    BY <2>0
  <2> QED
    BY <2>1
<1>5. SumFunctionOnSet(f, T \ {x}) = 0
  BY <1>2
<1>6. SumFunctionOnSet(f, T) = f[x] + SumFunctionOnSet(f, T \ {x})
  <2>1. \A y \in T : f[y] \in Int
    OBVIOUS
  <2> HIDE DEF Q
  <2> QED
    BY <1>3, <2>1, SumStep
<1> QED
  BY <1>5, <1>6

(* Equal summands, equal sums.                                             *)
THEOREM SumSame ==
  ASSUME NEW S, IsFiniteSet(S), NEW f, NEW g, \A x \in S : f[x] \in Int /\ f[x] = g[x]
  PROVE  SumFunctionOnSet(f, S) = SumFunctionOnSet(g, S)
<1> DEFINE z == [x \in S |-> 0]
<1>1. \A x \in S : f[x] \in Int /\ z[x] \in Int /\ g[x] = f[x] + z[x]
  OBVIOUS
<1>2. \A x \in S : z[x] = 0
  OBVIOUS
<1> HIDE DEF z
<1>3. SumFunctionOnSet(z, S) = 0
  BY <1>2, SumZero
<1>4. SumFunctionOnSet(g, S) = SumFunctionOnSet(f, S) + SumFunctionOnSet(z, S)
  BY <1>1, SumPlus
<1>5. SumFunctionOnSet(f, S) \in Int
  BY SumInt
<1> QED
  BY <1>3, <1>4, <1>5

(* The sum follows the change of one summand.                              *)
THEOREM SumChanged ==
  ASSUME NEW S, IsFiniteSet(S), NEW f, NEW g, NEW z \in S,
         \A x \in S : f[x] \in Int /\ g[x] \in Int,
         \A x \in S : x # z => g[x] = f[x]
  PROVE  SumFunctionOnSet(g, S) = SumFunctionOnSet(f, S) + g[z] - f[z]
<1>1. /\ SumFunctionOnSet(f, S) = f[z] + SumFunctionOnSet(f, S \ {z})
      /\ SumFunctionOnSet(g, S) = g[z] + SumFunctionOnSet(g, S \ {z})
  BY SumStep
<1>2. SumFunctionOnSet(f, S \ {z}) = SumFunctionOnSet(g, S \ {z})
  <2>1. IsFiniteSet(S \ {z})
    BY FS_Subset
  <2>2. \A x \in S \ {z} : f[x] \in Int /\ f[x] = g[x]
    OBVIOUS
  <2> QED
    BY <2>1, <2>2, SumSame
<1>3. SumFunctionOnSet(f, S \ {z}) \in Int
  BY SumInt
<1> QED
  BY <1>1, <1>2, <1>3

(* Only the summands that are not zero count.                              *)
THEOREM SumSupport ==
  ASSUME NEW S, IsFiniteSet(S), NEW f, \A x \in S : f[x] \in Int,
         NEW A \in SUBSET S, \A x \in S \ A : f[x] = 0
  PROVE  SumFunctionOnSet(f, S) = SumFunctionOnSet(f, A)
<1>1. SumFunctionOnSet(f, S) = SumFunctionOnSet(f, A) + SumFunctionOnSet(f, S \ A)
  BY SumSplit
<1>2. IsFiniteSet(S \ A)
  BY FS_Subset
<1>3. SumFunctionOnSet(f, S \ A) = 0
  BY <1>2, SumZero
<1>4. SumFunctionOnSet(f, A) \in Int
  BY SumInt
<1> QED
  BY <1>1, <1>3, <1>4
=============================================================================
