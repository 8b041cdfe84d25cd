------------------------ MODULE DispatchQueueProofs ------------------------
(***************************************************************************)
(* Proofs about DispatchQueue for any number of pipelines, processes,      *)
(* fires and moves, and any depth.                                         *)
(*                                                                         *)
(* What a launch waits for is read off where its copy is: queued, with the *)
(* lane, complete, or given up. The order of a pipeline is kept from the   *)
(* policy's lanes through the sealed frame to the batches in flight; the   *)
(* order of the queue, which is rotated, does not matter for it.           *)
(***************************************************************************)
EXTENDS DispatchQueue, CollectionTheorems, FiniteSetTheorems, SequenceTheorems, TLAPS

(* The fires of a pipeline that were submitted are the first ones.         *)
Numbered ==
  /\ IsFiniteSet(submitted)
  /\ \A p \in Pipelines : \E n \in 0..MaxFires :
       \A k \in 1..MaxFires : <<p, k>> \in submitted <=> k <= n

(* Whatever is under way was submitted. *)
KnownSubmitted ==
  /\ \A x \in ToSet(queue) : x.of \in submitted
  /\ \A p \in Pipelines : \A k \in DOMAIN lanes[p] : lanes[p][k] \in submitted
  /\ \A k \in DOMAIN sealed : sealed[k] \subseteq submitted
  /\ \A i \in DOMAIN launches : launches[i].fires \subseteq submitted
  /\ \A i \in DOMAIN controls : controls[i].item.of \in submitted
  /\ withCopy \cup copied \cup ran \cup settled \subseteq submitted

(* The lane never has more controls in a row than it may.                  *)
TurnBelow == turn.control < ControlRunMax

(* A copy is with the lane.                                                *)
Copying(f) == \E i \in DOMAIN controls : controls[i].item = Copy(f)

(* Only copies and moves are controls. One that is complete was copied,    *)
(* one that was refused is settled.                                        *)
ControlsKnown ==
  \A i \in DOMAIN controls :
    /\ controls[i].item.kind # "launch"
    /\ controls[i].item.kind = "copy" /\ controls[i].at = "done" => controls[i].item.of \in copied
    /\ controls[i].item.kind = "copy" /\ controls[i].at = "refused" => controls[i].item.of \in settled

(* A queued launch that needs a copy has it queued, with the lane or       *)
(* complete, or will not be posted.                                        *)
CopyFirst ==
  \A f \in withCopy : Queued(Launch(f)) =>
    Queued(Copy(f)) \/ Copying(f) \/ f \in copied \cup settled \cup cancelled

(* A fire in a batch has left the queue, with its copy complete unless the *)
(* shutdown posted it.                                                     *)
Ready(f) ==
  /\ f \notin settled /\ ~Queued(Copy(f)) /\ ~Copying(f)
  /\ f \in withCopy => f \in copied

FliesReady ==
  \A i \in DOMAIN launches : \A f \in launches[i].fires :
    ~Queued(Launch(f)) /\ (f \notin drained => Ready(f))

CopyInv == CopyFirst /\ FliesReady /\ OnlyTheDrainOvertakes

(* A pipeline's lane holds its fires in order, and a terminated process    *)
(* has none.                                                               *)
LanesSorted ==
  \A p \in Pipelines :
    /\ \A k \in DOMAIN lanes[p] : lanes[p][k][1] = p
    /\ \A j, k \in DOMAIN lanes[p] : j < k => lanes[p][j][2] < lanes[p][k][2]
    /\ Owner[p] \in terminated => lanes[p] = <<>>

(* A queued launch is in its pipeline's lane or in the sealed frame, or    *)
(* its process is terminated.                                              *)
QueuedWaits ==
  \A f \in Fires : Queued(Launch(f)) =>
    \/ \E k \in DOMAIN lanes[f[1]] : lanes[f[1]][k] = f
    \/ sealed # <<>> /\ f \in sealed[1]
    \/ Owner[f[1]] \in terminated

(* Nothing of its pipeline is queued from before f. *)
NoneBefore(f) == \A n \in 1..(f[2] - 1) : ~Queued(Launch(<<f[1], n>>))

(* One frame is sealed at a time; its fires come before those of the lanes *)
(* and after all else of their pipelines.                                  *)
SealedFirst ==
  /\ Len(sealed) <= 1
  /\ sealed # <<>> => \A f \in sealed[1] :
       /\ NoneBefore(f)
       /\ \A g \in sealed[1] : g[1] = f[1] => g = f
       /\ \A k \in DOMAIN lanes[f[1]] : f[2] < lanes[f[1]][k][2]

(* Batches in flight keep each pipeline's order, the lane takes the oldest *)
(* that waits, and what the engine took comes before what waits.           *)
BatchesSorted ==
  \A i, j \in DOMAIN launches : i < j =>
    \A f \in launches[i].fires, g \in launches[j].fires : f[1] = g[1] => f[2] < g[2]

PostedLast ==
  \A i, j \in DOMAIN launches : i < j /\ launches[i].at = "posted" => launches[j].at = "posted"

RanBefore ==
  /\ \A f \in ran : NoneBefore(f)
  /\ \A i \in DOMAIN launches : \A f \in launches[i].fires : NoneBefore(f)
  /\ \A f \in ran : \A i \in DOMAIN launches : launches[i].at = "posted" =>
       \A g \in launches[i].fires : g[1] = f[1] => f[2] <= g[2]

OrderInv == LanesSorted /\ QueuedWaits /\ SealedFirst /\ BatchesSorted /\ PostedLast /\ RanBefore

Base == TypeOK /\ Numbered /\ KnownSubmitted /\ TurnBelow /\ ControlsKnown

Distinct(s) == \A i, j \in DOMAIN s : s[i] = s[j] => i = j

(* A copy or a move is in one place.                                       *)
OnePlace ==
  /\ Distinct(queue)
  /\ \A i, j \in DOMAIN controls : controls[i].item = controls[j].item => i = j
  /\ \A i \in DOMAIN controls : ~Queued(controls[i].item)

(* Copies with the lane are of different pipelines.                        *)
OnePerPipeline ==
  \A i, j \in DOMAIN controls :
    /\ controls[i].item.kind = "copy" /\ controls[j].item.kind = "copy"
    /\ controls[i].item.of[1] = controls[j].item.of[1]
    => i = j

(* x is not settled, or the shutdown posted it before its copy, or it is a *)
(* fire of a terminated process that has another pipeline: the termination *)
(* spares the fire of one copy.                                            *)
Spared(x) ==
  \/ x \notin settled
  \/ x \in drained
  \/ /\ x \in Fires /\ Owner[x[1]] \in terminated
     /\ \E r \in Pipelines : r # x[1] /\ Owner[r] = Owner[x[1]]

(* A move that waits is not settled, and what the engine has is spared.    *)
UnderWay ==
  /\ \A m \in Moves : Queued(Move(m)) => m \notin settled
  /\ \A i \in DOMAIN controls :
       controls[i].item.kind = "move" /\ controls[i].at = "posted" => controls[i].item.of \notin settled
  /\ \A i \in DOMAIN controls : controls[i].at = "running" => Spared(controls[i].item.of)

FlightInv == OnePlace /\ OnePerPipeline /\ UnderWay
-----------------------------------------------------------------------------
(* Sequences: what the queue's operations keep of its items. *)

(* Without keeps the other items, in a queue of its own.                   *)
LEMMA WithoutItems ==
  ASSUME NEW S, NEW s \in Seq(S), NEW X
  PROVE  /\ Without(s, X) \in Seq(S)
         /\ ToSet(Without(s, X)) = ToSet(s) \ X
         /\ Distinct(s) => Distinct(Without(s, X))
<1> DEFINE kept == {i \in DOMAIN s : s[i] \notin X}
           Below(i) == {j \in kept : j <= i}
           Rank == [i \in kept |-> Cardinality(Below(i))]
           n == Cardinality(kept)
           At(k) == CHOOSE i \in kept : Cardinality(Below(i)) = k
<1>9. Without(s, X) = [k \in 1..n |-> s[At(k)]]
  BY DEF Without
<1>1. /\ Len(s) \in Nat /\ DOMAIN s = 1..Len(s) /\ \A i \in kept : s[i] \in S /\ i \in Nat
  BY SeqIndexed
<1>2. IsFiniteSet(kept)
  <2>1. kept \subseteq 1..Len(s)
    BY <1>1
  <2>2. IsFiniteSet(1..Len(s))
    BY <1>1, FS_Interval
  <2> HIDE DEF kept
  <2> QED BY <2>1, <2>2, FS_Subset
<1>3. n \in Nat
  BY <1>2, FS_CardinalityType
<1>4. ASSUME NEW i \in kept PROVE Rank[i] \in 1..n /\ IsFiniteSet(Below(i))
  <2>1. Below(i) \subseteq kept /\ i \in Below(i)
    BY <1>1
  <2>2. IsFiniteSet(Below(i)) /\ Cardinality(Below(i)) <= n
    BY <1>2, <2>1, FS_Subset
  <2>3. Cardinality(Below(i)) \in Nat /\ Cardinality(Below(i)) # 0
    BY <2>1, <2>2, FS_CardinalityType, FS_EmptySet
  <2> QED BY <1>3, <2>2, <2>3
<1>5. ASSUME NEW i \in kept, NEW j \in kept, i < j PROVE Rank[i] < Rank[j]
  <2>1. Below(i) \subseteq Below(j) /\ j \in Below(j) /\ j \notin Below(i)
    BY <1>1, <1>5
  <2>2. /\ Cardinality(Below(i)) <= Cardinality(Below(j))
        /\ Cardinality(Below(i)) # Cardinality(Below(j))
    BY <1>4, <2>1, FS_Subset
  <2>3. Cardinality(Below(i)) \in Nat /\ Cardinality(Below(j)) \in Nat
    BY <1>4, FS_CardinalityType
  <2> QED BY <2>2, <2>3
<1>6. ASSUME NEW i \in kept, NEW j \in kept, Rank[i] = Rank[j] PROVE i = j
  <2> HIDE DEF Rank, n, kept
  <2>1. Rank[i] \in 1..n /\ Rank[j] \in 1..n
    BY <1>4
  <2>2. ~(i < j) /\ ~(j < i)
    BY <1>3, <1>5, <1>6, <2>1
  <2>3. i \in Nat /\ j \in Nat
    BY <1>1
  <2> QED BY <2>2, <2>3
<1>7. ASSUME NEW k \in 1..n PROVE \E i \in kept : Rank[i] = k
  <2>1. Rank \in Injection(kept, 1..n)
    BY <1>4, <1>6 DEF Injection, IsInjective
  <2>2. IsFiniteSet(1..n) /\ Cardinality(1..n) = n
    BY <1>3, CountTo
  <2>3. Rank \in Surjection(kept, 1..n)
    BY <2>1, <2>2, FS_Injection
  <2> QED BY <2>3 DEF Surjection
<1>8. ASSUME NEW k \in 1..n PROVE At(k) \in kept /\ Rank[At(k)] = k
  BY <1>7
<1> HIDE DEF kept, Rank, n, At, Below
<1>10. DOMAIN Without(s, X) = 1..n /\ \A k \in 1..n : Without(s, X)[k] = s[At(k)]
  BY <1>9
<1>11. Without(s, X) \in Seq(S)
  <2>1. \A k \in 1..n : s[At(k)] \in S
    BY <1>1, <1>8
  <2> QED BY <1>3, <1>9, <2>1, IsASeq
<1>12. ASSUME NEW x \in ToSet(Without(s, X)) PROVE x \in ToSet(s) \ X
  <2>1. PICK k \in 1..n : x = s[At(k)]
    BY <1>10 DEF ToSet
  <2> QED BY <1>8, <2>1 DEF kept, ToSet
<1>13. ASSUME NEW x \in ToSet(s) \ X PROVE x \in ToSet(Without(s, X))
  <2>1. PICK i \in DOMAIN s : x = s[i]
    BY DEF ToSet
  <2>2. i \in kept
    BY <2>1 DEF kept
  <2>3. Rank[i] \in 1..n
    BY <1>4, <2>2
  <2>4. At(Rank[i]) = i
    BY <1>6, <1>8, <2>2, <2>3
  <2> QED BY <1>10, <2>1, <2>3, <2>4 DEF ToSet
<1>14. ASSUME Distinct(s) PROVE Distinct(Without(s, X))
  <2>1. SUFFICES ASSUME NEW k \in 1..n, NEW l \in 1..n, s[At(k)] = s[At(l)] PROVE k = l
    BY <1>10 DEF Distinct
  <2>2. At(k) = At(l)
    BY <1>8, <1>14, <2>1 DEF Distinct, kept
  <2> QED BY <1>8, <2>2
<1> QED BY <1>11, <1>12, <1>13, <1>14

LEMMA AppendItems ==
  ASSUME NEW S, NEW s \in Seq(S), NEW x \in S
  PROVE  /\ Append(s, x) \in Seq(S) /\ Len(Append(s, x)) = Len(s) + 1
         /\ DOMAIN Append(s, x) = 1..(Len(s) + 1)
         /\ \A i \in DOMAIN s : Append(s, x)[i] = s[i]
         /\ Append(s, x)[Len(s) + 1] = x
         /\ ToSet(Append(s, x)) = ToSet(s) \cup {x}
         /\ Distinct(s) /\ x \notin ToSet(s) => Distinct(Append(s, x))
<1> DEFINE t == Append(s, x)
<1>1. /\ t \in Seq(S) /\ Len(t) = Len(s) + 1 /\ Len(s) \in Nat
      /\ \A i \in 1..Len(s) : t[i] = s[i]
      /\ t[Len(s) + 1] = x
  BY AppendProperties, SeqIndexed
<1>2. DOMAIN t = 1..(Len(s) + 1) /\ DOMAIN s = 1..Len(s)
  BY <1>1, SeqIndexed
<1> HIDE DEF t
<1>3. ToSet(t) = ToSet(s) \cup {x}
  BY <1>1, <1>2 DEF ToSet
<1>4. ASSUME Distinct(s), x \notin ToSet(s) PROVE Distinct(t)
  BY <1>1, <1>2, <1>4 DEF ToSet, Distinct
<1> QED BY <1>1, <1>2, <1>3, <1>4 DEF t

LEMMA TailItems ==
  ASSUME NEW S, NEW s \in Seq(S), s # <<>>
  PROVE  /\ Tail(s) \in Seq(S) /\ Len(Tail(s)) = Len(s) - 1 /\ Len(s) \in Nat \ {0}
         /\ DOMAIN Tail(s) = 1..(Len(s) - 1)
         /\ \A i \in DOMAIN Tail(s) : Tail(s)[i] = s[i + 1] /\ i + 1 \in DOMAIN s
         /\ s[1] \in S /\ Head(s) = s[1] /\ 1 \in DOMAIN s
         /\ ToSet(s) = {s[1]} \cup ToSet(Tail(s))
         /\ Distinct(s) => Distinct(Tail(s)) /\ s[1] \notin ToSet(Tail(s))
<1> DEFINE t == Tail(s)
<1>1. /\ t \in Seq(S) /\ Len(t) = Len(s) - 1 /\ Len(s) \in Nat \ {0}
      /\ \A i \in 1..Len(t) : t[i] = s[i + 1]
      /\ Head(s) = s[1] /\ DOMAIN s = 1..Len(s)
  BY HeadTailProperties, SeqIndexed
<1>2. DOMAIN t = 1..(Len(s) - 1) /\ s[1] \in S /\ 1 \in DOMAIN s
  BY <1>1, SeqIndexed
<1>3. \A i \in DOMAIN t : t[i] = s[i + 1] /\ i + 1 \in DOMAIN s
  BY <1>1, <1>2
<1> HIDE DEF t
<1>4. ASSUME NEW x \in ToSet(s) PROVE x \in {s[1]} \cup ToSet(t)
  <2>1. PICK i \in 1..Len(s) : x = s[i]
    BY <1>1 DEF ToSet
  <2>2. CASE i # 1
    <3>1. i - 1 \in DOMAIN t /\ (i - 1) + 1 = i
      BY <1>1, <1>2, <2>2
    <3> QED BY <1>3, <2>1, <3>1 DEF ToSet
  <2> QED BY <2>1, <2>2
<1>5. ToSet(s) = {s[1]} \cup ToSet(t)
  <2>1. ToSet(t) \subseteq ToSet(s) /\ s[1] \in ToSet(s)
    BY <1>2, <1>3 DEF ToSet
  <2> QED BY <1>4, <2>1
<1>6. ASSUME Distinct(s) PROVE Distinct(t) /\ s[1] \notin ToSet(t)
  BY <1>1, <1>2, <1>3, <1>6, SMTT(20) DEF ToSet, Distinct
<1> QED BY <1>1, <1>2, <1>3, <1>5, <1>6 DEF t

(* Rotating a queue keeps its items.                                       *)
LEMMA RotateItems ==
  ASSUME NEW S, NEW s \in Seq(S), NEW i \in DOMAIN s
  PROVE  /\ RotatedTo(s, i) \in Seq(S)
         /\ ToSet(RotatedTo(s, i)) = ToSet(s)
         /\ Distinct(s) => Distinct(RotatedTo(s, i))
<1>1. /\ Len(s) \in Nat /\ DOMAIN s = 1..Len(s) /\ i \in 1..Len(s) /\ i \in Nat
      /\ \A k \in 1..Len(s) : s[k] \in S
  BY SeqIndexed
<1> DEFINE t == RotatedTo(s, i)
           a == SubSeq(s, i, Len(s))
           b == SubSeq(s, 1, i - 1)
           n == Len(s) - i + 1
<1>2. /\ a \in Seq(S) /\ Len(a) = n
      /\ \A k \in 1..n : a[k] = s[i + k - 1]
  <2>1. \A k \in i..Len(s) : s[k] \in S
    BY <1>1
  <2>2. /\ a \in Seq(S) /\ Len(a) = (IF i <= Len(s) THEN Len(s) - i + 1 ELSE 0)
        /\ \A k \in 1..(Len(s) - i + 1) : a[k] = s[i + k - 1]
    BY <1>1, <2>1, SubSeqProperties
  <2> HIDE DEF a
  <2> QED BY <1>1, <2>2
<1>3. /\ b \in Seq(S) /\ Len(b) = i - 1
      /\ \A k \in 1..(i - 1) : b[k] = s[k]
  <2>1. \A k \in 1..(i - 1) : s[k] \in S
    BY <1>1
  <2>2. /\ b \in Seq(S) /\ Len(b) = (IF 1 <= i - 1 THEN (i - 1) - 1 + 1 ELSE 0)
        /\ \A k \in 1..((i - 1) - 1 + 1) : b[k] = s[1 + k - 1]
    BY <1>1, <2>1, SubSeqProperties
  <2> HIDE DEF b
  <2> QED BY <1>1, <2>2
<1>4. t = a \o b
  BY DEF RotatedTo
<1> HIDE DEF a, b, t
<1>5. /\ t \in Seq(S) /\ Len(t) = Len(a) + Len(b)
      /\ \A k \in 1..(Len(a) + Len(b)) : t[k] = IF k <= Len(a) THEN a[k] ELSE b[k - Len(a)]
  <2>1. /\ a \o b \in Seq(S) /\ Len(a \o b) = Len(a) + Len(b)
        /\ \A k \in 1..(Len(a) + Len(b)) :
             (a \o b)[k] = IF k <= Len(a) THEN a[k] ELSE b[k - Len(a)]
    BY <1>2, <1>3, ConcatProperties
  <2> QED BY <1>4, <2>1
<1>6. DOMAIN t = 1..Len(s)
  BY <1>1, <1>2, <1>3, <1>5, SeqIndexed
<1> DEFINE From(k) == IF k <= n THEN i + k - 1 ELSE k - n
<1>7. ASSUME NEW k \in 1..Len(s) PROVE From(k) \in 1..Len(s) /\ t[k] = s[From(k)]
  <2>0. k \in 1..(Len(a) + Len(b)) /\ Len(a) = n
    BY <1>1, <1>2, <1>3
  <2>1. CASE k <= n
    <3>1. t[k] = a[k] /\ k \in 1..n
      BY <1>1, <1>5, <2>0, <2>1
    <3> QED BY <1>1, <1>2, <2>1, <3>1
  <2>2. CASE ~(k <= n)
    <3>1. k - n \in 1..(i - 1)
      BY <1>1, <2>2
    <3> QED BY <1>1, <1>2, <1>3, <1>5, <2>2, <3>1, SMTT(20)
  <2> QED BY <2>1, <2>2
<1>8. ASSUME NEW k \in 1..Len(s), NEW l \in 1..Len(s), From(k) = From(l) PROVE k = l
  BY <1>1, <1>8
<1>9. ASSUME NEW j \in 1..Len(s) PROVE \E k \in 1..Len(s) : From(k) = j
  <2>1. CASE j < i
    <3>1. j + n \in 1..Len(s) /\ From(j + n) = j
      BY <1>1, <2>1
    <3> QED BY <3>1
  <2>2. CASE ~(j < i)
    <3>1. j - i + 1 \in 1..Len(s) /\ From(j - i + 1) = j
      BY <1>1, <2>2
    <3> QED BY <3>1
  <2> QED BY <2>1, <2>2
<1> HIDE DEF From
<1>10. ToSet(t) \subseteq ToSet(s)
  BY <1>1, <1>6, <1>7 DEF ToSet
<1>11. ToSet(s) \subseteq ToSet(t)
  <2> SUFFICES ASSUME NEW j \in 1..Len(s) PROVE s[j] \in ToSet(t)
    BY <1>1 DEF ToSet
  <2> QED BY <1>6, <1>7, <1>9 DEF ToSet
<1>12. ASSUME Distinct(s) PROVE Distinct(t)
  BY <1>1, <1>6, <1>7, <1>8, <1>12 DEF Distinct
<1> QED BY <1>5, <1>10, <1>11, <1>12 DEF t

-----------------------------------------------------------------------------
(* Items, batches and controls. *)

Batch == [fires : SUBSET Fires, at : {"posted", "accepted", "done", "failed"}]
Control == [item : Items, at : {"posted", "running", "done", "failed", "refused"}]

LEMMA FireParts ==
  \A f \in Fires : f[1] \in Pipelines /\ f[2] \in 1..MaxFires /\ f[2] \in Nat /\ f = <<f[1], f[2]>>
BY DispatchAssumption DEF Fires

LEMMA FireOf ==
  ASSUME NEW p \in Pipelines, NEW k \in 1..MaxFires
  PROVE  <<p, k>> \in Fires /\ <<p, k>>[1] = p /\ <<p, k>>[2] = k
BY DEF Fires

LEMMA ItemParts ==
  /\ \A x : Launch(x).kind = "launch" /\ Copy(x).kind = "copy" /\ Move(x).kind = "move"
  /\ \A x : Launch(x).of = x /\ Copy(x).of = x /\ Move(x).of = x
  /\ \A f \in Fires : Launch(f) \in Items /\ Copy(f) \in Items
  /\ \A m \in Moves : Move(m) \in Items
  /\ \A x \in Items : \/ x.kind = "launch" /\ x.of \in Fires /\ x = Launch(x.of)
                      \/ x.kind = "copy" /\ x.of \in Fires /\ x = Copy(x.of)
                      \/ x.kind = "move" /\ x.of \in Moves /\ x = Move(x.of)
<1>1. /\ \A x : Launch(x).kind = "launch" /\ Copy(x).kind = "copy" /\ Move(x).kind = "move"
      /\ \A x : Launch(x).of = x /\ Copy(x).of = x /\ Move(x).of = x
  BY DEF Launch, Copy, Move
<1>2. /\ \A f \in Fires : Launch(f) \in Items /\ Copy(f) \in Items
      /\ \A m \in Moves : Move(m) \in Items
  BY DEF Items
<1>3. ASSUME NEW x \in Items
      PROVE  \/ x.kind = "launch" /\ x.of \in Fires /\ x = Launch(x.of)
             \/ x.kind = "copy" /\ x.of \in Fires /\ x = Copy(x.of)
             \/ x.kind = "move" /\ x.of \in Moves /\ x = Move(x.of)
  BY <1>1 DEF Items
<1> QED BY <1>1, <1>2, <1>3

LEMMA TypeParts ==
  ASSUME TypeOK
  PROVE  /\ queue \in Seq(Items) /\ launches \in Seq(Batch) /\ controls \in Seq(Control)
         /\ sealed \in Seq(SUBSET Fires)
         /\ \A p \in Pipelines : lanes[p] \in Seq(Fires)
         /\ lanes \in [Pipelines -> Seq(Fires)]
BY DEF TypeOK, Batch, Control

LEMMA BatchParts ==
  ASSUME NEW s \in Seq(Batch), NEW i \in DOMAIN s
  PROVE  s[i] \in Batch /\ s[i].fires \subseteq Fires
<1>1. s[i] \in Batch
  BY SeqIndexed
<1> QED BY <1>1 DEF Batch

LEMMA ControlParts ==
  ASSUME NEW s \in Seq(Control), NEW i \in DOMAIN s
  PROVE  s[i] \in Control /\ s[i].item \in Items
<1>1. s[i] \in Control
  BY SeqIndexed
<1> QED BY <1>1 DEF Control

(* The lane takes the oldest that waits. *)
LEMMA FirstPosted ==
  ASSUME NEW S, NEW s \in Seq(S), Waiting(s)
  PROVE  /\ First(s, "posted") \in DOMAIN s /\ s[First(s, "posted")].at = "posted"
         /\ \A j \in DOMAIN s : j < First(s, "posted") => s[j].at # "posted"
<1> DEFINE T == {i \in DOMAIN s : s[i].at = "posted"}
           P(i) == s[i].at = "posted" /\ \A j \in 1..(i - 1) : s[j].at # "posted"
<1>1. Len(s) \in Nat /\ DOMAIN s = 1..Len(s)
  BY SeqIndexed
<1>2. T \in SUBSET Nat /\ T # {}
  BY <1>1 DEF Waiting
<1>3. PICK i \in T : \A j \in T : i <= j
  BY <1>2, Least
<1>4. i \in DOMAIN s /\ P(i)
  BY <1>1, <1>3
<1>5. First(s, "posted") \in DOMAIN s /\ P(First(s, "posted"))
  <2>1. First(s, "posted") = CHOOSE k \in DOMAIN s : P(k)
    BY DEF First
  <2> QED BY <1>4, <2>1
<1> QED BY <1>1, <1>5

LEMMA FirstOtherKnown ==
  ASSUME queue \in Seq(Items), Others # {}
  PROVE  FirstOther \in DOMAIN queue /\ queue[FirstOther].kind # "launch"
<1>1. Len(queue) \in Nat /\ DOMAIN queue = 1..Len(queue)
  BY SeqIndexed
<1>2. Others \in SUBSET Nat
  BY <1>1 DEF Others
<1>3. \E i \in Others : \A j \in Others : i <= j
  BY <1>2, Least
<1>4. FirstOther \in Others
  BY <1>3 DEF FirstOther
<1> QED BY <1>4 DEF Others

(* The fire a submission numbers is new, and the last of its pipeline.     *)
LEMMA NextFire ==
  ASSUME Numbered, NEW p \in Pipelines, NEW f,
         f = <<p, Cardinality({g \in submitted \cap Fires : g[1] = p}) + 1>>,
         Cardinality(submitted \cap Fires) < MaxFires
  PROVE  /\ f \in Fires /\ f \notin submitted /\ f[1] = p
         /\ \A k \in 1..MaxFires : <<p, k>> \in submitted <=> k < f[2]
         /\ \A g \in submitted \cap Fires : g[1] = p => g[2] < f[2]
<1> DEFINE T == {g \in submitted \cap Fires : g[1] = p}
<1>1. PICK n \in 0..MaxFires : \A k \in 1..MaxFires : <<p, k>> \in submitted <=> k <= n
  BY DEF Numbered
<1>2. MaxFires \in Nat /\ n \in Nat
  BY <1>1, DispatchAssumption
<1>3. IsFiniteSet(submitted \cap Fires)
  BY FS_Subset DEF Numbered
<1>4. T \subseteq submitted \cap Fires /\ IsFiniteSet(T) /\ Cardinality(T) <= Cardinality(submitted \cap Fires)
  BY <1>3, FS_Subset
<1>5. T = {<<p, k>> : k \in 1..n}
  <2>1. ASSUME NEW g \in T PROVE g \in {<<p, k>> : k \in 1..n}
    <3>1. g[2] \in 1..MaxFires /\ g = <<p, g[2]>> /\ g \in submitted
      BY FireParts
    <3>2. g[2] \in 1..n
      BY <1>1, <1>2, <3>1
    <3> QED BY <3>1, <3>2
  <2>2. ASSUME NEW k \in 1..n PROVE <<p, k>> \in T
    <3>1. k \in 1..MaxFires /\ k <= n
      BY <1>1, <1>2
    <3>2. <<p, k>> \in Fires /\ <<p, k>>[1] = p
      BY <3>1, FireOf
    <3> QED BY <1>1, <3>1, <3>2
  <2> QED BY <2>1, <2>2
<1> HIDE DEF T
<1>6. Cardinality(T) = n
  <2>2. IsFiniteSet(1..n) /\ Cardinality(1..n) = n
    BY <1>2, CountTo
  <2> DEFINE F == [k \in 1..n |-> <<p, k>>]
  <2>3. F \in Bijection(1..n, T)
    BY <1>5 DEF Bijection, Injection, Surjection, IsInjective
  <2> HIDE DEF F
  <2>4. ExistsBijection(1..n, T)
    BY <2>3 DEF ExistsBijection
  <2> QED BY <1>4, <2>2, <2>4, FS_Bijection
<1>7. Cardinality(submitted \cap Fires) \in Nat
  BY <1>3, FS_CardinalityType
<1>8. n + 1 \in 1..MaxFires
  BY <1>2, <1>4, <1>6, <1>7
<1>9. f = <<p, n + 1>>
  BY <1>6 DEF T
<1>10. f \in Fires /\ f[1] = p /\ f[2] = n + 1
  BY <1>8, <1>9, FireOf
<1>11. \A k \in 1..MaxFires : <<p, k>> \in submitted <=> k < f[2]
  BY <1>1, <1>2, <1>10
<1>12. f \notin submitted
  BY <1>2, <1>8, <1>9, <1>10, <1>11
<1>13. ASSUME NEW g \in submitted \cap Fires, g[1] = p PROVE g[2] < f[2]
  <2>1. g[2] \in 1..MaxFires /\ g = <<p, g[2]>>
    BY <1>13, FireParts
  <2> QED BY <1>11, <2>1
<1> QED BY <1>10, <1>11, <1>12, <1>13

-----------------------------------------------------------------------------
(* What each action does to the sets of items, whatever their order. *)

Adds(f, C) ==
  /\ Owner[f[1]] \notin terminated
  /\ queue' \in Seq(Items)
  /\ ToSet(queue)' = ToSet(queue) \cup {Launch(f)} \cup {Copy(c) : c \in C}
  /\ Distinct(queue) /\ Launch(f) \notin ToSet(queue) /\ Copy(f) \notin ToSet(queue) => Distinct(queue)'
  /\ lanes' = [lanes EXCEPT ![f[1]] = Append(@, f)]
  /\ withCopy' = withCopy \cup C
  /\ UNCHANGED settled

Rejects(f) ==
  /\ settled' = settled \cup {f}
  /\ UNCHANGED <<queue, lanes, withCopy>>

NewFire(f) ==
  /\ f \in Fires /\ f \notin submitted
  /\ \A g \in submitted \cap Fires : g[1] = f[1] => g[2] < f[2]
  /\ \A k \in 1..MaxFires : <<f[1], k>> \in submitted <=> k < f[2]
  /\ submitted' = submitted \cup {f}
  /\ UNCHANGED <<flight, turn, engine, sealed, cancelled, terminated, stopping, drained>>

LEMMA SubmitDoes ==
  ASSUME Base, NEW p \in Pipelines, NEW copies \in BOOLEAN, Submit(p, copies)
  PROVE  \E f \in Fires : NewFire(f) /\ (Rejects(f) \/ \E C \in {{}, {f}} : Adds(f, C))
<1> DEFINE f == <<p, Cardinality({g \in submitted \cap Fires : g[1] = p}) + 1>>
<1>1. /\ Numbered /\ Cardinality(submitted \cap Fires) < MaxFires /\ queue \in Seq(Items)
  BY TypeParts DEF Base, Submit
<1>2. /\ f \in Fires /\ f \notin submitted /\ f[1] = p
      /\ \A k \in 1..MaxFires : <<p, k>> \in submitted <=> k < f[2]
      /\ \A g \in submitted \cap Fires : g[1] = p => g[2] < f[2]
  BY <1>1, NextFire
<1>3. /\ submitted' = submitted \cup {f}
      /\ UNCHANGED <<flight, turn, engine, sealed, cancelled, terminated, stopping, drained>>
      /\ \/ /\ Owner[p] \notin terminated
            /\ queue' = queue \o (IF copies THEN <<Copy(f)>> ELSE <<>>) \o <<Launch(f)>>
            /\ lanes' = [lanes EXCEPT ![p] = Append(@, f)]
            /\ withCopy' = IF copies THEN withCopy \cup {f} ELSE withCopy
            /\ UNCHANGED settled
         \/ /\ Owner[p] \in terminated
            /\ settled' = settled \cup {f}
            /\ UNCHANGED <<queue, lanes, withCopy>>
  BY DEF Submit
<1> HIDE DEF f
<1>4. NewFire(f)
  BY <1>2, <1>3 DEF NewFire
<1>5. CASE Rejects(f)
  BY <1>2, <1>4, <1>5
<1>6. CASE /\ Owner[p] \notin terminated
           /\ queue' = queue \o (IF copies THEN <<Copy(f)>> ELSE <<>>) \o <<Launch(f)>>
           /\ lanes' = [lanes EXCEPT ![p] = Append(@, f)]
           /\ withCopy' = IF copies THEN withCopy \cup {f} ELSE withCopy
           /\ UNCHANGED settled
  <2>1. Launch(f) \in Items /\ Copy(f) \in Items /\ Launch(f) # Copy(f)
    BY <1>2, ItemParts
  <2>2. CASE copies
    <3>1. queue' = Append(Append(queue, Copy(f)), Launch(f))
      BY <1>1, <1>6, <2>1, <2>2
    <3> DEFINE q == Append(queue, Copy(f))
    <3>2. /\ q \in Seq(Items) /\ ToSet(q) = ToSet(queue) \cup {Copy(f)}
          /\ Distinct(queue) /\ Copy(f) \notin ToSet(queue) => Distinct(q)
      BY <1>1, <2>1, AppendItems
    <3>3. queue' = Append(q, Launch(f))
      BY <3>1
    <3> HIDE DEF q
    <3>4. /\ queue' \in Seq(Items) /\ ToSet(queue') = ToSet(q) \cup {Launch(f)}
          /\ Distinct(q) /\ Launch(f) \notin ToSet(q) => Distinct(queue')
      BY <2>1, <3>2, <3>3, AppendItems
    <3>5. {Copy(c) : c \in {f}} = {Copy(f)}
      OBVIOUS
    <3>6. Adds(f, {f})
      BY <1>2, <1>6, <2>1, <2>2, <3>2, <3>4, <3>5 DEF Adds
    <3> QED BY <1>2, <1>4, <3>6
  <2>3. CASE ~copies
    <3>1. queue' = Append(queue, Launch(f))
      BY <1>1, <1>6, <2>1, <2>3
    <3>2. /\ queue' \in Seq(Items) /\ ToSet(queue') = ToSet(queue) \cup {Launch(f)}
          /\ Distinct(queue) /\ Launch(f) \notin ToSet(queue) => Distinct(queue')
      BY <1>1, <2>1, <3>1, AppendItems
    <3>3. {Copy(c) : c \in {}} = {}
      OBVIOUS
    <3>4. Adds(f, {})
      BY <1>2, <1>6, <2>3, <3>2, <3>3 DEF Adds
    <3> QED BY <1>2, <1>4, <3>4
  <2> QED BY <2>2, <2>3
<1> QED BY <1>3, <1>5, <1>6 DEF Rejects

(* A copy or a move leaves the queue for the lane, or is dropped.          *)
Dropped(x) == x.kind = "copy" /\ x.of \in settled \cup cancelled

Posts(x) ==
  /\ x \in Items /\ x \in ToSet(queue) /\ Admits(x)
  /\ queue' \in Seq(Items)
  /\ ToSet(queue)' \subseteq ToSet(queue) /\ ToSet(queue) \subseteq ToSet(queue)' \cup {x}
  /\ Distinct(queue) => Distinct(queue)' /\ x \notin ToSet(queue)'
  /\ controls' = IF Dropped(x) THEN controls ELSE Append(controls, [item |-> x, at |-> "posted"])
  /\ settled' = settled \cup (IF x.kind = "copy" /\ x.of \in cancelled THEN {x.of} ELSE {})
  /\ UNCHANGED <<lanes, sealed, launches, turn, engine, submitted, cancelled, terminated, stopping, drained, withCopy>>

LEMMA PostFrontDoes ==
  ASSUME Base, PostFront
  PROVE  Posts(queue[1])
<1>1. queue \in Seq(Items) /\ queue # <<>> /\ Admits(queue[1]) /\ queue' = Tail(queue)
  BY TypeParts DEF Base, PostFront
<1>2. /\ queue' \in Seq(Items) /\ queue[1] \in Items
      /\ ToSet(queue) = {queue[1]} \cup ToSet(queue')
      /\ Distinct(queue) => Distinct(queue') /\ queue[1] \notin ToSet(queue')
  BY <1>1, TailItems
<1>3. PostControl(queue[1])
  BY DEF PostFront
<1> QED BY <1>1, <1>2, <1>3 DEF PostFront, Posts, Dropped, PostControl

LEMMA PostMoveDoes ==
  ASSUME Base, NEW m \in Moves, PostMove(m)
  PROVE  Posts(Move(m))
<1>1. /\ queue \in Seq(Items) /\ Move(m) \in ToSet(queue) /\ ~HoldsLaunches
      /\ queue' = Without(queue, {Move(m)}) /\ Move(m) \in Items /\ Move(m).kind = "move"
  BY TypeParts, ItemParts DEF Base, PostMove, Queued
<1>2. /\ queue' \in Seq(Items)
      /\ ToSet(queue') = ToSet(queue) \ {Move(m)}
      /\ Distinct(queue) => Distinct(queue')
  BY <1>1, WithoutItems
<1>3. PostControl(Move(m)) /\ Admits(Move(m))
  BY <1>1 DEF PostMove, Admits
<1> QED BY <1>1, <1>2, <1>3 DEF PostMove, Posts, Dropped, PostControl

(* The rotation leaves all in place. *)
LEMMA RotateDoes ==
  ASSUME Base, RotateLaunches
  PROVE  /\ queue' \in Seq(Items) /\ ToSet(queue)' = ToSet(queue)
         /\ Distinct(queue) => Distinct(queue)'
         /\ UNCHANGED <<lanes, sealed, flight, turn, fate, engine>>
<1>1. queue \in Seq(Items) /\ Others # {} /\ queue' = RotatedTo(queue, FirstOther)
  BY TypeParts DEF Base, RotateLaunches
<1>2. FirstOther \in DOMAIN queue
  BY <1>1, FirstOtherKnown
<1>3. /\ RotatedTo(queue, FirstOther) \in Seq(Items)
      /\ ToSet(RotatedTo(queue, FirstOther)) = ToSet(queue)
      /\ Distinct(queue) => Distinct(RotatedTo(queue, FirstOther))
  BY <1>1, <1>2, RotateItems
<1> QED BY <1>1, <1>3 DEF RotateLaunches

(* What a termination takes out of the queue. *)
Leaves(q, x) == x.kind # "move" /\ OfProcess(x.of, q) /\ x.of \notin Protected(q)

LEMMA TerminateDoes ==
  ASSUME Base, NEW q \in Processes, Terminate(q)
  PROVE  /\ queue' \in Seq(Items)
         /\ \A x : x \in ToSet(queue)' <=> x \in ToSet(queue) /\ ~Leaves(q, x)
         /\ Distinct(queue) => Distinct(queue)'
         /\ terminated' = terminated \cup {q} /\ cancelled' = cancelled \cup Protected(q)
         /\ \A y : y \in settled' <=>
              y \in settled \/ \E x \in ToSet(queue) : Leaves(q, x) /\ y = x.of
         /\ lanes' = [p \in Pipelines |-> IF Owner[p] = q THEN <<>> ELSE lanes[p]]
         /\ UNCHANGED <<flight, turn, engine, sealed, submitted, stopping, drained, withCopy>>
<1> DEFINE gone == {x \in ToSet(queue) : Leaves(q, x)}
<1>1. /\ queue' = Without(queue, gone) /\ settled' = settled \cup {x.of : x \in gone}
      /\ queue \in Seq(Items)
  BY TypeParts DEF Terminate, Leaves, Base
<1>2. /\ queue' \in Seq(Items) /\ ToSet(queue') = ToSet(queue) \ gone
      /\ Distinct(queue) => Distinct(queue')
  BY <1>1, WithoutItems
<1> QED BY <1>1, <1>2 DEF Terminate

(* The fires of W leave the queue, and those admitted are a new batch.     *)
NewBatch(W) == [fires |-> Admitted(W), at |-> "posted"]

Posted(W) ==
  /\ W \subseteq Fires /\ Admitted(W) \subseteq W
  /\ \A f \in W : Queued(Launch(f))
  /\ queue' \in Seq(Items)
  /\ ToSet(queue)' = ToSet(queue) \ {Launch(f) : f \in W}
  /\ Distinct(queue) => Distinct(queue)'
  /\ ~HoldsLaunches
  /\ settled' = settled \cup (W \ Admitted(W))
  /\ launches' = IF Admitted(W) = {} THEN launches ELSE Append(launches, NewBatch(W))
  /\ NewBatch(W) \in Batch
  /\ UNCHANGED <<lanes, controls, turn, engine, submitted, cancelled, terminated, stopping, withCopy>>

LEMMA PostWaveDoes ==
  ASSUME Base, NEW W, W \subseteq Fires, \A f \in W : Queued(Launch(f)), MayDispatch, PostWave(W),
         UNCHANGED <<lanes, controls, turn, engine, submitted, cancelled, terminated, stopping, withCopy>>
  PROVE  Posted(W)
<1>1. queue \in Seq(Items) /\ queue' = Without(queue, {Launch(f) : f \in W})
  BY TypeParts DEF Base, PostWave
<1>2. /\ queue' \in Seq(Items) /\ ToSet(queue') = ToSet(queue) \ {Launch(f) : f \in W}
      /\ Distinct(queue) => Distinct(queue')
  BY <1>1, WithoutItems
<1>3. Admitted(W) \subseteq W
  BY DEF Admitted
<1>4. NewBatch(W) \in Batch
  BY <1>3 DEF Batch, NewBatch
<1>5. /\ settled' = settled \cup (W \ Admitted(W))
      /\ launches' = IF Admitted(W) = {} THEN launches ELSE Append(launches, NewBatch(W))
  BY DEF PostWave, NewBatch
<1> QED BY <1>1, <1>2, <1>3, <1>4, <1>5 DEF Posted, MayDispatch

(* The batches with the new one, if there is one, at the end.              *)
LEMMA OneMoreBatch ==
  ASSUME launches \in Seq(Batch), NEW W, Posted(W)
  PROVE  /\ launches' \in Seq(Batch) /\ Len(launches) \in Nat
         /\ DOMAIN launches = 1..Len(launches)
         /\ \A i \in DOMAIN launches : i \in DOMAIN launches' /\ launches'[i] = launches[i]
         /\ \A i \in DOMAIN launches' : i \notin DOMAIN launches =>
              /\ i = Len(launches) + 1
              /\ launches'[i].fires = Admitted(W) /\ launches'[i].at = "posted"
<1>0. Len(launches) \in Nat /\ DOMAIN launches = 1..Len(launches)
  BY SeqIndexed
<1>1. CASE launches' = launches
  BY <1>0, <1>1
<1>2. CASE launches' = Append(launches, NewBatch(W))
  <2> DEFINE b == NewBatch(W)
  <2>1. b \in Batch /\ b.fires = Admitted(W) /\ b.at = "posted" /\ launches' = Append(launches, b)
    BY <1>2 DEF Posted, NewBatch
  <2> HIDE DEF b
  <2>2. /\ launches' \in Seq(Batch) /\ DOMAIN launches' = 1..(Len(launches) + 1)
        /\ \A i \in DOMAIN launches : launches'[i] = launches[i]
        /\ launches'[Len(launches) + 1] = b
    BY <2>1, AppendItems
  <2>3. \A i \in DOMAIN launches' : i \notin DOMAIN launches => i = Len(launches) + 1
    BY <1>0, <2>2
  <2>4. \A i \in DOMAIN launches : i \in DOMAIN launches'
    BY <1>0, <2>2
  <2> QED BY <1>0, <2>1, <2>2, <2>3, <2>4
<1> QED BY <1>1, <1>2 DEF Posted

(* The fires of the sealed frame that are still queued go.                 *)
Wave == {f \in sealed[1] : Queued(Launch(f))}

LEMMA PostFrameDoes ==
  ASSUME Base, PostFrame
  PROVE  /\ Posted(Wave) /\ drained' = drained
         /\ sealed # <<>> /\ sealed' = Tail(sealed) /\ sealed[1] \subseteq Fires
         /\ Wave = {} \/ \A f \in sealed[1] : f[1] \notin BlockedLanes
<1>1. sealed \in Seq(SUBSET Fires) /\ sealed # <<>>
  BY TypeParts DEF Base, PostFrame
<1>2. sealed[1] \subseteq Fires
  BY <1>1, TailItems
<1>3. Wave \subseteq Fires /\ \A f \in Wave : Queued(Launch(f))
  BY <1>2 DEF Wave
<1>4. /\ MayDispatch /\ PostWave(Wave)
      /\ UNCHANGED <<lanes, controls, turn, engine, submitted, cancelled, terminated, stopping, withCopy>>
  BY DEF PostFrame, Wave
<1>5. Posted(Wave)
  BY <1>3, <1>4, PostWaveDoes
<1> QED BY <1>1, <1>2, <1>5 DEF PostFrame, Wave

(* All launches that are queued go.                                        *)
AllQueued == {f \in Fires : Queued(Launch(f))}

LEMMA DrainDoes ==
  ASSUME Base, Drain
  PROVE  Posted(AllQueued) /\ drained' = drained \cup Admitted(AllQueued) /\ sealed' = sealed
<1>1. AllQueued \subseteq Fires /\ \A f \in AllQueued : Queued(Launch(f))
  BY DEF AllQueued
<1>2. /\ MayDispatch /\ PostWave(AllQueued)
      /\ drained' = drained \cup Admitted(AllQueued) /\ sealed' = sealed
      /\ UNCHANGED <<lanes, controls, turn, engine, submitted, cancelled, terminated, stopping, withCopy>>
  BY DEF Drain, AllQueued
<1> QED BY <1>1, <1>2, PostWaveDoes

(* A batch moves on; its fires stay. *)
BatchMoves(i, at) ==
  /\ i \in DOMAIN launches /\ launches' \in Seq(Batch) /\ DOMAIN launches' = DOMAIN launches
  /\ \A j \in DOMAIN launches : launches'[j].fires = launches[j].fires
  /\ launches'[i].at = at
  /\ \A j \in DOMAIN launches : j # i => launches'[j] = launches[j]

(* A control moves on; its item stays. *)
ControlMoves(i, at) ==
  /\ i \in DOMAIN controls /\ controls' \in Seq(Control) /\ DOMAIN controls' = DOMAIN controls
  /\ \A j \in DOMAIN controls : controls'[j].item = controls[j].item
  /\ controls'[i].at = at
  /\ \A j \in DOMAIN controls : j # i => controls'[j] = controls[j]

LEMMA LaunchesAt ==
  ASSUME launches \in Seq(Batch), NEW i \in DOMAIN launches, NEW at \in {"posted", "accepted", "done", "failed"},
         launches' = [launches EXCEPT ![i].at = at]
  PROVE  BatchMoves(i, at)
<1> DEFINE r == [launches[i] EXCEPT !.at = at]
<1>1. launches[i] \in Batch
  BY SeqIndexed
<1>2. r \in Batch /\ r.fires = launches[i].fires /\ r.at = at
  BY <1>1 DEF Batch
<1> HIDE DEF r
<1>3. launches' = [launches EXCEPT ![i] = r]
  BY DEF r
<1>4. launches' \in Seq(Batch) /\ launches'[i] = r /\ DOMAIN launches' = DOMAIN launches
  BY <1>2, <1>3, ExceptSeq
<1>5. \A j \in DOMAIN launches : j # i => launches'[j] = launches[j]
  BY <1>3
<1> QED BY <1>2, <1>4, <1>5 DEF BatchMoves

LEMMA ControlsAt ==
  ASSUME controls \in Seq(Control), NEW i \in DOMAIN controls, NEW at \in {"posted", "running", "done", "failed", "refused"},
         controls' = [controls EXCEPT ![i].at = at]
  PROVE  ControlMoves(i, at)
<1> DEFINE r == [controls[i] EXCEPT !.at = at]
<1>1. controls[i] \in Control
  BY SeqIndexed
<1>2. r \in Control /\ r.item = controls[i].item /\ r.at = at
  BY <1>1 DEF Control
<1> HIDE DEF r
<1>3. controls' = [controls EXCEPT ![i] = r]
  BY DEF r
<1>4. controls' \in Seq(Control) /\ controls'[i] = r /\ DOMAIN controls' = DOMAIN controls
  BY <1>2, <1>3, ExceptSeq
<1>5. \A j \in DOMAIN controls : j # i => controls'[j] = controls[j]
  BY <1>3
<1> QED BY <1>2, <1>4, <1>5 DEF ControlMoves

(* The lane's turn and the shutdown are as typed. *)
TurnOK ==
  /\ turn \in [launch : Nat, control : 0..ControlRunMax, stash : BOOLEAN] /\ TurnBelow
  /\ stopping \in BOOLEAN /\ drained \subseteq Fires

LEMMA LaneTakesLaunchDoes ==
  ASSUME Base, LaneTakesLaunch
  PROVE  \E i \in DOMAIN launches :
           /\ launches[i].at = "posted"
           /\ \A j \in DOMAIN launches : j < i => launches[j].at # "posted"
           /\ \/ BatchMoves(i, "accepted") /\ ran' = ran \cup launches[i].fires
              \/ BatchMoves(i, "failed") /\ ran' = ran
           /\ TurnOK'
           /\ UNCHANGED <<work, controls, fate, copied>>
<1> DEFINE i == First(launches, "posted")
<1>1. launches \in Seq(Batch) /\ Waiting(launches)
  BY TypeParts DEF Base, LaneTakesLaunch
<1>2. /\ i \in DOMAIN launches /\ launches[i].at = "posted"
      /\ \A j \in DOMAIN launches : j < i => launches[j].at # "posted"
  BY <1>1, FirstPosted
<1>3. \/ launches' = [launches EXCEPT ![i].at = "accepted"] /\ ran' = ran \cup launches[i].fires
      \/ launches' = [launches EXCEPT ![i].at = "failed"] /\ ran' = ran
  BY DEF LaneTakesLaunch
<1>4. TurnOK'
  <2> DEFINE more == \E j \in DOMAIN launches : j # i /\ launches[j].at = "posted"
             l == turn.launch
             c == turn.control
  <2>1. /\ turn \in [launch : Nat, control : 0..ControlRunMax, stash : BOOLEAN]
        /\ turn.control < ControlRunMax
        /\ turn' = [turn EXCEPT !.launch = @ + 1, !.stash = more]
        /\ stopping \in BOOLEAN /\ drained \subseteq Fires /\ UNCHANGED <<stopping, drained>>
    BY DEF Base, TypeOK, TurnBelow, LaneTakesLaunch, fate
  <2>2. more \in BOOLEAN
    OBVIOUS
  <2> HIDE DEF more
  <2>3. /\ l \in Nat /\ c \in 0..ControlRunMax /\ c < ControlRunMax
        /\ turn' = [launch |-> l + 1, control |-> c, stash |-> more]
    BY <2>1
  <2> HIDE DEF l, c
  <2>4. l + 1 \in Nat
    BY <2>3
  <2>5. turn' \in [launch : Nat, control : 0..ControlRunMax, stash : BOOLEAN] /\ turn'.control = c
    BY <2>2, <2>3, <2>4
  <2> QED BY <2>1, <2>3, <2>5 DEF TurnOK, TurnBelow
<1> HIDE DEF i
<1>5. \/ BatchMoves(i, "accepted") /\ ran' = ran \cup launches[i].fires
      \/ BatchMoves(i, "failed") /\ ran' = ran
  BY <1>1, <1>2, <1>3, LaunchesAt
<1> QED BY <1>2, <1>4, <1>5 DEF LaneTakesLaunch

LEMMA LaneTakesControlDoes ==
  ASSUME Base, LaneTakesControl
  PROVE  \E i \in DOMAIN controls :
           /\ controls[i].at = "posted"
           /\ \/ ControlMoves(i, "refused") /\ settled' = settled \cup {controls[i].item.of}
              \/ ControlMoves(i, "running") /\ ~Dropped(controls[i].item) /\ settled' = settled
           /\ TurnOK'
           /\ UNCHANGED <<work, launches, copied, ran, submitted, cancelled, terminated, stopping, drained, withCopy>>
<1> DEFINE i == First(controls, "posted")
<1>1. controls \in Seq(Control) /\ Waiting(controls)
  BY TypeParts DEF Base, LaneTakesControl
<1>2. i \in DOMAIN controls /\ controls[i].at = "posted"
  BY <1>1, FirstPosted
<1>3. \/ /\ controls' = [controls EXCEPT ![i].at = "refused"]
         /\ settled' = settled \cup {controls[i].item.of}
      \/ /\ controls' = [controls EXCEPT ![i].at = "running"]
         /\ ~Dropped(controls[i].item) /\ settled' = settled
  BY DEF LaneTakesControl, Dropped
<1>4. TurnOK'
  <2> DEFINE l == turn.launch
             c == turn.control
             h == turn.stash
  <2>1. /\ turn = [launch |-> l, control |-> c, stash |-> h]
        /\ l \in Nat /\ c \in 0..ControlRunMax /\ h \in BOOLEAN
    BY DEF Base, TypeOK
  <2>2. turn' = IF c + 1 >= ControlRunMax THEN [launch |-> 0, control |-> 0, stash |-> FALSE]
                ELSE [launch |-> l, control |-> c + 1, stash |-> h]
    BY <2>1 DEF LaneTakesControl, Fresh
  <2>9. stopping' \in BOOLEAN /\ drained' \subseteq Fires
    BY DEF Base, TypeOK, LaneTakesControl
  <2> HIDE DEF l, c, h
  <2>3. CASE c + 1 >= ControlRunMax
    BY <2>2, <2>3, <2>9, DispatchAssumption DEF TurnOK, TurnBelow
  <2>4. CASE ~(c + 1 >= ControlRunMax)
    <3>1. c + 1 \in 0..ControlRunMax /\ c + 1 < ControlRunMax
      BY <2>1, <2>4, DispatchAssumption
    <3> QED BY <2>1, <2>2, <2>4, <2>9, <3>1 DEF TurnOK, TurnBelow
  <2> QED BY <2>3, <2>4
<1> HIDE DEF i
<1>5. \/ ControlMoves(i, "refused") /\ settled' = settled \cup {controls[i].item.of}
      \/ ControlMoves(i, "running") /\ ~Dropped(controls[i].item) /\ settled' = settled
  BY <1>1, <1>2, <1>3, ControlsAt
<1> QED BY <1>2, <1>4, <1>5 DEF LaneTakesControl

LEMMA EngineEndsLaunchDoes ==
  ASSUME Base, EngineEndsLaunch
  PROVE  /\ \E i \in DOMAIN launches : launches[i].at = "accepted" /\ BatchMoves(i, "done")
         /\ UNCHANGED <<work, controls, turn, fate, engine>>
<1>1. PICK i \in DOMAIN launches :
        launches[i].at = "accepted" /\ launches' = [launches EXCEPT ![i].at = "done"]
  BY DEF EngineEndsLaunch
<1>2. launches \in Seq(Batch)
  BY TypeParts DEF Base
<1>3. BatchMoves(i, "done")
  BY <1>1, <1>2, LaunchesAt
<1> QED BY <1>1, <1>3 DEF EngineEndsLaunch

LEMMA EngineEndsControlDoes ==
  ASSUME Base, EngineEndsControl
  PROVE  \E i \in DOMAIN controls, at \in {"done", "failed"} :
           /\ controls[i].at = "running" /\ ControlMoves(i, at)
           /\ copied' = copied \cup (IF controls[i].item.kind = "copy" /\ at = "done"
                                     THEN {controls[i].item.of} ELSE {})
           /\ UNCHANGED <<work, launches, turn, fate, ran>>
<1>1. PICK i \in DOMAIN controls, at \in {"done", "failed"} :
        /\ controls[i].at = "running"
        /\ controls' = [controls EXCEPT ![i].at = at]
        /\ copied' = IF Prelaunch(controls[i]) /\ at = "done"
                     THEN copied \cup {controls[i].item.of} ELSE copied
  BY DEF EngineEndsControl
<1>2. controls \in Seq(Control)
  BY TypeParts DEF Base
<1>3. ControlMoves(i, at)
  BY <1>1, <1>2, ControlsAt
<1> QED BY <1>1, <1>3 DEF EngineEndsControl, Prelaunch

LEMMA RetireLaunchDoes ==
  ASSUME Base, RetireLaunch
  PROVE  /\ launches' \in Seq(Batch) /\ 1 \in DOMAIN launches
         /\ launches[1].at \in {"done", "failed"} /\ launches[1].fires \subseteq Fires
         /\ settled' = settled \cup launches[1].fires
         /\ \A i \in DOMAIN launches' :
              /\ i \in Nat \ {0} /\ i + 1 \in DOMAIN launches /\ launches'[i] = launches[i + 1]
         /\ UNCHANGED <<work, controls, turn, engine, submitted, cancelled, terminated, stopping, drained, withCopy>>
<1>1. launches \in Seq(Batch) /\ launches # <<>> /\ launches' = Tail(launches)
  BY TypeParts DEF Base, RetireLaunch
<1>2. /\ launches' \in Seq(Batch) /\ DOMAIN launches' = 1..(Len(launches) - 1)
      /\ Len(launches) \in Nat /\ 1 \in DOMAIN launches
      /\ \A i \in DOMAIN launches' : launches'[i] = launches[i + 1] /\ i + 1 \in DOMAIN launches
  BY <1>1, TailItems
<1>3. launches[1].fires \subseteq Fires
  BY <1>1, <1>2, BatchParts
<1> QED BY <1>2, <1>3 DEF RetireLaunch

LEMMA RetireControlDoes ==
  ASSUME Base, RetireControl
  PROVE  \E i \in DOMAIN controls :
           /\ controls[i].at \in {"done", "failed", "refused"}
           /\ settled' = settled \cup (IF controls[i].item.kind = "move" \/ controls[i].at = "failed"
                                       THEN {controls[i].item.of} ELSE {})
           /\ controls' \in Seq(Control)
           /\ \A k \in DOMAIN controls' :
                /\ k \in Nat /\ k \in DOMAIN controls /\ k + 1 \in DOMAIN controls
                /\ controls'[k] = controls[IF k < i THEN k ELSE k + 1]
           /\ \A j \in DOMAIN controls : j # i => \E k \in DOMAIN controls' : controls'[k] = controls[j]
           /\ i \in Nat
           /\ UNCHANGED <<work, launches, turn, engine, submitted, cancelled, terminated, stopping, drained, withCopy>>
<1>1. PICK i \in DOMAIN controls :
        /\ controls[i].at \in {"done", "failed", "refused"}
        /\ controls' = RemoveAt(controls, i)
        /\ settled' = IF controls[i].item.kind = "move" \/ controls[i].at = "failed"
                      THEN settled \cup {controls[i].item.of} ELSE settled
  BY DEF RetireControl
<1>2. controls \in Seq(Control)
  BY TypeParts DEF Base
<1>3. i \in Nat
  BY <1>2, SeqIndexed
<1>4. /\ controls' \in Seq(Control) /\ DOMAIN controls' = 1..(Len(controls) - 1)
      /\ \A k \in 1..(Len(controls) - 1) :
           /\ k \in Nat /\ k + 1 \in DOMAIN controls /\ k \in DOMAIN controls
           /\ controls'[k] = controls[IF k < i THEN k ELSE k + 1]
      /\ \A j \in DOMAIN controls : j # i => \E k \in 1..(Len(controls) - 1) : controls'[k] = controls[j]
  BY <1>1, <1>2, RemoveItems
<1>5. settled' = settled \cup (IF controls[i].item.kind = "move" \/ controls[i].at = "failed"
                              THEN {controls[i].item.of} ELSE {})
  BY <1>1
<1>6. UNCHANGED <<work, launches, turn, engine, submitted, cancelled, terminated, stopping, drained, withCopy>>
  BY DEF RetireControl
<1>7. \A k \in DOMAIN controls' :
        /\ k \in Nat /\ k \in DOMAIN controls /\ k + 1 \in DOMAIN controls
        /\ controls'[k] = controls[IF k < i THEN k ELSE k + 1]
  BY <1>4
<1>8. \A j \in DOMAIN controls : j # i => \E k \in DOMAIN controls' : controls'[k] = controls[j]
  BY <1>4
<1>9. controls[i].at \in {"done", "failed", "refused"} /\ controls' \in Seq(Control)
  BY <1>1, <1>4
<1> QED BY <1>3, <1>5, <1>6, <1>7, <1>8, <1>9

-----------------------------------------------------------------------------
(* Types, numbers and what is known of controls. *)

LEMMA TypeNext ==
  ASSUME queue' \in Seq(Items), lanes' \in [Pipelines -> Seq(Fires)],
         sealed' \in Seq(SUBSET Fires),
         launches' \in Seq(Batch), controls' \in Seq(Control), TurnOK',
         cancelled' \cup withCopy' \cup copied' \cup ran' \subseteq Fires,
         submitted' \cup settled' \subseteq Fires \cup Moves, terminated' \subseteq Processes
  PROVE  TypeOK' /\ TurnBelow'
BY DEF TypeOK, Batch, Control, TurnOK

LEMMA BaseInit == Init => Base
<1> SUFFICES ASSUME Init PROVE Base
  OBVIOUS
<1>1. TurnOK
  <2>1. /\ turn = [launch |-> 0, control |-> 0, stash |-> FALSE]
        /\ stopping \in BOOLEAN /\ drained \subseteq Fires
    BY DEF Init
  <2>2. 0 \in 0..ControlRunMax /\ 0 < ControlRunMax /\ 0 \in Nat /\ FALSE \in BOOLEAN
    BY DispatchAssumption
  <2>3. turn \in [launch : Nat, control : 0..ControlRunMax, stash : BOOLEAN] /\ turn.control = 0
    BY <2>1, <2>2
  <2> QED BY <2>1, <2>2, <2>3 DEF TurnOK, TurnBelow
<1>2. /\ queue \in Seq(Items) /\ sealed \in Seq(SUBSET Fires) /\ launches \in Seq(Batch)
      /\ controls \in Seq(Control) /\ lanes \in [Pipelines -> Seq(Fires)]
  BY EmptySeq DEF Init
<1>3. TypeOK /\ TurnBelow
  BY <1>1, <1>2 DEF Init, TypeOK, Batch, Control, TurnOK
<1>4. Numbered
  <2>1. 0 \in 0..MaxFires /\ \A k \in 1..MaxFires : ~(k <= 0)
    BY DispatchAssumption
  <2> QED BY <2>1, FS_EmptySet DEF Init, Numbered
<1>5. ToSet(queue) = {} /\ DOMAIN sealed = {} /\ DOMAIN launches = {} /\ DOMAIN controls = {}
      /\ \A p \in Pipelines : DOMAIN lanes[p] = {}
  BY DEF Init, ToSet
<1>6. KnownSubmitted /\ ControlsKnown
  BY <1>5 DEF Init, KnownSubmitted, ControlsKnown
<1> QED BY <1>3, <1>4, <1>6 DEF Base

LEMMA BaseParts ==
  ASSUME Base
  PROVE  /\ queue \in Seq(Items) /\ lanes \in [Pipelines -> Seq(Fires)]
         /\ sealed \in Seq(SUBSET Fires)
         /\ launches \in Seq(Batch) /\ controls \in Seq(Control) /\ TurnOK
         /\ cancelled \subseteq Fires /\ withCopy \subseteq Fires
         /\ copied \subseteq Fires /\ ran \subseteq Fires
         /\ submitted \subseteq Fires \cup Moves /\ settled \subseteq Fires \cup Moves
         /\ terminated \subseteq Processes /\ stopping \in BOOLEAN /\ drained \subseteq Fires
         /\ \A x \in ToSet(queue) : x \in Items
         /\ Numbered /\ KnownSubmitted /\ ControlsKnown
<1>1. queue \in Seq(Items)
  BY TypeParts DEF Base
<1>2. \A x \in ToSet(queue) : x \in Items
  BY <1>1, SeqIndexed
<1> QED BY <1>2, TypeParts DEF Base, TypeOK, TurnOK

(* With the queued launches gone, none is queued.                          *)
LEMMA NoneQueued ==
  ASSUME Base, Posted(AllQueued), NEW f
  PROVE  ~Queued(Launch(f))'
<1>1. ASSUME Launch(f) \in ToSet(queue)' PROVE FALSE
  <2>1. Launch(f) \in ToSet(queue) /\ f \notin AllQueued
    BY <1>1 DEF Posted
  <2>2. Launch(f) \in Items
    BY <2>1, BaseParts
  <2>3. f \in Fires
    BY <2>2, ItemParts
  <2> QED BY <2>1, <2>3 DEF AllQueued, Queued
<1> QED BY <1>1 DEF Queued

LEMMA BaseSubmit ==
  ASSUME Base, NEW f \in Fires, NewFire(f), Rejects(f) \/ \E C \in {{}, {f}} : Adds(f, C)
  PROVE  Base'
<1> USE DEF flight, engine
<1>1. /\ f \notin submitted /\ submitted' = submitted \cup {f} /\ f[1] \in Pipelines /\ f[2] \in 1..MaxFires
      /\ f = <<f[1], f[2]>>
      /\ \A k \in 1..MaxFires : <<f[1], k>> \in submitted <=> k < f[2]
      /\ UNCHANGED <<launches, controls, turn, copied, ran, sealed, cancelled, terminated, stopping, drained>>
  BY FireParts DEF NewFire
<1>2. Numbered'
  <2>1. IsFiniteSet(submitted)'
    BY <1>1, BaseParts, FS_AddElement DEF Numbered
  <2>2. ASSUME NEW p \in Pipelines
        PROVE  \E n \in 0..MaxFires : \A k \in 1..MaxFires : <<p, k>> \in submitted' <=> k <= n
    <3>1. CASE p = f[1]
      <4>1. ASSUME NEW k \in 1..MaxFires PROVE <<p, k>> \in submitted' <=> k <= f[2]
        <5>1. <<p, k>> = f <=> k = f[2]
          BY <1>1, <3>1
        <5> QED BY <1>1, <3>1, <5>1, DispatchAssumption
      <4>2. f[2] \in 0..MaxFires
        BY <1>1
      <4> QED BY <4>1, <4>2
    <3>2. CASE p # f[1]
      <4>1. \A k \in 1..MaxFires : <<p, k>> # f
        BY <1>1, <3>2
      <4>2. PICK n \in 0..MaxFires : \A k \in 1..MaxFires : <<p, k>> \in submitted <=> k <= n
        BY BaseParts DEF Numbered
      <4> QED BY <1>1, <4>1, <4>2
    <3> QED BY <3>1, <3>2
  <2> QED BY <2>1, <2>2 DEF Numbered
<1>3. ControlsKnown' /\ TurnOK'
  <2>1. settled \subseteq settled'
    BY DEF Rejects, Adds
  <2>2. TurnOK'
    BY <1>1, BaseParts DEF TurnOK, TurnBelow
  <2>3. ControlsKnown'
    BY <1>1, <2>1, BaseParts DEF ControlsKnown
  <2> QED BY <2>2, <2>3
<1>4. CASE Rejects(f)
  <2>1. settled' = settled \cup {f} /\ UNCHANGED <<queue, lanes, withCopy>>
    BY <1>4 DEF Rejects
  <2>2. TypeOK' /\ TurnBelow'
    BY <1>1, <1>3, <2>1, BaseParts, TypeNext
  <2>3. KnownSubmitted'
    BY <1>1, <2>1, BaseParts DEF KnownSubmitted
  <2> QED BY <1>2, <1>3, <2>2, <2>3 DEF Base
<1>5. ASSUME NEW C \in {{}, {f}}, Adds(f, C) PROVE Base'
  <2>1. /\ queue' \in Seq(Items)
        /\ ToSet(queue)' = ToSet(queue) \cup {Launch(f)} \cup {Copy(c) : c \in C}
        /\ lanes' = [lanes EXCEPT ![f[1]] = Append(@, f)]
        /\ withCopy' = withCopy \cup C /\ UNCHANGED settled
    BY <1>5 DEF Adds
  <2>2. Append(lanes[f[1]], f) \in Seq(Fires)
    BY <1>1, BaseParts, AppendItems
  <2>3. lanes' \in [Pipelines -> Seq(Fires)]
    BY <1>1, <2>1, <2>2, BaseParts
  <2>4. TypeOK' /\ TurnBelow'
    BY <1>1, <1>3, <2>1, <2>3, BaseParts, TypeNext
  <2>5. ASSUME NEW p \in Pipelines, NEW k \in DOMAIN lanes'[p] PROVE lanes'[p][k] \in submitted'
    <3>1. CASE p = f[1]
      <4>1. lanes'[p] = Append(lanes[p], f) /\ lanes[p] \in Seq(Fires)
        BY <1>1, <2>1, <3>1, BaseParts
      <4>2. /\ DOMAIN lanes'[p] = 1..(Len(lanes[p]) + 1) /\ lanes'[p][Len(lanes[p]) + 1] = f
            /\ \A i \in DOMAIN lanes[p] : lanes'[p][i] = lanes[p][i]
            /\ DOMAIN lanes[p] = 1..Len(lanes[p]) /\ Len(lanes[p]) \in Nat
        BY <4>1, AppendItems, SeqIndexed
      <4>3. \A i \in DOMAIN lanes[p] : lanes[p][i] \in submitted
        BY BaseParts DEF KnownSubmitted
      <4> QED BY <1>1, <2>5, <4>2, <4>3
    <3>2. CASE p # f[1]
      BY <1>1, <2>1, <2>5, <3>2, BaseParts DEF KnownSubmitted
    <3> QED BY <3>1, <3>2
  <2>6. \A x \in ToSet(queue)' : x.of \in submitted'
    BY <1>1, <2>1, BaseParts, ItemParts DEF KnownSubmitted
  <2>7. /\ \A k \in DOMAIN sealed' : sealed'[k] \subseteq submitted'
        /\ \A i \in DOMAIN launches' : launches'[i].fires \subseteq submitted'
        /\ \A i \in DOMAIN controls' : controls'[i].item.of \in submitted'
        /\ withCopy' \cup copied' \cup ran' \cup settled' \subseteq submitted'
    BY <1>1, <2>1, BaseParts DEF KnownSubmitted
  <2>8. KnownSubmitted'
    BY <2>5, <2>6, <2>7 DEF KnownSubmitted
  <2> QED BY <1>2, <1>3, <2>4, <2>8 DEF Base
<1> QED BY <1>4, <1>5

LEMMA BaseSubmitMove ==
  ASSUME Base, NEW m \in Moves, SubmitMove(m)
  PROVE  Base'
<1> USE DEF flight, engine
<1>1. /\ submitted' = submitted \cup {m} /\ queue' = Append(queue, Move(m))
      /\ UNCHANGED <<launches, controls, turn, copied, ran, lanes, sealed, cancelled, settled,
                     terminated, stopping, drained, withCopy>>
  BY DEF SubmitMove
<1>2. /\ queue' \in Seq(Items) /\ ToSet(queue') = ToSet(queue) \cup {Move(m)}
  BY <1>1, AppendItems, BaseParts, ItemParts
<1>3. TurnOK' /\ ControlsKnown'
  BY <1>1, BaseParts DEF TurnOK, TurnBelow, ControlsKnown
<1>4. TypeOK' /\ TurnBelow'
  BY <1>1, <1>2, <1>3, BaseParts, TypeNext
<1>5. KnownSubmitted'
  BY <1>1, <1>2, BaseParts, ItemParts DEF KnownSubmitted
<1>6. Numbered'
  <2>1. IsFiniteSet(submitted)'
    BY <1>1, BaseParts, FS_AddElement DEF Numbered
  <2>2. ASSUME NEW p \in Pipelines, NEW k \in 1..MaxFires
        PROVE  <<p, k>> \in submitted' <=> <<p, k>> \in submitted
    BY <1>1, FireOf, MovesAssumption
  <2> QED BY <2>1, <2>2, BaseParts DEF Numbered
<1> QED BY <1>3, <1>4, <1>5, <1>6 DEF Base

(* Steps that submit nothing. *)
LEMMA BaseFrom ==
  ASSUME Base, submitted' = submitted, TypeOK', TurnBelow', KnownSubmitted', ControlsKnown'
  PROVE  Base'
<1>1. Numbered'
  BY BaseParts DEF Numbered
<1> QED BY <1>1 DEF Base

LEMMA ProtectedFires ==
  ASSUME Base, NEW q
  PROVE  /\ Protected(q) \subseteq Fires
         /\ \A f \in Protected(q) : Copying(f) /\ OfProcess(f, q)
<1> SUFFICES ASSUME NEW f \in Protected(q) PROVE f \in Fires /\ Copying(f) /\ OfProcess(f, q)
  OBVIOUS
<1>1. PICK i \in DOMAIN controls :
        f = controls[i].item.of /\ controls[i].item.kind = "copy" /\ OfProcess(f, q)
  BY DEF Protected
<1>2. controls[i].item \in Items
  BY BaseParts, ControlParts
<1>3. f \in Fires /\ controls[i].item = Copy(f)
  BY <1>1, <1>2, ItemParts
<1> QED BY <1>1, <1>3 DEF Copying

LEMMA BaseTerminate ==
  ASSUME Base, NEW q \in Processes, Terminate(q)
  PROVE  Base'
<1> USE DEF flight, engine
<1>1. /\ queue' \in Seq(Items)
      /\ \A x : x \in ToSet(queue)' <=> x \in ToSet(queue) /\ ~Leaves(q, x)
      /\ terminated' = terminated \cup {q} /\ cancelled' = cancelled \cup Protected(q)
      /\ \A y : y \in settled' <=>
           y \in settled \/ \E x \in ToSet(queue) : Leaves(q, x) /\ y = x.of
      /\ lanes' = [p \in Pipelines |-> IF Owner[p] = q THEN <<>> ELSE lanes[p]]
      /\ UNCHANGED <<launches, controls, turn, copied, ran, sealed, submitted, stopping, drained, withCopy>>
  BY TerminateDoes
<1>2. lanes' \in [Pipelines -> Seq(Fires)]
  BY <1>1, BaseParts, EmptySeq
<1>3. settled' \subseteq Fires \cup Moves /\ settled' \subseteq submitted
  <2> SUFFICES ASSUME NEW y \in settled', y \notin settled
               PROVE  y \in Fires \cup Moves /\ y \in submitted
    BY BaseParts DEF KnownSubmitted
  <2>1. PICK x \in ToSet(queue) : y = x.of
    BY <1>1
  <2>2. x \in Items
    BY BaseParts
  <2>3. x.of \in Fires \cup Moves
    BY <2>2, ItemParts
  <2>4. x.of \in submitted
    BY BaseParts DEF KnownSubmitted
  <2> QED BY <2>1, <2>3, <2>4
<1>4. TurnOK' /\ ControlsKnown'
  <2>1. settled \subseteq settled'
    BY <1>1
  <2> QED BY <1>1, <2>1, BaseParts DEF TurnOK, TurnBelow, ControlsKnown
<1>5. TypeOK' /\ TurnBelow'
  BY <1>1, <1>2, <1>3, <1>4, BaseParts, ProtectedFires, TypeNext
<1>6. \A p \in Pipelines : \A k \in DOMAIN lanes'[p] : lanes'[p][k] \in submitted'
  BY <1>1, BaseParts DEF KnownSubmitted
<1>7. KnownSubmitted'
  BY <1>1, <1>3, <1>6, BaseParts DEF KnownSubmitted
<1> QED BY <1>1, <1>4, <1>5, <1>7, BaseFrom

LEMMA SealDoes ==
  ASSUME Base, NEW P \in SUBSET Pipelines, Seal(P)
  PROVE  /\ sealed = <<>> /\ ~HoldsLaunches
         /\ sealed' \in Seq(SUBSET Fires) /\ DOMAIN sealed' = {1} /\ Len(sealed') = 1
         /\ sealed' # <<>>
         /\ sealed'[1] = {lanes[p][1] : p \in P} /\ sealed'[1] \subseteq Fires
         /\ \A p \in P : 1 \in DOMAIN lanes[p] /\ lanes[p][1] \in Fires
         /\ lanes' \in [Pipelines -> Seq(Fires)]
         /\ \A p \in P : \A k \in DOMAIN lanes'[p] :
              /\ k \in Nat \ {0} /\ k + 1 \in DOMAIN lanes[p] /\ lanes'[p][k] = lanes[p][k + 1]
         /\ \A p \in P : \A k \in DOMAIN lanes[p] : k # 1 => k - 1 \in DOMAIN lanes'[p] /\ k \in Nat
         /\ \A p \in Pipelines \ P : lanes'[p] = lanes[p]
         /\ UNCHANGED <<queue, flight, turn, fate, engine>>
<1>1. /\ sealed = <<>> /\ sealed' = <<{Head(lanes[p]) : p \in P}>> /\ MayDispatch
      /\ \A p \in P : lanes[p] # <<>>
      /\ lanes' = [p \in Pipelines |-> IF p \in P THEN Tail(lanes[p]) ELSE lanes[p]]
      /\ UNCHANGED <<queue, flight, turn, fate, engine>>
  BY DEF Seal
<1>2. ASSUME NEW p \in P
      PROVE  /\ Tail(lanes[p]) \in Seq(Fires) /\ DOMAIN Tail(lanes[p]) = 1..(Len(lanes[p]) - 1)
             /\ \A k \in DOMAIN Tail(lanes[p]) :
                  Tail(lanes[p])[k] = lanes[p][k + 1] /\ k + 1 \in DOMAIN lanes[p]
             /\ Head(lanes[p]) = lanes[p][1] /\ lanes[p][1] \in Fires /\ 1 \in DOMAIN lanes[p]
             /\ Len(lanes[p]) \in Nat /\ DOMAIN lanes[p] = 1..Len(lanes[p])
  <2>1. lanes[p] \in Seq(Fires) /\ lanes[p] # <<>>
    BY <1>1, BaseParts
  <2> QED BY <2>1, TailItems, SeqIndexed
<1>3. lanes' \in [Pipelines -> Seq(Fires)]
  BY <1>1, <1>2, BaseParts
<1>4. {Head(lanes[p]) : p \in P} = {lanes[p][1] : p \in P} /\ {lanes[p][1] : p \in P} \subseteq Fires
  BY <1>2
<1>5. /\ sealed' \in Seq(SUBSET Fires) /\ DOMAIN sealed' = {1} /\ Len(sealed') = 1
      /\ sealed' # <<>> /\ sealed'[1] = {lanes[p][1] : p \in P}
  <2> DEFINE F == {lanes[p][1] : p \in P}
  <2>1. sealed' = <<F>> /\ F \in SUBSET Fires
    BY <1>1, <1>4
  <2> HIDE DEF F
  <2>2. sealed' \in Seq(SUBSET Fires) /\ Len(sealed') = 1 /\ sealed'[1] = F /\ sealed' # <<>>
    BY <2>1
  <2>3. DOMAIN sealed' = {1}
    BY <2>2, SeqIndexed
  <2> QED BY <2>2, <2>3 DEF F
<1>6. ASSUME NEW p \in P, NEW k \in DOMAIN lanes'[p]
      PROVE  k \in Nat \ {0} /\ k + 1 \in DOMAIN lanes[p] /\ lanes'[p][k] = lanes[p][k + 1]
  <2>1. lanes'[p] = Tail(lanes[p])
    BY <1>1
  <2> QED BY <1>2, <1>6, <2>1
<1>7. ASSUME NEW p \in P, NEW k \in DOMAIN lanes[p], k # 1
      PROVE  k - 1 \in DOMAIN lanes'[p] /\ k \in Nat
  <2>1. lanes'[p] = Tail(lanes[p])
    BY <1>1
  <2> QED BY <1>2, <1>7, <2>1
<1>8. \A p \in Pipelines \ P : lanes'[p] = lanes[p]
  BY <1>1
<1> QED BY <1>1, <1>2, <1>3, <1>4, <1>5, <1>6, <1>7, <1>8 DEF MayDispatch

LEMMA BaseSeal ==
  ASSUME Base, NEW P \in SUBSET Pipelines, Seal(P)
  PROVE  Base'
<1> USE DEF flight, engine, fate
<1>1. /\ sealed' \in Seq(SUBSET Fires) /\ DOMAIN sealed' = {1}
      /\ sealed'[1] = {lanes[p][1] : p \in P}
      /\ \A p \in P : 1 \in DOMAIN lanes[p]
      /\ lanes' \in [Pipelines -> Seq(Fires)]
      /\ \A p \in P : \A k \in DOMAIN lanes'[p] :
            k + 1 \in DOMAIN lanes[p] /\ lanes'[p][k] = lanes[p][k + 1]
      /\ \A p \in Pipelines \ P : lanes'[p] = lanes[p]
      /\ UNCHANGED <<queue, launches, controls, turn, submitted, cancelled, settled, terminated,
                     stopping, drained, withCopy, copied, ran>>
  BY SealDoes
<1>2. TurnOK' /\ ControlsKnown'
  BY <1>1, BaseParts DEF TurnOK, TurnBelow, ControlsKnown
<1>3. TypeOK' /\ TurnBelow'
  <2>1. /\ queue' \in Seq(Items) /\ lanes' \in [Pipelines -> Seq(Fires)]
        /\ sealed' \in Seq(SUBSET Fires)
        /\ launches' \in Seq(Batch) /\ controls' \in Seq(Control) /\ TurnOK'
    BY <1>1, <1>2, BaseParts
  <2>2. /\ cancelled' \cup withCopy' \cup copied' \cup ran' \subseteq Fires
        /\ submitted' \cup settled' \subseteq Fires \cup Moves /\ terminated' \subseteq Processes
    BY <1>1, BaseParts
  <2> QED BY <2>1, <2>2, TypeNext
<1>4. ASSUME NEW p \in Pipelines, NEW k \in DOMAIN lanes'[p] PROVE lanes'[p][k] \in submitted
  <2>1. \A j \in DOMAIN lanes[p] : lanes[p][j] \in submitted
    BY BaseParts DEF KnownSubmitted
  <2> QED BY <1>1, <1>4, <2>1
<1>5. sealed'[1] \subseteq submitted
  BY <1>1, BaseParts DEF KnownSubmitted
<1>6. KnownSubmitted'
  BY <1>1, <1>4, <1>5, BaseParts DEF KnownSubmitted
<1> QED BY <1>1, <1>2, <1>3, <1>6, BaseFrom

LEMMA BasePosted ==
  ASSUME Base, NEW W, Posted(W), drained' \subseteq drained \cup W,
         sealed' \in Seq(SUBSET Fires), \A k \in DOMAIN sealed' : sealed'[k] \subseteq submitted
  PROVE  Base'
<1> USE DEF engine
<1>1. /\ queue' \in Seq(Items) /\ ToSet(queue)' \subseteq ToSet(queue)
      /\ settled' = settled \cup (W \ Admitted(W))
      /\ W \subseteq Fires /\ Admitted(W) \subseteq W /\ \A f \in W : Queued(Launch(f))
      /\ UNCHANGED <<lanes, controls, turn, copied, ran, submitted, cancelled, terminated, stopping, withCopy>>
  BY DEF Posted
<1>2. W \subseteq submitted
  <2> SUFFICES ASSUME NEW f \in W PROVE f \in submitted
    OBVIOUS
  <2>1. Launch(f) \in ToSet(queue) /\ Launch(f).of = f
    BY <1>1, ItemParts DEF Queued
  <2>2. \A x \in ToSet(queue) : x.of \in submitted
    BY BaseParts DEF KnownSubmitted
  <2> QED BY <2>1, <2>2
<1>3. /\ launches' \in Seq(Batch)
      /\ \A i \in DOMAIN launches' : launches'[i].fires \subseteq submitted
  <2>1. \A i \in DOMAIN launches : launches[i].fires \subseteq submitted
    BY BaseParts DEF KnownSubmitted
  <2>2. /\ launches' \in Seq(Batch)
        /\ \A i \in DOMAIN launches : launches'[i] = launches[i]
        /\ \A i \in DOMAIN launches' : i \notin DOMAIN launches => launches'[i].fires = Admitted(W)
    BY BaseParts, OneMoreBatch
  <2> QED BY <1>1, <1>2, <2>1, <2>2
<1>4. TurnOK' /\ ControlsKnown'
  <2>1. ControlsKnown'
    BY <1>1, BaseParts DEF ControlsKnown
  <2>2. TurnOK'
    BY <1>1, BaseParts DEF TurnOK, TurnBelow
  <2> QED BY <2>1, <2>2
<1>5. TypeOK' /\ TurnBelow'
  <2>1. /\ cancelled' \cup withCopy' \cup copied' \cup ran' \subseteq Fires
        /\ submitted' \cup settled' \subseteq Fires \cup Moves /\ terminated' \subseteq Processes
        /\ controls' \in Seq(Control) /\ lanes' \in [Pipelines -> Seq(Fires)]
    BY <1>1, BaseParts
  <2> QED BY <1>1, <1>3, <1>4, <2>1, TypeNext
<1>6. KnownSubmitted'
  <2>1. settled' \subseteq submitted
    BY <1>1, <1>2, BaseParts DEF KnownSubmitted
  <2> QED BY <1>1, <1>3, <2>1, BaseParts DEF KnownSubmitted
<1> QED BY <1>1, <1>4, <1>5, <1>6, BaseFrom

LEMMA BasePostFrame ==
  ASSUME Base, PostFrame
  PROVE  Base'
<1>1. Posted(Wave) /\ drained' = drained /\ sealed # <<>> /\ sealed' = Tail(sealed)
  BY PostFrameDoes
<1>2. /\ sealed' \in Seq(SUBSET Fires)
      /\ \A k \in DOMAIN sealed' : k + 1 \in DOMAIN sealed /\ sealed'[k] = sealed[k + 1]
  BY <1>1, BaseParts, TailItems
<1>3. \A k \in DOMAIN sealed' : sealed'[k] \subseteq submitted
  BY <1>2, BaseParts DEF KnownSubmitted
<1> QED BY <1>1, <1>2, <1>3, BasePosted

LEMMA BaseDrain ==
  ASSUME Base, Drain
  PROVE  Base'
<1>1. Posted(AllQueued) /\ drained' = drained \cup Admitted(AllQueued) /\ sealed' = sealed
  BY DrainDoes
<1>2. Admitted(AllQueued) \subseteq AllQueued
  BY <1>1 DEF Posted
<1>3. \A k \in DOMAIN sealed' : sealed'[k] \subseteq submitted
  BY <1>1, BaseParts DEF KnownSubmitted
<1> QED BY <1>1, <1>2, <1>3, BaseParts, BasePosted

(* The controls with one more at the end. *)
LEMMA OneMoreControl ==
  ASSUME Base, NEW x \in Items, controls' = Append(controls, [item |-> x, at |-> "posted"])
  PROVE  /\ controls' \in Seq(Control) /\ Len(controls) \in Nat
         /\ DOMAIN controls = 1..Len(controls) /\ DOMAIN controls' = 1..(Len(controls) + 1)
         /\ \A i \in DOMAIN controls : controls'[i] = controls[i]
         /\ controls'[Len(controls) + 1].item = x /\ controls'[Len(controls) + 1].at = "posted"
         /\ \A i \in DOMAIN controls' : i \notin DOMAIN controls => i = Len(controls) + 1
<1> DEFINE c == [item |-> x, at |-> "posted"]
<1>1. c \in Control /\ c.item = x /\ c.at = "posted"
  BY DEF Control
<1> HIDE DEF c
<1>2. controls' = Append(controls, c)
  BY DEF c
<1>3. /\ controls' \in Seq(Control) /\ DOMAIN controls' = 1..(Len(controls) + 1)
      /\ \A i \in DOMAIN controls : controls'[i] = controls[i]
      /\ controls'[Len(controls) + 1] = c
      /\ Len(controls) \in Nat /\ DOMAIN controls = 1..Len(controls)
  BY <1>1, <1>2, BaseParts, AppendItems, SeqIndexed
<1> QED BY <1>1, <1>3

LEMMA BasePosts ==
  ASSUME Base, NEW x, Posts(x)
  PROVE  Base'
<1> USE DEF engine
<1>1. /\ x \in Items /\ x \in ToSet(queue) /\ Admits(x)
      /\ queue' \in Seq(Items) /\ ToSet(queue)' \subseteq ToSet(queue)
      /\ controls' = (IF Dropped(x) THEN controls
                      ELSE Append(controls, [item |-> x, at |-> "posted"]))
      /\ settled' = settled \cup (IF x.kind = "copy" /\ x.of \in cancelled THEN {x.of} ELSE {})
      /\ UNCHANGED <<lanes, sealed, launches, turn, copied, ran, submitted, cancelled,
                     terminated, stopping, drained, withCopy>>
  BY DEF Posts
<1>2. x.of \in submitted /\ x.kind # "launch" /\ x.of \in Fires \cup Moves
  <2>1. x.kind # "launch"
    BY <1>1, ItemParts DEF Admits
  <2> QED BY <1>1, <2>1, BaseParts, ItemParts DEF KnownSubmitted
<1>3. settled \subseteq settled' /\ settled' \subseteq submitted /\ settled' \subseteq Fires \cup Moves
  BY <1>1, <1>2, BaseParts DEF KnownSubmitted
<1>4. /\ controls' \in Seq(Control) /\ ControlsKnown'
      /\ \A i \in DOMAIN controls' : controls'[i].item.of \in submitted
  <2>1. CASE Dropped(x)
    BY <1>1, <1>3, <2>1, BaseParts DEF ControlsKnown, KnownSubmitted
  <2>2. CASE ~Dropped(x)
    <3>1. controls' = Append(controls, [item |-> x, at |-> "posted"])
      BY <1>1, <2>2
    <3>2. /\ controls' \in Seq(Control)
          /\ \A i \in DOMAIN controls : controls'[i] = controls[i]
          /\ \A i \in DOMAIN controls' : i \notin DOMAIN controls =>
               controls'[i].item = x /\ controls'[i].at = "posted"
      BY <1>1, <3>1, OneMoreControl
    <3>3. \A i \in DOMAIN controls' : controls'[i].item.of \in submitted
      BY <1>2, <3>2, BaseParts DEF KnownSubmitted
    <3>4. ControlsKnown'
      BY <1>1, <1>2, <1>3, <3>2, BaseParts DEF ControlsKnown
    <3> QED BY <3>2, <3>3, <3>4
  <2> QED BY <2>1, <2>2
<1>5. TurnOK'
  BY <1>1, BaseParts DEF TurnOK, TurnBelow
<1>6. TypeOK' /\ TurnBelow'
  BY <1>1, <1>3, <1>4, <1>5, BaseParts, TypeNext
<1>7. KnownSubmitted'
  BY <1>1, <1>3, <1>4, BaseParts DEF KnownSubmitted
<1> QED BY <1>1, <1>4, <1>6, <1>7, BaseFrom

LEMMA BaseRotate ==
  ASSUME Base, RotateLaunches
  PROVE  Base'
<1> USE DEF flight, engine, fate
<1>1. /\ queue' \in Seq(Items) /\ ToSet(queue)' = ToSet(queue)
      /\ UNCHANGED <<lanes, sealed, launches, controls, turn, submitted, cancelled, settled,
                     terminated, stopping, drained, withCopy, copied, ran>>
  BY RotateDoes
<1>2. TurnOK' /\ ControlsKnown'
  BY <1>1, BaseParts DEF TurnOK, TurnBelow, ControlsKnown
<1>3. TypeOK' /\ TurnBelow'
  BY <1>1, <1>2, BaseParts, TypeNext
<1>4. KnownSubmitted'
  BY <1>1, BaseParts DEF KnownSubmitted
<1> QED BY <1>1, <1>2, <1>3, <1>4, BaseFrom

LEMMA BaseBatchMoves ==
  ASSUME Base, NEW i, NEW at, BatchMoves(i, at), TurnOK', ran' \subseteq ran \cup launches[i].fires,
         UNCHANGED <<work, controls, fate, copied>>
  PROVE  Base'
<1> USE DEF work, fate
<1>1. /\ i \in DOMAIN launches /\ launches' \in Seq(Batch) /\ DOMAIN launches' = DOMAIN launches
      /\ \A j \in DOMAIN launches : launches'[j].fires = launches[j].fires
  BY DEF BatchMoves
<1>2. launches[i].fires \subseteq submitted /\ launches[i].fires \subseteq Fires
  BY <1>1, BaseParts, BatchParts DEF KnownSubmitted
<1>3. TypeOK' /\ TurnBelow'
  BY <1>1, <1>2, BaseParts, TypeNext
<1>4. KnownSubmitted'
  BY <1>1, <1>2, BaseParts DEF KnownSubmitted
<1>5. ControlsKnown'
  BY BaseParts DEF ControlsKnown
<1> QED BY <1>3, <1>4, <1>5, BaseFrom

LEMMA BaseControlMoves ==
  ASSUME Base, NEW i, NEW at, ControlMoves(i, at), TurnOK',
         settled \subseteq settled', settled' \subseteq settled \cup {controls[i].item.of},
         at = "refused" => controls[i].item.of \in settled',
         copied \subseteq copied', controls[i].item.kind # "copy" => copied' = copied,
         copied' \subseteq copied \cup {controls[i].item.of},
         at = "done" /\ controls[i].item.kind = "copy" => controls[i].item.of \in copied',
         UNCHANGED <<work, launches, ran, submitted, cancelled, terminated, stopping, drained, withCopy>>
  PROVE  Base'
<1> USE DEF work
<1>1. /\ i \in DOMAIN controls /\ controls' \in Seq(Control) /\ DOMAIN controls' = DOMAIN controls
      /\ \A j \in DOMAIN controls : controls'[j].item = controls[j].item
      /\ controls'[i].at = at
      /\ \A j \in DOMAIN controls : j # i => controls'[j] = controls[j]
  BY DEF ControlMoves
<1>2. /\ controls[i].item \in Items /\ controls[i].item.of \in submitted
      /\ controls[i].item.kind = "copy" => controls[i].item.of \in Fires
      /\ controls[i].item.of \in Fires \cup Moves
  <2>1. controls[i].item \in Items
    BY <1>1, BaseParts, ControlParts
  <2> QED BY <1>1, <2>1, BaseParts, ItemParts DEF KnownSubmitted
<1>3. TypeOK' /\ TurnBelow'
  <2>1. copied' \subseteq Fires /\ settled' \subseteq Fires \cup Moves
    BY <1>2, BaseParts
  <2> QED BY <1>1, <2>1, BaseParts, TypeNext
<1>4. KnownSubmitted'
  <2>1. copied' \subseteq submitted /\ settled' \subseteq submitted
    BY <1>2, BaseParts DEF KnownSubmitted
  <2>2. \A j \in DOMAIN controls' : controls'[j].item.of \in submitted
    BY <1>1, BaseParts DEF KnownSubmitted
  <2> QED BY <2>1, <2>2, BaseParts DEF KnownSubmitted
<1>5. ControlsKnown'
  <2> SUFFICES ASSUME NEW j \in DOMAIN controls
               PROVE  /\ controls'[j].item.kind # "launch"
                      /\ controls'[j].item.kind = "copy" /\ controls'[j].at = "done" =>
                           controls'[j].item.of \in copied'
                      /\ controls'[j].item.kind = "copy" /\ controls'[j].at = "refused" =>
                           controls'[j].item.of \in settled'
    BY <1>1 DEF ControlsKnown
  <2>1. CASE j = i
    BY <1>1, <2>1, BaseParts DEF ControlsKnown
  <2>2. CASE j # i
    BY <1>1, <2>2, BaseParts DEF ControlsKnown
  <2> QED BY <2>1, <2>2
<1> QED BY <1>3, <1>4, <1>5, BaseFrom

LEMMA BaseRetireLaunch ==
  ASSUME Base, RetireLaunch
  PROVE  Base'
<1> USE DEF work, engine
<1>1. /\ launches' \in Seq(Batch) /\ 1 \in DOMAIN launches /\ launches[1].fires \subseteq Fires
      /\ settled' = settled \cup launches[1].fires
      /\ \A i \in DOMAIN launches' : i + 1 \in DOMAIN launches /\ launches'[i] = launches[i + 1]
      /\ UNCHANGED <<queue, lanes, sealed, controls, turn, copied, ran, submitted, cancelled,
                     terminated, stopping, drained, withCopy>>
  BY RetireLaunchDoes
<1>2. TurnOK' /\ ControlsKnown'
  BY <1>1, BaseParts DEF TurnOK, TurnBelow, ControlsKnown
<1>3. TypeOK' /\ TurnBelow'
  BY <1>1, <1>2, BaseParts, TypeNext
<1>4. KnownSubmitted'
  BY <1>1, BaseParts DEF KnownSubmitted
<1> QED BY <1>1, <1>2, <1>3, <1>4, BaseFrom

LEMMA BaseRetireControl ==
  ASSUME Base, RetireControl
  PROVE  Base'
<1> USE DEF work, engine
<1>1. PICK i \in DOMAIN controls :
        /\ settled' = settled \cup (IF controls[i].item.kind = "move" \/ controls[i].at = "failed"
                                    THEN {controls[i].item.of} ELSE {})
        /\ controls' \in Seq(Control)
        /\ \A k \in DOMAIN controls' : \E j \in DOMAIN controls : controls'[k] = controls[j]
        /\ UNCHANGED <<queue, lanes, sealed, launches, turn, copied, ran, submitted, cancelled,
                       terminated, stopping, drained, withCopy>>
  BY RetireControlDoes
<1>2. controls[i].item.of \in submitted /\ controls[i].item.of \in Fires \cup Moves
  <2>1. controls[i].item \in Items
    BY <1>1, BaseParts, ControlParts
  <2> QED BY <1>1, <2>1, BaseParts, ItemParts DEF KnownSubmitted
<1>3. /\ settled \subseteq settled' /\ settled' \subseteq submitted /\ settled' \subseteq Fires \cup Moves
  BY <1>1, <1>2, BaseParts DEF KnownSubmitted
<1>4. TurnOK' /\ ControlsKnown'
  <2>1. ControlsKnown'
    BY <1>1, <1>3, BaseParts DEF ControlsKnown
  <2> QED BY <1>1, <2>1, BaseParts DEF TurnOK, TurnBelow
<1>5. TypeOK' /\ TurnBelow'
  BY <1>1, <1>3, <1>4, BaseParts, TypeNext
<1>6. KnownSubmitted'
  <2>1. \A k \in DOMAIN controls' : controls'[k].item.of \in submitted
    BY <1>1, BaseParts DEF KnownSubmitted
  <2> QED BY <1>1, <1>3, <2>1, BaseParts DEF KnownSubmitted
<1> QED BY <1>1, <1>4, <1>5, <1>6, BaseFrom

(* Every step keeps types and numbers.                                     *)
THEOREM BaseInductive ==
  /\ Init => Base
  /\ Base /\ [Next]_vars => Base'
<1> SUFFICES ASSUME Base, [Next]_vars PROVE Base'
  BY BaseInit
<1>1. ASSUME NEW p \in Pipelines, NEW copies \in BOOLEAN, Submit(p, copies) PROVE Base'
  BY <1>1, SubmitDoes, BaseSubmit
<1>2. ASSUME NEW m \in Moves, SubmitMove(m) PROVE Base'
  BY <1>2, BaseSubmitMove
<1>3. ASSUME NEW q \in Processes, Terminate(q) PROVE Base'
  BY <1>3, BaseTerminate
<1>4. ASSUME NEW S \in SUBSET Pipelines, Seal(S) PROVE Base'
  BY <1>4, BaseSeal
<1>5. CASE PostFrame
  BY <1>5, BasePostFrame
<1>17. CASE Drain
  BY <1>17, BaseDrain
<1>18. CASE Stop
  <2>1. UNCHANGED <<queue, lanes, sealed, launches, controls, turn, submitted, cancelled, settled,
                    terminated, drained, withCopy, copied, ran>>
    BY <1>18 DEF Stop, work, flight, engine
  <2>2. TurnOK'
    BY <1>18, <2>1, BaseParts DEF TurnOK, TurnBelow, Stop
  <2>3. TypeOK' /\ TurnBelow'
    BY <2>1, <2>2, BaseParts, TypeNext
  <2>4. KnownSubmitted' /\ ControlsKnown'
    BY <2>1, BaseParts DEF KnownSubmitted, ControlsKnown
  <2> QED BY <2>1, <2>3, <2>4, BaseFrom
<1>6. CASE RotateLaunches
  BY <1>6, BaseRotate
<1>7. CASE PostFront
  BY <1>7, PostFrontDoes, BasePosts
<1>8. ASSUME NEW m \in Moves, PostMove(m) PROVE Base'
  BY <1>8, PostMoveDoes, BasePosts
<1>9. CASE RetireLaunch
  BY <1>9, BaseRetireLaunch
<1>10. CASE RetireControl
  BY <1>10, BaseRetireControl
<1>11. CASE LaneTakesLaunch
  <2>1. PICK i \in DOMAIN launches :
          /\ \/ BatchMoves(i, "accepted") /\ ran' = ran \cup launches[i].fires
             \/ BatchMoves(i, "failed") /\ ran' = ran
          /\ TurnOK' /\ UNCHANGED <<work, controls, fate, copied>>
    BY <1>11, LaneTakesLaunchDoes
  <2> QED BY <2>1, BaseBatchMoves
<1>12. CASE LaneTakesControl
  <2>1. PICK i \in DOMAIN controls :
          /\ \/ ControlMoves(i, "refused") /\ settled' = settled \cup {controls[i].item.of}
             \/ ControlMoves(i, "running") /\ settled' = settled
          /\ TurnOK'
          /\ UNCHANGED <<work, launches, copied, ran, submitted, cancelled, terminated, stopping, drained, withCopy>>
    BY <1>12, LaneTakesControlDoes
  <2> QED BY <2>1, BaseControlMoves
<1>13. CASE EndControlTurn
  <2>1. TurnOK'
    BY <1>13, BaseParts, DispatchAssumption DEF EndControlTurn, Fresh, TurnOK, TurnBelow, fate
  <2>2. UNCHANGED <<queue, lanes, sealed, launches, controls, submitted, cancelled, settled,
                    terminated, stopping, drained, withCopy, copied, ran>>
    BY <1>13 DEF EndControlTurn, work, flight, fate, engine
  <2>3. TypeOK' /\ TurnBelow'
    BY <2>1, <2>2, BaseParts, TypeNext
  <2>4. KnownSubmitted' /\ ControlsKnown'
    BY <2>2, BaseParts DEF KnownSubmitted, ControlsKnown
  <2> QED BY <2>2, <2>3, <2>4, BaseFrom
<1>14. CASE EngineEndsLaunch
  <2>1. PICK i \in DOMAIN launches : BatchMoves(i, "done")
    BY <1>14, EngineEndsLaunchDoes
  <2>2. UNCHANGED <<work, controls, turn, fate, engine>>
    BY <1>14 DEF EngineEndsLaunch
  <2>3. TurnOK'
    BY <2>2, BaseParts DEF TurnOK, TurnBelow, fate
  <2> QED BY <2>1, <2>2, <2>3, BaseBatchMoves DEF engine
<1>15. CASE EngineEndsControl
  <2>1. PICK i \in DOMAIN controls, at \in {"done", "failed"} :
          /\ ControlMoves(i, at)
          /\ copied' = copied \cup (IF controls[i].item.kind = "copy" /\ at = "done"
                                    THEN {controls[i].item.of} ELSE {})
          /\ UNCHANGED <<work, launches, turn, fate, ran>>
    BY <1>15, EngineEndsControlDoes
  <2>2. TurnOK'
    BY <2>1, BaseParts DEF TurnOK, TurnBelow, fate
  <2> QED BY <2>1, <2>2, BaseControlMoves DEF fate
<1>16. CASE UNCHANGED vars
  <2>1. UNCHANGED <<queue, lanes, sealed, launches, controls, turn, submitted, cancelled, settled,
                    terminated, stopping, drained, withCopy, copied, ran>>
    BY <1>16 DEF vars, work, flight, fate, engine
  <2>2. TurnOK'
    BY <2>1, BaseParts DEF TurnOK, TurnBelow
  <2>3. TypeOK' /\ TurnBelow'
    BY <2>1, <2>2, BaseParts, TypeNext
  <2>4. KnownSubmitted' /\ ControlsKnown'
    BY <2>1, BaseParts DEF KnownSubmitted, ControlsKnown
  <2> QED BY <2>1, <2>3, <2>4, BaseFrom
<1> QED
  BY <1>1, <1>2, <1>3, <1>4, <1>5, <1>6, <1>7, <1>8, <1>9, <1>10, <1>11, <1>12, <1>13, <1>14,
     <1>15, <1>16, <1>17, <1>18 DEF Next, Worker, Lane

(* Type correctness. *)
THEOREM TypeCorrect == Spec => []TypeOK
<1>1. Base => TypeOK
  BY DEF Base
<1> QED BY <1>1, BaseInductive, PTL DEF Spec

-----------------------------------------------------------------------------
(* A launch after its copy. *)

Flying(f) == \E i \in DOMAIN launches : f \in launches[i].fires

(* A step that queues and posts no launch, loses no copy and settles       *)
(* nothing in flight.                                                      *)
CopiesKept ==
  /\ \A f \in Fires :
       /\ Queued(Launch(f))' => Queued(Launch(f))
       /\ Queued(Copy(f))' => Queued(Copy(f))
       /\ Queued(Launch(f))' /\ Queued(Copy(f)) =>
            Queued(Copy(f))' \/ Copying(f)' \/ f \in copied' \cup settled' \cup cancelled'
       /\ Queued(Launch(f))' /\ Copying(f) =>
            Copying(f)' \/ f \in copied' \cup settled' \cup cancelled'
       /\ Flying(f)' =>
            /\ Flying(f)
            /\ f \notin drained /\ f \in settled' => f \in settled
            /\ Copying(f)' => Copying(f) \/ Queued(Copy(f))
  /\ copied \subseteq copied' /\ settled \subseteq settled' /\ cancelled \subseteq cancelled'
  /\ withCopy' = withCopy /\ drained' = drained
  /\ \A f \in ran' : f \in ran \/ Flying(f)

LEMMA FliesReadyOf ==
  FliesReady <=> \A f : Flying(f) => ~Queued(Launch(f)) /\ (f \notin drained => Ready(f))
BY DEF FliesReady, Flying

LEMMA FlyingFires ==
  ASSUME Base
  PROVE  \A f : Flying(f) => f \in Fires /\ f \in submitted
<1> SUFFICES ASSUME NEW f, Flying(f) PROVE f \in Fires /\ f \in submitted
  OBVIOUS
<1>1. PICK i \in DOMAIN launches : f \in launches[i].fires
  BY DEF Flying
<1>2. launches[i].fires \subseteq Fires
  BY BaseParts, BatchParts
<1> QED BY <1>1, <1>2, BaseParts DEF KnownSubmitted

LEMMA CopyFrame ==
  ASSUME Base, Base', CopyInv, CopiesKept
  PROVE  CopyInv'
<1>0. withCopy \subseteq Fires /\ CopyFirst /\ FliesReady /\ OnlyTheDrainOvertakes
  BY BaseParts DEF CopyInv
<1>1. CopyFirst'
  <2> SUFFICES ASSUME NEW f \in withCopy', Queued(Launch(f))'
               PROVE  Queued(Copy(f))' \/ Copying(f)' \/ f \in copied' \cup settled' \cup cancelled'
    BY DEF CopyFirst
  <2>1. f \in withCopy /\ f \in Fires /\ Queued(Launch(f))
    BY <1>0 DEF CopiesKept
  <2>2. Queued(Copy(f)) \/ Copying(f) \/ f \in copied \cup settled \cup cancelled
    BY <1>0, <2>1 DEF CopyFirst
  <2> QED BY <2>1, <2>2 DEF CopiesKept
<1>2. ASSUME NEW i \in DOMAIN launches', NEW f \in launches'[i].fires
      PROVE  ~Queued(Launch(f))' /\ (f \notin drained' => Ready(f)')
  <2>1. Flying(f)'
    BY <1>2 DEF Flying
  <2>2. f \in Fires
    <3>1. launches' \in Seq(Batch)
      BY DEF Base, TypeOK, Batch
    <3> QED BY <1>2, <3>1, BatchParts
  <2>3. Flying(f) /\ drained' = drained
    BY <2>1, <2>2 DEF CopiesKept
  <2>4. ~Queued(Launch(f)) /\ (f \notin drained => Ready(f))
    BY <1>0, <2>3, FliesReadyOf
  <2>5. ~Queued(Launch(f))'
    BY <2>2, <2>4 DEF CopiesKept
  <2>6. ASSUME f \notin drained PROVE Ready(f)'
    <3>1. /\ f \notin settled /\ ~Queued(Copy(f)) /\ ~Copying(f)
          /\ f \in withCopy => f \in copied
      BY <2>4, <2>6 DEF Ready
    <3>2. f \notin settled' /\ ~Queued(Copy(f))' /\ ~Copying(f)'
      BY <2>1, <2>2, <2>6, <3>1 DEF CopiesKept
    <3>3. f \in withCopy' => f \in copied'
      BY <3>1 DEF CopiesKept
    <3> QED BY <3>2, <3>3 DEF Ready
  <2> QED BY <2>3, <2>5, <2>6
<1>3. FliesReady'
  BY <1>2 DEF FliesReady
<1>4. OnlyTheDrainOvertakes'
  <2> SUFFICES ASSUME NEW f \in ran', f \in withCopy', f \notin drained' PROVE f \in copied'
    BY DEF OnlyTheDrainOvertakes
  <2>0. f \in withCopy /\ f \notin drained /\ copied \subseteq copied' /\ (f \in ran \/ Flying(f))
    BY DEF CopiesKept
  <2>1. CASE f \in ran
    BY <1>0, <2>0, <2>1 DEF OnlyTheDrainOvertakes
  <2>2. CASE Flying(f)
    <3>1. Ready(f)
      BY <1>0, <2>0, <2>2, FliesReadyOf
    <3> QED BY <2>0, <3>1 DEF Ready
  <2> QED BY <2>0, <2>1, <2>2
<1> QED BY <1>1, <1>3, <1>4 DEF CopyInv

LEMMA CopySubmit ==
  ASSUME Base, CopyInv, NEW f \in Fires, NewFire(f),
         Rejects(f) \/ \E C \in {{}, {f}} : Adds(f, C)
  PROVE  CopyInv'
<1> USE DEF flight, engine
<1>0. withCopy \subseteq Fires /\ CopyFirst /\ FliesReady /\ OnlyTheDrainOvertakes
  BY BaseParts DEF CopyInv
<1>1. /\ f \notin submitted
      /\ UNCHANGED <<launches, controls, copied, ran, cancelled, drained>>
  BY DEF NewFire
<1>2. /\ \A g \in ToSet(queue) : g.of # f
      /\ f \notin withCopy \cup copied \cup ran \cup settled /\ ~Flying(f)
  BY <1>1, BaseParts, FlyingFires DEF KnownSubmitted
<1>3. \A g : (Flying(g)' <=> Flying(g)) /\ (Copying(g)' <=> Copying(g))
  BY <1>1 DEF Flying, Copying
<1>4. CASE Rejects(f)
  <2>1. settled' = settled \cup {f} /\ UNCHANGED <<queue, withCopy>>
    BY <1>4 DEF Rejects
  <2>2. CopyFirst'
    BY <1>0, <1>1, <1>3, <2>1 DEF CopyFirst, Queued
  <2>3. FliesReady'
    BY <1>0, <1>1, <1>2, <2>1 DEF FliesReady, Flying, Queued, Copying, Ready
  <2>4. OnlyTheDrainOvertakes'
    BY <1>0, <1>1, <2>1 DEF OnlyTheDrainOvertakes
  <2> QED BY <2>2, <2>3, <2>4 DEF CopyInv
<1>5. ASSUME NEW C \in {{}, {f}}, Adds(f, C) PROVE CopyInv'
  <2>1. /\ ToSet(queue)' = ToSet(queue) \cup {Launch(f)} \cup {Copy(c) : c \in C}
        /\ withCopy' = withCopy \cup C /\ settled' = settled
    BY <1>5 DEF Adds
  <2>2. \A g : /\ g # f => (Queued(Launch(g))' <=> Queued(Launch(g)))
               /\ g # f => (Queued(Copy(g))' <=> Queued(Copy(g)))
    BY <2>1, ItemParts DEF Queued
  <2>3. f \in C => Queued(Copy(f))'
    BY <2>1 DEF Queued
  <2>4. CopyFirst'
    <3> SUFFICES ASSUME NEW g \in withCopy', Queued(Launch(g))'
                 PROVE  Queued(Copy(g))' \/ Copying(g)' \/ g \in copied' \cup settled' \cup cancelled'
      BY DEF CopyFirst
    <3>1. CASE g = f
      BY <1>2, <2>1, <2>3, <3>1
    <3>2. CASE g # f
      <4>1. g \in withCopy /\ Queued(Launch(g))
        BY <2>1, <2>2, <3>2
      <4> QED BY <1>0, <1>1, <1>3, <2>1, <2>2, <3>2, <4>1 DEF CopyFirst
    <3> QED BY <3>1, <3>2
  <2>5. FliesReady'
    <3> SUFFICES ASSUME NEW i \in DOMAIN launches', NEW g \in launches'[i].fires
                 PROVE  ~Queued(Launch(g))' /\ (g \notin drained' => Ready(g)')
      BY DEF FliesReady
    <3>1. Flying(g) /\ g # f
      BY <1>1, <1>2 DEF Flying
    <3>2. ~Queued(Launch(g)) /\ (g \notin drained => Ready(g))
      BY <1>0, <3>1, FliesReadyOf
    <3>3. Ready(g) => Ready(g)'
      BY <1>1, <1>3, <2>1, <2>2, <3>1 DEF Ready
    <3> QED BY <1>1, <2>2, <3>1, <3>2, <3>3
  <2>6. OnlyTheDrainOvertakes'
    BY <1>0, <1>1, <1>2, <2>1 DEF OnlyTheDrainOvertakes
  <2> QED BY <2>4, <2>5, <2>6 DEF CopyInv
<1> QED BY <1>4, <1>5

(* What posting a batch does to the places of copies and launches.         *)
LEMMA PostedPlaces ==
  ASSUME Base, NEW W, Posted(W)
  PROVE  /\ \A f : ~Copying(f) /\ ~Copying(f)'
         /\ \A f : /\ Queued(Launch(f))' <=> Queued(Launch(f)) /\ f \notin W
                   /\ Queued(Copy(f))' <=> Queued(Copy(f))
         /\ \A f : Flying(f)' => Flying(f) \/ f \in Admitted(W)
         /\ \A f : f \in settled' => f \in settled \/ f \in W
         /\ \A f \in Admitted(W) : f \in W /\ f \notin settled /\ f \notin cancelled /\ f \notin settled'
         /\ settled \subseteq settled'
         /\ UNCHANGED <<copied, ran, cancelled, withCopy>>
<1>1. /\ ToSet(queue)' = ToSet(queue) \ {Launch(f) : f \in W}
      /\ ~HoldsLaunches /\ settled' = settled \cup (W \ Admitted(W))
      /\ UNCHANGED <<controls, copied, ran, cancelled, withCopy>>
  BY DEF Posted, engine
<1>2. \A f : ~Copying(f)
  <2>1. \A i \in DOMAIN controls : controls[i].item.kind # "copy"
    BY <1>1 DEF HoldsLaunches, Prelaunch, ToSet
  <2> QED BY <2>1, ItemParts DEF Copying
<1>3. \A f : ~Copying(f)'
  BY <1>1, <1>2 DEF Copying
<1>4. \A f : /\ Queued(Launch(f))' <=> Queued(Launch(f)) /\ f \notin W
             /\ Queued(Copy(f))' <=> Queued(Copy(f))
  BY <1>1, ItemParts DEF Queued
<1>5. \A f : Flying(f)' => Flying(f) \/ f \in Admitted(W)
  <2>1. /\ \A i \in DOMAIN launches : launches'[i] = launches[i]
        /\ \A i \in DOMAIN launches' : i \notin DOMAIN launches => launches'[i].fires = Admitted(W)
    BY BaseParts, OneMoreBatch
  <2> QED BY <2>1 DEF Flying
<1>6. \A f \in Admitted(W) : f \in W /\ f \notin settled /\ f \notin cancelled
  BY DEF Admitted
<1> QED BY <1>1, <1>2, <1>3, <1>4, <1>5, <1>6

(* A batch of fires whose copies are not queued, or that are drained, keeps *)
(* the launches behind their copies.                                        *)
LEMMA CopyPosted ==
  ASSUME Base, CopyInv, NEW W, Posted(W), drained \subseteq drained',
         \A f \in drained' : f \in drained \/ f \in Admitted(W),
         \A f \in Admitted(W) : f \in drained' \/ ~Queued(Copy(f))
  PROVE  CopyInv'
<1>0. withCopy \subseteq Fires /\ CopyFirst /\ FliesReady /\ OnlyTheDrainOvertakes
  BY BaseParts DEF CopyInv
<1>1. /\ \A f : ~Copying(f) /\ ~Copying(f)'
      /\ \A f : /\ Queued(Launch(f))' <=> Queued(Launch(f)) /\ f \notin W
                /\ Queued(Copy(f))' <=> Queued(Copy(f))
      /\ \A f : Flying(f)' => Flying(f) \/ f \in Admitted(W)
      /\ \A f : f \in settled' => f \in settled \/ f \in W
      /\ \A f \in Admitted(W) : f \in W /\ f \notin settled /\ f \notin cancelled /\ f \notin settled'
      /\ settled \subseteq settled'
      /\ UNCHANGED <<copied, ran, cancelled, withCopy>>
  BY PostedPlaces
<1>2. \A f \in W : Queued(Launch(f))
  BY DEF Posted
<1>3. CopyFirst'
  <2> SUFFICES ASSUME NEW f \in withCopy, Queued(Launch(f))'
               PROVE  Queued(Copy(f))' \/ f \in copied' \cup settled' \cup cancelled'
    BY <1>1 DEF CopyFirst
  <2>1. Queued(Launch(f))
    BY <1>1
  <2>2. Queued(Copy(f)) \/ f \in copied \cup settled \cup cancelled
    BY <1>0, <1>1, <2>1 DEF CopyFirst
  <2> QED BY <1>1, <2>2
<1>4. ASSUME NEW f, Flying(f)'
      PROVE  ~Queued(Launch(f))' /\ (f \notin drained' => Ready(f)')
  <2>1. CASE Flying(f)
    <3>1. ~Queued(Launch(f)) /\ (f \notin drained => Ready(f))
      BY <1>0, <2>1, FliesReadyOf
    <3>2. f \notin W
      BY <1>2, <3>1
    <3>3. Ready(f) => Ready(f)'
      BY <1>1, <3>2 DEF Ready
    <3> QED BY <1>1, <3>1, <3>3
  <2>2. CASE f \in Admitted(W)
    <3>1. f \in W /\ f \notin settled /\ f \notin cancelled /\ f \notin settled' /\ ~Queued(Launch(f))'
      BY <1>1, <2>2
    <3>2. ASSUME f \notin drained' PROVE Ready(f)'
      <4>1. ~Queued(Copy(f))
        BY <2>2, <3>2
      <4>2. f \in withCopy => f \in copied
        BY <1>0, <1>1, <1>2, <3>1, <4>1 DEF CopyFirst
      <4> QED BY <1>1, <3>1, <4>1, <4>2 DEF Ready
    <3> QED BY <3>1, <3>2
  <2> QED BY <1>1, <1>4, <2>1, <2>2
<1>5. FliesReady'
  BY <1>4 DEF FliesReady, Flying
<1>6. OnlyTheDrainOvertakes'
  BY <1>0, <1>1 DEF OnlyTheDrainOvertakes
<1> QED BY <1>3, <1>5, <1>6 DEF CopyInv

LEMMA CopyPostFrame ==
  ASSUME Base, CopyInv, PostFrame
  PROVE  CopyInv'
<1>1. /\ Posted(Wave) /\ drained' = drained
      /\ Wave = {} \/ \A f \in sealed[1] : f[1] \notin BlockedLanes
  BY PostFrameDoes
<1>2. ASSUME NEW f \in Admitted(Wave) PROVE ~Queued(Copy(f))
  <2>1. f \in Wave /\ f \in sealed[1]
    BY <1>1, <1>2 DEF Posted, Wave
  <2>2. f[1] \notin BlockedLanes
    BY <1>1, <2>1
  <2>3. Queued(Copy(f)) => f[1] \in BlockedLanes
    BY ItemParts DEF Queued, BlockedLanes
  <2> QED BY <2>2, <2>3
<1> QED BY <1>1, <1>2, CopyPosted

LEMMA CopyDrain ==
  ASSUME Base, CopyInv, Drain
  PROVE  CopyInv'
<1>1. Posted(AllQueued) /\ drained' = drained \cup Admitted(AllQueued)
  BY DrainDoes
<1> QED BY <1>1, CopyPosted

(* A step that leaves the queue and the batches alone.                     *)
LEMMA CopiesSame ==
  ASSUME Base, UNCHANGED <<queue, controls, settled, cancelled, copied, drained, withCopy>>,
         \A f : Flying(f)' => Flying(f), \A f \in ran' : f \in ran \/ Flying(f)
  PROVE  CopiesKept
<1>1. \A f : /\ Queued(Launch(f))' <=> Queued(Launch(f))
             /\ Queued(Copy(f))' <=> Queued(Copy(f))
             /\ Copying(f)' <=> Copying(f)
  BY DEF Queued, Copying
<1> QED BY <1>1 DEF CopiesKept

(* What is settled in a step was queued, or was with the lane.             *)
LEMMA CopySettles ==
  ASSUME Base, FliesReady, NEW f, Flying(f), f \notin drained, NEW x \in Items, x.of = f
  PROVE  /\ x \notin ToSet(queue)
         /\ \A i \in DOMAIN controls : controls[i].item # x
<1>1. /\ ~Queued(Launch(f)) /\ ~Queued(Copy(f)) /\ ~Copying(f) /\ f \in Fires
  BY FliesReadyOf, FlyingFires DEF Ready
<1>2. x = Launch(f) \/ x = Copy(f)
  BY <1>1, ItemParts, MovesAssumption
<1>3. x \notin ToSet(queue)
  BY <1>1, <1>2 DEF Queued
<1>4. ASSUME NEW i \in DOMAIN controls, controls[i].item = x PROVE FALSE
  <2>1. x.kind # "launch"
    BY <1>4, BaseParts DEF ControlsKnown
  <2> QED BY <1>1, <1>2, <1>4, <2>1, ItemParts DEF Copying
<1> QED BY <1>3, <1>4

LEMMA KeptSubmitMove ==
  ASSUME Base, NEW m \in Moves, SubmitMove(m)
  PROVE  CopiesKept
<1>1. /\ queue' = Append(queue, Move(m)) /\ Move(m) \in Items
      /\ UNCHANGED <<launches, controls, copied, ran, cancelled, settled, drained, withCopy>>
  BY ItemParts DEF SubmitMove, flight, engine
<1>2. ToSet(queue') = ToSet(queue) \cup {Move(m)}
  BY <1>1, BaseParts, AppendItems
<1>3. \A f : /\ Queued(Launch(f))' <=> Queued(Launch(f))
             /\ Queued(Copy(f))' <=> Queued(Copy(f))
  <2>1. \A f : Launch(f) # Move(m) /\ Copy(f) # Move(m)
    BY ItemParts
  <2> QED BY <1>2, <2>1 DEF Queued
<1>4. \A f : (Copying(f)' <=> Copying(f)) /\ (Flying(f)' <=> Flying(f))
  BY <1>1 DEF Copying, Flying
<1> QED BY <1>1, <1>3, <1>4 DEF CopiesKept

LEMMA KeptTerminate ==
  ASSUME Base, CopyInv, NEW q \in Processes, Terminate(q)
  PROVE  CopiesKept
<1>1. /\ \A x : x \in ToSet(queue)' <=> x \in ToSet(queue) /\ ~Leaves(q, x)
      /\ cancelled' = cancelled \cup Protected(q)
      /\ \A y : y \in settled' <=>
           y \in settled \/ \E x \in ToSet(queue) : Leaves(q, x) /\ y = x.of
      /\ UNCHANGED <<launches, controls, copied, ran, drained, withCopy>>
  BY TerminateDoes DEF flight, engine
<1>2. \A f : (Copying(f)' <=> Copying(f)) /\ (Flying(f)' <=> Flying(f))
  BY <1>1 DEF Copying, Flying
<1>3. \A f : Leaves(q, Launch(f)) <=> Leaves(q, Copy(f))
  BY ItemParts DEF Leaves
<1>4. \A f : /\ Queued(Launch(f))' => Queued(Launch(f)) /\ ~Leaves(q, Launch(f))
             /\ Queued(Copy(f))' <=> Queued(Copy(f)) /\ ~Leaves(q, Copy(f))
  BY <1>1 DEF Queued
<1>5. ASSUME NEW f, Flying(f), f \notin drained, f \in settled' PROVE f \in settled
  <2>1. ASSUME NEW x \in ToSet(queue), f = x.of PROVE FALSE
    BY <1>5, <2>1, BaseParts, CopySettles DEF CopyInv
  <2> QED BY <1>1, <1>5, <2>1
<1> QED BY <1>1, <1>2, <1>3, <1>4, <1>5 DEF CopiesKept

LEMMA KeptPosts ==
  ASSUME Base, CopyInv, NEW x, Posts(x)
  PROVE  CopiesKept
<1>1. /\ x \in Items /\ x \in ToSet(queue)
      /\ ToSet(queue)' \subseteq ToSet(queue) /\ ToSet(queue) \subseteq ToSet(queue)' \cup {x}
      /\ controls' = IF Dropped(x) THEN controls ELSE Append(controls, [item |-> x, at |-> "posted"])
      /\ settled' = settled \cup (IF x.kind = "copy" /\ x.of \in cancelled THEN {x.of} ELSE {})
      /\ UNCHANGED <<launches, copied, ran, cancelled, drained, withCopy>>
  BY DEF Posts, engine
<1>2. /\ \A f : Copying(f) => Copying(f)'
      /\ ~Dropped(x) => \A f : x = Copy(f) => Copying(f)'
      /\ \A f : Copying(f)' => Copying(f) \/ x = Copy(f)
  <2>1. CASE Dropped(x)
    BY <1>1, <2>1 DEF Copying
  <2>2. CASE ~Dropped(x)
    <3> DEFINE b == [item |-> x, at |-> "posted"]
    <3>1. b \in Control /\ b.item = x /\ controls' = Append(controls, b)
      BY <1>1, <2>2 DEF Control
    <3> HIDE DEF b
    <3>2. /\ DOMAIN controls' = 1..(Len(controls) + 1)
          /\ \A i \in DOMAIN controls : controls'[i] = controls[i]
          /\ controls'[Len(controls) + 1] = b
          /\ Len(controls) \in Nat /\ DOMAIN controls = 1..Len(controls)
      BY <3>1, BaseParts, AppendItems, SeqIndexed
    <3>3. ASSUME NEW i \in DOMAIN controls', i \notin DOMAIN controls PROVE controls'[i] = b
      BY <3>2, <3>3
    <3>4. Len(controls) + 1 \in DOMAIN controls' /\ DOMAIN controls \subseteq DOMAIN controls'
      BY <3>2
    <3> QED BY <3>1, <3>2, <3>3, <3>4 DEF Copying
  <2> QED BY <2>1, <2>2
<1>3. \A f : /\ Queued(Launch(f))' => Queued(Launch(f))
             /\ Queued(Copy(f))' => Queued(Copy(f))
             /\ Queued(Copy(f)) => Queued(Copy(f))' \/ x = Copy(f)
             /\ x = Copy(f) => Queued(Copy(f))
  BY <1>1 DEF Queued
<1>4. \A f : x = Copy(f) => Copying(f)' \/ f \in settled' \cup cancelled'
  BY <1>1, <1>2, ItemParts DEF Dropped
<1>5. ASSUME NEW f, Flying(f), f \notin drained, f \in settled' PROVE f \in settled
  <2>1. x.of # f
    BY <1>1, <1>5, CopySettles DEF CopyInv
  <2> QED BY <1>1, <1>5, <2>1
<1>6. \A f : Flying(f)' <=> Flying(f)
  BY <1>1 DEF Flying
<1> QED BY <1>1, <1>2, <1>3, <1>4, <1>5, <1>6 DEF CopiesKept

LEMMA KeptControlMoves ==
  ASSUME Base, CopyInv, NEW i \in DOMAIN controls, NEW at, ControlMoves(i, at),
         settled' \in {settled, settled \cup {controls[i].item.of}},
         copied \subseteq copied',
         UNCHANGED <<queue, launches, ran, cancelled, drained, withCopy>>
  PROVE  CopiesKept
<1>1. \A f : (Copying(f)' <=> Copying(f)) /\ (Flying(f)' <=> Flying(f))
  BY DEF Copying, Flying, ControlMoves
<1>2. \A f : (Queued(Launch(f))' <=> Queued(Launch(f))) /\ (Queued(Copy(f))' <=> Queued(Copy(f)))
  BY DEF Queued
<1>3. ASSUME NEW f, Flying(f), f \notin drained, f \in settled' PROVE f \in settled
  <2>1. controls[i].item \in Items
    BY BaseParts, ControlParts
  <2>2. controls[i].item.of # f
    BY <1>3, <2>1, CopySettles DEF CopyInv
  <2> QED BY <1>3, <2>2
<1> QED BY <1>1, <1>2, <1>3 DEF CopiesKept

LEMMA KeptRetireLaunch ==
  ASSUME Base, CopyInv, BatchesSorted, RetireLaunch
  PROVE  CopiesKept
<1>1. /\ settled' = settled \cup launches[1].fires /\ 1 \in DOMAIN launches
      /\ \A i \in DOMAIN launches' :
           /\ i \in Nat \ {0} /\ i + 1 \in DOMAIN launches /\ launches'[i] = launches[i + 1]
      /\ UNCHANGED <<queue, controls, copied, ran, cancelled, drained, withCopy>>
  BY RetireLaunchDoes DEF work, engine
<1>2. \A f : /\ Queued(Launch(f))' <=> Queued(Launch(f))
             /\ Queued(Copy(f))' <=> Queued(Copy(f))
             /\ Copying(f)' <=> Copying(f)
  BY <1>1 DEF Queued, Copying
<1>3. ASSUME NEW f, Flying(f)' PROVE Flying(f) /\ f \notin launches[1].fires
  <2>1. PICK i \in DOMAIN launches' : f \in launches'[i].fires
    BY <1>3 DEF Flying
  <2>2. i + 1 \in DOMAIN launches /\ f \in launches[i + 1].fires /\ 1 < i + 1
    BY <1>1, <2>1
  <2>3. f[2] \in Nat
    BY <2>2, FireParts, BaseParts, BatchParts
  <2>4. ~(f[2] < f[2])
    BY <2>3
  <2>5. f \in launches[1].fires => f[2] < f[2]
    BY <1>1, <2>2 DEF BatchesSorted
  <2> QED BY <2>2, <2>4, <2>5 DEF Flying
<1> QED BY <1>1, <1>2, <1>3 DEF CopiesKept

LEMMA KeptRetireControl ==
  ASSUME Base, CopyInv, RetireControl
  PROVE  CopiesKept
<1>1. PICK i \in DOMAIN controls :
        /\ controls[i].at \in {"done", "failed", "refused"}
        /\ settled' = settled \cup (IF controls[i].item.kind = "move" \/ controls[i].at = "failed"
                                    THEN {controls[i].item.of} ELSE {})
        /\ \A k \in DOMAIN controls' : \E j \in DOMAIN controls : controls'[k] = controls[j]
        /\ \A j \in DOMAIN controls : j # i => \E k \in DOMAIN controls' : controls'[k] = controls[j]
        /\ UNCHANGED <<queue, launches, copied, ran, cancelled, drained, withCopy>>
  BY RetireControlDoes DEF work, engine
<1>2. \A f : /\ Queued(Launch(f))' <=> Queued(Launch(f))
             /\ Queued(Copy(f))' <=> Queued(Copy(f))
             /\ Flying(f)' <=> Flying(f)
             /\ Copying(f)' => Copying(f)
  BY <1>1 DEF Queued, Copying, Flying
<1>3. ASSUME NEW f, Copying(f) PROVE Copying(f)' \/ f \in copied' \cup settled'
  <2>1. PICK j \in DOMAIN controls : controls[j].item = Copy(f)
    BY <1>3 DEF Copying
  <2>2. CASE j # i
    BY <1>1, <2>1, <2>2 DEF Copying
  <2>3. CASE j = i
    <3>1. controls[i].item.kind = "copy" /\ controls[i].item.of = f
      BY <2>1, <2>3, ItemParts
    <3> QED BY <1>1, <3>1, BaseParts DEF ControlsKnown
  <2> QED BY <2>2, <2>3
<1>4. ASSUME NEW f, Flying(f), f \notin drained, f \in settled' PROVE f \in settled
  <2>1. controls[i].item \in Items
    BY BaseParts, ControlParts
  <2>2. controls[i].item.of # f
    BY <1>4, <2>1, CopySettles DEF CopyInv
  <2> QED BY <1>1, <1>4, <2>2
<1> QED BY <1>1, <1>2, <1>3, <1>4 DEF CopiesKept

(* Every step keeps a launch behind its copy.                              *)
LEMMA CopyStep ==
  ASSUME Base, CopyInv, BatchesSorted, [Next]_vars
  PROVE  CopyInv'
<1>0. Base'
  BY BaseInductive
<1>1. ASSUME NEW p \in Pipelines, NEW copies \in BOOLEAN, Submit(p, copies) PROVE CopyInv'
  BY <1>1, SubmitDoes, CopySubmit
<1>2. CASE PostFrame
  BY <1>2, CopyPostFrame
<1>17. CASE Drain
  BY <1>17, CopyDrain
<1> SUFFICES ASSUME ~(\E p \in Pipelines, copies \in BOOLEAN : Submit(p, copies)), ~PostFrame, ~Drain
             PROVE  CopiesKept
  BY <1>0, <1>1, <1>2, <1>17, CopyFrame
<1>3. ASSUME NEW m \in Moves, SubmitMove(m) PROVE CopiesKept
  BY <1>3, KeptSubmitMove
<1>4. ASSUME NEW q \in Processes, Terminate(q) PROVE CopiesKept
  BY <1>4, KeptTerminate
<1>5. ASSUME NEW S \in SUBSET Pipelines, Seal(S) PROVE CopiesKept
  <2>1. UNCHANGED <<queue, launches, controls, settled, cancelled, copied, drained, withCopy, ran>>
    BY <1>5, SealDoes DEF flight, fate, engine
  <2> QED BY <2>1, CopiesSame DEF Flying
<1>6. CASE RotateLaunches
  <2>1. /\ ToSet(queue)' = ToSet(queue)
        /\ UNCHANGED <<launches, controls, settled, cancelled, copied, drained, withCopy, ran>>
    BY <1>6, RotateDoes DEF flight, fate, engine
  <2>2. \A f : /\ Queued(Launch(f))' <=> Queued(Launch(f))
               /\ Queued(Copy(f))' <=> Queued(Copy(f))
               /\ Flying(f)' <=> Flying(f)
               /\ Copying(f)' <=> Copying(f)
    BY <2>1 DEF Queued, Copying, Flying
  <2> QED BY <2>1, <2>2 DEF CopiesKept
<1>7. CASE PostFront
  BY <1>7, PostFrontDoes, KeptPosts
<1>8. ASSUME NEW m \in Moves, PostMove(m) PROVE CopiesKept
  BY <1>8, PostMoveDoes, KeptPosts
<1>9. CASE RetireLaunch
  BY <1>9, KeptRetireLaunch
<1>10. CASE RetireControl
  BY <1>10, KeptRetireControl
<1>11. CASE LaneTakesLaunch
  <2>1. PICK i \in DOMAIN launches :
          /\ \/ BatchMoves(i, "accepted") /\ ran' = ran \cup launches[i].fires
             \/ BatchMoves(i, "failed") /\ ran' = ran
          /\ UNCHANGED <<queue, controls, settled, cancelled, drained, withCopy, copied>>
    BY <1>11, LaneTakesLaunchDoes DEF work, fate
  <2> QED BY <2>1, CopiesSame DEF Flying, BatchMoves
<1>12. CASE LaneTakesControl
  <2>1. PICK i \in DOMAIN controls :
          /\ \/ ControlMoves(i, "refused") /\ settled' = settled \cup {controls[i].item.of}
             \/ ControlMoves(i, "running") /\ settled' = settled
          /\ UNCHANGED <<queue, launches, copied, ran, cancelled, drained, withCopy>>
    BY <1>12, LaneTakesControlDoes DEF work
  <2> QED BY <2>1, KeptControlMoves
<1>13. CASE EndControlTurn
  <2>1. UNCHANGED <<queue, launches, controls, settled, cancelled, copied, drained, withCopy, ran>>
    BY <1>13 DEF EndControlTurn, work, flight, fate, engine
  <2> QED BY <2>1, CopiesSame DEF Flying
<1>14. CASE EngineEndsLaunch
  <2>1. PICK i \in DOMAIN launches : BatchMoves(i, "done")
    BY <1>14, EngineEndsLaunchDoes
  <2>2. UNCHANGED <<queue, controls, settled, cancelled, copied, drained, withCopy, ran>>
    BY <1>14 DEF EngineEndsLaunch, work, fate, engine
  <2> QED BY <2>1, <2>2, CopiesSame DEF Flying, BatchMoves
<1>15. CASE EngineEndsControl
  <2>1. PICK i \in DOMAIN controls, at \in {"done", "failed"} :
          /\ ControlMoves(i, at)
          /\ copied \subseteq copied'
          /\ UNCHANGED <<queue, launches, settled, cancelled, drained, withCopy, ran>>
    BY <1>15, EngineEndsControlDoes DEF work, fate
  <2> QED BY <2>1, KeptControlMoves
<1>16. CASE UNCHANGED vars
  <2>1. UNCHANGED <<queue, launches, controls, settled, cancelled, copied, drained, withCopy, ran>>
    BY <1>16 DEF vars, work, flight, fate, engine
  <2> QED BY <2>1, CopiesSame DEF Flying
<1>18. CASE Stop
  <2>1. UNCHANGED <<queue, launches, controls, settled, cancelled, copied, drained, withCopy, ran>>
    BY <1>18 DEF Stop, work, flight, engine
  <2> QED BY <2>1, CopiesSame DEF Flying
<1> QED
  BY <1>3, <1>4, <1>5, <1>6, <1>7, <1>8, <1>9, <1>10, <1>11, <1>12, <1>13, <1>14, <1>15, <1>16, <1>18
     DEF Next, Worker, Lane

-----------------------------------------------------------------------------
(* The order of a pipeline. *)

LEMMA NotBefore ==
  ASSUME NEW f \in Fires, NoneBefore(f), NEW g \in Fires, g[1] = f[1], Queued(Launch(g))
  PROVE  f[2] <= g[2]
<1>1. f[2] \in Nat /\ g[2] \in 1..MaxFires /\ g = <<f[1], g[2]>> /\ MaxFires \in Nat
  BY FireParts, DispatchAssumption
<1>2. g[2] \in 1..(f[2] - 1) => ~Queued(Launch(g))
  BY <1>1 DEF NoneBefore
<1> QED BY <1>1, <1>2

LEMMA NoneBeforeKept ==
  ASSUME \A f : Queued(Launch(f))' => Queued(Launch(f))
  PROVE  \A f : NoneBefore(f) => NoneBefore(f)'
BY DEF NoneBefore

(* Steps that touch neither lanes nor batches, nor queue a launch.         *)
LEMMA OrderSame ==
  ASSUME OrderInv, \A f : Queued(Launch(f))' => Queued(Launch(f)),
         UNCHANGED <<lanes, sealed, launches, terminated, ran>>
  PROVE  OrderInv'
<1>1. \A f : NoneBefore(f) => NoneBefore(f)'
  BY NoneBeforeKept
<1>2. LanesSorted' /\ BatchesSorted' /\ PostedLast'
  BY DEF OrderInv, LanesSorted, BatchesSorted, PostedLast
<1>3. QueuedWaits'
  BY DEF OrderInv, QueuedWaits
<1>4. SealedFirst'
  BY <1>1 DEF OrderInv, SealedFirst
<1>5. RanBefore'
  BY <1>1 DEF OrderInv, RanBefore
<1> QED BY <1>2, <1>3, <1>4, <1>5 DEF OrderInv

LEMMA OrderAdds ==
  ASSUME Base, OrderInv, NEW f \in Fires, NewFire(f), NEW C \in {{}, {f}}, Adds(f, C)
  PROVE  OrderInv'
<1> USE DEF flight, engine
<1>1. /\ f \notin submitted /\ f[1] \in Pipelines /\ f[2] \in Nat
      /\ \A g \in submitted \cap Fires : g[1] = f[1] => g[2] < f[2]
      /\ Owner[f[1]] \notin terminated
      /\ UNCHANGED <<launches, ran, sealed, terminated>>
  BY FireParts DEF NewFire, Adds
<1>2. /\ ToSet(queue)' = ToSet(queue) \cup {Launch(f)} \cup {Copy(c) : c \in C}
      /\ lanes' = [lanes EXCEPT ![f[1]] = Append(@, f)]
  BY DEF Adds
<1>3. /\ lanes \in [Pipelines -> Seq(Fires)]
      /\ \A p \in Pipelines : lanes[p] \in Seq(Fires)
  BY BaseParts
<1>4. \A p \in Pipelines : p # f[1] => lanes'[p] = lanes[p]
  BY <1>2, <1>3
<1>5. /\ lanes'[f[1]] = Append(lanes[f[1]], f)
      /\ Len(lanes[f[1]]) \in Nat /\ DOMAIN lanes[f[1]] = 1..Len(lanes[f[1]])
      /\ DOMAIN lanes'[f[1]] = 1..(Len(lanes[f[1]]) + 1)
      /\ \A k \in DOMAIN lanes[f[1]] : lanes'[f[1]][k] = lanes[f[1]][k]
      /\ lanes'[f[1]][Len(lanes[f[1]]) + 1] = f
  <2>1. lanes'[f[1]] = Append(lanes[f[1]], f)
    BY <1>1, <1>2, <1>3
  <2> QED BY <1>1, <1>3, <2>1, AppendItems, SeqIndexed
<1>6. \A g : Queued(Launch(g))' => Queued(Launch(g)) \/ g = f
  BY <1>2, ItemParts DEF Queued
<1>7. ASSUME NEW g \in Fires, g \in submitted, NoneBefore(g) PROVE NoneBefore(g)'
  <2> SUFFICES ASSUME NEW n \in 1..(g[2] - 1), Queued(Launch(<<g[1], n>>))' PROVE FALSE
    BY DEF NoneBefore
  <2>1. <<g[1], n>> = f
    BY <1>6, <1>7 DEF NoneBefore
  <2>2. f[1] = g[1] /\ f[2] = n /\ g[2] \in Nat
    BY <2>1, FireParts
  <2>3. g[2] < f[2]
    BY <1>1, <1>7, <2>2
  <2> QED BY <2>2, <2>3
<1>8. \A k \in DOMAIN lanes[f[1]] :
         lanes[f[1]][k] \in Fires /\ lanes[f[1]][k][1] = f[1] /\ lanes[f[1]][k][2] < f[2]
  <2>1. \A k \in DOMAIN lanes[f[1]] :
          /\ lanes[f[1]][k] \in Fires /\ lanes[f[1]][k][1] = f[1]
          /\ lanes[f[1]][k] \in submitted
    BY <1>1, <1>3, SeqIndexed, BaseParts DEF OrderInv, LanesSorted, KnownSubmitted
  <2> QED BY <1>1, <2>1
<1>9. \A k \in DOMAIN lanes'[f[1]] : k \in DOMAIN lanes[f[1]] \/ k = Len(lanes[f[1]]) + 1
  BY <1>5
<1>10. LanesSorted'
  <2>1. ASSUME NEW k \in DOMAIN lanes'[f[1]] PROVE lanes'[f[1]][k][1] = f[1]
    BY <1>5, <1>8, <1>9
  <2>2. ASSUME NEW j \in DOMAIN lanes'[f[1]], NEW k \in DOMAIN lanes'[f[1]], j < k
        PROVE  lanes'[f[1]][j][2] < lanes'[f[1]][k][2]
    <3>1. j \in DOMAIN lanes[f[1]] /\ lanes'[f[1]][j] = lanes[f[1]][j]
      BY <1>5, <2>2
    <3>2. CASE k \in DOMAIN lanes[f[1]]
      BY <1>1, <1>5, <2>2, <3>1, <3>2 DEF OrderInv, LanesSorted
    <3>3. CASE k = Len(lanes[f[1]]) + 1
      BY <1>5, <1>8, <3>1, <3>3
    <3> QED BY <1>9, <3>2, <3>3
  <2>3. ASSUME NEW p \in Pipelines, p # f[1]
        PROVE  /\ \A k \in DOMAIN lanes'[p] : lanes'[p][k][1] = p
               /\ \A j, k \in DOMAIN lanes'[p] : j < k => lanes'[p][j][2] < lanes'[p][k][2]
               /\ Owner[p] \in terminated' => lanes'[p] = <<>>
    BY <1>1, <1>4, <2>3 DEF OrderInv, LanesSorted
  <2> QED BY <1>1, <2>1, <2>2, <2>3 DEF LanesSorted
<1>11. QueuedWaits'
  <2> SUFFICES ASSUME NEW g \in Fires, Queued(Launch(g))'
               PROVE  \/ \E k \in DOMAIN lanes'[g[1]] : lanes'[g[1]][k] = g
                      \/ sealed' # <<>> /\ g \in sealed'[1]
                      \/ Owner[g[1]] \in terminated'
    BY DEF QueuedWaits
  <2>1. CASE g = f
    <3>1. Len(lanes[f[1]]) + 1 \in DOMAIN lanes'[f[1]]
      BY <1>5
    <3> QED BY <1>5, <2>1, <3>1
  <2>2. CASE Queued(Launch(g))
    <3>1. \/ \E k \in DOMAIN lanes[g[1]] : lanes[g[1]][k] = g
          \/ sealed # <<>> /\ g \in sealed[1]
          \/ Owner[g[1]] \in terminated
      BY <2>2 DEF OrderInv, QueuedWaits
    <3>2. g[1] \in Pipelines /\ DOMAIN lanes[f[1]] \subseteq DOMAIN lanes'[f[1]]
      BY <1>5, FireParts
    <3>3. ASSUME NEW k \in DOMAIN lanes[g[1]], lanes[g[1]][k] = g
          PROVE  k \in DOMAIN lanes'[g[1]] /\ lanes'[g[1]][k] = g
      BY <1>4, <1>5, <3>2, <3>3
    <3> QED BY <1>1, <3>1, <3>3
  <2> QED BY <1>6, <2>1, <2>2
<1>12. SealedFirst'
  <2>0. Len(sealed') <= 1
    BY <1>1 DEF OrderInv, SealedFirst
  <2> SUFFICES ASSUME sealed' # <<>>, NEW g \in sealed'[1]
               PROVE  /\ NoneBefore(g)'
                      /\ \A h \in sealed'[1] : h[1] = g[1] => h = g
                      /\ \A k \in DOMAIN lanes'[g[1]] : g[2] < lanes'[g[1]][k][2]
    BY <2>0 DEF SealedFirst
  <2>1. sealed # <<>> /\ g \in sealed[1] /\ sealed[1] \subseteq Fires /\ 1 \in DOMAIN sealed
    BY <1>1, BaseParts, TailItems
  <2>2. g \in submitted /\ g \in Fires /\ g[1] \in Pipelines
    BY <2>1, BaseParts, FireParts DEF KnownSubmitted
  <2>3. /\ NoneBefore(g) /\ \A h \in sealed[1] : h[1] = g[1] => h = g
        /\ \A k \in DOMAIN lanes[g[1]] : g[2] < lanes[g[1]][k][2]
    BY <2>1 DEF OrderInv, SealedFirst
  <2>4. ASSUME NEW k \in DOMAIN lanes'[g[1]] PROVE g[2] < lanes'[g[1]][k][2]
    <3>1. CASE g[1] # f[1]
      BY <1>4, <2>2, <2>3, <2>4, <3>1
    <3>2. CASE g[1] = f[1] /\ k \in DOMAIN lanes[f[1]]
      BY <1>5, <2>3, <3>2
    <3>3. CASE g[1] = f[1] /\ k = Len(lanes[f[1]]) + 1
      BY <1>1, <1>5, <2>2, <3>3
    <3> QED BY <1>9, <2>4, <3>1, <3>2, <3>3
  <2> QED BY <1>1, <1>7, <2>2, <2>3, <2>4
<1>13. BatchesSorted' /\ PostedLast'
  BY <1>1 DEF OrderInv, BatchesSorted, PostedLast
<1>14. RanBefore'
  <2>1. \A g \in ran' : NoneBefore(g)'
    BY <1>1, <1>7, BaseParts DEF OrderInv, RanBefore, KnownSubmitted
  <2>2. ASSUME NEW i \in DOMAIN launches', NEW g \in launches'[i].fires PROVE NoneBefore(g)'
    <3>1. g \in Fires /\ g \in submitted
      BY <1>1, <2>2, FlyingFires DEF Flying
    <3> QED BY <1>1, <1>7, <2>2, <3>1 DEF OrderInv, RanBefore
  <2> QED BY <1>1, <2>1, <2>2 DEF OrderInv, RanBefore
<1> QED BY <1>10, <1>11, <1>12, <1>13, <1>14 DEF OrderInv

LEMMA OrderTerminate ==
  ASSUME Base, OrderInv, NEW q \in Processes, Terminate(q)
  PROVE  OrderInv'
<1>1. /\ \A x : x \in ToSet(queue)' => x \in ToSet(queue)
      /\ terminated' = terminated \cup {q}
      /\ lanes' = [p \in Pipelines |-> IF Owner[p] = q THEN <<>> ELSE lanes[p]]
      /\ UNCHANGED <<launches, ran, sealed>>
  BY TerminateDoes DEF flight, engine
<1>2. \A f : Queued(Launch(f))' => Queued(Launch(f))
  BY <1>1 DEF Queued
<1>3. \A f : NoneBefore(f) => NoneBefore(f)'
  BY <1>2, NoneBeforeKept
<1>4. \A p \in Pipelines : IF Owner[p] = q THEN lanes'[p] = <<>> ELSE lanes'[p] = lanes[p]
  BY <1>1
<1>5. LanesSorted'
  BY <1>1, <1>4 DEF OrderInv, LanesSorted
<1>6. QueuedWaits'
  BY <1>1, <1>2, <1>4, FireParts DEF OrderInv, QueuedWaits
<1>7. SealedFirst'
  <2>0. Len(sealed') <= 1
    BY <1>1 DEF OrderInv, SealedFirst
  <2> SUFFICES ASSUME sealed # <<>>, NEW g \in sealed[1]
               PROVE  /\ NoneBefore(g)'
                      /\ \A h \in sealed[1] : h[1] = g[1] => h = g
                      /\ \A k \in DOMAIN lanes'[g[1]] : g[2] < lanes'[g[1]][k][2]
    BY <1>1, <2>0 DEF SealedFirst
  <2>1. g[1] \in Pipelines
    BY BaseParts, TailItems, FireParts
  <2> QED BY <1>3, <1>4, <2>1 DEF OrderInv, SealedFirst
<1>8. BatchesSorted' /\ PostedLast'
  BY <1>1 DEF OrderInv, BatchesSorted, PostedLast
<1>9. RanBefore'
  BY <1>1, <1>3 DEF OrderInv, RanBefore
<1> QED BY <1>5, <1>6, <1>7, <1>8, <1>9 DEF OrderInv

LEMMA OrderSeal ==
  ASSUME Base, OrderInv, NEW P \in SUBSET Pipelines, Seal(P)
  PROVE  OrderInv'
<1>1. /\ sealed = <<>> /\ Len(sealed') = 1
      /\ sealed'[1] = {lanes[p][1] : p \in P} /\ sealed' # <<>>
      /\ \A p \in P : 1 \in DOMAIN lanes[p] /\ lanes[p][1] \in Fires
      /\ \A p \in P : \A k \in DOMAIN lanes'[p] :
           /\ k \in Nat \ {0} /\ k + 1 \in DOMAIN lanes[p] /\ lanes'[p][k] = lanes[p][k + 1]
      /\ \A p \in P : \A k \in DOMAIN lanes[p] : k # 1 => k - 1 \in DOMAIN lanes'[p] /\ k \in Nat
      /\ \A p \in Pipelines \ P : lanes'[p] = lanes[p]
      /\ lanes' \in [Pipelines -> Seq(Fires)]
      /\ UNCHANGED <<queue, launches, ran, terminated>>
  BY SealDoes DEF flight, fate, engine
<1>2. \A f : NoneBefore(f)' <=> NoneBefore(f)
  BY <1>1 DEF NoneBefore, Queued
<1>3. \A p \in P : Owner[p] \notin terminated
  BY <1>1 DEF OrderInv, LanesSorted
<1>4. ASSUME NEW p \in P
      PROVE  /\ \A k \in DOMAIN lanes'[p] : lanes'[p][k][1] = p /\ lanes[p][1][2] < lanes'[p][k][2]
             /\ \A j, k \in DOMAIN lanes'[p] : j < k => lanes'[p][j][2] < lanes'[p][k][2]
             /\ lanes[p][1][1] = p
  <2>1. /\ \A k \in DOMAIN lanes[p] : lanes[p][k][1] = p
        /\ \A j, k \in DOMAIN lanes[p] : j < k => lanes[p][j][2] < lanes[p][k][2]
    BY DEF OrderInv, LanesSorted
  <2>2. ASSUME NEW k \in DOMAIN lanes'[p]
        PROVE  lanes'[p][k][1] = p /\ lanes[p][1][2] < lanes'[p][k][2]
    <3>1. k + 1 \in DOMAIN lanes[p] /\ lanes'[p][k] = lanes[p][k + 1] /\ 1 < k + 1
      BY <1>1, <1>4, <2>2
    <3> QED BY <1>1, <2>1, <3>1
  <2>3. ASSUME NEW j \in DOMAIN lanes'[p], NEW k \in DOMAIN lanes'[p], j < k
        PROVE  lanes'[p][j][2] < lanes'[p][k][2]
    <3>1. /\ k + 1 \in DOMAIN lanes[p] /\ lanes'[p][k] = lanes[p][k + 1]
          /\ j + 1 \in DOMAIN lanes[p] /\ lanes'[p][j] = lanes[p][j + 1] /\ j + 1 < k + 1
      BY <1>1, <1>4, <2>3
    <3> QED BY <2>1, <3>1
  <2> QED BY <1>1, <1>4, <2>1, <2>2, <2>3
<1>5. LanesSorted'
  <2>1. ASSUME NEW p \in Pipelines \ P
        PROVE  /\ \A k \in DOMAIN lanes'[p] : lanes'[p][k][1] = p
               /\ \A j, k \in DOMAIN lanes'[p] : j < k => lanes'[p][j][2] < lanes'[p][k][2]
               /\ Owner[p] \in terminated' => lanes'[p] = <<>>
    BY <1>1, <2>1 DEF OrderInv, LanesSorted
  <2> QED BY <1>1, <1>3, <1>4, <2>1 DEF LanesSorted
<1>6. QueuedWaits'
  <2> SUFFICES ASSUME NEW f \in Fires, Queued(Launch(f))
               PROVE  \/ \E k \in DOMAIN lanes'[f[1]] : lanes'[f[1]][k] = f
                      \/ sealed' # <<>> /\ f \in sealed'[1]
                      \/ Owner[f[1]] \in terminated
    BY <1>1 DEF QueuedWaits, Queued
  <2>1. f[1] \in Pipelines
    BY FireParts
  <2>2. SUFFICES ASSUME NEW k \in DOMAIN lanes[f[1]], lanes[f[1]][k] = f
                 PROVE  \/ \E j \in DOMAIN lanes'[f[1]] : lanes'[f[1]][j] = f
                        \/ sealed' # <<>> /\ f \in sealed'[1]
    BY <1>1 DEF OrderInv, QueuedWaits
  <2>3. CASE f[1] \notin P
    BY <1>1, <2>1, <2>2, <2>3
  <2>4. CASE f[1] \in P /\ k = 1
    BY <1>1, <2>2, <2>4
  <2>5. CASE f[1] \in P /\ k # 1
    <3>1. k - 1 \in DOMAIN lanes'[f[1]] /\ k \in Nat
      BY <1>1, <2>2, <2>5
    <3>2. lanes'[f[1]][k - 1] = lanes[f[1]][(k - 1) + 1] /\ (k - 1) + 1 = k
      BY <1>1, <2>5, <3>1
    <3> QED BY <2>2, <3>1, <3>2
  <2> QED BY <2>3, <2>4, <2>5
<1>7. SealedFirst'
  <2>0. Len(sealed') <= 1
    BY <1>1
  <2> SUFFICES ASSUME NEW f \in sealed'[1]
               PROVE  /\ NoneBefore(f)
                      /\ \A g \in sealed'[1] : g[1] = f[1] => g = f
                      /\ \A k \in DOMAIN lanes'[f[1]] : f[2] < lanes'[f[1]][k][2]
    BY <1>2, <2>0 DEF SealedFirst
  <2>1. PICK p \in P : f = lanes[p][1]
    BY <1>1
  <2>2. f[1] = p /\ f \in Fires
    BY <1>1, <1>4, <2>1
  <2>3. \A g \in sealed'[1] : g[1] = f[1] => g = f
    BY <1>1, <1>4, <2>1, <2>2
  <2>4. \A k \in DOMAIN lanes'[f[1]] : f[2] < lanes'[f[1]][k][2]
    BY <1>4, <2>1, <2>2
  <2>5. ASSUME NEW n \in 1..(f[2] - 1), Queued(Launch(<<f[1], n>>)) PROVE FALSE
    <3> DEFINE g == <<f[1], n>>
    <3>1. f[2] \in 1..MaxFires /\ MaxFires \in Nat /\ p \in Pipelines
      BY <2>2, FireParts, DispatchAssumption
    <3>2. n \in 1..MaxFires /\ n < f[2]
      BY <3>1
    <3>3. g \in Fires /\ g[1] = p /\ g[2] = n
      BY <2>2, <3>1, <3>2, FireOf
    <3> HIDE DEF g
    <3>4. Queued(Launch(g))
      BY <2>5 DEF g
    <3>5. PICK k \in DOMAIN lanes[p] : lanes[p][k] = g
      BY <1>1, <1>3, <3>3, <3>4 DEF OrderInv, QueuedWaits
    <3>6. k \in Nat \ {0} /\ k # 1
      <4>1. k # 1
        BY <2>1, <3>1, <3>2, <3>3, <3>5
      <4>2. lanes[p] \in Seq(Fires)
        BY <3>1, BaseParts
      <4>3. DOMAIN lanes[p] = 1..Len(lanes[p]) /\ Len(lanes[p]) \in Nat
        BY <4>2, SeqIndexed
      <4> QED BY <4>1, <4>3
    <3>7. lanes[p][1][2] < lanes[p][k][2]
      BY <1>1, <3>1, <3>6 DEF OrderInv, LanesSorted
    <3> QED BY <2>1, <3>1, <3>2, <3>3, <3>5, <3>7
  <2> QED BY <2>3, <2>4, <2>5 DEF NoneBefore
<1>8. BatchesSorted' /\ PostedLast'
  BY <1>1 DEF OrderInv, BatchesSorted, PostedLast
<1>9. RanBefore'
  BY <1>1, <1>2 DEF OrderInv, RanBefore
<1> QED BY <1>5, <1>6, <1>7, <1>8, <1>9 DEF OrderInv

(* A batch of fires with none of their pipelines queued before them.       *)
LEMMA OrderPosted ==
  ASSUME Base, CopyInv, OrderInv, NEW W, Posted(W), \A g \in W : NoneBefore(g)'
  PROVE  BatchesSorted' /\ PostedLast' /\ RanBefore'
<1>1. W \subseteq Fires /\ Admitted(W) \subseteq W /\ ran' = ran /\ \A f \in W : Queued(Launch(f))
  BY DEF Posted, engine
<1>2. \A f : Queued(Launch(f))' => Queued(Launch(f))
  BY DEF Posted, Queued
<1>3. \A f : NoneBefore(f) => NoneBefore(f)'
  BY <1>2, NoneBeforeKept
<1>4. ASSUME NEW g \in W
      PROVE  /\ \A f \in ran : g[1] = f[1] => f[2] <= g[2]
             /\ \A i \in DOMAIN launches : \A f \in launches[i].fires : f[1] = g[1] => f[2] < g[2]
  <2>1. g \in Fires /\ Queued(Launch(g))
    BY <1>1, <1>4
  <2>3. ASSUME NEW f \in ran, g[1] = f[1] PROVE f[2] <= g[2]
    <3>1. f \in Fires /\ NoneBefore(f)
      BY BaseParts DEF OrderInv, RanBefore
    <3> QED BY <2>1, <2>3, <3>1, NotBefore
  <2>4. ASSUME NEW i \in DOMAIN launches, NEW f \in launches[i].fires, f[1] = g[1] PROVE f[2] < g[2]
    <3>1. Flying(f) /\ NoneBefore(f)
      BY DEF Flying, OrderInv, RanBefore
    <3>2. f \in Fires /\ ~Queued(Launch(f))
      BY <3>1, FlyingFires, FliesReadyOf DEF CopyInv
    <3>3. f[2] <= g[2]
      BY <2>1, <2>4, <3>1, <3>2, NotBefore
    <3>4. f[2] # g[2]
      BY <2>1, <2>4, <3>2, FireParts
    <3>5. f[2] \in Nat /\ g[2] \in Nat
      BY <2>1, <3>2, FireParts
    <3> QED BY <3>3, <3>4, <3>5
  <2> QED BY <2>3, <2>4
<1> DEFINE n == Len(launches) + 1
<1>5. /\ \A i \in DOMAIN launches : i \in DOMAIN launches' /\ launches'[i] = launches[i]
      /\ \A i \in DOMAIN launches' : i \in DOMAIN launches \/
           (i = n /\ launches'[i].fires \subseteq W /\ launches'[i].at = "posted")
      /\ Len(launches) \in Nat /\ DOMAIN launches = 1..Len(launches)
  BY <1>1, BaseParts, OneMoreBatch
<1>6. \A i, j \in DOMAIN launches' : i < j => i \in DOMAIN launches
  BY <1>5
<1> HIDE DEF n
<1>7. BatchesSorted'
  <2> SUFFICES ASSUME NEW i \in DOMAIN launches', NEW j \in DOMAIN launches', i < j,
                      NEW f \in launches'[i].fires, NEW g \in launches'[j].fires, f[1] = g[1]
               PROVE  f[2] < g[2]
    BY DEF BatchesSorted
  <2>1. i \in DOMAIN launches /\ f \in launches[i].fires
    BY <1>5, <1>6
  <2>2. CASE j \in DOMAIN launches
    <3>1. g \in launches[j].fires
      BY <1>5, <2>2
    <3> QED BY <2>1, <2>2, <3>1 DEF OrderInv, BatchesSorted
  <2>3. CASE launches'[j].fires \subseteq W
    BY <1>4, <2>1, <2>3
  <2> QED BY <1>5, <2>2, <2>3
<1>8. PostedLast'
  <2> SUFFICES ASSUME NEW i \in DOMAIN launches', NEW j \in DOMAIN launches', i < j,
                      launches'[i].at = "posted"
               PROVE  launches'[j].at = "posted"
    BY DEF PostedLast
  <2>1. i \in DOMAIN launches /\ launches[i].at = "posted"
    BY <1>5, <1>6
  <2>2. CASE j \in DOMAIN launches
    BY <1>5, <2>1, <2>2 DEF OrderInv, PostedLast
  <2> QED BY <1>5, <2>2
<1>9. RanBefore'
  <2>1. \A f \in ran' : NoneBefore(f)'
    BY <1>1, <1>3 DEF OrderInv, RanBefore
  <2>2. ASSUME NEW i \in DOMAIN launches', NEW g \in launches'[i].fires
        PROVE  /\ NoneBefore(g)'
               /\ launches'[i].at = "posted" => \A f \in ran' : g[1] = f[1] => f[2] <= g[2]
    <3>1. CASE i \in DOMAIN launches
      BY <1>1, <1>3, <1>5, <2>2, <3>1 DEF OrderInv, RanBefore
    <3>2. CASE launches'[i].fires \subseteq W
      BY <1>1, <1>4, <2>2, <3>2
    <3> QED BY <1>5, <3>1, <3>2
  <2> QED BY <2>1, <2>2 DEF RanBefore
<1> QED BY <1>7, <1>8, <1>9

LEMMA OrderPostFrame ==
  ASSUME Base, CopyInv, OrderInv, PostFrame
  PROVE  OrderInv'
<1>1. /\ Posted(Wave) /\ sealed # <<>> /\ sealed' = Tail(sealed)
      /\ UNCHANGED <<lanes, terminated>>
  BY PostFrameDoes DEF Posted
<1>2. \A f : Queued(Launch(f))' => Queued(Launch(f)) /\ f \notin Wave
  BY <1>1 DEF Posted, Queued
<1>3. \A f : NoneBefore(f) => NoneBefore(f)'
  BY <1>2, NoneBeforeKept
<1>4. sealed' = <<>> /\ Len(sealed') <= 1
  <2>1. Len(sealed) <= 1 /\ sealed \in Seq(SUBSET Fires)
    BY BaseParts DEF OrderInv, SealedFirst
  <2>2. Len(Tail(sealed)) = Len(sealed) - 1 /\ Len(sealed) \in Nat \ {0} /\ Tail(sealed) \in Seq(SUBSET Fires)
    BY <1>1, <2>1, TailItems
  <2>3. Len(Tail(sealed)) = 0
    BY <2>1, <2>2
  <2> QED BY <1>1, <2>2, <2>3, EmptySeq
<1>5. LanesSorted'
  BY <1>1 DEF OrderInv, LanesSorted
<1>6. QueuedWaits'
  <2> SUFFICES ASSUME NEW f \in Fires, Queued(Launch(f))'
               PROVE  \/ \E k \in DOMAIN lanes[f[1]] : lanes[f[1]][k] = f
                      \/ Owner[f[1]] \in terminated
    BY <1>1 DEF QueuedWaits
  <2>1. Queued(Launch(f)) /\ f \notin Wave
    BY <1>2
  <2>2. f \notin sealed[1]
    BY <2>1 DEF Wave
  <2> QED BY <2>1, <2>2 DEF OrderInv, QueuedWaits
<1>7. SealedFirst'
  BY <1>4 DEF SealedFirst
<1>8. \A g \in Wave : NoneBefore(g)'
  BY <1>1, <1>3 DEF OrderInv, SealedFirst, Wave
<1>9. BatchesSorted' /\ PostedLast' /\ RanBefore'
  BY <1>1, <1>8, OrderPosted
<1> QED BY <1>5, <1>6, <1>7, <1>9 DEF OrderInv

(* With nothing left in the queue, everything in it went in order.         *)
LEMMA OrderDrain ==
  ASSUME Base, CopyInv, OrderInv, Drain
  PROVE  OrderInv'
<1>1. Posted(AllQueued) /\ sealed' = sealed
  BY DrainDoes
<1>2. UNCHANGED <<lanes, terminated>>
  BY <1>1 DEF Posted
<1>3. \A f : ~Queued(Launch(f))'
  BY <1>1, NoneQueued
<1>4. \A f : NoneBefore(f)'
  BY <1>3 DEF NoneBefore
<1>5. LanesSorted'
  BY <1>2 DEF OrderInv, LanesSorted
<1>6. QueuedWaits'
  BY <1>3 DEF QueuedWaits
<1>7. SealedFirst'
  BY <1>1, <1>2, <1>4 DEF OrderInv, SealedFirst
<1>8. BatchesSorted' /\ PostedLast' /\ RanBefore'
  BY <1>1, <1>4, OrderPosted
<1> QED BY <1>5, <1>6, <1>7, <1>8 DEF OrderInv

(* Steps that only touch the batches. *)
LEMMA OrderBatches ==
  ASSUME OrderInv, UNCHANGED <<queue, lanes, sealed, terminated>>,
         BatchesSorted', PostedLast', RanBefore'
  PROVE  OrderInv'
<1>1. \A f : (NoneBefore(f)' <=> NoneBefore(f)) /\ (Queued(f)' <=> Queued(f))
  BY DEF NoneBefore, Queued
<1>2. LanesSorted' /\ QueuedWaits' /\ SealedFirst'
  BY <1>1 DEF OrderInv, LanesSorted, QueuedWaits, SealedFirst
<1> QED BY <1>2 DEF OrderInv

LEMMA OrderTakes ==
  ASSUME Base, OrderInv, LaneTakesLaunch
  PROVE  OrderInv'
<1>1. PICK i \in DOMAIN launches :
        /\ launches[i].at = "posted"
        /\ \A j \in DOMAIN launches : j < i => launches[j].at # "posted"
        /\ \/ BatchMoves(i, "accepted") /\ ran' = ran \cup launches[i].fires
           \/ BatchMoves(i, "failed") /\ ran' = ran
        /\ UNCHANGED <<queue, lanes, sealed, terminated>>
  BY LaneTakesLaunchDoes DEF work, fate
<1>2. /\ DOMAIN launches' = DOMAIN launches
      /\ \A j \in DOMAIN launches : launches'[j].fires = launches[j].fires
      /\ \A j \in DOMAIN launches' : launches'[j].at = "posted" => j # i /\ launches[j].at = "posted"
      /\ \A j \in DOMAIN launches : j # i => launches'[j].at = launches[j].at
  BY <1>1 DEF BatchMoves
<1>3. \A j \in DOMAIN launches : launches[j].at = "posted" => j = i \/ i < j
  <2>1. DOMAIN launches \subseteq Nat
    BY BaseParts, SeqIndexed
  <2>2. \A j \in DOMAIN launches : j < i \/ j = i \/ i < j
    BY <2>1
  <2> QED BY <1>1, <2>2
<1>4. BatchesSorted'
  BY <1>2 DEF OrderInv, BatchesSorted
<1>5. PostedLast'
  <2> SUFFICES ASSUME NEW j \in DOMAIN launches', NEW k \in DOMAIN launches', j < k,
                      launches'[j].at = "posted"
               PROVE  launches'[k].at = "posted"
    BY DEF PostedLast
  <2>1. launches[j].at = "posted" /\ i < j /\ launches[k].at = "posted"
    BY <1>2, <1>3 DEF OrderInv, PostedLast
  <2>2. k # i
    <3>1. DOMAIN launches \subseteq Nat
      BY BaseParts, SeqIndexed
    <3> QED BY <1>2, <2>1, <3>1
  <2> QED BY <1>2, <2>1, <2>2
<1>6. RanBefore'
  <2>1. \A f : NoneBefore(f)' <=> NoneBefore(f)
    BY <1>1 DEF NoneBefore, Queued
  <2>2. \A f \in ran' : f \in ran \/ f \in launches[i].fires
    BY <1>1
  <2>3. \A f \in ran' : NoneBefore(f)'
    BY <2>1, <2>2 DEF OrderInv, RanBefore
  <2>4. \A j \in DOMAIN launches' : \A f \in launches'[j].fires : NoneBefore(f)'
    BY <1>2, <2>1 DEF OrderInv, RanBefore
  <2>5. ASSUME NEW f \in ran', NEW j \in DOMAIN launches', launches'[j].at = "posted",
               NEW g \in launches'[j].fires, g[1] = f[1]
        PROVE  f[2] <= g[2]
    <3>1. j \in DOMAIN launches /\ g \in launches[j].fires /\ launches[j].at = "posted" /\ i < j
      BY <1>2, <1>3, <2>5
    <3>2. CASE f \in ran
      BY <2>5, <3>1, <3>2 DEF OrderInv, RanBefore
    <3>3. CASE f \in launches[i].fires
      <4>1. f[2] < g[2]
        BY <2>5, <3>1, <3>3 DEF OrderInv, BatchesSorted
      <4>2. f[2] \in Nat /\ g[2] \in Nat
        BY <3>1, <3>3, FlyingFires, FireParts DEF Flying
      <4> QED BY <4>1, <4>2
    <3> QED BY <2>2, <3>2, <3>3
  <2> QED BY <2>3, <2>4, <2>5 DEF RanBefore
<1> QED BY <1>1, <1>4, <1>5, <1>6, OrderBatches

LEMMA OrderEnds ==
  ASSUME Base, OrderInv, EngineEndsLaunch
  PROVE  OrderInv'
<1>1. PICK i \in DOMAIN launches :
        /\ launches[i].at = "accepted" /\ BatchMoves(i, "done")
        /\ UNCHANGED <<queue, lanes, sealed, terminated, ran>>
  BY EngineEndsLaunchDoes DEF work, fate, engine
<1>2. /\ DOMAIN launches' = DOMAIN launches
      /\ \A j \in DOMAIN launches : launches'[j].fires = launches[j].fires
      /\ \A j \in DOMAIN launches : launches'[j].at = "posted" <=> launches[j].at = "posted"
  BY <1>1 DEF BatchMoves
<1>3. BatchesSorted' /\ PostedLast'
  BY <1>2 DEF OrderInv, BatchesSorted, PostedLast
<1>4. \A f : NoneBefore(f)' <=> NoneBefore(f)
  BY <1>1 DEF NoneBefore, Queued
<1>5. RanBefore'
  BY <1>1, <1>2, <1>4 DEF OrderInv, RanBefore
<1> QED BY <1>1, <1>3, <1>5, OrderBatches

LEMMA OrderRetires ==
  ASSUME Base, OrderInv, RetireLaunch
  PROVE  OrderInv'
<1>1. /\ \A i \in DOMAIN launches' :
           /\ i \in Nat \ {0} /\ i + 1 \in DOMAIN launches /\ launches'[i] = launches[i + 1]
      /\ UNCHANGED <<queue, lanes, sealed, terminated, ran>>
  BY RetireLaunchDoes DEF work, engine
<1>2. \A i, j \in DOMAIN launches' : i < j => i + 1 < j + 1
  BY <1>1
<1>3. BatchesSorted' /\ PostedLast'
  BY <1>1, <1>2 DEF OrderInv, BatchesSorted, PostedLast
<1>4. \A f : NoneBefore(f)' <=> NoneBefore(f)
  BY <1>1 DEF NoneBefore, Queued
<1>5. RanBefore'
  BY <1>1, <1>4 DEF OrderInv, RanBefore
<1> QED BY <1>1, <1>3, <1>5, OrderBatches

(* Every step keeps the order of a pipeline.                               *)
LEMMA OrderStep ==
  ASSUME Base, CopyInv, OrderInv, [Next]_vars
  PROVE  OrderInv'
<1>1. ASSUME NEW p \in Pipelines, NEW copies \in BOOLEAN, Submit(p, copies) PROVE OrderInv'
  <2>1. PICK f \in Fires : NewFire(f) /\ (Rejects(f) \/ \E C \in {{}, {f}} : Adds(f, C))
    BY <1>1, SubmitDoes
  <2>2. CASE Rejects(f)
    <3>1. UNCHANGED <<queue, lanes, sealed, launches, terminated, ran>>
      BY <2>1, <2>2 DEF NewFire, Rejects, flight, engine
    <3> QED BY <3>1, OrderSame DEF Queued
  <2> QED BY <2>1, <2>2, OrderAdds
<1>2. ASSUME NEW m \in Moves, SubmitMove(m) PROVE OrderInv'
  <2>1. /\ queue' = Append(queue, Move(m)) /\ Move(m) \in Items
        /\ UNCHANGED <<lanes, sealed, launches, terminated, ran>>
    BY <1>2, ItemParts DEF SubmitMove, flight, engine
  <2>2. queue \in Seq(Items)
    BY BaseParts
  <2>3. ToSet(queue') = ToSet(queue) \cup {Move(m)}
    BY <2>1, <2>2, AppendItems
  <2>4. \A f : Launch(f) # Move(m)
    BY ItemParts
  <2> QED BY <2>1, <2>3, <2>4, OrderSame DEF Queued
<1>3. ASSUME NEW q \in Processes, Terminate(q) PROVE OrderInv'
  BY <1>3, OrderTerminate
<1>4. ASSUME NEW S \in SUBSET Pipelines, Seal(S) PROVE OrderInv'
  BY <1>4, OrderSeal
<1>5. CASE PostFrame
  BY <1>5, OrderPostFrame
<1>13. CASE Drain
  BY <1>13, OrderDrain
<1>6. CASE RotateLaunches
  <2>1. ToSet(queue)' = ToSet(queue) /\ UNCHANGED <<lanes, sealed, launches, terminated, ran>>
    BY <1>6, RotateDoes DEF flight, fate, engine
  <2> QED BY <2>1, OrderSame DEF Queued
<1>7. ASSUME NEW x, Posts(x) PROVE OrderInv'
  <2>1. ToSet(queue)' \subseteq ToSet(queue) /\ UNCHANGED <<lanes, sealed, launches, terminated, ran>>
    BY <1>7 DEF Posts, engine
  <2> QED BY <2>1, OrderSame DEF Queued
<1>8. CASE RetireLaunch
  BY <1>8, OrderRetires
<1>9. CASE LaneTakesLaunch
  BY <1>9, OrderTakes
<1>10. CASE EngineEndsLaunch
  BY <1>10, OrderEnds
<1>11. CASE \/ RetireControl \/ LaneTakesControl \/ EndControlTurn \/ EngineEndsControl \/ Stop
            \/ UNCHANGED vars
  <2>1. UNCHANGED <<queue, lanes, sealed, launches, terminated, ran>>
    BY <1>11 DEF RetireControl, LaneTakesControl, EndControlTurn, EngineEndsControl, Stop, vars, work,
                 flight, fate, engine
  <2> QED BY <2>1, OrderSame DEF Queued
<1>12. PostFront \/ (\E m \in Moves : PostMove(m)) => OrderInv'
  BY <1>7, PostFrontDoes, PostMoveDoes
<1> QED
  BY <1>1, <1>2, <1>3, <1>4, <1>5, <1>6, <1>8, <1>9, <1>10, <1>11, <1>12, <1>13
     DEF Next, Worker, Lane

LEMMA DispatchInit == Init => CopyInv /\ OrderInv
<1> SUFFICES ASSUME Init PROVE CopyInv /\ OrderInv
  OBVIOUS
<1>1. /\ queue = <<>> /\ sealed = <<>> /\ launches = <<>> /\ controls = <<>>
      /\ \A p \in Pipelines : lanes[p] = <<>>
      /\ withCopy = {} /\ ran = {}
  BY DEF Init
<1>2. \A x : ~Queued(x)
  BY <1>1 DEF Queued, ToSet
<1>3. CopyInv
  BY <1>1, <1>2 DEF CopyInv, CopyFirst, FliesReady, OnlyTheDrainOvertakes
<1>4. LanesSorted /\ QueuedWaits /\ SealedFirst
  BY <1>1, <1>2 DEF LanesSorted, QueuedWaits, SealedFirst
<1>5. BatchesSorted /\ PostedLast /\ RanBefore
  BY <1>1 DEF BatchesSorted, PostedLast, RanBefore
<1> QED BY <1>3, <1>4, <1>5 DEF OrderInv

DispatchInv == Base /\ CopyInv /\ OrderInv

(* The two are inductive together: that a retired batch leaves no fire of  *)
(* its own in flight is order, that the fires posted come after those in   *)
(* flight needs these to have left the queue.                              *)
THEOREM DispatchInductive ==
  /\ Init => DispatchInv
  /\ DispatchInv /\ [Next]_vars => DispatchInv'
<1>1. Init => DispatchInv
  BY BaseInductive, DispatchInit DEF DispatchInv
<1>2. ASSUME DispatchInv, [Next]_vars PROVE DispatchInv'
  <2>1. Base /\ CopyInv /\ OrderInv /\ BatchesSorted
    BY <1>2 DEF DispatchInv, OrderInv
  <2>2. Base' /\ CopyInv' /\ OrderInv'
    BY <1>2, <2>1, BaseInductive, CopyStep, OrderStep
  <2> QED BY <2>2 DEF DispatchInv
<1> QED BY <1>1, <1>2

(* The engine never takes a launch before the copy queued ahead of it is   *)
(* complete, nor when it failed, unless the shutdown posted the launch.    *)
THEOREM LaunchesFollowCopies == Spec => []OnlyTheDrainOvertakes
<1>1. DispatchInv => OnlyTheDrainOvertakes
  BY DEF DispatchInv, CopyInv
<1> QED BY <1>1, DispatchInductive, PTL DEF Spec

(* The engine takes the launches of a pipeline in the order they were      *)
(* submitted, however the queue is rotated.                                *)
THEOREM PipelinesKeepOrder == Spec => []PipelineInOrder
<1>1. DispatchInv => PipelineInOrder
  <2> SUFFICES ASSUME DispatchInv, NEW f \in ran, NEW n \in 1..(f[2] - 1)
               PROVE  /\ ~Queued(Launch(<<f[1], n>>))
                      /\ \A i \in DOMAIN launches :
                           launches[i].at = "posted" => <<f[1], n>> \notin launches[i].fires
    BY DEF PipelineInOrder
  <2>1. Base /\ RanBefore
    BY DEF DispatchInv, OrderInv
  <2>2. f[2] \in Nat
    BY <2>1, BaseParts, FireParts
  <2>3. ~Queued(Launch(<<f[1], n>>))
    BY <2>1 DEF RanBefore, NoneBefore
  <2>4. ASSUME NEW i \in DOMAIN launches, launches[i].at = "posted", <<f[1], n>> \in launches[i].fires
        PROVE  FALSE
    <3>1. f[2] <= <<f[1], n>>[2]
      BY <2>1, <2>4 DEF RanBefore
    <3> QED BY <2>2, <3>1
  <2> QED BY <2>3, <2>4
<1> QED BY <1>1, DispatchInductive, PTL DEF Spec

-----------------------------------------------------------------------------
(* What is settled while the engine has it. *)

(* Copies and moves are told apart by what they are of.                    *)
LEMMA SameOf ==
  ASSUME NEW x \in Items, NEW y \in Items, x.kind # "launch", y.kind # "launch", x.of = y.of
  PROVE  x = y
BY ItemParts, MovesAssumption

LEMMA ControlOf ==
  ASSUME Base, NEW i \in DOMAIN controls
  PROVE  /\ controls[i].item \in Items /\ controls[i].item.kind \in {"copy", "move"}
         /\ controls[i].item.kind = "copy" =>
              controls[i].item.of \in Fires /\ controls[i].item = Copy(controls[i].item.of)
         /\ controls[i].item.kind = "move" =>
              controls[i].item.of \in Moves /\ controls[i].item = Move(controls[i].item.of)
         /\ controls[i].item.of \in Fires => controls[i].item.kind = "copy"
         /\ controls[i].item.of \in Moves => controls[i].item.kind = "move"
<1>1. controls[i].item \in Items /\ controls[i].item.kind # "launch"
  BY BaseParts, ControlParts DEF ControlsKnown
<1> QED BY <1>1, ItemParts, MovesAssumption

(* Steps that leave the controls alone and settle no move, nor a fire whose *)
(* copy is with the engine.                                                 *)
LEMMA FlightFrame ==
  ASSUME Base, FlightInv, controls' = controls,
         Distinct(queue)', \A i \in DOMAIN controls : ~Queued(controls[i].item)',
         \A m \in Moves : Queued(Move(m))' => Queued(Move(m)) \/ m \notin settled,
         terminated \subseteq terminated',
         \A x \in settled' : x \in settled \/ x \in Fires,
         \A i \in DOMAIN controls : controls[i].at = "running" => Spared(controls[i].item.of)'
  PROVE  FlightInv'
<1>1. OnePlace' /\ OnePerPipeline'
  BY DEF FlightInv, OnePlace, OnePerPipeline
<1>2. \A m \in Moves : m \in settled' => m \in settled
  BY MovesAssumption
<1>3. \A m \in Moves : Queued(Move(m))' => m \notin settled'
  BY <1>2 DEF FlightInv, UnderWay
<1>4. ASSUME NEW i \in DOMAIN controls, controls[i].item.kind = "move", controls[i].at = "posted"
      PROVE  controls[i].item.of \notin settled'
  BY <1>2, <1>4, ControlOf DEF FlightInv, UnderWay
<1>5. UnderWay'
  BY <1>3, <1>4 DEF UnderWay
<1> QED BY <1>1, <1>5 DEF FlightInv

LEMMA StillSpared ==
  ASSUME NEW x, Spared(x), x \in settled' => x \in settled, terminated \subseteq terminated',
         drained \subseteq drained'
  PROVE  Spared(x)'
BY DEF Spared

LEMMA FlightSame ==
  ASSUME Base, FlightInv, UNCHANGED <<controls, settled, terminated, drained>>,
         ToSet(queue)' = ToSet(queue), Distinct(queue) => Distinct(queue)'
  PROVE  FlightInv'
<1>1. \A x : Queued(x)' <=> Queued(x)
  BY DEF Queued
<1>2. \A i \in DOMAIN controls : controls[i].at = "running" => Spared(controls[i].item.of)'
  BY StillSpared DEF FlightInv, UnderWay
<1> QED BY <1>1, <1>2, FlightFrame DEF FlightInv, OnePlace

LEMMA FlightSubmit ==
  ASSUME Base, FlightInv, NEW f \in Fires, NewFire(f),
         Rejects(f) \/ \E C \in {{}, {f}} : Adds(f, C)
  PROVE  FlightInv'
<1>1. f \notin submitted /\ UNCHANGED <<controls, terminated, drained>>
  BY DEF NewFire, flight
<1>2. /\ \A x \in ToSet(queue) : x.of # f
      /\ \A i \in DOMAIN controls : controls[i].item.of # f
  BY <1>1, BaseParts DEF KnownSubmitted
<1>3. \A x \in settled' : x \in settled \/ x = f
  BY DEF Rejects, Adds
<1>4. \A i \in DOMAIN controls : controls[i].at = "running" => Spared(controls[i].item.of)'
  BY <1>1, <1>2, <1>3, StillSpared DEF FlightInv, UnderWay
<1>5. /\ Distinct(queue)'
      /\ \A i \in DOMAIN controls : ~Queued(controls[i].item)'
      /\ \A m \in Moves : Queued(Move(m))' => Queued(Move(m))
  <2>1. CASE Rejects(f)
    BY <1>1, <2>1 DEF Rejects, FlightInv, OnePlace, Queued, Distinct
  <2>2. ASSUME NEW C \in {{}, {f}}, Adds(f, C)
        PROVE  /\ Distinct(queue)'
               /\ \A i \in DOMAIN controls : ~Queued(controls[i].item)'
               /\ \A m \in Moves : Queued(Move(m))' => Queued(Move(m))
    <3>1. Launch(f) \notin ToSet(queue) /\ Copy(f) \notin ToSet(queue)
      BY <1>2, ItemParts
    <3>2. Distinct(queue)'
      BY <2>2, <3>1 DEF Adds, FlightInv, OnePlace
    <3>3. \A x : Queued(x)' => Queued(x) \/ x = Launch(f) \/ x = Copy(f)
      BY <2>2 DEF Adds, Queued
    <3>4. \A i \in DOMAIN controls : ~Queued(controls[i].item)'
      BY <1>1, <1>2, <3>3, ItemParts DEF FlightInv, OnePlace
    <3>5. \A m \in Moves : Queued(Move(m))' => Queued(Move(m))
      BY <3>3, ItemParts
    <3> QED BY <3>2, <3>4, <3>5
  <2> QED BY <2>1, <2>2
<1> QED BY <1>1, <1>3, <1>4, <1>5, FlightFrame

LEMMA FlightSubmitMove ==
  ASSUME Base, FlightInv, NEW m \in Moves, SubmitMove(m)
  PROVE  FlightInv'
<1>1. /\ queue' = Append(queue, Move(m)) /\ Move(m) \in Items /\ m \notin submitted
      /\ UNCHANGED <<controls, settled, terminated, drained>>
  BY ItemParts DEF SubmitMove, flight
<1>2. /\ \A x \in ToSet(queue) : x.of # m
      /\ \A i \in DOMAIN controls : controls[i].item.of # m
      /\ m \notin settled
  BY <1>1, BaseParts DEF KnownSubmitted
<1>3. /\ ToSet(queue') = ToSet(queue) \cup {Move(m)}
      /\ Distinct(queue) /\ Move(m) \notin ToSet(queue) => Distinct(queue')
  BY <1>1, BaseParts, AppendItems
<1>4. Move(m) \notin ToSet(queue)
  BY <1>2, ItemParts
<1>5. Distinct(queue)'
  BY <1>3, <1>4 DEF FlightInv, OnePlace
<1>6. \A i \in DOMAIN controls : ~Queued(controls[i].item)'
  BY <1>1, <1>2, <1>3, ItemParts DEF Queued, FlightInv, OnePlace
<1>7. \A k \in Moves : Queued(Move(k))' => Queued(Move(k)) \/ k \notin settled
  BY <1>2, <1>3, ItemParts DEF Queued
<1>8. \A i \in DOMAIN controls : controls[i].at = "running" => Spared(controls[i].item.of)'
  BY <1>1, StillSpared DEF FlightInv, UnderWay
<1> QED BY <1>1, <1>5, <1>6, <1>7, <1>8, FlightFrame

(* A termination settles the fire of a copy with the lane only where the   *)
(* process has another copy there, of another pipeline.                    *)
LEMMA FlightTerminate ==
  ASSUME Base, FlightInv, NEW q \in Processes, Terminate(q)
  PROVE  FlightInv'
<1>1. /\ \A x : x \in ToSet(queue)' <=> x \in ToSet(queue) /\ ~Leaves(q, x)
      /\ Distinct(queue) => Distinct(queue)'
      /\ terminated' = terminated \cup {q}
      /\ \A y : y \in settled' <=>
           y \in settled \/ \E x \in ToSet(queue) : Leaves(q, x) /\ y = x.of
      /\ controls' = controls /\ drained' = drained
  BY TerminateDoes DEF flight
<1>2. /\ Distinct(queue)' /\ \A i \in DOMAIN controls : ~Queued(controls[i].item)'
      /\ \A m \in Moves : Queued(Move(m))' => Queued(Move(m))
  BY <1>1 DEF FlightInv, OnePlace, Queued
<1>3. \A x \in settled' : x \in settled \/ (x \in Fires /\ OfProcess(x, q) /\ x \notin Protected(q))
  <2>1. \A x \in ToSet(queue) : x.kind # "move" => x.of \in Fires
    BY BaseParts, ItemParts
  <2> QED BY <1>1, <2>1 DEF Leaves
<1>4. ASSUME NEW i \in DOMAIN controls, controls[i].at = "running"
      PROVE  Spared(controls[i].item.of)'
  <2> DEFINE f == controls[i].item.of
  <2>1. CASE f \in settled' => f \in settled
    BY <1>1, <1>4, <2>1, StillSpared DEF FlightInv, UnderWay
  <2>2. CASE f \in settled' /\ f \notin settled
    <3>1. f \in Fires /\ OfProcess(f, q) /\ f \notin Protected(q)
      BY <1>3, <2>2
    <3> DEFINE own == {j \in DOMAIN controls :
                         controls[j].item.kind = "copy" /\ OfProcess(controls[j].item.of, q)}
    <3>2. i \in own /\ own \subseteq Nat
      <4>1. controls[i].item.kind = "copy"
        BY <3>1, ControlOf
      <4>2. DOMAIN controls \subseteq Nat
        BY BaseParts, SeqIndexed
      <4> QED BY <3>1, <4>1, <4>2
    <3>3. PICK j \in own : \A k \in own : j <= k
      <4> HIDE DEF own
      <4> QED BY <3>2, Least
    <3>4. controls[j].item.of \in Protected(q)
      BY <3>3 DEF Protected
    <3>5. j # i
      BY <3>1, <3>4
    <3>6. controls[j].item.of \in Fires /\ controls[j].item.of[1] # f[1]
      BY <3>2, <3>3, <3>5, ControlOf DEF FlightInv, OnePerPipeline
    <3>7. Owner[controls[j].item.of[1]] = q /\ Owner[f[1]] = q
      BY <3>1, <3>3 DEF OfProcess
    <3>8. controls[j].item.of[1] \in Pipelines
      BY <3>6, FireParts
    <3> HIDE DEF f
    <3> QED BY <1>1, <3>1, <3>6, <3>7, <3>8 DEF Spared, f
  <2> QED BY <2>1, <2>2
<1> QED BY <1>1, <1>2, <1>3, <1>4, FlightFrame

(* A batch is posted while no copy is with the lane.                       *)
LEMMA FlightPosted ==
  ASSUME Base, FlightInv, NEW W, Posted(W), drained \subseteq drained'
  PROVE  FlightInv'
<1>1. /\ ToSet(queue)' = ToSet(queue) \ {Launch(f) : f \in W}
      /\ Distinct(queue) => Distinct(queue)'
      /\ ~HoldsLaunches /\ W \subseteq Fires
      /\ settled' = settled \cup (W \ Admitted(W))
      /\ UNCHANGED <<controls, terminated>>
  BY DEF Posted
<1>2. \A x \in settled' : x \in settled \/ x \in Fires
  BY <1>1
<1>3. \A i \in DOMAIN controls : controls[i].item.of \notin Fires
  <2>1. \A i \in DOMAIN controls : controls[i].item.kind # "copy"
    BY <1>1 DEF HoldsLaunches, Prelaunch, ToSet
  <2> QED BY <2>1, ControlOf
<1>4. \A i \in DOMAIN controls : controls[i].at = "running" => Spared(controls[i].item.of)'
  BY <1>1, <1>2, <1>3, StillSpared DEF FlightInv, UnderWay
<1>5. /\ Distinct(queue)' /\ \A i \in DOMAIN controls : ~Queued(controls[i].item)'
      /\ \A m \in Moves : Queued(Move(m))' => Queued(Move(m))
  BY <1>1 DEF FlightInv, OnePlace, Queued
<1> QED BY <1>1, <1>2, <1>4, <1>5, FlightFrame

LEMMA FlightRetireLaunch ==
  ASSUME Base, CopyInv, FlightInv, RetireLaunch
  PROVE  FlightInv'
<1>1. /\ 1 \in DOMAIN launches /\ launches[1].fires \subseteq Fires
      /\ settled' = settled \cup launches[1].fires
      /\ UNCHANGED <<queue, controls, terminated, drained>>
  BY RetireLaunchDoes DEF work
<1>2. \A f \in launches[1].fires : f \in drained \/ ~Copying(f)
  BY <1>1 DEF CopyInv, FliesReady, Ready
<1>3. \A i \in DOMAIN controls :
        controls[i].item.of \in launches[1].fires => controls[i].item.of \in drained
  BY <1>1, <1>2, ControlOf DEF Copying
<1>4. ASSUME NEW i \in DOMAIN controls, controls[i].at = "running"
      PROVE  Spared(controls[i].item.of)'
  <2>1. CASE controls[i].item.of \in drained
    BY <1>1, <2>1 DEF Spared
  <2>2. CASE controls[i].item.of \notin drained
    BY <1>1, <1>3, <1>4, <2>2, StillSpared DEF FlightInv, UnderWay
  <2> QED BY <2>1, <2>2
<1>5. /\ Distinct(queue)' /\ \A i \in DOMAIN controls : ~Queued(controls[i].item)'
      /\ \A m \in Moves : Queued(Move(m))' => Queued(Move(m))
  BY <1>1 DEF FlightInv, OnePlace, Queued, Distinct
<1> QED BY <1>1, <1>4, <1>5, FlightFrame

LEMMA FlightPosts ==
  ASSUME Base, FlightInv, NEW x, Posts(x)
  PROVE  FlightInv'
<1>1. /\ x \in Items /\ x \in ToSet(queue) /\ Admits(x)
      /\ ToSet(queue)' \subseteq ToSet(queue)
      /\ Distinct(queue) => Distinct(queue)' /\ x \notin ToSet(queue)'
      /\ controls' = IF Dropped(x) THEN controls ELSE Append(controls, [item |-> x, at |-> "posted"])
      /\ settled' = settled \cup (IF x.kind = "copy" /\ x.of \in cancelled THEN {x.of} ELSE {})
      /\ terminated' = terminated /\ drained' = drained
  BY DEF Posts
<1>2. x.kind \in {"copy", "move"}
  BY <1>1, ItemParts DEF Admits
<1>3. \A i \in DOMAIN controls : controls[i].item # x
  BY <1>1 DEF FlightInv, OnePlace, Queued
<1>4. \A i \in DOMAIN controls : controls[i].item.of # x.of
  BY <1>1, <1>2, <1>3, SameOf, ControlOf
<1>5. /\ \A i \in DOMAIN controls : ~Queued(controls[i].item) /\ controls[i].item \notin ToSet(queue)'
      /\ Distinct(queue)' /\ x \notin ToSet(queue)'
      /\ \A m \in Moves : Queued(Move(m))' => Queued(Move(m))
  BY <1>1 DEF FlightInv, OnePlace, Queued
<1>6. /\ \A y \in settled' : y \in settled \/ (y = x.of /\ y \in Fires)
  BY <1>1, ItemParts
<1>7. \A i \in DOMAIN controls : controls[i].item.of \in settled' => controls[i].item.of \in settled
  BY <1>4, <1>6
<1>8. CASE Dropped(x)
  <2>1. controls' = controls
    BY <1>1, <1>8
  <2>2. \A i \in DOMAIN controls : controls[i].at = "running" => Spared(controls[i].item.of)'
    BY <1>1, <1>7, <2>1, StillSpared DEF FlightInv, UnderWay
  <2>3. \A i \in DOMAIN controls : ~Queued(controls[i].item)'
    BY <1>5, <2>1 DEF Queued
  <2> QED BY <1>1, <1>5, <1>6, <2>1, <2>2, <2>3, FlightFrame
<1>9. CASE ~Dropped(x)
  <2> DEFINE b == [item |-> x, at |-> "posted"]
             n == Len(controls) + 1
  <2>1. b \in Control /\ b.item = x /\ b.at = "posted" /\ controls' = Append(controls, b)
    BY <1>1, <1>9 DEF Control
  <2> HIDE DEF b
  <2>2. /\ DOMAIN controls' = 1..n
        /\ \A i \in DOMAIN controls : controls'[i] = controls[i]
        /\ controls'[n] = b
        /\ Len(controls) \in Nat /\ DOMAIN controls = 1..Len(controls)
    BY <2>1, BaseParts, AppendItems, SeqIndexed
  <2>3. \A i \in DOMAIN controls' : i \in DOMAIN controls \/ i = n
    BY <2>2
  <2> HIDE DEF n
  <2>4. \A i \in DOMAIN controls' :
          \/ i \in DOMAIN controls /\ controls'[i] = controls[i]
          \/ i = n /\ controls'[i].item = x /\ controls'[i].at = "posted"
    BY <2>1, <2>2, <2>3
  <2>5. OnePlace'
    <3>1. ASSUME NEW i \in DOMAIN controls', NEW j \in DOMAIN controls',
                 controls'[i].item = controls'[j].item
          PROVE  i = j
      BY <1>3, <2>4, <3>1 DEF FlightInv, OnePlace
    <3>2. \A i \in DOMAIN controls' : controls'[i].item \notin ToSet(queue)'
      BY <1>5, <2>4
    <3> QED BY <1>5, <3>1, <3>2 DEF OnePlace, Queued
  <2>6. OnePerPipeline'
    <3>1. x.kind = "copy" => \A i \in DOMAIN controls : controls[i].item.of[1] # x.of[1]
      BY <1>1 DEF Admits, ToSet
    <3> SUFFICES ASSUME NEW i \in DOMAIN controls', NEW j \in DOMAIN controls',
                        controls'[i].item.kind = "copy", controls'[j].item.kind = "copy",
                        controls'[i].item.of[1] = controls'[j].item.of[1]
                 PROVE  i = j
      BY DEF OnePerPipeline
    <3> QED BY <2>4, <3>1 DEF FlightInv, OnePerPipeline
  <2>7. UnderWay'
    <3>1. \A m \in Moves : m \in settled' => m \in settled
      BY <1>6, MovesAssumption
    <3>2. \A m \in Moves : Queued(Move(m))' => m \notin settled'
      BY <1>5, <3>1 DEF FlightInv, UnderWay
    <3>3. ASSUME NEW i \in DOMAIN controls', controls'[i].item.kind = "move", controls'[i].at = "posted"
          PROVE  controls'[i].item.of \notin settled'
      <4>1. CASE i \in DOMAIN controls /\ controls'[i] = controls[i]
        BY <1>7, <3>3, <4>1 DEF FlightInv, UnderWay
      <4>2. CASE controls'[i].item = x
        <5>1. x.of \in Moves /\ x = Move(x.of)
          BY <1>1, <3>3, <4>2, ItemParts
        <5>2. x.of \notin settled
          BY <1>1, <5>1 DEF FlightInv, UnderWay, Queued
        <5> QED BY <3>1, <4>2, <5>1, <5>2
      <4> QED BY <2>4, <4>1, <4>2
    <3>4. ASSUME NEW i \in DOMAIN controls', controls'[i].at = "running"
          PROVE  Spared(controls[i].item.of)' /\ i \in DOMAIN controls
      <4>1. i \in DOMAIN controls /\ controls'[i] = controls[i]
        BY <2>4, <3>4
      <4>2. Spared(controls[i].item.of)
        BY <3>4, <4>1 DEF FlightInv, UnderWay
      <4> QED BY <1>1, <1>7, <4>1, <4>2 DEF Spared
    <3> QED BY <3>2, <3>3, <3>4 DEF UnderWay
  <2> QED BY <2>5, <2>6, <2>7 DEF FlightInv
<1> QED BY <1>8, <1>9

(* Items keep their places when controls move on.                          *)
LEMMA FlightPlaces ==
  ASSUME Base, FlightInv, queue' = queue, NEW i \in DOMAIN controls, NEW at, ControlMoves(i, at)
  PROVE  OnePlace' /\ OnePerPipeline'
<1>1. DOMAIN controls' = DOMAIN controls /\ \A j \in DOMAIN controls : controls'[j].item = controls[j].item
  BY DEF ControlMoves
<1>2. OnePlace'
  BY <1>1 DEF FlightInv, OnePlace, Distinct, Queued
<1>3. OnePerPipeline'
  BY <1>1 DEF FlightInv, OnePerPipeline
<1> QED BY <1>2, <1>3

LEMMA FlightTakes ==
  ASSUME Base, FlightInv, LaneTakesControl
  PROVE  FlightInv'
<1>1. PICK i \in DOMAIN controls :
        /\ controls[i].at = "posted"
        /\ \/ ControlMoves(i, "refused") /\ settled' = settled \cup {controls[i].item.of}
           \/ ControlMoves(i, "running") /\ ~Dropped(controls[i].item) /\ settled' = settled
        /\ UNCHANGED <<queue, terminated, drained>>
  BY LaneTakesControlDoes DEF work
<1>2. /\ DOMAIN controls' = DOMAIN controls
      /\ \A j \in DOMAIN controls : controls'[j].item = controls[j].item
      /\ controls'[i].at # "posted"
      /\ \A j \in DOMAIN controls : j # i => controls'[j] = controls[j]
  BY <1>1 DEF ControlMoves
<1>3. OnePlace' /\ OnePerPipeline'
  BY <1>1, FlightPlaces
<1>4. \A j \in DOMAIN controls : controls[j].item.of = controls[i].item.of => j = i
  <2>1. \A j \in DOMAIN controls : controls[j].item \in Items /\ controls[j].item.kind # "launch"
    BY ControlOf
  <2> QED BY <2>1, SameOf DEF FlightInv, OnePlace
<1>5. \A j \in DOMAIN controls : j # i => (controls[j].item.of \in settled' => controls[j].item.of \in settled)
  BY <1>1, <1>4
<1>6. \A m \in Moves : Queued(Move(m))' => m \notin settled'
  <2> SUFFICES ASSUME NEW m \in Moves, Queued(Move(m)) PROVE m \notin settled'
    BY <1>1 DEF Queued
  <2>1. m # controls[i].item.of
    BY ControlOf DEF FlightInv, OnePlace
  <2> QED BY <1>1, <2>1 DEF FlightInv, UnderWay
<1>7. ASSUME NEW j \in DOMAIN controls', controls'[j].item.kind = "move", controls'[j].at = "posted"
      PROVE  controls'[j].item.of \notin settled'
  <2>1. j # i /\ controls'[j] = controls[j] /\ j \in DOMAIN controls
    BY <1>2, <1>7
  <2> QED BY <1>5, <1>7, <2>1 DEF FlightInv, UnderWay
<1>8. ASSUME NEW j \in DOMAIN controls', controls'[j].at = "running" PROVE Spared(controls[j].item.of)'
  <2>0. j \in DOMAIN controls /\ controls'[j].item = controls[j].item
    BY <1>2
  <2>1. CASE j # i
    <3>1. Spared(controls[j].item.of)
      BY <1>2, <1>8, <2>0, <2>1 DEF FlightInv, UnderWay
    <3> QED BY <1>1, <1>5, <2>0, <2>1, <3>1 DEF Spared
  <2>2. CASE j = i
    <3>1. ~Dropped(controls[i].item) /\ settled' = settled
      BY <1>1, <1>8, <2>2 DEF ControlMoves
    <3>2. controls[i].item.of \notin settled
      BY <1>1, <3>1, ControlOf DEF Dropped, FlightInv, UnderWay
    <3> QED BY <2>0, <2>2, <3>1, <3>2 DEF Spared
  <2> QED BY <2>1, <2>2
<1>9. UnderWay'
  BY <1>6, <1>7, <1>8 DEF UnderWay
<1> QED BY <1>3, <1>9 DEF FlightInv

LEMMA FlightEnds ==
  ASSUME Base, FlightInv, EngineEndsControl
  PROVE  FlightInv'
<1>1. PICK i \in DOMAIN controls, at \in {"done", "failed"} :
        /\ controls[i].at = "running" /\ ControlMoves(i, at)
        /\ UNCHANGED <<queue, settled, terminated, drained>>
  BY EngineEndsControlDoes DEF work, fate
<1>2. /\ DOMAIN controls' = DOMAIN controls
      /\ \A j \in DOMAIN controls : controls'[j].item = controls[j].item
      /\ \A j \in DOMAIN controls : controls'[j].at \in {"posted", "running"} => controls'[j] = controls[j]
  BY <1>1 DEF ControlMoves
<1>3. OnePlace' /\ OnePerPipeline'
  BY <1>1, FlightPlaces
<1>4. ASSUME NEW j \in DOMAIN controls', controls'[j].at = "running" PROVE Spared(controls[j].item.of)'
  <2>1. j \in DOMAIN controls /\ controls'[j] = controls[j] /\ Spared(controls[j].item.of)
    BY <1>2, <1>4 DEF FlightInv, UnderWay
  <2> QED BY <1>1, <2>1 DEF Spared
<1>5. UnderWay'
  BY <1>1, <1>2, <1>4 DEF FlightInv, UnderWay, Queued
<1> QED BY <1>3, <1>5 DEF FlightInv

LEMMA FlightRetireControl ==
  ASSUME Base, FlightInv, RetireControl
  PROVE  FlightInv'
<1>1. PICK i \in DOMAIN controls :
        /\ controls[i].at \in {"done", "failed", "refused"}
        /\ settled' = settled \cup (IF controls[i].item.kind = "move" \/ controls[i].at = "failed"
                                    THEN {controls[i].item.of} ELSE {})
        /\ \A k \in DOMAIN controls' :
             /\ k \in Nat /\ k \in DOMAIN controls /\ k + 1 \in DOMAIN controls
             /\ controls'[k] = controls[IF k < i THEN k ELSE k + 1]
        /\ i \in Nat
        /\ UNCHANGED <<queue, terminated, drained>>
  BY RetireControlDoes DEF work
<1> DEFINE old(k) == IF k < i THEN k ELSE k + 1
<1>2. /\ \A k \in DOMAIN controls' :
           old(k) \in DOMAIN controls /\ old(k) # i /\ controls'[k] = controls[old(k)]
      /\ \A k, l \in DOMAIN controls' : old(k) = old(l) => k = l
  BY <1>1
<1> HIDE DEF old
<1>3. OnePlace'
  <2>1. \A k, l \in DOMAIN controls' : controls'[k].item = controls'[l].item => k = l
    BY <1>2 DEF FlightInv, OnePlace
  <2>2. \A k \in DOMAIN controls' : controls'[k].item \notin ToSet(queue)
    BY <1>2 DEF FlightInv, OnePlace, Queued
  <2> QED BY <1>1, <2>1, <2>2 DEF FlightInv, OnePlace, Distinct, Queued
<1>4. OnePerPipeline'
  BY <1>2 DEF FlightInv, OnePerPipeline
<1>5. \A j \in DOMAIN controls : j # i => (controls[j].item.of \in settled' => controls[j].item.of \in settled)
  <2>1. \A j \in DOMAIN controls : controls[j].item \in Items /\ controls[j].item.kind # "launch"
    BY ControlOf
  <2>2. \A j \in DOMAIN controls : controls[j].item.of = controls[i].item.of => j = i
    BY <2>1, SameOf DEF FlightInv, OnePlace
  <2> QED BY <1>1, <2>2
<1>6. \A m \in Moves : Queued(Move(m))' => m \notin settled'
  <2> SUFFICES ASSUME NEW m \in Moves, Queued(Move(m)) PROVE m \notin settled'
    BY <1>1 DEF Queued
  <2>1. m # controls[i].item.of
    BY ControlOf DEF FlightInv, OnePlace
  <2> QED BY <1>1, <2>1 DEF FlightInv, UnderWay
<1>7. ASSUME NEW k \in DOMAIN controls', controls'[k].item.kind = "move", controls'[k].at = "posted"
      PROVE  controls'[k].item.of \notin settled'
  <2>1. old(k) \in DOMAIN controls /\ old(k) # i /\ controls'[k] = controls[old(k)]
    BY <1>2, <1>7
  <2>2. controls[old(k)].item.of \notin settled
    BY <1>7, <2>1 DEF FlightInv, UnderWay
  <2> QED BY <1>5, <2>1, <2>2
<1>8. ASSUME NEW k \in DOMAIN controls', controls'[k].at = "running" PROVE Spared(controls[k].item.of)'
  <2>1. PICK j \in DOMAIN controls : j # i /\ controls'[k] = controls[j]
    BY <1>2, <1>8
  <2>2. Spared(controls[j].item.of)
    BY <1>8, <2>1 DEF FlightInv, UnderWay
  <2> QED BY <1>1, <1>5, <2>1, <2>2 DEF Spared
<1>9. UnderWay'
  BY <1>6, <1>7, <1>8 DEF UnderWay
<1> QED BY <1>3, <1>4, <1>9 DEF FlightInv

(* Every step keeps copies and moves in one place, and spares the engine's. *)
LEMMA FlightStep ==
  ASSUME Base, CopyInv, FlightInv, [Next]_vars
  PROVE  FlightInv'
<1>1. ASSUME NEW p \in Pipelines, NEW copies \in BOOLEAN, Submit(p, copies) PROVE FlightInv'
  BY <1>1, SubmitDoes, FlightSubmit
<1>2. ASSUME NEW m \in Moves, SubmitMove(m) PROVE FlightInv'
  BY <1>2, FlightSubmitMove
<1>3. ASSUME NEW q \in Processes, Terminate(q) PROVE FlightInv'
  BY <1>3, FlightTerminate
<1>4. CASE PostFrame
  BY <1>4, PostFrameDoes, FlightPosted
<1>12. CASE Drain
  BY <1>12, DrainDoes, FlightPosted
<1>5. CASE RotateLaunches
  BY <1>5, RotateDoes, FlightSame DEF flight, fate
<1>6. PostFront \/ (\E m \in Moves : PostMove(m)) => FlightInv'
  BY PostFrontDoes, PostMoveDoes, FlightPosts
<1>7. CASE RetireLaunch
  BY <1>7, FlightRetireLaunch
<1>8. CASE RetireControl
  BY <1>8, FlightRetireControl
<1>9. CASE LaneTakesControl
  BY <1>9, FlightTakes
<1>10. CASE EngineEndsControl
  BY <1>10, FlightEnds
<1>11. CASE \/ \E S \in SUBSET Pipelines : Seal(S)
            \/ LaneTakesLaunch \/ EndControlTurn \/ EngineEndsLaunch \/ Stop \/ UNCHANGED vars
  <2>1. UNCHANGED <<queue, controls, settled, terminated, drained>>
    BY <1>11 DEF Seal, LaneTakesLaunch, EndControlTurn, EngineEndsLaunch, Stop, vars, work, flight,
                 fate, engine
  <2> QED BY <2>1, FlightSame DEF Distinct
<1> QED
  BY <1>1, <1>2, <1>3, <1>4, <1>5, <1>6, <1>7, <1>8, <1>9, <1>10, <1>11, <1>12
     DEF Next, Worker, Lane

LEMMA FlightInit == Init => FlightInv
<1> SUFFICES ASSUME Init PROVE FlightInv
  OBVIOUS
<1>1. queue = <<>> /\ controls = <<>>
  BY DEF Init
<1>2. \A x : ~Queued(x)
  BY <1>1 DEF Queued, ToSet
<1> QED BY <1>1, <1>2 DEF FlightInv, OnePlace, Distinct, OnePerPipeline, UnderWay

(* Each copy and each move is in one place and each pipeline has one copy  *)
(* in flight at most; with DispatchInv this is inductive.                  *)
THEOREM FlightInductive ==
  /\ Init => DispatchInv /\ FlightInv
  /\ DispatchInv /\ FlightInv /\ [Next]_vars => DispatchInv' /\ FlightInv'
<1>1. DispatchInv => Base /\ CopyInv
  BY DEF DispatchInv
<1> QED BY <1>1, DispatchInductive, FlightInit, FlightStep

(* What is settled while the engine has it: no move, of the launches only  *)
(* those the shutdown posted, and of the copies those of such launches and *)
(* those of a terminated process with several pipelines.                   *)
SparedInFlight ==
  /\ \A i \in DOMAIN launches : launches[i].fires \cap settled \subseteq drained
  /\ \A i \in DOMAIN controls : controls[i].at = "running" => Spared(controls[i].item.of)

(* What is in flight is ready or spared. *)
LEMMA FlightSpares == DispatchInv /\ FlightInv => SparedInFlight
BY DEF DispatchInv, FlightInv, CopyInv, FliesReady, Ready, UnderWay, SparedInFlight

(* Whatever processes own, the completion of a fire or of a move is not    *)
(* resolved while the engine has it, but for the launches and copies the   *)
(* shutdown lets past each other (drain_eligible) and the copies a         *)
(* termination passes over (PipelineLeave spares the fire of the first).   *)
THEOREM SettledInFlight == Spec => []SparedInFlight
<1> QED BY FlightSpares, FlightInductive, PTL DEF Spec
=============================================================================
