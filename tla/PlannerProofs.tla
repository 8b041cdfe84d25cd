--------------------------- MODULE PlannerProofs ---------------------------
(***************************************************************************)
(* What the residency planner keeps for any number of processes, lanes and *)
(* pages and any schedule: every page has one place, a process away from   *)
(* the device has exactly one way back, and the hoard does not outlive the *)
(* queue.                                                                  *)
(*                                                                         *)
(* The queue is looked at as the set of its entries: each has a name of    *)
(* its own, an ask that of its lane, a restore that of its process, so     *)
(* positions, and the order a schedule gives, do not matter to any of the  *)
(* three.                                                                  *)
(***************************************************************************)
EXTENDS Planner, CollectionTheorems, TLAPS

Procs == [key : Int, held : BOOLEAN, state : {"resident", "evicting", "evicted", "restoring"},
          retried : BOOLEAN, progressed : BOOLEAN, admitted : BOOLEAN, respawn : BOOLEAN,
          idle : BOOLEAN, parked : Nat \cup {None}]
Entries == [pid : Processes, by : Lanes \cup {None}, need : Nat,
            outcome : {"none", "ok", "failed"}, yielded : BOOLEAN]
Execs == [st : {"none", "begun", "fenced", "moving", "restoring"}, n : Nat]
FireStates == {"idle", "quoted", "short", "granted", "parked", "away", "fired"}
FireRecs == [st : FireStates, n : Nat, asks : Nat]

(* The types of what the proofs count, and of the records they read.       *)
Shapes ==
  /\ live \in SUBSET Processes /\ proc \in [live -> Procs]
  /\ queue \in Seq(Entries)
  /\ accum \in Nat /\ free \in Nat /\ cache \in Nat /\ credit \in Nat
  /\ pages \in [Processes -> Nat] /\ swapped \in [Processes -> Nat]
  /\ leaving \in [Processes -> [device : Nat, below : Nat]] /\ late \in [BOOLEAN -> Nat]
  /\ exec \in [Processes -> Execs] /\ fire \in [Lanes -> FireRecs]
  /\ killing \in SUBSET live /\ through \in SUBSET live /\ aborted \in SUBSET live
  /\ DOMAIN plan = DOMAIN Resting /\ plan.count \in Nat
  /\ poked \in BOOLEAN

(* No two entries have a name in common.                                   *)
OneEach(q) == \A i, j \in DOMAIN q : Name(q[i]) = Name(q[j]) => i = j

(* An ask in the queue is that of a fire that waits for it; a restore is   *)
(* that of an evicted process whose demand is not parked.                  *)
EntryOK(e) ==
  /\ e.pid \in live
  /\ e.by # None => /\ Owner[e.by] = e.pid
                    /\ fire[e.by].st = "parked" /\ fire[e.by].n = e.need
  /\ e.by = None => /\ proc[e.pid].state = "evicted" /\ proc[e.pid].parked = None
                    /\ e.outcome = "none"

QueueInv ==
  /\ OneEach(queue)
  /\ \A e \in ToSet(queue) : EntryOK(e)
  /\ \A c \in Lanes : fire[c].st = "parked" => \E e \in ToSet(queue) : e.by = c
  /\ \A c \in Lanes : fire[c].st # "idle" => Owner[c] \in live

(* What the planner task carries is still in the queue, and is a restore   *)
(* when it serves one and an ask when it gives a verdict.                  *)
CarriedInv ==
  /\ plan.head # <<>> => \E e \in ToSet(queue) : Name(e) = plan.head
  /\ plan.pc = "restore" /\ plan.head # <<>> => plan.head[2] = None
  /\ plan.pc = "verdict" /\ plan.head # <<>> => plan.head[2] # None

RestoreQueued(p) == \E e \in ToSet(queue) : e.pid = p /\ e.by = None

(* Out by an executor, back by an executor, a restore or a parked demand.  *)
AwayOK(p) ==
  /\ proc[p].state = "evicting" <=> exec[p].st \in {"begun", "fenced", "moving"}
  /\ proc[p].state = "restoring" <=> exec[p].st = "restoring"
  /\ proc[p].parked # None => proc[p].state = "evicted" /\ (proc[p].idle \/ proc[p].held)
  /\ proc[p].state = "evicted" => RestoreQueued(p) \/ proc[p].parked # None \/ p \in aborted

AwayInv ==
  /\ DOMAIN evicting = {p \in live : proc[p].state = "evicting"}
  /\ \A p \in live : AwayOK(p)

(* An executor moves no more than there is.                                *)
MovesInv ==
  \A p \in Processes :
    /\ exec[p].st = "moving" => exec[p].n <= pages[p]
    /\ exec[p].st = "restoring" => exec[p].n <= swapped[p]

(* Where the pages are: with processes, and with fires, in hand or as the  *)
(* outcome of an ask.                                                      *)
PagesOf == [p \in Processes |-> pages[p] + leaving[p].device
                                + (IF exec[p].st = "restoring" THEN exec[p].n ELSE 0)]
BelowOf == [p \in Processes |-> swapped[p] + leaving[p].below
                                + (IF exec[p].st = "moving" THEN exec[p].n ELSE 0)]
Promised(c) == \E e \in ToSet(queue) : e.by = c /\ e.outcome = "ok"
InHand == [c \in Lanes |-> IF fire[c].st = "granted" \/ Promised(c) THEN fire[c].n ELSE 0]

(* The rest is free, cached, in the hoard, or to come back from a restore. *)
Lent == late[TRUE] + late[FALSE]
Pool == free + cache + accum + Lent

LedgerInv ==
  /\ Total = Pool + SumFunctionOnSet(PagesOf, Processes) + SumFunctionOnSet(InHand, Lanes)
  /\ SumFunctionOnSet(BelowOf, Processes) <= SwapTotal

(* Once the planner is past the head of the queue, an empty queue means    *)
(* that it has given the hoard back or is poked to look again.             *)
HoardInv ==
  plan.pc \notin {"pause", "pauseCommit", "loop"} /\ ~poked /\ queue = <<>> => accum = 0

Inv == Shapes /\ QueueInv /\ CarriedInv /\ AwayInv /\ MovesInv /\ LedgerInv /\ HoardInv

-----------------------------------------------------------------------------
(* The queue as the set of its entries. *)

LEMMA Constants ==
  /\ Processes \subseteq Nat /\ IsFiniteSet(Processes) /\ IsFiniteSet(Lanes)
  /\ None \notin Lanes /\ None = -1 /\ Owner \in [Lanes -> Processes]
  /\ Total \in Nat /\ SwapTotal \in Nat
BY PlannerAssumption DEF None

LEMMA ProcessNumbers == ASSUME NEW p \in Processes PROVE p \in Int
BY Constants

LEMMA EntryForms ==
  ASSUME NEW e \in Entries
  PROVE  /\ e.pid \in Processes /\ e.by \in Lanes \cup {None} /\ e.need \in Nat
         /\ e.outcome \in {"none", "ok", "failed"} /\ e.yielded \in BOOLEAN
         /\ Name(e) = <<e.pid, e.by>> /\ Name(e)[1] = e.pid /\ Name(e)[2] = e.by
         /\ Name(e) # <<>> /\ IsRestore(e) = (e.by = None)
BY DEF Entries, Name, IsRestore

LEMMA SameName ==
  ASSUME NEW d \in Entries, NEW e \in Entries
  PROVE  Name(d) = Name(e) <=> d.pid = e.pid /\ d.by = e.by
BY EntryForms DEF Name

(* An entry put in the queue where its rank has it.                        *)
LEMMA EnqueueDoes ==
  ASSUME NEW q \in Seq(Entries), OneEach(q), NEW pr, NEW e \in Entries,
         \A d \in ToSet(q) : Name(d) # Name(e)
  PROVE  /\ Enqueue(pr, q, e) \in Seq(Entries) /\ Enqueue(pr, q, e) # <<>>
         /\ ToSet(Enqueue(pr, q, e)) = ToSet(q) \cup {e}
         /\ OneEach(Enqueue(pr, q, e))
<1> DEFINE before == {i \in DOMAIN q : ~Outranks(pr, e.pid, q[i].pid)}
           k == 1 + Cardinality(before)
           t == Enqueue(pr, q, e)
<1>1. Len(q) \in Nat /\ DOMAIN q = 1..Len(q) /\ \A i \in DOMAIN q : q[i] \in Entries
  BY SeqIndexed
<1>2. k \in 1..(Len(q) + 1) /\ k \in Nat
  <2>1. IsFiniteSet(1..Len(q)) /\ Cardinality(1..Len(q)) = Len(q)
    BY <1>1, CountTo
  <2>2. before \in SUBSET (1..Len(q))
    BY <1>1
  <2> HIDE DEF before
  <2>3. IsFiniteSet(before) /\ Cardinality(before) <= Len(q)
    BY <2>1, <2>2, FS_Subset
  <2>4. Cardinality(before) \in Nat
    BY <2>3, FS_CardinalityType
  <2> QED BY <1>1, <2>3, <2>4
<1>3. t = InsertAt(q, k, e)
  BY DEF Enqueue
<1> HIDE DEF k, before, t
<1>4. /\ t \in Seq(Entries) /\ DOMAIN t = 1..(Len(q) + 1) /\ t[k] = e
      /\ \A i \in DOMAIN q : i < k => t[i] = q[i]
      /\ \A i \in DOMAIN q : ~(i < k) => t[i + 1] = q[i]
  BY <1>2, <1>3, InsertItems
<1> DEFINE from(j) == IF j < k THEN j ELSE j - 1
<1>5. ASSUME NEW j \in DOMAIN t, j # k PROVE from(j) \in DOMAIN q /\ t[j] = q[from(j)]
  <2>1. CASE j < k
    <3>1. j \in DOMAIN q
      BY <1>1, <1>2, <1>4, <2>1
    <3> QED BY <1>4, <2>1, <3>1
  <2>2. CASE ~(j < k)
    <3>1. j - 1 \in DOMAIN q /\ ~(j - 1 < k) /\ (j - 1) + 1 = j
      BY <1>1, <1>2, <1>4, <1>5, <2>2
    <3> QED BY <1>4, <2>2, <3>1
  <2> QED BY <2>1, <2>2
<1>6. ToSet(t) = ToSet(q) \cup {e}
  <2>1. ASSUME NEW x \in ToSet(t) PROVE x \in ToSet(q) \cup {e}
    <3>1. PICK j \in DOMAIN t : x = t[j]
      BY DEF ToSet
    <3> QED BY <1>4, <1>5, <3>1 DEF ToSet
  <2>2. ASSUME NEW x \in ToSet(q) PROVE x \in ToSet(t)
    <3>1. PICK i \in DOMAIN q : x = q[i]
      BY DEF ToSet
    <3>2. i \in DOMAIN t /\ i + 1 \in DOMAIN t
      BY <1>1, <1>4
    <3>3. x = t[i] \/ x = t[i + 1]
      BY <1>4, <3>1
    <3> QED BY <3>2, <3>3 DEF ToSet
  <2>3. e \in ToSet(t)
    BY <1>2, <1>4 DEF ToSet
  <2> QED BY <2>1, <2>2, <2>3
<1>7. OneEach(t)
  <2>1. SUFFICES ASSUME NEW i \in DOMAIN t, NEW j \in DOMAIN t, Name(t[i]) = Name(t[j])
                 PROVE  i = j
    BY DEF OneEach
  <2>2. ASSUME NEW m \in DOMAIN t, m # k PROVE Name(t[m]) # Name(e)
    BY <1>5, <2>2 DEF ToSet
  <2>3. CASE i = k \/ j = k
    BY <1>4, <2>1, <2>2, <2>3
  <2>4. CASE i # k /\ j # k
    <3>1. from(i) = from(j)
      BY <1>5, <2>1, <2>4 DEF OneEach
    <3>2. i \in Nat /\ j \in Nat
      BY <1>4
    <3> QED BY <1>2, <2>4, <3>1, <3>2
  <2> QED BY <2>3, <2>4
<1>8. t # <<>>
  BY <1>1, <1>4
<1> QED BY <1>4, <1>6, <1>7, <1>8 DEF t

(* An entry taken out of it.                                               *)
LEMMA RemoveDoes ==
  ASSUME NEW q \in Seq(Entries), OneEach(q), NEW i \in DOMAIN q
  PROVE  /\ RemoveAt(q, i) \in Seq(Entries)
         /\ ToSet(RemoveAt(q, i)) = ToSet(q) \ {q[i]}
         /\ OneEach(RemoveAt(q, i))
<1> DEFINE t == RemoveAt(q, i)
<1>1. /\ Len(q) \in Nat /\ DOMAIN q = 1..Len(q)
  BY SeqIndexed
<1>2. /\ t \in Seq(Entries) /\ DOMAIN t = 1..(Len(q) - 1)
      /\ \A k \in 1..(Len(q) - 1) :
           /\ k \in Nat /\ k + 1 \in DOMAIN q /\ k \in DOMAIN q
           /\ t[k] = q[IF k < i THEN k ELSE k + 1]
      /\ \A j \in DOMAIN q : j # i => \E k \in 1..(Len(q) - 1) : t[k] = q[j]
  BY RemoveItems
<1> HIDE DEF t
<1> DEFINE from(k) == IF k < i THEN k ELSE k + 1
<1>3. ASSUME NEW k \in DOMAIN t
      PROVE  from(k) \in DOMAIN q /\ from(k) # i /\ t[k] = q[from(k)]
  BY <1>1, <1>2
<1>4. ToSet(t) = ToSet(q) \ {q[i]}
  <2>1. ASSUME NEW x \in ToSet(t) PROVE x \in ToSet(q) \ {q[i]}
    <3>1. PICK k \in DOMAIN t : x = t[k]
      BY DEF ToSet
    <3>2. q[from(k)] # q[i]
      BY <1>3 DEF OneEach
    <3> QED BY <1>3, <3>1, <3>2 DEF ToSet
  <2>2. ASSUME NEW x \in ToSet(q), x # q[i] PROVE x \in ToSet(t)
    <3>1. PICK j \in DOMAIN q : x = q[j] /\ j # i
      BY <2>2 DEF ToSet
    <3>2. PICK k \in DOMAIN t : t[k] = q[j]
      BY <1>2, <3>1
    <3> QED BY <3>1, <3>2 DEF ToSet
  <2> QED BY <2>1, <2>2
<1>5. OneEach(t)
  <2>1. SUFFICES ASSUME NEW k \in DOMAIN t, NEW l \in DOMAIN t, Name(t[k]) = Name(t[l])
                 PROVE  k = l
    BY DEF OneEach
  <2>2. from(k) = from(l)
    BY <1>3, <2>1 DEF OneEach
  <2>3. k \in Nat /\ l \in Nat /\ i \in Nat
    BY <1>1, <1>2
  <2> QED BY <2>2, <2>3
<1> QED BY <1>2, <1>4, <1>5 DEF t

(* The entries at the positions S, one after the other.                    *)
LEMMA ArrangedDoes ==
  ASSUME NEW q \in Seq(Entries), OneEach(q), NEW S \in SUBSET (DOMAIN q),
         NEW ahead \in [S -> SUBSET S],
         \A i \in S : i \notin ahead[i],
         \A i, j \in S : i # j => i \in ahead[j] \/ j \in ahead[i],
         \A i, j \in S : i \in ahead[j] => ahead[i] \subseteq ahead[j]
  PROVE  /\ Arranged(q, S, ahead) \in Seq(Entries)
         /\ ToSet(Arranged(q, S, ahead)) = {q[i] : i \in S}
         /\ OneEach(Arranged(q, S, ahead))
<1> DEFINE n == Cardinality(S)
           rank == [i \in S |-> Cardinality(ahead[i]) + 1]
           at(k) == CHOOSE i \in S : Cardinality(ahead[i]) = k - 1
           t == Arranged(q, S, ahead)
<1>1. Len(q) \in Nat /\ DOMAIN q = 1..Len(q) /\ \A i \in S : q[i] \in Entries
  BY SeqIndexed
<1>2. IsFiniteSet(S) /\ n \in Nat
  <2>1. IsFiniteSet(1..Len(q))
    BY <1>1, FS_Interval
  <2>2. IsFiniteSet(S)
    BY <1>1, <2>1, FS_Subset
  <2> QED BY <2>2, FS_CardinalityType
<1>3. ASSUME NEW i \in S
      PROVE  IsFiniteSet(ahead[i]) /\ Cardinality(ahead[i]) \in Nat /\ rank[i] \in 1..n
  <2>1. ahead[i] \in SUBSET S /\ ahead[i] # S
    OBVIOUS
  <2>2. /\ IsFiniteSet(ahead[i]) /\ Cardinality(ahead[i]) <= n
        /\ (n = Cardinality(ahead[i]) => S = ahead[i])
    BY <1>2, <2>1, FS_Subset
  <2>3. Cardinality(ahead[i]) \in Nat
    BY <2>2, FS_CardinalityType
  <2>4. Cardinality(ahead[i]) # n
    BY <2>1, <2>2
  <2> HIDE DEF n
  <2> QED BY <1>2, <2>2, <2>3, <2>4
<1>4. ASSUME NEW i \in S, NEW j \in S, i \in ahead[j] PROVE rank[i] # rank[j]
  <2>1. ahead[i] \in SUBSET ahead[j] /\ ahead[i] # ahead[j]
    BY <1>4
  <2>2. Cardinality(ahead[j]) = Cardinality(ahead[i]) => ahead[j] = ahead[i]
    BY <1>3, <2>1, FS_Subset
  <2>3. Cardinality(ahead[j]) # Cardinality(ahead[i])
    BY <2>1, <2>2
  <2> QED BY <1>3, <2>3
<1>5. ASSUME NEW i \in S, NEW j \in S, rank[i] = rank[j] PROVE i = j
  BY <1>4, <1>5
<1>6. ASSUME NEW k \in 1..n PROVE \E i \in S : rank[i] = k
  <2>1. rank \in Injection(S, 1..n)
    BY <1>3, <1>5 DEF Injection, IsInjective
  <2>2. IsFiniteSet(1..n) /\ Cardinality(1..n) = n
    BY <1>2, CountTo
  <2>3. rank \in Surjection(S, 1..n)
    BY <1>2, <2>1, <2>2, FS_Injection
  <2> QED BY <2>3 DEF Surjection
<1>7. ASSUME NEW k \in 1..n PROVE at(k) \in S /\ rank[at(k)] = k
  <2>1. PICK i \in S : rank[i] = k
    BY <1>6
  <2>2. Cardinality(ahead[i]) = k - 1
    BY <1>3, <2>1
  <2>3. at(k) \in S /\ Cardinality(ahead[at(k)]) = k - 1
    BY <2>2
  <2> HIDE DEF at
  <2> QED BY <1>2, <2>3
<1>8. t = [k \in 1..n |-> q[at(k)]]
  BY DEF Arranged
<1> HIDE DEF n, rank, at, t
<1>9. DOMAIN t = 1..n /\ \A k \in 1..n : t[k] = q[at(k)]
  BY <1>8
<1>10. t \in Seq(Entries)
  <2>1. \A k \in 1..n : q[at(k)] \in Entries
    BY <1>1, <1>7
  <2> QED BY <1>2, <1>8, <2>1, IsASeq
<1>11. ToSet(t) = {q[i] : i \in S}
  <2>1. ASSUME NEW x \in ToSet(t) PROVE x \in {q[i] : i \in S}
    <3>1. PICK k \in 1..n : x = q[at(k)]
      BY <1>9 DEF ToSet
    <3> QED BY <1>7, <3>1
  <2>2. ASSUME NEW i \in S PROVE q[i] \in ToSet(t)
    <3>1. rank[i] \in 1..n
      BY <1>3
    <3>2. at(rank[i]) = i
      BY <1>5, <1>7, <3>1
    <3> QED BY <1>9, <3>1, <3>2 DEF ToSet
  <2> QED BY <2>1, <2>2
<1>12. OneEach(t)
  <2>1. SUFFICES ASSUME NEW k \in 1..n, NEW l \in 1..n, Name(q[at(k)]) = Name(q[at(l)])
                 PROVE  k = l
    BY <1>9 DEF OneEach
  <2>2. at(k) = at(l)
    BY <1>7, <2>1 DEF OneEach
  <2> QED BY <1>7, <2>2
<1> QED BY <1>10, <1>11, <1>12 DEF t

LEMMA KeptDoes ==
  ASSUME NEW q \in Seq(Entries), OneEach(q), NEW S \in SUBSET (DOMAIN q)
  PROVE  /\ Kept(q, S) \in Seq(Entries)
         /\ ToSet(Kept(q, S)) = {q[i] : i \in S}
         /\ OneEach(Kept(q, S))
<1> DEFINE ahead == [i \in S |-> {j \in S : j < i}]
<1>1. \A i \in S : i \in Nat
  BY SeqIndexed
<1>2. /\ ahead \in [S -> SUBSET S]
      /\ \A i \in S : i \notin ahead[i]
      /\ \A i, j \in S : i # j => i \in ahead[j] \/ j \in ahead[i]
      /\ \A i, j \in S : i \in ahead[j] => ahead[i] \subseteq ahead[j]
  BY <1>1
<1>3. Kept(q, S) = Arranged(q, S, ahead)
  BY DEF Kept
<1> HIDE DEF ahead
<1>4. /\ Arranged(q, S, ahead) \in Seq(Entries)
      /\ ToSet(Arranged(q, S, ahead)) = {q[i] : i \in S}
      /\ OneEach(Arranged(q, S, ahead))
  BY <1>2, ArrangedDoes
<1> QED BY <1>3, <1>4

(* A queue that is sorted again has the same entries.                      *)
LEMMA RankedDoes ==
  ASSUME NEW q \in Seq(Entries), OneEach(q), NEW pr,
         \A e \in ToSet(q) : pr[e.pid].key \in Int
  PROVE  /\ Ranked(pr, q) \in Seq(Entries)
         /\ ToSet(Ranked(pr, q)) = ToSet(q)
         /\ OneEach(Ranked(pr, q))
<1> DEFINE S == DOMAIN q
           Before(i, j) == \/ Outranks(pr, q[i].pid, q[j].pid)
                           \/ q[i].pid = q[j].pid /\ i < j
           ahead == [j \in S |-> {i \in S : Before(i, j)}]
<1>1. \A i \in S : i \in Nat /\ q[i].pid \in Int /\ pr[q[i].pid].key \in Int
  <2>1. \A i \in S : i \in Nat /\ q[i] \in Entries /\ q[i] \in ToSet(q)
    BY SeqIndexed DEF ToSet
  <2>2. \A i \in S : q[i].pid \in Int
    <3>1. \A i \in S : q[i].pid \in Processes
      BY <2>1, EntryForms
    <3> QED BY <3>1, ProcessNumbers
  <2> QED BY <2>1, <2>2
<1>2. \A i \in S : ~Before(i, i)
  BY <1>1 DEF Outranks
<1>3. \A i, j \in S : i # j => Before(i, j) \/ Before(j, i)
  BY <1>1 DEF Outranks
<1>4. \A h, i, j \in S : Before(h, i) /\ Before(i, j) => Before(h, j)
  BY <1>1 DEF Outranks
<1> HIDE DEF Before
<1>5. /\ ahead \in [S -> SUBSET S]
      /\ \A i \in S : i \notin ahead[i]
      /\ \A i, j \in S : i # j => i \in ahead[j] \/ j \in ahead[i]
      /\ \A i, j \in S : i \in ahead[j] => ahead[i] \subseteq ahead[j]
  BY <1>2, <1>3, <1>4
<1>6. Ranked(pr, q) = Arranged(q, S, ahead)
  BY DEF Ranked, Before
<1> HIDE DEF ahead
<1>7. {q[i] : i \in S} = ToSet(q)
  BY DEF ToSet
<1>8. S \in SUBSET (DOMAIN q)
  OBVIOUS
<1> HIDE DEF S
<1>9. /\ Arranged(q, S, ahead) \in Seq(Entries)
      /\ ToSet(Arranged(q, S, ahead)) = {q[i] : i \in S}
      /\ OneEach(Arranged(q, S, ahead))
  BY <1>5, <1>8, ArrangedDoes
<1> QED BY <1>6, <1>7, <1>9

(* Entries written in place, under their names.                            *)
LEMMA RewrittenDoes ==
  ASSUME NEW q \in Seq(Entries), OneEach(q), NEW f,
         f = [i \in DOMAIN q |-> f[i]],
         \A i \in DOMAIN q : f[i] \in Entries /\ Name(f[i]) = Name(q[i])
  PROVE  f \in Seq(Entries) /\ DOMAIN f = DOMAIN q /\ OneEach(f)
         /\ (f = <<>> <=> q = <<>>)
<1>1. Len(q) \in Nat /\ DOMAIN q = 1..Len(q)
  BY SeqIndexed
<1>2. DOMAIN f = DOMAIN q
  OBVIOUS
<1>3. f \in Seq(Entries)
  BY <1>1, IsASeq
<1>4. OneEach(f)
  BY <1>2 DEF OneEach
<1>5. f = <<>> <=> q = <<>>
  <2>1. Len(f) = Len(q)
    BY <1>1, <1>2, <1>3
  <2> QED BY <1>1, <1>3, <2>1, EmptySeq
<1> QED BY <1>2, <1>3, <1>4, <1>5

(* An entry is found by its name.                                          *)
LEMMA AtFinds ==
  ASSUME queue \in Seq(Entries), OneEach(queue), NEW e \in ToSet(queue)
  PROVE  At(Name(e)) \in DOMAIN queue /\ queue[At(Name(e))] = e
<1> DEFINE T == {i \in 1..Len(queue) : Is(queue[i], Name(e))}
<1>1. Len(queue) \in Nat /\ DOMAIN queue = 1..Len(queue)
  BY SeqIndexed
<1>2. PICK i \in DOMAIN queue : queue[i] = e
  BY DEF ToSet
<1>3. i \in T /\ T \in SUBSET Nat
  BY <1>1, <1>2 DEF Is
<1>4. At(Name(e)) = Min(T)
  BY <1>3 DEF At, SelectInSeq
<1>5. Min(T) \in T
  <2> HIDE DEF T
  <2> QED BY <1>3, FirstPosition
<1> QED BY <1>1, <1>2, <1>4, <1>5 DEF Is, OneEach

-----------------------------------------------------------------------------
(* Pages that asks were given, counted by entry and by lane. *)

LEMMA NeedIs ==
  ASSUME NEW S
  PROVE  NeedOf(S) = SumFunctionOnSet([i \in S |-> queue[i].need], S)
BY DEF NeedOf, MapThenSumSet, SumFunctionOnSet, FoldFunctionOnSet, MapThenFoldSet

LEMMA QueueIndexed ==
  ASSUME Shapes
  PROVE  /\ Len(queue) \in Nat /\ DOMAIN queue = 1..Len(queue) /\ IsFiniteSet(DOMAIN queue)
         /\ \A i \in DOMAIN queue : i \in Nat /\ queue[i] \in Entries /\ queue[i] \in ToSet(queue)
         /\ ToSet(queue) \subseteq Entries
<1>1. queue \in Seq(Entries)
  BY DEF Shapes
<1>2. /\ Len(queue) \in Nat /\ DOMAIN queue = 1..Len(queue) /\ ToSet(queue) \subseteq Entries
      /\ \A i \in DOMAIN queue : queue[i] \in Entries /\ queue[i] \in ToSet(queue)
  BY <1>1, SeqIndexed DEF ToSet
<1>3. IsFiniteSet(1..Len(queue))
  BY <1>2, FS_Interval
<1> QED BY <1>2, <1>3

LEMMA FireForms ==
  ASSUME Shapes, NEW c \in Lanes
  PROVE  /\ fire[c] \in FireRecs /\ fire[c].n \in Nat /\ fire[c].asks \in Nat
         /\ fire[c].st \in FireStates /\ Owner[c] \in Processes
<1>1. fire[c] \in FireRecs
  BY DEF Shapes
<1> QED BY <1>1, Constants DEF FireRecs

(* What some asks need is what the fires of their lanes need.              *)
LEMMA NeedByLane ==
  ASSUME Shapes, QueueInv, NEW S \in SUBSET (DOMAIN queue),
         \A i \in S : queue[i].by # None
  PROVE  LET C == {queue[i].by : i \in S}
         IN  /\ C \in SUBSET Lanes
             /\ NeedOf(S) = SumFunctionOnSet([c \in Lanes |-> IF c \in C THEN fire[c].n ELSE 0], Lanes)
             /\ NeedOf(S) \in Nat
<1> DEFINE C == {queue[i].by : i \in S}
           b == [i \in S |-> queue[i].by]
           f == [i \in S |-> queue[i].need]
           g == [c \in Lanes |-> IF c \in C THEN fire[c].n ELSE 0]
<1>1. \A i \in S : queue[i] \in Entries /\ queue[i] \in ToSet(queue)
  BY QueueIndexed
<1>2. \A i \in S : queue[i].by \in Lanes /\ queue[i].need \in Nat
  BY <1>1, EntryForms
<1>3. C \in SUBSET Lanes
  BY <1>2
<1>4. \A i \in S : Owner[queue[i].by] = queue[i].pid /\ fire[queue[i].by].n = queue[i].need
  BY <1>1 DEF QueueInv, EntryOK
<1>5. ASSUME NEW i \in S, NEW j \in S, queue[i].by = queue[j].by PROVE i = j
  <2>1. Name(queue[i]) = Name(queue[j])
    BY <1>1, <1>4, <1>5, SameName
  <2> QED BY <2>1 DEF QueueInv, OneEach
<1>6. b \in Bijection(S, C)
  BY <1>5 DEF Bijection, Injection, Surjection, IsInjective
<1>7. IsFiniteSet(S)
  BY QueueIndexed, FS_Subset
<1>8. \A i \in S : f[i] \in Int /\ g[b[i]] = f[i]
  BY <1>2, <1>4
<1>9. NeedOf(S) = SumFunctionOnSet(f, S)
  BY NeedIs
<1>10. \A c \in Lanes : g[c] \in Nat
  BY FireForms
<1>11. \A c \in Lanes \ C : g[c] = 0
  OBVIOUS
<1> HIDE DEF C, b, f, g
<1>12. SumFunctionOnSet(g, C) = SumFunctionOnSet(f, S)
  BY <1>6, <1>7, <1>8, SumRenamed
<1>13. SumFunctionOnSet(g, Lanes) = SumFunctionOnSet(g, C)
  <2>1. \A c \in Lanes : g[c] \in Int
    BY <1>10
  <2> QED BY <1>3, <1>11, <2>1, Constants, SumSupport
<1>14. SumFunctionOnSet(g, Lanes) \in Nat
  BY <1>10, Constants, SumNat
<1> QED BY <1>3, <1>9, <1>12, <1>13, <1>14 DEF C, g

LEMMA InHandForms ==
  ASSUME Shapes
  PROVE  \A c \in Lanes : InHand[c] \in Nat
BY FireForms DEF InHand

LEMMA ProcessForms ==
  ASSUME Shapes, NEW p \in Processes
  PROVE  /\ pages[p] \in Nat /\ swapped[p] \in Nat
         /\ leaving[p] \in [device : Nat, below : Nat]
         /\ leaving[p].device \in Nat /\ leaving[p].below \in Nat
         /\ exec[p] \in Execs /\ exec[p].n \in Nat
         /\ exec[p].st \in {"none", "begun", "fenced", "moving", "restoring"}
<1>1. /\ pages[p] \in Nat /\ swapped[p] \in Nat
      /\ leaving[p] \in [device : Nat, below : Nat] /\ exec[p] \in Execs
  BY DEF Shapes
<1> QED BY <1>1 DEF Execs

LEMMA HoldingForms ==
  ASSUME Shapes
  PROVE  \A p \in Processes :
           /\ PagesOf[p] = pages[p] + leaving[p].device
                           + (IF exec[p].st = "restoring" THEN exec[p].n ELSE 0)
           /\ BelowOf[p] = swapped[p] + leaving[p].below
                           + (IF exec[p].st = "moving" THEN exec[p].n ELSE 0)
           /\ PagesOf[p] \in Nat /\ BelowOf[p] \in Nat
BY ProcessForms DEF PagesOf, BelowOf

LEMMA LedgerForms ==
  ASSUME Shapes
  PROVE  /\ SumFunctionOnSet(PagesOf, Processes) \in Nat
         /\ SumFunctionOnSet(BelowOf, Processes) \in Nat
         /\ SumFunctionOnSet(InHand, Lanes) \in Nat
BY HoldingForms, InHandForms, Constants, SumNat

LEMMA ProcForms ==
  ASSUME Shapes, NEW p \in live
  PROVE  /\ p \in Processes /\ proc[p] \in Procs /\ proc[p].key \in Int /\ proc[p].held \in BOOLEAN
         /\ proc[p].state \in {"resident", "evicting", "evicted", "restoring"}
         /\ proc[p].retried \in BOOLEAN /\ proc[p].progressed \in BOOLEAN
         /\ proc[p].admitted \in BOOLEAN /\ proc[p].respawn \in BOOLEAN
         /\ proc[p].idle \in BOOLEAN /\ proc[p].parked \in Nat \cup {None}
<1>1. p \in Processes /\ proc[p] \in Procs
  BY DEF Shapes
<1> QED BY <1>1 DEF Procs

(* How the ledger follows a step: nothing moves, one fire's pages move, or *)
(* one process's.                                                          *)
LEMMA PoolForms ==
  ASSUME Shapes
  PROVE  /\ Pool \in Nat /\ free \in Nat /\ cache \in Nat /\ accum \in Nat
         /\ late[TRUE] \in Nat /\ late[FALSE] \in Nat /\ Lent \in Nat
<1>1. /\ free \in Nat /\ cache \in Nat /\ accum \in Nat
      /\ late[TRUE] \in Nat /\ late[FALSE] \in Nat
  BY DEF Shapes
<1>2. \A a, b \in Nat : a + b \in Nat
  OBVIOUS
<1>3. Lent \in Nat
  BY <1>1, <1>2, Zenon DEF Lent
<1>4. free \in Nat /\ cache \in Nat /\ accum \in Nat
  BY DEF Shapes
<1>5. Pool \in Nat
  BY <1>3, <1>4 DEF Pool
<1> QED BY <1>1, <1>3, <1>5, Zenon

(* The same in the next state.                                             *)
LEMMA NextForms ==
  ASSUME Shapes'
  PROVE  /\ \A q \in Processes : PagesOf'[q] \in Int /\ BelowOf'[q] \in Int
         /\ \A c \in Lanes : InHand'[c] \in Int
         /\ Pool' \in Int
<1>1. \A q \in Processes : /\ pages'[q] \in Nat /\ swapped'[q] \in Nat
                           /\ leaving'[q] \in [device : Nat, below : Nat] /\ exec'[q] \in Execs
  BY DEF Shapes
<1>2. \A q \in Processes : /\ leaving'[q].device \in Nat /\ leaving'[q].below \in Nat
                           /\ exec'[q].n \in Nat
  BY <1>1 DEF Execs
<1>3. \A q \in Processes : PagesOf'[q] \in Int /\ BelowOf'[q] \in Int
  BY <1>1, <1>2 DEF PagesOf, BelowOf
<1>4. \A c \in Lanes : fire'[c] \in FireRecs
  BY DEF Shapes
<1>5. \A c \in Lanes : fire'[c].n \in Nat
  BY <1>4 DEF FireRecs
<1>6. \A c \in Lanes : InHand'[c] \in Int
  BY <1>5 DEF InHand
<1>7. /\ free' \in Nat /\ cache' \in Nat /\ accum' \in Nat
      /\ late'[TRUE] \in Nat /\ late'[FALSE] \in Nat
  BY DEF Shapes
<1>9. \A a, b \in Nat : a + b \in Nat
  OBVIOUS
<1>10. Lent' \in Nat
  BY <1>7, <1>9, Zenon DEF Lent
<1>8. Pool' \in Int
  BY <1>7, <1>10 DEF Pool
<1> QED BY <1>3, <1>6, <1>8

SameBelow == \A q \in Processes : BelowOf'[q] = BelowOf[q]
SamePages == \A q \in Processes : PagesOf'[q] = PagesOf[q]
SameHands == \A c \in Lanes : InHand'[c] = InHand[c]

LEMMA BelowStays ==
  ASSUME Shapes, SameBelow
  PROVE  SumFunctionOnSet(BelowOf', Processes) = SumFunctionOnSet(BelowOf, Processes)
<1>1. \A q \in Processes : BelowOf[q] \in Int /\ BelowOf[q] = BelowOf'[q]
  BY HoldingForms DEF SameBelow
<1> QED BY <1>1, Constants, SumSame

LEMMA PagesStay ==
  ASSUME Shapes, SamePages
  PROVE  SumFunctionOnSet(PagesOf', Processes) = SumFunctionOnSet(PagesOf, Processes)
<1>1. \A q \in Processes : PagesOf[q] \in Int /\ PagesOf[q] = PagesOf'[q]
  BY HoldingForms DEF SamePages
<1> QED BY <1>1, Constants, SumSame

LEMMA HandsStay ==
  ASSUME Shapes, SameHands
  PROVE  SumFunctionOnSet(InHand', Lanes) = SumFunctionOnSet(InHand, Lanes)
<1>1. \A c \in Lanes : InHand[c] \in Int /\ InHand[c] = InHand'[c]
  BY InHandForms DEF SameHands
<1> QED BY <1>1, Constants, SumSame

LEMMA BelowMoves ==
  ASSUME Shapes, Shapes', NEW p \in Processes,
         \A q \in Processes : q # p => BelowOf'[q] = BelowOf[q]
  PROVE  SumFunctionOnSet(BelowOf', Processes)
         = SumFunctionOnSet(BelowOf, Processes) + BelowOf'[p] - BelowOf[p]
<1>1. \A q \in Processes : BelowOf[q] \in Int /\ BelowOf'[q] \in Int
  BY HoldingForms, NextForms
<1>2. IsFiniteSet(Processes)
  BY Constants
<1> QED BY <1>1, <1>2, SumChanged

LEMMA PagesMove ==
  ASSUME Shapes, Shapes', NEW p \in Processes,
         \A q \in Processes : q # p => PagesOf'[q] = PagesOf[q]
  PROVE  SumFunctionOnSet(PagesOf', Processes)
         = SumFunctionOnSet(PagesOf, Processes) + PagesOf'[p] - PagesOf[p]
<1>1. \A q \in Processes : PagesOf[q] \in Int /\ PagesOf'[q] \in Int
  BY HoldingForms, NextForms
<1>2. IsFiniteSet(Processes)
  BY Constants
<1> QED BY <1>1, <1>2, SumChanged

LEMMA HandsMove ==
  ASSUME Shapes, Shapes', NEW c \in Lanes,
         \A d \in Lanes : d # c => InHand'[d] = InHand[d]
  PROVE  SumFunctionOnSet(InHand', Lanes)
         = SumFunctionOnSet(InHand, Lanes) + InHand'[c] - InHand[c]
<1>1. \A d \in Lanes : InHand[d] \in Int /\ InHand'[d] \in Int
  BY InHandForms, NextForms
<1>2. IsFiniteSet(Lanes)
  BY Constants
<1> QED BY <1>1, <1>2, SumChanged

LEMMA LedgerSame ==
  ASSUME Shapes, Shapes', LedgerInv, SamePages, SameBelow, SameHands, Pool' = Pool
  PROVE  LedgerInv'
BY PagesStay, BelowStays, HandsStay DEF LedgerInv

LEMMA LedgerFires ==
  ASSUME Shapes, Shapes', LedgerInv, SamePages, SameBelow, NEW c \in Lanes,
         \A d \in Lanes : d # c => InHand'[d] = InHand[d],
         Pool' + InHand'[c] = Pool + InHand[c]
  PROVE  LedgerInv'
<1>1. /\ SumFunctionOnSet(PagesOf', Processes) = SumFunctionOnSet(PagesOf, Processes)
      /\ SumFunctionOnSet(BelowOf', Processes) = SumFunctionOnSet(BelowOf, Processes)
      /\ SumFunctionOnSet(InHand', Lanes)
         = SumFunctionOnSet(InHand, Lanes) + InHand'[c] - InHand[c]
  BY PagesStay, BelowStays, HandsMove
<1>2. /\ Pool \in Int /\ Pool' \in Int /\ InHand[c] \in Int /\ InHand'[c] \in Int
      /\ SumFunctionOnSet(PagesOf, Processes) \in Int
      /\ SumFunctionOnSet(InHand, Lanes) \in Int
  BY PoolForms, NextForms, InHandForms, LedgerForms
<1>3. Total = Pool + SumFunctionOnSet(PagesOf, Processes) + SumFunctionOnSet(InHand, Lanes)
  BY DEF LedgerInv
<1>4. Total = Pool' + SumFunctionOnSet(PagesOf', Processes) + SumFunctionOnSet(InHand', Lanes)
  BY <1>1, <1>2, <1>3
<1> QED BY <1>1, <1>4 DEF LedgerInv

LEMMA LedgerMoves ==
  ASSUME Shapes, Shapes', LedgerInv, SameHands, NEW p \in Processes,
         \A q \in Processes : q # p => PagesOf'[q] = PagesOf[q] /\ BelowOf'[q] = BelowOf[q],
         Pool' + PagesOf'[p] = Pool + PagesOf[p],
         \/ BelowOf'[p] <= BelowOf[p]
         \/ SumFunctionOnSet(BelowOf, Processes) + BelowOf'[p] - BelowOf[p] <= SwapTotal
  PROVE  LedgerInv'
<1>1. /\ SumFunctionOnSet(PagesOf', Processes)
         = SumFunctionOnSet(PagesOf, Processes) + PagesOf'[p] - PagesOf[p]
      /\ SumFunctionOnSet(BelowOf', Processes)
         = SumFunctionOnSet(BelowOf, Processes) + BelowOf'[p] - BelowOf[p]
      /\ SumFunctionOnSet(InHand', Lanes) = SumFunctionOnSet(InHand, Lanes)
  BY PagesMove, BelowMoves, HandsStay
<1>2. /\ Pool \in Int /\ Pool' \in Int /\ PagesOf[p] \in Int /\ PagesOf'[p] \in Int
      /\ BelowOf[p] \in Int /\ BelowOf'[p] \in Int
      /\ SumFunctionOnSet(PagesOf, Processes) \in Int
      /\ SumFunctionOnSet(BelowOf, Processes) \in Int
      /\ SumFunctionOnSet(InHand, Lanes) \in Int /\ SwapTotal \in Int
  BY PoolForms, NextForms, HoldingForms, LedgerForms, Constants
<1>3. /\ Total = Pool + SumFunctionOnSet(PagesOf, Processes) + SumFunctionOnSet(InHand, Lanes)
      /\ SumFunctionOnSet(BelowOf, Processes) <= SwapTotal
  BY DEF LedgerInv
<1>4. Total = Pool' + SumFunctionOnSet(PagesOf', Processes) + SumFunctionOnSet(InHand', Lanes)
  BY <1>1, <1>2, <1>3
<1>5. SumFunctionOnSet(BelowOf', Processes) <= SwapTotal
  BY <1>1, <1>2, <1>3
<1> QED BY <1>4, <1>5 DEF LedgerInv

LEMMA LedgerLease ==
  ASSUME Shapes, Shapes', LedgerInv, SameBelow, NEW p \in Processes, NEW c \in Lanes,
         \A q \in Processes : q # p => PagesOf'[q] = PagesOf[q],
         \A d \in Lanes : d # c => InHand'[d] = InHand[d],
         Pool' + PagesOf'[p] + InHand'[c] = Pool + PagesOf[p] + InHand[c]
  PROVE  LedgerInv'
<1>1. /\ SumFunctionOnSet(PagesOf', Processes)
         = SumFunctionOnSet(PagesOf, Processes) + PagesOf'[p] - PagesOf[p]
      /\ SumFunctionOnSet(BelowOf', Processes) = SumFunctionOnSet(BelowOf, Processes)
      /\ SumFunctionOnSet(InHand', Lanes)
         = SumFunctionOnSet(InHand, Lanes) + InHand'[c] - InHand[c]
  BY PagesMove, BelowStays, HandsMove
<1>2. /\ Pool \in Int /\ Pool' \in Int /\ PagesOf[p] \in Int /\ PagesOf'[p] \in Int
      /\ InHand[c] \in Int /\ InHand'[c] \in Int
      /\ SumFunctionOnSet(PagesOf, Processes) \in Int
      /\ SumFunctionOnSet(InHand, Lanes) \in Int
  BY PoolForms, NextForms, HoldingForms, InHandForms, LedgerForms
<1>3. Total = Pool + SumFunctionOnSet(PagesOf, Processes) + SumFunctionOnSet(InHand, Lanes)
  BY DEF LedgerInv
<1>4. Total = Pool' + SumFunctionOnSet(PagesOf', Processes) + SumFunctionOnSet(InHand', Lanes)
  BY <1>1, <1>2, <1>3
<1> QED BY <1>1, <1>4 DEF LedgerInv

-----------------------------------------------------------------------------
(* Frames: steps that leave the queue and the ways of processes alone. *)

SameWays ==
  /\ live' = live
  /\ \A p \in live : proc'[p].state = proc[p].state /\ proc'[p].parked = proc[p].parked

ParkedStay ==
  \A c \in Lanes : /\ fire'[c].st = "parked" <=> fire[c].st = "parked"
                   /\ fire[c].st = "parked" => fire'[c].n = fire[c].n
                   /\ fire'[c].st # "idle" => Owner[c] \in live

LEMMA QueueFrame ==
  ASSUME Shapes, QueueInv, queue' = queue, SameWays, ParkedStay
  PROVE  QueueInv'
<1>1. ASSUME NEW e \in ToSet(queue) PROVE EntryOK(e)'
  <2>1. e \in Entries /\ EntryOK(e)
    BY QueueIndexed DEF QueueInv
  <2>2. e.by \in Lanes \cup {None}
    BY <2>1, EntryForms
  <2> QED BY <2>1, <2>2 DEF EntryOK, SameWays, ParkedStay
<1> QED BY <1>1 DEF QueueInv, OneEach, ToSet, SameWays, ParkedStay

WaitsStay == \A p \in live : proc[p].parked # None => proc'[p].idle \/ proc'[p].held

LEMMA AwayFrame ==
  ASSUME AwayInv, UNCHANGED <<queue, evicting, exec>>, SameWays, WaitsStay, aborted \subseteq aborted'
  PROVE  AwayInv'
<1>1. ASSUME NEW p \in live PROVE AwayOK(p)'
  <2>1. AwayOK(p)
    BY DEF AwayInv
  <2> QED BY <2>1 DEF AwayOK, RestoreQueued, SameWays, WaitsStay
<1> QED BY <1>1 DEF AwayInv, SameWays

LEMMA GuestFrame ==
  ASSUME Inv, Shapes', UNCHANGED <<queue, evicting, exec, plan, accum>>, SameWays, ParkedStay,
         WaitsStay, aborted \subseteq aborted', poked => poked', MovesInv', LedgerInv'
  PROVE  Inv'
<1>1. QueueInv' /\ AwayInv'
  BY QueueFrame, AwayFrame DEF Inv
<1>2. CarriedInv'
  BY DEF Inv, CarriedInv
<1>3. HoardInv'
  BY DEF Inv, HoardInv
<1> QED BY <1>1, <1>2, <1>3 DEF Inv

LEMMA MovesFrame ==
  ASSUME MovesInv, UNCHANGED <<exec, pages, swapped>> PROVE MovesInv'
BY DEF MovesInv

LEMMA HoldingFrame ==
  ASSUME UNCHANGED <<exec, pages, swapped, leaving>> PROVE SamePages /\ SameBelow
BY DEF SamePages, SameBelow, PagesOf, BelowOf

LEMMA HandsFrame ==
  ASSUME UNCHANGED <<queue, fire>> PROVE SameHands
BY DEF SameHands, InHand, Promised

LEMMA PoolFrame ==
  ASSUME UNCHANGED <<free, cache, accum, late>> PROVE Pool' = Pool /\ Lent' = Lent
BY DEF Pool, Lent

LEMMA LentStays == ASSUME late' = late PROVE Lent' = Lent
BY DEF Lent

LEMMA PoolMoves ==
  ASSUME Shapes, Shapes', late' = late
  PROVE  /\ Pool' = Pool + (free' - free) + (cache' - cache) + (accum' - accum)
         /\ free' \in Nat /\ cache' \in Nat /\ accum' \in Nat
<1>1. Lent' = Lent /\ Lent \in Nat /\ free \in Nat /\ cache \in Nat /\ accum \in Nat
  BY LentStays, PoolForms
<1>2. free' \in Nat /\ cache' \in Nat /\ accum' \in Nat
  BY DEF Shapes
<1> QED BY <1>1, <1>2 DEF Pool

LEMMA FreeMoves ==
  ASSUME Shapes, Shapes', UNCHANGED <<cache, accum, late>>
  PROVE  Pool' = Pool + free' - free /\ Pool \in Nat /\ free \in Nat /\ free' \in Nat
<1>1. Lent' = Lent /\ Lent \in Nat /\ free \in Nat /\ cache \in Nat /\ accum \in Nat
  BY LentStays, PoolForms
<1>2. free' \in Nat
  BY DEF Shapes
<1> QED BY <1>1, <1>2 DEF Pool

LEMMA WaysFrame == ASSUME proc' = proc, AwayInv PROVE SameWays /\ WaitsStay
BY DEF SameWays, WaitsStay, AwayInv, AwayOK, live

LEMMA FiresFrame == ASSUME fire' = fire, QueueInv PROVE ParkedStay
BY DEF ParkedStay, QueueInv

(* A fire that neither waits nor holds pages, before or after.             *)
LEMMA HandOf ==
  ASSUME Shapes, QueueInv, NEW c \in Lanes
  PROVE  /\ fire[c].st # "parked" => ~Promised(c)
         /\ fire[c].st = "granted" => InHand[c] = fire[c].n
         /\ fire[c].st \notin {"granted", "parked"} => InHand[c] = 0
<1>1. fire[c].st # "parked" => ~Promised(c)
  <2>1. ASSUME NEW e \in ToSet(queue), e.by = c PROVE fire[c].st = "parked"
    BY <2>1, Constants DEF QueueInv, EntryOK
  <2> QED BY <2>1 DEF Promised
<1> QED BY <1>1 DEF InHand

(* A record with a field written keeps its shape.                          *)
LEMMA ProcWritten ==
  ASSUME NEW r \in Procs
  PROVE  /\ \A k \in Int : [r EXCEPT !.key = k] \in Procs
         /\ \A s \in {"resident", "evicting", "evicted", "restoring"} : [r EXCEPT !.state = s] \in Procs
         /\ \A v \in Nat \cup {None} : [r EXCEPT !.parked = v] \in Procs
         /\ \A b \in BOOLEAN :
              /\ [r EXCEPT !.held = b] \in Procs /\ [r EXCEPT !.retried = b] \in Procs
              /\ [r EXCEPT !.progressed = b] \in Procs /\ [r EXCEPT !.admitted = b] \in Procs
              /\ [r EXCEPT !.respawn = b] \in Procs /\ [r EXCEPT !.idle = b] \in Procs
BY DEF Procs

(* One fire changes, and neither starts nor stops waiting.                 *)
FireMoves(c) ==
  /\ queue' = queue
  /\ \A d \in Lanes : d # c => fire'[d] = fire[d]
  /\ fire[c].st # "parked" /\ fire'[c].st # "parked" /\ Owner[c] \in live

LEMMA OneFire ==
  ASSUME Shapes, QueueInv, NEW c \in Lanes, FireMoves(c)
  PROVE  /\ ParkedStay
         /\ \A d \in Lanes : d # c => InHand'[d] = InHand[d]
         /\ InHand'[c] = IF fire'[c].st = "granted" THEN fire'[c].n ELSE 0
         /\ InHand[c] = IF fire[c].st = "granted" THEN fire[c].n ELSE 0
<1>1. ~Promised(c) /\ ~Promised(c)'
  BY HandOf DEF FireMoves, Promised
<1>2. ParkedStay
  BY DEF ParkedStay, FireMoves, QueueInv
<1>3. \A d \in Lanes : d # c => InHand'[d] = InHand[d]
  BY DEF InHand, FireMoves, Promised
<1> QED BY <1>1, <1>2, <1>3 DEF InHand

-----------------------------------------------------------------------------
(* Guests: the steps of processes and fires, one by one. *)

LEMMA AdmitKeeps == ASSUME Inv, NEW p \in Processes, Admit(p) PROVE Inv'
<1> USE DEF Inv
<1>1. UNCHANGED <<inner, pool, tasks, fire, aborted, spent>> /\ through' = through \cup {p} /\ p \in live
  BY DEF Admit
<1>2. Shapes'
  BY <1>1 DEF Shapes, inner, pool, tasks, live
<1>3. SameWays /\ WaitsStay /\ ParkedStay /\ MovesInv' /\ LedgerInv'
  <2>1. UNCHANGED <<proc, fire, queue, exec, pages, swapped, leaving, free, cache, accum, late>>
    BY <1>1 DEF inner, pool, tasks
  <2> QED BY <1>2, <2>1, WaysFrame, FiresFrame, MovesFrame, HoldingFrame, HandsFrame,
             PoolFrame, LedgerSame
<1>4. UNCHANGED <<queue, evicting, exec, plan, accum, aborted, poked>>
  BY <1>1 DEF inner, pool, tasks
<1> QED BY <1>2, <1>3, <1>4, GuestFrame

LEMMA NoteAdmittedKeeps == ASSUME Inv, NEW p \in Processes, NoteAdmitted(p) PROVE Inv'
<1> USE DEF Inv
<1>1. /\ p \in live /\ through' = through \ {p}
      /\ proc' = [proc EXCEPT ![p].admitted = TRUE, ![p].respawn = FALSE]
      /\ UNCHANGED <<queue, accum, evicting, credit, swapBlocked, prepareBlocked, killing>>
      /\ UNCHANGED <<free, cache, exhausted, pages, swapped, leaving, late>>
      /\ UNCHANGED <<plan, poked, pauseDue, exec, fire, aborted, spent>>
  BY DEF NoteAdmitted, Shapes, pool, tasks
<1>2. live' = live /\ \A q \in live : proc'[q] = IF q = p THEN [proc[q] EXCEPT !.admitted = TRUE, !.respawn = FALSE] ELSE proc[q]
  BY <1>1 DEF live, Shapes
<1>3. ASSUME NEW q \in live
      PROVE  /\ proc'[q] \in Procs /\ proc'[q].state = proc[q].state
             /\ proc'[q].parked = proc[q].parked
             /\ proc'[q].idle = proc[q].idle /\ proc'[q].held = proc[q].held
  <2>1. proc[q] \in Procs
    BY ProcForms
  <2>2. [[proc[q] EXCEPT !.admitted = TRUE] EXCEPT !.respawn = FALSE] \in Procs
    BY <2>1, ProcWritten
  <2> QED BY <1>2, <2>1, <2>2 DEF Procs
<1>4. proc' \in [live -> Procs]
  BY <1>1, <1>2, <1>3 DEF Shapes
<1>5. Shapes'
  BY <1>1, <1>2, <1>4 DEF Shapes
<1>6. SameWays /\ WaitsStay
  BY <1>2, <1>3 DEF SameWays, WaitsStay, AwayInv, AwayOK
<1>7. ParkedStay /\ MovesInv' /\ LedgerInv'
  BY <1>1, <1>5, FiresFrame, MovesFrame, HoldingFrame, HandsFrame, PoolFrame, LedgerSame
<1> QED BY <1>1, <1>5, <1>6, <1>7, GuestFrame

LEMMA AskKeeps ==
  ASSUME Inv, NEW c \in Lanes, NEW n \in Needs[c], Ask(c, n) PROVE Inv'
<1> USE DEF Inv
<1>1. /\ fire[c].st = "idle" /\ Owner[c] \in live
      /\ fire' = [fire EXCEPT ![c] = [st |-> "quoted", n |-> n, asks |-> @.asks + 1]]
      /\ UNCHANGED <<proc, queue, accum, evicting, credit, swapBlocked, prepareBlocked, killing>>
      /\ UNCHANGED <<free, cache, exhausted, pages, swapped, leaving, late>>
      /\ UNCHANGED <<plan, poked, pauseDue, exec, through, aborted, spent>>
  BY DEF Ask, Running, inner, pool, tasks
<1>2. n \in Nat
  BY PlannerAssumption
<1>3. /\ fire'[c] = [st |-> "quoted", n |-> n, asks |-> fire[c].asks + 1]
      /\ \A d \in Lanes : d # c => fire'[d] = fire[d]
  BY <1>1 DEF Shapes
<1>4. fire' \in [Lanes -> FireRecs]
  <2>1. fire'[c] \in FireRecs
    BY <1>2, <1>3, FireForms DEF FireRecs, FireStates
  <2> QED BY <1>1, <2>1 DEF Shapes
<1>5. Shapes'
  BY <1>1, <1>4 DEF Shapes, live
<1>6. FireMoves(c) /\ fire'[c].st = "quoted"
  BY <1>1, <1>3 DEF FireMoves
<1>7. SameHands
  BY <1>1, <1>6, OneFire DEF SameHands
<1>8. ParkedStay /\ SameWays /\ WaitsStay /\ MovesInv' /\ LedgerInv'
  BY <1>1, <1>5, <1>6, <1>7, OneFire, WaysFrame, MovesFrame, HoldingFrame, PoolFrame, LedgerSame
<1> QED BY <1>1, <1>5, <1>8, GuestFrame

(* To(c, st): the fire of c goes to another state.                         *)
LEMMA FireGoes ==
  ASSUME Shapes, NEW c \in Lanes, NEW st \in FireStates, To(c, st)
  PROVE  /\ fire' \in [Lanes -> FireRecs] /\ fire'[c].st = st /\ fire'[c].n = fire[c].n
         /\ \A d \in Lanes : d # c => fire'[d] = fire[d]
<1>1. fire \in [Lanes -> FireRecs] /\ fire[c] \in FireRecs
  BY DEF Shapes
<1>2. fire'[c] = [fire[c] EXCEPT !.st = st] /\ \A d \in Lanes : d # c => fire'[d] = fire[d]
  BY <1>1 DEF To
<1>3. fire'[c] \in FireRecs /\ fire'[c].st = st /\ fire'[c].n = fire[c].n
  BY <1>1, <1>2 DEF FireRecs
<1>4. fire' \in [Lanes -> FireRecs]
  BY <1>1, <1>3 DEF To
<1> QED BY <1>2, <1>3, <1>4

LEMMA GrantNowKeeps == ASSUME Inv, NEW c \in Lanes, GrantNow(c) PROVE Inv'
<1> USE DEF Inv
<1> DEFINE p == Owner[c]
<1>1. /\ fire[c].st = "quoted"
      /\ \/ fire[c].n <= free /\ free' = free - fire[c].n /\ To(c, "granted") /\ proc' = proc
         \/ /\ To(c, "short") /\ free' = free
            /\ proc' = [proc EXCEPT ![p].progressed = TRUE] \/ proc' = proc
      /\ UNCHANGED <<queue, accum, evicting, credit, swapBlocked, prepareBlocked, killing>>
      /\ UNCHANGED <<cache, exhausted, pages, swapped, leaving, late, plan, poked, pauseDue, exec>>
      /\ UNCHANGED <<through, aborted, spent>>
  BY DEF GrantNow, tasks
<1>2. p \in live /\ p \in Processes
  BY <1>1, FireForms DEF QueueInv
<1>3. /\ live' = live /\ proc' \in [live -> Procs]
      /\ \A q \in live : /\ proc'[q].state = proc[q].state /\ proc'[q].parked = proc[q].parked
                         /\ proc'[q].idle = proc[q].idle /\ proc'[q].held = proc[q].held
  <2>1. CASE proc' = proc
    BY <2>1 DEF live, Shapes
  <2>2. CASE proc' = [proc EXCEPT ![p].progressed = TRUE]
    <3> HIDE DEF p
    <3>1. proc \in [live -> Procs] /\ proc[p] \in Procs
      BY <1>2 DEF Shapes
    <3>2. [proc[p] EXCEPT !.progressed = TRUE] \in Procs
      BY <3>1, ProcWritten
    <3>3. proc' = [proc EXCEPT ![p] = [proc[p] EXCEPT !.progressed = TRUE]]
      BY <2>2
    <3>4. proc' \in [live -> Procs] /\ live' = live
      BY <3>1, <3>2, <3>3 DEF live
    <3>5. proc'[p] = [proc[p] EXCEPT !.progressed = TRUE] /\ \A q \in live : q # p => proc'[q] = proc[q]
      BY <1>2, <3>1, <3>3
    <3>6. /\ proc'[p].state = proc[p].state /\ proc'[p].parked = proc[p].parked
          /\ proc'[p].idle = proc[p].idle /\ proc'[p].held = proc[p].held
      BY <3>1, <3>5 DEF Procs
    <3> QED BY <3>4, <3>5, <3>6
  <2> QED BY <1>1, <2>1, <2>2
<1> HIDE DEF p
<1>4. /\ fire' \in [Lanes -> FireRecs] /\ fire'[c].n = fire[c].n /\ fire'[c].st \in {"granted", "short"}
      /\ \A d \in Lanes : d # c => fire'[d] = fire[d]
  BY <1>1, FireGoes DEF FireStates
<1>5. free' \in Nat /\ free \in Nat /\ fire[c].n \in Nat
  BY <1>1, FireForms, SMTT(20) DEF Shapes
<1>6. Shapes'
  BY <1>1, <1>3, <1>4, <1>5 DEF Shapes
<1>7. FireMoves(c)
  BY <1>1, <1>2, <1>4 DEF FireMoves, p
<1>8. SameWays /\ WaitsStay
  BY <1>3 DEF SameWays, WaitsStay, AwayInv, AwayOK
<1>9. Pool' + InHand'[c] = Pool + InHand[c]
  <2>1. InHand[c] = 0 /\ InHand'[c] = IF fire'[c].st = "granted" THEN fire[c].n ELSE 0
    BY <1>1, <1>4, <1>7, OneFire
  <2>2. free' = free - InHand'[c]
    <3>1. CASE free' = free - fire[c].n /\ To(c, "granted")
      <4>1. fire'[c].st = "granted"
        BY <3>1, FireGoes DEF FireStates
      <4> QED BY <2>1, <3>1, <4>1
    <3>2. CASE free' = free /\ To(c, "short")
      <4>1. fire'[c].st = "short"
        BY <3>2, FireGoes DEF FireStates
      <4> QED BY <1>5, <2>1, <3>2, <4>1
    <3> QED BY <1>1, <3>1, <3>2
  <2>3. Pool' = Pool + free' - free /\ Pool \in Nat
    BY <1>1, <1>6, FreeMoves
  <2> QED BY <1>5, <2>1, <2>2, <2>3
<1>10. LedgerInv'
  BY <1>1, <1>6, <1>7, <1>9, OneFire, HoldingFrame, LedgerFires
<1>11. ParkedStay /\ MovesInv'
  BY <1>1, <1>7, OneFire, MovesFrame
<1> QED BY <1>1, <1>6, <1>8, <1>10, <1>11, GuestFrame

LEMMA ReturnKeeps == ASSUME Inv, NEW c \in Lanes, Return(c) PROVE Inv'
<1> USE DEF Inv
<1>1. /\ fire[c].st = "away" /\ To(c, "quoted")
      /\ UNCHANGED <<proc, queue, accum, evicting, credit, swapBlocked, prepareBlocked, killing>>
      /\ UNCHANGED <<free, cache, exhausted, pages, swapped, leaving, late>>
      /\ UNCHANGED <<plan, poked, pauseDue, exec, through, aborted, spent>>
  BY DEF Return, inner, pool, tasks
<1>2. /\ fire' \in [Lanes -> FireRecs] /\ fire'[c].n = fire[c].n /\ fire'[c].st = "quoted"
      /\ \A d \in Lanes : d # c => fire'[d] = fire[d]
  BY <1>1, FireGoes DEF FireStates
<1>3. Shapes'
  BY <1>1, <1>2 DEF Shapes, live
<1>4. FireMoves(c)
  BY <1>1, <1>2 DEF FireMoves, QueueInv
<1>5. SameHands
  BY <1>1, <1>2, <1>4, OneFire DEF SameHands
<1>6. ParkedStay /\ SameWays /\ WaitsStay /\ MovesInv' /\ LedgerInv'
  BY <1>1, <1>3, <1>4, <1>5, OneFire, WaysFrame, MovesFrame, HoldingFrame, PoolFrame, LedgerSame
<1> QED BY <1>1, <1>3, <1>6, GuestFrame

LEMMA LeaseKeeps == ASSUME Inv, NEW c \in Lanes, Lease(c) PROVE Inv'
<1> USE DEF Inv
<1> DEFINE p == Owner[c]
           n == fire[c].n
<1>1. /\ fire[c].st = "granted"
      /\ \/ /\ ~Fenced(p) /\ pages' = [pages EXCEPT ![p] = @ + n] /\ To(c, "fired")
            /\ free' = free
         \/ /\ To(c, "away") \/ To(c, "idle")
            /\ free' = free + n /\ pages' = pages
      /\ UNCHANGED <<proc, queue, accum, evicting, credit, swapBlocked, prepareBlocked, killing>>
      /\ UNCHANGED <<cache, exhausted, swapped, leaving, late>>
      /\ UNCHANGED <<plan, poked, pauseDue, exec, through, aborted>>
  BY DEF Lease, inner, tasks
<1>2. /\ p \in live /\ p \in Processes /\ n \in Nat /\ pages[p] \in Nat /\ free \in Nat
  BY <1>1, FireForms, ProcessForms DEF QueueInv, Shapes
<1>3. /\ fire' \in [Lanes -> FireRecs] /\ fire'[c].n = n /\ fire'[c].st \in {"fired", "away", "idle"}
      /\ \A d \in Lanes : d # c => fire'[d] = fire[d]
  BY <1>1, FireGoes DEF FireStates
<1>4a. \/ pages' = [pages EXCEPT ![p] = @ + n] /\ free' = free
       \/ free' = free + n /\ pages' = pages
  BY <1>1
<1> HIDE DEF p, n
<1>4. /\ pages' \in [Processes -> Nat] /\ free' \in Nat
      /\ \A q \in Processes : q # p => pages'[q] = pages[q]
      /\ free' + pages'[p] = free + pages[p] + n
      /\ pages'[p] >= pages[p]
  <2>1. pages \in [Processes -> Nat]
    BY DEF Shapes
  <2>2. CASE pages' = [pages EXCEPT ![p] = @ + n] /\ free' = free
    <3>1. /\ pages' \in [Processes -> Nat] /\ pages'[p] = pages[p] + n
          /\ \A q \in Processes : q # p => pages'[q] = pages[q]
      BY <1>2, <2>1, <2>2
    <3> QED BY <1>2, <2>2, <3>1
  <2>3. CASE free' = free + n /\ pages' = pages
    BY <1>2, <2>1, <2>3
  <2> QED BY <1>4a, <2>2, <2>3
<1>5. Shapes'
  BY <1>1, <1>3, <1>4 DEF Shapes, live
<1>6. FireMoves(c)
  BY <1>1, <1>2, <1>3 DEF FireMoves, p
<1>7. /\ InHand[c] = n /\ InHand'[c] = 0 /\ ParkedStay
      /\ \A d \in Lanes : d # c => InHand'[d] = InHand[d]
  BY <1>1, <1>3, <1>6, OneFire DEF n
<1>8. /\ \A q \in Processes : q # p => PagesOf'[q] = PagesOf[q]
      /\ SameBelow
      /\ PagesOf'[p] - pages'[p] = PagesOf[p] - pages[p] /\ PagesOf[p] \in Nat
  <2>1. SameBelow
    BY <1>1 DEF SameBelow, BelowOf
  <2>2. \A q \in Processes : q # p => PagesOf'[q] = PagesOf[q]
    BY <1>1, <1>4 DEF PagesOf
  <2>3. /\ PagesOf[p] = pages[p] + leaving[p].device + (IF exec[p].st = "restoring" THEN exec[p].n ELSE 0)
        /\ PagesOf'[p] = pages'[p] + leaving[p].device + (IF exec[p].st = "restoring" THEN exec[p].n ELSE 0)
    BY <1>1, <1>2 DEF PagesOf
  <2>4. /\ leaving[p].device \in Nat /\ exec[p].n \in Nat /\ pages'[p] \in Nat
    BY <1>2, <1>4, ProcessForms
  <2> QED BY <1>2, <2>1, <2>2, <2>3, <2>4
<1>9. Pool' + PagesOf'[p] + InHand'[c] = Pool + PagesOf[p] + InHand[c]
  <2>1. Pool' = Pool + free' - free /\ Pool \in Nat
    BY <1>1, <1>5, FreeMoves
  <2>2. PagesOf'[p] \in Int
    BY <1>2, <1>5, NextForms
  <2>3. free' \in Nat /\ pages'[p] \in Nat
    BY <1>2, <1>4
  <2> QED BY <1>2, <1>4, <1>7, <1>8, <2>1, <2>2, <2>3
<1>10. LedgerInv'
  BY <1>2, <1>5, <1>7, <1>8, <1>9, LedgerLease
<1>11. MovesInv'
  <2>1. \A q \in Processes : pages'[q] >= pages[q]
    BY <1>2, <1>4, ProcessForms
  <2>2. \A q \in Processes : exec[q].n \in Nat /\ pages[q] \in Nat /\ pages'[q] \in Nat
    BY <1>4, ProcessForms
  <2> QED BY <1>1, <2>1, <2>2 DEF MovesInv
<1> QED BY <1>1, <1>5, <1>7, <1>10, <1>11, WaysFrame, GuestFrame

LEMMA SettleKeeps == ASSUME Inv, NEW c \in Lanes, Settle(c) PROVE Inv'
<1> USE DEF Inv
<1>1. /\ fire[c].st = "fired" /\ To(c, "idle") /\ poked' = (poked \/ queue # <<>>)
      /\ UNCHANGED <<proc, queue, accum, evicting, credit, swapBlocked, prepareBlocked, killing>>
      /\ UNCHANGED <<free, cache, pages, swapped, leaving, late>>
      /\ UNCHANGED <<plan, pauseDue, exec, through, aborted, spent>>
  BY DEF Settle, PagesFreed, inner
<1>2. /\ fire' \in [Lanes -> FireRecs] /\ fire'[c].n = fire[c].n /\ fire'[c].st = "idle"
      /\ \A d \in Lanes : d # c => fire'[d] = fire[d]
  BY <1>1, FireGoes DEF FireStates
<1>3. Shapes'
  BY <1>1, <1>2 DEF Shapes, live
<1>4. FireMoves(c)
  BY <1>1, <1>2 DEF FireMoves, QueueInv
<1>5. SameHands
  BY <1>1, <1>2, <1>4, OneFire DEF SameHands
<1>6. ParkedStay /\ SameWays /\ WaitsStay /\ MovesInv' /\ LedgerInv'
  BY <1>1, <1>3, <1>4, <1>5, OneFire, WaysFrame, MovesFrame, HoldingFrame, PoolFrame, LedgerSame
<1> QED BY <1>1, <1>3, <1>6, GuestFrame

(* What one process holds changes.                                         *)
HoldsMove(p) ==
  \A q \in Processes : q # p =>
    pages'[q] = pages[q] /\ swapped'[q] = swapped[q] /\ leaving'[q] = leaving[q] /\ exec'[q] = exec[q]

LEMMA OneHolder ==
  ASSUME Shapes, Shapes', NEW p \in Processes, HoldsMove(p)
  PROVE  /\ \A q \in Processes : q # p => PagesOf'[q] = PagesOf[q] /\ BelowOf'[q] = BelowOf[q]
         /\ PagesOf[p] = pages[p] + leaving[p].device
                         + (IF exec[p].st = "restoring" THEN exec[p].n ELSE 0)
         /\ BelowOf[p] = swapped[p] + leaving[p].below
                         + (IF exec[p].st = "moving" THEN exec[p].n ELSE 0)
         /\ PagesOf'[p] = pages'[p] + leaving'[p].device
                         + (IF exec'[p].st = "restoring" THEN exec'[p].n ELSE 0)
         /\ BelowOf'[p] = swapped'[p] + leaving'[p].below
                         + (IF exec'[p].st = "moving" THEN exec'[p].n ELSE 0)
         /\ pages'[p] \in Nat /\ swapped'[p] \in Nat /\ exec'[p].n \in Nat
         /\ leaving'[p].device \in Nat /\ leaving'[p].below \in Nat
<1>1. pages'[p] \in Nat /\ swapped'[p] \in Nat /\ exec'[p] \in Execs /\ leaving'[p] \in [device : Nat, below : Nat]
  BY DEF Shapes
<1>2. exec'[p].n \in Nat /\ leaving'[p].device \in Nat /\ leaving'[p].below \in Nat
  BY <1>1 DEF Execs
<1>3. \A q \in Processes : q # p => PagesOf'[q] = PagesOf[q] /\ BelowOf'[q] = BelowOf[q]
  BY DEF HoldsMove, PagesOf, BelowOf
<1> QED BY <1>1, <1>2, <1>3 DEF PagesOf, BelowOf

LEMMA DropSetsKeeps == ASSUME Inv, NEW p \in Processes, DropSets(p) PROVE Inv'
<1> USE DEF Inv
<1>1. /\ ~Fenced(p) /\ free' = free + pages[p] /\ pages' = [pages EXCEPT ![p] = 0]
      /\ poked' = (poked \/ queue # <<>>)
      /\ UNCHANGED <<proc, queue, accum, evicting, credit, swapBlocked, prepareBlocked, killing>>
      /\ UNCHANGED <<cache, swapped, leaving, late>>
      /\ UNCHANGED <<plan, pauseDue, exec, fire, through, aborted, spent>>
  BY DEF DropSets, PagesFreed, inner, guests
<1>2. /\ pages \in [Processes -> Nat] /\ pages[p] \in Nat /\ free \in Nat /\ free' \in Nat
  BY <1>1 DEF Shapes
<1>3. /\ pages' \in [Processes -> Nat] /\ pages'[p] = 0
      /\ \A q \in Processes : q # p => pages'[q] = pages[q]
  BY <1>1, <1>2
<1>4. Shapes'
  BY <1>1, <1>2, <1>3 DEF Shapes, live
<1>5. HoldsMove(p)
  BY <1>1, <1>3 DEF HoldsMove
<1>6. LedgerInv'
  <2>1. Pool' = Pool + free' - free /\ Pool \in Nat
    BY <1>1, <1>4, FreeMoves
  <2>2. SameHands
    BY <1>1, HandsFrame
  <2> DEFINE lent == IF exec[p].st = "restoring" THEN exec[p].n ELSE 0
  <2>3. leaving[p].device \in Nat /\ lent \in Nat /\ BelowOf[p] \in Nat
    BY ProcessForms, HoldingForms
  <2>4. /\ PagesOf[p] = pages[p] + leaving[p].device + lent
        /\ PagesOf'[p] = 0 + leaving[p].device + lent /\ BelowOf'[p] = BelowOf[p]
    BY <1>1, <1>3, <1>4, <1>5, OneHolder
  <2> HIDE DEF lent
  <2>5. Pool' + PagesOf'[p] = Pool + PagesOf[p] /\ BelowOf'[p] <= BelowOf[p]
    <3>1. free' = free + pages[p]
      BY <1>1
    <3> QED BY <1>2, <2>1, <2>3, <2>4, <3>1
  <2> QED BY <1>4, <1>5, <2>2, <2>5, OneHolder, LedgerMoves
<1>7. MovesInv'
  <2>1. exec[p].st # "moving"
    BY <1>1 DEF Fenced
  <2> QED BY <1>1, <1>3, <2>1 DEF MovesInv
<1> QED BY <1>1, <1>4, <1>6, <1>7, WaysFrame, FiresFrame, GuestFrame

LEMMA WaitOnClientKeeps == ASSUME Inv, NEW p \in Processes, WaitOnClient(p) PROVE Inv'
<1> USE DEF Inv
<1>1. /\ p \in live /\ proc' = [proc EXCEPT ![p].idle = TRUE] /\ poked' = TRUE
      /\ UNCHANGED <<queue, accum, evicting, credit, swapBlocked, prepareBlocked, killing>>
      /\ UNCHANGED <<free, cache, exhausted, pages, swapped, leaving, late>>
      /\ UNCHANGED <<plan, pauseDue, exec, fire, through, aborted>>
  BY DEF WaitOnClient, Running, Poke, pool
<1>2. live' = live /\ \A q \in live : proc'[q] = IF q = p THEN [proc[q] EXCEPT !.idle = TRUE] ELSE proc[q]
  BY <1>1 DEF live, Shapes
<1>3. ASSUME NEW q \in live
      PROVE  /\ proc'[q] \in Procs /\ proc'[q].state = proc[q].state
             /\ proc'[q].parked = proc[q].parked /\ proc'[q].held = proc[q].held
             /\ proc[q].idle => proc'[q].idle
  <2>1. proc[q] \in Procs
    BY ProcForms
  <2>2. [proc[q] EXCEPT !.idle = TRUE] \in Procs
    BY <2>1, ProcWritten
  <2> QED BY <1>2, <2>1, <2>2 DEF Procs
<1>4. proc' \in [live -> Procs]
  BY <1>1, <1>2, <1>3 DEF Shapes
<1>5. Shapes'
  BY <1>1, <1>2, <1>4 DEF Shapes
<1>6. SameWays /\ WaitsStay
  BY <1>2, <1>3 DEF SameWays, WaitsStay, AwayInv, AwayOK
<1>7. ParkedStay /\ MovesInv' /\ LedgerInv'
  BY <1>1, <1>5, FiresFrame, MovesFrame, HoldingFrame, HandsFrame, PoolFrame, LedgerSame
<1> QED BY <1>1, <1>5, <1>6, <1>7, GuestFrame

LEMMA AbortKeeps == ASSUME Inv, NEW p \in Processes, Abort(p) PROVE Inv'
<1> USE DEF Inv
<1>1. /\ p \in live /\ aborted' = aborted \cup {p}
      /\ UNCHANGED <<proc, queue, accum, evicting, credit, swapBlocked, prepareBlocked, killing>>
      /\ UNCHANGED <<free, cache, exhausted, pages, swapped, leaving, late>>
      /\ UNCHANGED <<plan, poked, pauseDue, exec, fire, through>>
  BY DEF Abort, inner, pool, tasks
<1>2. Shapes'
  BY <1>1 DEF Shapes, live
<1>3. SameWays /\ WaitsStay /\ ParkedStay /\ MovesInv' /\ LedgerInv'
  BY <1>1, <1>2, WaysFrame, FiresFrame, MovesFrame, HoldingFrame, HandsFrame, PoolFrame, LedgerSame
<1> QED BY <1>1, <1>2, <1>3, GuestFrame

LEMMA TeardownKeeps == ASSUME Inv, NEW p \in Processes, Teardown(p) PROVE Inv'
<1> USE DEF Inv
<1>1. PICK k \in 0..leaving[p].device :
      /\ cache' = cache + k /\ free' = free + leaving[p].device - k
      /\ leaving' = [leaving EXCEPT ![p] = [device |-> 0, below |-> 0]]
      /\ poked' = (poked \/ queue # <<>>)
      /\ UNCHANGED <<proc, queue, accum, evicting, credit, swapBlocked, prepareBlocked, killing>>
      /\ UNCHANGED <<pages, swapped, late>>
      /\ UNCHANGED <<plan, pauseDue, exec, fire, through, aborted, spent>>
  BY DEF Teardown, PagesFreed, inner, guests
<1>2. /\ leaving[p].device \in Nat /\ leaving[p].below \in Nat /\ free \in Nat /\ cache \in Nat
      /\ free' \in Nat /\ cache' \in Nat /\ k \in Nat
  BY <1>1, ProcessForms, PoolForms, SMTT(20)
<1>3. /\ leaving' \in [Processes -> [device : Nat, below : Nat]]
      /\ leaving'[p] = [device |-> 0, below |-> 0]
      /\ \A q \in Processes : q # p => leaving'[q] = leaving[q]
  <2>1. leaving \in [Processes -> [device : Nat, below : Nat]]
    BY DEF Shapes
  <2> QED BY <1>1, <2>1
<1>4. Shapes'
  BY <1>1, <1>2, <1>3 DEF Shapes, live
<1>5. HoldsMove(p)
  BY <1>1, <1>3 DEF HoldsMove
<1>6. LedgerInv'
  <2>1. Pool' = Pool + leaving[p].device
    <3>1. Lent' = Lent /\ Lent \in Nat /\ accum \in Nat
      BY <1>1, LentStays, PoolForms
    <3>2. Pool' = (free + leaving[p].device - k) + (cache + k) + accum + Lent
      BY <1>1, <3>1 DEF Pool
    <3> QED BY <1>2, <3>1, <3>2 DEF Pool
  <2>2. SameHands
    BY <1>1, HandsFrame
  <2> DEFINE lent == IF exec[p].st = "restoring" THEN exec[p].n ELSE 0
             moves == IF exec[p].st = "moving" THEN exec[p].n ELSE 0
  <2>3. /\ lent \in Nat /\ moves \in Nat /\ pages[p] \in Nat /\ swapped[p] \in Nat /\ Pool \in Nat
    BY ProcessForms, PoolForms
  <2>4. leaving'[p].device = 0 /\ leaving'[p].below = 0
    BY <1>3
  <2>5. /\ PagesOf[p] = pages[p] + leaving[p].device + lent
        /\ PagesOf'[p] = pages[p] + 0 + lent
        /\ BelowOf[p] = swapped[p] + leaving[p].below + moves
        /\ BelowOf'[p] = swapped[p] + 0 + moves
    BY <1>1, <1>4, <1>5, <2>4, OneHolder
  <2> HIDE DEF lent, moves
  <2>6. Pool' + PagesOf'[p] = Pool + PagesOf[p] /\ BelowOf'[p] <= BelowOf[p]
    BY <1>2, <2>1, <2>3, <2>5
  <2> QED BY <1>4, <1>5, <2>2, <2>6, OneHolder, LedgerMoves
<1> QED BY <1>1, <1>4, <1>6, MovesFrame, WaysFrame, FiresFrame, GuestFrame

LEMMA DropLateKeeps == ASSUME Inv, NEW tells \in BOOLEAN, DropLate(tells) PROVE Inv'
<1> USE DEF Inv
<1>1. /\ free' = free + late[tells] /\ late' = [late EXCEPT ![tells] = 0]
      /\ poked' = (poked \/ queue # <<>>) \/ poked' = poked
      /\ poked => poked'
      /\ UNCHANGED <<proc, queue, accum, evicting, credit, swapBlocked, prepareBlocked, killing>>
      /\ UNCHANGED <<cache, pages, swapped, leaving>>
      /\ UNCHANGED <<plan, pauseDue, exec, fire, through, aborted, spent>>
  BY DEF DropLate, PagesFreed, inner, guests
<1>2. /\ late \in [BOOLEAN -> Nat] /\ late[tells] \in Nat /\ free \in Nat /\ free' \in Nat
  BY <1>1 DEF Shapes
<1>3. late' \in [BOOLEAN -> Nat]
  BY <1>1, <1>2
<1>4. poked' \in BOOLEAN
  BY <1>1 DEF Shapes
<1>5. Shapes'
  BY <1>1, <1>2, <1>3, <1>4 DEF Shapes, live
<1>6. Lent' = Lent - late[tells]
  <2>1. late[TRUE] \in Nat /\ late[FALSE] \in Nat
    BY PoolForms
  <2>2. CASE tells = TRUE
    <3>1. late'[TRUE] = 0 /\ late'[FALSE] = late[FALSE]
      BY <1>1, <1>2, <2>2
    <3>2. Lent' = 0 + late[FALSE]
      BY <3>1 DEF Lent
    <3> DEFINE a == late[TRUE]
               b == late[FALSE]
    <3>3. Lent' = 0 + b /\ Lent = a + b /\ late[tells] = a /\ a \in Nat /\ b \in Nat
      BY <2>1, <2>2, <3>2, Zenon DEF Lent
    <3> HIDE DEF a, b
    <3> QED BY <3>3
  <2>3. CASE tells = FALSE
    <3>1. late'[FALSE] = 0 /\ late'[TRUE] = late[TRUE]
      BY <1>1, <1>2, <2>3
    <3>2. Lent' = late[TRUE] + 0
      BY <3>1 DEF Lent
    <3> DEFINE a == late[TRUE]
               b == late[FALSE]
    <3>3. Lent' = a + 0 /\ Lent = a + b /\ late[tells] = b /\ a \in Nat /\ b \in Nat
      BY <2>1, <2>3, <3>2, Zenon DEF Lent
    <3> HIDE DEF a, b
    <3> QED BY <3>3
  <2> QED BY <2>2, <2>3
<1>7. Pool' = Pool
  BY <1>1, <1>2, <1>6, PoolForms DEF Pool
<1>8. LedgerInv'
  BY <1>1, <1>5, <1>7, HoldingFrame, HandsFrame, LedgerSame
<1> QED BY <1>1, <1>5, <1>8, MovesFrame, WaysFrame, FiresFrame, GuestFrame

-----------------------------------------------------------------------------
(* The planner task: what it picks, carries and hoards. *)

LEMMA SmallerOf ==
  ASSUME NEW a \in Nat, NEW b \in Nat
  PROVE  Min({a, b}) \in Nat /\ Min({a, b}) <= a /\ Min({a, b}) <= b
<1>1. {a, b} \in SUBSET Nat /\ {a, b} # {}
  OBVIOUS
<1>2. Min({a, b}) \in {a, b} /\ \A j \in {a, b} : Min({a, b}) <= j
  BY <1>1, FirstPosition
<1> QED BY <1>2

LEMMA MinusIs ==
  ASSUME NEW a \in Int, NEW b \in Int
  PROVE  Minus(a, b) \in Nat /\ Minus(a, b) = IF a >= b THEN a - b ELSE 0
<1>1. \E x \in {a - b, 0} : \A y \in {a - b, 0} : x >= y
  OBVIOUS
<1>2. /\ Max({a - b, 0}) \in {a - b, 0}
      /\ \A y \in {a - b, 0} : Max({a - b, 0}) >= y
  BY <1>1 DEF Max
<1> QED BY <1>2 DEF Minus

LEMMA WaitingForms ==
  ASSUME Shapes
  PROVE  /\ Waiting \subseteq DOMAIN queue /\ Asks \subseteq Waiting
         /\ Waiting \in SUBSET Nat /\ Asks \in SUBSET Nat /\ 0 \notin Waiting
         /\ \A i \in Waiting : queue[i] \in ToSet(queue) /\ queue[i] \in Entries
         /\ \A i \in Asks : queue[i].by # None /\ queue[i].outcome = "none" /\ ~queue[i].yielded
<1>1. /\ DOMAIN queue = 1..Len(queue) /\ Len(queue) \in Nat
      /\ \A i \in DOMAIN queue : i \in Nat /\ queue[i] \in Entries /\ queue[i] \in ToSet(queue)
  BY QueueIndexed
<1>2. Waiting \subseteq DOMAIN queue /\ Asks \subseteq Waiting
  BY DEF Waiting, Asks
<1>3. 0 \notin DOMAIN queue
  BY <1>1
<1>4. \A i \in Asks : queue[i].by # None /\ queue[i].outcome = "none" /\ ~queue[i].yielded
  BY DEF Asks, Waiting, Unmet, IsRestore
<1> QED BY <1>1, <1>2, <1>3, <1>4

(* The head of the queue is an entry that waits.                           *)
LEMMA HeadWaits ==
  ASSUME Shapes, HeadAt # 0
  PROVE  /\ HeadAt \in Waiting /\ HeadAt \in DOMAIN queue /\ queue # <<>>
         /\ Head1 \in ToSet(queue) /\ Head1 \in Entries
         /\ ~IsRestore(Head1) => HeadAt \in Asks
<1> DEFINE restores == Waiting \ Asks
<1>1. /\ Waiting \in SUBSET Nat /\ Asks \in SUBSET Nat /\ restores \in SUBSET Nat
      /\ Asks \subseteq Waiting /\ Waiting \subseteq DOMAIN queue
  BY WaitingForms
<1>2. restores # {} => Min(restores) \in restores
  <2> HIDE DEF restores
  <2> QED BY <1>1, FirstPosition
<1>3. Asks # {} => Min(Asks) \in Asks
  BY <1>1, FirstPosition
<1>4. Waiting # {}
  BY <1>1 DEF HeadAt
<1>5. HeadAt \in {Min(restores), Min(Asks)}
      /\ \/ HeadAt = Min(restores) /\ restores # {}
         \/ HeadAt = Min(Asks) /\ Asks # {}
  <2>1. CASE Asks = {}
    <3>1. HeadAt = Min(restores) /\ restores # {}
      BY <1>4, <2>1 DEF HeadAt
    <3> HIDE DEF restores
    <3> QED BY <3>1
  <2>2. CASE Asks # {} /\ restores = {}
    BY <1>4, <2>2 DEF HeadAt
  <2>3. CASE Asks # {} /\ restores # {}
    <3>1. HeadAt = IF /\ Min(restores) < Min(Asks)
                      /\ FleetStalled \/ swapBlocked # {}
                   THEN Min(restores) ELSE Min(Asks)
      BY <1>4, <2>3 DEF HeadAt
    <3> QED BY <2>3, <3>1
  <2> QED BY <2>1, <2>2, <2>3
<1>6. HeadAt \in Waiting
  BY <1>1, <1>2, <1>3, <1>5
<1>7. /\ HeadAt \in DOMAIN queue /\ Head1 \in ToSet(queue) /\ Head1 \in Entries
  BY <1>1, <1>6, WaitingForms DEF Head1
<1>8. queue # <<>>
  BY <1>7
<1>9. ~IsRestore(Head1) => HeadAt \in Asks
  BY <1>6 DEF Asks, Head1
<1> QED BY <1>6, <1>7, <1>8, <1>9

LEMMA Funds ==
  ASSUME Shapes, HeadAt # 0 PROVE Missing \in Nat
<1>1. Head1.need \in Int /\ accum \in Int
  BY HeadWaits, EntryForms DEF Shapes
<1> HIDE DEF Head1
<1> QED BY <1>1, MinusIs DEF Missing

(* What the planner task may carry next.                                   *)
PlanShaped == DOMAIN plan' = DOMAIN Resting /\ plan'.count \in Nat

LEMMA GotoDoes ==
  ASSUME NEW pc, Goto(pc)
  PROVE  PlanShaped /\ plan'.pc = pc /\ plan'.head = <<>>
BY DEF Goto, Resting, PlanShaped

LEMMA RestDoes == ASSUME Rest PROVE PlanShaped /\ plan'.pc = "wait" /\ plan'.head = <<>>
BY DEF Rest, Resting, PlanShaped

LEMMA StarveDoes ==
  ASSUME NEW cause, Starve(cause) PROVE PlanShaped /\ plan'.pc = "starve" /\ plan'.head = <<>>
BY DEF Starve, Resting, PlanShaped

LEMMA CarriesNothing == ASSUME plan'.head = <<>> PROVE CarriedInv'
BY DEF CarriedInv

LEMMA CarriesEntry ==
  ASSUME NEW e \in Entries, e \in ToSet(queue'), plan'.head = Name(e),
         plan'.pc = "restore" => e.by = None, plan'.pc = "verdict" => e.by # None
  PROVE  CarriedInv'
BY EntryForms DEF CarriedInv

LEMMA CarriesOn ==
  ASSUME CarriedInv, plan'.head = plan.head, queue' = queue,
         plan'.pc \notin {"restore", "verdict"}
  PROVE  CarriedInv'
BY DEF CarriedInv

Waking == {"pause", "pauseCommit", "loop"}

LEMMA HoardFrame ==
  ASSUME HoardInv, plan.pc \notin Waking, accum' = accum, poked' = poked,
         queue' = <<>> => queue = <<>>
  PROVE  HoardInv'
BY DEF HoardInv, Waking

LEMMA HoardLooks ==
  ASSUME plan'.pc \in Waking \/ poked' \/ queue' # <<>> \/ accum' = 0
  PROVE  HoardInv'
BY DEF HoardInv, Waking

(* A step of the planner task that leaves entries and processes alone.     *)
LEMMA PlanFrame ==
  ASSUME Inv, UNCHANGED <<proc, queue, evicting, exec, fire, aborted, through, killing>>,
         UNCHANGED <<pages, swapped, leaving, late>>,
         free' \in Nat, cache' \in Nat, accum' \in Nat, credit' \in Nat, poked' \in BOOLEAN,
         PlanShaped, Pool' = Pool, CarriedInv', HoardInv'
  PROVE  Inv'
<1> USE DEF Inv
<1>1. Shapes'
  BY DEF Shapes, live, PlanShaped
<1>2. QueueInv' /\ AwayInv'
  BY WaysFrame, FiresFrame, QueueFrame, AwayFrame
<1>3. MovesInv' /\ LedgerInv'
  BY <1>1, MovesFrame, HoldingFrame, HandsFrame, LedgerSame
<1> QED BY <1>1, <1>2, <1>3

LEMMA PlanWakesKeeps == ASSUME Inv, PlanWakes PROVE Inv'
<1> USE DEF Inv
<1>1. /\ poked' = FALSE /\ Goto(IF pauseDue THEN "pause" ELSE "loop")
      /\ UNCHANGED <<proc, queue, accum, evicting, credit, swapBlocked, prepareBlocked, killing>>
      /\ UNCHANGED <<free, cache, exhausted, pages, swapped, leaving, late>>
      /\ UNCHANGED <<exec, fire, through, aborted, spent>>
  BY DEF PlanWakes, inner, pool, guests
<1>2. PlanShaped /\ plan'.pc \in Waking /\ plan'.head = <<>>
  BY <1>1, GotoDoes DEF Waking
<1>3. CarriedInv' /\ HoardInv'
  BY <1>2, CarriesNothing, HoardLooks
<1>4. free' \in Nat /\ cache' \in Nat /\ accum' \in Nat /\ credit' \in Nat /\ poked' \in BOOLEAN
  BY <1>1 DEF Shapes
<1> QED BY <1>1, <1>2, <1>3, <1>4, PoolFrame, PlanFrame

LEMMA PausePicksKeeps == ASSUME Inv, PausePicks PROVE Inv'
<1> USE DEF Inv
<1>1. /\ \/ \E picks : plan' = [Resting EXCEPT !.pc = "pauseCommit", !.picks = picks]
         \/ plan' = [Resting EXCEPT !.pc = "loop"]
      /\ UNCHANGED <<proc, queue, accum, evicting, credit, swapBlocked, prepareBlocked, killing>>
      /\ UNCHANGED <<free, cache, exhausted, pages, swapped, leaving, late, poked>>
      /\ UNCHANGED <<exec, fire, through, aborted, spent>>
  BY DEF PausePicks, inner, pool, guests
<1>2. PlanShaped /\ plan'.pc \in Waking /\ plan'.head = <<>>
  <2>1. ASSUME NEW picks, plan' = [Resting EXCEPT !.pc = "pauseCommit", !.picks = picks]
        PROVE  PlanShaped /\ plan'.pc \in Waking /\ plan'.head = <<>>
    BY <2>1 DEF Waking, Resting, PlanShaped
  <2>2. CASE plan' = [Resting EXCEPT !.pc = "loop"]
    BY <2>2 DEF Waking, Resting, PlanShaped
  <2> QED BY <1>1, <2>1, <2>2
<1>3. CarriedInv' /\ HoardInv'
  BY <1>2, CarriesNothing, HoardLooks
<1>4. free' \in Nat /\ cache' \in Nat /\ accum' \in Nat /\ credit' \in Nat /\ poked' \in BOOLEAN
  BY <1>1 DEF Shapes
<1> QED BY <1>1, <1>2, <1>3, <1>4, PoolFrame, PlanFrame

(* The hoard grows by what it takes from the pool, and goes back whole.    *)
LEMMA HoardMoves ==
  ASSUME Shapes, UNCHANGED <<cache, late>>, free' \in Nat, accum' \in Nat,
         free' + accum' = free + accum
  PROVE  Pool' = Pool
<1>1. Lent' = Lent /\ Lent \in Nat /\ free \in Nat /\ cache \in Nat /\ accum \in Nat
  BY LentStays, PoolForms
<1>2. Pool' = free' + cache + accum' + Lent /\ Pool = free + cache + accum + Lent
  BY <1>1 DEF Pool
<1> DEFINE f == free'
           a == accum'
<1>3. f \in Nat /\ a \in Nat /\ f + a = free + accum
  BY Zenon
<1>4. Pool' = f + cache + a + Lent
  BY <1>2, Zenon
<1> HIDE DEF f, a
<1>5. f + cache + a + Lent = free + cache + accum + Lent
  BY <1>1, <1>3
<1> QED BY <1>2, <1>4, <1>5, Zenon

LEMMA AbsorbDoes ==
  ASSUME Shapes, NEW n \in Nat, Absorb(n)
  PROVE  free' \in Nat /\ accum' \in Nat /\ free' + accum' = free + accum
<1>1. free \in Nat /\ accum \in Nat
  BY DEF Shapes
<1> DEFINE m == Min({n, free})
<1>2. m \in Nat /\ m <= free
  BY <1>1, SmallerOf
<1>3. accum' = accum + m /\ free' = free - m
  BY DEF Absorb
<1> HIDE DEF m
<1> QED BY <1>1, <1>2, <1>3

LEMMA PlanLoopKeeps == ASSUME Inv, PlanLoop PROVE Inv'
<1> USE DEF Inv
<1>1. /\ UNCHANGED <<proc, queue, evicting, swapBlocked, prepareBlocked, killing>>
      /\ UNCHANGED <<cache, exhausted, poked, pauseDue, exec>>
      /\ UNCHANGED <<fire, through, aborted, spent, pages, swapped, leaving, late>>
  BY DEF PlanLoop, unmoved
<1>2. /\ free \in Nat /\ cache \in Nat /\ accum \in Nat /\ credit \in Nat /\ cache' \in Nat
      /\ poked' \in BOOLEAN
  BY <1>1 DEF Shapes
<1>3. CASE HeadAt = 0 /\ Rest /\ credit' = credit
           /\ IF accum > 0 /\ queue = <<>>
              THEN free' = free + accum /\ accum' = 0 ELSE UNCHANGED <<free, accum>>
  <2>1. free' \in Nat /\ accum' \in Nat /\ free' + accum' = free + accum
    BY <1>2, <1>3
  <2>2. accum' = 0 \/ queue' # <<>>
    BY <1>1, <1>2, <1>3
  <2>3. PlanShaped /\ CarriedInv' /\ HoardInv'
    BY <1>3, <2>2, RestDoes, CarriesNothing, HoardLooks
  <2> QED BY <1>1, <1>2, <1>3, <2>1, <2>3, HoardMoves, PlanFrame
<1>4. CASE /\ HeadAt # 0 /\ UNCHANGED <<free, accum>> /\ credit' \in Nat /\ PlanShaped
           /\ \/ plan'.head = <<>>
              \/ IsRestore(Head1) /\ plan'.head = Name(Head1) /\ plan'.pc = "restore"
  <2>1. queue' # <<>> /\ Head1 \in Entries /\ Head1 \in ToSet(queue')
    BY <1>1, <1>4, HeadWaits
  <2>2. CarriedInv' /\ HoardInv'
    <3>1. HoardInv'
      BY <2>1, HoardLooks
    <3>2. CASE plan'.head = <<>>
      BY <3>1, <3>2, CarriesNothing
    <3>3. CASE IsRestore(Head1) /\ plan'.head = Name(Head1) /\ plan'.pc = "restore"
      <4>1. Head1.by = None
        BY <3>3 DEF IsRestore
      <4>2. CarriedInv'
        BY <2>1, <3>3, <4>1, CarriesEntry
      <4> QED BY <3>1, <4>2
    <3> QED BY <1>4, <3>2, <3>3
  <2> QED BY <1>1, <1>2, <1>4, <2>2, PoolFrame, PlanFrame
<1>5. ASSUME HeadAt # 0, Missing > 0, UNCHANGED <<free, accum, credit>>, NEW f \in BOOLEAN,
             plan' = [Resting EXCEPT !.pc = "absorb", !.count = Missing, !.fund = f]
      PROVE  Inv'
  <2>1. Missing \in Nat
    BY <1>5, Funds
  <2>2. PlanShaped /\ plan'.head = <<>>
    BY <1>5, <2>1 DEF PlanShaped, Resting
  <2> QED BY <1>2, <1>4, <1>5, <2>2
<1>6. CASE HeadAt # 0 /\ Goto("burst") /\ UNCHANGED <<free, accum, credit>>
  BY <1>2, <1>4, <1>6, GotoDoes
<1>7. CASE HeadAt # 0 /\ Rest /\ UNCHANGED <<free, accum, credit>>
  BY <1>2, <1>4, <1>7, RestDoes
<1>8. CASE /\ HeadAt # 0 /\ IsRestore(Head1) /\ UNCHANGED <<free, accum>>
           /\ credit' = Minus(credit, 1)
           /\ plan' = [Resting EXCEPT !.pc = "restore", !.head = Name(Head1)]
  <2>1. credit' \in Nat
    BY <1>2, <1>8, MinusIs
  <2>2. PlanShaped /\ plan'.head = Name(Head1) /\ plan'.pc = "restore"
    BY <1>8 DEF PlanShaped, Resting
  <2> QED BY <1>4, <1>8, <2>1, <2>2
<1> QED BY <1>3, <1>5, <1>6, <1>7, <1>8 DEF PlanLoop

LEMMA PlanAbsorbsKeeps == ASSUME Inv, PlanAbsorbs PROVE Inv'
<1> USE DEF Inv
<1>1. /\ plan.pc = "absorb"
      /\ UNCHANGED <<proc, queue, evicting, credit, swapBlocked, prepareBlocked, killing>>
      /\ UNCHANGED <<poked, pauseDue, exec>>
      /\ UNCHANGED <<fire, through, aborted, spent, pages, swapped, leaving, late>>
  BY DEF PlanAbsorbs, unmoved
<1>2. /\ free \in Nat /\ cache \in Nat /\ accum \in Nat /\ plan.count \in Nat
      /\ credit' \in Nat /\ poked' \in BOOLEAN
  BY <1>1 DEF Shapes
<1>3. CASE Absorb(plan.count) /\ Goto("loop") /\ cache' = cache
  <2>1. PlanShaped /\ plan'.head = <<>> /\ plan'.pc \in Waking
    BY <1>3, GotoDoes DEF Waking
  <2>2. CarriedInv' /\ HoardInv'
    BY <2>1, CarriesNothing, HoardLooks
  <2>3. free' \in Nat /\ accum' \in Nat /\ free' + accum' = free + accum /\ cache' \in Nat
    BY <1>2, <1>3, AbsorbDoes
  <2>4. Pool' = Pool
    BY <1>1, <1>3, <2>3, HoardMoves
  <2> QED BY <1>1, <1>2, <2>1, <2>2, <2>3, <2>4, PlanFrame
<1>4. ASSUME NEW k \in 1..cache, cache' = cache - k, free' = free + k, Goto("loop"), accum' = accum
      PROVE  Inv'
  <2>1. PlanShaped /\ plan'.head = <<>> /\ plan'.pc \in Waking
    BY <1>4, GotoDoes DEF Waking
  <2>2. CarriedInv' /\ HoardInv'
    BY <2>1, CarriesNothing, HoardLooks
  <2>3. free' \in Nat /\ accum' \in Nat /\ cache' \in Nat
    BY <1>2, <1>4
  <2>4. Pool' = Pool
    <3>1. Lent' = Lent /\ Lent \in Nat
      BY <1>1, LentStays, PoolForms
    <3> QED BY <1>2, <1>4, <3>1 DEF Pool
  <2> QED BY <1>1, <1>2, <2>1, <2>2, <2>3, <2>4, PlanFrame
<1>5. CASE Goto(IF plan.fund THEN "victims" ELSE "wait") /\ UNCHANGED <<free, accum, cache>>
  <2>1. PlanShaped /\ plan'.head = <<>>
    BY <1>5, GotoDoes
  <2>2. CarriedInv' /\ HoardInv'
    BY <1>1, <1>5, <2>1, CarriesNothing, HoardFrame DEF Waking
  <2> QED BY <1>1, <1>2, <1>5, <2>1, <2>2, PoolFrame, PlanFrame
<1> QED BY <1>3, <1>4, <1>5 DEF PlanAbsorbs

(* A step that only decides what the task does next.                       *)
LEMMA PlanTurns ==
  ASSUME Inv, UNCHANGED <<proc, queue, evicting, exec, fire, aborted, through, killing>>,
         UNCHANGED <<pages, swapped, leaving, late, free, accum, cache, credit, poked>>,
         plan.pc \notin Waking, PlanShaped, CarriedInv'
  PROVE  Inv'
<1>1. /\ free' \in Nat /\ cache' \in Nat /\ accum' \in Nat /\ credit' \in Nat /\ poked' \in BOOLEAN
  BY DEF Inv, Shapes
<1>2. HoardInv'
  BY HoardFrame DEF Inv
<1> QED BY <1>1, <1>2, PoolFrame, PlanFrame

LEMMA PlanPicksVictimsKeeps == ASSUME Inv, PlanPicksVictims PROVE Inv'
<1> USE DEF Inv
<1>1. /\ plan.pc = "victims"
      /\ UNCHANGED <<proc, queue, accum, evicting, credit, prepareBlocked, killing>>
      /\ UNCHANGED <<free, cache, exhausted, poked, pauseDue, exec>>
      /\ UNCHANGED <<fire, through, aborted, spent, pages, swapped, leaving, late>>
  BY DEF PlanPicksVictims, unmoved
<1>2. \/ Rest \/ Starve("NoSwapRoom")
      \/ plan' = [Resting EXCEPT !.pc = "starve", !.cause = "NoSwapRoom"]
      \/ /\ HeadAt # 0
         /\ \/ \E picks : plan' = [Resting EXCEPT !.pc = "commit", !.head = Name(Head1), !.picks = picks]
            \/ plan' = [Resting EXCEPT !.pc = "hog", !.head = Name(Head1)]
  BY DEF PlanPicksVictims
<1>3. PlanShaped /\ CarriedInv'
  <2>1. CASE Rest
    BY <2>1, RestDoes, CarriesNothing
  <2>2. CASE Starve("NoSwapRoom")
    BY <2>2, StarveDoes, CarriesNothing
  <2>3. CASE plan' = [Resting EXCEPT !.pc = "starve", !.cause = "NoSwapRoom"]
    BY <2>3, StarveDoes, CarriesNothing DEF Starve
  <2>4. ASSUME HeadAt # 0, NEW picks,
               plan' = [Resting EXCEPT !.pc = "commit", !.head = Name(Head1), !.picks = picks]
        PROVE  PlanShaped /\ CarriedInv'
    <3>1. PlanShaped /\ plan'.head = Name(Head1) /\ plan'.pc = "commit"
      BY <2>4 DEF PlanShaped, Resting
    <3> QED BY <1>1, <2>4, <3>1, HeadWaits, CarriesEntry
  <2>5. CASE HeadAt # 0 /\ plan' = [Resting EXCEPT !.pc = "hog", !.head = Name(Head1)]
    <3>1. PlanShaped /\ plan'.head = Name(Head1) /\ plan'.pc = "hog"
      BY <2>5 DEF PlanShaped, Resting
    <3> QED BY <1>1, <2>5, <3>1, HeadWaits, CarriesEntry
  <2> QED BY <1>2, <2>1, <2>2, <2>3, <2>4, <2>5
<1> QED BY <1>1, <1>3, PlanTurns DEF Waking

LEMMA SalvageKeeps ==
  ASSUME Inv, Salvageable, Salvage,
         UNCHANGED <<proc, queue, evicting, exec, fire, aborted, through, killing>>,
         UNCHANGED <<pages, swapped, leaving, late, cache, credit>>
  PROVE  Inv'
<1> USE DEF Inv
<1>1. HeadAt # 0 /\ Absorb(Missing) /\ Rest /\ poked' = TRUE
  BY DEF Salvageable, Salvage, Poke
<1>2. free' \in Nat /\ accum' \in Nat /\ free' + accum' = free + accum
  BY <1>1, Funds, AbsorbDoes
<1>3. Pool' = Pool
  BY <1>2, HoardMoves
<1>4. PlanShaped /\ CarriedInv' /\ HoardInv'
  BY <1>1, RestDoes, CarriesNothing, HoardLooks
<1>5. cache' \in Nat /\ credit' \in Nat /\ poked' \in BOOLEAN
  BY <1>1 DEF Shapes
<1> QED BY <1>2, <1>3, <1>4, <1>5, PlanFrame

LEMMA PlanStarvesKeeps == ASSUME Inv, PlanStarves PROVE Inv'
<1> USE DEF Inv
<1>1. /\ plan.pc = "starve"
      /\ UNCHANGED <<proc, queue, evicting, credit, swapBlocked, prepareBlocked, killing>>
      /\ UNCHANGED <<cache, exhausted, pauseDue, exec>>
      /\ UNCHANGED <<fire, through, aborted, spent, pages, swapped, leaving, late>>
  BY DEF PlanStarves, unmoved
<1>2. CASE Rest /\ UNCHANGED <<free, accum, poked>>
  BY <1>1, <1>2, RestDoes, CarriesNothing, PlanTurns DEF Waking
<1>3. CASE Salvageable /\ Salvage
  BY <1>1, <1>3, SalvageKeeps
<1>4. CASE /\ plan' = [plan EXCEPT !.pc = IF plan.cause = "NoEligibleVictim"
                                          THEN "lastResort" ELSE "starveAgain"]
           /\ UNCHANGED <<free, accum, poked>>
  <2>1. PlanShaped /\ plan'.head = plan.head /\ plan'.pc \in {"lastResort", "starveAgain"}
    BY <1>4 DEF Shapes, PlanShaped, Resting
  <2>2. CarriedInv'
    BY <1>1, <2>1, CarriesOn
  <2> QED BY <1>1, <1>4, <2>1, <2>2, PlanTurns DEF Waking
<1> QED BY <1>2, <1>3, <1>4 DEF PlanStarves

LEMMA PlanLastResortKeeps == ASSUME Inv, PlanLastResort PROVE Inv'
<1> USE DEF Inv
<1>1. /\ plan.pc = "lastResort"
      /\ UNCHANGED <<proc, queue, accum, evicting, credit, swapBlocked, prepareBlocked, killing>>
      /\ UNCHANGED <<free, cache, exhausted, pages, swapped, leaving, late>>
      /\ UNCHANGED <<poked, pauseDue, exec, fire, through, aborted, spent>>
      /\ \/ plan' = [plan EXCEPT !.pc = "starveAgain"]
         \/ /\ HeadAt # 0
            /\ \E picks : plan' = [plan EXCEPT !.pc = "commit", !.head = Name(Head1),
                                               !.picks = picks, !.relaxed = TRUE]
  BY DEF PlanLastResort, inner, pool, guests
<1>2. PlanShaped /\ CarriedInv'
  <2>1. CASE plan' = [plan EXCEPT !.pc = "starveAgain"]
    <3>1. PlanShaped /\ plan'.head = plan.head /\ plan'.pc = "starveAgain"
      BY <2>1 DEF Shapes, PlanShaped, Resting
    <3> QED BY <1>1, <3>1, CarriesOn
  <2>2. ASSUME HeadAt # 0, NEW picks,
               plan' = [plan EXCEPT !.pc = "commit", !.head = Name(Head1),
                                    !.picks = picks, !.relaxed = TRUE]
        PROVE  PlanShaped /\ CarriedInv'
    <3>1. PlanShaped /\ plan'.head = Name(Head1) /\ plan'.pc = "commit"
      BY <2>2 DEF Shapes, PlanShaped, Resting
    <3> QED BY <1>1, <2>2, <3>1, HeadWaits, CarriesEntry
  <2> QED BY <1>1, <2>1, <2>2
<1> QED BY <1>1, <1>2, PlanTurns DEF Waking

-----------------------------------------------------------------------------
(* Outcomes: entries written in place. *)

Rewrites ==
  /\ queue' = [i \in DOMAIN queue |-> queue'[i]]
  /\ \A i \in DOMAIN queue :
       /\ queue'[i] \in Entries /\ Name(queue'[i]) = Name(queue[i])
       /\ queue[i].by # None => queue'[i].need = queue[i].need
       /\ queue[i].by = None => queue'[i].outcome = "none"

LEMMA RewrittenForms ==
  ASSUME Shapes, QueueInv, Rewrites
  PROVE  /\ queue' \in Seq(Entries) /\ DOMAIN queue' = DOMAIN queue /\ OneEach(queue')
         /\ (queue' = <<>> <=> queue = <<>>)
         /\ \A i \in DOMAIN queue :
              /\ queue[i] \in Entries /\ queue'[i] \in Entries
              /\ queue'[i].pid = queue[i].pid /\ queue'[i].by = queue[i].by
              /\ queue[i] \in ToSet(queue) /\ queue'[i] \in ToSet(queue')
         /\ \A e \in ToSet(queue') : \E i \in DOMAIN queue : e = queue'[i]
         /\ \A e \in ToSet(queue) : \E i \in DOMAIN queue : e = queue[i]
<1>1. queue \in Seq(Entries) /\ OneEach(queue)
  BY DEF Shapes, QueueInv
<1> DEFINE q == queue'
<1>2. q = [i \in DOMAIN queue |-> q[i]] /\ \A i \in DOMAIN queue : q[i] \in Entries /\ Name(q[i]) = Name(queue[i])
  BY DEF Rewrites
<1> HIDE DEF q
<1>3. q \in Seq(Entries) /\ DOMAIN q = DOMAIN queue /\ OneEach(q) /\ (q = <<>> <=> queue = <<>>)
  BY <1>1, <1>2, RewrittenDoes
<1>4. \A i \in DOMAIN queue : queue[i] \in Entries /\ queue[i] \in ToSet(queue)
  BY QueueIndexed
<1>5. \A i \in DOMAIN queue : q[i].pid = queue[i].pid /\ q[i].by = queue[i].by
  BY <1>2, <1>4, SameName
<1>6. /\ \A i \in DOMAIN queue : q[i] \in ToSet(q)
      /\ \A e \in ToSet(q) : \E i \in DOMAIN queue : e = q[i]
      /\ \A e \in ToSet(queue) : \E i \in DOMAIN queue : e = queue[i]
  BY <1>3 DEF ToSet
<1> QED BY <1>2, <1>3, <1>4, <1>5, <1>6 DEF q

(* The processes of queued restores stay evicted.                          *)
RestoresStay ==
  /\ live' = live
  /\ \A i \in DOMAIN queue : queue[i].by = None =>
       proc'[queue[i].pid].state = "evicted" /\ proc'[queue[i].pid].parked = None

LEMMA QueueRewritten ==
  ASSUME Shapes, QueueInv, Rewrites, fire' = fire, RestoresStay
  PROVE  /\ QueueInv'
         /\ \A p : RestoreQueued(p)' <=> RestoreQueued(p)
<1>1. OneEach(queue')
  BY RewrittenForms
<1>2. ASSUME NEW e \in ToSet(queue') PROVE EntryOK(e)'
  <2>1. PICK i \in DOMAIN queue : e = queue'[i]
    BY RewrittenForms
  <2>2. /\ queue[i] \in ToSet(queue) /\ e.pid = queue[i].pid /\ e.by = queue[i].by
        /\ queue[i].by # None => e.need = queue[i].need
        /\ queue[i].by = None => e.outcome = "none"
    BY <2>1, RewrittenForms DEF Rewrites
  <2>3. EntryOK(queue[i])
    BY <2>2 DEF QueueInv
  <2> QED BY <2>2, <2>3 DEF EntryOK, RestoresStay
<1>3. ASSUME NEW c \in Lanes, fire'[c].st = "parked" PROVE \E e \in ToSet(queue') : e.by = c
  <2>1. PICK e \in ToSet(queue) : e.by = c
    BY <1>3 DEF QueueInv
  <2>2. PICK i \in DOMAIN queue : e = queue[i]
    BY RewrittenForms
  <2> QED BY <2>1, <2>2, RewrittenForms
<1>4. \A c \in Lanes : fire'[c].st # "idle" => Owner[c] \in live'
  BY DEF QueueInv, RestoresStay
<1>5. ASSUME NEW p PROVE RestoreQueued(p)' <=> RestoreQueued(p)
  <2>1. RestoreQueued(p) <=> \E i \in DOMAIN queue : queue[i].pid = p /\ queue[i].by = None
    BY RewrittenForms DEF RestoreQueued
  <2>2. RestoreQueued(p)' <=> \E i \in DOMAIN queue : queue'[i].pid = p /\ queue'[i].by = None
    BY RewrittenForms DEF RestoreQueued
  <2>3. \A i \in DOMAIN queue : queue'[i].pid = queue[i].pid /\ queue'[i].by = queue[i].by
    BY RewrittenForms
  <2> QED BY <2>1, <2>2, <2>3
<1> QED BY <1>1, <1>2, <1>3, <1>4, <1>5 DEF QueueInv

(* Which of the asks are served: the pages promised grow by what they need. *)
Serves(served) ==
  /\ served \in SUBSET Asks
  /\ \A i \in served : queue'[i].outcome = "ok"
  /\ \A i \in DOMAIN queue \ served : queue'[i].outcome = "ok" <=> queue[i].outcome = "ok"

LEMMA HandsServed ==
  ASSUME Shapes, QueueInv, Rewrites, fire' = fire, NEW served, Serves(served)
  PROVE  /\ NeedOf(served) \in Nat
         /\ SumFunctionOnSet(InHand', Lanes) = SumFunctionOnSet(InHand, Lanes) + NeedOf(served)
<1> DEFINE C == {queue[i].by : i \in served}
           g == [c \in Lanes |-> IF c \in C THEN fire[c].n ELSE 0]
<1>1. /\ served \in SUBSET (DOMAIN queue)
      /\ \A i \in served : queue[i].by # None /\ queue[i].outcome = "none"
  BY WaitingForms DEF Serves
<1>2. C \in SUBSET Lanes /\ NeedOf(served) = SumFunctionOnSet(g, Lanes) /\ NeedOf(served) \in Nat
  BY <1>1, NeedByLane
<1>3. \A c \in Lanes : g[c] \in Int /\ InHand[c] \in Int
  BY FireForms, InHandForms
<1>4. ASSUME NEW c \in Lanes
      PROVE  /\ Promised(c) <=> \E i \in DOMAIN queue : queue[i].by = c /\ queue[i].outcome = "ok"
             /\ Promised(c)' <=> \E i \in DOMAIN queue : queue[i].by = c /\ queue'[i].outcome = "ok"
  <2>1. Promised(c) <=> \E i \in DOMAIN queue : queue[i].by = c /\ queue[i].outcome = "ok"
    BY RewrittenForms DEF Promised
  <2>2. Promised(c)' <=> \E i \in DOMAIN queue : queue'[i].by = c /\ queue'[i].outcome = "ok"
    BY RewrittenForms DEF Promised
  <2>3. \A i \in DOMAIN queue : queue'[i].by = queue[i].by
    BY RewrittenForms
  <2> QED BY <2>1, <2>2, <2>3
<1>5. ASSUME NEW c \in Lanes PROVE InHand'[c] = InHand[c] + g[c]
  <2>1. CASE c \in C
    <3>1. PICK i \in served : queue[i].by = c
      BY <2>1
    <3>2. queue[i] \in ToSet(queue) /\ queue[i] \in Entries /\ i \in DOMAIN queue
      BY <1>1, QueueIndexed
    <3>3. fire[c].st = "parked" /\ queue[i].pid = Owner[c]
      BY <1>1, <3>1, <3>2 DEF QueueInv, EntryOK
    <3>4. ~Promised(c)
      <4>1. SUFFICES ASSUME NEW j \in DOMAIN queue, queue[j].by = c, queue[j].outcome = "ok"
                     PROVE FALSE
        BY <1>4
      <4>2. queue[j] \in ToSet(queue) /\ queue[j] \in Entries
        BY QueueIndexed
      <4>3. queue[j].pid = Owner[c]
        BY <4>1, <4>2, Constants DEF QueueInv, EntryOK
      <4>4. j = i
        BY <3>1, <3>2, <3>3, <4>1, <4>2, <4>3, SameName DEF QueueInv, OneEach
      <4> QED BY <1>1, <4>1, <4>4
    <3>5. Promised(c)'
      BY <1>4, <3>1, <3>2 DEF Serves
    <3>6. InHand[c] = 0 /\ InHand'[c] = fire[c].n /\ g[c] = fire[c].n /\ fire[c].n \in Nat
      BY <2>1, <3>3, <3>4, <3>5, FireForms DEF InHand
    <3> HIDE DEF g, C
    <3> QED BY <3>6
  <2>2. CASE c \notin C
    <3>1. Promised(c)' <=> Promised(c)
      BY <1>4, <2>2 DEF Serves
    <3>2. InHand'[c] = InHand[c] /\ g[c] = 0
      BY <2>2, <3>1 DEF InHand
    <3> HIDE DEF g, C
    <3> QED BY <1>3, <3>2
  <2> QED BY <2>1, <2>2
<1> HIDE DEF g, C
<1>6. SumFunctionOnSet(InHand', Lanes) = SumFunctionOnSet(InHand, Lanes) + SumFunctionOnSet(g, Lanes)
  <2>1. IsFiniteSet(Lanes)
    BY Constants
  <2>2. \A c \in Lanes : InHand[c] \in Int /\ g[c] \in Int /\ InHand'[c] = InHand[c] + g[c]
    BY <1>3, <1>5
  <2> QED BY <2>1, <2>2, SumPlus
<1> QED BY <1>2, <1>6

LEMMA LedgerServes ==
  ASSUME Shapes, QueueInv, LedgerInv, Rewrites, fire' = fire, SamePages, SameBelow,
         NEW served, Serves(served), Pool' = Pool - NeedOf(served)
  PROVE  LedgerInv'
<1>1. /\ SumFunctionOnSet(PagesOf', Processes) = SumFunctionOnSet(PagesOf, Processes)
      /\ SumFunctionOnSet(BelowOf', Processes) = SumFunctionOnSet(BelowOf, Processes)
      /\ SumFunctionOnSet(InHand', Lanes) = SumFunctionOnSet(InHand, Lanes) + NeedOf(served)
      /\ NeedOf(served) \in Nat
  BY PagesStay, BelowStays, HandsServed
<1>2. /\ Pool \in Nat /\ SumFunctionOnSet(PagesOf, Processes) \in Nat
      /\ SumFunctionOnSet(InHand, Lanes) \in Nat
  BY PoolForms, LedgerForms
<1>3. Total = Pool + SumFunctionOnSet(PagesOf, Processes) + SumFunctionOnSet(InHand, Lanes)
  BY DEF LedgerInv
<1>4. Total = Pool' + SumFunctionOnSet(PagesOf', Processes) + SumFunctionOnSet(InHand', Lanes)
  BY <1>1, <1>2, <1>3
<1> QED BY <1>1, <1>4 DEF LedgerInv

(* A step of the planner task that writes outcomes.                        *)
LEMMA OutcomeFrame ==
  ASSUME Inv, Rewrites, UNCHANGED <<proc, evicting, exec, fire, aborted, through>>,
         UNCHANGED <<pages, swapped, leaving, late, cache, credit>>, killing' \in SUBSET live,
         free' \in Nat, accum' \in Nat, poked' \in BOOLEAN, PlanShaped, plan'.head = <<>>, HoardInv',
         NEW served, Serves(served), Pool' = Pool - NeedOf(served)
  PROVE  Inv'
<1> USE DEF Inv
<1>1. Shapes'
  BY RewrittenForms DEF Shapes, live, PlanShaped
<1>2. RestoresStay
  <2>1. ASSUME NEW i \in DOMAIN queue, queue[i].by = None
        PROVE  proc[queue[i].pid].state = "evicted" /\ proc[queue[i].pid].parked = None
    BY <2>1, QueueIndexed DEF QueueInv, EntryOK
  <2> QED BY <2>1 DEF RestoresStay, live
<1>3. QueueInv' /\ \A p : RestoreQueued(p)' <=> RestoreQueued(p)
  BY <1>2, QueueRewritten
<1>4. AwayInv'
  <2>1. ASSUME NEW p \in live PROVE AwayOK(p)'
    <3>1. AwayOK(p)
      BY DEF AwayInv
    <3> QED BY <1>3, <3>1 DEF AwayOK
  <2> QED BY <2>1 DEF AwayInv, live
<1>5. MovesInv' /\ LedgerInv'
  BY MovesFrame, HoldingFrame, LedgerServes
<1> QED BY <1>1, <1>3, <1>4, <1>5, CarriesNothing

LEMMA CarriedFound ==
  ASSUME Inv, plan.head # <<>>
  PROVE  /\ At(plan.head) \in DOMAIN queue /\ Name(queue[At(plan.head)]) = plan.head
         /\ queue[At(plan.head)] \in Entries /\ queue[At(plan.head)] \in ToSet(queue)
         /\ plan.head[1] = queue[At(plan.head)].pid /\ plan.head[2] = queue[At(plan.head)].by
<1>1. PICK e \in ToSet(queue) : Name(e) = plan.head
  BY DEF Inv, CarriedInv
<1>2. At(Name(e)) \in DOMAIN queue /\ queue[At(Name(e))] = e
  BY AtFinds DEF Inv, Shapes, QueueInv
<1>3. e \in Entries
  BY QueueIndexed DEF Inv
<1> QED BY <1>1, <1>2, <1>3, EntryForms

LEMMA NoneServed ==
  ASSUME Shapes PROVE NeedOf({}) = 0
BY NeedIs, SumEmpty

LEMMA EntryWritten ==
  ASSUME NEW e \in Entries
  PROVE  /\ \A o \in {"none", "ok", "failed"} :
              LET d == [e EXCEPT !.outcome = o]
              IN  d \in Entries /\ Name(d) = Name(e) /\ d.need = e.need /\ d.outcome = o
         /\ \A n \in Nat :
              LET d == [e EXCEPT !.need = n]
              IN  d \in Entries /\ Name(d) = Name(e) /\ d.need = n /\ d.outcome = e.outcome
         /\ LET d == [e EXCEPT !.yielded = TRUE]
            IN  d \in Entries /\ Name(d) = Name(e) /\ d.need = e.need /\ d.outcome = e.outcome
BY DEF Entries, Name

(* An ask that fails had not been granted.                                 *)
LEMMA FailDoes ==
  ASSUME Shapes, QueueInv, NEW i \in DOMAIN queue, queue[i].by # None,
         queue[i].outcome = "none", Fail(i)
  PROVE  Rewrites /\ Serves({})
<1>1. \A j \in DOMAIN queue : queue[j] \in Entries /\ queue[j] \in ToSet(queue)
  BY QueueIndexed
<1>2. /\ queue' = [j \in DOMAIN queue |-> queue'[j]]
      /\ queue'[i] = [queue[i] EXCEPT !.outcome = "failed"]
      /\ \A j \in DOMAIN queue : j # i => queue'[j] = queue[j]
  BY DEF Fail
<1>3. /\ queue'[i] \in Entries /\ Name(queue'[i]) = Name(queue[i])
      /\ queue'[i].need = queue[i].need /\ queue'[i].outcome = "failed"
  <2> DEFINE e == queue[i]
             d == [e EXCEPT !.outcome = "failed"]
  <2>1. e \in Entries
    BY <1>1
  <2> HIDE DEF e
  <2>2. d \in Entries /\ Name(d) = Name(e) /\ d.need = e.need /\ d.outcome = "failed"
    BY <2>1, EntryWritten
  <2>3. queue'[i] = d
    BY <1>2 DEF e
  <2> HIDE DEF d
  <2> QED BY <2>2, <2>3 DEF e
<1>4. \A j \in DOMAIN queue : queue[j].by = None => queue[j].outcome = "none"
  BY <1>1 DEF QueueInv, EntryOK
<1>5. Rewrites
  BY <1>1, <1>2, <1>3, <1>4 DEF Rewrites
<1>6. Serves({})
  BY <1>2, <1>3 DEF Serves
<1> QED BY <1>5, <1>6

LEMMA OutcomeFails ==
  ASSUME Inv, NEW i \in DOMAIN queue, queue[i].by # None, queue[i].outcome = "none", Fail(i),
         UNCHANGED <<proc, evicting, exec, fire, aborted, through>>,
         UNCHANGED <<pages, swapped, leaving, late, free, cache, accum, credit, poked>>,
         killing' \in SUBSET live, plan.pc \notin Waking, Rest
  PROVE  Inv'
<1> USE DEF Inv
<1>1. Rewrites /\ Serves({})
  BY FailDoes
<1>2. PlanShaped /\ plan'.head = <<>>
  BY RestDoes
<1>3. queue' = <<>> => queue = <<>>
  BY <1>1, RewrittenForms
<1>4. HoardInv'
  BY <1>3, HoardFrame
<1>5. Pool' = Pool - NeedOf({})
  <2>1. Pool' = Pool /\ Pool \in Nat
    BY PoolFrame, PoolForms
  <2> QED BY <2>1, NoneServed
<1>6. free' \in Nat /\ accum' \in Nat /\ poked' \in BOOLEAN
  BY DEF Shapes
<1> QED BY <1>1, <1>2, <1>4, <1>5, <1>6, OutcomeFrame

LEMMA PlanChecksHogKeeps == ASSUME Inv, PlanChecksHog PROVE Inv'
<1> USE DEF Inv
<1>1. /\ plan.pc = "hog"
      /\ UNCHANGED <<proc, accum, evicting, credit, swapBlocked, prepareBlocked, killing>>
      /\ UNCHANGED <<free, cache, exhausted, poked, pauseDue, exec>>
      /\ UNCHANGED <<fire, through, aborted, spent, pages, swapped, leaving, late>>
  BY DEF PlanChecksHog, unmoved
<1>2. CASE plan.head # <<>> /\ Hog(At(plan.head)) /\ Fail(At(plan.head)) /\ Rest
  <2>1. At(plan.head) \in DOMAIN queue
    BY <1>2, CarriedFound
  <2>2. queue[At(plan.head)].by # None /\ queue[At(plan.head)].outcome = "none"
    BY <1>2 DEF Hog, IsRestore
  <2>3. killing' \in SUBSET live
    BY <1>1 DEF Shapes
  <2> QED BY <1>1, <1>2, <2>1, <2>2, <2>3, OutcomeFails DEF Waking
<1>3. CASE Starve("NoEligibleVictim") /\ queue' = queue
  BY <1>1, <1>3, StarveDoes, CarriesNothing, PlanTurns DEF Waking
<1> QED BY <1>2, <1>3 DEF PlanChecksHog

LEMMA VictimAsks ==
  ASSUME Shapes, StarvationVictim # 0
  PROVE  /\ StarvationVictim \in DOMAIN queue
         /\ queue[StarvationVictim] \in Entries /\ queue[StarvationVictim] \in ToSet(queue)
         /\ queue[StarvationVictim].by # None
<1> DEFINE asks == {i \in DOMAIN queue : ~IsRestore(queue[i]) /\ queue[i].outcome = "none"}
           holders == {i \in asks : pages[queue[i].pid] > 0}
           restartable == {i \in holders : queue[i].pid \in Restartable}
<1>1. Len(queue) \in Nat /\ DOMAIN queue = 1..Len(queue)
  BY QueueIndexed
<1>2. /\ asks \in SUBSET (0..Len(queue)) /\ holders \in SUBSET (0..Len(queue))
      /\ restartable \in SUBSET (0..Len(queue))
  BY <1>1
<1>3. holders \subseteq asks /\ restartable \subseteq asks
  OBVIOUS
<1>4. \/ restartable # {} /\ StarvationVictim = Max(restartable)
      \/ holders # {} /\ StarvationVictim = Max(holders)
      \/ asks # {} /\ StarvationVictim = Max(asks)
  BY DEF StarvationVictim
<1>5. \A i \in asks : i \in DOMAIN queue /\ queue[i].by # None
  BY DEF IsRestore
<1> HIDE DEF asks, holders, restartable
<1>6. StarvationVictim \in asks
  BY <1>1, <1>2, <1>3, <1>4, LastPosition
<1> QED BY <1>5, <1>6, QueueIndexed

LEMMA PlanJudgesKeeps == ASSUME Inv, PlanJudges PROVE Inv'
<1> USE DEF Inv
<1>1. /\ plan.pc = "judge"
      /\ UNCHANGED <<proc, accum, evicting, credit, swapBlocked, prepareBlocked, killing>>
      /\ UNCHANGED <<free, cache, exhausted, poked, pauseDue, exec>>
      /\ UNCHANGED <<fire, through, aborted, spent, pages, swapped, leaving, late>>
  BY DEF PlanJudges, unmoved
<1>2. CASE Rest /\ queue' = queue
  BY <1>1, <1>2, RestDoes, CarriesNothing, PlanTurns DEF Waking
<1>3. CASE HeadAt # 0 /\ Hog(HeadAt) /\ Fail(HeadAt) /\ Rest
  <2>1. HeadAt \in DOMAIN queue
    BY <1>3, HeadWaits
  <2>2. queue[HeadAt].by # None /\ queue[HeadAt].outcome = "none"
    BY <1>3 DEF Hog, IsRestore
  <2>3. killing' \in SUBSET live
    BY <1>1 DEF Shapes
  <2> QED BY <1>1, <1>3, <2>1, <2>2, <2>3, OutcomeFails DEF Waking
<1>4. CASE /\ StarvationVictim # 0 /\ queue' = queue
           /\ plan' = [plan EXCEPT !.pc = "verdict", !.head = Name(queue[StarvationVictim])]
  <2>1. PlanShaped /\ plan'.pc = "verdict" /\ plan'.head = Name(queue[StarvationVictim])
    BY <1>4 DEF Shapes, PlanShaped, Resting
  <2>2. CarriedInv'
    BY <1>4, <2>1, VictimAsks, CarriesEntry
  <2> QED BY <1>1, <1>4, <2>1, <2>2, PlanTurns DEF Waking
<1> QED BY <1>2, <1>3, <1>4 DEF PlanJudges, Rest

LEMMA PlanGivesVerdictKeeps == ASSUME Inv, PlanGivesVerdict PROVE Inv'
<1> USE DEF Inv
<1> DEFINE i == At(plan.head)
<1>1. /\ plan.pc = "verdict" /\ Rest
      /\ UNCHANGED <<proc, accum, evicting, credit, swapBlocked, prepareBlocked>>
      /\ UNCHANGED <<free, cache, exhausted, poked, pauseDue, exec>>
      /\ UNCHANGED <<fire, through, aborted, spent, pages, swapped, leaving, late>>
  BY DEF PlanGivesVerdict, unmoved
<1>2. CASE UNCHANGED <<queue, killing>>
  BY <1>1, <1>2, RestDoes, CarriesNothing, PlanTurns DEF Waking
<1>3. CASE /\ plan.head # <<>> /\ queue[i].outcome = "none" /\ Fail(i)
           /\ killing' = killing \cup {queue[i].pid}
  <2>1. i \in DOMAIN queue /\ queue[i].by # None /\ queue[i] \in ToSet(queue)
    BY <1>1, <1>3, CarriedFound DEF CarriedInv
  <2>2. killing' \in SUBSET live
    BY <1>3, <2>1 DEF Shapes, QueueInv, EntryOK
  <2> HIDE DEF i
  <2> QED BY <1>1, <1>3, <2>1, <2>2, OutcomeFails DEF Waking
<1> QED BY <1>2, <1>3 DEF PlanGivesVerdict

LEMMA ServeDoes ==
  ASSUME Shapes, QueueInv, NEW served \in SUBSET Asks,
         queue' = [i \in DOMAIN queue |->
           IF i \in served THEN [queue[i] EXCEPT !.outcome = "ok"] ELSE queue[i]]
  PROVE  Rewrites /\ Serves(served)
<1>1. \A j \in DOMAIN queue : queue[j] \in Entries /\ queue[j] \in ToSet(queue)
  BY QueueIndexed
<1>2. /\ queue' = [j \in DOMAIN queue |-> queue'[j]]
      /\ \A j \in DOMAIN queue :
           queue'[j] = IF j \in served THEN [queue[j] EXCEPT !.outcome = "ok"] ELSE queue[j]
  OBVIOUS
<1>3. \A j \in DOMAIN queue : queue[j].by = None => queue[j].outcome = "none"
  BY <1>1 DEF QueueInv, EntryOK
<1>4. \A j \in served : j \in DOMAIN queue /\ queue[j].by # None
  BY WaitingForms
<1>5. ASSUME NEW j \in served
      PROVE  /\ queue'[j] \in Entries /\ Name(queue'[j]) = Name(queue[j])
             /\ queue'[j].need = queue[j].need /\ queue'[j].outcome = "ok"
  <2> DEFINE e == queue[j]
             d == [e EXCEPT !.outcome = "ok"]
  <2>1. e \in Entries
    BY <1>1, <1>4
  <2> HIDE DEF e
  <2>2. d \in Entries /\ Name(d) = Name(e) /\ d.need = e.need /\ d.outcome = "ok"
    BY <2>1, EntryWritten
  <2>3. queue'[j] = d
    BY <1>2, <1>4 DEF e
  <2> HIDE DEF d
  <2> QED BY <2>2, <2>3 DEF e
<1>6. \A j \in DOMAIN queue \ served : queue'[j] = queue[j]
  BY <1>2
<1>7. Rewrites
  <2>1. ASSUME NEW j \in DOMAIN queue
        PROVE  /\ queue'[j] \in Entries /\ Name(queue'[j]) = Name(queue[j])
               /\ queue[j].by # None => queue'[j].need = queue[j].need
               /\ queue[j].by = None => queue'[j].outcome = "none"
    <3>1. CASE j \in served
      BY <1>4, <1>5, <3>1
    <3>2. CASE j \notin served
      BY <1>1, <1>3, <1>6, <3>2
    <3> QED BY <3>1, <3>2
  <2> QED BY <1>2, <2>1 DEF Rewrites
<1>8. Serves(served)
  BY <1>5, <1>6 DEF Serves
<1> QED BY <1>7, <1>8

LEMMA AsksNeed ==
  ASSUME Shapes, QueueInv, NEW S \in SUBSET Asks
  PROVE  IsFiniteSet(S) /\ NeedOf(S) \in Nat /\ \A i \in S : queue[i].need \in Nat
<1>1. S \in SUBSET (DOMAIN queue) /\ \A i \in S : queue[i].by # None /\ queue[i] \in Entries
  BY WaitingForms
<1>2. NeedOf(S) \in Nat
  BY <1>1, NeedByLane
<1>3. IsFiniteSet(S)
  BY <1>1, QueueIndexed, FS_Subset
<1> QED BY <1>1, <1>2, <1>3, EntryForms

LEMMA NeedOfOne ==
  ASSUME Shapes, QueueInv, NEW i \in Asks
  PROVE  NeedOf({i}) = queue[i].need
<1> DEFINE f == [j \in {i} |-> queue[j].need]
<1>1. IsFiniteSet({i}) /\ queue[i].need \in Nat
  BY AsksNeed
<1>2. NeedOf({i}) = SumFunctionOnSet(f, {i})
  BY NeedIs
<1>3. (\A j \in {i} : f[j] \in Int) /\ f[i] = queue[i].need
  BY <1>1
<1>4. {i} \ {i} = {}
  OBVIOUS
<1> HIDE DEF f
<1>5. SumFunctionOnSet(f, {i}) = f[i] + SumFunctionOnSet(f, {i} \ {i})
  BY <1>1, <1>3, SumStep
<1>6. SumFunctionOnSet(f, {i} \ {i}) = 0
  BY <1>4, SumEmpty
<1> QED BY <1>1, <1>2, <1>3, <1>5, <1>6

(* Fewer asks need no more.                                                *)
LEMMA FewerNeedLess ==
  ASSUME Shapes, QueueInv, NEW P \in SUBSET Asks, NEW S \in SUBSET P
  PROVE  NeedOf(S) <= NeedOf(P)
<1> DEFINE f == [i \in P |-> queue[i].need]
           g == [i \in S |-> queue[i].need]
<1>1. S \in SUBSET Asks
  OBVIOUS
<1>2. IsFiniteSet(P) /\ IsFiniteSet(S) /\ \A i \in P : queue[i].need \in Nat
  BY <1>1, AsksNeed
<1>3. IsFiniteSet(P \ S)
  BY <1>2, FS_Subset
<1>4. NeedOf(P) = SumFunctionOnSet(f, P) /\ NeedOf(S) = SumFunctionOnSet(g, S)
  BY NeedIs
<1>5. /\ \A i \in P : f[i] \in Nat
      /\ \A i \in S : g[i] \in Int /\ g[i] = f[i]
      /\ \A i \in P \ S : f[i] \in Nat
  BY <1>2
<1> HIDE DEF f, g
<1>6. \A i \in P : f[i] \in Int
  BY <1>5
<1>7. SumFunctionOnSet(f, P) = SumFunctionOnSet(f, S) + SumFunctionOnSet(f, P \ S)
  BY <1>2, <1>6, SumSplit
<1>8. SumFunctionOnSet(g, S) = SumFunctionOnSet(f, S)
  BY <1>2, <1>5, SumSame
<1>9. SumFunctionOnSet(f, P \ S) \in Nat
  BY <1>3, <1>5, SumNat
<1>10. NeedOf(S) \in Nat
  BY <1>1, AsksNeed
<1> QED BY <1>4, <1>7, <1>8, <1>9, <1>10

(* serve_burst gives no more than the hoard has.                           *)
LEMMA BurstCovered ==
  ASSUME Shapes, QueueInv, NEW supply \in Nat
  PROVE  Burst(supply) \in SUBSET Asks /\ NeedOf(Burst(supply)) <= supply
<1> DEFINE served == Burst(supply)
           P(m) == {j \in Asks : HeadAt <= j /\ j <= m}
<1>1. served \in SUBSET Asks
  BY DEF Burst
<1>2. CASE served = {}
  BY <1>1, <1>2, NoneServed
<1>3. CASE served # {}
  <2>1. Len(queue) \in Nat /\ served \in SUBSET (0..Len(queue))
    BY <1>1, WaitingForms, QueueIndexed
  <2> DEFINE m == Max(served)
  <2>2. m \in served /\ \A j \in served : j <= m
    <3> HIDE DEF served
    <3> QED BY <1>3, <2>1, LastPosition
  <2>3. NeedOf(P(m)) <= supply
    BY <2>2 DEF Burst
  <2>4. \A j \in served : j \in Asks /\ HeadAt <= j
    BY DEF Burst
  <2>5. served \in SUBSET P(m) /\ P(m) \in SUBSET Asks
    BY <2>2, <2>4
  <2> HIDE DEF served, m, P
  <2>6. NeedOf(served) <= NeedOf(P(m))
    BY <2>5, FewerNeedLess
  <2>7. NeedOf(P(m)) \in Nat /\ NeedOf(served) \in Nat
    BY <1>1, <2>5, AsksNeed
  <2>8. NeedOf(served) <= supply
    BY <2>3, <2>6, <2>7
  <2> QED BY <1>1, <2>8 DEF served
<1> QED BY <1>2, <1>3

LEMMA PlanServesBurstKeeps == ASSUME Inv, PlanServesBurst PROVE Inv'
<1> USE DEF Inv
<1> DEFINE extra == Min({BurstShortfall, free})
           served == IF HeadAt # 0 /\ ~IsRestore(Head1) THEN Burst(accum + extra) ELSE {}
<1>1. /\ free' = free - extra /\ accum' = accum + extra - NeedOf(served)
      /\ queue' = [i \in DOMAIN queue |->
           IF i \in served THEN [queue[i] EXCEPT !.outcome = "ok"] ELSE queue[i]]
      /\ Goto("loop")
      /\ UNCHANGED <<proc, evicting, credit, swapBlocked, prepareBlocked, killing>>
      /\ UNCHANGED <<cache, exhausted, poked, pauseDue, exec>>
      /\ UNCHANGED <<fire, through, aborted, spent, pages, swapped, leaving, late>>
  BY DEF PlanServesBurst, unmoved
<1>2. free \in Nat /\ accum \in Nat /\ cache \in Nat
  BY DEF Shapes
<1>3. extra \in Nat /\ extra <= free
  <2>1. NeedOf(Asks) \in Int /\ accum \in Int
    BY <1>2, AsksNeed
  <2>2. BurstShortfall \in Nat
    BY <2>1, MinusIs DEF BurstShortfall
  <2> QED BY <1>2, <2>2, SmallerOf
<1> HIDE DEF extra
<1>4. served \in SUBSET Asks /\ NeedOf(served) <= accum + extra
  <2>1. accum + extra \in Nat
    BY <1>2, <1>3
  <2>2. Burst(accum + extra) \in SUBSET Asks /\ NeedOf(Burst(accum + extra)) <= accum + extra
    BY <2>1, BurstCovered
  <2>3. NeedOf({}) <= accum + extra
    BY <2>1, NoneServed
  <2> QED BY <2>2, <2>3
<1> HIDE DEF served
<1>5. NeedOf(served) \in Nat
  BY <1>4, AsksNeed
<1>6. free' \in Nat /\ accum' \in Nat
  BY <1>1, <1>2, <1>3, <1>4, <1>5
<1>7. Rewrites /\ Serves(served)
  BY <1>1, <1>4, ServeDoes
<1>8. Pool' = Pool - NeedOf(served)
  <2>1. Lent' = Lent /\ Lent \in Nat
    BY <1>1, LentStays, PoolForms
  <2> QED BY <1>1, <1>2, <1>3, <1>5, <2>1 DEF Pool
<1>9. PlanShaped /\ plan'.head = <<>> /\ plan'.pc \in Waking
  BY <1>1, GotoDoes DEF Waking
<1>10. killing' \in SUBSET live /\ poked' \in BOOLEAN
  BY <1>1 DEF Shapes
<1>11. HoardInv'
  BY <1>9, HoardLooks
<1> QED BY <1>1, <1>6, <1>7, <1>8, <1>9, <1>10, <1>11, OutcomeFrame

LEMMA PlanStarvesAgainKeeps == ASSUME Inv, PlanStarvesAgain PROVE Inv'
<1> USE DEF Inv
<1> DEFINE m == Min(HoardServes)
<1>1. /\ plan.pc = "starveAgain"
      /\ UNCHANGED <<proc, evicting, credit, swapBlocked, prepareBlocked, killing>>
      /\ UNCHANGED <<cache, exhausted, pauseDue, exec>>
      /\ UNCHANGED <<fire, through, aborted, spent, pages, swapped, leaving, late>>
  BY DEF PlanStarvesAgain, unmoved
<1>2. CASE Rest /\ UNCHANGED <<free, accum, poked, queue>>
  BY <1>1, <1>2, RestDoes, CarriesNothing, PlanTurns DEF Waking
<1>3. CASE Salvageable /\ Salvage /\ queue' = queue
  BY <1>1, <1>3, SalvageKeeps
<1>4. CASE /\ HoardServes # {} /\ queue' = [queue EXCEPT ![m].outcome = "ok"]
           /\ accum' = accum - queue[m].need /\ Poke /\ Rest /\ free' = free
  <2>1. HoardServes \in SUBSET Nat /\ HoardServes \in SUBSET Asks
    BY WaitingForms DEF HoardServes
  <2>2. m \in HoardServes
    BY <1>4, <2>1, FirstPosition
  <2>3. m \in Asks /\ queue[m].need <= accum
    BY <2>2 DEF HoardServes
  <2> HIDE DEF m
  <2>4. NeedOf({m}) = queue[m].need /\ queue[m].need \in Nat /\ {m} \in SUBSET Asks
    BY <2>3, NeedOfOne, AsksNeed
  <2>5. free \in Nat /\ accum \in Nat /\ cache \in Nat
    BY DEF Shapes
  <2>6. free' \in Nat /\ accum' \in Nat
    BY <1>4, <2>3, <2>4, <2>5
  <2>7. queue' = [i \in DOMAIN queue |->
           IF i \in {m} THEN [queue[i] EXCEPT !.outcome = "ok"] ELSE queue[i]]
    BY <1>4
  <2>8. Rewrites /\ Serves({m})
    BY <2>4, <2>7, ServeDoes
  <2>9. Pool' = Pool - NeedOf({m})
    <3>1. Lent' = Lent /\ Lent \in Nat
      BY <1>1, LentStays, PoolForms
    <3> QED BY <1>1, <1>4, <2>4, <2>5, <3>1 DEF Pool
  <2>10. PlanShaped /\ plan'.head = <<>>
    BY <1>4, RestDoes
  <2>11. killing' \in SUBSET live /\ poked' \in BOOLEAN /\ poked'
    BY <1>1, <1>4 DEF Shapes, Poke
  <2>12. HoardInv'
    BY <2>11, HoardLooks
  <2> QED BY <1>1, <2>6, <2>8, <2>9, <2>10, <2>11, <2>12, OutcomeFrame
<1>5. CASE plan' = [plan EXCEPT !.pc = "judge", !.head = <<>>] /\ UNCHANGED <<free, accum, poked, queue>>
  <2>1. PlanShaped /\ plan'.head = <<>>
    BY <1>5 DEF Shapes, PlanShaped, Resting
  <2> QED BY <1>1, <1>5, <2>1, CarriesNothing, PlanTurns DEF Waking
<1> QED BY <1>2, <1>3, <1>4, <1>5 DEF PlanStarvesAgain

-----------------------------------------------------------------------------
(* Processes on their way out. *)

LEMMA EvictionsBegin ==
  ASSUME Inv, NEW S \in SUBSET live, \A p \in S : proc[p].state = "resident", NEW expected,
         BeginEvictions(S, expected), PlanShaped, plan'.head = <<>>, HoardInv' \/ plan.pc \notin Waking,
         UNCHANGED <<accum, credit, killing, free, cache, pages, swapped, leaving, late>>,
         UNCHANGED <<fire, through, aborted, poked>>
  PROVE  Inv'
<1> USE DEF Inv
<1>1. /\ proc' = [p \in live |-> IF p \in S THEN [proc[p] EXCEPT !.state = "evicting"] ELSE proc[p]]
      /\ DOMAIN evicting' = DOMAIN evicting \cup S
      /\ queue' = [i \in DOMAIN queue |->
           IF queue[i].pid \in S /\ ~IsRestore(queue[i])
           THEN [queue[i] EXCEPT !.yielded = TRUE] ELSE queue[i]]
      /\ exec' = [p \in Processes |-> IF p \in S THEN [st |-> "begun", n |-> 0] ELSE exec[p]]
  BY DEF BeginEvictions
<1>2. live' = live
  BY <1>1 DEF live
<1>3. ASSUME NEW p \in live
      PROVE  /\ proc'[p] \in Procs /\ proc'[p].state = IF p \in S THEN "evicting" ELSE proc[p].state
             /\ proc'[p].parked = proc[p].parked /\ proc'[p].idle = proc[p].idle
             /\ proc'[p].held = proc[p].held
  <2>1. proc[p] \in Procs
    BY ProcForms
  <2>2. [proc[p] EXCEPT !.state = "evicting"] \in Procs
    BY <2>1, ProcWritten
  <2> QED BY <1>1, <2>1, <2>2 DEF Procs
<1>4. S \subseteq Processes /\ \A p \in Processes : exec'[p] = IF p \in S THEN [st |-> "begun", n |-> 0] ELSE exec[p]
  BY <1>1 DEF Shapes
<1>5. \A p \in S : exec[p].st = "none" /\ proc[p].parked = None
  <2>1. ASSUME NEW p \in S PROVE exec[p].st = "none" /\ proc[p].parked = None
    <3>1. AwayOK(p) /\ proc[p].state = "resident" /\ p \in Processes
      BY <1>4 DEF AwayInv
    <3> QED BY <3>1, ProcessForms DEF AwayOK
  <2> QED BY <2>1
<1>6. Rewrites /\ Serves({})
  <2>1. \A j \in DOMAIN queue : queue[j] \in Entries /\ queue[j] \in ToSet(queue)
    BY QueueIndexed
  <2>2. \A j \in DOMAIN queue : queue[j].by = None => queue[j].outcome = "none"
    BY <2>1 DEF QueueInv, EntryOK
  <2>3. ASSUME NEW j \in DOMAIN queue
        PROVE  /\ queue'[j] \in Entries /\ Name(queue'[j]) = Name(queue[j])
               /\ queue'[j].need = queue[j].need /\ queue'[j].outcome = queue[j].outcome
    <3> DEFINE e == queue[j]
               d == [e EXCEPT !.yielded = TRUE]
    <3>1. e \in Entries
      BY <2>1
    <3>2. queue'[j] = e \/ queue'[j] = d
      BY <1>1
    <3> HIDE DEF e
    <3>3. d \in Entries /\ Name(d) = Name(e) /\ d.need = e.need /\ d.outcome = e.outcome
      BY <3>1, EntryWritten
    <3> HIDE DEF d
    <3> QED BY <3>1, <3>2, <3>3 DEF e
  <2>4. queue' = [j \in DOMAIN queue |-> queue'[j]]
    BY <1>1
  <2> QED BY <2>2, <2>3, <2>4 DEF Rewrites, Serves
<1>7. RestoresStay
  <2>1. ASSUME NEW i \in DOMAIN queue, queue[i].by = None
        PROVE  proc'[queue[i].pid].state = "evicted" /\ proc'[queue[i].pid].parked = None
    <3>1. /\ queue[i].pid \in live /\ proc[queue[i].pid].state = "evicted"
          /\ proc[queue[i].pid].parked = None
      BY <2>1, QueueIndexed DEF QueueInv, EntryOK
    <3>2. queue[i].pid \notin S
      BY <3>1
    <3> QED BY <1>3, <3>1, <3>2
  <2> QED BY <1>2, <2>1 DEF RestoresStay
<1>8. Shapes'
  <2>1. proc' \in [live -> Procs]
    BY <1>1, <1>3
  <2>2. exec' \in [Processes -> Execs]
    <3>1. [st |-> "begun", n |-> 0] \in Execs
      BY DEF Execs
    <3> QED BY <1>1, <3>1 DEF Shapes
  <2>3. queue' \in Seq(Entries)
    BY <1>6, RewrittenForms
  <2> QED BY <1>2, <2>1, <2>2, <2>3 DEF Shapes, PlanShaped
<1>9. QueueInv' /\ \A p : RestoreQueued(p)' <=> RestoreQueued(p)
  BY <1>6, <1>7, QueueRewritten
<1>10. AwayInv'
  <2>1. ASSUME NEW p \in live PROVE AwayOK(p)'
    <3>1. AwayOK(p) /\ p \in Processes
      BY DEF AwayInv, Shapes
    <3>2. CASE p \in S
      <4>1. exec'[p].st = "begun" /\ proc'[p].state = "evicting" /\ proc'[p].parked = None
        BY <1>3, <1>4, <1>5, <3>1, <3>2
      <4> QED BY <4>1 DEF AwayOK
    <3>3. CASE p \notin S
      <4>1. exec'[p] = exec[p]
        BY <1>4, <3>1, <3>3
      <4> QED BY <1>3, <1>9, <3>1, <3>3, <4>1 DEF AwayOK
    <3> QED BY <3>2, <3>3
  <2>2. DOMAIN evicting' = {p \in live : proc'[p].state = "evicting"}
    BY <1>1, <1>3 DEF AwayInv
  <2> QED BY <1>2, <2>1, <2>2 DEF AwayInv
<1>11. SamePages /\ SameBelow /\ MovesInv'
  <2>1. ASSUME NEW p \in Processes
        PROVE  /\ exec'[p].st = "restoring" <=> exec[p].st = "restoring"
               /\ exec'[p].st = "moving" <=> exec[p].st = "moving"
               /\ exec[p].st \in {"restoring", "moving"} => exec'[p] = exec[p]
    BY <1>4, <1>5
  <2> QED BY <2>1 DEF SamePages, SameBelow, PagesOf, BelowOf, MovesInv
<1>12. LedgerInv'
  <2>1. Pool' = Pool /\ Pool \in Nat
    BY PoolFrame, PoolForms
  <2>2. Pool' = Pool - NeedOf({})
    BY <2>1, NoneServed
  <2> QED BY <1>6, <1>11, <2>2, LedgerServes
<1>13. HoardInv'
  <2>1. queue' = <<>> => queue = <<>>
    BY <1>6, RewrittenForms
  <2> QED BY <2>1, HoardFrame
<1> QED BY <1>8, <1>9, <1>10, <1>11, <1>12, <1>13, CarriesNothing

LEMMA PauseCommitsKeeps == ASSUME Inv, PauseCommits PROVE Inv'
<1> DEFINE S == {p \in DOMAIN plan.picks \cap live : proc[p].held /\ Resident(p)}
<1>1. /\ BeginEvictions(S, plan.picks) /\ Goto("loop")
      /\ UNCHANGED <<accum, credit, killing, free, cache, pages, swapped, leaving, late>>
      /\ UNCHANGED <<fire, through, aborted, poked>>
  BY DEF PauseCommits, pool, guests
<1>2. S \in SUBSET live /\ \A p \in S : proc[p].state = "resident"
  BY DEF Resident
<1>3. PlanShaped /\ plan'.head = <<>> /\ HoardInv'
  BY <1>1, GotoDoes, HoardLooks DEF Waking
<1> HIDE DEF S
<1> QED BY <1>1, <1>2, <1>3, EvictionsBegin

LEMMA PlanCommitsKeeps == ASSUME Inv, PlanCommits PROVE Inv'
<1> DEFINE head == plan.head[1]
           S == IF ~(plan.head # <<>> /\ HeadIs(plan.head)) THEN {}
                ELSE {p \in DOMAIN plan.picks \cap live :
                        Resident(p) /\ Yields(p, head) /\ (Fresh(p) \/ plan.relaxed)}
<1>1. /\ BeginEvictions(S, plan.picks) /\ plan.pc = "commit"
      /\ Goto(IF S = {} /\ plan.relaxed THEN "starveAgain" ELSE "wait")
      /\ UNCHANGED <<accum, credit, killing, free, cache, pages, swapped, leaving, late>>
      /\ UNCHANGED <<fire, through, aborted, poked>>
  BY DEF PlanCommits, pool, guests
<1>2. S \in SUBSET live /\ \A p \in S : proc[p].state = "resident"
  BY DEF Resident
<1> HIDE DEF S
<1>3. PlanShaped /\ plan'.head = <<>> /\ plan.pc \notin Waking
  BY <1>1, GotoDoes DEF Waking
<1> QED BY <1>1, <1>2, <1>3, EvictionsBegin

LEMMA RewritesNothing ==
  ASSUME Shapes, QueueInv, queue' = queue PROVE Rewrites /\ Serves({})
<1>1. \A j \in DOMAIN queue : queue[j] \in Entries /\ queue[j] \in ToSet(queue)
  BY QueueIndexed
<1>2. \A j \in DOMAIN queue : queue[j].by = None => queue[j].outcome = "none"
  BY <1>1 DEF QueueInv, EntryOK
<1>3. queue = [j \in DOMAIN queue |-> queue[j]]
  BY DEF Shapes
<1> QED BY <1>1, <1>2, <1>3 DEF Rewrites, Serves

(* One process changes that has no restore in the queue.                   *)
ProcMoves(p) ==
  /\ live' = live
  /\ \A q \in live : q # p => proc'[q] = proc[q]
  /\ \A q \in Processes : q # p => exec'[q] = exec[q]

LEMMA NoRestoreOf ==
  ASSUME Shapes, QueueInv, NEW p, RestoreQueued(p)
  PROVE  p \in live /\ proc[p].state = "evicted" /\ proc[p].parked = None
BY DEF RestoreQueued, QueueInv, EntryOK

LEMMA OneProcess ==
  ASSUME Shapes, QueueInv, NEW p, ProcMoves(p), ~RestoreQueued(p),
         queue' = queue, fire' = fire, aborted \subseteq aborted'
  PROVE  /\ QueueInv' /\ \A q : RestoreQueued(q)' <=> RestoreQueued(q)
         /\ \A q \in live : q # p /\ AwayOK(q) => AwayOK(q)'
<1>1. RestoresStay
  <2>1. ASSUME NEW i \in DOMAIN queue, queue[i].by = None
        PROVE  proc'[queue[i].pid].state = "evicted" /\ proc'[queue[i].pid].parked = None
    <3>1. queue[i] \in ToSet(queue)
      BY QueueIndexed
    <3>2. RestoreQueued(queue[i].pid)
      BY <2>1, <3>1 DEF RestoreQueued
    <3>3. /\ queue[i].pid \in live /\ proc[queue[i].pid].state = "evicted"
          /\ proc[queue[i].pid].parked = None /\ queue[i].pid # p
      BY <3>2, NoRestoreOf
    <3> QED BY <3>3 DEF ProcMoves
  <2> QED BY <2>1 DEF RestoresStay, ProcMoves
<1>2. QueueInv' /\ \A q : RestoreQueued(q)' <=> RestoreQueued(q)
  BY <1>1, RewritesNothing, QueueRewritten
<1>3. ASSUME NEW q \in live, q # p, AwayOK(q) PROVE AwayOK(q)'
  <2>1. q \in Processes
    BY DEF Shapes
  <2> QED BY <1>2, <1>3, <2>1 DEF AwayOK, ProcMoves
<1> QED BY <1>2, <1>3

LEMMA StateSet ==
  ASSUME Shapes, NEW p \in live, NEW s \in {"resident", "evicting", "evicted", "restoring"},
         proc' = [proc EXCEPT ![p].state = s]
  PROVE  /\ live' = live /\ proc' \in [live -> Procs]
         /\ proc'[p].state = s /\ proc'[p].parked = proc[p].parked
         /\ proc'[p].idle = proc[p].idle /\ proc'[p].held = proc[p].held
         /\ \A q \in live : q # p => proc'[q] = proc[q]
<1>1. proc \in [live -> Procs] /\ proc[p] \in Procs
  BY DEF Shapes
<1>2. [proc[p] EXCEPT !.state = s] \in Procs
  BY <1>1, ProcWritten
<1>3. proc' = [proc EXCEPT ![p] = [proc[p] EXCEPT !.state = s]]
  OBVIOUS
<1>4. proc' \in [live -> Procs] /\ live' = live
  BY <1>1, <1>2, <1>3 DEF live
<1>5. proc'[p] = [proc[p] EXCEPT !.state = s] /\ \A q \in live : q # p => proc'[q] = proc[q]
  BY <1>1, <1>3
<1>6. /\ proc'[p].state = s /\ proc'[p].parked = proc[p].parked
      /\ proc'[p].idle = proc[p].idle /\ proc'[p].held = proc[p].held
  BY <1>1, <1>5 DEF Procs
<1> QED BY <1>4, <1>5, <1>6

(* An executor starts, and takes slots below.                              *)
LEMMA SwapFreeIs == SwapFree = SwapTotal - SumFunctionOnSet(BelowOf, Processes)
<1>1. DOMAIN BelowOf = Processes
  BY DEF BelowOf
<1>2. SwapFree = SwapTotal - SumFunction(BelowOf)
  BY DEF SwapFree, BelowOf
<1> QED BY <1>1, <1>2 DEF SumFunction

LEMMA ExecutorRuns ==
  ASSUME Inv, NEW p \in Processes, exec[p].st \in {"begun", "fenced"},
         NEW x \in Execs, x.st \in {"fenced", "moving"}, exec' = [exec EXCEPT ![p] = x],
         x.st = "moving" => x.n = pages[p] /\ pages[p] <= SwapFree,
         UNCHANGED <<inner, pool, plan, poked, guests>>
  PROVE  Inv'
<1> USE DEF Inv
<1>1. /\ UNCHANGED <<proc, queue, accum, evicting, credit, swapBlocked, prepareBlocked, killing>>
      /\ UNCHANGED <<free, cache, exhausted, pages, swapped, leaving, late>>
      /\ UNCHANGED <<plan, poked, fire, through, aborted, spent>>
  BY DEF inner, pool, guests
<1>2. exec' \in [Processes -> Execs] /\ exec'[p] = x /\ \A q \in Processes : q # p => exec'[q] = exec[q]
  BY DEF Shapes
<1>3. Shapes'
  BY <1>1, <1>2 DEF Shapes, live
<1>4. QueueInv'
  BY <1>1, WaysFrame, FiresFrame, QueueFrame
<1>5. AwayInv'
  <2>1. ASSUME NEW q \in live PROVE AwayOK(q)'
    <3>1. AwayOK(q) /\ q \in Processes
      BY DEF AwayInv, Shapes
    <3>2. /\ exec'[q].st \in {"begun", "fenced", "moving"} <=> exec[q].st \in {"begun", "fenced", "moving"}
          /\ exec'[q].st = "restoring" <=> exec[q].st = "restoring"
      BY <1>2, <3>1
    <3> QED BY <1>1, <3>1, <3>2 DEF AwayOK, RestoreQueued
  <2> QED BY <1>1, <2>1 DEF AwayInv, live
<1>6. MovesInv'
  <2>1. pages[p] \in Nat
    BY ProcessForms
  <2> QED BY <1>1, <1>2, <2>1 DEF MovesInv
<1>7. LedgerInv'
  <2>1. HoldsMove(p)
    BY <1>1, <1>2 DEF HoldsMove
  <2> DEFINE more == IF x.st = "moving" THEN x.n ELSE 0
  <2>2. /\ pages[p] \in Nat /\ swapped[p] \in Nat /\ leaving[p].device \in Nat
        /\ leaving[p].below \in Nat /\ more \in Nat
    BY ProcessForms
  <2>3. /\ PagesOf[p] = pages[p] + leaving[p].device + 0
        /\ PagesOf'[p] = pages[p] + leaving[p].device + 0
        /\ BelowOf[p] = swapped[p] + leaving[p].below + 0
        /\ BelowOf'[p] = swapped[p] + leaving[p].below + more
    BY <1>1, <1>2, <1>3, <2>1, OneHolder
  <2>4. more # 0 => more <= SwapTotal - SumFunctionOnSet(BelowOf, Processes)
    BY SwapFreeIs
  <2> HIDE DEF more
  <2>5. SumFunctionOnSet(BelowOf, Processes) \in Nat /\ SwapTotal \in Nat
    BY LedgerForms, Constants
  <2>6. \/ BelowOf'[p] <= BelowOf[p]
        \/ SumFunctionOnSet(BelowOf, Processes) + BelowOf'[p] - BelowOf[p] <= SwapTotal
    BY <2>2, <2>3, <2>4, <2>5
  <2>7. Pool' = Pool /\ Pool \in Nat
    BY <1>1, PoolFrame, PoolForms
  <2>8. Pool' + PagesOf'[p] = Pool + PagesOf[p]
    BY <2>3, <2>7
  <2>9. SameHands
    BY <1>1, HandsFrame
  <2> QED BY <1>3, <2>1, <2>6, <2>8, <2>9, OneHolder, LedgerMoves
<1>8. CarriedInv' /\ HoardInv'
  BY <1>1 DEF CarriedInv, HoardInv
<1> QED BY <1>3, <1>4, <1>5, <1>6, <1>7, <1>8

(* An executor ends; what the process holds is settled.                    *)
LEMMA ExecutorEnds ==
  ASSUME Shapes, MovesInv, NEW p \in Processes, NEW device \in Nat, NEW below \in Nat,
         Holds(p, device, below), exec' = [exec EXCEPT ![p] = NoExec]
  PROVE  /\ pages' \in [Processes -> Nat] /\ swapped' \in [Processes -> Nat]
         /\ leaving' \in [Processes -> [device : Nat, below : Nat]]
         /\ exec' \in [Processes -> Execs] /\ exec'[p].st = "none"
         /\ HoldsMove(p) /\ MovesInv'
         /\ PagesOf'[p] = device + leaving[p].device
         /\ BelowOf'[p] = below + leaving[p].below
<1>1. /\ pages \in [Processes -> Nat] /\ swapped \in [Processes -> Nat]
      /\ leaving \in [Processes -> [device : Nat, below : Nat]] /\ exec \in [Processes -> Execs]
      /\ leaving[p] \in [device : Nat, below : Nat]
      /\ leaving[p].device \in Nat /\ leaving[p].below \in Nat
  BY ProcessForms DEF Shapes
<1>2. NoExec \in Execs /\ NoExec.st = "none"
  BY DEF NoExec, Execs
<1>3. exec' \in [Processes -> Execs] /\ exec'[p].st = "none" /\ \A q \in Processes : q # p => exec'[q] = exec[q]
  BY <1>1, <1>2
<1> DEFINE d == IF p \in live THEN device ELSE 0
           b == IF p \in live THEN below ELSE 0
           ld == IF p \in live THEN leaving[p].device ELSE leaving[p].device + device
           lb == IF p \in live THEN leaving[p].below ELSE leaving[p].below + below
<1>4. pages' = [pages EXCEPT ![p] = d] /\ swapped' = [swapped EXCEPT ![p] = b]
  BY DEF Holds
<1>5. d \in Nat /\ b \in Nat /\ ld \in Nat /\ lb \in Nat
  BY <1>1
<1>6. /\ leaving' \in [Processes -> [device : Nat, below : Nat]]
      /\ leaving'[p].device = ld /\ leaving'[p].below = lb
      /\ \A q \in Processes : q # p => leaving'[q] = leaving[q]
  <2>1. CASE p \in live
    BY <1>1, <2>1 DEF Holds
  <2>2. CASE p \notin live
    <3> DEFINE l == leaving[p]
               r == [[l EXCEPT !.device = ld] EXCEPT !.below = lb]
    <3>1. leaving' = [leaving EXCEPT ![p] = r]
      <4>1. leaving' = [leaving EXCEPT ![p].device = @ + device, ![p].below = @ + below]
        BY <2>2 DEF Holds
      <4>2. ld = leaving[p].device + device /\ lb = leaving[p].below + below
        BY <2>2
      <4> HIDE DEF ld, lb
      <4> QED BY <1>1, <4>1, <4>2
    <3>2. r \in [device : Nat, below : Nat] /\ r.device = ld /\ r.below = lb
      <4>1. l \in [device : Nat, below : Nat]
        BY <1>1
      <4> HIDE DEF ld, lb, l
      <4> QED BY <1>5, <4>1
    <3> HIDE DEF r
    <3> QED BY <1>1, <3>1, <3>2
  <2> QED BY <2>1, <2>2
<1>7. d + ld = device + leaving[p].device /\ b + lb = below + leaving[p].below
  BY <1>1
<1> HIDE DEF d, b, ld, lb
<1>8. /\ pages' \in [Processes -> Nat] /\ pages'[p] = d /\ \A q \in Processes : q # p => pages'[q] = pages[q]
      /\ swapped' \in [Processes -> Nat] /\ swapped'[p] = b
      /\ \A q \in Processes : q # p => swapped'[q] = swapped[q]
  BY <1>1, <1>4, <1>5
<1>9. HoldsMove(p)
  BY <1>3, <1>6, <1>8 DEF HoldsMove
<1>10. MovesInv'
  BY <1>3, <1>8 DEF MovesInv
<1>11. PagesOf'[p] = d + ld + 0 /\ BelowOf'[p] = b + lb + 0
  BY <1>3, <1>6, <1>8 DEF PagesOf, BelowOf
<1>12. PagesOf'[p] = device + leaving[p].device /\ BelowOf'[p] = below + leaving[p].below
  BY <1>5, <1>7, <1>11
<1> QED BY <1>3, <1>6, <1>8, <1>9, <1>10, <1>12

(* The ledger when an executor ends.                                       *)
LEMMA LedgerEnds ==
  ASSUME Shapes, Shapes', LedgerInv, NEW p \in Processes, HoldsMove(p), SameHands,
         Pool' + PagesOf'[p] = Pool + PagesOf[p], BelowOf'[p] <= BelowOf[p]
  PROVE  LedgerInv'
BY OneHolder, LedgerMoves

LEMMA EvictionFailedKeeps ==
  ASSUME Inv, NEW p \in Processes, exec[p].st \in {"begun", "fenced", "moving"},
         NEW full, NEW nothing, EvictionFailed(p, full, nothing), UNCHANGED <<fire, through, aborted>>
  PROVE  Inv'
<1> USE DEF Inv
<1>1. /\ DOMAIN evicting' = DOMAIN evicting \ {p}
      /\ proc' = IF p \in live /\ proc[p].state = "evicting"
                 THEN [proc EXCEPT ![p].state = "resident"] ELSE proc
      /\ exec' = [exec EXCEPT ![p] = NoExec] /\ Holds(p, pages[p], swapped[p]) /\ poked' = TRUE
      /\ UNCHANGED <<queue, accum, credit, killing, free, cache, exhausted, late, plan, pauseDue>>
  BY DEF EvictionFailed, Restrict, Poke
<1>2. /\ pages[p] \in Nat /\ swapped[p] \in Nat /\ leaving[p].device \in Nat
      /\ leaving[p].below \in Nat /\ exec[p].n \in Nat
  BY ProcessForms
<1>3. /\ pages' \in [Processes -> Nat] /\ swapped' \in [Processes -> Nat]
      /\ leaving' \in [Processes -> [device : Nat, below : Nat]]
      /\ exec' \in [Processes -> Execs] /\ exec'[p].st = "none" /\ HoldsMove(p) /\ MovesInv'
      /\ PagesOf'[p] = pages[p] + leaving[p].device
      /\ BelowOf'[p] = swapped[p] + leaving[p].below
  BY <1>1, <1>2, ExecutorEnds
<1>4. p \in live => proc[p].state = "evicting" /\ AwayOK(p)
  BY DEF AwayInv, AwayOK
<1>5. /\ live' = live /\ proc' \in [live -> Procs]
      /\ \A q \in live : q # p => proc'[q] = proc[q]
      /\ p \in live => proc'[p].state = "resident" /\ proc'[p].parked = proc[p].parked
  <2>1. CASE p \in live
    BY <1>1, <1>4, <2>1, StateSet
  <2>2. CASE p \notin live
    BY <1>1, <2>2 DEF Shapes, live
  <2> QED BY <2>1, <2>2
<1>6. Shapes'
  BY <1>1, <1>3, <1>5 DEF Shapes
<1>7. ProcMoves(p) /\ ~RestoreQueued(p)
  <2>1. ~RestoreQueued(p)
    BY <1>4, NoRestoreOf
  <2>2. ProcMoves(p)
    BY <1>3, <1>5 DEF ProcMoves, HoldsMove
  <2> QED BY <2>1, <2>2
<1>8. /\ QueueInv' /\ \A q : RestoreQueued(q)' <=> RestoreQueued(q)
      /\ \A q \in live : q # p /\ AwayOK(q) => AwayOK(q)'
  BY <1>1, <1>7, OneProcess
<1>9. AwayInv'
  <2>1. ASSUME p \in live PROVE AwayOK(p)'
    <3>1. proc'[p].state = "resident" /\ proc'[p].parked = None /\ exec'[p].st = "none"
      BY <1>3, <1>4, <1>5, <2>1 DEF AwayOK
    <3> QED BY <3>1 DEF AwayOK
  <2>2. DOMAIN evicting' = {q \in live : proc'[q].state = "evicting"}
    BY <1>1, <1>5 DEF AwayInv
  <2> QED BY <1>5, <1>8, <2>1, <2>2 DEF AwayInv
<1>10. LedgerInv'
  <2>1. Pool' = Pool /\ Pool \in Nat
    BY <1>1, PoolFrame, PoolForms
  <2>2. PagesOf[p] = pages[p] + leaving[p].device + 0
    BY HoldingForms
  <2> DEFINE moves == IF exec[p].st = "moving" THEN exec[p].n ELSE 0
  <2>3. BelowOf[p] = swapped[p] + leaving[p].below + moves /\ moves \in Nat
    BY <1>2, HoldingForms
  <2> HIDE DEF moves
  <2>4. Pool' + PagesOf'[p] = Pool + PagesOf[p] /\ BelowOf'[p] <= BelowOf[p]
    BY <1>2, <1>3, <2>1, <2>2, <2>3
  <2>5. SameHands
    BY <1>1, HandsFrame
  <2> QED BY <1>3, <1>6, <2>4, <2>5, LedgerEnds
<1>11. CarriedInv' /\ HoardInv'
  BY <1>1 DEF CarriedInv, HoardInv
<1> QED BY <1>3, <1>6, <1>8, <1>9, <1>10, <1>11

LEMMA EvictFencesKeeps == ASSUME Inv, NEW p \in Processes, EvictFences(p) PROVE Inv'
<1>1. CASE exec' = [exec EXCEPT ![p].st = "fenced"] /\ UNCHANGED <<inner, pool, plan, poked, pauseDue>>
  <2> DEFINE x == [exec[p] EXCEPT !.st = "fenced"]
  <2>1. exec[p] \in Execs /\ exec[p].st = "begun"
    BY ProcessForms DEF EvictFences, Inv
  <2>2. x \in Execs /\ x.st = "fenced"
    BY <2>1 DEF Execs
  <2>3. exec' = [exec EXCEPT ![p] = x] /\ UNCHANGED guests
    BY <1>1 DEF EvictFences
  <2> HIDE DEF x
  <2> QED BY <1>1, <2>1, <2>2, <2>3, ExecutorRuns
<1>2. CASE EvictionFailed(p, FALSE, FALSE)
  BY <1>2, EvictionFailedKeeps DEF EvictFences, guests
<1> QED BY <1>1, <1>2 DEF EvictFences

LEMMA EvictPreparesKeeps == ASSUME Inv, NEW p \in Processes, EvictPrepares(p) PROVE Inv'
<1>1. exec[p].st = "fenced" /\ UNCHANGED guests
  BY DEF EvictPrepares
<1>2. CASE EvictionFailed(p, FALSE, TRUE)
  BY <1>1, <1>2, EvictionFailedKeeps DEF guests
<1>3. CASE EvictionFailed(p, TRUE, FALSE)
  BY <1>1, <1>3, EvictionFailedKeeps DEF guests
<1>4. CASE /\ pages[p] \in 1..SwapFree
           /\ exec' = [exec EXCEPT ![p] = [st |-> "moving", n |-> pages[p]]]
           /\ UNCHANGED <<inner, pool, plan, poked, pauseDue>>
  <2> DEFINE x == [st |-> "moving", n |-> pages[p]]
  <2>1. pages[p] \in Nat /\ SwapFree \in Int
    <3>1. SumFunctionOnSet(BelowOf, Processes) \in Nat /\ SwapTotal \in Nat
      BY LedgerForms, Constants DEF Inv
    <3> QED BY <3>1, ProcessForms, SwapFreeIs DEF Inv
  <2>2. x \in Execs /\ x.st = "moving" /\ x.n = pages[p]
    BY <2>1 DEF Execs
  <2>3. pages[p] <= SwapFree
    BY <1>4, <2>1
  <2> HIDE DEF x
  <2> QED BY <1>1, <1>4, <2>2, <2>3, ExecutorRuns DEF x
<1> QED BY <1>2, <1>3, <1>4 DEF EvictPrepares

LEMMA EvictFailsKeeps == ASSUME Inv, NEW p \in Processes, EvictFails(p) PROVE Inv'
BY EvictionFailedKeeps DEF EvictFails

LEMMA RestoreCommitsKeeps == ASSUME Inv, NEW p \in Processes, RestoreCommits(p) PROVE Inv'
<1> USE DEF Inv
<1> DEFINE n == exec[p].n
<1>1. /\ exec[p].st = "restoring" /\ exec' = [exec EXCEPT ![p] = NoExec]
      /\ Holds(p, pages[p] + n, swapped[p] - n) /\ poked' = TRUE
      /\ proc' = IF p \in live
                 THEN [proc EXCEPT ![p].state = "resident", ![p].retried = FALSE, ![p].progressed = FALSE]
                 ELSE proc
      /\ UNCHANGED <<queue, accum, evicting, credit, killing, free, cache, exhausted, late, plan, pauseDue>>
      /\ UNCHANGED <<fire, through, aborted, spent>>
  BY DEF RestoreCommits, Poke, guests
<1>2. /\ pages[p] \in Nat /\ swapped[p] \in Nat /\ leaving[p].device \in Nat
      /\ leaving[p].below \in Nat /\ n \in Nat /\ n <= swapped[p]
  BY <1>1, ProcessForms DEF MovesInv
<1>3. PagesOf[p] = pages[p] + leaving[p].device + n /\ BelowOf[p] = swapped[p] + leaving[p].below + 0
  BY <1>1, HoldingForms
<1> HIDE DEF n
<1>4. pages[p] + n \in Nat /\ swapped[p] - n \in Nat
  BY <1>2
<1>5. /\ pages' \in [Processes -> Nat] /\ swapped' \in [Processes -> Nat]
      /\ leaving' \in [Processes -> [device : Nat, below : Nat]]
      /\ exec' \in [Processes -> Execs] /\ exec'[p].st = "none" /\ HoldsMove(p) /\ MovesInv'
      /\ PagesOf'[p] = (pages[p] + n) + leaving[p].device
      /\ BelowOf'[p] = (swapped[p] - n) + leaving[p].below
  BY <1>1, <1>4, ExecutorEnds
<1>6. p \in live => proc[p].state = "restoring" /\ AwayOK(p)
  BY <1>1 DEF AwayInv, AwayOK
<1>7. /\ live' = live /\ proc' \in [live -> Procs]
      /\ \A q \in live : q # p => proc'[q] = proc[q]
      /\ p \in live => proc'[p].state = "resident" /\ proc'[p].parked = proc[p].parked
  <2>1. CASE p \in live
    <3> DEFINE r == [[[proc[p] EXCEPT !.state = "resident"] EXCEPT !.retried = FALSE]
                     EXCEPT !.progressed = FALSE]
    <3>1. proc \in [live -> Procs] /\ proc[p] \in Procs
      BY <2>1 DEF Shapes
    <3>2. proc' = [proc EXCEPT ![p] = r]
      BY <1>1, <2>1, <3>1
    <3>3. r \in Procs
      <4>1. [proc[p] EXCEPT !.state = "resident"] \in Procs
        BY <3>1, ProcWritten
      <4>2. [[proc[p] EXCEPT !.state = "resident"] EXCEPT !.retried = FALSE] \in Procs
        BY <4>1, ProcWritten
      <4> QED BY <4>2, ProcWritten
    <3>4. r.state = "resident" /\ r.parked = proc[p].parked
      BY <3>1 DEF Procs
    <3> HIDE DEF r
    <3> QED BY <2>1, <3>1, <3>2, <3>3, <3>4 DEF live
  <2>2. CASE p \notin live
    BY <1>1, <2>2 DEF Shapes, live
  <2> QED BY <2>1, <2>2
<1>8. Shapes'
  BY <1>1, <1>5, <1>7 DEF Shapes
<1>9. ProcMoves(p) /\ ~RestoreQueued(p)
  <2>1. ~RestoreQueued(p)
    BY <1>6, NoRestoreOf
  <2>2. ProcMoves(p)
    BY <1>5, <1>7 DEF ProcMoves, HoldsMove
  <2> QED BY <2>1, <2>2
<1>10. /\ QueueInv' /\ \A q : RestoreQueued(q)' <=> RestoreQueued(q)
       /\ \A q \in live : q # p /\ AwayOK(q) => AwayOK(q)'
  BY <1>1, <1>9, OneProcess
<1>11. AwayInv'
  <2>1. ASSUME p \in live PROVE AwayOK(p)'
    <3>1. proc'[p].state = "resident" /\ proc'[p].parked = None /\ exec'[p].st = "none"
      BY <1>5, <1>6, <1>7, <2>1 DEF AwayOK
    <3> QED BY <3>1 DEF AwayOK
  <2>2. DOMAIN evicting' = {q \in live : proc'[q].state = "evicting"}
    BY <1>1, <1>6, <1>7 DEF AwayInv
  <2> QED BY <1>7, <1>10, <2>1, <2>2 DEF AwayInv
<1>12. LedgerInv'
  <2>1. Pool' = Pool /\ Pool \in Nat
    BY <1>1, PoolFrame, PoolForms
  <2>2. Pool' + PagesOf'[p] = Pool + PagesOf[p] /\ BelowOf'[p] <= BelowOf[p]
    BY <1>2, <1>3, <1>5, <2>1
  <2>3. SameHands
    BY <1>1, HandsFrame
  <2> QED BY <1>5, <1>8, <2>2, <2>3, LedgerEnds
<1>13. CarriedInv' /\ HoardInv'
  BY <1>1 DEF CarriedInv, HoardInv
<1> QED BY <1>5, <1>8, <1>10, <1>11, <1>12, <1>13

(* A restore of p, evicted, is put in the queue.                           *)
LEMMA RestoreEnters ==
  ASSUME Shapes, QueueInv, AwayInv, NEW p \in live, ~RestoreQueued(p), NEW n \in Nat, NEW pr,
         queue' = Enqueue(pr, queue, Restore(p, n)), ProcMoves(p), proc'[p].state = "evicted",
         proc'[p].parked = None, exec'[p].st = "none", fire' = fire, aborted' = aborted
  PROVE  /\ queue' \in Seq(Entries) /\ queue' # <<>> /\ ToSet(queue) \subseteq ToSet(queue')
         /\ QueueInv' /\ \A q \in live : AwayOK(q)'
         /\ SameHands
<1> DEFINE e == Restore(p, n)
<1>1. /\ e \in Entries /\ e.pid = p /\ e.by = None /\ e.need = n /\ e.outcome = "none"
  BY ProcForms DEF Restore, Entries
<1> HIDE DEF e
<1>2. \A d \in ToSet(queue) : d \in Entries /\ Name(d) # Name(e)
  <2>1. SUFFICES ASSUME NEW d \in ToSet(queue) PROVE d \in Entries /\ Name(d) # Name(e)
    OBVIOUS
  <2>2. d \in Entries
    BY QueueIndexed
  <2>3. ~(d.pid = p /\ d.by = None)
    BY DEF RestoreQueued
  <2> QED BY <1>1, <2>2, <2>3, SameName
<1>3. queue \in Seq(Entries) /\ OneEach(queue) /\ queue' = Enqueue(pr, queue, e)
  BY DEF Shapes, QueueInv, e
<1>4. /\ queue' \in Seq(Entries) /\ queue' # <<>> /\ ToSet(queue') = ToSet(queue) \cup {e}
      /\ OneEach(queue')
  BY <1>1, <1>2, <1>3, EnqueueDoes
<1>5. ASSUME NEW d \in ToSet(queue') PROVE EntryOK(d)'
  <2>1. CASE d = e
    BY <1>1, <2>1 DEF EntryOK, ProcMoves
  <2>2. CASE d \in ToSet(queue)
    <3>1. EntryOK(d)
      BY <2>2 DEF QueueInv
    <3>2. d.by = None => d.pid # p
      BY <2>2 DEF RestoreQueued
    <3> QED BY <3>1, <3>2 DEF EntryOK, ProcMoves
  <2> QED BY <1>4, <2>1, <2>2
<1>6. QueueInv'
  <2>1. \A c \in Lanes : fire'[c].st = "parked" => \E d \in ToSet(queue') : d.by = c
    BY <1>4 DEF QueueInv
  <2>2. \A c \in Lanes : fire'[c].st # "idle" => Owner[c] \in live'
    BY DEF QueueInv, ProcMoves
  <2> QED BY <1>4, <1>5, <2>1, <2>2 DEF QueueInv
<1>7. ASSUME NEW q \in live PROVE AwayOK(q)'
  <2>1. q \in Processes /\ AwayOK(q) /\ (RestoreQueued(q) => RestoreQueued(q)')
    BY <1>4 DEF Shapes, AwayInv, RestoreQueued
  <2>2. CASE q = p
    <3>1. RestoreQueued(p)'
      BY <1>1, <1>4 DEF RestoreQueued
    <3> QED BY <2>2, <3>1 DEF AwayOK
  <2>3. CASE q # p
    BY <2>1, <2>3 DEF AwayOK, ProcMoves
  <2> QED BY <2>2, <2>3
<1>8. SameHands
  <2>1. \A c \in Lanes : Promised(c)' <=> Promised(c)
    BY <1>1, <1>4, Constants DEF Promised
  <2> QED BY <2>1 DEF SameHands, InHand
<1> QED BY <1>4, <1>6, <1>7, <1>8

LEMMA CarriesMore ==
  ASSUME CarriedInv, plan' = plan, ToSet(queue) \subseteq ToSet(queue') PROVE CarriedInv'
BY DEF CarriedInv

(* An evicted process without an executor: its parked demand is queued.    *)
LEMMA DemandQueued ==
  ASSUME Inv, NEW p \in live, proc[p].parked # None,
         live' = live, proc' \in [live -> Procs], \A q \in live : q # p => proc'[q] = proc[q],
         proc'[p].state = proc[p].state, proc'[p].parked = None,
         queue' = Enqueue(proc, queue, Restore(p, proc[p].parked)), poked' = TRUE,
         UNCHANGED <<accum, evicting, credit, killing, pool, plan, exec, guests>>
  PROVE  Inv'
<1> USE DEF Inv
<1>1. /\ proc[p].parked \in Nat /\ AwayOK(p) /\ p \in Processes
  BY ProcForms DEF AwayInv
<1>2. /\ UNCHANGED <<free, cache, pages, swapped, leaving, late>>
      /\ UNCHANGED <<accum, evicting, credit, killing, plan, exec, fire, through, aborted>>
  BY DEF pool, guests
<1>3. proc[p].state = "evicted" /\ exec[p].st = "none" /\ ~RestoreQueued(p)
  <2>1. proc[p].state = "evicted" /\ exec[p].st = "none"
    BY <1>1, ProcessForms DEF AwayOK
  <2> QED BY <2>1, NoRestoreOf
<1>4. ProcMoves(p)
  BY <1>2 DEF ProcMoves
<1>5. /\ queue' \in Seq(Entries) /\ queue' # <<>> /\ ToSet(queue) \subseteq ToSet(queue')
      /\ QueueInv' /\ \A q \in live : AwayOK(q)'
      /\ SameHands
  BY <1>1, <1>2, <1>3, <1>4, RestoreEnters
<1>6. Shapes'
  BY <1>2, <1>5 DEF Shapes
<1>7. AwayInv'
  <2>1. DOMAIN evicting' = {q \in live : proc'[q].state = "evicting"}
    BY <1>2 DEF AwayInv
  <2> QED BY <1>5, <2>1 DEF AwayInv
<1>8. MovesInv' /\ LedgerInv'
  BY <1>2, <1>5, <1>6, MovesFrame, HoldingFrame, PoolFrame, LedgerSame
<1>9. CarriedInv' /\ HoardInv'
  BY <1>2, <1>5, CarriesMore, HoardLooks
<1> QED BY <1>5, <1>6, <1>7, <1>8, <1>9

LEMMA HearFromClientKeeps == ASSUME Inv, NEW p \in Processes, HearFromClient(p) PROVE Inv'
<1> USE DEF Inv
<1> DEFINE back == proc[p].parked # None /\ ~proc[p].held
           v == IF back THEN None ELSE proc[p].parked
           r == [[proc[p] EXCEPT !.parked = v] EXCEPT !.idle = FALSE]
<1>1. /\ p \in live /\ poked' = TRUE
      /\ proc' = [proc EXCEPT ![p].parked = IF back THEN None ELSE @, ![p].idle = FALSE]
      /\ queue' = IF back THEN Enqueue(proc, queue, Restore(p, proc[p].parked)) ELSE queue
      /\ UNCHANGED <<accum, evicting, credit, swapBlocked, prepareBlocked, killing>>
      /\ UNCHANGED <<pool, plan, pauseDue, exec, guests>>
  BY DEF HearFromClient, Unpark, Poke
<1>2. proc \in [live -> Procs] /\ proc[p] \in Procs /\ v \in Nat \cup {None} /\ proc[p].held \in BOOLEAN
  BY <1>1, ProcForms DEF Shapes
<1>3. proc' = [proc EXCEPT ![p] = r]
  BY <1>1, <1>2
<1>4. r \in Procs
  <2>1. [proc[p] EXCEPT !.parked = v] \in Procs
    BY <1>2, ProcWritten
  <2> QED BY <2>1, ProcWritten
<1>5. /\ r.state = proc[p].state /\ r.parked = v /\ r.held = proc[p].held
  BY <1>2 DEF Procs
<1> HIDE DEF r
<1>6. /\ live' = live /\ proc' \in [live -> Procs] /\ proc'[p] = r
      /\ \A q \in live : q # p => proc'[q] = proc[q]
  BY <1>1, <1>2, <1>3, <1>4 DEF live
<1>7. CASE back
  <2>1. /\ queue' = Enqueue(proc, queue, Restore(p, proc[p].parked)) /\ proc'[p].parked = None
        /\ proc'[p].state = proc[p].state /\ proc[p].parked # None
    BY <1>1, <1>5, <1>6, <1>7
  <2> QED BY <1>1, <1>6, <2>1, DemandQueued
<1>8. CASE ~back
  <2>1. /\ UNCHANGED <<accum, evicting, credit, killing, queue, plan, exec, fire, through, aborted>>
        /\ UNCHANGED <<free, cache, pages, swapped, leaving, late>> /\ poked' = TRUE
    BY <1>1, <1>8 DEF pool, guests
  <2>2. Shapes'
    BY <1>6, <2>1 DEF Shapes
  <2>3. SameWays /\ WaitsStay
    <3>1. proc'[p].parked = proc[p].parked /\ proc'[p].state = proc[p].state
      BY <1>5, <1>6, <1>8
    <3>2. proc[p].parked # None => proc'[p].held
      BY <1>2, <1>5, <1>6, <1>8
    <3>3. \A q \in live : proc[q].parked # None => proc[q].idle \/ proc[q].held
      BY DEF AwayInv, AwayOK
    <3> QED BY <1>1, <1>6, <3>1, <3>2, <3>3 DEF SameWays, WaitsStay
  <2>4. ParkedStay /\ MovesInv' /\ LedgerInv'
    BY <2>1, <2>2, FiresFrame, MovesFrame, HoldingFrame, HandsFrame, PoolFrame, LedgerSame
  <2> QED BY <2>1, <2>2, <2>3, <2>4, GuestFrame
<1> QED BY <1>7, <1>8

LEMMA WakeKeeps == ASSUME Inv, NEW p \in Processes, Wake(p) PROVE Inv'
<1> USE DEF Inv
<1> DEFINE r == [proc[p] EXCEPT !.parked = None]
<1>1. /\ p \in live /\ proc[p].parked # None /\ poked' = TRUE
      /\ proc' = [proc EXCEPT ![p] = r]
      /\ queue' = Enqueue(proc, queue, Restore(p, proc[p].parked))
      /\ UNCHANGED <<accum, evicting, credit, swapBlocked, prepareBlocked, killing>>
      /\ UNCHANGED <<pool, plan, pauseDue, exec, guests>>
  BY DEF Wake, Poke
<1>2. proc \in [live -> Procs] /\ proc[p] \in Procs
  BY <1>1 DEF Shapes
<1>3. r \in Procs /\ r.state = proc[p].state /\ r.parked = None
  <2>1. r \in Procs
    BY <1>2, ProcWritten
  <2>2. r.state = proc[p].state /\ r.parked = None
    BY <1>2 DEF Procs
  <2> QED BY <2>1, <2>2
<1> HIDE DEF r
<1>4. /\ live' = live /\ proc' \in [live -> Procs] /\ proc'[p] = r
      /\ \A q \in live : q # p => proc'[q] = proc[q]
  BY <1>1, <1>2, <1>3 DEF live
<1> QED BY <1>1, <1>3, <1>4, DemandQueued

(* What p held below and on the device has moved, and p is evicted.        *)
LEMMA EvictCommitsKeeps == ASSUME Inv, NEW p \in Processes, EvictCommits(p) PROVE Inv'
<1> USE DEF Inv
<1> DEFINE n == exec[p].n
           parks == proc[p].idle \/ proc[p].held
           v == IF parks THEN n ELSE None
<1>1. /\ exec[p].st = "moving" /\ exec' = [exec EXCEPT ![p] = NoExec]
      /\ DOMAIN evicting' = DOMAIN evicting \ {p} /\ free' = free + n
      /\ Holds(p, pages[p] - n, swapped[p] + n) /\ poked' = TRUE
      /\ p \in live =>
           /\ proc' = [proc EXCEPT ![p].state = "evicted", ![p].parked = v]
           /\ queue' = IF parks THEN queue ELSE Enqueue(proc, queue, Restore(p, n))
      /\ p \notin live => UNCHANGED <<proc, queue>>
      /\ UNCHANGED <<accum, credit, killing, cache, late, plan, fire, through, aborted>>
  BY DEF EvictCommits, Poke, guests, Restrict
<1>2. /\ pages[p] \in Nat /\ swapped[p] \in Nat /\ leaving[p].device \in Nat
      /\ leaving[p].below \in Nat /\ n \in Nat /\ n <= pages[p] /\ free \in Nat
  BY <1>1, ProcessForms DEF MovesInv, Shapes
<1>3. PagesOf[p] = pages[p] + leaving[p].device + 0 /\ BelowOf[p] = swapped[p] + leaving[p].below + n
  BY <1>1, HoldingForms
<1>4. p \in live => proc[p].state = "evicting" /\ AwayOK(p) /\ proc[p].parked = None
  BY <1>1 DEF AwayInv, AwayOK
<1> HIDE DEF n
<1>5. pages[p] - n \in Nat /\ swapped[p] + n \in Nat /\ free' \in Nat
  BY <1>1, <1>2
<1>6. /\ pages' \in [Processes -> Nat] /\ swapped' \in [Processes -> Nat]
      /\ leaving' \in [Processes -> [device : Nat, below : Nat]]
      /\ exec' \in [Processes -> Execs] /\ exec'[p].st = "none" /\ HoldsMove(p) /\ MovesInv'
      /\ PagesOf'[p] = (pages[p] - n) + leaving[p].device
      /\ BelowOf'[p] = (swapped[p] + n) + leaving[p].below
  BY <1>1, <1>5, ExecutorEnds
<1>7. /\ live' = live /\ proc' \in [live -> Procs]
      /\ \A q \in live : q # p => proc'[q] = proc[q]
      /\ p \in live => /\ proc'[p].state = "evicted" /\ proc'[p].parked = v
                       /\ proc'[p].idle = proc[p].idle /\ proc'[p].held = proc[p].held
  <2>1. CASE p \in live
    <3> DEFINE r == [[proc[p] EXCEPT !.state = "evicted"] EXCEPT !.parked = v]
    <3>1. proc \in [live -> Procs] /\ proc[p] \in Procs /\ v \in Nat \cup {None}
      BY <1>2, <2>1 DEF Shapes
    <3>2. proc' = [proc EXCEPT ![p] = r]
      BY <1>1, <2>1, <3>1
    <3>3. r \in Procs
      <4>1. [proc[p] EXCEPT !.state = "evicted"] \in Procs
        BY <3>1, ProcWritten
      <4> QED BY <3>1, <4>1, ProcWritten
    <3>4. r.state = "evicted" /\ r.parked = v /\ r.idle = proc[p].idle /\ r.held = proc[p].held
      BY <3>1 DEF Procs
    <3> HIDE DEF r, v
    <3> QED BY <2>1, <3>1, <3>2, <3>3, <3>4 DEF live
  <2>2. CASE p \notin live
    BY <1>1, <2>2 DEF Shapes, live
  <2> QED BY <2>1, <2>2
<1>8. ProcMoves(p) /\ ~RestoreQueued(p)
  <2>1. ~RestoreQueued(p)
    BY <1>4, NoRestoreOf
  <2>2. ProcMoves(p)
    BY <1>6, <1>7 DEF ProcMoves, HoldsMove
  <2> QED BY <2>1, <2>2
<1>9. /\ queue' \in Seq(Entries) /\ ToSet(queue) \subseteq ToSet(queue')
      /\ QueueInv' /\ SameHands /\ \A q \in live : AwayOK(q)'
  <2>1. CASE p \in live /\ ~parks
    <3>1. /\ queue' = Enqueue(proc, queue, Restore(p, n))
          /\ proc'[p].state = "evicted" /\ proc'[p].parked = None
      BY <1>1, <1>7, <2>1
    <3> QED BY <1>1, <1>2, <1>6, <1>8, <2>1, <3>1, RestoreEnters
  <2>2. CASE ~(p \in live /\ ~parks)
    <3>1. queue' = queue /\ aborted \subseteq aborted' /\ fire' = fire
      BY <1>1, <2>2
    <3>2. QueueInv' /\ \A q \in live : q # p /\ AwayOK(q) => AwayOK(q)'
      BY <1>8, <3>1, OneProcess
    <3>3. p \in live => AwayOK(p)'
      <4>1. p \in live => /\ proc'[p].state = "evicted" /\ proc'[p].parked \in Nat
                          /\ (proc'[p].idle \/ proc'[p].held)
        BY <1>2, <1>7, <2>2
      <4>2. p \in live => proc'[p].parked # None
        BY <4>1 DEF None
      <4> QED BY <1>6, <4>1, <4>2 DEF AwayOK
    <3>4. queue' \in Seq(Entries) /\ SameHands
      BY <3>1, HandsFrame DEF Shapes
    <3> QED BY <3>1, <3>2, <3>3, <3>4 DEF AwayInv
  <2> QED BY <2>1, <2>2
<1>10. Shapes'
  BY <1>1, <1>5, <1>6, <1>7, <1>9 DEF Shapes
<1>11. AwayInv'
  <2>1. DOMAIN evicting' = {q \in live : proc'[q].state = "evicting"}
    BY <1>1, <1>7 DEF AwayInv
  <2> QED BY <1>7, <1>9, <2>1 DEF AwayInv
<1>12. LedgerInv'
  <2>1. Pool' = Pool + free' - free /\ Pool \in Nat
    BY <1>1, <1>10, FreeMoves
  <2>2. free' - free = n
    BY <1>1, <1>2
  <2>3. Pool' = Pool + n
    BY <1>1, <1>2, <2>1
  <2>4. Pool' + PagesOf'[p] = Pool + PagesOf[p] /\ BelowOf'[p] <= BelowOf[p]
    BY <1>2, <1>3, <1>6, <2>1, <2>3
  <2> QED BY <1>6, <1>9, <1>10, <2>4, LedgerEnds
<1>13. CarriedInv' /\ HoardInv'
  BY <1>1, <1>9, CarriesMore, HoardLooks
<1> QED BY <1>6, <1>9, <1>10, <1>11, <1>12, <1>13

LEMMA RestoreFailsKeeps ==
  ASSUME Inv, NEW p \in Processes, NEW why, RestoreFails(p, why) PROVE Inv'
<1> USE DEF Inv
<1> DEFINE n == exec[p].n
           doomed == p \in live /\ (why = "died" \/ (why = "failed" /\ proc[p].retried))
<1>1. /\ exec[p].st = "restoring" /\ exec' = [exec EXCEPT ![p] = NoExec]
      /\ \E tells \in BOOLEAN : late' = [late EXCEPT ![tells] = @ + n]
      /\ Holds(p, pages[p], swapped[p])
      /\ p \in live =>
           /\ proc' = [proc EXCEPT ![p].state = "evicted", ![p].retried = @ \/ why = "failed"]
           /\ queue' = IF doomed THEN queue ELSE Enqueue(proc, queue, Restore(p, 0))
      /\ p \notin live => UNCHANGED <<proc, queue>>
      /\ aborted' = IF doomed THEN aborted \cup {p} ELSE aborted
      /\ poked' = (poked \/ ~doomed)
      /\ UNCHANGED <<accum, evicting, credit, killing, free, cache, plan, fire, through>>
  BY DEF RestoreFails
<1>2. /\ pages[p] \in Nat /\ swapped[p] \in Nat /\ leaving[p].device \in Nat
      /\ leaving[p].below \in Nat /\ n \in Nat
  BY <1>1, ProcessForms
<1>3. PagesOf[p] = pages[p] + leaving[p].device + n /\ BelowOf[p] = swapped[p] + leaving[p].below + 0
  BY <1>1, HoldingForms
<1>4. p \in live => proc[p].state = "restoring" /\ AwayOK(p) /\ proc[p].parked = None
  BY <1>1 DEF AwayInv, AwayOK
<1> HIDE DEF n
<1>5. late' \in [BOOLEAN -> Nat] /\ Lent' = Lent + n
  <2>1. PICK tells \in BOOLEAN : late' = [late EXCEPT ![tells] = @ + n]
    BY <1>1
  <2>2. late \in [BOOLEAN -> Nat] /\ late[tells] \in Nat
    BY DEF Shapes
  <2>3. late' \in [BOOLEAN -> Nat]
    BY <1>2, <2>1, <2>2
  <2>4. late[TRUE] \in Nat /\ late[FALSE] \in Nat
    BY PoolForms
  <2>5. CASE tells = TRUE
    <3>1. late'[TRUE] = late[TRUE] + n /\ late'[FALSE] = late[FALSE]
      BY <2>1, <2>2, <2>5
    <3> DEFINE a == late[TRUE]
               b == late[FALSE]
    <3>2. Lent' = (a + n) + (b) /\ Lent = a + b /\ a \in Nat /\ b \in Nat
      BY <2>4, <3>1, Zenon DEF Lent
    <3> HIDE DEF a, b
    <3> QED BY <1>2, <2>3, <3>2
  <2>6. CASE tells = FALSE
    <3>1. late'[FALSE] = late[FALSE] + n /\ late'[TRUE] = late[TRUE]
      BY <2>1, <2>2, <2>6
    <3> DEFINE a == late[TRUE]
               b == late[FALSE]
    <3>2. Lent' = (a) + (b + n) /\ Lent = a + b /\ a \in Nat /\ b \in Nat
      BY <2>4, <3>1, Zenon DEF Lent
    <3> HIDE DEF a, b
    <3> QED BY <1>2, <2>3, <3>2
  <2> QED BY <2>3, <2>5, <2>6
<1>6. /\ pages' \in [Processes -> Nat] /\ swapped' \in [Processes -> Nat]
      /\ leaving' \in [Processes -> [device : Nat, below : Nat]]
      /\ exec' \in [Processes -> Execs] /\ exec'[p].st = "none" /\ HoldsMove(p) /\ MovesInv'
      /\ PagesOf'[p] = pages[p] + leaving[p].device
      /\ BelowOf'[p] = swapped[p] + leaving[p].below
  BY <1>1, <1>2, ExecutorEnds
<1>7. /\ live' = live /\ proc' \in [live -> Procs]
      /\ \A q \in live : q # p => proc'[q] = proc[q]
      /\ p \in live => proc'[p].state = "evicted" /\ proc'[p].parked = None
  <2>1. CASE p \in live
    <3> DEFINE b == proc[p].retried \/ why = "failed"
               r == [[proc[p] EXCEPT !.state = "evicted"] EXCEPT !.retried = b]
    <3>1. proc \in [live -> Procs] /\ proc[p] \in Procs /\ b \in BOOLEAN
      BY <2>1 DEF Shapes
    <3>2. proc' = [proc EXCEPT ![p] = r]
      BY <1>1, <2>1, <3>1
    <3>3. r \in Procs
      <4>1. [proc[p] EXCEPT !.state = "evicted"] \in Procs
        BY <3>1, ProcWritten
      <4> QED BY <3>1, <4>1, ProcWritten
    <3>4. r.state = "evicted" /\ r.parked = proc[p].parked
      BY <3>1 DEF Procs
    <3> HIDE DEF r, b
    <3> QED BY <1>4, <2>1, <3>1, <3>2, <3>3, <3>4 DEF live
  <2>2. CASE p \notin live
    BY <1>1, <2>2 DEF Shapes, live
  <2> QED BY <2>1, <2>2
<1>8. ProcMoves(p) /\ ~RestoreQueued(p)
  <2>1. ~RestoreQueued(p)
    BY <1>4, NoRestoreOf
  <2>2. ProcMoves(p)
    BY <1>6, <1>7 DEF ProcMoves, HoldsMove
  <2> QED BY <2>1, <2>2
<1>9. /\ queue' \in Seq(Entries) /\ ToSet(queue) \subseteq ToSet(queue')
      /\ QueueInv' /\ SameHands /\ \A q \in live : AwayOK(q)'
      /\ (queue' = queue \/ queue' # <<>>)
  <2>1. CASE p \in live /\ ~doomed
    <3>1. /\ queue' = Enqueue(proc, queue, Restore(p, 0)) /\ aborted' = aborted
          /\ proc'[p].state = "evicted" /\ proc'[p].parked = None
      BY <1>1, <1>7, <2>1
    <3> QED BY <1>1, <1>6, <1>8, <2>1, <3>1, RestoreEnters
  <2>2. CASE ~(p \in live /\ ~doomed)
    <3>1. queue' = queue /\ aborted \subseteq aborted' /\ fire' = fire /\ (p \in live => p \in aborted')
      BY <1>1, <2>2
    <3>2. QueueInv' /\ \A q \in live : q # p /\ AwayOK(q) => AwayOK(q)'
      BY <1>8, <3>1, OneProcess
    <3>3. p \in live => AwayOK(p)'
      BY <1>6, <1>7, <3>1 DEF AwayOK
    <3>4. queue' \in Seq(Entries) /\ SameHands
      BY <1>1, <3>1, HandsFrame DEF Shapes
    <3> QED BY <3>1, <3>2, <3>3, <3>4 DEF AwayInv
  <2> QED BY <2>1, <2>2
<1>10. Shapes'
  <2>1. aborted' \in SUBSET live /\ poked' \in BOOLEAN
    BY <1>1 DEF Shapes
  <2> QED BY <1>1, <1>5, <1>6, <1>7, <1>9, <2>1 DEF Shapes
<1>11. AwayInv'
  <2>1. DOMAIN evicting' = {q \in live : proc'[q].state = "evicting"}
    BY <1>1, <1>4, <1>7 DEF AwayInv
  <2> QED BY <1>7, <1>9, <2>1 DEF AwayInv
<1>12. LedgerInv'
  <2>1. Lent \in Nat /\ Pool \in Nat /\ free \in Nat /\ cache \in Nat /\ accum \in Nat
    BY PoolForms
  <2>2. Pool' = Pool + n
    BY <1>1, <1>2, <1>5, <2>1 DEF Pool
  <2>3. Pool' + PagesOf'[p] = Pool + PagesOf[p] /\ BelowOf'[p] <= BelowOf[p]
    BY <1>2, <1>3, <1>6, <2>1, <2>2
  <2> QED BY <1>6, <1>9, <1>10, <2>3, LedgerEnds
<1>13. CarriedInv' /\ HoardInv'
  <2>1. CarriedInv'
    BY <1>1, <1>9, CarriesMore
  <2>2. HoardInv'
    BY <1>1, <1>9 DEF HoardInv
  <2> QED BY <2>1, <2>2
<1> QED BY <1>6, <1>9, <1>10, <1>11, <1>12, <1>13

(* A fire that found too few pages gives up, goes away, or waits.          *)
LEMMA ParkKeeps == ASSUME Inv, NEW c \in Lanes, Park(c) PROVE Inv'
<1> USE DEF Inv
<1>1. /\ fire[c].st = "short"
      /\ UNCHANGED <<proc, accum, evicting, credit, killing, plan, exec, through, aborted>>
      /\ UNCHANGED <<free, cache, pages, swapped, leaving, late>>
  BY DEF Park, pool
<1>2. Owner[c] \in live
  BY <1>1 DEF QueueInv
<1>3. CASE (To(c, "idle") \/ To(c, "away")) /\ UNCHANGED <<queue, poked>>
  <2>1. PICK st \in {"idle", "away"} : To(c, st)
    BY <1>3
  <2>2. /\ fire' \in [Lanes -> FireRecs] /\ fire'[c].st = st /\ fire'[c].n = fire[c].n
        /\ \A d \in Lanes : d # c => fire'[d] = fire[d]
    BY <2>1, FireGoes DEF FireStates
  <2>3. Shapes'
    BY <1>1, <1>3, <2>2 DEF Shapes, live
  <2>4. FireMoves(c)
    BY <1>1, <1>2, <1>3, <2>2 DEF FireMoves
  <2>5. ParkedStay /\ SameHands
    BY <1>1, <2>2, <2>4, OneFire DEF SameHands
  <2>6. SameWays /\ WaitsStay /\ MovesInv' /\ LedgerInv'
    BY <1>1, <2>3, <2>5, WaysFrame, MovesFrame, HoldingFrame, PoolFrame, LedgerSame
  <2> QED BY <1>1, <1>3, <2>3, <2>5, <2>6, GuestFrame
<1>4. CASE /\ queue' = Enqueue(proc, queue, Allocation(c, fire[c].n))
           /\ To(c, "parked") /\ Poke
  <2> DEFINE e == Allocation(c, fire[c].n)
  <2>1. /\ fire' \in [Lanes -> FireRecs] /\ fire'[c].st = "parked" /\ fire'[c].n = fire[c].n
        /\ \A d \in Lanes : d # c => fire'[d] = fire[d]
    BY <1>4, FireGoes DEF FireStates
  <2>2. /\ e \in Entries /\ e.pid = Owner[c] /\ e.by = c /\ e.need = fire[c].n /\ e.outcome = "none"
    BY FireForms DEF Allocation, Entries
  <2>3. queue' = Enqueue(proc, queue, e)
    BY <1>4
  <2> HIDE DEF e
  <2>4. \A d \in ToSet(queue) : d \in Entries /\ d.by # c /\ EntryOK(d)
    BY <1>1, QueueIndexed, Constants DEF QueueInv, EntryOK
  <2>5. queue \in Seq(Entries) /\ OneEach(queue) /\ \A d \in ToSet(queue) : Name(d) # Name(e)
    BY <2>2, <2>4, SameName DEF Shapes, QueueInv
  <2>6. /\ queue' \in Seq(Entries) /\ queue' # <<>> /\ ToSet(queue') = ToSet(queue) \cup {e}
        /\ OneEach(queue')
    BY <2>2, <2>3, <2>5, EnqueueDoes
  <2>7. Shapes'
    BY <1>1, <1>4, <2>1, <2>6 DEF Shapes, live, Poke
  <2>8. QueueInv'
    <3>1. ASSUME NEW d \in ToSet(queue') PROVE EntryOK(d)'
      <4>1. CASE d = e
        BY <1>1, <1>2, <2>1, <2>2, <4>1, Constants DEF EntryOK, live
      <4>2. CASE d \in ToSet(queue)
        <5>1. d.by # None => d.by \in Lanes /\ d.by # c
          BY <2>4, <4>2, EntryForms
        <5> QED BY <1>1, <2>1, <2>4, <4>2, <5>1 DEF EntryOK, live
      <4> QED BY <2>6, <4>1, <4>2
    <3>2. \A d \in Lanes : fire'[d].st = "parked" => \E x \in ToSet(queue') : x.by = d
      BY <2>1, <2>2, <2>6 DEF QueueInv
    <3>3. \A d \in Lanes : fire'[d].st # "idle" => Owner[d] \in live'
      BY <1>1, <1>2, <2>1 DEF QueueInv, live
    <3> QED BY <2>6, <3>1, <3>2, <3>3 DEF QueueInv
  <2>9. SameHands
    <3>1. \A d \in Lanes : Promised(d)' <=> Promised(d)
      BY <2>2, <2>6 DEF Promised
    <3>2. \A d \in Lanes : (fire'[d].st = "granted" <=> fire[d].st = "granted") /\ fire'[d].n = fire[d].n
      BY <1>1, <2>1
    <3> QED BY <3>1, <3>2 DEF SameHands, InHand
  <2>10. AwayInv'
    <3>1. ASSUME NEW q \in live PROVE AwayOK(q)'
      <4>1. AwayOK(q) /\ (RestoreQueued(q) => RestoreQueued(q)')
        BY <2>6 DEF AwayInv, RestoreQueued
      <4> QED BY <1>1, <4>1 DEF AwayOK
    <3> QED BY <1>1, <3>1 DEF AwayInv, live
  <2>11. MovesInv' /\ LedgerInv'
    BY <1>1, <2>7, <2>9, MovesFrame, HoldingFrame, PoolFrame, LedgerSame
  <2>12. CarriedInv' /\ HoardInv'
    BY <1>1, <2>6, CarriesMore, HoardLooks
  <2> QED BY <2>7, <2>8, <2>10, <2>11, <2>12
<1> QED BY <1>3, <1>4 DEF Park

(* An ask that leaves the queue: its fire goes to another state.           *)
LEMMA AskFound ==
  ASSUME Shapes, QueueInv, NEW c \in Lanes, fire[c].st = "parked"
  PROVE  LET i == At(<<Owner[c], c>>)
         IN  /\ i \in DOMAIN queue /\ queue[i] \in Entries /\ queue[i] \in ToSet(queue)
             /\ queue[i].by = c /\ queue[i].pid = Owner[c] /\ queue[i].need = fire[c].n
             /\ Name(queue[i]) = <<Owner[c], c>>
             /\ \A d \in ToSet(queue) : d.by = c => d = queue[i]
<1>1. PICK e \in ToSet(queue) : e.by = c
  BY DEF QueueInv
<1>2. e \in Entries /\ e.pid = Owner[c] /\ e.need = fire[c].n
  BY <1>1, QueueIndexed, Constants DEF QueueInv, EntryOK
<1>3. Name(e) = <<Owner[c], c>>
  BY <1>1, <1>2, EntryForms
<1>4. At(Name(e)) \in DOMAIN queue /\ queue[At(Name(e))] = e
  BY AtFinds DEF Shapes, QueueInv
<1>5. ASSUME NEW d \in ToSet(queue), d.by = c PROVE d = e
  <2>1. d \in Entries /\ d.pid = Owner[c]
    BY <1>5, QueueIndexed, Constants DEF QueueInv, EntryOK
  <2>2. Name(d) = Name(e)
    BY <1>1, <1>2, <1>5, <2>1, SameName
  <2> QED BY <2>2 DEF OneEach, QueueInv, ToSet
<1> QED BY <1>1, <1>2, <1>3, <1>4, <1>5

LEMMA ForgetDoes ==
  ASSUME Shapes, NEW gone, plan' = Forget(gone)
  PROVE  /\ PlanShaped /\ plan'.pc = plan.pc
         /\ plan'.head = IF plan.head \in gone THEN <<>> ELSE plan.head
<1>1. DOMAIN plan = DOMAIN Resting /\ plan.count \in Nat
  BY DEF Shapes
<1>2. DOMAIN Resting = {"pc", "head", "picks", "count", "fund", "cause", "relaxed"}
  BY DEF Resting
<1> QED BY <1>1, <1>2 DEF Forget, PlanShaped

(* The planner task forgets what left the queue.                           *)
LEMMA CarriesForgotten ==
  ASSUME Shapes, CarriedInv, NEW gone, plan' = Forget(gone),
         \A e \in ToSet(queue) : Name(e) \notin gone => e \in ToSet(queue')
  PROVE  CarriedInv'
<1>1. plan'.pc = plan.pc /\ plan'.head = IF plan.head \in gone THEN <<>> ELSE plan.head
  BY ForgetDoes
<1>2. CASE plan.head \in gone
  BY <1>1, <1>2 DEF CarriedInv
<1>3. CASE plan.head \notin gone
  BY <1>1, <1>3 DEF CarriedInv
<1> QED BY <1>2, <1>3

LEMMA AskLeaves ==
  ASSUME Shapes, QueueInv, AwayInv, CarriedInv, NEW c \in Lanes, fire[c].st = "parked",
         NEW i, i = At(<<Owner[c], c>>), queue' = RemoveAt(queue, i), plan' = Forget({Name(queue[i])}),
         NEW st \in FireStates, st # "parked", To(c, st),
         UNCHANGED <<proc, evicting, exec, aborted>>
  PROVE  /\ queue' \in Seq(Entries) /\ QueueInv' /\ AwayInv' /\ CarriedInv' /\ PlanShaped
         /\ fire' \in [Lanes -> FireRecs]
         /\ \A d \in Lanes : d # c => InHand'[d] = InHand[d]
         /\ InHand[c] = IF queue[i].outcome = "ok" THEN fire[c].n ELSE 0
         /\ InHand'[c] = IF st = "granted" THEN fire[c].n ELSE 0
<1> DEFINE e == queue[i]
<1>1. /\ i \in DOMAIN queue /\ e \in Entries /\ e \in ToSet(queue)
      /\ e.by = c /\ e.pid = Owner[c] /\ e.need = fire[c].n
      /\ \A d \in ToSet(queue) : d.by = c => d = e
  BY AskFound
<1>2. /\ fire' \in [Lanes -> FireRecs] /\ fire'[c].st = st /\ fire'[c].n = fire[c].n
      /\ \A d \in Lanes : d # c => fire'[d] = fire[d]
  BY FireGoes
<1>3. queue' \in Seq(Entries) /\ ToSet(queue') = ToSet(queue) \ {e} /\ OneEach(queue')
  <2>1. queue \in Seq(Entries) /\ OneEach(queue) /\ i \in DOMAIN queue
    BY <1>1 DEF Shapes, QueueInv
  <2>2. /\ RemoveAt(queue, i) \in Seq(Entries) /\ OneEach(RemoveAt(queue, i))
        /\ ToSet(RemoveAt(queue, i)) = ToSet(queue) \ {queue[i]}
    BY <2>1, RemoveDoes
  <2> QED BY <2>2
<1> HIDE DEF e
<1>4. Owner[c] \in live /\ live' = live
  BY DEF QueueInv, live
<1>5. \A d \in ToSet(queue') : d \in ToSet(queue) /\ d \in Entries /\ d.by # c
  BY <1>1, <1>3, QueueIndexed
<1>6. QueueInv'
  <2>1. ASSUME NEW d \in ToSet(queue') PROVE EntryOK(d)'
    <3>1. d.by # None => d.by \in Lanes /\ d.by # c
      BY <1>5, EntryForms
    <3>2. EntryOK(d)
      BY <1>5 DEF QueueInv
    <3> QED BY <1>2, <1>4, <3>1, <3>2 DEF EntryOK
  <2>2. ASSUME NEW d \in Lanes, fire'[d].st = "parked" PROVE \E x \in ToSet(queue') : x.by = d
    <3>1. d # c /\ fire[d].st = "parked"
      BY <1>2, <2>2
    <3>2. PICK x \in ToSet(queue) : x.by = d
      BY <3>1 DEF QueueInv
    <3> QED BY <1>1, <1>3, <3>1, <3>2
  <2>3. \A d \in Lanes : fire'[d].st # "idle" => Owner[d] \in live'
    BY <1>2, <1>4 DEF QueueInv
  <2> QED BY <1>3, <2>1, <2>2, <2>3 DEF QueueInv
<1>7. AwayInv'
  <2>1. ASSUME NEW q \in live PROVE AwayOK(q)'
    <3>1. AwayOK(q) /\ (RestoreQueued(q) => RestoreQueued(q)')
      BY <1>1, <1>3, Constants DEF AwayInv, RestoreQueued
    <3> QED BY <3>1 DEF AwayOK
  <2> QED BY <1>4, <2>1 DEF AwayInv
<1>8. CarriedInv' /\ PlanShaped
  <2>1. \A d \in ToSet(queue) : Name(d) \notin {Name(e)} => d \in ToSet(queue')
    BY <1>3
  <2>2. plan' = Forget({Name(e)})
    BY DEF e
  <2> QED BY <2>1, <2>2, CarriesForgotten, ForgetDoes
<1>9. ASSUME NEW d \in Lanes, d # c PROVE InHand'[d] = InHand[d]
  <2>1. Promised(d)' <=> Promised(d)
    BY <1>1, <1>3, <1>9 DEF Promised
  <2> QED BY <1>2, <1>9, <2>1 DEF InHand
<1>10. Promised(c) <=> e.outcome = "ok"
  BY <1>1 DEF Promised
<1>11. ~Promised(c)'
  BY <1>5 DEF Promised
<1>12. /\ InHand[c] = IF e.outcome = "ok" THEN fire[c].n ELSE 0
       /\ InHand'[c] = IF st = "granted" THEN fire[c].n ELSE 0
  BY <1>2, <1>10, <1>11 DEF InHand
<1> QED BY <1>2, <1>3, <1>6, <1>7, <1>8, <1>9, <1>12 DEF e

LEMMA CollectKeeps == ASSUME Inv, NEW c \in Lanes, Collect(c) PROVE Inv'
<1> USE DEF Inv
<1> DEFINE i == At(<<Owner[c], c>>)
           st == CASE queue[i].outcome = "ok" -> "granted"
                   [] queue[i].outcome = "failed" -> "idle"
                   [] OTHER -> IF Resident(queue[i].pid) THEN "quoted" ELSE "away"
<1>1. /\ fire[c].st = "parked" /\ queue' = RemoveAt(queue, i) /\ plan' = Forget({Name(queue[i])})
      /\ To(c, st) /\ poked' = TRUE
      /\ UNCHANGED <<proc, accum, evicting, credit, killing, exec, through, aborted>>
      /\ UNCHANGED <<free, cache, pages, swapped, leaving, late>>
  BY DEF Collect, Poke, pool
<1>2. queue[i] \in Entries
  BY <1>1, AskFound
<1>3. queue[i].outcome \in {"none", "ok", "failed"}
  BY <1>2, EntryForms
<1>4. st \in FireStates /\ st # "parked" /\ (st = "granted" <=> queue[i].outcome = "ok")
  BY <1>3 DEF FireStates
<1> HIDE DEF st, i
<1>5. /\ queue' \in Seq(Entries) /\ QueueInv' /\ AwayInv' /\ CarriedInv' /\ PlanShaped
      /\ fire' \in [Lanes -> FireRecs]
      /\ \A d \in Lanes : d # c => InHand'[d] = InHand[d]
      /\ InHand[c] = IF queue[i].outcome = "ok" THEN fire[c].n ELSE 0
      /\ InHand'[c] = IF st = "granted" THEN fire[c].n ELSE 0
  BY <1>1, <1>4, AskLeaves DEF i
<1>6. Shapes'
  BY <1>1, <1>5 DEF Shapes, live, PlanShaped
<1>7. SameHands
  BY <1>4, <1>5 DEF SameHands
<1>8. MovesInv' /\ LedgerInv'
  BY <1>1, <1>6, <1>7, MovesFrame, HoldingFrame, PoolFrame, LedgerSame
<1>9. HoardInv'
  BY <1>1, HoardLooks
<1> QED BY <1>5, <1>6, <1>8, <1>9

LEMMA CancelWaiterKeeps == ASSUME Inv, NEW c \in Lanes, CancelWaiter(c) PROVE Inv'
<1> USE DEF Inv
<1> DEFINE i == At(<<Owner[c], c>>)
           given == IF queue[i].outcome = "ok" THEN fire[c].n ELSE 0
<1>1. /\ fire[c].st = "parked" /\ queue' = RemoveAt(queue, i) /\ plan' = Forget({Name(queue[i])})
      /\ To(c, "idle") /\ poked' = TRUE
      /\ free' = free + (IF queue[i].outcome = "ok" THEN queue[i].need ELSE 0)
      /\ UNCHANGED <<proc, accum, evicting, credit, killing, exec, through, aborted>>
      /\ UNCHANGED <<cache, pages, swapped, leaving, late>>
  BY DEF CancelWaiter, Poke, pool
<1>2. queue[i].need = fire[c].n
  BY <1>1, AskFound
<1>3. free' = free + given /\ given \in Nat /\ free \in Nat
  BY <1>1, <1>2, FireForms DEF Shapes
<1> HIDE DEF i
<1>4. /\ queue' \in Seq(Entries) /\ QueueInv' /\ AwayInv' /\ CarriedInv' /\ PlanShaped
      /\ fire' \in [Lanes -> FireRecs]
      /\ \A d \in Lanes : d # c => InHand'[d] = InHand[d]
      /\ InHand[c] = given /\ InHand'[c] = 0
  <2>1. "idle" \in FireStates
    BY DEF FireStates
  <2>2. /\ queue' \in Seq(Entries) /\ QueueInv' /\ AwayInv' /\ CarriedInv' /\ PlanShaped
        /\ fire' \in [Lanes -> FireRecs]
        /\ \A d \in Lanes : d # c => InHand'[d] = InHand[d]
        /\ InHand[c] = given
        /\ InHand'[c] = IF "idle" = "granted" THEN fire[c].n ELSE 0
    BY <1>1, <2>1, AskLeaves DEF i
  <2> QED BY <2>2
<1> HIDE DEF given
<1>5. free' \in Nat
  BY <1>3
<1>6. Shapes'
  BY <1>1, <1>4, <1>5 DEF Shapes, live, PlanShaped
<1>7. Pool' + InHand'[c] = Pool + InHand[c]
  <2>1. Pool' = Pool + free' - free /\ Pool \in Nat
    BY <1>1, <1>6, FreeMoves
  <2>2. Pool' = Pool + given
    BY <1>3, <2>1
  <2> QED BY <1>3, <1>4, <2>1, <2>2
<1>8. MovesInv' /\ LedgerInv'
  BY <1>1, <1>4, <1>6, <1>7, MovesFrame, HoldingFrame, LedgerFires
<1>9. HoardInv'
  BY <1>1, HoardLooks
<1> QED BY <1>4, <1>6, <1>8, <1>9

(* A restore that is quoted again, boards, or waits for more.              *)
LEMMA RestoreRequoted ==
  ASSUME Inv, plan.pc = "restore", plan.head # <<>>, NEW need \in Nat,
         queue' = [queue EXCEPT ![At(plan.head)].need = need], Goto("loop"),
         UNCHANGED <<proc, accum, exec, evicting, credit, killing, free, cache, poked>>,
         UNCHANGED <<fire, through, aborted, pages, swapped, leaving, late>>
  PROVE  Inv'
<1> USE DEF Inv
<1> DEFINE i == At(plan.head)
           d == [queue[i] EXCEPT !.need = need]
<1>1. i \in DOMAIN queue /\ queue[i] \in Entries /\ queue[i] \in ToSet(queue) /\ queue[i].by = None
  BY CarriedFound DEF CarriedInv
<1>2. queue[i].outcome = "none"
  BY <1>1 DEF QueueInv, EntryOK
<1>3. d \in Entries /\ Name(d) = Name(queue[i]) /\ d.outcome = queue[i].outcome
  BY <1>1, EntryWritten
<1>4. queue' = [queue EXCEPT ![i] = d]
  OBVIOUS
<1> HIDE DEF d, i
<1>5. queue \in Seq(Entries) /\ \A j \in DOMAIN queue : queue[j] \in Entries
  BY QueueIndexed DEF Shapes
<1>6. /\ queue' = [j \in DOMAIN queue |-> queue'[j]] /\ queue'[i] = d
      /\ \A j \in DOMAIN queue : j # i => queue'[j] = queue[j]
  BY <1>1, <1>4
<1>7. Rewrites /\ Serves({})
  <2>1. ASSUME NEW j \in DOMAIN queue
        PROVE  /\ queue'[j] \in Entries /\ Name(queue'[j]) = Name(queue[j])
               /\ queue[j].by # None => queue'[j].need = queue[j].need
               /\ queue[j].by = None => queue'[j].outcome = "none"
               /\ queue'[j].outcome = "ok" <=> queue[j].outcome = "ok"
    <3>1. CASE j = i
      BY <1>1, <1>2, <1>3, <1>6, <3>1
    <3>2. CASE j # i
      <4>1. queue[j] \in ToSet(queue) /\ EntryOK(queue[j])
        BY QueueIndexed DEF QueueInv
      <4> QED BY <1>5, <1>6, <3>2, <4>1 DEF EntryOK
    <3> QED BY <3>1, <3>2
  <2> QED BY <1>6, <2>1 DEF Rewrites, Serves
<1>8. PlanShaped /\ plan'.head = <<>> /\ plan'.pc = "loop"
  BY GotoDoes
<1>9. HoardInv'
  BY <1>8, HoardLooks DEF Waking
<1>10. free' \in Nat /\ accum' \in Nat /\ poked' \in BOOLEAN /\ killing' \in SUBSET live
  BY DEF Shapes
<1>11. Pool' = Pool - NeedOf({})
  <2>1. Pool' = Pool /\ Pool \in Nat /\ NeedOf({}) = 0
    BY PoolFrame, PoolForms, NoneServed
  <2> QED BY <2>1
<1> QED BY <1>7, <1>8, <1>9, <1>10, <1>11, OutcomeFrame

LEMMA RestoreBoards ==
  ASSUME Inv, NEW i \in DOMAIN queue, NEW p, p = queue[i].pid, queue[i].by = None,
         NEW need, need = swapped[p], accum >= need, proc[p].state = "evicted",
         proc' = [proc EXCEPT ![p].state = "restoring"],
         queue' = RemoveAt(queue, i), accum' = accum - need,
         exec' = [exec EXCEPT ![p] = [st |-> "restoring", n |-> need]], Goto("loop"),
         UNCHANGED <<evicting, credit, killing, free, cache, poked>>,
         UNCHANGED <<fire, through, aborted, pages, swapped, leaving, late>>
  PROVE  Inv'
<1> USE DEF Inv
<1> DEFINE e == queue[i]
<1>1. e \in Entries /\ e \in ToSet(queue) /\ e.pid = p /\ e.by = None
  BY QueueIndexed
<1>2. /\ p \in live /\ proc[p].parked = None /\ AwayOK(p) /\ e.outcome = "none"
  BY <1>1 DEF QueueInv, EntryOK, AwayInv
<1>3. /\ p \in Processes /\ pages[p] \in Nat /\ swapped[p] \in Nat /\ leaving[p].device \in Nat
      /\ leaving[p].below \in Nat /\ accum \in Nat /\ exec[p].st = "none"
  BY <1>2, ProcForms, ProcessForms DEF AwayOK, Shapes
<1>4. /\ queue' \in Seq(Entries) /\ ToSet(queue') = ToSet(queue) \ {e} /\ OneEach(queue')
  <2>1. queue \in Seq(Entries) /\ OneEach(queue)
    BY DEF Shapes, QueueInv
  <2>2. /\ RemoveAt(queue, i) \in Seq(Entries) /\ OneEach(RemoveAt(queue, i))
        /\ ToSet(RemoveAt(queue, i)) = ToSet(queue) \ {queue[i]}
    BY <2>1, RemoveDoes
  <2> QED BY <2>2
<1> HIDE DEF e
<1>5. /\ live' = live /\ proc' \in [live -> Procs]
      /\ proc'[p].state = "restoring" /\ proc'[p].parked = None
      /\ \A q \in live : q # p => proc'[q] = proc[q]
  BY <1>2, StateSet
<1>6. /\ exec' \in [Processes -> Execs] /\ exec'[p].st = "restoring" /\ exec'[p].n = need
      /\ \A q \in Processes : q # p => exec'[q] = exec[q]
  BY <1>3 DEF Shapes, Execs
<1>7. accum' \in Nat
  BY <1>3
<1>8. PlanShaped /\ plan'.head = <<>> /\ plan'.pc = "loop"
  BY GotoDoes
<1>9. Shapes'
  BY <1>4, <1>5, <1>6, <1>7, <1>8 DEF Shapes, PlanShaped
<1>10. \A d \in ToSet(queue') : d \in ToSet(queue) /\ d \in Entries /\ ~(d.pid = p /\ d.by = None)
  <2>1. SUFFICES ASSUME NEW d \in ToSet(queue), d # e PROVE ~(d.pid = p /\ d.by = None)
    BY <1>4, QueueIndexed
  <2>2. d \in Entries /\ Name(d) # Name(e)
    BY <1>1, <2>1, QueueIndexed DEF QueueInv, OneEach, ToSet
  <2> QED BY <1>1, <2>2, SameName
<1>11. QueueInv'
  <2>1. ASSUME NEW d \in ToSet(queue') PROVE EntryOK(d)'
    <3>1. EntryOK(d) /\ (d.by = None => d.pid # p)
      BY <1>10 DEF QueueInv
    <3> QED BY <1>5, <3>1 DEF EntryOK
  <2>2. \A c \in Lanes : fire'[c].st = "parked" => \E d \in ToSet(queue') : d.by = c
    BY <1>1, <1>4, Constants DEF QueueInv
  <2>3. \A c \in Lanes : fire'[c].st # "idle" => Owner[c] \in live'
    BY <1>5 DEF QueueInv
  <2> QED BY <1>4, <2>1, <2>2, <2>3 DEF QueueInv
<1>12. AwayInv'
  <2>1. ASSUME NEW q \in live PROVE AwayOK(q)'
    <3>1. CASE q = p
      BY <1>5, <1>6, <3>1 DEF AwayOK
    <3>2. CASE q # p
      <4>1. q \in Processes /\ AwayOK(q) /\ (RestoreQueued(q) => RestoreQueued(q)')
        BY <1>1, <1>4, <3>2 DEF AwayInv, RestoreQueued, Shapes
      <4> QED BY <1>5, <1>6, <3>2, <4>1 DEF AwayOK
    <3> QED BY <3>1, <3>2
  <2>2. DOMAIN evicting' = {q \in live : proc'[q].state = "evicting"}
    BY <1>5 DEF AwayInv
  <2> QED BY <1>5, <2>1, <2>2 DEF AwayInv
<1>13. MovesInv'
  BY <1>3, <1>6 DEF MovesInv
<1>14. SameHands
  <2>1. \A c \in Lanes : Promised(c)' <=> Promised(c)
    BY <1>1, <1>4, Constants DEF Promised
  <2> QED BY <2>1 DEF SameHands, InHand
<1>15. HoldsMove(p)
  BY <1>6 DEF HoldsMove
<1>16. LedgerInv'
  <2>1. /\ PagesOf[p] = pages[p] + leaving[p].device + 0
        /\ BelowOf[p] = swapped[p] + leaving[p].below + 0
    BY <1>3, HoldingForms
  <2>2. /\ PagesOf'[p] = pages[p] + leaving[p].device + need
        /\ BelowOf'[p] = swapped[p] + leaving[p].below + 0
    BY <1>3, <1>6 DEF PagesOf, BelowOf
  <2>3. Pool' = Pool - need /\ Pool \in Nat
    <3>1. free \in Nat /\ cache \in Nat /\ Lent \in Nat /\ Pool \in Nat /\ Lent' = Lent
      BY PoolForms DEF Lent
    <3> QED BY <1>3, <3>1 DEF Pool
  <2>4. Pool' + PagesOf'[p] = Pool + PagesOf[p] /\ BelowOf'[p] <= BelowOf[p]
    BY <1>3, <2>1, <2>2, <2>3
  <2> QED BY <1>3, <1>9, <1>14, <1>15, <2>4, LedgerEnds
<1>17. CarriedInv' /\ HoardInv'
  BY <1>8, CarriesNothing, HoardLooks DEF Waking
<1> QED BY <1>9, <1>11, <1>12, <1>13, <1>16, <1>17

LEMMA PlanServesRestoreKeeps == ASSUME Inv, PlanServesRestore PROVE Inv'
<1> USE DEF Inv
<1> DEFINE i == At(plan.head)
           p == plan.head[1]
           need == swapped[p]
<1>1. /\ plan.pc = "restore" /\ Goto("loop")
      /\ UNCHANGED <<evicting, credit, killing, free, cache, poked>>
      /\ UNCHANGED <<fire, through, aborted, pages, swapped, leaving, late>>
  BY DEF PlanServesRestore, unmoved
<1>2. ASSUME plan.head # <<>>
      PROVE  i \in DOMAIN queue /\ queue[i].by = None /\ p = queue[i].pid /\ need \in Nat
  <2>1. i \in DOMAIN queue /\ queue[i] \in Entries /\ plan.head[1] = queue[i].pid
        /\ plan.head[2] = queue[i].by
    BY <1>2, CarriedFound
  <2>2. queue[i].by = None
    BY <1>1, <1>2, <2>1 DEF CarriedInv
  <2>3. p \in Processes
    BY <2>1, EntryForms
  <2> QED BY <2>1, <2>2, <2>3, ProcessForms
<1>3. CASE /\ plan.head # <<>> /\ queue[i].need # need
           /\ queue' = [queue EXCEPT ![i].need = need]
           /\ UNCHANGED <<proc, accum, exec>>
  <2>1. need \in Nat
    BY <1>2, <1>3
  <2> HIDE DEF need
  <2> QED BY <1>1, <1>3, <2>1, RestoreRequoted
<1>4. CASE /\ plan.head # <<>> /\ queue[i].need = need
           /\ HeadIs(plan.head) /\ accum >= need /\ proc[p].state = "evicted"
           /\ proc' = [proc EXCEPT ![p].state = "restoring"]
           /\ queue' = RemoveAt(queue, i)
           /\ accum' = accum - need
           /\ exec' = [exec EXCEPT ![p] = [st |-> "restoring", n |-> need]]
  <2>1. i \in DOMAIN queue /\ queue[i].by = None /\ p = queue[i].pid
    BY <1>2, <1>4
  <2> HIDE DEF i, p
  <2> QED BY <1>1, <1>4, <2>1, RestoreBoards
<1>5. CASE UNCHANGED <<proc, queue, accum, exec>>
  <2>1. PlanShaped /\ plan'.head = <<>>
    BY <1>1, GotoDoes
  <2>2. CarriedInv'
    BY <2>1, CarriesNothing
  <2> QED BY <1>1, <1>5, <2>1, <2>2, PlanTurns DEF Waking
<1> QED BY <1>3, <1>4, <1>5 DEF PlanServesRestore

-----------------------------------------------------------------------------
(* A schedule: keys, holds, and the queue sorted again. *)

LEMMA JoinedDoes ==
  ASSUME NEW q \in Seq(Entries), OneEach(q), NEW r \in Seq(Entries), OneEach(r),
         \A d \in ToSet(q) : \A e \in ToSet(r) : Name(d) # Name(e)
  PROVE  q \o r \in Seq(Entries) /\ ToSet(q \o r) = ToSet(q) \cup ToSet(r) /\ OneEach(q \o r)
<1> DEFINE t == q \o r
           m == Len(q)
           n == Len(r)
<1>1. m \in Nat /\ n \in Nat /\ DOMAIN q = 1..m /\ DOMAIN r = 1..n
  BY SeqIndexed
<1>2. /\ t \in Seq(Entries) /\ Len(t) = m + n
      /\ \A i \in 1..(m + n) : t[i] = IF i <= m THEN q[i] ELSE r[i - m]
  BY ConcatProperties
<1>3. DOMAIN t = 1..(m + n)
  BY <1>2, SeqIndexed
<1> HIDE DEF t, m, n
<1>4. ASSUME NEW i \in DOMAIN t
      PROVE  /\ i \in Nat
             /\ i <= m => i \in DOMAIN q /\ t[i] = q[i]
             /\ ~(i <= m) => i - m \in DOMAIN r /\ t[i] = r[i - m]
  BY <1>1, <1>2, <1>3
<1>5. ASSUME NEW i \in DOMAIN q PROVE i \in DOMAIN t /\ t[i] = q[i]
  BY <1>1, <1>2, <1>3
<1>6. ASSUME NEW i \in DOMAIN r PROVE m + i \in DOMAIN t /\ t[m + i] = r[i]
  <2>1. m + i \in 1..(m + n) /\ ~(m + i <= m) /\ (m + i) - m = i
    BY <1>1
  <2> QED BY <1>2, <1>3, <2>1
<1>7. ToSet(t) = ToSet(q) \cup ToSet(r)
  <2>1. ASSUME NEW x \in ToSet(t) PROVE x \in ToSet(q) \cup ToSet(r)
    <3>1. PICK i \in DOMAIN t : x = t[i]
      BY DEF ToSet
    <3> QED BY <1>4, <3>1 DEF ToSet
  <2>2. ASSUME NEW x \in ToSet(q) PROVE x \in ToSet(t)
    BY <1>5 DEF ToSet
  <2>3. ASSUME NEW x \in ToSet(r) PROVE x \in ToSet(t)
    BY <1>6 DEF ToSet
  <2> QED BY <2>1, <2>2, <2>3
<1>8. OneEach(t)
  <2>1. SUFFICES ASSUME NEW i \in DOMAIN t, NEW j \in DOMAIN t, Name(t[i]) = Name(t[j])
                 PROVE  i = j
    BY DEF OneEach
  <2>2. CASE i <= m /\ j <= m
    BY <1>4, <2>1, <2>2 DEF OneEach
  <2>3. CASE ~(i <= m) /\ ~(j <= m)
    <3>1. i - m = j - m
      BY <1>4, <2>1, <2>3 DEF OneEach
    <3>2. i \in Nat /\ j \in Nat
      BY <1>4
    <3> QED BY <1>1, <3>1, <3>2
  <2>4. CASE i <= m /\ ~(j <= m)
    <3>1. t[i] \in ToSet(q) /\ t[j] \in ToSet(r)
      BY <1>4, <2>4 DEF ToSet
    <3> QED BY <2>1, <3>1
  <2>5. CASE ~(i <= m) /\ j <= m
    <3>1. t[j] \in ToSet(q) /\ t[i] \in ToSet(r)
      BY <1>4, <2>5 DEF ToSet
    <3> QED BY <2>1, <3>1
  <2> QED BY <2>2, <2>3, <2>4, <2>5
<1> QED BY <1>2, <1>7, <1>8 DEF t

RestoresOf(released) == {Restore(p, proc[p].parked) : p \in released}

(* The restores of some processes whose demand was parked, one each.       *)
LEMMA ListedRestores ==
  ASSUME Shapes, NEW released \in SUBSET live, \A p \in released : proc[p].parked # None
  PROVE  /\ SetToSeq(RestoresOf(released)) \in Seq(Entries)
         /\ ToSet(SetToSeq(RestoresOf(released))) = RestoresOf(released)
         /\ OneEach(SetToSeq(RestoresOf(released)))
         /\ \A e \in RestoresOf(released) :
              /\ e \in Entries /\ e.by = None /\ e.pid \in released /\ e.outcome = "none"
         /\ \A p \in released : \E e \in RestoresOf(released) : e.pid = p
<1> DEFINE R == RestoresOf(released)
           f == [p \in released |-> Restore(p, proc[p].parked)]
<1>1. ASSUME NEW p \in released
      PROVE  /\ Restore(p, proc[p].parked) \in Entries /\ Restore(p, proc[p].parked).pid = p
             /\ Restore(p, proc[p].parked).by = None
             /\ Restore(p, proc[p].parked).outcome = "none"
  <2>1. p \in Processes /\ proc[p].parked \in Nat
    BY ProcForms
  <2> QED BY <2>1 DEF Restore, Entries
<1>2. \A e \in R : /\ e \in Entries /\ e.by = None /\ e.pid \in released /\ e.outcome = "none"
                   /\ e = Restore(e.pid, proc[e.pid].parked)
  BY <1>1 DEF RestoresOf
<1>3. \A p \in released : \E e \in R : e.pid = p
  BY <1>1 DEF RestoresOf
<1>4. IsFiniteSet(R)
  <2>1. IsFiniteSet(released)
    BY Constants, FS_Subset DEF Shapes
  <2>2. f \in Surjection(released, R)
    BY DEF Surjection, RestoresOf
  <2> HIDE DEF f, R
  <2> QED BY <2>1, <2>2, FS_Surjection
<1> HIDE DEF R, f
<1> DEFINE t == SetToSeq(R)
<1>5. /\ t \in Seq(R) /\ ToSet(t) = R /\ \A i, j \in DOMAIN t : t[i] = t[j] => i = j
  BY <1>4, SetListed
<1> HIDE DEF t
<1>6. /\ Len(t) \in Nat /\ DOMAIN t = 1..Len(t) /\ \A i \in DOMAIN t : t[i] \in R
  BY <1>5, SeqIndexed
<1>7. t \in Seq(Entries)
  <2>1. t = [i \in 1..Len(t) |-> t[i]] /\ \A i \in 1..Len(t) : t[i] \in Entries
    BY <1>2, <1>5, <1>6
  <2> QED BY <1>6, <2>1, IsASeq
<1>8. OneEach(t)
  <2>1. SUFFICES ASSUME NEW i \in DOMAIN t, NEW j \in DOMAIN t, Name(t[i]) = Name(t[j])
                 PROVE  i = j
    BY DEF OneEach
  <2>2. t[i] \in R /\ t[j] \in R
    BY <1>6
  <2>3. t[i].pid = t[j].pid
    BY <1>2, <2>1, <2>2, SameName
  <2>4. t[i] = t[j]
    BY <1>2, <2>2, <2>3
  <2> QED BY <1>5, <2>4
<1> QED BY <1>2, <1>3, <1>5, <1>7, <1>8 DEF R, t

(* What is in the queue after a schedule: what was and is not parked, and  *)
(* the restores of the released.                                           *)
LEMMA QueueScheduled ==
  ASSUME Shapes, QueueInv, NEW parks \in SUBSET (DOMAIN queue),
         NEW released \in SUBSET live, \A p \in released : proc[p].parked # None,
         NEW ordered, \A p \in live : ordered[p].key \in Int,
         queue' = Ranked(ordered, Kept(queue, DOMAIN queue \ parks) \o SetToSeq(RestoresOf(released)))
  PROVE  /\ queue' \in Seq(Entries) /\ OneEach(queue')
         /\ ToSet(queue') = {queue[i] : i \in DOMAIN queue \ parks} \cup RestoresOf(released)
<1> DEFINE kept == Kept(queue, DOMAIN queue \ parks)
           back == SetToSeq(RestoresOf(released))
<1>1. queue \in Seq(Entries) /\ OneEach(queue)
  BY DEF Shapes, QueueInv
<1>2. /\ kept \in Seq(Entries) /\ ToSet(kept) = {queue[i] : i \in DOMAIN queue \ parks} /\ OneEach(kept)
  BY <1>1, KeptDoes
<1>3. /\ back \in Seq(Entries) /\ ToSet(back) = RestoresOf(released) /\ OneEach(back)
      /\ \A e \in RestoresOf(released) : e \in Entries /\ e.by = None /\ e.pid \in released
  BY ListedRestores
<1>4. queue' = Ranked(ordered, kept \o back)
  OBVIOUS
<1> HIDE DEF kept, back
<1>5. ASSUME NEW d \in ToSet(kept), NEW e \in ToSet(back) PROVE Name(d) # Name(e)
  <2>1. d \in ToSet(queue) /\ d \in Entries
    BY <1>2, QueueIndexed
  <2>2. e \in Entries /\ e.by = None /\ e.pid \in released
    BY <1>3
  <2>3. ~(d.pid = e.pid /\ d.by = None)
    BY <2>1, <2>2 DEF QueueInv, EntryOK
  <2> QED BY <2>1, <2>2, <2>3, SameName
<1> DEFINE both == kept \o back
<1>6. both \in Seq(Entries) /\ ToSet(both) = ToSet(kept) \cup ToSet(back) /\ OneEach(both)
  BY <1>2, <1>3, <1>5, JoinedDoes
<1> HIDE DEF both
<1>7. \A e \in ToSet(both) : ordered[e.pid].key \in Int
  <2>1. \A d \in ToSet(kept) : d.pid \in live
    BY <1>2, QueueIndexed DEF QueueInv, EntryOK
  <2>2. \A e \in ToSet(back) : e.pid \in live
    BY <1>3
  <2> QED BY <1>6, <2>1, <2>2
<1>8. /\ Ranked(ordered, both) \in Seq(Entries) /\ ToSet(Ranked(ordered, both)) = ToSet(both)
      /\ OneEach(Ranked(ordered, both))
  BY <1>6, <1>7, RankedDoes
<1> QED BY <1>2, <1>3, <1>4, <1>6, <1>8 DEF both

(* A restore of the held is parked with its demand, a demand of the        *)
(* released queued, and nothing else changes but rank.                     *)
LEMMA RescheduleKeeps ==
  ASSUME Inv, NEW schedule \in Schedules, Reschedule(schedule) PROVE Inv'
<1> USE DEF Inv
<1> DEFINE keys == schedule.keys
           holds == schedule.holds \cap live
           ordered == [p \in live |-> [proc[p] EXCEPT !.key = keys[p], !.held = p \in holds]]
           parks == {i \in DOMAIN queue : IsRestore(queue[i]) /\ queue[i].pid \in holds}
           demand(p) == queue[CHOOSE i \in parks : queue[i].pid = p].need
           released == {p \in live \ holds : ~proc[p].idle /\ proc[p].state = "evicted"
                                             /\ proc[p].parked # None}
           sent(p) == \E i \in parks : queue[i].pid = p
           v(p) == IF sent(p) THEN demand(p) ELSE IF p \in released THEN None ELSE proc[p].parked
           gone == {Name(queue[i]) : i \in
             parks \cup {j \in DOMAIN queue : proc[queue[j].pid].key # keys[queue[j].pid]}}
<1>1. /\ proc' = [p \in live |-> [ordered[p] EXCEPT !.parked =
           IF sent(p) THEN demand(p) ELSE IF p \in released THEN None ELSE @]]
      /\ queue' = Ranked(ordered, Kept(queue, DOMAIN queue \ parks) \o SetToSeq(RestoresOf(released)))
      /\ plan' = Forget(gone) /\ poked' = TRUE
      /\ UNCHANGED <<accum, evicting, credit, killing, exec, fire, through, aborted>>
      /\ UNCHANGED <<free, cache, pages, swapped, leaving, late>>
  BY DEF Reschedule, Poke, pool, RestoresOf
<1>2. keys \in [Processes -> Int]
  BY PlannerAssumption
<1>3. \A i \in DOMAIN queue : /\ queue[i] \in Entries /\ queue[i] \in ToSet(queue) /\ EntryOK(queue[i])
                              /\ IsRestore(queue[i]) = (queue[i].by = None)
  BY QueueIndexed, EntryForms DEF QueueInv
<1>4. ASSUME NEW p \in live, sent(p)
      PROVE  /\ p \in holds /\ demand(p) \in Nat /\ proc[p].state = "evicted"
             /\ proc[p].parked = None
  <2> DEFINE i == CHOOSE i \in parks : queue[i].pid = p
  <2>1. i \in parks /\ queue[i].pid = p
    BY <1>4
  <2>2. queue[i] \in Entries /\ EntryOK(queue[i]) /\ queue[i].by = None /\ p \in holds
    BY <1>3, <2>1
  <2>3. demand(p) = queue[i].need
    OBVIOUS
  <2> HIDE DEF i, demand
  <2>4. demand(p) \in Nat
    BY <2>2, <2>3, EntryForms
  <2> QED BY <2>1, <2>2, <2>4 DEF EntryOK
<1> HIDE DEF demand, sent
<1>5. ASSUME NEW p \in live
      PROVE  /\ ordered[p] \in Procs /\ ordered[p].key \in Int
             /\ proc'[p] \in Procs /\ proc'[p].state = proc[p].state /\ proc'[p].parked = v(p)
             /\ proc'[p].idle = proc[p].idle /\ proc'[p].held = (p \in holds)
  <2> DEFINE h == p \in holds
             a == [proc[p] EXCEPT !.key = keys[p]]
             b == [a EXCEPT !.held = h]
             c == [b EXCEPT !.parked = v(p)]
  <2>1. proc[p] \in Procs /\ keys[p] \in Int /\ h \in BOOLEAN /\ proc[p].parked \in Nat \cup {None}
    BY <1>2, ProcForms
  <2>2. v(p) \in Nat \cup {None}
    BY <1>4, <2>1
  <2>3. a \in Procs /\ b \in Procs
    <3>1. a \in Procs
      BY <2>1, ProcWritten
    <3> HIDE DEF a, h
    <3> QED BY <2>1, <3>1, ProcWritten
  <2>4. /\ b.key = keys[p] /\ b.held = h /\ b.state = proc[p].state /\ b.idle = proc[p].idle
        /\ b.parked = proc[p].parked
    BY <2>1 DEF Procs
  <2>5. ordered[p] = b
    OBVIOUS
  <2>6. proc'[p] = c
    BY <1>1, <2>4, <2>5
  <2> HIDE DEF b, h, v
  <2>7. c \in Procs
    BY <2>2, <2>3, ProcWritten
  <2>8. c.state = b.state /\ c.parked = v(p) /\ c.idle = b.idle /\ c.held = b.held
    BY <2>3 DEF Procs
  <2> HIDE DEF c, ordered
  <2> QED BY <2>1, <2>3, <2>4, <2>5, <2>6, <2>7, <2>8 DEF h
<1>6. live' = live /\ proc' \in [live -> Procs]
  BY <1>1, <1>5 DEF live
<1>7. /\ parks \in SUBSET (DOMAIN queue) /\ released \in SUBSET live
      /\ \A p \in released : proc[p].parked # None
      /\ \A i \in DOMAIN queue : i \in parks <=> queue[i].by = None /\ queue[i].pid \in holds
      /\ holds \in SUBSET live
      /\ \A p \in live : p \in released <=>
           p \notin holds /\ ~proc[p].idle /\ proc[p].state = "evicted" /\ proc[p].parked # None
  BY <1>3
<1> HIDE DEF parks, released, holds, ordered
<1>8. /\ queue' \in Seq(Entries) /\ OneEach(queue')
      /\ ToSet(queue') = {queue[i] : i \in DOMAIN queue \ parks} \cup RestoresOf(released)
  BY <1>1, <1>5, <1>7, QueueScheduled
<1>9. /\ \A e \in RestoresOf(released) : e \in Entries /\ e.by = None /\ e.pid \in released
                                         /\ e.outcome = "none"
      /\ \A p \in released : \E e \in RestoresOf(released) : e.pid = p
  BY <1>7, ListedRestores
<1>10. \A p : sent(p) <=> \E i \in parks : queue[i].pid = p
  BY DEF sent
<1>11. ASSUME NEW e \in ToSet(queue), e.by # None PROVE e \in ToSet(queue')
  <2>1. PICK i \in DOMAIN queue : e = queue[i]
    BY DEF ToSet
  <2> QED BY <1>7, <1>8, <1>11, <2>1
<1>12. QueueInv'
  <2>1. ASSUME NEW e \in ToSet(queue') PROVE EntryOK(e)'
    <3>1. CASE e \in RestoresOf(released)
      <4>1. e.by = None /\ e.outcome = "none" /\ e.pid \in released /\ e.pid \in live
        BY <1>7, <1>9, <3>1
      <4>2. proc[e.pid].state = "evicted" /\ ~sent(e.pid)
        BY <1>4, <1>7, <4>1
      <4>3. proc'[e.pid].state = "evicted" /\ proc'[e.pid].parked = None
        BY <1>5, <4>1, <4>2
      <4> QED BY <1>6, <4>1, <4>3 DEF EntryOK
    <3>2. CASE e \in {queue[i] : i \in DOMAIN queue \ parks}
      <4>1. PICK i \in DOMAIN queue \ parks : e = queue[i]
        BY <3>2
      <4>2. EntryOK(e) /\ e.pid \in live
        BY <1>3, <4>1 DEF EntryOK
      <4>3. e.by = None => proc'[e.pid].state = "evicted" /\ proc'[e.pid].parked = None
        <5>1. SUFFICES ASSUME e.by = None
                       PROVE  proc'[e.pid].state = "evicted" /\ proc'[e.pid].parked = None
          OBVIOUS
        <5>2. proc[e.pid].state = "evicted" /\ proc[e.pid].parked = None
          BY <4>2, <5>1 DEF EntryOK
        <5>3. ~sent(e.pid)
          BY <1>4, <1>7, <4>1, <4>2, <5>1
        <5> QED BY <1>5, <4>2, <5>2, <5>3
      <4> QED BY <1>1, <1>6, <4>2, <4>3 DEF EntryOK
    <3> QED BY <1>8, <3>1, <3>2
  <2>2. ASSUME NEW c \in Lanes, fire'[c].st = "parked" PROVE \E e \in ToSet(queue') : e.by = c
    <3>1. PICK e \in ToSet(queue) : e.by = c
      BY <1>1, <2>2 DEF QueueInv
    <3> QED BY <1>11, <3>1, Constants
  <2>3. \A c \in Lanes : fire'[c].st # "idle" => Owner[c] \in live'
    BY <1>1, <1>6 DEF QueueInv
  <2> QED BY <1>8, <2>1, <2>2, <2>3 DEF QueueInv
<1>13. AwayInv'
  <2>1. ASSUME NEW p \in live PROVE AwayOK(p)'
    <3>1. AwayOK(p) /\ p \in Processes /\ proc[p].idle \in BOOLEAN
      BY ProcForms DEF AwayInv
    <3>2. /\ proc'[p].state = proc[p].state /\ proc'[p].parked = v(p)
          /\ proc'[p].idle = proc[p].idle /\ proc'[p].held = (p \in holds)
      BY <1>5
    <3>3. CASE sent(p)
      <4>1. /\ p \in holds /\ demand(p) \in Nat /\ proc[p].state = "evicted"
        BY <1>4, <3>3
      <4>2. v(p) \in Nat
        BY <3>3, <4>1
      <4> HIDE DEF v
      <4>3. v(p) # None
        BY <4>2 DEF None
      <4> QED BY <1>1, <3>1, <3>2, <4>1, <4>3 DEF AwayOK
    <3>4. CASE ~sent(p) /\ p \in released
      <4>1. v(p) = None /\ proc[p].state = "evicted"
        BY <1>7, <3>4
      <4> HIDE DEF v
      <4>2. RestoreQueued(p)'
        BY <1>8, <1>9, <3>4 DEF RestoreQueued
      <4> QED BY <1>1, <3>1, <3>2, <4>1, <4>2 DEF AwayOK
    <3>5. CASE ~sent(p) /\ p \notin released
      <4>1. v(p) = proc[p].parked
        BY <3>5
      <4> HIDE DEF v
      <4>2. RestoreQueued(p) => RestoreQueued(p)'
        <5>1. SUFFICES ASSUME NEW e \in ToSet(queue), e.pid = p, e.by = None
                       PROVE  RestoreQueued(p)'
          BY DEF RestoreQueued
        <5>2. PICK i \in DOMAIN queue : e = queue[i]
          BY DEF ToSet
        <5>3. i \notin parks
          BY <1>10, <3>5, <5>1, <5>2
        <5> QED BY <1>8, <5>1, <5>2, <5>3 DEF RestoreQueued
      <4>3. proc[p].parked # None => proc[p].state = "evicted" /\ (proc[p].idle \/ p \in holds)
        BY <1>7, <3>1, <3>5 DEF AwayOK
      <4> QED BY <1>1, <3>1, <3>2, <4>1, <4>2, <4>3 DEF AwayOK
    <3> QED BY <3>3, <3>4, <3>5
  <2>2. DOMAIN evicting' = {p \in live : proc'[p].state = "evicting"}
    BY <1>1, <1>5 DEF AwayInv
  <2> QED BY <1>6, <2>1, <2>2 DEF AwayInv
<1>14. CarriedInv' /\ PlanShaped
  <2>1. ASSUME NEW e \in ToSet(queue), Name(e) \notin gone PROVE e \in ToSet(queue')
    <3>1. PICK i \in DOMAIN queue : e = queue[i]
      BY DEF ToSet
    <3>2. i \notin parks
      BY <2>1, <3>1
    <3> QED BY <1>8, <3>1, <3>2
  <2> HIDE DEF gone
  <2> QED BY <1>1, <2>1, CarriesForgotten, ForgetDoes
<1>15. Shapes'
  BY <1>1, <1>6, <1>8, <1>14 DEF Shapes, PlanShaped
<1>16. SameHands
  <2>1. ASSUME NEW c \in Lanes PROVE Promised(c)' <=> Promised(c)
    <3>1. ASSUME NEW e \in ToSet(queue'), e.by = c, e.outcome = "ok" PROVE e \in ToSet(queue)
      <4>1. e \notin RestoresOf(released)
        BY <1>9, <3>1
      <4> QED BY <1>3, <1>8, <4>1
    <3>2. ASSUME NEW e \in ToSet(queue), e.by = c PROVE e \in ToSet(queue')
      BY <1>11, <3>2, Constants
    <3> QED BY <3>1, <3>2 DEF Promised
  <2> QED BY <1>1, <2>1 DEF SameHands, InHand
<1>17. MovesInv' /\ LedgerInv'
  BY <1>1, <1>15, <1>16, MovesFrame, HoldingFrame, PoolFrame, LedgerSame
<1>18. HoardInv'
  BY <1>1, HoardLooks
<1> QED BY <1>12, <1>13, <1>14, <1>15, <1>17, <1>18

-----------------------------------------------------------------------------
(* A process leaves: its grants go back, the rest is torn down later. *)

LEMMA LaneSum ==
  ASSUME Shapes, NEW H \in SUBSET Lanes
  PROVE  /\ MapThenSumSet(LAMBDA c : fire[c].n, H)
            = SumFunctionOnSet([c \in Lanes |-> IF c \in H THEN fire[c].n ELSE 0], Lanes)
         /\ MapThenSumSet(LAMBDA c : fire[c].n, H) \in Nat
<1> DEFINE f == [c \in H |-> fire[c].n]
           g == [c \in Lanes |-> IF c \in H THEN fire[c].n ELSE 0]
<1>1. MapThenSumSet(LAMBDA c : fire[c].n, H) = SumFunctionOnSet(f, H)
  BY DEF MapThenSumSet, SumFunctionOnSet, FoldFunctionOnSet, MapThenFoldSet
<1>2. /\ \A c \in Lanes : g[c] \in Nat /\ g[c] \in Int
      /\ \A c \in Lanes \ H : g[c] = 0
      /\ \A c \in H : f[c] \in Int /\ f[c] = g[c]
  BY FireForms
<1>3. IsFiniteSet(H) /\ IsFiniteSet(Lanes)
  BY Constants, FS_Subset
<1> HIDE DEF f, g
<1>4. SumFunctionOnSet(g, Lanes) = SumFunctionOnSet(g, H)
  BY <1>2, <1>3, SumSupport
<1>5. SumFunctionOnSet(f, H) = SumFunctionOnSet(g, H)
  BY <1>2, <1>3, SumSame
<1>6. SumFunctionOnSet(g, Lanes) \in Nat
  BY <1>2, <1>3, SumNat
<1> QED BY <1>1, <1>4, <1>5, <1>6 DEF g

(* The fires of p have nothing in hand any more, the others what they had. *)
LEMMA HandsEmptied ==
  ASSUME Shapes, Shapes', QueueInv, NEW p \in Processes,
         ToSet(queue') = {e \in ToSet(queue) : e.pid # p},
         \A c \in Lanes : Owner[c] # p => fire'[c] = fire[c],
         \A c \in Lanes : Owner[c] = p => fire'[c].st = "idle",
         NEW granted, granted = {i \in DOMAIN queue : queue[i].pid = p /\ queue[i].outcome = "ok"},
         NEW hands, hands = {c \in FiresOf(p) : fire[c].st = "granted"}
  PROVE  LET n == MapThenSumSet(LAMBDA c : fire[c].n, hands)
         IN  /\ NeedOf(granted) \in Nat /\ n \in Nat
             /\ SumFunctionOnSet(InHand, Lanes)
                = SumFunctionOnSet(InHand', Lanes) + NeedOf(granted) + n
<1> DEFINE C == {queue[i].by : i \in granted}
           g == [c \in Lanes |-> IF c \in C THEN fire[c].n ELSE 0]
           h == [c \in Lanes |-> IF c \in hands THEN fire[c].n ELSE 0]
           k == [c \in Lanes |-> InHand'[c] + g[c]]
           n == MapThenSumSet(LAMBDA c : fire[c].n, hands)
<1>1. \A i \in DOMAIN queue : queue[i] \in Entries /\ queue[i] \in ToSet(queue) /\ EntryOK(queue[i])
  BY QueueIndexed DEF QueueInv
<1>2. granted \in SUBSET (DOMAIN queue) /\ \A i \in granted : queue[i].by # None
  BY <1>1 DEF EntryOK
<1>3. C \in SUBSET Lanes /\ NeedOf(granted) = SumFunctionOnSet(g, Lanes) /\ NeedOf(granted) \in Nat
  BY <1>2, NeedByLane
<1>4. hands \in SUBSET Lanes
  BY DEF FiresOf
<1>5. n = SumFunctionOnSet(h, Lanes) /\ n \in Nat
  BY <1>4, LaneSum
<1>6. \A c \in Lanes : g[c] \in Int /\ h[c] \in Int /\ InHand[c] \in Int /\ InHand'[c] \in Int
  BY FireForms, InHandForms, NextForms
<1>7. ASSUME NEW c \in Lanes
      PROVE  /\ Promised(c) <=> \E i \in DOMAIN queue : queue[i].by = c /\ queue[i].outcome = "ok"
             /\ Promised(c) => fire[c].st = "parked"
             /\ \A i \in DOMAIN queue : queue[i].by = c => queue[i].pid = Owner[c]
  <2>1. Promised(c) <=> \E i \in DOMAIN queue : queue[i].by = c /\ queue[i].outcome = "ok"
    BY <1>1 DEF Promised, ToSet
  <2>2. \A i \in DOMAIN queue : queue[i].by = c => queue[i].pid = Owner[c] /\ fire[c].st = "parked"
    BY <1>1, Constants DEF EntryOK
  <2> QED BY <2>1, <2>2
<1>8. ASSUME NEW c \in Lanes PROVE InHand[c] = InHand'[c] + g[c] + h[c]
  <2>1. CASE Owner[c] = p
    <3>1. ~Promised(c)'
      <4>1. SUFFICES ASSUME NEW e \in ToSet(queue), e.pid # p, e.by = c PROVE FALSE
        BY DEF Promised
      <4> QED BY <2>1, <4>1, Constants DEF QueueInv, EntryOK
    <3>2. InHand'[c] = 0
      BY <2>1, <3>1 DEF InHand
    <3>3. (c \in C <=> Promised(c)) /\ (c \in hands <=> fire[c].st = "granted")
      BY <1>7, <2>1 DEF FiresOf
    <3>4. fire[c].n \in Nat
      BY FireForms
    <3>5. CASE Promised(c)
      <4>1. InHand[c] = fire[c].n /\ g[c] = fire[c].n /\ h[c] = 0
        BY <1>7, <3>3, <3>5 DEF InHand
      <4> HIDE DEF g, h, C
      <4> QED BY <3>2, <3>4, <4>1
    <3>6. CASE ~Promised(c) /\ fire[c].st = "granted"
      <4>1. InHand[c] = fire[c].n /\ h[c] = fire[c].n /\ g[c] = 0
        BY <3>3, <3>6 DEF InHand
      <4> HIDE DEF g, h, C
      <4> QED BY <3>2, <3>4, <4>1
    <3>7. CASE ~Promised(c) /\ fire[c].st # "granted"
      <4>1. InHand[c] = 0 /\ h[c] = 0 /\ g[c] = 0
        BY <3>3, <3>7 DEF InHand
      <4> HIDE DEF g, h, C
      <4> QED BY <3>2, <4>1
    <3> QED BY <3>5, <3>6, <3>7
  <2>2. CASE Owner[c] # p
    <3>1. c \notin C /\ c \notin hands
      BY <1>7, <2>2 DEF FiresOf
    <3>2. Promised(c)' <=> Promised(c)
      <4>1. \A e \in ToSet(queue) : e.by = c => e.pid # p
        BY <2>2, Constants DEF QueueInv, EntryOK
      <4> QED BY <4>1 DEF Promised
    <3>3. InHand'[c] = InHand[c] /\ g[c] = 0 /\ h[c] = 0
      BY <2>2, <3>1, <3>2 DEF InHand
    <3> HIDE DEF g, h, C
    <3> QED BY <1>6, <3>3
  <2> QED BY <2>1, <2>2
<1> HIDE DEF g, h, C, n
<1>9. IsFiniteSet(Lanes)
  BY Constants
<1>10. SumFunctionOnSet(k, Lanes) = SumFunctionOnSet(InHand', Lanes) + SumFunctionOnSet(g, Lanes)
  <2>1. \A c \in Lanes : InHand'[c] \in Int /\ g[c] \in Int /\ k[c] = InHand'[c] + g[c]
    BY <1>6
  <2> HIDE DEF k
  <2> QED BY <1>9, <2>1, SumPlus
<1>11. SumFunctionOnSet(InHand, Lanes) = SumFunctionOnSet(k, Lanes) + SumFunctionOnSet(h, Lanes)
  <2>1. \A c \in Lanes : k[c] \in Int /\ h[c] \in Int /\ InHand[c] = k[c] + h[c]
    BY <1>6, <1>8
  <2> HIDE DEF k
  <2> QED BY <1>9, <2>1, SumPlus
<1> HIDE DEF k
<1>12. SumFunctionOnSet(InHand, Lanes) = SumFunctionOnSet(InHand', Lanes) + NeedOf(granted) + n
  BY <1>3, <1>5, <1>10, <1>11
<1> QED BY <1>3, <1>5, <1>12 DEF n

LEMMA LedgerLeaves ==
  ASSUME Shapes, Shapes', LedgerInv, NEW p \in Processes, HoldsMove(p), NEW g \in Nat, NEW n \in Nat,
         SumFunctionOnSet(InHand, Lanes) = SumFunctionOnSet(InHand', Lanes) + g + n,
         Pool' = Pool + g, PagesOf'[p] = PagesOf[p] + n, BelowOf'[p] = BelowOf[p]
  PROVE  LedgerInv'
<1>1. /\ SumFunctionOnSet(PagesOf', Processes)
         = SumFunctionOnSet(PagesOf, Processes) + PagesOf'[p] - PagesOf[p]
      /\ SumFunctionOnSet(BelowOf', Processes)
         = SumFunctionOnSet(BelowOf, Processes) + BelowOf'[p] - BelowOf[p]
  BY OneHolder, PagesMove, BelowMoves
<1>2. /\ Pool \in Int /\ PagesOf[p] \in Int /\ BelowOf[p] \in Int
      /\ SumFunctionOnSet(PagesOf, Processes) \in Int
      /\ SumFunctionOnSet(BelowOf, Processes) \in Int
  BY PoolForms, HoldingForms, LedgerForms
<1> DEFINE after == SumFunctionOnSet(InHand', Lanes)
<1>3. after \in Int
  <2>1. \A c \in Lanes : InHand'[c] \in Int
    BY NextForms
  <2>2. Lanes \in SUBSET Lanes
    OBVIOUS
  <2> QED BY <2>1, <2>2, Constants, SumInt
<1>4. /\ Total = Pool + SumFunctionOnSet(PagesOf, Processes) + (after + g + n)
      /\ SumFunctionOnSet(BelowOf, Processes) <= SwapTotal
  BY DEF LedgerInv
<1>5. SumFunctionOnSet(PagesOf', Processes) = SumFunctionOnSet(PagesOf, Processes) + n
  BY <1>1, <1>2
<1>6. SumFunctionOnSet(BelowOf', Processes) = SumFunctionOnSet(BelowOf, Processes)
  BY <1>1, <1>2
<1> HIDE DEF after
<1>7. Total = Pool' + SumFunctionOnSet(PagesOf', Processes) + after
  BY <1>2, <1>3, <1>4, <1>5
<1> QED BY <1>4, <1>6, <1>7 DEF LedgerInv, after

LEMMA UnregisterKeeps ==
  ASSUME Inv, NEW p \in live, NEW restart \in BOOLEAN, restart => exec[p].st = "none",
         Unregister(p, restart)
  PROVE  Inv'
<1> USE DEF Inv
<1> DEFINE mine == {i \in DOMAIN queue : queue[i].pid = p}
           granted == {i \in mine : queue[i].outcome = "ok"}
           hands == {c \in FiresOf(p) : fire[c].st = "granted"}
           n == MapThenSumSet(LAMBDA c : fire[c].n, hands)
           moved == exec[p].st # "none"
           a == [[[NewProc EXCEPT !.key = proc[p].key] EXCEPT !.held = proc[p].held] EXCEPT !.respawn = TRUE]
           device == IF moved THEN 0 ELSE pages[p]
           below == IF moved THEN 0 ELSE swapped[p]
<1>1. /\ proc' = IF restart THEN [proc EXCEPT ![p] = a] ELSE Restrict(proc, live \ {p})
      /\ queue' = Kept(queue, DOMAIN queue \ mine)
      /\ plan' = Forget({Name(queue[i]) : i \in mine})
      /\ (credit' = credit + 1 \/ credit' = credit)
      /\ DOMAIN evicting' = DOMAIN evicting \ {p}
      /\ killing' = killing \ {p} /\ free' = free + NeedOf(granted)
      /\ poked' = TRUE
      /\ through' = through \ {p} /\ aborted' = aborted \ {p}
      /\ UNCHANGED <<accum, cache, late, exec>>
  BY DEF Unregister, Poke, Restrict
<1>2. /\ leaving' = [leaving EXCEPT ![p].device = @ + n + device, ![p].below = @ + below]
      /\ pages' = [pages EXCEPT ![p] = pages[p] - device]
      /\ swapped' = [swapped EXCEPT ![p] = swapped[p] - below]
      /\ fire' = [c \in Lanes |-> IF Owner[c] = p THEN [NoFire EXCEPT !.asks = fire[c].asks] ELSE fire[c]]
  <2>1. p \in Processes /\ pages[p] \in Nat /\ swapped[p] \in Nat
    BY ProcForms, ProcessForms
  <2>2. /\ leaving' = [leaving EXCEPT ![p].device = @ + n + device, ![p].below = @ + below]
        /\ fire' = [c \in Lanes |-> IF Owner[c] = p THEN [NoFire EXCEPT !.asks = fire[c].asks] ELSE fire[c]]
    BY DEF Unregister
  <2>3. /\ pages' = [pages EXCEPT ![p] = IF moved THEN pages[p] ELSE 0]
        /\ swapped' = [swapped EXCEPT ![p] = IF moved THEN swapped[p] ELSE 0]
    BY DEF Unregister
  <2>4. /\ (IF moved THEN pages[p] ELSE 0) = pages[p] - device
        /\ (IF moved THEN swapped[p] ELSE 0) = swapped[p] - below
    BY <2>1
  <2> QED BY <2>2, <2>3, <2>4
<1>3. /\ p \in Processes /\ pages[p] \in Nat /\ swapped[p] \in Nat /\ leaving[p].device \in Nat
      /\ leaving[p].below \in Nat /\ leaving[p] \in [device : Nat, below : Nat]
      /\ proc[p] \in Procs /\ proc[p].key \in Int /\ proc[p].held \in BOOLEAN
  BY ProcForms, ProcessForms
<1>4. /\ device \in Nat /\ below \in Nat /\ pages[p] - device \in Nat /\ swapped[p] - below \in Nat
      /\ (moved => device = 0 /\ below = 0)
  BY <1>3
<1>5. a \in Procs /\ a.state = "resident" /\ a.parked = None
  BY <1>3 DEF NewProc, Procs
<1>6. /\ live' = (IF restart THEN live ELSE live \ {p})
      /\ proc' \in [live' -> Procs]
      /\ \A q \in live : q # p => proc'[q] = proc[q]
      /\ restart => proc'[p] = a
  <2> HIDE DEF a
  <2>1. proc \in [live -> Procs]
    BY DEF Shapes
  <2>2. CASE restart
    BY <1>1, <1>5, <2>1, <2>2 DEF live
  <2>3. CASE ~restart
    BY <1>1, <2>1, <2>3 DEF live, Restrict
  <2> QED BY <2>2, <2>3
<1>7. /\ queue' \in Seq(Entries) /\ OneEach(queue')
      /\ ToSet(queue') = {e \in ToSet(queue) : e.pid # p}
  <2>1. queue \in Seq(Entries) /\ OneEach(queue) /\ DOMAIN queue \ mine \in SUBSET (DOMAIN queue)
    BY DEF Shapes, QueueInv
  <2> DEFINE S == DOMAIN queue \ mine
  <2>2. {queue[i] : i \in S} = {e \in ToSet(queue) : e.pid # p}
    BY DEF ToSet
  <2> HIDE DEF S
  <2>3. /\ Kept(queue, S) \in Seq(Entries) /\ ToSet(Kept(queue, S)) = {queue[i] : i \in S}
        /\ OneEach(Kept(queue, S))
    BY <2>1, KeptDoes DEF S
  <2> QED BY <1>1, <2>2, <2>3 DEF S
<1>8. /\ \A c \in Lanes : Owner[c] # p => fire'[c] = fire[c]
      /\ \A c \in Lanes : Owner[c] = p => fire'[c].st = "idle"
      /\ fire' \in [Lanes -> FireRecs]
  <2>1. \A c \in Lanes : [NoFire EXCEPT !.asks = fire[c].asks] \in FireRecs
                         /\ [NoFire EXCEPT !.asks = fire[c].asks].st = "idle"
    BY FireForms DEF NoFire, FireRecs, FireStates
  <2>2. \A c \in Lanes : fire[c] \in FireRecs
    BY FireForms
  <2> QED BY <1>2, <2>1, <2>2
<1>9. granted = {i \in DOMAIN queue : queue[i].pid = p /\ queue[i].outcome = "ok"}
  OBVIOUS
<1>10. NeedOf(granted) \in Nat /\ n \in Nat
  <2>1. granted \in SUBSET (DOMAIN queue) /\ \A i \in granted : queue[i].by # None
    BY QueueIndexed DEF QueueInv, EntryOK
  <2>2. hands \in SUBSET Lanes
    BY DEF FiresOf
  <2> HIDE DEF granted, hands
  <2> QED BY <2>1, <2>2, NeedByLane, LaneSum
<1> HIDE DEF granted, hands, n, mine, a, device, below
<1>11. /\ pages' \in [Processes -> Nat] /\ swapped' \in [Processes -> Nat]
       /\ leaving' \in [Processes -> [device : Nat, below : Nat]]
       /\ pages'[p] = pages[p] - device /\ swapped'[p] = swapped[p] - below
       /\ leaving'[p].device = leaving[p].device + n + device
       /\ leaving'[p].below = leaving[p].below + below
       /\ \A q \in Processes : q # p =>
            pages'[q] = pages[q] /\ swapped'[q] = swapped[q] /\ leaving'[q] = leaving[q]
  <2>1. /\ pages \in [Processes -> Nat] /\ swapped \in [Processes -> Nat]
        /\ leaving \in [Processes -> [device : Nat, below : Nat]]
    BY DEF Shapes
  <2>2. leaving[p].device + n + device \in Nat /\ leaving[p].below + below \in Nat
    BY <1>3, <1>4, <1>10
  <2> QED BY <1>2, <1>3, <1>4, <2>1, <2>2
<1>12. PlanShaped
  BY <1>1, ForgetDoes
<1>13. Shapes'
  <2>1. free' \in Nat /\ credit' \in Nat
    BY <1>1, <1>10, SMTT(20) DEF Shapes
  <2>2. killing' \in SUBSET live' /\ through' \in SUBSET live' /\ aborted' \in SUBSET live'
    BY <1>1, <1>6 DEF Shapes
  <2>3. live' \in SUBSET Processes
    BY <1>6 DEF Shapes
  <2>4. accum' \in Nat /\ cache' \in Nat /\ late' \in [BOOLEAN -> Nat] /\ exec' \in [Processes -> Execs]
        /\ poked' \in BOOLEAN
    BY <1>1 DEF Shapes
  <2> QED BY <1>6, <1>7, <1>8, <1>11, <1>12, <2>1, <2>2, <2>3, <2>4 DEF Shapes, PlanShaped
<1>14. QueueInv'
  <2>1. ASSUME NEW e \in ToSet(queue') PROVE EntryOK(e)'
    <3>1. e \in ToSet(queue) /\ e.pid # p /\ EntryOK(e) /\ e \in Entries
      BY <1>7, QueueIndexed DEF QueueInv
    <3>2. e.pid \in live /\ e.pid \in live' /\ proc'[e.pid] = proc[e.pid]
      BY <1>6, <3>1 DEF EntryOK
    <3>3. e.by # None => e.by \in Lanes /\ fire'[e.by] = fire[e.by]
      BY <1>8, <3>1, EntryForms DEF EntryOK
    <3> QED BY <3>1, <3>2, <3>3 DEF EntryOK
  <2>2. ASSUME NEW c \in Lanes, fire'[c].st = "parked" PROVE \E e \in ToSet(queue') : e.by = c
    <3>1. Owner[c] # p /\ fire[c].st = "parked"
      BY <1>8, <2>2
    <3>2. PICK e \in ToSet(queue) : e.by = c
      BY <3>1 DEF QueueInv
    <3>3. e.pid # p
      BY <3>1, <3>2, Constants DEF QueueInv, EntryOK
    <3> QED BY <1>7, <3>2, <3>3
  <2>3. ASSUME NEW c \in Lanes, fire'[c].st # "idle" PROVE Owner[c] \in live'
    <3>1. Owner[c] # p /\ fire[c].st # "idle"
      BY <1>8, <2>3
    <3> QED BY <1>6, <3>1 DEF QueueInv
  <2> QED BY <1>7, <2>1, <2>2, <2>3 DEF QueueInv
<1>15. CarriedInv'
  <2> DEFINE gone == {Name(queue[i]) : i \in mine}
  <2>1. ASSUME NEW e \in ToSet(queue), Name(e) \notin gone PROVE e \in ToSet(queue')
    <3>1. PICK i \in DOMAIN queue : e = queue[i]
      BY DEF ToSet
    <3>2. i \notin mine
      BY <2>1, <3>1
    <3>3. e.pid # p
      BY <3>1, <3>2 DEF mine
    <3> QED BY <1>7, <3>3
  <2> HIDE DEF gone
  <2> QED BY <1>1, <2>1, CarriesForgotten DEF gone
<1>16. AwayInv'
  <2>1. ASSUME NEW q \in live' PROVE AwayOK(q)'
    <3>1. CASE q = p
      <4>1. restart /\ proc'[p] = a /\ exec'[p].st = "none"
        BY <1>1, <1>6, <2>1, <3>1
      <4> QED BY <1>5, <3>1, <4>1 DEF AwayOK
    <3>2. CASE q # p
      <4>1. q \in live /\ AwayOK(q) /\ proc'[q] = proc[q]
        BY <1>6, <2>1, <3>2 DEF AwayInv
      <4>2. RestoreQueued(q) => RestoreQueued(q)'
        BY <1>7, <3>2 DEF RestoreQueued
      <4> QED BY <1>1, <3>2, <4>1, <4>2 DEF AwayOK
    <3> QED BY <3>1, <3>2
  <2>2. DOMAIN evicting' = {q \in live' : proc'[q].state = "evicting"}
    <3>1. DOMAIN evicting = {q \in live : proc[q].state = "evicting"}
      BY DEF AwayInv
    <3>2. ASSUME NEW q \in live'
          PROVE  q \in live /\ (proc'[q].state = "evicting" <=> q # p /\ proc[q].state = "evicting")
      BY <1>5, <1>6, <3>2
    <3>3. ASSUME NEW q \in live, q # p PROVE q \in live'
      BY <1>6, <3>3
    <3> QED BY <1>1, <3>1, <3>2, <3>3
  <2> QED BY <2>1, <2>2 DEF AwayInv
<1>17. MovesInv'
  <2>1. ASSUME NEW q \in Processes
        PROVE  /\ exec'[q].st = "moving" => exec'[q].n <= pages'[q]
               /\ exec'[q].st = "restoring" => exec'[q].n <= swapped'[q]
    <3>1. CASE q # p
      BY <1>1, <1>11, <3>1 DEF MovesInv
    <3>2. CASE q = p /\ moved
      <4>1. pages'[p] = pages[p] /\ swapped'[p] = swapped[p]
        BY <1>3, <1>4, <1>11, <3>2
      <4> QED BY <1>1, <3>2, <4>1 DEF MovesInv
    <3>3. CASE q = p /\ ~moved
      BY <1>1, <3>3
    <3> QED BY <3>1, <3>2, <3>3
  <2> QED BY <2>1 DEF MovesInv
<1>18. HoldsMove(p)
  BY <1>1, <1>11 DEF HoldsMove
<1>19. LedgerInv'
  <2>1. SumFunctionOnSet(InHand, Lanes) = SumFunctionOnSet(InHand', Lanes) + NeedOf(granted) + n
    BY <1>3, <1>7, <1>8, <1>9, <1>13, HandsEmptied DEF hands, n
  <2>2. Pool' = Pool + NeedOf(granted)
    <3>1. Pool' = Pool + free' - free /\ Pool \in Nat /\ free \in Nat
      BY <1>1, <1>13, FreeMoves
    <3> QED BY <1>1, <1>10, <3>1
  <2> DEFINE lent == IF exec[p].st = "restoring" THEN exec[p].n ELSE 0
             sent == IF exec[p].st = "moving" THEN exec[p].n ELSE 0
  <2>3. /\ PagesOf[p] = pages[p] + leaving[p].device + lent /\ lent \in Nat
        /\ BelowOf[p] = swapped[p] + leaving[p].below + sent /\ sent \in Nat
    BY <1>3, HoldingForms, ProcessForms
  <2>4. /\ PagesOf'[p] = pages'[p] + leaving'[p].device + lent
        /\ BelowOf'[p] = swapped'[p] + leaving'[p].below + sent
    BY <1>1, <1>3 DEF PagesOf, BelowOf
  <2> HIDE DEF lent, sent
  <2>5. PagesOf'[p] = PagesOf[p] + n /\ BelowOf'[p] = BelowOf[p]
    BY <1>3, <1>4, <1>10, <1>11, <2>3, <2>4
  <2> QED BY <1>3, <1>10, <1>13, <1>18, <2>1, <2>2, <2>5, LedgerLeaves
<1>20. HoardInv'
  BY <1>1, HoardLooks
<1> QED BY <1>13, <1>14, <1>15, <1>16, <1>17, <1>19, <1>20

LEMMA FinishKeeps == ASSUME Inv, NEW p \in Processes, Finish(p) PROVE Inv'
<1>1. p \in live
  BY DEF Finish, Running
<1>2. \/ exec[p].st = "none" /\ Unregister(p, TRUE)
      \/ Unregister(p, FALSE)
  BY DEF Finish
<1> QED BY <1>1, <1>2, UnregisterKeeps

LEMMA TerminateKeeps == ASSUME Inv, NEW p \in Processes, Terminate(p) PROVE Inv'
<1>1. p \in live /\ Unregister(p, FALSE)
  BY DEF Terminate, Inv, Shapes
<1> QED BY <1>1, UnregisterKeeps

-----------------------------------------------------------------------------
(* The invariant holds at the start, and every step keeps it. *)

LEMMA InitInv == Init => Inv
<1> SUFFICES ASSUME Init PROVE Inv
  OBVIOUS
<1>1. /\ proc = [p \in Processes |-> NewProc] /\ live = Processes
      /\ queue = <<>> /\ accum = 0 /\ evicting = <<>> /\ credit = 0 /\ killing = {}
      /\ free = Total /\ cache = 0 /\ late = [tells \in BOOLEAN |-> 0]
      /\ plan = Resting /\ poked = FALSE /\ through = {} /\ aborted = {}
  BY DEF Init, live
<1>2. /\ pages = [p \in Processes |-> 0] /\ swapped = [p \in Processes |-> 0]
      /\ leaving = [p \in Processes |-> [device |-> 0, below |-> 0]]
      /\ exec = [p \in Processes |-> NoExec] /\ fire = [c \in Lanes |-> NoFire]
  BY DEF Init
<1>3. NewProc \in Procs /\ NewProc.state = "resident" /\ NewProc.parked = None
  BY DEF NewProc, Procs
<1>4. NoExec \in Execs /\ NoExec.st = "none" /\ NoExec.n = 0
  BY DEF NoExec, Execs
<1>5. NoFire \in FireRecs /\ NoFire.st = "idle" /\ NoFire.n = 0
  BY DEF NoFire, FireRecs, FireStates
<1>6. queue \in Seq(Entries) /\ DOMAIN queue = {} /\ ToSet(queue) = {}
  BY <1>1 DEF ToSet
<1>7. Shapes
  <2>1. DOMAIN plan = DOMAIN Resting /\ plan.count \in Nat
    BY <1>1 DEF Resting
  <2> QED BY <1>1, <1>2, <1>3, <1>4, <1>5, <1>6, <2>1, Constants DEF Shapes
<1>8. QueueInv
  BY <1>2, <1>5, <1>6 DEF QueueInv, OneEach
<1>9. CarriedInv
  BY <1>1 DEF CarriedInv, Resting
<1>10. AwayInv
  <2>1. DOMAIN evicting = {} /\ \A p \in live : proc[p] = NewProc /\ exec[p] = NoExec
    BY <1>1, <1>2
  <2> QED BY <1>3, <1>4, <2>1 DEF AwayInv, AwayOK
<1>11. MovesInv
  BY <1>2, <1>4 DEF MovesInv
<1>12. LedgerInv
  <2>1. \A p \in Processes : PagesOf[p] = 0 /\ BelowOf[p] = 0
    BY <1>2, <1>4 DEF PagesOf, BelowOf
  <2>2. \A c \in Lanes : InHand[c] = 0
    BY <1>2, <1>5, <1>6 DEF InHand, Promised
  <2>3. /\ SumFunctionOnSet(PagesOf, Processes) = 0 /\ SumFunctionOnSet(BelowOf, Processes) = 0
        /\ SumFunctionOnSet(InHand, Lanes) = 0
    BY <2>1, <2>2, Constants, SumZero
  <2>4. Pool = Total
    <3>1. late[TRUE] = 0 /\ late[FALSE] = 0
      BY <1>1
    <3>2. Lent = 0
      BY <3>1 DEF Lent
    <3> QED BY <1>1, <3>2, Constants DEF Pool
  <2> QED BY <2>3, <2>4, Constants DEF LedgerInv
<1>13. HoardInv
  BY <1>1 DEF HoardInv
<1> QED BY <1>7, <1>8, <1>9, <1>10, <1>11, <1>12, <1>13 DEF Inv

LEMMA StutterInv == ASSUME Inv, UNCHANGED vars PROVE Inv'
<1>1. /\ UNCHANGED <<proc, queue, accum, evicting, credit, killing>>
      /\ UNCHANGED <<free, cache, pages, swapped, leaving, late>>
      /\ UNCHANGED <<plan, poked, exec, fire, through, aborted>>
  BY DEF vars, inner, pool, tasks, guests
<1>2. Shapes'
  BY <1>1 DEF Inv, Shapes, live
<1> QED BY <1>1, <1>2, MovesFrame, HoldingFrame, HandsFrame, PoolFrame, LedgerSame,
           WaysFrame, FiresFrame, GuestFrame DEF Inv

LEMMA PlanKeeps == ASSUME Inv, Plan PROVE Inv'
BY PlanWakesKeeps, PausePicksKeeps, PauseCommitsKeeps, PlanLoopKeeps, PlanAbsorbsKeeps,
   PlanServesBurstKeeps, PlanServesRestoreKeeps, PlanPicksVictimsKeeps, PlanCommitsKeeps,
   PlanChecksHogKeeps, PlanStarvesKeeps, PlanLastResortKeeps, PlanStarvesAgainKeeps,
   PlanJudgesKeeps, PlanGivesVerdictKeeps DEF Plan

LEMMA FiresKeep == ASSUME Inv, NEW c \in Lanes, Fires(c) PROVE Inv'
BY GrantNowKeeps, ParkKeeps, CollectKeeps, CancelWaiterKeeps, ReturnKeeps, LeaseKeeps,
   SettleKeeps DEF Fires

LEMMA ExecutesKeeps == ASSUME Inv, NEW p \in Processes, Executes(p) PROVE Inv'
BY EvictFencesKeeps, EvictPreparesKeeps, EvictFailsKeeps, EvictCommitsKeeps,
   RestoreCommitsKeeps, RestoreFailsKeeps DEF Executes

LEMMA ProcessKeeps ==
  ASSUME Inv, NEW p \in Processes,
         \/ Starts(p) \/ Ends(p) \/ Abort(p) \/ Teardown(p) \/ Executes(p)
         \/ DropSets(p) \/ WaitOnClient(p) \/ HearFromClient(p) \/ Wake(p)
  PROVE  Inv'
BY AdmitKeeps, NoteAdmittedKeeps, FinishKeeps, TerminateKeeps, AbortKeeps, TeardownKeeps,
   ExecutesKeeps, DropSetsKeeps, WaitOnClientKeeps, HearFromClientKeeps, WakeKeeps
   DEF Starts, Ends

LEMMA NextInv == Inv /\ [Next]_vars => Inv'
<1> SUFFICES ASSUME Inv, [Next]_vars PROVE Inv'
  OBVIOUS
<1>1. CASE UNCHANGED vars
  BY <1>1, StutterInv
<1>2. CASE Plan
  BY <1>2, PlanKeeps
<1>3. ASSUME NEW c \in Lanes, Fires(c) \/ \E n \in Needs[c] : Ask(c, n) PROVE Inv'
  BY <1>3, FiresKeep, AskKeeps
<1>4. ASSUME NEW p \in Processes,
             \/ Starts(p) \/ Ends(p) \/ Abort(p) \/ Teardown(p) \/ Executes(p)
             \/ DropSets(p) \/ WaitOnClient(p) \/ HearFromClient(p) \/ Wake(p)
      PROVE  Inv'
  BY <1>4, ProcessKeeps
<1>5. ASSUME NEW tells \in BOOLEAN, DropLate(tells) PROVE Inv'
  BY <1>5, DropLateKeeps
<1>6. ASSUME NEW schedule \in Schedules, Reschedule(schedule) PROVE Inv'
  BY <1>6, RescheduleKeeps
<1> QED BY <1>1, <1>2, <1>3, <1>4, <1>5, <1>6 DEF Next

(* The inductive invariant: the entries of the queue, what the planner     *)
(* task carries, the ways out and back, and the two ledgers of pages.      *)
THEOREM PlannerInvariant == Spec => []Inv
BY InitInv, NextInv, PTL DEF Spec

(* Every device page is free, cached, hoarded, promised, lent, held or in  *)
(* teardown, and counted once.  What was promised is counted by entry of   *)
(* the queue, and the inductive invariant counts it by lane.               *)
THEOREM EveryPageCounted == Spec => []PagesConserved
<1>1. Inv => PagesConserved
  <2> SUFFICES ASSUME Inv PROVE PagesConserved
    OBVIOUS
  <2> USE DEF Inv
  <2> DEFINE ok == {i \in DOMAIN queue : queue[i].outcome = "ok"}
             C == {queue[i].by : i \in ok}
             g == [c \in Lanes |-> IF c \in C THEN fire[c].n ELSE 0]
             hand == [c \in Lanes |-> IF fire[c].st = "granted" THEN fire[c].n ELSE 0]
             given == [i \in DOMAIN queue |-> IF queue[i].outcome = "ok" THEN queue[i].need ELSE 0]
             needs == [i \in ok |-> queue[i].need]
  <2>1. \A i \in DOMAIN queue : /\ queue[i] \in Entries /\ queue[i] \in ToSet(queue)
                                /\ EntryOK(queue[i]) /\ queue[i].need \in Nat
    BY QueueIndexed, EntryForms DEF QueueInv
  <2>2. ok \in SUBSET (DOMAIN queue) /\ \A i \in ok : queue[i].by # None
    BY <2>1 DEF EntryOK
  <2>3. C \in SUBSET Lanes /\ NeedOf(ok) = SumFunctionOnSet(g, Lanes) /\ NeedOf(ok) \in Nat
    BY <2>2, NeedByLane
  <2>4. IsFiniteSet(DOMAIN queue) /\ IsFiniteSet(ok) /\ IsFiniteSet(Lanes)
    BY <2>2, QueueIndexed, Constants, FS_Subset
  <2>5. NeedOf(ok) = SumFunctionOnSet(needs, ok)
    BY NeedIs
  <2>6. /\ \A i \in DOMAIN queue : given[i] \in Int
        /\ \A i \in DOMAIN queue \ ok : given[i] = 0
        /\ \A i \in ok : needs[i] \in Int /\ needs[i] = given[i]
    BY <2>1
  <2>7. \A c \in Lanes : g[c] \in Int /\ hand[c] \in Int /\ hand[c] \in Nat
    BY FireForms
  <2>8. ASSUME NEW c \in Lanes PROVE InHand[c] = hand[c] + g[c]
    <3>1. /\ c \in C <=> Promised(c)
          /\ Promised(c) => fire[c].st = "parked"
      BY <2>1, Constants DEF Promised, EntryOK, ToSet
    <3>2. fire[c].n \in Nat
      BY FireForms
    <3>3. CASE Promised(c)
      <4>1. InHand[c] = fire[c].n /\ g[c] = fire[c].n /\ hand[c] = 0
        BY <3>1, <3>3 DEF InHand
      <4> HIDE DEF g, hand, C
      <4> QED BY <3>2, <4>1
    <3>4. CASE ~Promised(c)
      <4>1. g[c] = 0 /\ InHand[c] = hand[c]
        BY <3>1, <3>4 DEF InHand
      <4> HIDE DEF g, hand, C
      <4> QED BY <2>7, <4>1
    <3> QED BY <3>3, <3>4
  <2>9. /\ SumFunction(hand) = SumFunctionOnSet(hand, Lanes)
        /\ SumFunction(given) = SumFunctionOnSet(given, DOMAIN queue)
        /\ SumFunction(PagesOf) = SumFunctionOnSet(PagesOf, Processes)
    BY DEF SumFunction, FoldFunction, SumFunctionOnSet, PagesOf
  <2> HIDE DEF ok, C, g, hand, given, needs
  <2>10. SumFunctionOnSet(given, DOMAIN queue) = NeedOf(ok)
    <3>1. SumFunctionOnSet(given, DOMAIN queue) = SumFunctionOnSet(given, ok)
      BY <2>2, <2>4, <2>6, SumSupport
    <3>2. SumFunctionOnSet(needs, ok) = SumFunctionOnSet(given, ok)
      BY <2>4, <2>6, SumSame
    <3> QED BY <2>5, <3>1, <3>2
  <2>11. SumFunctionOnSet(InHand, Lanes) = SumFunctionOnSet(hand, Lanes) + SumFunctionOnSet(g, Lanes)
    <3>1. \A c \in Lanes : hand[c] \in Int /\ g[c] \in Int /\ InHand[c] = hand[c] + g[c]
      BY <2>7, <2>8
    <3> QED BY <2>4, <3>1, SumPlus
  <2>12. SumFunctionOnSet(hand, Lanes) \in Nat
    BY <2>4, <2>7, SumNat
  <2>13. Total = Pool + SumFunctionOnSet(PagesOf, Processes) + SumFunctionOnSet(InHand, Lanes)
    BY DEF LedgerInv
  <2>14. /\ SumFunctionOnSet(PagesOf, Processes) \in Nat /\ Pool \in Nat
         /\ free \in Nat /\ cache \in Nat /\ accum \in Nat /\ Lent \in Nat
         /\ late[TRUE] \in Nat /\ late[FALSE] \in Nat
    BY LedgerForms, PoolForms
  <2>15. Total = Pool + SumFunction(PagesOf) + SumFunction(hand) + SumFunction(given)
    BY <2>3, <2>9, <2>10, <2>11, <2>12, <2>13, <2>14
  <2>16. Pool = free + cache + accum + late[TRUE] + late[FALSE]
    <3> DEFINE a == late[TRUE]
               b == late[FALSE]
    <3>1. Pool = free + cache + accum + Lent /\ Lent = a + b /\ a \in Nat /\ b \in Nat
      BY <2>14, Zenon DEF Pool, Lent
    <3> HIDE DEF a, b
    <3>2. Pool = free + cache + accum + a + b
      BY <2>14, <3>1
    <3> QED BY <3>2 DEF a, b
  <2> QED BY <2>15, <2>16, Zenon DEF PagesConserved, PagesOf, hand, given
<1> QED BY <1>1, PlannerInvariant, PTL

(* A process away from the device has exactly one thing that will move it: *)
(* an executor, a restore in the queue, a parked demand, or its end.       *)
THEOREM OneWayOutAndBack == Spec => []OneWayBack
<1>1. Inv => OneWayBack
  <2> SUFFICES ASSUME Inv PROVE OneWayBack
    OBVIOUS
  <2> USE DEF Inv
  <2>1. ASSUME NEW p \in live
        PROVE  LET restores == {i \in DOMAIN queue : queue[i].pid = p /\ IsRestore(queue[i])}
               IN /\ Cardinality(restores) <= 1
                  /\ restores # {} <=> RestoreQueued(p)
    <3> DEFINE restores == {i \in DOMAIN queue : queue[i].pid = p /\ IsRestore(queue[i])}
    <3>1. \A i \in DOMAIN queue : /\ queue[i] \in Entries /\ queue[i] \in ToSet(queue)
                                  /\ IsRestore(queue[i]) = (queue[i].by = None)
      BY QueueIndexed, EntryForms
    <3>2. restores # {} <=> RestoreQueued(p)
      BY <3>1 DEF RestoreQueued, ToSet
    <3>3. ASSUME NEW i \in restores, NEW j \in restores PROVE i = j
      <4>1. /\ i \in DOMAIN queue /\ queue[i] \in Entries /\ queue[i].pid = p /\ queue[i].by = None
            /\ j \in DOMAIN queue /\ queue[j] \in Entries /\ queue[j].pid = p /\ queue[j].by = None
        BY <3>1
      <4>2. Name(queue[i]) = Name(queue[j])
        BY <4>1, SameName
      <4> QED BY <4>1, <4>2 DEF QueueInv, OneEach
    <3> HIDE DEF restores
    <3>4. Cardinality(restores) <= 1
      <4>1. CASE restores = {}
        BY <4>1, FS_EmptySet
      <4>2. CASE restores # {}
        <5>1. PICK i \in restores : restores = {i}
          BY <3>3, <4>2
        <5> QED BY <5>1, FS_Singleton
      <4> QED BY <4>1, <4>2
    <3> QED BY <3>2, <3>4 DEF restores
  <2>2. ASSUME NEW p \in live
        PROVE  /\ AwayOK(p)
               /\ RestoreQueued(p) => proc[p].state = "evicted" /\ proc[p].parked = None
    BY NoRestoreOf DEF AwayInv
  <2>3. DOMAIN evicting = {p \in live : proc[p].state = "evicting"}
    BY DEF AwayInv
  <2> QED BY <2>1, <2>2, <2>3 DEF OneWayBack, AwayOK
<1> QED BY <1>1, PlannerInvariant, PTL

(* At rest with nothing to serve, the planner has given its hoard back.    *)
THEOREM HoardGivenBack == Spec => []HoardReturns
<1>1. Inv => HoardReturns
  BY DEF Inv, HoardInv, HoardReturns
<1> QED BY <1>1, PlannerInvariant, PTL

(* The types of the counters: the hoard and the pool stay at or above      *)
(* zero, and the tiers below never hold more than they have slots.         *)
THEOREM PlannerTypes == Spec => []TypeOK
<1>1. Inv => TypeOK
  <2> SUFFICES ASSUME Inv PROVE TypeOK
    OBVIOUS
  <2> USE DEF Inv
  <2>1. SwapFree \in Nat
    <3>1. /\ SumFunctionOnSet(BelowOf, Processes) \in Nat /\ SwapTotal \in Nat
          /\ SumFunctionOnSet(BelowOf, Processes) <= SwapTotal
      BY LedgerForms, Constants DEF LedgerInv
    <3>2. SwapFree = SwapTotal - SumFunctionOnSet(BelowOf, Processes)
      BY SwapFreeIs
    <3> QED BY <3>1, <3>2
  <2>2. \A p \in live : proc[p].state \in {"resident", "evicting", "evicted", "restoring"}
    BY ProcForms
  <2>3. /\ live \subseteq Processes /\ accum \in Nat /\ free \in Nat /\ cache \in Nat /\ credit \in Nat
        /\ killing \subseteq live
    BY DEF Shapes
  <2> QED BY <2>1, <2>2, <2>3 DEF TypeOK
<1> QED BY <1>1, PlannerInvariant, PTL
=============================================================================
