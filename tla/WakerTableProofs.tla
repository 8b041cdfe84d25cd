------------------------- MODULE WakerTableProofs -------------------------
(***************************************************************************)
(* Proofs about WakerTable for any tasks, table size and number of         *)
(* generations.                                                            *)
(*                                                                         *)
(* SlotInv says where every slot is and is inductive on its own: an id was *)
(* handed out by its slot and the slot never goes back behind it, so the   *)
(* generation a free moves on to is nobody's; a slot on the free list, or  *)
(* on its way there, is clean and no object or call carries its id. WakeOK *)
(* says for each task that it is registered or about to be woken from its  *)
(* register on. Inv joins the two.                                         *)
(***************************************************************************)
EXTENDS WakerTable, SequenceTheorems, FiniteSetTheorems, TLAPS

(* What alloc asserts of a slot it reuses. *)
Clean(s) == s.waiter = {} /\ s.published = 0 /\ s.waker = None

(* No wait object and no call owed by another thread carries the slot's    *)
(* present id.                                                             *)
Unclaimed(i) ==
    /\ \A t \in Tasks : pc[t] # "idle" => obj[t].id # CurrentId(i)
    /\ \A n \in owed : n.id # CurrentId(i)

(* On the free list, on its way there, and about to be freed by a close.   *)
Listed(i) == \E k \in DOMAIN freelist : freelist[k] = i
Returning(i) == \E f \in freeing : f.index = i /\ f.recycle
FreeOwed(id) == [id |-> id, kind |-> "free"] \in owed

(* An id was handed out by a slot that has not gone behind it since.       *)
Issued(id) ==
    /\ id.index \in DOMAIN slots
    /\ slots[id.index].retired \/ id.gen <= slots[id.index].gen

(* Every id in use or still owed a call was issued. *)
IdsIssued ==
    /\ \A t \in Tasks : pc[t] # "idle" => Issued(obj[t].id)
    /\ \A n \in owed : Issued(n.id)

(* A task is idle when it waits on nothing. *)
PcOK == \A t \in Tasks : pc[t] = "idle" <=> obj[t] = NoObj

(* A retired slot has no generation; what is freed is in the table. *)
SlotsOK ==
    /\ \A i \in DOMAIN slots : slots[i].retired <=> slots[i].gen = 0
    /\ \A k \in DOMAIN freelist : freelist[k] \in DOMAIN slots
    /\ \A f \in freeing : f.index \in DOMAIN slots

(* A slot is at most once on the list or on its way, and not when retired. *)
OnListOnce ==
    /\ \A k, l \in DOMAIN freelist : freelist[k] = freelist[l] => k = l
    /\ \A f, g \in freeing : f.index = g.index /\ f.recycle /\ g.recycle => f = g
    /\ \A k \in DOMAIN freelist, f \in freeing : f.recycle => f.index # freelist[k]
    /\ \A i \in DOMAIN slots : Listed(i) \/ Returning(i) => ~slots[i].retired

(* A slot nobody may use is clean, and no id reaches it. *)
SparesUnclaimed ==
    \A i \in DOMAIN slots :
        Listed(i) \/ Returning(i) \/ slots[i].retired => Clean(slots[i]) /\ Unclaimed(i)

(* A live id belongs to one object. *)
OneHolder ==
    \A t, u \in Tasks :
        pc[t] # "idle" /\ pc[u] # "idle" /\ Live(obj[t].id) /\ obj[t].id = obj[u].id => t = u

(* A slot out of the list is retired, held, or a close is to free it. *)
NoneLost ==
    \A i \in DOMAIN slots :
        \/ Listed(i) \/ Returning(i) \/ slots[i].retired
        \/ \E t \in Tasks : pc[t] # "idle" /\ obj[t].id = CurrentId(i)
        \/ FreeOwed(CurrentId(i))

(* A closed object that still has its slot has a close about to free it.   *)
ClosedIsFreed ==
    \A t \in Tasks :
        pc[t] # "idle" /\ obj[t].closed /\ Live(obj[t].id) => FreeOwed(obj[t].id)

SlotInv ==
    /\ TypeOK /\ PcOK /\ SlotsOK /\ IdsIssued
    /\ OnListOnce /\ SparesUnclaimed /\ OneHolder /\ NoneLost /\ ClosedIsFreed

(* A thread is on its way to wake the task. *)
Pending(t) == t \in waking \cup woken \/ \E f \in freeing : f.waker = t

(* The task's waker is in its slot, with the epoch it sleeps from. *)
Registered(t) ==
    /\ Live(obj[t].id)
    /\ slots[obj[t].id.index].waker = t
    /\ slots[obj[t].id.index].waiter = {obj[t].seen}

(* What a task sleeps from was published, and is as long as it has its     *)
(* slot; once registered it stays so until somebody takes its waker to     *)
(* call it; and one that sleeps with nobody on his way missed nothing.     *)
WakeOK(t) ==
    /\ pc[t] # "idle" /\ obj[t].kind = "completion" /\ obj[t].seen = 1 /\ Live(obj[t].id) =>
        slots[obj[t].id.index].published = 1
    /\ pc[t] \in {"recheck", "asleep"} => Pending(t) \/ Registered(t)
    /\ pc[t] = "asleep" /\ ~Pending(t) =>
        IF obj[t].kind = "channel"
        THEN obj[t].word = 1 => [id |-> obj[t].id, kind |-> "wake"] \in owed
        ELSE slots[obj[t].id.index].published = 0

WakeInv == \A t \in Tasks : WakeOK(t)

Inv == SlotInv /\ StaleIdsReachNothing /\ WakeInv

(* What is behind a slot's lock. *)
SlotRec == [gen : 0..MaxGen, waiter : {{}, {0}, {1}}, published : {0, 1},
            waker : Tasks \cup {None}, retired : BOOLEAN]

(* Writing a slot's record keeps the table a sequence of slots. *)
LEMMA WriteSlot ==
  ASSUME slots \in Seq(SlotRec), NEW i \in DOMAIN slots, NEW r \in SlotRec,
         slots' = [slots EXCEPT ![i] = r]
  PROVE  /\ slots' \in Seq(SlotRec)
         /\ Len(slots') = Len(slots)
         /\ DOMAIN slots' = DOMAIN slots
         /\ slots'[i] = r
         /\ \A j \in DOMAIN slots : j # i => slots'[j] = slots[j]
<1>1. /\ DOMAIN slots = 1..Len(slots) /\ Len(slots) \in Nat
  BY LenProperties
<1>2. slots' \in Seq(SlotRec) /\ Len(slots') = Len(slots)
  BY <1>1, ExceptSeq
<1> QED BY <1>1, <1>2, LenProperties

(* A slot's record after register, deregister and signal. *)
LEMMA SlotForms ==
  ASSUME NEW s \in SlotRec, NEW w \in {{}, {0}, {1}}, NEW k \in Tasks \cup {None},
         NEW p \in {0, 1}
  PROVE  /\ [s EXCEPT !.waiter = w, !.waker = k] \in SlotRec
         /\ [s EXCEPT !.published = p, !.waiter = w, !.waker = k] \in SlotRec
<1>1. [s EXCEPT !.waiter = w] \in SlotRec
  BY DEF SlotRec
<1>2. [[s EXCEPT !.waiter = w] EXCEPT !.waker = k] \in SlotRec
  BY <1>1 DEF SlotRec
<1>3. [s EXCEPT !.published = p] \in SlotRec
  BY DEF SlotRec
<1>4. [[s EXCEPT !.published = p] EXCEPT !.waiter = w] \in SlotRec
  BY <1>3 DEF SlotRec
<1>5. [[[s EXCEPT !.published = p] EXCEPT !.waiter = w] EXCEPT !.waker = k] \in SlotRec
  BY <1>4 DEF SlotRec
<1> QED BY <1>2, <1>5

(* A freed slot is a new one but for its generation and its retired mark.  *)
LEMMA FreedForm ==
  ASSUME NEW g \in 0..MaxGen, NEW b \in BOOLEAN
  PROVE  LET r == [NewSlot EXCEPT !.gen = g, !.retired = b]
         IN  /\ r \in SlotRec
             /\ r.gen = g /\ r.waiter = {} /\ r.published = 0 /\ r.waker = None
             /\ r.retired = b
<1> DEFINE s == [NewSlot EXCEPT !.gen = g]
<1>0. 1 \in 0..MaxGen
  BY BoundsAssumption
<1>1. NewSlot \in SlotRec
  BY <1>0 DEF NewSlot, SlotRec
<1>2. NewSlot.waiter = {} /\ NewSlot.published = 0 /\ NewSlot.waker = None
  BY DEF NewSlot
<1>3. s \in SlotRec /\ s.gen = g /\ s.waiter = {} /\ s.published = 0 /\ s.waker = None
  BY <1>1, <1>2 DEF SlotRec
<1> HIDE DEF s
<1>4. [s EXCEPT !.retired = b] \in SlotRec
  BY <1>3 DEF SlotRec
<1>5. /\ [s EXCEPT !.retired = b].gen = g /\ [s EXCEPT !.retired = b].waiter = {}
      /\ [s EXCEPT !.retired = b].published = 0 /\ [s EXCEPT !.retired = b].waker = None
  BY <1>3 DEF SlotRec
<1>6. [s EXCEPT !.retired = b].retired = b
  BY <1>3 DEF SlotRec
<1> QED BY <1>4, <1>5, <1>6 DEF s

(* A step that writes only into slots somebody has an id of. *)
WritesClaimed ==
    /\ UNCHANGED <<freelist, freeing>>
    /\ DOMAIN slots' = DOMAIN slots
    /\ \A i \in DOMAIN slots :
        /\ slots'[i].gen = slots[i].gen
        /\ slots'[i].retired = slots[i].retired
        /\ Unclaimed(i) => slots'[i] = slots[i]

(* A step in which no object changes its id, one that goes was freed or is *)
(* about to be, and one that is closed is about to be freed.               *)
ObjectsKept ==
    /\ \A t \in Tasks : pc'[t] # "idle" =>
        /\ pc[t] # "idle"
        /\ obj'[t].id = obj[t].id
        /\ obj'[t].closed => obj[t].closed \/ [id |-> obj[t].id, kind |-> "free"] \in owed'
    /\ \A t \in Tasks : pc[t] # "idle" /\ pc'[t] = "idle" =>
        ~Live(obj[t].id) \/ [id |-> obj[t].id, kind |-> "free"] \in owed'

(* A step that owes calls for known ids only and forgets no live free.     *)
OwesKnown ==
    /\ \A n \in owed' :
        \/ \E m \in owed : m.id = n.id
        \/ \E t \in Tasks : pc[t] # "idle" /\ obj[t].id = n.id
    /\ \A n \in owed : n.kind = "free" /\ Live(n.id) => n \in owed'

(* Such a step keeps the slots in order. *)
LEMMA FrameKeeps ==
  ASSUME SlotInv, TypeOK', PcOK', WritesClaimed, ObjectsKept, OwesKnown
  PROVE  SlotInv'
<1>1. SlotsOK' /\ IdsIssued'
  <2>1. SlotsOK'
    BY DEF SlotInv, SlotsOK, WritesClaimed
  <2>2. \A j : Issued(j)' <=> Issued(j)
    BY DEF Issued, WritesClaimed
  <2>3. \A t \in Tasks : pc'[t] # "idle" => Issued(obj'[t].id)
    BY DEF SlotInv, IdsIssued, ObjectsKept
  <2>4. \A n \in owed' : Issued(n.id)
    BY DEF SlotInv, IdsIssued, OwesKnown
  <2>5. IdsIssued'
    BY <2>2, <2>3, <2>4 DEF IdsIssued, Issued, WritesClaimed
  <2> QED BY <2>1, <2>5
<1>2. OnListOnce'
  BY DEF SlotInv, OnListOnce, Listed, Returning, WritesClaimed
<1>3. ASSUME NEW i \in DOMAIN slots
      PROVE  /\ CurrentId(i)' = CurrentId(i)
             /\ Listed(i)' <=> Listed(i)
             /\ Returning(i)' <=> Returning(i)
             /\ slots'[i].retired = slots[i].retired
             /\ slots[i].retired \/ Live(CurrentId(i))
  BY <1>3 DEF CurrentId, Listed, Returning, Live, WritesClaimed
<1>4. \A id : Live(id)' <=> Live(id)
  BY DEF Live, WritesClaimed
<1>5. \A id : FreeOwed(id) /\ Live(id) => [id |-> id, kind |-> "free"] \in owed'
  BY DEF FreeOwed, OwesKnown
<1>6. SparesUnclaimed'
  <2> SUFFICES ASSUME NEW i \in DOMAIN slots,
                      Listed(i) \/ Returning(i) \/ slots[i].retired
               PROVE  Clean(slots[i])' /\ Unclaimed(i)'
    BY <1>3 DEF SparesUnclaimed, WritesClaimed
  <2>1. Clean(slots[i]) /\ Unclaimed(i)
    BY DEF SlotInv, SparesUnclaimed
  <2>2. Unclaimed(i)'
    <3>1. \A t \in Tasks : pc'[t] # "idle" => obj'[t].id # CurrentId(i)
      BY <2>1 DEF Unclaimed, ObjectsKept
    <3>2. \A n \in owed' : n.id # CurrentId(i)
      BY <2>1 DEF Unclaimed, OwesKnown
    <3> QED BY <1>3, <3>1, <3>2 DEF Unclaimed
  <2> QED BY <2>1, <2>2 DEF Clean, WritesClaimed
<1>7. OneHolder'
  <2> SUFFICES ASSUME NEW t \in Tasks, NEW u \in Tasks, pc'[t] # "idle", pc'[u] # "idle",
                      Live(obj[t].id)', obj'[t].id = obj'[u].id
               PROVE  t = u
    BY DEF OneHolder
  <2>1. /\ pc[t] # "idle" /\ obj'[t].id = obj[t].id
        /\ pc[u] # "idle" /\ obj'[u].id = obj[u].id
    BY DEF ObjectsKept
  <2>2. Live(obj[t].id)
    BY <2>1 DEF Live, WritesClaimed
  <2> QED BY <2>1, <2>2 DEF SlotInv, OneHolder
<1>8. NoneLost'
  <2> SUFFICES ASSUME NEW i \in DOMAIN slots,
                      ~Listed(i), ~Returning(i), ~slots[i].retired
               PROVE  \/ \E t \in Tasks : pc'[t] # "idle" /\ obj'[t].id = CurrentId(i)
                      \/ [id |-> CurrentId(i), kind |-> "free"] \in owed'
    BY <1>3 DEF NoneLost, FreeOwed, WritesClaimed
  <2>1. Live(CurrentId(i))
    BY <1>3
  <2>2. \/ \E t \in Tasks : pc[t] # "idle" /\ obj[t].id = CurrentId(i)
        \/ FreeOwed(CurrentId(i))
    BY DEF SlotInv, NoneLost
  <2>3. ASSUME NEW t \in Tasks, pc[t] # "idle", obj[t].id = CurrentId(i)
        PROVE  \/ pc'[t] # "idle" /\ obj'[t].id = CurrentId(i)
               \/ [id |-> CurrentId(i), kind |-> "free"] \in owed'
    BY <2>1, <2>3 DEF ObjectsKept
  <2> QED BY <1>5, <2>1, <2>2, <2>3
<1>9. ClosedIsFreed'
  <2> SUFFICES ASSUME NEW t \in Tasks, pc'[t] # "idle", obj'[t].closed, Live(obj[t].id)'
               PROVE  [id |-> obj'[t].id, kind |-> "free"] \in owed'
    BY DEF ClosedIsFreed, FreeOwed
  <2>1. pc[t] # "idle" /\ obj'[t].id = obj[t].id
    BY DEF ObjectsKept
  <2>2. Live(obj[t].id)
    BY <2>1 DEF Live, WritesClaimed
  <2>3. obj[t].closed => FreeOwed(obj[t].id)
    BY <2>1, <2>2 DEF SlotInv, ClosedIsFreed
  <2> QED BY <1>5, <2>1, <2>2, <2>3 DEF ObjectsKept
<1> QED BY <1>1, <1>2, <1>6, <1>7, <1>8, <1>9 DEF SlotInv

(* What the locked half of free does to a slot that is the id's. *)
LEMMA FreeFacts ==
  ASSUME TypeOK, NEW id \in Ids, Live(id), FreeLocked(id)
  PROVE  /\ id.index \in DOMAIN slots
         /\ slots' \in Seq(SlotRec) /\ Len(slots') = Len(slots) /\ DOMAIN slots' = DOMAIN slots
         /\ \A j \in DOMAIN slots : j # id.index => slots'[j] = slots[j]
         /\ Clean(slots'[id.index])
         /\ slots'[id.index].gen = IF id.gen = MaxGen THEN 0 ELSE id.gen + 1
         /\ slots'[id.index].retired <=> id.gen = MaxGen
         /\ \E f \in [index : Indices, waker : Tasks \cup {None}, recycle : BOOLEAN] :
              /\ freeing' = freeing \cup {f}
              /\ f.index = id.index
              /\ f.waker = slots[id.index].waker
              /\ f.recycle <=> id.gen # MaxGen
<1> DEFINE i == id.index
           last == slots[i].gen = MaxGen
           g == IF last THEN 0 ELSE slots[i].gen + 1
           r == [NewSlot EXCEPT !.gen = g, !.retired = last]
           f == [index |-> i, waker |-> slots[i].waker, recycle |-> ~last]
<1>1. /\ i \in DOMAIN slots /\ i \in Indices /\ slots[i].gen = id.gen
      /\ id.gen \in 1..MaxGen
  BY DEF Live, Ids
<1>2. slots \in Seq(SlotRec) /\ slots[i] \in SlotRec
  <2>1. slots \in Seq(SlotRec)
    BY DEF TypeOK, SlotRec
  <2> QED BY <1>1, <2>1, ElementOfSeq, LenProperties
<1>3. slots' = [slots EXCEPT ![i] = r] /\ freeing' = freeing \cup {f}
  BY DEF FreeLocked
<1>4. last \in BOOLEAN /\ (~last) \in BOOLEAN
  OBVIOUS
<1>5. g \in 0..MaxGen
  BY <1>1, BoundsAssumption
<1> HIDE DEF last, g
<1>6. /\ r \in SlotRec
      /\ r.gen = g /\ r.waiter = {} /\ r.published = 0 /\ r.waker = None /\ r.retired = last
  BY <1>4, <1>5, FreedForm
<1>7. f \in [index : Indices, waker : Tasks \cup {None}, recycle : BOOLEAN]
  BY <1>1, <1>2, <1>4 DEF SlotRec
<1>8. /\ slots' \in Seq(SlotRec) /\ Len(slots') = Len(slots) /\ DOMAIN slots' = DOMAIN slots
      /\ slots'[i] = r /\ \A j \in DOMAIN slots : j # i => slots'[j] = slots[j]
  <2> HIDE DEF r
  <2> QED BY <1>1, <1>2, <1>3, <1>6, WriteSlot
<1>9. Clean(slots'[i]) /\ slots'[i].gen = g /\ (slots'[i].retired <=> last)
  BY <1>6, <1>8 DEF Clean
<1>10. (last <=> id.gen = MaxGen) /\ g = IF id.gen = MaxGen THEN 0 ELSE id.gen + 1
  BY <1>1 DEF last, g
<1>11. f.index = i /\ f.waker = slots[i].waker /\ (f.recycle <=> id.gen # MaxGen)
  BY <1>10
<1> HIDE DEF r, f
<1> QED BY <1>1, <1>3, <1>7, <1>8, <1>9, <1>10, <1>11

(* A step that gives up at most what carries the id.                       *)
GivesUp(id) ==
    /\ \A t \in Tasks : pc'[t] # "idle" => pc[t] # "idle" /\ obj'[t] = obj[t]
    /\ \A t \in Tasks : pc[t] # "idle" /\ obj[t].id # id => pc'[t] # "idle"
    /\ \A n \in owed : n.id # id => n \in owed'
    /\ owed' \subseteq owed

(* Freeing a claimed slot leaves every id of it behind: its next generation *)
(* is nobody's, and the slot is on its way to the free list, or retired.    *)
LEMMA FreeKeeps ==
  ASSUME SlotInv, TypeOK', PcOK', NEW id \in Ids, Live(id), FreeLocked(id),
         UNCHANGED freelist, ~Unclaimed(id.index), GivesUp(id)
  PROVE  SlotInv'
<1> DEFINE i == id.index
<1>1. /\ i \in DOMAIN slots
      /\ DOMAIN slots' = DOMAIN slots
      /\ \A j \in DOMAIN slots : j # i => slots'[j] = slots[j]
      /\ Clean(slots'[i])
      /\ slots'[i].gen = IF id.gen = MaxGen THEN 0 ELSE id.gen + 1
      /\ slots'[i].retired <=> id.gen = MaxGen
  BY FreeFacts DEF SlotInv
<1>2. PICK f \in [index : Indices, waker : Tasks \cup {None}, recycle : BOOLEAN] :
        freeing' = freeing \cup {f} /\ f.index = i /\ (f.recycle <=> id.gen # MaxGen)
  BY FreeFacts DEF SlotInv
<1>3. id = CurrentId(i) /\ ~slots[i].retired /\ id.gen \in 1..MaxGen /\ MaxGen \in Nat
  BY BoundsAssumption DEF Live, Ids, CurrentId
<1>4. ~Listed(i) /\ ~Returning(i)
  BY <1>1 DEF SlotInv, SparesUnclaimed
<1>5. /\ \A t \in Tasks : pc[t] # "idle" => obj[t].id \in Ids
      /\ \A n \in owed : n.id \in Ids
  BY DEF SlotInv, TypeOK, PcOK, NoObj
<1>6. SlotsOK'
  BY <1>1, <1>2, <1>3 DEF SlotInv, SlotsOK
<1>7. IdsIssued'
  <2>1. ASSUME NEW j \in Ids, Issued(j) PROVE Issued(j)'
    <3>1. CASE j.index = i
      BY <1>1, <1>3, <2>1, <3>1 DEF Issued, Ids, CurrentId
    <3> QED BY <1>1, <2>1, <3>1 DEF Issued
  <2>2. \A t \in Tasks : pc'[t] # "idle" => pc[t] # "idle" /\ obj'[t] = obj[t]
    BY DEF GivesUp
  <2>3. \A n \in owed' : n \in owed
    BY DEF GivesUp
  <2> HIDE DEF i
  <2>4. \A t \in Tasks : pc'[t] # "idle" => Issued(obj[t].id)'
    BY <1>5, <2>1, <2>2 DEF SlotInv, IdsIssued, Issued
  <2>5. \A n \in owed' : Issued(n.id)'
    BY <1>5, <2>1, <2>3 DEF SlotInv, IdsIssued
  <2> QED BY <2>4, <2>5 DEF IdsIssued
<1>8. OnListOnce'
  BY <1>1, <1>2, <1>3, <1>4 DEF SlotInv, OnListOnce, Listed, Returning, SlotsOK
<1>9. /\ CurrentId(i)' # id /\ CurrentId(i)' \notin {j \in Ids : Issued(j)}
      /\ CurrentId(i)'.index = i
  BY <1>1, <1>3 DEF CurrentId, Issued, Ids
<1>10. Unclaimed(i)'
  <2> HIDE DEF i
  <2> QED BY <1>5, <1>9 DEF Unclaimed, GivesUp, SlotInv, IdsIssued
<1>11. ASSUME NEW j \in DOMAIN slots, j # i
       PROVE  /\ CurrentId(j)' = CurrentId(j) /\ CurrentId(j) # id
              /\ Listed(j)' <=> Listed(j)
              /\ Returning(j)' <=> Returning(j)
              /\ Unclaimed(j) => Unclaimed(j)'
  <2>1. CurrentId(j)' = CurrentId(j) /\ CurrentId(j) # id
    BY <1>1, <1>11 DEF CurrentId
  <2>2. (Listed(j)' <=> Listed(j)) /\ (Returning(j)' <=> Returning(j))
    BY <1>2, <1>11 DEF Listed, Returning
  <2> QED BY <2>1, <2>2 DEF Unclaimed, GivesUp
<1>12. SparesUnclaimed'
  BY <1>1, <1>10, <1>11 DEF SlotInv, SparesUnclaimed, Clean
<1>13. ASSUME NEW j \in Ids, Issued(j), Live(j)' PROVE Live(j) /\ j.index # i /\ j # id
  BY <1>1, <1>3, <1>13 DEF Live, Issued, Ids, CurrentId
<1>14. OneHolder'
  <2> HIDE DEF i
  <2> SUFFICES ASSUME NEW t \in Tasks, NEW u \in Tasks, pc'[t] # "idle", pc'[u] # "idle",
                      Live(obj[t].id)', obj'[t].id = obj'[u].id
               PROVE  t = u
    BY DEF OneHolder
  <2>1. pc[t] # "idle" /\ pc[u] # "idle" /\ obj'[t] = obj[t] /\ obj'[u] = obj[u]
    BY DEF GivesUp
  <2>2. Live(obj[t].id)
    BY <1>5, <1>13, <2>1 DEF SlotInv, IdsIssued, Live
  <2> QED BY <2>1, <2>2 DEF SlotInv, OneHolder
<1>15. NoneLost'
  <2> HIDE DEF i
  <2>1. Returning(i)' \/ slots'[i].retired
    BY <1>1, <1>2 DEF Returning
  <2>2. ASSUME NEW j \in DOMAIN slots, j # i, ~Listed(j), ~Returning(j), ~slots[j].retired
        PROVE  \/ \E t \in Tasks : pc'[t] # "idle" /\ obj'[t].id = CurrentId(j)
               \/ [id |-> CurrentId(j), kind |-> "free"] \in owed'
    <3>1. CurrentId(j) # id
      BY <1>11, <2>2
    <3>2. \/ \E t \in Tasks : pc[t] # "idle" /\ obj[t].id = CurrentId(j)
          \/ [id |-> CurrentId(j), kind |-> "free"] \in owed
      BY <2>2 DEF SlotInv, NoneLost, FreeOwed
    <3> QED BY <3>1, <3>2 DEF GivesUp
  <2> QED BY <1>1, <1>11, <2>1, <2>2 DEF NoneLost, FreeOwed
<1>16. ClosedIsFreed'
  <2> HIDE DEF i
  <2> SUFFICES ASSUME NEW t \in Tasks, pc'[t] # "idle", obj'[t].closed, Live(obj[t].id)'
               PROVE  [id |-> obj'[t].id, kind |-> "free"] \in owed'
    BY DEF ClosedIsFreed, FreeOwed
  <2>1. pc[t] # "idle" /\ obj'[t] = obj[t]
    BY DEF GivesUp
  <2>2. Live(obj[t].id) /\ obj[t].id # id
    BY <1>5, <1>13, <2>1 DEF SlotInv, IdsIssued, Live
  <2>3. [id |-> obj[t].id, kind |-> "free"] \in owed
    BY <2>1, <2>2 DEF SlotInv, ClosedIsFreed, FreeOwed
  <2> QED BY <2>1, <2>2, <2>3 DEF GivesUp
<1> QED BY <1>6, <1>7, <1>8, <1>12, <1>14, <1>15, <1>16 DEF SlotInv

(* Recycling moves a slot from its free call to the free list. *)
LEMMA RecycleKeeps ==
  ASSUME SlotInv, NEW f \in freeing, FreeUnlocked(f)
  PROVE  SlotInv'
<1>1. /\ freeing' = freeing \ {f}
      /\ freelist' = IF f.recycle THEN Append(freelist, f.index) ELSE freelist
      /\ UNCHANGED <<slots, waking, obj, pc, owed>>
  BY DEF FreeUnlocked
<1>2. woken' \subseteq Tasks
  BY DEF SlotInv, TypeOK, FreeUnlocked
<1>3. /\ freelist \in Seq(Indices) /\ f.index \in Indices
      /\ DOMAIN freelist = 1..Len(freelist) /\ Len(freelist) \in Nat
  BY LenProperties DEF SlotInv, TypeOK
<1>4. ASSUME f.recycle
      PROVE  /\ freelist' \in Seq(Indices)
             /\ DOMAIN freelist' = 1..(Len(freelist) + 1)
             /\ freelist'[Len(freelist) + 1] = f.index
             /\ \A k \in DOMAIN freelist : freelist'[k] = freelist[k]
  BY <1>1, <1>3, <1>4, AppendProperties, LenProperties
<1>5. freelist' \in Seq(Indices)
  BY <1>1, <1>3, <1>4
<1>6. TypeOK'
  BY <1>1, <1>2, <1>5 DEF SlotInv, TypeOK
<1>7. PcOK' /\ IdsIssued' /\ OneHolder' /\ ClosedIsFreed'
  BY <1>1 DEF SlotInv, PcOK, IdsIssued, Issued, OneHolder, ClosedIsFreed, Live, FreeOwed
<1>8. SlotsOK'
  <2>1. CASE f.recycle
    BY <1>1, <1>3, <1>4, <2>1 DEF SlotInv, SlotsOK
  <2>2. CASE ~f.recycle
    BY <1>1, <2>2 DEF SlotInv, SlotsOK
  <2> QED BY <2>1, <2>2
<1>9. \A i : Listed(i)' \/ Returning(i)' <=> Listed(i) \/ Returning(i)
  <2>1. CASE f.recycle
    <3>1. \A i : Listed(i)' <=> Listed(i) \/ i = f.index
      BY <1>3, <1>4, <2>1 DEF Listed
    <3>2. \A i : Returning(i) <=> Returning(i)' \/ i = f.index
      BY <1>1, <2>1 DEF Returning, SlotInv, OnListOnce
    <3> QED BY <3>1, <3>2
  <2>2. CASE ~f.recycle
    BY <1>1, <2>2 DEF Listed, Returning
  <2> QED BY <2>1, <2>2
<1>10. OnListOnce'
  <2>1. CASE f.recycle
    BY <1>1, <1>3, <1>4, <1>9, <2>1 DEF SlotInv, OnListOnce
  <2>2. CASE ~f.recycle
    BY <1>1, <1>9, <2>2 DEF SlotInv, OnListOnce
  <2> QED BY <2>1, <2>2
<1>11. SparesUnclaimed' /\ NoneLost'
  <2>1. \A i : CurrentId(i)' = CurrentId(i)
    BY <1>1 DEF CurrentId
  <2>2. SparesUnclaimed'
    BY <1>1, <1>9, <2>1 DEF SlotInv, SparesUnclaimed, Clean, Unclaimed
  <2>3. NoneLost'
    BY <1>1, <1>9, <2>1 DEF SlotInv, NoneLost, FreeOwed
  <2> QED BY <2>2, <2>3
<1> QED BY <1>6, <1>7, <1>8, <1>10, <1>11 DEF SlotInv

(* What a task takes and what it will be answered with. *)
LEMMA TakeFacts ==
  ASSUME TypeOK, NEW t \in Tasks, NEW kind \in Kinds, NEW id \in Ids, Take(t, kind, id)
  PROVE  /\ obj' \in [Tasks -> [kind : Kinds, id : Ids, closed : BOOLEAN, word : {0, 1},
                                seen : {0, 1}] \cup {NoObj}]
         /\ obj'[t].id = id /\ ~obj'[t].closed /\ obj'[t] # NoObj
         /\ obj'[t].kind = kind /\ obj'[t].seen = 0
         /\ \A u \in Tasks \ {t} : obj'[u] = obj[u] /\ pc'[u] = pc[u]
         /\ pc' \in [Tasks -> {"idle", "check", "observe", "register", "recheck", "asleep",
                               "ready", "free"}]
         /\ pc'[t] = "check"
         /\ \E k \in {"publish", "store"} : owed' = owed \cup {[id |-> id, kind |-> k]}
         /\ UNCHANGED <<freeing, waking, woken>>
<1> DEFINE o == [kind |-> kind, id |-> id, closed |-> FALSE, word |-> 0, seen |-> 0]
<1>1. FALSE \in BOOLEAN
  OBVIOUS
<1>2. o \in [kind : Kinds, id : Ids, closed : BOOLEAN, word : {0, 1}, seen : {0, 1}]
  BY <1>1
<1>3. o.id = id /\ ~o.closed /\ o.kind = kind /\ o.seen = 0 /\ o.kind # None
  BY KindsAssumption DEF None
<1>4. obj' = [obj EXCEPT ![t] = o]
  BY DEF Take
<1> HIDE DEF o
<1>5. o # NoObj
  BY <1>3 DEF NoObj
<1>6. \E k \in {"publish", "store"} : owed' = owed \cup {[id |-> id, kind |-> k]}
  BY DEF Take
<1>7. obj'[t] = o /\ \A u \in Tasks \ {t} : obj'[u] = obj[u]
  BY <1>4 DEF TypeOK
<1>8. obj' \in [Tasks -> [kind : Kinds, id : Ids, closed : BOOLEAN, word : {0, 1},
                        seen : {0, 1}] \cup {NoObj}]
  BY <1>2, <1>4 DEF TypeOK
<1>9. /\ pc' = [pc EXCEPT ![t] = "check"]
      /\ UNCHANGED <<freeing, waking, woken>>
  BY DEF Take
<1>10. /\ pc' \in [Tasks -> {"idle", "check", "observe", "register", "recheck", "asleep",
                             "ready", "free"}]
       /\ pc'[t] = "check" /\ \A u \in Tasks \ {t} : pc'[u] = pc[u]
  BY <1>9 DEF TypeOK
<1>11. obj'[t].id = id /\ ~obj'[t].closed /\ obj'[t].kind = kind /\ obj'[t].seen = 0
  BY <1>3, <1>7
<1> QED BY <1>5, <1>6, <1>7, <1>8, <1>9, <1>10, <1>11

(* Handing out an unclaimed slot gives it its one holder. *)
LEMMA TakeKeeps ==
  ASSUME SlotInv, NEW t \in Tasks, NEW kind \in Kinds, NEW id \in Ids, Take(t, kind, id),
         pc[t] = "idle", TypeOK', SlotsOK', OnListOnce',
         DOMAIN slots' = DOMAIN slots \cup {id.index},
         \A j \in DOMAIN slots : slots'[j] = slots[j],
         slots'[id.index].gen = id.gen, ~slots'[id.index].retired,
         ~Listed(id.index)', ~Returning(id.index),
         \A j \in DOMAIN slots : j # id.index => (Listed(j)' <=> Listed(j)),
         \A u \in Tasks : pc[u] # "idle" => obj[u].id # id,
         \A n \in owed : n.id # id
  PROVE  SlotInv'
<1>1. /\ obj'[t].id = id /\ ~obj'[t].closed /\ obj'[t] # NoObj /\ pc'[t] # "idle"
      /\ \A u \in Tasks \ {t} : obj'[u] = obj[u] /\ pc'[u] = pc[u]
      /\ UNCHANGED freeing
  BY TakeFacts DEF SlotInv
<1>2. PICK k \in {"publish", "store"} : owed' = owed \cup {[id |-> id, kind |-> k]}
  BY TakeFacts DEF SlotInv
<1>3. PcOK'
  BY <1>1 DEF SlotInv, PcOK
<1>4. IdsIssued'
  <2>1. \A j : Issued(j) => Issued(j)'
    BY DEF Issued
  <2>2. Issued(id)'
    BY DEF Issued, Ids
  <2>3. \A u \in Tasks : pc'[u] # "idle" => Issued(obj[u].id)'
    BY <1>1, <2>1, <2>2 DEF SlotInv, IdsIssued, Issued
  <2>4. \A n \in owed' : Issued(n.id)'
    BY <1>2, <2>1, <2>2 DEF SlotInv, IdsIssued
  <2> QED BY <2>3, <2>4 DEF IdsIssued
<1>5. CurrentId(id.index)' = id
  BY DEF CurrentId, Ids
<1>6. ASSUME NEW j \in DOMAIN slots, j # id.index
      PROVE  /\ CurrentId(j)' = CurrentId(j) /\ CurrentId(j) # id
             /\ Returning(j)' <=> Returning(j)
             /\ Unclaimed(j) => Unclaimed(j)'
  <2>1. CurrentId(j)' = CurrentId(j) /\ CurrentId(j) # id
    BY <1>6 DEF CurrentId
  <2>2. Returning(j)' <=> Returning(j)
    BY <1>1 DEF Returning
  <2>3. ASSUME Unclaimed(j) PROVE \A u \in Tasks : pc'[u] # "idle" => obj'[u].id # CurrentId(j)
    BY <1>1, <2>1, <2>3 DEF Unclaimed
  <2>4. ASSUME Unclaimed(j) PROVE \A n \in owed' : n.id # CurrentId(j)
    BY <1>2, <2>1, <2>4 DEF Unclaimed
  <2> QED BY <2>1, <2>2, <2>3, <2>4 DEF Unclaimed
<1>7. SparesUnclaimed'
  <2> SUFFICES ASSUME NEW j \in DOMAIN slots',
                      Listed(j)' \/ Returning(j)' \/ slots'[j].retired
               PROVE  Clean(slots[j])' /\ Unclaimed(j)'
    BY DEF SparesUnclaimed
  <2>1. j # id.index /\ j \in DOMAIN slots
    BY <1>1 DEF Returning
  <2> QED BY <1>6, <2>1 DEF SlotInv, SparesUnclaimed, Clean
<1>8. \A j : Live(j)' => Live(j) \/ j.index = id.index
  BY DEF Live
<1>9. OneHolder'
  <2> SUFFICES ASSUME NEW u \in Tasks, NEW v \in Tasks, pc'[u] # "idle", pc'[v] # "idle",
                      Live(obj[u].id)', obj'[u].id = obj'[v].id, u # t
               PROVE  u = v
    BY DEF OneHolder
  <2>1. pc[u] # "idle" /\ obj'[u] = obj[u] /\ obj[u].id # id
    BY <1>1
  <2>2. v # t /\ pc[v] # "idle" /\ obj'[v] = obj[v]
    BY <1>1, <2>1
  <2>3. Issued(obj[u].id) /\ obj[u].id.index \in DOMAIN slots
    BY <2>1 DEF SlotInv, IdsIssued, Issued
  <2>4. Live(obj[u].id)
    BY <2>1, <2>3 DEF Live
  <2> QED BY <2>1, <2>2, <2>4 DEF SlotInv, OneHolder
<1>10. NoneLost'
  <2>1. ASSUME NEW j \in DOMAIN slots, j # id.index, ~Listed(j), ~Returning(j), ~slots[j].retired
        PROVE  \/ \E u \in Tasks : pc'[u] # "idle" /\ obj'[u].id = CurrentId(j)
               \/ [id |-> CurrentId(j), kind |-> "free"] \in owed'
    <3>1. \/ \E u \in Tasks : pc[u] # "idle" /\ obj[u].id = CurrentId(j)
          \/ [id |-> CurrentId(j), kind |-> "free"] \in owed
      BY <2>1 DEF SlotInv, NoneLost, FreeOwed
    <3> QED BY <1>1, <1>2, <3>1
  <2>2. pc'[t] # "idle" /\ obj'[t].id = CurrentId(id.index)'
    BY <1>1, <1>5
  <2>3. ASSUME NEW j \in DOMAIN slots, j # id.index
        PROVE  \/ Listed(j)' \/ Returning(j)' \/ slots'[j].retired
               \/ \E u \in Tasks : pc'[u] # "idle" /\ obj'[u].id = CurrentId(j)'
               \/ [id |-> CurrentId(j)', kind |-> "free"] \in owed'
    BY <1>6, <2>1, <2>3
  <2> QED BY <2>2, <2>3 DEF NoneLost, FreeOwed
<1>11. ClosedIsFreed'
  <2> SUFFICES ASSUME NEW u \in Tasks, pc'[u] # "idle", obj'[u].closed, Live(obj[u].id)'
               PROVE  [id |-> obj'[u].id, kind |-> "free"] \in owed'
    BY DEF ClosedIsFreed, FreeOwed
  <2>1. pc[u] # "idle" /\ obj'[u] = obj[u]
    BY <1>1
  <2>2. Issued(obj[u].id) /\ obj[u].id.index \in DOMAIN slots
    BY <2>1 DEF SlotInv, IdsIssued, Issued
  <2>3. Live(obj[u].id)
    BY <2>1, <2>2 DEF Live
  <2> QED BY <1>2, <2>1, <2>3 DEF SlotInv, ClosedIsFreed, FreeOwed
<1> QED BY <1>3, <1>4, <1>7, <1>9, <1>10, <1>11 DEF SlotInv

(* Popping the free list. *)
LEMMA FrontFacts ==
  ASSUME NEW S, NEW q \in Seq(S), q # <<>>
  PROVE  /\ Len(q) \in Nat \ {0} /\ DOMAIN q = 1..Len(q)
         /\ Front(q) \in Seq(S)
         /\ DOMAIN Front(q) = 1..(Len(q) - 1)
         /\ \A k \in 1..(Len(q) - 1) : Front(q)[k] = q[k]
<1>1. Len(q) \in Nat \ {0} /\ DOMAIN q = 1..Len(q)
  BY EmptySeq, LenProperties
<1>2. /\ SubSeq(q, 1, Len(q) - 1) \in Seq(S)
      /\ Len(SubSeq(q, 1, Len(q) - 1)) = Len(q) - 1
      /\ \A k \in 1..(Len(q) - 1) : SubSeq(q, 1, Len(q) - 1)[k] = q[k]
  BY <1>1, SubSeqProperties
<1> QED BY <1>1, <1>2, LenProperties DEF Front

(* A wait begins with a slot from the free list, or with a new one. *)
LEMMA AllocKeeps ==
  ASSUME SlotInv, NEW t \in Tasks, NEW kind \in Kinds, Alloc(t, kind)
  PROVE  SlotInv'
<1>0. /\ slots \in Seq(SlotRec) /\ Len(slots) \in Nat /\ DOMAIN slots = 1..Len(slots)
      /\ freelist \in Seq(Indices) /\ MaxSlots \in Nat /\ MaxGen \in Nat \ {0}
      /\ Len(slots) <= MaxSlots
  BY BoundsAssumption, LenProperties DEF SlotInv, TypeOK, SlotRec
<1>1. CASE freelist # <<>>
  <2>0. /\ Len(freelist) \in DOMAIN freelist /\ Last(freelist) = freelist[Len(freelist)]
        /\ Last(freelist) \in DOMAIN slots
    BY <1>0, <1>1, FrontFacts DEF Last, SlotInv, SlotsOK
  <2> PICK i \in DOMAIN slots : i = Last(freelist)
    BY <2>0
  <2>1. i = freelist[Len(freelist)] /\ Listed(i)
    BY <2>0 DEF Listed
  <2> PICK id : id = [gen |-> slots[i].gen, index |-> i]
    OBVIOUS
  <2>2. /\ ~slots[i].retired /\ Unclaimed(i) /\ ~Returning(i)
    BY <2>0, <2>1 DEF SlotInv, OnListOnce, SparesUnclaimed, Returning
  <2>3. /\ Take(t, kind, id) /\ freelist' = Front(freelist) /\ UNCHANGED slots
        /\ pc[t] = "idle"
    BY <1>1, <2>2 DEF Alloc
  <2>4. slots[i] \in SlotRec
    BY <1>0, <2>1, ElementOfSeq
  <2>5. id \in Ids /\ id.index = i /\ id.gen = slots[i].gen /\ id = CurrentId(i)
    BY <1>0, <2>1, <2>2, <2>4 DEF Ids, Indices, SlotRec, SlotInv, SlotsOK, CurrentId
  <2>6. /\ freelist' \in Seq(Indices)
        /\ DOMAIN freelist' = DOMAIN freelist \ {Len(freelist)}
        /\ \A k \in DOMAIN freelist' : freelist'[k] = freelist[k]
    <3>1. /\ Front(freelist) \in Seq(Indices) /\ Len(freelist) \in Nat
          /\ DOMAIN freelist = 1..Len(freelist)
          /\ DOMAIN Front(freelist) = 1..(Len(freelist) - 1)
          /\ \A k \in 1..(Len(freelist) - 1) : Front(freelist)[k] = freelist[k]
      BY <1>0, <1>1, FrontFacts
    <3>2. 1..(Len(freelist) - 1) = (1..Len(freelist)) \ {Len(freelist)}
      BY <3>1
    <3> QED BY <2>3, <3>1, <3>2
  <2>7. UNCHANGED <<freeing, waking, woken>>
    BY <2>3 DEF Take
  <2>8. TypeOK'
    <3>1. PICK k \in {"publish", "store"} : owed' = owed \cup {[id |-> id, kind |-> k]}
      BY <2>3 DEF Take
    <3>2. owed' \subseteq [id : Ids, kind : {"publish", "store", "wake", "free"}]
      BY <2>5, <3>1 DEF SlotInv, TypeOK
    <3> QED BY <2>3, <2>5, <2>6, <2>7, <3>2, TakeFacts DEF SlotInv, TypeOK
  <2>9. SlotsOK' /\ OnListOnce'
    BY <2>3, <2>6, <2>7 DEF SlotInv, SlotsOK, OnListOnce, Listed, Returning
  <2>10. /\ ~Listed(i)' /\ \A j \in DOMAIN slots : j # i => (Listed(j)' <=> Listed(j))
    BY <2>0, <2>1, <2>6 DEF Listed, SlotInv, OnListOnce
  <2>11. /\ \A u \in Tasks : pc[u] # "idle" => obj[u].id # id
         /\ \A n \in owed : n.id # id
    BY <2>2, <2>5 DEF Unclaimed
  <2>12. DOMAIN slots' = DOMAIN slots \cup {id.index}
    BY <2>1, <2>3, <2>5
  <2> QED BY <2>2, <2>3, <2>5, <2>8, <2>9, <2>10, <2>11, <2>12, TakeKeeps
<1>2. CASE freelist = <<>>
  <2> PICK i : i = Len(slots) + 1
    OBVIOUS
  <2> PICK id : id = [gen |-> 1, index |-> i]
    OBVIOUS
  <2>1. /\ Take(t, kind, id) /\ slots' = Append(slots, NewSlot) /\ UNCHANGED freelist
        /\ pc[t] = "idle" /\ Len(slots) < MaxSlots
    BY <1>2 DEF Alloc
  <2>2. id \in Ids /\ id.index = i /\ id.gen = 1 /\ i \notin DOMAIN slots
    BY <1>0, <2>1 DEF Ids, Indices
  <2>3. NewSlot \in SlotRec /\ NewSlot.gen = 1 /\ ~NewSlot.retired
    <3>1. FALSE \in BOOLEAN /\ None \in Tasks \cup {None} /\ 1 \in 0..MaxGen
      BY <1>0
    <3> QED BY <3>1 DEF NewSlot, SlotRec
  <2>4. /\ slots' \in Seq(SlotRec) /\ Len(slots') = i /\ DOMAIN slots' = DOMAIN slots \cup {i}
        /\ \A j \in DOMAIN slots : slots'[j] = slots[j]
        /\ slots'[i] = NewSlot
    <3>1. /\ slots' \in Seq(SlotRec) /\ Len(slots') = i
          /\ \A j \in 1..Len(slots) : slots'[j] = slots[j] /\ slots'[i] = NewSlot
      BY <1>0, <2>1, <2>3, AppendProperties
    <3>2. DOMAIN slots' = 1..i /\ slots'[i] = NewSlot
      BY <1>0, <2>1, <2>3, <3>1, AppendProperties, LenProperties
    <3> QED BY <1>0, <3>1, <3>2
  <2>5. UNCHANGED <<freeing, waking, woken>>
    BY <2>1 DEF Take
  <2>6. i <= MaxSlots
    BY <1>0, <2>1
  <2>7. TypeOK'
    <3>1. PICK k \in {"publish", "store"} : owed' = owed \cup {[id |-> id, kind |-> k]}
      BY <2>1 DEF Take
    <3>2. owed' \subseteq [id : Ids, kind : {"publish", "store", "wake", "free"}]
      BY <2>2, <3>1 DEF SlotInv, TypeOK
    <3>3. Len(slots') <= MaxSlots
      BY <2>4, <2>6
    <3> QED BY <2>1, <2>2, <2>4, <2>5, <3>2, <3>3, TakeFacts DEF SlotInv, TypeOK, SlotRec
  <2>8. ~Listed(i)' /\ ~Returning(i)
    BY <2>1, <2>2 DEF Listed, Returning, SlotInv, SlotsOK
  <2>9. SlotsOK'
    BY <2>1, <2>3, <2>4, <2>5 DEF SlotInv, SlotsOK
  <2>10. OnListOnce'
    BY <2>1, <2>3, <2>4, <2>5 DEF SlotInv, OnListOnce, Listed, Returning
  <2>11. /\ \A u \in Tasks : pc[u] # "idle" => obj[u].id # id
         /\ \A n \in owed : n.id # id
    BY <2>2 DEF SlotInv, IdsIssued, Issued
  <2>12. \A j \in DOMAIN slots : Listed(j)' <=> Listed(j)
    BY <2>1 DEF Listed
  <2> QED BY <2>1, <2>2, <2>3, <2>4, <2>7, <2>8, <2>9, <2>10, <2>11, <2>12, TakeKeeps
<1> QED BY <1>1, <1>2

(* Steps of a task that leave the table and the calls owed alone, and keep *)
(* its object's id and closed mark.                                        *)
LEMMA QuietKeeps ==
  ASSUME SlotInv, NEW t \in Tasks, pc[t] # "idle",
         NEW p \in {"check", "observe", "register", "recheck", "asleep", "ready", "free"},
         NEW z \in {0, 1},
         pc' = [pc EXCEPT ![t] = p] \/ pc' = pc,
         obj' = [obj EXCEPT ![t].seen = z] \/ obj' = obj,
         waking' \subseteq Tasks, woken' \subseteq Tasks,
         UNCHANGED <<slots, freelist, freeing, owed>>
  PROVE  SlotInv'
<1>1. obj[t] \in [kind : Kinds, id : Ids, closed : BOOLEAN, word : {0, 1}, seen : {0, 1}]
  BY DEF SlotInv, TypeOK, PcOK
<1>2. [obj[t] EXCEPT !.seen = z] \in [kind : Kinds, id : Ids, closed : BOOLEAN, word : {0, 1},
                                     seen : {0, 1}]
  BY <1>1
<1>3. obj' \in [Tasks -> [kind : Kinds, id : Ids, closed : BOOLEAN, word : {0, 1}, seen : {0, 1}]
                         \cup {NoObj}]
  BY <1>2 DEF SlotInv, TypeOK
<1>4. pc' \in [Tasks -> {"idle", "check", "observe", "register", "recheck", "asleep", "ready",
                        "free"}]
  BY DEF SlotInv, TypeOK
<1>5. TypeOK'
  BY <1>3, <1>4 DEF SlotInv, TypeOK
<1>6. \A u \in Tasks : pc'[u] = "idle" <=> pc[u] = "idle"
  BY DEF SlotInv, TypeOK
<1>7. [obj[t] EXCEPT !.seen = z].kind # None
  BY <1>1, KindsAssumption DEF None
<1>8. \A u \in Tasks : obj'[u] = NoObj <=> obj[u] = NoObj
  BY <1>7 DEF SlotInv, TypeOK, PcOK, NoObj
<1>9. PcOK'
  BY <1>6, <1>8 DEF SlotInv, PcOK
<1>10. \A u \in Tasks : obj'[u] = obj[u] \/ (u = t /\ obj'[t] = [obj[t] EXCEPT !.seen = z])
  <2>1. DOMAIN obj = Tasks
    BY DEF SlotInv, TypeOK
  <2>2. CASE obj' = obj
    BY <2>2
  <2>3. CASE obj' = [obj EXCEPT ![t].seen = z]
    BY <2>1, <2>3
  <2> QED BY <2>2, <2>3
<1>11. \A u \in Tasks : obj'[u].id = obj[u].id
  BY <1>1, <1>10
<1>12. \A u \in Tasks : obj'[u].closed = obj[u].closed
  <2>1. [obj[t] EXCEPT !.seen = z].closed = obj[t].closed
    BY <1>1
  <2> QED BY <1>10, <2>1
<1>13. WritesClaimed /\ OwesKnown
  BY DEF WritesClaimed, OwesKnown
<1>14. ObjectsKept
  BY <1>6, <1>11, <1>12 DEF ObjectsKept
<1> QED BY <1>5, <1>9, <1>13, <1>14, FrameKeeps

(* A slot's record in the table. *)
LEMMA SlotAt ==
  ASSUME TypeOK
  PROVE  /\ slots \in Seq(SlotRec)
         /\ \A i \in DOMAIN slots : slots[i] \in SlotRec
<1>1. slots \in Seq(SlotRec)
  BY DEF TypeOK, SlotRec
<1> QED BY <1>1, ElementOfSeq, LenProperties

(* A step that writes one slot through an id that is still its own, other  *)
(* than its generation and its retired mark.                               *)
LEMMA SlotWritten ==
  ASSUME SlotInv, NEW id \in Ids, Live(id), ~Unclaimed(id.index),
         NEW r \in SlotRec, slots' = [slots EXCEPT ![id.index] = r],
         r.gen = slots[id.index].gen, r.retired = slots[id.index].retired,
         UNCHANGED <<freelist, freeing>>
  PROVE  /\ slots' \in Seq(SlotRec) /\ Len(slots') = Len(slots)
         /\ WritesClaimed
         /\ \A j \in DOMAIN slots : j # id.index => slots'[j] = slots[j]
         /\ slots'[id.index] = r
<1>1. slots \in Seq(SlotRec) /\ id.index \in DOMAIN slots
  BY SlotAt DEF SlotInv, Live
<1>2. /\ slots' \in Seq(SlotRec) /\ Len(slots') = Len(slots) /\ DOMAIN slots' = DOMAIN slots
      /\ slots'[id.index] = r
      /\ \A j \in DOMAIN slots : j # id.index => slots'[j] = slots[j]
  BY <1>1, WriteSlot
<1> QED BY <1>2 DEF WritesClaimed

(* An id in use or still owed a call claims its slot while it is live. *)
LEMMA Claims ==
  ASSUME SlotInv
  PROVE  /\ \A t \in Tasks : pc[t] # "idle" =>
              obj[t].id \in Ids /\ (Live(obj[t].id) => ~Unclaimed(obj[t].id.index))
         /\ \A n \in owed : n.id \in Ids /\ (Live(n.id) => ~Unclaimed(n.id.index))
<1>1. /\ \A t \in Tasks : pc[t] # "idle" => obj[t].id \in Ids
      /\ \A n \in owed : n.id \in Ids
  BY DEF SlotInv, TypeOK, PcOK, NoObj
<1>2. \A id \in Ids : Live(id) => CurrentId(id.index) = id
  BY DEF Live, Ids, CurrentId
<1> QED BY <1>1, <1>2 DEF Unclaimed

(* A signal that reaches its slot writes the epoch and either takes the    *)
(* waiter, to be woken, or leaves one that is not behind.                  *)
LEMMA SignalFacts ==
  ASSUME SlotInv, NEW id \in Ids, Live(id), ~Unclaimed(id.index),
         NEW q \in {0, 1}, NEW filtered \in BOOLEAN, Signal(id, q, filtered),
         UNCHANGED <<freelist, freeing>>
  PROVE  /\ slots' \in Seq(SlotRec) /\ Len(slots') = Len(slots)
         /\ WritesClaimed
         /\ \A j \in DOMAIN slots : j # id.index => slots'[j] = slots[j]
         /\ slots'[id.index].published = q
         /\ waking \subseteq waking' /\ waking' \subseteq Tasks
         /\ \/ /\ slots'[id.index].waiter = {} /\ slots'[id.index].waker = None
               /\ waking' = waking \cup ({slots[id.index].waker} \ {None})
            \/ /\ slots'[id.index].waiter = slots[id.index].waiter
               /\ slots'[id.index].waker = slots[id.index].waker
               /\ \A observed \in slots[id.index].waiter : filtered /\ ~(q > observed)
<1> DEFINE i == id.index
           s == slots[i]
           hit == \E observed \in s.waiter : ~filtered \/ q > observed
           w == IF hit THEN {} ELSE s.waiter
           k == IF hit THEN None ELSE s.waker
           r == [s EXCEPT !.published = q, !.waiter = w, !.waker = k]
<1>1. i \in DOMAIN slots /\ s \in SlotRec
  BY SlotAt DEF SlotInv, Live
<1>2. /\ slots' = [slots EXCEPT ![i] = r]
      /\ waking' = IF hit THEN waking \cup ({s.waker} \ {None}) ELSE waking
  BY <1>1 DEF Signal, SlotRec
<1>3. w \in {{}, {0}, {1}} /\ k \in Tasks \cup {None}
  BY <1>1 DEF SlotRec
<1>4. waking \subseteq waking' /\ waking' \subseteq Tasks
  BY <1>1, <1>2 DEF SlotRec, SlotInv, TypeOK
<1>5. ASSUME hit
      PROVE  w = {} /\ k = None /\ waking' = waking \cup ({s.waker} \ {None})
  BY <1>2, <1>5
<1>6. ASSUME ~hit
      PROVE  /\ w = s.waiter /\ k = s.waker
             /\ \A observed \in s.waiter : filtered /\ ~(q > observed)
  BY <1>2, <1>6
<1> HIDE DEF w, k, hit
<1>7. /\ r \in SlotRec /\ r.gen = s.gen /\ r.retired = s.retired /\ r.published = q
      /\ r.waiter = w /\ r.waker = k
  <2>1. r \in SlotRec
    BY <1>1, <1>3, SlotForms
  <2>2. r.gen = s.gen /\ r.published = q /\ r.waiter = w /\ r.waker = k
    BY <1>1 DEF SlotRec
  <2>3. r.retired = s.retired
    BY <1>1 DEF SlotRec
  <2> QED BY <2>1, <2>2, <2>3
<1> HIDE DEF r
<1>8. /\ slots' \in Seq(SlotRec) /\ Len(slots') = Len(slots)
      /\ WritesClaimed
      /\ \A j \in DOMAIN slots : j # i => slots'[j] = slots[j]
      /\ slots'[i] = r
  BY <1>2, <1>7, SlotWritten
<1> QED BY <1>4, <1>5, <1>6, <1>7, <1>8

(* Register and deregister write the waiter and the waker of one slot. *)
LEMMA WaiterWritten ==
  ASSUME SlotInv, NEW t \in Tasks, pc[t] # "idle", Live(obj[t].id),
         NEW w \in {{}, {0}, {1}}, NEW k \in Tasks \cup {None},
         slots' = [slots EXCEPT ![obj[t].id.index].waiter = w, ![obj[t].id.index].waker = k],
         UNCHANGED <<freelist, freeing>>
  PROVE  /\ slots' \in Seq(SlotRec) /\ Len(slots') = Len(slots)
         /\ WritesClaimed
         /\ \A j \in DOMAIN slots : j # obj[t].id.index => slots'[j] = slots[j]
         /\ slots'[obj[t].id.index].waiter = w /\ slots'[obj[t].id.index].waker = k
         /\ slots'[obj[t].id.index].published = slots[obj[t].id.index].published
<1>0. PICK id \in Ids : id = obj[t].id
  BY Claims
<1> DEFINE i == id.index
           s == slots[i]
           r == [s EXCEPT !.waiter = w, !.waker = k]
<1>1. i \in DOMAIN slots /\ s \in SlotRec /\ Live(id) /\ ~Unclaimed(i)
  BY <1>0, SlotAt, Claims DEF SlotInv, Live
<1>2. slots' = [slots EXCEPT ![i] = r]
  BY <1>0, <1>1
<1>3. r \in SlotRec
  BY <1>1, SlotForms
<1>4. r.gen = s.gen /\ r.published = s.published /\ r.waiter = w /\ r.waker = k
  BY <1>1 DEF SlotRec
<1>5. r.retired = s.retired
  BY <1>1 DEF SlotRec
<1> HIDE DEF r
<1>6. /\ slots' \in Seq(SlotRec) /\ Len(slots') = Len(slots)
      /\ WritesClaimed
      /\ \A j \in DOMAIN slots : j # i => slots'[j] = slots[j]
      /\ slots'[i] = r
  BY <1>1, <1>2, <1>3, <1>4, <1>5, SlotWritten
<1> QED BY <1>0, <1>4, <1>6

(* A step of one task, or of none, in which objects stay and slots in use  *)
(* are written.                                                            *)
LEMMA WriteKeeps ==
  ASSUME SlotInv, slots' \in Seq(SlotRec), Len(slots') = Len(slots), WritesClaimed, OwesKnown,
         owed' \subseteq owed, waking' \subseteq Tasks, woken' \subseteq Tasks,
         UNCHANGED obj,
         NEW p \in {"check", "observe", "register", "recheck", "asleep", "ready", "free"},
         pc' = pc \/ \E t \in Tasks : pc[t] # "idle" /\ pc' = [pc EXCEPT ![t] = p]
  PROVE  SlotInv'
<1>1. /\ pc' \in [Tasks -> {"idle", "check", "observe", "register", "recheck", "asleep", "ready",
                           "free"}]
      /\ \A t \in Tasks : pc'[t] = "idle" <=> pc[t] = "idle"
  BY DEF SlotInv, TypeOK
<1>2. TypeOK'
  BY <1>1 DEF SlotInv, TypeOK, SlotRec, WritesClaimed
<1>3. PcOK' /\ ObjectsKept
  BY <1>1 DEF SlotInv, PcOK, ObjectsKept
<1> QED BY <1>2, <1>3, FrameKeeps

(* Deregistering leaves a slot that is not the id's alone. *)
LEMMA DeregisterWrites ==
  ASSUME SlotInv, NEW t \in Tasks, pc[t] # "idle", Deregister(obj[t].id),
         UNCHANGED <<freelist, freeing>>
  PROVE  slots' \in Seq(SlotRec) /\ Len(slots') = Len(slots) /\ WritesClaimed
<1>1. CASE Live(obj[t].id)
  <2>1. slots' = [slots EXCEPT ![obj[t].id.index].waiter = {}, ![obj[t].id.index].waker = None]
    BY <1>1 DEF Deregister
  <2> QED BY <1>1, <2>1, WaiterWritten
<1>2. CASE ~Live(obj[t].id)
  BY <1>2, SlotAt DEF Deregister, SlotInv, WritesClaimed
<1> QED BY <1>1, <1>2

(* What a task does to its own object keeps the slots in order. *)
LEMMA TaskKeepsSlots ==
  ASSUME SlotInv, NEW t \in Tasks,
         Check(t) \/ Observe(t) \/ Register(t) \/ Recheck(t) \/ Poll(t) \/ CallWaker(t)
  PROVE  SlotInv'
<1>0. waking \subseteq Tasks /\ woken \subseteq Tasks /\ slots \in Seq(SlotRec)
  BY SlotAt DEF SlotInv, TypeOK
<1>1. CASE Check(t)
  <2>1. PICK p \in {"ready", "register", "observe"} : pc' = [pc EXCEPT ![t] = p]
    BY <1>1 DEF Check
  <2> QED BY <1>0, <1>1, <2>1, QuietKeeps DEF Check
<1>2. CASE Observe(t)
  <2>1. PICK z \in {0, 1} : obj' = [obj EXCEPT ![t].seen = z]
    BY <1>2 DEF Observe
  <2> QED BY <1>0, <1>2, <2>1, QuietKeeps DEF Observe
<1>3. CASE Poll(t)
  <2>1. woken' \subseteq Tasks /\ pc[t] # "idle" /\ pc' = [pc EXCEPT ![t] = "check"]
        /\ UNCHANGED <<slots, freelist, freeing, waking, obj, owed>>
    BY <1>0, <1>3 DEF Poll
  <2> QED BY <1>0, <2>1, QuietKeeps
<1>4. CASE CallWaker(t)
  <2>1. WritesClaimed /\ OwesKnown /\ UNCHANGED <<slots, freelist, freeing, obj, pc, owed>>
    BY <1>4 DEF CallWaker, WritesClaimed, OwesKnown
  <2>2. waking' \subseteq Tasks /\ woken' \subseteq Tasks
    BY <1>0, <1>4 DEF CallWaker
  <2> QED BY <1>0, <2>1, <2>2, WriteKeeps
<1>5. CASE Register(t)
  <2>1. pc[t] # "idle" /\ UNCHANGED <<freelist, freeing, waking, obj, owed>>
    BY <1>5 DEF Register
  <2>2. CASE Live(obj[t].id)
    <3>1. /\ slots' = [slots EXCEPT ![obj[t].id.index].waiter = {obj[t].seen},
                                    ![obj[t].id.index].waker = t]
          /\ pc' = [pc EXCEPT ![t] = "recheck"] /\ UNCHANGED woken
      BY <1>5, <2>2 DEF Register
    <3>2. {obj[t].seen} \in {{}, {0}, {1}} /\ t \in Tasks \cup {None}
      BY <2>1 DEF SlotInv, TypeOK, PcOK
    <3>3. slots' \in Seq(SlotRec) /\ Len(slots') = Len(slots) /\ WritesClaimed
      BY <2>1, <2>2, <3>1, <3>2, WaiterWritten
    <3>4. OwesKnown
      BY <2>1 DEF OwesKnown
    <3> QED BY <1>0, <2>1, <3>1, <3>3, <3>4, WriteKeeps
  <2>3. CASE ~Live(obj[t].id)
    <3>1. woken' \subseteq Tasks /\ pc' = [pc EXCEPT ![t] = "asleep"] /\ UNCHANGED slots
      BY <1>0, <1>5, <2>3 DEF Register
    <3> QED BY <1>0, <2>1, <3>1, QuietKeeps
  <2> QED BY <2>2, <2>3
<1>6. CASE Recheck(t)
  <2>1. pc[t] # "idle" /\ UNCHANGED <<freelist, freeing, waking, obj, woken, owed>>
    BY <1>6 DEF Recheck
  <2>2. CASE Ready(t)
    <3>1. Deregister(obj[t].id) /\ pc' = [pc EXCEPT ![t] = "ready"]
      BY <1>6, <2>2 DEF Recheck
    <3>2. slots' \in Seq(SlotRec) /\ Len(slots') = Len(slots) /\ WritesClaimed
      BY <2>1, <3>1, DeregisterWrites
    <3>3. OwesKnown
      BY <2>1 DEF OwesKnown
    <3> QED BY <1>0, <2>1, <3>1, <3>2, <3>3, WriteKeeps
  <2>3. CASE ~Ready(t)
    <3>1. pc' = [pc EXCEPT ![t] = "asleep"] /\ UNCHANGED slots
      BY <1>6, <2>3 DEF Recheck
    <3> QED BY <1>0, <2>1, <3>1, QuietKeeps
  <2> QED BY <2>2, <2>3
<1> QED BY <1>1, <1>2, <1>3, <1>4, <1>5, <1>6

(* Dropping an object that was closed leaves the slot to the close. *)
LEMMA DropKeepsSlots ==
  ASSUME SlotInv, NEW t \in Tasks, DropObj(t)
  PROVE  SlotInv'
<1>0. /\ waking \subseteq Tasks /\ woken \subseteq Tasks /\ slots \in Seq(SlotRec)
      /\ pc[t] # "idle" /\ UNCHANGED <<freelist, freeing, waking, woken, owed>>
  BY SlotAt DEF SlotInv, TypeOK, DropObj
<1>1. OwesKnown
  BY <1>0 DEF OwesKnown
<1>2. CASE obj[t].kind = "completion" /\ obj[t].closed
  <2>1. /\ obj' = [obj EXCEPT ![t] = NoObj] /\ pc' = [pc EXCEPT ![t] = "idle"]
        /\ UNCHANGED slots
    BY <1>2 DEF DropObj
  <2>2. TypeOK' /\ PcOK'
    BY <1>0, <2>1 DEF SlotInv, TypeOK, PcOK
  <2>3. WritesClaimed
    BY <1>0, <2>1 DEF WritesClaimed
  <2>4. Live(obj[t].id) => [id |-> obj[t].id, kind |-> "free"] \in owed
    BY <1>0, <1>2 DEF SlotInv, ClosedIsFreed, FreeOwed
  <2>5. \A u \in Tasks \ {t} : obj'[u] = obj[u] /\ pc'[u] = pc[u]
    BY <2>1 DEF SlotInv, TypeOK
  <2>6. pc'[t] = "idle"
    BY <2>1 DEF SlotInv, TypeOK
  <2>7. ObjectsKept
    BY <1>0, <2>4, <2>5, <2>6 DEF ObjectsKept
  <2> QED BY <1>1, <2>2, <2>3, <2>7, FrameKeeps
<1>3. CASE ~(obj[t].kind = "completion" /\ obj[t].closed)
  <2>1. /\ IF obj[t].kind = "channel" THEN Deregister(obj[t].id) ELSE UNCHANGED slots
        /\ pc' = [pc EXCEPT ![t] = "free"] /\ UNCHANGED obj
    BY <1>3 DEF DropObj
  <2>2. slots' \in Seq(SlotRec) /\ Len(slots') = Len(slots) /\ WritesClaimed
    <3>1. CASE obj[t].kind = "channel"
      BY <1>0, <2>1, <3>1, DeregisterWrites
    <3>2. CASE obj[t].kind # "channel"
      BY <1>0, <2>1, <3>2 DEF WritesClaimed
    <3> QED BY <3>1, <3>2
  <2> QED BY <1>0, <1>1, <2>1, <2>2, WriteKeeps
<1> QED BY <1>2, <1>3

(* Both frees: the drop's, and the close's. *)
LEMMA FreesKeepSlots ==
  ASSUME SlotInv
  PROVE  /\ \A t \in Tasks : DropFrees(t) => SlotInv'
         /\ \A n \in owed : CloseFrees(n) => SlotInv'
<1>1. ASSUME NEW t \in Tasks, DropFrees(t) PROVE SlotInv'
  <2>0. /\ pc[t] # "idle" /\ UNCHANGED <<freelist, waking, woken, owed>>
        /\ obj' = [obj EXCEPT ![t] = NoObj] /\ pc' = [pc EXCEPT ![t] = "idle"]
    BY <1>1 DEF DropFrees
  <2>1. PICK id \in Ids : id = obj[t].id
    BY <2>0, Claims
  <2>2. FreeLocked(id)
    BY <1>1, <2>1 DEF DropFrees
  <2>3. /\ \A u \in Tasks \ {t} : obj'[u] = obj[u] /\ pc'[u] = pc[u]
        /\ pc'[t] = "idle" /\ PcOK'
        /\ obj' \in [Tasks -> [kind : Kinds, id : Ids, closed : BOOLEAN, word : {0, 1},
                               seen : {0, 1}] \cup {NoObj}]
        /\ pc' \in [Tasks -> {"idle", "check", "observe", "register", "recheck", "asleep",
                              "ready", "free"}]
    BY <2>0 DEF SlotInv, TypeOK, PcOK
  <2>4. CASE Live(id)
    <3>1. TypeOK'
      <4>1. slots' \in Seq(SlotRec) /\ Len(slots') = Len(slots)
        BY <2>2, <2>4, FreeFacts DEF SlotInv
      <4>2. freeing' \subseteq [index : Indices, waker : Tasks \cup {None}, recycle : BOOLEAN]
        BY <2>2, <2>4, FreeFacts DEF SlotInv, TypeOK
      <4> QED BY <2>0, <2>3, <4>1, <4>2 DEF SlotInv, TypeOK, SlotRec
    <3>2. ~Unclaimed(id.index)
      BY <2>0, <2>1, <2>4, Claims
    <3>3. GivesUp(id)
      BY <2>0, <2>1, <2>3 DEF GivesUp
    <3> QED BY <2>0, <2>2, <2>3, <2>4, <3>1, <3>2, <3>3, FreeKeeps
  <2>5. CASE ~Live(id)
    <3>1. UNCHANGED <<slots, freeing>>
      BY <2>2, <2>5 DEF FreeLocked
    <3>2. TypeOK'
      BY <2>0, <2>3, <3>1 DEF SlotInv, TypeOK
    <3>3. WritesClaimed /\ OwesKnown
      BY <2>0, <3>1 DEF WritesClaimed, OwesKnown
    <3>4. ObjectsKept
      BY <2>1, <2>3, <2>5 DEF ObjectsKept
    <3> QED BY <2>3, <3>2, <3>3, <3>4, FrameKeeps
  <2> QED BY <2>4, <2>5
<1>2. ASSUME NEW n \in owed, CloseFrees(n) PROVE SlotInv'
  <2>0. n.kind = "free" /\ owed' = owed \ {n} /\ UNCHANGED <<freelist, waking, obj, pc, woken>>
    BY <1>2 DEF CloseFrees
  <2>1. PICK id \in Ids : id = n.id
    BY Claims
  <2>2. FreeLocked(id)
    BY <1>2, <2>1 DEF CloseFrees
  <2>3. PcOK'
    BY <2>0 DEF SlotInv, PcOK
  <2>4. CASE Live(id)
    <3>1. TypeOK'
      <4>1. slots' \in Seq(SlotRec) /\ Len(slots') = Len(slots)
        BY <2>2, <2>4, FreeFacts DEF SlotInv
      <4>2. freeing' \subseteq [index : Indices, waker : Tasks \cup {None}, recycle : BOOLEAN]
        BY <2>2, <2>4, FreeFacts DEF SlotInv, TypeOK
      <4>3. owed' \subseteq owed
        BY <2>0
      <4> QED BY <2>0, <4>1, <4>2, <4>3 DEF SlotInv, TypeOK, SlotRec
    <3>2. ~Unclaimed(id.index)
      BY <2>1, <2>4, Claims
    <3>3. GivesUp(id)
      BY <2>0, <2>1 DEF GivesUp
    <3> QED BY <2>0, <2>2, <2>3, <2>4, <3>1, <3>2, <3>3, FreeKeeps
  <2>5. CASE ~Live(id)
    <3>1. UNCHANGED <<slots, freeing>>
      BY <2>2, <2>5 DEF FreeLocked
    <3>2. TypeOK'
      BY <2>0, <3>1 DEF SlotInv, TypeOK
    <3>3. WritesClaimed /\ OwesKnown /\ ObjectsKept
      BY <2>0, <2>1, <2>5, <3>1 DEF WritesClaimed, OwesKnown, ObjectsKept
    <3> QED BY <2>3, <3>2, <3>3, FrameKeeps
  <2> QED BY <2>4, <2>5
<1> QED BY <1>1, <1>2

(* The engine's calls. *)
LEMMA EngineKeepsSlots ==
  ASSUME SlotInv, NEW n \in owed, Publish(n) \/ StoreWord(n) \/ WakeSlot(n)
  PROVE  SlotInv'
<1>0. /\ waking \subseteq Tasks /\ woken \subseteq Tasks /\ slots \in Seq(SlotRec)
      /\ n.id \in Ids /\ (Live(n.id) => ~Unclaimed(n.id.index))
  BY SlotAt, Claims DEF SlotInv, TypeOK
<1>1. ASSUME NEW q \in {0, 1}, NEW filtered \in BOOLEAN, Signal(n.id, q, filtered),
             n.kind # "free", owed' = owed \ {n}, UNCHANGED <<freelist, freeing, obj, pc, woken>>
      PROVE  SlotInv'
  <2>1. OwesKnown
    BY <1>1 DEF OwesKnown
  <2>2. CASE Live(n.id)
    <3>1. /\ slots' \in Seq(SlotRec) /\ Len(slots') = Len(slots) /\ WritesClaimed
          /\ waking' \subseteq Tasks
      BY <1>0, <1>1, <2>2, SignalFacts
    <3> QED BY <1>0, <1>1, <2>1, <3>1, WriteKeeps
  <2>3. CASE ~Live(n.id)
    <3>1. UNCHANGED <<slots, waking>>
      BY <1>1, <2>3 DEF Signal
    <3>2. WritesClaimed
      BY <1>1, <3>1 DEF WritesClaimed
    <3> QED BY <1>0, <1>1, <2>1, <3>1, <3>2, WriteKeeps
  <2> QED BY <2>2, <2>3
<1>2. CASE Publish(n)
  <2>1. Signal(n.id, 1, TRUE) /\ n.kind # "free" /\ owed' = owed \ {n}
        /\ UNCHANGED <<freelist, freeing, obj, pc, woken>>
    BY <1>2 DEF Publish
  <2> QED BY <1>1, <2>1
<1>3. CASE WakeSlot(n)
  <2>1. PICK q \in {0, 1} : q = IF Live(n.id) THEN slots[n.id.index].published ELSE 0
    <3>1. Live(n.id) => slots[n.id.index] \in SlotRec
      BY SlotAt DEF SlotInv, Live
    <3> QED BY <3>1 DEF SlotRec
  <2>2. Signal(n.id, q, FALSE) /\ n.kind # "free" /\ owed' = owed \ {n}
        /\ UNCHANGED <<freelist, freeing, obj, pc, woken>>
    BY <1>3, <2>1 DEF WakeSlot
  <2> QED BY <1>1, <2>2
<1>4. CASE StoreWord(n)
  <2>1. /\ n.kind = "store" /\ UNCHANGED <<slots, freelist, freeing, waking, pc, woken>>
        /\ owed' = (owed \ {n}) \cup {[n EXCEPT !.kind = "wake"]}
        /\ obj' = [t \in Tasks |-> IF obj[t].kind = "channel" /\ obj[t].id = n.id
                                   THEN [obj[t] EXCEPT !.word = 1] ELSE obj[t]]
    BY <1>4 DEF StoreWord
  <2>2. n \in [id : Ids, kind : {"publish", "store", "wake", "free"}]
    BY DEF SlotInv, TypeOK
  <2>3. /\ [n EXCEPT !.kind = "wake"] \in [id : Ids, kind : {"publish", "store", "wake", "free"}]
        /\ [n EXCEPT !.kind = "wake"].id = n.id
    BY <2>2
  <2>4. OwesKnown
    BY <2>1, <2>3 DEF OwesKnown
  <2>5. ASSUME NEW t \in Tasks
        PROVE  /\ obj'[t] \in [kind : Kinds, id : Ids, closed : BOOLEAN, word : {0, 1},
                                seen : {0, 1}] \cup {NoObj}
               /\ obj'[t] = NoObj <=> obj[t] = NoObj
               /\ obj[t] # NoObj => obj'[t].id = obj[t].id /\ obj'[t].closed = obj[t].closed
    <3>1. CASE obj[t].kind = "channel" /\ obj[t].id = n.id
      <4>1. obj[t] \in [kind : Kinds, id : Ids, closed : BOOLEAN, word : {0, 1}, seen : {0, 1}]
        BY <3>1 DEF SlotInv, TypeOK, NoObj, None
      <4>2. /\ [obj[t] EXCEPT !.word = 1] \in [kind : Kinds, id : Ids, closed : BOOLEAN,
                                               word : {0, 1}, seen : {0, 1}]
            /\ [obj[t] EXCEPT !.word = 1].id = obj[t].id
            /\ [obj[t] EXCEPT !.word = 1].kind = "channel"
        BY <3>1, <4>1
      <4>3. [obj[t] EXCEPT !.word = 1].closed = obj[t].closed
        BY <4>1
      <4>4. obj'[t] = [obj[t] EXCEPT !.word = 1]
        BY <2>1, <3>1
      <4>5. obj'[t] # NoObj /\ obj[t] # NoObj
        BY <3>1, <4>2, <4>4 DEF NoObj, None
      <4> QED BY <4>2, <4>3, <4>4, <4>5
    <3>2. CASE ~(obj[t].kind = "channel" /\ obj[t].id = n.id)
      BY <2>1, <3>2 DEF SlotInv, TypeOK
    <3> QED BY <3>1, <3>2
  <2>6. TypeOK'
    <3>1. owed' \subseteq [id : Ids, kind : {"publish", "store", "wake", "free"}]
      BY <2>1, <2>3 DEF SlotInv, TypeOK
    <3>2. obj' \in [Tasks -> [kind : Kinds, id : Ids, closed : BOOLEAN, word : {0, 1},
                              seen : {0, 1}] \cup {NoObj}]
      BY <2>1, <2>5
    <3> QED BY <2>1, <3>1, <3>2 DEF SlotInv, TypeOK
  <2>7. PcOK'
    BY <2>1, <2>5 DEF SlotInv, PcOK
  <2>8. WritesClaimed
    BY <2>1 DEF WritesClaimed
  <2>9. ObjectsKept
    BY <2>1, <2>5 DEF ObjectsKept, SlotInv, PcOK
  <2> QED BY <2>4, <2>6, <2>7, <2>8, <2>9, FrameKeeps
<1> QED BY <1>2, <1>3, <1>4

(* Marking an object closed owes the free of its id. *)
LEMMA CloseKeepsSlots ==
  ASSUME SlotInv, NEW t \in Tasks, Close(t)
  PROVE  SlotInv'
<1>1. /\ obj[t].kind = "completion"
      /\ obj' = [obj EXCEPT ![t].closed = TRUE]
      /\ owed' = owed \cup {[id |-> obj[t].id, kind |-> "free"]}
      /\ UNCHANGED <<slots, freelist, freeing, waking, pc, woken>>
  BY DEF Close
<1>2. /\ obj[t] \in [kind : Kinds, id : Ids, closed : BOOLEAN, word : {0, 1}, seen : {0, 1}]
      /\ obj[t] # NoObj /\ pc[t] # "idle"
  BY <1>1 DEF SlotInv, TypeOK, PcOK, NoObj, None
<1>3. TRUE \in BOOLEAN
  OBVIOUS
<1>4. PICK o : o = [obj[t] EXCEPT !.closed = TRUE]
  OBVIOUS
<1>5. o \in [kind : Kinds, id : Ids, closed : BOOLEAN, word : {0, 1}, seen : {0, 1}]
  BY <1>2, <1>3, <1>4
<1>6. o.id = obj[t].id /\ o # NoObj
  BY <1>1, <1>2, <1>4 DEF NoObj, None
<1>7. obj' = [obj EXCEPT ![t] = o]
  BY <1>1, <1>4
<1>8. /\ obj' \in [Tasks -> [kind : Kinds, id : Ids, closed : BOOLEAN, word : {0, 1},
                             seen : {0, 1}] \cup {NoObj}]
      /\ obj'[t] = o /\ \A u \in Tasks \ {t} : obj'[u] = obj[u]
  BY <1>5, <1>7 DEF SlotInv, TypeOK
<1>9. owed' \subseteq [id : Ids, kind : {"publish", "store", "wake", "free"}]
  BY <1>1, <1>2 DEF SlotInv, TypeOK
<1>10. TypeOK'
  BY <1>1, <1>8, <1>9 DEF SlotInv, TypeOK
<1>11. PcOK'
  BY <1>1, <1>2, <1>6, <1>8 DEF SlotInv, PcOK
<1>12. WritesClaimed /\ OwesKnown
  BY <1>1, <1>2 DEF WritesClaimed, OwesKnown
<1>13. ObjectsKept
  BY <1>1, <1>2, <1>6, <1>8 DEF ObjectsKept
<1> QED BY <1>10, <1>11, <1>12, <1>13, FrameKeeps

(* Every step keeps the slots in order. *)
LEMMA NextKeepsSlots ==
  ASSUME SlotInv, Next
  PROVE  SlotInv'
BY AllocKeeps, TaskKeepsSlots, DropKeepsSlots, FreesKeepSlots, CloseKeepsSlots, RecycleKeeps,
   EngineKeepsSlots DEF Next

(* The table starts empty. *)
LEMMA InitSlots == Init => SlotInv
<1> SUFFICES ASSUME Init PROVE SlotInv
  OBVIOUS
<1>1. TypeOK
  BY BoundsAssumption, EmptySeq DEF Init, TypeOK
<1>2. DOMAIN slots = {} /\ DOMAIN freelist = {}
  BY DEF Init
<1> QED BY <1>1, <1>2 DEF Init, SlotInv, PcOK, SlotsOK, IdsIssued, OnListOnce, SparesUnclaimed,
                         OneHolder, NoneLost, ClosedIsFreed

(* A stuttering step. *)
LEMMA StutterKeepsSlots == SlotInv /\ UNCHANGED vars => SlotInv'
<1> SUFFICES ASSUME SlotInv, UNCHANGED vars PROVE SlotInv'
  OBVIOUS
<1>1. WritesClaimed /\ OwesKnown /\ ObjectsKept
  BY DEF vars, WritesClaimed, OwesKnown, ObjectsKept
<1>2. TypeOK' /\ PcOK'
  BY DEF vars, SlotInv, TypeOK, PcOK
<1> QED BY <1>1, <1>2, FrameKeeps

(* The inductive invariant of the table alone: where every slot is. *)
THEOREM SlotInvInductive == Spec => []SlotInv
<1>1. SlotInv /\ [Next]_vars => SlotInv'
  BY NextKeepsSlots, StutterKeepsSlots
<1> QED BY <1>1, InitSlots, PTL DEF Spec

(* Every slot, id and record stays within its type and bounds. *)
THEOREM TypeCorrect == Spec => []TypeOK
BY SlotInvInductive, PTL DEF SlotInv

(* How many a set of at most one holds. *)
LEMMA AtMostOne ==
  ASSUME NEW S, S = {} \/ \E x : S = {x}
  PROVE  Cardinality(S) \in {0, 1} /\ (Cardinality(S) = 0 <=> S = {})
<1>1. CASE S = {}
  BY <1>1, FS_EmptySet
<1>2. CASE \E x : S = {x}
  <2>1. PICK x : S = {x}
    BY <1>2
  <2>2. Cardinality({x}) = 1
    BY FS_Singleton
  <2> QED BY <2>1, <2>2
<1> QED BY <1>1, <1>2

(* A slot is on the free list, on its way there, held by exactly one live  *)
(* wait object, left to a close, or retired, and never two of these.       *)
LEMMA InvConserves == SlotInv => SlotsConserved
<1> SUFFICES ASSUME SlotInv, NEW i \in DOMAIN slots
             PROVE  LET id == CurrentId(i)
                        listed == {k \in DOMAIN freelist : freelist[k] = i}
                        returning == {f \in freeing : f.index = i /\ f.recycle}
                        holders == {t \in Tasks : Holds(t, id)}
                        closing == IF [id |-> id, kind |-> "free"] \in owed /\ holders = {}
                                   THEN {i} ELSE {}
                    IN  Cardinality(listed) + Cardinality(returning) + Cardinality(holders)
                          + Cardinality(closing) + (IF slots[i].retired THEN 1 ELSE 0) = 1
  BY DEF SlotsConserved
<1> DEFINE id == CurrentId(i)
           listed == {k \in DOMAIN freelist : freelist[k] = i}
           returning == {f \in freeing : f.index = i /\ f.recycle}
           holders == {t \in Tasks : Holds(t, id)}
           closing == IF [id |-> id, kind |-> "free"] \in owed /\ holders = {} THEN {i} ELSE {}
<1>1. listed = {} \/ \E x : listed = {x}
  <2> SUFFICES ASSUME NEW x \in listed PROVE listed = {x}
    OBVIOUS
  <2> QED BY DEF SlotInv, OnListOnce
<1>2. returning = {} \/ \E x : returning = {x}
  <2> SUFFICES ASSUME NEW x \in returning PROVE returning = {x}
    OBVIOUS
  <2> QED BY DEF SlotInv, OnListOnce
<1>3. holders # {} => ~slots[i].retired
  BY DEF SlotInv, SparesUnclaimed, Unclaimed, Holds, PcOK
<1>4. holders = {} \/ \E x : holders = {x}
  <2> SUFFICES ASSUME NEW x \in holders PROVE holders = {x}
    OBVIOUS
  <2>1. /\ obj[x] # NoObj /\ obj[x].id = id /\ pc[x] # "idle"
    BY DEF Holds, SlotInv, PcOK
  <2>2. Live(obj[x].id)
    BY <1>3, <2>1 DEF Live, CurrentId
  <2>3. ASSUME NEW y \in holders PROVE y = x
    <3>1. y \in Tasks /\ obj[y].id = id /\ pc[y] # "idle"
      BY <2>3 DEF Holds, SlotInv, PcOK
    <3> QED BY <2>1, <2>2, <3>1 DEF SlotInv, OneHolder
  <2> QED BY <2>3
<1>5. (listed # {} <=> Listed(i)) /\ (returning # {} <=> Returning(i))
  BY DEF Listed, Returning
<1>6. holders # {} <=> \E t \in Tasks : pc[t] # "idle" /\ obj[t].id = CurrentId(i)
  BY DEF Holds, SlotInv, PcOK
<1>7. Unclaimed(i) => holders = {} /\ closing = {}
  <2>1. Unclaimed(i) => holders = {}
    BY <1>6 DEF Unclaimed
  <2>2. Unclaimed(i) => [id |-> id, kind |-> "free"] \notin owed
    BY DEF Unclaimed
  <2> QED BY <2>1, <2>2
<1>8. closing = {} \/ (closing = {i} /\ holders = {})
  OBVIOUS
<1>9. holders # {} \/ closing # {} \/ listed # {} \/ returning # {} \/ slots[i].retired
  BY <1>5, <1>6 DEF SlotInv, NoneLost, FreeOwed
<1>10. listed # {} \/ returning # {} \/ slots[i].retired => holders = {} /\ closing = {}
  BY <1>5, <1>7 DEF SlotInv, SparesUnclaimed
<1>11. /\ listed = {} \/ returning = {}
       /\ slots[i].retired => listed = {} /\ returning = {}
  BY <1>5 DEF SlotInv, OnListOnce
<1>12. closing = {} \/ \E x : closing = {x}
  BY <1>8
<1>13. PICK e \in {0, 1} : e = (IF slots[i].retired THEN 1 ELSE 0) /\ (e = 1 <=> slots[i].retired)
  OBVIOUS
<1> HIDE DEF id, listed, returning, holders, closing
<1>14. /\ Cardinality(listed) \in {0, 1} /\ (Cardinality(listed) = 0 <=> listed = {})
       /\ Cardinality(returning) \in {0, 1} /\ (Cardinality(returning) = 0 <=> returning = {})
       /\ Cardinality(holders) \in {0, 1} /\ (Cardinality(holders) = 0 <=> holders = {})
       /\ Cardinality(closing) \in {0, 1} /\ (Cardinality(closing) = 0 <=> closing = {})
  BY <1>1, <1>2, <1>4, <1>12, AtMostOne
<1>15. Cardinality(listed) + Cardinality(returning) + Cardinality(holders)
         + Cardinality(closing) + e = 1
  BY <1>8, <1>9, <1>10, <1>11, <1>13, <1>14
<1>16. Cardinality(listed) + Cardinality(returning) + Cardinality(holders)
         + Cardinality(closing) + (IF slots[i].retired THEN 1 ELSE 0) = 1
  BY <1>13, <1>15
<1> QED BY <1>16 DEF id, listed, returning, holders, closing

(* No slot is freed twice, lost, reused while it is held, or reused after  *)
(* it was retired, however many tasks, slots and generations there are.    *)
THEOREM SlotsAreConserved == Spec => []SlotsConserved
BY SlotInvInductive, InvConserves, PTL

(* A slot that alloc reuses holds nothing of its last holder. *)
THEOREM ReuseIsClean == Spec => []ReusedSlotIsClean
<1>1. SlotInv => ReusedSlotIsClean
  <2> SUFFICES ASSUME SlotInv, NEW k \in DOMAIN freelist PROVE Clean(slots[freelist[k]])
    BY DEF ReusedSlotIsClean, Clean
  <2>1. freelist[k] \in DOMAIN slots /\ Listed(freelist[k])
    BY DEF SlotInv, SlotsOK, Listed
  <2> QED BY <2>1 DEF SlotInv, SparesUnclaimed
<1> QED BY <1>1, SlotInvInductive, PTL

-----------------------------------------------------------------------------
(* A step that publishes and registers through present ids only leaves no  *)
(* trace of an old id.                                                     *)
LEMMA StaleFrame ==
  ASSUME SlotInv, StaleIdsReachNothing, WritesClaimed, ObjectsKept, OwesKnown, PcOK',
         \A n \in owed' : n.kind = "publish" => n \in owed,
         \A i \in DOMAIN slots : slots'[i].published = 1 =>
            slots[i].published = 1 \/ [id |-> CurrentId(i), kind |-> "publish"] \notin owed',
         \A i \in DOMAIN slots : \A t \in Tasks : slots'[i].waker = t =>
            slots[i].waker = t \/ (pc'[t] # "idle" /\ obj[t].id = CurrentId(i))
  PROVE  StaleIdsReachNothing'
<1> SUFFICES ASSUME NEW i \in DOMAIN slots
             PROVE  /\ slots'[i].published = 1 =>
                         [id |-> CurrentId(i), kind |-> "publish"] \notin owed'
                    /\ \A t \in Tasks : slots'[i].waker = t =>
                         \/ obj'[t] # NoObj /\ obj'[t].id = CurrentId(i)
                         \/ [id |-> CurrentId(i), kind |-> "free"] \in owed'
  <2>1. \A i \in DOMAIN slots : CurrentId(i)' = CurrentId(i)
    BY DEF WritesClaimed, CurrentId
  <2>2. DOMAIN slots' = DOMAIN slots
    BY DEF WritesClaimed
  <2> QED BY <2>1, <2>2 DEF StaleIdsReachNothing, Holds
<1>1. slots'[i].published = 1 => [id |-> CurrentId(i), kind |-> "publish"] \notin owed'
  <2>1. slots[i].published = 1 => [id |-> CurrentId(i), kind |-> "publish"] \notin owed
    BY DEF StaleIdsReachNothing
  <2> QED BY <2>1
<1>2. ASSUME NEW t \in Tasks, slots'[i].waker = t
      PROVE  \/ obj'[t] # NoObj /\ obj'[t].id = CurrentId(i)
             \/ [id |-> CurrentId(i), kind |-> "free"] \in owed'
  <2>1. CASE pc'[t] # "idle" /\ obj[t].id = CurrentId(i)
    BY <2>1 DEF ObjectsKept, PcOK
  <2>2. CASE slots[i].waker = t
    <3>1. ~slots[i].retired
      <4>1. slots[i].retired => slots[i].waker = None
        BY DEF SlotInv, SparesUnclaimed, Clean
      <4> QED BY <2>2, <4>1, TasksAssumption
    <3>2. Live(CurrentId(i))
      BY <3>1 DEF Live, CurrentId
    <3>3. \/ obj[t] # NoObj /\ obj[t].id = CurrentId(i)
          \/ [id |-> CurrentId(i), kind |-> "free"] \in owed
      BY <2>2 DEF StaleIdsReachNothing, Holds
    <3>4. CASE [id |-> CurrentId(i), kind |-> "free"] \in owed
      BY <3>2, <3>4 DEF OwesKnown
    <3>5. CASE obj[t] # NoObj /\ obj[t].id = CurrentId(i)
      <4>1. pc[t] # "idle"
        BY <3>5 DEF SlotInv, PcOK
      <4>2. CASE pc'[t] # "idle"
        BY <3>5, <4>1, <4>2 DEF ObjectsKept, PcOK
      <4>3. CASE pc'[t] = "idle"
        BY <3>2, <3>5, <4>1, <4>3 DEF ObjectsKept
      <4> QED BY <4>2, <4>3
    <3> QED BY <3>3, <3>4, <3>5
  <2> QED BY <1>2, <2>1, <2>2
<1> QED BY <1>1, <1>2

(* A step that leaves a task asleep only if it leaves it registered, or on *)
(* somebody's list of tasks to wake.                                       *)
Undisturbed(u) ==
    /\ pc'[u] \in {pc[u], "check", "observe", "register", "ready", "free"}
    /\ obj'[u].kind = obj[u].kind /\ obj'[u].id = obj[u].id /\ obj'[u].seen = obj[u].seen
    /\ obj'[u].kind = "channel" /\ obj'[u].word = 1 =>
        obj[u].word = 1 \/ [id |-> obj[u].id, kind |-> "wake"] \in owed'
    /\ Live(obj[u].id)' =>
        Live(obj[u].id) /\ slots'[obj[u].id.index].published = slots[obj[u].id.index].published
    /\ pc'[u] = pc[u] =>
        /\ Pending(u) => Pending(u)'
        /\ Registered(u) => Registered(u)' \/ Pending(u)'
        /\ [id |-> obj[u].id, kind |-> "wake"] \in owed =>
            [id |-> obj[u].id, kind |-> "wake"] \in owed' \/ Pending(u)'

(* Such a step keeps what is known of a task that waits. *)
LEMMA UndisturbedOK ==
  ASSUME NEW u \in Tasks, WakeOK(u), pc[u] # "idle", Undisturbed(u)
  PROVE  WakeOK(u)'
<1>1. ASSUME pc'[u] # "idle", obj'[u].kind = "completion", obj'[u].seen = 1, Live(obj[u].id)'
      PROVE  slots'[obj'[u].id.index].published = 1
  <2>1. Live(obj[u].id) /\ obj'[u].id = obj[u].id
        /\ slots'[obj[u].id.index].published = slots[obj[u].id.index].published
    BY <1>1 DEF Undisturbed
  <2> QED BY <1>1, <2>1 DEF Undisturbed, WakeOK
<1>2. pc'[u] \in {"recheck", "asleep"} => pc'[u] = pc[u]
  BY DEF Undisturbed
<1>3. pc'[u] \in {"recheck", "asleep"} => Pending(u)' \/ Registered(u)'
  BY <1>2 DEF Undisturbed, WakeOK
<1>4. ASSUME pc'[u] = "asleep", ~Pending(u)'
      PROVE  IF obj'[u].kind = "channel"
             THEN obj'[u].word = 1 => [id |-> obj'[u].id, kind |-> "wake"] \in owed'
             ELSE slots'[obj'[u].id.index].published = 0
  <2>1. pc[u] = "asleep" /\ ~Pending(u) /\ Registered(u)'
    BY <1>2, <1>3, <1>4 DEF Undisturbed
  <2>2. Live(obj[u].id)'
    BY <2>1 DEF Registered
  <2>3. obj'[u].kind = obj[u].kind /\ obj'[u].id = obj[u].id
        /\ slots'[obj[u].id.index].published = slots[obj[u].id.index].published
    BY <2>2 DEF Undisturbed
  <2>4. CASE obj[u].kind = "channel"
    BY <1>2, <1>4, <2>1, <2>3, <2>4 DEF Undisturbed, WakeOK
  <2>5. CASE obj[u].kind # "channel"
    BY <2>1, <2>3, <2>5 DEF WakeOK
  <2> QED BY <2>4, <2>5
<1> QED BY <1>1, <1>3, <1>4 DEF WakeOK

(* A step that is about another slot and another task. *)
Bystander(u) ==
    /\ pc'[u] = pc[u] /\ obj'[u] = obj[u]
    /\ Pending(u) => Pending(u)'
    /\ [id |-> obj[u].id, kind |-> "wake"] \in owed =>
        [id |-> obj[u].id, kind |-> "wake"] \in owed'
    /\ Live(obj[u].id)' <=> Live(obj[u].id)
    /\ Live(obj[u].id) => slots'[obj[u].id.index] = slots[obj[u].id.index]

(* Such a step keeps what is known of a task, waiting or not. *)
LEMMA BystanderOK ==
  ASSUME NEW u \in Tasks, WakeOK(u), Bystander(u)
  PROVE  WakeOK(u)'
<1>1. CASE pc[u] = "idle"
  BY <1>1 DEF Bystander, WakeOK
<1>2. CASE pc[u] # "idle"
  <2>1. Registered(u) => Registered(u)'
    BY DEF Bystander, Registered
  <2>2. Live(obj[u].id)' =>
          Live(obj[u].id) /\ slots'[obj[u].id.index].published = slots[obj[u].id.index].published
    BY DEF Bystander
  <2>3. Undisturbed(u)
    BY <2>1, <2>2 DEF Bystander, Undisturbed
  <2> QED BY <1>2, <2>3, UndisturbedOK
<1> QED BY <1>1, <1>2

(* A write through a live id is not seen through any other.                *)
LEMMA OtherSlot ==
  ASSUME SlotInv, WritesClaimed, NEW id \in Ids, Live(id),
         \A j \in DOMAIN slots : j # id.index => slots'[j] = slots[j],
         NEW u \in Tasks, pc[u] # "idle", obj[u].id # id, obj'[u] = obj[u]
  PROVE  /\ Live(obj[u].id)' <=> Live(obj[u].id)
         /\ Live(obj[u].id) => slots'[obj[u].id.index] = slots[obj[u].id.index]
<1>1. obj[u].id \in Ids
  BY Claims
<1>2. Live(obj[u].id) => obj[u].id.index # id.index
  BY <1>1 DEF Live, Ids
<1>3. Live(obj[u].id)' <=> Live(obj[u].id)
  BY DEF Live, WritesClaimed
<1> QED BY <1>2, <1>3 DEF Live

(* An unchanged table. *)
LEMMA SameSlots ==
  ASSUME UNCHANGED slots, NEW u \in Tasks, obj'[u].id = obj[u].id
  PROVE  /\ Live(obj[u].id)' <=> Live(obj[u].id)
         /\ Live(obj[u].id) => slots'[obj[u].id.index] = slots[obj[u].id.index]
BY DEF Live

(* The steps of a poll and the wake itself. *)
LEMMA PollKeepsWakes ==
  ASSUME Inv, SlotInv', NEW t \in Tasks, Check(t) \/ Observe(t) \/ Poll(t) \/ CallWaker(t)
  PROVE  StaleIdsReachNothing' /\ WakeInv'
<1>0. /\ UNCHANGED <<slots, freelist, freeing, owed>>
      /\ \A u \in Tasks \ {t} : pc'[u] = pc[u] /\ obj'[u] = obj[u]
  BY DEF Inv, SlotInv, TypeOK, Check, Observe, Poll, CallWaker
<1>1. \A u \in Tasks \ {t} : Bystander(u)
  <2> SUFFICES ASSUME NEW u \in Tasks \ {t} PROVE Bystander(u)
    OBVIOUS
  <2>1. Pending(u) => Pending(u)'
    BY <1>0 DEF Pending, Check, Observe, Poll, CallWaker
  <2> QED BY <1>0, <2>1, SameSlots DEF Bystander
<1>2. CASE CallWaker(t)
  <2>1. UNCHANGED <<obj, pc>> /\ Pending(t)'
    BY <1>2 DEF CallWaker, Pending
  <2>2. Bystander(t)
    BY <1>0, <2>1, SameSlots DEF Bystander
  <2>3. StaleIdsReachNothing'
    BY <1>0, <2>1 DEF Inv, StaleIdsReachNothing, CurrentId, Holds
  <2> QED BY <1>1, <2>2, <2>3, BystanderOK DEF Inv, WakeInv
<1>3. CASE Check(t) \/ Poll(t)
  <2>1. /\ UNCHANGED obj /\ pc[t] # "idle"
        /\ pc'[t] \in {"check", "observe", "register", "ready"} /\ pc'[t] # pc[t]
    BY <1>3 DEF Inv, SlotInv, TypeOK, Check, Poll
  <2>2. Undisturbed(t)
    BY <1>0, <2>1, SameSlots DEF Undisturbed
  <2>3. StaleIdsReachNothing'
    BY <1>0, <2>1 DEF Inv, StaleIdsReachNothing, CurrentId, Holds
  <2> QED BY <1>1, <2>1, <2>2, <2>3, BystanderOK, UndisturbedOK DEF Inv, WakeInv
<1>4. CASE Observe(t)
  <2>1. /\ pc[t] = "observe" /\ pc' = [pc EXCEPT ![t] = "register"]
        /\ obj' = [obj EXCEPT ![t].seen = IF Published(obj[t].id) = {1} THEN 1 ELSE 0]
    BY <1>4 DEF Observe
  <2>2. obj[t] \in [kind : Kinds, id : Ids, closed : BOOLEAN, word : {0, 1}, seen : {0, 1}]
        /\ obj[t] # NoObj
    BY <2>1 DEF Inv, SlotInv, PcOK, TypeOK
  <2>3. /\ pc'[t] = "register" /\ obj'[t].id = obj[t].id
        /\ obj'[t].seen = IF Published(obj[t].id) = {1} THEN 1 ELSE 0
    BY <2>1, <2>2 DEF Inv, SlotInv, TypeOK
  <2>4. Published(obj[t].id) = {1} /\ Live(obj[t].id) => slots[obj[t].id.index].published = 1
    BY DEF Published
  <2>5. WakeOK(t)'
    BY <1>0, <2>3, <2>4 DEF WakeOK, Live
  <2>6. obj'[t] # NoObj
    BY <2>3 DEF SlotInv, PcOK
  <2>7. \A u \in Tasks : \A j : Holds(u, j) => Holds(u, j)'
    BY <1>0, <2>3, <2>6 DEF Holds
  <2>8. StaleIdsReachNothing'
    <3>1. \A i : CurrentId(i)' = CurrentId(i)
      BY <1>0 DEF CurrentId
    <3> QED BY <1>0, <2>7, <3>1 DEF Inv, StaleIdsReachNothing
  <2> QED BY <1>1, <2>5, <2>8, BystanderOK DEF Inv, WakeInv
<1> QED BY <1>2, <1>3, <1>4

(* A task that writes its own slot's waiter, or nothing, and no more.      *)
WritesOwn(t) ==
    /\ UNCHANGED <<freelist, freeing, waking, obj, owed>>
    /\ woken \subseteq woken'
    /\ \/ UNCHANGED slots
       \/ /\ Live(obj[t].id)
          /\ \E w \in {{}, {0}, {1}}, k \in {t, None} :
              slots' = [slots EXCEPT ![obj[t].id.index].waiter = w, ![obj[t].id.index].waker = k]

LEMMA OwnSlot ==
  ASSUME Inv, NEW t \in Tasks, pc[t] # "idle", pc'[t] # "idle",
         \A u \in Tasks \ {t} : pc'[u] = pc[u],
         PcOK', WritesOwn(t)
  PROVE  /\ StaleIdsReachNothing'
         /\ \A u \in Tasks \ {t} : WakeOK(u)'
         /\ Live(obj[t].id)' <=> Live(obj[t].id)
         /\ Live(obj[t].id) =>
              slots'[obj[t].id.index].published = slots[obj[t].id.index].published
<1>0. UNCHANGED <<freelist, freeing, waking, obj, owed>> /\ woken \subseteq woken'
  BY DEF WritesOwn
<1>1. \A u \in Tasks : pc'[u] = "idle" <=> pc[u] = "idle"
  OBVIOUS
<1>2. ObjectsKept /\ OwesKnown
  BY <1>0, <1>1 DEF ObjectsKept, OwesKnown
<1>3. \A u \in Tasks : Pending(u) => Pending(u)'
  BY <1>0 DEF Pending
<1>4. CASE UNCHANGED slots
  <2>1. WritesClaimed
    BY <1>0, <1>4 DEF WritesClaimed
  <2>2. \A u \in Tasks \ {t} : Bystander(u)
    BY <1>0, <1>1, <1>3, <1>4, SameSlots DEF Bystander
  <2>3. \A u \in Tasks \ {t} : WakeOK(u)'
    BY <2>2, BystanderOK DEF Inv, WakeInv
  <2>4. StaleIdsReachNothing'
    BY <1>0, <1>4 DEF Inv, StaleIdsReachNothing, CurrentId, Holds
  <2>5. /\ Live(obj[t].id)' <=> Live(obj[t].id)
        /\ Live(obj[t].id) =>
             slots'[obj[t].id.index].published = slots[obj[t].id.index].published
    BY <1>0, <1>4, SameSlots
  <2> QED BY <2>3, <2>4, <2>5
<1>5. CASE /\ Live(obj[t].id)
           /\ \E w \in {{}, {0}, {1}}, k \in {t, None} :
                slots' = [slots EXCEPT ![obj[t].id.index].waiter = w, ![obj[t].id.index].waker = k]
  <2>0. Live(obj[t].id)
    BY <1>5
  <2>1. PICK id \in Ids : id = obj[t].id
    BY Claims DEF Inv
  <2>2. PICK w \in {{}, {0}, {1}}, k \in {t, None} :
          slots' = [slots EXCEPT ![obj[t].id.index].waiter = w, ![obj[t].id.index].waker = k]
    BY <1>5
  <2>3. /\ WritesClaimed
        /\ \A j \in DOMAIN slots : j # id.index => slots'[j] = slots[j]
        /\ slots'[id.index].waiter = w /\ slots'[id.index].waker = k
        /\ slots'[id.index].published = slots[id.index].published
    <3>1. k \in Tasks \cup {None} /\ SlotInv
      BY DEF Inv
    <3>2. /\ WritesClaimed
          /\ \A j \in DOMAIN slots : j # obj[t].id.index => slots'[j] = slots[j]
          /\ slots'[obj[t].id.index].waiter = w /\ slots'[obj[t].id.index].waker = k
          /\ slots'[obj[t].id.index].published = slots[obj[t].id.index].published
      BY <1>0, <2>0, <2>2, <3>1, WaiterWritten
    <3> QED BY <2>1, <3>2
  <2>4. id.index \in DOMAIN slots /\ CurrentId(id.index) = id
    BY <2>0, <2>1 DEF Live, CurrentId, Ids
  <2>5. ASSUME NEW u \in Tasks \ {t} PROVE WakeOK(u)'
    <3>1. CASE pc[u] = "idle"
      BY <1>1, <3>1 DEF WakeOK
    <3>2. CASE pc[u] # "idle"
      <4>1. obj[u].id # id
        BY <2>0, <2>1, <3>2 DEF Inv, SlotInv, OneHolder
      <4>2. /\ Live(obj[u].id)' <=> Live(obj[u].id)
            /\ Live(obj[u].id) => slots'[obj[u].id.index] = slots[obj[u].id.index]
        BY <1>0, <2>0, <2>1, <2>3, <3>2, <4>1, OtherSlot DEF Inv
      <4>3. Bystander(u)
        BY <1>0, <1>1, <1>3, <4>2 DEF Bystander
      <4> QED BY <4>3, BystanderOK DEF Inv, WakeInv
    <3> QED BY <3>1, <3>2
  <2>6. \A i \in DOMAIN slots : slots'[i].published = slots[i].published
    BY <2>3
  <2>7. \A i \in DOMAIN slots : \A u \in Tasks : slots'[i].waker = u =>
            slots[i].waker = u \/ (pc'[u] # "idle" /\ obj[u].id = CurrentId(i))
    <3> SUFFICES ASSUME NEW i \in DOMAIN slots, NEW u \in Tasks, slots'[i].waker = u,
                        slots[i].waker # u
                 PROVE  pc'[u] # "idle" /\ obj[u].id = CurrentId(i)
      OBVIOUS
    <3>1. i = id.index /\ k = u
      BY <2>3
    <3>2. u = t
      BY <3>1, TasksAssumption
    <3> QED BY <2>1, <2>4, <3>1, <3>2
  <2>8. StaleIdsReachNothing'
    BY <1>0, <1>2, <2>3, <2>6, <2>7, StaleFrame DEF Inv
  <2>9. Live(obj[t].id)' <=> Live(obj[t].id)
    BY <1>0, <2>3 DEF Live, WritesClaimed
  <2> QED BY <2>1, <2>3, <2>5, <2>8, <2>9
<1> QED BY <1>4, <1>5 DEF WritesOwn

(* Register and the second check. *)
LEMMA SleepKeepsWakes ==
  ASSUME Inv, SlotInv', NEW t \in Tasks, Register(t) \/ Recheck(t)
  PROVE  StaleIdsReachNothing' /\ WakeInv'
<1>0. /\ pc[t] # "idle" /\ PcOK' /\ WakeOK(t)
      /\ UNCHANGED <<freelist, freeing, waking, obj, owed>> /\ woken \subseteq woken'
      /\ obj[t].id \in Ids /\ obj[t].seen \in {0, 1} /\ obj[t].word \in {0, 1}
  <2>1. pc[t] # "idle"
    BY DEF Register, Recheck
  <2> QED BY <2>1 DEF Register, Recheck, Inv, SlotInv, WakeInv, TypeOK, PcOK
<1>1. \A u \in Tasks \ {t} : pc'[u] = pc[u]
  BY DEF Register, Recheck, Inv, SlotInv, TypeOK
<1>2. CASE Register(t) /\ Live(obj[t].id)
  <2>0. Live(obj[t].id)
    BY <1>2
  <2>1. /\ slots' = [slots EXCEPT ![obj[t].id.index].waiter = {obj[t].seen},
                                  ![obj[t].id.index].waker = t]
        /\ pc'[t] = "recheck"
    BY <1>2 DEF Register, Inv, SlotInv, TypeOK
  <2>2. {obj[t].seen} \in {{}, {0}, {1}} /\ t \in Tasks \cup {None} /\ SlotInv
    BY <1>0 DEF Inv
  <2>3. WritesOwn(t)
    BY <1>0, <2>0, <2>1, <2>2 DEF WritesOwn
  <2>4. /\ StaleIdsReachNothing' /\ \A u \in Tasks \ {t} : WakeOK(u)'
        /\ Live(obj[t].id)'
        /\ slots'[obj[t].id.index].published = slots[obj[t].id.index].published
    BY <1>0, <1>1, <2>0, <2>1, <2>3, OwnSlot
  <2>5. slots'[obj[t].id.index].waiter = {obj[t].seen} /\ slots'[obj[t].id.index].waker = t
    BY <1>0, <2>0, <2>1, <2>2, WaiterWritten
  <2>6. Registered(t)'
    BY <1>0, <2>4, <2>5 DEF Registered
  <2>7. WakeOK(t)'
    BY <1>0, <2>0, <2>1, <2>4, <2>6 DEF WakeOK
  <2> QED BY <2>4, <2>7 DEF WakeInv
<1>3. CASE Register(t) /\ ~Live(obj[t].id)
  <2>1. pc'[t] = "asleep" /\ UNCHANGED slots /\ t \in woken'
    BY <1>3 DEF Register, Inv, SlotInv, TypeOK
  <2>2. WritesOwn(t)
    BY <1>0, <2>1 DEF WritesOwn
  <2>3. /\ StaleIdsReachNothing' /\ \A u \in Tasks \ {t} : WakeOK(u)'
        /\ ~Live(obj[t].id)'
    BY <1>0, <1>1, <1>3, <2>1, <2>2, OwnSlot
  <2>4. Pending(t)'
    BY <2>1 DEF Pending
  <2>5. WakeOK(t)'
    BY <2>3, <2>4 DEF WakeOK
  <2> QED BY <2>3, <2>5 DEF WakeInv
<1>4. CASE Recheck(t) /\ ~Ready(t)
  <2>1. /\ pc'[t] = "asleep" /\ UNCHANGED slots /\ pc[t] = "recheck" /\ UNCHANGED woken
    BY <1>4 DEF Recheck, Inv, SlotInv, TypeOK
  <2>2. WritesOwn(t)
    BY <1>0, <2>1 DEF WritesOwn
  <2>3. /\ StaleIdsReachNothing' /\ \A u \in Tasks \ {t} : WakeOK(u)'
    BY <1>0, <1>1, <2>1, <2>2, OwnSlot
  <2>4. Pending(t)' <=> Pending(t)
    BY <1>0, <2>1 DEF Pending
  <2>5. Registered(t)' <=> Registered(t)
    BY <1>0, <2>1 DEF Registered, Live
  <2>6. IF obj[t].kind = "channel" THEN obj[t].word = 0
        ELSE Live(obj[t].id) => slots[obj[t].id.index].published = 0
    BY <1>0, <1>4 DEF Ready, Published
  <2>7. Pending(t) \/ Registered(t)
    BY <1>0, <2>1 DEF WakeOK
  <2>8. Registered(t) => Live(obj[t].id)
    BY DEF Registered
  <2>9. WakeOK(t)'
    BY <1>0, <2>1, <2>4, <2>5, <2>6, <2>7, <2>8, SameSlots DEF WakeOK
  <2> QED BY <2>3, <2>9 DEF WakeInv
<1>5. CASE Recheck(t) /\ Ready(t)
  <2>1. pc'[t] = "ready" /\ Deregister(obj[t].id) /\ pc[t] = "recheck"
    BY <1>5 DEF Recheck, Inv, SlotInv, TypeOK
  <2>2. WritesOwn(t)
    BY <1>0, <2>1 DEF Deregister, WritesOwn
  <2>3. /\ StaleIdsReachNothing' /\ \A u \in Tasks \ {t} : WakeOK(u)'
        /\ Live(obj[t].id)' <=> Live(obj[t].id)
        /\ Live(obj[t].id) =>
             slots'[obj[t].id.index].published = slots[obj[t].id.index].published
    BY <1>0, <1>1, <2>1, <2>2, OwnSlot
  <2>4. Undisturbed(t)
    <3>1. pc'[t] # pc[t] /\ pc'[t] \in {pc[t], "check", "observe", "register", "ready", "free"}
      BY <2>1
    <3> QED BY <1>0, <2>3, <3>1 DEF Undisturbed
  <2> QED BY <1>0, <2>3, <2>4, UndisturbedOK DEF WakeInv
<1> QED BY <1>2, <1>3, <1>4, <1>5

(* A drop takes no waker but its own. *)
LEMMA DropKeepsWakes ==
  ASSUME Inv, SlotInv', NEW t \in Tasks, DropObj(t)
  PROVE  StaleIdsReachNothing' /\ WakeInv'
<1>0. /\ pc[t] # "idle" /\ PcOK' /\ WakeOK(t)
      /\ UNCHANGED <<freelist, freeing, waking, woken, owed>>
  BY DEF DropObj, Inv, SlotInv, WakeInv
<1>1. \A u \in Tasks \ {t} : pc'[u] = pc[u] /\ obj'[u] = obj[u]
  BY DEF DropObj, Inv, SlotInv, TypeOK
<1>2. CASE obj[t].kind = "completion" /\ obj[t].closed
  <2>1. pc'[t] = "idle" /\ UNCHANGED slots
    BY <1>2 DEF DropObj, Inv, SlotInv, TypeOK
  <2>2. \A u \in Tasks : Pending(u) => Pending(u)'
    BY <1>0 DEF Pending
  <2>3. \A u \in Tasks \ {t} : Bystander(u)
    BY <1>0, <1>1, <2>1, <2>2, SameSlots DEF Bystander
  <2>4. WakeOK(t)'
    BY <2>1 DEF WakeOK
  <2>5. WritesClaimed /\ OwesKnown
    BY <1>0, <2>1 DEF WritesClaimed, OwesKnown
  <2>6. Live(obj[t].id) => [id |-> obj[t].id, kind |-> "free"] \in owed
    BY <1>0, <1>2 DEF Inv, SlotInv, ClosedIsFreed, FreeOwed
  <2>7. ObjectsKept
    BY <1>0, <1>1, <2>1, <2>6 DEF ObjectsKept
  <2>8. StaleIdsReachNothing'
    BY <1>0, <2>1, <2>5, <2>7, StaleFrame DEF Inv
  <2> QED BY <2>3, <2>4, <2>8, BystanderOK DEF Inv, WakeInv
<1>3. CASE ~(obj[t].kind = "completion" /\ obj[t].closed)
  <2>1. /\ pc[t] \in {"ready", "asleep"} /\ pc'[t] = "free" /\ UNCHANGED obj
        /\ IF obj[t].kind = "channel" THEN Deregister(obj[t].id) ELSE UNCHANGED slots
    BY <1>3 DEF DropObj, Inv, SlotInv, TypeOK
  <2>2. WritesOwn(t)
    BY <1>0, <2>1 DEF Deregister, WritesOwn
  <2>3. /\ StaleIdsReachNothing' /\ \A u \in Tasks \ {t} : WakeOK(u)'
        /\ Live(obj[t].id)' <=> Live(obj[t].id)
        /\ Live(obj[t].id) =>
             slots'[obj[t].id.index].published = slots[obj[t].id.index].published
    BY <1>0, <1>1, <2>1, <2>2, OwnSlot
  <2>4. Undisturbed(t)
    <3>1. pc'[t] # pc[t] /\ pc'[t] \in {pc[t], "check", "observe", "register", "ready", "free"}
      BY <2>1
    <3> QED BY <1>0, <2>1, <2>3, <3>1 DEF Undisturbed
  <2> QED BY <1>0, <2>3, <2>4, UndisturbedOK DEF WakeInv
<1> QED BY <1>2, <1>3

(* A free takes along the waker it finds, to be called after the unlock.   *)
LEMMA FreeLockedWakes ==
  ASSUME Inv, SlotInv', NEW id \in Ids, FreeLocked(id), Live(id) => GivesUp(id),
         UNCHANGED <<freelist, waking, woken>>,
         \A u \in Tasks : pc'[u] \in {pc[u], "idle"} /\ (pc'[u] # "idle" => obj'[u] = obj[u]),
         \A n \in owed : n.kind = "wake" => n \in owed',
         ~Live(id) => ObjectsKept /\ OwesKnown,
         owed' \subseteq owed
  PROVE  StaleIdsReachNothing' /\ WakeInv'
<1>1. CASE Live(id)
  <2>1. /\ id.index \in DOMAIN slots /\ DOMAIN slots' = DOMAIN slots
        /\ \A j \in DOMAIN slots : j # id.index => slots'[j] = slots[j]
        /\ Clean(slots'[id.index])
        /\ slots'[id.index].gen = IF id.gen = MaxGen THEN 0 ELSE id.gen + 1
        /\ slots'[id.index].retired <=> id.gen = MaxGen
    BY <1>1, FreeFacts DEF Inv, SlotInv
  <2>2. PICK f : freeing' = freeing \cup {f} /\ f.waker = slots[id.index].waker
    BY <1>1, FreeFacts DEF Inv, SlotInv
  <2>3. StaleIdsReachNothing'
    <3> SUFFICES ASSUME NEW i \in DOMAIN slots
                 PROVE  /\ slots'[i].published = 1 =>
                             [id |-> CurrentId(i)', kind |-> "publish"] \notin owed'
                        /\ \A t \in Tasks : slots'[i].waker = t =>
                             \/ obj'[t] # NoObj /\ obj'[t].id = CurrentId(i)'
                             \/ [id |-> CurrentId(i)', kind |-> "free"] \in owed'
      BY <2>1 DEF StaleIdsReachNothing, Holds
    <3>1. CASE i = id.index
      BY <2>1, <3>1, TasksAssumption DEF Clean
    <3>2. CASE i # id.index
      <4>1. slots'[i] = slots[i] /\ CurrentId(i)' = CurrentId(i) /\ CurrentId(i) # id
        BY <2>1, <3>2 DEF CurrentId
      <4>2. slots[i].published = 1 => [id |-> CurrentId(i), kind |-> "publish"] \notin owed
        BY DEF Inv, StaleIdsReachNothing
      <4>3. ASSUME NEW t \in Tasks, slots[i].waker = t
            PROVE  \/ obj'[t] # NoObj /\ obj'[t].id = CurrentId(i)
                   \/ [id |-> CurrentId(i), kind |-> "free"] \in owed'
        <5>1. \/ pc[t] # "idle" /\ obj[t].id = CurrentId(i)
              \/ [id |-> CurrentId(i), kind |-> "free"] \in owed
          BY <4>3 DEF Inv, StaleIdsReachNothing, Holds, SlotInv, PcOK
        <5>2. CASE pc[t] # "idle" /\ obj[t].id = CurrentId(i)
          <6>1. pc'[t] # "idle"
            BY <1>1, <4>1, <5>2 DEF GivesUp
          <6>2. obj'[t] # NoObj
            BY <6>1 DEF SlotInv, PcOK
          <6> QED BY <5>2, <6>1, <6>2
        <5>3. CASE [id |-> CurrentId(i), kind |-> "free"] \in owed
          BY <1>1, <4>1, <5>3 DEF GivesUp
        <5> QED BY <5>1, <5>2, <5>3
      <4> QED BY <4>1, <4>2, <4>3
    <3> QED BY <3>1, <3>2
  <2>4. ASSUME NEW u \in Tasks PROVE WakeOK(u)'
    <3>1. CASE pc'[u] = "idle"
      BY <3>1 DEF WakeOK
    <3>2. CASE pc'[u] # "idle"
      <4>1. pc'[u] = pc[u] /\ obj'[u] = obj[u] /\ pc[u] # "idle" /\ WakeOK(u)
        BY <3>2 DEF Inv, WakeInv
      <4>2. Pending(u) => Pending(u)'
        BY <2>2 DEF Pending
      <4>3. obj[u].id \in Ids /\ Issued(obj[u].id)
        BY <4>1, Claims DEF Inv, SlotInv, IdsIssued
      <4>4. CASE obj[u].id.index # id.index
        <5>1. /\ Live(obj[u].id)' <=> Live(obj[u].id)
              /\ Live(obj[u].id) => slots'[obj[u].id.index] = slots[obj[u].id.index]
          BY <2>1, <4>1, <4>4 DEF Live
        <5>2. Bystander(u)
          BY <4>1, <4>2, <5>1 DEF Bystander
        <5> QED BY <4>1, <5>2, BystanderOK
      <4>5. CASE obj[u].id.index = id.index
        <5>1. slots[id.index].gen = id.gen /\ id.gen \in 1..MaxGen /\ ~slots[id.index].retired
          BY <1>1 DEF Live, Ids
        <5>2. obj[u].id.gen \in 1..MaxGen /\ obj[u].id.gen <= id.gen
          BY <4>3, <4>5, <5>1 DEF Issued, Ids
        <5>3. ~Live(obj[u].id)'
          BY <2>1, <4>1, <4>5, <5>1, <5>2, BoundsAssumption DEF Live
        <5>4. Registered(u) => Pending(u)'
          BY <2>2, <4>5 DEF Registered, Pending
        <5>5. Undisturbed(u)
          BY <4>1, <4>2, <5>3, <5>4 DEF Undisturbed
        <5> QED BY <4>1, <5>5, UndisturbedOK
      <4> QED BY <4>4, <4>5
    <3> QED BY <3>1, <3>2
  <2> QED BY <2>3, <2>4 DEF WakeInv
<1>2. CASE ~Live(id)
  <2>1. UNCHANGED <<slots, freeing>> /\ ObjectsKept /\ OwesKnown /\ PcOK'
    BY <1>2 DEF FreeLocked, SlotInv
  <2>2. WritesClaimed
    BY <2>1 DEF WritesClaimed
  <2>3. StaleIdsReachNothing'
    BY <2>1, <2>2, StaleFrame DEF Inv
  <2>4. ASSUME NEW u \in Tasks PROVE WakeOK(u)'
    <3>1. CASE pc'[u] = "idle"
      BY <3>1 DEF WakeOK
    <3>2. CASE pc'[u] # "idle"
      <4>1. Pending(u) => Pending(u)'
        BY <2>1 DEF Pending
      <4>2. Bystander(u)
        BY <2>1, <3>2, <4>1, SameSlots DEF Bystander
      <4> QED BY <4>2, BystanderOK DEF Inv, WakeInv
    <3> QED BY <3>1, <3>2
  <2> QED BY <2>3, <2>4 DEF WakeInv
<1> QED BY <1>1, <1>2

(* The two frees, the rest of a free after the unlock, and the close. *)
LEMMA FreesKeepWakes ==
  ASSUME Inv, SlotInv',
         \/ \E t \in Tasks : DropFrees(t) \/ Close(t)
         \/ \E n \in owed : CloseFrees(n)
         \/ \E f \in freeing : FreeUnlocked(f)
  PROVE  StaleIdsReachNothing' /\ WakeInv'
<1>1. ASSUME NEW t \in Tasks, DropFrees(t) PROVE StaleIdsReachNothing' /\ WakeInv'
  <2>0. /\ pc[t] # "idle" /\ UNCHANGED <<freelist, waking, woken, owed>>
        /\ pc'[t] = "idle" /\ \A u \in Tasks \ {t} : pc'[u] = pc[u] /\ obj'[u] = obj[u]
    BY <1>1 DEF DropFrees, Inv, SlotInv, TypeOK
  <2>1. PICK id \in Ids : id = obj[t].id
    BY <2>0, Claims DEF Inv
  <2>2. FreeLocked(id)
    BY <1>1, <2>1 DEF DropFrees
  <2>3. GivesUp(id)
    BY <2>0, <2>1 DEF GivesUp
  <2>4. ~Live(id) => ObjectsKept /\ OwesKnown
    BY <2>0, <2>1 DEF ObjectsKept, OwesKnown
  <2> QED BY <2>0, <2>2, <2>3, <2>4, FreeLockedWakes
<1>2. ASSUME NEW n \in owed, CloseFrees(n) PROVE StaleIdsReachNothing' /\ WakeInv'
  <2>0. n.kind = "free" /\ owed' = owed \ {n} /\ UNCHANGED <<freelist, waking, obj, pc, woken>>
    BY <1>2 DEF CloseFrees
  <2>1. PICK id \in Ids : id = n.id
    BY Claims DEF Inv
  <2>2. FreeLocked(id)
    BY <1>2, <2>1 DEF CloseFrees
  <2>3. GivesUp(id)
    BY <2>0, <2>1 DEF GivesUp
  <2>4. ~Live(id) => ObjectsKept /\ OwesKnown
    BY <2>0, <2>1 DEF ObjectsKept, OwesKnown
  <2> QED BY <2>0, <2>2, <2>3, <2>4, FreeLockedWakes
<1>3. ASSUME NEW f \in freeing, FreeUnlocked(f) PROVE StaleIdsReachNothing' /\ WakeInv'
  <2>0. /\ freeing' = freeing \ {f} /\ woken' = woken \cup ({f.waker} \ {None})
        /\ UNCHANGED <<slots, waking, obj, pc, owed>>
    BY <1>3 DEF FreeUnlocked
  <2>1. StaleIdsReachNothing'
    BY <2>0 DEF Inv, StaleIdsReachNothing, CurrentId, Holds
  <2>2. \A u \in Tasks : Pending(u) => Pending(u)'
    BY <2>0, TasksAssumption DEF Pending
  <2>3. \A u \in Tasks : Bystander(u)
    BY <2>0, <2>2, SameSlots DEF Bystander
  <2> QED BY <2>1, <2>3, BystanderOK DEF Inv, WakeInv
<1>4. ASSUME NEW t \in Tasks, Close(t) PROVE StaleIdsReachNothing' /\ WakeInv'
  <2>1. /\ obj[t].kind = "completion"
        /\ obj' = [obj EXCEPT ![t].closed = TRUE]
        /\ owed' = owed \cup {[id |-> obj[t].id, kind |-> "free"]}
        /\ UNCHANGED <<slots, freelist, freeing, waking, pc, woken>>
    BY <1>4 DEF Close
  <2>2. /\ obj[t] \in [kind : Kinds, id : Ids, closed : BOOLEAN, word : {0, 1}, seen : {0, 1}]
        /\ obj[t] # NoObj /\ pc[t] # "idle"
    BY <2>1 DEF Inv, SlotInv, TypeOK, PcOK, NoObj, None
  <2>3. PICK o : o = [obj[t] EXCEPT !.closed = TRUE]
    OBVIOUS
  <2>4. /\ o.id = obj[t].id /\ o.kind = obj[t].kind /\ o.seen = obj[t].seen
        /\ o.word = obj[t].word
    BY <2>2, <2>3
  <2>5. obj'[t] = o /\ \A u \in Tasks \ {t} : obj'[u] = obj[u]
    BY <2>1, <2>3 DEF Inv, SlotInv, TypeOK
  <2>6. \A u \in Tasks : Pending(u) <=> Pending(u)'
    BY <2>1 DEF Pending
  <2>7. \A u \in Tasks \ {t} : Bystander(u)
    BY <2>1, <2>5, <2>6, SameSlots DEF Bystander
  <2>8. obj'[t].id = obj[t].id /\ obj'[t].kind = obj[t].kind /\ obj'[t].seen = obj[t].seen
        /\ obj'[t].word = obj[t].word
    BY <2>4, <2>5
  <2>9. Registered(t) => Registered(t)'
    BY <2>1, <2>8 DEF Registered, Live
  <2>10. /\ Live(obj[t].id)' => Live(obj[t].id)
         /\ slots'[obj[t].id.index].published = slots[obj[t].id.index].published
    BY <2>1, <2>8 DEF Live
  <2>11. Undisturbed(t)
    BY <2>1, <2>6, <2>8, <2>9, <2>10 DEF Undisturbed
  <2>12. obj'[t] # NoObj
    BY <2>1, <2>2 DEF SlotInv, PcOK
  <2>13. StaleIdsReachNothing'
    <3>1. \A u \in Tasks : \A j : Holds(u, j) => Holds(u, j)'
      BY <2>5, <2>8, <2>12 DEF Holds
    <3>2. \A i : CurrentId(i)' = CurrentId(i)
      BY <2>1 DEF CurrentId
    <3>3. \A j : [id |-> j, kind |-> "publish"] \in owed' => [id |-> j, kind |-> "publish"] \in owed
      BY <2>1
    <3>4. \A j : [id |-> j, kind |-> "free"] \in owed => [id |-> j, kind |-> "free"] \in owed'
      BY <2>1
    <3> QED BY <2>1, <3>1, <3>2, <3>3, <3>4 DEF Inv, StaleIdsReachNothing
  <2> QED BY <2>2, <2>7, <2>11, <2>13, BystanderOK, UndisturbedOK DEF Inv, WakeInv
<1> QED BY <1>1, <1>2, <1>3, <1>4

(* The engine's store comes before its wake, so whoever sleeps on the word *)
(* is still to be woken.                                                   *)
LEMMA StoreKeepsWakes ==
  ASSUME Inv, SlotInv', NEW n \in owed, StoreWord(n)
  PROVE  StaleIdsReachNothing' /\ WakeInv'
<1>1. /\ n.kind = "store" /\ UNCHANGED <<slots, freelist, freeing, waking, pc, woken>>
      /\ owed' = (owed \ {n}) \cup {[n EXCEPT !.kind = "wake"]}
      /\ obj' = [t \in Tasks |-> IF obj[t].kind = "channel" /\ obj[t].id = n.id
                                 THEN [obj[t] EXCEPT !.word = 1] ELSE obj[t]]
  BY DEF StoreWord
<1>2. n \in [id : Ids, kind : {"publish", "store", "wake", "free"}]
  BY DEF Inv, SlotInv, TypeOK
<1>3. [n EXCEPT !.kind = "wake"] = [id |-> n.id, kind |-> "wake"]
  BY <1>2
<1>4. \A j, k : k # "store" /\ [id |-> j, kind |-> k] \in owed => [id |-> j, kind |-> k] \in owed'
  BY <1>1
<1>5. \A j, k : k # "wake" /\ [id |-> j, kind |-> k] \in owed' => [id |-> j, kind |-> k] \in owed
  BY <1>1, <1>3
<1>6. ASSUME NEW u \in Tasks
      PROVE  /\ obj[u] # NoObj => /\ obj'[u].kind = obj[u].kind /\ obj'[u].id = obj[u].id
                                  /\ obj'[u].seen = obj[u].seen /\ obj'[u] # NoObj
             /\ obj'[u] = obj[u] \/ [id |-> obj[u].id, kind |-> "wake"] \in owed'
  <2>1. CASE obj[u].kind = "channel" /\ obj[u].id = n.id
    <3>1. obj[u] \in [kind : Kinds, id : Ids, closed : BOOLEAN, word : {0, 1}, seen : {0, 1}]
      BY <2>1 DEF Inv, SlotInv, TypeOK, NoObj, None
    <3>2. obj'[u] = [obj[u] EXCEPT !.word = 1]
      BY <1>1, <2>1
    <3>3. /\ obj'[u].kind = obj[u].kind /\ obj'[u].id = obj[u].id
          /\ obj'[u].seen = obj[u].seen
      BY <3>1, <3>2
    <3>4. obj'[u] # NoObj
      BY <2>1, <3>3 DEF NoObj, None
    <3> QED BY <1>1, <1>3, <2>1, <3>3, <3>4
  <2>2. CASE ~(obj[u].kind = "channel" /\ obj[u].id = n.id)
    BY <1>1, <2>2
  <2> QED BY <2>1, <2>2
<1>7. \A u \in Tasks : Pending(u) <=> Pending(u)'
  BY <1>1 DEF Pending
<1>8. ASSUME NEW u \in Tasks PROVE WakeOK(u)'
  <2>1. CASE pc[u] = "idle"
    BY <1>1, <2>1 DEF WakeOK
  <2>2. CASE pc[u] # "idle"
    <3>1. obj[u] # NoObj
      BY <2>2 DEF Inv, SlotInv, PcOK
    <3>2. /\ obj'[u].kind = obj[u].kind /\ obj'[u].id = obj[u].id /\ obj'[u].seen = obj[u].seen
      BY <1>6, <3>1
    <3>3. Registered(u) => Registered(u)'
      BY <1>1, <3>2 DEF Registered, Live
    <3>4. /\ Live(obj[u].id)' => Live(obj[u].id)
          /\ slots'[obj[u].id.index].published = slots[obj[u].id.index].published
      BY <1>1, <3>2 DEF Live
    <3>5. obj'[u].word = 1 => obj[u].word = 1 \/ [id |-> obj[u].id, kind |-> "wake"] \in owed'
      BY <1>6
    <3>6. Undisturbed(u)
      BY <1>1, <1>4, <1>7, <3>2, <3>3, <3>4, <3>5 DEF Undisturbed
    <3> QED BY <2>2, <3>6, UndisturbedOK DEF Inv, WakeInv
  <2> QED BY <2>1, <2>2
<1>9. StaleIdsReachNothing'
  <2>1. \A u \in Tasks : \A j : Holds(u, j) => Holds(u, j)'
    BY <1>6 DEF Holds
  <2>2. \A i : CurrentId(i)' = CurrentId(i)
    BY <1>1 DEF CurrentId
  <2> QED BY <1>1, <1>4, <1>5, <2>1, <2>2 DEF Inv, StaleIdsReachNothing
<1> QED BY <1>8, <1>9 DEF WakeInv

(* A signal wakes whom it finds asleep behind it. *)
LEMMA SignalKeepsWakes ==
  ASSUME Inv, SlotInv', NEW n \in owed, NEW q \in {0, 1}, NEW filtered \in BOOLEAN,
         Signal(n.id, q, filtered), owed' = owed \ {n},
         UNCHANGED <<freelist, freeing, obj, pc, woken>>,
         \/ n.kind = "publish" /\ filtered /\ q = 1
         \/ n.kind = "wake" /\ ~filtered /\ (Live(n.id) => q = slots[n.id.index].published)
  PROVE  StaleIdsReachNothing' /\ WakeInv'
<1>0. /\ n.id \in Ids /\ (Live(n.id) => ~Unclaimed(n.id.index)) /\ SlotInv /\ PcOK'
      /\ n = [id |-> n.id, kind |-> n.kind]
  BY Claims DEF Inv, SlotInv, TypeOK
<1>1. OwesKnown /\ ObjectsKept
  BY DEF OwesKnown, ObjectsKept
<1>2. CASE ~Live(n.id)
  <2>1. UNCHANGED <<slots, waking>>
    BY <1>2 DEF Signal
  <2>2. WritesClaimed
    BY <2>1 DEF WritesClaimed
  <2>3. StaleIdsReachNothing'
    BY <1>0, <1>1, <2>1, <2>2, StaleFrame DEF Inv
  <2>4. ASSUME NEW u \in Tasks PROVE WakeOK(u)'
    <3>1. Pending(u) <=> Pending(u)'
      BY <2>1 DEF Pending
    <3>2. CASE obj[u].id = n.id
      <4>1. ~Live(obj[u].id) /\ ~Live(obj[u].id)'
        BY <1>2, <2>1, <3>2 DEF Live
      <4>2. pc[u] \in {"recheck", "asleep"} => Pending(u)'
        BY <3>1, <4>1 DEF Inv, WakeInv, WakeOK, Registered
      <4> QED BY <4>1, <4>2 DEF WakeOK
    <3>3. CASE obj[u].id # n.id
      <4>1. Bystander(u)
        BY <1>0, <2>1, <3>1, <3>3, SameSlots DEF Bystander
      <4> QED BY <4>1, BystanderOK DEF Inv, WakeInv
    <3> QED BY <3>2, <3>3
  <2> QED BY <2>3, <2>4 DEF WakeInv
<1>3. CASE Live(n.id)
  <2> DEFINE i == n.id.index
  <2>1. /\ WritesClaimed
        /\ \A j \in DOMAIN slots : j # i => slots'[j] = slots[j]
        /\ slots'[i].published = q
        /\ waking \subseteq waking'
        /\ \/ /\ slots'[i].waiter = {} /\ slots'[i].waker = None
              /\ waking' = waking \cup ({slots[i].waker} \ {None})
           \/ /\ slots'[i].waiter = slots[i].waiter
              /\ slots'[i].waker = slots[i].waker
              /\ \A observed \in slots[i].waiter : filtered /\ ~(q > observed)
    <3>1. ~Unclaimed(n.id.index)
      BY <1>0, <1>3
    <3>2. PICK id \in Ids : id = n.id
      BY <1>0
    <3>3. Live(id) /\ ~Unclaimed(id.index) /\ Signal(id, q, filtered) /\ SlotInv
      BY <1>0, <1>3, <3>1, <3>2
    <3>4. /\ WritesClaimed
          /\ \A j \in DOMAIN slots : j # id.index => slots'[j] = slots[j]
          /\ slots'[id.index].published = q
          /\ waking \subseteq waking'
          /\ \/ /\ slots'[id.index].waiter = {} /\ slots'[id.index].waker = None
                /\ waking' = waking \cup ({slots[id.index].waker} \ {None})
             \/ /\ slots'[id.index].waiter = slots[id.index].waiter
                /\ slots'[id.index].waker = slots[id.index].waker
                /\ \A observed \in slots[id.index].waiter : filtered /\ ~(q > observed)
      BY <3>3, SignalFacts
    <3> QED BY <3>2, <3>4
  <2>2. i \in DOMAIN slots /\ CurrentId(i) = n.id
    BY <1>0, <1>3 DEF Live, CurrentId, Ids
  <2>3. StaleIdsReachNothing'
    <3>1. \A j \in DOMAIN slots : slots'[j].published = 1 =>
            slots[j].published = 1 \/ [id |-> CurrentId(j), kind |-> "publish"] \notin owed'
      <4>1. q = slots[i].published \/ [id |-> CurrentId(i), kind |-> "publish"] \notin owed'
        BY <1>0, <1>3, <2>2
      <4> QED BY <2>1, <4>1
    <3>2. \A j \in DOMAIN slots : \A t \in Tasks : slots'[j].waker = t => slots[j].waker = t
      BY <2>1, TasksAssumption
    <3> QED BY <1>0, <1>1, <2>1, <3>1, <3>2, StaleFrame DEF Inv
  <2>4. ASSUME NEW u \in Tasks PROVE WakeOK(u)'
    <3>0. WakeOK(u) /\ pc'[u] = pc[u] /\ obj'[u] = obj[u]
      BY DEF Inv, WakeInv
    <3>1. Pending(u) => Pending(u)'
      BY <2>1 DEF Pending
    <3>2. CASE pc[u] = "idle"
      BY <3>0, <3>2 DEF WakeOK
    <3>3. CASE pc[u] # "idle" /\ obj[u].id # n.id
      <4>1. /\ Live(obj[u].id)' <=> Live(obj[u].id)
            /\ Live(obj[u].id) => slots'[obj[u].id.index] = slots[obj[u].id.index]
        BY <1>0, <1>3, <2>1, <3>0, <3>3, OtherSlot
      <4>2. Bystander(u)
        BY <1>0, <3>0, <3>1, <3>3, <4>1 DEF Bystander
      <4> QED BY <4>2, BystanderOK DEF Inv, WakeInv
    <3>4. CASE pc[u] # "idle" /\ obj[u].id = n.id
      <4>0. /\ obj[u].seen \in {0, 1} /\ obj[u].kind \in {"completion", "channel"}
            /\ slots[i].published \in {0, 1}
        <5>1. slots[i] \in SlotRec
          BY <2>2, SlotAt DEF Inv, SlotInv
        <5>2. obj[u] \in [kind : Kinds, id : Ids, closed : BOOLEAN, word : {0, 1}, seen : {0, 1}]
          BY <3>4 DEF Inv, SlotInv, TypeOK, PcOK
        <5>3. slots[i].published \in {0, 1}
          BY <5>1 DEF SlotRec
        <5> QED BY <5>2, <5>3, KindsAssumption
      <4>1. q = 1 \/ q = slots[i].published
        BY <1>3
      <4>2. obj[u].kind = "completion" /\ obj[u].seen = 1 => slots'[i].published = 1
        BY <1>3, <2>1, <3>0, <3>4, <4>1 DEF WakeOK
      <4>3. Registered(u) <=> slots[i].waker = u /\ slots[i].waiter = {obj[u].seen}
        BY <1>3, <3>4 DEF Registered
      <4>4. Registered(u)' <=> slots'[i].waker = u /\ slots'[i].waiter = {obj[u].seen}
        <5>1. Live(obj[u].id)'
          BY <1>3, <2>1, <3>0, <3>4 DEF Live, WritesClaimed
        <5> QED BY <3>0, <3>4, <5>1 DEF Registered
      <4>5. pc[u] \in {"recheck", "asleep"} => Pending(u)' \/ Registered(u)'
        <5>1. Registered(u) => Pending(u)' \/ Registered(u)'
          BY <2>1, <4>3, <4>4, TasksAssumption DEF Pending
        <5> QED BY <3>0, <3>1, <5>1 DEF WakeOK
      <4>6. ASSUME pc[u] = "asleep", ~Pending(u)'
            PROVE  /\ obj[u].kind = "channel" /\ n.kind = "publish"
                   /\ obj[u].word = 1 => [id |-> obj[u].id, kind |-> "wake"] \in owed
        <5>1. ~Pending(u) /\ Registered(u)'
          BY <3>1, <4>5, <4>6
        <5>2. slots'[i].waiter = {obj[u].seen} /\ slots'[i].waker = u
          BY <4>4, <5>1
        <5>3. \A observed \in {obj[u].seen} : filtered /\ ~(q > observed)
          BY <2>1, <5>2, TasksAssumption
        <5>4. n.kind = "publish" /\ obj[u].seen = 1
          BY <4>0, <5>3
        <5>5. obj[u].kind # "channel" => slots[i].published = 0
          BY <3>0, <3>4, <4>6, <5>1 DEF WakeOK
        <5>6. obj[u].kind = "completion" => slots[i].published = 1
          BY <1>3, <3>0, <3>4, <5>4 DEF WakeOK
        <5> QED BY <3>0, <3>4, <4>0, <4>6, <5>1, <5>4, <5>5, <5>6 DEF WakeOK
      <4>7. ASSUME pc[u] = "asleep", ~Pending(u)'
            PROVE  /\ obj[u].kind = "channel"
                   /\ obj[u].word = 1 => [id |-> obj[u].id, kind |-> "wake"] \in owed'
        BY <1>0, <4>6, <4>7
      <4> HIDE DEF i
      <4> QED BY <3>0, <3>4, <4>2, <4>5, <4>7 DEF WakeOK, i
    <3> QED BY <3>2, <3>3, <3>4
  <2> QED BY <2>3, <2>4 DEF WakeInv
<1> QED BY <1>2, <1>3

(* A wait begins on a slot in which nothing was published and nobody       *)
(* waits.                                                                  *)
LEMMA TakeKeepsWakes ==
  ASSUME Inv, SlotInv', NEW t \in Tasks, NEW kind \in Kinds, NEW id \in Ids, Take(t, kind, id),
         pc[t] = "idle", DOMAIN slots' = DOMAIN slots \cup {id.index},
         \A j \in DOMAIN slots : slots'[j] = slots[j],
         Clean(slots'[id.index])
  PROVE  StaleIdsReachNothing' /\ WakeInv'
<1>1. /\ obj'[t].id = id /\ obj'[t] # NoObj /\ pc'[t] = "check" /\ obj'[t].seen = 0
      /\ \A u \in Tasks \ {t} : obj'[u] = obj[u] /\ pc'[u] = pc[u]
      /\ UNCHANGED <<freeing, waking, woken>>
  BY TakeFacts DEF Inv, SlotInv
<1>2. PICK k \in {"publish", "store"} : owed' = owed \cup {[id |-> id, kind |-> k]}
  BY TakeFacts DEF Inv, SlotInv
<1>3. WakeOK(t)'
  BY <1>1 DEF WakeOK
<1>4. ASSUME NEW u \in Tasks \ {t} PROVE WakeOK(u)'
  <2>1. CASE pc[u] = "idle"
    BY <1>1, <2>1 DEF WakeOK
  <2>2. CASE pc[u] # "idle"
    <3>1. obj[u].id.index \in DOMAIN slots
      BY <2>2 DEF Inv, SlotInv, IdsIssued, Issued
    <3>2. /\ Live(obj[u].id)' <=> Live(obj[u].id)
          /\ Live(obj[u].id) => slots'[obj[u].id.index] = slots[obj[u].id.index]
      BY <1>1, <3>1 DEF Live
    <3>3. Pending(u) => Pending(u)'
      BY <1>1 DEF Pending
    <3>4. Bystander(u)
      BY <1>1, <1>2, <3>2, <3>3 DEF Bystander
    <3> QED BY <3>4, BystanderOK DEF Inv, WakeInv
  <2> QED BY <2>1, <2>2
<1>5. StaleIdsReachNothing'
  <2> SUFFICES ASSUME NEW i \in DOMAIN slots'
               PROVE  /\ slots'[i].published = 1 =>
                           [id |-> CurrentId(i)', kind |-> "publish"] \notin owed'
                      /\ \A u \in Tasks : slots'[i].waker = u =>
                           \/ obj'[u] # NoObj /\ obj'[u].id = CurrentId(i)'
                           \/ [id |-> CurrentId(i)', kind |-> "free"] \in owed'
    BY DEF StaleIdsReachNothing, Holds
  <2>1. CASE i = id.index
    BY <2>1, TasksAssumption DEF Clean
  <2>2. CASE i # id.index
    <3>1. i \in DOMAIN slots /\ slots'[i] = slots[i]
      BY <2>2
    <3>2. CurrentId(i)' = CurrentId(i) /\ CurrentId(i) # id
      BY <2>2, <3>1 DEF CurrentId
    <3>3. slots[i].published = 1 => [id |-> CurrentId(i), kind |-> "publish"] \notin owed
      BY <3>1 DEF Inv, StaleIdsReachNothing
    <3>4. \A u \in Tasks : slots[i].waker = u =>
            \/ obj[u] # NoObj /\ obj[u].id = CurrentId(i)
            \/ [id |-> CurrentId(i), kind |-> "free"] \in owed
      BY <3>1 DEF Inv, StaleIdsReachNothing, Holds
    <3>5. obj[t] = NoObj
      BY DEF Inv, SlotInv, PcOK
    <3> QED BY <1>1, <1>2, <3>1, <3>2, <3>3, <3>4, <3>5
  <2> QED BY <2>1, <2>2
<1> QED BY <1>3, <1>4, <1>5 DEF WakeInv

(* Reusing a slot or growing the table disturbs nobody. *)
LEMMA AllocKeepsWakes ==
  ASSUME Inv, SlotInv', NEW t \in Tasks, NEW kind \in Kinds, Alloc(t, kind)
  PROVE  StaleIdsReachNothing' /\ WakeInv'
<1>0. /\ slots \in Seq(SlotRec) /\ Len(slots) \in Nat /\ DOMAIN slots = 1..Len(slots)
      /\ freelist \in Seq(Indices) /\ MaxSlots \in Nat /\ MaxGen \in Nat \ {0}
      /\ \A i \in DOMAIN slots : slots[i] \in SlotRec
  <2>1. MaxSlots \in Nat /\ MaxGen \in Nat \ {0}
    BY BoundsAssumption
  <2>2. freelist \in Seq(Indices)
    BY DEF Inv, SlotInv, TypeOK
  <2> QED BY <2>1, <2>2, SlotAt, LenProperties DEF Inv, SlotInv
<1>1. CASE freelist # <<>>
  <2>1. /\ Last(freelist) \in DOMAIN slots /\ Listed(Last(freelist))
    BY <1>0, <1>1, FrontFacts DEF Last, Inv, SlotInv, SlotsOK, Listed
  <2> PICK i \in DOMAIN slots : i = Last(freelist)
    BY <2>1
  <2>2. ~slots[i].retired /\ Clean(slots[i])
    BY <2>1 DEF Inv, SlotInv, OnListOnce, SparesUnclaimed
  <2> PICK id : id = [gen |-> slots[i].gen, index |-> i]
    OBVIOUS
  <2>3. Take(t, kind, id) /\ UNCHANGED slots /\ pc[t] = "idle"
    BY <1>1, <2>2 DEF Alloc
  <2>4. i <= Len(slots) /\ Len(slots) <= MaxSlots
    BY <1>0 DEF Inv, SlotInv, TypeOK
  <2>5. id \in Ids /\ id.index = i
    BY <1>0, <2>2, <2>4 DEF Ids, Indices, SlotRec, Inv, SlotInv, SlotsOK
  <2>6. DOMAIN slots' = DOMAIN slots \cup {id.index} /\ Clean(slots'[id.index])
    BY <2>2, <2>3, <2>5
  <2> QED BY <2>3, <2>5, <2>6, TakeKeepsWakes
<1>2. CASE freelist = <<>>
  <2> PICK i : i = Len(slots) + 1
    OBVIOUS
  <2> PICK id : id = [gen |-> 1, index |-> i]
    OBVIOUS
  <2>1. /\ Take(t, kind, id) /\ slots' = Append(slots, NewSlot)
        /\ pc[t] = "idle" /\ Len(slots) < MaxSlots
    BY <1>2 DEF Alloc
  <2>2. id \in Ids /\ id.index = i
    BY <1>0, <2>1 DEF Ids, Indices
  <2>3. NewSlot \in SlotRec /\ Clean(NewSlot)
    <3>1. FALSE \in BOOLEAN /\ None \in Tasks \cup {None} /\ 1 \in 0..MaxGen
      BY <1>0
    <3> QED BY <3>1 DEF NewSlot, SlotRec, Clean
  <2>4. /\ DOMAIN slots' = DOMAIN slots \cup {i} /\ slots'[i] = NewSlot
        /\ \A j \in DOMAIN slots : slots'[j] = slots[j]
    <3>1. /\ slots' \in Seq(SlotRec) /\ Len(slots') = i
          /\ \A j \in 1..Len(slots) : slots'[j] = slots[j]
      BY <1>0, <2>1, <2>3, AppendProperties
    <3>2. DOMAIN slots' = 1..i /\ slots'[i] = NewSlot
      BY <1>0, <2>1, <2>3, <3>1, AppendProperties, LenProperties
    <3> QED BY <1>0, <3>1, <3>2
  <2> QED BY <2>1, <2>2, <2>3, <2>4, TakeKeepsWakes
<1> QED BY <1>1, <1>2

(* The inductive invariant of the table and of those who sleep on it. *)
THEOREM InvInductive == Spec => []Inv
<1>1. Init => Inv
  <2> SUFFICES ASSUME Init PROVE StaleIdsReachNothing /\ WakeInv /\ SlotInv
    BY DEF Inv
  <2>1. SlotInv
    BY InitSlots
  <2>2. DOMAIN slots = {} /\ \A t \in Tasks : pc[t] = "idle"
    BY DEF Init
  <2> QED BY <2>1, <2>2 DEF StaleIdsReachNothing, WakeInv, WakeOK
<1>2. Inv /\ [Next]_vars => Inv'
  <2>1. ASSUME Inv, UNCHANGED vars PROVE Inv'
    <3>1. SlotInv'
      BY <2>1, StutterKeepsSlots DEF Inv
    <3>2. \A u \in Tasks : Bystander(u)
      BY <2>1, SameSlots DEF vars, Bystander, Pending
    <3>3. StaleIdsReachNothing'
      BY <2>1 DEF vars, Inv, StaleIdsReachNothing, CurrentId, Holds
    <3> QED BY <2>1, <3>1, <3>2, <3>3, BystanderOK DEF Inv, WakeInv
  <2>2. ASSUME Inv, Next PROVE Inv'
    <3>1. SlotInv'
      BY <2>2, NextKeepsSlots DEF Inv
    <3>2. ASSUME NEW n \in owed, Publish(n) PROVE StaleIdsReachNothing' /\ WakeInv'
      <4>1. /\ Signal(n.id, 1, TRUE) /\ n.kind = "publish" /\ owed' = owed \ {n}
            /\ UNCHANGED <<freelist, freeing, obj, pc, woken>>
        BY <3>2 DEF Publish
      <4> QED BY <2>2, <3>1, <4>1, SignalKeepsWakes
    <3>3. ASSUME NEW n \in owed, WakeSlot(n) PROVE StaleIdsReachNothing' /\ WakeInv'
      <4>1. PICK q \in {0, 1} : q = IF Live(n.id) THEN slots[n.id.index].published ELSE 0
        <5>1. Live(n.id) => slots[n.id.index] \in SlotRec
          BY <2>2, SlotAt DEF Inv, SlotInv, Live
        <5> QED BY <5>1 DEF SlotRec
      <4>2. /\ Signal(n.id, q, FALSE) /\ n.kind = "wake" /\ owed' = owed \ {n}
            /\ UNCHANGED <<freelist, freeing, obj, pc, woken>>
        BY <3>3, <4>1 DEF WakeSlot
      <4> QED BY <2>2, <3>1, <4>1, <4>2, SignalKeepsWakes
    <3> QED BY <2>2, <3>1, <3>2, <3>3, AllocKeepsWakes, PollKeepsWakes, SleepKeepsWakes,
               DropKeepsWakes, FreesKeepWakes, StoreKeepsWakes DEF Next, Inv
  <2> QED BY <2>1, <2>2
<1> QED BY <1>1, <1>2, PTL DEF Spec

(* An id that outlived its slot publishes nothing in it and leaves no      *)
(* waker there.                                                            *)
THEOREM StaleIdsAreHarmless == Spec => []StaleIdsReachNothing
BY InvInductive, PTL DEF Inv

(* Nobody sleeps on what is ready unless a thread is on its way to wake    *)
(* it: neither an epoch published between the two checks, nor a word       *)
(* stored between them, nor a free or a close is missed.                   *)
THEOREM NoWakeupIsLost == Spec => []NoLostWakeup
<1>1. Inv => NoLostWakeup
  <2> SUFFICES ASSUME Inv, NEW t \in Tasks, pc[t] = "asleep", Ready(t), ~Pending(t)
               PROVE  \E n \in owed : n.id = obj[t].id /\ n.kind \in {"wake", "free"}
    BY DEF NoLostWakeup, Pending
  <2>1. WakeOK(t) /\ Registered(t) /\ Live(obj[t].id)
    BY DEF Inv, WakeInv, WakeOK, Registered
  <2>2. CASE obj[t].kind = "channel"
    <3>1. [id |-> obj[t].id, kind |-> "wake"] \in owed
      BY <2>1, <2>2 DEF WakeOK, Ready
    <3> QED BY <3>1
  <2>3. CASE obj[t].kind # "channel"
    <3>1. Published(obj[t].id) = {0}
      BY <2>1, <2>3 DEF WakeOK, Published
    <3>2. obj[t].closed
      BY <2>3, <3>1 DEF Ready
    <3>3. [id |-> obj[t].id, kind |-> "free"] \in owed
      BY <2>1, <3>2 DEF Inv, SlotInv, ClosedIsFreed, FreeOwed
    <3> QED BY <3>3
  <2> QED BY <2>2, <2>3
<1> QED BY <1>1, InvInductive, PTL
===========================================================================
