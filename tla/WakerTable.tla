----------------------------- MODULE WakerTable -----------------------------
(***************************************************************************)
(* The waker table (crates/waker/src/table.rs) and the two futures that    *)
(* sleep on it: a channel's WaitFuture (crates/waker/src/wait.rs) and a    *)
(* submission's completion (runtime/src/engine/completion.rs).             *)
(*                                                                         *)
(* A slot is reached by an id that carries the slot's generation; freeing  *)
(* it bumps the generation, so an id that outlives its slot must reach     *)
(* nothing.  Every operation takes the slot's lock once; what it does      *)
(* after the unlock (calling the waker it took, pushing the index on the   *)
(* free list) is a step of its own here, because another thread may run    *)
(* in between.                                                             *)
(*                                                                         *)
(* Each task repeatedly makes a wait object, polls it until it is ready    *)
(* and drops it.  A "completion" is settled by one engine callback, which  *)
(* publishes an epoch under the slot's lock and may come after the         *)
(* completion is gone; or by close, from another thread, which marks it    *)
(* closed and then frees its slot.  A "channel" is settled by an engine    *)
(* that stores a word and only then wakes.                                 *)
(***************************************************************************)
EXTENDS SequencesExt

CONSTANTS
    Tasks,      \* tasks that wait, one object at a time
    Kinds,      \* what they wait on: completions, channels
    MaxSlots,   \* bound: slots the table may grow to
    MaxOwed,    \* bound: calls owed by other threads when a wait begins
    MaxGen      \* the last generation of a slot: u32::MAX in the code

ASSUME KindsAssumption == Kinds \subseteq {"completion", "channel"}
ASSUME BoundsAssumption == {MaxSlots, MaxOwed, MaxGen} \subseteq Nat \ {0}

VARIABLES
    slots,      \* slots[i]: the state behind slot i's lock; waiter is {} or {epoch}
    freelist,   \* indices to reuse, popped from the end
    freeing,    \* free() calls past the unlock: [index, waker, recycle]
    waking,     \* wakers taken out of a slot, wake() not called yet
    obj,        \* obj[t]: what task t waits on, or NoObj
    pc,         \* pc[t]: where task t is in poll or in drop
    woken,      \* tasks the executor has to poll
    owed        \* calls other threads have still to make: [id, kind]

vars == <<slots, freelist, freeing, waking, obj, pc, woken, owed>>

None == "none"
NoObj == [kind |-> None]

ASSUME TasksAssumption == None \notin Tasks

Indices == 1..MaxSlots
Ids == [gen : 1..MaxGen, index : Indices]

NewSlot == [gen |-> 1, waiter |-> {}, published |-> 0, waker |-> None, retired |-> FALSE]

(* The slot is the id's only while it has the id's generation.             *)
Live(id) ==
    /\ id.index \in DOMAIN slots
    /\ ~slots[id.index].retired
    /\ slots[id.index].gen = id.gen

TypeOK ==
    /\ slots \in Seq([gen : 0..MaxGen, waiter : {{}, {0}, {1}}, published : {0, 1},
                      waker : Tasks \cup {None}, retired : BOOLEAN])
    /\ Len(slots) <= MaxSlots
    /\ freelist \in Seq(Indices)
    /\ freeing \subseteq [index : Indices, waker : Tasks \cup {None}, recycle : BOOLEAN]
    /\ waking \subseteq Tasks
    /\ woken \subseteq Tasks
    /\ obj \in [Tasks -> [kind : Kinds, id : Ids, closed : BOOLEAN, word : {0, 1}, seen : {0, 1}]
                         \cup {NoObj}]
    /\ pc \in [Tasks -> {"idle", "check", "observe", "register", "recheck", "asleep", "ready",
                         "free"}]
    /\ owed \subseteq [id : Ids, kind : {"publish", "store", "wake", "free"}]

Init ==
    /\ slots = <<>>
    /\ freelist = <<>>
    /\ freeing = {}
    /\ waking = {}
    /\ obj = [t \in Tasks |-> NoObj]
    /\ pc = [t \in Tasks |-> "idle"]
    /\ woken = {}
    /\ owed = {}

-----------------------------------------------------------------------------
(* alloc: reuse the index freed last, or grow the table.                   *)

Take(t, kind, id) ==
    /\ obj' = [obj EXCEPT ![t] = [kind |-> kind, id |-> id, closed |-> FALSE, word |-> 0, seen |-> 0]]
    /\ owed' = owed \cup {[id |-> id, kind |-> IF kind = "channel" THEN "store" ELSE "publish"]}
    /\ pc' = [pc EXCEPT ![t] = "check"]
    /\ UNCHANGED <<freeing, waking, woken>>

Alloc(t, kind) ==
    /\ pc[t] = "idle"
    /\ Cardinality(owed) < MaxOwed
    /\ \/ /\ freelist # <<>>
          /\ LET i == Last(freelist)
             IN  IF slots[i].retired
                 THEN UNCHANGED <<obj, owed, pc, freeing, waking, woken>>
                 ELSE Take(t, kind, [gen |-> slots[i].gen, index |-> i])
          /\ freelist' = Front(freelist)
          /\ UNCHANGED slots
       \/ /\ freelist = <<>>
          /\ Len(slots) < MaxSlots
          /\ slots' = Append(slots, NewSlot)
          /\ Take(t, kind, [gen |-> 1, index |-> Len(slots) + 1])
          /\ UNCHANGED freelist

(* Slips the checks must catch: a slot freed with its epoch still          *)
(* published, and one freed through an id of another generation.           *)
FreeKeepsPublished(id) ==
    IF Live(id)
    THEN LET s == slots[id.index]
             last == s.gen = MaxGen
         IN  /\ slots' = [slots EXCEPT ![id.index] =
                    [s EXCEPT !.gen = IF last THEN 0 ELSE s.gen + 1, !.retired = last,
                              !.waiter = {}, !.waker = None]]
             /\ freeing' = freeing \cup
                    {[index |-> id.index, waker |-> s.waker, recycle |-> ~last]}
    ELSE UNCHANGED <<slots, freeing>>

FreeAtAnyGeneration(id) ==
    LET s == slots[id.index]
    IN  /\ slots' = [slots EXCEPT ![id.index] = [NewSlot EXCEPT !.gen = Min({s.gen + 1, MaxGen})]]
        /\ freeing' = freeing \cup {[index |-> id.index, waker |-> s.waker, recycle |-> TRUE]}

(* The half of free that runs under the slot's lock; a slot at its last    *)
(* generation is retired and never goes back on the free list.             *)
FreeLocked(id) ==
    IF Live(id)
    THEN LET s == slots[id.index]
             last == s.gen = MaxGen
         IN  /\ slots' = [slots EXCEPT ![id.index] =
                    [NewSlot EXCEPT !.gen = IF last THEN 0 ELSE s.gen + 1, !.retired = last]]
             /\ freeing' = freeing \cup
                    {[index |-> id.index, waker |-> s.waker, recycle |-> ~last]}
    ELSE UNCHANGED <<slots, freeing>>

(* The rest of free, after the unlock: wake whom it took, then recycle.    *)
FreeUnlocked(f) ==
    /\ f \in freeing
    /\ freeing' = freeing \ {f}
    /\ woken' = woken \cup ({f.waker} \ {None})
    /\ freelist' = IF f.recycle THEN Append(freelist, f.index) ELSE freelist
    /\ UNCHANGED <<slots, waking, obj, pc, owed>>

-----------------------------------------------------------------------------
(* poll: check, read the epoch to sleep from, register, check again.       *)

Published(id) == IF Live(id) THEN {slots[id.index].published} ELSE {}

(* A slip: a completion whose slot is gone is not taken for closed.        *)
ReadyIfPublished(t) ==
    IF obj[t].kind = "channel" THEN obj[t].word = 1 ELSE Published(obj[t].id) = {1}

(* What the future's check answers.  A completion whose slot is gone is    *)
(* ready with its close error.                                             *)
Ready(t) ==
    IF obj[t].kind = "channel"
    THEN obj[t].word = 1
    ELSE obj[t].closed \/ Published(obj[t].id) # {0}

Check(t) ==
    /\ pc[t] = "check"
    /\ pc' = [pc EXCEPT ![t] = IF Ready(t) THEN "ready"
                               ELSE IF obj[t].kind = "channel" THEN "register" ELSE "observe"]
    /\ UNCHANGED <<slots, freelist, freeing, waking, obj, woken, owed>>

Observe(t) ==
    /\ pc[t] = "observe"
    /\ obj' = [obj EXCEPT ![t].seen = IF Published(obj[t].id) = {1} THEN 1 ELSE 0]
    /\ pc' = [pc EXCEPT ![t] = "register"]
    /\ UNCHANGED <<slots, freelist, freeing, waking, woken, owed>>

(* A slip: the caller registers in whatever lives in the slot by now.      *)
RegisterAtAnyGeneration(t) ==
    /\ pc[t] = "register"
    /\ slots' = [slots EXCEPT ![obj[t].id.index].waiter = {obj[t].seen},
                              ![obj[t].id.index].waker = t]
    /\ pc' = [pc EXCEPT ![t] = "recheck"]
    /\ UNCHANGED <<freelist, freeing, waking, obj, woken, owed>>

(* A slot that is no longer the caller's refuses; the caller asks to be    *)
(* polled again.                                                           *)
Register(t) ==
    /\ pc[t] = "register"
    /\ IF Live(obj[t].id)
       THEN /\ slots' = [slots EXCEPT ![obj[t].id.index].waiter = {obj[t].seen},
                                      ![obj[t].id.index].waker = t]
            /\ pc' = [pc EXCEPT ![t] = "recheck"]
            /\ UNCHANGED woken
       ELSE /\ woken' = woken \cup {t}
            /\ pc' = [pc EXCEPT ![t] = "asleep"]
            /\ UNCHANGED slots
    /\ UNCHANGED <<freelist, freeing, waking, obj, owed>>

Deregister(id) ==
    slots' = IF Live(id)
             THEN [slots EXCEPT ![id.index].waiter = {}, ![id.index].waker = None]
             ELSE slots

(* A slip: the future sleeps without checking again.                       *)
SleepsAtOnce(t) ==
    /\ pc[t] = "recheck"
    /\ pc' = [pc EXCEPT ![t] = "asleep"]
    /\ UNCHANGED <<slots, freelist, freeing, waking, obj, woken, owed>>

Recheck(t) ==
    /\ pc[t] = "recheck"
    /\ IF Ready(t)
       THEN Deregister(obj[t].id) /\ pc' = [pc EXCEPT ![t] = "ready"]
       ELSE pc' = [pc EXCEPT ![t] = "asleep"] /\ UNCHANGED slots
    /\ UNCHANGED <<freelist, freeing, waking, obj, woken, owed>>

Poll(t) ==
    /\ pc[t] = "asleep"
    /\ t \in woken
    /\ woken' = woken \ {t}
    /\ pc' = [pc EXCEPT ![t] = "check"]
    /\ UNCHANGED <<slots, freelist, freeing, waking, obj, owed>>

-----------------------------------------------------------------------------
(* drop, of a future that is ready or of one abandoned while it slept.  A  *)
(* completion reads its closed mark and frees in two steps, so a close may *)
(* free the same id in between.  A channel's endpoint deregisters its id   *)
(* before it frees it.                                                     *)

DropObj(t) ==
    /\ pc[t] \in {"ready", "asleep"}
    /\ IF obj[t].kind = "completion" /\ obj[t].closed
       THEN /\ obj' = [obj EXCEPT ![t] = NoObj]
            /\ pc' = [pc EXCEPT ![t] = "idle"]
            /\ UNCHANGED slots
       ELSE /\ IF obj[t].kind = "channel" THEN Deregister(obj[t].id) ELSE UNCHANGED slots
            /\ pc' = [pc EXCEPT ![t] = "free"]
            /\ UNCHANGED obj
    /\ UNCHANGED <<freelist, freeing, waking, woken, owed>>

DropFrees(t) ==
    /\ pc[t] = "free"
    /\ FreeLocked(obj[t].id)
    /\ obj' = [obj EXCEPT ![t] = NoObj]
    /\ pc' = [pc EXCEPT ![t] = "idle"]
    /\ UNCHANGED <<freelist, waking, woken, owed>>

-----------------------------------------------------------------------------
(* The other threads: the engine's callback and whoever closes the broker. *)

(* publish and wake under the lock.  A waiter asleep from an epoch that is *)
(* not behind the published one is left alone.                             *)
Signal(id, published, filtered) ==
    IF ~Live(id)
    THEN UNCHANGED <<slots, waking>>
    ELSE LET i == id.index
             s == slots[i]
             hit == \E observed \in s.waiter : ~filtered \/ published > observed
         IN  /\ slots' = [slots EXCEPT ![i] =
                    [s EXCEPT !.published = published,
                              !.waiter = IF hit THEN {} ELSE @,
                              !.waker = IF hit THEN None ELSE @]]
             /\ waking' = IF hit THEN waking \cup ({s.waker} \ {None}) ELSE waking

Publish(n) ==
    /\ n \in owed /\ n.kind = "publish"
    /\ Signal(n.id, 1, TRUE)
    /\ owed' = owed \ {n}
    /\ UNCHANGED <<freelist, freeing, obj, pc, woken>>

(* The engine advances a channel's word, then wakes the channel's reader.  *)
StoreWord(n) ==
    /\ n \in owed /\ n.kind = "store"
    /\ obj' = [t \in Tasks |-> IF obj[t].kind = "channel" /\ obj[t].id = n.id
                               THEN [obj[t] EXCEPT !.word = 1] ELSE obj[t]]
    /\ owed' = (owed \ {n}) \cup {[n EXCEPT !.kind = "wake"]}
    /\ UNCHANGED <<slots, freelist, freeing, waking, pc, woken>>

WakeSlot(n) ==
    /\ n \in owed /\ n.kind = "wake"
    /\ Signal(n.id, IF Live(n.id) THEN slots[n.id.index].published ELSE 0, FALSE)
    /\ owed' = owed \ {n}
    /\ UNCHANGED <<freelist, freeing, obj, pc, woken>>

CallWaker(t) ==
    /\ t \in waking
    /\ waking' = waking \ {t}
    /\ woken' = woken \cup {t}
    /\ UNCHANGED <<slots, freelist, freeing, obj, pc, owed>>

(* SubmissionCompletionState::close, from close_all: the first to mark it  *)
(* closed frees its slot, after the mark.                                  *)
Close(t) ==
    /\ obj[t].kind = "completion"
    /\ ~obj[t].closed
    /\ obj' = [obj EXCEPT ![t].closed = TRUE]
    /\ owed' = owed \cup {[id |-> obj[t].id, kind |-> "free"]}
    /\ UNCHANGED <<slots, freelist, freeing, waking, pc, woken>>

CloseFrees(n) ==
    /\ n \in owed /\ n.kind = "free"
    /\ FreeLocked(n.id)
    /\ owed' = owed \ {n}
    /\ UNCHANGED <<freelist, waking, obj, pc, woken>>

Next ==
    \/ \E t \in Tasks :
        \/ \E kind \in Kinds : Alloc(t, kind)
        \/ Check(t) \/ Observe(t) \/ Register(t) \/ Recheck(t) \/ Poll(t)
        \/ DropObj(t) \/ DropFrees(t) \/ CallWaker(t) \/ Close(t)
    \/ \E f \in freeing : FreeUnlocked(f)
    \/ \E n \in owed : Publish(n) \/ StoreWord(n) \/ WakeSlot(n) \/ CloseFrees(n)

Spec == Init /\ [][Next]_vars

(* The executor polls a woken task, a thread that unlocked goes on, and    *)
(* the engine answers what it was given.  Nothing makes a task drop a      *)
(* future it waits on, or a broker close.                                  *)
FairSpec ==
    /\ Spec
    /\ \A t \in Tasks :
        /\ WF_vars(Check(t) \/ Observe(t) \/ Register(t) \/ Recheck(t) \/ Poll(t))
        /\ WF_vars(CallWaker(t))
    /\ \A i \in Indices : WF_vars(\E f \in freeing : f.index = i /\ FreeUnlocked(f))
    /\ \A id \in Ids :
        WF_vars(\E n \in owed :
                    n.id = id /\ (Publish(n) \/ StoreWord(n) \/ WakeSlot(n) \/ CloseFrees(n)))

-----------------------------------------------------------------------------
CurrentId(i) == [gen |-> slots[i].gen, index |-> i]
Holds(t, id) == obj[t] # NoObj /\ obj[t].id = id

(* A slot is one thing at a time: on the free list once, on its way there, *)
(* retired, or held by exactly one live wait object (or by the close that  *)
(* has yet to free it).  A double free, a free through an old id, a reuse  *)
(* of a retired slot and a slot that leaks all break it.                   *)
SlotsConserved ==
    \A i \in DOMAIN slots :
        LET id == CurrentId(i)
            listed == {k \in DOMAIN freelist : freelist[k] = i}
            returning == {f \in freeing : f.index = i /\ f.recycle}
            holders == {t \in Tasks : Holds(t, id)}
            closing == IF [id |-> id, kind |-> "free"] \in owed /\ holders = {} THEN {i} ELSE {}
        IN  Cardinality(listed) + Cardinality(returning) + Cardinality(holders)
                + Cardinality(closing) + (IF slots[i].retired THEN 1 ELSE 0) = 1

(* An id that outlived its slot reaches nothing: a slot says published     *)
(* only after the callback owed to its own generation, and its waker is a  *)
(* task that waits through its present id (or one whose completion was     *)
(* closed, which its close is about to free).                              *)
StaleIdsReachNothing ==
    \A i \in DOMAIN slots :
        LET id == CurrentId(i)
        IN  /\ slots[i].published = 1 => [id |-> id, kind |-> "publish"] \notin owed
            /\ \A t \in Tasks :
                slots[i].waker = t => Holds(t, id) \/ [id |-> id, kind |-> "free"] \in owed

(* What alloc asserts of a slot it reuses: nothing of the last holder is   *)
(* left in it, so the next one is not born ready or with another's waker.  *)
ReusedSlotIsClean ==
    \A k \in DOMAIN freelist :
        LET s == slots[freelist[k]]
        IN  s.waiter = {} /\ s.published = 0 /\ s.waker = None

(* No wakeup is lost: a task that sleeps on something that is ready has    *)
(* been woken, or a thread is on its way to wake it.  Register does not    *)
(* look at what was published before it; the second check must.            *)
NoLostWakeup ==
    \A t \in Tasks :
        pc[t] = "asleep" /\ Ready(t) =>
            \/ t \in waking \cup woken
            \/ \E f \in freeing : f.waker = t
            \/ \E n \in owed : n.id = obj[t].id /\ n.kind \in {"wake", "free"}

(* Every wait ends: a future that is polled becomes ready or is dropped.   *)
EveryWaitEnds == \A t \in Tasks : pc[t] = "check" ~> pc[t] \in {"ready", "free", "idle"}

=============================================================================
