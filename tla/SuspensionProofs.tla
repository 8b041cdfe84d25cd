------------------------- MODULE SuspensionProofs -------------------------
(***************************************************************************)
(* Proofs about Suspension for any number of fires and of eviction tasks.  *)
(*                                                                         *)
(* ReleaseInv is inductive on its own: the lease counter is exact, where a *)
(* thread stands tells what it holds, and once release is asked for the    *)
(* counter only falls. FenceInv, which needs that no two evictions of the  *)
(* working set overlap, ties the fence to the executors and the planner's  *)
(* state of the process.                                                   *)
(***************************************************************************)
EXTENDS Suspension, PageCustody, FiniteSetTheorems, TLAPS

(* Each thread stays within its own code, and a thread inside maybe_release *)
(* goes on to the notification, or, for the releasing process, to its drop. *)
PcOK ==
  /\ pc[Owner] \in OwnerAt
  /\ \A f \in Fires : pc[f] \in FireAt
  /\ \A e \in Evictors : pc[e] \in EvictorAt
  /\ pc[Owner] \in Releasing => next[Owner] \in {"notify", "drop"}
  /\ \A f \in Fires : pc[f] \in Releasing => next[f] = "notify"

(* The counter is the granted leases and the one the process is asking for. *)
OwnerHolds == IF pc[Owner] \in {"recheck", "loadFence", "sub"} THEN 1 ELSE 0
CountExact == leases = Cardinality(held) + OwnerHolds

(* Who holds a lease or an Arc is read off where the threads stand. *)
HoldersKnown ==
  /\ \A f \in Fires : (f \in held <=> pc[f] = "held") /\ (f \in refs <=> pc[f] # "idle")
  /\ Owner \in refs <=> pc[Owner] # "gone"
  /\ \A e \in Evictors : e \in refs <=> pc[e] \in {"enable", "reload", "await"}

OwnerIsDone ==
  \/ pc[Owner] \in {"drop", "gone"}
  \/ pc[Owner] \in Releasing /\ next[Owner] = "drop"

(* Once release is asked for the process asks for no lease any more, so a   *)
(* counter seen at zero stays there; one thread at most is between its swap *)
(* and the KV store.                                                        *)
ReleasePath ==
  /\ rr \/ rrBuffered => OwnerIsDone
  /\ released => rr \/ rrBuffered
  /\ \A t \in Threads : pc[t] \in {"loadLeases", "swap", "kv"} => SeesRR(t)
  /\ \A t \in Threads : pc[t] \in {"swap", "kv"} => leases = 0
  /\ released => leases = 0
  /\ \A t \in Threads : pc[t] = "kv" => released /\ kvReleases = 0
  /\ \A s, t \in Threads : pc[s] = "kv" /\ pc[t] = "kv" => s = t
  /\ kvReleases \in {0, 1}
  /\ kvReleases = 1 => released
  /\ refs = {} => released

ReleaseInv == TypeOK /\ PcOK /\ CountExact /\ HoldersKnown /\ ReleasePath

(* A set of fires is finite; granting or dropping a lease counts by one. *)
LEMMA LeaseCount ==
  ASSUME NEW S \in SUBSET Fires
  PROVE  /\ Cardinality(S) \in Nat
         /\ Cardinality(S) <= Cardinality(Fires)
         /\ Cardinality(Fires) \in Nat
         /\ Cardinality(S) = 0 <=> S = {}
         /\ \A f \in Fires \ S : Cardinality(S \cup {f}) = Cardinality(S) + 1
         /\ \A f \in S : Cardinality(S \ {f}) = Cardinality(S) - 1
<1>1. IsFiniteSet(Fires) /\ IsFiniteSet(S)
  BY ThreadsAssumption, FS_Subset
<1>2. Cardinality(S) \in Nat /\ Cardinality(Fires) \in Nat
  BY <1>1, FS_CardinalityType
<1>3. Cardinality(S) <= Cardinality(Fires)
  BY <1>1, FS_Subset
<1>4. Cardinality(S) = 0 <=> S = {}
  BY <1>1, FS_EmptySet
<1>5. ASSUME NEW f \in Fires \ S PROVE Cardinality(S \cup {f}) = Cardinality(S) + 1
  BY <1>1, FS_AddElement
<1>6. ASSUME NEW f \in S PROVE Cardinality(S \ {f}) = Cardinality(S) - 1
  BY <1>1, FS_RemoveElement
<1> QED BY <1>2, <1>3, <1>4, <1>5, <1>6

(* Dropping an Arc keeps what is released released, and the last one        *)
(* releases what is left, once, provided no lease is out.                   *)
LEMMA DropRefReleases ==
  ASSUME ReleaseInv, NEW t \in refs, DropRef(t), refs = {t} => leases = 0
  PROVE  /\ refs' = refs \ {t}
         /\ rr' \in BOOLEAN /\ rrBuffered' \in BOOLEAN /\ released' \in BOOLEAN
         /\ refs = {t} => rr' /\ released'
         /\ refs # {t} => (rr' \/ rrBuffered' => rr \/ rrBuffered)
         /\ refs # {t} => (released' <=> released) /\ kvReleases' = kvReleases
         /\ \A s \in Threads : SeesRR(s) => SeesRR(s)'
         /\ released => released' /\ kvReleases' = kvReleases
         /\ ~released /\ refs = {t} => kvReleases' = 1
<1> USE DEF ReleaseInv, TypeOK, Drain, SeesRR
<1>1. kvReleases \in Nat /\ (~released => kvReleases = 0)
  BY DEF ReleasePath
<1>2. CASE refs = {t}
  <2>1. /\ rr' = TRUE /\ rrBuffered' = FALSE /\ released' = TRUE
        /\ kvReleases' = IF ~released THEN kvReleases + 1 ELSE kvReleases
        /\ refs' = refs \ {t}
    BY <1>2 DEF DropRef
  <2>2. /\ rr' \in BOOLEAN /\ rrBuffered' \in BOOLEAN /\ released' \in BOOLEAN
        /\ rr' /\ released' /\ \A s \in Threads : SeesRR(s)'
    BY <2>1
  <2>3. kvReleases' = IF ~released THEN 1 ELSE kvReleases
    BY <1>1, <2>1
  <2> QED BY <1>2, <2>1, <2>2, <2>3
<1>3. CASE refs # {t}
  <2>1. Drain(t) /\ UNCHANGED <<released, kvReleases>> /\ refs' = refs \ {t}
    BY <1>3 DEF DropRef
  <2>2. /\ rr' \in BOOLEAN /\ rrBuffered' \in BOOLEAN
        /\ rr' \/ rrBuffered' => rr \/ rrBuffered
        /\ \A s \in Threads : SeesRR(s) => SeesRR(s)'
    BY <2>1
  <2> QED BY <1>3, <2>1, <2>2
<1> QED BY <1>2, <1>3

(* An Arc is dropped by the process, by a completed fire or by an executor  *)
(* that waited for the leases.                                              *)
LEMMA ArcDropped ==
  ASSUME ReleaseInv, NEW t \in Threads, NEW at, DropRef(t), pc' = [pc EXCEPT ![t] = at],
         \/ t = Owner /\ pc[t] = "drop" /\ at = "gone"
         \/ t \in Fires /\ pc[t] = "drop" /\ at = "idle"
         \/ t \in Evictors /\ pc[t] \in {"reload", "await"} /\ at \in {"prepare", "load"},
         waiting' \subseteq Evictors, UNCHANGED <<ledger, planner, fence, next>>
  PROVE  ReleaseInv'
<1> USE ThreadsAssumption DEF ledger, planner, Threads, Releasing, OwnerAt, FireAt, EvictorAt
<1>1. TypeOK /\ PcOK /\ CountExact /\ HoldersKnown /\ ReleasePath
  BY DEF ReleaseInv
<1>2. Cardinality(held) = 0 <=> held = {}
  BY <1>1, LeaseCount DEF TypeOK
<1>3. t \in refs /\ (refs = {t} => held = {} /\ leases = 0 /\ (t = Owner \/ pc[Owner] = "gone"))
  BY <1>1, <1>2 DEF HoldersKnown, CountExact, OwnerHolds, TypeOK
<1>4. /\ refs' = refs \ {t}
      /\ rr' \in BOOLEAN /\ rrBuffered' \in BOOLEAN /\ released' \in BOOLEAN
      /\ refs = {t} => rr' /\ released'
      /\ refs # {t} => (rr' \/ rrBuffered' => rr \/ rrBuffered)
      /\ refs # {t} => (released' <=> released) /\ kvReleases' = kvReleases
      /\ \A s \in Threads : SeesRR(s) => SeesRR(s)'
      /\ released => released' /\ kvReleases' = kvReleases
      /\ ~released /\ refs = {t} => kvReleases' = 1
  BY <1>3, DropRefReleases
<1>5. PcOK' /\ CountExact'
  BY <1>1 DEF TypeOK, PcOK, CountExact, OwnerHolds
<1>6. HoldersKnown'
  BY <1>1, <1>4 DEF TypeOK, PcOK, HoldersKnown
<1>7. TypeOK'
  BY <1>1, <1>4 DEF TypeOK, ReleasePath
<1>8. ReleasePath'
  BY <1>1, <1>3, <1>4 DEF TypeOK, PcOK, ReleasePath, OwnerIsDone, HoldersKnown, SeesRR
<1> QED BY <1>5, <1>6, <1>7, <1>8 DEF ReleaseInv

(* A step of an executor that takes or gives up no Arc. *)
LEMMA EvictorMoves ==
  ASSUME ReleaseInv, NEW e \in Evictors, NEW at \in EvictorAt,
         pc' = [pc EXCEPT ![e] = at],
         pc[e] \in {"enable", "reload", "await"} <=> at \in {"enable", "reload", "await"},
         UNCHANGED <<arc, ledger, next>>,
         fence' \in BOOLEAN, waiting' \subseteq Evictors, suspended' \in BOOLEAN,
         residency' \in {"Resident", "Evicting", "Evicted", "Restoring", "Gone"},
         restoring' \in {"idle", "copy", "unfence", "report"}
  PROVE  ReleaseInv'
<1> USE ThreadsAssumption DEF arc, ledger, Threads, Releasing, OwnerAt, FireAt, EvictorAt
<1>1. TypeOK /\ PcOK /\ CountExact /\ HoldersKnown /\ ReleasePath
  BY DEF ReleaseInv
<1>2. TypeOK' /\ PcOK'
  BY <1>1 DEF TypeOK, PcOK
<1>3. CountExact' /\ HoldersKnown'
  BY <1>1 DEF TypeOK, PcOK, CountExact, OwnerHolds, HoldersKnown
<1>4. ReleasePath'
  BY <1>1 DEF TypeOK, PcOK, ReleasePath, OwnerIsDone, SeesRR
<1> QED BY <1>2, <1>3, <1>4 DEF ReleaseInv

(* A step of the planner or the restore executor. *)
LEMMA PlannerMoves ==
  ASSUME ReleaseInv, UNCHANGED <<arc, ledger, control, waiting>>,
         fence' \in BOOLEAN, suspended' \in BOOLEAN,
         residency' \in {"Resident", "Evicting", "Evicted", "Restoring", "Gone"},
         restoring' \in {"idle", "copy", "unfence", "report"}
  PROVE  ReleaseInv'
BY DEF arc, ledger, control, ReleaseInv, TypeOK, PcOK, CountExact, OwnerHolds, HoldersKnown,
       ReleasePath, OwnerIsDone, SeesRR

(* Every access of acquire_fire_lease, maybe_release, quiesce and Drop keeps *)
(* the counter exact and the release single, whatever the interleaving.     *)
THEOREM ReleaseInvInductive ==
  /\ Init => ReleaseInv
  /\ ReleaseInv /\ [Next]_vars => ReleaseInv'
<1> USE ThreadsAssumption DEF arc, ledger, quiesce, planner, control, Threads, Releasing,
        OwnerAt, FireAt, EvictorAt
<1>1. Init => ReleaseInv
  <2> HAVE Init
  <2>1. Cardinality({}) = 0 /\ Cardinality(Fires) \in Nat
    BY LeaseCount
  <2>2. TypeOK
    <3>1. /\ rr \in BOOLEAN /\ rrBuffered \in BOOLEAN /\ released \in BOOLEAN
          /\ fence \in BOOLEAN /\ suspended \in BOOLEAN
      BY DEF Init
    <3>2. leases \in 0..(Cardinality(Fires) + 1)
      BY <2>1 DEF Init
    <3>3. /\ pc \in [Threads -> OwnerAt \cup FireAt \cup EvictorAt]
          /\ next \in [Threads -> OwnerAt \cup FireAt]
      BY DEF Init
    <3>4. /\ refs \subseteq Threads
          /\ residency \in {"Resident", "Evicting", "Evicted", "Restoring", "Gone"}
          /\ restoring \in {"idle", "copy", "unfence", "report"}
      BY DEF Init
    <3>5. /\ kvReleases \in 0..2 /\ held \subseteq Fires
          /\ lastOne \subseteq Threads /\ waiting \subseteq Evictors
      BY DEF Init
    <3> QED BY <3>1, <3>2, <3>3, <3>4, <3>5 DEF TypeOK
  <2>3. PcOK /\ CountExact /\ HoldersKnown /\ ReleasePath
    BY <2>1 DEF Init, PcOK, CountExact, OwnerHolds, HoldersKnown, ReleasePath, OwnerIsDone, SeesRR
  <2> QED BY <2>2, <2>3 DEF ReleaseInv
<1>2. ReleaseInv /\ [Next]_vars => ReleaseInv'
  <2> SUFFICES ASSUME ReleaseInv, [Next]_vars PROVE ReleaseInv'
    OBVIOUS
  <2>0. TypeOK /\ PcOK /\ CountExact /\ HoldersKnown /\ ReleasePath
    BY DEF ReleaseInv
  <2>1. /\ Cardinality(held) \in Nat /\ Cardinality(held) <= Cardinality(Fires)
        /\ Cardinality(Fires) \in Nat /\ (Cardinality(held) = 0 <=> held = {})
        /\ \A f \in Fires \ held : Cardinality(held \cup {f}) = Cardinality(held) + 1
        /\ \A f \in held : Cardinality(held \ {f}) = Cardinality(held) - 1
    BY <2>0, LeaseCount DEF TypeOK
  <2> USE DEF Go, MaybeRelease, Drain, SeesRR
  <2>2. CASE StoreLands
    <3>1. /\ rr' /\ ~rrBuffered' /\ rrBuffered /\ (released' <=> released)
          /\ rr' \in BOOLEAN /\ rrBuffered' \in BOOLEAN
      BY <2>2 DEF StoreLands
    <3>2. UNCHANGED <<pc, next, leases, held, kvReleases, refs>>
      BY <2>2 DEF StoreLands
    <3>3. TypeOK'
      BY <2>0, <2>2, <3>1 DEF StoreLands, TypeOK
    <3>4. PcOK' /\ CountExact' /\ HoldersKnown'
      BY <2>0, <3>2 DEF PcOK, CountExact, OwnerHolds, HoldersKnown
    <3>5. ReleasePath'
      BY <2>0, <3>1, <3>2 DEF ReleasePath, OwnerIsDone
    <3> QED BY <3>3, <3>4, <3>5 DEF ReleaseInv
  <2>3. ASSUME NEW t \in {Owner} \cup Fires, LoadRR(t) PROVE ReleaseInv'
    <3>1. TypeOK' /\ PcOK'
      BY <2>0, <2>3 DEF LoadRR, TypeOK, PcOK
    <3>2. CountExact' /\ HoldersKnown'
      BY <2>0, <2>3 DEF LoadRR, TypeOK, PcOK, CountExact, OwnerHolds, HoldersKnown
    <3>3. ReleasePath'
      BY <2>0, <2>3 DEF LoadRR, TypeOK, PcOK, ReleasePath, OwnerIsDone
    <3> QED BY <3>1, <3>2, <3>3 DEF ReleaseInv
  <2>4. ASSUME NEW t \in {Owner} \cup Fires, LoadLeases(t) PROVE ReleaseInv'
    <3>1. TypeOK' /\ PcOK'
      BY <2>0, <2>4 DEF LoadLeases, TypeOK, PcOK
    <3>2. CountExact' /\ HoldersKnown'
      BY <2>0, <2>4 DEF LoadLeases, TypeOK, PcOK, CountExact, OwnerHolds, HoldersKnown
    <3>3. ReleasePath'
      BY <2>0, <2>4 DEF LoadLeases, TypeOK, PcOK, ReleasePath, OwnerIsDone
    <3> QED BY <3>1, <3>2, <3>3 DEF ReleaseInv
  <2>5. ASSUME NEW t \in {Owner} \cup Fires, SwapReleased(t) PROVE ReleaseInv'
    <3>1. rr' \in BOOLEAN /\ rrBuffered' \in BOOLEAN /\ released' \in BOOLEAN
      BY <2>0, <2>5 DEF SwapReleased, TypeOK
    <3>2. /\ released' /\ leases = 0 /\ SeesRR(t)
          /\ rr' \/ rrBuffered' <=> rr \/ rrBuffered
          /\ \A s \in Threads : SeesRR(s) => SeesRR(s)'
      BY <2>0, <2>5 DEF SwapReleased, ReleasePath
    <3>3. /\ pc' = [pc EXCEPT ![t] = IF released THEN next[t] ELSE "kv"]
          /\ pc[t] = "swap"
          /\ UNCHANGED <<ledger, quiesce, planner, next, kvReleases, refs>>
      BY <2>5 DEF SwapReleased
    <3>4. TypeOK' /\ PcOK'
      BY <2>0, <3>1, <3>3 DEF TypeOK, PcOK
    <3>5. CountExact' /\ HoldersKnown'
      BY <2>0, <3>3 DEF TypeOK, PcOK, CountExact, OwnerHolds, HoldersKnown
    <3>6. ReleasePath'
      BY <2>0, <3>2, <3>3 DEF TypeOK, PcOK, ReleasePath, OwnerIsDone
    <3> QED BY <3>4, <3>5, <3>6 DEF ReleaseInv
  <2>6. ASSUME NEW t \in {Owner} \cup Fires, ReleaseInStore(t) PROVE ReleaseInv'
    <3>1. TypeOK' /\ PcOK'
      BY <2>0, <2>6 DEF ReleaseInStore, TypeOK, PcOK, ReleasePath
    <3>2. CountExact' /\ HoldersKnown'
      BY <2>0, <2>6 DEF ReleaseInStore, TypeOK, PcOK, CountExact, OwnerHolds, HoldersKnown
    <3>3. ReleasePath'
      BY <2>0, <2>6 DEF ReleaseInStore, TypeOK, PcOK, ReleasePath, OwnerIsDone
    <3> QED BY <3>1, <3>2, <3>3 DEF ReleaseInv
  <2>7. CASE Gate
    <3>1. TypeOK' /\ PcOK'
      BY <2>0, <2>7 DEF Gate, TypeOK, PcOK
    <3>2. CountExact' /\ HoldersKnown'
      BY <2>0, <2>7 DEF Gate, TypeOK, PcOK, CountExact, OwnerHolds, HoldersKnown
    <3>3. ReleasePath'
      BY <2>0, <2>7 DEF Gate, TypeOK, PcOK, ReleasePath, OwnerIsDone
    <3> QED BY <3>1, <3>2, <3>3 DEF ReleaseInv
  <2>8. CASE LeaseCheck
    <3>1. TypeOK' /\ PcOK'
      BY <2>0, <2>8 DEF LeaseCheck, TypeOK, PcOK
    <3>2. CountExact' /\ HoldersKnown'
      BY <2>0, <2>8 DEF LeaseCheck, TypeOK, PcOK, CountExact, OwnerHolds, HoldersKnown
    <3>3. ReleasePath'
      BY <2>0, <2>8 DEF LeaseCheck, TypeOK, PcOK, ReleasePath, OwnerIsDone
    <3> QED BY <3>1, <3>2, <3>3 DEF ReleaseInv
  <2>9. CASE LeaseRecheck
    <3>1. TypeOK' /\ PcOK'
      BY <2>0, <2>9 DEF LeaseRecheck, TypeOK, PcOK
    <3>2. CountExact' /\ HoldersKnown'
      BY <2>0, <2>9 DEF LeaseRecheck, TypeOK, PcOK, CountExact, OwnerHolds, HoldersKnown
    <3>3. ReleasePath'
      BY <2>0, <2>9 DEF LeaseRecheck, TypeOK, PcOK, ReleasePath, OwnerIsDone
    <3> QED BY <3>1, <3>2, <3>3 DEF ReleaseInv
  <2>10. CASE WaitResident
    <3>1. TypeOK' /\ PcOK'
      BY <2>0, <2>10 DEF WaitResident, TypeOK, PcOK
    <3>2. CountExact' /\ HoldersKnown'
      BY <2>0, <2>10 DEF WaitResident, TypeOK, PcOK, CountExact, OwnerHolds, HoldersKnown
    <3>3. ReleasePath'
      BY <2>0, <2>10 DEF WaitResident, TypeOK, PcOK, ReleasePath, OwnerIsDone
    <3> QED BY <3>1, <3>2, <3>3 DEF ReleaseInv
  <2>11. CASE LeaseAdd
    <3>1. ~rr /\ ~rrBuffered /\ ~rr' /\ ~rrBuffered' /\ rr' \in BOOLEAN /\ rrBuffered' \in BOOLEAN
      BY <2>0, <2>11 DEF LeaseAdd, ReleasePath, OwnerIsDone, PcOK
    <3>2. /\ pc[Owner] = "add" /\ pc' = [pc EXCEPT ![Owner] = "recheck"]
          /\ leases' = leases + 1
          /\ UNCHANGED <<quiesce, planner, released, refs, kvReleases, held, lastOne, next>>
      BY <2>11 DEF LeaseAdd
    <3>3. CountExact' /\ leases' \in 0..(Cardinality(Fires) + 1)
      BY <2>0, <2>1, <3>2 DEF TypeOK, PcOK, CountExact, OwnerHolds
    <3>4. TypeOK' /\ PcOK'
      BY <2>0, <3>1, <3>2, <3>3 DEF TypeOK, PcOK
    <3>5. HoldersKnown'
      BY <2>0, <3>2 DEF TypeOK, PcOK, HoldersKnown
    <3>6. ReleasePath'
      BY <2>0, <3>1, <3>2 DEF TypeOK, PcOK, ReleasePath, OwnerIsDone
    <3> QED BY <3>3, <3>4, <3>5, <3>6 DEF ReleaseInv
  <2>12. CASE LeaseFence
    <3>1. CASE fence
      <4>1. /\ pc[Owner] = "loadFence" /\ pc' = [pc EXCEPT ![Owner] = "sub"]
            /\ UNCHANGED <<arc, ledger, quiesce, planner, next>>
        BY <2>12, <3>1 DEF LeaseFence
      <4>2. TypeOK' /\ PcOK'
        BY <2>0, <4>1 DEF TypeOK, PcOK
      <4>3. CountExact' /\ HoldersKnown'
        BY <2>0, <4>1 DEF TypeOK, PcOK, CountExact, OwnerHolds, HoldersKnown
      <4>4. ReleasePath'
        BY <2>0, <4>1 DEF TypeOK, PcOK, ReleasePath, OwnerIsDone
      <4> QED BY <4>2, <4>3, <4>4 DEF ReleaseInv
    <3>2. CASE ~fence
      <4>1. PICK f \in Fires : /\ pc[f] = "idle"
                               /\ held' = held \cup {f}
                               /\ refs' = refs \cup {f}
                               /\ pc' = [pc EXCEPT ![Owner] = "idle", ![f] = "held"]
        BY <2>12, <3>2 DEF LeaseFence
      <4>2. /\ pc[Owner] = "loadFence"
            /\ UNCHANGED <<quiesce, planner, rr, rrBuffered, released, leases, kvReleases,
                           lastOne, next>>
        BY <2>12 DEF LeaseFence
      <4>3. TypeOK' /\ PcOK'
        BY <2>0, <4>1, <4>2 DEF TypeOK, PcOK
      <4>4. f \notin held
        BY <2>0, <4>1 DEF HoldersKnown
      <4>5. CountExact'
        BY <2>0, <2>1, <4>1, <4>2, <4>4 DEF TypeOK, PcOK, CountExact, OwnerHolds
      <4>6. HoldersKnown'
        BY <2>0, <4>1, <4>2 DEF TypeOK, PcOK, HoldersKnown
      <4>7. ReleasePath'
        BY <2>0, <2>1, <4>1, <4>2 DEF TypeOK, PcOK, ReleasePath, OwnerIsDone, CountExact, OwnerHolds
      <4> QED BY <4>3, <4>5, <4>6, <4>7 DEF ReleaseInv
    <3> QED BY <3>1, <3>2
  <2>13. CASE LeaseRefused
    <3>1. ~rr /\ ~rrBuffered /\ ~rr' /\ ~rrBuffered' /\ rr' \in BOOLEAN /\ rrBuffered' \in BOOLEAN
      BY <2>0, <2>13 DEF LeaseRefused, ReleasePath, OwnerIsDone, PcOK
    <3>2. /\ pc[Owner] = "sub" /\ pc' = [pc EXCEPT ![Owner] = "loadRR"]
          /\ leases' = leases - 1
          /\ next' = [next EXCEPT ![Owner] = "notify"]
          /\ lastOne' = IF leases = 1 THEN lastOne \cup {Owner} ELSE lastOne
          /\ UNCHANGED <<quiesce, planner, released, refs, kvReleases, held>>
      BY <2>13 DEF LeaseRefused
    <3>3. CountExact' /\ leases' \in 0..(Cardinality(Fires) + 1)
      BY <2>0, <2>1, <3>2 DEF TypeOK, PcOK, CountExact, OwnerHolds
    <3>4. TypeOK' /\ PcOK'
      BY <2>0, <3>1, <3>2, <3>3 DEF TypeOK, PcOK
    <3>5. HoldersKnown'
      BY <2>0, <3>2 DEF TypeOK, PcOK, HoldersKnown
    <3>6. ReleasePath'
      BY <2>0, <2>1, <3>1, <3>2 DEF TypeOK, PcOK, ReleasePath, OwnerIsDone
    <3> QED BY <3>3, <3>4, <3>5, <3>6 DEF ReleaseInv
  <2>14. CASE RefusedNotify
    <3>1. TypeOK' /\ PcOK'
      BY <2>0, <2>14 DEF RefusedNotify, Notify, TypeOK, PcOK
    <3>2. CountExact' /\ HoldersKnown'
      BY <2>0, <2>14 DEF RefusedNotify, TypeOK, PcOK, CountExact, OwnerHolds, HoldersKnown
    <3>3. ReleasePath'
      BY <2>0, <2>14 DEF RefusedNotify, TypeOK, PcOK, ReleasePath, OwnerIsDone
    <3> QED BY <3>1, <3>2, <3>3 DEF ReleaseInv
  <2>15. CASE OwnerRelease
    <3>1. ~rr /\ rrBuffered' /\ rrBuffered' \in BOOLEAN /\ ~released
      BY <2>0, <2>15 DEF OwnerRelease, ReleasePath, OwnerIsDone, PcOK
    <3>2. /\ pc[Owner] = "release" /\ pc' = [pc EXCEPT ![Owner] = "loadRR"]
          /\ next' = [next EXCEPT ![Owner] = "drop"]
          /\ UNCHANGED <<ledger, quiesce, planner, rr, released, refs, kvReleases>>
      BY <2>15 DEF OwnerRelease
    <3>3. TypeOK' /\ PcOK'
      BY <2>0, <3>1, <3>2 DEF TypeOK, PcOK
    <3>4. CountExact' /\ HoldersKnown'
      BY <2>0, <3>2 DEF TypeOK, PcOK, CountExact, OwnerHolds, HoldersKnown
    <3>5. ReleasePath'
      BY <2>0, <3>1, <3>2 DEF TypeOK, PcOK, ReleasePath, OwnerIsDone
    <3> QED BY <3>3, <3>4, <3>5 DEF ReleaseInv
  <2>16. CASE ProcessEnds
    <3>1. TypeOK' /\ PcOK'
      BY <2>0, <2>16 DEF ProcessEnds, TypeOK, PcOK
    <3>2. CountExact' /\ HoldersKnown'
      BY <2>0, <2>16 DEF ProcessEnds, TypeOK, PcOK, CountExact, OwnerHolds, HoldersKnown
    <3>3. ReleasePath'
      BY <2>0, <2>16 DEF ProcessEnds, TypeOK, PcOK, ReleasePath, OwnerIsDone
    <3> QED BY <3>1, <3>2, <3>3 DEF ReleaseInv
  <2>17. CASE OwnerDrops
    BY <2>0, <2>17, ArcDropped DEF OwnerDrops, TypeOK
  <2>18. ASSUME NEW f \in Fires, FireDone(f) PROVE ReleaseInv'
    <3>1. /\ pc[f] = "held" /\ f \in held
          /\ held' = held \ {f} /\ leases' = leases - 1
          /\ UNCHANGED <<arc, quiesce, planner>>
          /\ leases \in Nat /\ leases # 0
      BY <2>0, <2>1, <2>18 DEF FireDone, HoldersKnown, CountExact, OwnerHolds, TypeOK
    <3>2. \/ /\ pc' = [pc EXCEPT ![f] = "loadRR"] /\ next' = [next EXCEPT ![f] = "notify"]
             /\ lastOne' = lastOne \cup {f}
          \/ /\ pc' = [pc EXCEPT ![f] = "drop"] /\ next' = next /\ lastOne' = lastOne
      BY <2>18 DEF FireDone
    <3>3. PcOK' /\ HoldersKnown'
      BY <2>0, <3>1, <3>2 DEF TypeOK, PcOK, HoldersKnown
    <3>4. CountExact'
      BY <2>0, <2>1, <3>1, <3>2 DEF TypeOK, PcOK, CountExact, OwnerHolds
    <3>5. TypeOK'
      BY <2>0, <2>1, <3>1, <3>2 DEF TypeOK
    <3>6. ReleasePath'
      BY <2>0, <3>1, <3>2 DEF TypeOK, PcOK, ReleasePath, OwnerIsDone
    <3> QED BY <3>3, <3>4, <3>5, <3>6 DEF ReleaseInv
  <2>19. ASSUME NEW f \in Fires, FireNotify(f) PROVE ReleaseInv'
    <3>1. TypeOK' /\ PcOK'
      BY <2>0, <2>19 DEF FireNotify, Notify, TypeOK, PcOK
    <3>2. CountExact' /\ HoldersKnown'
      BY <2>0, <2>19 DEF FireNotify, TypeOK, PcOK, CountExact, OwnerHolds, HoldersKnown
    <3>3. ReleasePath'
      BY <2>0, <2>19 DEF FireNotify, TypeOK, PcOK, ReleasePath, OwnerIsDone
    <3> QED BY <3>1, <3>2, <3>3 DEF ReleaseInv
  <2>20. ASSUME NEW f \in Fires, FireDrops(f) PROVE ReleaseInv'
    BY <2>0, <2>20, ArcDropped DEF FireDrops, TypeOK
  <2>21. ASSUME NEW e \in Evictors, BeginEviction(e) PROVE ReleaseInv'
    BY <2>0, <2>21, EvictorMoves DEF BeginEviction, TypeOK
  <2>22. ASSUME NEW e \in Evictors, EvictionFindsNothing(e) PROVE ReleaseInv'
    BY <2>0, <2>22, EvictorMoves DEF EvictionFindsNothing, TypeOK
  <2>23. ASSUME NEW e \in Evictors, RaiseFence(e) PROVE ReleaseInv'
    <3>1. fence' \in BOOLEAN
      BY <2>23 DEF RaiseFence
    <3> QED BY <2>0, <2>23, <3>1, EvictorMoves DEF RaiseFence, TypeOK
  <2>24. ASSUME NEW e \in Evictors, QuiesceLoad(e) PROVE ReleaseInv'
    <3>1. CASE Alive /\ leases # 0
      <4>1. /\ pc[e] = "load" /\ pc' = [pc EXCEPT ![e] = "enable"] /\ refs' = refs \cup {e}
            /\ UNCHANGED <<ledger, quiesce, planner, rr, rrBuffered, released, kvReleases, next>>
        BY <2>24, <3>1 DEF QuiesceLoad
      <4>2. TypeOK' /\ PcOK'
        BY <2>0, <4>1 DEF TypeOK, PcOK
      <4>3. CountExact' /\ HoldersKnown'
        BY <2>0, <4>1 DEF TypeOK, PcOK, CountExact, OwnerHolds, HoldersKnown
      <4>4. ReleasePath'
        BY <2>0, <4>1 DEF TypeOK, PcOK, ReleasePath, OwnerIsDone
      <4> QED BY <4>2, <4>3, <4>4 DEF ReleaseInv
    <3>2. CASE ~(Alive /\ leases # 0)
      BY <2>0, <2>24, <3>2, EvictorMoves DEF QuiesceLoad, TypeOK
    <3> QED BY <3>1, <3>2
  <2>25. ASSUME NEW e \in Evictors, QuiesceEnable(e) PROVE ReleaseInv'
    <3>1. /\ pc[e] = "enable" /\ pc' = [pc EXCEPT ![e] = "reload"]
          /\ waiting' \subseteq Evictors
          /\ UNCHANGED <<arc, ledger, planner, fence, next>>
      BY <2>0, <2>25 DEF QuiesceEnable, TypeOK
    <3> QED BY <2>0, <3>1, EvictorMoves DEF TypeOK
  <2>26. ASSUME NEW e \in Evictors, QuiesceReload(e) PROVE ReleaseInv'
    <3>1. CASE leases = 0
      BY <2>0, <2>26, <3>1, ArcDropped DEF QuiesceReload, TypeOK
    <3>2. CASE leases # 0
      BY <2>0, <2>26, <3>2, EvictorMoves DEF QuiesceReload, TypeOK
    <3> QED BY <3>1, <3>2
  <2>27. ASSUME NEW e \in Evictors, QuiesceWoken(e) PROVE ReleaseInv'
    BY <2>0, <2>27, ArcDropped DEF QuiesceWoken, TypeOK
  <2>28. ASSUME NEW e \in Evictors, PrepareSuspend(e) PROVE ReleaseInv'
    BY <2>0, <2>28, EvictorMoves DEF PrepareSuspend, TypeOK
  <2>29. ASSUME NEW e \in Evictors, CommitSuspend(e) PROVE ReleaseInv'
    <3>1. suspended' \in BOOLEAN
      BY <2>29 DEF CommitSuspend
    <3> QED BY <2>0, <2>29, <3>1, EvictorMoves DEF CommitSuspend, TypeOK
  <2>30. ASSUME NEW e \in Evictors, ReportEvicted(e) PROVE ReleaseInv'
    BY <2>0, <2>30, EvictorMoves DEF ReportEvicted, TypeOK
  <2>31. ASSUME NEW e \in Evictors, EvictionFails(e) PROVE ReleaseInv'
    BY <2>0, <2>31, EvictorMoves DEF EvictionFails, TypeOK
  <2>32. ASSUME NEW e \in Evictors, LowerFence(e) PROVE ReleaseInv'
    <3>1. fence' \in BOOLEAN
      BY <2>32 DEF LowerFence
    <3> QED BY <2>0, <2>32, <3>1, EvictorMoves DEF LowerFence, TypeOK
  <2>33. CASE BeginRestore
    BY <2>0, <2>33, PlannerMoves DEF BeginRestore, TypeOK
  <2>34. CASE RestoreStep
    <3>1. fence' \in BOOLEAN /\ suspended' \in BOOLEAN
      BY <2>0, <2>34
         DEF RestoreStep, RestoreFails, CommitRestore, RestoreUnfences, ReportRestored, TypeOK
    <3> QED BY <2>0, <2>34, <3>1, PlannerMoves
         DEF RestoreStep, RestoreFails, CommitRestore, RestoreUnfences, ReportRestored, TypeOK
  <2>35. CASE UNCHANGED vars
    <3>1. UNCHANGED <<arc, ledger, control, waiting, fence, suspended, residency, restoring>>
      BY <2>35 DEF vars
    <3> QED BY <2>0, <3>1, PlannerMoves DEF TypeOK
  <2> QED
    BY <2>2, <2>3, <2>4, <2>5, <2>6, <2>7, <2>8, <2>9, <2>10, <2>11, <2>12, <2>13, <2>14,
       <2>15, <2>16, <2>17, <2>18, <2>19, <2>20, <2>21, <2>22, <2>23, <2>24, <2>25, <2>26,
       <2>27, <2>28, <2>29, <2>30, <2>31, <2>32, <2>33, <2>34, <2>35
       DEF Next, OwnerStep, FireStep, EvictStep, MaybeReleaseStep
<1> QED BY <1>1, <1>2

(* What the inductive invariant says of a release. *)
LEMMA ReleaseInvImplies == ReleaseInv => ReleasedOnceAndIdle /\ NothingLeaks
<1> SUFFICES ASSUME ReleaseInv PROVE ReleasedOnceAndIdle /\ NothingLeaks
  OBVIOUS
<1>1. Cardinality(held) \in Nat /\ (Cardinality(held) = 0 <=> held = {})
  BY LeaseCount DEF ReleaseInv, TypeOK
<1>2. leases = 0 => held = {}
  BY <1>1 DEF ReleaseInv, CountExact, OwnerHolds
<1> QED BY <1>2 DEF ReleaseInv, ReleasePath, ReleasedOnceAndIdle, NothingLeaks, SeesRR

(* Every variable keeps its type; in particular the lease counter, which    *)
(* fetch_sub would wrap below zero, stays within 0 and one per fire plus    *)
(* the lease the process is asking for.                                     *)
THEOREM TypeCorrect == Spec => []TypeOK
BY ReleaseInvInductive, PTL DEF Spec, ReleaseInv

(* The KV store is asked to release the working set at most once, and never *)
(* under a granted lease, whoever of release, a dropped lease and the last  *)
(* Arc gets there first (maybe_release and KvLifecycle::drop).              *)
THEOREM ReleaseIsSingle == Spec => []ReleasedOnceAndIdle
BY ReleaseInvInductive, ReleaseInvImplies, PTL DEF Spec

(* The last Arc of a KvLifecycle never goes with its pages unreleased. *)
THEOREM LastArcReleases == Spec => []NothingLeaks
BY ReleaseInvInductive, ReleaseInvImplies, PTL DEF Spec
-----------------------------------------------------------------------------
(* One executor at a time: an eviction is not started while an earlier one  *)
(* has yet to drop its fence guard.                                         *)
OneAtATime ==
  \A d, e \in Evictors : pc[d] # "idle" /\ pc[e] # "idle" => d = e

Raised == {"load", "enable", "reload", "await", "prepare", "copy", "commit", "lower"}

(* What the planner's state of the process tells of the two executors. *)
ResidencyKnown ==
  /\ \A e \in Evictors : pc[e] # "idle" =>
       /\ restoring = "idle"
       /\ residency \in (IF pc[e] = "lower" THEN {"Resident", "Gone"} ELSE {"Evicting", "Gone"})
  /\ restoring # "idle" => residency \in {"Restoring", "Gone"}
  /\ suspended => \/ residency \in {"Evicted", "Restoring", "Gone"}
                  \/ \E e \in Evictors : pc[e] = "commit"
  /\ suspended => \A e \in Evictors : pc[e] \in {"idle", "commit"}
  /\ suspended => restoring \in {"idle", "copy"}

(* The fence stands exactly as long as someone is still to lower it. *)
FenceKept ==
  /\ suspended \/ (\E e \in Evictors : pc[e] \in Raised) => fence \/ refs = {}
  /\ fence /\ Registered =>
       \/ residency \in {"Evicted", "Gone"}
       \/ restoring \in {"copy", "unfence"}
       \/ \E e \in Evictors : pc[e] \in Raised

FenceInv == ResidencyKnown /\ FenceKept /\ QuietWhileMoved

(* Steps of the process and of fires leave the executors alone. *)
LEMMA BystanderMoves ==
  ASSUME FenceInv, \A e \in Evictors : pc'[e] = pc[e],
         UNCHANGED <<fence, suspended, restoring>>,
         residency' = residency \/ residency' = "Gone",
         refs = {} => refs' = {}, held = {} => held' = {}, Registered' => Registered
  PROVE  FenceInv'
<1>1. ResidencyKnown'
  BY DEF FenceInv, ResidencyKnown
<1>2. FenceKept'
  BY DEF FenceInv, FenceKept
<1>3. QuietWhileMoved'
  BY DEF FenceInv, QuietWhileMoved
<1> QED BY <1>1, <1>2, <1>3 DEF FenceInv

(* With one executor at a time every step keeps the fence up from the        *)
(* moment quiesce starts until the pages are back or the eviction gave up.  *)
THEOREM FenceInvInductive ==
  /\ Init => FenceInv
  /\ ReleaseInv /\ ReleaseInv' /\ OneAtATime /\ OneAtATime' /\ FenceInv /\ [Next]_vars => FenceInv'
<1> USE ThreadsAssumption DEF arc, ledger, quiesce, planner, control, Threads, Releasing
<1>1. Init => FenceInv
  BY DEF Init, FenceInv, ResidencyKnown, FenceKept, QuietWhileMoved, Raised
<1>2. ASSUME ReleaseInv, ReleaseInv', OneAtATime, OneAtATime', FenceInv, [Next]_vars
      PROVE  FenceInv'
  <2>0. /\ TypeOK /\ PcOK /\ HoldersKnown /\ ReleasePath
        /\ ResidencyKnown /\ FenceKept /\ QuietWhileMoved
    BY <1>2 DEF ReleaseInv, FenceInv
  <2>1. /\ leases = 0 => held = {}
        /\ refs = {} => held = {} /\ pc[Owner] = "gone"
        /\ Registered => Owner \in refs
    <3>1. Cardinality(held) \in Nat /\ (Cardinality(held) = 0 <=> held = {})
      BY <2>0, LeaseCount DEF TypeOK
    <3> QED BY <1>2, <3>1, <2>0
         DEF ReleaseInv, CountExact, OwnerHolds, HoldersKnown, Registered, TypeOK
  <2> USE DEF Go, MaybeRelease, Drain, SeesRR
  <2>2. CASE StoreLands
    BY <1>2, <2>2, BystanderMoves DEF StoreLands, Registered
  <2>3. ASSUME NEW t \in {Owner} \cup Fires, MaybeReleaseStep(t) PROVE FenceInv'
    BY <1>2, <2>0, <2>3, BystanderMoves
       DEF MaybeReleaseStep, LoadRR, LoadLeases, SwapReleased, ReleaseInStore, Registered,
           TypeOK, PcOK
  <2>4. CASE Gate \/ LeaseCheck \/ LeaseRecheck \/ WaitResident
    BY <1>2, <2>0, <2>4, BystanderMoves
       DEF Gate, LeaseCheck, LeaseRecheck, WaitResident, Registered, TypeOK
  <2>5. CASE LeaseAdd \/ LeaseRefused \/ RefusedNotify
    BY <1>2, <2>0, <2>5, BystanderMoves
       DEF LeaseAdd, LeaseRefused, RefusedNotify, Registered, TypeOK
  <2>6. CASE LeaseFence
    <3>1. CASE fence
      BY <1>2, <2>0, <2>6, <3>1, BystanderMoves DEF LeaseFence, Registered, TypeOK
    <3>2. CASE ~fence
      <4>1. /\ \A e \in Evictors : pc'[e] = pc[e]
            /\ UNCHANGED <<fence, suspended, restoring, residency, rr, rrBuffered>>
            /\ Registered' => Registered
            /\ pc[Owner] = "loadFence"
        BY <2>0, <2>6, <3>2 DEF LeaseFence, Registered, TypeOK
      <4>2. refs # {}
        BY <2>0, <4>1 DEF HoldersKnown
      <4>3. ~suspended /\ ~(\E e \in Evictors : pc[e] \in Raised)
        BY <2>0, <3>2, <4>2 DEF FenceKept
      <4>4. ResidencyKnown'
        BY <2>0, <4>1 DEF ResidencyKnown
      <4>5. FenceKept' /\ QuietWhileMoved'
        BY <3>2, <4>1, <4>3 DEF FenceKept, QuietWhileMoved, Raised
      <4> QED BY <4>4, <4>5 DEF FenceInv
    <3> QED BY <3>1, <3>2
  <2>7. CASE OwnerRelease \/ ProcessEnds
    BY <1>2, <2>0, <2>7, BystanderMoves DEF OwnerRelease, ProcessEnds, Registered, TypeOK
  <2>8. CASE OwnerDrops
    BY <1>2, <2>0, <2>8, BystanderMoves DEF OwnerDrops, DropRef, Registered, TypeOK
  <2>9. ASSUME NEW f \in Fires, FireDone(f) \/ FireNotify(f) PROVE FenceInv'
    BY <1>2, <2>0, <2>9, BystanderMoves DEF FireDone, FireNotify, Registered, TypeOK
  <2>10. ASSUME NEW f \in Fires, FireDrops(f) PROVE FenceInv'
    <3>1. Registered' => Registered
      BY <2>0, <2>10 DEF FireDrops, DropRef, Registered, TypeOK
    <3> QED BY <1>2, <2>0, <2>10, <3>1, BystanderMoves DEF FireDrops, DropRef, TypeOK
  <2>11. ASSUME NEW e \in Evictors, BeginEviction(e) PROVE FenceInv'
    <3>1. /\ pc[e] = "idle" /\ residency = "Resident" /\ residency' = "Evicting"
          /\ pc' = [pc EXCEPT ![e] = "raise"]
          /\ UNCHANGED <<arc, ledger, quiesce, suspended, restoring, next>>
      BY <2>11 DEF BeginEviction
    <3>2. \A d \in Evictors : pc[d] = "idle"
      BY <1>2, <2>0, <3>1 DEF OneAtATime, TypeOK
    <3>3. restoring = "idle" /\ ~suspended
      BY <2>0, <3>1, <3>2 DEF ResidencyKnown
    <3>4. ResidencyKnown'
      BY <2>0, <3>1, <3>2, <3>3 DEF ResidencyKnown, TypeOK
    <3>5. FenceKept' /\ QuietWhileMoved'
      BY <2>0, <3>1, <3>2, <3>3 DEF FenceKept, QuietWhileMoved, TypeOK, Registered, Raised
    <3> QED BY <3>4, <3>5 DEF FenceInv
  <2>12. ASSUME NEW e \in Evictors, EvictionFindsNothing(e) PROVE FenceInv'
    <3>1. /\ pc[e] = "raise" /\ ~Registered /\ pc' = [pc EXCEPT ![e] = "idle"]
          /\ residency' = (IF residency = "Evicting" THEN "Resident" ELSE residency)
          /\ UNCHANGED <<arc, ledger, quiesce, suspended, restoring, next>>
      BY <2>12 DEF EvictionFindsNothing
    <3>2. \A d \in Evictors : d # e => pc[d] = "idle"
      BY <1>2, <2>0, <3>1 DEF OneAtATime, TypeOK
    <3>3. ResidencyKnown'
      BY <2>0, <3>1, <3>2 DEF ResidencyKnown, TypeOK
    <3>4. FenceKept' /\ QuietWhileMoved'
      BY <2>0, <3>1, <3>2 DEF FenceKept, QuietWhileMoved, TypeOK, Registered, Raised
    <3> QED BY <3>3, <3>4 DEF FenceInv
  <2>13. ASSUME NEW e \in Evictors, RaiseFence(e) PROVE FenceInv'
    <3>1. /\ pc[e] = "raise" /\ pc' = [pc EXCEPT ![e] = "load"]
          /\ UNCHANGED <<arc, ledger, planner, waiting, next>>
          /\ fence' \/ refs = {}
      BY <2>13 DEF RaiseFence, Alive
    <3>2. \A d \in Evictors : d # e => pc[d] = "idle"
      BY <1>2, <2>0, <3>1 DEF OneAtATime, TypeOK
    <3>3. ResidencyKnown'
      BY <2>0, <3>1, <3>2 DEF ResidencyKnown, TypeOK
    <3>4. FenceKept' /\ QuietWhileMoved'
      BY <2>0, <3>1, <3>2 DEF FenceKept, QuietWhileMoved, TypeOK, Raised
    <3> QED BY <3>3, <3>4 DEF FenceInv
  <2>14. ASSUME NEW e \in Evictors, NEW at \in Raised \ {"commit", "lower"},
                pc[e] \in Raised \ {"commit", "lower"}, pc' = [pc EXCEPT ![e] = at],
                at \in {"prepare", "copy"} => held = {},
                refs = {} => refs' = {}, Registered' => Registered,
                UNCHANGED <<ledger, planner, fence>>
         PROVE  FenceInv'
    <3>1. ResidencyKnown'
      BY <2>0, <2>14 DEF ResidencyKnown, TypeOK, Raised
    <3>2. FenceKept'
      BY <2>0, <2>14 DEF FenceKept, TypeOK, Raised
    <3>3. QuietWhileMoved'
      BY <2>0, <2>14 DEF QuietWhileMoved, TypeOK, Raised
    <3> QED BY <3>1, <3>2, <3>3 DEF FenceInv
  <2>15. ASSUME NEW e \in Evictors, QuiesceLoad(e) PROVE FenceInv'
    <3>1. /\ pc[e] = "load"
          /\ Registered' => Registered
          /\ UNCHANGED <<ledger, planner, fence, next>>
      BY <2>0, <2>15 DEF QuiesceLoad, Registered, TypeOK
    <3>2. CASE Alive /\ leases # 0
      BY <2>14, <2>15, <3>1, <3>2 DEF QuiesceLoad, Raised, Alive
    <3>3. CASE ~(Alive /\ leases # 0)
      BY <2>1, <2>14, <2>15, <3>1, <3>3 DEF QuiesceLoad, Raised, Alive
    <3> QED BY <3>2, <3>3
  <2>16. ASSUME NEW e \in Evictors, QuiesceEnable(e) PROVE FenceInv'
    BY <2>0, <2>14, <2>16 DEF QuiesceEnable, Registered, TypeOK, Raised
  <2>17. ASSUME NEW e \in Evictors, QuiesceReload(e) PROVE FenceInv'
    <3>1. pc[e] = "reload" /\ UNCHANGED <<ledger, planner, fence>> /\ (Registered' => Registered)
      BY <2>0, <2>17 DEF QuiesceReload, DropRef, Registered, TypeOK
    <3>2. CASE leases = 0
      BY <2>1, <2>14, <2>17, <3>1, <3>2 DEF QuiesceReload, DropRef, Raised
    <3>3. CASE leases # 0
      BY <2>14, <2>17, <3>1, <3>3 DEF QuiesceReload, Raised
    <3> QED BY <3>2, <3>3
  <2>18. ASSUME NEW e \in Evictors, QuiesceWoken(e) PROVE FenceInv'
    <3>1. Registered' => Registered
      BY <2>0, <2>18 DEF QuiesceWoken, DropRef, Registered, TypeOK
    <3> QED BY <2>14, <2>18, <3>1 DEF QuiesceWoken, DropRef, Raised
  <2>19. ASSUME NEW e \in Evictors, PrepareSuspend(e) PROVE FenceInv'
    BY <2>0, <2>14, <2>19 DEF PrepareSuspend, QuietWhileMoved, Registered, TypeOK, Raised
  <2>20. ASSUME NEW e \in Evictors, CommitSuspend(e) PROVE FenceInv'
    <3>1. /\ pc[e] = "copy" /\ pc' = [pc EXCEPT ![e] = "commit"] /\ suspended'
          /\ UNCHANGED <<arc, ledger, quiesce, residency, restoring, next>>
      BY <2>20 DEF CommitSuspend
    <3>2. \A d \in Evictors : d # e => pc[d] = "idle"
      BY <1>2, <2>0, <3>1 DEF OneAtATime, TypeOK
    <3>3. ResidencyKnown'
      BY <2>0, <3>1, <3>2 DEF ResidencyKnown, TypeOK
    <3>4. FenceKept' /\ QuietWhileMoved'
      BY <2>0, <3>1, <3>2 DEF FenceKept, QuietWhileMoved, TypeOK, Raised, Registered
    <3> QED BY <3>3, <3>4 DEF FenceInv
  <2>21. ASSUME NEW e \in Evictors, ReportEvicted(e) PROVE FenceInv'
    <3>1. /\ pc[e] = "commit" /\ pc' = [pc EXCEPT ![e] = "idle"]
          /\ residency' = (IF residency = "Gone" THEN residency ELSE "Evicted")
          /\ UNCHANGED <<arc, ledger, quiesce, suspended, restoring, next>>
      BY <2>21 DEF ReportEvicted
    <3>2. \A d \in Evictors : d # e => pc[d] = "idle"
      BY <1>2, <2>0, <3>1 DEF OneAtATime, TypeOK
    <3>3. ResidencyKnown'
      BY <2>0, <3>1, <3>2 DEF ResidencyKnown, TypeOK
    <3>4. FenceKept' /\ QuietWhileMoved'
      BY <2>0, <3>1, <3>2 DEF FenceKept, QuietWhileMoved, TypeOK, Raised, Registered
    <3> QED BY <3>3, <3>4 DEF FenceInv
  <2>22. ASSUME NEW e \in Evictors, EvictionFails(e) PROVE FenceInv'
    <3>1. /\ pc[e] \in {"prepare", "copy"} /\ pc' = [pc EXCEPT ![e] = "lower"]
          /\ residency' = (IF residency = "Evicting" THEN "Resident" ELSE residency)
          /\ UNCHANGED <<arc, ledger, quiesce, suspended, restoring, next>>
      BY <2>22 DEF EvictionFails
    <3>2. \A d \in Evictors : d # e => pc[d] = "idle"
      BY <1>2, <2>0, <3>1 DEF OneAtATime, TypeOK
    <3>3. ResidencyKnown'
      BY <2>0, <3>1, <3>2 DEF ResidencyKnown, TypeOK
    <3>4. FenceKept' /\ QuietWhileMoved'
      BY <2>0, <3>1, <3>2 DEF FenceKept, QuietWhileMoved, TypeOK, Raised, Registered
    <3> QED BY <3>3, <3>4 DEF FenceInv
  <2>23. ASSUME NEW e \in Evictors, LowerFence(e) PROVE FenceInv'
    <3>1. /\ pc[e] = "lower" /\ pc' = [pc EXCEPT ![e] = "idle"]
          /\ ~fence' \/ refs = {}
          /\ UNCHANGED <<arc, ledger, planner, waiting, next>>
      BY <2>23 DEF LowerFence, Alive
    <3>2. \A d \in Evictors : d # e => pc[d] = "idle"
      BY <1>2, <2>0, <3>1 DEF OneAtATime, TypeOK
    <3>3. ~suspended
      BY <2>0, <3>1 DEF ResidencyKnown
    <3>4. ResidencyKnown'
      BY <2>0, <3>1, <3>2, <3>3 DEF ResidencyKnown, TypeOK
    <3>5. Registered' => Registered /\ refs # {}
      BY <2>0, <2>1, <3>1 DEF Registered, TypeOK
    <3>6. FenceKept' /\ QuietWhileMoved'
      BY <2>0, <3>1, <3>2, <3>3, <3>5 DEF FenceKept, QuietWhileMoved, TypeOK, Raised
    <3> QED BY <3>4, <3>6 DEF FenceInv
  <2>24. CASE BeginRestore
    <3>1. \A d \in Evictors : pc[d] = "idle"
      BY <2>0, <2>24 DEF BeginRestore, ResidencyKnown
    <3>2. ResidencyKnown'
      BY <2>0, <2>24, <3>1 DEF BeginRestore, ResidencyKnown
    <3>3. FenceKept' /\ QuietWhileMoved'
      BY <2>0, <2>24, <3>1 DEF BeginRestore, FenceKept, QuietWhileMoved, Raised, Registered
    <3> QED BY <3>2, <3>3 DEF FenceInv
  <2>25. CASE RestoreFails
    BY <2>0, <2>25
       DEF RestoreFails, FenceInv, ResidencyKnown, FenceKept, QuietWhileMoved, Raised, Registered
  <2>26. CASE CommitRestore
    <3>1. /\ ~suspended' /\ restoring = "copy" /\ restoring' = "unfence"
          /\ UNCHANGED <<arc, ledger, quiesce, control, residency>>
      BY <2>26 DEF CommitRestore
    <3> QED BY <2>0, <3>1 DEF FenceInv, ResidencyKnown, FenceKept, QuietWhileMoved, Registered
  <2>27. CASE RestoreUnfences
    <3>1. /\ ~fence' \/ ~Registered
          /\ restoring = "unfence" /\ restoring' = "report"
          /\ UNCHANGED <<arc, ledger, control, waiting, residency, suspended>>
          /\ Registered' <=> Registered
      BY <2>27 DEF RestoreUnfences, Registered
    <3>2. (\A d \in Evictors : pc[d] = "idle") /\ ~suspended
      BY <2>0, <2>27 DEF ResidencyKnown, RestoreUnfences
    <3> QED BY <2>0, <2>27, <3>1, <3>2
         DEF RestoreUnfences, FenceInv, ResidencyKnown, FenceKept, QuietWhileMoved, Raised
  <2>28. CASE ReportRestored
    <3>1. /\ \A d \in Evictors : pc[d] = "idle"
          /\ ~suspended
          /\ residency = "Gone" \/ ~(fence /\ Registered)
      BY <2>0, <2>28 DEF ResidencyKnown, FenceKept, ReportRestored, Raised
    <3> QED BY <2>0, <2>28, <3>1
         DEF ReportRestored, FenceInv, ResidencyKnown, FenceKept, QuietWhileMoved, Raised,
             Registered
  <2>29. CASE UNCHANGED vars
    BY <1>2, <2>29, BystanderMoves DEF vars, Registered
  <2> QED
    BY <1>2, <2>2, <2>3, <2>4, <2>5, <2>6, <2>7, <2>8, <2>9, <2>10, <2>11, <2>12, <2>13, <2>15,
       <2>16, <2>17, <2>18, <2>19, <2>20, <2>21, <2>22, <2>23, <2>24, <2>25, <2>26, <2>27,
       <2>28, <2>29
       DEF Next, OwnerStep, FireStep, EvictStep, RestoreStep
<1> QED BY <1>1, <1>2

(* As long as no two executors of one working set are alive at once, no     *)
(* fire holds a lease while its pages are moved or off the device: the      *)
(* fence against acquire_fire_lease and quiesce.                            *)
THEOREM EvictionIsQuiet == Spec /\ []OneAtATime => []QuietWhileMoved
<1>1. FenceInv => QuietWhileMoved
  BY DEF FenceInv
<1> QED BY <1>1, ReleaseInvInductive, FenceInvInductive, PTL DEF Spec

(* Under the same condition a resident process is not left behind a fence   *)
(* that no executor will lower (FenceGuard, report_restored).               *)
THEOREM FenceComesDown == Spec /\ []OneAtATime => []NoStrayFence
<1>1. FenceInv => NoStrayFence
  BY DEF FenceInv, FenceKept, NoStrayFence, Raised
<1> QED BY <1>1, ReleaseInvInductive, FenceInvInductive, PTL DEF Spec

-----------------------------------------------------------------------------
(* The pool that suspended sets give their pages back to: PageCustody, over *)
(* variables of its own, for every set of pages and every bound on epochs.  *)
(*                                                                          *)
(* CustodyInv is inductive: custody is a partition, epochs never run ahead of *)
(* seq, and a touched page is mapped or waits at an epoch no older than the *)
(* write that touches it. The last part is what retire_idle relies on: the  *)
(* oldest outstanding epoch holds back every such page.                     *)

(* The pages of two lists of pending entries taken together. *)
LEMMA PageOfUnion ==
  ASSUME NEW A, NEW B
  PROVE  PageOf(A \cup B) = PageOf(A) \cup PageOf(B)
BY DEF PageOf

(* recycle_after_epoch adds exactly the pages it is given, at its epoch. *)
LEMMA PageOfAtEpoch ==
  ASSUME NEW e, NEW ps
  PROVE  /\ PageOf(AtEpoch(e, ps)) = ps
         /\ \A x \in AtEpoch(e, ps) : x[1] = e /\ x[2] \in ps
<1>1. \A x \in AtEpoch(e, ps) : x[1] = e /\ x[2] \in ps
  BY DEF AtEpoch
<1>2. ASSUME NEW p \in ps PROVE p \in PageOf(AtEpoch(e, ps))
  <2>1. <<e, p>> \in AtEpoch(e, ps) /\ <<e, p>>[2] = p
    BY DEF AtEpoch
  <2> QED BY <2>1 DEF PageOf
<1>3. PageOf(AtEpoch(e, ps)) \subseteq ps
  BY <1>1 DEF PageOf
<1> QED BY <1>1, <1>2, <1>3

(* Splitting a pending list whose pages are distinct at the entries that    *)
(* are due splits its pages into two disjoint sets.                         *)
LEMMA DueSplits ==
  ASSUME NEW pend, NEW out,
         \A d, e \in pend : d[2] = e[2] => d = e
  PROVE  /\ Due(pend, out) \subseteq pend
         /\ PageOf(pend) = PageOf(Due(pend, out)) \cup PageOf(pend \ Due(pend, out))
         /\ PageOf(Due(pend, out)) \cap PageOf(pend \ Due(pend, out)) = {}
BY DEF Due, PageOf

(* Init and every step of Next keep the inductive invariant. *)
THEOREM CustodyInvInductive ==
  /\ CustodyInit => CustodyInv
  /\ CustodyInv /\ [CustodyNext]_custodyVars => CustodyInv'
<1>1. CustodyInit => CustodyInv
  BY MaxSeqAssumption DEF CustodyInit, CustodyInv, CustodyTypeOK, OneCustody, TouchedIsHeld,
         EpochsBounded, PageOf
<1>2. CustodyInv /\ [CustodyNext]_custodyVars => CustodyInv'
  <2> SUFFICES ASSUME CustodyInv, [CustodyNext]_custodyVars PROVE CustodyInv'
    OBVIOUS
  <2> USE MaxSeqAssumption
  <2>1. ASSUME NEW ps \in SUBSET free, Reserve(ps) PROVE CustodyInv'
    BY <2>1 DEF Reserve, CustodyInv, CustodyTypeOK, OneCustody, TouchedIsHeld,
           EpochsBounded
  <2>2. ASSUME NEW ps \in SUBSET reserved, ReturnReserved(ps) PROVE CustodyInv'
    BY <2>2 DEF ReturnReserved, CustodyInv, CustodyTypeOK, OneCustody, TouchedIsHeld,
           EpochsBounded
  <2>3. ASSUME NEW in \in SUBSET reserved, NEW out \in SUBSET mapped,
               NEW uses \in SUBSET (mapped \cup in), Write(in, out, uses)
        PROVE  CustodyInv'
    <3> DEFINE n == seq + 1
    <3>0. n \in 1..MaxSeq /\ n \in Nat /\ n > seq /\ seq \in Nat
      BY <2>3 DEF Write, NextSeq, CustodyInv, CustodyTypeOK
    <3>1. CustodyTypeOK'
      BY <2>3, <3>0 DEF Write, NextSeq, CustodyInv, CustodyTypeOK, AtEpoch
    <3>2. PageOf(pending') = PageOf(pending) \cup out
      BY <2>3, PageOfUnion, PageOfAtEpoch DEF Write, NextSeq
    <3>3. OneCustody'
      <4>1. \A d, e \in pending' : d[2] = e[2] => d = e
        BY <2>3 DEF Write, NextSeq, CustodyInv, OneCustody, AtEpoch, PageOf
      <4> QED
        BY <2>3, <3>2, <4>1 DEF Write, NextSeq, CustodyInv, OneCustody
    <3>4. EpochsBounded'
      BY <2>3, <3>0, PageOfAtEpoch DEF Write, NextSeq, CustodyInv, CustodyTypeOK,
             EpochsBounded
    <3>5. TouchedIsHeld'
      <4> SUFFICES ASSUME NEW t \in touches'
                   PROVE  /\ t[1] \in outstanding'
                          /\ t[2] \in mapped' \/ \E e \in pending' : e[2] = t[2] /\ e[1] >= t[1]
        BY DEF TouchedIsHeld
      <4>1. CASE t \in touches
        <5>1. t[1] \in outstanding /\ t[1] <= seq /\ t[1] \in Nat
          BY <4>1 DEF CustodyInv, CustodyTypeOK, TouchedIsHeld, EpochsBounded
        <5>2. CASE t[2] \in out
          <6> <<n, t[2]>> \in pending'
            BY <2>3, <5>2 DEF Write, NextSeq, AtEpoch
          <6> QED BY <2>3, <3>0, <5>1 DEF Write, NextSeq
        <5>3. CASE t[2] \notin out
          BY <2>3, <4>1, <5>1, <5>3 DEF Write, NextSeq, CustodyInv, TouchedIsHeld
        <5> QED BY <5>2, <5>3
      <4>2. CASE t \in AtEpoch(n, uses)
        <5>1. t[1] = n /\ t[2] \in uses
          BY <4>2, PageOfAtEpoch
        <5>2. CASE t[2] \in out /\ t[2] \notin in
          <6> <<n, t[2]>> \in pending'
            BY <2>3, <5>2 DEF Write, NextSeq, AtEpoch
          <6> QED BY <2>3, <3>0, <5>1 DEF Write, NextSeq
        <5>3. CASE ~(t[2] \in out /\ t[2] \notin in)
          BY <2>3, <5>1, <5>3 DEF Write, NextSeq
        <5> QED BY <5>2, <5>3
      <4> QED BY <2>3, <4>1, <4>2 DEF Write, NextSeq
    <3> QED BY <3>1, <3>3, <3>4, <3>5 DEF CustodyInv
  <2>4. ASSUME NEW in \in SUBSET reserved, NEW out \in SUBSET mapped, Remap(in, out)
        PROVE  CustodyInv'
    <3>0. seq \in Nat
      BY DEF CustodyInv, CustodyTypeOK
    <3>1. CustodyTypeOK'
      BY <2>4, <3>0 DEF Remap, CustodyInv, CustodyTypeOK, AtEpoch
    <3>2. PageOf(pending') = PageOf(pending) \cup out
      BY <2>4, PageOfUnion, PageOfAtEpoch DEF Remap
    <3>3. OneCustody'
      <4>1. \A d, e \in pending' : d[2] = e[2] => d = e
        BY <2>4 DEF Remap, CustodyInv, OneCustody, AtEpoch, PageOf
      <4> QED BY <2>4, <3>2, <4>1 DEF Remap, CustodyInv, OneCustody
    <3>4. EpochsBounded'
      BY <2>4, <3>0, PageOfAtEpoch DEF Remap, CustodyInv, CustodyTypeOK, EpochsBounded
    <3>5. TouchedIsHeld'
      <4> SUFFICES ASSUME NEW t \in touches
                   PROVE  /\ t[1] \in outstanding
                          /\ t[2] \in mapped' \/ \E e \in pending' : e[2] = t[2] /\ e[1] >= t[1]
        BY <2>4 DEF TouchedIsHeld, Remap
      <4>1. t[1] \in outstanding /\ t[1] <= seq /\ t[1] \in Nat
        BY DEF CustodyInv, CustodyTypeOK, TouchedIsHeld, EpochsBounded
      <4>2. CASE t[2] \in out
        <5> <<seq, t[2]>> \in pending'
          BY <2>4, <4>2 DEF Remap, AtEpoch
        <5> QED BY <3>0, <4>1
      <4>3. CASE t[2] \notin out
        BY <2>4, <4>1, <4>3 DEF Remap, CustodyInv, TouchedIsHeld
      <4> QED BY <4>2, <4>3
    <3> QED BY <3>1, <3>3, <3>4, <3>5 DEF CustodyInv
  <2>5. ASSUME NEW in \in SUBSET reserved, NEW out \in SUBSET (mapped \cup in),
               NEW back \in SUBSET (reserved \ in), RemapAndRetire(in, out, back)
        PROVE  CustodyInv'
    <3> DEFINE given == pending \cup AtEpoch(seq, out)
    <3>0. seq \in Nat
      BY DEF CustodyInv, CustodyTypeOK
    <3>1. PageOf(given) = PageOf(pending) \cup out
      BY PageOfUnion, PageOfAtEpoch
    <3>2. \A d, e \in given : d[2] = e[2] => d = e
      BY DEF CustodyInv, OneCustody, AtEpoch, PageOf
    <3>3. /\ Due(given, outstanding) \subseteq given
          /\ PageOf(given) = PageOf(Due(given, outstanding)) \cup PageOf(given \ Due(given, outstanding))
          /\ PageOf(Due(given, outstanding)) \cap PageOf(given \ Due(given, outstanding)) = {}
      BY <3>2, DueSplits
    <3>4. /\ pending' = given \ Due(given, outstanding)
          /\ free' = (free \cup back) \cup PageOf(Due(given, outstanding))
          /\ reserved' = reserved \ (in \cup back)
          /\ mapped' = (mapped \cup in) \ out
          /\ UNCHANGED <<seq, outstanding, touches>>
      BY <2>5 DEF RemapAndRetire
    <3>5. given \subseteq Nat \X Pages /\ PageOf(given) \subseteq Pages
      BY <3>0 DEF CustodyInv, CustodyTypeOK, AtEpoch, PageOf
    <3>6. CustodyTypeOK'
      BY <3>3, <3>4, <3>5 DEF CustodyInv, CustodyTypeOK
    <3>7. OneCustody'
      BY <3>1, <3>2, <3>3, <3>4 DEF CustodyInv, OneCustody
    <3>8. EpochsBounded'
      BY <3>0, <3>4, PageOfAtEpoch DEF CustodyInv, CustodyTypeOK, EpochsBounded
    <3>9. TouchedIsHeld'
      <4> SUFFICES ASSUME NEW t \in touches
                   PROVE  /\ t[1] \in outstanding
                          /\ t[2] \in mapped' \/ \E e \in pending' : e[2] = t[2] /\ e[1] >= t[1]
        BY <3>4 DEF TouchedIsHeld
      <4>1. t[1] \in outstanding /\ t[1] <= seq /\ t[1] \in Nat
        BY DEF CustodyInv, CustodyTypeOK, TouchedIsHeld, EpochsBounded
      <4>2. CASE t[2] \in mapped /\ t[2] \notin out
        BY <3>4, <4>1, <4>2
      <4>3. CASE ~(t[2] \in mapped /\ t[2] \notin out)
        <5>1. PICK e \in given : e[2] = t[2] /\ e[1] >= t[1]
          <6>1. CASE t[2] \in out
            <7> <<seq, t[2]>> \in given
              BY <6>1 DEF AtEpoch
            <7> QED BY <3>0, <4>1
          <6>2. CASE t[2] \notin out
            BY <4>3, <6>2 DEF CustodyInv, TouchedIsHeld
          <6> QED BY <6>1, <6>2
        <5>2. e[1] \in Nat /\ ~(e[1] < t[1])
          BY <3>5, <4>1, <5>1
        <5>3. e \notin Due(given, outstanding)
          BY <4>1, <5>2 DEF Due
        <5> QED BY <3>4, <4>1, <5>1, <5>3
      <4> QED BY <4>2, <4>3
    <3> QED BY <3>6, <3>7, <3>8, <3>9 DEF CustodyInv
  <2>6. ASSUME NEW s \in outstanding, Settle(s) PROVE CustodyInv'
    <3> DEFINE rest == outstanding \ {s}
    <3>1. /\ pending' = pending \ Due(pending, rest)
          /\ free' = free \cup PageOf(Due(pending, rest))
          /\ outstanding' = rest
          /\ touches' = {t \in touches : t[1] # s}
          /\ UNCHANGED <<reserved, mapped, seq>>
      BY <2>6 DEF Settle
    <3>2. /\ Due(pending, rest) \subseteq pending
          /\ PageOf(pending) = PageOf(Due(pending, rest)) \cup PageOf(pending \ Due(pending, rest))
          /\ PageOf(Due(pending, rest)) \cap PageOf(pending \ Due(pending, rest)) = {}
      BY DueSplits DEF CustodyInv, OneCustody
    <3>3. PageOf(pending) \subseteq Pages
      BY DEF CustodyInv, CustodyTypeOK, PageOf
    <3>4. CustodyTypeOK'
      BY <3>1, <3>2, <3>3 DEF CustodyInv, CustodyTypeOK
    <3>5. OneCustody'
      BY <3>1, <3>2 DEF CustodyInv, OneCustody
    <3>6. EpochsBounded'
      BY <3>1 DEF CustodyInv, EpochsBounded
    <3>7. TouchedIsHeld'
      <4> SUFFICES ASSUME NEW t \in touches, t[1] # s
                   PROVE  /\ t[1] \in rest
                          /\ t[2] \in mapped \/ \E e \in pending' : e[2] = t[2] /\ e[1] >= t[1]
        BY <3>1 DEF TouchedIsHeld
      <4>1. t[1] \in rest /\ t[1] \in Nat
        BY DEF CustodyInv, CustodyTypeOK, TouchedIsHeld
      <4>2. CASE t[2] \in mapped
        BY <4>1, <4>2
      <4>3. CASE t[2] \notin mapped
        <5>1. PICK e \in pending : e[2] = t[2] /\ e[1] >= t[1]
          BY <4>3 DEF CustodyInv, TouchedIsHeld
        <5>2. e[1] \in Nat /\ ~(e[1] < t[1])
          BY <4>1, <5>1 DEF CustodyInv, CustodyTypeOK
        <5>3. e \notin Due(pending, rest)
          BY <4>1, <5>2 DEF Due
        <5> QED BY <3>1, <4>1, <5>1, <5>3
      <4> QED BY <4>2, <4>3
    <3> QED BY <3>4, <3>5, <3>6, <3>7 DEF CustodyInv
  <2>7. CASE UNCHANGED custodyVars
    BY <2>7 DEF custodyVars, CustodyInv, CustodyTypeOK, OneCustody, TouchedIsHeld,
           EpochsBounded
  <2> QED
    BY <2>1, <2>2, <2>3, <2>4, <2>5, <2>6, <2>7 DEF CustodyNext
<1> QED BY <1>1, <1>2

(* A touched page that is held is neither free nor granted: it is mapped or *)
(* pending, and custody is a partition.                                     *)
LEMMA HeldIsNotReused == CustodyInv => NoReuseInFlight
BY DEF CustodyInv, OneCustody, TouchedIsHeld, NoReuseInFlight, PageOf

(* Every reachable state satisfies the inductive invariant. *)
THEOREM CustodyInvHolds ==
  CustodySpec => []CustodyInv
BY CustodyInvInductive, PTL DEF CustodySpec

(* The pool's lists, the mapping and the epochs keep their types. *)
THEOREM CustodyTypeCorrect ==
  CustodySpec => []CustodyTypeOK
<1>1. CustodyInv => CustodyTypeOK
  BY DEF CustodyInv
<1> QED BY <1>1, CustodyInvHolds, PTL

(* Through remaps, moves and retirements in any order, a page an unsettled  *)
(* write touches is mapped or waits at an epoch no older than that write:   *)
(* the oldest outstanding epoch, all retire_idle looks at, holds it back.   *)
THEOREM TouchedStaysHeld ==
  CustodySpec => []TouchedIsHeld
<1>1. CustodyInv => TouchedIsHeld
  BY DEF CustodyInv
<1> QED BY <1>1, CustodyInvHolds, PTL

(* The pool's promise: while the copy of a write is unsettled, no page it   *)
(* reads or fills is on the free list or in a grant.                        *)
THEOREM NoReuse ==
  CustodySpec => []NoReuseInFlight
BY CustodyInvHolds, HeldIsNotReused, PTL

(* No device page is ever lost or in two custodies. *)
THEOREM CustodyIsPartition ==
  CustodySpec => []OneCustody
<1>1. CustodyInv => OneCustody
  BY DEF CustodyInv
<1> QED BY <1>1, CustodyInvHolds, PTL
=============================================================================
