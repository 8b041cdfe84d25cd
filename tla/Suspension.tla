----------------------------- MODULE Suspension -----------------------------
(***************************************************************************)
(* The life of one KV working set between the process that fires on it,    *)
(* the fires in flight, the planner's eviction and restore executors, and  *)
(* the request to release it (store/kv/working_set.rs, planner/exec.rs).   *)
(*                                                                         *)
(* Every atomic access of KvLifecycle is a step of its own.                *)
(* release_requested is stored with Release and the counter then loaded    *)
(* with Acquire, so the store may still sit in the releasing thread's      *)
(* store buffer when the load is made: rrBuffered. A read-modify-write of  *)
(* that thread drains the buffer.                                          *)
(*                                                                         *)
(* The process makes one host call at a time (thread Owner); each call     *)
(* passes the residency gate, may wait for pages, and then leases the      *)
(* working set for a fire, which completes on another thread.              *)
(***************************************************************************)
EXTENDS Integers, FiniteSets

CONSTANTS
  Owner,      \* the process's own thread
  Fires,      \* fires that can be in flight at once
  Evictors    \* eviction tasks that can be alive at once

ASSUME ThreadsAssumption ==
  /\ Owner \notin Fires \cup Evictors
  /\ Fires \cap Evictors = {}
  /\ IsFiniteSet(Fires)

VARIABLES
  rr,          \* KvLifecycle::release_requested, in memory
  rrBuffered,  \* Owner's store of it has not reached memory
  released,    \* KvLifecycle::released
  leases,      \* KvLifecycle::active_fire_leases
  fence,       \* KvLifecycle::suspend_fence
  waiting,     \* eviction tasks enabled on KvLifecycle::quiesced
  refs,        \* who holds a strong Arc<KvLifecycle>
  kvReleases,  \* times the working set was released in the KV store
  residency,   \* the planner's Proc::state, "Gone" once unregistered
  suspended,   \* the KV store has moved the working set's pages off the device
  restoring,   \* where the restore executor stands
  held,        \* fires that were granted a lease and have not dropped it
  lastOne,     \* threads whose fetch_sub took the counter from one to zero
  pc,          \* where each thread stands
  next         \* where a thread goes on after maybe_release

arc == <<rr, rrBuffered, released, kvReleases, refs>>
ledger == <<leases, held, lastOne>>
quiesce == <<fence, waiting>>
planner == <<residency, suspended, restoring>>
control == <<pc, next>>
vars == <<arc, ledger, quiesce, planner, control>>

Threads == {Owner} \cup Fires \cup Evictors

(* Where a thread stands in maybe_release: before each of its accesses. *)
Releasing == {"loadRR", "loadLeases", "swap", "kv"}

OwnerAt == {"idle", "release", "check", "add", "recheck", "loadFence", "sub", "notify",
            "park", "drop", "gone"} \cup Releasing
FireAt == {"idle", "held", "notify", "drop"} \cup Releasing
EvictorAt == {"idle", "raise", "load", "enable", "reload", "await", "prepare",
              "copy", "commit", "lower"}

TypeOK ==
  /\ rr \in BOOLEAN /\ rrBuffered \in BOOLEAN /\ released \in BOOLEAN
  /\ fence \in BOOLEAN /\ suspended \in BOOLEAN
  /\ leases \in 0..(Cardinality(Fires) + 1)
  /\ waiting \subseteq Evictors
  /\ refs \subseteq Threads
  /\ kvReleases \in 0..2
  /\ residency \in {"Resident", "Evicting", "Evicted", "Restoring", "Gone"}
  /\ restoring \in {"idle", "copy", "unfence", "report"}
  /\ held \subseteq Fires
  /\ lastOne \subseteq Threads
  /\ pc \in [Threads -> OwnerAt \cup FireAt \cup EvictorAt]
  /\ next \in [Threads -> OwnerAt \cup FireAt]

Init ==
  /\ rr = FALSE /\ rrBuffered = FALSE /\ released = FALSE
  /\ leases = 0 /\ fence = FALSE /\ waiting = {}
  /\ refs = {Owner}
  /\ kvReleases = 0
  /\ residency = "Resident" /\ suspended = FALSE /\ restoring = "idle"
  /\ held = {} /\ lastOne = {}
  /\ pc = [t \in Threads |-> "idle"]
  /\ next = [t \in Threads |-> "idle"]
-----------------------------------------------------------------------------
Go(t, at) == pc' = [pc EXCEPT ![t] = at]

(* Enters maybe_release, to go on at `after`. *)
MaybeRelease(t, after) ==
  /\ pc' = [pc EXCEPT ![t] = "loadRR"]
  /\ next' = [next EXCEPT ![t] = after]

(* A thread sees its own buffered store. *)
SeesRR(t) == rr \/ (t = Owner /\ rrBuffered)

(* A read-modify-write of t first drains t's store buffer. *)
Drain(t) ==
  IF t = Owner
    THEN rr' = (rr \/ rrBuffered) /\ rrBuffered' = FALSE
    ELSE UNCHANGED <<rr, rrBuffered>>

(* The store buffer drains on its own as well. *)
StoreLands ==
  /\ rrBuffered
  /\ rr' = TRUE
  /\ rrBuffered' = FALSE
  /\ UNCHANGED <<ledger, quiesce, planner, control, released, refs, kvReleases>>

(* The accesses of maybe_release, by the process or a completing fire. *)
LoadRR(t) ==
  /\ pc[t] = "loadRR"
  /\ Go(t, IF SeesRR(t) THEN "loadLeases" ELSE next[t])
  /\ UNCHANGED <<arc, ledger, quiesce, planner, next>>

LoadLeases(t) ==
  /\ pc[t] = "loadLeases"
  /\ Go(t, IF leases = 0 THEN "swap" ELSE next[t])
  /\ UNCHANGED <<arc, ledger, quiesce, planner, next>>

(* Slips the checks must catch: a release that ignores the mark, and one    *)
(* that only sets it.                                                       *)
SwapUnguarded(t) ==
  /\ pc[t] = "swap"
  /\ Drain(t)
  /\ released' = TRUE
  /\ Go(t, "kv")
  /\ UNCHANGED <<ledger, quiesce, planner, refs, kvReleases, next>>

SwapOnly(t) ==
  /\ pc[t] = "swap"
  /\ Drain(t)
  /\ released' = TRUE
  /\ Go(t, next[t])
  /\ UNCHANGED <<ledger, quiesce, planner, refs, kvReleases, next>>

SwapReleased(t) ==
  /\ pc[t] = "swap"
  /\ Drain(t)
  /\ released' = TRUE
  /\ Go(t, IF released THEN next[t] ELSE "kv")
  /\ UNCHANGED <<ledger, quiesce, planner, refs, kvReleases, next>>

ReleaseInStore(t) ==
  /\ pc[t] = "kv"
  /\ kvReleases' = kvReleases + 1
  /\ Go(t, next[t])
  /\ UNCHANGED <<ledger, quiesce, planner, rr, rrBuffered, released, refs, next>>

(* A slip: no Drop::drop on the last reference. *)
DropRefQuietly(t) ==
  /\ refs' = refs \ {t}
  /\ Drain(t)
  /\ UNCHANGED <<released, kvReleases>>

(* An Arc<KvLifecycle> of t is dropped. The last one runs Drop::drop, which *)
(* releases again with no other thread left to see it.                      *)
DropRef(t) ==
  /\ refs' = refs \ {t}
  /\ IF refs = {t}
       THEN /\ rr' = TRUE /\ rrBuffered' = FALSE
            /\ released' = (released \/ leases = 0)
            /\ kvReleases' = IF leases = 0 /\ ~released THEN kvReleases + 1
                                                        ELSE kvReleases
       ELSE Drain(t) /\ UNCHANGED <<released, kvReleases>>

-----------------------------------------------------------------------------
(* A host call, to fire or to drop the working set: the residency gate lets *)
(* it through while the planner has the process resident. What follows      *)
(* takes time, during which the planner may change its mind.                *)
Gate ==
  /\ pc[Owner] = "idle"
  /\ residency = "Resident"
  /\ \E call \in {"check", "release"} : Go(Owner, call)
  /\ UNCHANGED <<arc, ledger, quiesce, planner, next>>

(* acquire_fire_lease, access by access. *)
LeaseCheck ==
  /\ pc[Owner] = "check"
  /\ Go(Owner, IF SeesRR(Owner) THEN "idle" ELSE "add")
  /\ UNCHANGED <<arc, ledger, quiesce, planner, next>>

LeaseAdd ==
  /\ pc[Owner] = "add"
  /\ \E f \in Fires : pc[f] = "idle"
  /\ Drain(Owner)
  /\ leases' = leases + 1
  /\ Go(Owner, "recheck")
  /\ UNCHANGED <<quiesce, planner, released, refs, kvReleases, held, lastOne, next>>

LeaseRecheck ==
  /\ pc[Owner] = "recheck"
  /\ Go(Owner, IF SeesRR(Owner) THEN "sub" ELSE "loadFence")
  /\ UNCHANGED <<arc, ledger, quiesce, planner, next>>

(* A slip: the fence is not looked at after the counter went up. *)
LeaseUnfenced ==
  /\ pc[Owner] = "loadFence"
  /\ \E f \in Fires :
       /\ pc[f] = "idle"
       /\ held' = held \cup {f}
       /\ refs' = refs \cup {f}
       /\ pc' = [pc EXCEPT ![Owner] = "idle", ![f] = "held"]
  /\ UNCHANGED <<quiesce, planner, rr, rrBuffered, released, leases, kvReleases, lastOne, next>>

LeaseFence ==
  /\ pc[Owner] = "loadFence"
  /\ \/ /\ fence
        /\ Go(Owner, "sub")
        /\ UNCHANGED <<held, refs>>
     \/ /\ ~fence
        /\ \E f \in Fires :
             /\ pc[f] = "idle"
             /\ held' = held \cup {f}
             /\ refs' = refs \cup {f}
             /\ pc' = [pc EXCEPT ![Owner] = "idle", ![f] = "held"]
  /\ UNCHANGED <<quiesce, planner, rr, rrBuffered, released, leases, kvReleases, lastOne, next>>

(* A refused lease is taken back; a fenced one then waits to be resident.   *)
LeaseRefused ==
  /\ pc[Owner] = "sub"
  /\ Drain(Owner)
  /\ leases' = leases - 1
  /\ lastOne' = IF leases = 1 THEN lastOne \cup {Owner} ELSE lastOne
  /\ MaybeRelease(Owner, "notify")
  /\ UNCHANGED <<quiesce, planner, released, refs, kvReleases, held>>

(* notify_waiters by whoever brought the counter to zero. *)
Notify(t) == waiting' = IF t \in lastOne THEN {} ELSE waiting

RefusedNotify ==
  /\ pc[Owner] = "notify"
  /\ Notify(Owner)
  /\ lastOne' = lastOne \ {Owner}
  /\ Go(Owner, IF SeesRR(Owner) THEN "idle" ELSE "park")
  /\ UNCHANGED <<arc, planner, leases, fence, held, next>>

(* settle_and_wait_resident, then the lease is tried again. *)
WaitResident ==
  /\ pc[Owner] = "park"
  /\ residency = "Resident"
  /\ Go(Owner, "check")
  /\ UNCHANGED <<arc, ledger, quiesce, planner, next>>

(* The guest drops the working set: release, then the handle goes. *)
OwnerRelease ==
  /\ pc[Owner] = "release"
  /\ rrBuffered' = TRUE
  /\ MaybeRelease(Owner, "drop")
  /\ UNCHANGED <<ledger, quiesce, planner, rr, released, refs, kvReleases>>

(* The process ends: its resource table drops the handle without release. *)
ProcessEnds ==
  /\ pc[Owner] \in {"idle", "park"}
  /\ Go(Owner, "drop")
  /\ residency' = "Gone"
  /\ UNCHANGED <<arc, ledger, quiesce, suspended, restoring, next>>

OwnerDrops ==
  /\ pc[Owner] = "drop"
  /\ DropRef(Owner)
  /\ Go(Owner, "gone")
  /\ UNCHANGED <<ledger, quiesce, planner, next>>
-----------------------------------------------------------------------------
(* A fire completes and its KvFireLease is dropped. *)
FireDone(f) ==
  /\ pc[f] = "held"
  /\ held' = held \ {f}
  /\ leases' = leases - 1
  /\ IF leases = 1
       THEN lastOne' = lastOne \cup {f} /\ MaybeRelease(f, "notify")
       ELSE Go(f, "drop") /\ UNCHANGED <<lastOne, next>>
  /\ UNCHANGED <<arc, quiesce, planner>>

FireNotify(f) ==
  /\ pc[f] = "notify"
  /\ Notify(f)
  /\ lastOne' = lastOne \ {f}
  /\ Go(f, "drop")
  /\ UNCHANGED <<arc, planner, leases, fence, held, next>>

FireDrops(f) ==
  /\ pc[f] = "drop"
  /\ DropRef(f)
  /\ Go(f, "idle")
  /\ UNCHANGED <<ledger, quiesce, planner, next>>
-----------------------------------------------------------------------------
(* The planner picks the process for eviction and spawns an executor.       *)
BeginEviction(e) ==
  /\ pc[e] = "idle"
  /\ residency = "Resident"
  /\ residency' = "Evicting"
  /\ Go(e, "raise")
  /\ UNCHANGED <<arc, ledger, quiesce, suspended, restoring, next>>

(* KvSuspendHandle is a Weak: it upgrades while someone holds the Arc. *)
Alive == refs # {}

(* A working set leaves the process's registry right before its release. *)
Registered == ~SeesRR(Owner) /\ pc[Owner] \notin {"drop", "gone"}

EvictionFindsNothing(e) ==
  /\ pc[e] = "raise"
  /\ ~Registered
  /\ residency' = IF residency = "Evicting" THEN "Resident" ELSE residency
  /\ Go(e, "idle")
  /\ UNCHANGED <<arc, ledger, quiesce, suspended, restoring, next>>

RaiseFence(e) ==
  /\ pc[e] = "raise"
  /\ Registered
  /\ fence' = (fence \/ Alive)
  /\ Go(e, "load")
  /\ UNCHANGED <<arc, ledger, planner, waiting, next>>

(* quiesce: upgrade, load the counter, enable the notification, load again, *)
(* and only then await.                                                     *)
QuiesceLoad(e) ==
  /\ pc[e] = "load"
  /\ \/ /\ Alive /\ leases # 0
        /\ refs' = refs \cup {e}
        /\ Go(e, "enable")
     \/ /\ ~Alive \/ leases = 0
        /\ UNCHANGED refs
        /\ Go(e, "prepare")
  /\ UNCHANGED <<ledger, quiesce, planner, rr, rrBuffered, released, kvReleases, next>>

QuiesceEnable(e) ==
  /\ pc[e] = "enable"
  /\ waiting' = waiting \cup {e}
  /\ Go(e, "reload")
  /\ UNCHANGED <<arc, ledger, planner, fence, next>>

(* A slip: the counter is not read again once the notification is enabled. *)
QuiesceSleeps(e) ==
  /\ pc[e] = "reload"
  /\ Go(e, "await")
  /\ UNCHANGED <<arc, ledger, quiesce, planner, next>>

QuiesceReload(e) ==
  /\ pc[e] = "reload"
  /\ \/ /\ leases = 0
        /\ waiting' = waiting \ {e}
        /\ DropRef(e)
        /\ Go(e, "prepare")
     \/ /\ leases # 0
        /\ UNCHANGED arc
        /\ UNCHANGED waiting
        /\ Go(e, "await")
  /\ UNCHANGED <<ledger, planner, fence, next>>

QuiesceWoken(e) ==
  /\ pc[e] = "await"
  /\ e \notin waiting
  /\ DropRef(e)
  /\ Go(e, "load")
  /\ UNCHANGED <<ledger, quiesce, planner, next>>

(* A slip: a failed eviction leaves the fence up. *)
EvictionForgetsFence(e) ==
  /\ pc[e] \in {"prepare", "copy"}
  /\ residency' = IF residency = "Evicting" THEN "Resident" ELSE residency
  /\ Go(e, "idle")
  /\ UNCHANGED <<arc, ledger, quiesce, suspended, restoring, next>>

(* eviction_failed: the planner has the process resident again, and only    *)
(* then does the executor return and drop its FenceGuard.                   *)
EvictionFails(e) ==
  /\ pc[e] \in {"prepare", "copy"}
  /\ residency' = IF residency = "Evicting" THEN "Resident" ELSE residency
  /\ Go(e, "lower")
  /\ UNCHANGED <<arc, ledger, quiesce, suspended, restoring, next>>

LowerFence(e) ==
  /\ pc[e] = "lower"
  /\ fence' = (fence /\ ~Alive)
  /\ Go(e, "idle")
  /\ UNCHANGED <<arc, ledger, planner, waiting, next>>

(* prepare_suspend found something to move; the copies land. *)
PrepareSuspend(e) ==
  /\ pc[e] = "prepare"
  /\ Go(e, "copy")
  /\ UNCHANGED <<arc, ledger, quiesce, planner, next>>

CommitSuspend(e) ==
  /\ pc[e] = "copy"
  /\ suspended' = TRUE
  /\ Go(e, "commit")
  /\ UNCHANGED <<arc, ledger, quiesce, residency, restoring, next>>

(* keep_raised, then report_evicted. *)
ReportEvicted(e) ==
  /\ pc[e] = "commit"
  /\ residency' = IF residency = "Gone" THEN residency ELSE "Evicted"
  /\ Go(e, "idle")
  /\ UNCHANGED <<arc, ledger, quiesce, suspended, restoring, next>>
-----------------------------------------------------------------------------
(* The restore executor; a failed one queues again, still evicted. *)
BeginRestore ==
  /\ residency = "Evicted" /\ restoring = "idle"
  /\ residency' = "Restoring"
  /\ restoring' = "copy"
  /\ UNCHANGED <<arc, ledger, quiesce, control, suspended>>

RestoreFails ==
  /\ restoring = "copy"
  /\ restoring' = "idle"
  /\ residency' = IF residency = "Gone" THEN residency ELSE "Evicted"
  /\ UNCHANGED <<arc, ledger, quiesce, control, suspended>>

CommitRestore ==
  /\ restoring = "copy"
  /\ suspended' = FALSE
  /\ restoring' = "unfence"
  /\ UNCHANGED <<arc, ledger, quiesce, control, residency>>

(* report_restored lowers the fence and only then reports the process       *)
(* resident.                                                                *)
RestoreUnfences ==
  /\ restoring = "unfence"
  /\ fence' = (fence /\ ~Registered)
  /\ restoring' = "report"
  /\ UNCHANGED <<arc, ledger, control, waiting, residency, suspended>>

ReportRestored ==
  /\ restoring = "report"
  /\ restoring' = "idle"
  /\ residency' = IF residency = "Gone" THEN residency ELSE "Resident"
  /\ UNCHANGED <<arc, ledger, quiesce, control, suspended>>
-----------------------------------------------------------------------------
MaybeReleaseStep(t) ==
  LoadRR(t) \/ LoadLeases(t) \/ SwapReleased(t) \/ ReleaseInStore(t)

OwnerStep ==
  \/ LeaseCheck \/ LeaseAdd \/ LeaseRecheck \/ LeaseFence
  \/ LeaseRefused \/ RefusedNotify \/ WaitResident
  \/ OwnerRelease \/ OwnerDrops
  \/ MaybeReleaseStep(Owner)

FireStep(f) == FireDone(f) \/ FireNotify(f) \/ FireDrops(f) \/ MaybeReleaseStep(f)

EvictStep(e) ==
  \/ EvictionFindsNothing(e) \/ RaiseFence(e)
  \/ QuiesceLoad(e) \/ QuiesceEnable(e) \/ QuiesceReload(e) \/ QuiesceWoken(e)
  \/ PrepareSuspend(e) \/ CommitSuspend(e) \/ ReportEvicted(e)
  \/ EvictionFails(e) \/ LowerFence(e)

RestoreStep == RestoreFails \/ CommitRestore \/ RestoreUnfences \/ ReportRestored

Next ==
  \/ StoreLands
  \/ Gate \/ OwnerStep \/ ProcessEnds
  \/ \E f \in Fires : FireStep(f)
  \/ \E e \in Evictors : BeginEviction(e) \/ EvictStep(e)
  \/ BeginRestore \/ RestoreStep

(* Fires complete, spawned tasks keep running, buffered stores land and a   *)
(* host call that has begun goes on. Nothing makes the process call again,  *)
(* nor the planner start a move.                                            *)
Fairness ==
  /\ WF_vars(StoreLands)
  /\ WF_vars(OwnerStep)
  /\ \A f \in Fires : WF_vars(FireStep(f))
  /\ \A e \in Evictors : WF_vars(EvictStep(e))
  /\ WF_vars(RestoreStep)

Spec == Init /\ [][Next]_vars

FairSpec == Spec /\ Fairness
-----------------------------------------------------------------------------
(* While an eviction moves the pages of the working set, and as long as     *)
(* they are off the device, no fire holds a lease on it: acquire_fire_lease *)
(* and quiesce against the fence. store/rs.rs:800 relies on it.             *)
QuietWhileMoved ==
  suspended \/ (\E e \in Evictors : pc[e] \in {"prepare", "copy", "commit"})
    => held = {}

(* The KV store is asked to release the working set at most once, whoever   *)
(* of release, a dropped lease and the last Arc gets there first, and never *)
(* under a granted lease.                                                   *)
ReleasedOnceAndIdle ==
  /\ kvReleases <= 1
  /\ released => held = {} /\ SeesRR(Owner)

(* The last reference never goes without the pages: even when release and   *)
(* the last lease each miss the other (the store still buffered), Drop      *)
(* makes up for it.                                                         *)
NothingLeaks == refs = {} => released /\ leases = 0

(* A working set whose release was asked for is released in the store.      *)
ReleaseCompletes == rr ~> kvReleases = 1

(* An eviction never waits forever for a lease that is already gone: the    *)
(* notification is enabled before the counter is read again.                *)
QuiesceEnds == \A e \in Evictors : pc[e] = "load" ~> pc[e] = "prepare"

(* A resident process is not left fenced out: once no executor is at work,  *)
(* its working set takes leases again. Left up, the fence would make every  *)
(* fire spin between the lease and wait_resident.                           *)
NoStrayFence ==
  /\ residency = "Resident" /\ restoring = "idle"
  /\ \A e \in Evictors : pc[e] \in {"idle", "raise"}
  /\ Registered
  => ~fence
=============================================================================
