# A verification project for Pie

Pie serves language models to *inferlets*: guest programs that own their KV
memory, submit forward passes on pipelines and read results from channels.  The
code that has to be right is not the numerics but the traffic around them: pages
of device memory that several fires, copies and evictions want at once; a queue
that reorders work for throughput without breaking the order it promised; futures
that sleep on slots which are freed and reused under them; a controller that may
forget everyone and must find them again.  This directory models that traffic in
TLA+, checks it with TLC on small instances, and proves with TLAPS what holds for
every instance.

Paths below are relative to `src/crates/`; `rt/` stands for `runtime/src/`.

## 1. Inventory

| Component | State it keeps | Operations | Interacts with |
|---|---|---|---|
| Page pool, write epochs (`rt/store/pool.rs`, `rt/store/kv.rs`) | free list, pending list by epoch, `seq`, `outstanding` | reserve, return, give back at an epoch, settle, retire | KV store, grants, fires, moves |
| KV page table and cache (`rt/store/kv/page_table.rs`, `rt/store/kv.rs`) | trie of nodes and pages, anchors, sealed hashes, cache entries, host and disk slots | create, fork, prepare/publish write, seal, release, attach, reclaim, move out, restore | pool, planner, fires |
| Working-set lifecycle (`rt/store/kv/working_set.rs`) | release mark, lease counter, suspend fence, notification | release, lease, fence, quiesce | process, fires, eviction |
| Residency planner (`rt/planner.rs`, `rt/planner/`) | processes and their residency, wait queue, grants, evictions and restores in flight | wait, grant, pick victims, evict, restore, starve | every process, KV and state stores |
| Recurrent state store (`rt/store/rs.rs`) | slots and pages of recurrent state | as the KV store | planner, fires |
| Scheduler worker (`rt/scheduler/worker.rs`, `frame.rs`) | queue of launches, copies, controls; lanes and sealed frames; batches and controls in flight | submit, seal, post, rotate, retire, terminate | pipelines, lane |
| Engine lane (`rt/scheduler/lane.rs`) | two channels and a turn counter; frame settlements | take a launch or a control, post to the engine | worker, engine |
| Completions and waker table (`waker/`, `rt/engine/completion.rs`, `rt/engine/channel.rs`) | slots with generation, waiter, published epoch, waker; free list | alloc, free, register, publish, wake, close | every future in the runtime, engine callbacks |
| Fire preparation and channels (`rt/pipeline/`) | fires pending on a pipeline, channel rings | submit, prepare, finalize, put, take | all of the above |
| Process lifecycle (`rt/inferlet/process/`) | resource table, pipelines, permits | admit, gate, terminate, tear down | planner, scheduler |
| Controller (`controller/`) | registry of workers and gateways, ids, ages, health; two published views | register, heartbeat, report, tick | workers, gateways |
| Controller link (`gateway/src/controller.rs`, `worker/src/link/control.rs`) | shared client and dial count, watch epoch | call, heal, watch | controller |
| Gateway sessions, worker links, peers, offload (`gateway/`, `worker/`, `rt/offload/`) | sessions, placements, links, remote leases | place, stream, fail over, transfer | controller, workers |
| Engines, kernels, compilers, formats, SDK | device and file data | numerics, compilation, parsing | – |

**What is hard here.**  Leases race fences with relaxed atomics; a process is
resumed while the eviction that failed on it is still unwinding; a page is shared
by working sets, cache entries and moves that come and go in any order, and
written by fires that were prepared several awaits ago; a queue is
rotated while copies of its items are in flight; a slot is freed by a drop and a
close at once; a callback arrives with an id of the slot's last holder; a
controller restarts and counts ids and epochs afresh while workers still go by
the old ones.  `PROJECT.json` lists these hazards line by line.

**What makes each part correct.**  *Pool:* no page in two hands, none reused under
an unsettled copy.  *KV store:* a fire reads what its program wrote, a key names
one content; readers counted exactly, slots below the device conserved, no page in
two moves, a running process resident.  *Planner:* no page lost between pool, hoard, grants, moves and teardown; one way
back for every process away; no ask and no evicted process forgotten.  *Lifecycle:* no fire on pages being moved; released exactly
once; nobody waits forever.  *Scheduler:* a launch after its copy, a pipeline in
order, nothing settled that the engine has, everything settled in the end.
*Waker table:* no wakeup lost, no slot leaked or freed twice, no stale id with
effect.  *Controller:* unfit workers are never routed to as healthy; dead ones
leave, live ones return as themselves; one worker to an id.  *Link:* only dead links are
replaced; the view catches up.

## 2. Modules

| Module | Models | Composed with, proved in |
|---|---|---|
| `PageCustody` | the pool and the write epochs, with the mapping left open: the abstract promise the KV store implements | `SuspensionProofs`, its last part |
| `KvPageTable` | the trie of pages as operators on a table: anchors, selections, compaction, keys, what may move | `KvStructProofs` |
| `KvStore` | the KV store, the fires that write through it, the cache and the moves between tiers | uses `KvPageTable`; implements `PageCustody`; `KvStoreProofs` |
| `KvContents` | what the pages hold while the engine copies and writes in its own time | `KvStore` with the engine and the programs |
| `Planner` | who gets the KV pages when there are too few: asks, queue, hoard, evictions, restores, verdicts, processes that come, wait and go | stands over `Suspension` (one eviction) and `KvStore` (the pages); `PlannerProofs` |
| `Suspension` | one KV working set between its process, its fires, eviction and restore executors | `SuspensionProofs` |
| `DispatchQueue` | worker queue, frames, lane and engine | `DispatchQueueProofs` |
| `WakerTable` | the slot table and the two futures that sleep on it | `WakerTableProofs` |
| `Controller` | registry, published views, registration protocol of workers and gateways | `ControllerProofs` |
| `ControllerLink` | the shared client, heal and the long-poll watch | abstracts `Controller` to an epoch; `ControllerProofs`, its last part |
| `CollectionTheorems` | nothing of the code: lemmas on the community modules' sums and sequence operators | used by `DispatchQueueProofs`, `PlannerProofs`, `KvStructProofs` |

Each specification has an `MC` module, with its symmetry sets and definitions for its constants.
Every module also holds, marked *slip*, the plausible mistakes its properties
must catch; they are used by no specification.

### PageCustody
`free`, `pending`, `seq` and `outstanding` are the fields of `Pool` and `KvStore`;
`reserved` is what grants hold, `mapped` what the page table owns, `touches` which
pages the copy of an unsettled write reads or fills.  `Write` is
`classify_write` + `finish_prepare_write` + `publish_prepared`, which run under
one lock; `Remap` stands for every other change of the mapping and
`RemapAndRetire` for those that call `retire_idle` in the same lock hold
(`end_move` and a working set's release).  `Due` is `retire_idle`'s condition.

### KvPageTable
A table is a record: nodes, working sets, cache roots, pins and the locations in
moves, as the fields of the Rust struct.  Operations return the new table and the
set of backings they let go, as the code's `Vec<KvPageBacking>`.  A node owns pages
or selects a prefix of its parent's: every selection is made by
`make_prefix_selection` and compaction keeps the longest prefix taken, so the code's
`Runs` are always one range from zero.  Paths are walks (`Up`, `Joined`) along parents or
predecessors.  Anchors come and go in sets (`AddAnchors`, `RemoveAnchors`): the code takes
them one by one under one lock, which comes to the same, and a set of them can be reasoned
about without an order.  A key is the chain of tokens it is the hash
of, which makes collisions impossible and a wrong chain visible.  `SealedRuns`
returns every run `sealed_run` can find, as which of several copies comes first
depends on the order they were sealed in.

### KvStore
One action per operation of `store/kv.rs` under its lock.  A fire is a record that
goes through `granted`, `prepared`, `queued` and gone: `Quote` (demand and grant,
`reserve`), `FirePrepare` (lease, copies on write and new pages,
`prepare_host_kv_reserved`), `FireSubmit` (`log_begin` and submission), `FireSettles`
(`finalize_fire_await` with `log_end` and `settle_fold`).  Between these steps
anything else may happen.  It may give up before it is prepared (fenced, demand
outgrown), be refused after (`FireRefused`, the guards settle its epoch) or be lost
after its epoch left the guard (`FireLost`).  `Supply` maps sealed pages into a pass,
`PromoteQuote` to `ReleaseReader` bring them up from below first, with the await for
the grant in between.  `Release` keeps what is sealed as cache entries;
`ReclaimCache`, `DiscardCache` and `PrepareDemote` let them go.  `PrepareSuspend`,
`PrepareSweep`, `CommitOut`, `AbortOut`, `PrepareRestore`, `CommitRestore`, `AbortIn`
are the moves; `away` is the fence and residency of `Suspension` in one step.
The refinement `Custody == INSTANCE PageCustody WITH ...` maps what the trie backs
with device pages to `mapped`, grants and landing pages of moves to `reserved`, and
the copies of unsettled fires to `touches`.

### KvContents
`mem` is what each page or slot holds, slot by slot: the chain of tokens up to it,
since attention makes a row depend on all before it.  `truth` is what a working
set's program has written, `wants` what a fire should find before its first row.
`RunCopies` and `RunFire` are the engine's: copies of a later fire may run before
launches of earlier ones, launches of a pipeline in order.  Moves copy their pages
when prepared, so a write between prepare and commit would be lost.

### Planner
`proc`, `queue`, `accum` (the hoard), `evicting`, `credit`, `swapBlocked`,
`prepareBlocked` and `killing` are the fields of `Inner`; `poked` is the permit of the
drain task's `Notify` and `pauseDue` the flag of that name.  A step is one hold of the
planner's lock.  What the planner task carries from one hold to the next (the head it
was funding, the victims it quoted, the cause of a stall) is `plan`, and it is used in a
later step as the code uses it: located again, checked again, or not.  Pages are counted, not named.  A fire
goes through `quoted` (the demand is known), `short` (`grant_now` refused it),
`parked`, `granted`, `fired`, or `away` while its process is; a process registers,
is admitted, runs, waits on its client (`idle`), is held by the policy, is evicted and
restored, finishes, is aborted, restarts.  `leaving` is what an ended process held:
`unregister` comes first and the deferred teardown gives the pages back later.
`late` is what a failed restore was lent, which comes back after the report, with a
poke of its own or without.  Each process has one executor at a time; its fence is
up from `EvictFences` to the report of the restore.  `Reschedule` installs any of the
policy's schedules.  The loops over the queue are stated by their results: a burst
serves the asks whose needs, summed from the head on, fit the supply
(`BurstShortfall`, `Burst`), and a reschedule keeps the entries that stay and orders
them by rank, those of one process in the order they came (`Kept`, `Ranked`).  Two things are merged: the slots a failed eviction took are free
again with its report, and the pages of several failed restores come back together.

### Suspension
Every atomic access of `KvLifecycle` is a step.  `release_requested` is stored
with `Release` and the counter then loaded with `Acquire`, so the store may still
be in the thread's store buffer: `rrBuffered`, drained by the thread's
read-modify-writes or on its own.  `refs` are the strong references of the
`Arc`; the last to go runs `Drop`.  The owner thread makes one host call at a
time, through the residency gate; fires complete on threads of their own;
eviction executors raise the fence, quiesce, prepare, copy, commit and report, or
fail at any of these points; a restore executor undoes it.  The planner is reduced
to the residency of the one process; why it evicts is left open.

### DispatchQueue
`queue` is the worker's deque, `lanes` and `sealed` the frame policy's complete
and sealed frames, `launches` and `controls` what is in flight with where it
stands.  A fire is queued with a copy ahead of it or without.  `Seal` lets any
set of complete pipelines be sealed together: what the quorum, deadlines and
cohorts of `frame.rs` decide is only which of these behaviours happen, so safety
here covers every policy.  `RotateLaunches`, `PostFront`, `PostMove` are the
arms of `dispatch_ready_items`; `LaneTakesLaunch`, `LaneTakesControl` and
`EndControlTurn` those of `Lane::next_request` with what the lane then does.
`Terminate` is `PipelineLeave(Terminate)` with the rejection of queued work and
the purge of lanes.  `Stop` is the last thing the worker is told; from then on `Drain`
posts every queued launch in one batch, past sealed frames and blocked lanes
(`drain_eligible`), and `drained` remembers which.  `turn.stash` is the batch the lane
sets aside while it hands over the one before: it goes next whether or not a control
is due, so the count of launches in a turn has no bound.  A frame here holds one fire
of a pipeline, and every fire is framed: the unframed launches (`untracked`, the rider
batch) are the later pieces of frames of several and are not modelled.  A KV copy and a
state copy of one fire are one copy; binds and closes are not modelled.
`Without` (a queue short of some items) and the minima are written without recursion, so
that they can be proved about.

### WakerTable
A slot is what its mutex guards.  Operations take that mutex once; what follows
the unlock (calling the waker, pushing the index) is a step of its own
(`FreeUnlocked`, `CallWaker`).  `MaxGen` stands for `u32::MAX`, so that retiring
the last generation happens.  A completion is settled by one publish, possibly
after it is gone, or by `close` from another thread, which marks and then frees;
a channel by a word stored before the wake.  Polling checks, reads the epoch,
registers and checks again, each a step.

### Controller
A command is one step of the actor.  Ages are counted in half eviction timeouts:
one lags, two has expired.  A worker that is told to register again asks for its
id; given another, it restarts.  The answer to a registration may be lost.
Crashes empty a node; a controller restart empties the registry, as `SoftState`
recovers nothing.  Peers are a function of the registry, represented by the
addresses.

### ControllerLink
`conns` are the dials of the shared client with the controller run each was made
to.  `heal` takes the dialing lock and dials unless the client has changed since
the caller's own; `After` is the watch's reset of `since`.  Views are
numbered by the controller's epoch, which a restart sets back to zero.

## 3. Runs

| Run | Instance | Checks | Result |
|---|---|---|---|
| `page_custody` | 3 pages, 3 epochs | `OneCustody` `NoReuseInFlight` `TouchedIsHeld` | pass, 6 thousand states |
| `kv_store` | 3 pages of 2 tokens, 1 slot below, 2 sets, 2 fires of up to 2 rows, 3 moves, rewrites and refusals | `SlotsKept` `AnchorsExact` `FlatIsCurrent` `RunningIsResident` `HeldRunStays` `OneMovePerPage`, `ImplementsCustody` | pass, 116 thousand |
| `kv_contents` | the same pages, 2 tokens, 3 fires of 1 row, 2 moves, forks of quiet pipelines | `ReadsWhatWasWritten` `KeysNameContent` `FiresKeepTheirPages` | pass, 244 thousand |
| `kv_rewrite` | pages of 1 token, 3 fires, rewrites | `KeysNameContent` | **violated** |
| `kv_late` | 2 sets, 2 fires, late refusals | `EpochsSettle` | **violated** |
| `planner` | 2 processes, 3 lanes, 2 pages, 2 slots below, 1 disturbance, 1 restart, fair | `PagesConserved` `OneWayBack` `HoardReturns`, `NoAskForgotten` `PreemptedReturns` | pass, 290 thousand |
| `suspension` | 2 fires, 1 evictor, fair | `QuietWhileMoved` `ReleasedOnceAndIdle` `NothingLeaks` `NoStrayFence`, `ReleaseCompletes` `QuiesceEnds` | pass, 28 thousand |
| `suspension_overlap` | 2 evictors alive | `QuietWhileMoved` | **violated** |
| `dispatch_queue` | 2 pipelines, 2 fires, 1 move, depth 2, terminations, a shutdown, fair | `OnlyTheDrainOvertakes` `PipelineInOrder` `NotSettledInFlight`, `LiveWorkSettles` | pass, 516 thousand |
| `waker_table` | 2 tasks, 1 slot, 3 generations, both kinds of wait, fair | `SlotsConserved` `StaleIdsReachNothing` `ReusedSlotIsClean` `NoLostWakeup`, `EveryWaitEnds` | pass, 278 thousand |
| `controller` | 2 workers, 1 gateway, ids 0..1 (0 for gateways), 1 restart, fair | `UnfitIsToldAtOnce` `OneWorkerPerIdTillRestart`, `DeadWorkersLeave` `OnlyTheSupplantedStayAway` | pass, 312 thousand |
| `controller_link` | 2 controller runs, 2 epochs each, 4 dials, fair | `OnlyDeadLinksAreReplaced` `ViewCatchesUp` | pass, 54 thousand |

Deadlock is not checked where the system may rest: a process that ended, a queue
that is drained, a table whose slots have all retired, a cluster in which nobody
starts, a store whose sets, fires and moves are used up, a fleet whose processes have
all ended.  `page_custody` and
`controller_link` check it.

**Bounds.**  Three pages and three epochs are the least at which one page is
touched by an old write, replaced by a newer one and wanted by a third party.
Three device pages of two tokens let a set of two pages share one with a fork and
copy it; one slot below makes the tier full while another move wants it; three
moves let an eviction, a sweep and a restore, or a demotion, a promotion and an
eviction, meet.  Two sets are a parent and its fork or two processes, the second of
which can attach what the first sealed; a released set leaves its pages to the
cache.  Three one-row fires fill a page, seal it and write past it; two tokens tell
contents apart, and are interchangeable (`TokenSymmetry`).
Two pages and two slots below are the least at which one process holds what another
lacks, an ask may exceed what its process could ever have (the elder's second lane may
ask for three), and the tier below can take one process and not both; with three
lanes the elder can hold a page, wait for a second and leave the younger waiting.
`MaxUpsets` bounds together what need not happen: aborts, failures of moves, unusable
grants, waits for the client, new schedules.  The run has one of any kind at any point;
`MCPlannerUpsets.cfg` has two, for the invariants.  One restart lets the successor meet
what its predecessor left.
Two fires let one lease end while another is being taken.  Two fires may be
of one pipeline, the second with its copy in flight while the first waits, or of
two, one rotating past the other; a turn of one launch and two controls makes
both caps of the lane bite.  One slot is the most contended table; three
generations let it be reused twice and retired while its first id is still held
by a callback.  Two workers are enough for an id
to be contested, one restart for it to be reused; with one gateway id a gateway that
crashes is back only under a restarted controller.  Two epochs per controller run
let the old `since` be behind, equal to or ahead of the new count.

### The disagreements
* `kv_late` – the epoch of a prepared write leaves its guard (`kvtxn.into_inner()`,
  `fire.rs`) before the lanes' pages are mapped and the fire is submitted.  Refused
  there, the fire drops it unsettled: it stays outstanding for ever, and no page given
  back at it or since is handed out again.  The custody properties hold all the same,
  which is why `kv_store` has these refusals.
* `kv_rewrite` – a fork may lag behind its parent's fold, so it may rewrite a slot
  of a page the parent has sealed since.  The page is shared and is copied, but the
  copy takes the key along: it goes by a key whose content it no longer holds.  With
  fires that only append, or on which both sets have folded alike (`kv_contents`),
  keys are right.
* `suspension_overlap` – a failing eviction resumes the process (and pokes the
  planner) before its `FenceGuard` drops.  A second eviction may raise the fence
  in between, and the first guard lowers it: a fire leases pages being moved.
  With a single executor alive at a time (`suspension`) the property holds.

### Further instances
Configurations kept beside the runs.  `MCPlannerUpsets.cfg` passes: two disturbances of
any kind, 299 thousand states.  TLC finds each of the others violated within seconds:
* `MCKvForkInFlight.cfg` (`ReadsWhatWasWritten`) – a set is forked while a launch that
  writes its last page is queued.  The next fire of the pipeline has to copy that page
  first; rotation posts the copy ahead of the earlier launch, and the copied page misses
  its rows, although `working-set.wit` has the copy "ordered on `on`".  With forks of
  quiet pipelines (`kv_contents`) every fire reads what was written.
* `MCPlannerDropped.cfg` (`AsksAreAnswered`) – a fire that meets the fence drops its
  grant ("the pages fund the eviction's head", `pipeline/fire.rs`) without a poke.  If the
  eviction has reported and the planner has gone to rest by then, the head waits beside
  free pages until something else pokes.  The same holds of a restore's reservation,
  dropped after `requeue_restore` has poked, and of a `MoveGuard` dropped with no copy in
  flight.  `NoAskForgotten` and `PreemptedReturns` therefore except `Overlooked`
  states; they say that this is the only way to be forgotten, together with the
  idle condemned process described below the list.
* `MCPlannerVerdict.cfg` (`VerdictsAreLast`) – an ask fails as starved, with "every page is
  held by a process OLDER than the head", while pages are on their way back: in the
  deferred teardown of a process already unregistered, in the hand of a fire behind the
  fence, or in a failed restore.  The planner knows of none of these.
* `MCKvStale.cfg` (`ReadsWhatWasWritten`) – a prepared write is published, then the
  fire is found stale (the recurrent state or another set of the pass no longer fits
  the grant) and reserves again.  The mapping already has the copies, now private, so
  the second attempt copies nothing, and the first attempt's copies were never made:
  the fire reads pages nobody filled.
* `MCDispatchAbandoned.cfg` (`EverythingSettles`) – termination protects the fire
  whose copy is in flight from rejection, then purges its lane.  Its launch stays
  queued, is never sealed, and the teardown that waits for it never ends.
* `MCDispatchSharedProcess.cfg` (`NotSettledInFlight`) – it protects the fire of the
  first copy it finds (worker.rs:1459).  A process with two pipelines may have a copy of
  each in flight; the fire of the second is rejected, and so reported settled, while the
  engine still fills its pages.
* `MCDispatchStop.cfg` (`LaunchAfterItsCopy`) – told to stop, the worker posts every
  queued launch, also one whose copy is still queued (`drain_eligible`,
  worker.rs:1982), although "a launch never overtakes a copy its pipeline queued ahead
  of it" (worker.rs:1985).  The engine takes the launch first; the copy is posted beside
  it (worker.rs:1869-1876), and the launch may end and settle the fire while the copy
  runs.  `dispatch_queue` shows that this is the only way: a launch posted before the
  shutdown waits for its copy, and nothing but a drained fire is settled in flight.
* `MCControllerRestart.cfg` (`LiveWorkersReturn`) – a restarted controller counts ids from
  zero and may give a newcomer the id of a live worker that has not beaten yet.  Each of
  them beats under that id, each beat is acknowledged and renews the newcomer's entry,
  and the older worker neither registers again nor starts over, although
  `link/control.rs:307` has a worker the controller does not know register again.
  `controller` shows that only such a worker stays away (`Supplanted`).
* `MCControllerSharedId.cfg` (`AckMeansRegistered`) – the step behind it: a heartbeat is
  acknowledged for an entry that is another worker's.
* `MCControllerHealth.cfg` (`UnreachableUntilItBeats`) – a heartbeat takes a worker
  back from unreachable in the registry without publishing, so the routing table
  keeps it unreachable.
* `MCControllerLinkRestart.cfg` (`WatchStartsOver`) – the watch resets its epoch only
  if its own call failed while the client changed.  If the heartbeat redials while
  the watch is between polls, the watch polls the new controller from the old epoch
  and waits out `T_HANG`.  `ViewCatchesUp` shows it does catch up.

A process whose ask failed as starved, that is not restartable and goes on to wait on its
client, stays in `killing`.  `kill_in_flight` then holds back evictions and verdicts until
it leaves, though it is idle and, as `Proc::idle` has it, "a victim for anyone".  This is
the other half of `Overlooked`.

## 4. Fairness

`Suspension`: weak fairness of each thread that has begun a call, of every fire
(an engine completes what it accepted), of every spawned executor and of the store
buffer; none for a process making calls or the planner starting moves.
`Planner`: weak fairness of the planner task, which a poke wakes; of every fire that has
asked (its task runs); of the executors, admission, ending and teardown of each process;
and of what a failed restore has yet to drop.  Clients may stay silent for ever, guests
need not ask again or drop their sets, and aborts, failures and schedules need not come.
A guest that waits for nothing does return in the end, which is what gives its pages back.
`DispatchQueue`: weak fairness of each arm of the worker's loop, which runs as
long as it makes progress and is woken by replies, the drain included; of the lane's thread as a
whole, so that preferring launches or controls for ever is for `LaneTurn` to
prevent; of the engine's completions; and of sealing, which `frame.rs` forces by
deadlines.  `WakerTable`: a woken task is polled, a thread past an unlock
continues, the engine answers; nobody is obliged to drop or to close.
`Controller`: timers tick and live nodes keep beating, reporting and registering;
nobody is obliged to start, crash, drain or restart.  `ControllerLink`: tasks run,
a restarted controller is not assumed; answering a poll is strongly fair, because
a call on a live connection is answered within `T_HANG`, well before its
deadline, unless the connection drops again and again; so is the dialing lock,
which tokio hands out in order.

## 5. Proofs

A theorem holds for every value of the constants; each of the invariants below was
first checked by TLC.  The theorems' modules extend the specifications the runs use.

**`PageCustody`** (the last part of `SuspensionProofs`), for every set of pages and every
bound on epochs: `CustodyTypeCorrect`, `CustodyIsPartition` (`CustodySpec => []OneCustody`),
`TouchedStaysHeld` (`CustodySpec => []TouchedIsHeld`) and `NoReuse` (`CustodySpec => []NoReuseInFlight`).  `NoReuseInFlight` alone is not
inductive: from a state in which a touched page sits in the pending list at too old an
epoch, `Settle` of another write would free it.  `CustodyInv` adds `TouchedIsHeld` (a
touched page is mapped, or pending at an epoch no older than the write that touches it) and `EpochsBounded`
(no pending or outstanding epoch is ahead of `seq`), so an entry that is due is
older than every outstanding write.  Lemmas `PageOfUnion`, `PageOfAtEpoch` and
`DueSplits` say what the pool's list operations do to the set of pages;
`CustodyInvInductive` takes the actions one by one; `HeldIsNotReused` draws the
conclusion.  The only assumption is that the bound on epochs is a natural number.

**`SuspensionProofs`**, for any number of fires and eviction tasks.
`ReleaseIsSingle` (`[]ReleasedOnceAndIdle`) and `LastArcReleases` (`[]NothingLeaks`) rest
on `ReleaseInv`: the lease counter equals the leases granted and the one the process is
asking for (`CountExact`), where a thread stands tells what it holds (`HoldersKnown`),
and once release is asked for the process asks for no more, so a counter seen at zero
stays there (`ReleasePath`).  Without the last a second thread could see zero, take the
swap late and release under a lease.  `EvictionIsQuiet` (`[]QuietWhileMoved`) and
`FenceComesDown` (`[]NoStrayFence`) rest on `FenceInv`, which ties the fence to the
executors and to the planner's state of the process.  They carry the hypothesis
`[]OneAtATime`: no eviction starts before an earlier one has dropped its fence guard.
It is needed, since the run `suspension_overlap` shows two overlapping evictions leave
the fence down.

**`ControllerProofs`**, for every fleet, bound on ids and number of restarts.
`TableFollowsRegistry` (`[]UnfitIsToldAtOnce`) rests on `RoutingInv`: a draining worker is
never graded healthy, only a node with an id is told to register again.  `IdsStayApart`
(`[]OneWorkerPerIdTillRestart`) rests on `IdInv`: until a restart every id in use
is below the next one and an entry belongs to the worker that goes by its id, so a
newcomer's id is fresh and a returning worker gets its own.  `AcksAreTrue` draws
`AckMeansRegistered` from it under the hypothesis that the controller did not restart,
and `MCControllerSharedId.cfg` shows that it fails after one.

**`ControllerLink`** (the last part of `ControllerProofs`), for
every number of tasks, dials and restarts: `HealReplacesDead`
(`LinkSpec => OnlyDeadLinksAreReplaced`, an action property).  `LinkInv` says a
task that heals saw its connection die, and that a connection to an earlier run of the
controller stays dead; and that a dial is left for every restart to come
(`DialsLeft`), which is where the bounds must fit (`MaxIncarnations <= MaxDials`: they
only bound the model).

**`WakerTableProofs`**, for every number of slots, generations, tasks and calls owed.
`SlotInv` gives `SlotsAreConserved` and `ReuseIsClean`: a slot is on the free list once, on
its way there, retired, held by one object or about to be freed by a close; ids that
were issued have a generation no newer than their slot's.  It is stated with quantifiers
and turned into the cardinalities of `SlotsConserved` at the end.  `Inv` adds
`StaleIdsReachNothing` (`StaleIdsAreHarmless`) and `WakeInv`, from which `NoWakeupIsLost`
(`[]NoLostWakeup`) follows: a task that registered has its waker in its slot, with the
epoch it sleeps from, until somebody takes it to call it, and one that sleeps with nobody
on the way missed nothing.  The one assumption is `None \notin Tasks`.

**`DispatchQueueProofs`**, for any number of pipelines, processes, fires and moves, any
depth and any turn limits.  `DispatchInv` has three parts.  `Base`: types; the fires
submitted of a pipeline are its first ones (`Numbered`), so a new one is the last; whatever
is under way was submitted; a control that is complete was copied, one refused is settled.
`CopyInv`: a queued launch has its copy queued, with the lane or complete, or will be
rejected (`CopyFirst`), and one in a batch has left the queue with its copy complete and
is not settled, unless the drain posted it (`FliesReady`).  `OrderInv`: lanes are sorted, a queued launch is in its
lane or in the sealed frame unless its process is terminated, the sealed frame comes
before the lanes, batches in flight keep the order of each pipeline, the lane takes the
oldest, and nothing queued comes before what was taken.  The last two parts are inductive
only together: that retiring a batch settles nothing still in flight is order, and that
the wave just posted comes after what flies needs `FliesReady`.  `LaunchesFollowCopies`
and `PipelinesKeepOrder` follow.  The order of the deque itself plays no part: a rotation
keeps the set of its items and that is all that is used of it.
`FlightInv` adds that an item is in one place and that copies with the lane are of
different pipelines (`InFlightControls::admits`).  From it `SettledInFlight`: while the
engine has it no launch and no move is settled, and a copy only where its process was
terminated and has another pipeline, fires the drain posted apart.  The proof found the
case of the second pipeline, which `MCDispatchSharedProcess.cfg` shows.  What is proved
of launches and their copies is `[]OnlyTheDrainOvertakes`: `LaunchAfterItsCopy` itself
fails at shutdown.  The assumption on the constants besides their
types is that moves are not fires.

**`PlannerProofs`**, for any number of processes, lanes, pages and slots, any needs and
any schedules.  `EveryPageCounted` (`[]PagesConserved`), `OneWayOutAndBack`
(`[]OneWayBack`), `HoardGivenBack` (`[]HoardReturns`) and `PlannerTypes` (`[]TypeOK`)
follow from `Inv`, which both planner instances were checked for.  None of them is
inductive alone:
* `QueueInv`: no two entries have a name in common (an ask goes by its lane, a restore by
  its process), an ask is that of a fire parked for just that many pages, a restore that of an
  evicted process with no parked demand, and every parked fire has its ask queued.  Without
  it a grant could be collected by a fire that asked for something else.
* `CarriedInv`: the head that the planner task carries across two holds of its lock is
  still queued, a restore when it serves one, an ask when it gives a verdict; every action
  that takes an entry out must clear what is carried (`Forget`).
* `AwayInv`: residency, executor and way back agree.
* `MovesInv`: an executor moves no more than the process has.
* `LedgerInv`: the pages on the device add up to `Total`, with what was promised counted to
  the lane that will collect it, and the slots below the device are within `SwapTotal`.
* `HoardInv`: past the head of the queue, an empty queue means an empty hoard or a poke.

The queue is treated as the set of its entries: `EnqueueDoes`, `RemoveDoes`, `KeptDoes`,
`RankedDoes` and `RewrittenDoes` say what each operation does to that set, so the order a
schedule gives plays no part in these theorems.  Counting by lane makes a grant, its
collection and its loss changes of one summand; `NeedByLane` and `SumRenamed` turn the sum
over lanes into the one over positions of `PagesConserved`.  `NextInv` has one lemma per
action.  The assumptions are the types, that processes and lanes are finitely many, and
that `None` is no lane.

**`KvStructProofs`** and **`KvStoreProofs`**, for every number of device pages and host slots,
every page size, every token set and every bound.  `AnchorsAlwaysExact` (`[]AnchorsExact`)
says the trie's two reference counts are exact, from which it follows that a node goes with
its last reader and never before.  It is not inductive alone: a count stays right only if
the path above a node stays the one the anchor was counted along, if a lease is given up
once per entry and a pin once per move, and if nothing walks into a node that is gone.
`Struct` is: `Sound` (below) of the page table, its pages in the two pools, leases equal to
the cache's entries (`RootsExact`), pins to the moves that hold them (`PinsExact`), and the
records of fires, moves, flat tables and logs of their types with the sets they name alive.
* The table lemmas come first and mention no state.  `Walk` gives what an induction would:
  a rank that falls along `next`, from which the walks of `KvPageTable` are shown to exist,
  to be unique and to unfold (`UpUnfolds`, `JoinedUnfolds`), once and for all.  `Shape` says
  that parents and owners are live and walks end, `Counts` that the counts are those of the
  anchors, `Trie` adds that every node has an anchor at or below it and that no owner keeps
  pages nothing takes, `Sound` that each set's mapped length is its path's.
* `AnchorsAdded` and `AnchorsRemoved` are the heart: what is counted is a function from
  anchors to nodes, and one more or less at each of a set of nodes changes each node's
  counts by the cardinalities the operators add or take.  Removal shows besides that what
  still has an anchor keeps its locations and that what is freed is exactly what went
  (`RemoveFrees`).
* Every operation is then summarised by a predicate between two tables (`Appending`,
  `Cutting`, `Shrunk`, `Alike`, `Rebacked`, ...), and each action by the few of them it
  composes.  `NextStruct` has one lemma per action.

On top of `Struct` come the moves between the tiers.  Every step of the store is *quiet*
(`Quiet`: it begins and ends no move, and what a set or a pin reads it read before, or is
on the device and in no move), or *opens* a move (`Opened`: room is made, then the move's
pages join `swap_locations`), or *closes* one (`Closed`: its pages are let go where they
were or where they went, and its sets are marked).  Four invariants follow, each from what
the three kinds of step leave of it:
* `PagesInOneMove` (`[]OneMovePerPage`) from `MovesOk`: the pages of moves are apart and
  live where their move left them; and what a move takes off the device is read by a node
  the move pinned, or by no set.  The last is what keeps a fork or a write that happens
  meanwhile from making a moving page movable again.
* `RunningStaysResident` (`[]RunningIsResident`) and `PromotedRunStays`
  (`[]HeldRunStays`) from `RunsOk`: a running set is on the device; one whose process is
  being evicted or restored is, but for the pages of that move; one a sweep reads is
  suspended and of a process that is away; and at most one move is of a process.
* `FlatAlwaysCurrent` (`[]FlatIsCurrent`) from `FlatHere`: flat tables are current also
  while their process is being evicted, since the eviction may be aborted, and of sets
  forked while it is being restored, since nobody takes those again.

**`CollectionTheorems`** serves the proofs above.  `SumFunctionOnSet` of the community
modules is a fold that is defined by recursion over sets.  Its function is shown to exist
and to be unique (`AddsUpExists`, `AddsUpUnique`) by taking a smallest set without it,
which a finite set of sets has (`SmallestSet`), in place of an induction rule.  From that
come what one summand contributes (`SumStep`, `SumChanged`), splitting, bounds and renaming.  `InsertItems`,
`RemoveItems` and `SetListed` do the same for the sequence operators.

**Model-checked only.**  Liveness, everywhere: fairness is outside the prover's reach; of
the planner that is `NoAskForgotten` and `PreemptedReturns`.  Of `KvStore`, `SlotsKept`
and `FiresKeepTheirPages`, and the two properties of `KvContents`: each needs the custody
of pages and slots on top of what is proved of the moves.
`KvStore` is shown to implement `PageCustody` by TLC (`ImplementsCustody`), so what is
proved of the abstract module holds of the store on the checked instance.
`OneWorkerPerId` across restarts does not hold and is not claimed, nor is `EpochsSettle`.

## 6. Plan

1. `KvStore` and `KvContents` further: checkpoints, imports from peers, the disk tier
   apart, fires whose pages the device chooses.
2. `FrameSettlements`: terminal cells, early and late step outcomes, clones of a
   completion; composed with the lane.
3. `ChannelRing`: the single-producer rings pumped between host and engine.
4. `Planner` further: recurrent-state slots, seating and checkpoints, execution seats,
   the sweep and demotion it starts; composed with `Suspension` for the fence.
5. `FramePolicy`: binds, closes, cohorts, deadlines; refines `Seal`.
6. `RsStore`, process lifecycle and teardown, gateway sessions, peer links, the
   pairing plan as operators against a reference definition.
7. Proofs: on top of `MovesOk`, the custody of device pages and slots, with which the
   steps of the refinement of `PageCustody` and `SlotsKept` can be shown.

## 7. Not modelled

Of the KV store: `import_cached` and transfers to peers, checkpoints
(`keep_checkpoint`), `split_at_steps` and the retention policy's keys (entries rank
by what they free and by prompt or answer), the disk tier apart from the host's,
`prepare_explicit_reserved` (fires that name the pages they write), recurrent state.
Of the planner: recurrent-state slots and what only they bring about (`ShortRs`,
seating, `yield_head_checkpoints`, `check_rs_starvation`), execution seats and reseating,
`sweep_stranded` and `demote_idle` (no page of `Planner` is shared, so a sweep would find
nothing; both are moves of `KvStore`), diagnostics.
A whole eviction, from fence to commit, is `PrepareSuspend` and `CommitOut` there;
its atomics are `Suspension`'s.

Engines and kernels (numerics; used through what they accept, complete and
fail), the poem and eta compilers and interpreters, file formats, tokenizer,
grammar, chat templates, media, the guest SDK, wire encodings, and policy
programs, whose answers the models leave open.  `PROJECT.json` gives the status
of every component.
