------------------------------ MODULE Planner ------------------------------
(***************************************************************************)
(* The residency planner (planner.rs, planner/grant.rs): who gets the      *)
(* device's KV pages when there are too few.  Fires ask for pages and park *)
(* in a queue ordered by rank; one planner task, woken by pokes, hoards    *)
(* pages for the head of the queue, serves asks and restores from the      *)
(* hoard, evicts processes of lower rank to the tier below, and, when the  *)
(* whole fleet waits and nothing can move, fails an ask.  Around it: the   *)
(* guests that ask, use, drop, wait on their client and end; the executors *)
(* of evictions and restores (planner/exec.rs); the teardown of ended      *)
(* processes, which gives their pages back later than they leave.          *)
(*                                                                         *)
(* A step is one hold of the planner's lock, or several of the planner     *)
(* task between which nothing it has read is used again unchecked; what it *)
(* does carry across an unlock is in `plan`.  Pages are counted, not       *)
(* named: no page is shared, so there is nothing to sweep.  Left out:      *)
(* recurrent-state slots and what only they bring about (seating, state    *)
(* checkpoints), execution seats (uncapped), demotion of the cache.        *)
(***************************************************************************)
EXTENDS Integers, Sequences, FiniteSets, SequencesExt, FiniteSetsExt, Functions

CONSTANTS
  Processes,           \* numbers, in the order they were registered (Proc::seq)
  Lanes,               \* where fires ask, one at a time each
  Owner,               \* the process of each lane
  Total,               \* device pages
  SwapTotal,           \* slots of the tiers below
  HostReserveDivisor,
  Needs,               \* pages the fires of each lane may ask for
  Schedules,           \* what the policy may install: rank keys, and whom it holds
  Restartable,         \* processes declared restartable
  Chatty,              \* processes that may wait on their client
  MaxAsks,             \* bound on the asks of a lane
  MaxRestarts,         \* bound on restarts
  MaxUpsets            \* bound on failures, aborts, waits for a client, schedules

None == -1
ASSUME PlannerAssumption ==
  /\ Processes \subseteq Nat /\ IsFiniteSet(Processes)
  /\ IsFiniteSet(Lanes) /\ None \notin Lanes /\ Owner \in [Lanes -> Processes]
  /\ Total \in Nat \ {0} /\ SwapTotal \in Nat /\ HostReserveDivisor \in Nat \ {0}
  /\ Needs \in [Lanes -> SUBSET (Nat \ {0})] /\ Schedules \subseteq [keys : [Processes -> Int], holds : SUBSET Processes]
  /\ Restartable \subseteq Processes /\ Chatty \subseteq Processes
  /\ {MaxAsks, MaxRestarts, MaxUpsets} \subseteq Nat

VARIABLES
  proc,            \* Inner::procs
  queue,           \* Inner::queue, in order
  accum,           \* Inner::accum: the hoard
  evicting,        \* Inner::evicting: pages each eviction should free
  credit,          \* Inner::completion_credit
  swapBlocked,     \* Inner::host_swap_blocked
  prepareBlocked,  \* Inner::prepare_blocked
  killing,         \* Inner::killing
  free,            \* device pages free
  cache,           \* device pages only the cache holds
  exhausted,       \* idle_reclaim_exhausted
  pages,           \* device pages each process holds
  swapped,         \* slots below each process holds
  leaving,         \* pages and slots of ended processes in teardown
  late,            \* pages of failed restores, to come back with a poke or without
  plan,            \* the planner task: where it is and what it carries
  poked,           \* a permit of the drain task's Notify
  pauseDue,        \* pause_due
  exec,            \* the executor of each process, with the pages it was given
  fire,            \* the fire of each lane
  through,         \* processes past admit and not yet admitted
  aborted,         \* processes being terminated
  spent            \* what is used of the bounds

inner == <<proc, queue, accum, evicting, credit, swapBlocked, prepareBlocked, killing>>
pool == <<free, cache, exhausted, pages, swapped, leaving, late>>
tasks == <<plan, poked, pauseDue, exec>>
guests == <<fire, through, aborted, spent>>
vars == <<inner, pool, tasks, guests>>

live == DOMAIN proc
FiresOf(p) == {c \in Lanes : Owner[c] = p}

NewProc == [key |-> 0, held |-> FALSE, state |-> "resident", retried |-> FALSE,
            progressed |-> TRUE, admitted |-> FALSE, respawn |-> FALSE,
            idle |-> FALSE, parked |-> None]
NoFire == [st |-> "idle", n |-> 0, asks |-> 0]
NoExec == [st |-> "none", n |-> 0]
Resting == [pc |-> "wait", head |-> <<>>, picks |-> <<>>, count |-> 0,
            fund |-> FALSE, cause |-> "none", relaxed |-> FALSE]

Init ==
  /\ proc = [p \in Processes |-> NewProc]
  /\ queue = <<>> /\ accum = 0 /\ evicting = <<>> /\ credit = 0
  /\ swapBlocked = {} /\ prepareBlocked = {} /\ killing = {}
  /\ free = Total /\ cache = 0 /\ exhausted = FALSE
  /\ pages = [p \in Processes |-> 0] /\ swapped = [p \in Processes |-> 0]
  /\ leaving = [p \in Processes |-> [device |-> 0, below |-> 0]]
  /\ late = [tells \in BOOLEAN |-> 0]
  /\ plan = Resting /\ poked = FALSE /\ pauseDue = FALSE
  /\ exec = [p \in Processes |-> NoExec] /\ fire = [c \in Lanes |-> NoFire]
  /\ through = {} /\ aborted = {}
  /\ spent = [upsets |-> 0, restarts |-> 0]

-----------------------------------------------------------------------------
(* The queue.  Entries are named by process and lane; a restore has no lane. *)

\* Rank: the policy's key first, larger earlier, then age.
Outranks(pr, p, q) ==
  pr[p].key > pr[q].key \/ (pr[p].key = pr[q].key /\ p < q)

Allocation(c, n) == [pid |-> Owner[c], by |-> c, need |-> n, outcome |-> "none", yielded |-> FALSE]
Restore(p, n) == [pid |-> p, by |-> None, need |-> n, outcome |-> "none", yielded |-> FALSE]
IsRestore(e) == e.by = None
Name(e) == <<e.pid, e.by>>
Is(e, name) == Name(e) = name
Unmet(e) == IsRestore(e) \/ (e.outcome = "none" /\ ~e.yielded)

Enqueue(pr, q, e) ==
  InsertAt(q, 1 + Cardinality({i \in DOMAIN q : ~Outranks(pr, e.pid, q[i].pid)}), e)

\* The entries at some positions of q, each after those ahead of it.
Arranged(q, S, ahead) ==
  [k \in 1..Cardinality(S) |-> q[CHOOSE i \in S : Cardinality(ahead[i]) = k - 1]]
Kept(q, S) == Arranged(q, S, [i \in S |-> {j \in S : j < i}])
Ranked(pr, q) ==
  LET Before(i, j) == \/ Outranks(pr, q[i].pid, q[j].pid)
                      \/ q[i].pid = q[j].pid /\ i < j
  IN Arranged(q, DOMAIN q, [j \in DOMAIN q |-> {i \in DOMAIN q : Before(i, j)}])

Waiting == {i \in DOMAIN queue : Unmet(queue[i])}
Asks == {i \in Waiting : ~IsRestore(queue[i])}
NeedOf(S) == MapThenSumSet(LAMBDA i : queue[i].need, S)
At(name) == SelectInSeq(queue, LAMBDA e : Is(e, name))
Minus(a, b) == Max({a - b, 0})

\* A slip: what is evicted counts as moving.
FleetNeverStalled ==
  /\ evicting = <<>>
  /\ \A i \in DOMAIN queue : queue[i].outcome = "none"
  /\ \A p \in live : /\ proc[p].state = "resident"
                     /\ \/ ~proc[p].admitted \/ proc[p].idle
                        \/ \E i \in DOMAIN queue : queue[i].pid = p

\* fleet_stalled: nobody is moving, and everyone admitted waits.
FleetStalled ==
  /\ evicting = <<>>
  /\ \A i \in DOMAIN queue : queue[i].outcome = "none"
  /\ \A p \in live :
       CASE proc[p].state = "resident" ->
              \/ ~proc[p].admitted \/ proc[p].idle
              \/ \E i \in DOMAIN queue : queue[i].pid = p
         [] proc[p].state = "evicted" -> TRUE
         [] OTHER -> FALSE

\* unmet_head: an allocation goes before an older restore while work goes on.
HeadAt ==
  LET restores == Waiting \ Asks
  IN CASE Waiting = {} -> 0
       [] Waiting # {} /\ Asks = {} -> Min(restores)
       [] Asks # {} /\ restores = {} -> Min(Asks)
       [] OTHER -> IF /\ Min(restores) < Min(Asks)
                      /\ FleetStalled \/ swapBlocked # {}
                   THEN Min(restores) ELSE Min(Asks)
Head1 == queue[HeadAt]
HeadIs(name) == HeadAt # 0 /\ Is(Head1, name)
Missing == Minus(Head1.need, accum)

QueuedQuantum == Cardinality({i \in Asks : queue[i].need = 1})
ExpectedReclaim == SumFunction(evicting)
KillInFlight ==
  \E p \in killing \cap live : \A i \in Waiting : queue[i].pid # p

\* preempted_floor, as what it holds back.
HeldBack(p) ==
  \E q \in live : /\ Outranks(proc, q, p)
                  /\ \/ proc[q].state # "resident" /\ proc[q].parked = None
                     \/ proc[q].respawn \/ q \in killing

SwapFree ==
  SwapTotal - SumFunction([p \in Processes |->
    swapped[p] + leaving[p].below + (IF exec[p].st = "moving" THEN exec[p].n ELSE 0)])
CanSuspend == SwapTotal > 0

\* supply_stalled: what is free, hoarded or on its way does not do.
SupplyStalled ==
  /\ ~KillInFlight /\ HeadAt # 0
  /\ \/ QueuedQuantum > free + accum + ExpectedReclaim
     \/ free = 0 /\ Head1.need > accum + ExpectedReclaim

-----------------------------------------------------------------------------
(* Pokes and pages given back.                                             *)

Poke == poked' = TRUE
\* pages_freed: it pokes when anyone waits.
PagesFreed == /\ exhausted' = FALSE
              /\ poked' = (poked \/ queue # <<>>)

\* An entry that left the queue, or changed its key, is not found again.
Forget(gone) ==
  [plan EXCEPT !.head = IF @ \in gone THEN <<>> ELSE @]

\* begin_eviction of each of S: its asks yield, its executor starts.
BeginEvictions(S, expected) ==
  /\ proc' = [p \in live |-> IF p \in S THEN [proc[p] EXCEPT !.state = "evicting"] ELSE proc[p]]
  /\ evicting' = [p \in DOMAIN evicting \cup S |-> IF p \in S THEN expected[p] ELSE evicting[p]]
  /\ queue' = [i \in DOMAIN queue |->
       IF queue[i].pid \in S /\ ~IsRestore(queue[i])
       THEN [queue[i] EXCEPT !.yielded = TRUE] ELSE queue[i]]
  /\ exec' = [p \in Processes |-> IF p \in S THEN [st |-> "begun", n |-> 0] ELSE exec[p]]

-----------------------------------------------------------------------------
(* Guests: admission, asks, and what becomes of a grant.                   *)

Resident(p) == proc[p].state = "resident"
\* The fence goes up with the executor and comes down with the restore.
Fenced(p) == exec[p].st \in {"fenced", "moving"} \/ proc[p].state \in {"evicted", "restoring"}
Running(p) == p \in live /\ proc[p].admitted /\ ~proc[p].idle /\ p \notin aborted
Upset == /\ spent.upsets < MaxUpsets
         /\ spent' = [spent EXCEPT !.upsets = @ + 1]
To(c, st) == fire' = [fire EXCEPT ![c].st = st]

\* admit: held back while a process that outranks it is preempted; woken
\* whenever that may have changed, it looks again.
Admit(p) ==
  /\ p \in live \ through /\ ~proc[p].admitted /\ ~HeldBack(p)
  /\ through' = through \cup {p}
  /\ UNCHANGED <<inner, pool, tasks, fire, aborted, spent>>

NoteAdmitted(p) ==
  /\ p \in through
  /\ through' = through \ {p}
  /\ proc' = [proc EXCEPT ![p].admitted = TRUE, ![p].respawn = FALSE]
  /\ UNCHANGED <<queue, accum, evicting, credit, swapBlocked, prepareBlocked, killing>>
  /\ UNCHANGED <<pool, tasks, fire, aborted, spent>>

Ask(c, n) ==
  /\ Running(Owner[c]) /\ fire[c].st = "idle" /\ fire[c].asks < MaxAsks
  /\ fire' = [fire EXCEPT ![c] = [st |-> "quoted", n |-> n, asks |-> @.asks + 1]]
  /\ UNCHANGED <<inner, pool, tasks, through, aborted, spent>>

\* grant_now: straight from the pool if nobody waits and nobody is away.
GrantNow(c) ==
  LET p == Owner[c]
      contended == queue # <<>> \/ \E q \in live : ~Resident(q)
  IN /\ fire[c].st = "quoted"
     /\ \/ /\ ~contended /\ fire[c].n <= free
           /\ free' = free - fire[c].n
           /\ To(c, "granted")
           /\ UNCHANGED proc
        \/ /\ contended \/ fire[c].n > free
           /\ To(c, "short")
           /\ proc' = IF contended THEN [proc EXCEPT ![p].progressed = TRUE] ELSE proc
           /\ UNCHANGED free
     /\ UNCHANGED <<queue, accum, evicting, credit, swapBlocked, prepareBlocked, killing>>
     /\ UNCHANGED <<cache, exhausted, pages, swapped, leaving, late, tasks, through, aborted, spent>>

\* The rest of acquire: refused as impossible, sent away, or parked.
Park(c) ==
  LET p == Owner[c] IN
  /\ fire[c].st = "short"
  /\ \/ /\ fire[c].n > Total
        /\ To(c, "idle")
        /\ UNCHANGED <<queue, poked>>
     \/ /\ fire[c].n <= Total /\ ~Resident(p)
        /\ To(c, "away")
        /\ UNCHANGED <<queue, poked>>
     \/ /\ fire[c].n <= Total /\ Resident(p)
        /\ queue' = Enqueue(proc, queue, Allocation(c, fire[c].n))
        /\ To(c, "parked")
        /\ Poke
  /\ UNCHANGED <<proc, accum, evicting, credit, swapBlocked, prepareBlocked, killing>>
  /\ UNCHANGED <<pool, plan, pauseDue, exec, through, aborted, spent>>

\* collect_outcome and what acquire makes of it.
Collect(c) ==
  LET i == At(<<Owner[c], c>>)
      e == queue[i]
  IN /\ fire[c].st = "parked" /\ ~Unmet(e)
     /\ queue' = RemoveAt(queue, i)
     /\ plan' = Forget({Name(e)})
     /\ To(c, CASE e.outcome = "ok" -> "granted"
                [] e.outcome = "failed" -> "idle"
                [] OTHER -> IF Resident(e.pid) THEN "quoted" ELSE "away")
     /\ Poke
     /\ UNCHANGED <<proc, accum, evicting, credit, swapBlocked, prepareBlocked, killing>>
     /\ UNCHANGED <<pool, pauseDue, exec, through, aborted, spent>>

\* A slip: the queue changes and nobody is told.
CancelQuietly(c) ==
  LET i == At(<<Owner[c], c>>) IN
  /\ fire[c].st = "parked" /\ Owner[c] \in aborted
  /\ queue' = RemoveAt(queue, i)
  /\ plan' = Forget({Name(queue[i])})
  /\ free' = free + (IF queue[i].outcome = "ok" THEN queue[i].need ELSE 0)
  /\ To(c, "idle")
  /\ UNCHANGED <<proc, accum, evicting, credit, swapBlocked, prepareBlocked, killing, poked>>
  /\ UNCHANGED <<cache, exhausted, pages, swapped, leaving, late, pauseDue, exec, through, aborted, spent>>

\* cancel_waiter: the task that waits is dropped; a grant goes back.
CancelWaiter(c) ==
  LET i == At(<<Owner[c], c>>)
      e == queue[i]
  IN /\ fire[c].st = "parked" /\ Owner[c] \in aborted
     /\ queue' = RemoveAt(queue, i)
     /\ plan' = Forget({Name(e)})
     /\ free' = free + (IF e.outcome = "ok" THEN e.need ELSE 0)
     /\ To(c, "idle")
     /\ Poke
     /\ UNCHANGED <<proc, accum, evicting, credit, swapBlocked, prepareBlocked, killing>>
     /\ UNCHANGED <<cache, exhausted, pages, swapped, leaving, late, pauseDue, exec, through, aborted, spent>>

\* wait_resident
Return(c) ==
  /\ fire[c].st = "away" /\ Resident(Owner[c])
  /\ To(c, "quoted")
  /\ UNCHANGED <<inner, pool, tasks, through, aborted, spent>>

\* reserve: a fire leases its set and maps the pages; behind the fence it
\* drops its grant and waits; one found unusable is dropped with an error.
Lease(c) ==
  LET p == Owner[c] IN
  /\ fire[c].st = "granted"
  /\ \/ /\ ~Fenced(p)
        /\ pages' = [pages EXCEPT ![p] = @ + fire[c].n]
        /\ To(c, "fired")
        /\ UNCHANGED <<free, spent>>
     \/ /\ Fenced(p)
        /\ free' = free + fire[c].n
        /\ To(c, "away")
        /\ UNCHANGED <<pages, spent>>
     \/ /\ Upset
        /\ free' = free + fire[c].n
        /\ To(c, "idle")
        /\ UNCHANGED pages
  /\ UNCHANGED <<inner, cache, exhausted, swapped, leaving, late, tasks, through, aborted>>

\* finalize: the fire settles and its lease ends.
Settle(c) ==
  /\ fire[c].st = "fired"
  /\ To(c, "idle")
  /\ PagesFreed
  /\ UNCHANGED <<inner, free, cache, pages, swapped, leaving, late, plan, pauseDue, exec, through, aborted, spent>>

\* A guest drops its working sets.
DropSets(p) ==
  /\ Running(p) /\ pages[p] > 0 /\ ~Fenced(p)
  /\ \A c \in FiresOf(p) : fire[c].st # "fired"
  /\ free' = free + pages[p]
  /\ pages' = [pages EXCEPT ![p] = 0]
  /\ PagesFreed
  /\ UNCHANGED <<inner, cache, swapped, leaving, late, plan, pauseDue, exec, guests>>

-----------------------------------------------------------------------------
(* Clients and policy.                                                     *)

\* A slip: a process goes idle and nobody is told.
IdleQuietly(p) ==
  /\ p \in Chatty /\ Running(p)
  /\ Upset
  /\ proc' = [proc EXCEPT ![p].idle = TRUE]
  /\ UNCHANGED <<queue, accum, evicting, credit, swapBlocked, prepareBlocked, killing>>
  /\ UNCHANGED <<pool, tasks, fire, through, aborted>>

\* set_idle(true)
WaitOnClient(p) ==
  /\ p \in Chatty /\ Running(p)
  /\ Upset
  /\ proc' = [proc EXCEPT ![p].idle = TRUE]
  /\ Poke
  /\ UNCHANGED <<queue, accum, evicting, credit, swapBlocked, prepareBlocked, killing>>
  /\ UNCHANGED <<pool, plan, pauseDue, exec, fire, through, aborted>>

\* A slip: the demand is read, not taken.
UnparkKeeps(p) ==
  /\ proc' = [proc EXCEPT ![p].idle = FALSE]
  /\ queue' = IF proc[p].parked # None /\ ~proc[p].held
              THEN Enqueue(proc, queue, Restore(p, proc[p].parked)) ELSE queue

\* The parked demand of p goes to the queue, unless the policy holds p.
Unpark(p) ==
  LET back == proc[p].parked # None /\ ~proc[p].held
  IN /\ proc' = [proc EXCEPT ![p].parked = IF back THEN None ELSE @,
                             ![p].idle = FALSE]
     /\ queue' = IF back THEN Enqueue(proc, queue, Restore(p, proc[p].parked)) ELSE queue

\* set_idle(false)
HearFromClient(p) ==
  /\ p \in live /\ proc[p].idle
  /\ Unpark(p)
  /\ Poke
  /\ UNCHANGED <<accum, evicting, credit, swapBlocked, prepareBlocked, killing>>
  /\ UNCHANGED <<pool, plan, pauseDue, exec, guests>>

\* wake: a message is on its way to a parked process, which stays idle.
Wake(p) ==
  /\ p \in live /\ proc[p].parked # None /\ ~proc[p].held
  /\ proc' = [proc EXCEPT ![p].parked = None]
  /\ queue' = Enqueue(proc, queue, Restore(p, proc[p].parked))
  /\ Poke
  /\ UNCHANGED <<accum, evicting, credit, swapBlocked, prepareBlocked, killing>>
  /\ UNCHANGED <<pool, plan, pauseDue, exec, guests>>

\* reschedule: the policy installs keys and holds; restores of the held are
\* parked, those of the released queued, and the queue is sorted again.
Reschedule(schedule) ==
  LET keys == schedule.keys
      holds == schedule.holds \cap live
      ordered == [p \in live |-> [proc[p] EXCEPT !.key = keys[p], !.held = p \in holds]]
      parks == {i \in DOMAIN queue : IsRestore(queue[i]) /\ queue[i].pid \in holds}
      kept == Kept(queue, DOMAIN queue \ parks)
      demand(p) == queue[CHOOSE i \in parks : queue[i].pid = p].need
      released == {p \in live \ holds : ~proc[p].idle /\ proc[p].state = "evicted"
                                        /\ proc[p].parked # None}
      back == SetToSeq({Restore(p, proc[p].parked) : p \in released})
  IN /\ Upset
     /\ proc' = [p \in live |-> [ordered[p] EXCEPT !.parked =
          IF \E i \in parks : queue[i].pid = p THEN demand(p)
          ELSE IF p \in released THEN None ELSE @]]
     /\ queue' = Ranked(ordered, kept \o back)
     /\ plan' = Forget({Name(queue[i]) : i \in
          parks \cup {j \in DOMAIN queue : proc[queue[j].pid].key # keys[queue[j].pid]}})
     /\ pauseDue' = TRUE
     /\ Poke
     /\ UNCHANGED <<accum, evicting, credit, swapBlocked, prepareBlocked, killing>>
     /\ UNCHANGED <<pool, exec, fire, through, aborted>>

-----------------------------------------------------------------------------
(* Processes leave.                                                        *)

\* unregister, and the registration of its successor when it restarts. What
\* the process holds is torn down later, or by the executor that moves it.
Unregister(p, restart) ==
  LET mine == {i \in DOMAIN queue : queue[i].pid = p}
      granted == {i \in mine : queue[i].outcome = "ok"}
      inHand == {c \in FiresOf(p) : fire[c].st = "granted"}
      moved == exec[p].st # "none"
      successor == [NewProc EXCEPT !.key = proc[p].key, !.held = proc[p].held, !.respawn = TRUE]
  IN /\ proc' = IF restart THEN [proc EXCEPT ![p] = successor] ELSE Restrict(proc, live \ {p})
     /\ queue' = Kept(queue, DOMAIN queue \ mine)
     /\ plan' = Forget({Name(queue[i]) : i \in mine})
     /\ credit' = IF proc[p].admitted /\ Resident(p) THEN credit + 1 ELSE credit
     /\ evicting' = Restrict(evicting, DOMAIN evicting \ {p})
     /\ killing' = killing \ {p} /\ swapBlocked' = {} /\ prepareBlocked' = {}
     /\ free' = free + NeedOf(granted)
     /\ leaving' = [leaving EXCEPT
          ![p].device = @ + MapThenSumSet(LAMBDA c : fire[c].n, inHand)
                          + (IF moved THEN 0 ELSE pages[p]),
          ![p].below = @ + (IF moved THEN 0 ELSE swapped[p])]
     /\ pages' = [pages EXCEPT ![p] = IF moved THEN @ ELSE 0]
     /\ swapped' = [swapped EXCEPT ![p] = IF moved THEN @ ELSE 0]
     /\ fire' = [c \in Lanes |-> IF Owner[c] = p THEN [NoFire EXCEPT !.asks = fire[c].asks] ELSE fire[c]]
     /\ through' = through \ {p} /\ aborted' = aborted \ {p}
     /\ exhausted' = FALSE
     /\ Poke
     /\ UNCHANGED <<accum, cache, late, pauseDue, exec>>

\* The guest returns; one killed and restartable starts over.
Finish(p) ==
  /\ Running(p) /\ \A c \in FiresOf(p) : fire[c].st \in {"idle", "fired"}
  /\ IF p \in killing \cap Restartable /\ spent.restarts < MaxRestarts /\ exec[p].st = "none"
     THEN /\ Unregister(p, TRUE)
          /\ spent' = [spent EXCEPT !.restarts = @ + 1]
     ELSE Unregister(p, FALSE) /\ UNCHANGED spent

\* A client, or a restore that failed for good, terminates a process.
Abort(p) ==
  /\ p \in live \ aborted
  /\ Upset
  /\ aborted' = aborted \cup {p}
  /\ UNCHANGED <<inner, pool, tasks, fire, through>>

Terminate(p) ==
  /\ p \in aborted
  /\ Unregister(p, FALSE)
  /\ UNCHANGED spent

\* defer_resource_teardown: sealed pages may stay as cache entries.
Teardown(p) ==
  /\ leaving[p] # [device |-> 0, below |-> 0]
  /\ \E k \in 0..leaving[p].device :
       /\ cache' = cache + k
       /\ free' = free + leaving[p].device - k
  /\ leaving' = [leaving EXCEPT ![p] = [device |-> 0, below |-> 0]]
  /\ PagesFreed
  /\ UNCHANGED <<inner, pages, swapped, late, plan, pauseDue, exec, guests>>

-----------------------------------------------------------------------------
(* Executors (planner/exec.rs) and their reports.                          *)

\* What p holds once its executor is done, or, if p has left, its teardown.
Holds(p, device, below) ==
  /\ pages' = [pages EXCEPT ![p] = IF p \in live THEN device ELSE 0]
  /\ swapped' = [swapped EXCEPT ![p] = IF p \in live THEN below ELSE 0]
  /\ leaving' = IF p \in live THEN leaving
                ELSE [leaving EXCEPT ![p].device = @ + device, ![p].below = @ + below]

\* eviction_failed_inner
EvictionFailed(p, full, nothing) ==
  /\ evicting' = Restrict(evicting, DOMAIN evicting \ {p})
  /\ swapBlocked' = IF full THEN swapBlocked \cup {p} ELSE swapBlocked
  /\ prepareBlocked' = IF nothing THEN prepareBlocked \cup {p} ELSE prepareBlocked
  /\ proc' = IF p \in live /\ proc[p].state = "evicting"
             THEN [proc EXCEPT ![p].state = "resident"] ELSE proc
  /\ exec' = [exec EXCEPT ![p] = NoExec]
  /\ Holds(p, pages[p], swapped[p])
  /\ Poke
  /\ UNCHANGED <<queue, accum, credit, killing, free, cache, exhausted, late, plan, pauseDue>>

\* evict, up to the fence; a process without working sets is left alone.
EvictFences(p) ==
  /\ exec[p].st = "begun"
  /\ \/ /\ exec' = [exec EXCEPT ![p].st = "fenced"]
        /\ UNCHANGED <<inner, pool, plan, poked, pauseDue>>
     \/ pages[p] = 0 /\ EvictionFailed(p, FALSE, FALSE)
  /\ UNCHANGED guests

\* evict: quiesced, it takes slots below for all the process holds.
EvictPrepares(p) ==
  /\ exec[p].st = "fenced" /\ \A c \in FiresOf(p) : fire[c].st # "fired"
  /\ \/ pages[p] = 0 /\ EvictionFailed(p, FALSE, TRUE)
     \/ pages[p] > SwapFree /\ EvictionFailed(p, TRUE, FALSE)
     \/ /\ pages[p] \in 1..SwapFree
        /\ exec' = [exec EXCEPT ![p] = [st |-> "moving", n |-> pages[p]]]
        /\ UNCHANGED <<inner, pool, plan, poked, pauseDue>>
  /\ UNCHANGED guests

EvictFails(p) ==
  /\ exec[p].st = "moving"
  /\ Upset
  /\ EvictionFailed(p, FALSE, FALSE)
  /\ UNCHANGED <<fire, through, aborted>>

\* report_evicted: the restore is queued at once, or parked until p wakes.
EvictCommits(p) ==
  LET n == exec[p].n
      parks == proc[p].idle \/ proc[p].held
  IN /\ exec[p].st = "moving"
     /\ exec' = [exec EXCEPT ![p] = NoExec]
     /\ evicting' = Restrict(evicting, DOMAIN evicting \ {p})
     /\ free' = free + n
     /\ Holds(p, pages[p] - n, swapped[p] + n)
     /\ IF p \in live
        THEN /\ proc' = [proc EXCEPT ![p].state = "evicted", ![p].parked = IF parks THEN n ELSE None]
             /\ queue' = IF parks THEN queue ELSE Enqueue(proc, queue, Restore(p, n))
        ELSE UNCHANGED <<proc, queue>>
     /\ exhausted' = FALSE
     /\ Poke
     /\ UNCHANGED <<accum, credit, swapBlocked, prepareBlocked, killing>>
     /\ UNCHANGED <<cache, late, plan, pauseDue, guests>>

\* report_restored
RestoreCommits(p) ==
  /\ exec[p].st = "restoring"
  /\ exec' = [exec EXCEPT ![p] = NoExec]
  /\ Holds(p, pages[p] + exec[p].n, swapped[p] - exec[p].n)
  /\ proc' = IF p \in live
             THEN [proc EXCEPT ![p].state = "resident", ![p].retried = FALSE, ![p].progressed = FALSE]
             ELSE proc
  /\ swapBlocked' = {} /\ prepareBlocked' = {}
  /\ Poke
  /\ UNCHANGED <<queue, accum, evicting, credit, killing, free, cache, exhausted, late, plan, pauseDue, guests>>

\* requeue_restore and restore_failed.  Pages it shares have moved, which is
\* no failure; or it failed, which it may do once; or its executor died.
\* The demand queued is zero, to be quoted again when it is served.  The
\* pages it was lent come back after the report: with a poke of their own
\* once a copy was under way, and without one otherwise.
RestoreFails(p, why) ==
  LET doomed == p \in live /\ (why = "died" \/ (why = "failed" /\ proc[p].retried))
  IN /\ exec[p].st = "restoring"
     /\ Upset
     /\ exec' = [exec EXCEPT ![p] = NoExec]
     /\ \E tells \in BOOLEAN :
          /\ tells => why # "moved"
          /\ late' = [late EXCEPT ![tells] = @ + exec[p].n]
     /\ Holds(p, pages[p], swapped[p])
     /\ IF p \in live
        THEN /\ proc' = [proc EXCEPT ![p].state = "evicted", ![p].retried = @ \/ why = "failed"]
             /\ queue' = IF doomed THEN queue ELSE Enqueue(proc, queue, Restore(p, 0))
        ELSE UNCHANGED <<proc, queue>>
     /\ aborted' = IF doomed THEN aborted \cup {p} ELSE aborted
     /\ poked' = (poked \/ ~doomed)
     /\ UNCHANGED <<accum, evicting, credit, swapBlocked, prepareBlocked, killing>>
     /\ UNCHANGED <<free, cache, exhausted, plan, pauseDue, fire, through>>

\* The reservation, or MoveGuard, of a failed restore is dropped.
DropLate(tells) ==
  /\ late[tells] > 0
  /\ free' = free + late[tells]
  /\ late' = [late EXCEPT ![tells] = 0]
  /\ IF tells THEN PagesFreed ELSE UNCHANGED <<exhausted, poked>>
  /\ UNCHANGED <<inner, cache, pages, swapped, leaving, plan, pauseDue, exec, guests>>

-----------------------------------------------------------------------------
(* The planner task.                                                       *)

unmoved == <<fire, through, aborted, spent, pages, swapped, leaving, late>>
Rest == plan' = Resting
Goto(pc) == plan' = [Resting EXCEPT !.pc = pc]
Starve(cause) == plan' = [Resting EXCEPT !.pc = "starve", !.cause = cause]

\* A slip: the hoard is credited with what was asked of the pool.
AbsorbAsked(n) == accum' = accum + n /\ free' = Minus(free, n)

\* absorb_free
Absorb(n) == /\ accum' = accum + Min({n, free})
             /\ free' = free - Min({n, free})

\* plan, woken by a poke.
PlanWakes ==
  /\ plan.pc = "wait" /\ poked
  /\ poked' = FALSE /\ pauseDue' = FALSE
  /\ Goto(IF pauseDue THEN "pause" ELSE "loop")
  /\ UNCHANGED <<inner, pool, exec, guests>>

\* pick_from_quotes: in order, while the deficit is not covered, those that
\* hold pages and fit in the room left.
PickFrom(order, deficit, room) ==
  LET take(acc, p) ==
        IF acc.covered >= deficit \/ pages[p] = 0 THEN acc
        ELSE IF pages[p] > acc.room THEN [acc EXCEPT !.unhostable = @ \cup {p}]
        ELSE [acc EXCEPT !.covered = @ + pages[p], !.room = @ - pages[p],
                         !.picks = @ \cup {p}]
  IN FoldLeft(take, [covered |-> 0, room |-> room, picks |-> {}, unhostable |-> {}], order)

\* quote_and_pick: quiescent candidates first, the lowest rank first.
QuoteOrder(candidates, quiescent) ==
  SetToSortSeq(candidates, LAMBDA p, q :
    IF (p \in quiescent) = (q \in quiescent) THEN Outranks(proc, q, p) ELSE p \in quiescent)
Quiescent == {p \in live : \A c \in FiresOf(p) : fire[c].st # "fired"}
Quotes(picks) == [p \in picks |-> pages[p]]
Blocked == swapBlocked \cup prepareBlocked

\* pause_held: what the policy holds leaves the device.
PausePicks ==
  LET held == {p \in live \ Blocked : proc[p].held /\ proc[p].admitted /\ Resident(p)}
      picked == PickFrom(QuoteOrder(held, Quiescent), Total + 1, SwapFree)
  IN /\ plan.pc = "pause"
     /\ plan' = IF CanSuspend /\ picked.picks # {}
                THEN [Resting EXCEPT !.pc = "pauseCommit", !.picks = Quotes(picked.picks)]
                ELSE [Resting EXCEPT !.pc = "loop"]
     /\ UNCHANGED <<inner, pool, poked, pauseDue, exec, guests>>

PauseCommits ==
  /\ plan.pc = "pauseCommit"
  /\ BeginEvictions({p \in DOMAIN plan.picks \cap live : proc[p].held /\ Resident(p)}, plan.picks)
  /\ Goto("loop")
  /\ UNCHANGED <<accum, credit, swapBlocked, prepareBlocked, killing, pool, poked, pauseDue, guests>>

\* One turn of plan's loop: what the head of the queue lacks.
PlanLoop ==
  /\ plan.pc = "loop"
  /\ \/ /\ HeadAt = 0
        /\ IF accum > 0 /\ queue = <<>>
           THEN free' = free + accum /\ accum' = 0 ELSE UNCHANGED <<free, accum>>
        /\ Rest /\ UNCHANGED credit
     \/ /\ HeadAt # 0 /\ Missing > 0
        /\ plan' = [Resting EXCEPT !.pc = "absorb", !.count = Missing,
                      !.fund = ~IsRestore(Head1) \/ FleetStalled]
        /\ UNCHANGED <<free, accum, credit>>
     \/ /\ HeadAt # 0 /\ Missing = 0 /\ ~IsRestore(Head1)
        /\ Goto("burst")
        /\ UNCHANGED <<free, accum, credit>>
     \/ /\ HeadAt # 0 /\ Missing = 0 /\ IsRestore(Head1)
        /\ \/ /\ credit = 0 /\ ~FleetStalled
              /\ Rest /\ UNCHANGED credit
           \/ /\ credit > 0 \/ FleetStalled
              /\ credit' = Minus(credit, 1)
              /\ plan' = [Resting EXCEPT !.pc = "restore", !.head = Name(Head1)]
        /\ UNCHANGED <<free, accum>>
  /\ UNCHANGED <<proc, queue, evicting, swapBlocked, prepareBlocked, killing>>
  /\ UNCHANGED <<cache, exhausted, poked, pauseDue, exec, unmoved>>

\* Step::Absorb: free pages, then the idle cache, then an eviction.
PlanAbsorbs ==
  /\ plan.pc = "absorb"
  /\ \/ /\ free > 0
        /\ Absorb(plan.count)
        /\ Goto("loop") /\ UNCHANGED <<cache, exhausted>>
     \/ /\ free = 0 /\ ~exhausted /\ cache > 0
        /\ \E k \in 1..cache : cache' = cache - k /\ free' = free + k
        /\ Goto("loop") /\ UNCHANGED <<accum, exhausted>>
     \/ /\ free = 0 /\ (exhausted \/ cache = 0)
        /\ exhausted' = TRUE
        /\ Goto(IF plan.fund THEN "victims" ELSE "wait")
        /\ UNCHANGED <<free, accum, cache>>
  /\ UNCHANGED <<proc, queue, evicting, credit, swapBlocked, prepareBlocked, killing>>
  /\ UNCHANGED <<poked, pauseDue, exec, unmoved>>

\* burst_shortfall: what the hoard lacks for every ask that waits.
BurstShortfall == Minus(NeedOf(Asks), accum)
\* serve_burst: from the head on, the asks served before the first that the
\* supply does not cover.
Burst(supply) ==
  {i \in Asks : HeadAt <= i /\ NeedOf({j \in Asks : HeadAt <= j /\ j <= i}) <= supply}

PlanServesBurst ==
  LET extra == Min({BurstShortfall, free})
      served == IF HeadAt # 0 /\ ~IsRestore(Head1) THEN Burst(accum + extra) ELSE {}
  IN /\ plan.pc = "burst"
     /\ free' = free - extra
     /\ accum' = accum + extra - NeedOf(served)
     /\ queue' = [i \in DOMAIN queue |->
          IF i \in served THEN [queue[i] EXCEPT !.outcome = "ok"] ELSE queue[i]]
     /\ Goto("loop")
     /\ UNCHANGED <<proc, evicting, credit, swapBlocked, prepareBlocked, killing>>
     /\ UNCHANGED <<cache, exhausted, poked, pauseDue, exec, unmoved>>

\* Step::ServeRestore: the demand is quoted again; then the restore boards.
PlanServesRestore ==
  LET i == At(plan.head)
      p == plan.head[1]
      need == swapped[p]
  IN /\ plan.pc = "restore"
     /\ \/ /\ plan.head # <<>> /\ queue[i].need # need
           /\ queue' = [queue EXCEPT ![i].need = need]
           /\ UNCHANGED <<proc, accum, exec>>
        \/ /\ plan.head # <<>> /\ queue[i].need = need
           /\ HeadIs(plan.head) /\ accum >= need /\ proc[p].state = "evicted"
           /\ proc' = [proc EXCEPT ![p].state = "restoring"]
           /\ queue' = RemoveAt(queue, i)
           /\ accum' = accum - need
           /\ exec' = [exec EXCEPT ![p] = [st |-> "restoring", n |-> need]]
        \/ /\ plan.head # <<>> => queue[i].need = need /\ ~(HeadIs(plan.head) /\ accum >= need)
           /\ UNCHANGED <<proc, queue, accum, exec>>
     /\ Goto("loop")
     /\ UNCHANGED <<evicting, credit, swapBlocked, prepareBlocked, killing>>
     /\ UNCHANGED <<free, cache, exhausted, poked, pauseDue, unmoved>>

-----------------------------------------------------------------------------
(* Funding the head by eviction.                                           *)

Yields(p, head) == Outranks(proc, head, p) \/ proc[p].idle \/ proc[p].held
Fresh(p) == proc[p].progressed \/ proc[p].idle \/ proc[p].held

\* victim_set, the gates of plan_eviction, and quote_and_pick.
PlanPicksVictims ==
  LET head == Head1.pid
      deficit == Minus(Minus(Max({Head1.need, QueuedQuantum}), accum), ExpectedReclaim + free)
      members == {p \in live \ Blocked :
                    /\ proc[p].admitted /\ Resident(p)
                    /\ Yields(p, head) /\ Fresh(p)}
      picked == PickFrom(QuoteOrder(members, Quiescent), deficit, SwapFree)
  IN /\ plan.pc = "victims"
     /\ \/ /\ HeadAt # 0 => deficit = 0
           /\ Rest /\ UNCHANGED swapBlocked
        \/ /\ HeadAt # 0 /\ deficit > 0
           /\ IF SwapFree = 0
              THEN Starve("NoSwapRoom") /\ UNCHANGED swapBlocked
              ELSE IF (SwapFree * HostReserveDivisor <= SwapTotal /\ ~FleetStalled) \/ ~SupplyStalled
              THEN Rest /\ UNCHANGED swapBlocked
              ELSE /\ swapBlocked' = swapBlocked \cup picked.unhostable
                   /\ plan' =
                        IF picked.picks # {}
                        THEN [Resting EXCEPT !.pc = "commit", !.head = Name(Head1),
                                             !.picks = Quotes(picked.picks)]
                        ELSE IF picked.unhostable # {}
                        THEN [Resting EXCEPT !.pc = "starve", !.cause = "NoSwapRoom"]
                        ELSE [Resting EXCEPT !.pc = "hog", !.head = Name(Head1)]
     /\ UNCHANGED <<proc, queue, accum, evicting, credit, prepareBlocked, killing>>
     /\ UNCHANGED <<free, cache, exhausted, poked, pauseDue, exec, unmoved>>

\* commit_evictions: those that may still go, if the head is still the head.
PlanCommits ==
  LET head == plan.head[1]
      gone == IF ~(plan.head # <<>> /\ HeadIs(plan.head)) THEN {}
              ELSE {p \in DOMAIN plan.picks \cap live :
                      Resident(p) /\ Yields(p, head) /\ (Fresh(p) \/ plan.relaxed)}
  IN /\ plan.pc = "commit"
     /\ BeginEvictions(gone, plan.picks)
     /\ Goto(IF gone = {} /\ plan.relaxed THEN "starveAgain" ELSE "wait")
     /\ UNCHANGED <<accum, credit, swapBlocked, prepareBlocked, killing>>
     /\ UNCHANGED <<pool, poked, pauseDue, guests>>

\* check_hog: an ask that cannot fit beside what its process holds fails.
Hog(i) ==
  /\ evicting = <<>> /\ \A p \in live : proc[p].state # "restoring"
  /\ ~IsRestore(queue[i]) /\ queue[i].outcome = "none"
  /\ queue[i].need + pages[queue[i].pid] + swapped[queue[i].pid] > Total
Fail(i) == queue' = [queue EXCEPT ![i].outcome = "failed"]

PlanChecksHog ==
  /\ plan.pc = "hog"
  /\ IF plan.head # <<>> /\ Hog(At(plan.head))
     THEN Fail(At(plan.head)) /\ Rest
     ELSE Starve("NoEligibleVictim") /\ UNCHANGED queue
  /\ UNCHANGED <<proc, accum, evicting, credit, swapBlocked, prepareBlocked, killing>>
  /\ UNCHANGED <<free, cache, exhausted, poked, pauseDue, exec, unmoved>>

-----------------------------------------------------------------------------
(* check_starvation: when the fleet is stalled and nothing can be evicted. *)

\* salvage_free_pages
Salvageable == HeadAt # 0 /\ Missing > 0 /\ free > 0
Salvage == Absorb(Missing) /\ Poke /\ Rest

PlanStarves ==
  /\ plan.pc = "starve"
  /\ \/ ~FleetStalled /\ Rest /\ UNCHANGED <<free, accum, poked>>
     \/ FleetStalled /\ Salvageable /\ Salvage
     \/ /\ FleetStalled /\ ~Salvageable
        /\ plan' = [plan EXCEPT !.pc = IF plan.cause = "NoEligibleVictim"
                                       THEN "lastResort" ELSE "starveAgain"]
        /\ UNCHANGED <<free, accum, poked>>
  /\ UNCHANGED <<proc, queue, evicting, credit, swapBlocked, prepareBlocked, killing>>
  /\ UNCHANGED <<cache, exhausted, pauseDue, exec, unmoved>>

\* last_resort_evict: processes that made no progress since their restore too.
PlanLastResort ==
  LET head == Head1.pid
      deficit == Minus(Missing, ExpectedReclaim)
      legal == {p \in live \ Blocked : Yields(p, head) /\ Resident(p) /\ pages[p] > 0}
      order == SetToSortSeq(legal, LAMBDA p, q :
                 IF proc[p].progressed = proc[q].progressed THEN Outranks(proc, q, p)
                 ELSE proc[p].progressed)
      picks == PickFrom(order, deficit, Total).picks
  IN /\ plan.pc = "lastResort"
     /\ plan' = IF HeadAt = 0 \/ deficit = 0 \/ picks = {}
                THEN [plan EXCEPT !.pc = "starveAgain"]
                ELSE [plan EXCEPT !.pc = "commit", !.head = Name(Head1),
                                  !.picks = Quotes(picks), !.relaxed = TRUE]
     /\ UNCHANGED <<inner, pool, poked, pauseDue, exec, guests>>

\* serve_from_hoard: what the head cannot use yet may serve another ask.
HoardServes == {i \in Asks : i # HeadAt /\ queue[i].need <= accum}

PlanStarvesAgain ==
  /\ plan.pc = "starveAgain"
  /\ \/ ~FleetStalled /\ Rest /\ UNCHANGED <<free, accum, poked, queue>>
     \/ FleetStalled /\ Salvageable /\ Salvage /\ UNCHANGED queue
     \/ /\ FleetStalled /\ ~Salvageable /\ HoardServes # {}
        /\ queue' = [queue EXCEPT ![Min(HoardServes)].outcome = "ok"]
        /\ accum' = accum - queue[Min(HoardServes)].need
        /\ Poke /\ Rest /\ UNCHANGED free
     \/ /\ FleetStalled /\ ~Salvageable /\ HoardServes = {}
        /\ plan' = [plan EXCEPT !.pc = "judge", !.head = <<>>]
        /\ UNCHANGED <<free, accum, poked, queue>>
  /\ UNCHANGED <<proc, evicting, credit, swapBlocked, prepareBlocked, killing>>
  /\ UNCHANGED <<cache, exhausted, pauseDue, exec, unmoved>>

\* pick_starvation_victim: the lowest-ranked ask whose process holds pages,
\* a restartable one before any other, or else the lowest-ranked ask.
StarvationVictim ==
  LET asks == {i \in DOMAIN queue : ~IsRestore(queue[i]) /\ queue[i].outcome = "none"}
      holders == {i \in asks : pages[queue[i].pid] > 0}
      restartable == {i \in holders : queue[i].pid \in Restartable}
  IN CASE restartable # {} -> Max(restartable)
       [] restartable = {} /\ holders # {} -> Max(holders)
       [] holders = {} /\ asks # {} -> Max(asks)
       [] OTHER -> 0

PlanJudges ==
  /\ plan.pc = "judge"
  /\ \/ KillInFlight /\ Rest /\ UNCHANGED queue
     \/ /\ ~KillInFlight /\ HeadAt # 0 /\ Hog(HeadAt)
        /\ Fail(HeadAt) /\ Rest
     \/ /\ ~KillInFlight /\ ~(HeadAt # 0 /\ Hog(HeadAt))
        /\ plan' = IF StarvationVictim = 0 THEN Resting
                   ELSE [plan EXCEPT !.pc = "verdict", !.head = Name(queue[StarvationVictim])]
        /\ UNCHANGED queue
  /\ UNCHANGED <<proc, accum, evicting, credit, swapBlocked, prepareBlocked, killing>>
  /\ UNCHANGED <<free, cache, exhausted, poked, pauseDue, exec, unmoved>>

\* The ask fails as starved and its process is marked; it restarts if it may.
PlanGivesVerdict ==
  LET i == At(plan.head) IN
  /\ plan.pc = "verdict"
  /\ IF /\ HeadAt # 0 /\ accum < Head1.need /\ evicting = <<>>
        /\ plan.head # <<>> /\ queue[i].outcome = "none"
     THEN Fail(i) /\ killing' = killing \cup {queue[i].pid}
     ELSE UNCHANGED <<queue, killing>>
  /\ Rest
  /\ UNCHANGED <<proc, accum, evicting, credit, swapBlocked, prepareBlocked>>
  /\ UNCHANGED <<free, cache, exhausted, poked, pauseDue, exec, unmoved>>

-----------------------------------------------------------------------------
Plan ==
  \/ PlanWakes \/ PausePicks \/ PauseCommits \/ PlanLoop \/ PlanAbsorbs
  \/ PlanServesBurst \/ PlanServesRestore \/ PlanPicksVictims \/ PlanCommits
  \/ PlanChecksHog \/ PlanStarves \/ PlanLastResort \/ PlanStarvesAgain
  \/ PlanJudges \/ PlanGivesVerdict

Fires(c) ==
  \/ GrantNow(c) \/ Park(c) \/ Collect(c) \/ CancelWaiter(c) \/ Return(c)
  \/ Lease(c) \/ Settle(c)

Executes(p) ==
  \/ EvictFences(p) \/ EvictPrepares(p) \/ EvictFails(p) \/ EvictCommits(p)
  \/ RestoreCommits(p) \/ \E why \in {"moved", "failed", "died"} : RestoreFails(p, why)

Starts(p) == Admit(p) \/ NoteAdmitted(p)
Ends(p) == Finish(p) \/ Terminate(p)

Next ==
  \/ Plan
  \/ \E c \in Lanes : Fires(c) \/ \E n \in Needs[c] : Ask(c, n)
  \/ \E p \in Processes :
       \/ Starts(p) \/ Ends(p) \/ Abort(p) \/ Teardown(p) \/ Executes(p)
       \/ DropSets(p) \/ WaitOnClient(p) \/ HearFromClient(p) \/ Wake(p)
  \/ \E tells \in BOOLEAN : DropLate(tells)
  \/ \E schedule \in Schedules : Reschedule(schedule)

Spec == Init /\ [][Next]_vars

\* The runtime's tasks run, executors end, what is dropped is dropped, and
\* guests that wait for nothing return; clients may stay silent, guests need
\* never ask, and failures, aborts and schedules need never come.
Fairness ==
  /\ WF_vars(Plan)
  /\ WF_vars(\E tells \in BOOLEAN : DropLate(tells))
  /\ \A c \in Lanes : WF_vars(Fires(c))
  /\ \A p \in Processes : WF_vars(Starts(p) \/ Ends(p) \/ Teardown(p) \/ Executes(p))
FairSpec == Spec /\ Fairness

-----------------------------------------------------------------------------
TypeOK ==
  /\ live \subseteq Processes
  /\ \A p \in live : proc[p].state \in {"resident", "evicting", "evicted", "restoring"}
  /\ \A n \in {accum, free, cache, credit, SwapFree} : n \in Nat
  /\ killing \subseteq live

\* Every device page is free, cached, in the hoard, promised to an ask,
\* lent to a restore, held, or in teardown.
PagesConserved ==
  Total = free + cache + accum + late[TRUE] + late[FALSE]
          + SumFunction([p \in Processes |-> pages[p] + leaving[p].device
                   + (IF exec[p].st = "restoring" THEN exec[p].n ELSE 0)])
          + SumFunction([c \in Lanes |-> IF fire[c].st = "granted" THEN fire[c].n ELSE 0])
          + SumFunction([i \in DOMAIN queue |-> IF queue[i].outcome = "ok" THEN queue[i].need ELSE 0])

\* A process that is not resident is carried by exactly one thing: on its way
\* out or back an executor, whose supply the planner counts on the way out;
\* evicted, a restore in the queue, or a demand parked until its client or
\* the policy lets it run; or else it is doomed.
OneWayBack ==
  /\ DOMAIN evicting = {p \in live : proc[p].state = "evicting"}
  /\ \A p \in live :
       LET restores == {i \in DOMAIN queue : queue[i].pid = p /\ IsRestore(queue[i])}
       IN /\ proc[p].state = "evicting" <=> exec[p].st \in {"begun", "fenced", "moving"}
          /\ proc[p].state = "restoring" <=> exec[p].st = "restoring"
          /\ Cardinality(restores) <= 1
          /\ restores # {} => proc[p].state = "evicted" /\ proc[p].parked = None
          /\ proc[p].parked # None => proc[p].state = "evicted" /\ (proc[p].idle \/ proc[p].held)
          /\ proc[p].state = "evicted" =>
               restores # {} \/ proc[p].parked # None \/ p \in aborted

\* The hoard does not outlive the queue: at rest with nothing to serve, the
\* planner has given it back.
HoardReturns == plan.pc = "wait" /\ ~poked /\ queue = <<>> => accum = 0

\* An ask fails as starved only when nobody is about to give pages back: no
\* teardown, no grant in the hand of a fire behind the fence, no failed
\* restore. The planner sees none of the three (see the README).
VerdictsAreLast ==
  [][killing' \subseteq killing \/
     /\ \A p \in Processes : leaving[p].device = 0
     /\ \A c \in Lanes : fire[c].st # "granted"
     /\ late[TRUE] + late[FALSE] = 0]_vars

\* Every ask that parks is granted, refused, or told to ask again.
AsksAreAnswered == \A c \in Lanes : fire[c].st = "parked" ~> fire[c].st # "parked"

\* What the planner does not see: pages a fire gave back without a poke, and
\* a process whose ask failed as starved and that lives on, its client silent.
Overlooked == free > 0 \/ \E p \in killing : proc[p].idle

\* But for what is overlooked, no ask waits for good.
NoAskForgotten == \A c \in Lanes : []<>(fire[c].st # "parked" \/ Overlooked)

\* Nor does what was evicted stay away, unless its client or the policy has
\* it wait.
PreemptedReturns ==
  \A p \in Processes :
    []<>(p \in live => Resident(p) \/ proc[p].idle \/ proc[p].held \/ Overlooked)
=============================================================================
