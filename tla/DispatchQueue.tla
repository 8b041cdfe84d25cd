--------------------------- MODULE DispatchQueue ---------------------------
(***************************************************************************)
(* How a fire gets from a pipeline to the engine (scheduler/worker.rs, the *)
(* channels of scheduler/lane.rs): the worker's queue of launches, of the  *)
(* page copies that must land before a launch, and of the moves of pages   *)
(* between memory tiers; the frames the policy seals; the batches and      *)
(* copies in flight; the lane, which serves two channels and prefers now   *)
(* one and now the other; the engine, which completes what it took.        *)
(*                                                                         *)
(* A frame holds one fire of a pipeline (single_slot). Which complete      *)
(* pipelines the policy seals together, and when, is left open: all that   *)
(* the quorum of frame.rs decides is which of the behaviours here happen.  *)
(* With one fire to a frame the worker stamps every fire it admits, so the *)
(* unframed launches that ride in batches of their own, the later pieces   *)
(* of a frame of several, do not exist here. Left out too: binding and     *)
(* closing instances, and a lane that panics.                              *)
(***************************************************************************)
EXTENDS Integers, Sequences, FiniteSets, SequencesExt

CONSTANTS
  Pipelines,
  Processes,
  Owner,               \* the process of each pipeline
  Moves,               \* moves of pages between tiers, posted at any time
  MaxFires,            \* bound on the fires of a behaviour
  Depth,               \* configured_dispatch_depth: batches in flight
  LaunchRunBeforeControl,
  ControlRunMax,
  Terminates,          \* whether a process may be terminated
  Stops                \* whether the scheduler may be shut down

ASSUME DispatchAssumption ==
  /\ Owner \in [Pipelines -> Processes]
  /\ MaxFires \in Nat /\ Depth \in Nat \ {0}
  /\ LaunchRunBeforeControl \in Nat \ {0} /\ ControlRunMax \in Nat \ {0}
  /\ Terminates \in BOOLEAN /\ Stops \in BOOLEAN

Fires == Pipelines \X (1..MaxFires)

ASSUME MovesAssumption == Moves \cap Fires = {}

VARIABLES
  queue,       \* PendingQueue::items
  lanes,       \* FramePolicy: per pipeline, its complete frames not sealed
  sealed,      \* FramePolicy::sealed, fires of each frame
  launches,    \* in_flight_launches
  controls,    \* InFlightControls::settling
  turn,        \* LaneTurn, and whether the lane has a batch stashed
  submitted,   \* fires and moves the worker was given
  cancelled,   \* fires asked to cancel (cancel_requested)
  settled,     \* fires and moves whose completion is resolved
  terminated,  \* terminated_processes
  stopping,    \* the worker was told to stop
  drained,     \* fires posted because it was
  withCopy,    \* fires that were queued with a copy
  copied,      \* fires whose copy the engine took and completed
  ran          \* fires whose launch the engine took

work == <<queue, lanes, sealed>>
flight == <<launches, controls>>
fate == <<submitted, cancelled, settled, terminated, stopping, drained, withCopy>>
engine == <<copied, ran>>
vars == <<work, flight, turn, fate, engine>>

Launch(f) == [kind |-> "launch", of |-> f]
Copy(f) == [kind |-> "copy", of |-> f]
Move(m) == [kind |-> "move", of |-> m]
Items == {Launch(f) : f \in Fires} \cup {Copy(f) : f \in Fires} \cup {Move(m) : m \in Moves}

Queued(item) == item \in ToSet(queue)

(* A queue without some of its items: the k-th of the others comes k-th. *)
Without(s, items) ==
  LET kept == {i \in DOMAIN s : s[i] \notin items}
      Rank(i) == Cardinality({j \in kept : j <= i})
  IN  [k \in 1..Cardinality(kept) |-> s[CHOOSE i \in kept : Rank(i) = k]]

TypeOK ==
  /\ queue \in Seq(Items)
  /\ lanes \in [Pipelines -> Seq(Fires)]
  /\ sealed \in Seq(SUBSET Fires)
  /\ launches \in Seq([fires : SUBSET Fires, at : {"posted", "accepted", "done", "failed"}])
  /\ controls \in Seq([item : Items, at : {"posted", "running", "done", "failed", "refused"}])
  /\ turn \in [launch : Nat, control : 0..ControlRunMax, stash : BOOLEAN]
  /\ cancelled \cup withCopy \cup copied \cup ran \cup drained \subseteq Fires
  /\ submitted \cup settled \subseteq Fires \cup Moves
  /\ terminated \subseteq Processes /\ stopping \in BOOLEAN

Init ==
  /\ queue = <<>> /\ lanes = [p \in Pipelines |-> <<>>] /\ sealed = <<>>
  /\ launches = <<>> /\ controls = <<>>
  /\ turn = [launch |-> 0, control |-> 0, stash |-> FALSE]
  /\ submitted = {} /\ cancelled = {} /\ settled = {} /\ terminated = {} /\ withCopy = {}
  /\ stopping = FALSE /\ drained = {}
  /\ copied = {} /\ ran = {}
-----------------------------------------------------------------------------
(* What the worker is given. Stop comes last: SchedulerHandle::send refuses *)
(* everything once the shutdown has begun.                                  *)

Stop ==
  /\ Stops
  /\ ~stopping
  /\ stopping' = TRUE
  /\ UNCHANGED <<work, flight, turn, engine, submitted, cancelled, settled, terminated, drained,
                 withCopy>>

(* A fire is admitted, with a copy ahead of it or without (queue_attempt);  *)
(* that of a terminated process is rejected.                                *)
Submit(p, copies) ==
  LET f == <<p, Cardinality({g \in submitted \cap Fires : g[1] = p}) + 1>>
  IN
  /\ ~stopping
  /\ Cardinality(submitted \cap Fires) < MaxFires
  /\ submitted' = submitted \cup {f}
  /\ \/ /\ Owner[p] \notin terminated
        /\ queue' = queue \o (IF copies THEN <<Copy(f)>> ELSE <<>>) \o <<Launch(f)>>
        /\ lanes' = [lanes EXCEPT ![p] = Append(@, f)]
        /\ withCopy' = IF copies THEN withCopy \cup {f} ELSE withCopy
        /\ UNCHANGED settled
     \/ /\ Owner[p] \in terminated
        /\ settled' = settled \cup {f}
        /\ UNCHANGED <<queue, lanes, withCopy>>
  /\ UNCHANGED <<flight, turn, engine, sealed, cancelled, terminated, stopping, drained>>

SubmitMove(m) ==
  /\ ~stopping
  /\ m \notin submitted
  /\ submitted' = submitted \cup {m}
  /\ queue' = Append(queue, Move(m))
  /\ UNCHANGED <<flight, turn, engine, lanes, sealed, cancelled, settled, terminated, stopping, drained,
                 withCopy>>

OfProcess(f, q) == Owner[f[1]] = q

(* Slips the checks must catch: no fire is protected from rejection,        *)
(* and the newest frame of a pipeline is sealed first.                      *)
NoneProtected(q) == {}

SealNewest(S) ==
  /\ ~stopping
  /\ ~(\E c \in ToSet(controls) : c.item.kind = "copy") /\ Len(launches) < Depth
  /\ sealed = <<>>
  /\ S # {} /\ \A p \in S : lanes[p] # <<>>
  /\ sealed' = <<{Last(lanes[p]) : p \in S}>>
  /\ lanes' = [p \in Pipelines |-> IF p \in S THEN Front(lanes[p]) ELSE lanes[p]]
  /\ UNCHANGED <<queue, flight, turn, fate, engine>>

(* The first copy of the process in flight protects its fire, which is      *)
(* asked to cancel instead of rejected.                                     *)
Protected(q) ==
  LET own == {i \in DOMAIN controls :
                controls[i].item.kind = "copy" /\ OfProcess(controls[i].item.of, q)}
  IN  {controls[i].item.of : i \in {j \in own : \A k \in own : j <= k}}

(* PipelineLeave(Terminate): what the process has queued is rejected, and   *)
(* the policy forgets its lanes.                                            *)
Terminate(q) ==
  LET gone == {i \in ToSet(queue) :
                 i.kind # "move" /\ OfProcess(i.of, q) /\ i.of \notin Protected(q)}
  IN
  /\ Terminates /\ ~stopping
  /\ q \notin terminated
  /\ terminated' = terminated \cup {q}
  /\ cancelled' = cancelled \cup Protected(q)
  /\ settled' = settled \cup {i.of : i \in gone}
  /\ queue' = Without(queue, gone)
  /\ lanes' = [p \in Pipelines |-> IF Owner[p] = q THEN <<>> ELSE lanes[p]]
  /\ UNCHANGED <<flight, turn, engine, sealed, submitted, stopping, drained, withCopy>>
-----------------------------------------------------------------------------
(* Dispatching frames. *)

Prelaunch(c) == c.item.kind = "copy"

(* A slip: a queued copy blocks no lane. *)
NoLaneBlocked == {}

(* A posted copy holds launches back, a move does not. *)
HoldsLaunches == \E c \in ToSet(controls) : Prelaunch(c)
CopiesOnly == \A c \in ToSet(controls) : Prelaunch(c)

BlockedLanes == {i.of[1] : i \in {j \in ToSet(queue) : j.kind = "copy"}}

MayDispatch == ~HoldsLaunches /\ Len(launches) < Depth

(* plan_dispatch seals the front frames of some pipelines. *)
Seal(S) ==
  /\ ~stopping
  /\ MayDispatch
  /\ sealed = <<>>
  /\ S # {} /\ \A p \in S : lanes[p] # <<>>
  /\ sealed' = <<{Head(lanes[p]) : p \in S}>>
  /\ lanes' = [p \in Pipelines |-> IF p \in S THEN Tail(lanes[p]) ELSE lanes[p]]
  /\ UNCHANGED <<queue, flight, turn, fate, engine>>

(* Queued fires are posted in one batch; those cancelled or settled are     *)
(* rejected there (admits_to_frame).                                        *)
Admitted(wave) == wave \ (cancelled \cup settled)

PostWave(wave) ==
  /\ queue' = Without(queue, {Launch(f) : f \in wave})
  /\ settled' = settled \cup (wave \ Admitted(wave))
  /\ launches' = IF Admitted(wave) = {} THEN launches
                 ELSE Append(launches, [fires |-> Admitted(wave), at |-> "posted"])

(* The front sealed frame, short of what has left the queue, is posted      *)
(* unless a member's pipeline has a copy queued.                            *)
PostFrame ==
  LET frame == sealed[1]
      wave == {f \in frame : Queued(Launch(f))}
  IN
  /\ ~stopping
  /\ MayDispatch
  /\ sealed # <<>>
  /\ wave = {} \/ \A f \in frame : f[1] \notin BlockedLanes
  /\ sealed' = Tail(sealed)
  /\ PostWave(wave)
  /\ UNCHANGED <<lanes, controls, turn, engine, submitted, cancelled, terminated, stopping, drained,
                 withCopy>>

(* Told to stop, the worker posts every queued launch in one batch, framed  *)
(* or not, behind a queued copy or not (drain_eligible).                    *)
Drain ==
  LET wave == {f \in Fires : Queued(Launch(f))}
  IN
  /\ stopping
  /\ MayDispatch
  /\ wave # {}
  /\ PostWave(wave)
  /\ drained' = drained \cup Admitted(wave)
  /\ UNCHANGED <<lanes, sealed, controls, turn, engine, submitted, cancelled, terminated, stopping,
                 withCopy>>
-----------------------------------------------------------------------------
(* Dispatching the rest of the queue. *)

Others == {i \in DOMAIN queue : queue[i].kind # "launch"}

FirstOther == CHOOSE i \in Others : \A j \in Others : i <= j

(* PendingQueue::rotate_launch_run_to_back *)
RotatedTo(s, i) == SubSeq(s, i, Len(s)) \o SubSeq(s, 1, i - 1)

(* A slip: launches make room for moves but not for copies. *)
RotateForMoves ==
  /\ queue # <<>> /\ queue[1].kind = "launch"
  /\ Others # {}
  /\ queue[FirstOther].kind = "move"
  /\ queue' = RotatedTo(queue, FirstOther)
  /\ UNCHANGED <<lanes, sealed, flight, turn, fate, engine>>

(* A run of launches at the front that cannot go now is rotated behind the  *)
(* copy or the move that can (rotate_launch_for_wave_work).                 *)
RotateLaunches ==
  /\ queue # <<>> /\ queue[1].kind = "launch"
  /\ Others # {}
  /\ queue[FirstOther].kind = "move" \/ CopiesOnly
  /\ queue' = RotatedTo(queue, FirstOther)
  /\ UNCHANGED <<lanes, sealed, flight, turn, fate, engine>>

(* InFlightControls::admits *)
Admits(item) ==
  CASE item.kind = "move" -> ~HoldsLaunches
    [] item.kind = "copy" ->
         \A c \in ToSet(controls) : Prelaunch(c) /\ c.item.of[1] # item.of[1]
    [] OTHER -> FALSE

(* post_control: a copy whose fire is settled or cancelled goes no further. *)
PostControl(item) ==
  /\ controls' = IF item.kind = "copy" /\ item.of \in settled \cup cancelled THEN controls
                 ELSE Append(controls, [item |-> item, at |-> "posted"])
  /\ settled' = IF item.kind = "copy" /\ item.of \in cancelled THEN settled \cup {item.of}
                ELSE settled

PostFront ==
  /\ queue # <<>> /\ Admits(queue[1])
  /\ PostControl(queue[1])
  /\ queue' = Tail(queue)
  /\ UNCHANGED <<lanes, sealed, launches, turn, engine, submitted, cancelled, terminated, stopping, drained,
                 withCopy>>

(* Moves are taken from anywhere in the queue. *)
PostMove(m) ==
  /\ Queued(Move(m))
  /\ ~HoldsLaunches
  /\ PostControl(Move(m))
  /\ queue' = Without(queue, {Move(m)})
  /\ UNCHANGED <<lanes, sealed, launches, turn, engine, submitted, cancelled, terminated, stopping, drained,
                 withCopy>>
-----------------------------------------------------------------------------
(* The lane and the engine. *)

First(s, at) == CHOOSE i \in DOMAIN s : s[i].at = at /\ \A j \in 1..(i - 1) : s[j].at # at

Waiting(s) == \E i \in DOMAIN s : s[i].at = "posted"

ControlDue ==
  turn.launch >= LaunchRunBeforeControl /\ turn.control < ControlRunMax

Fresh == [launch |-> 0, control |-> 0, stash |-> FALSE]

(* Finding nothing where a control was due, the lane starts its count over. *)
EndControlTurn ==
  /\ ~turn.stash
  /\ ControlDue /\ ~Waiting(controls)
  /\ turn' = Fresh
  /\ UNCHANGED <<work, flight, fate, engine>>

(* The lane takes a batch: the one it stashed, whether or not a control is  *)
(* due, or the next in its channel unless one is. As it hands the batch to  *)
(* the engine it stashes the next that waits. The engine refuses the batch  *)
(* or will complete it.                                                     *)
LaneTakesLaunch ==
  LET i == First(launches, "posted")
      more == \E j \in DOMAIN launches : j # i /\ launches[j].at = "posted"
  IN
  /\ Waiting(launches)
  /\ turn.stash \/ ~ControlDue
  /\ turn' = [turn EXCEPT !.launch = @ + 1, !.stash = more]
  /\ \/ /\ launches' = [launches EXCEPT ![i].at = "accepted"]
        /\ ran' = ran \cup launches[i].fires
     \/ /\ launches' = [launches EXCEPT ![i].at = "failed"]
        /\ UNCHANGED ran
  /\ UNCHANGED <<work, controls, fate, copied>>

(* It takes a copy or a move when one is due or no batch waits, and none is *)
(* stashed. A copy whose fire was settled or cancelled meanwhile is         *)
(* refused, and the engine may refuse either.                               *)
LaneTakesControl ==
  LET i == First(controls, "posted")
      item == controls[i].item
      copy == item.kind = "copy"
      n == turn.control + 1
      Answer(at) == controls' = [controls EXCEPT ![i].at = at]
  IN
  /\ Waiting(controls)
  /\ ~turn.stash
  /\ ControlDue \/ ~Waiting(launches)
  /\ turn' = IF n >= ControlRunMax THEN Fresh ELSE [turn EXCEPT !.control = n]
  /\ \/ /\ copy /\ item.of \in settled \cup cancelled
        /\ settled' = settled \cup {item.of}
        /\ Answer("refused")
     \/ /\ ~(copy /\ item.of \in settled \cup cancelled)
        /\ Answer("running")
        /\ UNCHANGED settled
     \/ /\ ~(copy /\ item.of \in settled \cup cancelled)
        /\ settled' = settled \cup {item.of}
        /\ Answer("refused")
  /\ UNCHANGED <<work, launches, copied, ran, submitted, cancelled, terminated, stopping, drained,
                 withCopy>>

EngineEndsLaunch ==
  /\ \E i \in DOMAIN launches :
       launches[i].at = "accepted" /\ launches' = [launches EXCEPT ![i].at = "done"]
  /\ UNCHANGED <<work, controls, turn, fate, engine>>

EngineEndsControl ==
  /\ \E i \in DOMAIN controls, at \in {"done", "failed"} :
       /\ controls[i].at = "running"
       /\ controls' = [controls EXCEPT ![i].at = at]
       /\ copied' = IF Prelaunch(controls[i]) /\ at = "done"
                      THEN copied \cup {controls[i].item.of} ELSE copied
  /\ UNCHANGED <<work, launches, turn, fate, ran>>

(* The worker retires batches in order, and controls as they end; a copy    *)
(* that failed rejects its fire.                                            *)
RetireLaunch ==
  /\ launches # <<>> /\ launches[1].at \in {"done", "failed"}
  /\ settled' = settled \cup launches[1].fires
  /\ launches' = Tail(launches)
  /\ UNCHANGED <<work, controls, turn, engine, submitted, cancelled, terminated, stopping, drained,
                 withCopy>>

RetireControl ==
  /\ \E i \in DOMAIN controls :
       /\ controls[i].at \in {"done", "failed", "refused"}
       /\ controls' = RemoveAt(controls, i)
       /\ settled' = IF controls[i].item.kind = "move" \/ controls[i].at = "failed"
                       THEN settled \cup {controls[i].item.of} ELSE settled
  /\ UNCHANGED <<work, launches, turn, engine, submitted, cancelled, terminated, stopping, drained,
                 withCopy>>
-----------------------------------------------------------------------------
Worker ==
  \/ \E S \in SUBSET Pipelines : Seal(S)
  \/ PostFrame \/ Drain
  \/ RotateLaunches \/ PostFront
  \/ \E m \in Moves : PostMove(m)
  \/ RetireLaunch \/ RetireControl

Lane == LaneTakesLaunch \/ LaneTakesControl \/ EndControlTurn

Next ==
  \/ \E p \in Pipelines, copies \in BOOLEAN : Submit(p, copies)
  \/ \E m \in Moves : SubmitMove(m)
  \/ \E q \in Processes : Terminate(q)
  \/ Stop
  \/ Worker
  \/ Lane
  \/ EngineEndsLaunch \/ EngineEndsControl

Spec == Init /\ [][Next]_vars

(* The worker's loop goes round as long as it makes progress, the lane's    *)
(* thread serves what it is sent, the engine completes what it took, and    *)
(* the policy seals a complete frame within its deadlines.                  *)
Fairness ==
  /\ WF_vars(\E S \in SUBSET Pipelines : Seal(S))
  /\ WF_vars(PostFrame) /\ WF_vars(Drain)
  /\ WF_vars(RotateLaunches) /\ WF_vars(PostFront)
  /\ \A m \in Moves : WF_vars(PostMove(m))
  /\ WF_vars(RetireLaunch) /\ WF_vars(RetireControl)
  /\ WF_vars(Lane)
  /\ WF_vars(EngineEndsLaunch) /\ WF_vars(EngineEndsControl)

FairSpec == Spec /\ Fairness
-----------------------------------------------------------------------------
(* A launch reads the pages its copy fills: the engine never takes one      *)
(* before the copy queued ahead of it is complete, nor when it failed.      *)
LaunchAfterItsCopy == ran \cap withCopy \subseteq copied

(* The same of all but the launches the shutdown posts (scan_queue's        *)
(* blocked lanes, holds_launches, admits_to_frame).                         *)
OnlyTheDrainOvertakes == (ran \cap withCopy) \ drained \subseteq copied

(* However the queue is rotated, the engine takes the launches of one       *)
(* pipeline in the order they were submitted: once it took one, no earlier  *)
(* one is still on its way.                                                 *)
PipelineInOrder ==
  \A f \in ran : \A n \in 1..(f[2] - 1) :
     /\ ~Queued(Launch(<<f[1], n>>))
     /\ \A i \in DOMAIN launches : launches[i].at = "posted" => <<f[1], n>> \notin launches[i].fires

(* A fire is not reported settled, which frees the pages its copy fills,    *)
(* while the engine has its copy or its launch, unless it was drained.      *)
NotSettledInFlight ==
  /\ \A i \in DOMAIN launches : launches[i].fires \cap settled \subseteq drained
  /\ \A i \in DOMAIN controls :
       controls[i].at = "running" => controls[i].item.of \notin settled \ drained

(* Every fire and every move the worker is given is settled in the end:     *)
(* copies waiting for controls, launches waiting for copies and frames      *)
(* waiting for room never wait on each other. Work is finite, so this says  *)
(* that all that was given is settled again and again.                      *)
EverythingSettles == []<>(submitted \subseteq settled)

(* The same as far as termination leaves it alone: moves, and the fires of  *)
(* processes that live.                                                     *)
LiveWorkSettles ==
  []<>(\A x \in submitted \ settled : x \in Fires /\ Owner[x[1]] \in terminated)
=============================================================================
