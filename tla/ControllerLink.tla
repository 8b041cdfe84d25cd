--------------------------- MODULE ControllerLink ---------------------------
(***************************************************************************)
(* A gateway's link to the controller (crates/gateway/src/controller.rs;   *)
(* a worker's, crates/worker/src/link/control.rs, is the same code): one   *)
(* client shared by the heartbeat loop and the routing watch, dialed again *)
(* by whichever of them finds it gone, and the long poll of the            *)
(* controller's views (crates/controller/src/lib.rs) that the watch makes  *)
(* with the epoch it has seen.  A controller that restarts counts its      *)
(* epochs afresh.                                                          *)
(***************************************************************************)
EXTENDS SequencesExt

CONSTANTS
    MaxIncarnations,    \* bound: times the controller runs
    MaxEpoch,           \* bound: views one controller publishes
    MaxDials            \* bound: connections the client makes

(* There is a dial for every run of the controller. *)
ASSUME BoundsAssumption ==
    /\ {MaxIncarnations, MaxEpoch, MaxDials} \subseteq Nat \ {0}
    /\ MaxIncarnations <= MaxDials

VARIABLES
    up, inc, epoch,     \* the controller: running, which run of it, its gateway_epoch
    conns,              \* conns[d]: the connection of dial d; the last is the client's
    dialing,            \* who holds the dialing lock: {} or {a task}
    pc, seen,           \* per task: where it is, the dial its client came from
    since, view         \* the watch: epoch it polls from, [inc, epoch] it last sent on

controller == <<up, inc, epoch>>
linkVars == <<controller, conns, dialing, pc, seen, since, view>>

Tasks == {"heartbeat", "watch"}
Client == Len(conns)

(* A connection lives while the controller it was made to does.            *)
Alive(d) == up /\ conns[d].inc = inc /\ ~conns[d].dropped

LinkTypeOK ==
    /\ up \in BOOLEAN /\ inc \in 1..MaxIncarnations /\ epoch \in 0..MaxEpoch
    /\ conns \in Seq([inc : 1..MaxIncarnations, dropped : BOOLEAN])
    /\ Client \in 1..MaxDials
    /\ dialing \in {{}} \cup {{t} : t \in Tasks}
    /\ pc \in [Tasks -> {"idle", "calling", "failed", "locked", "after"}]
    /\ seen \in [Tasks -> 1..MaxDials]
    /\ since \in 0..MaxEpoch
    /\ view \in [inc : 0..MaxIncarnations, epoch : 0..MaxEpoch]
    /\ \A t \in Tasks : pc[t] = "locked" <=> t \in dialing

LinkInit ==
    /\ up = TRUE /\ inc = 1 /\ epoch = 0
    /\ conns = <<[inc |-> 1, dropped |-> FALSE]>>
    /\ dialing = {}
    /\ pc = [t \in Tasks |-> "idle"]
    /\ seen = [t \in Tasks |-> 1]
    /\ since = 0
    /\ view = [inc |-> 0, epoch |-> 0]

-----------------------------------------------------------------------------
(* The controller and the network.                                         *)

Publish ==
    /\ up /\ epoch < MaxEpoch
    /\ epoch' = epoch + 1
    /\ UNCHANGED <<up, inc, conns, dialing, pc, seen, since, view>>

Stop ==
    /\ up /\ inc < MaxIncarnations
    /\ up' = FALSE
    /\ UNCHANGED <<inc, epoch, conns, dialing, pc, seen, since, view>>

Restart ==
    /\ ~up
    /\ up' = TRUE /\ inc' = inc + 1 /\ epoch' = 0
    /\ UNCHANGED <<conns, dialing, pc, seen, since, view>>

LinkDrops ==
    /\ Client + (MaxIncarnations - inc) < MaxDials
    /\ Alive(Client)
    /\ conns' = [conns EXCEPT ![Client].dropped = TRUE]
    /\ UNCHANGED <<controller, dialing, pc, seen, since, view>>

-----------------------------------------------------------------------------
(* A call takes the client there is and waits for its answer; on a dead    *)
(* connection it fails with Shutdown.                                      *)

Calls(t) ==
    /\ pc[t] = "idle"
    /\ pc' = [pc EXCEPT ![t] = "calling"]
    /\ seen' = [seen EXCEPT ![t] = Client]
    /\ UNCHANGED <<controller, conns, dialing, since, view>>

BeatAnswered ==
    /\ pc["heartbeat"] = "calling"
    /\ Alive(seen["heartbeat"])
    /\ pc' = [pc EXCEPT !["heartbeat"] = "idle"]
    /\ UNCHANGED <<controller, conns, dialing, seen, since, view>>

(* watch_gateway_poll: answered when the epoch is past the caller's, or    *)
(* with the table as it is after T_HANG.                                   *)
SendOn ==
    /\ pc["watch"] = "calling"
    /\ Alive(seen["watch"])
    /\ since' = epoch
    /\ view' = [inc |-> inc, epoch |-> epoch]
    /\ pc' = [pc EXCEPT !["watch"] = "idle"]
    /\ UNCHANGED <<controller, conns, dialing, seen>>

(* A slip the checks must catch: the poll is held until there is news.     *)
PollNeverTimesOut == FALSE

PollAnswered == epoch > since /\ SendOn
PollTimesOut == epoch <= since /\ SendOn

Fails(t) ==
    /\ pc[t] = "calling"
    /\ ~Alive(seen[t])
    /\ pc' = [pc EXCEPT ![t] = "failed"]
    /\ UNCHANGED <<controller, conns, dialing, seen, since, view>>

(* An error that is not Shutdown (a deadline passed): nothing is dialed.   *)
Errs(t) ==
    /\ pc[t] = "calling"
    /\ Alive(seen[t])
    /\ pc' = [pc EXCEPT ![t] = "after"]
    /\ UNCHANGED <<controller, conns, dialing, seen, since, view>>

-----------------------------------------------------------------------------
(* heal: under the dialing lock, and unless another caller already has.    *)

HealLocks(t) ==
    /\ pc[t] = "failed"
    /\ dialing = {}
    /\ dialing' = {t}
    /\ pc' = [pc EXCEPT ![t] = "locked"]
    /\ UNCHANGED <<controller, conns, seen, since, view>>

(* A slip: a dial whatever another caller did meanwhile.                   *)
DialedRegardless(t) ==
    IF up /\ Client < MaxDials THEN Append(conns, [inc |-> inc, dropped |-> FALSE]) ELSE conns

Dialed(t) ==
    IF Client = seen[t] /\ up
    THEN Append(conns, [inc |-> inc, dropped |-> FALSE])
    ELSE conns

HealDials(t) ==
    /\ pc[t] = "locked"
    /\ conns' = Dialed(t)
    /\ dialing' = {}
    /\ pc' = [pc EXCEPT ![t] = "after"]
    /\ UNCHANGED <<controller, seen, since, view>>

(* The watch starts over if the client is another dial's by now, and backs *)
(* off; the heartbeat waits for its next tick.                             *)
After(t) ==
    /\ pc[t] = "after"
    /\ since' = IF t = "watch" /\ Client # seen[t] THEN 0 ELSE since
    /\ pc' = [pc EXCEPT ![t] = "idle"]
    /\ UNCHANGED <<controller, conns, dialing, seen, view>>

LinkNext ==
    \/ Publish \/ Stop \/ Restart \/ LinkDrops
    \/ BeatAnswered \/ PollAnswered \/ PollTimesOut
    \/ \E t \in Tasks :
        Calls(t) \/ Fails(t) \/ Errs(t) \/ HealLocks(t) \/ HealDials(t) \/ After(t)

LinkSpec == LinkInit /\ [][LinkNext]_linkVars

(* The tasks run, a call on a live connection is answered in the end (the  *)
(* poll after T_HANG, well before its deadline), and a lock is granted.    *)
FairLinkSpec ==
    /\ LinkSpec
    /\ WF_linkVars(BeatAnswered)
    /\ SF_linkVars(PollAnswered \/ PollTimesOut)
    /\ \A t \in Tasks :
        /\ WF_linkVars(Calls(t) \/ Fails(t) \/ HealDials(t) \/ After(t))
        /\ SF_linkVars(HealLocks(t))

-----------------------------------------------------------------------------
(* A dial replaces only a client whose connection is gone: two tasks that  *)
(* find the same connection dead must not both dial, the second hanging up *)
(* on the calls of the first.                                              *)
OnlyDeadLinksAreReplaced == [][Len(conns') > Len(conns) => ~Alive(Client)]_linkVars

(* What the watch holds catches up: once the controller stays up, the view *)
(* settles on the last one it published, across restarts and lost links,   *)
(* whatever epoch the watch polls from.                                    *)
ViewCatchesUp ==
    <>[]up => <>[](view = [inc |-> inc, epoch |-> epoch])

(* A watch on a restarted controller starts over: it never polls it from   *)
(* an epoch the controller before it counted.                              *)
WatchStartsOver ==
    pc["watch"] = "calling" /\ Alive(seen["watch"]) => since = 0 \/ view.inc = inc

=============================================================================
