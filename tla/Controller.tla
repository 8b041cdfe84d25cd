----------------------------- MODULE Controller -----------------------------
(***************************************************************************)
(* The controller (crates/controller): the registry one actor keeps of the *)
(* workers and gateways that heartbeat to it, the two views it publishes   *)
(* of it (the routing table gateways watch, the topology workers watch),   *)
(* and the registration protocol of the workers                            *)
(* (crates/worker/src/link/control.rs) and gateways                        *)
(* (crates/gateway/src/controller.rs) across timeouts, crashes and a       *)
(* controller that restarts with nothing.                                  *)
(*                                                                         *)
(* A command is one atomic step of the actor.  Time is counted in half     *)
(* eviction timeouts: an entry one unit old lags, one two units old has    *)
(* expired.  A node's address is the node.  The pairing of a worker with   *)
(* its peers is a function of the registered workers and stands here as    *)
(* the map of their addresses; epochs are in ControllerLink.               *)
(***************************************************************************)
EXTENDS Naturals, FiniteSets, FiniteSetsExt, Functions

CONSTANTS
    Workers, Gateways,  \* processes, each at an address of its own
    MaxId,              \* bound: ids a controller hands out
    MaxGatewayId,       \* bound: those of them it hands to gateways
    MaxRestarts,        \* bound: times the controller starts over
    None

ASSUME IdsAssumption == MaxId \in Nat /\ MaxGatewayId \in 0..MaxId /\ MaxRestarts \in Nat
ASSUME NodesAssumption == Workers \cap Gateways = {} /\ None \notin Workers \cup Gateways

VARIABLES
    workers,    \* Cluster.workers: id -> [addr, age, health, draining]
    gateways,   \* Cluster.gateways: id -> [addr, age]
    nextWorker, nextGateway,
    routing,    \* the routing table published: id -> [addr, health]
    topology,   \* the topology published: peers and gateways, id -> addr
    id,         \* id[n]: the id node n goes by, None before it registers
    again,      \* nodes that heard ReRegister and have yet to register
    draining,   \* workers that take no new turns
    restarts

registry == <<workers, gateways, nextWorker, nextGateway>>
views == <<routing, topology>>
nodes == <<id, again, draining>>
vars == <<registry, views, nodes, restarts>>

Nodes == Workers \cup Gateways
Ids == 0..MaxId
Health == {"healthy", "degraded", "unreachable"}
Expired == 2
Lagging == 1

IsPartial(f, S, T) == DOMAIN f \subseteq S /\ \A i \in DOMAIN f : f[i] \in T

TypeOK ==
    /\ IsPartial(workers, Ids, [addr : Workers, age : 0..Expired, health : Health,
                                draining : BOOLEAN])
    /\ IsPartial(gateways, Ids, [addr : Gateways, age : 0..Expired])
    /\ nextWorker \in 0..MaxId + 1 /\ nextGateway \in 0..MaxId + 1
    /\ IsPartial(routing, Ids, [addr : Workers, health : Health])
    /\ IsPartial(topology.peers, Ids, Workers)
    /\ IsPartial(topology.gateways, Ids, Gateways)
    /\ id \in [Nodes -> Ids \cup {None}]
    /\ again \subseteq Nodes
    /\ draining \subseteq Workers
    /\ restarts \in 0..MaxRestarts

Empty == [i \in {} |-> None]

Init ==
    /\ workers = Empty /\ gateways = Empty
    /\ nextWorker = 0 /\ nextGateway = 0
    /\ routing = Empty
    /\ topology = [peers |-> Empty, gateways |-> Empty]
    /\ id = [n \in Nodes |-> None]
    /\ again = {} /\ draining = {}
    /\ restarts = 0

-----------------------------------------------------------------------------
(* reassign: both views, computed from the registry as it is after a step. *)

RoutingOf(ws) == [i \in DOMAIN ws |-> [addr |-> ws[i].addr, health |-> ws[i].health]]
TopologyOf(ws, gs) ==
    [peers |-> [i \in DOMAIN ws |-> ws[i].addr], gateways |-> [i \in DOMAIN gs |-> gs[i].addr]]

ReplanAndPublish ==
    /\ routing' = RoutingOf(workers')
    /\ topology' = TopologyOf(workers', gateways')

PublishWorkerView ==
    /\ topology' = TopologyOf(workers', gateways')
    /\ UNCHANGED routing

PublishRouting ==
    /\ routing' = RoutingOf(workers')
    /\ UNCHANGED topology

-----------------------------------------------------------------------------
(* Registration: under the id the node had if no one else holds it, else   *)
(* under a fresh one.                                                      *)

KeepsPrior(held, prior, addr) ==
    prior # None /\ (prior \in DOMAIN held => held[prior].addr = addr)

(* A slip the checks must catch: a freed id handed to a newcomer.          *)
GrantedLowest(held, next, prior, addr) ==
    IF KeepsPrior(held, prior, addr) THEN prior
    ELSE Min((0..MaxId + 1) \ DOMAIN held)

Granted(held, next, prior, addr) == IF KeepsPrior(held, prior, addr) THEN prior ELSE next

NextAfter(held, next, prior, addr) ==
    IF KeepsPrior(held, prior, addr) THEN Max({next, prior + 1}) ELSE next + 1

Put(f, i, v) == [j \in DOMAIN f \cup {i} |-> IF j = i THEN v ELSE f[j]]

RegisterWorker(w, prior, got) ==
    /\ got = Granted(workers, nextWorker, prior, w)
    /\ got \in Ids
    /\ nextWorker' = NextAfter(workers, nextWorker, prior, w)
    /\ workers' = Put(workers, got,
                      [addr |-> w, age |-> 0, health |-> "healthy", draining |-> FALSE])
    /\ UNCHANGED <<gateways, nextGateway>>
    /\ ReplanAndPublish

RegisterGateway(g, prior, got) ==
    /\ got = Granted(gateways, nextGateway, prior, g)
    /\ got \in 0..MaxGatewayId
    /\ nextGateway' = NextAfter(gateways, nextGateway, prior, g)
    /\ gateways' = Put(gateways, got, [addr |-> g, age |-> 0])
    /\ UNCHANGED <<workers, nextWorker>>
    /\ PublishWorkerView

(* A process starts and registers with no prior id.                        *)
WorkerStarts(w) ==
    /\ id[w] = None
    /\ \E got \in Ids :
        /\ RegisterWorker(w, None, got)
        /\ id' = [id EXCEPT ![w] = got]
    /\ UNCHANGED <<again, draining, restarts>>

GatewayStarts(g) ==
    /\ id[g] = None
    /\ \E got \in Ids :
        /\ RegisterGateway(g, None, got)
        /\ id' = [id EXCEPT ![g] = got]
    /\ UNCHANGED <<again, draining, restarts>>

(* A worker that heard ReRegister asks for its id back.  Given another, it *)
(* aborts: its links and turns are under the old one.  When the answer is  *)
(* lost it goes on beating under its id.                                   *)
WorkerRegistersAgain(w, answered) ==
    /\ w \in again
    /\ \E got \in Ids :
        /\ RegisterWorker(w, id[w], got)
        /\ IF answered /\ got # id[w]
           THEN id' = [id EXCEPT ![w] = None] /\ draining' = draining \ {w}
           ELSE UNCHANGED <<id, draining>>
    /\ again' = again \ {w}
    /\ UNCHANGED restarts

(* A gateway goes by whatever id it is given.                              *)
GatewayRegistersAgain(g, answered) ==
    /\ g \in again
    /\ \E got \in Ids :
        /\ RegisterGateway(g, id[g], got)
        /\ id' = IF answered THEN [id EXCEPT ![g] = got] ELSE id
    /\ again' = again \ {g}
    /\ UNCHANGED <<draining, restarts>>

-----------------------------------------------------------------------------
(* touch: a beat renews the entry of the id it names, and takes a worker   *)
(* that lagged back to the health its load gives it.                       *)

HealthOf(w) == IF w.draining THEN "degraded" ELSE "healthy"

TouchWorker(w) ==
    [w EXCEPT !.age = 0, !.health = IF @ = "unreachable" THEN HealthOf(w) ELSE @]

(* A slip: a worker is not told that the controller does not know it.      *)
BeatsUnheard(w) ==
    /\ id[w] # None /\ w \notin again
    /\ id[w] \in DOMAIN workers
    /\ workers' = [workers EXCEPT ![id[w]] = TouchWorker(@)]
    /\ UNCHANGED <<gateways, nextWorker, nextGateway, views, nodes, restarts>>

WorkerBeats(w) ==
    /\ id[w] # None /\ w \notin again
    /\ IF id[w] \in DOMAIN workers
       THEN workers' = [workers EXCEPT ![id[w]] = TouchWorker(@)] /\ UNCHANGED again
       ELSE again' = again \cup {w} /\ UNCHANGED workers
    /\ UNCHANGED <<gateways, nextWorker, nextGateway, views, id, draining, restarts>>

GatewayBeats(g) ==
    /\ id[g] # None /\ g \notin again
    /\ IF id[g] \in DOMAIN gateways
       THEN gateways' = [gateways EXCEPT ![id[g]].age = 0] /\ UNCHANGED again
       ELSE again' = again \cup {g} /\ UNCHANGED gateways
    /\ UNCHANGED <<workers, nextWorker, nextGateway, views, id, draining, restarts>>

(* report: the load of a worker; the table is published again only if the  *)
(* pressure bucket was crossed or the drain mark changed.                  *)
Report(w, mark) ==
    [w EXCEPT !.age = 0, !.draining = mark,
              !.health = IF mark THEN "degraded" ELSE IF @ = "degraded" THEN "healthy" ELSE @]

ReportWorker(w, crossed) ==
    /\ id[w] # None
    /\ id[w] \in DOMAIN workers
    /\ workers' = [workers EXCEPT ![id[w]] = Report(@, w \in draining)]
    /\ IF crossed \/ workers[id[w]].draining # (w \in draining)
       THEN PublishRouting
       ELSE UNCHANGED views
    /\ UNCHANGED <<gateways, nextWorker, nextGateway, nodes, restarts>>

WorkerDrains(w) ==
    /\ id[w] # None
    /\ w \notin draining
    /\ draining' = draining \cup {w}
    /\ UNCHANGED <<registry, views, id, again, restarts>>

-----------------------------------------------------------------------------
(* tick: expired entries go, the rest are graded by their lag, and one of  *)
(* the three outcomes is published.                                        *)

Grade(w) == [w EXCEPT !.health = IF w.age >= Lagging THEN "unreachable" ELSE HealthOf(w)]

(* Slips: an entry kept once its age has run out, and a tick that tells the *)
(* workers of a lost gateway before it tells the gateways of a lost worker. *)
UnexpiredLate(f) == Restrict(f, {i \in DOMAIN f : f[i].age <= Expired})

Unexpired(f) == Restrict(f, {i \in DOMAIN f : f[i].age < Expired})

TickTellsWorkersFirst ==
    LET ws == Unexpired(workers)
        gs == Unexpired(gateways)
        graded == [i \in DOMAIN ws |-> Grade(ws[i])]
    IN  /\ workers' = graded
        /\ gateways' = gs
        /\ IF gs # gateways THEN PublishWorkerView
           ELSE IF ws # workers THEN ReplanAndPublish
           ELSE IF graded # ws THEN PublishRouting
           ELSE UNCHANGED views
        /\ UNCHANGED <<nextWorker, nextGateway, nodes, restarts>>

Tick ==
    LET ws == Unexpired(workers)
        gs == Unexpired(gateways)
        graded == [i \in DOMAIN ws |-> Grade(ws[i])]
    IN  /\ workers' = graded
        /\ gateways' = gs
        /\ IF ws # workers THEN ReplanAndPublish
           ELSE IF graded # ws THEN PublishRouting
           ELSE IF gs # gateways THEN PublishWorkerView
           ELSE UNCHANGED views
        /\ UNCHANGED <<nextWorker, nextGateway, nodes, restarts>>

(* Half an eviction timeout passes.                                        *)
Lapse ==
    /\ workers' = [i \in DOMAIN workers |-> [workers[i] EXCEPT !.age = Min({@ + 1, Expired})]]
    /\ gateways' = [i \in DOMAIN gateways |-> [gateways[i] EXCEPT !.age = Min({@ + 1, Expired})]]
    /\ UNCHANGED <<nextWorker, nextGateway, views, nodes, restarts>>

Crash(n) ==
    /\ id[n] # None
    /\ id' = [id EXCEPT ![n] = None]
    /\ again' = again \ {n}
    /\ draining' = draining \ {n}
    /\ UNCHANGED <<registry, views, restarts>>

(* The state is soft: a controller that restarts recovers nothing.         *)
ControllerRestarts ==
    /\ restarts < MaxRestarts
    /\ restarts' = restarts + 1
    /\ workers' = Empty /\ gateways' = Empty
    /\ nextWorker' = 0 /\ nextGateway' = 0
    /\ routing' = Empty
    /\ topology' = [peers |-> Empty, gateways |-> Empty]
    /\ UNCHANGED nodes

WorkerStep(w) ==
    \/ WorkerStarts(w) \/ WorkerBeats(w) \/ WorkerDrains(w) \/ Crash(w)
    \/ \E answered \in BOOLEAN : WorkerRegistersAgain(w, answered)
    \/ \E crossed \in BOOLEAN : ReportWorker(w, crossed)

GatewayStep(g) ==
    \/ GatewayStarts(g) \/ GatewayBeats(g) \/ Crash(g)
    \/ \E answered \in BOOLEAN : GatewayRegistersAgain(g, answered)

Next ==
    \/ \E w \in Workers : WorkerStep(w)
    \/ \E g \in Gateways : GatewayStep(g)
    \/ Tick \/ Lapse \/ ControllerRestarts

Spec == Init /\ [][Next]_vars

(* Timers: the reaper ticks and time passes, and a live node goes on       *)
(* beating, reporting and registering.  Nothing obliges a process to       *)
(* start, crash or drain, or a controller to restart.                      *)
FairSpec ==
    /\ Spec
    /\ WF_vars(Tick) /\ WF_vars(Lapse)
    /\ \A w \in Workers :
        /\ WF_vars(WorkerBeats(w))
        /\ WF_vars(\E answered \in BOOLEAN : WorkerRegistersAgain(w, answered))
        /\ WF_vars(\E crossed \in BOOLEAN : ReportWorker(w, crossed))

-----------------------------------------------------------------------------
(* No worker is routed to that the controller no longer counts on: the     *)
(* published table names exactly the registered workers, at their          *)
(* addresses, and none as healthy that lags or drains in the registry.     *)
(* The tick has to publish what it evicts and what it grades, whichever of *)
(* its outcomes is taken; a report has to publish a drain.                 *)
UnfitIsToldAtOnce ==
    /\ DOMAIN routing = DOMAIN workers
    /\ \A i \in DOMAIN routing :
        /\ routing[i].addr = workers[i].addr
        /\ routing[i].health = "healthy" => workers[i].health = "healthy"

(* No two live workers go by the same id, however they time out, crash and *)
(* come back: a beat names only an id, so the controller would keep both   *)
(* registered as one.                                                      *)
OneWorkerPerId ==
    \A v, w \in Workers : v # w /\ id[v] # None => id[v] # id[w]

(* As long as one controller counts the ids.                               *)
OneWorkerPerIdTillRestart == restarts = 0 => OneWorkerPerId

(* The next beat of a worker the controller does not know is told so: it   *)
(* is acknowledged only if the entry of that id is the worker's own.       *)
AckMeansRegistered ==
    [][\A w \in Workers : WorkerBeats(w) /\ w \notin again' => workers[id[w]].addr = w]_vars

(* An entry no live worker goes by does not stay: it leaves the table, or  *)
(* a worker goes by that id again.                                         *)
DeadWorkersLeave ==
    \A i \in Ids : []<>(i \notin DOMAIN routing \/ \E w \in Workers : id[w] = i)

(* The entry of a worker's id is the worker's own.                         *)
Registered(w) == id[w] \in DOMAIN workers /\ workers[id[w]].addr = w

(* A live worker the controller does not know, timed out by mistake or     *)
(* forgotten in a restart, is registered again under its id or starts      *)
(* over: another worker's entry under that id is not enough.               *)
LiveWorkersReturn ==
    \A w \in Workers : []<>(id[w] = None \/ Registered(w))

(* A restarted controller gave the worker's id to another, for which its   *)
(* beats are taken.                                                        *)
Supplanted(w) == restarts > 0 /\ id[w] \in DOMAIN workers /\ ~Registered(w)

(* Only such a worker stays away: any other that the controller does not   *)
(* know has its own entry again in the end, through lapses, lost answers   *)
(* and restarts, or starts over.                                           *)
OnlyTheSupplantedStayAway ==
    \A w \in Workers : []<>(id[w] = None \/ Registered(w) \/ Supplanted(w))

(* A worker that lagged is unreachable until it beats again: one whose     *)
(* beats are in time for every later tick is not left unreachable in the   *)
(* table.                                                                  *)
UnreachableUntilItBeats ==
    \A i \in Ids :
        <>[][Tick => (i \in DOMAIN workers => workers[i].age < Lagging)]_vars
            => []<>(i \in DOMAIN routing => routing[i].health # "unreachable")

=============================================================================
