------------------------- MODULE ControllerProofs -------------------------
(***************************************************************************)
(* Proofs about Controller for any workers, gateways and bounds. The       *)
(* routing table follows the registry through every command of the actor,  *)
(* restarts included; ids stay unique as long as one controller counts     *)
(* them, since every id ever handed out is below its next one.             *)
(***************************************************************************)
EXTENDS Controller, ControllerLink, SequenceTheorems, TLAPS

(* A worker that drains is not graded healthy: what makes it sound that a  *)
(* report that changes neither mark nor bucket publishes nothing.          *)
DrainIsGraded ==
    \A i \in DOMAIN workers : workers[i].draining => workers[i].health # "healthy"

(* Only a node that goes by an id was told to register again.              *)
AgainHasId == \A n \in again : id[n] # None

(* Ids in the registry and in use are below the next one.                  *)
IdsBelowNext ==
    /\ \A i \in DOMAIN workers : i < nextWorker
    /\ \A w \in Workers : id[w] # None => id[w] < nextWorker

(* An entry is the entry of the worker that goes by its id.                *)
OwnEntry ==
    \A w \in Workers : id[w] # None /\ id[w] \in DOMAIN workers => workers[id[w]].addr = w

RoutingInv == TypeOK /\ DrainIsGraded /\ AgainHasId /\ UnfitIsToldAtOnce

IdInv == restarts = 0 => IdsBelowNext /\ OwnEntry /\ OneWorkerPerId

(* What the registry keeps of a worker and of a gateway. *)
WorkerEntry == [addr : Workers, age : 0..Expired, health : Health, draining : BOOLEAN]
GatewayEntry == [addr : Gateways, age : 0..Expired]

(* The larger and the smaller of two numbers. *)
LEMMA MaxMinOfTwo ==
  ASSUME NEW a \in Nat, NEW b \in Nat
  PROVE  /\ Max({a, b}) \in {a, b} /\ Max({a, b}) >= a /\ Max({a, b}) >= b
         /\ Min({a, b}) \in {a, b} /\ Min({a, b}) <= a /\ Min({a, b}) <= b
<1>1. \E x \in {a, b} : \A y \in {a, b} : x >= y
  BY DEF Max
<1>2. \E x \in {a, b} : \A y \in {a, b} : x <= y
  OBVIOUS
<1>3. Max({a, b}) \in {a, b} /\ \A y \in {a, b} : Max({a, b}) >= y
  BY <1>1 DEF Max
<1>4. Min({a, b}) \in {a, b} /\ \A y \in {a, b} : Min({a, b}) <= y
  BY <1>2 DEF Min
<1> QED BY <1>3, <1>4

(* Writing an entry of the right type keeps the type of the registry. *)
LEMMA PutTyped ==
  ASSUME NEW f, NEW S, NEW T, IsPartial(f, S, T), NEW i \in S, NEW v \in T
  PROVE  IsPartial(Put(f, i, v), S, T)
BY DEF Put, IsPartial

(* A registration hands out an id of the range and counts on. *)
LEMMA GrantedTyped ==
  ASSUME NEW held, NEW n \in 0..MaxId + 1, NEW prior \in Ids \cup {None}, NEW addr,
         Granted(held, n, prior, addr) \in Ids
  PROVE  NextAfter(held, n, prior, addr) \in 0..MaxId + 1
<1> USE IdsAssumption DEF Ids
<1>1. CASE KeepsPrior(held, prior, addr)
  <2>1. prior \in Nat /\ prior <= MaxId /\ n \in Nat /\ prior + 1 \in Nat
    BY <1>1 DEF KeepsPrior
  <2>2. Max({n, prior + 1}) \in {n, prior + 1}
    BY <2>1, MaxMinOfTwo
  <2> QED BY <1>1, <2>1, <2>2 DEF NextAfter
<1>2. CASE ~KeepsPrior(held, prior, addr)
  BY <1>2 DEF NextAfter, Granted
<1> QED BY <1>1, <1>2

(* The views computed from a well-typed registry are well typed. *)
LEMMA ViewsTyped ==
  ASSUME NEW ws, NEW gs, IsPartial(ws, Ids, WorkerEntry), IsPartial(gs, Ids, GatewayEntry)
  PROVE  /\ IsPartial(RoutingOf(ws), Ids, [addr : Workers, health : Health])
         /\ IsPartial(TopologyOf(ws, gs).peers, Ids, Workers)
         /\ IsPartial(TopologyOf(ws, gs).gateways, Ids, Gateways)
<1>1. IsPartial(RoutingOf(ws), Ids, [addr : Workers, health : Health])
  BY DEF IsPartial, RoutingOf, WorkerEntry
<1>2. IsPartial([i \in DOMAIN ws |-> ws[i].addr], Ids, Workers)
  BY DEF IsPartial, WorkerEntry
<1>3. IsPartial([i \in DOMAIN gs |-> gs[i].addr], Ids, Gateways)
  BY DEF IsPartial, GatewayEntry
<1> QED BY <1>1, <1>2, <1>3 DEF TopologyOf

(* A table published from the registry agrees with it. *)
LEMMA PublishedAgrees ==
  ASSUME NEW ws
  PROVE  /\ DOMAIN RoutingOf(ws) = DOMAIN ws
         /\ \A i \in DOMAIN ws : RoutingOf(ws)[i].addr = ws[i].addr
                                 /\ RoutingOf(ws)[i].health = ws[i].health
BY DEF RoutingOf

(* A beat changes neither address nor drain mark, and no healthy grade.    *)
LEMMA TouchFacts ==
  ASSUME NEW e \in WorkerEntry
  PROVE  /\ TouchWorker(e) \in WorkerEntry
         /\ TouchWorker(e).addr = e.addr /\ TouchWorker(e).draining = e.draining
         /\ e.health = "healthy" => TouchWorker(e).health = "healthy"
         /\ e.draining /\ e.health # "healthy" => TouchWorker(e).health # "healthy"
<1>1. /\ e.addr \in Workers /\ e.health \in Health /\ e.draining \in BOOLEAN
      /\ HealthOf(e) \in Health
      /\ e.draining => HealthOf(e) # "healthy"
  BY DEF WorkerEntry, HealthOf, Health
<1> DEFINE h == IF e.health = "unreachable" THEN HealthOf(e) ELSE e.health
           f == [e EXCEPT !.age = 0]
<1>2. f \in WorkerEntry /\ h \in Health
  BY <1>1 DEF WorkerEntry, Expired
<1>3. TouchWorker(e) = [f EXCEPT !.health = h]
  BY DEF TouchWorker, WorkerEntry
<1>4. TouchWorker(e) \in WorkerEntry
  BY <1>2, <1>3 DEF WorkerEntry
<1>5. /\ TouchWorker(e).addr = e.addr /\ TouchWorker(e).draining = e.draining
      /\ TouchWorker(e).health = h
  BY DEF TouchWorker, WorkerEntry
<1> QED BY <1>1, <1>4, <1>5

(* A report sets the drain mark, and grades the worker by it.              *)
LEMMA ReportFacts ==
  ASSUME NEW e \in WorkerEntry, NEW mark \in BOOLEAN
  PROVE  /\ Report(e, mark) \in WorkerEntry
         /\ Report(e, mark).addr = e.addr
         /\ Report(e, mark).draining => Report(e, mark).health # "healthy"
         /\ e.health = "healthy" /\ ~mark => Report(e, mark).health = "healthy"
<1>1. e.addr \in Workers /\ e.health \in Health
  BY DEF WorkerEntry
<1> DEFINE h == IF mark THEN "degraded"
                ELSE IF e.health = "degraded" THEN "healthy" ELSE e.health
           f == [e EXCEPT !.age = 0]
           d == [f EXCEPT !.draining = mark]
<1>2. f \in WorkerEntry
  BY DEF WorkerEntry, Expired
<1>3. d \in WorkerEntry /\ h \in Health
  BY <1>1, <1>2 DEF WorkerEntry, Health
<1>4. Report(e, mark) = [d EXCEPT !.health = h]
  BY DEF Report, WorkerEntry
<1>5. Report(e, mark) \in WorkerEntry
  BY <1>3, <1>4 DEF WorkerEntry
<1>6. /\ Report(e, mark).addr = e.addr /\ Report(e, mark).draining = mark
      /\ Report(e, mark).health = h
  BY DEF Report, WorkerEntry
<1> QED BY <1>1, <1>5, <1>6

(* The tick grades by lag and drain mark.                                  *)
LEMMA GradeFacts ==
  ASSUME NEW e \in WorkerEntry
  PROVE  /\ Grade(e) \in WorkerEntry
         /\ Grade(e).draining => Grade(e).health # "healthy"
<1>1. /\ e.addr \in Workers /\ e.age \in 0..Expired /\ e.draining \in BOOLEAN
      /\ HealthOf(e) \in Health
      /\ e.draining => HealthOf(e) # "healthy"
  BY DEF WorkerEntry, HealthOf, Health
<1>2. Grade(e) = [addr |-> e.addr, age |-> e.age,
                  health |-> IF e.age >= Lagging THEN "unreachable" ELSE HealthOf(e),
                  draining |-> e.draining]
  BY DEF Grade, WorkerEntry
<1> QED BY <1>1, <1>2 DEF WorkerEntry, Health

(* Registration, as the inductive step sees it. *)
LEMMA RegisterWorkerKeeps ==
  ASSUME RoutingInv, NEW w \in Workers, NEW prior \in Ids \cup {None}, NEW got,
         RegisterWorker(w, prior, got)
  PROVE  /\ IsPartial(workers', Ids, WorkerEntry)
         /\ nextWorker' \in 0..MaxId + 1
         /\ IsPartial(routing', Ids, [addr : Workers, health : Health])
         /\ IsPartial(topology'.peers, Ids, Workers)
         /\ IsPartial(topology'.gateways, Ids, Gateways)
         /\ DrainIsGraded' /\ UnfitIsToldAtOnce'
<1> DEFINE e == [addr |-> w, age |-> 0, health |-> "healthy", draining |-> FALSE]
<1>1. /\ IsPartial(workers, Ids, WorkerEntry) /\ IsPartial(gateways, Ids, GatewayEntry)
      /\ nextWorker \in 0..MaxId + 1
  BY DEF RoutingInv, TypeOK, WorkerEntry, GatewayEntry
<1>2. /\ got \in Ids /\ workers' = Put(workers, got, e) /\ gateways' = gateways
      /\ got = Granted(workers, nextWorker, prior, w)
      /\ nextWorker' = NextAfter(workers, nextWorker, prior, w)
      /\ routing' = RoutingOf(workers') /\ topology' = TopologyOf(workers', gateways')
  BY DEF RegisterWorker, ReplanAndPublish
<1>3. e \in WorkerEntry
  BY DEF WorkerEntry, Expired, Health
<1>4. IsPartial(workers', Ids, WorkerEntry)
  BY <1>1, <1>2, <1>3, PutTyped
<1>5. nextWorker' \in 0..MaxId + 1
  BY <1>1, <1>2, GrantedTyped
<1>6. /\ IsPartial(routing', Ids, [addr : Workers, health : Health])
      /\ IsPartial(topology'.peers, Ids, Workers)
      /\ IsPartial(topology'.gateways, Ids, Gateways)
  BY <1>1, <1>2, <1>4, ViewsTyped
<1>7. DrainIsGraded'
  <2>0. /\ DOMAIN workers' = DOMAIN workers \cup {got}
        /\ workers'[got].draining = FALSE
        /\ \A j \in DOMAIN workers \ {got} : workers'[j] = workers[j]
    BY <1>2 DEF Put
  <2> SUFFICES ASSUME NEW i \in DOMAIN workers', workers'[i].draining
               PROVE  workers'[i].health # "healthy"
    BY DEF DrainIsGraded
  <2>1. i # got
    BY <2>0
  <2>2. i \in DOMAIN workers /\ workers'[i] = workers[i]
    BY <2>0, <2>1
  <2> QED BY <2>2 DEF RoutingInv, DrainIsGraded
<1>8. UnfitIsToldAtOnce'
  BY <1>2, PublishedAgrees DEF UnfitIsToldAtOnce
<1> QED BY <1>4, <1>5, <1>6, <1>7, <1>8

(* A gateway's registration touches neither the workers nor their table. *)
LEMMA RegisterGatewayKeeps ==
  ASSUME RoutingInv, NEW g \in Gateways, NEW prior \in Ids \cup {None}, NEW got,
         RegisterGateway(g, prior, got)
  PROVE  /\ IsPartial(gateways', Ids, GatewayEntry)
         /\ nextGateway' \in 0..MaxId + 1
         /\ IsPartial(topology'.peers, Ids, Workers)
         /\ IsPartial(topology'.gateways, Ids, Gateways)
         /\ UNCHANGED <<workers, nextWorker, routing>>
<1> DEFINE e == [addr |-> g, age |-> 0]
<1>1. /\ IsPartial(workers, Ids, WorkerEntry) /\ IsPartial(gateways, Ids, GatewayEntry)
      /\ nextGateway \in 0..MaxId + 1
  BY DEF RoutingInv, TypeOK, WorkerEntry, GatewayEntry
<1>2. /\ got \in Ids /\ gateways' = Put(gateways, got, e)
      /\ got = Granted(gateways, nextGateway, prior, g)
      /\ nextGateway' = NextAfter(gateways, nextGateway, prior, g)
      /\ UNCHANGED <<workers, nextWorker, routing>>
      /\ topology' = TopologyOf(workers', gateways')
  BY IdsAssumption DEF RegisterGateway, PublishWorkerView, Ids
<1>3. e \in GatewayEntry
  BY DEF GatewayEntry, Expired
<1>4. IsPartial(gateways', Ids, GatewayEntry)
  BY <1>1, <1>2, <1>3, PutTyped
<1>5. nextGateway' \in 0..MaxId + 1
  BY <1>1, <1>2, GrantedTyped
<1> QED BY <1>1, <1>2, <1>4, <1>5, ViewsTyped

(* Every command of the actor keeps the table in step with the registry.   *)
THEOREM RoutingInvInductive ==
  /\ Init => RoutingInv
  /\ RoutingInv /\ [Next]_vars => RoutingInv'
<1> USE IdsAssumption, NodesAssumption DEF registry, views, nodes
<1>1. Init => RoutingInv
  BY DEF Init, RoutingInv, TypeOK, DrainIsGraded, AgainHasId, UnfitIsToldAtOnce, IsPartial,
         Empty, Ids, Nodes
<1>2. ASSUME RoutingInv, [Next]_vars PROVE RoutingInv'
  <2>0. /\ TypeOK /\ DrainIsGraded /\ AgainHasId /\ UnfitIsToldAtOnce
        /\ IsPartial(workers, Ids, WorkerEntry) /\ IsPartial(gateways, Ids, GatewayEntry)
    BY <1>2 DEF RoutingInv, TypeOK, WorkerEntry, GatewayEntry
  <2>1. ASSUME NEW w \in Workers, WorkerStarts(w) PROVE RoutingInv'
    <3>1. PICK got \in Ids : /\ RegisterWorker(w, None, got)
                             /\ id' = [id EXCEPT ![w] = got]
      BY <2>1 DEF WorkerStarts
    <3>2. /\ UNCHANGED <<again, draining, restarts, gateways, nextGateway>>
          /\ id[w] = None
      BY <2>1, <3>1 DEF WorkerStarts, RegisterWorker
    <3>3. /\ IsPartial(workers', Ids, WorkerEntry)
          /\ nextWorker' \in 0..MaxId + 1
          /\ IsPartial(routing', Ids, [addr : Workers, health : Health])
          /\ IsPartial(topology'.peers, Ids, Workers)
          /\ IsPartial(topology'.gateways, Ids, Gateways)
          /\ DrainIsGraded' /\ UnfitIsToldAtOnce'
      BY <1>2, <3>1, RegisterWorkerKeeps
    <3>4. id' \in [Nodes -> Ids \cup {None}]
      BY <2>0, <3>1 DEF TypeOK
    <3>5. TypeOK'
      BY <2>0, <3>2, <3>3, <3>4 DEF TypeOK, WorkerEntry
    <3>6. AgainHasId'
      BY <2>0, <3>1, <3>2 DEF AgainHasId, TypeOK
    <3> QED BY <3>3, <3>5, <3>6 DEF RoutingInv
  <2>2. ASSUME NEW g \in Gateways, GatewayStarts(g) PROVE RoutingInv'
    <3>1. PICK got \in Ids : /\ RegisterGateway(g, None, got)
                             /\ id' = [id EXCEPT ![g] = got]
      BY <2>2 DEF GatewayStarts
    <3>2. UNCHANGED <<again, draining, restarts>> /\ id[g] = None
      BY <2>2 DEF GatewayStarts
    <3>3. /\ IsPartial(gateways', Ids, GatewayEntry)
          /\ nextGateway' \in 0..MaxId + 1
          /\ IsPartial(topology'.peers, Ids, Workers)
          /\ IsPartial(topology'.gateways, Ids, Gateways)
          /\ UNCHANGED <<workers, nextWorker, routing>>
      BY <1>2, <3>1, RegisterGatewayKeeps
    <3>4. id' \in [Nodes -> Ids \cup {None}]
      BY <2>0, <3>1 DEF TypeOK
    <3>5. TypeOK'
      BY <2>0, <3>2, <3>3, <3>4 DEF TypeOK, GatewayEntry
    <3>6. AgainHasId'
      BY <2>0, <3>1, <3>2 DEF AgainHasId, TypeOK
    <3> QED BY <2>0, <3>3, <3>5, <3>6 DEF RoutingInv, DrainIsGraded, UnfitIsToldAtOnce
  <2>3. ASSUME NEW w \in Workers, NEW answered \in BOOLEAN, WorkerRegistersAgain(w, answered)
        PROVE  RoutingInv'
    <3>1. PICK got \in Ids :
            /\ RegisterWorker(w, id[w], got)
            /\ IF answered /\ got # id[w]
               THEN id' = [id EXCEPT ![w] = None] /\ draining' = draining \ {w}
               ELSE UNCHANGED <<id, draining>>
      BY <2>3 DEF WorkerRegistersAgain
    <3>2. /\ again' = again \ {w} /\ UNCHANGED <<restarts, gateways, nextGateway>>
      BY <2>3, <3>1 DEF WorkerRegistersAgain, RegisterWorker
    <3>3. id[w] \in Ids \cup {None}
      BY <2>0 DEF TypeOK, Nodes
    <3>4. /\ IsPartial(workers', Ids, WorkerEntry)
          /\ nextWorker' \in 0..MaxId + 1
          /\ IsPartial(routing', Ids, [addr : Workers, health : Health])
          /\ IsPartial(topology'.peers, Ids, Workers)
          /\ IsPartial(topology'.gateways, Ids, Gateways)
          /\ DrainIsGraded' /\ UnfitIsToldAtOnce'
      BY <1>2, <3>1, <3>3, RegisterWorkerKeeps
    <3>5. /\ id' \in [Nodes -> Ids \cup {None}] /\ draining' \subseteq Workers
          /\ \A n \in Nodes \ {w} : id'[n] = id[n]
      BY <2>0, <3>1 DEF TypeOK
    <3>6. TypeOK'
      BY <2>0, <3>2, <3>4, <3>5 DEF TypeOK, WorkerEntry
    <3>7. AgainHasId'
      BY <2>0, <3>2, <3>5 DEF AgainHasId, TypeOK
    <3> QED BY <3>4, <3>6, <3>7 DEF RoutingInv
  <2>4. ASSUME NEW g \in Gateways, NEW answered \in BOOLEAN, GatewayRegistersAgain(g, answered)
        PROVE  RoutingInv'
    <3>1. PICK got \in Ids : /\ RegisterGateway(g, id[g], got)
                             /\ id' = IF answered THEN [id EXCEPT ![g] = got] ELSE id
      BY <2>4 DEF GatewayRegistersAgain
    <3>2. again' = again \ {g} /\ UNCHANGED <<draining, restarts>>
      BY <2>4 DEF GatewayRegistersAgain
    <3>3. id[g] \in Ids \cup {None}
      BY <2>0 DEF TypeOK, Nodes
    <3>4. /\ IsPartial(gateways', Ids, GatewayEntry)
          /\ nextGateway' \in 0..MaxId + 1
          /\ IsPartial(topology'.peers, Ids, Workers)
          /\ IsPartial(topology'.gateways, Ids, Gateways)
          /\ UNCHANGED <<workers, nextWorker, routing>>
      BY <1>2, <3>1, <3>3, RegisterGatewayKeeps
    <3>5. /\ id' \in [Nodes -> Ids \cup {None}]
          /\ \A n \in Nodes \ {g} : id'[n] = id[n]
      BY <2>0, <3>1 DEF TypeOK
    <3>6. TypeOK'
      BY <2>0, <3>2, <3>4, <3>5 DEF TypeOK, GatewayEntry
    <3>7. AgainHasId'
      BY <2>0, <3>2, <3>5 DEF AgainHasId, TypeOK
    <3> QED BY <2>0, <3>4, <3>6, <3>7 DEF RoutingInv, DrainIsGraded, UnfitIsToldAtOnce
  <2>5. ASSUME DOMAIN workers' = DOMAIN workers, IsPartial(workers', Ids, WorkerEntry),
               \A i \in DOMAIN workers :
                 /\ workers'[i].addr = workers[i].addr
                 /\ workers[i].health = "healthy" => workers'[i].health = "healthy",
               UNCHANGED routing
        PROVE  UnfitIsToldAtOnce'
    BY <2>0, <2>5 DEF UnfitIsToldAtOnce
  <2>6. ASSUME NEW w \in Workers, WorkerBeats(w) PROVE RoutingInv'
    <3>1. UNCHANGED <<gateways, nextWorker, nextGateway, routing, topology, id, draining, restarts>>
      BY <2>6 DEF WorkerBeats
    <3>2. CASE id[w] \in DOMAIN workers
      <4> DEFINE i == id[w]
                 v == TouchWorker(workers[i])
      <4>1. workers' = [workers EXCEPT ![i] = v] /\ again' = again
        BY <2>6, <3>2 DEF WorkerBeats
      <4>2. workers[i] \in WorkerEntry
        BY <2>0, <3>2 DEF IsPartial
      <4>3. /\ v \in WorkerEntry
            /\ v.addr = workers[i].addr /\ v.draining = workers[i].draining
            /\ workers[i].health = "healthy" => v.health = "healthy"
            /\ v.draining /\ workers[i].health # "healthy" => v.health # "healthy"
        BY <4>2, TouchFacts
      <4>4. /\ DOMAIN workers' = DOMAIN workers /\ workers'[i] = v
            /\ \A j \in DOMAIN workers \ {i} : workers'[j] = workers[j]
        BY <3>2, <4>1
      <4> HIDE DEF v
      <4>5. IsPartial(workers', Ids, WorkerEntry)
        BY <2>0, <4>3, <4>4 DEF IsPartial
      <4>6. UnfitIsToldAtOnce'
        BY <2>5, <3>1, <4>3, <4>4, <4>5
      <4>7. DrainIsGraded'
        BY <2>0, <3>2, <4>3, <4>4 DEF DrainIsGraded
      <4>8. TypeOK' /\ AgainHasId'
        BY <2>0, <3>1, <4>1, <4>5 DEF TypeOK, WorkerEntry, AgainHasId
      <4> QED BY <4>6, <4>7, <4>8 DEF RoutingInv
    <3>3. CASE id[w] \notin DOMAIN workers
      <4>1. again' = again \cup {w} /\ workers' = workers /\ id[w] # None
        BY <2>6, <3>3 DEF WorkerBeats
      <4> QED BY <2>0, <3>1, <4>1
           DEF RoutingInv, TypeOK, Nodes, DrainIsGraded, AgainHasId, UnfitIsToldAtOnce
    <3> QED BY <3>2, <3>3
  <2>7. ASSUME NEW g \in Gateways, GatewayBeats(g) PROVE RoutingInv'
    <3>1. UNCHANGED <<workers, nextWorker, nextGateway, routing, topology, id, draining, restarts>>
      BY <2>7 DEF GatewayBeats
    <3>2. CASE id[g] \in DOMAIN gateways
      <4> DEFINE i == id[g]
      <4>1. gateways' = [gateways EXCEPT ![i] = [gateways[i] EXCEPT !.age = 0]] /\ again' = again
        BY <2>7, <3>2 DEF GatewayBeats
      <4>2. [gateways[i] EXCEPT !.age = 0] \in GatewayEntry
        BY <2>0, <3>2 DEF IsPartial, GatewayEntry, Expired
      <4>3. IsPartial(gateways', Ids, GatewayEntry)
        BY <2>0, <4>1, <4>2 DEF IsPartial
      <4> QED BY <2>0, <3>1, <4>1, <4>3
           DEF RoutingInv, TypeOK, GatewayEntry, DrainIsGraded, AgainHasId, UnfitIsToldAtOnce
    <3>3. CASE id[g] \notin DOMAIN gateways
      <4>1. again' = again \cup {g} /\ gateways' = gateways /\ id[g] # None
        BY <2>7, <3>3 DEF GatewayBeats
      <4> QED BY <2>0, <3>1, <4>1
           DEF RoutingInv, TypeOK, Nodes, DrainIsGraded, AgainHasId, UnfitIsToldAtOnce
    <3> QED BY <3>2, <3>3
  <2>8. ASSUME NEW w \in Workers, NEW crossed \in BOOLEAN, ReportWorker(w, crossed)
        PROVE  RoutingInv'
    <3> DEFINE i == id[w]
               mark == w \in draining
               v == Report(workers[i], mark)
    <3>1. /\ i \in DOMAIN workers
          /\ workers' = [workers EXCEPT ![i] = v]
          /\ UNCHANGED <<gateways, nextWorker, nextGateway, id, again, draining, restarts>>
      BY <2>8 DEF ReportWorker
    <3>2. workers[i] \in WorkerEntry
      BY <2>0, <3>1 DEF IsPartial
    <3>a. mark \in BOOLEAN /\ (mark <=> w \in draining)
      OBVIOUS
    <3>b. \/ routing' = RoutingOf(workers') /\ topology' = topology
          \/ workers[i].draining = mark /\ UNCHANGED <<routing, topology>>
      BY <2>8 DEF ReportWorker, PublishRouting
    <3> HIDE DEF mark
    <3>3. /\ v \in WorkerEntry
          /\ v.addr = workers[i].addr
          /\ v.draining => v.health # "healthy"
          /\ workers[i].health = "healthy" /\ ~mark => v.health = "healthy"
      BY <3>2, <3>a, ReportFacts
    <3>4. /\ DOMAIN workers' = DOMAIN workers /\ workers'[i] = v
          /\ \A j \in DOMAIN workers \ {i} : workers'[j] = workers[j]
      BY <3>1
    <3> HIDE DEF v
    <3>6. IsPartial(workers', Ids, WorkerEntry)
      BY <2>0, <3>3, <3>4 DEF IsPartial
    <3>7. DrainIsGraded'
      BY <2>0, <3>1, <3>3, <3>4 DEF DrainIsGraded
    <3>8. UnfitIsToldAtOnce' /\ IsPartial(routing', Ids, [addr : Workers, health : Health])
      <4>1. CASE routing' = RoutingOf(workers')
        <5>1. UnfitIsToldAtOnce'
          BY <4>1, PublishedAgrees DEF UnfitIsToldAtOnce
        <5> QED BY <2>0, <3>6, <4>1, <5>1, ViewsTyped
      <4>2. CASE workers[i].draining = mark /\ UNCHANGED routing
        <5>1. workers[i].health = "healthy" => v.health = "healthy"
          BY <2>0, <3>1, <3>3, <4>2 DEF DrainIsGraded
        <5>2. UnfitIsToldAtOnce'
          BY <2>5, <3>3, <3>4, <3>6, <4>2, <5>1
        <5> QED BY <2>0, <4>2, <5>2 DEF TypeOK
      <4> QED BY <3>b, <4>1, <4>2
    <3>9. TypeOK' /\ AgainHasId'
      BY <2>0, <3>1, <3>b, <3>6, <3>8 DEF TypeOK, WorkerEntry, AgainHasId
    <3> QED BY <3>7, <3>8, <3>9 DEF RoutingInv
  <2>9. ASSUME NEW w \in Workers, WorkerDrains(w) PROVE RoutingInv'
    BY <2>0, <2>9
       DEF WorkerDrains, RoutingInv, TypeOK, DrainIsGraded, AgainHasId, UnfitIsToldAtOnce
  <2>10. ASSUME NEW n \in Nodes, Crash(n) PROVE RoutingInv'
    <3>1. /\ id' = [id EXCEPT ![n] = None] /\ again' = again \ {n} /\ draining' = draining \ {n}
          /\ UNCHANGED <<workers, gateways, nextWorker, nextGateway, routing, topology, restarts>>
      BY <2>10 DEF Crash
    <3>2. TypeOK' /\ AgainHasId'
      BY <2>0, <3>1 DEF TypeOK, AgainHasId
    <3> QED BY <2>0, <3>1, <3>2 DEF RoutingInv, DrainIsGraded, UnfitIsToldAtOnce
  <2>11. CASE Tick
    <3> DEFINE ws == Unexpired(workers)
               gs == Unexpired(gateways)
               graded == [i \in DOMAIN ws |-> Grade(ws[i])]
    <3>1. /\ workers' = graded /\ gateways' = gs
          /\ UNCHANGED <<nextWorker, nextGateway, id, again, draining, restarts>>
          /\ \/ routing' = RoutingOf(workers') /\ topology' = TopologyOf(workers', gateways')
             \/ routing' = RoutingOf(workers') /\ topology' = topology
             \/ /\ workers' = workers /\ routing' = routing
                /\ topology' = TopologyOf(workers', gateways') \/ topology' = topology
      BY <2>11 DEF Tick, ReplanAndPublish, PublishRouting, PublishWorkerView
    <3>2. IsPartial(ws, Ids, WorkerEntry) /\ IsPartial(gs, Ids, GatewayEntry)
      BY <2>0 DEF Unexpired, Restrict, IsPartial
    <3> HIDE DEF ws, gs
    <3>3. /\ IsPartial(graded, Ids, WorkerEntry)
          /\ \A i \in DOMAIN graded : graded[i].draining => graded[i].health # "healthy"
      BY <3>2, GradeFacts DEF IsPartial
    <3> HIDE DEF graded
    <3>4. DrainIsGraded'
      BY <3>1, <3>3 DEF DrainIsGraded
    <3>5. UnfitIsToldAtOnce'
      <4>1. CASE routing' = RoutingOf(workers')
        BY <4>1, PublishedAgrees DEF UnfitIsToldAtOnce
      <4>2. CASE workers' = workers /\ routing' = routing
        BY <2>0, <4>2 DEF UnfitIsToldAtOnce
      <4> QED BY <3>1, <4>1, <4>2
    <3>6. /\ IsPartial(routing', Ids, [addr : Workers, health : Health])
          /\ IsPartial(topology'.peers, Ids, Workers)
          /\ IsPartial(topology'.gateways, Ids, Gateways)
      <4>1. /\ IsPartial(RoutingOf(workers'), Ids, [addr : Workers, health : Health])
            /\ IsPartial(TopologyOf(workers', gateways').peers, Ids, Workers)
            /\ IsPartial(TopologyOf(workers', gateways').gateways, Ids, Gateways)
        BY <3>1, <3>2, <3>3, ViewsTyped
      <4> QED BY <2>0, <3>1, <4>1 DEF TypeOK
    <3>7. TypeOK' /\ AgainHasId'
      BY <2>0, <3>1, <3>2, <3>3, <3>6 DEF TypeOK, WorkerEntry, GatewayEntry, AgainHasId
    <3> QED BY <3>4, <3>5, <3>7 DEF RoutingInv
  <2>12. CASE Lapse
    <3>1. /\ workers' = [i \in DOMAIN workers |->
                         [workers[i] EXCEPT !.age = Min({workers[i].age + 1, Expired})]]
          /\ gateways' = [i \in DOMAIN gateways |->
                          [gateways[i] EXCEPT !.age = Min({gateways[i].age + 1, Expired})]]
          /\ UNCHANGED <<nextWorker, nextGateway, routing, topology, id, again, draining, restarts>>
      BY <2>12 DEF Lapse
    <3>2. ASSUME NEW a \in 0..Expired PROVE Min({a + 1, Expired}) \in 0..Expired
      BY <3>2, MaxMinOfTwo DEF Expired
    <3>3. ASSUME NEW i \in DOMAIN workers
          PROVE  /\ workers'[i] \in WorkerEntry
                 /\ workers'[i].addr = workers[i].addr
                 /\ workers'[i].health = workers[i].health
                 /\ workers'[i].draining = workers[i].draining
      <4>1. workers[i] \in WorkerEntry
        BY <2>0 DEF IsPartial
      <4>2. workers'[i] = [workers[i] EXCEPT !.age = Min({workers[i].age + 1, Expired})]
        BY <3>1
      <4>3. Min({workers[i].age + 1, Expired}) \in 0..Expired
        BY <3>2, <4>1 DEF WorkerEntry
      <4> QED BY <4>1, <4>2, <4>3 DEF WorkerEntry
    <3>4. ASSUME NEW i \in DOMAIN gateways PROVE gateways'[i] \in GatewayEntry
      <4>1. gateways[i] \in GatewayEntry
        BY <2>0 DEF IsPartial
      <4>2. gateways'[i] = [gateways[i] EXCEPT !.age = Min({gateways[i].age + 1, Expired})]
        BY <3>1
      <4>3. Min({gateways[i].age + 1, Expired}) \in 0..Expired
        BY <3>2, <4>1 DEF GatewayEntry
      <4> QED BY <4>1, <4>2, <4>3 DEF GatewayEntry
    <3>5. DOMAIN workers' = DOMAIN workers /\ DOMAIN gateways' = DOMAIN gateways
      BY <3>1
    <3>6. IsPartial(workers', Ids, WorkerEntry) /\ IsPartial(gateways', Ids, GatewayEntry)
      BY <2>0, <3>3, <3>4, <3>5 DEF IsPartial
    <3>7. UnfitIsToldAtOnce'
      BY <2>5, <3>1, <3>3, <3>5, <3>6
    <3>8. DrainIsGraded'
      BY <2>0, <3>3, <3>5 DEF DrainIsGraded
    <3>9. TypeOK' /\ AgainHasId'
      BY <2>0, <3>1, <3>6 DEF TypeOK, WorkerEntry, GatewayEntry, AgainHasId
    <3> QED BY <3>7, <3>8, <3>9 DEF RoutingInv
  <2>13. CASE ControllerRestarts
    BY <2>0, <2>13
       DEF ControllerRestarts, RoutingInv, TypeOK, IsPartial, Empty, Ids, DrainIsGraded, AgainHasId,
           UnfitIsToldAtOnce
  <2>14. CASE UNCHANGED vars
    BY <2>0, <2>14 DEF vars, RoutingInv, TypeOK, DrainIsGraded, AgainHasId, UnfitIsToldAtOnce
  <2> QED
    BY <1>2, <2>1, <2>2, <2>3, <2>4, <2>6, <2>7, <2>8, <2>9, <2>10, <2>11, <2>12, <2>13, <2>14
       DEF Next, WorkerStep, GatewayStep, Nodes
<1> QED BY <1>1, <1>2

(* The registry, the ids and both views keep their types.                  *)
THEOREM TypeCorrect == Spec => []TypeOK
BY RoutingInvInductive, PTL DEF Spec, RoutingInv

(* The routing table names exactly the registered workers, at their        *)
(* addresses, and none as healthy that the registry does not grade so:     *)
(* whatever publishes or does not, in every order of beats, reports,       *)
(* ticks, crashes and restarts (actor.rs).                                 *)
THEOREM TableFollowsRegistry == Spec => []UnfitIsToldAtOnce
BY RoutingInvInductive, PTL DEF Spec, RoutingInv
-----------------------------------------------------------------------------
(* As long as the controller has not restarted, what a step changes of the *)
(* workers' ids is a fresh one or none.                                    *)
LEMMA IdsKept ==
  ASSUME TypeOK, IdInv, UNCHANGED restarts, nextWorker' \in Nat, nextWorker' >= nextWorker,
         \A w \in Workers : id'[w] = id[w] \/ id'[w] = None,
         \A i \in DOMAIN workers' : /\ i \in DOMAIN workers
                                    /\ workers'[i].addr = workers[i].addr
  PROVE  IdInv'
<1> USE IdsAssumption DEF IdInv
<1>1. CASE restarts # 0
  BY <1>1
<1>2. CASE restarts = 0
  <2>0. /\ nextWorker \in Nat /\ \A w \in Workers : id[w] \in Nat \/ id[w] = None
        /\ \A i \in DOMAIN workers : i \in Nat
    BY DEF TypeOK, Nodes, Ids, IsPartial
  <2>1. IdsBelowNext'
    BY <1>2, <2>0 DEF IdsBelowNext
  <2>2. OwnEntry' /\ OneWorkerPerId'
    BY <1>2 DEF OwnEntry, OneWorkerPerId
  <2> QED BY <2>1, <2>2
<1> QED BY <1>1, <1>2

(* A registration before any restart: a newcomer gets an id no one has,    *)
(* and a worker that comes back gets its own.                              *)
LEMMA RegisteredIds ==
  ASSUME TypeOK, IdInv, restarts = 0, NEW w \in Workers, NEW got \in Ids,
         RegisterWorker(w, id[w], got)
  PROVE  /\ id[w] = None => got = nextWorker /\ nextWorker' = nextWorker + 1
         /\ id[w] # None => got = id[w] /\ nextWorker' = nextWorker
         /\ nextWorker \in Nat
         /\ DOMAIN workers' = DOMAIN workers \cup {got}
         /\ workers'[got].addr = w
         /\ \A j \in DOMAIN workers \ {got} : workers'[j] = workers[j]
<1> USE IdsAssumption DEF Ids
<1>1. /\ nextWorker \in Nat /\ id[w] \in Ids \cup {None}
      /\ IdsBelowNext /\ OwnEntry
  BY DEF TypeOK, Nodes, IdInv
<1>2. /\ DOMAIN workers' = DOMAIN workers \cup {got}
      /\ workers'[got].addr = w
      /\ \A j \in DOMAIN workers \ {got} : workers'[j] = workers[j]
  BY DEF RegisterWorker, Put
<1>3. CASE id[w] = None
  BY <1>1, <1>2, <1>3 DEF RegisterWorker, Granted, NextAfter, KeepsPrior
<1>4. CASE id[w] # None
  <2>1. id[w] \in Nat /\ id[w] < nextWorker /\ KeepsPrior(workers, id[w], w)
    BY <1>1, <1>4 DEF IdsBelowNext, OwnEntry, KeepsPrior
  <2>2. Max({nextWorker, id[w] + 1}) = nextWorker
    BY <1>1, <2>1, MaxMinOfTwo
  <2> QED BY <1>1, <1>2, <1>4, <2>1, <2>2 DEF RegisterWorker, Granted, NextAfter
<1> QED BY <1>3, <1>4

(* Until the controller restarts, every step keeps the ids apart.          *)
THEOREM IdInvInductive ==
  /\ Init => IdInv
  /\ RoutingInv /\ IdInv /\ [Next]_vars => IdInv'
<1> USE IdsAssumption, NodesAssumption DEF registry, views, nodes
<1>1. Init => IdInv
  BY DEF Init, IdInv, IdsBelowNext, OwnEntry, OneWorkerPerId, Empty, Nodes
<1>2. ASSUME RoutingInv, IdInv, [Next]_vars PROVE IdInv'
  <2>0. /\ TypeOK /\ AgainHasId /\ nextWorker \in Nat
        /\ IsPartial(workers, Ids, WorkerEntry)
        /\ \A w \in Workers : id[w] \in Ids \cup {None}
    BY <1>2 DEF RoutingInv, TypeOK, Nodes, WorkerEntry, Ids
  <2>1. ASSUME UNCHANGED <<workers, nextWorker, restarts>>,
               \A w \in Workers : id'[w] = id[w] \/ id'[w] = None
        PROVE  IdInv'
    BY <1>2, <2>0, <2>1, IdsKept
  <2>2. ASSUME NEW w \in Workers, WorkerStarts(w) PROVE IdInv'
    <3> SUFFICES ASSUME restarts' = 0 PROVE (IdsBelowNext /\ OwnEntry /\ OneWorkerPerId)'
      BY DEF IdInv
    <3>1. PICK got \in Ids : /\ RegisterWorker(w, None, got)
                             /\ id' = [id EXCEPT ![w] = got]
      BY <2>2 DEF WorkerStarts
    <3>2. id[w] = None /\ restarts = 0
      BY <2>2 DEF WorkerStarts
    <3>3. /\ got = nextWorker /\ nextWorker' = nextWorker + 1
          /\ DOMAIN workers' = DOMAIN workers \cup {got}
          /\ workers'[got].addr = w
          /\ \A j \in DOMAIN workers \ {got} : workers'[j] = workers[j]
      BY <1>2, <2>0, <3>1, <3>2, RegisteredIds, ZenonT(40)
    <3>4. id'[w] = got /\ \A v \in Workers \ {w} : id'[v] = id[v]
      BY <2>0, <3>1 DEF TypeOK, Nodes
    <3>5. /\ \A i \in DOMAIN workers : i < nextWorker /\ i \in Nat
          /\ \A v \in Workers : id[v] # None => id[v] < nextWorker /\ id[v] \in Nat
          /\ OwnEntry /\ OneWorkerPerId
      BY <1>2, <2>0, <3>2 DEF IdInv, IdsBelowNext, IsPartial, Ids
    <3>6. IdsBelowNext'
      BY <2>0, <3>3, <3>4, <3>5 DEF IdsBelowNext
    <3>7. OwnEntry'
      BY <2>0, <3>3, <3>4, <3>5 DEF OwnEntry
    <3>8. OneWorkerPerId'
      BY <2>0, <3>3, <3>4, <3>5 DEF OneWorkerPerId
    <3> QED BY <3>6, <3>7, <3>8
  <2>3. ASSUME NEW w \in Workers, NEW answered \in BOOLEAN, WorkerRegistersAgain(w, answered)
        PROVE  IdInv'
    <3> SUFFICES ASSUME restarts' = 0 PROVE (IdsBelowNext /\ OwnEntry /\ OneWorkerPerId)'
      BY DEF IdInv
    <3>1. PICK got \in Ids :
            /\ RegisterWorker(w, id[w], got)
            /\ IF answered /\ got # id[w]
               THEN id' = [id EXCEPT ![w] = None] /\ draining' = draining \ {w}
               ELSE UNCHANGED <<id, draining>>
      BY <2>3 DEF WorkerRegistersAgain
    <3>2. id[w] # None /\ restarts = 0
      BY <2>0, <2>3 DEF WorkerRegistersAgain, AgainHasId
    <3>3. /\ got = id[w] /\ nextWorker' = nextWorker
          /\ DOMAIN workers' = DOMAIN workers \cup {got}
          /\ workers'[got].addr = w
          /\ \A j \in DOMAIN workers \ {got} : workers'[j] = workers[j]
      BY <1>2, <2>0, <3>1, <3>2, RegisteredIds
    <3>4. id' = id
      BY <3>1, <3>3
    <3>5. IdsBelowNext /\ OwnEntry /\ OneWorkerPerId
      BY <1>2, <3>2 DEF IdInv
    <3> QED BY <3>2, <3>3, <3>4, <3>5 DEF IdsBelowNext, OwnEntry, OneWorkerPerId
  <2>4. ASSUME NEW w \in Workers, WorkerBeats(w) PROVE IdInv'
    <3>1. UNCHANGED <<nextWorker, id, restarts>>
      BY <2>4 DEF WorkerBeats
    <3>2. CASE id[w] \in DOMAIN workers
      <4> DEFINE i == id[w]
      <4>1. workers' = [workers EXCEPT ![i] = TouchWorker(workers[i])]
        BY <2>4, <3>2 DEF WorkerBeats
      <4>2. TouchWorker(workers[i]).addr = workers[i].addr
        BY <2>0, <3>2, TouchFacts DEF IsPartial
      <4> QED BY <1>2, <2>0, <3>1, <3>2, <4>1, <4>2, IdsKept
    <3>3. CASE id[w] \notin DOMAIN workers
      BY <2>1, <2>4, <3>1, <3>3 DEF WorkerBeats
    <3> QED BY <3>2, <3>3
  <2>5. ASSUME NEW w \in Workers, NEW crossed \in BOOLEAN, ReportWorker(w, crossed) PROVE IdInv'
    <3> DEFINE i == id[w]
               mark == w \in draining
    <3>1. /\ UNCHANGED <<nextWorker, id, restarts>> /\ i \in DOMAIN workers
          /\ workers' = [workers EXCEPT ![i] = Report(workers[i], mark)]
      BY <2>5 DEF ReportWorker
    <3>2. mark \in BOOLEAN
      OBVIOUS
    <3> HIDE DEF mark
    <3>3. Report(workers[i], mark).addr = workers[i].addr
      BY <2>0, <3>1, <3>2, ReportFacts DEF IsPartial
    <3> QED BY <1>2, <2>0, <3>1, <3>3, IdsKept
  <2>6. CASE Tick
    <3>1. UNCHANGED <<nextWorker, id, restarts>>
      BY <2>6 DEF Tick
    <3>2. ASSUME NEW i \in DOMAIN workers'
          PROVE  i \in DOMAIN workers /\ workers'[i].addr = workers[i].addr
      <4>1. i \in DOMAIN workers /\ workers'[i] = Grade(workers[i])
        BY <2>6 DEF Tick, Unexpired, Restrict
      <4>2. workers[i] \in WorkerEntry
        BY <2>0, <4>1 DEF IsPartial
      <4>3. Grade(workers[i]).addr = workers[i].addr
        BY <4>2 DEF Grade, WorkerEntry
      <4> QED BY <4>1, <4>3
    <3> QED BY <1>2, <2>0, <3>1, <3>2, IdsKept
  <2>7. CASE Lapse
    <3>1. UNCHANGED <<nextWorker, id, restarts>>
      BY <2>7 DEF Lapse
    <3>2. ASSUME NEW i \in DOMAIN workers'
          PROVE  i \in DOMAIN workers /\ workers'[i].addr = workers[i].addr
      <4>1. /\ i \in DOMAIN workers
            /\ workers'[i] = [workers[i] EXCEPT !.age = Min({workers[i].age + 1, Expired})]
        BY <2>7 DEF Lapse
      <4>2. workers[i] \in WorkerEntry
        BY <2>0, <4>1 DEF IsPartial
      <4> QED BY <4>1, <4>2 DEF WorkerEntry
    <3> QED BY <1>2, <2>0, <3>1, <3>2, IdsKept
  <2>8. ASSUME NEW g \in Gateways, GatewayStarts(g) PROVE IdInv'
    BY <2>0, <2>1, <2>8 DEF GatewayStarts, RegisterGateway, TypeOK, Nodes
  <2>9. ASSUME NEW g \in Gateways, NEW answered \in BOOLEAN, GatewayRegistersAgain(g, answered)
        PROVE  IdInv'
    BY <2>0, <2>1, <2>9 DEF GatewayRegistersAgain, RegisterGateway, TypeOK, Nodes
  <2>10. ASSUME NEW n \in Nodes, Crash(n) PROVE IdInv'
    BY <2>0, <2>1, <2>10 DEF Crash, TypeOK, Nodes
  <2>11. CASE (\E g \in Gateways : GatewayBeats(g)) \/ (\E w \in Workers : WorkerDrains(w))
              \/ UNCHANGED vars
    BY <2>1, <2>11 DEF GatewayBeats, WorkerDrains, vars
  <2>12. CASE ControllerRestarts
    <3>1. restarts' # 0
      BY <2>0, <2>12 DEF ControllerRestarts, TypeOK
    <3> QED BY <3>1 DEF IdInv
  <2> QED
    BY <1>2, <2>2, <2>3, <2>4, <2>5, <2>6, <2>7, <2>8, <2>9, <2>10, <2>11, <2>12
       DEF Next, WorkerStep, GatewayStep, Nodes
<1> QED BY <1>1, <1>2

(* As long as one controller counts the ids, no two live workers go by the *)
(* same one, however they time out, crash and register again. (A           *)
(* controller that restarts counts from zero and may hand out an id a      *)
(* worker still goes by.)                                                  *)
THEOREM IdsStayApart == Spec => []OneWorkerPerIdTillRestart
<1>1. IdInv => OneWorkerPerIdTillRestart
  BY DEF IdInv, OneWorkerPerIdTillRestart
<1> QED BY <1>1, RoutingInvInductive, IdInvInductive, PTL DEF Spec

(* Under one controller an acknowledged beat means the entry is the        *)
(* worker's own.                                                           *)
THEOREM AcksAreTrue == Spec /\ [](restarts = 0) => AckMeansRegistered
<1>1. ASSUME IdInv, restarts = 0
      PROVE  [\A w \in Workers : WorkerBeats(w) /\ w \notin again' => workers[id[w]].addr = w]_vars
  BY <1>1 DEF IdInv, OwnEntry, WorkerBeats, vars
<1>2. IdInv /\ restarts = 0
        => [\A w \in Workers : WorkerBeats(w) /\ w \notin again' => workers[id[w]].addr = w]_vars
  BY <1>1
<1> QED BY <1>2, RoutingInvInductive, IdInvInductive, PTL DEF Spec, AckMeansRegistered

-----------------------------------------------------------------------------
(* The link of the other programs to the controller: ControllerLink, over   *)
(* variables of its own, for every bound. A link that was found dead stays  *)
(* dead, because a controller that restarts is another incarnation, so the  *)
(* check heal makes under the dialing lock is enough.                       *)

(* Connections are made to this run of the controller or an earlier one,   *)
(* and each task's client is one of them.                                  *)
LinksKnown ==
    /\ \A d \in 1..Client : conns[d].inc <= inc
    /\ \A t \in Tasks : seen[t] <= Client
    /\ ~up => inc < MaxIncarnations

(* A task that heals saw the connection it came from die.                  *)
FailedIsDead == \A t \in Tasks : pc[t] \in {"failed", "locked"} => ~Alive(seen[t])

(* A dial is left for the restarts to come, and for a dead client.         *)
DialsLeft ==
    /\ Client + (MaxIncarnations - inc) <= MaxDials
    /\ conns[Client].dropped \/ conns[Client].inc < inc
         => Client + (MaxIncarnations - inc) < MaxDials

(* A connection, as TypeOK has it. *)
Conn == [inc : 1..MaxIncarnations, dropped : BOOLEAN]

LinkInv == LinkTypeOK /\ LinksKnown /\ FailedIsDead /\ DialsLeft

(* Init and every step keep the invariant. *)
THEOREM LinkInvInductive ==
  /\ LinkInit => LinkInv
  /\ LinkInv /\ [LinkNext]_linkVars => LinkInv'
<1> USE BoundsAssumption DEF controller
<1>1. LinkInit => LinkInv
  <2> HAVE LinkInit
  <2>1. /\ conns \in Seq(Conn) /\ Len(conns) = 1 /\ conns[1].inc = 1 /\ ~conns[1].dropped
        /\ \A d \in 1..Len(conns) : d = 1
    BY DEF LinkInit, Conn
  <2>2. up \in BOOLEAN
    BY DEF LinkInit
  <2>3. LinkTypeOK
    BY <2>1, <2>2 DEF LinkInit, LinkTypeOK, Client, Conn
  <2>4. LinksKnown /\ FailedIsDead /\ DialsLeft
    BY <2>1 DEF LinkInit, LinksKnown, FailedIsDead, DialsLeft, Client
  <2> QED BY <2>3, <2>4 DEF LinkInv
<1>2. ASSUME LinkInv, [LinkNext]_linkVars PROVE LinkInv'
  <2>0. LinkTypeOK /\ LinksKnown /\ FailedIsDead /\ DialsLeft
    BY <1>2 DEF LinkInv
  <2>a. /\ Len(conns) \in Nat /\ Len(conns) \in 1..MaxDials
        /\ conns \in Seq(Conn)
        /\ inc \in Nat /\ inc \in 1..MaxIncarnations
        /\ \A t \in Tasks : seen[t] \in 1..Len(conns)
    BY <2>0 DEF LinkTypeOK, Conn, Client, LinksKnown
  <2>b. \A d \in 1..Len(conns) :
          /\ conns[d] \in Conn
          /\ conns[d].inc \in Nat /\ conns[d].inc \in 1..MaxIncarnations /\ conns[d].inc <= inc
          /\ conns[d].dropped \in BOOLEAN
    <3>1. ASSUME NEW d \in 1..Len(conns) PROVE conns[d] \in Conn
      BY <2>a, <3>1, ElementOfSeq
    <3> QED BY <2>0, <2>a, <3>1 DEF Conn, LinksKnown, Client
  <2>c. ASSUME UNCHANGED <<up, inc, conns, seen>>,
               \A t \in Tasks : pc'[t] \in {"failed", "locked"}
                                  => pc[t] \in {"failed", "locked"} \/ ~Alive(seen[t])
        PROVE  LinksKnown' /\ FailedIsDead' /\ DialsLeft'
    BY <2>0, <2>c DEF LinksKnown, FailedIsDead, DialsLeft, Client, Alive
  <2>1. CASE Publish
    <3>a. epoch' \in 0..MaxEpoch /\ UNCHANGED <<up, inc, conns, dialing, pc, seen, since, view>>
      BY <2>0, <2>1 DEF Publish, LinkTypeOK
    <3>1. LinkTypeOK'
      BY <2>0, <3>a DEF LinkTypeOK, Client
    <3> QED BY <2>c, <3>a, <3>1 DEF LinkInv
  <2>2. CASE Stop
    <3>1. ~up' /\ up' \in BOOLEAN
      BY <2>2 DEF Stop
    <3>2. LinkTypeOK'
      BY <2>0, <2>2, <3>1 DEF Stop, LinkTypeOK, Client
    <3>3. LinksKnown' /\ FailedIsDead' /\ DialsLeft'
      BY <2>0, <2>2, <3>1 DEF Stop, LinksKnown, FailedIsDead, DialsLeft, Client, Alive
    <3> QED BY <3>2, <3>3 DEF LinkInv
  <2>3. CASE Restart
    <3>1. /\ up' /\ up' \in BOOLEAN /\ inc' = inc + 1 /\ epoch' = 0
          /\ inc < MaxIncarnations /\ inc \in Nat
          /\ UNCHANGED <<conns, dialing, pc, seen, since, view>>
      BY <2>0, <2>3 DEF Restart, LinksKnown, LinkTypeOK
    <3>2. LinkTypeOK'
      BY <2>0, <3>1, SMTT(20) DEF LinkTypeOK, Client
    <3>3. \A d \in 1..Client : conns[d].inc \in Nat /\ conns[d].inc < inc'
      BY <2>a, <2>b, <3>1 DEF Client
    <3>4. LinksKnown'
      BY <2>0, <3>1, <3>3, SMTT(20) DEF LinksKnown, Client, LinkTypeOK
    <3>5. FailedIsDead'
      BY <2>0, <3>1, <3>3 DEF LinkTypeOK, LinksKnown, FailedIsDead, Client, Alive
    <3>6. DialsLeft'
      BY <2>0, <3>1, SMTT(20) DEF LinkTypeOK, DialsLeft, Client
    <3> QED BY <3>2, <3>4, <3>5, <3>6 DEF LinkInv
  <2>4. CASE LinkDrops
    <3> DEFINE c == Client
    <3>1. /\ conns' = [conns EXCEPT ![c] = [conns[c] EXCEPT !.dropped = TRUE]]
          /\ c + (MaxIncarnations - inc) < MaxDials
          /\ c \in 1..Len(conns)
          /\ UNCHANGED <<up, inc, epoch, dialing, pc, seen, since, view>>
      BY <2>0, <2>4 DEF LinkDrops, LinkTypeOK, Client
    <3>2. /\ [conns[c] EXCEPT !.dropped = TRUE] \in Conn
          /\ [conns[c] EXCEPT !.dropped = TRUE].inc = conns[c].inc
          /\ [conns[c] EXCEPT !.dropped = TRUE].dropped
      BY <2>b, <3>1 DEF Conn
    <3>3. /\ conns' \in Seq(Conn)
          /\ Len(conns') = Len(conns)
          /\ \A d \in 1..Len(conns) : /\ conns'[d].inc = conns[d].inc
                                      /\ conns[d].dropped => conns'[d].dropped
      BY <2>a, <3>1, <3>2, ExceptSeq
    <3>4. LinkTypeOK'
      BY <2>0, <3>1, <3>3 DEF LinkTypeOK, Client, Conn
    <3>5. LinksKnown' /\ DialsLeft'
      BY <2>0, <3>1, <3>3 DEF LinkTypeOK, LinksKnown, DialsLeft, Client
    <3>6. FailedIsDead'
      BY <2>0, <3>1, <3>3 DEF LinkTypeOK, LinksKnown, FailedIsDead, Client, Alive
    <3> QED BY <3>4, <3>5, <3>6 DEF LinkInv
  <2>5. CASE BeatAnswered
    <3>1. LinkTypeOK'
      BY <2>0, <2>5 DEF BeatAnswered, LinkTypeOK, Client, Tasks
    <3>2. LinksKnown' /\ FailedIsDead' /\ DialsLeft'
      BY <2>0, <2>c, <2>5 DEF BeatAnswered, LinkTypeOK, Tasks
    <3> QED BY <3>1, <3>2 DEF LinkInv
  <2>6. CASE SendOn
    <3>1. LinkTypeOK'
      BY <2>0, <2>6 DEF SendOn, LinkTypeOK, Client, Tasks
    <3>2. LinksKnown' /\ FailedIsDead' /\ DialsLeft'
      BY <2>0, <2>c, <2>6 DEF SendOn, LinkTypeOK, Tasks
    <3> QED BY <3>1, <3>2 DEF LinkInv
  <2>7. ASSUME NEW t \in Tasks, Calls(t) PROVE LinkInv'
    <3>1. LinkTypeOK'
      BY <2>0, <2>7 DEF Calls, LinkTypeOK, Client
    <3>2. LinksKnown' /\ DialsLeft'
      BY <2>0, <2>a, <2>7 DEF Calls, LinksKnown, DialsLeft, Client, LinkTypeOK
    <3>3. FailedIsDead'
      BY <2>0, <2>7 DEF Calls, FailedIsDead, LinkTypeOK, Alive
    <3> QED BY <3>1, <3>2, <3>3 DEF LinkInv
  <2>8. ASSUME NEW t \in Tasks, Fails(t) PROVE LinkInv'
    <3>1. LinkTypeOK'
      BY <2>0, <2>8 DEF Fails, LinkTypeOK, Client
    <3>2. LinksKnown' /\ FailedIsDead' /\ DialsLeft'
      BY <2>0, <2>c, <2>8 DEF Fails, LinkTypeOK
    <3> QED BY <3>1, <3>2 DEF LinkInv
  <2>9. ASSUME NEW t \in Tasks, Errs(t) PROVE LinkInv'
    <3>1. LinkTypeOK'
      BY <2>0, <2>9 DEF Errs, LinkTypeOK, Client
    <3>2. LinksKnown' /\ FailedIsDead' /\ DialsLeft'
      BY <2>0, <2>c, <2>9 DEF Errs, LinkTypeOK
    <3> QED BY <3>1, <3>2 DEF LinkInv
  <2>10. ASSUME NEW t \in Tasks, HealLocks(t) PROVE LinkInv'
    <3>1. LinkTypeOK'
      BY <2>0, <2>10 DEF HealLocks, LinkTypeOK, Client
    <3>2. LinksKnown' /\ FailedIsDead' /\ DialsLeft'
      BY <2>0, <2>c, <2>10 DEF HealLocks, LinkTypeOK
    <3> QED BY <3>1, <3>2 DEF LinkInv
  <2>11. ASSUME NEW t \in Tasks, HealDials(t) PROVE LinkInv'
    <3>1. /\ pc[t] = "locked" /\ dialing' = {} /\ dialing = {t}
          /\ pc' = [pc EXCEPT ![t] = "after"]
          /\ UNCHANGED <<up, inc, epoch, seen, since, view>>
      BY <2>0, <2>11 DEF HealDials, LinkTypeOK
    <3>2. CASE ~(Client = seen[t] /\ up)
      <4>1. conns' = conns
        BY <2>11, <3>2 DEF HealDials, Dialed
      <4>2. LinkTypeOK'
        BY <2>0, <3>1, <4>1 DEF LinkTypeOK, Client
      <4> QED BY <2>0, <2>c, <3>1, <4>1, <4>2 DEF LinkInv, LinkTypeOK
    <3>3. CASE Client = seen[t] /\ up
      <4> DEFINE c == [inc |-> inc, dropped |-> FALSE]
      <4>1. /\ conns' = Append(conns, c) /\ c.inc = inc /\ ~c.dropped
            /\ c \in Conn
        BY <2>a, <2>11, <3>3 DEF HealDials, Dialed, Conn
      <4>2. /\ conns' \in Seq(Conn)
            /\ Len(conns') = Len(conns) + 1
            /\ conns'[Len(conns) + 1] = c
            /\ \A d \in 1..Len(conns) : conns'[d] = conns[d]
        BY <2>a, <4>1, AppendProperties
      <4>3. Client + (MaxIncarnations - inc) < MaxDials
        <5>1. ~Alive(Client)
          BY <2>0, <3>1, <3>3 DEF FailedIsDead
        <5>2. conns[Client].dropped \/ conns[Client].inc < inc
          BY <2>a, <2>b, <3>3, <5>1 DEF Alive, Client
        <5> QED BY <2>0, <5>2 DEF DialsLeft
      <4>4. LinkTypeOK'
        <5>1. Client' \in 1..MaxDials
          BY <2>a, <4>2, <4>3 DEF Client
        <5>2. /\ dialing' \in {{}} \cup {{u} : u \in Tasks}
              /\ \A u \in Tasks : pc'[u] = "locked" <=> u \in dialing'
          BY <2>0, <3>1 DEF LinkTypeOK
        <5>3. pc' \in [Tasks -> {"idle", "calling", "failed", "locked", "after"}]
          BY <2>0, <3>1 DEF LinkTypeOK
        <5> QED BY <2>0, <3>1, <4>2, <5>1, <5>2, <5>3 DEF LinkTypeOK, Conn
      <4>5. LinksKnown' /\ DialsLeft'
        BY <2>0, <2>a, <2>b, <3>1, <4>1, <4>2, <4>3 DEF LinksKnown, DialsLeft, Client
      <4>6. FailedIsDead'
        <5> SUFFICES ASSUME NEW u \in Tasks, pc'[u] \in {"failed", "locked"} PROVE ~Alive(seen[u])'
          BY DEF FailedIsDead
        <5>1. pc[u] \in {"failed", "locked"}
          BY <2>0, <3>1 DEF LinkTypeOK
        <5>2. ~Alive(seen[u])
          BY <2>0, <5>1 DEF FailedIsDead
        <5> QED BY <2>a, <3>1, <4>2, <5>2 DEF Alive
      <4> QED BY <4>4, <4>5, <4>6 DEF LinkInv
    <3> QED BY <3>2, <3>3
  <2>12. ASSUME NEW t \in Tasks, After(t) PROVE LinkInv'
    <3>1. LinkTypeOK'
      BY <2>0, <2>12 DEF After, LinkTypeOK, Client
    <3>2. LinksKnown' /\ FailedIsDead' /\ DialsLeft'
      BY <2>0, <2>c, <2>12 DEF After, LinkTypeOK
    <3> QED BY <3>1, <3>2 DEF LinkInv
  <2>13. CASE UNCHANGED linkVars
    <3>1. LinkTypeOK'
      BY <2>0, <2>13 DEF linkVars, LinkTypeOK, Client
    <3> QED BY <2>c, <2>13, <3>1 DEF linkVars, LinkInv
  <2> QED
    BY <1>2, <2>1, <2>2, <2>3, <2>4, <2>5, <2>6, <2>7, <2>8, <2>9, <2>10, <2>11, <2>12, <2>13
       DEF LinkNext, PollAnswered, PollTimesOut
<1> QED BY <1>1, <1>2

(* Every variable keeps its type, and the dials stay within their bound.   *)
THEOREM LinkTypeCorrect == LinkSpec => []LinkTypeOK
BY LinkInvInductive, PTL DEF LinkSpec, LinkInv

(* A dial replaces only a client whose connection is gone, whichever of    *)
(* the two tasks finds it dead first and however often the controller      *)
(* restarts meanwhile (heal in gateway/src/controller.rs).                 *)
THEOREM HealReplacesDead == LinkSpec => OnlyDeadLinksAreReplaced
<1>1. LinkInv /\ [LinkNext]_linkVars => [Len(conns') > Len(conns) => ~Alive(Client)]_linkVars
  <2> SUFFICES ASSUME LinkInv, LinkNext, Len(conns') > Len(conns) PROVE ~Alive(Client)
    BY DEF linkVars
  <2>0. LinkTypeOK
    BY DEF LinkInv
  <2>1. Len(conns) \in Nat /\ ~(Len(conns) > Len(conns))
    BY <2>0 DEF LinkTypeOK
  <2>2. CASE LinkDrops
    BY <2>0, <2>1, <2>2, ExceptSeq DEF LinkDrops, LinkTypeOK, Client
  <2>3. ASSUME NEW t \in Tasks, HealDials(t) PROVE ~Alive(Client)
    BY <2>1, <2>3 DEF HealDials, Dialed, LinkInv, FailedIsDead
  <2>4. CASE UNCHANGED conns
    BY <2>1, <2>4
  <2> QED
    BY <2>2, <2>3, <2>4
       DEF LinkNext, Publish, Stop, Restart, BeatAnswered, PollAnswered, PollTimesOut, SendOn,
           Calls, Fails, Errs, HealLocks, After
<1> QED BY <1>1, LinkInvInductive, PTL DEF LinkSpec, OnlyDeadLinksAreReplaced
=============================================================================
