---------------------------- MODULE StackRoutesProofs ----------------------------
(***************************************************************************)
(* The routes of a stack, whatever the services, hosts, ports, forms and    *)
(* faults.  First: no host is dropped at any write, and no write dials a    *)
(* service the proxy cannot reach.  That needs no types: a route is a record *)
(* of hosts and a port, and a plan gives a host to one service.  Then, from  *)
(* the types: once the jobs are done the routes are the plan's.  Last, from  *)
(* what the forms queue: every planned service is reached.                   *)
(***************************************************************************)
EXTENDS StackRoutes, NaturalsInduction, WellFoundedInduction, SequenceTheorems, TLAPS

IsRoutes(r) == r = [s \in Service |-> [hosts |-> r[s].hosts, port |-> r[s].port]]
IsWorker(w) == w = [pc |-> w.pc, public |-> w.public, plan |-> w.plan, ports |-> w.ports, had |-> w.had,
                    todo |-> w.todo, pending |-> w.pending]
OneOwner(plan) == \A s, t \in Service : s # t => plan[s].hosts \cap plan[t].hosts = {}

\* A host has one winner, so two services are never planned the same one.
PlanBy(claimed, win, portOf) ==
  [s \in Service |-> [hosts |-> {h \in claimed : win[h].service = s /\ win[h].port = portOf[s]}, port |-> portOf[s]]]

LEMMA ByWinner ==
  ASSUME NEW claimed, NEW win, NEW portOf
  PROVE  OneOwner(PlanBy(claimed, win, portOf)) /\ IsRoutes(PlanBy(claimed, win, portOf))
<1> DEFINE plan == PlanBy(claimed, win, portOf)
<1>1. \A s \in Service : \A h \in plan[s].hosts : win[h].service = s
  BY DEF PlanBy
<1>2. OneOwner(plan)
  BY <1>1 DEF OneOwner
<1>3. \A s \in Service : plan[s] = [hosts |-> plan[s].hosts, port |-> plan[s].port]
  BY DEF PlanBy
<1>4. IsRoutes(plan)
  BY <1>3 DEF IsRoutes, PlanBy
<1> QED BY <1>2, <1>4

LEMMA PlanHasOneOwner ==
  ASSUME NEW theRows, NEW thePublic, NEW auto, NEW theDashboard
  PROVE  /\ OneOwner(RoutingPlan(theRows, thePublic, auto, theDashboard))
         /\ IsRoutes(RoutingPlan(theRows, thePublic, auto, theDashboard))
<1> DEFINE plan == RoutingPlan(theRows, thePublic, auto, theDashboard)
           claims == Claims(theRows, thePublic, auto)
           winner(h) == claims[First({i \in Made(claims) : claims[i].host = h})]
           claimed == {claims[i].host : i \in Made(claims)} \ {theDashboard}
           win == [h \in claimed |-> winner(h)]
           portOf == [s \in Service |-> PortIn(claims, thePublic, s)]
<1>1. plan = [s \in Service |->
        [hosts |-> {h \in claimed : winner(h).service = s
                                    /\ winner(h).port = PortIn(claims, thePublic, s)},
         port |-> PortIn(claims, thePublic, s)]]
  BY DEF RoutingPlan
<1>2. \A h \in claimed : win[h] = winner(h)
  OBVIOUS
<1>3. \A s \in Service : portOf[s] = PortIn(claims, thePublic, s)
  OBVIOUS
<1> DEFINE owned(s) == {h \in claimed : winner(h).service = s /\ winner(h).port = PortIn(claims, thePublic, s)}
           wins(s) == {h \in claimed : win[h].service = s /\ win[h].port = portOf[s]}
<1> HIDE DEF plan, claims, winner, claimed, win, portOf
<1>4. plan = PlanBy(claimed, win, portOf)
  <2>1. \A s \in Service : owned(s) = wins(s)
    BY <1>2, <1>3 DEF owned, wins
  <2>2. plan = [s \in Service |-> [hosts |-> owned(s), port |-> PortIn(claims, thePublic, s)]]
    BY <1>1 DEF owned
  <2>3. plan = [s \in Service |-> [hosts |-> wins(s), port |-> portOf[s]]]
    BY <1>3, <2>1, <2>2
  <2> QED BY <2>3 DEF wins, PlanBy
<1>5. OneOwner(plan) /\ IsRoutes(plan)
  BY <1>4, ByWinner
<1> QED BY <1>5 DEF plan

-----------------------------------------------------------------------------
(* What a step relies on.                                                    *)

Planning == worker.plan = [s \in Service |-> [hosts |-> worker.plan[s].hosts, port |-> worker.plan[s].port]]
Shape == IsRoutes(routes) /\ IsWorker(worker) /\ Planning /\ OneOwner(worker.plan)
IdleIsEmpty == At("idle") => worker = Idle

\* A host that is planned and routed is on its own service's route, once every
\* gaining route is written.
OwnRoute(t) == \A h \in Final[t] \cap Routed : h \in routes[t].hosts

\* First pass of a deploy: routes only grow, the written ones have their plan.
DeployGains ==
  At("gain") =>
    \A s \in Service :
      /\ worker.had[s] \subseteq routes[s].hosts
      /\ routes[s].hosts \subseteq worker.had[s] \cup Final[s]
      /\ s \in GainFirstHosts(worker.had, Final) \ worker.todo => Final[s] \subseteq routes[s].hosts
DeployWrites ==
  At("final") \/ At("drop") => \A t \in Service : OwnRoute(t)
DeployTodo ==
  /\ At("gain") => worker.todo \subseteq Service
  /\ At("final") => worker.todo \subseteq Planned(worker.plan)
  /\ At("drop") => worker.todo \subseteq Service \ Planned(worker.plan)

\* A sync writes only what it can; the hosts of what it cannot are pending, and
\* a route holds nothing but what it had and what it may have.
May(s) == worker.had[s] \cup (IF s \in Writable THEN Final[s] ELSE {})
Syncing == worker.pc \in {"syncGain", "syncFinal", "syncDrop"}
SyncHolds ==
  Syncing =>
    \A s \in Service : /\ routes[s].hosts \subseteq May(s)
                       /\ s \notin Writable => Final[s] \subseteq worker.pending
SyncFinals == [s \in Service |-> IF s \in Writable THEN Final[s] ELSE {}]
SyncGains ==
  At("syncGain") =>
    /\ worker.todo \subseteq GainFirstHosts(worker.had, SyncFinals)
    /\ \A s \in Service :
         /\ worker.had[s] \subseteq routes[s].hosts
         /\ s \in GainFirstHosts(worker.had, SyncFinals) \ worker.todo =>
              Final[s] \subseteq routes[s].hosts \/ Final[s] \subseteq worker.pending
SyncOwns ==
  At("syncFinal") \/ At("syncDrop") =>
    \A t \in Service : \A h \in (Final[t] \cap Routed) \ worker.pending : h \in routes[t].hosts
SyncTodo ==
  /\ At("syncFinal") => worker.todo \subseteq Service
  /\ At("syncDrop") => \A s \in worker.todo : s \in Service \ Planned(worker.plan) /\ Held(s) = {}

RouteInv ==
  /\ Shape /\ IdleIsEmpty
  /\ DeployGains /\ DeployWrites /\ DeployTodo
  /\ SyncHolds /\ SyncGains /\ SyncOwns /\ SyncTodo

\* The step at hand drops no host.
NoneDropped == Routed \cap PlannedHosts(worker.plan) \subseteq Routed'

LEMMA InitRoutes == Init => RouteInv
<1> SUFFICES ASSUME Init PROVE RouteInv
  OBVIOUS
<1>1. worker = Idle /\ routes = NoPlan
  BY DEF Init
<1>2. At("idle") /\ worker.pc = "idle" /\ worker.plan = NoPlan
  BY <1>1 DEF At, Idle
<1>3. IsRoutes(NoPlan) /\ OneOwner(NoPlan)
  BY DEF IsRoutes, OneOwner, NoPlan, NoRoute
<1>4. IsWorker(worker)
  BY <1>1 DEF IsWorker, Idle
<1> QED BY <1>1, <1>2, <1>3, <1>4 DEF RouteInv, Shape, Planning, IsRoutes, IdleIsEmpty, DeployGains, DeployWrites,
           DeployTodo, SyncHolds, SyncGains, SyncOwns, SyncTodo, Syncing, At

-----------------------------------------------------------------------------
(* Writes of one route.                                                      *)

\* What a write of one route changes.
LEMMA OneWrite ==
  ASSUME IsRoutes(routes), NEW s \in Service, NEW hosts, NEW port,
         routes' = [routes EXCEPT ![s] = [hosts |-> hosts, port |-> port]]
  PROVE  /\ IsRoutes(routes)'
         /\ routes'[s].hosts = hosts
         /\ \A t \in Service \ {s} : routes'[t] = routes[t]
         /\ Routed' \subseteq Routed \cup hosts
<1>1. routes = [t \in Service |-> [hosts |-> routes[t].hosts, port |-> routes[t].port]]
  BY DEF IsRoutes
<1>2. \A t \in Service : routes'[t] = IF t = s THEN [hosts |-> hosts, port |-> port] ELSE routes[t]
  BY <1>1
<1>3. routes' = [t \in Service |-> routes'[t]]
  BY <1>1
<1>4. \A t \in Service : routes'[t] = [hosts |-> routes'[t].hosts, port |-> routes'[t].port]
  BY <1>1, <1>2
<1>5. IsRoutes(routes)'
  BY <1>3, <1>4 DEF IsRoutes
<1>6. Routed' \subseteq Routed \cup hosts
  BY <1>2 DEF Routed
<1> QED BY <1>2, <1>5, <1>6

\* A route that is written with its plan, or goes unplanned, while every host
\* has its own route: nothing is dropped, and it stays so.
LEMMA OwnedWrite ==
  ASSUME IsRoutes(routes), OneOwner(worker.plan), \A t \in Service : OwnRoute(t), NEW s \in Service, NEW port,
         routes' = [routes EXCEPT ![s] = [hosts |-> Final[s], port |-> port]],
         worker'.plan = worker.plan
  PROVE  NoneDropped /\ \A t \in Service : OwnRoute(t)'
<1>1. /\ routes'[s].hosts = Final[s]
      /\ \A t \in Service \ {s} : routes'[t] = routes[t]
      /\ Routed' \subseteq Routed \cup Final[s]
  BY OneWrite
<1>2. \A t \in Service : Final[t] = worker.plan[t].hosts /\ Final'[t] = worker.plan[t].hosts
  BY DEF Final
<1>3. ASSUME NEW t \in Service, NEW h \in Final[t] \cap (Routed \cup Final[s])
      PROVE  h \in routes'[t].hosts
  <2>1. CASE t = s
    BY <1>1, <1>3, <2>1
  <2>2. CASE t # s
    <3>1. h \notin Final[s]
      BY <1>2, <1>3, <2>2 DEF OneOwner
    <3>2. h \in routes[t].hosts
      BY <1>3, <3>1 DEF OwnRoute
    <3> QED BY <1>1, <2>2, <3>2
  <2> QED BY <2>1, <2>2
<1>4. NoneDropped
  BY <1>2, <1>3 DEF NoneDropped, PlannedHosts, Routed
<1>5. \A t \in Service : OwnRoute(t)'
  BY <1>1, <1>2, <1>3 DEF OwnRoute
<1> QED BY <1>4, <1>5

-----------------------------------------------------------------------------
(* The steps.                                                                *)

\* The handler ends, is cut off, or has planned but not read the routes.
Unread == {"idle", "config", "planned", "up", "gated"}

LEMMA BeforeReading ==
  ASSUME IsRoutes(routes)', IsWorker(worker)', Planning', OneOwner(worker.plan)', IdleIsEmpty',
         worker'.pc \in Unread
  PROVE  RouteInv'
  BY DEF RouteInv, Shape, DeployGains, DeployWrites, DeployTodo, SyncHolds, SyncGains, SyncOwns, SyncTodo,
     Syncing, At, Unread

LEMMA BecomesIdle ==
  ASSUME IsRoutes(routes)', worker' = Idle
  PROVE  RouteInv'
<1>1. worker'.pc = "idle" /\ worker'.plan = NoPlan
  BY DEF Idle
<1>2. IsWorker(worker)' /\ IdleIsEmpty'
  BY DEF IsWorker, Idle, IdleIsEmpty
<1>3. Planning' /\ OneOwner(worker.plan)'
  BY <1>1 DEF Planning, OneOwner, NoPlan, NoRoute
<1> QED BY <1>1, <1>2, <1>3, BeforeReading DEF Unread

LEMMA Unmoved ==
  ASSUME RouteInv, UNCHANGED <<routes, worker>>
  PROVE  RouteInv' /\ NoneDropped
<1>1. RouteInv'
  <2>1. Shape' /\ IdleIsEmpty'
    BY DEF RouteInv, Shape, IsRoutes, IsWorker, Planning, OneOwner, IdleIsEmpty, At
  <2>2. (Final = Final') /\ (Routed = Routed') /\ (Writable = Writable')
    BY DEF Final, Routed, Writable
  <2>3. \A s \in Service : (Held(s) = Held(s)') /\ (OwnRoute(s) <=> OwnRoute(s)') /\ (May(s) = May(s)')
    BY <2>2 DEF Held, OwnRoute, May
  <2>4. SyncFinals = SyncFinals'
    BY <2>2 DEF SyncFinals
  <2>5. DeployGains' /\ DeployWrites' /\ DeployTodo'
    BY <2>2, <2>3 DEF RouteInv, DeployGains, DeployWrites, DeployTodo, At
  <2>6. SyncHolds' /\ SyncGains' /\ SyncOwns' /\ SyncTodo'
    BY <2>2, <2>3, <2>4 DEF RouteInv, SyncHolds, SyncGains, SyncOwns, SyncTodo, Syncing, At
  <2> QED BY <2>1, <2>5, <2>6 DEF RouteInv
<1>2. NoneDropped
  BY DEF NoneDropped, Routed
<1> QED BY <1>1, <1>2

\* The steps of a deploy up to its reading of the routes.
LEMMA PlanStep ==
  ASSUME RouteInv, UNCHANGED routes, MarkRunning \/ ReadPlan \/ ComposeUp \/ PassGate
  PROVE  RouteInv'
<1>0. IsWorker(worker) /\ Planning /\ OneOwner(worker.plan) /\ IsRoutes(routes)'
  BY DEF RouteInv, Shape, IsRoutes
<1>1. CASE MarkRunning
  <2>1. /\ worker' = [Idle EXCEPT !.pc = "config", !.public = public]
        /\ worker'.pc = "config" /\ worker'.plan = NoPlan
    BY <1>1 DEF MarkRunning, Idle
  <2>2. IsWorker(worker)'
    BY <2>1 DEF IsWorker, Idle
  <2>3. Planning' /\ OneOwner(worker.plan)'
    BY <2>1 DEF Planning, OneOwner, NoPlan, NoRoute
  <2> QED BY <1>0, <2>1, <2>2, <2>3, BeforeReading DEF Unread, IdleIsEmpty, At
<1>2. CASE ReadPlan
  <2>1. CASE worker' = Idle
    BY <1>0, <2>1, BecomesIdle
  <2>2. CASE worker' = [worker EXCEPT !.pc = "planned", !.plan = PlanRead]
    <3>1. worker'.pc = "planned" /\ worker'.plan = PlanRead /\ IsWorker(worker)'
      BY <1>0, <2>2 DEF IsWorker
    <3>2. OneOwner(PlanRead) /\ IsRoutes(PlanRead)
      BY PlanHasOneOwner DEF PlanRead
    <3>3. Planning' /\ OneOwner(worker.plan)'
      BY <3>1, <3>2 DEF Planning, OneOwner, IsRoutes
    <3> QED BY <1>0, <3>1, <3>3, BeforeReading DEF Unread, IdleIsEmpty, At
  <2> QED BY <1>2, <2>1, <2>2 DEF ReadPlan, JobEnds
<1>3. CASE ComposeUp \/ PassGate
  <2>1. PICK pc \in {"up", "gated"} : worker' = [worker EXCEPT !.pc = pc]
    BY <1>3 DEF ComposeUp, PassGate
  <2>2. worker'.pc = pc /\ worker'.plan = worker.plan /\ IsWorker(worker)'
    BY <1>0, <2>1 DEF IsWorker
  <2>3. Planning' /\ OneOwner(worker.plan)'
    BY <1>0, <2>2 DEF Planning, OneOwner
  <2> QED BY <1>0, <2>1, <2>2, <2>3, BeforeReading DEF Unread, IdleIsEmpty, At
<1> QED BY <1>1, <1>2, <1>3

LEMMA StopStep ==
  ASSUME RouteInv, StopStack
  PROVE  RouteInv' /\ NoneDropped
<1>1. PICK left \in SUBSET Service : routes' = [s \in Service |-> IF s \in left THEN routes[s] ELSE NoRoute]
  BY DEF StopStack
<1>2. \A s \in Service : routes[s] = [hosts |-> routes[s].hosts, port |-> routes[s].port]
  BY DEF RouteInv, Shape, IsRoutes
<1>3. \A s \in Service : routes'[s] = [hosts |-> routes'[s].hosts, port |-> routes'[s].port]
  BY <1>1, <1>2 DEF NoRoute
<1>4. IsRoutes(routes)'
  BY <1>1, <1>3 DEF IsRoutes
<1>5. worker = Idle /\ worker' = Idle
  BY DEF StopStack, Take, JobEnds, RouteInv, IdleIsEmpty
<1>6. PlannedHosts(worker.plan) = {}
  BY <1>5 DEF Idle, NoPlan, NoRoute, PlannedHosts
<1> QED BY <1>4, <1>5, <1>6, BecomesIdle DEF NoneDropped

-----------------------------------------------------------------------------
(* The passes of a deploy: applyStackRoutes.                                 *)

\* A handler that keeps its plan keeps the plan's shape and finals.
LEMMA SamePlan ==
  ASSUME RouteInv, IsRoutes(routes)', IsWorker(worker)', worker'.plan = worker.plan, worker'.pc # "idle"
  PROVE  Shape' /\ IdleIsEmpty' /\ Final' = Final
  BY DEF RouteInv, Shape, Planning, OneOwner, IdleIsEmpty, At, Final

\* What is left of RouteInv in a pass of a deploy.
LEMMA InDeploy ==
  ASSUME Shape', IdleIsEmpty', worker'.pc \in {"gain", "final", "drop"}, DeployGains', DeployWrites', DeployTodo'
  PROVE  RouteInv'
  BY DEF RouteInv, SyncHolds, SyncGains, SyncOwns, SyncTodo, Syncing, At

LEMMA ReadStep ==
  ASSUME RouteInv, ReadRoutes
  PROVE  RouteInv' /\ NoneDropped
<1>1. /\ UNCHANGED routes
      /\ worker' = [worker EXCEPT !.pc = "gain", !.had = Hosts(routes), !.todo = GainFirstHosts(Hosts(routes), Final)]
  BY DEF ReadRoutes
<1>2. /\ IsWorker(worker)' /\ worker'.pc = "gain" /\ worker'.plan = worker.plan
      /\ worker'.had = Hosts(routes) /\ worker'.todo = GainFirstHosts(Hosts(routes), Final)
  BY <1>1 DEF RouteInv, Shape, IsWorker
<1>3. IsRoutes(routes)'
  BY <1>1 DEF RouteInv, Shape, IsRoutes
<1>4. Shape' /\ IdleIsEmpty' /\ Final' = Final
  BY <1>2, <1>3, SamePlan
<1>5. \A s \in Service : Hosts(routes)[s] = routes'[s].hosts
  BY <1>1 DEF Hosts
<1>6. DeployGains' /\ DeployTodo'
  BY <1>2, <1>4, <1>5 DEF DeployGains, DeployTodo, At, GainFirstHosts
<1>7. DeployWrites'
  BY <1>2 DEF DeployWrites, At
<1> QED BY <1>1, <1>2, <1>4, <1>6, <1>7, InDeploy DEF NoneDropped, Routed

\* When every gaining route is written, each host that is routed and planned is
\* on its own route: it was there, or its own route gained it.
LEMMA GainedAll ==
  ASSUME RouteInv, At("gain"), worker.todo = {}, NEW t \in Service
  PROVE  OwnRoute(t)
<1> SUFFICES ASSUME NEW h \in Final[t] \cap Routed PROVE h \in routes[t].hosts
  BY DEF OwnRoute
<1>1. PICK s \in Service : h \in routes[s].hosts
  BY DEF Routed
<1>2. h \in worker.had[s] \cup Final[s]
  BY <1>1 DEF RouteInv, DeployGains
<1>3. CASE h \in Final[s]
  <2>1. s = t
    BY <1>3 DEF RouteInv, Shape, OneOwner, Final
  <2> QED BY <1>1, <2>1
<1>4. CASE h \in worker.had[s] /\ s # t /\ h \notin worker.had[t]
  <2>1. t \in GainFirstHosts(worker.had, Final)
    BY <1>4 DEF GainFirstHosts
  <2> QED BY <2>1 DEF RouteInv, DeployGains
<1>5. CASE h \in worker.had[t]
  BY <1>5 DEF RouteInv, DeployGains
<1> QED BY <1>1, <1>2, <1>3, <1>4, <1>5

LEMMA GainStep ==
  ASSUME RouteInv, WriteGaining
  PROVE  RouteInv' /\ NoneDropped
<1>0. At("gain") /\ worker.pc = "gain" /\ IsRoutes(routes) /\ IsWorker(worker)
  BY DEF WriteGaining, At, RouteInv, Shape
<1>1. CASE worker.todo = {}
  <2>1. UNCHANGED routes /\ worker' = [worker EXCEPT !.pc = "final", !.todo = Planned(worker.plan)]
    BY <1>1 DEF WriteGaining
  <2>2. IsWorker(worker)' /\ worker'.pc = "final" /\ worker'.plan = worker.plan /\ worker'.todo = Planned(worker.plan)
    BY <1>0, <2>1 DEF IsWorker
  <2>3. Shape' /\ IdleIsEmpty' /\ Final' = Final
    BY <1>0, <2>1, <2>2, SamePlan DEF IsRoutes
  <2>4. \A t \in Service : OwnRoute(t)
    BY <1>0, <1>1, GainedAll
  <2>5. \A t \in Service : OwnRoute(t)'
    BY <2>1, <2>3, <2>4 DEF OwnRoute, Routed
  <2>6. DeployGains' /\ DeployWrites' /\ DeployTodo'
    BY <2>2, <2>5 DEF DeployGains, DeployWrites, DeployTodo, At
  <2> QED BY <2>1, <2>2, <2>3, <2>6, InDeploy DEF NoneDropped, Routed
<1>2. CASE worker.todo # {}
  <2>1. PICK s \in worker.todo :
          /\ worker' = [worker EXCEPT !.todo = @ \ {s}]
          /\ routes' = [routes EXCEPT ![s] = [hosts |-> Final[s] \cup worker.had[s], port |-> worker.plan[s].port]]
    BY <1>2 DEF WriteGaining
  <2>2. /\ IsWorker(worker)' /\ worker'.pc = "gain" /\ worker'.plan = worker.plan
        /\ worker'.had = worker.had /\ worker'.todo = worker.todo \ {s}
    BY <1>0, <2>1 DEF IsWorker
  <2>3. s \in Service
    BY <1>0 DEF RouteInv, DeployTodo
  <2>4. /\ IsRoutes(routes)' /\ routes'[s].hosts = Final[s] \cup worker.had[s]
        /\ \A t \in Service \ {s} : routes'[t] = routes[t]
    BY <1>0, <2>1, <2>3, OneWrite
  <2>5. Shape' /\ IdleIsEmpty' /\ Final' = Final
    BY <2>2, <2>4, SamePlan
  <2>6. \A t \in Service : routes[t].hosts \subseteq routes'[t].hosts
    BY <1>0, <2>3, <2>4 DEF RouteInv, DeployGains
  <2>7. DeployGains'
    <3> SUFFICES ASSUME NEW t \in Service
                 PROVE  /\ worker.had[t] \subseteq routes'[t].hosts
                        /\ routes'[t].hosts \subseteq worker.had[t] \cup Final[t]
                        /\ t \in GainFirstHosts(worker.had, Final) \ (worker.todo \ {s})
                             => Final[t] \subseteq routes'[t].hosts
      BY <2>2, <2>5 DEF DeployGains
    <3>1. CASE t = s
      BY <2>4, <3>1
    <3>2. CASE t # s
      BY <1>0, <2>4, <3>2 DEF RouteInv, DeployGains
    <3> QED BY <3>1, <3>2
  <2>8. DeployWrites' /\ DeployTodo'
    BY <1>0, <2>2 DEF RouteInv, DeployWrites, DeployTodo, At
  <2>9. NoneDropped
    BY <2>6 DEF NoneDropped, Routed
  <2> QED BY <2>2, <2>5, <2>7, <2>8, <2>9, InDeploy
<1> QED BY <1>1, <1>2

LEMMA FinalStep ==
  ASSUME RouteInv, WriteFinal
  PROVE  RouteInv' /\ NoneDropped
<1>0. /\ At("final") /\ worker.pc = "final" /\ IsRoutes(routes) /\ IsWorker(worker) /\ OneOwner(worker.plan)
      /\ \A t \in Service : OwnRoute(t)
  BY DEF WriteFinal, At, RouteInv, Shape, DeployWrites
<1>1. CASE worker.todo = {}
  <2>1. /\ UNCHANGED routes
        /\ worker' = [worker EXCEPT !.pc = "drop",
                                    !.todo = {s \in Service : routes[s].hosts # {}} \ Planned(worker.plan)]
    BY <1>1 DEF WriteFinal
  <2>2. /\ IsWorker(worker)' /\ worker'.pc = "drop" /\ worker'.plan = worker.plan
        /\ worker'.todo \subseteq Service \ Planned(worker.plan)
    BY <1>0, <2>1 DEF IsWorker
  <2>3. Shape' /\ IdleIsEmpty' /\ Final' = Final
    BY <1>0, <2>1, <2>2, SamePlan DEF IsRoutes
  <2>4. \A t \in Service : OwnRoute(t)'
    BY <1>0, <2>1, <2>3 DEF OwnRoute, Routed
  <2>5. DeployGains' /\ DeployWrites' /\ DeployTodo'
    BY <2>2, <2>4 DEF DeployGains, DeployWrites, DeployTodo, At
  <2> QED BY <2>1, <2>2, <2>3, <2>5, InDeploy DEF NoneDropped, Routed
<1>2. CASE worker.todo # {}
  <2>1. PICK s \in worker.todo :
          worker' = [worker EXCEPT !.todo = @ \ {s}] /\ routes' = [routes EXCEPT ![s] = worker.plan[s]]
    BY <1>2 DEF WriteFinal
  <2>2. /\ IsWorker(worker)' /\ worker'.pc = "final" /\ worker'.plan = worker.plan
        /\ worker'.todo = worker.todo \ {s}
    BY <1>0, <2>1 DEF IsWorker
  <2>3. s \in Service
    BY <1>0 DEF RouteInv, DeployTodo, Planned
  <2>4. worker.plan[s] = [hosts |-> Final[s], port |-> worker.plan[s].port]
    BY <2>3 DEF RouteInv, Shape, Planning, Final
  <2>5. routes' = [routes EXCEPT ![s] = [hosts |-> Final[s], port |-> worker.plan[s].port]]
    BY <2>1, <2>4
  <2>6. IsRoutes(routes)'
    BY <1>0, <2>3, <2>5, OneWrite
  <2>7. NoneDropped /\ \A t \in Service : OwnRoute(t)'
    BY <1>0, <2>2, <2>3, <2>5, OwnedWrite
  <2>8. Shape' /\ IdleIsEmpty'
    BY <2>2, <2>6, SamePlan
  <2>9. DeployGains' /\ DeployWrites' /\ DeployTodo'
    BY <1>0, <2>2, <2>7 DEF RouteInv, DeployGains, DeployWrites, DeployTodo, At
  <2> QED BY <2>2, <2>7, <2>8, <2>9, InDeploy
<1> QED BY <1>1, <1>2

LEMMA DropStep ==
  ASSUME RouteInv, DropStale
  PROVE  RouteInv' /\ NoneDropped
<1>0. /\ At("drop") /\ worker.pc = "drop" /\ IsRoutes(routes) /\ IsWorker(worker) /\ OneOwner(worker.plan)
      /\ \A t \in Service : OwnRoute(t)
  BY DEF DropStale, At, RouteInv, Shape, DeployWrites
<1>1. PICK s \in worker.todo : Drop(s) /\ worker' = [worker EXCEPT !.todo = @ \ {s}]
  BY DEF DropStale
<1>2. /\ IsWorker(worker)' /\ worker'.pc = "drop" /\ worker'.plan = worker.plan /\ worker'.todo = worker.todo \ {s}
  BY <1>0, <1>1 DEF IsWorker
<1>3. s \in Service /\ Final[s] = {}
  BY <1>0 DEF RouteInv, DeployTodo, Planned, Final
<1>4. IsRoutes(routes)' /\ NoneDropped /\ \A t \in Service : OwnRoute(t)'
  <2>1. CASE routes' = [routes EXCEPT ![s] = NoRoute]
    <3>1. routes' = [routes EXCEPT ![s] = [hosts |-> Final[s], port |-> 0]]
      BY <1>3, <2>1 DEF NoRoute
    <3> QED BY <1>0, <1>2, <1>3, <3>1, OneWrite, OwnedWrite
  <2>2. CASE UNCHANGED routes
    <3>1. Final' = Final
      BY <1>2 DEF Final
    <3> QED BY <1>0, <2>2, <3>1 DEF IsRoutes, NoneDropped, OwnRoute, Routed
  <2> QED BY <1>1, <2>1, <2>2 DEF Drop
<1>5. Shape' /\ IdleIsEmpty'
  BY <1>2, <1>4, SamePlan
<1>6. DeployGains' /\ DeployWrites' /\ DeployTodo'
  BY <1>0, <1>2, <1>4 DEF RouteInv, DeployGains, DeployWrites, DeployTodo, At
<1> QED BY <1>2, <1>4, <1>5, <1>6, InDeploy

-----------------------------------------------------------------------------
(* The passes of a route sync.                                               *)

\* What is left of RouteInv in a sync.
LEMMA InSync ==
  ASSUME Shape', IdleIsEmpty', Syncing', SyncHolds', SyncGains', SyncOwns', SyncTodo'
  PROVE  RouteInv'
  BY DEF RouteInv, DeployGains, DeployWrites, DeployTodo, Syncing, At

LEMMA SyncReadStep ==
  ASSUME RouteInv, SyncReads
  PROVE  RouteInv' /\ NoneDropped
<1> DEFINE plan == Wanted
<1>1. PICK blind \in SUBSET Service :
        LET ports == [s \in Service |-> IF plan[s].hosts = {} THEN 0 ELSE CurrentUpstream(plan, s, blind)]
            final == [s \in Service |-> IF ports[s] = 0 THEN {} ELSE plan[s].hosts]
        IN worker' = [pc |-> "syncGain", public |-> Unset, plan |-> plan, ports |-> ports, had |-> Hosts(routes),
                      todo |-> GainFirstHosts(Hosts(routes), final),
                      pending |-> PlannedHosts(plan) \ UNION {final[s] : s \in Service}]
  BY DEF SyncReads
<1> DEFINE ports == [s \in Service |-> IF plan[s].hosts = {} THEN 0 ELSE CurrentUpstream(plan, s, blind)]
           final == [s \in Service |-> IF ports[s] = 0 THEN {} ELSE plan[s].hosts]
<1>2. worker' = [pc |-> "syncGain", public |-> Unset, plan |-> plan, ports |-> ports, had |-> Hosts(routes),
                 todo |-> GainFirstHosts(Hosts(routes), final),
                 pending |-> PlannedHosts(plan) \ UNION {final[s] : s \in Service}]
  BY <1>1
<1>3. OneOwner(plan) /\ plan = [s \in Service |-> [hosts |-> plan[s].hosts, port |-> plan[s].port]]
  <2>1. OneOwner(PlanNow) /\ IsRoutes(PlanNow)
    BY PlanHasOneOwner DEF PlanNow
  <2>2. OneOwner(NoPlan) /\ IsRoutes(NoPlan)
    BY DEF OneOwner, IsRoutes, NoPlan, NoRoute
  <2> QED BY <2>1, <2>2 DEF Wanted, IsRoutes
<1> HIDE DEF plan, ports
<1>4. /\ worker'.pc = "syncGain" /\ worker'.plan = plan /\ worker'.ports = ports /\ worker'.had = Hosts(routes)
      /\ worker'.todo = GainFirstHosts(Hosts(routes), final)
      /\ worker'.pending = PlannedHosts(plan) \ UNION {final[s] : s \in Service}
      /\ IsWorker(worker)'
  BY <1>2 DEF IsWorker
<1>5. UNCHANGED routes /\ worker = Idle
  BY DEF SyncReads, Take, RouteInv, IdleIsEmpty
<1>6. Shape' /\ IdleIsEmpty' /\ Syncing'
  BY <1>3, <1>4, <1>5 DEF RouteInv, Shape, IsRoutes, Planning, OneOwner, IdleIsEmpty, At, Syncing
<1>7. \A s \in Service : Final'[s] = plan[s].hosts
  BY <1>4 DEF Final
<1>8. \A s \in Service : SyncFinals'[s] = final[s]
  BY <1>4, <1>7 DEF SyncFinals, Writable
<1>9. \A s \in Service : worker'.had[s] = routes'[s].hosts
  BY <1>4, <1>5 DEF Hosts
<1>10. SyncHolds'
  <2> SUFFICES ASSUME NEW s \in Service
               PROVE  /\ routes'[s].hosts \subseteq May(s)'
                      /\ s \notin Writable' => Final'[s] \subseteq worker'.pending
    BY DEF SyncHolds
  <2>1. routes'[s].hosts \subseteq May(s)'
    BY <1>9 DEF May
  <2>2. ASSUME s \notin Writable', NEW h \in Final'[s]
        PROVE  h \in worker'.pending
    <3>1. h \in plan[s].hosts /\ ports[s] = 0
      BY <1>4, <1>7, <2>2 DEF Writable
    <3>2. ASSUME NEW t \in Service, h \in final[t] PROVE FALSE
      <4>1. h \in plan[t].hosts /\ ports[t] # 0
        BY <3>2
      <4> QED BY <1>3, <3>1, <4>1 DEF OneOwner
    <3> QED BY <1>4, <3>1, <3>2 DEF PlannedHosts
  <2> QED BY <2>1, <2>2
<1>11. GainFirstHosts(worker.had, SyncFinals)' = GainFirstHosts(Hosts(routes), final)
  BY <1>4, <1>8 DEF GainFirstHosts
<1>12. SyncGains'
  BY <1>4, <1>9, <1>11 DEF SyncGains
<1>13. SyncOwns' /\ SyncTodo'
  BY <1>4 DEF SyncOwns, SyncTodo, At
<1> QED BY <1>5, <1>6, <1>10, <1>12, <1>13, InSync DEF NoneDropped, Routed

\* When every gaining route is written or given up, a planned host that is
\* routed and not pending is on its own route.
LEMMA SyncGainedAll ==
  ASSUME RouteInv, At("syncGain"), worker.todo = {}, NEW t \in Service, NEW h \in (Final[t] \cap Routed) \ worker.pending
  PROVE  h \in routes[t].hosts
<1>0. Syncing
  BY DEF Syncing, At
<1>1. PICK s \in Service : h \in routes[s].hosts
  BY DEF Routed
<1>2. h \in worker.had[s] \cup Final[s]
  BY <1>0, <1>1 DEF RouteInv, SyncHolds, May
<1>3. t \in Writable
  BY <1>0 DEF RouteInv, SyncHolds
<1>4. CASE h \in Final[s]
  <2>1. s = t
    BY <1>4 DEF RouteInv, Shape, OneOwner, Final
  <2> QED BY <1>1, <2>1
<1>5. CASE h \in worker.had[s] /\ s # t /\ h \notin worker.had[t]
  <2>1. SyncFinals[t] = Final[t]
    BY <1>3 DEF SyncFinals
  <2>2. t \in GainFirstHosts(worker.had, SyncFinals)
    BY <1>5, <2>1 DEF GainFirstHosts
  <2> QED BY <2>2 DEF RouteInv, SyncGains
<1>6. CASE h \in worker.had[t]
  BY <1>6 DEF RouteInv, SyncGains
<1> QED BY <1>1, <1>2, <1>4, <1>5, <1>6

LEMMA SyncGainStep ==
  ASSUME RouteInv, SyncGaining
  PROVE  RouteInv' /\ NoneDropped
<1>0. At("syncGain") /\ worker.pc = "syncGain" /\ Syncing /\ IsRoutes(routes) /\ IsWorker(worker)
  BY DEF SyncGaining, At, Syncing, RouteInv, Shape
<1>1. CASE worker.todo = {}
  <2>1. UNCHANGED routes /\ worker' = [worker EXCEPT !.pc = "syncFinal", !.todo = Writable \cup HadRoute]
    BY <1>1 DEF SyncGaining
  <2>2. /\ IsWorker(worker)' /\ worker'.pc = "syncFinal" /\ worker'.plan = worker.plan /\ worker'.ports = worker.ports
        /\ worker'.had = worker.had /\ worker'.pending = worker.pending /\ worker'.todo = Writable \cup HadRoute
    BY <1>0, <2>1 DEF IsWorker
  <2>3. Shape' /\ IdleIsEmpty' /\ Final' = Final /\ Syncing' /\ Writable' = Writable
    BY <1>0, <2>1, <2>2, SamePlan DEF IsRoutes, Syncing, Writable
  <2>4. SyncHolds'
    BY <1>0, <2>1, <2>2, <2>3 DEF RouteInv, SyncHolds, May
  <2>5. SyncOwns'
    <3>1. Routed' = Routed
      BY <2>1 DEF Routed
    <3> QED BY <1>0, <1>1, <2>1, <2>2, <2>3, <3>1, SyncGainedAll DEF SyncOwns
  <2>6. SyncGains' /\ SyncTodo'
    BY <2>2 DEF SyncGains, SyncTodo, At, Writable, HadRoute
  <2> QED BY <2>1, <2>3, <2>4, <2>5, <2>6, InSync DEF NoneDropped, Routed
<1>2. CASE worker.todo # {}
  <2>1. PICK s \in worker.todo :
          \/ /\ worker' = [worker EXCEPT !.todo = @ \ {s}]
             /\ routes' = [routes EXCEPT ![s] = [hosts |-> Final[s] \cup worker.had[s], port |-> worker.ports[s]]]
          \/ worker' = [worker EXCEPT !.todo = @ \ {s}, !.pending = @ \cup Final[s]] /\ UNCHANGED routes
    BY <1>2 DEF SyncGaining
  <2>2. /\ IsWorker(worker)' /\ worker'.pc = "syncGain" /\ worker'.plan = worker.plan /\ worker'.ports = worker.ports
        /\ worker'.had = worker.had /\ worker'.todo = worker.todo \ {s}
        /\ worker'.pending \in {worker.pending, worker.pending \cup Final[s]}
        /\ routes' = routes => worker'.pending = worker.pending \/ worker'.pending = worker.pending \cup Final[s]
    BY <1>0, <2>1 DEF IsWorker
  <2>3. s \in GainFirstHosts(worker.had, SyncFinals)
    BY <1>0 DEF RouteInv, SyncGains
  <2>4. s \in Service /\ s \in Writable
    BY <2>3 DEF GainFirstHosts, SyncFinals
  <2>5. /\ IsRoutes(routes)'
        /\ \/ routes'[s].hosts = Final[s] \cup worker.had[s]
           \/ routes'[s] = routes[s] /\ worker'.pending = worker.pending \cup Final[s]
        /\ \A t \in Service \ {s} : routes'[t] = routes[t]
    <3>1. CASE routes' = [routes EXCEPT ![s] = [hosts |-> Final[s] \cup worker.had[s], port |-> worker.ports[s]]]
      BY <1>0, <2>4, <3>1, OneWrite
    <3>2. CASE UNCHANGED routes /\ worker' = [worker EXCEPT !.todo = @ \ {s}, !.pending = @ \cup Final[s]]
      BY <1>0, <3>2 DEF IsRoutes, IsWorker
    <3> QED BY <2>1, <3>1, <3>2
  <2>6. Shape' /\ IdleIsEmpty' /\ Final' = Final /\ Syncing' /\ Writable' = Writable
    BY <2>2, <2>5, SamePlan DEF Syncing, Writable
  <2>7. \A t \in Service : routes[t].hosts \subseteq routes'[t].hosts
    <3>1. routes[s].hosts \subseteq worker.had[s] \cup Final[s]
      BY <1>0, <2>4 DEF RouteInv, SyncHolds, May
    <3> QED BY <2>5, <3>1
  <2>8. SyncHolds'
    <3>1. \A t \in Service : May(t)' = May(t)
      BY <2>2, <2>6 DEF May
    <3>2. \A t \in Service : routes'[t].hosts \subseteq May(t)
      BY <1>0, <2>4, <2>5 DEF RouteInv, SyncHolds, May
    <3>3. worker.pending \subseteq worker'.pending
      BY <2>2
    <3> QED BY <1>0, <2>6, <3>1, <3>2, <3>3 DEF RouteInv, SyncHolds
  <2>9. SyncGains'
    <3>1. SyncFinals' = SyncFinals
      BY <2>6 DEF SyncFinals
    <3>2. worker'.todo \subseteq GainFirstHosts(worker.had, SyncFinals)
      BY <1>0, <2>2 DEF RouteInv, SyncGains
    <3>3. ASSUME NEW t \in Service
          PROVE  /\ worker.had[t] \subseteq routes'[t].hosts
                 /\ t \in GainFirstHosts(worker.had, SyncFinals) \ (worker.todo \ {s})
                      => Final[t] \subseteq routes'[t].hosts \/ Final[t] \subseteq worker'.pending
      <4>1. CASE t = s
        BY <1>0, <2>5, <2>7, <4>1 DEF RouteInv, SyncGains
      <4>2. CASE t # s
        BY <1>0, <2>2, <2>5, <4>2 DEF RouteInv, SyncGains
      <4> QED BY <4>1, <4>2
    <3> QED BY <2>2, <2>6, <3>1, <3>2, <3>3 DEF SyncGains
  <2>10. SyncOwns' /\ SyncTodo'
    BY <2>2 DEF SyncOwns, SyncTodo, At
  <2>11. NoneDropped
    BY <2>7 DEF NoneDropped, Routed
  <2> QED BY <2>6, <2>8, <2>9, <2>10, <2>11, InSync
<1> QED BY <1>1, <1>2

\* A write of a settled route, or its removal when nothing it has is settled,
\* leaves every planned host where it has to be.
LEMMA SettledWrite ==
  ASSUME RouteInv, Syncing, NEW s \in Service, NEW port,
         \A t \in Service : \A h \in (Final[t] \cap Routed) \ worker.pending : h \in routes[t].hosts,
         routes' = [routes EXCEPT ![s] = [hosts |-> Settled(s), port |-> port]]
  PROVE  /\ NoneDropped
         /\ \A t \in Service : \A h \in (Final[t] \cap Routed') \ worker.pending : h \in routes'[t].hosts
         /\ \A t \in Service : routes'[t].hosts \subseteq May(t)
<1>1. /\ routes'[s].hosts = Settled(s)
      /\ \A t \in Service \ {s} : routes'[t] = routes[t]
      /\ Routed' \subseteq Routed \cup Settled(s)
  BY OneWrite DEF RouteInv, Shape
<1>2. Settled(s) \subseteq May(s)
  BY DEF Settled, May, Held
<1>3. \A t \in Service : routes[t].hosts \subseteq May(t) /\ (t \notin Writable => Final[t] \subseteq worker.pending)
  BY DEF RouteInv, SyncHolds
<1>4. \A t, u \in Service : t # u => Final[t] \cap Final[u] = {}
  BY DEF RouteInv, Shape, OneOwner, Final
<1>5. ASSUME NEW t \in Service, NEW h \in (Final[t] \cap (Routed \cup Settled(s))) \ worker.pending
      PROVE  h \in routes'[t].hosts
  <2>1. t \in Writable
    BY <1>3, <1>5
  <2>2. CASE t = s
    BY <1>1, <1>5, <2>1, <2>2 DEF Settled
  <2>3. CASE t # s
    <3>1. h \notin Settled(s)
      BY <1>4, <1>5, <2>3 DEF Settled, Held
    <3> QED BY <1>1, <1>5, <2>3, <3>1
  <2> QED BY <2>2, <2>3
<1>6. ASSUME NEW h \in Routed \cap PlannedHosts(worker.plan)
      PROVE  h \in Routed'
  <2>1. PICK t \in Service : h \in Final[t]
    BY <1>6 DEF PlannedHosts, Final
  <2>2. CASE h \notin worker.pending
    BY <1>5, <1>6, <2>1, <2>2 DEF Routed
  <2>3. CASE h \in worker.pending
    <3>1. PICK u \in Service : h \in routes[u].hosts
      BY <1>6 DEF Routed
    <3>2. CASE u # s
      BY <1>1, <3>1, <3>2 DEF Routed
    <3>3. CASE u = s
      <4>1. h \in Settled(s)
        BY <1>3, <2>3, <3>1, <3>3 DEF May, Settled, Held
      <4> QED BY <1>1, <4>1 DEF Routed
    <3> QED BY <3>2, <3>3
  <2> QED BY <2>2, <2>3
<1> QED BY <1>1, <1>2, <1>3, <1>5, <1>6 DEF NoneDropped

\* What is left of RouteInv after such a write.
LEMMA SyncWritten ==
  ASSUME RouteInv, worker.pc \in {"syncFinal", "syncDrop"}, worker'.pc = worker.pc,
         IsRoutes(routes)', IsWorker(worker)', worker'.plan = worker.plan, worker'.ports = worker.ports,
         worker'.had = worker.had, worker'.pending = worker.pending, worker'.todo \subseteq worker.todo,
         \A t \in Service : \A h \in (Final[t] \cap Routed') \ worker.pending : h \in routes'[t].hosts,
         \A t \in Service : routes'[t].hosts \subseteq May(t)
  PROVE  RouteInv'
<1>1. Shape' /\ IdleIsEmpty' /\ Final' = Final
  BY SamePlan
<1>2. Syncing /\ Syncing' /\ Writable' = Writable
  BY DEF Syncing, Writable
<1>3. \A t \in Service : (May(t))' = May(t) /\ (Held(t))' = Held(t)
  BY <1>1, <1>2 DEF May, Held
<1>4. SyncHolds'
  BY <1>1, <1>2, <1>3 DEF RouteInv, SyncHolds
<1>5. SyncOwns' /\ SyncGains'
  BY <1>1 DEF SyncOwns, SyncGains, At
<1>6. SyncTodo'
  BY <1>3 DEF RouteInv, SyncTodo, At
<1> QED BY <1>1, <1>2, <1>4, <1>5, <1>6, InSync

LEMMA SyncFinalStep ==
  ASSUME RouteInv, SyncFinal
  PROVE  RouteInv' /\ NoneDropped
<1>0. /\ At("syncFinal") /\ worker.pc = "syncFinal" /\ Syncing /\ IsRoutes(routes) /\ IsWorker(worker)
      /\ \A t \in Service : \A h \in (Final[t] \cap Routed) \ worker.pending : h \in routes[t].hosts
      /\ SyncHolds
  BY DEF SyncFinal, At, Syncing, RouteInv, Shape, SyncOwns
<1>1. CASE worker.todo = {}
  <2>1. /\ UNCHANGED routes
        /\ worker' = [worker EXCEPT !.pc = "syncDrop",
                                    !.todo = {s \in HadRoute \ Planned(worker.plan) : Held(s) = {}}]
    BY <1>1 DEF SyncFinal
  <2>2. /\ IsWorker(worker)' /\ worker'.pc = "syncDrop" /\ worker'.plan = worker.plan /\ worker'.ports = worker.ports
        /\ worker'.had = worker.had /\ worker'.pending = worker.pending
        /\ worker'.todo = {s \in HadRoute \ Planned(worker.plan) : Held(s) = {}}
    BY <1>0, <2>1 DEF IsWorker
  <2>3. Shape' /\ IdleIsEmpty' /\ Final' = Final /\ Syncing' /\ Writable' = Writable
    BY <1>0, <2>1, <2>2, SamePlan DEF IsRoutes, Syncing, Writable
  <2>4. SyncHolds'
    BY <1>0, <2>1, <2>2, <2>3 DEF SyncHolds, May
  <2>5. SyncOwns'
    <3>1. Routed' = Routed
      BY <2>1 DEF Routed
    <3> QED BY <1>0, <2>1, <2>2, <2>3, <3>1 DEF SyncOwns
  <2>6. \A s \in Service : (Held(s))' = Held(s)
    BY <2>2 DEF Held
  <2>7. SyncGains' /\ SyncTodo'
    BY <2>2, <2>6 DEF SyncGains, SyncTodo, At, HadRoute
  <2> QED BY <2>1, <2>3, <2>4, <2>5, <2>7, InSync DEF NoneDropped, Routed
<1>2. CASE worker.todo # {}
  <2>1. PICK s \in worker.todo :
          /\ worker' = [worker EXCEPT !.todo = @ \ {s}]
          /\ \/ routes' = [routes EXCEPT ![s] = [hosts |-> Settled(s),
                                                port |-> IF s \in Writable THEN worker.ports[s] ELSE routes[s].port]]
             \/ UNCHANGED routes
    BY <1>2 DEF SyncFinal
  <2>2. /\ IsWorker(worker)' /\ worker'.pc = "syncFinal" /\ worker'.plan = worker.plan
        /\ worker'.ports = worker.ports /\ worker'.had = worker.had /\ worker'.pending = worker.pending
        /\ worker'.todo = worker.todo \ {s}
    BY <1>0, <2>1 DEF IsWorker
  <2>3. s \in Service
    BY <1>0 DEF RouteInv, SyncTodo
  <2>4. /\ IsRoutes(routes)' /\ NoneDropped
        /\ \A t \in Service : \A h \in (Final[t] \cap Routed') \ worker.pending : h \in routes'[t].hosts
        /\ \A t \in Service : routes'[t].hosts \subseteq May(t)
    <3>1. CASE UNCHANGED routes
      BY <1>0, <3>1 DEF IsRoutes, NoneDropped, Routed, SyncHolds
    <3>2. CASE routes' = [routes EXCEPT ![s] = [hosts |-> Settled(s),
                            port |-> IF s \in Writable THEN worker.ports[s] ELSE routes[s].port]]
      <4> DEFINE port == IF s \in Writable THEN worker.ports[s] ELSE routes[s].port
      <4>1. routes' = [routes EXCEPT ![s] = [hosts |-> Settled(s), port |-> port]]
        BY <3>2
      <4> HIDE DEF port
      <4>2. IsRoutes(routes)'
        BY <1>0, <2>3, <4>1, OneWrite
      <4> QED BY <1>0, <2>3, <4>1, <4>2, SettledWrite
    <3> QED BY <2>1, <3>1, <3>2
  <2> QED BY <1>0, <2>2, <2>4, SyncWritten
<1> QED BY <1>1, <1>2

LEMMA SyncDropStep ==
  ASSUME RouteInv, SyncDrops
  PROVE  RouteInv' /\ NoneDropped
<1>0. /\ At("syncDrop") /\ worker.pc = "syncDrop" /\ Syncing /\ IsRoutes(routes) /\ IsWorker(worker)
      /\ \A t \in Service : \A h \in (Final[t] \cap Routed) \ worker.pending : h \in routes[t].hosts
      /\ SyncHolds
  BY DEF SyncDrops, At, Syncing, RouteInv, Shape, SyncOwns
<1>1. PICK s \in worker.todo : Drop(s) /\ worker' = [worker EXCEPT !.todo = @ \ {s}]
  BY DEF SyncDrops
<1>2. /\ IsWorker(worker)' /\ worker'.pc = "syncDrop" /\ worker'.plan = worker.plan
      /\ worker'.ports = worker.ports /\ worker'.had = worker.had /\ worker'.pending = worker.pending
      /\ worker'.todo = worker.todo \ {s}
  BY <1>0, <1>1 DEF IsWorker
<1>3. s \in Service /\ Final[s] = {} /\ Held(s) = {}
  BY <1>0 DEF RouteInv, SyncTodo, Planned, Final
<1>4. Settled(s) = {}
  BY <1>3 DEF Settled
<1>5. /\ IsRoutes(routes)' /\ NoneDropped
      /\ \A t \in Service : \A h \in (Final[t] \cap Routed') \ worker.pending : h \in routes'[t].hosts
      /\ \A t \in Service : routes'[t].hosts \subseteq May(t)
  <2>1. CASE UNCHANGED routes
    BY <1>0, <2>1 DEF IsRoutes, NoneDropped, Routed, SyncHolds
  <2>2. CASE routes' = [routes EXCEPT ![s] = NoRoute]
    <3>1. routes' = [routes EXCEPT ![s] = [hosts |-> Settled(s), port |-> 0]]
      BY <1>4, <2>2 DEF NoRoute
    <3>2. IsRoutes(routes)'
      BY <1>0, <1>3, <3>1, OneWrite
    <3> QED BY <1>0, <1>3, <3>1, <3>2, SettledWrite
  <2> QED BY <1>1, <2>1, <2>2 DEF Drop
<1> QED BY <1>0, <1>2, <1>5, SyncWritten

-----------------------------------------------------------------------------
(* The theorem.                                                              *)

\* Everything else leaves the routes, and either the handler too or idles it.
LEMMA OtherStep ==
  ASSUME RouteInv, UNCHANGED routes, UNCHANGED worker \/ worker' = Idle
  PROVE  RouteInv' /\ NoneDropped
<1>1. CASE UNCHANGED worker
  BY <1>1, Unmoved
<1>2. CASE worker' = Idle
  <2>1. IsRoutes(routes)'
    BY DEF RouteInv, Shape, IsRoutes
  <2> QED BY <1>2, <2>1, BecomesIdle DEF NoneDropped, Routed
<1> QED BY <1>1, <1>2

LEMMA StepHolds ==
  ASSUME RouteInv, [Next]_vars
  PROVE  RouteInv' /\ NoneDropped
<1>1. CASE UNCHANGED vars
  BY <1>1, OtherStep DEF vars
<1>2. CASE Deploy \/ Stop \/ AddDomain \/ MoveDomain \/ DeleteDomain \/ SaveComposeSettings \/ SetDashboardHost
  BY <1>2, OtherStep DEF Deploy, Stop, AddDomain, MoveDomain, DeleteDomain, SaveComposeSettings, SetDashboardHost
<1>3. CASE MarkRunning \/ ReadPlan \/ ComposeUp \/ PassGate
  <2>1. UNCHANGED routes
    BY <1>3 DEF MarkRunning, ReadPlan, ComposeUp, PassGate
  <2> QED BY <1>3, <2>1, PlanStep DEF NoneDropped, Routed
<1>4. CASE ComposeUpFails \/ DeployFails \/ RecordSuccess \/ SyncBlind \/ SyncEnds \/ Crash
  BY <1>4, OtherStep DEF ComposeUpFails, DeployFails, RecordSuccess, SyncBlind, SyncEnds, Crash, JobEnds
<1>5. CASE ServiceDies
  BY <1>5, OtherStep DEF ServiceDies
<1>6. CASE ReadRoutes \/ WriteGaining \/ WriteFinal \/ DropStale
  BY <1>6, ReadStep, GainStep, FinalStep, DropStep
<1>7. CASE SyncReads \/ SyncGaining \/ SyncFinal \/ SyncDrops
  BY <1>7, SyncReadStep, SyncGainStep, SyncFinalStep, SyncDropStep
<1>8. CASE StopStack
  BY <1>8, StopStep
<1> QED BY <1>1, <1>2, <1>3, <1>4, <1>5, <1>6, <1>7, <1>8 DEF Next

\* At every write of a stack's routes, by a deploy, a sync or a stop, whatever
\* fails and wherever it is cut off, a host that is routed and still planned
\* stays routed (applyStackRoutes and syncStackRoutes: gaining routes first).
THEOREM NoHostDropped == Spec => HostNeverDropped
<1>1. Init => RouteInv
  BY InitRoutes
<1>2. RouteInv /\ [Next]_vars => RouteInv' /\ [Routed \cap PlannedHosts(worker.plan) \subseteq Routed']_vars
  BY StepHolds DEF NoneDropped
<1> QED BY <1>1, <1>2, PTL DEF Spec, HostNeverDropped

LEMMA AlwaysRoutes == Spec => []RouteInv
<1>1. Init => RouteInv
  BY InitRoutes
<1>2. RouteInv /\ [Next]_vars => RouteInv'
  BY StepHolds
<1> QED BY <1>1, <1>2, PTL DEF Spec

-----------------------------------------------------------------------------
(* What a route may dial.                                                    *)

\* No host, no port.
EmptyIsNone == \A s \in Service : routes[s].hosts = {} => routes[s].port = 0

\* From `up` on, the network has the services the deploy planned.
Passes == {"gain", "final", "drop"}
JoinedIsPlanned == worker.pc \in {"up", "gated"} \cup Passes => joined = Planned(worker.plan)
GainsPlanned == At("gain") => worker.todo \subseteq Planned(worker.plan)

\* What a sync may write dials what it dialled, or is new and on the network.
SyncPorts ==
  worker.pc \in {"syncGain", "syncFinal"} =>
    /\ \A s \in HadRoute : routes[s].hosts # {}
    /\ \A s \in Writable : /\ routes[s].port \in {0, worker.ports[s]}
                           /\ worker.had[s] = {} => s \in joined

ReachInv == EmptyIsNone /\ JoinedIsPlanned /\ GainsPlanned /\ SyncPorts

\* The step at hand routes nothing new off the network and moves no live port.
NewOnNetwork == \A s \in Service : routes[s].hosts = {} /\ routes'[s].hosts # {} => s \in joined
PortStays == \A s \in Service : routes[s].port # 0 => routes'[s].port \in {0, routes[s].port}

\* A handler outside its passes has nothing to answer for.
LEMMA ReachOutside ==
  ASSUME EmptyIsNone', JoinedIsPlanned', worker'.pc \notin {"gain", "syncGain", "syncFinal"}
  PROVE  ReachInv'
  BY DEF ReachInv, GainsPlanned, SyncPorts, At

LEMMA ReachUnmoved ==
  ASSUME ReachInv, UNCHANGED <<routes, worker, joined>>
  PROVE  ReachInv' /\ NewOnNetwork /\ PortStays
<1>1. NewOnNetwork /\ PortStays
  BY DEF NewOnNetwork, PortStays
<1>2. HadRoute' = HadRoute /\ Writable' = Writable
  BY DEF HadRoute, Writable
<1> QED BY <1>1, <1>2 DEF ReachInv, EmptyIsNone, JoinedIsPlanned, GainsPlanned, SyncPorts, At

\* The handler ends or is cut off.
LEMMA ReachIdles ==
  ASSUME ReachInv, UNCHANGED routes, worker' = Idle
  PROVE  ReachInv' /\ NewOnNetwork /\ PortStays
<1>1. worker'.pc = "idle"
  BY DEF Idle
<1> QED BY <1>1, ReachOutside DEF ReachInv, EmptyIsNone, JoinedIsPlanned, NewOnNetwork, PortStays, Passes

LEMMA ReachPlan ==
  ASSUME RouteInv, ReachInv, MarkRunning \/ ReadPlan \/ ComposeUp \/ PassGate
  PROVE  ReachInv' /\ NewOnNetwork /\ PortStays
<1>0. UNCHANGED routes /\ IsWorker(worker)
  BY DEF MarkRunning, ReadPlan, ComposeUp, PassGate, RouteInv, Shape
<1>1. EmptyIsNone' /\ NewOnNetwork /\ PortStays
  BY <1>0 DEF ReachInv, EmptyIsNone, NewOnNetwork, PortStays
<1>2. CASE MarkRunning
  <2>1. worker'.pc = "config"
    BY <1>2 DEF MarkRunning, Idle
  <2> QED BY <1>1, <2>1, ReachOutside DEF JoinedIsPlanned, Passes
<1>3. CASE ReadPlan
  <2>1. worker' = Idle \/ worker' = [worker EXCEPT !.pc = "planned", !.plan = PlanRead]
    BY <1>3 DEF ReadPlan, JobEnds
  <2>2. worker'.pc \in {"idle", "planned"}
    <3>1. CASE worker' = Idle
      BY <3>1 DEF Idle
    <3>2. CASE worker' = [worker EXCEPT !.pc = "planned", !.plan = PlanRead]
      BY <1>0, <3>2 DEF IsWorker
    <3> QED BY <2>1, <3>1, <3>2
  <2> QED BY <1>1, <2>2, ReachOutside DEF JoinedIsPlanned, Passes
<1>4. CASE ComposeUp
  <2>1. joined' = Planned(worker.plan) /\ worker' = [worker EXCEPT !.pc = "up"]
    BY <1>4 DEF ComposeUp
  <2>2. worker'.pc = "up" /\ worker'.plan = worker.plan
    BY <1>0, <2>1 DEF IsWorker
  <2> QED BY <1>1, <2>1, <2>2, ReachOutside DEF JoinedIsPlanned, Planned
<1>5. CASE PassGate
  <2>1. At("up") /\ UNCHANGED joined /\ worker' = [worker EXCEPT !.pc = "gated"]
    BY <1>5 DEF PassGate, docker
  <2>2. worker'.pc = "gated" /\ worker'.plan = worker.plan
    BY <1>0, <2>1 DEF IsWorker
  <2> QED BY <1>1, <2>1, <2>2, ReachOutside DEF ReachInv, JoinedIsPlanned, Planned, At
<1> QED BY <1>2, <1>3, <1>4, <1>5

\* One write of a deploy's passes, or of none.
LEMMA ReachWritten ==
  ASSUME IsRoutes(routes), ReachInv, UNCHANGED joined, NEW s \in Service, NEW hosts, NEW port, hosts # {} \/ port = 0,
         routes' = [routes EXCEPT ![s] = [hosts |-> hosts, port |-> port]]
  PROVE  /\ EmptyIsNone'
         /\ (hosts # {} /\ routes[s].hosts = {} => s \in joined) => NewOnNetwork
         /\ (routes[s].port # 0 => port \in {0, routes[s].port}) => PortStays
<1>1. /\ routes'[s].hosts = hosts /\ routes'[s].port = port
      /\ \A t \in Service \ {s} : routes'[t] = routes[t]
  BY DEF IsRoutes
<1> QED BY <1>1 DEF ReachInv, EmptyIsNone, NewOnNetwork, PortStays

LEMMA ReachRead ==
  ASSUME RouteInv, ReachInv, ReadRoutes
  PROVE  ReachInv' /\ NewOnNetwork /\ PortStays
<1>1. /\ At("gated") /\ UNCHANGED <<routes, joined>> /\ IsWorker(worker)
      /\ worker' = [worker EXCEPT !.pc = "gain", !.had = Hosts(routes), !.todo = GainFirstHosts(Hosts(routes), Final)]
  BY DEF ReadRoutes, docker, RouteInv, Shape
<1>2. worker'.pc = "gain" /\ worker'.plan = worker.plan /\ worker'.todo = GainFirstHosts(Hosts(routes), Final)
  BY <1>1 DEF IsWorker
<1>3. GainFirstHosts(Hosts(routes), Final) \subseteq Planned(worker.plan)
  BY DEF GainFirstHosts, Planned, Final
<1>4. GainsPlanned' /\ SyncPorts' /\ JoinedIsPlanned'
  BY <1>1, <1>2, <1>3 DEF GainsPlanned, SyncPorts, JoinedIsPlanned, ReachInv, At, Planned
<1> QED BY <1>1, <1>4 DEF ReachInv, EmptyIsNone, NewOnNetwork, PortStays

LEMMA ReachGain ==
  ASSUME RouteInv, ReachInv, WriteGaining
  PROVE  ReachInv' /\ NewOnNetwork
<1>0. /\ At("gain") /\ worker.pc = "gain" /\ IsRoutes(routes) /\ IsWorker(worker) /\ UNCHANGED joined
      /\ joined = Planned(worker.plan)
  BY DEF WriteGaining, At, RouteInv, Shape, docker, ReachInv, JoinedIsPlanned, Passes
<1>1. CASE worker.todo = {}
  <2>1. UNCHANGED routes /\ worker' = [worker EXCEPT !.pc = "final", !.todo = Planned(worker.plan)]
    BY <1>1 DEF WriteGaining
  <2>2. worker'.pc = "final" /\ worker'.plan = worker.plan
    BY <1>0, <2>1 DEF IsWorker
  <2>3. EmptyIsNone' /\ JoinedIsPlanned' /\ NewOnNetwork
    BY <1>0, <2>1, <2>2 DEF ReachInv, EmptyIsNone, JoinedIsPlanned, NewOnNetwork, Planned
  <2> QED BY <2>2, <2>3, ReachOutside
<1>2. CASE worker.todo # {}
  <2>1. PICK s \in worker.todo :
          /\ worker' = [worker EXCEPT !.todo = @ \ {s}]
          /\ routes' = [routes EXCEPT ![s] = [hosts |-> Final[s] \cup worker.had[s], port |-> worker.plan[s].port]]
    BY <1>2 DEF WriteGaining
  <2>2. worker'.pc = "gain" /\ worker'.plan = worker.plan /\ worker'.todo = worker.todo \ {s}
    BY <1>0, <2>1 DEF IsWorker
  <2>3. s \in Service /\ s \in joined /\ Final[s] # {}
    BY <1>0, <2>1 DEF ReachInv, GainsPlanned, Planned, Final
  <2>4. EmptyIsNone' /\ NewOnNetwork
    BY <1>0, <2>1, <2>3, ReachWritten
  <2>5. JoinedIsPlanned' /\ GainsPlanned' /\ SyncPorts'
    BY <1>0, <2>2 DEF ReachInv, JoinedIsPlanned, GainsPlanned, SyncPorts, At, Planned
  <2> QED BY <2>4, <2>5 DEF ReachInv
<1> QED BY <1>1, <1>2

LEMMA ReachFinal ==
  ASSUME RouteInv, ReachInv, WriteFinal
  PROVE  ReachInv' /\ NewOnNetwork
<1>0. /\ At("final") /\ worker.pc = "final" /\ IsRoutes(routes) /\ IsWorker(worker) /\ UNCHANGED joined
      /\ joined = Planned(worker.plan)
  BY DEF WriteFinal, At, RouteInv, Shape, docker, ReachInv, JoinedIsPlanned, Passes
<1>1. CASE worker.todo = {}
  <2>1. /\ UNCHANGED routes
        /\ worker' = [worker EXCEPT !.pc = "drop",
                                    !.todo = {s \in Service : routes[s].hosts # {}} \ Planned(worker.plan)]
    BY <1>1 DEF WriteFinal
  <2>2. worker'.pc = "drop" /\ worker'.plan = worker.plan
    BY <1>0, <2>1 DEF IsWorker
  <2>3. EmptyIsNone' /\ JoinedIsPlanned' /\ NewOnNetwork
    BY <1>0, <2>1, <2>2 DEF ReachInv, EmptyIsNone, JoinedIsPlanned, NewOnNetwork, Planned
  <2> QED BY <2>2, <2>3, ReachOutside
<1>2. CASE worker.todo # {}
  <2>1. PICK s \in worker.todo :
          worker' = [worker EXCEPT !.todo = @ \ {s}] /\ routes' = [routes EXCEPT ![s] = worker.plan[s]]
    BY <1>2 DEF WriteFinal
  <2>2. worker'.pc = "final" /\ worker'.plan = worker.plan
    BY <1>0, <2>1 DEF IsWorker
  <2>3. s \in Service /\ s \in joined /\ worker.plan[s].hosts # {}
    BY <1>0, <2>1 DEF RouteInv, DeployTodo, Planned
  <2>4. worker.plan[s] = [hosts |-> worker.plan[s].hosts, port |-> worker.plan[s].port]
    BY <2>3 DEF RouteInv, Shape, Planning
  <2>5. routes' = [routes EXCEPT ![s] = [hosts |-> worker.plan[s].hosts, port |-> worker.plan[s].port]]
    BY <2>1, <2>4
  <2>6. EmptyIsNone' /\ NewOnNetwork
    BY <1>0, <2>3, <2>5, ReachWritten
  <2>7. JoinedIsPlanned'
    BY <1>0, <2>2 DEF JoinedIsPlanned, Planned
  <2> QED BY <2>2, <2>6, <2>7, ReachOutside
<1> QED BY <1>1, <1>2

LEMMA ReachDropped ==
  ASSUME ReachInv, IsRoutes(routes), UNCHANGED joined, NEW s \in Service, Drop(s)
  PROVE  EmptyIsNone' /\ NewOnNetwork /\ PortStays
<1>1. CASE UNCHANGED routes
  BY <1>1 DEF ReachInv, EmptyIsNone, NewOnNetwork, PortStays
<1>2. CASE routes' = [routes EXCEPT ![s] = NoRoute]
  BY <1>2, ReachWritten DEF NoRoute
<1> QED BY <1>1, <1>2 DEF Drop

LEMMA ReachDrops ==
  ASSUME RouteInv, ReachInv, DropStale \/ SyncDrops
  PROVE  ReachInv' /\ NewOnNetwork /\ PortStays
<1>0. IsRoutes(routes) /\ IsWorker(worker) /\ UNCHANGED joined /\ worker.pc \in {"drop", "syncDrop"}
  BY DEF DropStale, SyncDrops, At, RouteInv, Shape, docker
<1>1. PICK s \in worker.todo : Drop(s) /\ worker' = [worker EXCEPT !.todo = @ \ {s}]
  BY DEF DropStale, SyncDrops
<1>2. s \in Service
  BY <1>0 DEF RouteInv, DeployTodo, SyncTodo, At
<1>3. worker'.pc = worker.pc /\ worker'.plan = worker.plan
  BY <1>0, <1>1 DEF IsWorker
<1>4. EmptyIsNone' /\ NewOnNetwork /\ PortStays
  BY <1>0, <1>1, <1>2, ReachDropped
<1>5. JoinedIsPlanned'
  BY <1>0, <1>3 DEF ReachInv, JoinedIsPlanned, Planned
<1> QED BY <1>0, <1>3, <1>4, <1>5, ReachOutside

LEMMA ReachSyncRead ==
  ASSUME RouteInv, ReachInv, SyncReads
  PROVE  ReachInv' /\ NewOnNetwork /\ PortStays
<1>0. UNCHANGED <<routes, joined>>
  BY DEF SyncReads, docker
<1>1. PICK blind \in SUBSET Service :
        LET plan == Wanted
            ports == [s \in Service |-> IF plan[s].hosts = {} THEN 0 ELSE CurrentUpstream(plan, s, blind)]
            final == [s \in Service |-> IF ports[s] = 0 THEN {} ELSE plan[s].hosts]
        IN worker' = [pc |-> "syncGain", public |-> Unset, plan |-> plan, ports |-> ports, had |-> Hosts(routes),
                      todo |-> GainFirstHosts(Hosts(routes), final),
                      pending |-> PlannedHosts(plan) \ UNION {final[s] : s \in Service}]
  BY DEF SyncReads
<1>2. /\ worker'.pc = "syncGain" /\ worker'.had = Hosts(routes)
      /\ worker'.ports = [s \in Service |-> IF Wanted[s].hosts = {} THEN 0 ELSE CurrentUpstream(Wanted, s, blind)]
  BY <1>1
<1>3. ASSUME NEW s \in Writable'
      PROVE  routes[s].port \in {0, worker'.ports[s]} /\ (worker'.had[s] = {} => s \in joined)
  <2>1. s \in Service /\ worker'.ports[s] # 0
    BY <1>3 DEF Writable
  <2>2. CurrentUpstream(Wanted, s, blind) # 0 /\ worker'.ports[s] = CurrentUpstream(Wanted, s, blind)
    BY <1>2, <2>1
  <2>3. worker'.had[s] = routes[s].hosts
    BY <1>2, <2>1 DEF Hosts
  <2>4. CASE routes[s].hosts # {}
    BY <2>2, <2>3, <2>4 DEF CurrentUpstream
  <2>5. CASE routes[s].hosts = {}
    BY <2>1, <2>2, <2>5 DEF CurrentUpstream, ReachInv, EmptyIsNone
  <2> QED BY <2>4, <2>5
<1>4. \A s \in HadRoute' : routes[s].hosts # {}
  BY <1>2 DEF HadRoute, Hosts
<1>5. SyncPorts'
  BY <1>0, <1>3, <1>4 DEF SyncPorts
<1>6. JoinedIsPlanned' /\ GainsPlanned'
  BY <1>2 DEF JoinedIsPlanned, GainsPlanned, Passes, At
<1> QED BY <1>0, <1>5, <1>6 DEF ReachInv, EmptyIsNone, NewOnNetwork, PortStays

\* A write of a sync that gives a route hosts.
LEMMA ReachSyncWritten ==
  ASSUME ReachInv, IsRoutes(routes), UNCHANGED joined, worker.pc \in {"syncGain", "syncFinal"},
         worker'.pc = worker.pc, worker'.ports = worker.ports, worker'.had = worker.had,
         NEW s \in Service, NEW hosts, hosts # {}, routes[s].hosts = {} => s \in Writable /\ worker.had[s] = {},
         routes' = [routes EXCEPT ![s] = [hosts |-> hosts, port |-> IF s \in Writable THEN worker.ports[s]
                                                                    ELSE routes[s].port]]
  PROVE  ReachInv' /\ NewOnNetwork /\ PortStays
<1> DEFINE port == IF s \in Writable THEN worker.ports[s] ELSE routes[s].port
<1>1. /\ routes'[s].hosts = hosts /\ routes'[s].port = port
      /\ \A t \in Service \ {s} : routes'[t] = routes[t]
      /\ routes' = [routes EXCEPT ![s] = [hosts |-> hosts, port |-> port]]
  BY DEF IsRoutes
<1>2. routes[s].hosts = {} => s \in joined
  BY DEF ReachInv, SyncPorts
<1>3. routes[s].port # 0 => port \in {0, routes[s].port}
  BY DEF ReachInv, SyncPorts
<1>4. HadRoute' = HadRoute /\ Writable' = Writable
  BY DEF HadRoute, Writable
<1>5. s \in Writable => port = worker.ports[s]
  OBVIOUS
<1> HIDE DEF port
<1>6. EmptyIsNone' /\ NewOnNetwork /\ PortStays
  BY <1>1, <1>2, <1>3, ReachWritten
<1>7. SyncPorts'
  <2>1. \A t \in HadRoute : routes'[t].hosts # {}
    BY <1>1 DEF ReachInv, SyncPorts, HadRoute
  <2>2. \A t \in Writable : routes'[t].port \in {0, worker.ports[t]} /\ (worker.had[t] = {} => t \in joined)
    BY <1>1, <1>5 DEF ReachInv, SyncPorts, Writable
  <2> QED BY <1>4, <2>1, <2>2 DEF SyncPorts
<1>8. JoinedIsPlanned' /\ GainsPlanned'
  BY DEF JoinedIsPlanned, GainsPlanned, Passes, At
<1> QED BY <1>6, <1>7, <1>8 DEF ReachInv

\* One that leaves the routes.
LEMMA ReachSyncKept ==
  ASSUME ReachInv, UNCHANGED <<routes, joined>>, worker.pc \in {"syncGain", "syncFinal"},
         worker'.pc \in {"syncGain", "syncFinal", "syncDrop"}, worker'.ports = worker.ports, worker'.had = worker.had
  PROVE  ReachInv' /\ NewOnNetwork /\ PortStays
<1>1. HadRoute' = HadRoute /\ Writable' = Writable
  BY DEF HadRoute, Writable
<1> QED BY <1>1 DEF ReachInv, EmptyIsNone, JoinedIsPlanned, GainsPlanned, SyncPorts, Passes, At, NewOnNetwork, PortStays

LEMMA ReachSyncGain ==
  ASSUME RouteInv, ReachInv, SyncGaining
  PROVE  ReachInv' /\ NewOnNetwork /\ PortStays
<1>0. At("syncGain") /\ worker.pc = "syncGain" /\ IsRoutes(routes) /\ IsWorker(worker) /\ UNCHANGED joined
  BY DEF SyncGaining, At, RouteInv, Shape, docker
<1>1. CASE worker.todo = {}
  <2>1. UNCHANGED routes /\ worker' = [worker EXCEPT !.pc = "syncFinal", !.todo = Writable \cup HadRoute]
    BY <1>1 DEF SyncGaining
  <2>2. worker'.pc = "syncFinal" /\ worker'.ports = worker.ports /\ worker'.had = worker.had
    BY <1>0, <2>1 DEF IsWorker
  <2> QED BY <1>0, <2>1, <2>2, ReachSyncKept
<1>2. CASE worker.todo # {}
  <2>1. PICK s \in worker.todo :
          \/ /\ worker' = [worker EXCEPT !.todo = @ \ {s}]
             /\ routes' = [routes EXCEPT ![s] = [hosts |-> Final[s] \cup worker.had[s], port |-> worker.ports[s]]]
          \/ worker' = [worker EXCEPT !.todo = @ \ {s}, !.pending = @ \cup Final[s]] /\ UNCHANGED routes
    BY <1>2 DEF SyncGaining
  <2>2. worker'.pc = "syncGain" /\ worker'.ports = worker.ports /\ worker'.had = worker.had
    BY <1>0, <2>1 DEF IsWorker
  <2>3. s \in Service /\ SyncFinals[s] # {} /\ worker.had[s] \subseteq routes[s].hosts
    BY <1>0, <2>1 DEF RouteInv, SyncGains, GainFirstHosts
  <2>4. s \in Writable /\ Final[s] # {}
    BY <2>3 DEF SyncFinals
  <2>5. CASE UNCHANGED routes
    BY <1>0, <2>2, <2>5, ReachSyncKept
  <2>6. CASE routes' = [routes EXCEPT ![s] = [hosts |-> Final[s] \cup worker.had[s], port |-> worker.ports[s]]]
    <3> DEFINE hosts == Final[s] \cup worker.had[s]
    <3>1. /\ hosts # {} /\ (routes[s].hosts = {} => worker.had[s] = {})
          /\ routes' = [routes EXCEPT ![s] = [hosts |-> hosts, port |-> IF s \in Writable THEN worker.ports[s]
                                                                        ELSE routes[s].port]]
      BY <2>3, <2>4, <2>6
    <3> HIDE DEF hosts
    <3> QED BY <1>0, <2>2, <2>3, <2>4, <3>1, ReachSyncWritten
  <2> QED BY <2>1, <2>5, <2>6
<1> QED BY <1>1, <1>2

LEMMA ReachSyncFinal ==
  ASSUME RouteInv, ReachInv, SyncFinal
  PROVE  ReachInv' /\ NewOnNetwork /\ PortStays
<1>0. At("syncFinal") /\ worker.pc = "syncFinal" /\ IsRoutes(routes) /\ IsWorker(worker) /\ UNCHANGED joined
  BY DEF SyncFinal, At, RouteInv, Shape, docker
<1>1. CASE worker.todo = {}
  <2>1. /\ UNCHANGED routes
        /\ worker' = [worker EXCEPT !.pc = "syncDrop",
                                    !.todo = {s \in HadRoute \ Planned(worker.plan) : Held(s) = {}}]
    BY <1>1 DEF SyncFinal
  <2>2. worker'.pc = "syncDrop" /\ worker'.ports = worker.ports /\ worker'.had = worker.had
    BY <1>0, <2>1 DEF IsWorker
  <2> QED BY <1>0, <2>1, <2>2, ReachSyncKept
<1>2. CASE worker.todo # {}
  <2>1. PICK s \in worker.todo :
          /\ worker' = [worker EXCEPT !.todo = @ \ {s}]
          /\ \/ /\ Settled(s) # {}
                /\ routes' = [routes EXCEPT ![s] = [hosts |-> Settled(s),
                                port |-> IF s \in Writable THEN worker.ports[s] ELSE routes[s].port]]
             \/ UNCHANGED routes
    BY <1>2 DEF SyncFinal
  <2>2. worker'.pc = "syncFinal" /\ worker'.ports = worker.ports /\ worker'.had = worker.had
    BY <1>0, <2>1 DEF IsWorker
  <2>3. s \in Service
    BY <1>0 DEF RouteInv, SyncTodo
  <2>4. CASE UNCHANGED routes
    BY <1>0, <2>2, <2>4, ReachSyncKept
  <2>5. CASE /\ Settled(s) # {}
             /\ routes' = [routes EXCEPT ![s] = [hosts |-> Settled(s),
                             port |-> IF s \in Writable THEN worker.ports[s] ELSE routes[s].port]]
    <3>1. routes[s].hosts = {} => s \in Writable /\ worker.had[s] = {}
      BY <1>0, <2>3, <2>5 DEF ReachInv, SyncPorts, HadRoute, Settled, Held
    <3> QED BY <1>0, <2>2, <2>3, <2>5, <3>1, ReachSyncWritten
  <2> QED BY <2>1, <2>4, <2>5
<1> QED BY <1>1, <1>2

LEMMA ReachStop ==
  ASSUME RouteInv, ReachInv, StopStack
  PROVE  ReachInv' /\ NewOnNetwork /\ PortStays
<1>1. PICK left \in SUBSET Service : routes' = [s \in Service |-> IF s \in left THEN routes[s] ELSE NoRoute]
  BY DEF StopStack
<1>2. EmptyIsNone' /\ NewOnNetwork /\ PortStays
  BY <1>1 DEF ReachInv, EmptyIsNone, NewOnNetwork, PortStays, NoRoute
<1>3. worker'.pc = "idle"
  BY DEF StopStack, JobEnds, Idle
<1> QED BY <1>2, <1>3, ReachOutside DEF JoinedIsPlanned, Passes

LEMMA ReachOther ==
  ASSUME RouteInv, ReachInv, ComposeUpFails \/ DeployFails \/ RecordSuccess \/ SyncBlind \/ SyncEnds \/ Crash
  PROVE  ReachInv' /\ NewOnNetwork /\ PortStays
<1>1. UNCHANGED routes /\ worker' = Idle
  BY DEF ComposeUpFails, DeployFails, RecordSuccess, SyncBlind, SyncEnds, Crash, JobEnds
<1> QED BY <1>1, ReachIdles

LEMMA ReachStep ==
  ASSUME RouteInv, ReachInv, [Next]_vars
  PROVE  ReachInv' /\ NewOnNetwork /\ (PortStays \/ worker.pc \in {"gain", "final"})
<1>1. CASE UNCHANGED vars
  BY <1>1, ReachUnmoved DEF vars, docker
<1>2. CASE Deploy \/ Stop \/ AddDomain \/ MoveDomain \/ DeleteDomain \/ SaveComposeSettings \/ SetDashboardHost
           \/ ServiceDies
  <2>1. UNCHANGED <<routes, worker, joined>>
    BY <1>2 DEF Deploy, Stop, AddDomain, MoveDomain, DeleteDomain, SaveComposeSettings, SetDashboardHost, ServiceDies,
       docker
  <2> QED BY <2>1, ReachUnmoved
<1>3. CASE MarkRunning \/ ReadPlan \/ ComposeUp \/ PassGate
  BY <1>3, ReachPlan
<1>4. CASE ComposeUpFails \/ DeployFails \/ RecordSuccess \/ SyncBlind \/ SyncEnds \/ Crash
  BY <1>4, ReachOther
<1>5. CASE ReadRoutes \/ DropStale \/ SyncDrops \/ StopStack
  BY <1>5, ReachRead, ReachDrops, ReachStop
<1>6. CASE WriteGaining \/ WriteFinal
  BY <1>6, ReachGain, ReachFinal DEF WriteGaining, WriteFinal, At
<1>7. CASE SyncReads \/ SyncGaining \/ SyncFinal
  BY <1>7, ReachSyncRead, ReachSyncGain, ReachSyncFinal
<1> QED BY <1>1, <1>2, <1>3, <1>4, <1>5, <1>6, <1>7 DEF Next

LEMMA InitReach == Init => ReachInv
<1> SUFFICES ASSUME Init PROVE ReachInv
  OBVIOUS
<1>1. worker.pc = "idle" /\ \A s \in Service : routes[s].port = 0
  BY DEF Init, Idle, NoPlan, NoRoute
<1> QED BY <1>1 DEF ReachInv, EmptyIsNone, JoinedIsPlanned, GainsPlanned, SyncPorts, Passes, At

LEMMA AlwaysReach == Spec => [](RouteInv /\ ReachInv)
<1>1. Init => RouteInv /\ ReachInv
  BY InitRoutes, InitReach
<1>2. (RouteInv /\ ReachInv) /\ [Next]_vars => (RouteInv /\ ReachInv)'
  BY StepHolds, ReachStep
<1> QED BY <1>1, <1>2, PTL DEF Spec

\* A route appears only for a service on the proxy's network, and a live
\* route's port moves only in the passes of a deploy that came through its
\* gate, whatever was saved or failed since the routes were planned
\* (applyStackRoutes after the gate; currentUpstream in the sync).
THEOREM NewRoutesDialTheNetwork == Spec => NewRouteReachable
<1>1. (RouteInv /\ ReachInv) /\ [Next]_vars
        => [\A s \in Service :
              /\ routes[s].hosts = {} /\ routes'[s].hosts # {} => s \in joined
              /\ routes[s].port # 0 /\ routes'[s].port \notin {0, routes[s].port}
                   => worker.pc \in {"gain", "final"}]_vars
  BY ReachStep DEF NewOnNetwork, PortStays
<1> QED BY <1>1, AlwaysReach, PTL DEF Spec, NewRouteReachable

-----------------------------------------------------------------------------
(* Once the jobs are done.                                                 *)

LEMMA Before ==
  ASSUME NEW S, S \subseteq Nat, S # {}
  PROVE  \E i \in S : \A j \in S : i <= j
<1> DEFINE R == {p \in Nat \X Nat : p[1] < p[2]}
<1>1. IsWellFoundedOn(R, Nat)
  <2>1. OpToRel(<, Nat) = R
    BY DEF OpToRel
  <2> QED BY <2>1, NatLessThanWellFounded
<1>2. \E x \in S : \A y \in S : <<y, x>> \notin R
  <2> HIDE DEF R
  <2> QED BY <1>1, WFMin
<1>3. PICK x \in S : \A y \in S : <<y, x>> \notin R
  BY <1>2
<1>4. ASSUME NEW y \in S, y < x
      PROVE  FALSE
  <2>1. <<y, x>> \in Nat \X Nat /\ <<y, x>>[1] < <<y, x>>[2]
    BY <1>4
  <2> QED BY <2>1, <1>3
<1> QED BY <1>3, <1>4

LEMMA FirstIs ==
  ASSUME NEW S, S \subseteq Nat, S # {}
  PROVE  First(S) \in S
BY Before DEF First

-----------------------------------------------------------------------------
(* The plan.                                                                 *)

\* A row that names a service asks for a port; so does every claim.
SoundRow == {r \in Row : r.service \in Service => r.port \in Port}
Claim == [host : Host, service : Service \cup {NoService}, port : Port \cup {0}]
SoundClaim(theRows, thePublic) ==
  {c \in Claim : /\ c.service \in Service => c.port \in Port
                 /\ c.service # thePublic.service => \E j \in DOMAIN theRows : theRows[j].service = c.service}

LEMMA ClaimsSound ==
  ASSUME NEW theRows \in Seq(SoundRow), NEW thePublic \in Public, NEW auto \in Host \cup {NoHost}
  PROVE  Claims(theRows, thePublic, auto) \in Seq(SoundClaim(theRows, thePublic))
<1> DEFINE T == SoundClaim(theRows, thePublic)
           claim(r) == IF r.service = NoService
                       THEN [host |-> r.host, service |-> thePublic.service, port |-> thePublic.port]
                       ELSE [host |-> r.host, service |-> r.service, port |-> r.port]
           made == [i \in DOMAIN theRows |-> claim(theRows[i])]
           implicit == IF auto = NoHost THEN << >>
                       ELSE << [host |-> auto, service |-> thePublic.service, port |-> thePublic.port] >>
<1>1. /\ thePublic.service \in Service \cup {NoService} /\ thePublic.port \in Port \cup {0}
      /\ thePublic.service \in Service => thePublic.port \in Port
  BY StackNames DEF Public, Unset
<1>2. ASSUME NEW i \in DOMAIN theRows
      PROVE  claim(theRows[i]) \in T
  <2>1. theRows[i] \in SoundRow
    OBVIOUS
  <2>2. /\ theRows[i].host \in Host /\ theRows[i].service \in Service \cup {NoService}
        /\ theRows[i].port \in Port \cup {0} /\ (theRows[i].service \in Service => theRows[i].port \in Port)
    BY <2>1 DEF SoundRow, Row
  <2>3. CASE theRows[i].service = NoService
    BY <1>1, <2>2, <2>3 DEF SoundClaim, Claim
  <2>4. CASE theRows[i].service # NoService
    BY <2>2, <2>4 DEF SoundClaim, Claim
  <2> QED BY <2>3, <2>4
<1>3. \A h \in Host : [host |-> h, service |-> thePublic.service, port |-> thePublic.port] \in T
  BY <1>1 DEF SoundClaim, Claim
<1>4. implicit \in Seq(T)
  <2> HIDE DEF T
  <2> QED BY <1>3
<1>5. made \in Seq(T)
  <2>1. Len(theRows) \in Nat /\ DOMAIN theRows = 1..Len(theRows)
    OBVIOUS
  <2> HIDE DEF T, claim
  <2> QED BY <1>2, <2>1
<1>6. Claims(theRows, thePublic, auto) = made \o implicit
  BY DEF Claims
<1> HIDE DEF T, made, implicit
<1>7. Claims(theRows, thePublic, auto) \in Seq(T)
  BY <1>4, <1>5, <1>6, ConcatProperties
<1> QED BY <1>7 DEF T

\* A plan gives hosts of the rows to services that claim them, one port each,
\* and the dashboard's to none.
LEMMA PlanIsSound ==
  ASSUME NEW theRows \in Seq(SoundRow), NEW thePublic \in Public, NEW auto \in Host \cup {NoHost}, NEW theDashboard
  PROVE  LET plan == RoutingPlan(theRows, thePublic, auto, theDashboard)
         IN /\ plan \in RouteType
            /\ \A s \in Service : plan[s].hosts # {} => plan[s].port # 0
            /\ theDashboard \notin PlannedHosts(plan)
            /\ \A s \in Planned(plan) : s = thePublic.service \/ \E j \in DOMAIN theRows : theRows[j].service = s
<1> DEFINE plan == RoutingPlan(theRows, thePublic, auto, theDashboard)
           claims == Claims(theRows, thePublic, auto)
           T == SoundClaim(theRows, thePublic)
           winner(h) == claims[First({i \in Made(claims) : claims[i].host = h})]
           claimed == {claims[i].host : i \in Made(claims)} \ {theDashboard}
           owned(s) == {h \in claimed : winner(h).service = s /\ winner(h).port = PortIn(claims, thePublic, s)}
<1>1. plan = [s \in Service |-> [hosts |-> owned(s), port |-> PortIn(claims, thePublic, s)]]
  BY DEF RoutingPlan
<1>2. claims \in Seq(T)
  BY ClaimsSound
<1>3. \A i \in DOMAIN claims : claims[i] \in T /\ i \in Nat
  <2> HIDE DEF claims, T
  <2> QED BY <1>2
<1>4. \A h \in claimed : winner(h) \in T
  <2> SUFFICES ASSUME NEW h \in claimed PROVE winner(h) \in T
    OBVIOUS
  <2> DEFINE S == {i \in Made(claims) : claims[i].host = h}
  <2>1. S # {} /\ S \subseteq Nat /\ S \subseteq DOMAIN claims
    BY <1>3 DEF Made
  <2>2. First(S) \in S
    <3> HIDE DEF S
    <3> QED BY <2>1, FirstIs
  <2> QED BY <1>3, <2>1, <2>2
<1>5. ASSUME NEW s \in Service
      PROVE  PortIn(claims, thePublic, s) \in Port \cup {0}
  <2> DEFINE own == {i \in Made(claims) : claims[i].service = s}
  <2>1. thePublic.port \in Port \cup {0}
    BY DEF Public, Unset
  <2>2. own # {} => claims[First(own)].port \in Port \cup {0}
    <3> SUFFICES ASSUME own # {} PROVE claims[First(own)].port \in Port \cup {0}
      OBVIOUS
    <3>1. own \subseteq Nat /\ own \subseteq DOMAIN claims
      BY <1>3 DEF Made
    <3>2. First(own) \in own
      <4> HIDE DEF own
      <4> QED BY <3>1, FirstIs
    <3>3. claims[First(own)] \in Claim
      BY <1>3, <3>1, <3>2 DEF SoundClaim
    <3> HIDE DEF own, claims
    <3> QED BY <3>3 DEF Claim
  <2> QED BY <2>1, <2>2 DEF PortIn
<1>6. claimed \subseteq Host
  <2>1. \A i \in DOMAIN claims : claims[i].host \in Host
    BY <1>3 DEF SoundClaim, Claim
  <2>2. Made(claims) \subseteq DOMAIN claims
    BY DEF Made
  <2> HIDE DEF claims
  <2> QED BY <2>1, <2>2
<1>7. \A s \in Service : \A h \in owned(s) : PortIn(claims, thePublic, s) \in Port
                                        /\ (s = thePublic.service \/ \E j \in DOMAIN theRows : theRows[j].service = s)
  <2> SUFFICES ASSUME NEW s \in Service, NEW h \in owned(s)
               PROVE  PortIn(claims, thePublic, s) \in Port
                      /\ (s = thePublic.service \/ \E j \in DOMAIN theRows : theRows[j].service = s)
    OBVIOUS
  <2>1. winner(h) \in T /\ winner(h).service = s /\ winner(h).port = PortIn(claims, thePublic, s)
    BY <1>4
  <2> HIDE DEF winner, claims
  <2> QED BY <2>1 DEF SoundClaim
<1>8. \A s \in Service : plan[s].hosts = owned(s) /\ plan[s].port = PortIn(claims, thePublic, s)
  BY <1>1
<1>9. theDashboard \notin claimed /\ \A s \in Service : owned(s) \subseteq claimed
  OBVIOUS
<1> HIDE DEF plan, claims, winner, T
<1>10. plan \in RouteType
  BY <1>1, <1>5, <1>6 DEF RouteType
<1> HIDE DEF owned, claimed
<1>11. ASSUME NEW s \in Service, plan[s].hosts # {}
       PROVE  plan[s].port # 0 /\ (s = thePublic.service \/ \E j \in DOMAIN theRows : theRows[j].service = s)
  BY <1>7, <1>8, <1>11, StackNames
<1>12. theDashboard \notin PlannedHosts(plan)
  BY <1>8, <1>9 DEF PlannedHosts
<1> QED BY <1>10, <1>11, <1>12 DEF plan, Planned

-----------------------------------------------------------------------------
(* Types.                                                                    *)

Job == [kind : {"deploy", "sync", "stop"}, file : SUBSET Service]
Handler == [pc : {"idle", "config", "planned", "up", "gated", "gain", "final", "drop",
                  "syncGain", "syncFinal", "syncDrop"},
            public : Public, plan : RouteType, ports : [Service -> Port \cup {0}],
            had : [Service -> SUBSET Host], todo : SUBSET Service, pending : SUBSET Host]

FormsTyped ==
  /\ rows \in Seq(SoundRow) /\ Len(rows) <= MaxRows
  /\ public \in Public /\ dashboard \in Dashboards \cup {NoHost}
  /\ file \in (SUBSET Service) \ {{}}
StoreTyped ==
  /\ recorded \in [services : SUBSET Service, routed : SUBSET Service]
  /\ desired \in {"running", "stopped"} /\ current \in SUBSET Service
  /\ begun \in BOOLEAN
  /\ up \in SUBSET Service /\ joined \in SUBSET Service
BoundsTyped == edits \in 0..MaxEdits /\ faults \in 0..MaxFaults /\ missed \subseteq {"settings", "late", "port", "auto"}
QueueTyped == queue \in Seq(Job) /\ (worker.pc # "idle" => queue # << >>)
WorkTyped == routes \in RouteType /\ worker \in Handler
Typed == FormsTyped /\ StoreTyped /\ BoundsTyped /\ QueueTyped /\ WorkTyped

LEMMA TypedIsTypeOK == Typed => TypeOK
<1> SUFFICES ASSUME Typed PROVE TypeOK
  OBVIOUS
<1>1. rows \in Seq(Row)
  BY DEF Typed, FormsTyped, SoundRow
<1> QED BY <1>1 DEF Typed, FormsTyped, StoreTyped, BoundsTyped, QueueTyped, WorkTyped, Job, Handler, TypeOK

LEMMA PlanNowSound ==
  ASSUME FormsTyped
  PROVE  /\ PlanNow \in RouteType
         /\ \A s \in Service : PlanNow[s].hosts # {} => PlanNow[s].port # 0
         /\ dashboard \notin PlannedHosts(PlanNow)
         /\ \A s \in Planned(PlanNow) : s = public.service \/ \E j \in DOMAIN rows : rows[j].service = s
  BY PlanIsSound, RoutesNames DEF FormsTyped, PlanNow

LEMMA PlanReadSound ==
  ASSUME FormsTyped, worker.public \in Public
  PROVE  /\ PlanRead \in RouteType
         /\ \A s \in Service : PlanRead[s].hosts # {} => PlanRead[s].port # 0
         /\ \A s \in Planned(PlanRead) : s = worker.public.service \/ \E j \in DOMAIN rows : rows[j].service = s
  BY PlanIsSound, RoutesNames DEF FormsTyped, PlanRead

LEMMA InitTyped == Init => Typed
<1> SUFFICES ASSUME Init PROVE Typed
  OBVIOUS
<1>1. FormsTyped
  <2>1. Service \in (SUBSET Service) \ {{}}
    <3>1. Service \in SUBSET Service
      OBVIOUS
    <3>2. Service \notin {{}}
      BY RoutesNames
    <3> QED BY <3>1, <3>2
  <2> QED BY <2>1, RoutesBounds DEF Init, FormsTyped, Public
<1>2. StoreTyped
  BY DEF Init, StoreTyped
<1>3. BoundsTyped
  BY RoutesBounds DEF Init, BoundsTyped
<1>4. NoPlan \in RouteType /\ Idle \in Handler /\ Idle.pc = "idle"
  BY DEF NoPlan, NoRoute, RouteType, Idle, Handler, NoHosts, Unset, Public
<1>5. QueueTyped /\ WorkTyped
  BY <1>4 DEF Init, QueueTyped, WorkTyped
<1> QED BY <1>1, <1>2, <1>3, <1>5 DEF Typed

\* The rows a form leaves.
LEMMA RowsOneMore ==
  ASSUME FormsTyped, Len(rows) < MaxRows, NEW r \in SoundRow, rows' = Append(rows, r)
  PROVE  rows' \in Seq(SoundRow) /\ Len(rows') <= MaxRows
<1>1. rows \in Seq(SoundRow) /\ Len(rows) \in Nat /\ MaxRows \in Nat
  BY RoutesBounds DEF FormsTyped
<1> HIDE DEF SoundRow
<1> QED BY <1>1

LEMMA RowsMoved ==
  ASSUME FormsTyped, NEW i \in DOMAIN rows, NEW s \in Service, NEW p \in Port,
         rows' = [rows EXCEPT ![i].service = s, ![i].port = p]
  PROVE  rows' \in Seq(SoundRow) /\ Len(rows') <= MaxRows
<1>1. rows \in Seq(SoundRow) /\ Len(rows) <= MaxRows /\ i \in 1..Len(rows)
  BY DEF FormsTyped
<1>2. rows[i] \in SoundRow
  BY <1>1
<1> DEFINE r == [rows[i] EXCEPT !.service = s, !.port = p]
<1>3. r \in SoundRow
  BY <1>2 DEF SoundRow, Row
<1>4. rows' = [rows EXCEPT ![i] = r]
  BY <1>1, <1>2 DEF SoundRow, Row
<1> HIDE DEF r
<1>5. [rows EXCEPT ![i] = r] \in Seq(SoundRow) /\ Len([rows EXCEPT ![i] = r]) = Len(rows)
  BY <1>1, <1>3, ExceptSeq, Zenon
<1> QED BY <1>1, <1>4, <1>5

LEMMA RowsOneLess ==
  ASSUME FormsTyped, NEW i \in DOMAIN rows, rows' = SubSeq(rows, 1, i - 1) \o SubSeq(rows, i + 1, Len(rows))
  PROVE  rows' \in Seq(SoundRow) /\ Len(rows') <= MaxRows
<1>1. rows \in Seq(SoundRow) /\ Len(rows) <= MaxRows /\ i \in 1..Len(rows) /\ Len(rows) \in Nat /\ MaxRows \in Nat
  BY RoutesBounds DEF FormsTyped
<1>2. \A j \in 1..Len(rows) : rows[j] \in SoundRow
  BY <1>1
<1> DEFINE before == SubSeq(rows, 1, i - 1)
           after == SubSeq(rows, i + 1, Len(rows))
<1>3. before \in Seq(SoundRow) /\ Len(before) = i - 1
  <2>1. \A j \in 1..(i - 1) : rows[j] \in SoundRow
    BY <1>1, <1>2
  <2> HIDE DEF SoundRow
  <2>2. before \in Seq(SoundRow) /\ Len(before) = IF 1 <= i - 1 THEN i - 1 - 1 + 1 ELSE 0
    BY <1>1, <2>1, SubSeqProperties
  <2> QED BY <1>1, <2>2
<1>4. after \in Seq(SoundRow) /\ Len(after) = Len(rows) - i
  <2>1. \A j \in (i + 1)..Len(rows) : rows[j] \in SoundRow
    BY <1>1, <1>2
  <2> HIDE DEF SoundRow
  <2>2. after \in Seq(SoundRow) /\ Len(after) = IF i + 1 <= Len(rows) THEN Len(rows) - (i + 1) + 1 ELSE 0
    BY <1>1, <2>1, SubSeqProperties
  <2> QED BY <1>1, <2>2
<1> HIDE DEF before, after
<1>5. rows' = before \o after
  BY DEF before, after
<1>6. before \o after \in Seq(SoundRow) /\ Len(before \o after) = Len(before) + Len(after)
  BY <1>3, <1>4, ConcatProperties, Zenon
<1> DEFINE both == before \o after
<1>7. rows' = both /\ both \in Seq(SoundRow) /\ Len(both) = Len(before) + Len(after)
  BY <1>5, <1>6
<1> HIDE DEF both
<1>8. Len(both) <= MaxRows
  <2> DEFINE n == Len(rows)
             b == Len(before)
             a == Len(after)
             m == Len(both)
  <2>1. n \in Nat /\ i \in 1..n /\ n <= MaxRows /\ MaxRows \in Nat /\ b = i - 1 /\ a = n - i /\ m = b + a
    BY <1>1, <1>3, <1>4, <1>7
  <2> HIDE DEF n, a, b, m
  <2>2. m <= MaxRows
    BY <2>1
  <2> QED BY <2>2 DEF m
<1> QED BY <1>7, <1>8

LEMMA RowsSaved ==
  ASSUME FormsTyped, NEW pub \in Public, SaveRows(pub)
  PROVE  rows' \in Seq(SoundRow) /\ Len(rows') <= MaxRows
<1> DEFINE follow(r) == IF \/ pub # Unset /\ r.service = pub.service
                           \/ pub # Unset /\ r.host = AutoHost
                        THEN [r EXCEPT !.service = pub.service, !.port = pub.port]
                        ELSE IF pub = Unset /\ r.auto
                        THEN [r EXCEPT !.service = NoService, !.port = 0]
                        ELSE r
           followed == [i \in DOMAIN rows |-> follow(rows[i])]
           new == [host |-> AutoHost, service |-> pub.service, port |-> pub.port, auto |-> TRUE]
<1>1. /\ rows \in Seq(SoundRow) /\ Len(rows) <= MaxRows /\ Len(rows) \in Nat /\ MaxRows \in Nat
      /\ DOMAIN rows = 1..Len(rows)
  BY RoutesBounds DEF FormsTyped
<1>2. pub # Unset => pub.service \in Service /\ pub.port \in Port
  BY DEF Public
<1>3. ASSUME NEW r \in SoundRow
      PROVE  follow(r) \in SoundRow
  <2>1. CASE \/ pub # Unset /\ r.service = pub.service
             \/ pub # Unset /\ r.host = AutoHost
    BY <1>2, <2>1 DEF SoundRow, Row
  <2>2. CASE ~(\/ pub # Unset /\ r.service = pub.service
               \/ pub # Unset /\ r.host = AutoHost)
    BY <2>2, StackNames DEF SoundRow, Row
  <2> QED BY <2>1, <2>2
<1>4. pub # Unset /\ AutoHost # NoHost => new \in SoundRow
  BY <1>2, RoutesNames DEF SoundRow, Row
<1>5. followed \in Seq(SoundRow) /\ Len(followed) = Len(rows)
  <2> HIDE DEF follow, SoundRow
  <2> QED BY <1>1, <1>3
<1>6. IF pub # Unset /\ AutoHost # NoHost /\ ~Taken(AutoHost)
      THEN Len(rows) < MaxRows /\ rows' = << new >> \o followed
      ELSE rows' = followed
  BY DEF SaveRows
<1> HIDE DEF follow, followed, new, SoundRow
<1>7. CASE pub # Unset /\ AutoHost # NoHost /\ ~Taken(AutoHost)
  <2>1. << new >> \in Seq(SoundRow) /\ Len(<< new >>) = 1
    BY <1>4, <1>7
  <2>2. << new >> \o followed \in Seq(SoundRow) /\ Len(<< new >> \o followed) = Len(<< new >>) + Len(followed)
    BY <1>5, <2>1, ConcatProperties, Zenon
  <2> QED BY <1>1, <1>5, <1>6, <1>7, <2>1, <2>2
<1>8. CASE ~(pub # Unset /\ AutoHost # NoHost /\ ~Taken(AutoHost))
  BY <1>1, <1>5, <1>6, <1>8
<1> QED BY <1>7, <1>8

\* The forms leave what the worker is at and queue behind it.
Grown == /\ queue' \in Seq(Job) /\ Len(queue) <= Len(queue')
         /\ \A i \in 1..Len(queue) : queue'[i] = queue[i]
SyncQueued == Len(queue) < Len(queue') /\ queue'[Len(queue) + 1].kind = "sync"

LEMMA OneQueued ==
  ASSUME NEW q \in Seq(Job), NEW j \in Job
  PROVE  /\ Append(q, j) \in Seq(Job) /\ Len(Append(q, j)) = Len(q) + 1
         /\ \A i \in 1..Len(q) : Append(q, j)[i] = q[i]
         /\ Append(q, j)[Len(q) + 1] = j
<1> HIDE DEF Job
<1> QED OBVIOUS

LEMMA ChoreIs == \A kind \in {"sync", "stop"} : Chore(kind) \in Job /\ Chore(kind).kind = kind
BY DEF Chore, Job

LEMMA DeployIs == \A f \in SUBSET Service : DeployOf(f) \in Job /\ DeployOf(f).kind = "deploy"
BY DEF DeployOf, Job

LEMMA SyncAppended ==
  ASSUME queue \in Seq(Job), queue' = Append(queue, Chore("sync"))
  PROVE  Grown /\ SyncQueued
<1>1. Chore("sync") \in Job /\ Chore("sync").kind = "sync"
  BY ChoreIs
<1>2. Len(queue) \in Nat
  OBVIOUS
<1> QED BY <1>1, <1>2, OneQueued DEF Grown, SyncQueued

LEMMA RoutingApplied ==
  ASSUME queue \in Seq(Job), current \in SUBSET Service, NEW s, NEW p, ApplyStackRouting(s, p)
  PROVE  Grown /\ SyncQueued
<1> DEFINE deploys == {i \in DOMAIN queue : queue[i].kind = "deploy"}
           newest == CHOOSE i \in deploys : \A j \in deploys : j <= i
           running == deploys # {} /\ newest = 1 /\ begun
           synced == Append(queue, Chore("sync"))
           f == IF running THEN queue[newest].file ELSE current
<1>1. queue' = Append(synced, DeployOf(f)) \/ queue' = synced
  BY DEF ApplyStackRouting
<1>2. Chore("sync") \in Job /\ Chore("sync").kind = "sync"
  BY ChoreIs
<1>3. /\ synced \in Seq(Job) /\ Len(synced) = Len(queue) + 1 /\ Len(queue) \in Nat
      /\ \A i \in 1..Len(queue) : synced[i] = queue[i]
      /\ synced[Len(queue) + 1] = Chore("sync")
  BY <1>2, OneQueued
<1>4. f \in SUBSET Service
  <2>1. running => newest = 1 /\ 1 \in 1..Len(queue)
    <3> HIDE DEF Job
    <3> QED OBVIOUS
  <2>2. \A i \in 1..Len(queue) : queue[i].file \in SUBSET Service
    <3>1. \A i \in 1..Len(queue) : queue[i] \in Job
      OBVIOUS
    <3> QED BY <3>1 DEF Job
  <2> HIDE DEF running, newest
  <2> QED BY <2>1, <2>2
<1>5. DeployOf(f) \in Job
  BY <1>4, DeployIs
<1> HIDE DEF synced, f
<1>6. CASE queue' = synced
  BY <1>2, <1>3, <1>6 DEF Grown, SyncQueued
<1>7. CASE queue' = Append(synced, DeployOf(f))
  <2>1. /\ queue' \in Seq(Job) /\ Len(queue') = Len(queue) + 2
        /\ \A i \in 1..Len(queue) + 1 : queue'[i] = synced[i]
    BY <1>3, <1>5, <1>7, OneQueued
  <2> QED BY <1>2, <1>3, <2>1 DEF Grown, SyncQueued
<1> QED BY <1>1, <1>6, <1>7

\* Every form that changes what is planned queues a sync.
Edits == AddDomain \/ MoveDomain \/ DeleteDomain \/ SaveComposeSettings \/ SetDashboardHost
NotRows == <<recorded, desired, current, begun, docker, routes, worker, faults>>

LEMMA EditTyped ==
  ASSUME Typed, Edits
  PROVE  FormsTyped' /\ Grown /\ SyncQueued /\ BoundsTyped' /\ UNCHANGED NotRows
<1>0. FormsTyped /\ queue \in Seq(Job) /\ current \in SUBSET Service /\ BoundsTyped
  BY DEF Typed, QueueTyped, StoreTyped
<1>1. Edit => edits' \in 0..MaxEdits
  BY <1>0, RoutesBounds DEF Edit, BoundsTyped
<1>2. \A s, p : Misses(s, p) => missed' \subseteq {"settings", "late", "port", "auto"}
  BY <1>0 DEF Misses, BoundsTyped
<1>3. CASE AddDomain
  <2>1. PICK h \in Host \ {dashboard}, s \in Service, p \in Port :
          /\ rows' = Append(rows, [host |-> h, service |-> s, port |-> p, auto |-> FALSE])
          /\ ApplyStackRouting(s, p) /\ Misses(s, p)
    BY <1>3 DEF AddDomain
  <2>2. [host |-> h, service |-> s, port |-> p, auto |-> FALSE] \in SoundRow
    BY DEF SoundRow, Row
  <2>3. rows' \in Seq(SoundRow) /\ Len(rows') <= MaxRows
    BY <1>0, <1>3, <2>1, <2>2, RowsOneMore DEF AddDomain
  <2>4. Grown /\ SyncQueued
    BY <1>0, <2>1, RoutingApplied
  <2>5. UNCHANGED <<public, dashboard, file, NotRows>> /\ Edit
    BY <1>3 DEF AddDomain, NotRows
  <2> QED BY <1>0, <1>1, <1>2, <2>1, <2>3, <2>4, <2>5 DEF FormsTyped, BoundsTyped, NotRows
<1>4. CASE MoveDomain
  <2>1. PICK i \in DOMAIN rows, s \in Service, p \in Port :
          /\ rows' = [rows EXCEPT ![i].service = s, ![i].port = p]
          /\ ApplyStackRouting(s, p) /\ Misses(s, p)
    BY <1>4 DEF MoveDomain
  <2>2. rows' \in Seq(SoundRow) /\ Len(rows') <= MaxRows
    BY <1>0, <2>1, RowsMoved
  <2>3. Grown /\ SyncQueued
    BY <1>0, <2>1, RoutingApplied
  <2>4. UNCHANGED <<public, dashboard, file, NotRows>> /\ Edit
    BY <1>4 DEF MoveDomain, NotRows
  <2> QED BY <1>0, <1>1, <1>2, <2>1, <2>2, <2>3, <2>4 DEF FormsTyped, BoundsTyped, NotRows
<1>5. CASE DeleteDomain
  <2>1. /\ UNCHANGED <<public, dashboard, file, NotRows>> /\ Edit
        /\ queue' = Append(queue, Chore("sync")) /\ missed' \subseteq {"settings", "late", "port", "auto"}
    BY <1>0, <1>5 DEF DeleteDomain, NotRows, MissesAuto, BoundsTyped
  <2>2. PICK i \in DOMAIN rows : rows' = SubSeq(rows, 1, i - 1) \o SubSeq(rows, i + 1, Len(rows))
    BY <1>5 DEF DeleteDomain
  <2>3. rows' \in Seq(SoundRow) /\ Len(rows') <= MaxRows
    BY <1>0, <2>2, RowsOneLess
  <2>4. Grown /\ SyncQueued
    BY <1>0, <2>1, SyncAppended
  <2> QED BY <1>0, <1>1, <2>1, <2>3, <2>4 DEF FormsTyped, BoundsTyped, NotRows
<1>6. CASE SaveComposeSettings
  <2>1. /\ UNCHANGED <<dashboard, NotRows>> /\ Edit
        /\ queue' = Append(queue, Chore("sync")) /\ missed' = missed \cup {"settings"}
    BY <1>6 DEF SaveComposeSettings, NotRows
  <2>2. PICK f \in (SUBSET Service) \ {{}}, pub \in Public : file' = f /\ public' = pub /\ SaveRows(pub)
    BY <1>6 DEF SaveComposeSettings
  <2>3. rows' \in Seq(SoundRow) /\ Len(rows') <= MaxRows
    BY <1>0, <2>2, RowsSaved
  <2>4. Grown /\ SyncQueued
    BY <1>0, <2>1, SyncAppended
  <2> QED BY <1>0, <1>1, <2>1, <2>2, <2>3, <2>4 DEF FormsTyped, BoundsTyped, NotRows
<1>7. CASE SetDashboardHost
  <2>1. /\ UNCHANGED <<rows, public, file, NotRows>> /\ Edit
        /\ queue' = Append(queue, Chore("sync")) /\ missed' = missed \cup {"settings"}
        /\ dashboard' \in Dashboards \cup {NoHost}
    BY <1>7 DEF SetDashboardHost, NotRows
  <2>2. Grown /\ SyncQueued
    BY <1>0, <2>1, SyncAppended
  <2> QED BY <1>0, <1>1, <2>1, <2>2 DEF FormsTyped, BoundsTyped, NotRows
<1> QED BY <1>3, <1>4, <1>5, <1>6, <1>7 DEF Edits

LEMMA AskTyped ==
  ASSUME Typed, Deploy \/ Stop
  PROVE  /\ UNCHANGED <<forms, NotRows>> /\ Grown /\ BoundsTyped'
         /\ Len(queue') = Len(queue) + 1 /\ queue'[Len(queue) + 1].kind # "sync"
<1>0. file \in SUBSET Service /\ queue \in Seq(Job) /\ Len(queue) \in Nat /\ BoundsTyped
  BY DEF Typed, QueueTyped, FormsTyped
<1>1. PICK j \in {DeployOf(file), Chore("stop")} : queue' = Append(queue, j)
  BY DEF Deploy, Stop
<1>2. j \in Job /\ j.kind # "sync"
  BY <1>0, ChoreIs, DeployIs
<1>3. Grown /\ Len(queue') = Len(queue) + 1 /\ queue'[Len(queue) + 1] = j
  BY <1>0, <1>1, <1>2, OneQueued DEF Grown
<1>4. BoundsTyped'
  <2>1. Edit /\ UNCHANGED <<faults, missed>>
    BY DEF Deploy, Stop
  <2> QED BY <1>0, <2>1, RoutesBounds DEF Edit, BoundsTyped
<1> QED BY <1>2, <1>3, <1>4 DEF Deploy, Stop, NotRows, forms

LEMMA FormTyped ==
  ASSUME Typed, Edits \/ Deploy \/ Stop
  PROVE  Typed'
<1>1. Grown /\ UNCHANGED NotRows /\ FormsTyped' /\ BoundsTyped'
  <2>1. CASE Edits
    BY <2>1, EditTyped
  <2>2. CASE Deploy \/ Stop
    BY <2>2, AskTyped DEF Typed, FormsTyped, forms
  <2> QED BY <2>1, <2>2
<1>2. queue' \in Seq(Job) /\ (worker.pc # "idle" => queue' # << >>)
  BY <1>1 DEF Grown, Typed, QueueTyped
<1> QED BY <1>1, <1>2 DEF Typed, StoreTyped, QueueTyped, WorkTyped, NotRows, docker

\* The worker's steps: the queue loses its first job or stays.
LEMMA JobEnded ==
  ASSUME QueueTyped, queue # << >>, JobEnds
  PROVE  QueueTyped' /\ worker'.pc = "idle" /\ worker' \in Handler /\ begun' = FALSE
<1>1. queue' \in Seq(Job)
  BY DEF JobEnds, QueueTyped
<1>2. Idle \in Handler /\ Idle.pc = "idle"
  BY DEF NoPlan, NoRoute, RouteType, Idle, Handler, NoHosts, Unset, Public
<1> QED BY <1>1, <1>2 DEF QueueTyped, JobEnds

LEMMA FirstJob ==
  ASSUME QueueTyped, queue # << >>
  PROVE  Head(queue) \in Job /\ Head(queue).file \in SUBSET Service
<1>1. Head(queue) \in Job
  BY DEF QueueTyped
<1> QED BY <1>1 DEF Job

LEMMA FaultTyped ==
  ASSUME BoundsTyped, UNCHANGED <<edits, missed>>, UNCHANGED faults \/ Fault
  PROVE  BoundsTyped'
  BY RoutesBounds DEF BoundsTyped, Fault

LEMMA HostsTyped ==
  ASSUME WorkTyped
  PROVE  /\ Hosts(routes) \in [Service -> SUBSET Host] /\ Final \in [Service -> SUBSET Host]
         /\ Planned(worker.plan) \subseteq Service
  BY DEF WorkTyped, RouteType, Handler, Hosts, Final, Planned

LEMMA RouteWritten ==
  ASSUME routes \in RouteType, NEW s \in Service, NEW hosts \in SUBSET Host, NEW port \in Port \cup {0},
         routes' = [routes EXCEPT ![s] = [hosts |-> hosts, port |-> port]]
  PROVE  routes' \in RouteType
<1> DEFINE R == [hosts : SUBSET Host, port : Port \cup {0}]
<1>1. [hosts |-> hosts, port |-> port] \in R
  OBVIOUS
<1>2. routes \in [Service -> R]
  BY DEF RouteType
<1> HIDE DEF R
<1>3. routes' \in [Service -> R]
  BY <1>1, <1>2
<1> QED BY <1>3 DEF RouteType, R

LEMMA DroppedTyped ==
  ASSUME routes \in RouteType, NEW s \in Service, Drop(s)
  PROVE  routes' \in RouteType /\ (UNCHANGED faults \/ Fault)
<1>1. CASE routes' = [routes EXCEPT ![s] = NoRoute]
  <2>1. routes' \in RouteType
    BY <1>1, RouteWritten DEF NoRoute
  <2> QED BY <2>1 DEF Drop
<1>2. CASE UNCHANGED routes
  BY <1>2 DEF Drop
<1> QED BY <1>1, <1>2 DEF Drop

\* A deploy up to its reading of the routes.
LEMMA PlanTyped ==
  ASSUME Typed, MarkRunning \/ ReadPlan \/ ComposeUp \/ PassGate
  PROVE  Typed'
<1>0. /\ FormsTyped /\ StoreTyped /\ BoundsTyped /\ QueueTyped /\ routes \in RouteType /\ worker \in Handler
      /\ Idle \in Handler
  BY DEF Typed, WorkTyped, NoPlan, NoRoute, RouteType, Idle, Handler, NoHosts, Unset, Public
<1>1. FormsTyped' /\ routes' \in RouteType /\ queue # << >>
  BY <1>0 DEF MarkRunning, ReadPlan, ComposeUp, PassGate, forms, FormsTyped, Take, QueueTyped, At
<1>2. CASE MarkRunning
  <2>1. worker' \in Handler
    <3>1. public \in Public
      BY <1>0 DEF FormsTyped
    <3> QED BY <1>0, <1>2, <3>1 DEF MarkRunning, Handler
  <2> QED BY <1>0, <1>1, <1>2, <2>1 DEF MarkRunning, Typed, StoreTyped, BoundsTyped, QueueTyped, WorkTyped, docker
<1>3. CASE ReadPlan
  <2>1. UNCHANGED <<recorded, desired, current, docker, edits, faults>> /\ missed' \subseteq {"settings", "late", "port", "auto"}
    BY <1>0, <1>3 DEF ReadPlan, BoundsTyped
  <2>2. CASE JobEnds
    BY <1>0, <1>1, <2>1, <2>2, JobEnded DEF Typed, StoreTyped, BoundsTyped, WorkTyped, docker
  <2>3. CASE worker' = [worker EXCEPT !.pc = "planned", !.plan = PlanRead] /\ UNCHANGED <<queue, begun>>
    <3>1. PlanRead \in RouteType
      <4>1. worker.public \in Public
        BY <1>0 DEF Handler
      <4> QED BY <1>0, <4>1, PlanReadSound
    <3>2. worker' \in Handler
      BY <1>0, <2>3, <3>1 DEF Handler
    <3> QED BY <1>0, <1>1, <2>1, <2>3, <3>2 DEF Typed, StoreTyped, BoundsTyped, WorkTyped, QueueTyped, docker
  <2> QED BY <1>3, <2>1, <2>2, <2>3 DEF ReadPlan
<1>4. CASE ComposeUp
  <2>1. /\ up' = Head(queue).file /\ joined' = Planned(worker.plan)
        /\ recorded' = [recorded EXCEPT !.routed = Planned(worker.plan)]
        /\ worker' = [worker EXCEPT !.pc = "up"]
        /\ UNCHANGED <<desired, current, queue, begun, edits, faults, missed>>
    BY <1>4 DEF ComposeUp
  <2>2. Head(queue).file \in SUBSET Service /\ Planned(worker.plan) \in SUBSET Service
    BY <1>0, <1>1, FirstJob DEF Planned
  <2>3. worker' \in Handler
    BY <1>0, <2>1 DEF Handler
  <2>4. StoreTyped'
    BY <1>0, <2>1, <2>2 DEF StoreTyped
  <2> QED BY <1>0, <1>1, <2>1, <2>3, <2>4 DEF Typed, BoundsTyped, WorkTyped, QueueTyped
<1>5. CASE PassGate
  <2>1. worker' \in Handler
    BY <1>0, <1>5 DEF PassGate, Handler
  <2> QED BY <1>0, <1>1, <1>5, <2>1 DEF PassGate, Typed, StoreTyped, BoundsTyped, QueueTyped, WorkTyped, docker
<1> QED BY <1>2, <1>3, <1>4, <1>5

\* The steps that end the job or cut it off.
LEMMA EndTyped ==
  ASSUME Typed, ComposeUpFails \/ DeployFails \/ RecordSuccess \/ SyncBlind \/ SyncEnds \/ StopStack
  PROVE  Typed'
<1>0. FormsTyped /\ StoreTyped /\ BoundsTyped /\ QueueTyped /\ routes \in RouteType /\ worker \in Handler
  BY DEF Typed, WorkTyped
<1>1. queue # << >> /\ JobEnds /\ UNCHANGED forms
  BY <1>0 DEF ComposeUpFails, DeployFails, RecordSuccess, SyncBlind, SyncEnds, StopStack, Take, QueueTyped, At, Deploying
<1>2. QueueTyped' /\ worker' \in Handler /\ begun' = FALSE /\ FormsTyped'
  BY <1>0, <1>1, JobEnded DEF FormsTyped, forms
<1>3. Head(queue).file \in SUBSET Service
  BY <1>0, <1>1, FirstJob
<1>4. BoundsTyped'
  <2>1. UNCHANGED <<edits, missed>>
    BY DEF ComposeUpFails, DeployFails, RecordSuccess, SyncBlind, SyncEnds, StopStack
  <2>2. UNCHANGED faults \/ Fault
    BY DEF ComposeUpFails, DeployFails, RecordSuccess, SyncBlind, SyncEnds, StopStack
  <2> QED BY <1>0, <2>1, <2>2, FaultTyped
<1>5. CASE ComposeUpFails
  <2>1. UNCHANGED <<recorded, desired, current, routes>>
    BY <1>5 DEF ComposeUpFails
  <2>2. PICK some \in SUBSET Head(queue).file :
          up' = up \cup some /\ joined' = (joined \ some) \cup (some \cap Planned(worker.plan))
    BY <1>5 DEF ComposeUpFails
  <2>3. StoreTyped'
    BY <1>0, <1>2, <1>3, <2>1, <2>2 DEF StoreTyped
  <2> QED BY <1>0, <1>2, <1>4, <2>1, <2>3 DEF Typed, WorkTyped
<1>6. CASE DeployFails \/ SyncBlind \/ SyncEnds
  <2>1. UNCHANGED <<recorded, desired, current, routes, docker>>
    BY <1>6 DEF DeployFails, SyncBlind, SyncEnds
  <2>2. StoreTyped'
    BY <1>0, <1>2, <2>1 DEF StoreTyped, docker
  <2> QED BY <1>0, <1>2, <1>4, <2>1, <2>2 DEF Typed, WorkTyped
<1>7. CASE RecordSuccess
  <2>1. /\ UNCHANGED <<routes, docker>> /\ current' = Head(queue).file /\ desired' = "running"
        /\ recorded' = [recorded EXCEPT !.services = Head(queue).file]
    BY <1>7 DEF RecordSuccess
  <2>2. StoreTyped'
    BY <1>0, <1>2, <1>3, <2>1 DEF StoreTyped, docker
  <2> QED BY <1>0, <1>2, <1>4, <2>1, <2>2 DEF Typed, WorkTyped
<1>8. CASE StopStack
  <2>1. up' = {} /\ desired' = "stopped" /\ UNCHANGED <<recorded, current, joined>>
    BY <1>8 DEF StopStack
  <2>2. PICK left \in SUBSET Service : routes' = [s \in Service |-> IF s \in left THEN routes[s] ELSE NoRoute]
    BY <1>8 DEF StopStack
  <2>3. routes' \in RouteType
    BY <1>0, <2>2 DEF RouteType, NoRoute
  <2>4. StoreTyped'
    BY <1>0, <1>2, <2>1 DEF StoreTyped
  <2> QED BY <1>0, <1>2, <1>4, <2>3, <2>4 DEF Typed, WorkTyped
<1> QED BY <1>5, <1>6, <1>7, <1>8

\* A pass's step changes routes and the handler only.
LEMMA PassKeeps ==
  ASSUME Typed, UNCHANGED <<forms, recorded, desired, current, queue, begun, docker, edits, missed>>,
         UNCHANGED faults \/ Fault, queue # << >>, WorkTyped'
  PROVE  Typed'
<1>1. BoundsTyped'
  BY FaultTyped DEF Typed
<1> QED BY <1>1 DEF Typed, FormsTyped, StoreTyped, QueueTyped, forms, docker

LEMMA DeployPassTyped ==
  ASSUME Typed, RouteInv, ReadRoutes \/ WriteGaining \/ WriteFinal \/ DropStale
  PROVE  Typed'
<1>0. routes \in RouteType /\ worker \in Handler /\ WorkTyped
  BY DEF Typed, WorkTyped
<1>1. /\ UNCHANGED <<forms, recorded, desired, current, queue, begun, docker, edits, missed>>
      /\ queue # << >>
  BY DEF ReadRoutes, WriteGaining, WriteFinal, DropStale, Typed, QueueTyped, At
<1>2. /\ Hosts(routes) \in [Service -> SUBSET Host] /\ Final \in [Service -> SUBSET Host]
      /\ Planned(worker.plan) \in SUBSET Service
  BY <1>0, HostsTyped
<1>3. /\ worker.todo \in SUBSET Service /\ worker.had \in [Service -> SUBSET Host]
      /\ \A s \in Service : worker.plan[s] \in [hosts : SUBSET Host, port : Port \cup {0}]
  BY <1>0 DEF Handler, RouteType
<1>4. CASE ReadRoutes
  <2>1. worker' = [worker EXCEPT !.pc = "gain", !.had = Hosts(routes), !.todo = GainFirstHosts(Hosts(routes), Final)]
    BY <1>4 DEF ReadRoutes
  <2>2. GainFirstHosts(Hosts(routes), Final) \in SUBSET Service
    BY DEF GainFirstHosts
  <2>3. worker' \in Handler
    BY <1>0, <1>2, <2>1, <2>2 DEF Handler
  <2> QED BY <1>0, <1>1, <1>4, <2>3, PassKeeps DEF WorkTyped, ReadRoutes
<1>5. CASE WriteGaining
  <2>1. CASE worker.todo = {}
    <3>1. worker' = [worker EXCEPT !.pc = "final", !.todo = Planned(worker.plan)] /\ UNCHANGED <<routes, faults>>
      BY <1>5, <2>1 DEF WriteGaining
    <3>2. worker' \in Handler
      BY <1>0, <1>2, <3>1 DEF Handler
    <3> QED BY <1>0, <1>1, <3>1, <3>2, PassKeeps DEF WorkTyped
  <2>2. CASE worker.todo # {}
    <3>1. PICK s \in worker.todo :
            /\ worker' = [worker EXCEPT !.todo = @ \ {s}]
            /\ routes' = [routes EXCEPT ![s] = [hosts |-> Final[s] \cup worker.had[s], port |-> worker.plan[s].port]]
      BY <1>5, <2>2 DEF WriteGaining
    <3>2. /\ s \in Service /\ Final[s] \cup worker.had[s] \in SUBSET Host /\ worker.plan[s].port \in Port \cup {0}
      BY <1>2, <1>3, <3>1
    <3>3. routes' \in RouteType
      BY <1>0, <3>1, <3>2, RouteWritten
    <3>4. worker' \in Handler
      BY <1>0, <3>1 DEF Handler
    <3> QED BY <1>0, <1>1, <1>5, <3>3, <3>4, PassKeeps DEF WorkTyped, WriteGaining
  <2> QED BY <2>1, <2>2
<1>6. CASE WriteFinal
  <2>1. CASE worker.todo = {}
    <3>1. /\ worker' = [worker EXCEPT !.pc = "drop",
                                !.todo = {s \in Service : routes[s].hosts # {}} \ Planned(worker.plan)]
          /\ UNCHANGED <<routes, faults>>
      BY <1>6, <2>1 DEF WriteFinal
    <3>2. worker' \in Handler
      BY <1>0, <3>1 DEF Handler
    <3> QED BY <1>0, <1>1, <3>1, <3>2, PassKeeps DEF WorkTyped
  <2>2. CASE worker.todo # {}
    <3>1. PICK s \in worker.todo :
            worker' = [worker EXCEPT !.todo = @ \ {s}] /\ routes' = [routes EXCEPT ![s] = worker.plan[s]]
      BY <1>6, <2>2 DEF WriteFinal
    <3>2. s \in Service /\ worker.plan[s] \in [hosts : SUBSET Host, port : Port \cup {0}]
      BY <1>3, <3>1
    <3>3. routes' \in RouteType
      BY <1>0, <3>1, <3>2 DEF RouteType
    <3>4. worker' \in Handler
      BY <1>0, <3>1 DEF Handler
    <3> QED BY <1>0, <1>1, <1>6, <3>3, <3>4, PassKeeps DEF WorkTyped, WriteFinal
  <2> QED BY <2>1, <2>2
<1>7. CASE DropStale
  <2>1. PICK s \in worker.todo : Drop(s) /\ worker' = [worker EXCEPT !.todo = @ \ {s}]
    BY <1>7 DEF DropStale
  <2>2. routes' \in RouteType /\ (UNCHANGED faults \/ Fault)
    BY <1>0, <1>3, <2>1, DroppedTyped
  <2>3. worker' \in Handler
    BY <1>0, <2>1 DEF Handler
  <2> QED BY <1>1, <2>2, <2>3, PassKeeps DEF WorkTyped
<1> QED BY <1>4, <1>5, <1>6, <1>7

LEMMA SyncReadTyped ==
  ASSUME Typed, SyncReads
  PROVE  Typed'
<1>0. FormsTyped /\ routes \in RouteType /\ WorkTyped
  BY DEF Typed, WorkTyped
<1>1. /\ UNCHANGED <<forms, recorded, desired, current, queue, begun, docker, routes, edits, missed>>
      /\ queue # << >>
  BY DEF SyncReads, Take
<1>2. PICK blind \in SUBSET Service :
        /\ IF blind = {} THEN UNCHANGED faults ELSE Fault
        /\ LET plan == Wanted
               ports == [s \in Service |-> IF plan[s].hosts = {} THEN 0 ELSE CurrentUpstream(plan, s, blind)]
               final == [s \in Service |-> IF ports[s] = 0 THEN {} ELSE plan[s].hosts]
           IN worker' = [pc |-> "syncGain", public |-> Unset, plan |-> plan, ports |-> ports, had |-> Hosts(routes),
                         todo |-> GainFirstHosts(Hosts(routes), final),
                         pending |-> PlannedHosts(plan) \ UNION {final[s] : s \in Service}]
  BY DEF SyncReads
<1> DEFINE plan == Wanted
           ports == [s \in Service |-> IF plan[s].hosts = {} THEN 0 ELSE CurrentUpstream(plan, s, blind)]
           final == [s \in Service |-> IF ports[s] = 0 THEN {} ELSE plan[s].hosts]
           todo == GainFirstHosts(Hosts(routes), final)
           pending == PlannedHosts(plan) \ UNION {final[s] : s \in Service}
<1>3. plan \in RouteType
  <2>1. PlanNow \in RouteType
    BY <1>0, PlanNowSound
  <2> QED BY <2>1 DEF Wanted, NoPlan, NoRoute, RouteType
<1>4. \A s \in Service : plan[s].hosts \in SUBSET Host /\ CurrentUpstream(plan, s, blind) \in Port \cup {0}
  <2> HIDE DEF plan
  <2> QED BY <1>0, <1>3 DEF RouteType, CurrentUpstream
<1>5. worker' = [pc |-> "syncGain", public |-> Unset, plan |-> plan, ports |-> ports, had |-> Hosts(routes), todo |-> todo,
                 pending |-> pending]
  BY <1>2
<1> HIDE DEF plan
<1>6. ports \in [Service -> Port \cup {0}] /\ todo \in SUBSET Service
  BY <1>4 DEF GainFirstHosts
<1>7. pending \in SUBSET Host
  BY <1>4 DEF PlannedHosts
<1>8. Hosts(routes) \in [Service -> SUBSET Host]
  BY <1>0, HostsTyped
<1> HIDE DEF ports, todo, pending
<1>9. worker' \in Handler
  BY <1>3, <1>5, <1>6, <1>7, <1>8 DEF Handler, Unset, Public
<1> QED BY <1>0, <1>1, <1>2, <1>9, PassKeeps DEF WorkTyped

LEMMA SyncPassTyped ==
  ASSUME Typed, RouteInv, SyncGaining \/ SyncFinal \/ SyncDrops
  PROVE  Typed'
<1>0. routes \in RouteType /\ worker \in Handler /\ WorkTyped
  BY DEF Typed, WorkTyped
<1>1. /\ UNCHANGED <<forms, recorded, desired, current, queue, begun, docker, edits, missed>>
      /\ queue # << >>
  BY DEF SyncGaining, SyncFinal, SyncDrops, Typed, QueueTyped, At
<1>2. Final \in [Service -> SUBSET Host]
  BY <1>0, HostsTyped
<1>3. /\ worker.todo \in SUBSET Service /\ worker.had \in [Service -> SUBSET Host]
      /\ worker.ports \in [Service -> Port \cup {0}] /\ worker.pending \in SUBSET Host
  BY <1>0 DEF Handler
<1>4. CASE SyncGaining
  <2>1. CASE worker.todo = {}
    <3>1. worker' = [worker EXCEPT !.pc = "syncFinal", !.todo = Writable \cup HadRoute] /\ UNCHANGED <<routes, faults>>
      BY <1>4, <2>1 DEF SyncGaining
    <3>2. worker' \in Handler
      BY <1>0, <3>1 DEF Handler, Writable, HadRoute
    <3> QED BY <1>0, <1>1, <3>1, <3>2, PassKeeps DEF WorkTyped
  <2>2. CASE worker.todo # {}
    <3>1. PICK s \in worker.todo :
            \/ /\ worker' = [worker EXCEPT !.todo = @ \ {s}]
               /\ routes' = [routes EXCEPT ![s] = [hosts |-> Final[s] \cup worker.had[s], port |-> worker.ports[s]]]
               /\ UNCHANGED faults
            \/ /\ worker' = [worker EXCEPT !.todo = @ \ {s}, !.pending = @ \cup Final[s]]
               /\ UNCHANGED routes /\ Fault
      BY <1>4, <2>2 DEF SyncGaining
    <3>2. s \in Service /\ Final[s] \cup worker.had[s] \in SUBSET Host /\ worker.ports[s] \in Port \cup {0}
          /\ worker.pending \cup Final[s] \in SUBSET Host
      BY <1>2, <1>3, <3>1
    <3>3. routes' \in RouteType
      BY <1>0, <3>1, <3>2, RouteWritten
    <3>4. worker' \in Handler
      BY <1>0, <3>1, <3>2 DEF Handler
    <3> QED BY <1>1, <3>1, <3>3, <3>4, PassKeeps DEF WorkTyped
  <2> QED BY <2>1, <2>2
<1>5. CASE SyncFinal
  <2>1. CASE worker.todo = {}
    <3>1. /\ worker' = [worker EXCEPT !.pc = "syncDrop",
                                      !.todo = {s \in HadRoute \ Planned(worker.plan) : Held(s) = {}}]
          /\ UNCHANGED <<routes, faults>>
      BY <1>5, <2>1 DEF SyncFinal
    <3>2. worker' \in Handler
      BY <1>0, <3>1 DEF Handler, HadRoute
    <3> QED BY <1>0, <1>1, <3>1, <3>2, PassKeeps DEF WorkTyped
  <2>2. CASE worker.todo # {}
    <3>1. PICK s \in worker.todo :
            /\ worker' = [worker EXCEPT !.todo = @ \ {s}]
            /\ \/ /\ routes' = IF Settled(s) = {} THEN routes
                               ELSE [routes EXCEPT ![s] = [hosts |-> Settled(s),
                                       port |-> IF s \in Writable THEN worker.ports[s] ELSE routes[s].port]]
                  /\ UNCHANGED faults
               \/ UNCHANGED routes /\ Fault
      BY <1>5, <2>2 DEF SyncFinal
    <3>2. s \in Service /\ Settled(s) \in SUBSET Host
      BY <1>2, <1>3, <3>1 DEF Settled, Held
    <3>3. (IF s \in Writable THEN worker.ports[s] ELSE routes[s].port) \in Port \cup {0}
      BY <1>0, <1>3, <3>2 DEF RouteType
    <3>4. routes' \in RouteType
      BY <1>0, <3>1, <3>2, <3>3, RouteWritten
    <3>5. worker' \in Handler
      BY <1>0, <3>1 DEF Handler
    <3> QED BY <1>1, <3>1, <3>4, <3>5, PassKeeps DEF WorkTyped
  <2> QED BY <2>1, <2>2
<1>6. CASE SyncDrops
  <2>1. PICK s \in worker.todo : Drop(s) /\ worker' = [worker EXCEPT !.todo = @ \ {s}]
    BY <1>6 DEF SyncDrops
  <2>2. routes' \in RouteType /\ (UNCHANGED faults \/ Fault)
    BY <1>0, <1>3, <2>1, DroppedTyped
  <2>3. worker' \in Handler
    BY <1>0, <2>1 DEF Handler
  <2> QED BY <1>1, <2>2, <2>3, PassKeeps DEF WorkTyped
<1> QED BY <1>4, <1>5, <1>6

LEMMA MishapTyped ==
  ASSUME Typed, ServiceDies \/ Crash
  PROVE  Typed'
<1>1. /\ UNCHANGED <<forms, recorded, desired, current, queue, begun, joined, routes, edits, missed>> /\ Fault
      /\ up' \in SUBSET Service
  BY DEF ServiceDies, Crash, docker, Typed, StoreTyped
<1>2. BoundsTyped' /\ FormsTyped' /\ StoreTyped'
  BY <1>1, FaultTyped DEF Typed, FormsTyped, StoreTyped, forms
<1>3. Idle \in Handler /\ Idle.pc = "idle"
  BY DEF NoPlan, NoRoute, RouteType, Idle, Handler, NoHosts, Unset, Public
<1>4. worker' = worker \/ worker' = Idle
  BY DEF ServiceDies, Crash
<1> QED BY <1>1, <1>2, <1>3, <1>4 DEF Typed, QueueTyped, WorkTyped

LEMMA StepTyped ==
  ASSUME Typed, RouteInv, [Next]_vars
  PROVE  Typed'
<1>1. CASE UNCHANGED vars
  BY <1>1 DEF vars, forms, docker, Typed, FormsTyped, StoreTyped, BoundsTyped, QueueTyped, WorkTyped
<1>2. CASE Deploy \/ Stop \/ AddDomain \/ MoveDomain \/ DeleteDomain \/ SaveComposeSettings \/ SetDashboardHost
  BY <1>2, FormTyped DEF Edits
<1>3. CASE MarkRunning \/ ReadPlan \/ ComposeUp \/ PassGate
  BY <1>3, PlanTyped
<1>4. CASE ComposeUpFails \/ DeployFails \/ RecordSuccess \/ SyncBlind \/ SyncEnds \/ StopStack
  BY <1>4, EndTyped
<1>5. CASE ReadRoutes \/ WriteGaining \/ WriteFinal \/ DropStale
  BY <1>5, DeployPassTyped
<1>6. CASE SyncReads \/ SyncGaining \/ SyncFinal \/ SyncDrops
  BY <1>6, SyncReadTyped, SyncPassTyped
<1>7. CASE ServiceDies \/ Crash
  BY <1>7, MishapTyped
<1> QED BY <1>1, <1>2, <1>3, <1>4, <1>5, <1>6, <1>7 DEF Next

-----------------------------------------------------------------------------
(* What holds whatever fails.                                                *)

\* A route that is planned or live has a port, and a deploy's file has the
\* services it routes.
PlanDials == \A s \in Service : worker.plan[s].hosts # {} => worker.plan[s].port # 0
PortsLive == \A s \in Service : routes[s].hosts # {} => routes[s].port # 0
HeadFits == At("planned") => Planned(worker.plan) \subseteq Head(queue).file
DialInv == PlanDials /\ PortsLive /\ HeadFits

LEMMA InitDials == Init => DialInv
<1> SUFFICES ASSUME Init PROVE DialInv
  OBVIOUS
<1>1. worker.pc = "idle" /\ routes = NoPlan /\ worker.plan = NoPlan
  BY DEF Init, Idle
<1> QED BY <1>1 DEF DialInv, PlanDials, PortsLive, HeadFits, At, NoPlan, NoRoute

LEMMA DialOne ==
  ASSUME IsRoutes(routes), PortsLive, NEW s \in Service, NEW hosts, NEW port, hosts # {} => port # 0,
         routes' = [routes EXCEPT ![s] = [hosts |-> hosts, port |-> port]]
  PROVE  PortsLive'
<1>1. /\ routes'[s].hosts = hosts /\ routes'[s].port = port
      /\ \A t \in Service \ {s} : routes'[t] = routes[t]
  BY DEF IsRoutes
<1> QED BY <1>1 DEF PortsLive

LEMMA DialDropped ==
  ASSUME IsRoutes(routes), PortsLive, NEW s \in Service, Drop(s)
  PROVE  PortsLive'
<1>1. CASE UNCHANGED routes
  BY <1>1 DEF PortsLive
<1>2. CASE routes' = [routes EXCEPT ![s] = NoRoute]
  BY <1>2, DialOne DEF NoRoute
<1> QED BY <1>1, <1>2 DEF Drop

\* What a handler's step to another place leaves to show.
LEMMA DialKept ==
  ASSUME DialInv, worker'.pc # "planned", worker'.plan \in {worker.plan, NoPlan}, PortsLive'
  PROVE  DialInv'
<1>1. PlanDials'
  BY DEF DialInv, PlanDials, NoPlan, NoRoute
<1> QED BY <1>1 DEF DialInv, HeadFits, At

LEMMA FormDials ==
  ASSUME Typed, DialInv, Edits \/ Deploy \/ Stop
  PROVE  DialInv'
<1>1. Grown /\ UNCHANGED NotRows
  BY EditTyped, AskTyped
<1>2. queue # << >> => Head(queue') = Head(queue)
  BY <1>1 DEF Grown, Typed, QueueTyped
<1> QED BY <1>1, <1>2 DEF NotRows, DialInv, PlanDials, PortsLive, HeadFits, At, Typed, QueueTyped

LEMMA PlanStepDials ==
  ASSUME Typed, RouteInv, DialInv, MarkRunning \/ ReadPlan \/ ComposeUp \/ PassGate
  PROVE  DialInv'
<1>0. UNCHANGED routes /\ PortsLive' /\ IsWorker(worker)
  BY DEF MarkRunning, ReadPlan, ComposeUp, PassGate, DialInv, PortsLive, RouteInv, Shape
<1>1. CASE MarkRunning
  <2>1. worker'.pc = "config" /\ worker'.plan = NoPlan
    BY <1>1 DEF MarkRunning, Idle
  <2> QED BY <1>0, <2>1, DialKept
<1>2. CASE ReadPlan /\ DroppedServices(PlanRead, Head(queue).file)
  <2>1. worker'.pc = "idle" /\ worker'.plan = NoPlan
    BY <1>2 DEF ReadPlan, JobEnds, Idle
  <2> QED BY <1>0, <2>1, DialKept
<1>3. CASE ReadPlan /\ ~DroppedServices(PlanRead, Head(queue).file)
  <2>1. worker' = [worker EXCEPT !.pc = "planned", !.plan = PlanRead] /\ UNCHANGED queue
    BY <1>3 DEF ReadPlan
  <2>2. worker'.plan = PlanRead
    BY <1>0, <2>1 DEF IsWorker
  <2>3. /\ \A s \in Service : PlanRead[s].hosts # {} => PlanRead[s].port # 0
        /\ \A s \in Planned(PlanRead) : s = worker.public.service \/ \E j \in DOMAIN rows : rows[j].service = s
    <3>1. worker.public \in Public
      BY DEF Typed, WorkTyped, Handler
    <3> QED BY <3>1, PlanReadSound DEF Typed
  <2>4. Planned(PlanRead) \subseteq Head(queue).file
    BY <1>3, <2>3 DEF DroppedServices, Planned
  <2> QED BY <1>0, <2>1, <2>2, <2>3, <2>4 DEF DialInv, PlanDials, HeadFits, Planned
<1>4. CASE ComposeUp \/ PassGate
  <2>1. PICK pc \in {"up", "gated"} : worker' = [worker EXCEPT !.pc = pc]
    BY <1>4 DEF ComposeUp, PassGate
  <2>2. worker'.pc = pc /\ worker'.plan = worker.plan
    BY <1>0, <2>1 DEF IsWorker
  <2> QED BY <1>0, <2>2, DialKept
<1> QED BY <1>1, <1>2, <1>3, <1>4

LEMMA EndDials ==
  ASSUME DialInv, ComposeUpFails \/ DeployFails \/ RecordSuccess \/ SyncBlind \/ SyncEnds \/ StopStack \/ Crash
  PROVE  DialInv'
<1>1. worker'.pc = "idle" /\ worker'.plan = NoPlan
  BY DEF ComposeUpFails, DeployFails, RecordSuccess, SyncBlind, SyncEnds, StopStack, Crash, JobEnds, Idle
<1>2. PortsLive'
  <2>1. CASE StopStack
    <3>1. PICK left \in SUBSET Service : routes' = [s \in Service |-> IF s \in left THEN routes[s] ELSE NoRoute]
      BY <2>1 DEF StopStack
    <3> QED BY <3>1 DEF DialInv, PortsLive, NoRoute
  <2>2. CASE ComposeUpFails \/ DeployFails \/ RecordSuccess \/ SyncBlind \/ SyncEnds \/ Crash
    BY <2>2 DEF ComposeUpFails, DeployFails, RecordSuccess, SyncBlind, SyncEnds, Crash, DialInv, PortsLive
  <2> QED BY <2>1, <2>2
<1> QED BY <1>1, <1>2, DialKept

LEMMA DeployPassDials ==
  ASSUME RouteInv, ReachInv, DialInv, ReadRoutes \/ WriteGaining \/ WriteFinal \/ DropStale
  PROVE  DialInv'
<1>0. IsWorker(worker) /\ IsRoutes(routes) /\ PortsLive /\ worker.pc \in {"gated", "gain", "final", "drop"}
  BY DEF RouteInv, Shape, DialInv, ReadRoutes, WriteGaining, WriteFinal, DropStale, At
<1>1. worker'.pc # "planned" /\ worker'.plan = worker.plan
  BY <1>0 DEF ReadRoutes, WriteGaining, WriteFinal, DropStale, IsWorker
<1>2. PortsLive'
  <2>1. CASE UNCHANGED routes
    BY <1>0, <2>1 DEF PortsLive
  <2>2. CASE WriteGaining /\ worker.todo # {}
    <3>1. PICK s \in worker.todo :
            routes' = [routes EXCEPT ![s] = [hosts |-> Final[s] \cup worker.had[s], port |-> worker.plan[s].port]]
      BY <2>2 DEF WriteGaining
    <3>2. s \in Service /\ worker.plan[s].port # 0
      BY <2>2, <3>1 DEF WriteGaining, ReachInv, GainsPlanned, Planned, DialInv, PlanDials
    <3> QED BY <1>0, <3>1, <3>2, DialOne
  <2>3. CASE WriteFinal /\ worker.todo # {}
    <3>1. PICK s \in worker.todo : routes' = [routes EXCEPT ![s] = worker.plan[s]]
      BY <2>3 DEF WriteFinal
    <3>2. s \in Service /\ worker.plan[s].port # 0
      BY <2>3, <3>1 DEF WriteFinal, RouteInv, DeployTodo, Planned, DialInv, PlanDials
    <3>3. worker.plan[s] = [hosts |-> worker.plan[s].hosts, port |-> worker.plan[s].port]
      BY <3>2 DEF RouteInv, Shape, Planning
    <3>4. routes' = [routes EXCEPT ![s] = [hosts |-> worker.plan[s].hosts, port |-> worker.plan[s].port]]
      BY <3>1, <3>3
    <3> QED BY <1>0, <3>2, <3>4, DialOne
  <2>4. CASE DropStale
    <3>1. PICK s \in worker.todo : Drop(s)
      BY <2>4 DEF DropStale
    <3>2. s \in Service
      BY <2>4, <3>1 DEF DropStale, RouteInv, DeployTodo
    <3> QED BY <1>0, <3>1, <3>2, DialDropped
  <2> QED BY <2>1, <2>2, <2>3, <2>4 DEF ReadRoutes, WriteGaining, WriteFinal
<1> QED BY <1>1, <1>2, DialKept

LEMMA SyncReadDials ==
  ASSUME Typed, DialInv, SyncReads
  PROVE  DialInv'
<1>1. UNCHANGED routes /\ worker'.pc = "syncGain" /\ worker'.plan = Wanted
  BY DEF SyncReads
<1>2. \A s \in Service : PlanNow[s].hosts # {} => PlanNow[s].port # 0
  BY PlanNowSound DEF Typed
<1>3. \A s \in Service : Wanted[s].hosts # {} => Wanted[s].port # 0
  BY <1>2 DEF Wanted, NoPlan, NoRoute
<1> QED BY <1>1, <1>3 DEF DialInv, PlanDials, PortsLive, HeadFits, At

LEMMA SyncPassDials ==
  ASSUME RouteInv, ReachInv, DialInv, SyncGaining \/ SyncFinal \/ SyncDrops
  PROVE  DialInv'
<1>0. IsWorker(worker) /\ IsRoutes(routes) /\ PortsLive /\ worker.pc \in {"syncGain", "syncFinal", "syncDrop"}
  BY DEF RouteInv, Shape, DialInv, SyncGaining, SyncFinal, SyncDrops, At
<1>1. worker'.pc # "planned" /\ worker'.plan = worker.plan
  BY <1>0 DEF SyncGaining, SyncFinal, SyncDrops, IsWorker
<1>2. PortsLive'
  <2>1. CASE UNCHANGED routes
    BY <1>0, <2>1 DEF PortsLive
  <2>2. CASE SyncGaining /\ worker.todo # {} /\ ~UNCHANGED routes
    <3>1. PICK s \in worker.todo :
            routes' = [routes EXCEPT ![s] = [hosts |-> Final[s] \cup worker.had[s], port |-> worker.ports[s]]]
      BY <2>2 DEF SyncGaining
    <3>2. s \in Service /\ SyncFinals[s] # {}
      BY <2>2, <3>1 DEF SyncGaining, RouteInv, SyncGains, GainFirstHosts
    <3>3. worker.ports[s] # 0
      BY <3>2 DEF SyncFinals, Writable
    <3> QED BY <1>0, <3>1, <3>2, <3>3, DialOne
  <2>3. CASE SyncFinal /\ worker.todo # {} /\ ~UNCHANGED routes
    <3>1. PICK s \in worker.todo :
            routes' = [routes EXCEPT ![s] = [hosts |-> Settled(s),
                         port |-> IF s \in Writable THEN worker.ports[s] ELSE routes[s].port]]
            /\ Settled(s) # {}
      BY <2>3 DEF SyncFinal
    <3>2. s \in Service
      BY <2>3, <3>1 DEF SyncFinal, RouteInv, SyncTodo
    <3> DEFINE port == IF s \in Writable THEN worker.ports[s] ELSE routes[s].port
               hosts == Settled(s)
    <3>3. port # 0
      <4>1. CASE s \in Writable
        BY <4>1 DEF Writable
      <4>2. CASE s \notin Writable
        <5>1. routes[s].hosts # {}
          BY <2>3, <3>1, <3>2, <4>2 DEF SyncFinal, At, ReachInv, SyncPorts, HadRoute, Settled, Held
        <5> QED BY <1>0, <3>2, <4>2, <5>1 DEF PortsLive
      <4> QED BY <4>1, <4>2
    <3>4. routes' = [routes EXCEPT ![s] = [hosts |-> hosts, port |-> port]]
      BY <3>1
    <3> HIDE DEF port, hosts
    <3>5. routes'[s].port = port /\ \A t \in Service \ {s} : routes'[t] = routes[t]
      BY <1>0, <3>2, <3>4 DEF IsRoutes
    <3> QED BY <1>0, <3>2, <3>3, <3>5 DEF PortsLive
  <2>4. CASE SyncDrops
    <3>1. PICK s \in worker.todo : Drop(s)
      BY <2>4 DEF SyncDrops
    <3>2. s \in Service
      BY <2>4, <3>1 DEF SyncDrops, RouteInv, SyncTodo
    <3> QED BY <1>0, <3>1, <3>2, DialDropped
  <2> QED BY <2>1, <2>2, <2>3, <2>4 DEF SyncGaining, SyncFinal
<1> QED BY <1>1, <1>2, DialKept

LEMMA StepDials ==
  ASSUME Typed, RouteInv, ReachInv, DialInv, [Next]_vars
  PROVE  DialInv'
<1>1. CASE UNCHANGED vars
  BY <1>1 DEF vars, DialInv, PlanDials, PortsLive, HeadFits, At
<1>2. CASE Deploy \/ Stop \/ AddDomain \/ MoveDomain \/ DeleteDomain \/ SaveComposeSettings \/ SetDashboardHost
  BY <1>2, FormDials DEF Edits
<1>3. CASE MarkRunning \/ ReadPlan \/ ComposeUp \/ PassGate
  BY <1>3, PlanStepDials
<1>4. CASE ComposeUpFails \/ DeployFails \/ RecordSuccess \/ SyncBlind \/ SyncEnds \/ StopStack \/ Crash
  BY <1>4, EndDials
<1>5. CASE ReadRoutes \/ WriteGaining \/ WriteFinal \/ DropStale
  BY <1>5, DeployPassDials
<1>6. CASE SyncReads \/ SyncGaining \/ SyncFinal \/ SyncDrops
  BY <1>6, SyncReadDials, SyncPassDials
<1>7. CASE ServiceDies
  BY <1>7 DEF ServiceDies, DialInv, PlanDials, PortsLive, HeadFits, At
<1> QED BY <1>1, <1>2, <1>3, <1>4, <1>5, <1>6, <1>7 DEF Next

-----------------------------------------------------------------------------
(* What holds while nothing failed.                                          *)

Apart(hosts) == \A s, t \in Service : s # t => hosts[s] \cap hosts[t] = {}
Unreachable(plan) == UNION {plan[s].hosts : s \in Service \ joined}
Follows(plan) ==
  /\ \A s \in Service : s \in up \cap joined /\ plan[s].hosts # {}
       => routes[s].hosts \ Unreachable(plan) = plan[s].hosts
  /\ \A s \in Service : routes[s].hosts \subseteq plan[s].hosts \cup Unreachable(plan)
SyncWaits == \E i \in Waiting : queue[i].kind = "sync"

\* Every joined service of a stack that should run, or that a deploy brought
\* up, is up.
GateHolds == At("up") => Head(queue).file \subseteq up
AllUp == desired = "running" \/ worker.pc \in {"up", "gated"} \cup Passes => joined \subseteq up
\* No host is on two routes, but for what a pass has in hand.
RoutesApart == IF Syncing \/ worker.pc \in Passes THEN Apart(worker.had) ELSE Apart(Hosts(routes))
\* Unless a sync waits, the routes follow the rows or the handler does.
UpToDate ==
  ~SyncWaits =>
    /\ worker.pc \in {"idle", "config"} => Follows(Wanted)
    /\ worker.pc = "config" => worker.public = public
    /\ worker.pc \in {"planned", "up", "gated"} \cup Passes => worker.plan = PlanNow
    /\ Syncing => worker.plan = Wanted
DeployDone ==
  /\ At("final") => \A s \in Planned(worker.plan) \ worker.todo : routes[s].hosts = Final[s]
  /\ At("drop") => \A s \in Service \ worker.todo : routes[s].hosts = Final[s]
SyncPlan ==
  Syncing => /\ worker.pending = PlannedHosts(worker.plan) \ UNION {Final[s] : s \in Writable}
             /\ Writable \subseteq Planned(worker.plan)
             /\ HadRoute \cap Planned(worker.plan) \subseteq Writable
             /\ Planned(worker.plan) \cap joined \subseteq Writable
SyncDone ==
  /\ At("syncFinal") => \A s \in (Writable \cup HadRoute) \ worker.todo :
                           Settled(s) # {} => routes[s].hosts = Settled(s)
  /\ At("syncDrop") => \A s \in Service \ worker.todo : routes[s].hosts = Settled(s)
Clean == GateHolds /\ AllUp /\ RoutesApart /\ UpToDate /\ DeployDone /\ SyncPlan /\ SyncDone
CleanInv == faults = 0 => Clean

LEMMA InitClean == Init => Clean
<1> SUFFICES ASSUME Init PROVE Clean
  OBVIOUS
<1>1. worker.pc = "idle" /\ desired = "stopped" /\ routes = NoPlan /\ joined = {}
  BY DEF Init, Idle
<1>2. \A s \in Service : routes[s].hosts = {}
  BY <1>1 DEF NoPlan, NoRoute
<1>3. Apart(Hosts(routes)) /\ Follows(Wanted)
  BY <1>1, <1>2 DEF Apart, Hosts, Follows
<1> QED BY <1>1, <1>3 DEF Clean, GateHolds, AllUp, RoutesApart, UpToDate, DeployDone, SyncPlan, SyncDone, Passes, Syncing, At

\* Only a step that fails uses up the bound of faults.
LEMMA NoFault == BoundsTyped /\ Fault => faults' # 0
  BY DEF BoundsTyped, Fault

LEMMA WorkSame ==
  ASSUME UNCHANGED <<routes, worker, joined>>
  PROVE  /\ Final' = Final /\ Writable' = Writable /\ HadRoute' = HadRoute /\ (Syncing' <=> Syncing)
         /\ \A s : (Settled(s))' = Settled(s)
<1>1. Final' = Final /\ Writable' = Writable /\ HadRoute' = HadRoute /\ (Syncing' <=> Syncing)
  BY DEF Final, Writable, HadRoute, Syncing
<1>2. \A s : (Settled(s))' = Settled(s)
  BY <1>1 DEF Settled, Held
<1> QED BY <1>1, <1>2

\* A form touches neither the routes nor what the worker is at.
LEMMA FormKeeps ==
  ASSUME Typed, Clean, Grown, UNCHANGED NotRows
  PROVE  GateHolds' /\ AllUp' /\ RoutesApart' /\ DeployDone' /\ SyncPlan' /\ SyncDone'
<1>0. UNCHANGED <<routes, worker, joined, up, desired>>
  BY DEF NotRows, docker
<1>1. queue # << >> => Head(queue') = Head(queue)
  BY DEF Grown, Typed, QueueTyped
<1>2. GateHolds' /\ AllUp'
  BY <1>0, <1>1 DEF Clean, GateHolds, AllUp, At, Typed, QueueTyped
<1>3. RoutesApart'
  BY <1>0, WorkSame DEF Clean, RoutesApart, Apart, Hosts
<1>4. DeployDone'
  BY <1>0, WorkSame DEF Clean, DeployDone, At
<1>5. SyncPlan' /\ SyncDone'
  BY <1>0, WorkSame DEF Clean, SyncPlan, SyncDone, At
<1> QED BY <1>2, <1>3, <1>4, <1>5

LEMMA EditClean ==
  ASSUME Typed, Clean, Edits
  PROVE  Clean'
<1>1. Grown /\ SyncQueued /\ UNCHANGED NotRows
  BY EditTyped
<1>2. SyncWaits'
  <2>1. Len(queue) \in Nat /\ Len(queue') \in Nat /\ DOMAIN queue' = 1..Len(queue')
    BY <1>1 DEF Typed, QueueTyped, Grown
  <2>2. PICK i \in Nat : i = Len(queue) + 1
    BY <2>1
  <2>3. i \in DOMAIN queue' /\ queue'[i].kind = "sync"
    BY <1>1, <2>1, <2>2 DEF SyncQueued
  <2>4. i > 1 \/ worker'.pc = "idle"
    <3>1. CASE queue # << >>
      BY <2>2, <3>1 DEF Typed, QueueTyped
    <3>2. CASE queue = << >>
      BY <1>1, <3>2 DEF Typed, QueueTyped, NotRows
    <3> QED BY <3>1, <3>2
  <2> QED BY <2>3, <2>4 DEF SyncWaits, Waiting
<1> QED BY <1>1, <1>2, FormKeeps DEF Clean, UpToDate

LEMMA AskClean ==
  ASSUME Typed, Clean, Deploy \/ Stop
  PROVE  Clean'
<1>1. /\ UNCHANGED <<forms, NotRows>> /\ Grown
      /\ Len(queue') = Len(queue) + 1 /\ queue'[Len(queue) + 1].kind # "sync"
  BY AskTyped
<1>2. SyncWaits => SyncWaits'
  BY <1>1 DEF SyncWaits, Waiting, Grown, NotRows, Typed, QueueTyped
<1>3. UNCHANGED <<rows, public, dashboard, desired, up, joined, routes, worker>>
  BY <1>1 DEF forms, NotRows, docker
<1>4. PlanNow' = PlanNow /\ Wanted' = Wanted
  BY <1>3 DEF PlanNow, Wanted
<1>5. Follows(Wanted) => (Follows(Wanted))'
  BY <1>3, <1>4 DEF Follows, Unreachable
<1>6. UpToDate'
  BY <1>2, <1>3, <1>4, <1>5 DEF Clean, UpToDate, Syncing
<1> QED BY <1>1, <1>6, FormKeeps DEF Clean

\* A sync behind the first job waits before and after a step of the worker.
LaterSync == \E i \in DOMAIN queue : i > 1 /\ queue[i].kind = "sync"

LEMMA LaterWaits ==
  ASSUME QueueTyped, SyncWaits, worker.pc # "idle" \/ Head(queue).kind # "sync"
  PROVE  LaterSync
<1>1. PICK i \in DOMAIN queue : (i > 1 \/ worker.pc = "idle") /\ queue[i].kind = "sync"
  BY DEF SyncWaits, Waiting
<1>2. i \in 1..Len(queue) /\ Len(queue) \in Nat /\ queue # << >>
  BY DEF QueueTyped
<1>3. Head(queue) = queue[1]
  BY <1>2 DEF QueueTyped
<1>4. i # 1
  BY <1>1, <1>3
<1> QED BY <1>1, <1>2, <1>4 DEF LaterSync

LEMMA StillWaits ==
  ASSUME QueueTyped, LaterSync, UNCHANGED queue
  PROVE  SyncWaits'
  BY DEF LaterSync, SyncWaits, Waiting

LEMMA TailWaits ==
  ASSUME QueueTyped, LaterSync, queue # << >>, JobEnds
  PROVE  SyncWaits'
<1>1. queue' = Tail(queue) /\ worker'.pc = "idle"
  BY DEF JobEnds, Idle
<1>2. PICK i \in DOMAIN queue : i > 1 /\ queue[i].kind = "sync"
  BY DEF LaterSync
<1>3. i \in 1..Len(queue) /\ Len(queue) \in Nat
  BY DEF QueueTyped
<1> DEFINE rest == Tail(queue)
<1>4. rest \in Seq(Job) /\ Len(rest) = Len(queue) - 1 /\ \A j \in 1..Len(rest) : rest[j] = queue[j + 1]
  BY DEF QueueTyped
<1> HIDE DEF rest
<1>5. PICK j \in Nat : j = i - 1
  BY <1>2, <1>3
<1>6. j \in 1..Len(rest) /\ j + 1 = i
  BY <1>2, <1>3, <1>4, <1>5
<1>7. j \in DOMAIN rest /\ rest[j].kind = "sync"
  BY <1>2, <1>4, <1>6
<1>8. rest = queue'
  BY <1>1 DEF rest
<1> QED BY <1>1, <1>7, <1>8 DEF SyncWaits, Waiting

\* The plan a step reads again is the plan of the same rows.
LEMMA SamePlanNow ==
  ASSUME UNCHANGED forms
  PROVE  PlanNow' = PlanNow /\ (UNCHANGED desired => Wanted' = Wanted)
<1>1. PlanNow' = PlanNow
  BY DEF forms, PlanNow
<1> QED BY <1>1 DEF Wanted

\* Nothing is in hand: what is left of Clean.
LEMMA CleanOutside ==
  ASSUME worker'.pc \in {"idle", "config", "planned", "gated"}, AllUp', UpToDate', Apart(Hosts(routes))'
  PROVE  Clean'
  BY DEF Clean, GateHolds, RoutesApart, DeployDone, SyncPlan, SyncDone, Passes, Syncing, At

LEMMA PlanStepClean ==
  ASSUME Typed, RouteInv, DialInv, Clean, MarkRunning \/ ReadPlan \/ PassGate
  PROVE  Clean'
<1>0. /\ QueueTyped /\ IsWorker(worker) /\ queue # << >>
      /\ UNCHANGED <<forms, desired, current, docker, routes>>
      /\ worker.pc \in {"idle", "config", "up"}
  BY DEF Typed, RouteInv, Shape, MarkRunning, ReadPlan, PassGate, Take, QueueTyped, At
<1>1. UNCHANGED <<up, joined>>
  BY <1>0 DEF docker
<1>2. PlanNow' = PlanNow /\ Wanted' = Wanted
  BY <1>0, SamePlanNow
<1>3. (Follows(Wanted))' <=> Follows(Wanted)
  BY <1>0, <1>1, <1>2 DEF Follows, Unreachable
<1>4. Apart(Hosts(routes))'
  BY <1>0 DEF Clean, RoutesApart, Syncing, Passes, Apart, Hosts
<1>5. CASE MarkRunning
  <2>1. /\ worker.pc = "idle" /\ worker'.pc = "config" /\ UNCHANGED queue /\ Head(queue).kind = "deploy"
        /\ worker'.public = public'
    BY <1>0, <1>5 DEF MarkRunning, Take, Idle, At, forms
  <2>2. AllUp'
    BY <1>0, <1>1, <2>1 DEF Clean, AllUp, Passes
  <2>3. ~SyncWaits' => ~SyncWaits
    BY <1>0, <2>1, LaterWaits, StillWaits
  <2>4. UpToDate'
    BY <1>3, <2>1, <2>3 DEF Clean, UpToDate, Passes, Syncing, At
  <2> QED BY <1>4, <2>1, <2>2, <2>4, CleanOutside
<1>6. CASE ReadPlan /\ DroppedServices(PlanRead, Head(queue).file)
  <2>1. worker.pc = "config" /\ JobEnds /\ worker'.pc = "idle"
    BY <1>6 DEF ReadPlan, JobEnds, Idle, At
  <2>2. AllUp'
    BY <1>0, <1>1, <2>1 DEF Clean, AllUp, Passes
  <2>3. ~SyncWaits' => ~SyncWaits
    BY <1>0, <2>1, LaterWaits, TailWaits
  <2>4. UpToDate'
    BY <1>3, <2>1, <2>3 DEF Clean, UpToDate, Passes, Syncing, At
  <2> QED BY <1>4, <2>1, <2>2, <2>4, CleanOutside
<1>7. CASE ReadPlan /\ ~DroppedServices(PlanRead, Head(queue).file)
  <2>1. worker.pc = "config" /\ worker' = [worker EXCEPT !.pc = "planned", !.plan = PlanRead] /\ UNCHANGED queue
    BY <1>7 DEF ReadPlan, At
  <2>2. worker'.pc = "planned" /\ worker'.plan = PlanRead
    BY <1>0, <2>1 DEF IsWorker
  <2>3. AllUp'
    BY <1>0, <1>1, <2>1, <2>2 DEF Clean, AllUp, Passes
  <2>4. UpToDate'
    <3>1. ~SyncWaits' => ~SyncWaits
      BY <1>0, <2>1, LaterWaits, StillWaits
    <3>2. worker.public = public => PlanRead = PlanNow
      BY DEF PlanRead, PlanNow
    <3> QED BY <1>2, <2>1, <2>2, <3>1, <3>2 DEF Clean, UpToDate, Passes, Syncing, At
  <2> QED BY <1>4, <2>2, <2>3, <2>4, CleanOutside
<1>8. CASE PassGate
  <2>1. worker.pc = "up" /\ worker' = [worker EXCEPT !.pc = "gated"] /\ UNCHANGED queue
    BY <1>8 DEF PassGate, At
  <2>2. worker'.pc = "gated" /\ worker'.plan = worker.plan
    BY <1>0, <2>1 DEF IsWorker
  <2>3. AllUp'
    BY <1>0, <1>1, <2>1, <2>2 DEF Clean, AllUp, Passes
  <2>4. ~SyncWaits' => ~SyncWaits
    BY <1>0, <2>1, LaterWaits, StillWaits
  <2>5. UpToDate'
    BY <1>2, <2>1, <2>2, <2>4 DEF Clean, UpToDate, Passes, Syncing
  <2> QED BY <1>4, <2>2, <2>3, <2>5, CleanOutside
<1> QED BY <1>5, <1>6, <1>7, <1>8

\* `compose up` brings up every service of the file, the planned ones with it.
LEMMA UpClean ==
  ASSUME Typed, RouteInv, DialInv, Clean, ComposeUp
  PROVE  Clean'
<1>1. /\ worker.pc = "planned" /\ UNCHANGED <<forms, desired, queue, routes>> /\ QueueTyped /\ IsWorker(worker)
      /\ up' = Head(queue).file /\ joined' = Planned(worker.plan)
      /\ worker' = [worker EXCEPT !.pc = "up"]
  BY DEF ComposeUp, At, Typed, RouteInv, Shape
<1>2. worker'.pc = "up" /\ worker'.plan = worker.plan
  BY <1>1 DEF IsWorker
<1>3. Planned(worker.plan) \subseteq Head(queue).file
  BY <1>1 DEF DialInv, HeadFits, At
<1>4. GateHolds' /\ AllUp'
  BY <1>1, <1>3 DEF GateHolds, AllUp
<1>5. RoutesApart'
  BY <1>1, <1>2 DEF Clean, RoutesApart, Syncing, Passes, Apart, Hosts
<1>6. ~SyncWaits' => ~SyncWaits
  BY <1>1, LaterWaits, StillWaits
<1>7. UpToDate'
  BY <1>1, <1>2, <1>6, SamePlanNow DEF Clean, UpToDate, Passes, Syncing
<1> QED BY <1>2, <1>4, <1>5, <1>7 DEF Clean, DeployDone, SyncPlan, SyncDone, Syncing, At

\* A stop leaves nothing.
LEMMA StopClean ==
  ASSUME Typed, Clean, StopStack, BoundsTyped, faults' = 0
  PROVE  Clean'
<1>1. worker'.pc = "idle" /\ desired' = "stopped"
  BY DEF StopStack, JobEnds, Idle
<1>2. PICK left \in SUBSET Service :
        /\ IF left = {} THEN UNCHANGED faults ELSE Fault
        /\ routes' = [s \in Service |-> IF s \in left THEN routes[s] ELSE NoRoute]
  BY DEF StopStack
<1>3. left = {}
  BY <1>2, NoFault
<1>4. \A s \in Service : routes'[s].hosts = {}
  BY <1>2, <1>3 DEF NoRoute
<1>5. Apart(Hosts(routes))'
  BY <1>4 DEF Apart, Hosts
<1>6. (Follows(Wanted))'
  BY <1>1, <1>4 DEF Follows, Wanted, NoPlan, NoRoute
<1>7. AllUp' /\ UpToDate'
  BY <1>1, <1>6 DEF AllUp, UpToDate, Passes, Syncing
<1> QED BY <1>1, <1>5, <1>7, CleanOutside

\* A pass of a deploy: its plan stays the rows' and what it read stays apart.
LEMMA DeployPassKeeps ==
  ASSUME QueueTyped, Clean, UNCHANGED <<forms, desired, queue, docker>>, worker.pc \in {"gated"} \cup Passes,
         worker'.pc \in Passes, worker'.plan = worker.plan, Apart(worker.had)', DeployDone'
  PROVE  Clean'
<1>1. AllUp'
  BY DEF Clean, AllUp, docker, Passes
<1>2. ~SyncWaits' => ~SyncWaits
  BY LaterWaits, StillWaits DEF Passes
<1>3. UpToDate'
  BY <1>2, SamePlanNow DEF Clean, UpToDate, Passes, Syncing
<1> QED BY <1>1, <1>3 DEF Clean, GateHolds, RoutesApart, SyncPlan, SyncDone, Passes, Syncing, At

LEMMA DeployPassClean ==
  ASSUME Typed, RouteInv, ReachInv, Clean, ReadRoutes \/ WriteGaining \/ WriteFinal \/ DropStale, faults' = 0
  PROVE  Clean'
<1>0. /\ QueueTyped /\ BoundsTyped /\ IsWorker(worker) /\ IsRoutes(routes)
      /\ UNCHANGED <<forms, desired, queue, docker>>
  BY DEF Typed, RouteInv, Shape, ReadRoutes, WriteGaining, WriteFinal, DropStale
<1>1. CASE ReadRoutes
  <2>1. /\ worker.pc = "gated" /\ UNCHANGED routes
        /\ worker' = [worker EXCEPT !.pc = "gain", !.had = Hosts(routes), !.todo = GainFirstHosts(Hosts(routes), Final)]
    BY <1>1 DEF ReadRoutes, At
  <2>2. worker'.pc = "gain" /\ worker'.plan = worker.plan /\ worker'.had = Hosts(routes)
    BY <1>0, <2>1 DEF IsWorker
  <2>3. Apart(Hosts(routes))
    BY <2>1 DEF Clean, RoutesApart, Syncing, Passes
  <2>4. Apart(worker.had)' /\ DeployDone'
    BY <2>2, <2>3 DEF Apart, DeployDone, At
  <2> QED BY <1>0, <2>1, <2>2, <2>4, DeployPassKeeps DEF Passes
<1>2. CASE WriteGaining
  <2>1. worker.pc = "gain" /\ Apart(worker.had)
    BY <1>2 DEF WriteGaining, At, Clean, RoutesApart, Passes
  <2>2. CASE worker.todo = {}
    <3>1. worker' = [worker EXCEPT !.pc = "final", !.todo = Planned(worker.plan)]
      BY <1>2, <2>2 DEF WriteGaining
    <3>2. /\ worker'.pc = "final" /\ worker'.plan = worker.plan /\ worker'.had = worker.had
          /\ worker'.todo = Planned(worker.plan)
      BY <1>0, <3>1 DEF IsWorker
    <3>3. Apart(worker.had)' /\ DeployDone'
      BY <2>1, <3>2 DEF Apart, DeployDone, At, Planned
    <3> QED BY <1>0, <2>1, <3>2, <3>3, DeployPassKeeps DEF Passes
  <2>3. CASE worker.todo # {}
    <3>1. PICK s \in worker.todo : worker' = [worker EXCEPT !.todo = @ \ {s}]
      BY <1>2, <2>3 DEF WriteGaining
    <3>2. worker'.pc = "gain" /\ worker'.plan = worker.plan /\ worker'.had = worker.had
      BY <1>0, <2>1, <3>1 DEF IsWorker
    <3>3. Apart(worker.had)' /\ DeployDone'
      BY <2>1, <3>2 DEF Apart, DeployDone, At
    <3> QED BY <1>0, <2>1, <3>2, <3>3, DeployPassKeeps DEF Passes
  <2> QED BY <2>2, <2>3
<1>3. CASE WriteFinal
  <2>1. /\ worker.pc = "final" /\ Apart(worker.had) /\ worker.todo \subseteq Planned(worker.plan)
        /\ \A s \in Planned(worker.plan) \ worker.todo : routes[s].hosts = Final[s]
    BY <1>3 DEF WriteFinal, At, Clean, RoutesApart, Passes, RouteInv, DeployTodo, DeployDone
  <2>2. CASE worker.todo = {}
    <3>1. /\ worker' = [worker EXCEPT !.pc = "drop",
                                      !.todo = {s \in Service : routes[s].hosts # {}} \ Planned(worker.plan)]
          /\ UNCHANGED routes
      BY <1>3, <2>2 DEF WriteFinal
    <3>2. /\ worker'.pc = "drop" /\ worker'.plan = worker.plan /\ worker'.had = worker.had
          /\ worker'.todo = {s \in Service : routes[s].hosts # {}} \ Planned(worker.plan)
      BY <1>0, <3>1 DEF IsWorker
    <3>3. \A s \in Service \ worker'.todo : routes[s].hosts = Final[s]
      <4>1. \A s \in Service \ Planned(worker.plan) : Final[s] = {}
        BY DEF Planned, Final
      <4>2. \A s \in Planned(worker.plan) : routes[s].hosts = Final[s]
        BY <2>1, <2>2
      <4> QED BY <3>2, <4>1, <4>2
    <3>4. Apart(worker.had)' /\ DeployDone'
      BY <2>1, <3>1, <3>2, <3>3 DEF Apart, DeployDone, At, Final
    <3> QED BY <1>0, <2>1, <3>2, <3>4, DeployPassKeeps DEF Passes
  <2>3. CASE worker.todo # {}
    <3>1. PICK s \in worker.todo :
            worker' = [worker EXCEPT !.todo = @ \ {s}] /\ routes' = [routes EXCEPT ![s] = worker.plan[s]]
      BY <1>3, <2>3 DEF WriteFinal
    <3>2. /\ worker'.pc = "final" /\ worker'.plan = worker.plan /\ worker'.had = worker.had
          /\ worker'.todo = worker.todo \ {s}
      BY <1>0, <2>1, <3>1 DEF IsWorker
    <3>3. s \in Service
      BY <2>1, <3>1 DEF Planned
    <3>4. routes'[s].hosts = Final[s] /\ \A t \in Service \ {s} : routes'[t] = routes[t]
      BY <1>0, <3>1, <3>3 DEF IsRoutes, Final
    <3>5. \A t \in Planned(worker.plan) \ worker'.todo : routes'[t].hosts = Final[t]
      BY <2>1, <3>2, <3>4 DEF Planned
    <3>6. Final' = Final /\ (Planned(worker.plan))' = Planned(worker.plan)
      BY <3>2 DEF Final, Planned
    <3>7. Apart(worker.had)' /\ DeployDone'
      BY <2>1, <3>2, <3>5, <3>6 DEF Apart, DeployDone, At
    <3> QED BY <1>0, <2>1, <3>2, <3>7, DeployPassKeeps DEF Passes
  <2> QED BY <2>2, <2>3
<1>4. CASE DropStale
  <2>1. /\ worker.pc = "drop" /\ Apart(worker.had) /\ worker.todo \subseteq Service \ Planned(worker.plan)
        /\ \A s \in Service \ worker.todo : routes[s].hosts = Final[s]
    BY <1>4 DEF DropStale, At, Clean, RoutesApart, Passes, RouteInv, DeployTodo, DeployDone
  <2>2. PICK s \in worker.todo : Drop(s) /\ worker' = [worker EXCEPT !.todo = @ \ {s}]
    BY <1>4 DEF DropStale
  <2>3. /\ worker'.pc = "drop" /\ worker'.plan = worker.plan /\ worker'.had = worker.had
        /\ worker'.todo = worker.todo \ {s}
    BY <1>0, <2>1, <2>2 DEF IsWorker
  <2>4. routes' = [routes EXCEPT ![s] = NoRoute]
    BY <1>0, <2>2, NoFault DEF Drop
  <2>5. s \in Service /\ Final[s] = {}
    BY <2>1, <2>2 DEF Planned, Final
  <2>6. routes'[s].hosts = {} /\ \A t \in Service \ {s} : routes'[t] = routes[t]
    BY <1>0, <2>4, <2>5 DEF IsRoutes, NoRoute
  <2>7. \A t \in Service \ worker'.todo : routes'[t].hosts = Final[t]
    BY <2>1, <2>3, <2>5, <2>6
  <2>8. Apart(worker.had)' /\ DeployDone'
    BY <2>1, <2>3, <2>7 DEF Apart, DeployDone, At, Final
  <2> QED BY <1>0, <2>1, <2>3, <2>8, DeployPassKeeps DEF Passes
<1> QED BY <1>1, <1>2, <1>3, <1>4

\* A deploy that ends leaves exactly its plan.
LEMMA SuccessClean ==
  ASSUME Typed, RouteInv, ReachInv, Clean, RecordSuccess
  PROVE  Clean'
<1>1. /\ worker.pc = "drop" /\ worker.todo = {} /\ UNCHANGED <<forms, docker, routes>>
      /\ desired' = "running" /\ JobEnds /\ QueueTyped /\ queue # << >>
  BY DEF RecordSuccess, At, Typed, QueueTyped
<1>2. worker'.pc = "idle"
  BY <1>1 DEF JobEnds, Idle
<1>3. joined = Planned(worker.plan) /\ joined \subseteq up
  BY <1>1 DEF ReachInv, JoinedIsPlanned, Clean, AllUp, Passes
<1>4. \A s \in Service : routes[s].hosts = worker.plan[s].hosts
  BY <1>1 DEF Clean, DeployDone, At, Final
<1>5. Apart(Hosts(routes))'
  BY <1>1, <1>4 DEF RouteInv, Shape, OneOwner, Apart, Hosts
<1>6. AllUp'
  BY <1>1, <1>3 DEF AllUp, docker
<1>7. ASSUME ~SyncWaits'
      PROVE  (Follows(Wanted))'
  <2>1. ~SyncWaits
    BY <1>1, <1>7, LaterWaits, TailWaits
  <2>2. Wanted' = worker.plan
    BY <1>1, <2>1, SamePlanNow DEF Clean, UpToDate, Passes, Wanted
  <2>3. (Unreachable(Wanted))' = {}
    BY <1>1, <1>3, <2>2 DEF Unreachable, Planned, docker
  <2> QED BY <1>1, <1>4, <2>2, <2>3 DEF Follows
<1>8. UpToDate'
  BY <1>2, <1>7 DEF UpToDate, Passes, Syncing
<1> QED BY <1>2, <1>5, <1>6, <1>8, CleanOutside

\* A sync that reads finds every joined service up and every planned route it
\* holds, so it can write all that a joined service is planned.
LEMMA SyncReadClean ==
  ASSUME Typed, RouteInv, ReachInv, DialInv, Clean, SyncReads, faults' = 0
  PROVE  Clean'
<1>0. /\ worker.pc = "idle" /\ QueueTyped /\ BoundsTyped
      /\ UNCHANGED <<forms, desired, queue, docker, routes>> /\ UNCHANGED <<up, joined>>
  BY DEF Typed, SyncReads, Take, At, docker
<1>1. PICK blind \in SUBSET Service :
        /\ IF blind = {} THEN UNCHANGED faults ELSE Fault
        /\ LET plan == Wanted
               ports == [s \in Service |-> IF plan[s].hosts = {} THEN 0 ELSE CurrentUpstream(plan, s, blind)]
               final == [s \in Service |-> IF ports[s] = 0 THEN {} ELSE plan[s].hosts]
           IN worker' = [pc |-> "syncGain", public |-> Unset, plan |-> plan, ports |-> ports, had |-> Hosts(routes),
                         todo |-> GainFirstHosts(Hosts(routes), final),
                         pending |-> PlannedHosts(plan) \ UNION {final[s] : s \in Service}]
  BY DEF SyncReads
<1>2. blind = {}
  BY <1>0, <1>1, NoFault
<1> DEFINE ports == [s \in Service |-> IF Wanted[s].hosts = {} THEN 0 ELSE CurrentUpstream(Wanted, s, blind)]
           final == [s \in Service |-> IF ports[s] = 0 THEN {} ELSE Wanted[s].hosts]
<1>3. /\ worker'.pc = "syncGain" /\ worker'.plan = Wanted /\ worker'.ports = ports /\ worker'.had = Hosts(routes)
      /\ worker'.pending = PlannedHosts(Wanted) \ UNION {final[s] : s \in Service}
  BY <1>1
<1>4. \A s \in Service : /\ Wanted[s].hosts = {} => ports[s] = 0
                         /\ Wanted[s].hosts # {} => ports[s] = CurrentUpstream(Wanted, s, blind)
                         /\ final[s] = IF ports[s] = 0 THEN {} ELSE Wanted[s].hosts
  OBVIOUS
<1> HIDE DEF ports, final
<1>5. Writable' = {s \in Service : ports[s] # 0} /\ HadRoute' = {s \in Service : routes[s].hosts # {}}
  BY <1>3 DEF Writable, HadRoute, Hosts
<1>6. \A s \in Service : Final'[s] = Wanted[s].hosts
  BY <1>3 DEF Final
<1>7. UNION {final[s] : s \in Service} = UNION {Final'[s] : s \in Writable'}
  BY <1>4, <1>5, <1>6
<1>8. Writable' \subseteq Planned(Wanted)
  BY <1>4, <1>5 DEF Planned
<1>9. HadRoute' \cap Planned(Wanted) \subseteq Writable'
  BY <1>4, <1>5 DEF Planned, CurrentUpstream, DialInv, PortsLive
<1>10. Planned(Wanted) \cap joined \subseteq Writable'
  <2> SUFFICES ASSUME NEW s \in Planned(Wanted) \cap joined PROVE s \in Writable'
    OBVIOUS
  <2>1. s \in Service /\ Wanted[s].hosts # {}
    BY DEF Planned
  <2>2. desired = "running" /\ Wanted = PlanNow
    BY <2>1 DEF Wanted, NoPlan, NoRoute
  <2>3. s \in up
    BY <2>2 DEF Clean, AllUp
  <2>4. Wanted[s].port # 0
    BY <2>1, <2>2, PlanNowSound DEF Typed
  <2>5. routes[s].hosts # {} => routes[s].port # 0
    BY <2>1 DEF DialInv, PortsLive
  <2>6. CurrentUpstream(Wanted, s, blind) # 0
    BY <1>2, <2>3, <2>4, <2>5 DEF CurrentUpstream
  <2> QED BY <1>4, <1>5, <2>1, <2>6
<1>11. SyncPlan'
  BY <1>0, <1>3, <1>7, <1>8, <1>9, <1>10 DEF SyncPlan
<1>12. Apart(worker.had)'
  BY <1>0, <1>3 DEF Clean, RoutesApart, Syncing, Passes, Apart
<1>13. AllUp'
  BY <1>0, <1>3 DEF Clean, AllUp, Passes
<1>14. Wanted' = Wanted
  BY <1>0, SamePlanNow
<1>15. UpToDate'
  BY <1>3, <1>14 DEF UpToDate, Passes
<1> QED BY <1>3, <1>11, <1>12, <1>13, <1>15 DEF Clean, GateHolds, RoutesApart, DeployDone, SyncDone, Syncing, At

\* A pass of a sync keeps what it read and planned.
LEMMA SyncPassKeeps ==
  ASSUME QueueTyped, Clean, UNCHANGED <<forms, desired, queue, docker>>, Syncing, Syncing',
         worker'.plan = worker.plan, worker'.ports = worker.ports, worker'.had = worker.had,
         worker'.pending = worker.pending, SyncDone'
  PROVE  Clean'
<1>1. worker.pc # "idle" /\ UNCHANGED <<up, joined>>
  BY DEF Syncing, docker
<1>2. AllUp'
  BY <1>1 DEF Clean, AllUp, Passes, Syncing
<1>3. ~SyncWaits' => ~SyncWaits
  BY <1>1, LaterWaits, StillWaits
<1>4. UpToDate'
  BY <1>3, SamePlanNow DEF Clean, UpToDate, Passes, Syncing
<1>5. Final' = Final /\ Writable' = Writable /\ HadRoute' = HadRoute
  BY DEF Final, Writable, HadRoute
<1>6. SyncPlan'
  BY <1>1, <1>5 DEF Clean, SyncPlan
<1>7. RoutesApart'
  BY DEF Clean, RoutesApart, Apart
<1> QED BY <1>2, <1>4, <1>6, <1>7 DEF Clean, GateHolds, DeployDone, Syncing, At

LEMMA SyncPassClean ==
  ASSUME Typed, RouteInv, Clean, SyncGaining \/ SyncFinal \/ SyncDrops, faults' = 0
  PROVE  Clean'
<1>0. /\ QueueTyped /\ BoundsTyped /\ IsWorker(worker) /\ IsRoutes(routes) /\ Syncing
      /\ UNCHANGED <<forms, desired, queue, docker>> /\ SyncPlan /\ SyncHolds
      /\ worker.todo \subseteq Service
  BY DEF Typed, WorkTyped, Handler, RouteInv, Shape, SyncGaining, SyncFinal, SyncDrops, Syncing, At, Clean
<1>1. CASE SyncGaining
  <2>1. worker.pc = "syncGain"
    BY <1>1 DEF SyncGaining, At
  <2>2. CASE worker.todo = {}
    <3>1. worker' = [worker EXCEPT !.pc = "syncFinal", !.todo = Writable \cup HadRoute]
      BY <1>1, <2>2 DEF SyncGaining
    <3>2. /\ worker'.pc = "syncFinal" /\ worker'.plan = worker.plan /\ worker'.ports = worker.ports
          /\ worker'.had = worker.had /\ worker'.pending = worker.pending
          /\ worker'.todo = Writable \cup HadRoute
      BY <1>0, <3>1 DEF IsWorker
    <3>3. Writable' = Writable /\ HadRoute' = HadRoute
      BY <3>2 DEF Writable, HadRoute
    <3>4. SyncDone' /\ Syncing'
      BY <3>2, <3>3 DEF SyncDone, Syncing, At
    <3> QED BY <1>0, <3>2, <3>4, SyncPassKeeps
  <2>3. CASE worker.todo # {}
    <3>1. PICK s \in worker.todo : worker' = [worker EXCEPT !.todo = @ \ {s}]
      BY <1>0, <1>1, <2>3, NoFault DEF SyncGaining
    <3>2. /\ worker'.pc = "syncGain" /\ worker'.plan = worker.plan /\ worker'.ports = worker.ports
          /\ worker'.had = worker.had /\ worker'.pending = worker.pending
      BY <1>0, <2>1, <3>1 DEF IsWorker
    <3>3. SyncDone' /\ Syncing'
      BY <3>2 DEF SyncDone, Syncing, At
    <3> QED BY <1>0, <3>2, <3>3, SyncPassKeeps
  <2> QED BY <2>2, <2>3
<1>2. CASE SyncFinal
  <2>1. /\ worker.pc = "syncFinal"
        /\ \A s \in (Writable \cup HadRoute) \ worker.todo : Settled(s) # {} => routes[s].hosts = Settled(s)
    BY <1>2 DEF SyncFinal, At, Clean, SyncDone
  <2>2. CASE worker.todo = {}
    <3>1. /\ worker' = [worker EXCEPT !.pc = "syncDrop",
                                      !.todo = {s \in HadRoute \ Planned(worker.plan) : Held(s) = {}}]
          /\ UNCHANGED routes
      BY <1>2, <2>2 DEF SyncFinal
    <3>2. /\ worker'.pc = "syncDrop" /\ worker'.plan = worker.plan /\ worker'.ports = worker.ports
          /\ worker'.had = worker.had /\ worker'.pending = worker.pending
          /\ worker'.todo = {s \in HadRoute \ Planned(worker.plan) : Held(s) = {}}
      BY <1>0, <3>1 DEF IsWorker
    <3>3. ASSUME NEW s \in Service \ worker'.todo
          PROVE  routes[s].hosts = Settled(s)
      <4>1. CASE s \in Writable
        <5>1. Final[s] # {}
          BY <1>0, <3>3, <4>1 DEF SyncPlan, Planned, Final
        <5>2. Settled(s) # {}
          BY <4>1, <5>1 DEF Settled
        <5> QED BY <2>1, <2>2, <4>1, <5>2
      <4>2. CASE s \notin Writable /\ s \in HadRoute
        <5>1. s \notin Planned(worker.plan)
          BY <1>0, <4>2 DEF SyncPlan
        <5>2. Held(s) # {}
          BY <3>2, <3>3, <4>2, <5>1
        <5>3. Settled(s) # {}
          BY <5>2 DEF Settled
        <5> QED BY <2>1, <2>2, <4>2, <5>3
      <4>3. CASE s \notin Writable /\ s \notin HadRoute
        <5>1. worker.had[s] = {}
          BY <3>3, <4>3 DEF HadRoute
        <5>2. routes[s].hosts = {}
          BY <1>0, <3>3, <4>3, <5>1 DEF SyncHolds, May
        <5> QED BY <4>3, <5>1, <5>2 DEF Settled, Held
      <4> QED BY <4>1, <4>2, <4>3
    <3>4. \A s \in Service : (Settled(s))' = Settled(s)
      BY <3>2 DEF Settled, Held, Writable, Final
    <3>5. SyncDone' /\ Syncing'
      BY <3>1, <3>2, <3>3, <3>4 DEF SyncDone, Syncing, At
    <3> QED BY <1>0, <3>2, <3>5, SyncPassKeeps
  <2>3. CASE worker.todo # {}
    <3>1. PICK s \in worker.todo :
            /\ worker' = [worker EXCEPT !.todo = @ \ {s}]
            /\ routes' = IF Settled(s) = {} THEN routes
                         ELSE [routes EXCEPT ![s] = [hosts |-> Settled(s),
                                 port |-> IF s \in Writable THEN worker.ports[s] ELSE routes[s].port]]
      BY <1>0, <1>2, <2>3, NoFault DEF SyncFinal
    <3>2. /\ worker'.pc = "syncFinal" /\ worker'.plan = worker.plan /\ worker'.ports = worker.ports
          /\ worker'.had = worker.had /\ worker'.pending = worker.pending /\ worker'.todo = worker.todo \ {s}
      BY <1>0, <2>1, <3>1 DEF IsWorker
    <3>3. /\ Settled(s) # {} => routes'[s].hosts = Settled(s)
          /\ \A t \in Service \ {s} : routes'[t] = routes[t]
      BY <1>0, <3>1 DEF IsRoutes
    <3>4. \A t \in (Writable \cup HadRoute) \ worker'.todo : Settled(t) # {} => routes'[t].hosts = Settled(t)
      BY <2>1, <3>2, <3>3 DEF Writable, HadRoute
    <3>5. /\ \A t \in Service : (Settled(t))' = Settled(t)
          /\ Writable' = Writable /\ HadRoute' = HadRoute
      BY <3>2 DEF Settled, Held, Writable, Final, HadRoute
    <3>6. Writable \cup HadRoute \subseteq Service
      BY DEF Writable, HadRoute
    <3>7. SyncDone' /\ Syncing'
      BY <3>2, <3>4, <3>5, <3>6 DEF SyncDone, Syncing, At
    <3> QED BY <1>0, <3>2, <3>7, SyncPassKeeps
  <2> QED BY <2>2, <2>3
<1>3. CASE SyncDrops
  <2>1. worker.pc = "syncDrop" /\ \A s \in Service \ worker.todo : routes[s].hosts = Settled(s)
    BY <1>3 DEF SyncDrops, At, Clean, SyncDone
  <2>2. PICK s \in worker.todo : Drop(s) /\ worker' = [worker EXCEPT !.todo = @ \ {s}]
    BY <1>3 DEF SyncDrops
  <2>3. /\ worker'.pc = "syncDrop" /\ worker'.plan = worker.plan /\ worker'.ports = worker.ports
        /\ worker'.had = worker.had /\ worker'.pending = worker.pending /\ worker'.todo = worker.todo \ {s}
    BY <1>0, <2>1, <2>2 DEF IsWorker
  <2>4. routes' = [routes EXCEPT ![s] = NoRoute]
    BY <1>0, <2>2, NoFault DEF Drop
  <2>5. s \in Service /\ s \notin Planned(worker.plan) /\ Held(s) = {}
    BY <2>1, <2>2 DEF RouteInv, SyncTodo, At
  <2>6. Settled(s) = {}
    BY <1>0, <2>5 DEF Settled, SyncPlan
  <2>7. routes'[s].hosts = {} /\ \A t \in Service \ {s} : routes'[t] = routes[t]
    BY <1>0, <2>4, <2>5 DEF IsRoutes, NoRoute
  <2>8. \A t \in Service \ worker'.todo : routes'[t].hosts = Settled(t)
    BY <2>1, <2>3, <2>6, <2>7
  <2>9. \A t \in Service : (Settled(t))' = Settled(t)
    BY <2>3 DEF Settled, Held, Writable, Final
  <2>10. SyncDone' /\ Syncing'
    BY <2>3, <2>8, <2>9 DEF SyncDone, Syncing, At
  <2> QED BY <1>0, <2>3, <2>10, SyncPassKeeps
<1> QED BY <1>1, <1>2, <1>3

\* A sync that ends leaves what it settled on, which follows its plan.
LEMMA SyncEndClean ==
  ASSUME Typed, RouteInv, Clean, SyncEnds
  PROVE  Clean'
<1>1. /\ worker.pc = "syncDrop" /\ worker.todo = {} /\ UNCHANGED <<forms, desired, docker, routes>>
      /\ UNCHANGED <<up, joined>> /\ JobEnds /\ QueueTyped /\ queue # << >> /\ Syncing
  BY DEF SyncEnds, At, Typed, QueueTyped, docker, Syncing
<1>2. worker'.pc = "idle"
  BY <1>1 DEF JobEnds, Idle
<1>3. \A s \in Service : routes[s].hosts = Settled(s)
  BY <1>1 DEF Clean, SyncDone, At
<1> DEFINE plan == worker.plan
<1>4. /\ worker.pending = PlannedHosts(plan) \ UNION {Final[s] : s \in Writable}
      /\ Writable \subseteq Planned(plan) /\ Planned(plan) \cap joined \subseteq Writable
      /\ Apart(worker.had) /\ OneOwner(plan) /\ \A s \in Service : Final[s] = plan[s].hosts
  BY <1>1 DEF Clean, SyncPlan, RoutesApart, RouteInv, Shape, Final
<1>5. Writable \subseteq Service
  BY DEF Writable
<1>6. \A s \in Service : Held(s) \subseteq worker.had[s] /\ Held(s) \subseteq worker.pending
  BY DEF Held
<1>7. \A s \in Writable : Final[s] \cap worker.pending = {}
  BY <1>4
<1>8. worker.pending \subseteq Unreachable(plan)
  <2> SUFFICES ASSUME NEW h \in worker.pending PROVE h \in Unreachable(plan)
    OBVIOUS
  <2>1. PICK s \in Service : h \in plan[s].hosts
    BY <1>4 DEF PlannedHosts
  <2>2. s \notin Writable
    BY <1>4, <2>1
  <2>3. s \in Planned(plan) /\ s \notin joined
    BY <1>4, <2>1, <2>2 DEF Planned
  <2> QED BY <2>1, <2>3 DEF Unreachable
<1>9. Apart(Hosts(routes))
  <2> SUFFICES ASSUME NEW s \in Service, NEW t \in Service, s # t, NEW h, h \in Settled(s), h \in Settled(t)
               PROVE  FALSE
    BY <1>3 DEF Apart, Hosts
  <2>1. CASE h \in Held(s) /\ h \in Held(t)
    BY <1>4, <1>6, <2>1 DEF Apart
  <2>2. CASE h \notin Held(s) /\ h \notin Held(t)
    BY <1>4, <2>2 DEF Settled, OneOwner
  <2>3. CASE h \in Held(s) /\ h \notin Held(t)
    BY <1>6, <1>7, <2>3 DEF Settled
  <2>4. CASE h \notin Held(s) /\ h \in Held(t)
    BY <1>6, <1>7, <2>4 DEF Settled
  <2> QED BY <2>1, <2>2, <2>3, <2>4
<1>10. Follows(plan)
  <2>1. ASSUME NEW s \in Service, s \in up \cap joined, plan[s].hosts # {}
        PROVE  routes[s].hosts \ Unreachable(plan) = plan[s].hosts
    <3>1. s \in Writable
      BY <1>4, <2>1 DEF Planned
    <3>2. plan[s].hosts \cap Unreachable(plan) = {}
      BY <1>4, <2>1 DEF Unreachable, OneOwner
    <3>3. routes[s].hosts = plan[s].hosts \cup Held(s)
      BY <1>3, <1>4, <3>1 DEF Settled
    <3> QED BY <1>6, <1>8, <3>2, <3>3
  <2>2. \A s \in Service : routes[s].hosts \subseteq plan[s].hosts \cup Unreachable(plan)
    BY <1>3, <1>4, <1>6, <1>8 DEF Settled
  <2> QED BY <2>1, <2>2 DEF Follows
<1>11. AllUp'
  BY <1>1, <1>2 DEF Clean, AllUp, Passes
<1>12. ASSUME ~SyncWaits'
       PROVE  (Follows(Wanted))'
  <2>1. ~SyncWaits
    BY <1>1, <1>12, LaterWaits, TailWaits
  <2>2. Wanted' = plan
    BY <1>1, <2>1, SamePlanNow DEF Clean, UpToDate
  <2> QED BY <1>1, <1>10, <2>2 DEF Follows, Unreachable
<1>13. UpToDate'
  BY <1>2, <1>12 DEF UpToDate, Passes, Syncing
<1>14. Apart(Hosts(routes))'
  BY <1>1, <1>9 DEF Apart, Hosts
<1> QED BY <1>2, <1>11, <1>13, <1>14, CleanOutside

LEMMA FaultsStay ==
  ASSUME BoundsTyped, [Next]_vars, faults' = 0
  PROVE  faults = 0 /\ ~ComposeUpFails /\ ~SyncBlind /\ ~ServiceDies /\ ~Crash
<1>1. ~Fault
  BY NoFault
<1>2. ~ComposeUpFails /\ ~SyncBlind /\ ~ServiceDies /\ ~Crash
  BY <1>1 DEF ComposeUpFails, SyncBlind, ServiceDies, Crash
<1>3. UNCHANGED faults
  <2>1. CASE UNCHANGED vars
    BY <2>1 DEF vars
  <2>2. CASE Deploy \/ Stop \/ AddDomain \/ MoveDomain \/ DeleteDomain \/ SaveComposeSettings \/ SetDashboardHost
    BY <2>2 DEF Deploy, Stop, AddDomain, MoveDomain, DeleteDomain, SaveComposeSettings, SetDashboardHost
  <2>3. CASE MarkRunning \/ ReadPlan \/ ComposeUp \/ PassGate \/ ReadRoutes \/ WriteGaining \/ WriteFinal
             \/ RecordSuccess \/ SyncEnds
    BY <2>3 DEF MarkRunning, ReadPlan, ComposeUp, PassGate, ReadRoutes, WriteGaining, WriteFinal, RecordSuccess, SyncEnds
  <2>4. CASE DeployFails \/ DropStale \/ SyncDrops \/ SyncReads \/ SyncGaining \/ SyncFinal \/ StopStack
    BY <1>1, <2>4 DEF DeployFails, DropStale, SyncDrops, Drop, SyncReads, SyncGaining, SyncFinal, StopStack
  <2> QED BY <1>2, <2>1, <2>2, <2>3, <2>4 DEF Next
<1> QED BY <1>2, <1>3

LEMMA CleanUnmoved ==
  ASSUME Clean, UNCHANGED vars
  PROVE  Clean'
<1>1. UNCHANGED <<rows, public, dashboard, desired, queue, up, joined, routes, worker>> /\ UNCHANGED forms
  BY DEF vars, forms, docker
<1>2. PlanNow' = PlanNow /\ Wanted' = Wanted
  BY <1>1, SamePlanNow
<1>3. /\ Final' = Final /\ Writable' = Writable /\ HadRoute' = HadRoute /\ (Syncing' <=> Syncing)
      /\ \A s : (Settled(s))' = Settled(s)
  BY <1>1, WorkSame
<1>4. GateHolds' /\ AllUp' /\ RoutesApart'
  BY <1>1, <1>3 DEF Clean, GateHolds, AllUp, RoutesApart, Apart, Hosts, At
<1>5. UpToDate'
  BY <1>1, <1>2, <1>3 DEF Clean, UpToDate, SyncWaits, Waiting, Follows, Unreachable
<1>6. DeployDone' /\ SyncPlan' /\ SyncDone'
  BY <1>1, <1>3 DEF Clean, DeployDone, SyncPlan, SyncDone, At
<1> QED BY <1>4, <1>5, <1>6 DEF Clean

LEMMA StepClean ==
  ASSUME Typed, RouteInv, ReachInv, DialInv, CleanInv, [Next]_vars
  PROVE  CleanInv'
<1> SUFFICES ASSUME faults' = 0 PROVE Clean'
  BY DEF CleanInv
<1>0. BoundsTyped
  BY DEF Typed
<1>1. Clean /\ ~ComposeUpFails /\ ~SyncBlind /\ ~ServiceDies /\ ~Crash
  BY <1>0, FaultsStay DEF CleanInv
<1>2. CASE UNCHANGED vars
  BY <1>1, <1>2, CleanUnmoved
<1>3. CASE AddDomain \/ MoveDomain \/ DeleteDomain \/ SaveComposeSettings \/ SetDashboardHost
  BY <1>1, <1>3, EditClean DEF Edits
<1>4. CASE Deploy \/ Stop
  BY <1>1, <1>4, AskClean
<1>5. CASE MarkRunning \/ ReadPlan \/ PassGate
  BY <1>1, <1>5, PlanStepClean
<1>6. CASE ComposeUp
  BY <1>1, <1>6, UpClean
<1>7. CASE DeployFails
  BY <1>0, <1>1, <1>7, NoFault DEF DeployFails, Clean, GateHolds, At
<1>8. CASE ReadRoutes \/ WriteGaining \/ WriteFinal \/ DropStale
  BY <1>1, <1>8, DeployPassClean
<1>9. CASE RecordSuccess
  BY <1>1, <1>9, SuccessClean
<1>10. CASE SyncReads
  BY <1>1, <1>10, SyncReadClean
<1>11. CASE SyncGaining \/ SyncFinal \/ SyncDrops
  BY <1>1, <1>11, SyncPassClean
<1>12. CASE SyncEnds
  BY <1>1, <1>12, SyncEndClean
<1>13. CASE StopStack
  BY <1>0, <1>1, <1>13, StopClean
<1> QED BY <1>1, <1>2, <1>3, <1>4, <1>5, <1>6, <1>7, <1>8, <1>9, <1>10, <1>11, <1>12, <1>13 DEF Next

RoutesSafe == RouteInv /\ ReachInv /\ Typed /\ DialInv /\ CleanInv

LEMMA AlwaysSafe == Spec => []RoutesSafe
<1>1. Init => RoutesSafe
  BY InitRoutes, InitReach, InitTyped, InitDials, InitClean DEF RoutesSafe, CleanInv
<1>2. RoutesSafe /\ [Next]_vars => RoutesSafe'
  BY StepHolds, ReachStep, StepTyped, StepDials, StepClean DEF RoutesSafe
<1> QED BY <1>1, <1>2, PTL DEF Spec

\* With no job left and nothing failed, the routes are those of the rows and of
\* what the network has.
LEMMA QuietSettles ==
  ASSUME RoutesSafe
  PROVE  RoutesSettle
<1>1. TypeOK
  BY TypedIsTypeOK DEF RoutesSafe
<1>2. ASSUME Quiet
      PROVE  Follows(Wanted) /\ Apart(Hosts(routes)) /\ dashboard \notin Routed
  <2>1. worker.pc = "idle" /\ Clean
    BY <1>2 DEF Quiet, RoutesSafe, Typed, QueueTyped, CleanInv
  <2>2. ~SyncWaits
    BY <1>2 DEF Quiet, SyncWaits, Waiting
  <2>3. Follows(Wanted) /\ Apart(Hosts(routes))
    BY <2>1, <2>2 DEF Clean, UpToDate, RoutesApart, Syncing, Passes
  <2>4. dashboard \notin PlannedHosts(PlanNow)
    BY PlanNowSound DEF RoutesSafe, Typed
  <2>5. dashboard \notin PlannedHosts(Wanted)
    BY <2>4 DEF Wanted, PlannedHosts, NoPlan, NoRoute
  <2>6. Routed \subseteq PlannedHosts(Wanted)
    BY <2>3 DEF Follows, Unreachable, PlannedHosts, Routed
  <2> QED BY <2>3, <2>5, <2>6
<1> QED BY <1>1, <1>2 DEF RoutesSettle, Follows, Unreachable, Apart, Hosts

\* Once the jobs of a stack are done and nothing failed, its routes are its
\* plan's: each joined service has exactly its hosts, no host is on two routes,
\* the dashboard's on none, whatever forms, deploys, syncs and stops ran and
\* in whatever order (ApplyStackRouting queues a sync for every change of the
\* rows; applyStackRoutes and syncStackRoutes write what they planned).
THEOREM RoutesAlwaysSettle == Spec => []RoutesSettle
<1>1. RoutesSafe => RoutesSettle
  BY QuietSettles
<1> QED BY <1>1, AlwaysSafe, PTL

-----------------------------------------------------------------------------
(* Once the jobs are done, what is planned is reachable.                     *)

LEMMA FirstLeast ==
  ASSUME NEW S, S \subseteq Nat, S # {}
  PROVE  First(S) \in S /\ \A j \in S : First(S) <= j
BY Before DEF First

\* The rows of one service ask for one port, the public one's for the public port.
RowsAgree(theRows, thePublic) ==
  /\ \A i, j \in DOMAIN theRows :
       theRows[i].service \in Service /\ theRows[i].service = theRows[j].service
         => theRows[i].port = theRows[j].port
  /\ \A i \in DOMAIN theRows :
       theRows[i].service \in Service /\ theRows[i].service = thePublic.service
         => theRows[i].port = thePublic.port

ClaimOf(r, thePublic) ==
  IF r.service = NoService THEN [host |-> r.host, service |-> thePublic.service, port |-> thePublic.port]
  ELSE [host |-> r.host, service |-> r.service, port |-> r.port]
AutoClaim(thePublic, auto) == [host |-> auto, service |-> thePublic.service, port |-> thePublic.port]

ClaimedBy(claims, n, theRows, thePublic, auto) ==
  /\ DOMAIN claims = IF auto = NoHost THEN 1..n ELSE 1..(n + 1)
  /\ \A i \in 1..n : claims[i] = ClaimOf(theRows[i], thePublic)
  /\ auto # NoHost => claims[n + 1] = AutoClaim(thePublic, auto)

LEMMA ClaimsAre ==
  ASSUME NEW theRows \in Seq(SoundRow), NEW thePublic \in Public, NEW auto \in Host \cup {NoHost}
  PROVE  ClaimedBy(Claims(theRows, thePublic, auto), Len(theRows), theRows, thePublic, auto)
<1> DEFINE T == SoundClaim(theRows, thePublic)
           claims == Claims(theRows, thePublic, auto)
           n == Len(theRows)
           made == [i \in DOMAIN theRows |-> ClaimOf(theRows[i], thePublic)]
           implicit == IF auto = NoHost THEN << >> ELSE << AutoClaim(thePublic, auto) >>
<1>1. claims = made \o implicit
  BY DEF Claims, ClaimOf, AutoClaim
<1>2. n \in Nat /\ DOMAIN theRows = 1..n
  OBVIOUS
<1>3. Len(made) = n /\ \A i \in 1..n : made[i] = ClaimOf(theRows[i], thePublic)
  <2> HIDE DEF n
  <2> QED BY <1>2
<1>4. Len(implicit) = IF auto = NoHost THEN 0 ELSE 1
  OBVIOUS
<1>5. auto # NoHost => implicit[1] = AutoClaim(thePublic, auto)
  OBVIOUS
<1> HIDE DEF made, implicit, n
<1>6. /\ DOMAIN (made \o implicit) = 1..(Len(made) + Len(implicit))
      /\ \A i \in 1..(Len(made) + Len(implicit)) :
           (made \o implicit)[i] = IF i <= Len(made) THEN made[i] ELSE implicit[i - Len(made)]
  OBVIOUS
<1> DEFINE both == made \o implicit
<1>7. claims = both
  BY <1>1
<1> HIDE DEF both, claims
<1>8. DOMAIN both = IF auto = NoHost THEN 1..n ELSE 1..(n + 1)
  BY <1>2, <1>3, <1>4, <1>6 DEF both
<1>9. \A i \in 1..n : both[i] = made[i]
  BY <1>2, <1>3, <1>4, <1>6 DEF both
<1>10. auto # NoHost => both[n + 1] = implicit[1]
  BY <1>2, <1>3, <1>4, <1>6 DEF both
<1> QED BY <1>2, <1>3, <1>5, <1>7, <1>8, <1>9, <1>10 DEF claims, n, ClaimedBy

\* A service's claims ask for the port it gets.
LEMMA ClaimsAgree ==
  ASSUME NEW theRows \in Seq(SoundRow), NEW thePublic \in Public, NEW auto \in Host \cup {NoHost},
         RowsAgree(theRows, thePublic)
  PROVE  LET claims == Claims(theRows, thePublic, auto)
         IN /\ Made(claims) \subseteq Nat
            /\ \A j \in Made(claims) :
                 claims[j].service \in Service /\ PortIn(claims, thePublic, claims[j].service) = claims[j].port
<1> DEFINE claims == Claims(theRows, thePublic, auto)
           n == Len(theRows)
<1>1. /\ n \in Nat /\ DOMAIN theRows = 1..n
      /\ DOMAIN claims = IF auto = NoHost THEN 1..n ELSE 1..(n + 1)
      /\ \A i \in 1..n : claims[i] = ClaimOf(theRows[i], thePublic)
      /\ auto # NoHost => claims[n + 1] = AutoClaim(thePublic, auto)
  BY ClaimsAre DEF ClaimedBy
<1>2. \A i \in 1..n : theRows[i] \in Row
  BY <1>1 DEF SoundRow
<1>3. thePublic.service \in Service \cup {NoService}
  BY DEF Public, Unset
<1> HIDE DEF claims, n
<1>4. Made(claims) \subseteq Nat
  BY <1>1 DEF Made
<1>5. ASSUME NEW j \in Made(claims)
      PROVE  \/ claims[j].service = thePublic.service /\ claims[j].port = thePublic.port
             \/ \E i \in 1..n : claims[j].service = theRows[i].service /\ claims[j].port = theRows[i].port
  <2>1. CASE j \in 1..n
    <3>1. claims[j] = ClaimOf(theRows[j], thePublic)
      BY <1>1, <2>1
    <3>2. CASE theRows[j].service = NoService
      BY <3>1, <3>2 DEF ClaimOf
    <3>3. CASE theRows[j].service # NoService
      BY <2>1, <3>1, <3>3 DEF ClaimOf
    <3> QED BY <3>2, <3>3
  <2>2. CASE j \notin 1..n
    BY <1>1, <2>2 DEF Made, AutoClaim
  <2> QED BY <2>1, <2>2
<1>6. \A j \in Made(claims) : claims[j].service \in Service
  BY <1>2, <1>3, <1>5 DEF Made, Row
<1>7. ASSUME NEW j \in Made(claims), NEW k \in Made(claims), claims[j].service = claims[k].service
      PROVE  claims[j].port = claims[k].port
  BY <1>1, <1>5, <1>6, <1>7 DEF RowsAgree
<1>8. ASSUME NEW j \in Made(claims), claims[j].service = thePublic.service
      PROVE  claims[j].port = thePublic.port
  BY <1>1, <1>5, <1>6, <1>8 DEF RowsAgree
<1>9. ASSUME NEW j \in Made(claims)
      PROVE  PortIn(claims, thePublic, claims[j].service) = claims[j].port
  <2> DEFINE own == {i \in Made(claims) : claims[i].service = claims[j].service}
  <2>1. j \in own /\ own \subseteq Nat
    BY <1>4
  <2>2. First(own) \in own
    <3> HIDE DEF own
    <3> QED BY <2>1, FirstIs
  <2>3. claims[First(own)].port = claims[j].port
    BY <2>2, <1>7
  <2> QED BY <1>8, <2>1, <2>3 DEF PortIn
<1> QED BY <1>4, <1>6, <1>9 DEF claims

\* A service is planned the hosts it is the first to claim, on its port.
FirstClaim(claims, j) == \A k \in Made(claims) : claims[k].host = claims[j].host => j <= k
PlannedBy(plan, claims, theDashboard) ==
  /\ Made(claims) \subseteq Nat
  /\ \A j \in Made(claims) : claims[j].service \in Service /\ plan[claims[j].service].port = claims[j].port
  /\ \A s \in Service : \A h \in plan[s].hosts :
       /\ h # theDashboard
       /\ \E j \in Made(claims) : claims[j].host = h /\ claims[j].service = s /\ FirstClaim(claims, j)
  /\ \A j \in Made(claims) : FirstClaim(claims, j) /\ claims[j].host # theDashboard
       => claims[j].host \in plan[claims[j].service].hosts

LEMMA PlanIs ==
  ASSUME NEW theRows \in Seq(SoundRow), NEW thePublic \in Public, NEW auto \in Host \cup {NoHost},
         NEW theDashboard, RowsAgree(theRows, thePublic)
  PROVE  PlannedBy(RoutingPlan(theRows, thePublic, auto, theDashboard), Claims(theRows, thePublic, auto),
                   theDashboard)
<1> DEFINE claims == Claims(theRows, thePublic, auto)
           plan == RoutingPlan(theRows, thePublic, auto, theDashboard)
           winner(h) == claims[First({i \in Made(claims) : claims[i].host = h})]
           claimed == {claims[i].host : i \in Made(claims)} \ {theDashboard}
           owned(s) == {h \in claimed : winner(h).service = s /\ winner(h).port = PortIn(claims, thePublic, s)}
<1>1. plan = [s \in Service |-> [hosts |-> owned(s), port |-> PortIn(claims, thePublic, s)]]
  BY DEF RoutingPlan
<1>2. /\ Made(claims) \subseteq Nat
      /\ \A j \in Made(claims) : claims[j].service \in Service
                                 /\ PortIn(claims, thePublic, claims[j].service) = claims[j].port
  BY ClaimsAgree
<1>3. \A s \in Service : plan[s].hosts = owned(s) /\ plan[s].port = PortIn(claims, thePublic, s)
  BY <1>1
<1> HIDE DEF plan, claims
<1>4. ASSUME NEW s \in Service, NEW h, h \in owned(s)
      PROVE  /\ h # theDashboard
             /\ \E j \in Made(claims) : claims[j].host = h /\ claims[j].service = s /\ FirstClaim(claims, j)
  <2> DEFINE S == {i \in Made(claims) : claims[i].host = h}
  <2>1. S # {} /\ S \subseteq Nat /\ h # theDashboard
    BY <1>2, <1>4
  <2>2. First(S) \in S /\ \A k \in S : First(S) <= k
    <3> HIDE DEF S
    <3> QED BY <2>1, FirstLeast
  <2>3. claims[First(S)].service = s
    BY <1>4
  <2> QED BY <2>1, <2>2, <2>3 DEF FirstClaim
<1>5. ASSUME NEW s \in Service, NEW j \in Made(claims), claims[j].host # theDashboard, claims[j].service = s,
             FirstClaim(claims, j)
      PROVE  claims[j].host \in owned(s)
  <2> DEFINE h == claims[j].host
             S == {i \in Made(claims) : claims[i].host = h}
  <2>1. j \in S /\ S \subseteq Nat
    BY <1>2
  <2>2. First(S) \in S /\ \A k \in S : First(S) <= k
    <3> HIDE DEF S
    <3> QED BY <2>1, FirstLeast
  <2>3. First(S) <= j /\ j <= First(S) /\ First(S) \in Nat /\ j \in Nat
    BY <2>1, <2>2, <1>5 DEF FirstClaim
  <2>4. First(S) = j
    <3> HIDE DEF S
    <3> QED BY <2>3
  <2>5. winner(h) = claims[j]
    BY <2>4
  <2> HIDE DEF winner
  <2> QED BY <1>2, <1>5, <2>5
<1> HIDE DEF owned, winner, claimed
<1> QED BY <1>2, <1>3, <1>4, <1>5 DEF plan, claims, PlannedBy

\* A form for a service at a port: the service is planned at that port, and no
\* other is planned anew or at another port.
Retargets(old, new, s, p) ==
  /\ new[s].port = p
  /\ \A t \in Service \ {s} :
       new[t].hosts # {} => old[t].hosts # {} /\ new[t].port = old[t].port

LEMMA AddRetargets ==
  ASSUME NEW old \in Seq(SoundRow), NEW new \in Seq(SoundRow), NEW thePublic \in Public,
         NEW auto \in Host \cup {NoHost}, NEW theDashboard,
         RowsAgree(old, thePublic), RowsAgree(new, thePublic),
         NEW r \in SoundRow, r.service \in Service, \A i \in DOMAIN old : old[i].host # r.host,
         new = Append(old, r)
  PROVE  Retargets(RoutingPlan(old, thePublic, auto, theDashboard),
                   RoutingPlan(new, thePublic, auto, theDashboard), r.service, r.port)
<1> DEFINE was == Claims(old, thePublic, auto)
           are == Claims(new, thePublic, auto)
           planned == RoutingPlan(old, thePublic, auto, theDashboard)
           plan == RoutingPlan(new, thePublic, auto, theDashboard)
           n == Len(old)
<1>1. n \in Nat /\ DOMAIN old = 1..n /\ Len(new) = n + 1 /\ new[n + 1] = r
      /\ \A i \in 1..n : new[i] = old[i]
  <2> HIDE DEF SoundRow
  <2> QED OBVIOUS
<1>2. ClaimedBy(was, n, old, thePublic, auto) /\ ClaimedBy(are, Len(new), new, thePublic, auto)
  BY ClaimsAre
<1>3. PlannedBy(planned, was, theDashboard) /\ PlannedBy(plan, are, theDashboard)
  BY PlanIs
<1> HIDE DEF was, are, planned, plan, n
<1>4. /\ DOMAIN was = IF auto = NoHost THEN 1..n ELSE 1..(n + 1)
      /\ DOMAIN are = IF auto = NoHost THEN 1..(n + 1) ELSE 1..(n + 2)
  BY <1>1, <1>2 DEF ClaimedBy
<1>5. \A i \in 1..n : are[i] = was[i]
  BY <1>1, <1>2 DEF ClaimedBy
<1>6. are[n + 1] = [host |-> r.host, service |-> r.service, port |-> r.port]
  <2>1. are[n + 1] = ClaimOf(r, thePublic)
    BY <1>1, <1>2 DEF ClaimedBy
  <2> QED BY <2>1, StackNames DEF ClaimOf
<1>7. auto # NoHost => are[n + 2] = was[n + 1]
  <2>1. auto # NoHost => are[n + 1 + 1] = AutoClaim(thePublic, auto)
    BY <1>1, <1>2 DEF ClaimedBy
  <2>2. auto # NoHost => was[n + 1] = AutoClaim(thePublic, auto)
    BY <1>1, <1>2 DEF ClaimedBy
  <2>3. n + 1 + 1 = n + 2
    BY <1>1
  <2> QED BY <2>1, <2>2, <2>3
<1>8. n + 1 \in Made(are)
  BY <1>1, <1>4, <1>6, StackNames DEF Made
<1>9. \A i \in 1..n : i \in Made(was) <=> i \in Made(are)
  BY <1>1, <1>4, <1>5 DEF Made
<1>10. /\ \A i \in Made(was) : i \in 1..n \/ i = n + 1
       /\ \A i \in Made(are) : i \in 1..n \/ i = n + 1 \/ i = n + 2
  <2>1. Made(was) \subseteq 1..(n + 1)
    BY <1>1, <1>4 DEF Made
  <2>2. Made(are) \subseteq 1..(n + 2)
    BY <1>1, <1>4 DEF Made
  <2> QED BY <1>1, <2>1, <2>2
<1>11. n + 2 \in Made(are) => n + 1 \in Made(was) /\ are[n + 2] = was[n + 1]
  <2> SUFFICES ASSUME n + 2 \in Made(are) PROVE n + 1 \in Made(was) /\ are[n + 2] = was[n + 1]
    OBVIOUS
  <2>1. auto # NoHost
    BY <1>1, <1>4 DEF Made
  <2> QED BY <1>1, <1>4, <1>7, <2>1 DEF Made
<1>12. plan[r.service].port = r.port
  BY <1>3, <1>6, <1>8 DEF PlannedBy
<1>13. ASSUME NEW t \in Service \ {r.service}, NEW g \in plan[t].hosts
       PROVE  g \in planned[t].hosts /\ plan[t].port = planned[t].port
  <2>1. PICK j \in Made(are) : are[j].host = g /\ are[j].service = t /\ FirstClaim(are, j)
    BY <1>3 DEF PlannedBy
  <2>2. g # theDashboard /\ plan[t].port = are[j].port
    BY <1>3, <2>1 DEF PlannedBy
  <2>3. j # n + 1
    BY <1>6, <2>1
  <2>4. PICK i \in Made(was) : was[i] = are[j] /\ FirstClaim(was, i)
    <3>1. CASE j \in 1..n
      <4>1. j \in Made(was) /\ was[j] = are[j]
        BY <1>5, <1>9, <3>1
      <4>2. \A k \in Made(was) : was[k].host = g => j <= k
        BY <1>1, <1>5, <1>9, <1>10, <2>1, <3>1 DEF FirstClaim
      <4> QED BY <2>1, <4>1, <4>2 DEF FirstClaim
    <3>2. CASE j = n + 2
      <4>1. n + 1 \in Made(was) /\ was[n + 1] = are[j]
        BY <1>11, <3>2
      <4>2. ASSUME NEW k \in Made(was), was[k].host = g, k \in 1..n
            PROVE  FALSE
        <5>1. k \in Made(are) /\ are[k].host = g
          BY <1>5, <1>9, <4>2
        <5>2. j <= k
          BY <2>1, <5>1 DEF FirstClaim
        <5> QED BY <1>1, <3>2, <4>2, <5>2
      <4>3. \A k \in Made(was) : was[k].host = g => n + 1 <= k
        BY <1>1, <1>10, <4>2
      <4> QED BY <2>1, <4>1, <4>3 DEF FirstClaim
    <3> QED BY <1>10, <2>3, <3>1, <3>2
  <2> QED BY <1>3, <2>1, <2>2, <2>4 DEF PlannedBy
<1> QED BY <1>12, <1>13 DEF Retargets, plan, planned

LEMMA MoveRetargets ==
  ASSUME NEW old \in Seq(SoundRow), NEW new \in Seq(SoundRow), NEW thePublic \in Public,
         NEW auto \in Host \cup {NoHost}, NEW theDashboard,
         RowsAgree(old, thePublic), RowsAgree(new, thePublic),
         NEW i \in DOMAIN old, NEW r \in SoundRow, r.service \in Service, r.host = old[i].host,
         new = [old EXCEPT ![i] = r]
  PROVE  Retargets(RoutingPlan(old, thePublic, auto, theDashboard),
                   RoutingPlan(new, thePublic, auto, theDashboard), r.service, r.port)
<1> DEFINE was == Claims(old, thePublic, auto)
           are == Claims(new, thePublic, auto)
           planned == RoutingPlan(old, thePublic, auto, theDashboard)
           plan == RoutingPlan(new, thePublic, auto, theDashboard)
           n == Len(old)
<1>1. n \in Nat /\ DOMAIN old = 1..n /\ Len(new) = n /\ i \in 1..n /\ new[i] = r
      /\ \A k \in (1..n) \ {i} : new[k] = old[k]
  <2> HIDE DEF SoundRow
  <2> QED OBVIOUS
<1>2. ClaimedBy(was, n, old, thePublic, auto) /\ ClaimedBy(are, n, new, thePublic, auto)
  <2>1. ClaimedBy(are, Len(new), new, thePublic, auto)
    BY ClaimsAre
  <2>2. Len(new) = n
    BY <1>1
  <2>3. ClaimedBy(was, n, old, thePublic, auto)
    BY ClaimsAre
  <2> HIDE DEF are, was, n
  <2> QED BY <2>1, <2>2, <2>3
<1>3. PlannedBy(planned, was, theDashboard) /\ PlannedBy(plan, are, theDashboard)
  BY PlanIs
<1> HIDE DEF was, are, planned, plan, n
<1>4. DOMAIN are = DOMAIN was /\ DOMAIN was \subseteq Nat /\ i \in DOMAIN was
      /\ \A k \in DOMAIN was : k \in 1..n \/ (k = n + 1 /\ auto # NoHost)
  <2>1. CASE auto = NoHost
    BY <1>1, <1>2, <2>1 DEF ClaimedBy
  <2>2. CASE auto # NoHost
    BY <1>1, <1>2, <2>2 DEF ClaimedBy
  <2> QED BY <2>1, <2>2
<1>5. \A k \in DOMAIN was : k # i => are[k] = was[k]
  <2> SUFFICES ASSUME NEW k \in DOMAIN was, k # i PROVE are[k] = was[k]
    OBVIOUS
  <2>1. CASE k \in 1..n
    BY <1>1, <1>2, <2>1 DEF ClaimedBy
  <2>2. CASE k = n + 1 /\ auto # NoHost
    BY <1>2, <2>2 DEF ClaimedBy
  <2> QED BY <1>4, <2>1, <2>2
<1>6. are[i] = [host |-> r.host, service |-> r.service, port |-> r.port]
  <2>1. are[i] = ClaimOf(r, thePublic)
    BY <1>1, <1>2 DEF ClaimedBy
  <2> QED BY <2>1, StackNames DEF ClaimOf
<1>7. was[i].host = r.host
  <2>1. was[i] = ClaimOf(old[i], thePublic)
    BY <1>1, <1>2 DEF ClaimedBy
  <2>2. ClaimOf(old[i], thePublic).host = old[i].host
    BY DEF ClaimOf
  <2> QED BY <2>1, <2>2
<1>8. i \in Made(are)
  BY <1>4, <1>6, StackNames DEF Made
<1>9. \A k : k # i => (k \in Made(was) <=> k \in Made(are))
  BY <1>4, <1>5 DEF Made
<1>10. plan[r.service].port = r.port
  BY <1>3, <1>6, <1>8 DEF PlannedBy
<1>11. ASSUME NEW t \in Service \ {r.service}, NEW g \in plan[t].hosts
       PROVE  g \in planned[t].hosts /\ plan[t].port = planned[t].port
  <2>1. PICK j \in Made(are) : are[j].host = g /\ are[j].service = t /\ FirstClaim(are, j)
    BY <1>3 DEF PlannedBy
  <2>2. g # theDashboard /\ plan[t].port = are[j].port
    BY <1>3, <2>1 DEF PlannedBy
  <2>3. j # i /\ j \in Made(was)
    BY <1>6, <1>9, <2>1
  <2>4. was[j] = are[j]
    BY <1>5, <2>3 DEF Made
  <2>5. ASSUME NEW k \in Made(was), was[k].host = g
        PROVE  j <= k
    <3>1. k \in Made(are) /\ are[k].host = g
      <4>1. CASE k = i
        BY <1>6, <1>7, <1>8, <2>5, <4>1
      <4>2. CASE k # i
        BY <1>5, <1>9, <2>5, <4>2 DEF Made
      <4> QED BY <4>1, <4>2
    <3> QED BY <2>1, <3>1 DEF FirstClaim
  <2>6. FirstClaim(was, j)
    BY <2>1, <2>4, <2>5 DEF FirstClaim
  <2> QED BY <1>3, <2>1, <2>2, <2>3, <2>4, <2>6 DEF PlannedBy
<1> QED BY <1>10, <1>11 DEF Retargets, plan, planned

\* A form that asks for a service's port gets that of its other rows.
LEMMA TargetPort ==
  ASSUME NEW theRows \in Seq(SoundRow), NEW thePublic \in Public, NEW s \in Service, NEW p \in Port, NEW except,
         RowsAgree(theRows, thePublic), ServicePortFor(theRows, thePublic, s, except) \in {0, p}
  PROVE  /\ s = thePublic.service => p = thePublic.port
         /\ \A i \in DOMAIN theRows : i # except /\ theRows[i].service = s => theRows[i].port = p
<1>1. /\ DOMAIN theRows \subseteq Nat
      /\ \A i \in DOMAIN theRows : theRows[i] \in SoundRow
  <2> HIDE DEF SoundRow
  <2> QED OBVIOUS
<1>2. \A i \in DOMAIN theRows : theRows[i].service = s => theRows[i].port # 0
  BY <1>1, StackNames DEF SoundRow
<1>3. CASE s = thePublic.service
  <2>1. thePublic.port # 0
    BY <1>3, StackNames DEF Public, Unset
  <2>2. p = thePublic.port
    BY <1>3, <2>1 DEF ServicePortFor
  <2> QED BY <1>3, <2>2 DEF RowsAgree
<1>4. CASE s # thePublic.service
  <2> DEFINE others == {i \in DOMAIN theRows : i # except /\ theRows[i].service = s}
  <2>1. CASE others = {}
    BY <1>4, <2>1
  <2>2. CASE others # {}
    <3>1. First(others) \in others
      <4> HIDE DEF others
      <4>1. others \subseteq Nat
        BY <1>1 DEF others
      <4> QED BY <2>2, <4>1, FirstIs
    <3>2. ServicePortFor(theRows, thePublic, s, except) = theRows[First(others)].port
      BY <1>4, <2>2 DEF ServicePortFor
    <3>3. theRows[First(others)].port = p
      BY <1>2, <3>1, <3>2
    <3> QED BY <1>4, <3>1, <3>3 DEF RowsAgree
  <2> QED BY <2>1, <2>2
<1> QED BY <1>3, <1>4

\* Rows agree again with one more, with one moved, with one less.
LEMMA AgreeWith ==
  ASSUME NEW old, NEW new, NEW thePublic, NEW r, RowsAgree(old, thePublic), r.service \in Service,
         r.service = thePublic.service => r.port = thePublic.port,
         \A j \in DOMAIN new : \/ new[j] = r
                               \/ \E k \in DOMAIN old : /\ new[j] = old[k]
                                                        /\ old[k].service = r.service => old[k].port = r.port
  PROVE  RowsAgree(new, thePublic)
BY DEF RowsAgree

LEMMA AgreeAmong ==
  ASSUME NEW old, NEW new, NEW thePublic, RowsAgree(old, thePublic),
         \A j \in DOMAIN new : \E k \in DOMAIN old : new[j] = old[k]
  PROVE  RowsAgree(new, thePublic)
BY DEF RowsAgree

\* Without a row, a service that is still planned keeps its port.
LEMMA FewerKeep ==
  ASSUME NEW old \in Seq(SoundRow), NEW new \in Seq(SoundRow), NEW thePublic \in Public,
         NEW auto \in Host \cup {NoHost}, NEW theDashboard,
         RowsAgree(old, thePublic), RowsAgree(new, thePublic),
         \A j \in DOMAIN new : \E k \in DOMAIN old : new[j] = old[k],
         NEW s \in Service, RoutingPlan(new, thePublic, auto, theDashboard)[s].hosts # {}
  PROVE  RoutingPlan(new, thePublic, auto, theDashboard)[s].port
           = RoutingPlan(old, thePublic, auto, theDashboard)[s].port
<1> DEFINE was == Claims(old, thePublic, auto)
           are == Claims(new, thePublic, auto)
           planned == RoutingPlan(old, thePublic, auto, theDashboard)
           plan == RoutingPlan(new, thePublic, auto, theDashboard)
           n == Len(old)
           m == Len(new)
<1>1. n \in Nat /\ DOMAIN old = 1..n /\ m \in Nat /\ DOMAIN new = 1..m
  OBVIOUS
<1>2. ClaimedBy(was, n, old, thePublic, auto) /\ ClaimedBy(are, m, new, thePublic, auto)
  BY ClaimsAre
<1>3. PlannedBy(planned, was, theDashboard) /\ PlannedBy(plan, are, theDashboard)
  BY PlanIs
<1>4. plan[s].hosts # {}
  OBVIOUS
<1> HIDE DEF was, are, planned, plan, n, m
<1>5. PICK j \in Made(are) : are[j].service = s
  BY <1>3, <1>4 DEF PlannedBy
<1>6. \E i \in Made(was) : was[i] = are[j]
  <2>1. CASE j \in 1..m
    <3>1. PICK k \in 1..n : new[j] = old[k]
      BY <1>1, <2>1
    <3>2. was[k] = are[j]
      BY <1>2, <2>1, <3>1 DEF ClaimedBy
    <3>3. k \in DOMAIN was
      BY <1>1, <1>2, <3>1 DEF ClaimedBy
    <3> QED BY <3>2, <3>3 DEF Made
  <2>2. CASE j \notin 1..m
    <3>1. j = m + 1 /\ auto # NoHost
      BY <1>1, <1>2, <2>2 DEF ClaimedBy, Made
    <3>2. was[n + 1] = are[j] /\ n + 1 \in DOMAIN was
      BY <1>1, <1>2, <3>1 DEF ClaimedBy
    <3> QED BY <3>2 DEF Made
  <2> QED BY <2>1, <2>2
<1>7. plan[s].port = planned[s].port
  BY <1>3, <1>5, <1>6 DEF PlannedBy
<1> QED BY <1>7 DEF plan, planned

PortsAgree == RowsAgree(rows, public)

LEMMA SaveAgrees ==
  ASSUME FormsTyped, PortsAgree, NEW pub \in Public, SaveRows(pub), public' = pub
  PROVE  PortsAgree'
<1> DEFINE follow(r) == IF \/ pub # Unset /\ r.service = pub.service
                           \/ pub # Unset /\ r.host = AutoHost
                        THEN [r EXCEPT !.service = pub.service, !.port = pub.port]
                        ELSE IF pub = Unset /\ r.auto
                        THEN [r EXCEPT !.service = NoService, !.port = 0]
                        ELSE r
           followed == [i \in DOMAIN rows |-> follow(rows[i])]
           new == [host |-> AutoHost, service |-> pub.service, port |-> pub.port, auto |-> TRUE]
           Follows1(q) == \E k \in DOMAIN rows : q = follow(rows[k])
<1>1. rows \in Seq(SoundRow) /\ Len(rows) \in Nat /\ DOMAIN rows = 1..Len(rows)
  BY DEF FormsTyped
<1>2. \A k \in DOMAIN rows : rows[k] \in Row
  BY <1>1 DEF SoundRow
<1>3. pub = Unset \/ pub.service \in Service
  BY DEF Public
<1>4. \/ rows' = followed
      \/ pub # Unset /\ rows' = << new >> \o followed
  BY DEF SaveRows
<1>5. ASSUME NEW j \in DOMAIN rows'
      PROVE  Follows1(rows'[j]) \/ (pub # Unset /\ rows'[j] = new)
  <2>1. CASE rows' = followed
    <3>1. \A k \in DOMAIN rows : followed[k] = follow(rows[k])
      <4> HIDE DEF follow
      <4> QED OBVIOUS
    <3>2. DOMAIN followed = DOMAIN rows
      OBVIOUS
    <3> HIDE DEF followed, follow
    <3>3. j \in DOMAIN rows /\ rows'[j] = follow(rows[j])
      BY <1>5, <2>1, <3>1, <3>2
    <3> QED BY <3>3
  <2>2. CASE pub # Unset /\ rows' = << new >> \o followed
    <3> DEFINE head == << new >>
               n == Len(rows)
               both == head \o followed
    <3>1. Len(followed) = n /\ (\A k \in 1..n : followed[k] = follow(rows[k])) /\ n \in Nat /\ DOMAIN rows = 1..n
      <4> HIDE DEF follow
      <4> QED BY <1>1
    <3>2. Len(head) = 1 /\ head[1] = new
      OBVIOUS
    <3>3. /\ DOMAIN (head \o followed) = 1..(Len(head) + Len(followed))
          /\ \A k \in 1..(Len(head) + Len(followed)) :
               (head \o followed)[k] = IF k <= Len(head) THEN head[k] ELSE followed[k - Len(head)]
      <4> HIDE DEF head, followed
      <4> QED OBVIOUS
    <3> HIDE DEF head, followed, new, n, follow
    <3>4. DOMAIN both = 1..(1 + n)
      BY <3>1, <3>2, <3>3
    <3>5. \A k \in 1..(1 + n) : both[k] = IF k <= 1 THEN head[k] ELSE followed[k - 1]
      BY <3>1, <3>2, <3>3
    <3>6. rows' = both
      BY <2>2 DEF head
    <3> HIDE DEF both
    <3>7. j \in 1..(1 + n)
      BY <1>5, <3>4, <3>6
    <3>8. CASE j = 1
      BY <2>2, <3>1, <3>2, <3>5, <3>6, <3>7, <3>8
    <3>9. CASE j # 1
      <4>1. j - 1 \in 1..n /\ ~(j <= 1)
        BY <3>1, <3>7, <3>9
      <4>2. both[j] = followed[j - 1]
        BY <3>1, <3>5, <3>7, <4>1
      <4>3. followed[j - 1] = follow(rows[j - 1]) /\ j - 1 \in DOMAIN rows
        BY <3>1, <4>1
      <4> QED BY <3>6, <4>2, <4>3
    <3> QED BY <3>8, <3>9
  <2> QED BY <1>4, <2>1, <2>2
<1>6. ASSUME NEW k \in DOMAIN rows, follow(rows[k]).service \in Service
      PROVE  \/ pub # Unset /\ follow(rows[k]).service = pub.service /\ follow(rows[k]).port = pub.port
             \/ follow(rows[k]) = rows[k] /\ (pub = Unset \/ rows[k].service # pub.service)
  <2>1. CASE \/ pub # Unset /\ rows[k].service = pub.service
             \/ pub # Unset /\ rows[k].host = AutoHost
    BY <1>2, <2>1 DEF Row
  <2>2. CASE ~(\/ pub # Unset /\ rows[k].service = pub.service
               \/ pub # Unset /\ rows[k].host = AutoHost)
    <3>1. CASE pub = Unset /\ rows[k].auto
      <4>1. follow(rows[k]).service = NoService
        BY <1>2, <2>2, <3>1 DEF Row
      <4> QED BY <1>6, <4>1, StackNames
    <3>2. CASE ~(pub = Unset /\ rows[k].auto)
      BY <2>2, <3>2
    <3> QED BY <3>1, <3>2
  <2> QED BY <2>1, <2>2
<1>7. new.service = pub.service /\ new.port = pub.port
  OBVIOUS
<1> HIDE DEF follow, followed, new
<1>8. ASSUME NEW j \in DOMAIN rows', rows'[j].service \in Service
      PROVE  \/ pub # Unset /\ rows'[j].service = pub.service /\ rows'[j].port = pub.port
             \/ /\ pub = Unset \/ rows'[j].service # pub.service
                /\ \E k \in DOMAIN rows : rows'[j] = rows[k]
  BY <1>5, <1>6, <1>7, <1>8
<1>9. pub = Unset => pub.service \notin Service
  BY StackNames DEF Unset
<1> QED BY <1>8, <1>9 DEF PortsAgree, RowsAgree

LEMMA TargetAgrees ==
  ASSUME FormsTyped, PortsAgree, NEW new, NEW r \in SoundRow, NEW except, r.service \in Service,
         DomainTargetOk(r.service, r.port, except),
         \A j \in DOMAIN new : new[j] = r \/ \E k \in DOMAIN rows : k # except /\ new[j] = rows[k]
  PROVE  RowsAgree(new, public)
<1>1. rows \in Seq(SoundRow) /\ public \in Public /\ r.port \in Port
  BY DEF FormsTyped, SoundRow
<1>2. /\ r.service = public.service => r.port = public.port
      /\ \A k \in DOMAIN rows : k # except /\ rows[k].service = r.service => rows[k].port = r.port
  BY <1>1, TargetPort DEF PortsAgree, DomainTargetOk
<1>3. \A j \in DOMAIN new : \/ new[j] = r
                            \/ \E k \in DOMAIN rows : /\ new[j] = rows[k]
                                                      /\ rows[k].service = r.service => rows[k].port = r.port
  BY <1>2
<1> QED BY <1>2, <1>3, AgreeWith DEF PortsAgree

\* The row a form adds or moves.
LEMMA TargetForm ==
  ASSUME FormsTyped, FormsTyped', PortsAgree, AddDomain \/ MoveDomain
  PROVE  /\ PortsAgree'
         /\ \E s \in Service, p \in Port :
              Retargets(PlanNow, PlanNow', s, p) /\ ApplyStackRouting(s, p) /\ Misses(s, p)
<1>1. /\ rows \in Seq(SoundRow) /\ rows' \in Seq(SoundRow) /\ public \in Public /\ AutoHost \in Host \cup {NoHost}
      /\ UNCHANGED <<public, dashboard>>
  BY RoutesNames DEF FormsTyped, AddDomain, MoveDomain
<1>2. DOMAIN rows = 1..Len(rows) /\ Len(rows) \in Nat
  BY <1>1
<1>4. CASE AddDomain
  <2>1. PICK h \in Host \ {dashboard}, s \in Service, p \in Port :
          /\ ~Taken(h) /\ DomainTargetOk(s, p, 0)
          /\ rows' = Append(rows, [host |-> h, service |-> s, port |-> p, auto |-> FALSE])
          /\ ApplyStackRouting(s, p) /\ Misses(s, p)
    BY <1>4 DEF AddDomain
  <2> DEFINE r == [host |-> h, service |-> s, port |-> p, auto |-> FALSE]
  <2>2. r \in SoundRow /\ r.host = h /\ r.service = s /\ r.port = p
    BY DEF SoundRow, Row
  <2>3. rows' = Append(rows, r)
    BY <2>1
  <2> HIDE DEF r
  <2> DEFINE new == Append(rows, r)
  <2>4. \A j \in DOMAIN new : new[j] = r \/ \E k \in DOMAIN rows : k # 0 /\ new[j] = rows[k]
    <3> HIDE DEF SoundRow
    <3> QED BY <1>1, <1>2, <2>2
  <2> HIDE DEF new
  <2>5. RowsAgree(rows', public)
    <3>1. PICK none : none = 0
      OBVIOUS
    <3>2. /\ DomainTargetOk(r.service, r.port, none) /\ r.service \in Service
          /\ \A j \in DOMAIN new : new[j] = r \/ \E k \in DOMAIN rows : k # none /\ new[j] = rows[k]
      BY <2>1, <2>2, <2>4, <3>1
    <3>3. RowsAgree(new, public)
      BY <2>2, <3>2, TargetAgrees
    <3> QED BY <2>3, <3>3 DEF new
  <2>6. Retargets(PlanNow, PlanNow', s, p)
    <3>1. \A i \in DOMAIN rows : rows[i].host # r.host
      BY <2>1, <2>2 DEF Taken
    <3>2. Retargets(RoutingPlan(rows, public, AutoHost, dashboard),
                    RoutingPlan(rows', public, AutoHost, dashboard), s, p)
      BY <1>1, <2>2, <2>3, <2>5, <3>1, AddRetargets DEF PortsAgree
    <3> QED BY <1>1, <3>2 DEF PlanNow
  <2> QED BY <1>1, <2>1, <2>5, <2>6 DEF PortsAgree
<1>5. CASE MoveDomain
  <2>1. PICK i \in DOMAIN rows, s \in Service, p \in Port :
          /\ DomainTargetOk(s, p, i)
          /\ rows' = [rows EXCEPT ![i].service = s, ![i].port = p]
          /\ ApplyStackRouting(s, p) /\ Misses(s, p)
    BY <1>5 DEF MoveDomain
  <2> DEFINE r == [rows[i] EXCEPT !.service = s, !.port = p]
  <2>2. r \in SoundRow /\ r.host = rows[i].host /\ r.service = s /\ r.port = p
    <3>1. rows[i] \in Row
      BY <1>1, <2>1 DEF SoundRow
    <3> QED BY <3>1 DEF SoundRow, Row
  <2>3. rows' = [rows EXCEPT ![i] = r]
    <3>1. rows[i] \in Row
      BY <1>1, <2>1 DEF SoundRow
    <3> QED BY <2>1, <3>1 DEF Row
  <2> HIDE DEF r
  <2> DEFINE new == [rows EXCEPT ![i] = r]
  <2>4. \A j \in DOMAIN new : new[j] = r \/ \E k \in DOMAIN rows : k # i /\ new[j] = rows[k]
    <3> HIDE DEF SoundRow
    <3> QED BY <1>1, <1>2, <2>1, <2>3
  <2> HIDE DEF new
  <2>5. RowsAgree(rows', public)
    <3>1. RowsAgree(new, public)
      BY <2>1, <2>2, <2>4, TargetAgrees
    <3> QED BY <2>3, <3>1 DEF new
  <2>6. Retargets(PlanNow, PlanNow', s, p)
    <3>1. Retargets(RoutingPlan(rows, public, AutoHost, dashboard),
                    RoutingPlan(rows', public, AutoHost, dashboard), s, p)
      BY <1>1, <2>2, <2>3, <2>5, MoveRetargets DEF PortsAgree
    <3> QED BY <1>1, <3>1 DEF PlanNow
  <2> QED BY <1>1, <2>1, <2>5, <2>6 DEF PortsAgree
<1> QED BY <1>4, <1>5

\* The rows a deletion leaves.
LEMMA DeleteForm ==
  ASSUME FormsTyped, FormsTyped', PortsAgree, DeleteDomain
  PROVE  /\ PortsAgree'
         /\ \A s \in Service : PlanNow'[s].hosts # {} => PlanNow'[s].port = PlanNow[s].port
<1>1. /\ rows \in Seq(SoundRow) /\ rows' \in Seq(SoundRow) /\ public \in Public /\ AutoHost \in Host \cup {NoHost}
      /\ UNCHANGED <<public, dashboard>>
  BY RoutesNames DEF FormsTyped, DeleteDomain
<1>2. DOMAIN rows = 1..Len(rows) /\ Len(rows) \in Nat
  BY <1>1
<1>3. PICK i \in DOMAIN rows : rows' = SubSeq(rows, 1, i - 1) \o SubSeq(rows, i + 1, Len(rows))
  BY DEF DeleteDomain
<1>4. \A j \in DOMAIN rows' : \E k \in DOMAIN rows : rows'[j] = rows[k]
  <2> DEFINE before == SubSeq(rows, 1, i - 1)
             after == SubSeq(rows, i + 1, Len(rows))
             n == Len(rows)
  <2>0. i \in 1..n /\ n \in Nat
    BY <1>2
  <2>1. Len(before) = i - 1 /\ \A k \in 1..(i - 1) : before[k] = rows[k]
    <3> HIDE DEF SoundRow
    <3> QED BY <1>1, <1>2
  <2>2. Len(after) = n - i /\ \A k \in 1..(n - i) : after[k] = rows[k + i]
    <3> HIDE DEF SoundRow
    <3> QED BY <1>1, <1>2
  <2>3. /\ DOMAIN (before \o after) = 1..(Len(before) + Len(after))
        /\ \A k \in 1..(Len(before) + Len(after)) :
             (before \o after)[k] = IF k <= Len(before) THEN before[k] ELSE after[k - Len(before)]
    <3> HIDE DEF before, after
    <3> QED OBVIOUS
  <2> DEFINE both == before \o after
  <2>4. rows' = both
    BY <1>3
  <2> HIDE DEF both, before, after, n
  <2>5. SUFFICES ASSUME NEW j \in DOMAIN both PROVE \E k \in DOMAIN rows : both[j] = rows[k]
    BY <2>4
  <2>6. j \in 1..(n - 1)
    BY <2>0, <2>1, <2>2, <2>3, <2>5 DEF both
  <2>7. CASE j <= i - 1
    <3>1. both[j] = rows[j]
      BY <2>0, <2>1, <2>2, <2>3, <2>6, <2>7 DEF both
    <3>2. j \in 1..n
      BY <2>0, <2>6
    <3> QED BY <1>2, <3>1, <3>2 DEF n
  <2>8. CASE ~(j <= i - 1)
    <3>1. both[j] = after[j - (i - 1)]
      BY <2>0, <2>1, <2>2, <2>3, <2>6, <2>8 DEF both
    <3>2. j - (i - 1) \in 1..(n - i) /\ j - (i - 1) + i = j + 1 /\ j + 1 \in 1..n
      BY <2>0, <2>6, <2>8
    <3>3. both[j] = rows[j + 1]
      BY <2>2, <3>1, <3>2
    <3> QED BY <1>2, <3>2, <3>3 DEF n
  <2> QED BY <2>7, <2>8
<1>5. RowsAgree(rows', public)
  <2> DEFINE new == rows'
  <2>1. \A j \in DOMAIN new : \E k \in DOMAIN rows : new[j] = rows[k]
    BY <1>4
  <2>2. RowsAgree(rows, public)
    BY DEF PortsAgree
  <2> HIDE DEF new
  <2>3. RowsAgree(new, public)
    BY <2>1, <2>2, AgreeAmong
  <2> QED BY <2>3 DEF new
<1>6. ASSUME NEW s \in Service, RoutingPlan(rows', public, AutoHost, dashboard)[s].hosts # {}
      PROVE  RoutingPlan(rows', public, AutoHost, dashboard)[s].port = RoutingPlan(rows, public, AutoHost, dashboard)[s].port
  <2> DEFINE new == rows'
  <2>1. new \in Seq(SoundRow) /\ (\A j \in DOMAIN new : \E k \in DOMAIN rows : new[j] = rows[k])
        /\ RowsAgree(new, public) /\ RowsAgree(rows, public)
        /\ RoutingPlan(new, public, AutoHost, dashboard)[s].hosts # {}
    BY <1>1, <1>4, <1>5, <1>6 DEF PortsAgree
  <2> HIDE DEF new
  <2>2. RoutingPlan(new, public, AutoHost, dashboard)[s].port = RoutingPlan(rows, public, AutoHost, dashboard)[s].port
    BY <1>1, <2>1, FewerKeep
  <2> QED BY <2>2 DEF new
<1>7. PlanNow' = RoutingPlan(rows', public, AutoHost, dashboard) /\ PortsAgree' = RowsAgree(rows', public)
  BY <1>1 DEF PlanNow, PortsAgree
<1> QED BY <1>5, <1>6, <1>7 DEF PlanNow

\* Only the forms write the rows.
LEMMA StepAgrees ==
  ASSUME Typed, PortsAgree, [Next]_vars
  PROVE  PortsAgree'
<1>0. FormsTyped
  BY DEF Typed
<1>1. CASE AddDomain \/ MoveDomain \/ DeleteDomain
  <2>1. FormsTyped'
    BY <1>1, EditTyped DEF Edits
  <2> QED BY <1>0, <1>1, <2>1, TargetForm, DeleteForm
<1>2. CASE SaveComposeSettings
  <2>1. PICK pub \in Public : public' = pub /\ SaveRows(pub)
    BY <1>2 DEF SaveComposeSettings
  <2> QED BY <1>0, <2>1, SaveAgrees
<1>3. CASE UNCHANGED vars
  BY <1>3 DEF vars, PortsAgree
<1>4. CASE Deploy \/ Stop \/ SetDashboardHost
  BY <1>4 DEF Deploy, Stop, SetDashboardHost, forms, PortsAgree
<1>5. CASE MarkRunning \/ ReadPlan \/ ComposeUp \/ ComposeUpFails \/ PassGate \/ DeployFails
  BY <1>5 DEF MarkRunning, ReadPlan, ComposeUp, ComposeUpFails, PassGate, DeployFails, forms, PortsAgree
<1>6. CASE ReadRoutes \/ WriteGaining \/ WriteFinal \/ DropStale \/ RecordSuccess
  BY <1>6 DEF ReadRoutes, WriteGaining, WriteFinal, DropStale, RecordSuccess, forms, PortsAgree
<1>7. CASE SyncReads \/ SyncBlind \/ SyncGaining \/ SyncFinal \/ SyncDrops \/ SyncEnds
  BY <1>7 DEF SyncReads, SyncBlind, SyncGaining, SyncFinal, SyncDrops, SyncEnds, forms, PortsAgree
<1>8. CASE StopStack \/ ServiceDies \/ Crash
  BY <1>8 DEF StopStack, ServiceDies, Crash, forms, PortsAgree
<1> QED BY <1>1, <1>2, <1>3, <1>4, <1>5, <1>6, <1>7, <1>8 DEF Next

-----------------------------------------------------------------------------
(* The jobs.                                                                 *)

\* A deploy has a file with a service, and runs with its deployment marked so.
FilesQueued == \A i \in DOMAIN queue : queue[i].kind = "deploy" => queue[i].file # {}
JobsSound ==
  /\ FilesQueued
  /\ begun => queue # << >> /\ queue[1].kind = "deploy"
  /\ worker.pc \in Deploying => begun
  /\ Syncing => queue[1].kind = "sync"
  /\ desired = "running" => current # {}

\* A deploy that has yet to read the rows.
DeployComes == \E i \in DOMAIN queue : queue[i].kind = "deploy" /\ (i > 1 \/ worker.pc \in {"idle", "config"})

LEMMA RoutingQueues ==
  ASSUME Typed, JobsSound, NEW s, NEW p, ApplyStackRouting(s, p)
  PROVE  /\ FilesQueued'
         /\ \/ desired # "running" \/ ~RoutingChangeNeedsDeploy(PlanNow, recorded.routed, s, p)
            \/ \E i \in DOMAIN queue : queue[i].kind = "deploy" /\ ~(i = 1 /\ begun)
            \/ \E i \in DOMAIN queue' : queue'[i].kind = "deploy" /\ i > 1
<1> DEFINE deploys == {i \in DOMAIN queue : queue[i].kind = "deploy"}
           newest == CHOOSE i \in deploys : \A j \in deploys : j <= i
           running == deploys # {} /\ newest = 1 /\ begun
           synced == Append(queue, Chore("sync"))
           f == IF running THEN queue[newest].file ELSE current
           needs == /\ desired = "running" /\ current # {}
                    /\ RoutingChangeNeedsDeploy(PlanNow, recorded.routed, s, p)
                    /\ deploys = {} \/ running
<1>1. queue' = IF needs THEN Append(synced, DeployOf(f)) ELSE synced
  BY DEF ApplyStackRouting
<1>2. queue \in Seq(Job) /\ Len(queue) \in Nat /\ current \in SUBSET Service /\ DOMAIN queue = 1..Len(queue)
  BY DEF Typed, QueueTyped, StoreTyped
<1>3. Chore("sync") \in Job /\ Chore("sync").kind = "sync"
  BY ChoreIs
<1>4. /\ synced \in Seq(Job) /\ Len(synced) = Len(queue) + 1
      /\ \A i \in 1..Len(queue) : synced[i] = queue[i]
      /\ synced[Len(queue) + 1] = Chore("sync")
  BY <1>2, <1>3, OneQueued
<1>5. running => 1 \in deploys /\ newest = 1
  BY <1>2 DEF JobsSound
<1>6. needs => f \in SUBSET Service /\ f # {}
  <2>1. CASE running
    <3>1. queue[1] \in Job /\ queue[1].file # {}
      <4>1. 1 \in DOMAIN queue /\ queue[1].kind = "deploy"
        BY <1>5, <2>1
      <4>2. queue[1] \in Job
        <5> HIDE DEF Job, running, newest, deploys
        <5> QED BY <1>2, <4>1
      <4> QED BY <4>1, <4>2 DEF JobsSound, FilesQueued
    <3>2. f = queue[1].file
      BY <1>5, <2>1
    <3> QED BY <3>1, <3>2 DEF Job
  <2>2. CASE ~running
    BY <1>2, <2>2
  <2> QED BY <2>1, <2>2
<1>7. needs => DeployOf(f) \in Job /\ DeployOf(f).kind = "deploy" /\ DeployOf(f).file # {}
  BY <1>6, DeployIs DEF DeployOf
<1>8. deploys = {} \/ running \/ \E i \in DOMAIN queue : queue[i].kind = "deploy" /\ ~(i = 1 /\ begun)
  <2> SUFFICES ASSUME deploys # {}, \A i \in deploys : i = 1 /\ begun PROVE running
    OBVIOUS
  <2>1. deploys = {1} /\ begun
    OBVIOUS
  <2>2. newest = 1
    BY <2>1
  <2> QED BY <2>1, <2>2
<1> HIDE DEF synced, f, running, newest
<1>9. \A i \in 1..Len(queue) + 1 : synced[i].kind = "deploy" => synced[i].file # {}
  BY <1>2, <1>3, <1>4 DEF JobsSound, FilesQueued
<1>10. CASE needs
  <2>1. /\ queue' \in Seq(Job) /\ Len(queue') = Len(queue) + 2 /\ queue'[Len(queue) + 2] = DeployOf(f)
        /\ \A i \in 1..Len(queue) + 1 : queue'[i] = synced[i]
    BY <1>1, <1>2, <1>4, <1>7, <1>10, OneQueued
  <2>2. DOMAIN queue' = 1..(Len(queue) + 2)
    BY <2>1
  <2>3. FilesQueued'
    BY <1>2, <1>7, <1>9, <1>10, <2>1, <2>2 DEF FilesQueued
  <2>4. PICK i \in Nat : i = Len(queue) + 2
    BY <1>2
  <2>5. i \in DOMAIN queue' /\ queue'[i].kind = "deploy" /\ i > 1
    BY <1>2, <1>7, <1>10, <2>1, <2>2, <2>4
  <2> QED BY <2>3, <2>5
<1>11. CASE ~needs
  <2>1. queue' = synced /\ DOMAIN synced = 1..(Len(queue) + 1)
    BY <1>1, <1>2, <1>4, <1>11
  <2>2. FilesQueued'
    BY <1>9, <2>1 DEF FilesQueued
  <2>3. desired = "running" => current # {}
    BY DEF JobsSound
  <2> QED BY <1>8, <1>11, <2>2, <2>3
<1> QED BY <1>10, <1>11

\* The forms queue behind what is at hand.
LEMMA FormJobs ==
  ASSUME Typed, JobsSound, Edits \/ Deploy \/ Stop
  PROVE  JobsSound'
<1>1. Grown /\ UNCHANGED <<begun, worker, desired, current>>
  <2>1. CASE Edits
    BY <2>1, EditTyped DEF NotRows
  <2>2. CASE Deploy \/ Stop
    BY <2>2, AskTyped DEF NotRows
  <2> QED BY <2>1, <2>2
<1>2. queue # << >> => queue' # << >> /\ queue'[1] = queue[1]
  BY <1>1 DEF Grown, Typed, QueueTyped
<1>3. Syncing => queue # << >>
  BY DEF Syncing, Typed, QueueTyped
<1>4. \A j \in Job : (j.kind = "deploy" => j.file # {}) /\ queue' = Append(queue, j) => FilesQueued'
  <2> SUFFICES ASSUME NEW j \in Job, j.kind = "deploy" => j.file # {}, queue' = Append(queue, j) PROVE FilesQueued'
    OBVIOUS
  <2>1. queue \in Seq(Job) /\ Len(queue) \in Nat /\ DOMAIN queue = 1..Len(queue)
    BY DEF Typed, QueueTyped
  <2>2. Len(queue') = Len(queue) + 1 /\ (\A i \in 1..Len(queue) : queue'[i] = queue[i]) /\ queue'[Len(queue) + 1] = j
    BY <2>1, OneQueued
  <2>3. DOMAIN queue' = 1..(Len(queue) + 1)
    BY <1>1, <2>1, <2>2 DEF Grown
  <2> QED BY <2>1, <2>2, <2>3 DEF JobsSound, FilesQueued
<1>5. FilesQueued'
  <2>1. CASE AddDomain \/ MoveDomain
    BY <2>1, RoutingQueues DEF AddDomain, MoveDomain
  <2>2. CASE DeleteDomain \/ SaveComposeSettings \/ SetDashboardHost
    BY <1>4, <2>2, ChoreIs DEF DeleteDomain, SaveComposeSettings, SetDashboardHost
  <2>3. CASE Stop
    BY <1>4, <2>3, ChoreIs DEF Stop
  <2>4. CASE Deploy
    <3>1. DeployOf(file) \in Job /\ DeployOf(file).file # {}
      BY DeployIs DEF DeployOf, Typed, FormsTyped
    <3> QED BY <1>4, <2>4, <3>1 DEF Deploy
  <2> QED BY <2>1, <2>2, <2>3, <2>4 DEF Edits
<1> QED BY <1>1, <1>2, <1>3, <1>5 DEF JobsSound, Syncing

LEMMA WorkJobs ==
  ASSUME Typed, RouteInv, JobsSound, [Next]_vars, ~Edits, ~Deploy, ~Stop
  PROVE  JobsSound'
<1>0. queue \in Seq(Job) /\ IsWorker(worker) /\ (worker.pc # "idle" => queue # << >>)
  BY DEF Typed, QueueTyped, RouteInv, Shape
<1>1. queue # << >> => Head(queue) = queue[1]
  BY <1>0
<1>2. ASSUME queue # << >>, JobEnds
      PROVE  FilesQueued' /\ begun' = FALSE /\ worker'.pc = "idle"
  <2> DEFINE rest == Tail(queue)
             n == Len(queue)
  <2>1. Len(rest) = n - 1 /\ (\A i \in 1..(n - 1) : rest[i] = queue[i + 1]) /\ n \in Nat /\ n >= 1
        /\ DOMAIN rest = 1..(n - 1) /\ DOMAIN queue = 1..n
    <3> HIDE DEF Job
    <3> QED BY <1>0, <1>2
  <2>2. queue' = rest /\ begun' = FALSE /\ worker'.pc = "idle"
    BY <1>2 DEF JobEnds, Idle
  <2> HIDE DEF rest, n
  <2>3. \A i \in DOMAIN rest : i + 1 \in DOMAIN queue /\ rest[i] = queue[i + 1]
    BY <2>1
  <2> QED BY <2>2, <2>3 DEF JobsSound, FilesQueued
<1>3. CASE UNCHANGED vars
  BY <1>3 DEF vars, JobsSound, FilesQueued, Syncing
<1>4. CASE MarkRunning
  <2>1. worker'.pc = "config" /\ begun' = TRUE /\ UNCHANGED <<queue, desired, current>> /\ queue # << >>
        /\ Head(queue).kind = "deploy"
    BY <1>4 DEF MarkRunning, Idle, Take
  <2> QED BY <1>1, <2>1 DEF JobsSound, FilesQueued, Syncing, Deploying
<1>5. CASE ReadPlan
  <2>1. worker.pc = "config" /\ UNCHANGED <<desired, current>>
    BY <1>5 DEF ReadPlan, At
  <2>2. CASE JobEnds
    BY <1>0, <1>2, <2>1, <2>2 DEF JobsSound, Syncing, Deploying
  <2>3. CASE worker' = [worker EXCEPT !.pc = "planned", !.plan = PlanRead] /\ UNCHANGED <<queue, begun>>
    <3>1. worker'.pc = "planned"
      BY <1>0, <2>3 DEF IsWorker
    <3> QED BY <2>1, <2>3, <3>1 DEF JobsSound, FilesQueued, Syncing, Deploying
  <2> QED BY <1>5, <2>2, <2>3 DEF ReadPlan
<1>6. CASE ComposeUp \/ PassGate \/ ReadRoutes \/ WriteGaining \/ WriteFinal \/ DropStale
  <2>1. worker.pc \in Deploying /\ UNCHANGED <<queue, begun, desired, current>>
    BY <1>6 DEF ComposeUp, PassGate, ReadRoutes, WriteGaining, WriteFinal, DropStale, At, Deploying
  <2>2. worker'.pc \in Deploying
    BY <1>0, <1>6 DEF ComposeUp, PassGate, ReadRoutes, WriteGaining, WriteFinal, DropStale, At, Deploying, IsWorker
  <2> QED BY <2>1, <2>2 DEF JobsSound, FilesQueued, Syncing, Deploying
<1>7. CASE ComposeUpFails \/ DeployFails \/ SyncBlind \/ SyncEnds
  <2>1. JobEnds /\ queue # << >> /\ UNCHANGED <<desired, current>>
    BY <1>0, <1>7 DEF ComposeUpFails, DeployFails, SyncBlind, SyncEnds, At, Take, Deploying
  <2> QED BY <1>2, <2>1 DEF JobsSound, Syncing, Deploying
<1>8. CASE RecordSuccess
  <2>1. JobEnds /\ queue # << >> /\ current' = Head(queue).file /\ worker.pc = "drop"
    BY <1>0, <1>8 DEF RecordSuccess, At
  <2>2. 1 \in DOMAIN queue
    BY <1>0, <2>1
  <2>3. current' # {}
    BY <1>1, <2>1, <2>2 DEF JobsSound, FilesQueued, Deploying
  <2> QED BY <1>2, <2>1, <2>3 DEF JobsSound, Syncing, Deploying
<1>9. CASE SyncReads
  <2>1. worker'.pc = "syncGain" /\ queue # << >> /\ Head(queue).kind = "sync" /\ worker.pc = "idle"
        /\ UNCHANGED <<queue, begun, desired, current>>
    BY <1>9 DEF SyncReads, Take, At
  <2> QED BY <1>1, <2>1 DEF JobsSound, FilesQueued, Syncing, Deploying
<1>10. CASE SyncGaining \/ SyncFinal \/ SyncDrops
  <2>1. Syncing /\ UNCHANGED <<queue, begun, desired, current>>
    BY <1>10 DEF SyncGaining, SyncFinal, SyncDrops, At, Syncing
  <2>2. worker'.pc \in {"syncGain", "syncFinal", "syncDrop"}
    BY <1>0, <1>10 DEF SyncGaining, SyncFinal, SyncDrops, At, IsWorker
  <2> QED BY <2>1, <2>2 DEF JobsSound, FilesQueued, Syncing, Deploying
<1>11. CASE StopStack
  <2>1. JobEnds /\ queue # << >> /\ desired' = "stopped"
    BY <1>11 DEF StopStack, Take
  <2> QED BY <1>2, <2>1 DEF JobsSound, Syncing, Deploying
<1>12. CASE ServiceDies
  BY <1>12 DEF ServiceDies, JobsSound, FilesQueued, Syncing
<1>13. CASE Crash
  <2>1. worker'.pc = "idle" /\ UNCHANGED <<queue, begun, desired, current>>
    BY <1>13 DEF Crash, Idle
  <2> QED BY <2>1 DEF JobsSound, FilesQueued, Syncing, Deploying
<1> QED BY <1>3, <1>4, <1>5, <1>6, <1>7, <1>8, <1>9, <1>10, <1>11, <1>12, <1>13 DEF Next, Edits

LEMMA StepJobs ==
  ASSUME Typed, RouteInv, JobsSound, [Next]_vars
  PROVE  JobsSound'
BY FormJobs, WorkJobs

-----------------------------------------------------------------------------
(* What the passes dial.                                                     *)

\* A sync gives a new route its planned port, and a deploy its own plan's.
SyncFresh ==
  worker.pc \in {"syncGain", "syncFinal"} =>
    \A s \in Writable : worker.had[s] = {} => worker.ports[s] = worker.plan[s].port
PassDials ==
  /\ At("final") => \A s \in Planned(worker.plan) \ worker.todo : routes[s].port \in {0, worker.plan[s].port}
  /\ At("drop") => \A s \in Planned(worker.plan) : routes[s].port \in {0, worker.plan[s].port}
Recorded == faults = 0 => joined = recorded.routed

LEMMA WorkerRests ==
  ASSUME Edits \/ Deploy \/ Stop \/ ServiceDies \/ UNCHANGED vars
  PROVE  UNCHANGED <<worker, routes, joined, recorded>>
<1>1. CASE Edits
  BY <1>1 DEF Edits, AddDomain, MoveDomain, DeleteDomain, SaveComposeSettings, SetDashboardHost, docker
<1>2. CASE Deploy \/ Stop \/ ServiceDies
  BY <1>2 DEF Deploy, Stop, ServiceDies, docker
<1>3. CASE UNCHANGED vars
  BY <1>3 DEF vars
<1> QED BY <1>1, <1>2, <1>3

\* The steps that lead to no pass.
Ends == ComposeUpFails \/ DeployFails \/ RecordSuccess \/ SyncBlind \/ SyncEnds \/ StopStack \/ Crash
Leads == MarkRunning \/ ReadPlan \/ ComposeUp \/ PassGate \/ ReadRoutes

LEMMA OutsidePasses ==
  ASSUME IsWorker(worker), Ends \/ Leads
  PROVE  worker'.pc \in Unread \cup {"gain"}
<1>1. CASE Ends
  <2>1. worker' = Idle
    BY <1>1 DEF Ends, ComposeUpFails, DeployFails, RecordSuccess, SyncBlind, SyncEnds, StopStack, Crash, JobEnds
  <2> QED BY <2>1 DEF Idle, Unread
<1>2. CASE MarkRunning
  BY <1>2 DEF MarkRunning, Idle, Unread
<1>3. CASE ReadPlan
  <2>1. CASE worker' = Idle
    BY <2>1 DEF Idle, Unread
  <2>2. CASE worker' = [worker EXCEPT !.pc = "planned", !.plan = PlanRead]
    BY <2>2 DEF IsWorker, Unread
  <2> QED BY <1>3, <2>1, <2>2 DEF ReadPlan, JobEnds
<1>4. CASE ComposeUp \/ PassGate \/ ReadRoutes
  BY <1>4 DEF ComposeUp, PassGate, ReadRoutes, IsWorker, Unread
<1> QED BY <1>1, <1>2, <1>3, <1>4 DEF Leads

\* A pass of a sync, or its read.
LEMMA SyncPassShape ==
  ASSUME IsWorker(worker), SyncGaining \/ SyncFinal \/ SyncDrops
  PROVE  /\ worker'.plan = worker.plan /\ worker'.ports = worker.ports /\ worker'.had = worker.had
         /\ worker.pc \in {"syncGain", "syncFinal", "syncDrop"} /\ worker'.pc \in {"syncGain", "syncFinal", "syncDrop"}
         /\ SyncDrops => worker'.pc = "syncDrop"
         /\ worker.pc = "syncDrop" => worker'.pc = "syncDrop"
<1>1. CASE SyncGaining
  <2>1. CASE worker.todo = {}
    BY <1>1, <2>1 DEF SyncGaining, IsWorker, At, SyncDrops
  <2>2. CASE worker.todo # {}
    BY <1>1, <2>2 DEF SyncGaining, IsWorker, At, SyncDrops
  <2> QED BY <2>1, <2>2
<1>2. CASE SyncFinal
  <2>1. CASE worker.todo = {}
    BY <1>2, <2>1 DEF SyncFinal, IsWorker, At, SyncDrops
  <2>2. CASE worker.todo # {}
    BY <1>2, <2>2 DEF SyncFinal, IsWorker, At, SyncDrops
  <2> QED BY <2>1, <2>2
<1>3. CASE SyncDrops
  BY <1>3 DEF SyncDrops, IsWorker, At
<1> QED BY <1>1, <1>2, <1>3

LEMMA SyncReadShape ==
  ASSUME SyncReads
  PROVE  \E blind \in SUBSET Service :
           /\ worker'.pc = "syncGain" /\ worker'.plan = Wanted /\ worker'.had = Hosts(routes)
           /\ \A s \in Service : worker'.ports[s] = IF Wanted[s].hosts = {} THEN 0 ELSE CurrentUpstream(Wanted, s, blind)
<1>1. PICK blind \in SUBSET Service :
        LET plan == Wanted
            ports == [s \in Service |-> IF plan[s].hosts = {} THEN 0 ELSE CurrentUpstream(plan, s, blind)]
            final == [s \in Service |-> IF ports[s] = 0 THEN {} ELSE plan[s].hosts]
        IN worker' = [pc |-> "syncGain", public |-> Unset, plan |-> plan, ports |-> ports, had |-> Hosts(routes),
                      todo |-> GainFirstHosts(Hosts(routes), final),
                      pending |-> PlannedHosts(plan) \ UNION {final[s] : s \in Service}]
  BY DEF SyncReads
<1> DEFINE ports == [s \in Service |-> IF Wanted[s].hosts = {} THEN 0 ELSE CurrentUpstream(Wanted, s, blind)]
<1>2. worker'.pc = "syncGain" /\ worker'.plan = Wanted /\ worker'.had = Hosts(routes) /\ worker'.ports = ports
  BY <1>1
<1>3. \A s \in Service : ports[s] = IF Wanted[s].hosts = {} THEN 0 ELSE CurrentUpstream(Wanted, s, blind)
  OBVIOUS
<1> HIDE DEF ports
<1> QED BY <1>2, <1>3

LEMMA StepFresh ==
  ASSUME RouteInv, SyncFresh, [Next]_vars
  PROVE  SyncFresh'
<1>0. IsWorker(worker)
  BY DEF RouteInv, Shape
<1>1. CASE Edits \/ Deploy \/ Stop \/ ServiceDies \/ UNCHANGED vars
  BY <1>1, WorkerRests DEF SyncFresh, Writable
<1>2. CASE Ends \/ Leads
  BY <1>0, <1>2, OutsidePasses DEF SyncFresh, Unread
<1>3. CASE WriteGaining \/ WriteFinal \/ DropStale
  <2>1. worker'.pc \in {"gain", "final", "drop"}
    BY <1>0, <1>3 DEF WriteGaining, WriteFinal, DropStale, At, IsWorker
  <2> QED BY <2>1 DEF SyncFresh
<1>4. CASE SyncReads
  <2>1. PICK blind \in SUBSET Service :
           /\ worker'.pc = "syncGain" /\ worker'.plan = Wanted /\ worker'.had = Hosts(routes)
           /\ \A s \in Service : worker'.ports[s] = IF Wanted[s].hosts = {} THEN 0 ELSE CurrentUpstream(Wanted, s, blind)
    BY <1>4, SyncReadShape
  <2> QED BY <2>1 DEF SyncFresh, Writable, Hosts, CurrentUpstream
<1>5. CASE SyncGaining \/ SyncFinal \/ SyncDrops
  <2>1. /\ worker'.plan = worker.plan /\ worker'.ports = worker.ports /\ worker'.had = worker.had
        /\ worker'.pc \in {"syncGain", "syncFinal"} => worker.pc \in {"syncGain", "syncFinal"}
    BY <1>0, <1>5, SyncPassShape
  <2> QED BY <2>1 DEF SyncFresh, Writable
<1> QED BY <1>1, <1>2, <1>3, <1>4, <1>5 DEF Next, Edits, Ends, Leads

LEMMA StepPassDials ==
  ASSUME RouteInv, PassDials, [Next]_vars
  PROVE  PassDials'
<1>0. IsWorker(worker) /\ IsRoutes(routes)
  BY DEF RouteInv, Shape
<1>1. CASE Edits \/ Deploy \/ Stop \/ ServiceDies \/ UNCHANGED vars
  BY <1>1, WorkerRests DEF PassDials, At, Planned
<1>2. CASE Ends \/ Leads
  BY <1>0, <1>2, OutsidePasses DEF PassDials, At, Unread
<1>3. CASE SyncReads \/ SyncGaining \/ SyncFinal \/ SyncDrops
  <2>1. worker'.pc \in {"syncGain", "syncFinal", "syncDrop"}
    BY <1>0, <1>3, SyncReadShape, SyncPassShape
  <2> QED BY <2>1 DEF PassDials, At
<1>4. CASE WriteGaining
  <2>1. CASE worker.todo = {}
    <3>1. worker'.pc = "final" /\ worker'.plan = worker.plan /\ worker'.todo = Planned(worker.plan)
      BY <1>0, <1>4, <2>1 DEF WriteGaining, IsWorker
    <3> QED BY <3>1 DEF PassDials, At, Planned
  <2>2. CASE worker.todo # {}
    <3>1. worker'.pc = "gain"
      BY <1>0, <1>4, <2>2 DEF WriteGaining, IsWorker, At
    <3> QED BY <3>1 DEF PassDials, At
  <2> QED BY <2>1, <2>2
<1>5. CASE WriteFinal
  <2>0. worker.pc = "final" /\ worker.todo \subseteq Service
    BY <1>5 DEF WriteFinal, At, RouteInv, DeployTodo, Planned
  <2>1. CASE worker.todo = {}
    <3>1. worker'.pc = "drop" /\ worker'.plan = worker.plan /\ UNCHANGED routes
      BY <1>0, <1>5, <2>1 DEF WriteFinal, IsWorker
    <3> QED BY <2>0, <2>1, <3>1 DEF PassDials, At, Planned
  <2>2. CASE worker.todo # {}
    <3>1. PICK s \in worker.todo : /\ worker' = [worker EXCEPT !.todo = @ \ {s}]
                                   /\ routes' = [routes EXCEPT ![s] = worker.plan[s]]
      BY <1>5, <2>2 DEF WriteFinal
    <3>2. worker'.pc = "final" /\ worker'.plan = worker.plan /\ worker'.todo = worker.todo \ {s}
      BY <1>0, <2>0, <3>1 DEF IsWorker
    <3>3. routes'[s] = worker.plan[s] /\ \A t \in Service \ {s} : routes'[t] = routes[t]
      BY <1>0, <2>0, <3>1 DEF IsRoutes
    <3> QED BY <2>0, <3>2, <3>3 DEF PassDials, At, Planned
  <2> QED BY <2>1, <2>2
<1>6. CASE DropStale
  <2>1. PICK s \in worker.todo : Drop(s) /\ worker' = [worker EXCEPT !.todo = @ \ {s}]
    BY <1>6 DEF DropStale
  <2>2. worker.pc = "drop" /\ worker'.pc = "drop" /\ worker'.plan = worker.plan
    BY <1>0, <1>6, <2>1 DEF DropStale, At, IsWorker
  <2>3. \A t \in Service : routes'[t] = routes[t] \/ routes'[t].port = 0
    BY <1>0, <2>1 DEF Drop, NoRoute, IsRoutes
  <2> QED BY <2>2, <2>3 DEF PassDials, At, Planned
<1> QED BY <1>1, <1>2, <1>3, <1>4, <1>5, <1>6 DEF Next, Edits, Ends, Leads

LEMMA StepRecorded ==
  ASSUME Typed, Recorded, [Next]_vars
  PROVE  Recorded'
<1> SUFFICES ASSUME faults' = 0 PROVE joined' = recorded'.routed
  BY DEF Recorded
<1>0. BoundsTyped /\ recorded \in [services : SUBSET Service, routed : SUBSET Service]
  BY DEF Typed, StoreTyped
<1>1. joined = recorded.routed /\ ~ComposeUpFails /\ ~SyncBlind /\ ~ServiceDies /\ ~Crash
  BY <1>0, FaultsStay DEF Recorded
<1>2. CASE Edits \/ Deploy \/ Stop \/ UNCHANGED vars
  BY <1>1, <1>2, WorkerRests
<1>3. CASE ComposeUp
  BY <1>0, <1>3 DEF ComposeUp
<1>4. CASE RecordSuccess
  BY <1>0, <1>1, <1>4 DEF RecordSuccess, docker
<1>5. CASE MarkRunning \/ ReadPlan \/ PassGate \/ DeployFails \/ ReadRoutes \/ WriteGaining \/ WriteFinal \/ DropStale
  BY <1>1, <1>5 DEF MarkRunning, ReadPlan, PassGate, DeployFails, ReadRoutes, WriteGaining, WriteFinal, DropStale, docker
<1>6. CASE SyncReads \/ SyncGaining \/ SyncFinal \/ SyncDrops \/ SyncEnds \/ StopStack
  BY <1>1, <1>6 DEF SyncReads, SyncGaining, SyncFinal, SyncDrops, SyncEnds, StopStack, docker
<1> QED BY <1>1, <1>2, <1>3, <1>4, <1>5, <1>6 DEF Next, Edits

-----------------------------------------------------------------------------
(* What is planned is served, or a deploy will read it.                      *)

InHand(s) == s \in Planned(worker.plan) /\ worker.plan[s].port = PlanNow[s].port
OnNetwork(s) ==
  /\ s \in joined /\ routes[s].port \in {0, PlanNow[s].port}
  /\ worker.pc \in {"syncGain", "syncFinal"} /\ s \in Writable => worker.ports[s] = PlanNow[s].port
ServedNow ==
  IF worker.pc \in Deploying THEN \A s \in Planned(PlanNow) : InHand(s)
  ELSE desired = "running" => \A s \in Planned(PlanNow) : OnNetwork(s)
Served == missed = {} /\ ~DeployComes => ServedNow

\* A deploy of a queue that grew, or that lost its first job, still comes.
LEMMA ComesStays ==
  ASSUME Typed, Grown, UNCHANGED worker, DeployComes
  PROVE  DeployComes'
  BY DEF DeployComes, Grown, Typed, QueueTyped

LEMMA ComesAfter ==
  ASSUME Typed, queue # << >>, JobEnds, NEW i \in DOMAIN queue, i > 1, queue[i].kind = "deploy"
  PROVE  DeployComes'
<1>1. queue' = Tail(queue) /\ worker'.pc = "idle"
  BY DEF JobEnds, Idle
<1>2. i \in 1..Len(queue) /\ Len(queue) \in Nat
  BY DEF Typed, QueueTyped
<1> DEFINE rest == Tail(queue)
<1>3. rest \in Seq(Job) /\ Len(rest) = Len(queue) - 1 /\ \A j \in 1..Len(rest) : rest[j] = queue[j + 1]
  <2> HIDE DEF Job
  <2> QED BY DEF Typed, QueueTyped
<1> HIDE DEF rest
<1>4. PICK j \in Nat : j = i - 1
  BY <1>2
<1>5. j \in 1..Len(rest) /\ j + 1 = i
  BY <1>2, <1>3, <1>4
<1>6. j \in DOMAIN rest /\ rest[j].kind = "deploy"
  BY <1>3, <1>5
<1>7. rest = queue'
  BY <1>1 DEF rest
<1> QED BY <1>1, <1>6, <1>7 DEF DeployComes

\* A form that plans no new service and moves no port leaves all served.
LEMMA FewerServed ==
  ASSUME ServedNow, UNCHANGED <<worker, routes, joined, desired>>,
         \A s \in Service : PlanNow'[s].hosts # {} => PlanNow[s].hosts # {} /\ PlanNow'[s].port = PlanNow[s].port
  PROVE  ServedNow'
<1>1. \A s \in Planned(PlanNow)' : s \in Planned(PlanNow) /\ PlanNow'[s].port = PlanNow[s].port
  BY DEF Planned
<1>2. Writable' = Writable
  BY DEF Writable
<1>3. CASE worker.pc \in Deploying
  BY <1>1, <1>3 DEF ServedNow, InHand, Planned
<1>4. CASE worker.pc \notin Deploying
  BY <1>1, <1>2, <1>4 DEF ServedNow, OnNetwork
<1> QED BY <1>3, <1>4

\* The target of an added or moved row: its port is the one the handler or
\* the network has, or a deploy was queued.
LEMMA TargetServed ==
  ASSUME Typed, ReachInv, DialInv, SyncFresh, Recorded, JobsSound, faults = 0, Served,
         Grown, UNCHANGED NotRows, NEW s \in Service, NEW p \in Port,
         Retargets(PlanNow, PlanNow', s, p), ApplyStackRouting(s, p), Misses(s, p)
  PROVE  Served'
<1> SUFFICES ASSUME missed' = {}, ~DeployComes' PROVE ServedNow'
  BY DEF Served
<1>0. UNCHANGED <<worker, routes, joined, desired, begun>> /\ p # 0
  BY StackNames DEF NotRows, docker
<1>1. /\ missed = {}
      /\ worker.pc \in Deploying \ {"config"} => desired = "running" /\ s \in Planned(worker.plan)
      /\ PlanNow[s].hosts # {} \/ (routes[s].port \in {0, p} /\ worker.plan[s].port \in {0, p})
  <2> DEFINE late == /\ worker.pc \in Deploying \ {"config"}
                     /\ desired = "stopped" \/ s \notin Planned(worker.plan)
             dials == PlanNow[s].hosts # {} \/ {routes[s].port, worker.plan[s].port} \subseteq {0, p}
  <2>1. missed' = missed \cup (IF late THEN {"late"} ELSE {}) \cup (IF dials THEN {} ELSE {"port"})
    BY DEF Misses
  <2>2. missed = {} /\ ~late /\ dials
    <3> HIDE DEF late, dials
    <3>1. "late" \notin missed' /\ "port" \notin missed'
      OBVIOUS
    <3> QED BY <2>1, <3>1
  <2>3. desired \in {"running", "stopped"}
    BY DEF Typed, StoreTyped
  <2> QED BY <2>2, <2>3
<1>2. ~DeployComes
  BY <1>0, ComesStays
<1>3. ServedNow
  BY <1>1, <1>2 DEF Served
<1>4. worker.pc # "config"
  BY <1>2 DEF DeployComes, JobsSound, Deploying, Typed, QueueTyped
<1>5. desired = "running" => ~RoutingChangeNeedsDeploy(PlanNow, recorded.routed, s, p)
  <2>1. ~\E i \in DOMAIN queue' : queue'[i].kind = "deploy" /\ i > 1
    BY DEF DeployComes
  <2>2. ~\E i \in DOMAIN queue : queue[i].kind = "deploy" /\ ~(i = 1 /\ begun)
    <3> SUFFICES ASSUME NEW i \in DOMAIN queue, queue[i].kind = "deploy", ~(i = 1 /\ begun) PROVE FALSE
      OBVIOUS
    <3>1. i \in 1..Len(queue) /\ Len(queue) \in Nat
      BY DEF Typed, QueueTyped
    <3>2. i = 1 /\ worker.pc \notin {"idle", "config"}
      BY <1>2, <3>1 DEF DeployComes
    <3>3. worker.pc \notin Deploying /\ ~Syncing
      BY <3>2 DEF JobsSound
    <3> QED BY <3>2, <3>3 DEF Typed, WorkTyped, Handler, Deploying, Syncing
  <2> QED BY <2>1, <2>2, RoutingQueues
<1>6. desired = "running" => IF PlanNow[s].hosts = {} THEN s \in recorded.routed ELSE PlanNow[s].port = p
  BY <1>5 DEF RoutingChangeNeedsDeploy
<1>7. PlanNow'[s].port = p /\ \A t \in Service \ {s} : PlanNow'[t].hosts # {} => PlanNow[t].hosts # {} /\ PlanNow'[t].port = PlanNow[t].port
  BY DEF Retargets
<1>8. CASE PlanNow[s].hosts # {} /\ desired = "running"
  <2>1. PlanNow[s].port = p
    BY <1>6, <1>8
  <2> QED BY <1>0, <1>3, <1>7, <1>8, <2>1, FewerServed
<1>9. CASE worker.pc \notin Deploying /\ desired # "running"
  BY <1>0, <1>9 DEF ServedNow
<1>10. CASE worker.pc \in Deploying /\ PlanNow[s].hosts = {}
  <2>1. s \in Planned(worker.plan) /\ worker.plan[s].port \in {0, p}
    BY <1>1, <1>4, <1>10
  <2>2. worker.plan[s].port = p
    BY <2>1 DEF DialInv, PlanDials, Planned
  <2>3. ASSUME NEW t \in Planned(PlanNow)'
        PROVE  InHand(t)'
    <3>1. t \in Service /\ PlanNow'[t].hosts # {}
      BY DEF Planned
    <3>2. CASE t = s
      BY <1>0, <1>7, <2>1, <2>2, <3>2 DEF InHand, Planned
    <3>3. CASE t # s
      <4>1. t \in Planned(PlanNow) /\ PlanNow'[t].port = PlanNow[t].port
        BY <1>7, <3>1, <3>3 DEF Planned
      <4> QED BY <1>0, <1>3, <1>10, <4>1 DEF ServedNow, InHand, Planned
    <3> QED BY <3>2, <3>3
  <2> QED BY <1>0, <1>10, <2>3 DEF ServedNow
<1>11. CASE worker.pc \notin Deploying /\ desired = "running" /\ PlanNow[s].hosts = {}
  <2>1. s \in joined /\ routes[s].port \in {0, p} /\ worker.plan[s].port \in {0, p}
    BY <1>1, <1>6, <1>11 DEF Recorded
  <2>2. worker.pc \in {"syncGain", "syncFinal"} /\ s \in Writable => worker.ports[s] = p
    <3> SUFFICES ASSUME worker.pc \in {"syncGain", "syncFinal"}, s \in Writable PROVE worker.ports[s] = p
      OBVIOUS
    <3>1. worker.ports[s] # 0
      BY DEF Writable
    <3>2. CASE worker.had[s] = {}
      BY <2>1, <3>1, <3>2 DEF SyncFresh
    <3>3. CASE worker.had[s] # {}
      <4>1. routes[s].hosts # {} /\ routes[s].port \in {0, worker.ports[s]}
        BY <3>3 DEF ReachInv, SyncPorts, HadRoute
      <4>2. routes[s].port # 0
        BY <4>1 DEF DialInv, PortsLive
      <4> QED BY <2>1, <4>1, <4>2
    <3> QED BY <3>2, <3>3
  <2>3. Writable' = Writable
    BY <1>0 DEF Writable
  <2>4. ASSUME NEW t \in Planned(PlanNow)'
        PROVE  OnNetwork(t)'
    <3>1. t \in Service /\ PlanNow'[t].hosts # {}
      BY DEF Planned
    <3>2. CASE t = s
      BY <1>0, <1>7, <2>1, <2>2, <2>3, <3>2 DEF OnNetwork
    <3>3. CASE t # s
      <4>1. t \in Planned(PlanNow) /\ PlanNow'[t].port = PlanNow[t].port
        BY <1>7, <3>1, <3>3 DEF Planned
      <4> QED BY <1>0, <1>3, <1>11, <2>3, <4>1 DEF ServedNow, OnNetwork
    <3> QED BY <3>2, <3>3
  <2> QED BY <1>0, <1>11, <2>4 DEF ServedNow
<1>12. CASE worker.pc \in Deploying
  BY <1>1, <1>4, <1>8, <1>10, <1>12
<1> QED BY <1>8, <1>9, <1>11, <1>12

LEMMA FormServed ==
  ASSUME Typed, ReachInv, DialInv, SyncFresh, Recorded, JobsSound, PortsAgree, faults = 0, Served,
         Edits \/ Deploy \/ Stop \/ UNCHANGED vars
  PROVE  Served'
<1>0. FormsTyped
  BY DEF Typed
<1>1. CASE AddDomain \/ MoveDomain
  <2>1. FormsTyped' /\ Grown /\ UNCHANGED NotRows
    BY <1>1, EditTyped DEF Edits
  <2>2. PICK s \in Service, p \in Port : Retargets(PlanNow, PlanNow', s, p) /\ ApplyStackRouting(s, p) /\ Misses(s, p)
    BY <1>0, <1>1, <2>1, TargetForm
  <2> QED BY <2>1, <2>2, TargetServed
<1>2. CASE DeleteDomain
  <2>1. FormsTyped' /\ Grown /\ UNCHANGED NotRows
    BY <1>2, EditTyped DEF Edits
  <2>2. UNCHANGED <<worker, routes, joined, desired>>
    BY <2>1 DEF NotRows, docker
  <2>3. \A s \in Service : PlanNow'[s].hosts # {} => PlanNow'[s].port = PlanNow[s].port
    BY <1>0, <1>2, <2>1, DeleteForm
  <2> SUFFICES ASSUME missed' = {}, ~DeployComes' PROVE ServedNow'
    BY DEF Served
  <2>4. missed = {} /\ Planned(RoutingPlan(rows', public, AutoHost, dashboard)) \subseteq Planned(PlanNow)
    BY <1>2 DEF DeleteDomain, MissesAuto
  <2>5. PlanNow' = RoutingPlan(rows', public, AutoHost, dashboard)
    BY <1>2 DEF DeleteDomain, PlanNow
  <2>6. \A s \in Service : PlanNow'[s].hosts # {} => PlanNow[s].hosts # {}
    BY <2>4, <2>5 DEF Planned
  <2>7. ServedNow
    BY <2>1, <2>2, <2>4, ComesStays DEF Served
  <2> QED BY <2>2, <2>3, <2>6, <2>7, FewerServed
<1>3. CASE SaveComposeSettings \/ SetDashboardHost
  BY <1>3 DEF SaveComposeSettings, SetDashboardHost, Served
<1>4. CASE Deploy \/ Stop
  <2>1. Grown /\ UNCHANGED <<forms, NotRows>>
    BY <1>4, AskTyped
  <2>2. UNCHANGED <<worker, routes, joined, desired>> /\ PlanNow' = PlanNow /\ missed' = missed
    BY <1>4, <2>1, SamePlanNow DEF NotRows, docker, Deploy, Stop
  <2>3. ServedNow => ServedNow'
    BY <2>2, FewerServed
  <2> QED BY <2>1, <2>2, <2>3, ComesStays DEF Served
<1>5. CASE UNCHANGED vars
  <2>1. UNCHANGED <<worker, routes, joined, desired, queue, missed>> /\ UNCHANGED forms
    BY <1>5 DEF vars, forms, docker
  <2>2. PlanNow' = PlanNow
    BY <2>1, SamePlanNow
  <2>3. ServedNow => ServedNow'
    BY <2>1, <2>2, FewerServed
  <2> QED BY <2>1, <2>3 DEF Served, DeployComes
<1> QED BY <1>1, <1>2, <1>3, <1>4, <1>5 DEF Edits

\* A deploy carries its plan to the end.
LEMMA DeployServed ==
  ASSUME Typed, RouteInv, ReachInv, JobsSound, PassDials, Served,
         MarkRunning \/ ReadPlan \/ ComposeUp \/ PassGate \/ ReadRoutes \/ WriteGaining \/ WriteFinal
           \/ DropStale \/ RecordSuccess
  PROVE  Served'
<1>0. IsWorker(worker) /\ QueueTyped
  BY DEF RouteInv, Shape, Typed
<1>1. CASE MarkRunning
  <2>1. worker'.pc = "config" /\ UNCHANGED queue /\ queue # << >> /\ Head(queue).kind = "deploy"
    BY <1>1 DEF MarkRunning, Take, Idle
  <2>2. 1 \in DOMAIN queue /\ Head(queue) = queue[1]
    BY <1>0, <2>1 DEF QueueTyped
  <2>3. DeployComes'
    BY <2>1, <2>2 DEF DeployComes
  <2> QED BY <2>3 DEF Served
<1>2. CASE ReadPlan
  <2>1. CASE missed' = missed \cup {"settings"}
    BY <2>1 DEF Served
  <2>2. CASE worker' = [worker EXCEPT !.pc = "planned", !.plan = PlanRead]
    <3>1. worker'.pc = "planned" /\ worker'.plan = PlanRead
      BY <1>0, <2>2 DEF IsWorker
    <3>2. PlanNow' = PlanNow
      BY <1>2, SamePlanNow DEF ReadPlan
    <3>3. CASE public = worker.public
      <4>1. PlanRead = PlanNow
        BY <3>3 DEF PlanRead, PlanNow
      <4> QED BY <3>1, <3>2, <4>1 DEF Served, ServedNow, InHand, Deploying, Planned
    <3>4. CASE public # worker.public
      <4>1. missed' = missed \cup {"settings"}
        BY <1>2, <3>4 DEF ReadPlan
      <4> QED BY <4>1 DEF Served
    <3> QED BY <3>3, <3>4
  <2> QED BY <1>2, <2>1, <2>2 DEF ReadPlan
<1>3. CASE ComposeUp \/ PassGate \/ ReadRoutes \/ WriteGaining \/ WriteFinal \/ DropStale
  <2>1. UNCHANGED <<forms, queue, missed>> /\ worker.pc \in Deploying \ {"config"}
    BY <1>3 DEF ComposeUp, PassGate, ReadRoutes, WriteGaining, WriteFinal, DropStale, At, Deploying
  <2>2. worker'.pc \in Deploying \ {"config"} /\ worker'.plan = worker.plan
    <3>1. CASE ComposeUp \/ PassGate \/ ReadRoutes \/ DropStale
      BY <1>0, <3>1 DEF ComposeUp, PassGate, ReadRoutes, DropStale, At, Deploying, IsWorker
    <3>2. CASE WriteGaining \/ WriteFinal
      BY <1>0, <3>2 DEF WriteGaining, WriteFinal, At, Deploying, IsWorker
    <3> QED BY <1>3, <3>1, <3>2
  <2>3. PlanNow' = PlanNow
    BY <2>1, SamePlanNow
  <2>4. DeployComes => DeployComes'
    BY <2>1, <2>2 DEF DeployComes, Deploying
  <2> QED BY <2>1, <2>2, <2>3, <2>4 DEF Served, ServedNow, InHand, Planned
<1>4. CASE RecordSuccess
  <2>1. /\ worker.pc = "drop" /\ UNCHANGED <<forms, joined, routes, missed>> /\ JobEnds /\ queue # << >>
    BY <1>0, <1>4 DEF RecordSuccess, At, docker, QueueTyped
  <2>2. worker'.pc = "idle" /\ PlanNow' = PlanNow
    BY <2>1, SamePlanNow DEF JobEnds, Idle
  <2> SUFFICES ASSUME missed' = {}, ~DeployComes' PROVE ServedNow'
    BY DEF Served
  <2>3. ~DeployComes
    BY <2>1, ComesAfter DEF DeployComes
  <2>4. \A s \in Planned(PlanNow) : InHand(s)
    BY <2>1, <2>3 DEF Served, ServedNow, Deploying
  <2>5. \A s \in Planned(PlanNow) : s \in joined /\ routes[s].port \in {0, PlanNow[s].port}
    BY <2>1, <2>4 DEF InHand, ReachInv, JoinedIsPlanned, Passes, PassDials, At
  <2> QED BY <2>1, <2>2, <2>5 DEF ServedNow, OnNetwork, Deploying
<1> QED BY <1>1, <1>2, <1>3, <1>4

\* A sync or a stop moves no route off its port.
LEMMA SyncServed ==
  ASSUME Typed, RouteInv, DialInv, JobsSound, Served,
         SyncReads \/ SyncGaining \/ SyncFinal \/ SyncDrops \/ SyncEnds \/ StopStack
  PROVE  Served'
<1>0. IsWorker(worker) /\ QueueTyped /\ IsRoutes(routes)
  BY DEF RouteInv, Shape, Typed
<1>1. CASE StopStack
  <2>1. desired' = "stopped" /\ worker'.pc = "idle"
    BY <1>1 DEF StopStack, JobEnds, Idle
  <2> QED BY <2>1 DEF Served, ServedNow, Deploying
<1>2. CASE SyncEnds
  <2>1. worker.pc = "syncDrop" /\ UNCHANGED <<forms, desired, joined, routes, missed>> /\ JobEnds /\ queue # << >>
    BY <1>0, <1>2 DEF SyncEnds, At, docker, QueueTyped
  <2>2. worker'.pc = "idle" /\ PlanNow' = PlanNow
    BY <2>1, SamePlanNow DEF JobEnds, Idle
  <2>3. DeployComes => DeployComes'
    BY <2>1, ComesAfter DEF DeployComes
  <2> QED BY <2>1, <2>2, <2>3 DEF Served, ServedNow, OnNetwork, Deploying
<1>3. CASE SyncReads
  <2>1. /\ worker.pc = "idle" /\ queue # << >> /\ Head(queue).kind = "sync"
        /\ UNCHANGED <<forms, desired, queue, joined, routes, missed>>
    BY <1>3 DEF SyncReads, Take, At, docker
  <2>2. PICK blind \in SUBSET Service :
           /\ worker'.pc = "syncGain" /\ worker'.plan = Wanted /\ worker'.had = Hosts(routes)
           /\ \A s \in Service : worker'.ports[s] = IF Wanted[s].hosts = {} THEN 0 ELSE CurrentUpstream(Wanted, s, blind)
    BY <1>3, SyncReadShape
  <2>3. PlanNow' = PlanNow
    BY <2>1, SamePlanNow
  <2>4. DeployComes => DeployComes'
    <3>1. Head(queue) = queue[1] /\ DOMAIN queue = 1..Len(queue) /\ Len(queue) \in Nat
      BY <1>0, <2>1 DEF QueueTyped
    <3> QED BY <2>1, <3>1 DEF DeployComes
  <2> SUFFICES ASSUME missed' = {}, ~DeployComes', desired = "running" PROVE \A s \in Planned(PlanNow) : OnNetwork(s)'
    BY <2>1, <2>2, <2>3 DEF Served, ServedNow, Deploying
  <2> TAKE s \in Planned(PlanNow)
  <2>5. s \in Service /\ s \in joined /\ routes[s].port \in {0, PlanNow[s].port}
    BY <2>1, <2>4 DEF Served, ServedNow, OnNetwork, Deploying, Planned
  <2>6. worker'.ports[s] \in {0, PlanNow[s].port}
    <3>1. worker'.ports[s] \in {0, CurrentUpstream(PlanNow, s, blind)}
      BY <2>2, <2>5 DEF Wanted
    <3>2. CurrentUpstream(PlanNow, s, blind) \in {0, PlanNow[s].port}
      BY <2>5 DEF CurrentUpstream
    <3> QED BY <3>1, <3>2
  <2> QED BY <2>1, <2>3, <2>5, <2>6 DEF OnNetwork, Writable
<1>4. CASE SyncGaining \/ SyncFinal \/ SyncDrops
  <2>1. UNCHANGED <<forms, desired, queue, joined, missed>>
    BY <1>4 DEF SyncGaining, SyncFinal, SyncDrops, docker
  <2>2. /\ worker'.ports = worker.ports
        /\ worker.pc \in {"syncGain", "syncFinal", "syncDrop"} /\ worker'.pc \in {"syncGain", "syncFinal", "syncDrop"}
        /\ worker'.pc \in {"syncGain", "syncFinal"} => worker.pc \in {"syncGain", "syncFinal"}
    BY <1>0, <1>4, SyncPassShape
  <2>3. PlanNow' = PlanNow /\ Writable' = Writable
    BY <2>1, <2>2, SamePlanNow DEF Writable
  <2>4. DeployComes => DeployComes'
    BY <2>1, <2>2 DEF DeployComes
  <2>5. \A s \in Service : \/ routes'[s].port \in {0, routes[s].port}
                           \/ worker.pc \in {"syncGain", "syncFinal"} /\ s \in Writable /\ routes'[s].port = worker.ports[s]
    <3>1. CASE UNCHANGED routes
      BY <3>1
    <3>2. CASE SyncGaining /\ ~UNCHANGED routes
      <4>1. PICK s \in worker.todo :
              routes' = [routes EXCEPT ![s] = [hosts |-> Final[s] \cup worker.had[s], port |-> worker.ports[s]]]
        BY <3>2 DEF SyncGaining
      <4>2. worker.pc = "syncGain" /\ s \in Service /\ s \in Writable
        BY <3>2, <4>1 DEF SyncGaining, At, RouteInv, SyncGains, GainFirstHosts, SyncFinals
      <4>3. routes'[s].port = worker.ports[s] /\ \A t \in Service \ {s} : routes'[t] = routes[t]
        BY <1>0, <4>1, <4>2, OneWrite DEF IsRoutes
      <4> QED BY <4>2, <4>3
    <3>3. CASE SyncFinal /\ ~UNCHANGED routes
      <4>1. PICK s \in worker.todo :
              routes' = [routes EXCEPT ![s] = [hosts |-> Settled(s),
                                               port |-> IF s \in Writable THEN worker.ports[s] ELSE routes[s].port]]
        BY <3>3 DEF SyncFinal
      <4>2. worker.pc = "syncFinal" /\ s \in Service
        BY <3>3, <4>1 DEF SyncFinal, At, RouteInv, SyncTodo
      <4>3. /\ routes'[s].port = IF s \in Writable THEN worker.ports[s] ELSE routes[s].port
            /\ \A t \in Service \ {s} : routes'[t] = routes[t]
        BY <1>0, <4>1, <4>2 DEF IsRoutes
      <4> QED BY <4>2, <4>3
    <3>4. CASE SyncDrops /\ ~UNCHANGED routes
      <4>1. PICK s \in worker.todo : routes' = [routes EXCEPT ![s] = NoRoute]
        BY <3>4 DEF SyncDrops, Drop
      <4> QED BY <1>0, <4>1 DEF IsRoutes, NoRoute
    <3> QED BY <1>4, <3>1, <3>2, <3>3, <3>4
  <2>6. worker.pc \notin Deploying /\ worker'.pc \notin Deploying
    BY <2>2 DEF Deploying
  <2> SUFFICES ASSUME missed' = {}, ~DeployComes', desired = "running" PROVE \A s \in Planned(PlanNow) : OnNetwork(s)'
    BY <2>1, <2>3, <2>6 DEF Served, ServedNow
  <2>7. \A s \in Planned(PlanNow) : s \in Service /\ OnNetwork(s)
    BY <2>1, <2>4, <2>6 DEF Served, ServedNow, Planned
  <2> QED BY <2>1, <2>2, <2>3, <2>5, <2>7 DEF OnNetwork
<1> QED BY <1>1, <1>2, <1>3, <1>4

ServedInv == PortsAgree /\ JobsSound /\ SyncFresh /\ PassDials /\ Recorded /\ (faults = 0 => Served)

LEMMA StepServed ==
  ASSUME RoutesSafe, ServedInv, [Next]_vars
  PROVE  ServedInv'
<1>0. Typed /\ RouteInv /\ ReachInv /\ DialInv /\ CleanInv /\ BoundsTyped
  BY DEF RoutesSafe, Typed
<1>1. PortsAgree' /\ JobsSound' /\ SyncFresh' /\ PassDials' /\ Recorded'
  BY <1>0, StepAgrees, StepJobs, StepFresh, StepPassDials, StepRecorded DEF ServedInv
<1>2. ASSUME faults' = 0
      PROVE  Served'
  <2>1. faults = 0 /\ ~ComposeUpFails /\ ~SyncBlind /\ ~ServiceDies /\ ~Crash
    BY <1>0, <1>2, FaultsStay
  <2>2. Served /\ Clean
    BY <1>0, <2>1 DEF ServedInv, CleanInv
  <2>3. ~DeployFails
    BY <1>0, <1>2, <2>2, NoFault DEF DeployFails, Clean, GateHolds, At
  <2>4. CASE Edits \/ Deploy \/ Stop \/ UNCHANGED vars
    BY <1>0, <2>1, <2>2, <2>4, FormServed DEF ServedInv
  <2>5. CASE MarkRunning \/ ReadPlan \/ ComposeUp \/ PassGate \/ ReadRoutes \/ WriteGaining \/ WriteFinal
               \/ DropStale \/ RecordSuccess
    BY <1>0, <2>2, <2>5, DeployServed DEF ServedInv
  <2>6. CASE SyncReads \/ SyncGaining \/ SyncFinal \/ SyncDrops \/ SyncEnds \/ StopStack
    BY <1>0, <2>2, <2>6, SyncServed DEF ServedInv
  <2> QED BY <2>1, <2>3, <2>4, <2>5, <2>6 DEF Next, Edits
<1> QED BY <1>1, <1>2 DEF ServedInv

LEMMA InitServed == Init => ServedInv
<1> SUFFICES ASSUME Init PROVE ServedInv
  OBVIOUS
<1>1. /\ rows = << >> /\ queue = << >> /\ begun = FALSE /\ worker.pc = "idle" /\ desired = "stopped"
      /\ joined = {} /\ recorded.routed = {}
  BY DEF Init, Idle
<1>2. PortsAgree
  BY <1>1 DEF PortsAgree, RowsAgree
<1>3. JobsSound
  BY <1>1 DEF JobsSound, FilesQueued, Deploying, Syncing
<1>4. SyncFresh /\ PassDials /\ Recorded
  BY <1>1 DEF SyncFresh, PassDials, Recorded, At
<1>5. Served
  BY <1>1 DEF Served, ServedNow, Deploying
<1> QED BY <1>2, <1>3, <1>4, <1>5 DEF ServedInv

\* At rest, a joined service is up and has its hosts, so its route has its port.
LEMMA QuietReaches ==
  ASSUME RoutesSafe, ServedInv
  PROVE  DomainsReachable
<1> SUFFICES ASSUME queue = << >>, faults = 0, desired = "running", missed = {}, NEW s \in Planned(Wanted)
             PROVE  s \in joined /\ routes[s].port = Wanted[s].port
  BY DEF DomainsReachable, Reachable, Quiet
<1>1. worker.pc = "idle" /\ Clean /\ Served /\ PortsLive
  BY DEF RoutesSafe, Typed, QueueTyped, CleanInv, ServedInv, DialInv
<1>2. ~DeployComes /\ ~SyncWaits
  BY DEF DeployComes, SyncWaits, Waiting
<1>3. Wanted = PlanNow /\ s \in Service /\ Wanted[s].hosts # {}
  BY DEF Wanted, Planned
<1>4. s \in joined /\ routes[s].port \in {0, Wanted[s].port}
  BY <1>1, <1>2, <1>3 DEF Served, ServedNow, OnNetwork, Deploying
<1>5. joined \subseteq up /\ Follows(Wanted)
  BY <1>1, <1>2 DEF Clean, AllUp, UpToDate
<1>6. routes[s].hosts # {}
  BY <1>3, <1>4, <1>5 DEF Follows
<1>7. routes[s].port # 0
  BY <1>1, <1>3, <1>6 DEF PortsLive
<1> QED BY <1>4, <1>7

\* Once the jobs of a running stack are done and nothing failed, every planned
\* service is on the network and its route dials its port, whatever rows were
\* added, moved and deleted since the rows were last read, unless Settings were
\* saved or one of the three ways in which a form leaves its change to nobody
\* was met: applyStackRouting queues the deploys that are needed, and a sync
\* is enough for the rest.
THEOREM DomainsStayReachable == Spec => []DomainsReachable
<1>1. Init => ServedInv
  BY InitServed
<1>2. RoutesSafe /\ ServedInv /\ [Next]_vars => ServedInv'
  BY StepServed
<1>3. RoutesSafe /\ ServedInv => DomainsReachable
  BY QuietReaches
<1> QED BY <1>1, <1>2, <1>3, AlwaysSafe, PTL DEF Spec
================================================================================
