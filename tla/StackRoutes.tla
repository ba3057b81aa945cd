------------------------------ MODULE StackRoutes ------------------------------
(***************************************************************************)
(* The routes of one Compose stack: the forms that edit its domains and its *)
(* public service (routes/app.ts), the deploy that joins services to the    *)
(* proxy's network and writes their routes (jobs/deploy-compose.ts,         *)
(* jobs/stack.ts), and the route sync (jobs/routes.ts), with Caddy and      *)
(* Docker calls that fail, containers that die and crashes of musdash.      *)
(*                                                                          *)
(* A route is one service's, dials that service's container and has one     *)
(* port; `hosts` empty means there is no route.  Jobs run one at a time, so  *)
(* only the worker touches routes and containers, one write per step; the    *)
(* forms run between its steps.                                             *)
(***************************************************************************)
EXTENDS StackPlan

CONSTANTS
  AutoHost,   \* the host of the wildcard domain, or NoHost
  Dashboards, \* hosts the operator gives the dashboard
  MaxRows,    \* bound: domain rows
  MaxEdits,   \* bound: forms sent
  MaxFaults   \* bound: failing calls, failing gates, deaths and crashes

\* A file with no service is refused (compose/messages.ts).
ASSUME RoutesNames == Service # {} /\ AutoHost \in Host \cup {NoHost} /\ Dashboards \subseteq Host
ASSUME RoutesBounds == MaxRows \in Nat /\ MaxEdits \in Nat /\ MaxFaults \in Nat

VARIABLES
  rows, public, dashboard, \* domain rows in listDomains' order, and settings
  file,      \* services of the file Settings holds
  recorded,  \* source_json's `services` and `routedServices`
  desired, current, \* resources: desired state, services of the deployed file
  queue,     \* jobs, the worker's first
  begun,     \* the first job's deployment is marked running
  up, joined, \* Docker: running services, services on the proxy's network
  routes,    \* Caddy: each service's hosts and port
  worker,    \* the handler's place and what it holds
  edits, faults, \* use of the bounds
  missed     \* what no code records: why the running stack may not be its rows'

forms == <<rows, public, dashboard, file>>
docker == <<up, joined>>
vars == <<rows, public, dashboard, file, recorded, desired, current, queue, begun, up, joined,
          routes, worker, edits, faults, missed>>

NoRoute == [hosts |-> {}, port |-> 0]
NoPlan == [s \in Service |-> NoRoute]
NoHosts == [s \in Service |-> {}]
Idle == [pc |-> "idle", public |-> Unset, plan |-> NoPlan, ports |-> [s \in Service |-> 0],
         had |-> NoHosts, todo |-> {}, pending |-> {}]
Hosts(r) == [s \in Service |-> r[s].hosts]
Routed == UNION {routes[s].hosts : s \in Service}
DeployOf(f) == [kind |-> "deploy", file |-> f]
Chore(kind) == [kind |-> kind, file |-> {}]

RouteType == [Service -> [hosts : SUBSET Host, port : Port \cup {0}]]

TypeOK ==
  /\ rows \in Seq(Row) /\ Len(rows) <= MaxRows
  /\ public \in Public /\ dashboard \in Dashboards \cup {NoHost}
  /\ file \in (SUBSET Service) \ {{}}
  /\ recorded \in [services : SUBSET Service, routed : SUBSET Service]
  /\ desired \in {"running", "stopped"} /\ current \in SUBSET Service
  /\ queue \in Seq([kind : {"deploy", "sync", "stop"}, file : SUBSET Service])
  /\ begun \in BOOLEAN
  /\ up \in SUBSET Service /\ joined \in SUBSET Service
  /\ routes \in RouteType
  /\ worker \in [pc : {"idle", "config", "planned", "up", "gated", "gain", "final", "drop",
                       "syncGain", "syncFinal", "syncDrop"},
                 public : Public, plan : RouteType, ports : [Service -> Port \cup {0}],
                 had : [Service -> SUBSET Host], todo : SUBSET Service, pending : SUBSET Host]
  /\ edits \in 0..MaxEdits /\ faults \in 0..MaxFaults /\ missed \subseteq {"settings", "late", "port", "auto"}

\* Just created from a file, with no row yet.
Init ==
  /\ rows = << >> /\ public = Unset /\ dashboard = NoHost
  /\ file = Service /\ recorded = [services |-> Service, routed |-> {}]
  /\ desired = "stopped" /\ current = {}
  /\ queue = << >> /\ begun = FALSE
  /\ up = {} /\ joined = {}
  /\ routes = NoPlan
  /\ worker = Idle
  /\ edits = 0 /\ faults = 0 /\ missed = {}

Deploying == {"config", "planned", "up", "gated", "gain", "final", "drop"}
PlanNow == RoutingPlan(rows, public, AutoHost, dashboard)
Fault == faults < MaxFaults /\ faults' = faults + 1
Edit == edits < MaxEdits /\ edits' = edits + 1

-----------------------------------------------------------------------------
(* The forms.                                                              *)

Waiting == {i \in DOMAIN queue : i > 1 \/ worker.pc = "idle"}

\* A press goes to a waiting deploy of the same file nothing of the stack
\* waits behind.
Deploy ==
  /\ Edit
  /\ ~\E i \in Waiting : /\ queue[i] = DeployOf(file)
                         /\ \A k \in Waiting : k > i => queue[k].kind = "sync"
  /\ queue' = Append(queue, DeployOf(file))
  /\ UNCHANGED <<forms, recorded, desired, current, begun, docker, routes, worker, faults, missed>>

Stop ==
  /\ Edit
  /\ queue' = Append(queue, Chore("stop"))
  /\ UNCHANGED <<forms, recorded, desired, current, begun, docker, routes, worker, faults, missed>>

DomainTargetOk(s, p, except) ==
  /\ s \in recorded.services
  /\ ServicePortFor(rows, public, s, except) \in {0, p}

\* What a change of the rows queues: always a sync, and a deploy when only one
\* can make its target answer, unless a waiting deploy will read the rows.
\* A deploy in progress lends its file, else the deployed one is used.
ApplyStackRouting(s, p) ==
  LET deploys == {i \in DOMAIN queue : queue[i].kind = "deploy"}
      newest == CHOOSE i \in deploys : \A j \in deploys : j <= i
      running == deploys # {} /\ newest = 1 /\ begun
      synced == Append(queue, Chore("sync"))
  IN IF /\ desired = "running" /\ current # {}
        /\ RoutingChangeNeedsDeploy(PlanNow, recorded.routed, s, p)
        /\ deploys = {} \/ running
     THEN queue' = Append(synced, DeployOf(IF running THEN queue[newest].file ELSE current))
     ELSE queue' = synced

\* Two ways a form can leave its change to nobody: a deploy is past reading the
\* rows, or a route of another port has yet to be deleted.  A deletion has one:
\* a host that falls to the public service, which has no other.
Misses(s, p) ==
  missed' = missed
    \cup (IF /\ worker.pc \in Deploying \ {"config"}
             /\ desired = "stopped" \/ s \notin Planned(worker.plan)
          THEN {"late"} ELSE {})
    \cup (IF PlanNow[s].hosts # {} \/ {routes[s].port, worker.plan[s].port} \subseteq {0, p}
          THEN {} ELSE {"port"})

MissesAuto ==
  missed' = missed
    \cup (IF Planned(RoutingPlan(rows', public, AutoHost, dashboard)) \subseteq Planned(PlanNow)
          THEN {} ELSE {"auto"})

Taken(h) == \E i \in DOMAIN rows : rows[i].host = h

AddDomain ==
  /\ Edit /\ Len(rows) < MaxRows
  /\ \E h \in Host \ {dashboard}, s \in Service, p \in Port :
       /\ ~Taken(h)
       /\ DomainTargetOk(s, p, 0)
       /\ rows' = Append(rows, [host |-> h, service |-> s, port |-> p, auto |-> FALSE])
       /\ ApplyStackRouting(s, p)
       /\ Misses(s, p)
  /\ UNCHANGED <<public, dashboard, file, recorded, desired, current, begun, docker, routes,
                 worker, faults>>

MoveDomain ==
  /\ Edit
  /\ \E i \in DOMAIN rows, s \in Service, p \in Port :
       /\ ~rows[i].auto
       /\ DomainTargetOk(s, p, i)
       /\ rows' = [rows EXCEPT ![i].service = s, ![i].port = p]
       /\ ApplyStackRouting(s, p)
       /\ Misses(s, p)
  /\ UNCHANGED <<public, dashboard, file, recorded, desired, current, begun, docker, routes,
                 worker, faults>>

DeleteDomain_slip ==
  /\ Edit
  /\ \E i \in DOMAIN rows : rows' = [rows EXCEPT ![i].host = NoHost]
  /\ queue' = Append(queue, Chore("sync"))
  /\ MissesAuto
  /\ UNCHANGED <<public, dashboard, file, recorded, desired, current, begun, docker, routes,
                 worker, faults>>

DeleteDomain ==
  /\ Edit
  /\ \E i \in DOMAIN rows :
       rows' = SubSeq(rows, 1, i - 1) \o SubSeq(rows, i + 1, Len(rows))
  /\ queue' = Append(queue, Chore("sync"))
  /\ MissesAuto
  /\ UNCHANGED <<public, dashboard, file, recorded, desired, current, begun, docker, routes,
                 worker, faults>>

\* The rows of the public service follow its port and the auto row follows the
\* public service; with none, the auto row points nowhere.
SaveRows(pub) ==
  LET follow(r) == IF \/ pub # Unset /\ r.service = pub.service
                      \/ pub # Unset /\ r.host = AutoHost
                   THEN [r EXCEPT !.service = pub.service, !.port = pub.port]
                   ELSE IF pub = Unset /\ r.auto
                   THEN [r EXCEPT !.service = NoService, !.port = 0]
                   ELSE r
      followed == [i \in DOMAIN rows |-> follow(rows[i])]
      new == [host |-> AutoHost, service |-> pub.service, port |-> pub.port, auto |-> TRUE]
  IN IF pub # Unset /\ AutoHost # NoHost /\ ~Taken(AutoHost)
     THEN Len(rows) < MaxRows /\ rows' = << new >> \o followed
     ELSE rows' = followed

SaveComposeSettings ==
  /\ Edit
  /\ \E f \in (SUBSET Service) \ {{}}, pub \in Public :
       /\ pub.service \in f \cup {NoService}
       /\ file' = f /\ public' = pub
       /\ SaveRows(pub)
  /\ queue' = Append(queue, Chore("sync"))
  /\ missed' = missed \cup {"settings"}
  /\ UNCHANGED <<dashboard, recorded, desired, current, begun, docker, routes, worker, faults>>

SetDashboardHost_slip ==
  /\ Edit
  /\ \E h \in (Dashboards \cup {NoHost}) \ {dashboard} : ~Taken(h) /\ dashboard' = h
  /\ missed' = missed \cup {"settings"}
  /\ UNCHANGED <<rows, public, file, recorded, desired, current, queue, begun, docker, routes,
                 worker, faults>>

\* The form refuses a host some resource has as a domain; the job it queues
\* syncs the routes first.
SetDashboardHost ==
  /\ Edit
  /\ \E h \in (Dashboards \cup {NoHost}) \ {dashboard} : ~Taken(h) /\ dashboard' = h
  /\ queue' = Append(queue, Chore("sync"))
  /\ missed' = missed \cup {"settings"}
  /\ UNCHANGED <<rows, public, file, recorded, desired, current, begun, docker, routes, worker,
                 faults>>

-----------------------------------------------------------------------------
(* The deploy.                                                             *)

At(pc) == worker.pc = pc
Take(kind) == At("idle") /\ queue # << >> /\ Head(queue).kind = kind
JobEnds == queue' = Tail(queue) /\ begun' = FALSE /\ worker' = Idle

\* The deployment is running, and the resource's row is read with its public
\* service and port.
MarkRunning ==
  /\ Take("deploy")
  /\ worker' = [Idle EXCEPT !.pc = "config", !.public = public]
  /\ begun' = TRUE
  /\ UNCHANGED <<forms, recorded, desired, current, queue, docker, routes, edits, faults, missed>>

\* A domain points at a service the file no longer has.
DroppedServices(plan, f) ==
  \/ \E i \in DOMAIN rows : rows[i].service \in Service \ f
  \/ worker.public.service \in Planned(plan) \ f

\* After `compose config`: the plan is made once, of the domains and the
\* dashboard's host of now and of the public service of the job's start, so that
\* Settings saved meanwhile are missed.  A file that dropped a routed service is
\* refused before anything is touched.
PlanRead == RoutingPlan(rows, worker.public, AutoHost, dashboard)

ReadPlan ==
  /\ At("config")
  /\ IF DroppedServices(PlanRead, Head(queue).file)
     THEN JobEnds /\ missed' = missed \cup {"settings"}
     ELSE /\ worker' = [worker EXCEPT !.pc = "planned", !.plan = PlanRead]
          /\ missed' = IF public = worker.public THEN {} ELSE missed \cup {"settings"}
          /\ UNCHANGED <<queue, begun>>
  /\ UNCHANGED <<forms, recorded, desired, current, docker, routes, edits, faults>>

\* `compose up --remove-orphans`, then what it joined to the network is
\* recorded, whatever the gate will say.
ComposeUp ==
  /\ At("planned")
  /\ up' = Head(queue).file
  /\ joined' = Planned(worker.plan)
  /\ recorded' = [recorded EXCEPT !.routed = Planned(worker.plan)]
  /\ worker' = [worker EXCEPT !.pc = "up"]
  /\ UNCHANGED <<forms, desired, current, queue, begun, routes, edits, faults, missed>>

\* `up` fails with some services recreated.
ComposeUpFails ==
  /\ At("planned") /\ Fault
  /\ \E some \in SUBSET Head(queue).file :
       /\ up' = up \cup some
       /\ joined' = (joined \ some) \cup (some \cap Planned(worker.plan))
  /\ JobEnds
  /\ UNCHANGED <<forms, recorded, desired, current, routes, edits, missed>>

PassGate ==
  /\ At("up") /\ Head(queue).file \subseteq up
  /\ worker' = [worker EXCEPT !.pc = "gated"]
  /\ UNCHANGED <<forms, recorded, desired, current, queue, begun, docker, routes, edits, faults,
                 missed>>

\* Any call may fail the deploy where it stands; a dead service fails the
\* gate.  No `down`, no rollback.
DeployFails ==
  /\ \/ worker.pc \in Deploying \ {"drop"} /\ Fault
     \/ At("up") /\ ~(Head(queue).file \subseteq up) /\ UNCHANGED faults
  /\ JobEnds
  /\ UNCHANGED <<forms, recorded, desired, current, docker, routes, edits, missed>>

Final == [s \in Service |-> worker.plan[s].hosts]

\* applyStackRoutes reads what its routes hold before it writes any.
ReadRoutes ==
  /\ At("gated")
  /\ worker' = [worker EXCEPT !.pc = "gain", !.had = Hosts(routes),
                              !.todo = GainFirstHosts(Hosts(routes), Final)]
  /\ UNCHANGED <<forms, recorded, desired, current, queue, begun, docker, routes, edits, faults,
                 missed>>

\* First pass: the gaining routes, with the hosts they hold as well.
WriteGaining ==
  /\ At("gain")
  /\ IF worker.todo = {}
     THEN /\ worker' = [worker EXCEPT !.pc = "final", !.todo = Planned(worker.plan)]
          /\ UNCHANGED routes
     ELSE \E s \in worker.todo :
            /\ worker' = [worker EXCEPT !.todo = @ \ {s}]
            /\ routes' = [routes EXCEPT ![s] = [hosts |-> Final[s] \cup worker.had[s],
                                                port |-> worker.plan[s].port]]
  /\ UNCHANGED <<forms, recorded, desired, current, queue, begun, docker, edits, faults, missed>>

\* Second pass: every planned route with exactly its hosts.
WriteFinal ==
  /\ At("final")
  /\ IF worker.todo = {}
     THEN /\ worker' = [worker EXCEPT !.pc = "drop",
                                      !.todo = {s \in Service : routes[s].hosts # {}}
                                               \ Planned(worker.plan)]
          /\ UNCHANGED routes
     ELSE \E s \in worker.todo :
            /\ worker' = [worker EXCEPT !.todo = @ \ {s}]
            /\ routes' = [routes EXCEPT ![s] = worker.plan[s]]
  /\ UNCHANGED <<forms, recorded, desired, current, queue, begun, docker, edits, faults, missed>>

\* One route goes; a failure is logged.
Drop(s) ==
  \/ routes' = [routes EXCEPT ![s] = NoRoute] /\ UNCHANGED faults
  \/ UNCHANGED routes /\ Fault

\* Third pass: the routes the plan no longer has, best effort.
DropStale ==
  /\ At("drop")
  /\ \E s \in worker.todo : Drop(s) /\ worker' = [worker EXCEPT !.todo = @ \ {s}]
  /\ UNCHANGED <<forms, recorded, desired, current, queue, begun, docker, edits, missed>>

\* `services` is this deploy's; the rest of the source is read again.
RecordSuccess ==
  /\ At("drop") /\ worker.todo = {}
  /\ current' = Head(queue).file /\ desired' = "running"
  /\ recorded' = [recorded EXCEPT !.services = Head(queue).file]
  /\ JobEnds
  /\ UNCHANGED <<forms, docker, routes, edits, faults, missed>>

-----------------------------------------------------------------------------
(* The route sync.                                                         *)

CurrentUpstream_slip1(plan, s, blind) == plan[s].port
CurrentUpstream_slip2(plan, s, blind) ==
  IF routes[s].hosts # {} THEN routes[s].port
  ELSE IF s \in up \ blind THEN plan[s].port
  ELSE 0

\* The port a route keeps or gets, 0 when it cannot be written: a live route
\* keeps its own, and a new one needs its service running on the network.
CurrentUpstream(plan, s, blind) ==
  IF routes[s].hosts # {} THEN routes[s].port
  ELSE IF s \in (up \cap joined) \ blind THEN plan[s].port
  ELSE 0

\* wantedRoutes: none unless the stack should run.
Wanted == IF desired = "running" THEN PlanNow ELSE NoPlan

\* The routes are read, the plan is made, each upstream is looked up (a
\* container that cannot be inspected is like one that is down).  The hosts of
\* a planned route that cannot be written yet are pending.
SyncReads ==
  /\ Take("sync")
  /\ \E blind \in SUBSET Service :
       /\ IF blind = {} THEN UNCHANGED faults ELSE Fault
       /\ LET plan == Wanted
              ports == [s \in Service |-> IF plan[s].hosts = {} THEN 0
                                          ELSE CurrentUpstream(plan, s, blind)]
              final == [s \in Service |-> IF ports[s] = 0 THEN {} ELSE plan[s].hosts]
          IN worker' = [pc |-> "syncGain", public |-> Unset, plan |-> plan, ports |-> ports,
                        had |-> Hosts(routes), todo |-> GainFirstHosts(Hosts(routes), final),
                        pending |-> PlannedHosts(plan) \ UNION {final[s] : s \in Service}]
  /\ UNCHANGED <<forms, recorded, desired, current, queue, begun, docker, routes, edits, missed>>

\* Caddy cannot be read: the job leaves everything as it is.
SyncBlind ==
  /\ Take("sync") /\ Fault
  /\ JobEnds
  /\ UNCHANGED <<forms, recorded, desired, current, docker, routes, edits, missed>>

Writable == {s \in Service : worker.ports[s] # 0}
Held(s) == worker.had[s] \cap worker.pending
HadRoute == {s \in Service : worker.had[s] # {}}
\* What a route ends with: its plan if it can be written, and what it holds
\* for a route that cannot.
Settled(s) == (IF s \in Writable THEN Final[s] ELSE {}) \cup Held(s)

\* A failed write leaves the route, and its hosts become pending.
SyncGaining ==
  /\ At("syncGain")
  /\ IF worker.todo = {}
     THEN /\ worker' = [worker EXCEPT !.pc = "syncFinal", !.todo = Writable \cup HadRoute]
          /\ UNCHANGED <<routes, faults>>
     ELSE \E s \in worker.todo :
            \/ /\ worker' = [worker EXCEPT !.todo = @ \ {s}]
               /\ routes' = [routes EXCEPT ![s] = [hosts |-> Final[s] \cup worker.had[s],
                                                   port |-> worker.ports[s]]]
               /\ UNCHANGED faults
            \/ /\ worker' = [worker EXCEPT !.todo = @ \ {s}, !.pending = @ \cup Final[s]]
               /\ UNCHANGED routes /\ Fault
  /\ UNCHANGED <<forms, recorded, desired, current, queue, begun, docker, edits, missed>>

\* A route that is not planned or cannot be written survives only while it
\* holds a pending host.
SyncFinal ==
  /\ At("syncFinal")
  /\ IF worker.todo = {}
     THEN /\ worker' = [worker EXCEPT !.pc = "syncDrop",
                !.todo = {s \in HadRoute \ Planned(worker.plan) : Held(s) = {}}]
          /\ UNCHANGED <<routes, faults>>
     ELSE \E s \in worker.todo :
            /\ worker' = [worker EXCEPT !.todo = @ \ {s}]
            /\ \/ /\ routes' = IF Settled(s) = {} THEN routes
                               ELSE [routes EXCEPT ![s] = [hosts |-> Settled(s),
                                       port |-> IF s \in Writable THEN worker.ports[s]
                                                ELSE routes[s].port]]
                  /\ UNCHANGED faults
               \/ UNCHANGED routes /\ Fault
  /\ UNCHANGED <<forms, recorded, desired, current, queue, begun, docker, edits, missed>>

SyncDrops ==
  /\ At("syncDrop")
  /\ \E s \in worker.todo : Drop(s) /\ worker' = [worker EXCEPT !.todo = @ \ {s}]
  /\ UNCHANGED <<forms, recorded, desired, current, queue, begun, docker, edits, missed>>

SyncEnds ==
  /\ At("syncDrop") /\ worker.todo = {}
  /\ JobEnds
  /\ UNCHANGED <<forms, recorded, desired, current, docker, routes, edits, faults, missed>>

-----------------------------------------------------------------------------
(* The stop, and what happens to the stack and to musdash.                 *)

\* Routes first, best effort, then `compose stop`.
StopStack ==
  /\ Take("stop")
  /\ \E left \in SUBSET {s \in Service : routes[s].hosts # {}} :
       /\ IF left = {} THEN UNCHANGED faults ELSE Fault
       /\ routes' = [s \in Service |-> IF s \in left THEN routes[s] ELSE NoRoute]
  /\ up' = {} /\ desired' = "stopped"
  /\ JobEnds
  /\ UNCHANGED <<forms, recorded, current, joined, edits, missed>>

ServiceDies ==
  /\ Fault
  /\ \E s \in up : up' = up \ {s}
  /\ UNCHANGED <<forms, recorded, desired, current, queue, begun, joined, routes, worker, edits,
                 missed>>

\* The job runs again from its beginning after the restart.
Crash ==
  /\ Fault /\ ~At("idle")
  /\ worker' = Idle
  /\ UNCHANGED <<forms, recorded, desired, current, queue, begun, docker, routes, edits, missed>>

Next ==
  \/ Deploy \/ Stop \/ AddDomain \/ MoveDomain \/ DeleteDomain \/ SaveComposeSettings
  \/ SetDashboardHost
  \/ MarkRunning \/ ReadPlan \/ ComposeUp \/ ComposeUpFails \/ PassGate \/ DeployFails
  \/ ReadRoutes \/ WriteGaining \/ WriteFinal \/ DropStale \/ RecordSuccess
  \/ SyncReads \/ SyncBlind \/ SyncGaining \/ SyncFinal \/ SyncDrops \/ SyncEnds
  \/ StopStack \/ ServiceDies \/ Crash

Spec == Init /\ [][Next]_vars

-----------------------------------------------------------------------------
(* Properties.                                                             *)

\* A host that some route answers on and that the handler's plan still routes
\* never goes unrouted, at any write of a deploy or a sync, whichever writes
\* fail and whenever the handler is cut off.
HostNeverDropped ==
  [][Routed \cap PlannedHosts(worker.plan) \subseteq Routed']_vars

\* A route appears only for a service the proxy can reach, whatever was saved,
\* deployed or failed since the routes were planned, and a live route's port
\* moves only in a deploy that passed its gate: a port saved in Settings is not
\* dialled before a container listens on it.
NewRouteReachable ==
  [][\A s \in Service :
       /\ routes[s].hosts = {} /\ routes'[s].hosts # {} => s \in joined
       /\ routes[s].port # 0 /\ routes'[s].port \notin {0, routes[s].port}
            => worker.pc \in {"gain", "final"}]_vars

Quiet == queue = << >> /\ faults = 0

\* The state is typed, and once the jobs are done and nothing failed, the
\* routes are the plan's: a service on the network has exactly its hosts, no
\* host is on two routes, the dashboard's on none, and one that is not
\* planned or not reachable keeps only hosts whose own service cannot be
\* reached yet.
RoutesSettle ==
  TypeOK /\ (Quiet =>
    LET unreachable == UNION {Wanted[s].hosts : s \in Service \ joined}
    IN /\ \A s \in Service : s \in up \cap joined /\ Wanted[s].hosts # {}
            => routes[s].hosts \ unreachable = Wanted[s].hosts
       /\ \A s \in Service : routes[s].hosts \subseteq Wanted[s].hosts \cup unreachable
       /\ \A s, t \in Service : s # t => routes[s].hosts \cap routes[t].hosts = {}
       /\ dashboard \notin Routed)

Reachable == \A s \in Planned(Wanted) : s \in joined /\ routes[s].port = Wanted[s].port

\* A domain form leaves its stack reachable: once its jobs are done and nothing
\* failed, every planned service of a running stack is joined and its route
\* dials its port, unless Settings were saved since, or one of the three
\* ways below was met.
DomainsReachable == Quiet /\ desired = "running" /\ missed = {} => Reachable

\* jobs/deploy-compose.ts:216 says the plan is the answer `sync_routes` gives;
\* Settings saved while `compose config` runs are not in it.
\* Refuted: README, section 3.
SameAnswer == [][At("config") /\ worker'.pc = "planned" => worker'.plan = PlanNow]_vars

\* routes/app.ts:1899 queues a deploy after one in progress, which may be past
\* reading the rows; not after the first deploy of a stack not yet desired
\* running, nor for a service that deploy is about to take off the network.
\* Refuted: README, section 3.
InProgressDeployFollowed ==
  Quiet /\ desired = "running" /\ missed \subseteq {"late"} => Reachable

\* routes/app.ts:1869 redeploys for a live route's port; one whose domain was
\* deleted but whose route was not yet synced is not seen.
\* Refuted: README, section 3.
LivePortFollowed ==
  Quiet /\ desired = "running" /\ missed \subseteq {"port"} => Reachable

\* routes/app.ts:1037 queues a sync for a deleted domain, never a deploy: the
\* service the deletion gives the host back to may be off the proxy's network.
\* Refuted: README, section 3.
DeletionNeedsNoDeploy ==
  Quiet /\ desired = "running" /\ missed \subseteq {"auto"} => Reachable
================================================================================
