--------------------------- MODULE DeployPipeline ---------------------------
(***************************************************************************)
(* One image resource: the deploy, stop, remove and route-sync handlers the *)
(* worker runs on it (jobs/deploy.ts, jobs/index.ts, jobs/routes.ts), the   *)
(* reconciler that runs beside the worker in the same process               *)
(* (reconciler.ts), the requests that queue the jobs (routes/app.ts), its   *)
(* containers, its route in the proxy, crashes of musdash, Docker and proxy *)
(* calls that fail, and an operator removing containers by hand.            *)
(*                                                                          *)
(* Handlers run to their next await without interruption, so there is one   *)
(* action per stretch between awaits that matters.  The queue is first in,  *)
(* first out with one worker; the job at its head stays there until its     *)
(* outcome is recorded, and a restart runs it again from its beginning      *)
(* (JobQueue has the queue itself, its folding, cancelling and retries).    *)
(*                                                                          *)
(* A deploy's container is named after its deployment, so the deployment's  *)
(* id is the container's.  A definition whose name ends in _slip is a       *)
(* plausible mistake in the definition below it, used by no specification.  *)
(***************************************************************************)
EXTENDS Integers, Sequences, FiniteSets

CONSTANTS
  Image,           \* image references
  NoImage,         \* no image
  Ports,           \* whether the row has a port to route: the values tried
  MaxDeploys,      \* bound: deployments ever created
  MaxAsked,        \* bound: deploys and rollbacks asked for by the user
  MaxChores,       \* bound: stops, removals and Settings edits
  MaxCrashes,      \* bound: deaths of the musdash process
  MaxFailures,     \* bound: deploys failing on their image, start or health
  MaxProxyErrors,  \* bound: failing calls to Caddy
  MaxDockerErrors, \* bound: failing Docker calls whose failure is swallowed
  MaxDbErrors,     \* bound: jobs not written after their deployment row was
  MaxHours,        \* bound: times a deploy with a job is an hour old
  MaxByHand        \* bound: `docker rm -f` by the operator

ASSUME ImageAssumption == NoImage \notin Image /\ Image # {}
ASSUME PortsAssumption == Ports \subseteq BOOLEAN
ASSUME BoundsAssumption ==
  /\ MaxDeploys \in Nat /\ MaxAsked \in Nat /\ MaxChores \in Nat
  /\ MaxCrashes \in Nat /\ MaxFailures \in Nat /\ MaxProxyErrors \in Nat
  /\ MaxDockerErrors \in Nat /\ MaxDbErrors \in Nat /\ MaxHours \in Nat
  /\ MaxByHand \in Nat

DeployId == 1..MaxDeploys
None == 0

VARIABLES
  row,         \* the resources row
  deployments, \* the deployments rows
  queue,       \* jobs not finished, oldest first; the worker's is the head
  containers,  \* what Docker has of each deployment's container
  route,       \* the container the resource's Caddy route dials
  worker,      \* where the head job's handler is, and what it holds
  recon,       \* where the reconciler's tick is, and what it holds
  cooling,     \* the backoff of the reconciler's streak has not passed yet
  aged,        \* deployments in flight created more than STREAK_GAP_MS ago
  process,     \* "up", "boot" (reconciling before serving) or "down"
  spent,       \* how much of each bound is used
  \* What no code records: the containers that passed the health gate, and
  \* the newest request of the user.
  gated, asked

state == <<row, deployments, queue, containers, route, worker, recon, cooling, aged, process>>
vars == <<row, deployments, queue, containers, route, worker, recon, cooling, aged, process,
          spent, gated, asked>>

Job == [kind : {"deploy"}, id : DeployId] \cup [kind : {"stop", "remove", "sync"}, id : {None}]

Resource ==
  [exists : BOOLEAN, container : DeployId \cup {None}, image : Image,
   previous : Image \cup {NoImage}, desired : {"running", "stopped"}, port : BOOLEAN]

Deployment ==
  [image : Image, trigger : {"manual", "rollback", "reconcile"},
   status : {"queued", "running", "succeeded", "failed"}]

Pc == {"idle"}
  \cup {"asked", "running", "reclaimed", "created", "started", "healthy", "switched", "retired",
        "threw", "cleaned"}                              \* deploy
  \cup {"stopping", "stopped", "unrouted"}               \* stop
  \cup {"removing", "removed", "emptied", "released"}    \* remove
  \cup {"rerouting", "unrouting"}                        \* sync_routes
Idle == [pc |-> "idle", old |-> None, new |-> None, outgoing |-> NoImage,
         previous |-> NoImage, port |-> FALSE, switching |-> FALSE]
Resting == [pc |-> "idle", present |-> {}, live |-> {}, finished |-> FALSE,
            chosen |-> None, seen |-> None]

Budget == {"asked", "chores", "crashes", "failures", "proxy", "docker", "database", "hours",
           "byHand"}

TypeOK ==
  /\ row \in Resource
  /\ deployments \in Seq(Deployment) /\ Len(deployments) <= MaxDeploys
  /\ queue \in Seq(Job)
  /\ containers \in [DeployId -> {"none", "still", "running"}]
  /\ route \in DeployId \cup {None}
  /\ worker \in [pc : Pc, old : DeployId \cup {None}, new : DeployId \cup {None},
                 outgoing : Image \cup {NoImage}, previous : Image \cup {NoImage},
                 port : BOOLEAN, switching : BOOLEAN]
  /\ recon \in [pc : {"idle", "listed", "planned", "swept", "inspected"},
                present : SUBSET DeployId, live : SUBSET DeployId, finished : BOOLEAN,
                chosen : DeployId \cup {None}, seen : DeployId \cup {None}]
  /\ cooling \in BOOLEAN
  /\ aged \subseteq DeployId
  /\ process \in {"up", "boot", "down"}
  /\ spent \in [Budget -> Nat]
  /\ gated \subseteq DeployId
  /\ asked \in {"nothing", "deploy", "stop", "remove"}

\* Just created, with or without a port to route: never deployed, desired
\* stopped until a deploy succeeds.
Init ==
  /\ \E i \in Image, port \in Ports :
       row = [exists |-> TRUE, container |-> None, image |-> i, previous |-> NoImage,
              desired |-> "stopped", port |-> port]
  /\ deployments = << >> /\ queue = << >>
  /\ containers = [d \in DeployId |-> "none"]
  /\ route = None
  /\ worker = Idle /\ recon = Resting
  /\ cooling = FALSE /\ aged = {}
  /\ process = "up"
  /\ spent = [b \in Budget |-> 0]
  /\ gated = {} /\ asked = "nothing"

Present == {d \in DeployId : containers[d] # "none"}
Live == {d \in DeployId : containers[d] = "running"}

Spend(b, max) == spent[b] < max /\ spent' = [spent EXCEPT ![b] = @ + 1]

-----------------------------------------------------------------------------
(* Requests.  Handlers only touch the database.                            *)

\* createDeployment, and what it does to the reconciler's streak.
CreateDeployment(image, trigger) ==
  /\ Len(deployments) < MaxDeploys
  /\ deployments' = Append(deployments, [image |-> image, trigger |-> trigger, status |-> "queued"])
  /\ cooling' = (trigger = "reconcile")
  /\ UNCHANGED aged

\* enqueueDeploy: the deployment's row, then its job.
EnqueueDeploy(image, trigger) ==
  /\ CreateDeployment(image, trigger)
  /\ queue' = Append(queue, [kind |-> "deploy", id |-> Len(deployments) + 1])

\* The row is written and the write of its job fails, which ends the request or
\* the tick.  A death between the two writes is this and then Crash.
EnqueueLost(image, trigger) ==
  /\ CreateDeployment(image, trigger)
  /\ Spend("database", MaxDbErrors)
  /\ UNCHANGED queue

Waiting == {i \in 1..Len(queue) : i > 1 \/ worker.pc = "idle"}

\* A press of Deploy goes to the oldest waiting build of this image, if no
\* other job of the resource waits behind it.
Folds(image) ==
  \E i \in Waiting :
    /\ queue[i].kind = "deploy"
    /\ deployments[queue[i].id].trigger = "manual" /\ deployments[queue[i].id].image = image
    /\ \A k \in Waiting : k > i => queue[k].kind = "sync"

Serving == process = "up" /\ row.exists

Deploy ==
  /\ Serving
  /\ ~Folds(row.image)
  /\ Spend("asked", MaxAsked)
  /\ EnqueueDeploy(row.image, "manual")
  /\ asked' = "deploy"
  /\ UNCHANGED <<row, containers, route, worker, recon, process, gated>>

Rollback ==
  /\ Serving /\ row.previous # NoImage
  /\ Spend("asked", MaxAsked)
  /\ EnqueueDeploy(row.previous, "rollback")
  /\ asked' = "deploy"
  /\ UNCHANGED <<row, containers, route, worker, recon, process, gated>>

DeployLost ==
  /\ Serving
  /\ \/ ~Folds(row.image) /\ EnqueueLost(row.image, "manual")
     \/ row.previous # NoImage /\ EnqueueLost(row.previous, "rollback")
  /\ UNCHANGED <<row, containers, route, worker, recon, process, gated, asked>>

Stop ==
  /\ Serving
  /\ Spend("chores", MaxChores)
  /\ queue' = Append(queue, [kind |-> "stop", id |-> None])
  /\ asked' = "stop"
  /\ UNCHANGED <<row, deployments, containers, route, worker, recon, cooling, aged, process, gated>>

\* The delete route writes 'stopped' before the job exists.
Remove ==
  /\ Serving
  /\ Spend("chores", MaxChores)
  /\ row' = [row EXCEPT !.desired = "stopped"]
  /\ queue' = Append(queue, [kind |-> "remove", id |-> None])
  /\ asked' = "remove"
  /\ UNCHANGED <<deployments, containers, route, worker, recon, cooling, aged, process, gated>>

SaveSettings_slip ==
  /\ Serving
  /\ Spend("chores", MaxChores)
  /\ \E i \in Image, port \in Ports : row' = [row EXCEPT !.image = i, !.port = port]
  /\ UNCHANGED <<deployments, queue, containers, route, worker, recon, cooling, aged, process,
                 gated, asked>>

\* Saving Settings stores the image and the port and queues a route sync.
SaveSettings ==
  /\ Serving
  /\ Spend("chores", MaxChores)
  /\ \E i \in Image, port \in Ports : row' = [row EXCEPT !.image = i, !.port = port]
  /\ queue' = Append(queue, [kind |-> "sync", id |-> None])
  /\ UNCHANGED <<deployments, containers, route, worker, recon, cooling, aged, process, gated, asked>>

-----------------------------------------------------------------------------
(* The worker.                                                             *)

Take(kind) ==
  /\ process = "up" /\ worker.pc = "idle"
  /\ queue # << >> /\ Head(queue).kind = kind

At(pc) == process = "up" /\ worker.pc = pc
Goto(pc) == worker' = [worker EXCEPT !.pc = pc]
JobEnds == worker' = Idle /\ queue' = Tail(queue)

current == Head(queue).id
Current == deployments[Head(queue).id]

\* A deployment that ends after the reconciler's listing is seen by its plan.
Ends(status) ==
  /\ deployments' = [deployments EXCEPT ![current].status = status]
  /\ aged' = aged \ {current}
  /\ recon' = IF recon.pc = "listed" THEN [recon EXCEPT !.finished = TRUE] ELSE recon

\* A job whose resource is gone: a deploy throws, the others return.
SkipJob ==
  /\ \E kind \in {"deploy", "stop", "remove"} : Take(kind)
  /\ ~row.exists
  /\ queue' = Tail(queue)
  /\ UNCHANGED <<row, deployments, containers, route, worker, recon, cooling, aged, process,
                 spent, gated, asked>>

\* runDeploy reads the row once, before its first await.
TakeDeploy ==
  /\ Take("deploy") /\ row.exists
  /\ worker' = [Idle EXCEPT !.pc = "asked", !.old = row.container, !.previous = row.previous,
                            !.port = row.port]
  /\ UNCHANGED <<row, deployments, queue, containers, route, recon, cooling, aged, process,
                 spent, gated, asked>>

\* currentImageOf: the image of the outgoing container, none when it is gone or
\* the list cannot be read; then the deployment is marked running.
NoteOutgoing ==
  /\ At("asked")
  /\ \/ /\ worker' = [worker EXCEPT !.pc = "running", !.outgoing =
                       IF worker.old \in Present THEN deployments[worker.old].image ELSE NoImage]
        /\ UNCHANGED spent
     \/ /\ worker' = [worker EXCEPT !.pc = "running"]
        /\ Spend("docker", MaxDockerErrors)
  /\ deployments' = [deployments EXCEPT ![current].status = "running"]
  /\ UNCHANGED <<row, queue, containers, route, recon, cooling, aged, process, gated, asked>>

ReclaimStrays_slip ==
  /\ At("running")
  /\ Goto("reclaimed")
  /\ UNCHANGED <<row, deployments, queue, containers, route, recon, cooling, aged, process,
                 spent, gated, asked>>

\* Every container of the resource but the row's goes, best effort.
ReclaimStrays ==
  /\ At("running")
  /\ Goto("reclaimed")
  /\ \/ /\ containers' = [d \in DeployId |-> IF d = worker.old THEN containers[d] ELSE "none"]
        /\ UNCHANGED spent
     \/ Spend("docker", MaxDockerErrors) /\ UNCHANGED containers
  /\ UNCHANGED <<row, deployments, queue, route, recon, cooling, aged, process, gated, asked>>

\* createContainer adopts a container that already has the name.
CreateContainer ==
  /\ At("reclaimed")
  /\ worker' = [worker EXCEPT !.pc = "created", !.new = current]
  /\ IF current \in Present
     THEN UNCHANGED <<containers, gated>>
     ELSE /\ containers' = [containers EXCEPT ![current] = "still"]
          /\ gated' = gated \ {current}
  /\ UNCHANGED <<row, deployments, queue, route, recon, cooling, aged, process, spent, asked>>

StartContainer ==
  /\ At("created") /\ worker.new \in Present
  /\ Goto("started")
  /\ containers' = [containers EXCEPT ![worker.new] = "running"]
  /\ UNCHANGED <<row, deployments, queue, route, recon, cooling, aged, process, spent, gated, asked>>

PassHealthGate ==
  /\ At("started") /\ worker.new \in Live
  /\ Goto("healthy")
  /\ gated' = gated \cup {worker.new}
  /\ UNCHANGED <<row, deployments, queue, containers, route, recon, cooling, aged, process,
                 spent, asked>>

SwitchRoute_slip ==
  /\ At("healthy")
  /\ worker' = [worker EXCEPT !.pc = "switched", !.switching = worker.port]
  /\ UNCHANGED <<row, deployments, queue, containers, route, recon, cooling, aged, process,
                 spent, gated, asked>>

\* With a port the route is switched by name; without, it is deleted and a
\* failure of that is swallowed.
SwitchRoute ==
  /\ At("healthy")
  /\ worker' = [worker EXCEPT !.pc = "switched", !.switching = worker.port]
  /\ \/ route' = (IF worker.port THEN worker.new ELSE None) /\ UNCHANGED spent
     \/ ~worker.port /\ Spend("proxy", MaxProxyErrors) /\ UNCHANGED route
  /\ UNCHANGED <<row, deployments, queue, containers, recon, cooling, aged, process, gated, asked>>

SwitchFails ==
  /\ At("healthy") /\ worker.port
  /\ worker' = [worker EXCEPT !.pc = "threw", !.switching = TRUE]
  /\ Spend("proxy", MaxProxyErrors)
  /\ UNCHANGED <<row, deployments, queue, containers, route, recon, cooling, aged, process,
                 gated, asked>>

RetireOld ==
  /\ At("switched")
  /\ Goto("retired")
  /\ \/ /\ containers' = IF worker.old \in DeployId \ {worker.new}
                         THEN [containers EXCEPT ![worker.old] = "none"] ELSE containers
        /\ UNCHANGED spent
     \/ Spend("docker", MaxDockerErrors) /\ UNCHANGED containers
  /\ UNCHANGED <<row, deployments, queue, route, recon, cooling, aged, process, gated, asked>>

\* The previous image is only replaced by a different one that was running.
RecordSuccess ==
  /\ At("retired")
  /\ row' = [row EXCEPT !.container = worker.new, !.desired = "running",
                        !.image = Current.image,
                        !.previous = IF worker.outgoing \notin {NoImage, Current.image}
                                     THEN worker.outgoing ELSE worker.previous]
  /\ Ends("succeeded")
  /\ JobEnds
  /\ UNCHANGED <<containers, route, cooling, process, spent, gated, asked>>

\* The network, the image, the create, the start or the health gate fails; a
\* container that is gone cannot be started or pass.
DeployThrows ==
  /\ \E pc \in {"running", "reclaimed", "created", "started"} : At(pc)
  /\ Goto("threw")
  /\ \/ Spend("failures", MaxFailures)
     \/ At("created") /\ worker.new \notin Present /\ UNCHANGED spent
     \/ At("started") /\ worker.new \notin Live /\ UNCHANGED spent
  /\ UNCHANGED <<row, deployments, queue, containers, route, recon, cooling, aged, process,
                 gated, asked>>

CleanUp_slip ==
  /\ At("threw")
  /\ Goto("cleaned")
  /\ UNCHANGED <<row, deployments, queue, containers, route, recon, cooling, aged, process,
                 spent, gated, asked>>

\* Before the route switch the new container goes; after, it is healthy and kept.
CleanUp ==
  /\ At("threw")
  /\ Goto("cleaned")
  /\ \/ /\ containers' = IF worker.new # None /\ ~worker.switching
                         THEN [containers EXCEPT ![worker.new] = "none"] ELSE containers
        /\ UNCHANGED spent
     \/ Spend("docker", MaxDockerErrors) /\ UNCHANGED containers
  /\ UNCHANGED <<row, deployments, queue, route, recon, cooling, aged, process, gated, asked>>

MarkFailed ==
  /\ At("cleaned")
  /\ Ends("failed")
  /\ JobEnds
  /\ UNCHANGED <<row, containers, route, cooling, process, spent, gated, asked>>

Deploying ==
  \/ TakeDeploy \/ NoteOutgoing \/ ReclaimStrays \/ CreateContainer \/ StartContainer
  \/ PassHealthGate \/ SwitchRoute \/ SwitchFails \/ RetireOld \/ RecordSuccess
  \/ DeployThrows \/ CleanUp \/ MarkFailed

-----------------------------------------------------------------------------
(* The worker's other jobs.                                                *)

\* Deletes the route, on the way from one pc to another; a failure is logged.
DeleteRoute(from, to) ==
  /\ At(from)
  /\ Goto(to)
  /\ \/ route' = None /\ UNCHANGED spent
     \/ Spend("proxy", MaxProxyErrors) /\ UNCHANGED route
  /\ UNCHANGED <<row, deployments, queue, containers, recon, cooling, aged, process, gated, asked>>

TakeStop ==
  /\ Take("stop") /\ row.exists
  /\ worker' = [Idle EXCEPT !.pc = "stopping", !.old = row.container]
  /\ UNCHANGED <<row, deployments, queue, containers, route, recon, cooling, aged, process,
                 spent, gated, asked>>

StopContainer ==
  /\ At("stopping")
  /\ Goto("stopped")
  /\ \/ /\ containers' = IF worker.old \in Present
                         THEN [containers EXCEPT ![worker.old] = "still"] ELSE containers
        /\ UNCHANGED spent
     \/ Spend("docker", MaxDockerErrors) /\ UNCHANGED containers
  /\ UNCHANGED <<row, deployments, queue, route, recon, cooling, aged, process, gated, asked>>

StopRoute == DeleteRoute("stopped", "unrouted")

RecordStop ==
  /\ At("unrouted")
  /\ row' = [row EXCEPT !.desired = "stopped"]
  /\ JobEnds
  /\ UNCHANGED <<deployments, containers, route, recon, cooling, aged, process, spent, gated, asked>>

TakeRemove ==
  /\ Take("remove") /\ row.exists
  /\ row' = [row EXCEPT !.desired = "stopped"]
  /\ worker' = [Idle EXCEPT !.pc = "removing", !.old = row.container]
  /\ UNCHANGED <<deployments, queue, containers, route, recon, cooling, aged, process,
                 spent, gated, asked>>

RemoveContainer ==
  /\ At("removing")
  /\ Goto("removed")
  /\ \/ /\ containers' = IF worker.old \in DeployId
                         THEN [containers EXCEPT ![worker.old] = "none"] ELSE containers
        /\ UNCHANGED spent
     \/ Spend("docker", MaxDockerErrors) /\ UNCHANGED containers
  /\ UNCHANGED <<row, deployments, queue, route, recon, cooling, aged, process, gated, asked>>

RemoveStrays_slip ==
  /\ At("removed")
  /\ Goto("emptied")
  /\ UNCHANGED <<row, deployments, queue, containers, route, recon, cooling, aged, process,
                 spent, gated, asked>>

\* Whatever else carries the resource's label: failed deploys.
RemoveStrays ==
  /\ At("removed")
  /\ Goto("emptied")
  /\ \/ containers' = [d \in DeployId |-> "none"] /\ UNCHANGED spent
     \/ Spend("docker", MaxDockerErrors) /\ UNCHANGED containers
  /\ UNCHANGED <<row, deployments, queue, route, recon, cooling, aged, process, gated, asked>>

RemoveRoute == DeleteRoute("emptied", "released")

DeleteRow ==
  /\ At("released")
  /\ row' = [row EXCEPT !.exists = FALSE]
  /\ JobEnds
  /\ UNCHANGED <<deployments, containers, route, recon, cooling, aged, process, spent, gated, asked>>

\* wantedRoutes: a route for a resource desired running that has a port and a host.
Wanted == row.exists /\ row.desired = "running" /\ row.port

LookAtRoutes ==
  /\ Take("sync")
  /\ worker' = [Idle EXCEPT !.pc = IF Wanted THEN "rerouting" ELSE "unrouting",
                            !.old = row.container]
  /\ UNCHANGED <<row, deployments, queue, containers, route, recon, cooling, aged, process,
                 spent, gated, asked>>

\* currentUpstream: the row's container when it runs, else what the route has.
SyncRoute ==
  /\ At("rerouting")
  /\ JobEnds
  /\ \/ route' = (IF worker.old \in Live THEN worker.old ELSE route) /\ UNCHANGED spent
     \/ Spend("proxy", MaxProxyErrors) /\ UNCHANGED route
  /\ UNCHANGED <<row, deployments, containers, recon, cooling, aged, process, gated, asked>>

SweepStaleRoute ==
  /\ At("unrouting")
  /\ JobEnds
  /\ \/ route' = None /\ UNCHANGED spent
     \/ Spend("proxy", MaxProxyErrors) /\ UNCHANGED route
  /\ UNCHANGED <<row, deployments, containers, recon, cooling, aged, process, gated, asked>>

Stopping == TakeStop \/ StopContainer \/ StopRoute \/ RecordStop
Removing == TakeRemove \/ RemoveContainer \/ RemoveStrays \/ RemoveRoute \/ DeleteRow
Syncing == LookAtRoutes \/ SyncRoute \/ SweepStaleRoute

-----------------------------------------------------------------------------
(* The reconciler: one tick at a time, interleaved with the worker.        *)

Ticking(pc) == process \in {"up", "boot"} /\ recon.pc = pc

Listing == [Resting EXCEPT !.pc = "listed", !.present = Present, !.live = Live]

ListContainers ==
  /\ process = "up" /\ recon.pc = "idle"
  /\ recon' = Listing
  /\ UNCHANGED <<row, deployments, queue, containers, route, worker, cooling, aged, process,
                 spent, gated, asked>>

InFlight == {d \in DOMAIN deployments : deployments[d].status \in {"queued", "running"}}

\* redeployPlan: a deployment in flight and less than an hour old, one finished
\* since the listing and the backoff of the streak all mean "wait".
MayRedeploy_slip1 == ~cooling /\ InFlight \subseteq aged
MayRedeploy_slip2 == ~recon.finished /\ ~cooling /\ InFlight = {}

MayRedeploy == ~recon.finished /\ ~cooling /\ InFlight \subseteq aged

Watched == row.exists /\ row.desired = "running"

\* The running container a listing names first: Docker's newest.
Newest(S) == IF S = {} THEN None ELSE CHOOSE d \in S : \A e \in S : e <= d

Planned == [recon EXCEPT !.pc = "planned", !.seen = row.container,
                         !.chosen = IF Watched THEN Newest(recon.live) ELSE None]

MissesContainer == Watched /\ recon.live = {} /\ MayRedeploy

PlanRedeploy ==
  /\ Ticking("listed")
  /\ recon' = Planned
  /\ IF MissesContainer
     THEN EnqueueDeploy(row.image, "reconcile")
     ELSE UNCHANGED <<deployments, queue, cooling, aged>>
  /\ UNCHANGED <<row, containers, route, worker, process, spent, gated, asked>>

PlanLost ==
  /\ Ticking("listed")
  /\ MissesContainer
  /\ EnqueueLost(row.image, "reconcile")
  /\ recon' = Resting
  /\ UNCHANGED <<row, containers, route, worker, process, gated, asked>>

SweepOrphans_slip ==
  /\ Ticking("planned")
  /\ recon' = IF recon.chosen = None THEN Resting ELSE [recon EXCEPT !.pc = "swept"]
  /\ UNCHANGED <<row, deployments, queue, containers, route, worker, cooling, aged, process,
                 spent, gated, asked>>

\* Listed containers whose row is gone by now are removed.
SweepOrphans ==
  /\ Ticking("planned")
  /\ recon' = IF recon.chosen = None THEN Resting ELSE [recon EXCEPT !.pc = "swept"]
  /\ \/ /\ containers' = [d \in DeployId |->
                           IF ~row.exists /\ d \in recon.present THEN "none" ELSE containers[d]]
        /\ UNCHANGED spent
     \/ ~row.exists /\ Spend("docker", MaxDockerErrors) /\ UNCHANGED containers
  /\ UNCHANGED <<row, deployments, queue, route, worker, cooling, aged, process, gated, asked>>

\* A container that cannot be inspected is passed over.
InspectChosen ==
  /\ Ticking("swept")
  /\ \/ /\ recon' = IF recon.chosen \in Present THEN [recon EXCEPT !.pc = "inspected"] ELSE Resting
        /\ UNCHANGED spent
     \/ Spend("docker", MaxDockerErrors) /\ recon' = Resting
  /\ UNCHANGED <<row, deployments, queue, containers, route, worker, cooling, aged, process,
                 gated, asked>>

\* The row follows the running container the listing showed.
Repoint ==
  /\ Ticking("inspected")
  /\ row' = IF row.exists /\ recon.seen # recon.chosen
            THEN [row EXCEPT !.container = recon.chosen] ELSE row
  /\ recon' = Resting
  /\ UNCHANGED <<deployments, queue, containers, route, worker, cooling, aged, process,
                 spent, gated, asked>>

\* The deployments in flight that are an hour old are the oldest of them; no
\* backoff is as long.
HourPasses ==
  /\ \E d \in InFlight \ aged :
       LET old == {e \in InFlight : e <= d}
           jobs == {queue[i].id : i \in DOMAIN queue} IN
       /\ aged' = old
       /\ cooling' = (cooling /\ d # Len(deployments))
       /\ IF (old \ aged) \cap jobs = {} THEN UNCHANGED spent ELSE Spend("hours", MaxHours)
  /\ UNCHANGED <<row, deployments, queue, containers, route, worker, recon, process,
                 gated, asked>>

BackoffPasses ==
  /\ cooling /\ cooling' = FALSE
  /\ UNCHANGED <<row, deployments, queue, containers, route, worker, recon, aged, process,
                 spent, gated, asked>>

Reconciling == ListContainers \/ PlanRedeploy \/ SweepOrphans \/ InspectChosen \/ Repoint

-----------------------------------------------------------------------------
(* The process, and the world outside.                                     *)

Crash ==
  /\ process # "down" /\ process' = "down"
  /\ Spend("crashes", MaxCrashes)
  /\ worker' = Idle /\ recon' = Resting
  /\ UNCHANGED <<row, deployments, queue, containers, route, cooling, aged, gated, asked>>

\* index.ts: one tick before serving, skipped when Docker cannot be reached.
Boot ==
  /\ process = "down"
  /\ \/ process' = "boot" /\ recon' = Listing /\ UNCHANGED spent
     \/ process' = "up" /\ Spend("docker", MaxDockerErrors) /\ UNCHANGED recon
  /\ UNCHANGED <<row, deployments, queue, containers, route, worker, cooling, aged, gated, asked>>

Serve ==
  /\ process = "boot" /\ recon.pc = "idle"
  /\ process' = "up"
  /\ UNCHANGED <<row, deployments, queue, containers, route, worker, recon, cooling, aged,
                 spent, gated, asked>>

RemovedByHand ==
  /\ \E d \in Present : containers' = [containers EXCEPT ![d] = "none"]
  /\ Spend("byHand", MaxByHand)
  /\ UNCHANGED <<row, deployments, queue, route, worker, recon, cooling, aged, process, gated, asked>>

Request == Deploy \/ Rollback \/ DeployLost \/ Stop \/ Remove \/ SaveSettings
Work == SkipJob \/ Deploying \/ Stopping \/ Removing \/ Syncing

Next == Request \/ Work \/ Reconciling \/ PlanLost \/ HourPasses \/ BackoffPasses
        \/ Crash \/ Boot \/ Serve \/ RemovedByHand

Spec == Init /\ [][Next]_vars

\* Every await of a handler has a deadline, the tick comes every 30 s, hours
\* pass, the backoff has an end, and systemd starts the process again.
Fairness == WF_vars(Work) /\ WF_vars(Reconciling) /\ WF_vars(HourPasses)
            /\ WF_vars(BackoffPasses) /\ WF_vars(Boot) /\ WF_vars(Serve)

FairSpec == Spec /\ Fairness
-----------------------------------------------------------------------------
(* Properties.                                                             *)

Quiet == process = "up" /\ queue = << >> /\ recon.pc = "idle"

\* None of these has gone wrong so far.
Without(budgets) == \A b \in budgets : spent[b] = 0

\* A route only ever dials a container that passed the health gate: deploys
\* switch after it, and a sync dials what the row names (deploy.ts 8a,
\* routes.ts currentUpstream), while the reconciler repoints the row.
RouteGated == Without({"crashes", "docker"}) /\ route # None => route \in gated

\* Once the queue is empty the proxy routes the resource only if the row wants
\* a route: a port cleared in Settings, a stop or a removal takes it away even
\* when a deploy that read the row before was under way (syncResourceRoutes).
RouteIsWanted ==
  (/\ Quiet /\ Without({"proxy"})
   /\ Without({"crashes"}) \/ Without({"failures", "byHand"}))
    => (route # None => Wanted)

\* However deploys fail, crash and are run again, a resource never has more
\* than two containers: the one the row names and the one being tried
\* (reclaimStrays, and the clean-up of a failed deploy).
AtMostTwo == TypeOK /\ (Without({"docker"}) => Cardinality(Present) <= 2)

\* No step of a deploy takes away the running container the route dials:
\* runDeploy moves the route first, whatever the requests do and whichever
\* deploys fail.  Not so after a crash or a failed call, nor when the tick had
\* pointed the row at a container that has gone since (reconciler.ts 175).
ServingKept ==
  [][(/\ Deploying /\ Without({"crashes", "proxy", "docker"})
      /\ worker.old \in Present \cup {None} /\ route \in Live)
       => containers'[route] = "running"]_vars

\* The old container is never stopped while traffic points at it (deploy.ts,
\* retireOld).
\* Refuted: README, section 3.
ServingAlwaysKept ==
  [][Deploying /\ route \in Live => containers'[route] = "running"]_vars

HealQueued ==
  /\ Len(deployments') > Len(deployments)
  /\ deployments'[Len(deployments')].trigger = "reconcile"

\* A tick queues a redeploy only when no container of the resource is running
\* at that moment, however stale its listing is (redeployPlan's listedAt), but
\* that of a deploy still under way after an hour, which redeployPlan no longer
\* trusts to have a job.
HealIsNeeded == [][HealQueued => Live \subseteq aged]_vars

\* Once a deleted resource's row is gone nothing of it is left to find: no
\* container, kept, crashed or stray, and no route (runRemove), unless a call
\* to Docker or the proxy failed.
RemovedMeansGone ==
  ~row.exists /\ Without({"docker", "proxy"}) => Present = {} /\ route = None

\* With Docker failing calls of the removal, the reconciler still removes every
\* container whose row is gone, and no job brings one back (reconcileOnce, 4).
OrphansSwept == ~row.exists ~> [](Present = {})

\* A resource desired running gets a running container back: after `docker rm
\* -f`, a failed deploy, a crash half way, and a listing gone stale
\* (reconcileOnce, 3).
SelfHeals == (Watched /\ Live = {}) ~> (~Watched \/ Live # {})

\* A Stop asked for last leaves the resource desired stopped: app.ts writes it
\* first on a delete so the reconciler does not redeploy what the user deleted.
StopIsFinal == Quiet /\ asked = "stop" => row.desired = "stopped"

\* A container kept after its route switch failed is healthy but unrouted; the
\* row is never pointed at it, nor at any other container of a failed deploy
\* (deploy.ts 9: the reconciler "leaves it alone").
\* Refuted: README, section 3.
KeptIsLeftAlone ==
  row.container # None => deployments[row.container].status # "failed"
=============================================================================
