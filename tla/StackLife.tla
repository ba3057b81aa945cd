------------------------------- MODULE StackLife -------------------------------
(***************************************************************************)
(* The life of one Compose stack: deploy, rollback, stop, delete and the    *)
(* removal of a kept volume (jobs/index.ts, jobs/deploy-compose.ts), the    *)
(* Compose command line they drive (docker/compose.ts), the reconciler's    *)
(* pass over it, services that restart or die, and crashes of musdash with  *)
(* the sweeps of the next boot.                                             *)
(*                                                                          *)
(* A file is the set of its services.  Jobs run one at a time, each Docker   *)
(* call a step.  Routes are StackRoutes'.                                    *)
(***************************************************************************)
EXTENDS StackPlan

CONSTANTS
  OneShots, \* services the file does not restart
  Routed,   \* services with a domain
  Files,    \* files, each the set of its services
  MaxEdits, \* bound: forms sent
  MaxFaults \* bound: failing calls, restarts and deaths of services, crashes,
            \* deploys an hour old

ASSUME LifeNames == OneShots \subseteq Service /\ Routed \subseteq Service /\ OneShots \cap Routed = {}
ASSUME LifeFiles == Files \subseteq (SUBSET Service) \ {{}} /\ Files # {}
ASSUME LifeBounds == MaxEdits \in Nat /\ MaxFaults \in Nat

VARIABLES
  row,        \* the resource: exists, desired, deployed file, container's service
  draft,      \* the file Settings holds
  succeeded, finished, \* files of its successful deployments, oldest first, and of all that ended
  containers, volumes, network, \* what Docker has of it
  queue, worker, \* jobs, the worker's first; where its handler is
  tmp,        \* the deploy's temporary directory is on disk
  tick,       \* a reconciler tick under way: what it listed
  asked,      \* what no code records: files deployed by hand, volume choices
  crashed,    \* what no code records: services that restarted since `up`
  edits, faults

vars == <<row, draft, succeeded, finished, containers, volumes, network, queue, worker, tmp, tick,
          asked, crashed, edits, faults>>
past == <<succeeded, finished>>
docker == <<containers, volumes, network>>
bounds == <<edits, faults>>

\* Own volumes follow every rule of select.ts; a foreign one carries this
\* resource's id but fails its name or label rules.
Volume == {"own", "foreign"}
MaxTries == 3
MaxRestarts == 2
None == [state |-> "none", restarts |-> 0]
NoTick == [on |-> FALSE, down |-> {}, finished |-> FALSE]
Idle == [pc |-> "idle", base |-> [s \in Service |-> 0], todo |-> {}, good |-> FALSE, blind |-> FALSE]
\* `aged`: a deploy whose deployment is an hour old.
Job(kind, file, ticked) == [kind |-> kind, file |-> file, ticked |-> ticked, tries |-> 1, by |-> "hand",
                            aged |-> FALSE]

TypeOK ==
  /\ row \in [exists : BOOLEAN, desired : {"running", "stopped"}, current : SUBSET Service,
              container : Service \cup {NoService}]
  /\ draft \in Files /\ succeeded \in Seq(Files) /\ finished \subseteq Files
  /\ containers \in [Service -> [state : State, restarts : 0..MaxRestarts]]
  /\ volumes \subseteq Volume /\ network \in BOOLEAN
  /\ queue \in Seq([kind : {"deploy", "stop", "remove", "volume"}, file : SUBSET Service,
                    ticked : BOOLEAN, tries : 1..MaxTries, by : {"hand", "again", "heal"},
                    aged : BOOLEAN])
  /\ worker \in [pc : {"idle", "off", "config", "up", "gate", "poll", "down",
                       "volumes", "forget"},
                 base : [Service -> 0..MaxRestarts], todo : SUBSET Service, good : BOOLEAN,
                 blind : BOOLEAN]
  /\ tmp \in BOOLEAN /\ tick \in [on : BOOLEAN, down : SUBSET Service, finished : BOOLEAN]
  /\ asked \in [files : SUBSET Files, ticked : BOOLEAN, kept : BOOLEAN, forgot : BOOLEAN]
  /\ crashed \subseteq Service /\ edits \in 0..MaxEdits /\ faults \in 0..MaxFaults

\* Just created, or deployed twice and stopped.
Init ==
  /\ \E f, g \in Files, old \in BOOLEAN :
       /\ old \/ f = g
       /\ succeeded = IF old THEN <<f, g>> ELSE << >>
       /\ draft = g
       /\ row = [exists |-> TRUE, desired |-> "stopped", current |-> IF old THEN g ELSE {},
                container |-> NoService]
       /\ containers = [s \in Service |-> IF old /\ s \in g
                                         THEN [state |-> "failed", restarts |-> 0] ELSE None]
       /\ volumes = IF old THEN Volume ELSE {"foreign"}
       /\ network = old
       /\ finished = IF old THEN {f, g} ELSE {}
       /\ asked = [files |-> finished, ticked |-> FALSE, kept |-> FALSE, forgot |-> FALSE]
  /\ queue = << >> /\ worker = Idle /\ tmp = FALSE /\ tick = NoTick
  /\ crashed = {} /\ edits = 0 /\ faults = 0

Fault == faults < MaxFaults /\ faults' = faults + 1
Edit == edits < MaxEdits /\ edits' = edits + 1
At(pc) == worker.pc = pc
Working == worker.pc \notin {"idle", "off"}
Running == {s \in Service : containers[s].state = "running"}
Existing == {s \in Service : containers[s].state # "none"}

-----------------------------------------------------------------------------
(* The forms.                                                              *)

\* The file of the newest successful deployment older than the current one and
\* of another file, if any.
RollbackFiles ==
  LET others == {i \in DOMAIN succeeded : succeeded[i] # row.current}
  IN IF row.current = {} \/ others = {} THEN {}
     ELSE {succeeded[CHOOSE i \in others : \A j \in others : j <= i]}

Ask(job) == queue' = Append(queue, job) /\ asked' = [asked EXCEPT !.files = @ \cup {job.file}]
Waiting == {i \in DOMAIN queue : i > 1 \/ ~Working}

\* A press goes to a waiting deploy of the same file nothing else waits behind.
Deploy ==
  /\ Edit /\ row.exists
  /\ ~\E i \in Waiting : /\ queue[i].kind = "deploy" /\ queue[i].file = draft /\ queue[i].by # "again"
                         /\ \A k \in Waiting : k <= i
  /\ Ask(Job("deploy", draft, FALSE))
  /\ UNCHANGED <<row, draft, past, docker, worker, tmp, tick, crashed, faults>>

Rollback ==
  /\ Edit /\ row.exists
  /\ \E f \in RollbackFiles : Ask(Job("deploy", f, FALSE))
  /\ UNCHANGED <<row, draft, past, docker, worker, tmp, tick, crashed, faults>>

Redeploy ==
  /\ Edit /\ row.exists
  /\ \E f \in finished : Ask([Job("deploy", f, FALSE) EXCEPT !.by = "again"])
  /\ UNCHANGED <<row, draft, past, docker, worker, tmp, tick, crashed, faults>>

SaveSettings ==
  /\ Edit /\ row.exists
  /\ draft' \in Files \ {draft}
  /\ UNCHANGED <<row, past, docker, queue, worker, tmp, tick, asked, crashed, faults>>

Stop ==
  /\ Edit /\ row.exists
  /\ queue' = Append(queue, Job("stop", {}, FALSE))
  /\ UNCHANGED <<row, draft, past, docker, worker, tmp, tick, asked, crashed, faults>>

\* The row is stopped at once, so the reconciler does not bring back what a
\* delete that fails leaves.
Delete ==
  /\ Edit /\ row.exists
  /\ \E ticked \in BOOLEAN :
       /\ queue' = Append(queue, Job("remove", {}, ticked))
       /\ asked' = [asked EXCEPT !.ticked = @ \/ ticked]
  /\ row' = [row EXCEPT !.desired = "stopped"]
  /\ UNCHANGED <<draft, past, docker, worker, tmp, tick, crashed, faults>>

\* Offered for a volume named like a stack's whose resource is gone.
RemoveKeptVolume ==
  /\ Edit /\ ~row.exists
  /\ queue' = Append(queue, Job("volume", {}, FALSE))
  /\ asked' = [asked EXCEPT !.kept = TRUE]
  /\ UNCHANGED <<row, draft, past, docker, worker, tmp, tick, crashed, faults>>

-----------------------------------------------------------------------------
(* The worker: how a job ends.                                             *)

Take(kind) == At("idle") /\ queue # << >> /\ Head(queue).kind = kind
Ended == worker' = Idle /\ queue' = Tail(queue)

Retry(max) ==
  IF Head(queue).kind # "deploy" /\ Head(queue).tries < max
  THEN << [Head(queue) EXCEPT !.tries = @ + 1] >> \o Tail(queue)
  ELSE Tail(queue)

Throws_slip == worker' = Idle /\ queue' = Retry(MaxTries + 1)

\* A job other than a deploy is tried again, after a pause.
Throws == worker' = Idle /\ queue' = Retry(MaxTries)

\* While a job pauses, the next one is taken.
PassOver ==
  /\ At("idle")
  /\ \E i \in 2..Len(queue) :
       /\ \A k \in 1..(i - 1) : queue[k].tries > 1
       /\ queue' = << queue[i] >> \o SubSeq(queue, 1, i - 1) \o SubSeq(queue, i + 1, Len(queue))
  /\ UNCHANGED <<row, draft, past, docker, worker, tmp, tick, asked, crashed, bounds>>

\* A deployment that ends is newer than what a tick under way listed.
DeployEnds ==
  /\ Ended /\ tmp' = FALSE
  /\ finished' = finished \cup {Head(queue).file}
  /\ tick' = [tick EXCEPT !.finished = tick.on]

\* A job whose resource is gone: nothing to do, or for a deploy an error.
NoRow ==
  /\ At("idle") /\ queue # << >> /\ ~row.exists /\ Head(queue).kind # "volume"
  /\ Ended
  /\ UNCHANGED <<row, draft, past, docker, tmp, tick, asked, crashed, bounds>>

-----------------------------------------------------------------------------
(* The deploy.                                                             *)

\* Steps 1 to 4: running, and the temporary directory the file is written to.
Begin ==
  /\ Take("deploy") /\ row.exists
  /\ worker' = [Idle EXCEPT !.pc = "config"] /\ tmp' = TRUE
  /\ UNCHANGED <<row, draft, past, docker, queue, tick, asked, crashed, bounds>>

\* Compose's model is accepted, and the restart counts are read; the list or an
\* inspect may fail, which reads as 0.
Snapshot ==
  /\ At("config")
  /\ \E unread \in SUBSET Existing :
       /\ IF unread = {} THEN UNCHANGED faults ELSE Fault
       /\ worker' = [worker EXCEPT !.pc = "up",
            !.base = [s \in Service |-> IF s \in unread THEN 0 ELSE containers[s].restarts]]
  /\ UNCHANGED <<row, draft, past, docker, queue, tmp, tick, asked, crashed, edits>>

\* Compose brings some of the services to the file: one it leaves untouched
\* keeps its container; others are recreated, and those not in the file go.
Recreate(touched, kept) ==
  /\ containers' = [s \in Service |->
       IF s \notin touched THEN containers[s]
       ELSE IF s \notin Head(queue).file THEN None
       ELSE IF s \in kept /\ containers[s].state = "running" THEN containers[s]
       ELSE [state |-> "running", restarts |-> 0]]
  /\ network' = TRUE
  /\ volumes' = volumes \cup {"own"}

Up ==
  /\ At("up")
  /\ \E kept \in SUBSET Running :
       /\ Recreate(Service, kept)
       /\ worker' = [worker EXCEPT !.pc = "gate", !.todo = Routed \cap Head(queue).file,
            \* a baseline counts for the container it was read from
            !.base = [s \in Service |-> IF s \in kept THEN worker.base[s] ELSE 0]]
  /\ tmp' = FALSE /\ crashed' = {}
  /\ UNCHANGED <<row, draft, past, queue, tick, asked, bounds>>

UpFails ==
  /\ At("up") /\ Fault
  /\ \E touched \in SUBSET Service : Recreate(touched, {})
  /\ DeployEnds
  /\ UNCHANGED <<row, draft, succeeded, asked, crashed, edits>>

Restarts(s) == IF containers[s].restarts > worker.base[s]
               THEN containers[s].restarts - worker.base[s] ELSE 0

\* A routed service passes the image deploy's gate: up, and not restarted.
GateRouted ==
  /\ At("gate") /\ worker.todo # {}
  /\ \E s \in worker.todo :
       /\ s \in Running /\ Restarts(s) = 0
       /\ worker' = [worker EXCEPT !.todo = @ \ {s}]
  /\ UNCHANGED <<row, draft, past, docker, queue, tmp, tick, asked, crashed, bounds>>

Others == Head(queue).file \ Routed

GateOthers ==
  /\ At("gate") /\ worker.todo = {}
  /\ worker' = [worker EXCEPT !.pc = "poll"]
  /\ UNCHANGED <<row, draft, past, docker, queue, tmp, tick, asked, crashed, bounds>>

Verdict_slip(s, blind) == ServiceVerdict(containers[s].state, 0, IF s \in OneShots THEN "no" ELSE "always")
Verdict(s, blind) ==
  ServiceVerdict(containers[s].state, IF s \in blind THEN 0 ELSE Restarts(s),
                 IF s \in OneShots THEN "no" ELSE "always")

\* Success: the row points at this deployment and at the primary service's
\* container, and should run.
RecordSuccess ==
  /\ row' = [row EXCEPT !.desired = "running", !.current = Head(queue).file,
                        !.container = CHOOSE s \in PrimaryService(NoService, Head(queue).file) : TRUE]
  /\ succeeded' = Append(succeeded, Head(queue).file)
  /\ DeployEnds

\* One poll of the other services: a bad one fails the deploy, all good twice
\* with no other poll between passes it.  A service that cannot be inspected
\* counts no restarts.
Poll ==
  /\ At("poll")
  /\ \E blind \in SUBSET Existing :
       /\ IF blind = {} THEN UNCHANGED faults ELSE Fault
       /\ LET verdicts == {Verdict(s, blind) : s \in Others}
              unseen == worker.blind \/ blind # {}
          IN \/ /\ "bad" \in verdicts
                /\ DeployEnds /\ UNCHANGED <<row, succeeded>>
             \/ /\ verdicts \subseteq {"good"} /\ worker.good
                /\ RecordSuccess
             \/ /\ "bad" \notin verdicts /\ ~(verdicts \subseteq {"good"} /\ worker.good)
                /\ worker' = [worker EXCEPT !.good = verdicts \subseteq {"good"}, !.blind = unseen]
                /\ UNCHANGED <<row, past, queue, tmp, tick>>
  /\ UNCHANGED <<draft, docker, asked, crashed, edits>>

\* Any step fails it, and so does the gate's deadline: nothing is taken down,
\* the directory goes.
DeployFails ==
  /\ \/ worker.pc \in {"config", "up"} /\ Fault
     \/ worker.pc \in {"gate", "poll"} /\ UNCHANGED faults
  /\ DeployEnds
  /\ UNCHANGED <<row, draft, succeeded, docker, asked, crashed, edits>>

-----------------------------------------------------------------------------
(* Stop and remove.                                                        *)

\* Whether some of the containers are left; a list that fails says so.
StackRemains(left, listFails) == left # {} \/ listFails

StopStack ==
  /\ Take("stop") /\ row.exists
  /\ \E left \in SUBSET Running, exit \in {"done", "failed"}, error, listFails \in BOOLEAN :
       /\ left # {} => error
       /\ IF error \/ listFails THEN Fault ELSE UNCHANGED faults
       /\ containers' = [s \in Service |-> IF s \in Running \ left
                                           THEN [containers[s] EXCEPT !.state = exit]
                                           ELSE containers[s]]
       /\ IF error /\ StackRemains(left, listFails)
          THEN Throws /\ UNCHANGED row
          ELSE Ended /\ row' = [row EXCEPT !.desired = "stopped"]
  /\ UNCHANGED <<draft, past, volumes, network, tmp, tick, asked, crashed, edits>>

\* `down` that fails after all must leave no container to be taken for done;
\* only the network may then stay.
ComposeDown_slip ==
  /\ Take("remove") /\ row.exists
  /\ row' = [row EXCEPT !.desired = "stopped"]
  /\ \E left \in SUBSET Existing, error, listFails \in BOOLEAN :
       /\ left # {} => error
       /\ IF error \/ listFails THEN Fault ELSE UNCHANGED faults
       /\ containers' = [s \in Service |-> IF s \in left THEN containers[s] ELSE None]
       /\ network' = (network /\ error)
       /\ worker' = [Idle EXCEPT !.pc = "volumes"] /\ UNCHANGED queue
  /\ UNCHANGED <<draft, past, volumes, tmp, tick, asked, crashed, edits>>

ComposeDown ==
  /\ Take("remove") /\ row.exists
  /\ row' = [row EXCEPT !.desired = "stopped"]
  /\ \E left \in SUBSET Existing, error, listFails \in BOOLEAN :
       /\ left # {} => error
       /\ IF error \/ listFails THEN Fault ELSE UNCHANGED faults
       /\ containers' = [s \in Service |-> IF s \in left THEN containers[s] ELSE None]
       /\ network' = (network /\ error)
       /\ IF error /\ StackRemains(left, listFails)
          THEN Throws
          ELSE worker' = [Idle EXCEPT !.pc = "volumes"] /\ UNCHANGED queue
  /\ UNCHANGED <<draft, past, volumes, tmp, tick, asked, crashed, edits>>

StackVolumesToRemove_slip(list) == list
\* The volumes of this stack among those that carry its id.
StackVolumesToRemove(list) == list \cap {"own"}

\* Only when the box was ticked, after the containers.
RemoveStackVolumes ==
  /\ At("volumes")
  /\ \/ /\ volumes' = IF Head(queue).ticked THEN volumes \ StackVolumesToRemove(volumes) ELSE volumes
        /\ worker' = [Idle EXCEPT !.pc = "forget"]
        /\ UNCHANGED <<queue, faults>>
     \/ /\ Head(queue).ticked /\ Fault /\ Throws /\ UNCHANGED volumes
  /\ UNCHANGED <<row, draft, past, containers, network, tmp, tick, asked, crashed, edits>>

\* The row goes last.
ForgetRow ==
  /\ At("forget")
  /\ row' = [row EXCEPT !.exists = FALSE]
  /\ asked' = [asked EXCEPT !.forgot = Head(queue).ticked]
  /\ Ended
  /\ UNCHANGED <<draft, past, docker, tmp, tick, crashed, bounds>>

\* The volume must still be a stack's, by the labels of now, and its resource
\* gone.
RemoveVolume ==
  /\ Take("volume")
  /\ \/ /\ volumes' = IF row.exists THEN volumes ELSE volumes \ StackVolumesToRemove(volumes)
        /\ IF volumes' = volumes /\ volumes # {} THEN Throws ELSE Ended
        /\ UNCHANGED faults
     \/ Fault /\ Throws /\ UNCHANGED volumes
  /\ UNCHANGED <<row, draft, past, containers, network, tmp, tick, asked, crashed, edits>>

-----------------------------------------------------------------------------
(* The reconciler's pass over the stack.                                   *)

TickLists ==
  /\ ~tick.on /\ ~At("off")
  /\ tick' = [on |-> TRUE, finished |-> FALSE,
              down |-> StackServicesDown(row.current, [s \in Service |-> containers[s].state])]
  /\ UNCHANGED <<row, draft, past, docker, queue, worker, tmp, asked, crashed, bounds>>

YoungDeploy == \E i \in DOMAIN queue : queue[i].kind = "deploy" /\ ~queue[i].aged

InFlight_slip == YoungDeploy
\* A deploy queued or running whose deployment is not an hour old, or one that
\* ended since the list was taken.
InFlight == tick.finished \/ YoungDeploy

\* After the await of the trusted subnets the rows are read, and everything up
\* to the network sweep is one step.  The backoff may make it wait.
TickHeals ==
  /\ tick.on /\ row.exists /\ row.desired = "running" /\ tick.down # {} /\ ~InFlight
  /\ queue' = Append(queue, [Job("deploy", row.current, FALSE) EXCEPT !.by = "heal"])
  /\ tick' = NoTick
  /\ UNCHANGED <<row, draft, past, docker, worker, tmp, asked, crashed, bounds>>

\* Nothing is down: the row follows the primary service's container.  A stack
\* network whose row is gone is removed.
TickEnds ==
  /\ tick.on /\ tick' = NoTick
  /\ network' = (network /\ row.exists)
  /\ row' = IF row.exists /\ row.desired = "running" /\ tick.down = {}
            THEN [row EXCEPT !.container = CHOOSE s \in PrimaryService(NoService, row.current) : TRUE]
            ELSE row
  /\ UNCHANGED <<draft, past, containers, volumes, queue, worker, tmp, asked, crashed, bounds>>

\* redeployPlan does not trust a deployment created over an hour ago to have a
\* job behind it, though it may still wait or run; those before it are older.
HourPasses ==
  /\ Fault
  /\ \E i \in DOMAIN queue :
       /\ queue[i].kind = "deploy" /\ ~queue[i].aged
       /\ queue' = [k \in DOMAIN queue |->
                      [queue[k] EXCEPT !.aged = @ \/ (queue[k].kind = "deploy" /\ k <= i)]]
  /\ UNCHANGED <<row, draft, past, docker, worker, tmp, tick, asked, crashed, edits>>

-----------------------------------------------------------------------------
(* Services, and crashes of musdash.                                       *)

OneShotDone ==
  /\ \E s \in OneShots \cap Running : containers' = [containers EXCEPT ![s].state = "done"]
  /\ UNCHANGED <<row, draft, past, volumes, network, queue, worker, tmp, tick, asked, crashed, bounds>>

ServiceRestarts ==
  /\ Fault
  /\ \E s \in Running \ OneShots :
       /\ containers[s].restarts < MaxRestarts
       /\ containers' = [containers EXCEPT ![s].restarts = @ + 1]
       /\ crashed' = crashed \cup {s}
  /\ UNCHANGED <<row, draft, past, volumes, network, queue, worker, tmp, tick, asked, edits>>

ServiceDies ==
  /\ Fault
  /\ \E s \in Running, c \in {None, [state |-> "failed", restarts |-> 0]} :
       containers' = [containers EXCEPT ![s] = c]
  /\ UNCHANGED <<row, draft, past, volumes, network, queue, worker, tmp, tick, asked, crashed, edits>>

\* In the middle of `up` some services may be recreated already.
Crash ==
  /\ Working /\ Fault
  /\ \/ At("up") /\ \E touched \in SUBSET Service : Recreate(touched, {})
     \/ UNCHANGED docker
  /\ worker' = [Idle EXCEPT !.pc = "off"] /\ tick' = NoTick
  /\ UNCHANGED <<row, draft, past, queue, tmp, asked, crashed, edits>>

Boot_slip ==
  /\ At("off")
  /\ worker' = Idle
  /\ UNCHANGED <<row, draft, past, docker, queue, tmp, tick, asked, crashed, bounds>>

\* prepareComposeDirs sweeps before the worker starts; the job runs again.
Boot ==
  /\ At("off")
  /\ worker' = Idle /\ tmp' = FALSE
  /\ UNCHANGED <<row, draft, past, docker, queue, tick, asked, crashed, bounds>>

Next ==
  \/ Deploy \/ Rollback \/ Redeploy \/ SaveSettings \/ Stop \/ Delete \/ RemoveKeptVolume
  \/ PassOver \/ NoRow \/ Begin \/ Snapshot \/ Up \/ UpFails \/ GateRouted \/ GateOthers \/ Poll \/ DeployFails
  \/ StopStack \/ ComposeDown \/ RemoveStackVolumes \/ ForgetRow \/ RemoveVolume
  \/ TickLists \/ TickHeals \/ TickEnds \/ HourPasses
  \/ OneShotDone \/ ServiceRestarts \/ ServiceDies \/ Crash \/ Boot

Spec == Init /\ [][Next]_vars

-----------------------------------------------------------------------------
(* Properties.                                                             *)

\* A volume is lost only by choice: a ticked delete, or the removal of one kept
\* by a deleted stack; one that is not provably the stack's, never.
VolumesLostByChoice ==
  [][volumes' # volumes =>
       "foreign" \in volumes \cap volumes' /\ ("own" \in volumes' \/ asked.ticked \/ asked.kept)]_vars

\* The directory that holds the secrets is on disk only while a deploy that
\* needs it runs, or musdash is down.
SecretsSwept == tmp => worker.pc \in {"config", "up", "off"}

\* The row is the last thing to go: once it has, no container is left, nor, if
\* the delete that took it was ticked, a volume of the stack's.
RowGoesLast == ~row.exists => Existing = {} /\ (asked.forgot => "own" \notin volumes)

\* Nothing stays that nobody would find again: what a delete leaves once the row
\* is gone, and a deploy's secrets once it is over.
NothingLeft == TypeOK /\ RowGoesLast /\ SecretsSwept

DownNow == StackServicesDown(row.current, [s \in Service |-> containers[s].state])
\* The running deploy, its deployment an hour old, has brought the services up.
UpAgain == worker.pc \in {"gate", "poll"} /\ Head(queue).aged

\* A heal runs only for services that are down now, whatever deploy ended since
\* they were listed, unless a deploy over an hour old is bringing them up; it
\* deploys a file someone deployed, never a saved draft.
HealsOnlyWhatRan ==
  [][Len(queue') > Len(queue) /\ queue'[Len(queue')].by = "heal"
       => /\ DownNow # {} \/ UpAgain
          /\ queue'[Len(queue')].file \in asked.files]_vars

\* A service without a domain that crashed since `up` never passes for healthy,
\* as long as it can be inspected.
CrashNeverPasses ==
  [][Len(succeeded') > Len(succeeded) /\ faults' = faults /\ ~worker.blind
       => crashed \cap Others = {}]_vars
================================================================================
