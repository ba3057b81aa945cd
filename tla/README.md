# musdash in TLA+

musdash is a one-process deployment dashboard: a TypeScript server on one
machine, SQLite for everything it remembers, Docker for the containers, Caddy
for the routes, systemd to start it again. Paths below are relative to the
repository root; `src/queue/index.ts` is the queue's file.

## 1. The system

### Components, their state and operations

| Component | State | Operations |
|---|---|---|
| Queue (`queue/index.ts`) | `jobs` rows: status, attempts, `run_after`, `created_at` | enqueue, claim, complete, fail (back-off), recover leases, cancel a waiting deploy, prune |
| Worker (`queue/worker.ts`) | the job in hand, `busy`, `stopped` | one loop, one job at a time, for the life of the process |
| Deploy (`jobs/deploy.ts`) | locals across a dozen awaits; `resources` and `deployments` rows | create, start, health gate, switch route, retire old container, record; clean up on failure |
| Stop, remove, route sync (`jobs/index.ts`, `jobs/routes.ts`) | rows, containers, routes | as named |
| Reconciler (`reconciler.ts`) | a listing of containers, per tick | redeploy what is down, sweep orphans, repoint rows, re-ensure sidecars |
| Requests (`routes/app.ts`, `routes/github.ts`) | rows only | deploy, rollback, redeploy, stop, delete, cancel, settings, push, restart |
| Restart (`restart.ts`) | the loops' stop flags | refuse while a job is active, else stop loops and exit |
| Compose stacks (`jobs/deploy-compose.ts`, `jobs/compose-plan.ts`, `docker/compose.ts`) | one container and perhaps one route per service | deploy a file, judge its services, move hosts between routes |
| Caddy (`caddy/*`, `jobs/dashboard.ts`) | the proxy's configuration, its container | upsert, ensure, delete a route; bootstrap and replace the proxy |
| Builds (`build/*`, `jobs/build.ts`) | BuildKit sidecar, layer caches, images | fetch, inspect, build, reuse by fingerprint, prune |
| GitHub (`github/*`) | token and repository caches, App row | mint, retry on 401, list, download, verify deliveries |
| Events and logs (`events.ts`, `logs/*`, `routes/sse.ts`) | bounded in-memory logs, files, listeners | publish, subscribe, sweep |
| Accounts (`auth.ts`, `password.ts`) | one user, sessions, a hashing gate | set up once, sign in, expire |
| Volumes (`volumes/*`) | a cache of sizes | measure once for all pages, select what a delete takes |
| Variables (`env/*`, `compose/env.ts`, `compose/placeholders.ts`) | rows of three levels, the secrets made for a stack | save a tab, save a file, resolve for a deploy |
| Compose files (`compose/*`) | none | pure rules over their inputs |

### How they meet

Requests never wait on Docker: they write rows and queue jobs. The worker runs
jobs one after the other and is the only one to drive Docker and Caddy, with
one exception: the reconciler's tick runs beside it in the same process, reads
Docker, writes `resources.container_id`, queues deploys and removes orphans.
Handlers are asynchronous, so between two awaits of a deploy anything else of
the process may run. What survives a death of the process is the database,
Docker's containers and Caddy's routes; a leased job is run again from its
beginning at the next start.

### What is hard, and what makes each part correct

- **Queue.** Claim against cancel, folding against order, retries against
  newer jobs, crashes between claim and outcome, outcomes that cannot be
  written. Correct: each job ends exactly once, the worker's job stays its own,
  deployments agree with jobs, what was asked last is done last, every queued
  job ends.
- **Deploy pipeline.** A swap of container, route and row that no transaction
  covers, with a reconciler writing one of the three. Correct: what serves is
  not taken away before its successor is routed, only verified containers are
  routed, nothing piles up, a removal leaves nothing, what is down comes back.
- **Stacks and routes.** Several routes of one stack written one call at a time,
  from a plan read earlier, beside forms that change the rows. Correct: no host
  is dropped at any write, nothing unreachable is routed, and what the forms
  asked for is what is routed in the end.
- **Stacks' lives.** Compose recreates in place, services restart on their own,
  volumes outlive their stack if the user says so. Correct: volumes go by choice
  only, the row goes last, a crashing service does not pass.
- **Sidecars.** The proxy and the build daemon die, hang and age; job ids are
  time buckets. Correct: what serves goes only for something proven, what is down
  comes back, a build runs alone.
- **Builds and images.** A fingerprint taken early, an image reused late, a prune
  in between. Correct: a row says what its image was built from, and what a
  rollback needs is there.
- **Downloads.** A stream, a subprocess, a watchdog, a cap and a retry. Correct: a
  tree that counts is whole.
- **Caches.** Answers that arrive after what they were asked under is gone.
- **Variables.** A tab replaces a whole level, whatever was added since it was drawn;
  a secret is made once, when a file first needs it. Correct: a deploy delivers what the
  highest level says, a secret stays the one it was.
- **Logs.** Bounds, pages that come and go, streams that unwind after their
  successor began. **Accounts.** A race for the only account, through a gate with
  one slot.

## 2. Modules

| Module | What it is |
|---|---|
| `JobContract` | the abstract promise of the queue: a job waits, then is done, failed or withdrawn, once, or is forgotten after it ended |
| `JobQueue` | the queue, the worker, the requests that make jobs, restarts, crashes |
| `MCJobQueue` | its instances for TLC |
| `JobQueueProofs` | types, the worker's lease, the clean restart, the refinement of `JobContract`; jobs and deployments end alike, a deploy runs once per life of the process, a push stays in hand, requests keep their order: proved |
| `DeployPipeline` | one image resource through deploy, stop, remove and sync, with the reconciler, crashes, failing Docker and Caddy calls |
| `MCDeployPipeline` | its instances for TLC |
| `DeployPipelineProofs` | types, needless healing, removal, at most two containers, the gated route, the wanted route, the swap, proved |
| `StackPlan` | the pure rules of stacks: routing plan, gaining routes, verdicts (no state) |
| `StackRoutes`, `MCStackRoutes` | a stack's domains and routes: forms, deploys, route syncs |
| `StackRoutesProofs` | no host is dropped at any write, none is dialled off the network, the routes settle as planned, and what is planned is reached, proved |
| `StackLife`, `MCStackLife` | a stack's deploys, gate, stop, delete, volumes and heals |
| `StackLifeProofs` | nothing is left, volumes go by choice, heals and verdicts are right, proved |
| `Proxy`, `MCProxy` | Caddy's bootstrap and routes, the dashboard's host, the watch over the proxy |
| `ProxyProofs` | routes stay in order, a proxy is taken away only for a proven one, proved |
| `Builder` | the build daemon, its cap and a build in it |
| `GitHub` | the App, its installations, tokens, lists, webhooks |
| `MCServices` | `Builder` and `GitHub`, one at a time, with their fairness |
| `ServicesProofs` | builds count and run alone, lists stay under the grant, proved |
| `Builds` | a branch to an image, its reuse, rollback, repeat and prune |
| `ArchiveFetch` | the download of a source archive |
| `LiveLogs` | deploy logs and the page that follows one |
| `LogStreams` | the stream that follows a container |
| `LogLines` | frames to lines, the ring, the files |
| `MCImagesAndLogs` | `Builds`, `LiveLogs` and `LogLines` side by side, part of `MCPlatform` |
| `ImagesAndLogsProofs` | their inductive invariants, action by action |
| `Accounts` | setup, sign-in, the password gate |
| `BuildCache` | the sweep of layer caches |
| `HealthGate` | a container's gate and the wait for certificates, with Docker's restarts |
| `VolumeSizes` | the shared measurement of volumes |
| `Variables` | three levels of variables, their tabs, the secrets made for a stack |
| `MCPlatform` | those ten, from `Builds` on, one at a time |
| `PlatformProofs` | the download's tree, the registered stream, the gate and the one account, the waits, the rows and images of builds, the prunes, the logs on their way to a page, the variables a deploy delivers, proved |

`StackRoutes` and `StackLife` both extend `StackPlan`, as the deploy, the sync,
the reconciler and the forms share `jobs/compose-plan.ts`. `MCServices` and
`MCPlatform` hold instances of modules that share no state: `part` says which
one a behaviour is of, the variables of the others stay `Off`, so the state space
is the sum of theirs and never the product, and each property speaks of its part.

Definitions whose names end in `_slip` are plausible mistakes in the definition
that follows them. No specification uses them; putting one in the place of
its original shows that a property can fail.

### JobQueue

`jobs[j]` is a row of the `jobs` table and `j` its order of insertion;
`deployments[j]` is the row of the deployment a deploy job belongs to;
`worker` is the loop (idle, or a job and where its handler is); `process` is
up, stopping (a restart was accepted) or down. Time is only the delay
left of each retry (`Tick`) and the stamps in `created_at` (`clock`, where two
jobs may share a stamp when `SharedStamps`). Requests are `Stop`,
`RepeatDeploy`, `DeployFolded`/`DeployQueued` (one handler, two outcomes),
`PushFolded`/`PushAlreadyRunning`/`PushQueued`, `Cancel`, `RequestRestart`.
The worker's steps are `Claim`, the handler's (`MarkRunning`, `FetchSource`,
`DeploySucceeds`, `DeployThrows`, `StopReturns`, `StopThrows`), then `Complete`,
`RetryLater` or `GiveUp`. Faults are `CompleteThrows` and `FailThrows` (the
database refuses the outcome) and `Crash`; `Boot` is `recoverOrphanedLeases`
with the first claim, which the code runs with no await between. Two writes in a row
without a transaction may be one: a deployment's row without its job (`DeployLost`,
`PushLost`), a job failed with its deployment left running (`GiveUp`), a handler that
throws and cannot write that it did (`DeployThrows`); `SecondWriteLost` is the
database's refusal or a death in between. Nothing is awaited between a
handler's throw and the worker's record of it, so no request is served there.
`head` is the branch's newest commit. History, which no code records: `owed` and `carries` (the pushes a
job answers), `answer` and `lastRun` (the job for the newest request, the one that ran
last), `missed` (the write lost about a deployment), `late` (jobs a failure put
back behind younger ones) and `tied` (jobs of the answer's millisecond).

The model allows a little more than the code: a request may come between an
outcome and the next claim, and requests are served until a stopping process
exits. Only deploys and stops are jobs here; the other kinds differ in their
handlers and not in the queue.

### DeployPipeline

`row` is the resource's row, `queue` the unfinished jobs with the worker's at
the head, `containers[d]` what Docker has under the name of deployment `d`,
`route` the container the proxy dials, `worker` the handler's place and its
locals, `recon` the tick's place and its listing. One action is one stretch
between two awaits that matters: `TakeDeploy` reads the row, and `NoteOutgoing`,
`ReclaimStrays`, `CreateContainer`, `StartContainer`, `PassHealthGate`,
`SwitchRoute`, `RetireOld` and `RecordSuccess` follow steps 1 to 8c of
`runDeploy`; `DeployThrows`, `SwitchFails`, `CleanUp` and `MarkFailed` are its
failure paths. Stops, removals and syncs are cut the same way. A tick is
`ListContainers`, `PlanRedeploy` (synchronous in the code, so one action),
`SweepOrphans`, `InspectChosen`, `Repoint`. `Boot` takes the startup listing and
`Serve` starts the worker, in that order (`src/index.ts`).

Abstractions, all named in the module or here: an image is an atom; the
resource always has a host, so its port alone decides on a route; a container
keeps its deployment's identity when a re-run creates it again; Docker lists
the newest container first, so "the first running one" is the running one with
the largest id; the wait of the back-off is a flag (`cooling`) that some time
clears; the hour after which `redeployPlan` no longer waits for a deployment in flight
is `HourPasses`, which puts it among the `aged`, free for one whose job was lost and bounded
(`MaxHours`) for one that has its job; `EnqueueLost` is a deployment whose job was not written; a sync whose
proxy does not answer leaves the route as it is, its
retries being the queue's; ticks of one process do not overlap; a compose or
git resource's own steps are not here. A container that cannot be found is the
same as one a failed list did not show.

### Stacks

In `StackRoutes` a file is the set of its services and a route is one
service's, with the hosts it matches and the port it dials. `worker` is the handler of
the job at the head of `queue`: a deploy goes through `config`, `planned`, `up`,
`gated`, then the passes `gain`, `final`, `drop` of `applyStackRoutes`; a sync
through the same passes of `syncResource`. Each action is one call to Caddy or
Compose, and the forms (`AddDomain`, `MoveDomain`, `DeleteDomain`,
`SaveComposeSettings`, `SetDashboardHost`, `Deploy`, `Stop`) run between any two.
A deploy reads the public service and port with the row, at its start (`MarkRunning`), and the
domains and the dashboard's host after `config` (`PlanRead`), so Settings saved in between are not in its plan.
`missed` is history: the ways a form can leave its change to nobody, which
`DomainsReachable` excludes by name.

In `StackLife` the same stack is its containers: `config`, `up`, the gate's polls,
success or failure with the removal of the file that holds the secrets, stop,
delete with and without its volumes, the removal of one kept volume, and the
reconciler's heal. A queued or running deploy may pass its hour (`HourPasses`), and a heal no longer
waits for it. `asked` and `crashed` are history. A gate that cannot inspect a
service takes it for good (`worker.blind`), as the code does; Docker's own
restarts are `ServiceRestarts`.

### Sidecars

`Proxy` has one action per call of `ensureCaddy` and of the writes of the
dashboard's routes. All routes of resources are one, "app". A call that fails may
have been carried out. What an earlier musdash installed is chosen at the start
(`Ages`). `EnsureCaddyQueued` is the tick's half, `BucketRolls` the minute in which
a job id may be used once; it does not roll while a bootstrap of that bucket
waits, since the worker takes it long before.
`Builder` is the same for the build daemon, with its memory cap worked out in
MiB as the code does, a client, the watchdog's question and its late answer, and the
restart after a build that was cut off.

### Builds and sources

`Builds` numbers images by the deployment that built them and gives them as content the
inputs they were built from; `work` is the deploy in hand, from the payload to
success; the prune is a job, its keep set read before it removes.
`ArchiveFetch` counts ticks and lets none pass a timer that is due; tar is a
process that writes, is asked to end and is killed. `BuildCache` measures in tenths of the
cap and gives a directory as mtime the number of the build that wrote it; what stays is a set, chosen
by what a cache and those newer than it measure together.

### GitHub

A grant's number stands for the terms of an installation. `told` is what musdash
was last told, `events` the webhooks on their way, which may be lost or come in any
order. A mint asks as the App of the moment, fails without one and is refused for an installation of another
(`MayMint`). A token or list is of the grant it was answered under. `MaxFetches` bounds
fetches at once, and none begins beside a sync or a call: they share no state but
the caches, which each is checked against.

### Logs, accounts, waits

`LiveLogs` has one page, drawn, then connected, lost and connected again by the browser
with the same `skip`. `LogStreams` has every stream there ever was; an aborted one
ends later. `LogLines` cuts the byte stream anywhere; the frames a chunk completes are put
into lines one by one (`PushFrame`) and each line handed over (`PublishLog`) before the next is read,
as the generator of `streamLogs` and its consumer take turns. `Accounts` has requests that
ask, wait for the gate's slot, run and come back to act on what may have changed.
`HealthGate` and `VolumeSizes` count ticks.

### Variables

`levels` is what the project, the environment and the resource define. A value is a
sequence of pieces: a word, a reference, an escape, or a secret that was made.
`form` is a tab that is open, with the rows it was drawn with, which is what its save
writes back; only the last tab drawn is kept. `SaveComposeFile` makes the placeholders
that nothing resolves, `Deploy` is one that got past its variables. `used`, `edited` and
`stale` are history: the secret the first deploy gave, and the two ways a user changes it.

## 3. Runs

| Run | Question | Bounds |
|---|---|---|
| `queue_order` | does the job asked for last run last? | one resource, three jobs, stamps that may be shared, stops that may fail twice, a crash, a failed write |
| `queue_faults` | are rows, deployments and pushes consistent under every fault, and is the contract kept? | one resource, two jobs, a push, two crashes, two failed writes (of jobs or outcomes), two attempts, shared stamps |
| `queue_liveness` | does every job end? | one resource, three jobs, a push, a crash, two attempts |
| `pipeline_swap` | does what serves keep serving when nothing fails? | four deploys or rollbacks of which one may fail, two images (symmetric), one other request |
| `pipeline_faults` | under faults: is only what passed the gate routed, does the route follow the row, do containers pile up, does a removal leave anything, is healing ever needless? | two requests for a deploy, one other, a crash, a failure, a proxy error, a removal by hand, a deploy an hour old, three deployments |
| `pipeline_heal` | does what is down come back, do orphans go? | a deploy, one other request, a crash, a failure, a Docker error, a job not written, a removal by hand, five deployments |
| `pipeline_stop` | a statement of a comment, refuted | as small as the behaviour allows |
| `stack_routes` | is a host ever dropped, is anything unreachable routed, do routes and services end as the rows say? | two services, two hosts, two ports, two rows, four forms, one fault |
| `stack_life` | do volumes and rows go as they should, do heals and gates judge right? | three services (routed, plain, one-shot), two files, two forms, three faults |
| `proxy` | are routes in order, is the proxy taken away only for a proven one, does it come back? | from none or an outdated proxy, two hosts, two forms, one fault, two attempts |
| `services` | does a build count by its client, is the cap the current one, does the daemon come back; does anything outlive its grant, does a rejected token stay? | two builds, two host sizes, an override, one mishap; one installation, two Apps, two grants, two fetches at once |
| `platform` | do rows tell the truth, is a tree whole, does a page follow, is the stream registered, is the gate held, are waits bounded, do prunes spare, does a deploy deliver what was declared and do secrets last? | two repositories, three deployments, one push, two upsets; two pieces, a cap of five ticks; three deploy logs of which two are kept, three lines of which two are; two containers, four streams; four frames; three requests, one waiting; three caches; two containers and two pages to wait for; two owners; two names, three forms saved |

All runs have `CHECK_DEADLOCK FALSE`: a system with nothing asked of it rests.
Every bound is a named constant of its module and caps something the user, the
operator or the world does. Three jobs are what a reordering takes (the overtaken,
the overtaking and the one in hand), two crashes a recovery of a recovery; a
third container needs two deploys after the first, which three deployments
give. `pipeline_swap` takes a fourth: the swap can only go wrong in the deploy after
one that failed, and the first only makes something to serve. Two upsets of `Builds` are the crash
that makes a build run again and the deploy of that deployment anew. Three forms are a tab drawn, a file saved
over it and the tab saved. `pipeline_heal` allows more deployments than requests, failures and
removals can use up, so the reconciler is never stopped by the bound.
Two services and two hosts are what a swap of hosts takes, and four forms a
domain added, deployed, moved and moved back; the second host is the wildcard's and the
dashboard's at once, so both claims meet it. Three faults of `stack_life` are a
service's death, the crash of musdash over it and the hour of the deploy that waited. A ring of two, files of one
line and frames that split lines make four frames wrap, rotate and carry. Caps
and timeouts keep the order they have in the code (stall below cap, a handshake's
below the wait's), not their sizes.

A property that is known to fail under some fault says so in its own text.
`OutcomesAgree` allows the row whose write was lost to say what it said before, `PushInHand` the
lease of a build neither of whose failures could be written, `LastAskRunsLast` a stop put back for its retry, a
lease left by a failed write and a job of the newest request's millisecond. `HealIsNeeded` and
`HealsOnlyWhatRan` except what a deploy over an hour old has started.
`RouteGated` holds until a crash or a Docker error, `RouteIsWanted` with crashes
or with failures and not both, `RemovedMeansGone` until a call of the removal
fails, `ServingKept` of the pipeline until a crash or a failed call of the proxy or Docker,
and in a deploy that read a container that exists. `DomainsReachable` excludes the three ways of `missed` and
Settings saved since a deploy read its row, `BuildsAlone` a
daemon whose restart failed, `RowsTellTheTruth` a build repeated after a crash,
`PageFollows` a page that connected again or whose lines went before it asked for them,
`SecretsLast` a secret the user edited or whose tab was older. Each exception is a behaviour below.

### What the code does otherwise than its comments say

One is a run of its own, listed in `PROJECT.json` with the sentence it
contradicts: `pipeline_stop`, a tick during a stop queues a redeploy that undoes
the stop (`StopIsFinal`).

The others are statements of comments, documents or pages that stand in the
modules as properties and that no run of the project checks, since TLC refutes
them. To see one fail, write a configuration of that module's MC module (for the
rows of `Builds`, `GitHub` and `LiveLogs`, of the module itself) with the constants given;
those not given are as in the runs of that module. The rows of `Variables` are stated in
`MCPlatform`, which has its texts, as `part = "variables" => Env!...`.

| Property | The statement and what happens instead | Constants |
|---|---|---|
| `JobQueue.DeployAskedLastIsFinal` | `jobs/deploy.ts` 955-958: what was asked last is done last. A compose stop that failed is retried after a Deploy asked for later, and stops it (`queue/index.ts` 133). | one resource, 2 jobs, `StopCanThrow` TRUE, 3 stop attempts, no faults |
| `JobQueue.InFlightHasJob` | `queue/worker.ts` 119-121: a job that gives up does not leave its deployment running. `fail()` and `markDeploymentFailed` are two writes (112-131), as are `createDeployment` and `enqueue` (`jobs/deploy.ts` 828-845): with the second lost the row reads running, or queued, with no job, and nothing mends it. | as in `queue_faults` |
| `JobQueue.PushAtWork` | `jobs/deploy.ts` 906-921: a delivery whose commit is being built needs no other build. When neither the deployment's failure nor the job's could be written, the row still reads running and the lease is there, so it is skipped with nothing at work until the next start. | as in `queue_faults` |
| `JobQueue.CancelledNeverRan` | `queue/index.ts` 158, `deployment.eta` 86: a cancelled job never ran. One that ran before a crash is pending again and can be cancelled. | as above, one crash |
| `JobQueue.BlockedMeansBusy` | `restart.ts` 53: "a job is running — try again in a moment". A lease left by two failed writes blocks the restart that would clear it (`worker.ts` 33-35). | as above, 2 failed writes |
| `DeployPipeline.ServingAlwaysKept` | `deploy.ts` 526-529: the old container is not stopped while traffic points at it. A tick lists and inspects the container a deploy is trying and points the row at it (`reconciler.ts` 172-176) while the deploy fails and removes it; the next deploy, queued meanwhile, reads a container that is gone, and `reclaimStrays` (735-747) removes the one that serves before its successor is up. The same after a crash between the route's switch and the write of the row (2 deployments, 2 asked, one crash), where the re-run removes it (741). | one image, 3 deployments, 3 asked, one failure |
| `DeployPipeline.HealIsNeeded` without `aged`, `StackLife.HealsOnlyWhatRan` without `UpAgain` | `reconciler.ts` 229-230: a deploy in flight wins, since "queueing another behind it would only redeploy the same thing twice". Of one over an hour old this is not so, as 230-231 say (252-256): it may have brought its container, or its services, up since the tick listed them, and a redeploy of what runs is queued behind it. | as in `pipeline_faults`; as in `stack_life` |
| `DeployPipeline.KeptIsLeftAlone` | `deploy.ts` 591-594: the reconciler leaves a kept container alone. It points the row at it (`reconciler.ts` 175), and the next deploy reclaims the one serving. | one image, 2 deployments, 2 asked, one proxy error |
| `StackRoutes.SameAnswer` | `jobs/deploy-compose.ts` 215-217: the routing plan a deploy reads is the answer `sync_routes` gives. Its public service and port are those of the row at the start of the job (131, 168), so Settings saved while `compose config` runs are not in it, and nothing queues another deploy. | as in `stack_routes` |
| `StackRoutes.InProgressDeployFollowed` | `app.ts` 1899: a change made during a deploy is followed by one. Not during a stack's first deploy, nor for a service that deploy is about to take off the network. | `AutoHost` none, no dashboard hosts, 2 rows, 4 forms, no faults |
| `StackRoutes.LivePortFollowed` | `app.ts` 1869: a deploy moves a live route's port. A domain deleted and added again on another port before the queued sync keeps the old port for good (`routes.ts` 116-118). | the same |
| `StackRoutes.DeletionNeedsNoDeploy` | `app.ts` 1037 queues a sync for a deleted domain and no deploy. When the row had the stack's auto host, the next plan gives that host to the public service again (`compose-plan.ts` 141); if another row had moved it elsewhere and that deploy took the public service off the network, it stays unrouted until the next deploy. | as in `stack_routes`, 5 forms, no faults |
| `Proxy.AddressComesBack` | `bootstrap.ts` 31-37: the reconciler re-enqueues a bootstrap that failed. It asks only whether the admin API answers (`reconciler.ts` 502-521), so a bootstrap that fails after that leaves the route on the server's address away. | `FairSpec`, one host, `Ages` {"current"}, 2 attempts, no forms, one fault |
| `Builds.RowsAlwaysTellTheTruth` | `db/queries.ts` 741-743: a row that deploys a build's image describes that build's inputs. A build repeated after a crash, when the branch has moved on, overwrites the tag another row reused; so does a deploy repeated after a crash that then failed and was asked for again, whose row still has its image (`jobs/deploy.ts` 318-352). | as in `platform` |
| `GitHub.TokensUnderTheGrant` | `tokens.ts` 136-138 clears the cache on a disconnect. A mint in flight then is stored after it (79-82). | as in `services` |
| `GitHub.LinksAlwaysResolve` | `register.ts` 125: what links to a removed row is unlinked. Registering an App over another deletes the rows and leaves the links (175-182). | as in `services` |
| `GitHub.LinkedCallsRecover` | `tokens.ts` 84-86: a failed mint does not make later calls fail. They do for an installation of an App that another was registered over, whose links stay (`register.ts` 175-182): each mint asks as the new App, or finds none after a disconnect (42-45). | `FairSpec`, as in `services` |
| `LiveLogs.NoneShowsTwice` | `deployment.eta` 146: "none shows twice". `EventSource` connects again with the same `skip`, and lines come again (`sse.ts` 130-131). | as in `platform` |
| `Variables.SecretsAlwaysLast` | `compose/placeholders.ts` 4-8: a secret is generated once and survives redeploys. The save of a tab drawn before it was made replaces the whole set (`db/queries.ts` 894-921) and takes it away; the next save of the file makes another. | as in `platform` |
| `Variables.PlaceholdersSuffice` | `routes/compose-form.ts` 81-86: what the file needs and nothing resolves is generated. A shared variable of that name counts as resolving it though its scope is build, so none is made and the deploy finds it missing; likewise once that variable is gone. | as in `platform` |

Further behaviours that comments rule out or that surprise, which the models have
and no property states:

- A crash during the health gate lets the startup tick point the row at the new
  container; the re-run then spares it, meets its name at the create and adopts
  it, which `docker/impl.ts` (535) calls unreachable.
- `RecordSuccess` keeps the old `previous_image` when the outgoing container is
  gone, also when it is the image just deployed, so Rollback may offer what
  runs (`jobs/deploy.ts` 551).
- `PlanRedeploy` deploys the image in the row, which Settings may have changed
  since any deploy succeeded (`jobs/deploy.ts` 801).
- `build/cache.ts` (258-261): "two such directories cannot put the total over the
  cap on their own". Two directories that cannot be read are charged four fifths of the cap
  each, so healthy older caches are evicted.
- The gate asks HTTP after it inspected, so a crash between the inspection and
  the answer passes; a container without a check is given its uptime though a
  deadline it shares is over; a stack's gate counts a restart between the snapshot and
  `up` (`compose-plan.ts` 277-280).
- Adding a domain to a service that only Settings made public queues no deploy.
- A crash between the create of the proxy and its ready check leaves a container
  of the current definition that never came up, which every later bootstrap
  adopts (`bootstrap.ts` 250-258); a proxy that answers but lost its port mapping
  is never queued; a build daemon that hangs is not repaired by the bootstrap
  that the tick queues for it (`reconciler.ts` 564-567).
- The dashboard host's `applied` row stays behind when the job that applies it
  gave up; a sync answered before a `created` webhook removes the row of that
  webhook.
- A download's watchdog counts the time a slow disk takes as quiet of the network.
- A stream that is followed again replays the last hundred lines; lines between
  the drawing of a page and its connection are missed on the container's page; a
  line that comes after a resource's buffer was dropped makes it again.

### Fairness

`queue_liveness` assumes weak fairness of the worker's steps (the loop polls for
ever and each wait of a handler has a deadline), of time, of the start of a
process that is down (systemd) and of the exit of one that is stopping.
`pipeline_heal` assumes it of the worker, of the tick (`setInterval`), of the end
of a back-off, of the hour a deployment without a job is waited for, and of starting. `proxy` assumes it of the
worker, of the tick's
look at the proxy, of the minute's end and of starting. `services` assumes the
same for the daemon, with two differences: the tick's look is strongly fair,
because it comes every thirty seconds and is enabled again and again while builds
come and go; and a client that was told to stop ends, because it is killed. For GitHub it assumes
that a call goes on, that a mint with no App, or for another's installation, fails (at once, or when it is
refused or its signal ends it), and that one which can be answered is, again and again when asked again and
again; nothing is assumed of GitHub otherwise, and `ServicesRecover` speaks of
installations of the registered App that are left alone from some time on. Nothing is assumed of requests,
faults or the operator; they are bounded, so they end.

## 4. Proofs

For every number of resources, jobs, pushes, crashes and retries of the queue:

- `TypeCorrect`: `Spec => []TypeOK`.
- `WorkerKeepsLease`: `Spec => []WorkerHoldsLease`. Neither it nor the types are
  inductive alone: a leased job must be known to have been claimed, a row that
  exists to have been enqueued, and a deploy to have its deployment row. `LeaseInv` is the conjunction of those, and
  one lemma per action shows that it is kept.
- `RestartIsClean`: `Spec => []RestartInterruptsNothing`, from `QuietInv`: a
  process that is down has no worker, one that is stopping has no lease.
- `OutcomesMatch`: `Spec => []OutcomesAgree`. Alone it is not inductive: what
  `Complete` and `GiveUp` write is right only because a deploy's handler returns after its
  deployment is marked succeeded, and throws after it is marked failed unless that write
  failed (`EndsMarked`); an id whose job was never inserted has no row for good (`MissedInv`). That one which
  reads running for ever cost two writes (`TwoLost`) needs that faults are only counted up.
- `DeploysRunOncePerLife`: `Spec => []DeployRunsOncePerLife`. `LivesInv` adds that a
  deploy that waits, or lies leased in a process that is down, has a claim left
  (attempts at most the crashes so far). A deploy's one attempt is spent by its
  claim, so `RetryLater` is never a deploy's; an exit after an accepted restart
  leaves no lease to recover (`QuietInv`), so only a crash gives a claim back.
- `PushesStayInHand`: `Spec => []PushInHand`. Besides that somebody has each push (`Held`) it takes
  that a fetch finds every delivered commit (`HeadCovers`) and that the running build a
  delivery meets is the worker's, before its outcome, or one neither of whose failures could be
  written (`RunningInHand`, `Stranded`), which nobody but the next start takes.
- `RequestsKeepTheirOrder`: `Spec => []LastAskRunsLast`, under every fault, with shared stamps and retried stops.
  `TurnInv`: only a stop that was put back waits out a delay (`NoWait`), no stamp is ahead of the clock, the leased
  job is no younger than what waits (`LeasedFirst`), and a lease nobody is on is `late`. `AnswerLast`: while a
  job of the resource is
  active that may not run after the answer (`Rival`), the answer waits behind it with a later stamp (`Ahead`);
  else the answer is
  to end or ended last, or one that is late or tied did. A fold keeps this because `hasPendingJobAfter` takes a job of
  the same stamp for one that follows.
- `QueueKeepsContract`: `Spec => ContractSpec`. The phase of a job is read from
  its row (`PhaseOfStatus`); each action is a step of `JobContract` or a stutter,
  and the same invariants rule out the steps that are neither.

For every set of services, hosts and ports, and any number of forms and faults:

- `NoHostDropped`: `Spec => HostNeverDropped`. `RouteInv` follows the passes of
  `applyStackRoutes` and `syncResource`. In the first pass a route never loses a
  host and holds nothing but what it had and what it gets (`DeployGains`,
  `SyncHolds`); when it is over, every host that is routed and planned is on its
  own service's route (`GainedAll`, `SyncGainedAll`: it was there, or its own route
  gains it and was written), unless, in a sync, it is pending; then a write of the
  second or third pass takes from a route only what has another (`OwnedWrite`,
  `SettledWrite`). It rests on a host having one winner (`PlanHasOneOwner`) and on nothing
  else about the forms, so it holds of any plan.
- `NewRoutesDialTheNetwork`: `Spec => NewRouteReachable`. To `RouteInv` it adds `ReachInv`: what a deploy is about
  to route is on the network, because `compose up` joined the services of the very
  plan it writes, and a sync that read no upstream for a service does not write its route.
- `RoutesAlwaysSettle`: `Spec => []RoutesSettle`. `Typed` gives every variable its type. `DialInv`: a route that is
  planned or live has a port (`PlanIsSound`), and a deploy's file has the services it routes.
  `CleanInv`, while nothing failed: unless a sync waits in the queue, the routes follow the rows' plan or the
  handler at work has that plan in hand (`UpToDate`; before `config` has ended, that the public service it read
  with its row is still the row's), because every form that changes what is planned queues a sync
  (`SyncQueued`); no host is on two routes (`RoutesApart`); and a pass has written what it was to
  write (`DeployDone`, `SyncDone`).
- `DomainsStayReachable`: `Spec => []DomainsReachable`. `ServedInv`: the rows of one service ask for one port
  (`PortsAgree`), so a form moves the plan of its target only (`AddRetargets`, `MoveRetargets`, `FewerKeep`). While
  nothing failed and no way of `missed` was met, unless a deploy that will read the rows is queued (`DeployComes`),
  every planned service is in the plan of the deploy at work with the same port, or is on the network behind a
  route of that port or none (`Served`). For the target of a form this is what `RoutingChangeNeedsDeploy` and
  the two ways of `Misses` leave; for the steps of the worker it is `JobsSound` (a handler's job is the
  queue's first), `SyncFresh` and `PassDials` (what a pass writes has its plan's port). At rest
  `RoutesSettle`'s invariant gives such a service its hosts, hence a route and a port.

For any stack's services, one-shots, files and volumes, and any number of forms, faults and restarts:

- `NothingIsLeft`: `Spec => []NothingLeft`; `VolumesAreLostByChoice`: `Spec => VolumesLostByChoice`;
  `HealsOnlyWhatIsDown`: `Spec => HealsOnlyWhatRan`; `CrashedNeverPasses`: `Spec => CrashNeverPasses`.
  All four follow from `LifeInv`: a queued job was asked for (`QueueWanted`), a handler has
  its row, and past `down` of a delete no container (`HandlerHolds`), what should run is a file
  someone deployed (`RowSound`), what a tick found down is down until a deploy has ended or one is
  past `up` (`TickSees`), the file of secrets is gone when no deploy is in hand (`SecretsSwept`), the row is the
  last thing a delete
  removes (`RowGoesLast`), and the restarts a gate compares with are those of before
  what it judges (`CountsKept`): a service that crashed shows more of them, or is down.

For any hosts, and any number of forms, faults and attempts of the proxy:

- `RoutesStayOrdered`: `Spec => []RoutesOrdered`. `ProxyInv` follows the tail of the
  routes (the dashboard's host, the server's address, the one for lost hosts) as it is taken down and built
  up again (`TailBuilt`), with the host it was built for the newest or another job to come
  (`HostCurrent`). That the tail, and the resources' routes, are as the rows say, or are
  being seen to, or were given up on (`TailFollows`, `AppFollows`), needs `AppDone`: a job
  past its sync has left them right, or says that it has not.
- `NoProxyIsWasted`: `Spec => ServingKept`. `ReplaceReady`: a bootstrap that takes a proxy
  away has pulled and tried the new one, and the old was not current; one that creates has
  nothing in its way.

For any caps of hosts, overrides, builds and mishaps, and any Apps, installations, grants and lists:

- `BuildsStaySound`: `FairSpec => []BuildsAreSound`. `BuilderInv`: from its making to its first answer
  a daemon has the cap the process would give it now (`CapStays`), and what a cut-off build left
  is there only until the restart after it (`LeftBehind`), so no build runs beside it.
- `ListsStayUnderTheGrant`: `FairSpec => []ListsUnderTheGrant`. `GitHubInv`: musdash was told of the present
  grant or of an earlier one (`ToldBefore`), and a fetch that may still be stored was
  answered under no earlier grant than that (`FreshIsCurrent`).

For every length of an archive, every cap, any containers, streams, lost connections,
requests, places in the gate's queue, owners of volumes and crashes (`MCPlatform`):

- `TreeIsWhole`: `Spec => []WholeTree`. The directory holds pieces of the attempt
  under way only, its tar has written what left the body but for what is in its
  pipe, and an earlier tar is gone before the retry wipes the directory. The time of a download
  is bounded by what each of its waits adds to the cap (`InTime`).
- `StreamsAreTracked`: `Spec => []StreamTracked`. A stream that unwinds forgets only
  its own record, so the one registered is the last that began.
- `GateAlwaysHeld`: `Spec => []GateIsHeld`. The gate's queue has distinct members who wait,
  other than the one that runs (`WaitsOnce`); who signs in after a setup is whom the insert let
  through, and nothing changes the account again.
- `WaitsAlwaysBounded`: `Spec => []WaitsAreBounded`. No sleep and no request of a gate ends later than the
  gate may (`GateTimes`), and a container never seen to crash has run as long as the gate
  waited (`BoxSeen`). Of the sizes, what is kept is the largest because whoever is before
  another has fewer before itself (`FewerAhead`), for any finite set of owners.
- `RowsTruthfulUnlessOvertaken`: `Spec => [](RowsTellTheTruth)`, from `ImagesInv` of `ImagesAndLogsProofs`. That
  rows agree with images is not inductive: a crash runs a build again, which writes its row and its image
  once more when other rows already name that image. So the invariant says who can still write:
  every deployment has one job and only the first has begun (`QueueSound`), whatever names a tag names one
  that began (`KnownRan`), and whoever still runs finds its row and image as it left them, or its tag is
  among the `overtaken` (`Settled`, `Underway`).
- `PrunesAlwaysSpare`: `Spec => PrunesSpare`. What a prune of images keeps has the current image and
  the rollback target (`HandSound`), and a pinned job has its row's commit and repository (`JobsSound`). What a
  set of caches measures is a fold over the set, so the proof first has that one such sum exists and does not
  depend on the order (`SumsExist`, `SumsAgree`, `SumAdds`), by induction on how many there are (`Counting`): then
  more caches measure no less (`ChargesGrow`), so none older fits where a newer one does not.
- `PageAlwaysFollows`: `Spec => [](PageFollows)`, from `LogsInv` and `LinesInv` of `ImagesAndLogsProofs`. A log that is
  held has its deployment's last lines (`LogsSound`), and the page that was drawn shows the first of them and
  will ask for the rest (`PageDrawn`), or some went and it is `spoilt`. That a sweep leaves room for one more is a fact
  about the oldest of a set of deployments (`OldestEnough`), by induction on how many are asked for. Of a
  container's output, `LinesInv` says what was put into lines (`ChunksSound`, `PartialSound`), and that these are the
  lines handed over with those in hand behind them (`HandedOver`): the ring has the last of the former at the places
  counted back from `next` (`RingHolds`), and each file ends where the newer one's lines begin (`FilesSound`). How many
  frames a chunk completes is the first number after which one is short (`PushReturns`, by `LeastOf`). The frames may be
  any number, each of the five kinds of `Frames`: no end of line, one at the end or before it, one alone, and none at all.
- `VariablesAlwaysLast`: `Spec => [](VariablesLast)`, from `EnvInv`: an open form still has what was drawn
  of the levels, or is stale (`FormFollows`), a secret is there once its stack was
  deployed (`SecretsMade`) and is the one that was made (`SecretsLast`). The merge is a fold
  over three levels, so it is unfolded step by step (`MergeLevelsIs`); what a name is delivered as is then
  what its winning level says.

For any images, deployments, requests, crashes, failed calls and containers removed
by hand, of one image resource:

- `TypeCorrect`: `Spec => []TypeOK`. `Inv` adds that a handler's job is the head of
  the queue (`JobInHand`), that a queued deploy and a container have their
  deployment (`RowsExist`) and that a deploy past its first await shows as running
  (`ShownRunning`): without them a status would be written outside the table.
- `HealsOnlyWhatIsDown`: `Spec => HealIsNeeded`. `ListingHolds`: a container started
  since the listing belongs to a deploy that shows as running, or that was seen to
  finish after the listing; either holds the redeploy back, unless the former is an hour old.
- `RemovalLeavesNothing`: `Spec => []RemovedMeansGone`. `Gone` follows the removal:
  no container from `emptied` on, no route from `released` on, and no handler of a
  deploy once the row is gone.
- `NeverThree`: `Spec => []AtMostTwo`. `Two`: only a deploy's create makes a container
  (`ContainerSteps`), and where it does only the row's is left.
- `OnlyGatedIsRouted`: `Spec => []RouteGated`. A deploy not begun has no container
  and no route (`NotBegun`, from the queue's deployments being distinct,
  `OwnContainer`), so a create takes the gate's word from nothing that is routed; what
  runs has passed, but for the container the deploy in hand is trying (`Gated`), and
  whatever is dialled ran.
- `NoRouteIsLeftOn`: `Spec => []RouteIsWanted`. `WantInv`: a route nobody wants has a job behind it
  that takes it away or makes it wanted (`RouteJobs`), because a request that changes what a
  handler already read queues a job (`ChangesQueued`) and a route taken away stays away
  (`Unrouted`). A deploy counts as such a job only where it goes through (`GoesThrough`),
  which is why the property has its two cases: no crash, or no failure and no removal by hand.
- `SwapsKeepServing`: `Spec => ServingKept`. `OneAtATime`: between deploys there is one container, in
  a deploy the one it read and its own; `RouteFollows`: the route dials the first until
  it dials the second. So what a deploy reclaims or retires is never what serves.

The assumptions are those the modules name on their constants (`BoundsAssumption`,
`StackNames`, `LifeFiles`, `ProxyBounds`, `ServicesAssumption`, `ImagesAndLogsAssumption`, `PlatformAssumption`
and their like), which
TLC evaluates in every run of those modules: that a bound is a number, a set finite, a time positive, a
reserved value none of the others. No theorem has a hypothesis besides.

What is only checked by TLC, and why:

- Everything under fairness (`JobsEnd`, `SelfHeals`, `ProxyHeals`, `ServicesRecover`, `OrphansSwept`,
  `StaleReplaced`): liveness and `ENABLED` are out of the prover's reach.

## 5. Not modelled

`PROJECT.json` lists every component with its status. What is left out, and why:

- The checks and rewrites of a Compose file, the syntax of variables and forms, the
  placeholders of a host: pure functions of texts, key by key, with unit tests that read
  better than a model would.
- Templates, labels derived for pages, the heuristics over source files,
  migrations, projects and environments: no concurrency and no failure of
  their own.
- The wire of Docker, Caddy and GitHub, signatures, encryption and hashing: formats
  of others. What the calls do, and that they fail or are carried out without an
  answer, is modelled where a component makes them.
- The status events of a page: a page that connects gets no current status, only
  changes, which nothing in the models depends on.
- The times of the reconciler's back-off (`redeployPlan`): a flag that some time
  clears. Ticks of one process do not overlap; both would plan synchronously,
  and the second sees the first's deployment row, but the overlap of what follows
  is not explored.
- Two resources at once: the worker runs one job at a time and each module is one
  resource's, so what two share is the queue (`JobQueue` has any number, its runs one), the proxy
  (`Proxy`, its routes as one) and the build daemon (`Builder`, builds one after
  the other).
