--------------------------------- MODULE Proxy ---------------------------------
(***************************************************************************)
(* The reverse proxy: its bootstrap (caddy/bootstrap.ts), the calls of the  *)
(* admin API it makes (caddy/client.ts), the job that applies the           *)
(* dashboard's hostname (jobs/dashboard.ts, settings.ts), the route sync     *)
(* they share with domain forms, and the reconciler's watch over the proxy   *)
(* (reconciler.ts), with a proxy that dies or wedges, a port held by another *)
(* process, a broken image, failing calls and crashes of musdash.            *)
(*                                                                          *)
(* All resource routes are one, "app"; the dashboard's tail is "host", "ip"  *)
(* and "lost", the 404.  A call that fails may have been carried out.        *)
(***************************************************************************)
EXTENDS Naturals, Sequences, SequencesExt

CONSTANTS
  Host, NoHost, \* hostnames
  Ages,     \* what may be installed before the first boot: {"none", "gen1", "stale", "current"}
  MaxTries, \* attempts of a job other than a bootstrap
  MaxForms, \* bound: forms sent
  MaxFaults \* bound: failing calls, mishaps of the world, crashes

ASSUME ProxyConstants == NoHost \notin Host /\ Ages \subseteq {"none", "gen1", "stale", "current"}
ASSUME ProxyBounds == MaxTries \in Nat \ {0} /\ MaxForms \in Nat /\ MaxFaults \in Nat

VARIABLES
  box,       \* the proxy's container
  throwaway, \* the preflight's container is left
  conf,      \* the proxy's configuration, kept on its volume
  registry, cached, port, \* images to pull and on disk, host port 80
  dashboard, applied, appRow, \* rows: the dashboard's host, the one applied, domains
  queue, worker, \* waiting jobs; the loop, with the job in hand
  queued,    \* this process has queued a bootstrap in this five-minute bucket
  failed,    \* what no code records: a write of routes was given up on
  forms, faults

vars == <<box, throwaway, conf, registry, cached, port, dashboard, applied, appRow, queue, worker,
          queued, failed, forms, faults>>
world == <<registry, cached, port>>
rows == <<dashboard, appRow>>
jobs == <<queue, queued>>

NoBox == [made |-> "none", state |-> "exited", mapped |-> FALSE, wedged |-> FALSE, bad |-> FALSE]
Blank == [base |-> FALSE, routes |-> << >>, host |-> NoHost, app |-> {}, issuer |-> TRUE]
Job(kind) == [kind |-> kind, tries |-> 1]
Idle == [pc |-> "idle", job |-> Job("ensure"), adopted |-> FALSE, restarted |-> FALSE,
         host |-> NoHost, todo |-> << >>, left |-> FALSE]

Tail3 == <<"host", "ip", "lost">>
TailFor(h) == IF h = NoHost THEN <<"ip", "lost">> ELSE Tail3

TypeOK ==
  /\ box \in [made : {"none", "gen1", "stale", "current"}, state : {"exited", "running"},
              mapped : BOOLEAN, wedged : BOOLEAN, bad : BOOLEAN]
  /\ throwaway \in BOOLEAN
  /\ conf \in [base : BOOLEAN, routes : Seq({"app"} \cup Range(Tail3)), host : Host \cup {NoHost},
               app : SUBSET Host, issuer : BOOLEAN]
  /\ registry \in {"good", "bad"} /\ cached \in {"none", "good", "bad"} /\ port \in {"free", "held"}
  /\ dashboard \in Host \cup {NoHost} /\ applied \in Host \cup {NoHost} /\ appRow \subseteq Host
  /\ queue \in Seq([kind : {"ensure", "apply", "sync"}, tries : 1..MaxTries])
  /\ worker \in [pc : {"idle", "off", "look", "pull", "preflight", "replace", "create", "start",
                       "wait", "base", "verify", "sync", "drop", "append", "issuer"},
                 job : [kind : {"ensure", "apply", "sync"}, tries : 1..MaxTries],
                 adopted : BOOLEAN, restarted : BOOLEAN, host : Host \cup {NoHost},
                 todo : Seq(Range(Tail3)), left : BOOLEAN]
  /\ queued \in BOOLEAN /\ failed \in BOOLEAN
  /\ forms \in 0..MaxForms /\ faults \in 0..MaxFaults

\* Before a boot, with a proxy that runs, or none.
Init ==
  /\ \E age \in Ages :
       /\ box = IF age = "none" THEN NoBox
                ELSE [made |-> age, state |-> "running", mapped |-> TRUE, wedged |-> FALSE, bad |-> FALSE]
       /\ conf = IF age = "none" THEN Blank ELSE [Blank EXCEPT !.base = TRUE, !.routes = TailFor(NoHost)]
  /\ throwaway = FALSE
  /\ registry = "good" /\ cached = "none" /\ port = "free"
  /\ dashboard = NoHost /\ applied = NoHost /\ appRow = {}
  /\ queue = << >> /\ worker = [Idle EXCEPT !.pc = "off"] /\ queued = FALSE
  /\ failed = FALSE /\ forms = 0 /\ faults = 0

Fault == faults < MaxFaults /\ faults' = faults + 1
At(pc) == worker.pc = pc
Go(pc) == worker' = [worker EXCEPT !.pc = pc]
Answers == box.state = "running" /\ ~box.wedged
Serving == Answers /\ box.mapped

-----------------------------------------------------------------------------
(* The forms.                                                              *)

Form == forms < MaxForms /\ forms' = forms + 1 /\ ~At("off")

\* Clearing writes an empty row.  A name attached to a resource is refused.
SetDashboardHost ==
  /\ Form
  /\ dashboard' \in (Host \ appRow) \cup {NoHost}
  /\ queue' = Append(queue, Job("apply"))
  /\ UNCHANGED <<box, throwaway, conf, world, applied, appRow, worker, queued, failed, faults>>

AddDomain ==
  /\ Form
  /\ \E h \in Host \ (appRow \cup {dashboard}) : appRow' = appRow \cup {h}
  /\ queue' = Append(queue, Job("sync"))
  /\ UNCHANGED <<box, throwaway, conf, world, dashboard, applied, worker, queued, failed, faults>>

DeleteDomain ==
  /\ Form
  /\ \E h \in appRow : appRow' = appRow \ {h}
  /\ queue' = Append(queue, Job("sync"))
  /\ UNCHANGED <<box, throwaway, conf, world, dashboard, applied, worker, queued, failed, faults>>

-----------------------------------------------------------------------------
(* The worker: how a job begins and ends.                                  *)

GetDashboardHost_slip == applied
\* Read when a job needs it, never carried in its payload.
GetDashboardHost == dashboard

\* A job that waits for its next attempt is passed over.
Take ==
  /\ At("idle")
  /\ \E i \in DOMAIN queue :
       /\ \A k \in 1..(i - 1) : queue[k].tries > 1
       /\ queue' = RemoveAt(queue, i)
       /\ worker' = [Idle EXCEPT !.job = queue[i],
                                 !.host = IF queue[i].kind = "apply" THEN GetDashboardHost ELSE NoHost,
                                 !.pc = IF queue[i].kind = "ensure" THEN "look" ELSE "sync"]
  /\ UNCHANGED <<box, throwaway, conf, world, rows, applied, queued, failed, forms, faults>>

Throws_slip ==
  /\ worker' = Idle
  /\ IF worker.job.kind # "ensure"
     THEN queue' = << [worker.job EXCEPT !.tries = @ + 1] >> \o queue /\ UNCHANGED failed
     ELSE failed' = TRUE /\ UNCHANGED queue

\* A bootstrap has one attempt.
Throws ==
  /\ worker' = Idle
  /\ IF worker.job.kind # "ensure" /\ worker.job.tries < MaxTries
     THEN queue' = << [worker.job EXCEPT !.tries = @ + 1] >> \o queue /\ UNCHANGED failed
     ELSE failed' = TRUE /\ UNCHANGED queue

Returns ==
  /\ worker' = Idle
  /\ failed' = IF worker.job.kind = "sync" THEN failed \/ worker.left ELSE worker.left

-----------------------------------------------------------------------------
(* The bootstrap: a container of the current definition.                   *)

\* Network, volumes and the socket's directory; the proxy by name; the daemon's
\* memory.  A current one is adopted as it is.
Look ==
  /\ At("look")
  /\ \/ /\ worker' = [worker EXCEPT !.adopted = box.made = "current",
                                    !.pc = IF box.made = "current" THEN "start" ELSE "pull"]
        /\ UNCHANGED <<queue, failed, faults>>
     \/ Fault /\ Throws
  /\ UNCHANGED <<box, throwaway, conf, world, rows, applied, queued, forms>>

\* On every create: the tag floats.  A pull that fails is let pass when there is
\* an image.
Pull ==
  /\ At("pull")
  /\ \/ cached' = registry /\ UNCHANGED faults
     \/ Fault /\ UNCHANGED cached
  /\ IF cached' = "none" THEN Throws
     ELSE /\ Go(IF box.made = "none" THEN "create" ELSE "preflight")
          /\ UNCHANGED <<queue, failed>>
  /\ UNCHANGED <<box, throwaway, conf, registry, port, rows, applied, queued, forms>>

Preflight_slip ==
  /\ At("preflight") /\ Go("replace")
  /\ UNCHANGED <<box, throwaway, conf, world, rows, applied, jobs, failed, forms, faults>>

\* A throwaway copy must come up on its own socket.  Earlier ones are removed
\* first, and it is removed in any case, unless that fails too.
Preflight ==
  /\ At("preflight")
  /\ \/ /\ cached = "good" /\ Go("replace") /\ throwaway' = FALSE /\ UNCHANGED <<queue, failed, faults>>
     \/ /\ cached = "bad" /\ Throws /\ throwaway' = FALSE /\ UNCHANGED faults
     \/ /\ Fault /\ throwaway' \in BOOLEAN
        /\ \/ cached = "good" /\ throwaway' /\ Go("replace") /\ UNCHANGED <<queue, failed>>
           \/ Throws
  /\ UNCHANGED <<box, conf, world, rows, applied, queued, forms>>

\* A generation-1 autosave is elsewhere on the volume: the next starts blank.
Replace ==
  /\ At("replace")
  /\ \/ /\ box' = NoBox
        /\ conf' = IF box.made = "gen1" THEN Blank ELSE conf
        /\ Go("create") /\ UNCHANGED <<queue, failed, faults>>
     \/ Fault /\ Throws /\ UNCHANGED <<box, conf>>
  /\ UNCHANGED <<throwaway, world, rows, applied, queued, forms>>

Create ==
  /\ At("create")
  /\ \/ /\ box' = [NoBox EXCEPT !.made = "current", !.bad = cached = "bad"]
        /\ Go("start") /\ UNCHANGED <<queue, failed, faults>>
     \/ Fault /\ Throws /\ UNCHANGED box
  /\ UNCHANGED <<throwaway, conf, world, rows, applied, queued, forms>>

\* What the Engine makes of a start: one that is gone is an error; one that runs is left alone; one whose port
\* is held runs with nothing mapped.
Started(b) ==
  IF b.made = "none" \/ b.bad THEN [b EXCEPT !.state = "exited"]
  ELSE IF b.state = "running" THEN b
  ELSE [b EXCEPT !.state = "running", !.wedged = FALSE, !.mapped = port = "free"]

\* One created in this run that never came up is removed: it has the current
\* labels.  The removal may fail.
NeverCameUp(b) ==
  /\ Throws
  /\ \/ box' = (IF worker.adopted THEN b ELSE NoBox) /\ UNCHANGED faults
     \/ ~worker.adopted /\ Fault /\ box' = b

\* One just created must run and not have restarted.
Start ==
  /\ At("start")
  /\ LET b == Started(box)
     IN \/ /\ b.made # "none" /\ (worker.adopted \/ b.state = "running")
           /\ box' = b /\ Go("wait") /\ UNCHANGED <<queue, failed, faults>>
        \/ b.state # "running" /\ (b.made = "none" \/ ~worker.adopted) /\ NeverCameUp(b)
        \* the Engine refuses the port
        \/ port = "held" /\ box.state # "running" /\ NeverCameUp(box)
        \/ worker.adopted /\ Fault /\ Throws /\ UNCHANGED box
  /\ UNCHANGED <<throwaway, conf, world, rows, applied, queued, forms>>

\* waitForAdmin, and for an adopted proxy that is wedged one restart.
Wait ==
  /\ At("wait")
  /\ \/ /\ Serving /\ worker' = [worker EXCEPT !.pc = "base", !.adopted = FALSE, !.restarted = FALSE]
        /\ UNCHANGED <<box, queue, failed, faults>>
     \/ ~(box.state = "running" /\ box.mapped) /\ NeverCameUp(box)
     \/ /\ box.state = "running" /\ box.mapped /\ box.wedged
        /\ IF worker.adopted /\ ~worker.restarted
           THEN /\ box' = Started([box EXCEPT !.state = "exited"])
                /\ worker' = [worker EXCEPT !.restarted = TRUE]
                /\ UNCHANGED <<queue, failed, faults>>
           ELSE NeverCameUp(box)
  /\ UNCHANGED <<throwaway, conf, world, rows, applied, queued, forms>>

-----------------------------------------------------------------------------
(* The configuration.                                                      *)

\* One call of the admin API that makes `conf` into c, after which the worker
\* is w: it is carried out, or fails, whether carried out or not.
Call(c, w) ==
  \/ Answers /\ conf' = c /\ worker' = w /\ UNCHANGED <<queue, failed, faults>>
  \/ Answers /\ Fault /\ conf' \in {conf, c} /\ Throws
  \/ ~Answers /\ Throws /\ UNCHANGED <<conf, faults>>

\* Without srv0 the whole configuration is replaced.
EnsureBaseConfig ==
  /\ At("base")
  /\ Call(IF conf.base THEN conf ELSE [Blank EXCEPT !.base = TRUE], [worker EXCEPT !.pc = "verify"])
  /\ UNCHANGED <<box, throwaway, world, rows, applied, queued, forms>>

\* A request to port 80 itself.
VerifyServing ==
  /\ At("verify")
  /\ \/ Serving /\ Go("sync") /\ UNCHANGED <<queue, failed, faults>>
     \/ ~Serving /\ Throws /\ UNCHANGED faults
     \/ Fault /\ Throws
  /\ UNCHANGED <<box, throwaway, conf, world, rows, applied, queued, forms>>

Has(id) == id \in Range(conf.routes)

UpsertRoute_slip(hosts) ==
  [conf EXCEPT !.routes = IF Has("app") THEN @ ELSE Append(@, "app"), !.app = hosts]

\* Patched in place, or put in at the front.
UpsertRoute(hosts) ==
  [conf EXCEPT !.routes = IF Has("app") THEN @ ELSE <<"app">> \o @, !.app = hosts]

DeleteRoute(id) ==
  [conf EXCEPT !.routes = IF Has(id) THEN RemoveAt(@, CHOOSE i \in DOMAIN @ : @[i] = id) ELSE @,
               !.app = IF id = "app" THEN {} ELSE @, !.host = IF id = "host" THEN NoHost ELSE @]

AppendRoute(id) ==
  [conf EXCEPT !.routes = Append(@, id), !.host = IF id = "host" THEN worker.host ELSE @]

AppHosts == appRow \ {dashboard}

\* The route is as the rows say; without hosts there is none.
Synced ==
  IF AppHosts # {} THEN (IF conf.app = AppHosts /\ Has("app") THEN conf ELSE UpsertRoute(AppHosts))
  ELSE IF Has("app") THEN DeleteRoute("app") ELSE conf

\* The list of routes must be read; a route that cannot be written is left.
\* The host is read here for a bootstrap, at its start for an apply.
SyncResourceRoutes ==
  /\ At("sync")
  /\ \/ /\ conf.base /\ Answers
        /\ \/ conf' = Synced /\ UNCHANGED faults
           \/ Fault /\ conf' \in {conf, Synced}
        /\ LET left == worker.left \/ faults' # faults
           IN IF worker.job.kind = "sync"
              THEN worker' = Idle /\ failed' = (failed \/ left)
              ELSE /\ worker' = [worker EXCEPT !.pc = "drop", !.todo = Tail3, !.left = left,
                                   !.host = IF worker.job.kind = "ensure" THEN GetDashboardHost ELSE @]
                   /\ UNCHANGED failed
        /\ UNCHANGED queue
     \/ ~(conf.base /\ Answers) /\ Throws /\ UNCHANGED <<conf, faults>>
     \/ Fault /\ Throws /\ UNCHANGED conf
  /\ UNCHANGED <<box, throwaway, world, rows, applied, queued, forms>>

\* ensureDashboardRoutes: the tail is deleted, then appended again, in order.
DropTail ==
  /\ At("drop")
  /\ Call(DeleteRoute(Head(worker.todo)),
          IF Len(worker.todo) > 1 THEN [worker EXCEPT !.todo = Tail(@)]
          ELSE [worker EXCEPT !.pc = "append", !.todo = TailFor(worker.host)])
  /\ UNCHANGED <<box, throwaway, world, rows, applied, queued, forms>>

AppendTail ==
  /\ At("append")
  /\ Call(AppendRoute(Head(worker.todo)),
          IF Len(worker.todo) > 1 THEN [worker EXCEPT !.todo = Tail(@)] ELSE [worker EXCEPT !.pc = "issuer"])
  /\ UNCHANGED <<box, throwaway, world, rows, applied, queued, forms>>

\* The issuer, then the end of the job.  The checks that follow change nothing
\* here and cannot fail it.
EnsureTlsAutomation ==
  /\ At("issuer")
  /\ \/ /\ Answers /\ conf' = [conf EXCEPT !.issuer = TRUE] /\ Returns
        /\ applied' = IF worker.job.kind = "apply" THEN worker.host ELSE applied
        /\ UNCHANGED <<queue, faults>>
     \/ Answers /\ Fault /\ conf' \in {conf, [conf EXCEPT !.issuer = TRUE]} /\ Throws /\ UNCHANGED applied
     \/ ~Answers /\ Throws /\ UNCHANGED <<conf, applied, faults>>
  /\ UNCHANGED <<box, throwaway, world, rows, queued, forms>>

-----------------------------------------------------------------------------
(* The reconciler, and processes of musdash.                               *)

\* The id is the process and the bucket: a second job of both is refused.
QueueCaddyBootstrap(has) ==
  /\ queue' = IF has THEN queue ELSE Append(queue, Job("ensure"))
  /\ queued' = TRUE

EnsureCaddyQueued_slip ==
  /\ ~At("off") /\ box.state # "running"
  /\ QueueCaddyBootstrap(queued)
  /\ UNCHANGED <<box, throwaway, conf, world, rows, applied, worker, failed, forms, faults>>

\* Not running, or not answering on its socket.
EnsureCaddyQueued ==
  /\ ~At("off") /\ ~Answers
  /\ QueueCaddyBootstrap(queued)
  /\ UNCHANGED <<box, throwaway, conf, world, rows, applied, worker, failed, forms, faults>>

\* Bound: not while one waits, which a second would only repeat.
BucketRolls ==
  /\ queued /\ queued' = FALSE
  /\ \A i \in DOMAIN queue : queue[i].kind # "ensure"
  /\ UNCHANGED <<box, throwaway, conf, world, rows, applied, queue, worker, failed, forms, faults>>

\* A restart or a crash; the job in hand runs again.
Crash ==
  /\ ~At("off") /\ Fault
  /\ queue' = IF At("idle") THEN queue ELSE << worker.job >> \o queue
  /\ worker' = [Idle EXCEPT !.pc = "off"]
  /\ UNCHANGED <<box, throwaway, conf, world, rows, applied, queued, failed, forms>>

Boot_slip ==
  /\ At("off")
  /\ worker' = Idle
  /\ QueueCaddyBootstrap(queued)
  /\ \E same \in BOOLEAN : conf' = [conf EXCEPT !.issuer = @ /\ (same \/ ~conf.base)]
  /\ UNCHANGED <<box, throwaway, world, rows, applied, failed, forms, faults>>

\* The new process' ids are its own.  It may have another issuer.
Boot ==
  /\ At("off")
  /\ worker' = Idle
  /\ QueueCaddyBootstrap(FALSE)
  /\ \E same \in BOOLEAN : conf' = [conf EXCEPT !.issuer = @ /\ (same \/ ~conf.base)]
  /\ UNCHANGED <<box, throwaway, world, rows, applied, failed, forms, faults>>

-----------------------------------------------------------------------------
(* The world.                                                              *)

\* While musdash is down the host has another size, or a kernel with the sysctl.
HostChanges ==
  /\ At("off") /\ box.made = "current"
  /\ box' = [box EXCEPT !.made = "stale"]
  /\ UNCHANGED <<throwaway, conf, world, rows, applied, jobs, worker, failed, forms, faults>>

ProxyFails ==
  /\ Fault /\ box.made # "none"
  /\ box' \in {NoBox, [box EXCEPT !.state = "exited", !.wedged = FALSE], [box EXCEPT !.wedged = box.state = "running"]}
  /\ UNCHANGED <<throwaway, conf, world, rows, applied, jobs, worker, failed, forms>>

PortTaken ==
  /\ Fault /\ port = "free" /\ ~(box.state = "running" /\ box.mapped)
  /\ port' = "held"
  /\ UNCHANGED <<box, throwaway, conf, registry, cached, rows, applied, jobs, worker, failed, forms>>

ImageBreaks ==
  /\ Fault /\ registry = "good" /\ registry' = "bad"
  /\ UNCHANGED <<box, throwaway, conf, cached, port, rows, applied, jobs, worker, failed, forms>>

WorldMends ==
  /\ \/ registry = "bad" /\ registry' = "good" /\ UNCHANGED port
     \/ port = "held" /\ port' = "free" /\ UNCHANGED registry
  /\ UNCHANGED <<box, throwaway, conf, cached, rows, applied, jobs, worker, failed, forms, faults>>

Bootstrap ==
  \/ Look \/ Pull \/ Preflight \/ Replace \/ Create \/ Start \/ Wait \/ EnsureBaseConfig \/ VerifyServing
Work == Take \/ Bootstrap \/ SyncResourceRoutes \/ DropTail \/ AppendTail \/ EnsureTlsAutomation

Next ==
  \/ SetDashboardHost \/ AddDomain \/ DeleteDomain
  \/ Work \/ EnsureCaddyQueued \/ BucketRolls \/ Crash \/ Boot \/ HostChanges
  \/ ProxyFails \/ PortTaken \/ ImageBreaks \/ WorldMends

Spec == Init /\ [][Next]_vars

\* The worker polls for ever and each wait has a deadline; ticks and time go on;
\* systemd starts a process that is down.
FairSpec ==
  Spec /\ WF_vars(Work) /\ WF_vars(EnsureCaddyQueued) /\ WF_vars(BucketRolls) /\ WF_vars(Boot)

-----------------------------------------------------------------------------
(* Properties.                                                             *)

Rank(id) == CASE id = "app" -> 1 [] id = "host" -> 2 [] id = "ip" -> 3 [] id = "lost" -> 4
InOrder(routes) == \A i, j \in DOMAIN routes : i < j => Rank(routes[i]) < Rank(routes[j])

\* No route is there twice, also when a call that failed was carried out, and
\* the tail is behind the resources' routes, the 404 last: anything behind it
\* would never be reached (caddy/client.ts, ensureDashboardRoutes).  When the
\* queue has drained and no write was given up on, the tail is whole, the
\* dashboard's host is the row's and no resource's, and the issuer is of this
\* process.
RoutesOrdered ==
  /\ TypeOK
  /\ InOrder(conf.routes)
  /\ At("idle") /\ queue = << >> /\ ~failed =>
       /\ Has("ip") /\ Has("lost") /\ (Has("host") <=> dashboard # NoHost)
       /\ conf.host = dashboard /\ conf.app = AppHosts /\ conf.issuer

\* A bootstrap takes a proxy that serves away only to replace its definition,
\* by an image that came up in a preflight.
ServingKept ==
  [][Serving /\ ~Serving' /\ faults' = faults => At("replace") /\ cached = "good" /\ box.made # "current"]_vars

\* A proxy of an older definition, or whose cap no longer fits the host, is
\* replaced by the process that finds it, whatever job rows earlier ones left,
\* or a job of that process fails.
StaleReplaced ==
  At("off") /\ box.made \in {"gen1", "stale"} ~> box.made \notin {"gen1", "stale"} \/ failed

\* A proxy that is gone, exited or wedged answers again, while its image works
\* and its port is free, unless a container that never came up could not be
\* removed.
ProxyHeals == []<>(Answers \/ port = "held" \/ registry = "bad" \/ box.bad)

\* "The reconciler re-enqueues it soon enough": a bootstrap that fails is run
\* again, so the route that answers on the server's address comes back.
\* Refuted: README, section 3.
AddressComesBack == []<>(Has("ip"))
================================================================================
