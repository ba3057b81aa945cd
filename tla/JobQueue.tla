------------------------------ MODULE JobQueue ------------------------------
(***************************************************************************)
(* The SQLite job queue of queue/index.ts, the single worker loop of        *)
(* queue/worker.ts, and the request handlers that put deploys and stops     *)
(* into it or take them out (routes/app.ts, routes/github.ts,               *)
(* jobs/deploy.ts), with the process crashing, restarting and failing to    *)
(* write its database.                                                      *)
(*                                                                          *)
(* Handlers are synchronous on one connection, so each is one action.  A    *)
(* deploy handler is split where it awaits: claimed, marked running, source *)
(* fetched, ended, outcome recorded by the worker.                          *)
(*                                                                          *)
(* A deploy's deployment row is written first and its job second, with no   *)
(* transaction, so the row is indexed by the job's id and either may be     *)
(* there without the other.  Ids are handed out in order; created is the    *)
(* jobs.created_at stamp, which two jobs may share.  run_after is kept as   *)
(* the time left until it passes.                                           *)
(*                                                                          *)
(* A definition whose name ends in _slip is a plausible mistake in the      *)
(* definition below it; nothing uses it but the runs that show a property   *)
(* would notice the mistake.                                                *)
(***************************************************************************)
EXTENDS Integers, Sequences, FiniteSets

CONSTANTS
  Resource,      \* git resources, or stacks when StopCanThrow
  MaxJobs,       \* bound: jobs ever enqueued
  MaxPushes,     \* bound: commits pushed to a resource's branch
  MaxCrashes,    \* bound: process deaths
  MaxDbErrors,   \* bound: failed writes of a job or of an outcome
  StopAttempts,  \* jobs.max_attempts of a stop (the default of enqueue)
  Backoff,       \* BACKOFF_SEC, in ticks of the model's clock
  StopCanThrow,  \* TRUE for stacks, whose stop fails when compose stop does
  SharedStamps   \* TRUE when two requests may fall into one millisecond

ASSUME BoundsAssumption ==
  /\ MaxJobs \in Nat /\ MaxPushes \in Nat
  /\ MaxCrashes \in Nat /\ MaxDbErrors \in Nat
ASSUME AttemptsAssumption == StopAttempts \in Nat \ {0}
ASSUME BackoffAssumption == Backoff \in Seq(Nat) /\ Backoff # << >>
ASSUME FlagsAssumption == StopCanThrow \in BOOLEAN /\ SharedStamps \in BOOLEAN

JobId == 1..MaxJobs
NoJob == 0

\* "branch" builds the branch head (Deploy, push); "repeat" deploys an image
\* or a commit chosen earlier (Roll back, Deploy this again), which is what
\* BRANCH_BUILD in jobs/deploy.ts tells apart.
DeployKind == {"branch", "repeat"}
Kind == DeployKind \cup {"stop"}
JobStatus == {"pending", "leased", "done", "failed", "cancelled"}
Finished == {"done", "failed", "cancelled"}

VARIABLES
  jobs,         \* the jobs table; an id with no row has status "none"
  deployments,  \* the deployment row of each deploy job
  enqueued,     \* how many jobs were ever enqueued: the last id
  clock,        \* the newest created_at stamp
  worker,       \* the job the worker is on and how far its handler got
  process,      \* "up", "stopping" (restart requested) or "down"
  head,         \* the newest commit on each resource's branch
  crashes, dbErrors,
  \* What was asked for, which no code records: the newest push delivered and
  \* not answered yet, the newest push each job answers, the job that answers
  \* the newest request, and the job whose handler ended last.
  owed, carries, answer, lastRun,
  \* And which write about a deployment was lost, which jobs a failure put
  \* back behind younger ones, and which share their stamp with the answer.
  missed, late, tied

rows == <<jobs, deployments, enqueued, clock, missed>>
order == <<answer, lastRun, late, tied>>
asked == <<owed, carries, answer, lastRun, late, tied>>
faults == <<crashes, dbErrors>>
vars == <<jobs, deployments, enqueued, clock, worker, process, head,
          crashes, dbErrors, owed, carries, answer, lastRun, missed, late, tied>>

NoRow == [kind |-> "none", resource |-> "none", status |-> "none",
          attempts |-> 0, delay |-> 0, created |-> 0]
JobRow == [kind : Kind, resource : Resource, status : JobStatus,
           attempts : Nat, delay : Nat, created : Nat]

NoDeployment == [status |-> "none", commit |-> 0]
DeploymentRow ==
  [status : {"queued", "running", "succeeded", "failed", "cancelled"},
   commit : Nat]

Idle == [job |-> NoJob, phase |-> "idle"]
HandlerPhase == {"claimed", "started", "fetched", "returned", "threw"}

TypeOK ==
  /\ jobs \in [JobId -> JobRow \cup {NoRow}]
  /\ deployments \in [JobId -> DeploymentRow \cup {NoDeployment}]
  /\ enqueued \in 0..MaxJobs
  /\ clock \in Nat
  /\ worker \in [job : JobId, phase : HandlerPhase] \cup {Idle}
  /\ process \in {"up", "stopping", "down"}
  /\ head \in [Resource -> Nat]
  /\ crashes \in Nat /\ dbErrors \in Nat
  /\ owed \in [Resource -> Nat]
  /\ carries \in [JobId -> Nat]
  /\ answer \in [Resource -> 0..MaxJobs]
  /\ lastRun \in [Resource -> 0..MaxJobs]
  /\ missed \in [JobId -> {"nothing", "job", "outcome"}]
  /\ late \subseteq JobId
  /\ tied \in [Resource -> SUBSET JobId]

\* A resource with a history: its finished jobs are pruned, its deployments
\* and its previous image are still there to roll back to or repeat.
Init ==
  /\ jobs = [j \in JobId |-> NoRow]
  /\ deployments = [j \in JobId |-> NoDeployment]
  /\ enqueued = 0
  /\ clock = 0
  /\ worker = Idle
  /\ process = "up"
  /\ head = [r \in Resource |-> 0]
  /\ crashes = 0 /\ dbErrors = 0
  /\ owed = [r \in Resource |-> 0]
  /\ carries = [j \in JobId |-> 0]
  /\ answer = [r \in Resource |-> NoJob]
  /\ lastRun = [r \in Resource |-> NoJob]
  /\ missed = [j \in JobId |-> "nothing"]
  /\ late = {} /\ tied = [r \in Resource |-> {}]

-----------------------------------------------------------------------------
(* Queries on the jobs table.                                              *)

WithStatus(s) == {j \in JobId : jobs[j].status = s}

Oldest(S) == {j \in S : \A k \in S : jobs[j].created <= jobs[k].created}

\* Only "pending" is claimable; among those whose run_after has passed the
\* oldest, and any of them when created_at is equal.
Claimable(table) ==
  LET due == {j \in JobId : table[j].status = "pending" /\ table[j].delay = 0}
  IN {j \in due : \A k \in due : table[j].created <= table[k].created}

\* findPendingJob("deploy", {resourceId, ...BRANCH_BUILD})
PendingBuild(r) ==
  Oldest({j \in WithStatus("pending") :
            jobs[j].kind = "branch" /\ jobs[j].resource = r})

\* findLeasedJobs("deploy", {resourceId, ...BRANCH_BUILD})
LeasedBuilds(r) ==
  {j \in WithStatus("leased") : jobs[j].kind = "branch" /\ jobs[j].resource = r}

HasPendingJobAfter_slip(j, r) ==
  \E k \in WithStatus("pending") \ {j} :
    jobs[k].resource = r /\ jobs[k].created > jobs[j].created

\* An equal stamp counts as after: claim's order between the two is undefined.
HasPendingJobAfter(j, r) ==
  \E k \in WithStatus("pending") \ {j} :
    jobs[k].resource = r /\ jobs[k].created >= jobs[j].created

ActiveJobs_slip == WithStatus("pending")

\* activeJobCount: queued and in flight alike.
ActiveJobs == WithStatus("pending") \cup WithStatus("leased")

MaxAttempts_slip(kind) == StopAttempts

\* DEPLOY_MAX_ATTEMPTS is 1; a stop has the default of enqueue.
MaxAttempts(kind) == IF kind = "stop" THEN StopAttempts ELSE 1

\* The wait after the n-th attempt failed: the last entry repeats.
BackoffAfter(n) == Backoff[IF n > Len(Backoff) THEN Len(Backoff) ELSE n]

-----------------------------------------------------------------------------
(* Request handlers.                                                       *)

\* No request is served between a handler's throw and the worker's record of
\* it: nothing is awaited there.
Serving == process \in {"up", "stopping"} /\ worker.phase # "threw"

\* Of two writes in a row the second fails, or the process dies before it.
SecondWriteLost ==
  \/ /\ dbErrors < MaxDbErrors
     /\ dbErrors' = dbErrors + 1
     /\ UNCHANGED <<process, crashes>>
  \/ /\ crashes < MaxCrashes
     /\ crashes' = crashes + 1
     /\ process' = "down"
     /\ UNCHANGED dbErrors

\* Inserts a job, and for a deploy the deployment row it belongs to.
Enqueue(kind, r) ==
  LET j == enqueued + 1 IN
  /\ enqueued < MaxJobs
  /\ \E stamp \in (IF SharedStamps THEN {clock, clock + 1} ELSE {clock + 1}) :
       /\ jobs' = [jobs EXCEPT ![j] =
                    [kind |-> kind, resource |-> r, status |-> "pending",
                     attempts |-> 0, delay |-> 0, created |-> stamp]]
       /\ clock' = stamp
  /\ deployments' = IF kind \in DeployKind
                    THEN [deployments EXCEPT ![j] = [status |-> "queued", commit |-> 0]]
                    ELSE deployments
  /\ enqueued' = j
  /\ UNCHANGED missed

\* The new job answers the newest request; claim may take it before or after
\* one that has its stamp.
AnsweredByNew(r) ==
  /\ answer' = [answer EXCEPT ![r] = enqueued + 1]
  /\ tied' = [tied EXCEPT ![r] =
                {k \in ActiveJobs : jobs[k].resource = r /\ jobs[k].created = clock'}]
  /\ UNCHANGED <<lastRun, late>>

\* The user asks for something the new job will do.
AskFor(kind, r) ==
  /\ Serving
  /\ Enqueue(kind, r)
  /\ AnsweredByNew(r)
  /\ UNCHANGED <<worker, process, head, faults, owed, carries>>

\* createDeployment is committed, the insert of its job is not: the request
\* answers with an error, or not at all.
DeploymentOnly(r) ==
  LET j == enqueued + 1 IN
  /\ enqueued < MaxJobs
  /\ enqueued' = j
  /\ deployments' = [deployments EXCEPT ![j] = [status |-> "queued", commit |-> 0]]
  /\ missed' = [missed EXCEPT ![j] = "job"]
  /\ SecondWriteLost
  /\ worker' = IF process' = "down" THEN Idle ELSE worker
  /\ UNCHANGED <<jobs, clock, owed, carries, order>>

DeployLost(r) == Serving /\ DeploymentOnly(r) /\ UNCHANGED head

Stop(r) == AskFor("stop", r)
RepeatDeploy(r) == AskFor("repeat", r)

PendingDeploymentFor_slip(r) == PendingBuild(r)

\* The waiting build a press of Deploy may be sent to: the oldest one, if no
\* other job of the resource is queued behind it (pendingDeploymentFor).
PendingDeploymentFor(r) == {j \in PendingBuild(r) : ~HasPendingJobAfter(j, r)}

DeployFolded(r) ==
  /\ Serving
  /\ \E j \in PendingDeploymentFor(r) :
       /\ answer' = [answer EXCEPT ![r] = j]
       /\ tied' = [tied EXCEPT ![r] =
                     {k \in WithStatus("leased") :
                        jobs[k].resource = r /\ jobs[k].created = jobs[j].created}]
  /\ UNCHANGED <<rows, worker, process, head, faults, owed, carries, lastRun, late>>

DeployQueued(r) ==
  /\ PendingBuild(r) \ PendingDeploymentFor(r) # {} \/ PendingBuild(r) = {}
  /\ AskFor("branch", r)

\* A delivery of the push that moved the branch to commit n: a new commit, or
\* a redelivery of an old one.
Delivered(r, n) ==
  /\ n \in 1..(head[r] + 1) /\ n <= MaxPushes
  /\ head' = [head EXCEPT ![r] = IF n > @ THEN n ELSE @]
  /\ owed' = [owed EXCEPT ![r] = IF n > @ THEN n ELSE @]

CarriedBy(j, n) ==
  carries' = [carries EXCEPT ![j] = IF n > @ THEN n ELSE @]

BuildingExactly_slip(r, n) == {j \in LeasedBuilds(r) : deployments[j].commit = n}

\* A leased build whose deployment runs and fetched exactly this commit.
BuildingExactly(r, n) ==
  {j \in LeasedBuilds(r) :
     deployments[j].status = "running" /\ deployments[j].commit = n}

PushFolded(r, n) ==
  /\ Serving /\ Delivered(r, n)
  /\ \E j \in PendingBuild(r) : CarriedBy(j, n)
  /\ UNCHANGED <<rows, worker, process, faults, order>>

PushAlreadyRunning(r, n) ==
  /\ Serving /\ Delivered(r, n)
  /\ PendingBuild(r) = {}
  /\ \E j \in BuildingExactly(r, n) : CarriedBy(j, n)
  /\ UNCHANGED <<rows, worker, process, faults, order>>

PushQueued(r, n) ==
  /\ Serving /\ Delivered(r, n)
  /\ PendingBuild(r) = {}
  /\ BuildingExactly(r, n) = {}
  /\ Enqueue("branch", r)
  /\ CarriedBy(enqueued + 1, n)
  /\ AnsweredByNew(r)
  /\ UNCHANGED <<worker, process, faults>>

\* The webhook does not acknowledge it, so nobody counts on this delivery.
PushLost(r, n) ==
  /\ Serving
  /\ n \in 1..(head[r] + 1) /\ n <= MaxPushes
  /\ head' = [head EXCEPT ![r] = IF n > @ THEN n ELSE @]
  /\ PendingBuild(r) = {}
  /\ BuildingExactly(r, n) = {}
  /\ DeploymentOnly(r)

Cancellable_slip(j) == j \in ActiveJobs /\ jobs[j].kind \in DeployKind

\* The guard of cancelPendingDeploy's one UPDATE.
Cancellable(j) == j \in WithStatus("pending") /\ jobs[j].kind \in DeployKind

\* cancelQueuedDeploy: the job and its deployment row in one transaction.  The
\* user drops every push and press that was folded into the deploy.
Cancel(j) ==
  LET r == jobs[j].resource IN
  /\ Serving
  /\ Cancellable(j)
  /\ jobs' = [jobs EXCEPT ![j].status = "cancelled"]
  /\ deployments' = [deployments EXCEPT ![j].status = "cancelled"]
  /\ owed' = [owed EXCEPT ![r] = IF carries[j] >= @ THEN 0 ELSE @]
  /\ answer' = [answer EXCEPT ![r] = IF @ = j THEN NoJob ELSE @]
  /\ UNCHANGED <<enqueued, clock, missed, worker, process, head, faults, carries,
                 lastRun, late, tied>>

-----------------------------------------------------------------------------
(* The worker loop.                                                        *)

ClaimFrom(table) ==
  \E j \in Claimable(table) :
    /\ jobs' = [table EXCEPT ![j].status = "leased", ![j].attempts = @ + 1]
    /\ worker' = [job |-> j, phase |-> "claimed"]

Claim ==
  /\ process = "up" /\ worker = Idle
  /\ ClaimFrom(jobs)
  /\ UNCHANGED <<deployments, enqueued, clock, missed, process, head, faults, asked>>

\* Handlers run between the worker's claim and its record of the outcome.
HandlerStep(from, to) ==
  /\ process = "up"
  /\ worker.phase \in from
  /\ worker' = [worker EXCEPT !.phase = to]

MarkRunning ==
  LET j == worker.job IN
  /\ HandlerStep({"claimed"}, "started")
  /\ jobs[j].kind \in DeployKind
  /\ deployments' = [deployments EXCEPT ![j].status = "running"]
  /\ missed' = [missed EXCEPT ![j] = "nothing"]
  /\ UNCHANGED <<jobs, enqueued, clock, process, head, faults, asked>>

\* A build fetches the branch's newest commit and records it.
FetchSource ==
  LET j == worker.job IN
  /\ HandlerStep({"started"}, "fetched")
  /\ jobs[j].kind = "branch"
  /\ deployments' = [deployments EXCEPT ![j].commit = head[jobs[j].resource]]
  /\ UNCHANGED <<jobs, enqueued, clock, missed, process, head, faults, asked>>

\* A push is answered once a job it was given to has ended: built at that
\* commit or a newer one, or failed before it fetched, which the user sees.
Answered(j) ==
  LET r == jobs[j].resource IN
  /\ owed' = [owed EXCEPT ![r] =
       IF /\ carries[j] >= @
          /\ deployments[j].commit >= @ \/ worker.phase \in {"claimed", "started"}
       THEN 0 ELSE @]
  /\ lastRun' = [lastRun EXCEPT ![r] = j]

DeploySucceeds ==
  LET j == worker.job IN
  /\ \/ HandlerStep({"fetched"}, "returned")
     \/ HandlerStep({"started"}, "returned") /\ jobs[j].kind # "branch"
  /\ deployments' = [deployments EXCEPT ![j].status = "succeeded"]
  /\ Answered(j)
  /\ UNCHANGED <<jobs, enqueued, clock, missed, process, head, faults, carries,
                 answer, late, tied>>

\* runDeploy's catch marks the deployment failed before it rethrows, or throws
\* in that write and leaves the deployment running.
DeployThrows ==
  LET j == worker.job IN
  /\ HandlerStep({"started", "fetched"}, "threw")
  /\ \/ /\ deployments' = [deployments EXCEPT ![j].status = "failed"]
        /\ UNCHANGED <<missed, dbErrors>>
     \/ /\ dbErrors < MaxDbErrors
        /\ dbErrors' = dbErrors + 1
        /\ missed' = [missed EXCEPT ![j] = "outcome"]
        /\ UNCHANGED deployments
  /\ Answered(j)
  /\ UNCHANGED <<jobs, enqueued, clock, process, head, crashes, carries,
                 answer, late, tied>>

StopReturns ==
  LET j == worker.job IN
  /\ HandlerStep({"claimed"}, "returned")
  /\ jobs[j].kind = "stop"
  /\ lastRun' = [lastRun EXCEPT ![jobs[j].resource] = j]
  /\ UNCHANGED <<rows, process, head, faults, owed, carries, answer, late, tied>>

StopThrows ==
  /\ StopCanThrow
  /\ HandlerStep({"claimed"}, "threw")
  /\ jobs[worker.job].kind = "stop"
  /\ lastRun' = [lastRun EXCEPT ![jobs[worker.job].resource] = worker.job]
  /\ UNCHANGED <<rows, process, head, faults, owed, carries, answer, late, tied>>

Complete ==
  /\ process = "up" /\ worker.phase = "returned"
  /\ jobs' = [jobs EXCEPT ![worker.job].status = "done"]
  /\ worker' = Idle
  /\ UNCHANGED <<deployments, enqueued, clock, missed, process, head, faults, asked>>

\* complete() is inside the worker's try: its own error reads as the job's.
CompleteThrows ==
  /\ dbErrors < MaxDbErrors
  /\ HandlerStep({"returned"}, "threw")
  /\ dbErrors' = dbErrors + 1
  /\ UNCHANGED <<rows, process, head, crashes, asked>>

RetryLater ==
  LET j == worker.job IN
  /\ process = "up" /\ worker.phase = "threw"
  /\ jobs[j].attempts < MaxAttempts(jobs[j].kind)
  /\ jobs' = [jobs EXCEPT ![j].status = "pending",
                          ![j].delay = BackoffAfter(jobs[j].attempts)]
  /\ worker' = Idle
  /\ late' = IF jobs[j].kind = "stop" THEN late \cup {j} ELSE late
  /\ UNCHANGED <<deployments, enqueued, clock, missed, process, head, faults,
                 owed, carries, answer, lastRun, tied>>

GiveUp_slip ==
  LET j == worker.job IN
  /\ process = "up" /\ worker.phase = "threw"
  /\ jobs[j].attempts >= MaxAttempts(jobs[j].kind)
  /\ jobs' = [jobs EXCEPT ![j].status = "failed"]
  /\ worker' = Idle
  /\ UNCHANGED <<deployments, enqueued, clock, missed, process, head, faults, asked>>

\* fail() is committed first.  A deployment that does not read failed yet is
\* marked by a write of its own, which may be lost.
GiveUp ==
  LET j == worker.job IN
  /\ process = "up" /\ worker.phase = "threw"
  /\ jobs[j].attempts >= MaxAttempts(jobs[j].kind)
  /\ jobs' = [jobs EXCEPT ![j].status = "failed"]
  /\ worker' = Idle
  /\ \/ /\ jobs[j].kind \notin DeployKind
        /\ UNCHANGED <<deployments, missed, process, faults>>
     \/ /\ jobs[j].kind \in DeployKind
        /\ deployments' = [deployments EXCEPT ![j].status = "failed"]
        /\ missed' = [missed EXCEPT ![j] = "nothing"]
        /\ UNCHANGED <<process, faults>>
     \/ /\ jobs[j].kind \in DeployKind /\ deployments[j].status # "failed"
        /\ missed' = [missed EXCEPT ![j] = "outcome"]
        /\ SecondWriteLost
        /\ UNCHANGED deployments
  /\ UNCHANGED <<enqueued, clock, head, asked>>

\* fail() throws too: the loop logs it and goes on, the row stays leased until
\* the next start runs it again.
FailThrows ==
  /\ process = "up" /\ worker.phase = "threw"
  /\ dbErrors < MaxDbErrors
  /\ dbErrors' = dbErrors + 1
  /\ worker' = Idle
  /\ late' = late \cup {worker.job}
  /\ UNCHANGED <<rows, process, head, crashes, owed, carries, answer, lastRun, tied>>

-----------------------------------------------------------------------------
(* Time, pruning, and the process.                                         *)

Tick ==
  /\ \E j \in WithStatus("pending") : jobs[j].delay > 0
  /\ jobs' = [j \in JobId |->
               IF jobs[j].status = "pending" /\ jobs[j].delay > 0
               THEN [jobs[j] EXCEPT !.delay = @ - 1] ELSE jobs[j]]
  /\ UNCHANGED <<deployments, enqueued, clock, missed, worker, process, head, faults, asked>>

\* The daily prune deletes finished jobs created before a cutoff.
PruneFinishedJobs ==
  /\ Serving
  /\ \E cutoff \in 1..(clock + 1) :
       LET old == {j \in JobId : jobs[j].status \in Finished /\ jobs[j].created < cutoff}
       IN /\ old # {}
          /\ jobs' = [j \in JobId |-> IF j \in old THEN NoRow ELSE jobs[j]]
  /\ UNCHANGED <<deployments, enqueued, clock, missed, worker, process, head, faults, asked>>

\* The dashboard's restart is refused while any job is active; otherwise the
\* worker stops at once and the process exits after the response went out.
RequestRestart ==
  /\ process = "up"
  /\ ActiveJobs = {}
  /\ process' = "stopping"
  /\ UNCHANGED <<rows, worker, head, faults, asked>>

Exit ==
  /\ process = "stopping"
  /\ process' = "down"
  /\ UNCHANGED <<rows, worker, head, faults, asked>>

Crash ==
  /\ process # "down"
  /\ crashes < MaxCrashes
  /\ crashes' = crashes + 1
  /\ process' = "down"
  /\ worker' = Idle
  /\ UNCHANGED <<rows, head, dbErrors, asked>>

RecoverOrphanedLeases_slip1 == jobs
RecoverOrphanedLeases_slip2 ==
  [j \in JobId |-> IF jobs[j].status \in {"leased", "cancelled"}
                   THEN [jobs[j] EXCEPT !.status = "pending"]
                   ELSE jobs[j]]
RecoverOrphanedLeases_slip3 ==
  [j \in JobId |-> IF jobs[j].status = "leased"
                   THEN [jobs[j] EXCEPT !.status = "queued"]
                   ELSE jobs[j]]

\* Every lease found at startup belongs to a dead process.
RecoverOrphanedLeases ==
  [j \in JobId |-> IF jobs[j].status = "leased"
                   THEN [jobs[j] EXCEPT !.status = "pending"]
                   ELSE jobs[j]]

\* startWorker: recovery and the loop's first claim, with no await between.
Boot ==
  /\ process = "down"
  /\ process' = "up"
  /\ \/ ClaimFrom(RecoverOrphanedLeases)
     \/ /\ Claimable(RecoverOrphanedLeases) = {}
        /\ jobs' = RecoverOrphanedLeases
        /\ worker' = Idle
  /\ UNCHANGED <<deployments, enqueued, clock, missed, head, faults, asked>>

-----------------------------------------------------------------------------
Request ==
  \/ \E r \in Resource :
       \/ Stop(r) \/ RepeatDeploy(r)
       \/ DeployFolded(r) \/ DeployQueued(r) \/ DeployLost(r)
       \/ \E n \in 1..MaxPushes :
            \/ PushFolded(r, n) \/ PushAlreadyRunning(r, n) \/ PushQueued(r, n)
            \/ PushLost(r, n)
  \/ \E j \in JobId : Cancel(j)

Handler ==
  \/ MarkRunning \/ FetchSource \/ DeploySucceeds \/ DeployThrows
  \/ StopReturns \/ StopThrows

Work ==
  \/ Claim \/ Handler \/ Complete \/ RetryLater \/ GiveUp

Fault == CompleteThrows \/ FailThrows \/ Crash

Next == Request \/ Work \/ Fault \/ Tick \/ PruneFinishedJobs
        \/ RequestRestart \/ Exit \/ Boot

Spec == Init /\ [][Next]_vars

\* The loop polls for ever, every handler ends (each wait in it has a
\* deadline), time passes, and systemd starts the process again.
Fairness == WF_vars(Work) /\ WF_vars(Tick) /\ WF_vars(Boot) /\ WF_vars(Exit)

FairSpec == Spec /\ Fairness
-----------------------------------------------------------------------------
(* Properties.                                                             *)

\* A worker's job is leased: the claim, the recovery, the prune and a cancel
\* never disagree about who holds a job.
WorkerHoldsLease ==
  worker.job # NoJob => jobs[worker.job].status = "leased"

\* A deployment that reads queued or running has a job that will run, and a
\* finished job and its deployment tell the same story, whichever of the
\* worker, a cancel, a failed write or a crash ended it, unless a write about
\* it was lost; and two must be lost before one reads running for ever, since
\* the worker marks what runDeploy's catch could not.
OutcomesAgree ==
  \A j \in JobId :
    /\ deployments[j].status \in {"queued", "running"} /\ j \notin ActiveJobs =>
         /\ missed[j] # "nothing"
         /\ deployments[j].status = "running" => dbErrors # 0 /\ dbErrors + crashes >= 2
    /\ jobs[j].kind \in DeployKind =>
         /\ jobs[j].status = "done" => deployments[j].status = "succeeded"
         /\ jobs[j].status = "failed" /\ missed[j] = "nothing" =>
              deployments[j].status = "failed"
         /\ jobs[j].status = "cancelled" <=> deployments[j].status = "cancelled"

\* "A job that gives up must not leave its deployment claiming to be running":
\* a deployment in flight always has its job.
\* Refuted: README, section 3.
InFlightHasJob ==
  \A j \in JobId : deployments[j].status \in {"queued", "running"} => j \in ActiveJobs

\* A job that builds the push, or will fetch it.
Holds(j, r) ==
  /\ jobs[j].kind = "branch" /\ jobs[j].resource = r
  /\ carries[j] >= owed[r]
  /\ \/ jobs[j].status = "pending"
     \/ process = "down" /\ jobs[j].status = "leased"
     \/ /\ worker.job = j
        /\ \/ worker.phase \in {"claimed", "started"}
           \/ deployments[j].commit >= owed[r]

\* A push that reached the webhook is in the hands of a build that has it or
\* will fetch it, until one has ended: folding, the running-commit check and
\* a stale lease never swallow it (T-1, D52, D59).  The one lease that may
\* hold it with nothing at work is that of a build whose failure could be
\* written neither to its deployment nor to its job; it runs at the next start.
PushInHand ==
  \A r \in Resource : owed[r] # 0 =>
    \E j \in JobId :
      \/ Holds(j, r)
      \/ /\ jobs[j].kind = "branch" /\ jobs[j].resource = r
         /\ carries[j] >= owed[r]
         /\ jobs[j].status = "leased" /\ missed[j] = "outcome" /\ dbErrors >= 2

\* A delivery answered "already building" is being built.
\* Refuted: README, section 3.
PushAtWork == \A r \in Resource : owed[r] # 0 => \E j \in JobId : Holds(j, r)

\* Once nothing of a resource is queued or running, the handler that ran last
\* is the one for what the user (or a push of its own job) asked for last:
\* folding, cancelling, crashing and failing keep the order of requests.  Only
\* a stop put back for a retry, a job whose lease was left behind by a failed
\* write, and one enqueued in the millisecond of the newest request may come
\* after it: a deploy is never retried, and none is folded into a waiting job
\* that another of the same millisecond may follow.
LastAskRunsLast ==
  \A r \in Resource :
    (/\ \A j \in ActiveJobs : jobs[j].resource # r
     /\ answer[r] # NoJob)
      => lastRun[r] \in {answer[r]} \cup late \cup tied[r]

\* A deploy that succeeded for the newest request is what its resource ends
\* on: no older job of the resource runs after it.
\* Refuted: README, section 3.
DeployAskedLastIsFinal ==
  \A r \in Resource :
    (/\ \A j \in ActiveJobs : jobs[j].resource # r
     /\ answer[r] # NoJob
     /\ deployments[answer[r]].status = "succeeded")
      => lastRun[r] = answer[r]

\* A cancelled deploy was never claimed: "a 'cancelled' job never ran".
\* Refuted: README, section 3.
CancelledNeverRan ==
  \A j \in WithStatus("cancelled") : jobs[j].attempts = 0

\* A restart from the dashboard interrupts no handler.
RestartInterruptsNothing ==
  process = "stopping" => worker = Idle /\ WithStatus("leased") = {}

\* The restart button is refused "a job is running, try again in a moment"
\* only while one is queued or the worker is on one.
\* Refuted: README, section 3.
BlockedMeansBusy ==
  process = "up" /\ ActiveJobs # {} =>
    WithStatus("pending") # {} \/ worker # Idle

\* A deploy's handler runs once, and once more for each time the process died
\* under it: nothing else retries it.
DeployRunsOncePerLife ==
  \A j \in JobId :
    jobs[j].kind \in DeployKind => jobs[j].attempts <= 1 + crashes

\* Every job reaches an end, through crashes, restarts and retries.
JobsEnd ==
  \A j \in JobId :
    jobs[j].status = "pending" ~> jobs[j].status \in Finished \cup {"none"}

-----------------------------------------------------------------------------
(* What the queue promises its callers.                                    *)

PhaseOfStatus ==
  [none |-> "forgotten", pending |-> "waiting", leased |-> "waiting",
   done |-> "done", failed |-> "failed", cancelled |-> "withdrawn"]

PhaseOf(j) ==
  IF j > enqueued \/ missed[j] = "job" THEN "unknown"
  ELSE IF worker.job = j THEN "running"
  ELSE PhaseOfStatus[jobs[j].status]

Contract == INSTANCE JobContract WITH
              Job <- JobId, phase <- [j \in JobId |-> PhaseOf(j)]

\* The jobs table and the worker loop implement the contract: a job is lost,
\* run twice at once, or run after its end by no interleaving of requests,
\* worker, crashes, restarts and failed writes.
ContractSpec == Contract!Spec
=============================================================================
