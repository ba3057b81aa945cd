--------------------------- MODULE JobQueueProofs ---------------------------
(***************************************************************************)
(* What holds of JobQueue for every number of resources, jobs, pushes,      *)
(* crashes and failed writes: first that a leased job has its worker and    *)
(* that JobContract is kept, then what becomes of jobs and requests. A job  *)
(* and its deployment end alike, a deploy runs no more often than the       *)
(* process died under it, a push stays in hand, and the last request of a   *)
(* resource is the last to run, but for what a retry, a failed write or a   *)
(* shared stamp puts behind it.                                             *)
(***************************************************************************)
EXTENDS JobQueue, TLAPS

\* Only enqueued ids have rows, and a deploy job has its deployment row.
RowsAreEnqueued == \A j \in JobId : jobs[j].status # "none" => j <= enqueued
DeploysHaveRows ==
  \A j \in JobId : jobs[j].kind \in DeployKind => deployments[j].status # "none"

\* A job is leased only by a claim, which counts it.
LeasedWasClaimed ==
  \A j \in JobId : jobs[j].status = "leased" => jobs[j].attempts # 0

\* What a step may rely on: every row the worker touches is a real row.
LeaseInv ==
  /\ TypeOK /\ WorkerHoldsLease
  /\ RowsAreEnqueued /\ DeploysHaveRows /\ LeasedWasClaimed

LEMMA InitLease == Init => LeaseInv
  BY BoundsAssumption, SMT DEF Init, LeaseInv, TypeOK, WorkerHoldsLease, RowsAreEnqueued, DeploysHaveRows,
     LeasedWasClaimed, JobId, NoJob, Idle, NoRow, NoDeployment, DeployKind

\* The row of the worker's job is a job row.
LEMMA WorkerRow ==
  ASSUME LeaseInv, worker # Idle
  PROVE  /\ worker.job \in JobId
         /\ worker.phase \in HandlerPhase
         /\ worker = [job |-> worker.job, phase |-> worker.phase]
         /\ jobs[worker.job].status = "leased"
         /\ jobs[worker.job] \in JobRow
  BY DEF LeaseInv, TypeOK, WorkerHoldsLease, JobId, NoJob, NoRow, JobRow

\* The row of a pending or leased job is a job row.
LEMMA ActiveRow ==
  ASSUME LeaseInv, NEW j \in JobId, jobs[j].status # "none"
  PROVE  jobs[j] \in JobRow /\ j <= enqueued
  BY DEF LeaseInv, TypeOK, RowsAreEnqueued, NoRow

\* The histories keep their types.
HistoryOK ==
  /\ missed \in [JobId -> {"nothing", "job", "outcome"}]
  /\ late \subseteq JobId
  /\ tied \in [Resource -> SUBSET JobId]

LEMMA HistoryTyped ==
  ASSUME LeaseInv, [Next]_vars
  PROVE  HistoryOK'
<1>1. missed \in [JobId -> {"nothing", "job", "outcome"}] /\ late \subseteq JobId
      /\ tied \in [Resource -> SUBSET JobId]
  BY DEF LeaseInv, TypeOK
<1>2. missed' \in [JobId -> {"nothing", "job", "outcome"}]
  <2>1. \/ missed' = missed
        \/ \E j \in JobId, v \in {"nothing", "job", "outcome"} :
             missed' = [missed EXCEPT ![j] = v]
    <3>1. CASE Request
      <4>1. ASSUME NEW r \in Resource, DeploymentOnly(r)
            PROVE  enqueued + 1 \in JobId /\ missed' = [missed EXCEPT ![enqueued + 1] = "job"]
        BY <4>1, BoundsAssumption DEF DeploymentOnly, LeaseInv, TypeOK, JobId
      <4> QED BY <3>1, <4>1 DEF Request, Stop, RepeatDeploy, AskFor, Enqueue, DeployFolded, DeployQueued,
                DeployLost, PushFolded, PushAlreadyRunning, PushQueued, PushLost, Cancel, rows
    <3>2. CASE Work \/ Fault
      <4>1. worker # Idle => worker.job \in JobId
        BY WorkerRow
      <4> QED BY <3>2, <4>1
          DEF Work, Fault, Claim, Handler, HandlerStep, MarkRunning, FetchSource, DeploySucceeds,
              DeployThrows, StopReturns, StopThrows, Complete, RetryLater, GiveUp, CompleteThrows,
              FailThrows, Crash, Idle, rows
    <3>3. CASE Tick \/ PruneFinishedJobs \/ RequestRestart \/ Exit \/ Boot \/ UNCHANGED vars
      BY <3>3 DEF Tick, PruneFinishedJobs, RequestRestart, Exit, Boot, vars, rows
    <3> QED BY <3>1, <3>2, <3>3 DEF Next
  <2> QED BY <1>1, <2>1
<1>3. late' \subseteq JobId
  <2>1. \/ late' = late
        \/ worker # Idle /\ late' = late \cup {worker.job}
    BY DEF Next, Request, Stop, RepeatDeploy, AskFor, AnsweredByNew, DeployFolded, DeployQueued,
           DeployLost, DeploymentOnly, PushFolded, PushAlreadyRunning, PushQueued, PushLost, Cancel,
           Work, Fault, Claim, Handler, MarkRunning, FetchSource, DeploySucceeds,
           DeployThrows, StopReturns, StopThrows, Complete, RetryLater, GiveUp, CompleteThrows,
           FailThrows, Crash, Tick, PruneFinishedJobs, RequestRestart, Exit, Boot, vars,
           asked, order, Idle
  <2> QED BY <1>1, <2>1, WorkerRow
<1>4. tied' \in [Resource -> SUBSET JobId]
  <2>1. \/ tied' = tied
        \/ \E r \in Resource, S \in SUBSET JobId : tied' = [tied EXCEPT ![r] = S]
    <3>1. CASE Request
      <4>1. ASSUME NEW r \in Resource, AnsweredByNew(r)
            PROVE  \E S \in SUBSET JobId : tied' = [tied EXCEPT ![r] = S]
        BY <4>1 DEF AnsweredByNew, ActiveJobs, WithStatus
      <4>2. ASSUME NEW r \in Resource, DeployFolded(r)
            PROVE  \E S \in SUBSET JobId : tied' = [tied EXCEPT ![r] = S]
        BY <4>2 DEF DeployFolded, WithStatus
      <4> QED BY <3>1, <4>1, <4>2 DEF Request, Stop, RepeatDeploy, AskFor, DeployQueued, DeployLost,
                DeploymentOnly, PushFolded, PushAlreadyRunning, PushQueued, PushLost, Cancel, order
    <3>2. CASE ~Request
      BY <3>2 DEF Next, Work, Fault, Claim, Handler, MarkRunning, FetchSource, DeploySucceeds,
           DeployThrows, StopReturns, StopThrows, Complete, RetryLater, GiveUp, CompleteThrows,
           FailThrows, Crash, Tick, PruneFinishedJobs, RequestRestart, Exit, Boot, vars, asked
    <3> QED BY <3>1, <3>2
  <2> QED BY <1>1, <2>1
<1> QED BY <1>2, <1>3, <1>4 DEF HistoryOK

LEMMA EnqueueLease ==
  ASSUME LeaseInv, NEW kind \in Kind, NEW r \in Resource, Enqueue(kind, r), HistoryOK',
         UNCHANGED <<worker, process, crashes, dbErrors>>,
         head' \in [Resource -> Nat], owed' \in [Resource -> Nat],
         carries' \in [JobId -> Nat], answer' \in [Resource -> 0..MaxJobs],
         lastRun' \in [Resource -> 0..MaxJobs]
  PROVE  LeaseInv'
<1> DEFINE j == enqueued + 1
<1>1. j \in JobId /\ enqueued' = j
  BY BoundsAssumption DEF Enqueue, LeaseInv, TypeOK, JobId
<1>2. PICK stamp \in (IF SharedStamps THEN {clock, clock + 1} ELSE {clock + 1}) :
        /\ jobs' = [jobs EXCEPT ![j] =
                     [kind |-> kind, resource |-> r, status |-> "pending",
                      attempts |-> 0, delay |-> 0, created |-> stamp]]
        /\ clock' = stamp
  BY DEF Enqueue
<1>3. clock' \in Nat /\ stamp \in Nat
  BY <1>2 DEF LeaseInv, TypeOK
<1>4. jobs' \in [JobId -> JobRow \cup {NoRow}]
  <2>1. [kind |-> kind, resource |-> r, status |-> "pending",
         attempts |-> 0, delay |-> 0, created |-> stamp] \in JobRow
    BY <1>3 DEF JobRow, JobStatus
  <2> QED BY <2>1, <1>1, <1>2 DEF LeaseInv, TypeOK
<1>5. deployments' \in [JobId -> DeploymentRow \cup {NoDeployment}]
  <2>1. [status |-> "queued", commit |-> 0] \in DeploymentRow
    BY DEF DeploymentRow
  <2> QED BY <2>1, <1>1 DEF Enqueue, LeaseInv, TypeOK
<1>6. TypeOK'
  <2>1. enqueued' \in 0..MaxJobs
    BY <1>1 DEF JobId
  <2>2. /\ worker' \in [job : JobId, phase : HandlerPhase] \cup {Idle}
        /\ process' \in {"up", "stopping", "down"}
        /\ crashes' \in Nat /\ dbErrors' \in Nat
    BY DEF LeaseInv, TypeOK
  <2> HIDE DEF j
  <2> QED BY <2>1, <2>2, <1>3, <1>4, <1>5 DEF TypeOK, HistoryOK
<1>7. WorkerHoldsLease'
  <2>0. enqueued \in Nat /\ (worker = Idle \/ worker.job <= enqueued)
    BY WorkerRow DEF LeaseInv, RowsAreEnqueued, TypeOK
  <2>1. worker.job # j \/ worker.job = NoJob
    BY <2>0 DEF Idle
  <2> QED BY <2>1, <1>1, <1>2 DEF LeaseInv, WorkerHoldsLease, TypeOK, Idle, NoJob
<1>8. RowsAreEnqueued'
  <2> SUFFICES ASSUME NEW k \in JobId, jobs'[k].status # "none"
               PROVE  k <= enqueued'
    BY DEF RowsAreEnqueued
  <2>1. CASE k = j
    BY <2>1, <1>1 DEF JobId
  <2>2. CASE k # j
    BY <2>2, <1>1, <1>2, SMT DEF LeaseInv, RowsAreEnqueued, TypeOK, JobId
  <2> QED BY <2>1, <2>2
<1>9. DeploysHaveRows'
  <2> SUFFICES ASSUME NEW k \in JobId, jobs'[k].kind \in DeployKind
               PROVE  deployments'[k].status # "none"
    BY DEF DeploysHaveRows, DeployKind
  <2>1. CASE k = j
    <3>1. kind \in DeployKind
      BY <2>1, <1>1, <1>2 DEF LeaseInv, TypeOK
    <3> QED BY <3>1, <2>1, <1>1 DEF Enqueue, LeaseInv, TypeOK
  <2>2. CASE k # j
    BY <2>2, <1>1, <1>2 DEF Enqueue, LeaseInv, TypeOK, DeploysHaveRows
  <2> QED BY <2>1, <2>2
<1>10. LeasedWasClaimed'
  <2> SUFFICES ASSUME NEW k \in JobId, jobs'[k].status = "leased"
               PROVE  jobs'[k].attempts # 0
    BY DEF LeasedWasClaimed
  <2>1. jobs'[k] = jobs[k]
    BY <1>1, <1>2 DEF LeaseInv, TypeOK
  <2> QED BY <2>1 DEF LeaseInv, LeasedWasClaimed
<1> QED BY <1>6, <1>7, <1>8, <1>9, <1>10 DEF LeaseInv

\* A step that makes no job, leases none and takes no deployment row away.
LEMMA RowsKept ==
  ASSUME LeaseInv, enqueued' = enqueued,
         \A k \in JobId : jobs'[k].status # "none" => jobs[k].status # "none",
         \A k \in JobId : jobs'[k].kind \in {jobs[k].kind, "none"},
         \A k \in JobId : jobs'[k].status = "leased" =>
            jobs[k].status = "leased" /\ jobs'[k].attempts = jobs[k].attempts,
         \A k \in JobId : deployments'[k].status = "none" => deployments[k].status = "none"
  PROVE  RowsAreEnqueued' /\ DeploysHaveRows' /\ LeasedWasClaimed'
<1>1. RowsAreEnqueued'
  BY DEF LeaseInv, RowsAreEnqueued
<1>2. DeploysHaveRows'
  BY DEF LeaseInv, DeploysHaveRows, DeployKind
<1>3. LeasedWasClaimed'
  BY DEF LeaseInv, LeasedWasClaimed
<1> QED BY <1>1, <1>2, <1>3

LEMMA RequestLease ==
  ASSUME LeaseInv, Request
  PROVE  LeaseInv'
<1>0. HistoryOK'
  BY HistoryTyped DEF Next
<1>1. ASSUME NEW r \in Resource, Stop(r) \/ RepeatDeploy(r) \/ DeployQueued(r)
      PROVE  LeaseInv'
  <2>1. PICK kind \in Kind : AskFor(kind, r)
    BY <1>1 DEF Stop, RepeatDeploy, DeployQueued, Kind, DeployKind
  <2>2. answer' \in [Resource -> 0..MaxJobs]
    BY <2>1, BoundsAssumption DEF AskFor, AnsweredByNew, Enqueue, LeaseInv, TypeOK
  <2> QED BY <1>0, <2>1, <2>2, EnqueueLease DEF AskFor, AnsweredByNew, faults, LeaseInv, TypeOK
<1>2. ASSUME NEW r \in Resource, DeployFolded(r)
      PROVE  LeaseInv'
  <2>1. answer' \in [Resource -> 0..MaxJobs]
    BY <1>2 DEF DeployFolded, PendingDeploymentFor, PendingBuild, Oldest,
                WithStatus, LeaseInv, TypeOK, JobId
  <2> QED BY <1>0, <1>2, <2>1
          DEF HistoryOK, DeployFolded, rows, faults, LeaseInv, TypeOK, WorkerHoldsLease,
              RowsAreEnqueued, DeploysHaveRows, LeasedWasClaimed
<1>3. ASSUME NEW r \in Resource, NEW n \in 1..MaxPushes, Delivered(r, n)
      PROVE  head' \in [Resource -> Nat] /\ owed' \in [Resource -> Nat]
  BY <1>3 DEF Delivered, LeaseInv, TypeOK
<1>4. ASSUME NEW j \in JobId, NEW n \in 1..MaxPushes, CarriedBy(j, n)
      PROVE  carries' \in [JobId -> Nat]
  BY <1>4 DEF CarriedBy, LeaseInv, TypeOK
<1>5. ASSUME NEW r \in Resource, NEW n \in 1..MaxPushes,
             PushFolded(r, n) \/ PushAlreadyRunning(r, n)
      PROVE  LeaseInv'
  <2>1. PICK j \in JobId : CarriedBy(j, n)
    BY <1>5 DEF PushFolded, PushAlreadyRunning, PendingBuild, BuildingExactly,
                LeasedBuilds, Oldest, WithStatus
  <2>2. Delivered(r, n) /\ UNCHANGED <<rows, worker, process, faults, order>>
    BY <1>5 DEF PushFolded, PushAlreadyRunning
  <2> QED BY <1>3, <1>4, <2>1, <2>2
          DEF rows, order, faults, LeaseInv, TypeOK, WorkerHoldsLease,
              RowsAreEnqueued, DeploysHaveRows, LeasedWasClaimed
<1>6. ASSUME NEW r \in Resource, NEW n \in 1..MaxPushes, PushQueued(r, n)
      PROVE  LeaseInv'
  <2>1. enqueued + 1 \in JobId
    BY <1>6, BoundsAssumption DEF PushQueued, Enqueue, LeaseInv, TypeOK, JobId
  <2>2. Delivered(r, n) /\ CarriedBy(enqueued + 1, n) /\ Enqueue("branch", r)
    BY <1>6 DEF PushQueued
  <2>3. answer' \in [Resource -> 0..MaxJobs] /\ lastRun' \in [Resource -> 0..MaxJobs]
    BY <1>6, <2>1 DEF PushQueued, AnsweredByNew, LeaseInv, TypeOK, JobId
  <2>4. "branch" \in Kind
    BY DEF Kind, DeployKind
  <2>5. UNCHANGED <<worker, process, crashes, dbErrors>>
    BY <1>6 DEF PushQueued, faults
  <2> QED BY <1>0, <1>3, <1>4, <2>1, <2>2, <2>3, <2>4, <2>5, EnqueueLease
<1>7. ASSUME NEW j \in JobId, Cancel(j)
      PROVE  LeaseInv'
  <2>1. jobs[j].status = "pending" /\ jobs[j] \in JobRow /\ j <= enqueued
    BY <1>7, ActiveRow DEF Cancel, Cancellable, WithStatus
  <2>2. jobs' \in [JobId -> JobRow \cup {NoRow}]
    BY <1>7, <2>1 DEF Cancel, LeaseInv, TypeOK, JobRow, JobStatus
  <2>3. deployments' \in [JobId -> DeploymentRow \cup {NoDeployment}]
    BY <1>7 DEF Cancel, LeaseInv, TypeOK, DeploymentRow, NoDeployment
  <2>4. jobs[j].resource \in Resource
    BY <2>1 DEF JobRow
  <2>5. owed' \in [Resource -> Nat] /\ answer' \in [Resource -> 0..MaxJobs]
    BY <1>7, <2>4, BoundsAssumption DEF Cancel, LeaseInv, TypeOK, NoJob
  <2>6. TypeOK'
    BY <1>0, <1>7, <2>2, <2>3, <2>5 DEF HistoryOK, Cancel, faults, LeaseInv, TypeOK
  <2>7. WorkerHoldsLease'
    BY <1>7, <2>1 DEF Cancel, LeaseInv, TypeOK, WorkerHoldsLease, Idle, NoJob
  <2>8. /\ \A k \in JobId : jobs'[k].status # "none" => jobs[k].status # "none"
        /\ \A k \in JobId : jobs'[k].kind = jobs[k].kind
        /\ \A k \in JobId : jobs'[k].status = "leased" => jobs'[k] = jobs[k]
        /\ \A k \in JobId : deployments'[k].status = "none" => deployments[k].status = "none"
        /\ enqueued' = enqueued
    BY <1>7, <2>1 DEF Cancel, LeaseInv, TypeOK, JobRow
  <2> QED BY <2>6, <2>7, <2>8, RowsKept DEF LeaseInv
<1>8. ASSUME NEW r \in Resource, DeploymentOnly(r), head' \in [Resource -> Nat]
      PROVE  LeaseInv'
  <2> DEFINE j == enqueued + 1
  <2>1. j \in JobId /\ enqueued' = j
    BY <1>8, BoundsAssumption DEF DeploymentOnly, LeaseInv, TypeOK, JobId
  <2>2. deployments' \in [JobId -> DeploymentRow \cup {NoDeployment}]
        /\ \A k \in JobId : deployments'[k].status = "none" => deployments[k].status = "none"
    <3>1. [status |-> "queued", commit |-> 0] \in DeploymentRow
      BY DEF DeploymentRow
    <3> QED BY <3>1, <2>1, <1>8 DEF DeploymentOnly, LeaseInv, TypeOK
  <2>3. /\ process' \in {"up", "stopping", "down"} /\ crashes' \in Nat /\ dbErrors' \in Nat
        /\ worker' \in {worker, Idle}
    BY <1>8 DEF DeploymentOnly, SecondWriteLost, LeaseInv, TypeOK
  <2>4. UNCHANGED <<jobs, clock, owed, carries, answer, lastRun>>
    BY <1>8 DEF DeploymentOnly, order
  <2>5. TypeOK'
    BY <1>0, <1>8, <2>1, <2>2, <2>3, <2>4 DEF HistoryOK, LeaseInv, TypeOK, JobId
  <2>6. WorkerHoldsLease'
    BY <2>3, <2>4 DEF LeaseInv, WorkerHoldsLease, Idle, NoJob
  <2>7. RowsAreEnqueued'
    BY <2>1, <2>4 DEF LeaseInv, TypeOK, RowsAreEnqueued, JobId
  <2>8. DeploysHaveRows' /\ LeasedWasClaimed'
    BY <2>2, <2>4 DEF LeaseInv, DeploysHaveRows, LeasedWasClaimed
  <2> QED BY <2>5, <2>6, <2>7, <2>8 DEF LeaseInv
<1>9. ASSUME NEW r \in Resource, NEW n \in 1..MaxPushes, PushLost(r, n)
      PROVE  LeaseInv'
  <2>1. head' \in [Resource -> Nat]
    BY <1>9 DEF PushLost, LeaseInv, TypeOK
  <2> QED BY <1>8, <1>9, <2>1 DEF PushLost
<1>10. ASSUME NEW r \in Resource, DeployLost(r)
       PROVE  LeaseInv'
  <2>1. head' \in [Resource -> Nat]
    BY <1>10 DEF DeployLost, LeaseInv, TypeOK
  <2> QED BY <1>8, <1>10, <2>1 DEF DeployLost
<1> QED BY <1>1, <1>2, <1>5, <1>6, <1>7, <1>9, <1>10 DEF Request

\* Claiming from the table as it is, or as recovery left it.
LEMMA ClaimLease ==
  ASSUME LeaseInv,
         NEW table \in [JobId -> JobRow \cup {NoRow}],
         \A k \in JobId : table[k].status # "none" => jobs[k].status # "none",
         \A k \in JobId : table[k].kind = jobs[k].kind,
         \A k \in JobId : table[k].status = "leased" => table[k] = jobs[k],
         ClaimFrom(table), process' \in {"up", "stopping", "down"},
         UNCHANGED <<deployments, enqueued, clock, missed, head, faults, asked>>
  PROVE  LeaseInv'
<1>1. PICK j \in JobId :
        /\ table[j].status = "pending"
        /\ jobs' = [table EXCEPT ![j].status = "leased", ![j].attempts = @ + 1]
        /\ worker' = [job |-> j, phase |-> "claimed"]
  BY DEF ClaimFrom, Claimable
<1>2. table[j] \in JobRow
  BY <1>1 DEF NoRow
<1>3. jobs' \in [JobId -> JobRow \cup {NoRow}] /\ jobs'[j].status = "leased"
  BY <1>1, <1>2 DEF JobRow, JobStatus
<1>4. worker' \in [job : JobId, phase : HandlerPhase] \cup {Idle}
  BY <1>1 DEF HandlerPhase
<1>5. TypeOK'
  BY <1>3, <1>4 DEF LeaseInv, TypeOK, faults, asked
<1>6. WorkerHoldsLease'
  BY <1>1, <1>3 DEF WorkerHoldsLease
<1>7. RowsAreEnqueued'
  BY <1>1, <1>2 DEF LeaseInv, RowsAreEnqueued, JobRow
<1>8. DeploysHaveRows'
  BY <1>1, <1>2 DEF LeaseInv, DeploysHaveRows, DeployKind, JobRow
<1>9. LeasedWasClaimed'
  <2> SUFFICES ASSUME NEW k \in JobId, jobs'[k].status = "leased"
               PROVE  jobs'[k].attempts # 0
    BY DEF LeasedWasClaimed
  <2>1. CASE k = j
    BY <2>1, <1>1, <1>2 DEF JobRow
  <2>2. CASE k # j
    BY <2>2, <1>1 DEF LeaseInv, LeasedWasClaimed
  <2> QED BY <2>1, <2>2
<1> QED BY <1>5, <1>6, <1>7, <1>8, <1>9 DEF LeaseInv

\* A handler's step moves the worker on and leaves the jobs table alone.
LEMMA HandlerLease ==
  ASSUME LeaseInv, Handler
  PROVE  LeaseInv'
<1> DEFINE j == worker.job
<1>0. HistoryOK'
  BY HistoryTyped DEF Next, Work
<1>1. worker # Idle /\ jobs' = jobs /\ worker'.job = j
      /\ worker' \in [job : JobId, phase : HandlerPhase]
  <2>1. worker # Idle
    BY DEF Handler, HandlerStep, MarkRunning, FetchSource, DeploySucceeds, DeployThrows,
           StopReturns, StopThrows, Idle
  <2>2. j \in JobId /\ worker \in [job : JobId, phase : HandlerPhase]
    BY <2>1, WorkerRow
  <2>3. jobs' = jobs
    BY DEF Handler, MarkRunning, FetchSource, DeploySucceeds, DeployThrows,
           StopReturns, StopThrows, rows
  <2>4. \E to \in HandlerPhase : worker' = [worker EXCEPT !.phase = to]
    BY DEF Handler, HandlerStep, MarkRunning, FetchSource, DeploySucceeds, DeployThrows,
           StopReturns, StopThrows, HandlerPhase
  <2> QED BY <2>1, <2>2, <2>3, <2>4
<1>2. j \in JobId /\ jobs[j] \in JobRow /\ jobs[j].status = "leased" /\ jobs[j].resource \in Resource
  BY <1>1, WorkerRow DEF JobRow
<1>3. /\ deployments' \in [JobId -> DeploymentRow \cup {NoDeployment}]
      /\ \A k \in JobId : deployments'[k].status = "none" => deployments[k].status = "none"
  <2>1. ASSUME NEW st \in {"running", "succeeded", "failed"},
               deployments' = [deployments EXCEPT ![j].status = st]
        PROVE  /\ deployments' \in [JobId -> DeploymentRow \cup {NoDeployment}]
               /\ \A k \in JobId : deployments'[k].status = "none" => deployments[k].status = "none"
    BY <2>1, <1>2 DEF LeaseInv, TypeOK, DeploymentRow, NoDeployment
  <2>2. CASE FetchSource
    <3>1. head[jobs[j].resource] \in Nat
      BY <1>2 DEF LeaseInv, TypeOK
    <3>2. deployments[j] \in DeploymentRow
      BY <2>2, <1>2 DEF FetchSource, DeployKind, LeaseInv, TypeOK, DeploysHaveRows, NoDeployment
    <3> QED BY <2>2, <3>1, <3>2, <1>2 DEF FetchSource, LeaseInv, TypeOK, DeploymentRow
  <2>3. CASE deployments' = deployments
    BY <2>3 DEF LeaseInv, TypeOK
  <2> QED BY <2>1, <2>2, <2>3
          DEF Handler, MarkRunning, DeploySucceeds, DeployThrows, StopReturns, StopThrows, rows
<1>4. owed' \in [Resource -> Nat] /\ lastRun' \in [Resource -> 0..MaxJobs]
  <2>1. j \in 0..MaxJobs
    BY <1>2 DEF JobId
  <2>2. CASE Answered(j)
    BY <2>1, <2>2, <1>2 DEF Answered, LeaseInv, TypeOK
  <2>3. CASE owed' = owed /\ lastRun' \in {lastRun, [lastRun EXCEPT ![jobs[j].resource] = j]}
    BY <2>1, <2>3, <1>2 DEF LeaseInv, TypeOK
  <2> QED BY <2>2, <2>3 DEF Handler, MarkRunning, FetchSource, DeploySucceeds, DeployThrows,
           StopReturns, StopThrows, asked
<1>5. UNCHANGED <<enqueued, clock, process, head, crashes, carries, answer>> /\ dbErrors' \in Nat
  BY DEF LeaseInv, TypeOK, Handler, MarkRunning, FetchSource, DeploySucceeds, DeployThrows, StopReturns,
         StopThrows, rows, faults, asked
<1>6. TypeOK'
  BY <1>0, <1>1, <1>3, <1>4, <1>5 DEF HistoryOK, LeaseInv, TypeOK
<1>7. WorkerHoldsLease'
  BY <1>1, <1>2 DEF LeaseInv, WorkerHoldsLease
<1> QED BY <1>1, <1>3, <1>5, <1>6, <1>7, RowsKept DEF LeaseInv

\* Recording an outcome, or failing to.
LEMMA OutcomeLease ==
  ASSUME LeaseInv, Complete \/ CompleteThrows \/ RetryLater \/ GiveUp \/ FailThrows
  PROVE  LeaseInv'
<1> DEFINE j == worker.job
<1>0. HistoryOK'
  BY HistoryTyped DEF Next, Work, Fault
<1>1. worker # Idle
  BY DEF Complete, CompleteThrows, HandlerStep, RetryLater, GiveUp, FailThrows, Idle
<1>2. j \in JobId /\ jobs[j] \in JobRow /\ jobs[j].status = "leased"
      /\ worker \in [job : JobId, phase : HandlerPhase]
  BY <1>1, WorkerRow
<1>3. \/ worker' = Idle
      \/ worker' = [worker EXCEPT !.phase = "threw"] /\ jobs' = jobs
  BY DEF Complete, CompleteThrows, HandlerStep, RetryLater, GiveUp, FailThrows, rows
<1>4. BackoffAfter(jobs[j].attempts) \in Nat
  <2>1. jobs[j].attempts \in Nat /\ jobs[j].attempts # 0
    BY <1>2 DEF LeaseInv, LeasedWasClaimed, JobRow
  <2> QED BY <2>1, BackoffAssumption DEF BackoffAfter
<1>5. /\ jobs' \in [JobId -> JobRow \cup {NoRow}]
      /\ \A k \in JobId : jobs'[k].status # "none" => jobs[k].status # "none"
      /\ \A k \in JobId : jobs'[k].kind = jobs[k].kind
      /\ \A k \in JobId : jobs'[k].status = "leased" => jobs'[k] = jobs[k]
  <2>1. CASE Complete
    BY <2>1, <1>2 DEF Complete, LeaseInv, TypeOK, JobRow, JobStatus
  <2>2. CASE RetryLater
    BY <2>2, <1>4, <1>2 DEF RetryLater, LeaseInv, TypeOK, JobRow, JobStatus
  <2>3. CASE GiveUp
    BY <2>3, <1>2 DEF GiveUp, LeaseInv, TypeOK, JobRow, JobStatus
  <2>4. CASE CompleteThrows \/ FailThrows
    BY <2>4 DEF CompleteThrows, FailThrows, rows, LeaseInv, TypeOK
  <2> QED BY <2>1, <2>2, <2>3, <2>4
<1>6. /\ deployments' \in [JobId -> DeploymentRow \cup {NoDeployment}]
      /\ \A k \in JobId : deployments'[k].status = "none" => deployments[k].status = "none"
  <2>1. CASE jobs[j].kind \in DeployKind /\ GiveUp
    <3>1. deployments[j] \in DeploymentRow
      BY <2>1, <1>2 DEF LeaseInv, TypeOK, DeploysHaveRows, NoDeployment
    <3>2. deployments' \in {deployments, [deployments EXCEPT ![j].status = "failed"]}
      BY <2>1 DEF GiveUp
    <3> QED BY <3>1, <3>2, <1>2 DEF LeaseInv, TypeOK, DeploymentRow
  <2>2. CASE deployments' = deployments
    BY <2>2 DEF LeaseInv, TypeOK
  <2>3. CASE GiveUp /\ jobs[j].kind \notin DeployKind
    BY <2>2, <2>3 DEF GiveUp
  <2> QED BY <2>1, <2>2, <2>3 DEF Complete, CompleteThrows, RetryLater, FailThrows, rows
<1>7. /\ dbErrors' \in Nat /\ crashes' \in Nat /\ process' \in {"up", "stopping", "down"}
      /\ UNCHANGED <<enqueued, clock, head, owed, carries, answer, lastRun>>
  BY DEF Complete, CompleteThrows, HandlerStep, RetryLater, GiveUp, SecondWriteLost, FailThrows,
         rows, faults, asked, LeaseInv, TypeOK
<1>8. worker' \in [job : JobId, phase : HandlerPhase] \cup {Idle}
  BY <1>2, <1>3 DEF HandlerPhase
<1>9. TypeOK'
  BY <1>0, <1>5, <1>6, <1>7, <1>8 DEF HistoryOK, LeaseInv, TypeOK
<1>10. WorkerHoldsLease'
  BY <1>2, <1>3 DEF LeaseInv, WorkerHoldsLease, Idle, NoJob
<1> QED BY <1>5, <1>6, <1>7, <1>9, <1>10, RowsKept DEF LeaseInv

\* What recovery leaves: every row still there, none leased.
LEMMA RecoveredTable ==
  ASSUME TypeOK
  PROVE  /\ RecoverOrphanedLeases \in [JobId -> JobRow \cup {NoRow}]
         /\ \A k \in JobId : /\ RecoverOrphanedLeases[k].kind = jobs[k].kind
                             /\ RecoverOrphanedLeases[k].resource = jobs[k].resource
                             /\ RecoverOrphanedLeases[k].attempts = jobs[k].attempts
                             /\ RecoverOrphanedLeases[k].status =
                                  IF jobs[k].status = "leased" THEN "pending" ELSE jobs[k].status
<1> SUFFICES ASSUME NEW k \in JobId
             PROVE  /\ RecoverOrphanedLeases[k] \in JobRow \cup {NoRow}
                    /\ RecoverOrphanedLeases[k].kind = jobs[k].kind
                    /\ RecoverOrphanedLeases[k].resource = jobs[k].resource
                    /\ RecoverOrphanedLeases[k].attempts = jobs[k].attempts
                    /\ RecoverOrphanedLeases[k].status =
                         IF jobs[k].status = "leased" THEN "pending" ELSE jobs[k].status
  BY DEF RecoverOrphanedLeases
<1>1. CASE jobs[k].status = "leased"
  <2>1. jobs[k] \in JobRow
    BY <1>1 DEF TypeOK, NoRow
  <2>2. RecoverOrphanedLeases[k] = [jobs[k] EXCEPT !.status = "pending"]
    BY <1>1 DEF RecoverOrphanedLeases
  <2> QED BY <1>1, <2>1, <2>2 DEF JobRow, JobStatus
<1>2. CASE jobs[k].status # "leased"
  BY <1>2 DEF TypeOK, RecoverOrphanedLeases
<1> QED BY <1>1, <1>2

\* Time, pruning and the life of the process.
LEMMA ProcessLease ==
  ASSUME LeaseInv,
         Tick \/ PruneFinishedJobs \/ RequestRestart \/ Exit \/ Crash \/ Boot
  PROVE  LeaseInv'
<1>1. CASE Tick
  <2>1. /\ jobs' \in [JobId -> JobRow \cup {NoRow}]
        /\ \A k \in JobId : /\ jobs'[k].status = jobs[k].status
                            /\ jobs'[k].kind = jobs[k].kind
                            /\ jobs'[k].attempts = jobs[k].attempts
    <3> SUFFICES ASSUME NEW k \in JobId
                 PROVE  /\ jobs'[k] \in JobRow \cup {NoRow}
                        /\ jobs'[k].status = jobs[k].status
                        /\ jobs'[k].kind = jobs[k].kind
                        /\ jobs'[k].attempts = jobs[k].attempts
      BY <1>1 DEF Tick
    <3>1. CASE jobs[k].status = "pending" /\ jobs[k].delay > 0
      <4>1. jobs[k] \in JobRow
        BY <3>1 DEF LeaseInv, TypeOK, NoRow
      <4>2. jobs'[k] = [jobs[k] EXCEPT !.delay = @ - 1]
        BY <1>1, <3>1 DEF Tick
      <4> QED BY <3>1, <4>1, <4>2 DEF JobRow
    <3>2. CASE ~(jobs[k].status = "pending" /\ jobs[k].delay > 0)
      <4>1. jobs'[k] = jobs[k]
        BY <1>1, <3>2 DEF Tick
      <4> QED BY <4>1 DEF LeaseInv, TypeOK
    <3> QED BY <3>1, <3>2
  <2>2. TypeOK'
    BY <1>1, <2>1 DEF Tick, faults, asked, LeaseInv, TypeOK
  <2>3. WorkerHoldsLease'
    BY <1>1, <2>1 DEF Tick, LeaseInv, TypeOK, WorkerHoldsLease, Idle, NoJob
  <2> QED BY <1>1, <2>1, <2>2, <2>3, RowsKept DEF Tick, LeaseInv
<1>2. CASE PruneFinishedJobs
  <2>1. PICK old \in SUBSET JobId :
          /\ \A k \in old : jobs[k].status \in Finished
          /\ jobs' = [k \in JobId |-> IF k \in old THEN NoRow ELSE jobs[k]]
    BY <1>2 DEF PruneFinishedJobs
  <2>2. TypeOK'
    BY <1>2, <2>1 DEF PruneFinishedJobs, faults, asked, LeaseInv, TypeOK
  <2>3. WorkerHoldsLease'
    BY <1>2, <2>1 DEF PruneFinishedJobs, LeaseInv, TypeOK, WorkerHoldsLease, Idle, NoJob, Finished
  <2>4. /\ \A k \in JobId : jobs'[k].status # "none" => jobs[k].status # "none"
        /\ \A k \in JobId : jobs'[k].kind \in {jobs[k].kind, "none"}
        /\ \A k \in JobId : jobs'[k].status = "leased" => jobs'[k] = jobs[k]
    BY <2>1 DEF NoRow
  <2> QED BY <1>2, <2>2, <2>3, <2>4, RowsKept DEF PruneFinishedJobs, LeaseInv
<1>3. CASE RequestRestart \/ Exit
  BY <1>3 DEF RequestRestart, Exit, rows, faults, asked, LeaseInv, TypeOK, WorkerHoldsLease,
              RowsAreEnqueued, DeploysHaveRows, LeasedWasClaimed
<1>4. CASE Crash
  BY <1>4 DEF Crash, rows, asked, LeaseInv, TypeOK, WorkerHoldsLease, RowsAreEnqueued,
              DeploysHaveRows, LeasedWasClaimed, Idle, NoJob
<1>5. CASE Boot /\ ClaimFrom(RecoverOrphanedLeases)
  <2>1. /\ \A k \in JobId : RecoverOrphanedLeases[k].status # "none" => jobs[k].status # "none"
        /\ \A k \in JobId : RecoverOrphanedLeases[k].kind = jobs[k].kind
        /\ \A k \in JobId : RecoverOrphanedLeases[k].status # "leased"
        /\ RecoverOrphanedLeases \in [JobId -> JobRow \cup {NoRow}]
    BY RecoveredTable DEF LeaseInv
  <2>2. process' \in {"up", "stopping", "down"}
        /\ UNCHANGED <<deployments, enqueued, clock, missed, head, faults, asked>>
    BY <1>5 DEF Boot
  <2> QED BY <1>5, <2>1, <2>2, ClaimLease
<1>6. CASE Boot /\ ~ClaimFrom(RecoverOrphanedLeases)
  <2>1. jobs' = RecoverOrphanedLeases /\ worker' = Idle /\ process' = "up"
        /\ UNCHANGED <<deployments, enqueued, clock, missed, head, faults, asked>>
    BY <1>6 DEF Boot
  <2>2. /\ \A k \in JobId : jobs'[k].status # "none" => jobs[k].status # "none"
        /\ \A k \in JobId : jobs'[k].kind = jobs[k].kind
        /\ \A k \in JobId : jobs'[k].status # "leased"
        /\ jobs' \in [JobId -> JobRow \cup {NoRow}]
    BY <2>1, RecoveredTable DEF LeaseInv
  <2>3. TypeOK'
    BY <2>1, <2>2 DEF faults, asked, LeaseInv, TypeOK
  <2>4. WorkerHoldsLease'
    BY <2>1 DEF WorkerHoldsLease, Idle, NoJob
  <2> QED BY <2>1, <2>2, <2>3, <2>4, RowsKept DEF LeaseInv
<1> QED BY <1>1, <1>2, <1>3, <1>4, <1>5, <1>6

LEMMA StepLease == LeaseInv /\ [Next]_vars => LeaseInv'
<1> SUFFICES ASSUME LeaseInv, [Next]_vars PROVE LeaseInv'
  OBVIOUS
<1>1. CASE Request
  BY <1>1, RequestLease
<1>2. CASE Claim
  <2>1. /\ jobs \in [JobId -> JobRow \cup {NoRow}]
        /\ ClaimFrom(jobs) /\ process' \in {"up", "stopping", "down"}
        /\ UNCHANGED <<deployments, enqueued, clock, missed, head, faults, asked>>
    BY <1>2 DEF Claim, LeaseInv, TypeOK
  <2> QED BY <2>1, ClaimLease
<1>3. CASE Handler
  BY <1>3, HandlerLease
<1>4. CASE Complete \/ CompleteThrows \/ RetryLater \/ GiveUp \/ FailThrows
  BY <1>4, OutcomeLease
<1>5. CASE Tick \/ PruneFinishedJobs \/ RequestRestart \/ Exit \/ Crash \/ Boot
  BY <1>5, ProcessLease
<1>6. CASE UNCHANGED vars
  BY <1>6 DEF vars, LeaseInv, TypeOK, WorkerHoldsLease, RowsAreEnqueued, DeploysHaveRows, LeasedWasClaimed
<1> QED BY <1>1, <1>2, <1>3, <1>4, <1>5, <1>6 DEF Next, Work, Fault

LEMMA LeaseHolds == Spec => []LeaseInv
BY InitLease, StepLease, PTL DEF Spec

\* The types of the jobs table, the deployments and the worker, for any
\* number of resources, jobs, pushes, crashes and failed writes.
THEOREM TypeCorrect == Spec => []TypeOK
<1>1. LeaseInv => TypeOK
  BY DEF LeaseInv
<1> QED BY <1>1, LeaseHolds, PTL

\* The job the worker is on is leased, always: no cancel, recovery or prune
\* takes it away while its handler runs (queue/index.ts cancelPendingDeploy,
\* recoverOrphanedLeases, pruneFinishedJobs).
THEOREM WorkerKeepsLease == Spec => []WorkerHoldsLease
<1>1. LeaseInv => WorkerHoldsLease
  BY DEF LeaseInv
<1> QED BY <1>1, LeaseHolds, PTL

-----------------------------------------------------------------------------
(* JobQueue implements JobContract.                                         *)

\* A process that is not up has no handler in flight.
DownIsIdle == process # "up" => worker = Idle
StoppingIsQuiet == process = "stopping" => \A j \in JobId : jobs[j].status # "leased"

QuietInv == DownIsIdle /\ StoppingIsQuiet

LEMMA InitQuiet == Init => QuietInv
  BY DEF Init, QuietInv, DownIsIdle, StoppingIsQuiet, NoRow

\* Requests, while the process is going down, lease nothing; at most they are
\* what it dies in.
LEMMA RequestQuiet ==
  ASSUME LeaseInv, Request
  PROVE  /\ \/ UNCHANGED <<worker, process, crashes>>
            \/ worker' = Idle /\ process' = "down" /\ crashes' = crashes + 1
         /\ \A j \in JobId : jobs'[j].status = "leased" => jobs[j].status = "leased"
<1>1. ASSUME NEW kind \in Kind, NEW r \in Resource, Enqueue(kind, r)
      PROVE  \A j \in JobId : jobs'[j].status = "leased" => jobs[j].status = "leased"
  BY <1>1 DEF Enqueue, LeaseInv, TypeOK
<1>2. ASSUME NEW r \in Resource, Stop(r) \/ RepeatDeploy(r) \/ DeployQueued(r)
      PROVE  \E kind \in Kind : AskFor(kind, r)
  BY <1>2 DEF Stop, RepeatDeploy, DeployQueued, Kind, DeployKind
<1>3. ASSUME NEW r \in Resource, NEW n \in 1..MaxPushes, PushQueued(r, n)
      PROVE  /\ \E kind \in Kind : Enqueue(kind, r)
             /\ UNCHANGED <<worker, process, crashes>>
  BY <1>3 DEF PushQueued, faults, Kind, DeployKind
<1>4. ASSUME NEW r \in Resource, NEW n \in 1..MaxPushes,
             PushFolded(r, n) \/ PushAlreadyRunning(r, n)
      PROVE  UNCHANGED <<jobs, worker, process, crashes>>
  BY <1>4 DEF PushFolded, PushAlreadyRunning, rows, faults
<1>5. ASSUME NEW r \in Resource, DeployFolded(r)
      PROVE  UNCHANGED <<jobs, worker, process, crashes>>
  BY <1>5 DEF DeployFolded, rows, faults
<1>6. ASSUME NEW j \in JobId, Cancel(j)
      PROVE  /\ UNCHANGED <<worker, process, crashes>>
             /\ \A k \in JobId : jobs'[k].status = "leased" => jobs[k].status = "leased"
  BY <1>6 DEF Cancel, faults, LeaseInv, TypeOK
<1>7. ASSUME NEW r \in Resource, NEW kind \in Kind, AskFor(kind, r)
      PROVE  /\ UNCHANGED <<worker, process, crashes>>
             /\ \A j \in JobId : jobs'[j].status = "leased" => jobs[j].status = "leased"
  BY <1>7, <1>1 DEF AskFor, faults
<1>8. ASSUME NEW r \in Resource, Serving, DeploymentOnly(r)
      PROVE  /\ \/ UNCHANGED <<worker, process, crashes>>
                \/ worker' = Idle /\ process' = "down" /\ crashes' = crashes + 1
             /\ jobs' = jobs
  BY <1>8 DEF Serving, DeploymentOnly, SecondWriteLost
<1> QED BY <1>1, <1>2, <1>3, <1>4, <1>5, <1>6, <1>7, <1>8 DEF Request, DeployLost, PushLost

LEMMA StepQuiet == LeaseInv /\ QuietInv /\ [Next]_vars => QuietInv'
<1> SUFFICES ASSUME LeaseInv, QuietInv, [Next]_vars PROVE QuietInv'
  OBVIOUS
<1>1. CASE Request
  <2>1. \A j \in JobId : jobs'[j].status = "leased" => jobs[j].status = "leased"
    BY <1>1, RequestQuiet
  <2>2. \/ UNCHANGED <<worker, process, crashes>>
        \/ worker' = Idle /\ process' = "down"
    BY <1>1, RequestQuiet
  <2> QED BY <2>1, <2>2 DEF QuietInv, DownIsIdle, StoppingIsQuiet
<1>2. CASE Work \/ CompleteThrows \/ FailThrows
  <2>1. process = "up" /\ (process' = process \/ (process' = "down" /\ worker' = Idle))
    <3>1. CASE GiveUp
      BY <3>1 DEF GiveUp, SecondWriteLost, faults
    <3>2. CASE Handler \/ CompleteThrows
      BY <3>2 DEF Handler, HandlerStep, MarkRunning, FetchSource, DeploySucceeds,
         DeployThrows, StopReturns, StopThrows, CompleteThrows
    <3>3. CASE Claim \/ Complete \/ RetryLater \/ FailThrows
      BY <3>3 DEF Claim, Complete, RetryLater, FailThrows
    <3> QED BY <1>2, <3>1, <3>2, <3>3 DEF Work
  <2> QED BY <2>1 DEF QuietInv, DownIsIdle, StoppingIsQuiet
<1>3. CASE Crash \/ Boot
  BY <1>3 DEF Crash, Boot, QuietInv, DownIsIdle, StoppingIsQuiet
<1>4. CASE RequestRestart
  <2>1. \A j \in JobId : jobs[j].status # "leased"
    BY <1>4 DEF RequestRestart, ActiveJobs, WithStatus
  <2>2. worker = Idle
    BY <2>1, WorkerRow
  <2> QED BY <1>4, <2>1, <2>2 DEF RequestRestart, rows, QuietInv, DownIsIdle, StoppingIsQuiet
<1>5. CASE Exit
  BY <1>5 DEF Exit, QuietInv, DownIsIdle, StoppingIsQuiet
<1>6. CASE Tick
  <2>1. worker' = worker /\ process' = process
        /\ \A j \in JobId : jobs'[j].status = "leased" => jobs[j].status = "leased"
    BY <1>6 DEF Tick, LeaseInv, TypeOK
  <2> QED BY <2>1 DEF QuietInv, DownIsIdle, StoppingIsQuiet
<1>7. CASE PruneFinishedJobs
  <2>1. worker' = worker /\ process' = process
        /\ \A j \in JobId : jobs'[j].status = "leased" => jobs[j].status = "leased"
    BY <1>7 DEF PruneFinishedJobs, NoRow
  <2> QED BY <2>1 DEF QuietInv, DownIsIdle, StoppingIsQuiet
<1>8. CASE UNCHANGED vars
  BY <1>8 DEF vars, QuietInv, DownIsIdle, StoppingIsQuiet
<1> QED BY <1>1, <1>2, <1>3, <1>4, <1>5, <1>6, <1>7, <1>8 DEF Next, Fault

LEMMA QuietHolds == Spec => []QuietInv
<1>1. Init => QuietInv
  BY InitQuiet
<1>2. LeaseInv /\ QuietInv /\ [Next]_vars => QuietInv'
  BY StepQuiet
<1> QED BY <1>1, <1>2, LeaseHolds, PTL DEF Spec

\* A restart asked for from the dashboard interrupts no handler: the guard of
\* routes/restart.ts sees every job the worker could be on.
THEOREM RestartIsClean == Spec => []RestartInterruptsNothing
<1>1. QuietInv => RestartInterruptsNothing
  BY DEF QuietInv, DownIsIdle, StoppingIsQuiet, RestartInterruptsNothing, WithStatus
<1> QED BY <1>1, QuietHolds, PTL

-----------------------------------------------------------------------------
(* Ids that never got a job.                                               *)

\* An id whose job was never inserted has no row for good, and no id is
\* marked before it is handed out.
MissedInv ==
  \A j \in JobId :
    /\ missed[j] = "job" => jobs[j].status = "none"
    /\ j > enqueued => missed[j] = "nothing"

\* Ids that have no job: not handed out yet, or lost with their insert.
Unborn(j) == j > enqueued \/ missed[j] = "job"
SameBorn == \A k \in JobId : Unborn(k)' <=> Unborn(k)

\* Steps other than requests hand out no id, give no row back, and mark only
\* the job at work, with something other than a lost insert.
MarksOnlyWork ==
  /\ enqueued' = enqueued
  /\ \A k \in JobId : jobs[k].status = "none" => jobs'[k].status = "none"
  /\ \A k \in JobId : \/ missed'[k] = missed[k]
                      \/ jobs[k].status = "leased" /\ missed'[k] # "job"

LEMMA InitMissed == Init => MissedInv
  BY DEF Init, MissedInv

LEMMA BornRow ==
  ASSUME LeaseInv, MissedInv, NEW j \in JobId, jobs[j].status # "none"
  PROVE  ~Unborn(j) /\ j <= enqueued
  BY DEF LeaseInv, TypeOK, RowsAreEnqueued, MissedInv, Unborn, JobId

LEMMA MarksKept ==
  ASSUME LeaseInv, MissedInv, MarksOnlyWork
  PROVE  MissedInv' /\ SameBorn
<1> SUFFICES ASSUME NEW k \in JobId
             PROVE  /\ missed'[k] = "job" => jobs'[k].status = "none"
                    /\ k > enqueued => missed'[k] = "nothing"
                    /\ missed'[k] = "job" <=> missed[k] = "job"
  BY DEF MarksOnlyWork, MissedInv, SameBorn, Unborn
<1>1. CASE missed'[k] = missed[k]
  BY <1>1 DEF MarksOnlyWork, MissedInv
<1>2. CASE jobs[k].status = "leased" /\ missed'[k] # "job"
  <2>1. k <= enqueued /\ ~(k > enqueued) /\ missed[k] # "job"
    BY <1>2, BornRow DEF Unborn
  <2> QED BY <1>2, <2>1
<1> QED BY <1>1, <1>2 DEF MarksOnlyWork

LEMMA WorkMarks ==
  ASSUME LeaseInv, Work \/ Fault
  PROVE  MarksOnlyWork
<1>1. CASE Claim \/ Crash
  <2>1. enqueued' = enqueued /\ missed' = missed
    BY <1>1 DEF Claim, Crash, rows
  <2>2. \A k \in JobId : jobs[k].status = "none" => jobs'[k].status = "none"
    BY <1>1 DEF Claim, ClaimFrom, Claimable, Crash, rows, LeaseInv, TypeOK
  <2> QED BY <2>1, <2>2 DEF MarksOnlyWork
<1>2. CASE Handler
  <2>1. worker # Idle /\ jobs' = jobs /\ enqueued' = enqueued
    BY <1>2 DEF Handler, HandlerStep, MarkRunning, FetchSource, DeploySucceeds, DeployThrows,
                StopReturns, StopThrows, rows, Idle
  <2>2. worker.job \in JobId /\ jobs[worker.job].status = "leased"
    BY <2>1, WorkerRow
  <2>3. \/ missed' = missed
        \/ \E v \in {"nothing", "outcome"} : missed' = [missed EXCEPT ![worker.job] = v]
    BY <1>2 DEF Handler, MarkRunning, FetchSource, DeploySucceeds, DeployThrows,
                StopReturns, StopThrows, rows
  <2> QED BY <2>1, <2>2, <2>3 DEF MarksOnlyWork, LeaseInv, TypeOK
<1>3. CASE Complete \/ CompleteThrows \/ RetryLater \/ GiveUp \/ FailThrows
  <2>1. worker # Idle /\ enqueued' = enqueued
    BY <1>3 DEF Complete, CompleteThrows, HandlerStep, RetryLater, GiveUp, FailThrows, rows, Idle
  <2>2. worker.job \in JobId /\ jobs[worker.job].status = "leased"
    BY <2>1, WorkerRow
  <2>3. \/ missed' = missed
        \/ \E v \in {"nothing", "outcome"} : missed' = [missed EXCEPT ![worker.job] = v]
    BY <1>3 DEF Complete, CompleteThrows, RetryLater, GiveUp, FailThrows, rows
  <2>4. \A k \in JobId \ {worker.job} : jobs'[k] = jobs[k]
    BY <1>3, <2>2 DEF Complete, CompleteThrows, RetryLater, GiveUp, FailThrows, rows, LeaseInv, TypeOK
  <2> QED BY <2>1, <2>2, <2>3, <2>4 DEF MarksOnlyWork, LeaseInv, TypeOK
<1> QED BY <1>1, <1>2, <1>3 DEF Work, Fault

LEMMA ProcessMarks ==
  ASSUME LeaseInv, Tick \/ PruneFinishedJobs \/ RequestRestart \/ Exit \/ Boot \/ UNCHANGED vars
  PROVE  MarksOnlyWork
<1>1. enqueued' = enqueued /\ missed' = missed
  BY DEF Tick, PruneFinishedJobs, RequestRestart, Exit, Boot, vars, rows
<1>2. \A k \in JobId : jobs[k].status = "none" => jobs'[k].status = "none"
  <2>1. CASE Tick \/ PruneFinishedJobs
    BY <2>1 DEF Tick, PruneFinishedJobs, NoRow
  <2>2. CASE RequestRestart \/ Exit \/ UNCHANGED vars
    BY <2>2 DEF RequestRestart, Exit, vars, rows
  <2>3. CASE Boot
    <3>1. /\ RecoverOrphanedLeases \in [JobId -> JobRow \cup {NoRow}]
          /\ \A k \in JobId : jobs[k].status = "none" => RecoverOrphanedLeases[k].status = "none"
      BY RecoveredTable DEF LeaseInv
    <3>2. CASE ClaimFrom(RecoverOrphanedLeases)
      BY <3>1, <3>2 DEF ClaimFrom, Claimable
    <3>3. CASE jobs' = RecoverOrphanedLeases
      BY <3>1, <3>3
    <3> QED BY <2>3, <3>2, <3>3 DEF Boot
  <2> QED BY <2>1, <2>2, <2>3
<1> QED BY <1>1, <1>2 DEF MarksOnlyWork

LEMMA StepMissed == LeaseInv /\ MissedInv /\ [Next]_vars => MissedInv'
<1> SUFFICES ASSUME LeaseInv, MissedInv, [Next]_vars PROVE MissedInv'
  OBVIOUS
<1>1. CASE Work \/ Fault
  BY <1>1, WorkMarks, MarksKept
<1>2. CASE Tick \/ PruneFinishedJobs \/ RequestRestart \/ Exit \/ Boot \/ UNCHANGED vars
  BY <1>2, ProcessMarks, MarksKept
<1>3. CASE Request
  <2>0. enqueued \in Nat
    BY DEF LeaseInv, TypeOK
  <2>1. ASSUME NEW kind \in Kind, NEW r \in Resource, Enqueue(kind, r)
        PROVE  MissedInv'
    <3>1. PICK j \in JobId : j = enqueued + 1 /\ enqueued' = j
      BY <2>1, <2>0, BoundsAssumption DEF Enqueue, JobId
    <3>2. missed' = missed /\ \A k \in JobId \ {j} : jobs'[k] = jobs[k]
      BY <2>1, <3>1 DEF Enqueue, LeaseInv, TypeOK
    <3>3. \A k \in JobId : k > enqueued' => k > enqueued
      BY <2>0, <3>1 DEF JobId
    <3>4. missed[j] = "nothing"
      BY <2>0, <3>1 DEF MissedInv, JobId
    <3> QED BY <3>2, <3>3, <3>4 DEF MissedInv
  <2>2. ASSUME NEW r \in Resource, DeploymentOnly(r)
        PROVE  MissedInv'
    <3>1. PICK j \in JobId : j = enqueued + 1 /\ enqueued' = j
      BY <2>2, <2>0, BoundsAssumption DEF DeploymentOnly, JobId
    <3>2. jobs' = jobs /\ missed' = [missed EXCEPT ![j] = "job"]
      BY <2>2, <3>1 DEF DeploymentOnly
    <3>3. jobs[j].status = "none"
      BY <2>0, <3>1 DEF LeaseInv, RowsAreEnqueued, JobId
    <3>4. \A k \in JobId : k > enqueued' => k > enqueued /\ k # j
      BY <2>0, <3>1 DEF JobId
    <3> QED BY <3>2, <3>3, <3>4 DEF MissedInv, LeaseInv, TypeOK
  <2>3. ASSUME NEW j \in JobId, Cancel(j)
        PROVE  MissedInv'
    <3>1. jobs[j].status = "pending"
      BY <2>3 DEF Cancel, Cancellable, WithStatus
    <3>2. /\ UNCHANGED <<enqueued, missed>>
          /\ \A k \in JobId \ {j} : jobs'[k] = jobs[k]
      BY <2>3 DEF Cancel, LeaseInv, TypeOK
    <3> QED BY <3>1, <3>2 DEF MissedInv
  <2>4. CASE UNCHANGED rows
    BY <2>4 DEF rows, MissedInv
  <2> QED BY <1>3, <2>1, <2>2, <2>3, <2>4
          DEF Request, Stop, RepeatDeploy, DeployQueued, AskFor, DeployFolded, DeployLost, PushFolded,
              PushAlreadyRunning, PushQueued, PushLost, Kind, DeployKind, rows
<1> QED BY <1>1, <1>2, <1>3 DEF Next

LEMMA MissedHolds == Spec => []MissedInv
  BY LeaseHolds, InitMissed, StepMissed, PTL DEF Spec

-----------------------------------------------------------------------------
(* The refinement.                                                         *)

Phases == [j \in JobId |-> PhaseOf(j)]

\* What a phase says of the tables, before and after a step.
LEMMA PhaseReading ==
  ASSUME TypeOK, NEW j \in JobId
  PROVE  /\ Unborn(j) => PhaseOf(j) = "unknown"
         /\ ~Unborn(j) /\ worker.job = j => PhaseOf(j) = "running"
         /\ ~Unborn(j) /\ worker.job # j => PhaseOf(j) = PhaseOfStatus[jobs[j].status]
  BY DEF PhaseOf, Unborn

LEMMA PhaseReadingNext ==
  ASSUME TypeOK', NEW j \in JobId
  PROVE  /\ Unborn(j)' => PhaseOf(j)' = "unknown"
         /\ ~Unborn(j)' /\ worker'.job = j => PhaseOf(j)' = "running"
         /\ ~Unborn(j)' /\ worker'.job # j => PhaseOf(j)' = PhaseOfStatus[jobs'[j].status]
  BY DEF PhaseOf, Unborn

LEMMA InitRefines == Init => Contract!Init
<1> SUFFICES ASSUME Init PROVE \A j \in JobId : PhaseOf(j) = "unknown"
  BY DEF Contract!Init
<1> QED BY DEF PhaseOf, Init, JobId

\* Starting a job: the claim takes it from the waiting room of a worker that
\* has no other.
LEMMA ClaimRefines ==
  ASSUME LeaseInv, LeaseInv', MissedInv, SameBorn, worker = Idle,
         NEW table \in [JobId -> JobRow \cup {NoRow}], ClaimFrom(table),
         \A k \in JobId : \/ table[k].status = jobs[k].status
                          \/ jobs[k].status = "leased" /\ table[k].status = "pending"
  PROVE  Contract!Next
<1>1. PICK j \in JobId :
        /\ table[j].status = "pending"
        /\ jobs' = [table EXCEPT ![j].status = "leased", ![j].attempts = @ + 1]
        /\ worker' = [job |-> j, phase |-> "claimed"]
  BY DEF ClaimFrom, Claimable
<1>2. ~Unborn(j) /\ ~Unborn(j)' /\ jobs[j].status \in {"pending", "leased"}
  BY <1>1, BornRow DEF SameBorn
<1>3. worker.job \notin JobId
  BY DEF Idle, NoJob, JobId
<1>4. PhaseOf(j) = "waiting" /\ PhaseOf(j)' = "running"
  BY <1>1, <1>2, <1>3, PhaseReading, PhaseReadingNext DEF LeaseInv, PhaseOfStatus
<1>5. \A k \in JobId : PhaseOf(k) # "running"
  <2> SUFFICES ASSUME NEW k \in JobId PROVE PhaseOf(k) # "running"
    OBVIOUS
  <2>1. jobs[k].status \in JobStatus \cup {"none"}
    BY DEF LeaseInv, TypeOK, JobRow, NoRow
  <2> QED BY <1>3, <2>1 DEF PhaseOf, PhaseOfStatus, JobStatus
<1>6. \A k \in JobId \ {j} : PhaseOf(k)' = PhaseOf(k)
  <2> SUFFICES ASSUME NEW k \in JobId \ {j} PROVE PhaseOf(k)' = PhaseOf(k)
    OBVIOUS
  <2>1. jobs'[k] = table[k] /\ worker'.job # k /\ worker.job # k
    BY <1>1, <1>3
  <2>2. k \in JobId
    OBVIOUS
  <2> QED BY <2>1, <2>2 DEF PhaseOf, PhaseOfStatus, SameBorn, Unborn
<1>7. Phases' = [Phases EXCEPT ![j] = "running"]
  BY <1>4, <1>6 DEF Phases
<1>8. Contract!Start(j)
  BY <1>4, <1>5, <1>7 DEF Contract!Start, Phases
<1> QED BY <1>8 DEF Contract!Next

\* Nothing moves: jobs keep their statuses and the worker its job, or a lease
\* becomes pending again with nobody on it.
LEMMA StutterRefines ==
  ASSUME LeaseInv, SameBorn, worker'.job = worker.job,
         \A k \in JobId :
            \/ jobs'[k].status = jobs[k].status
            \/ jobs[k].status = "leased" /\ jobs'[k].status = "pending"
  PROVE  Phases' = Phases
<1>1. \A k \in JobId : PhaseOf(k)' = PhaseOf(k)
  <2> SUFFICES ASSUME NEW k \in JobId PROVE PhaseOf(k)' = PhaseOf(k)
    OBVIOUS
  <2> QED BY DEF PhaseOf, PhaseOfStatus, SameBorn, Unborn
<1> QED BY <1>1 DEF Phases

\* A handler ends, or dies with its process.
LEMMA SettleRefines ==
  ASSUME LeaseInv, LeaseInv', MissedInv, SameBorn, worker # Idle, worker' = Idle,
         NEW j \in JobId, worker.job = j,
         jobs'[j].status \in {"leased", "pending", "done", "failed"},
         \A k \in JobId \ {j} : jobs'[k] = jobs[k]
  PROVE  Contract!Next
<1>1. jobs[j].status = "leased" /\ ~Unborn(j) /\ ~Unborn(j)'
  BY WorkerRow, BornRow DEF SameBorn
<1>2. worker'.job \notin JobId
  BY DEF Idle, NoJob, JobId
<1>3. PICK p \in {"waiting", "done", "failed"} : p = PhaseOfStatus[jobs'[j].status]
  BY DEF PhaseOfStatus
<1>4. PhaseOf(j) = "running" /\ PhaseOf(j)' = p
  BY <1>1, <1>2, <1>3, PhaseReading, PhaseReadingNext DEF LeaseInv
<1>5. \A k \in JobId \ {j} : PhaseOf(k)' = PhaseOf(k)
  <2> SUFFICES ASSUME NEW k \in JobId \ {j} PROVE PhaseOf(k)' = PhaseOf(k)
    OBVIOUS
  <2>1. k \in JobId /\ worker.job # k /\ worker'.job # k /\ jobs'[k].status = jobs[k].status
    BY <1>2
  <2> QED BY <2>1 DEF PhaseOf, PhaseOfStatus, SameBorn, Unborn
<1>6. Phases' = [Phases EXCEPT ![j] = p]
  BY <1>4, <1>5, <1>1 DEF Phases
<1>7. Contract!Settle(j)
  BY <1>1, <1>3, <1>4, <1>6 DEF Contract!Settle, Phases
<1> QED BY <1>1, <1>7 DEF Contract!Next

\* A new row is a submission.
LEMMA EnqueueRefines ==
  ASSUME LeaseInv, LeaseInv', MissedInv, NEW kind \in Kind, NEW r \in Resource,
         Enqueue(kind, r), worker' = worker
  PROVE  Contract!Next
<1>1. PICK j \in JobId : j = enqueued + 1 /\ enqueued' = j /\ enqueued \in Nat
  BY BoundsAssumption DEF Enqueue, LeaseInv, TypeOK, JobId
<1>2. jobs'[j].status = "pending" /\ \A k \in JobId \ {j} : jobs'[k] = jobs[k]
  BY <1>1 DEF Enqueue, LeaseInv, TypeOK
<1>3. worker.job # j
  BY <1>1 DEF LeaseInv, WorkerHoldsLease, RowsAreEnqueued, NoJob, JobId
<1>4. PhaseOf(j) = "unknown" /\ PhaseOf(j)' = "waiting"
  <2>1. missed' = missed
    BY DEF Enqueue
  <2>2. Unborn(j) /\ ~Unborn(j)'
    BY <1>1, <2>1 DEF Unborn, MissedInv, JobId
  <2> QED BY <1>2, <1>3, <2>2, PhaseReading, PhaseReadingNext DEF LeaseInv, PhaseOfStatus
<1>5. \A k \in JobId \ {j} : PhaseOf(k)' = PhaseOf(k)
  <2> SUFFICES ASSUME NEW k \in JobId, k # j PROVE PhaseOf(k)' = PhaseOf(k)
    OBVIOUS
  <2>1. (k > enqueued' <=> k > enqueued) /\ missed' = missed
    BY <1>1 DEF Enqueue, JobId
  <2> QED BY <1>2, <2>1 DEF PhaseOf
<1>6. Phases' = [Phases EXCEPT ![j] = "waiting"]
  BY <1>4, <1>5, <1>1 DEF Phases
<1>7. Contract!Submit(j)
  BY <1>1, <1>4, <1>6 DEF Contract!Submit, Phases
<1> QED BY <1>1, <1>7 DEF Contract!Next

LEMMA CancelRefines ==
  ASSUME LeaseInv, LeaseInv', MissedInv, NEW j \in JobId, Cancel(j)
  PROVE  Contract!Next
<1>1. /\ jobs[j].status = "pending" /\ ~Unborn(j) /\ jobs[j] \in JobRow
      /\ enqueued' = enqueued /\ worker' = worker /\ missed' = missed
  BY ActiveRow, BornRow DEF Cancel, Cancellable, WithStatus
<1>2. jobs'[j].status = "cancelled" /\ \A k \in JobId \ {j} : jobs'[k] = jobs[k]
  BY <1>1 DEF Cancel, LeaseInv, TypeOK, JobRow
<1>3. worker.job # j
  BY <1>1 DEF LeaseInv, WorkerHoldsLease, NoJob, JobId
<1>4. PhaseOf(j) = "waiting" /\ PhaseOf(j)' = "withdrawn"
  <2>1. ~Unborn(j)'
    BY <1>1 DEF Unborn
  <2> QED BY <1>1, <1>2, <1>3, <2>1, PhaseReading, PhaseReadingNext DEF LeaseInv, PhaseOfStatus
<1>5. \A k \in JobId \ {j} : PhaseOf(k)' = PhaseOf(k)
  BY <1>1, <1>2 DEF PhaseOf
<1>6. Phases' = [Phases EXCEPT ![j] = "withdrawn"]
  BY <1>4, <1>5 DEF Phases
<1>7. Contract!Withdraw(j)
  BY <1>4, <1>6 DEF Contract!Withdraw, Phases
<1> QED BY <1>7 DEF Contract!Next

LEMMA PruneRefines ==
  ASSUME LeaseInv, LeaseInv', MissedInv, PruneFinishedJobs
  PROVE  Contract!Next
<1>1. PICK old \in SUBSET JobId :
        /\ \A k \in old : jobs[k].status \in Finished
        /\ jobs' = [k \in JobId |-> IF k \in old THEN NoRow ELSE jobs[k]]
  BY DEF PruneFinishedJobs
<1>2. enqueued' = enqueued /\ worker' = worker /\ missed' = missed
  BY DEF PruneFinishedJobs
<1>3. ASSUME NEW k \in old
      PROVE  PhaseOf(k) \in Contract!Over /\ PhaseOf(k)' = "forgotten"
  <2>1. k \in JobId /\ jobs[k].status \in Finished
    BY <1>1
  <2>2. ~Unborn(k) /\ ~Unborn(k)'
    BY <1>2, <2>1, BornRow DEF Finished, Unborn
  <2>3. worker.job # k
    BY <2>1 DEF Finished, LeaseInv, WorkerHoldsLease, JobId, NoJob
  <2>4. jobs'[k].status = "none"
    BY <1>1, <2>1 DEF NoRow
  <2> QED BY <1>2, <2>1, <2>2, <2>3, <2>4, PhaseReading, PhaseReadingNext
          DEF LeaseInv, PhaseOfStatus, Finished, Contract!Over
<1>4. \A k \in JobId \ old : PhaseOf(k)' = PhaseOf(k)
  BY <1>1, <1>2 DEF PhaseOf
<1>5. Phases' = [k \in JobId |-> IF k \in old THEN "forgotten" ELSE Phases[k]]
  BY <1>3, <1>4 DEF Phases
<1>6. old \in SUBSET {k \in JobId : Phases[k] \in Contract!Over}
  BY <1>3 DEF Phases
<1>7. Contract!Forget
  BY <1>5, <1>6 DEF Contract!Forget, Phases
<1> QED BY <1>7 DEF Contract!Next

LEMMA RequestRefines ==
  ASSUME LeaseInv, LeaseInv', MissedInv, Request
  PROVE  Contract!Next \/ Phases' = Phases
<1>1. ASSUME NEW r \in Resource, NEW kind \in Kind, AskFor(kind, r)
      PROVE  Contract!Next
  BY <1>1, EnqueueRefines DEF AskFor
<1>2. ASSUME NEW r \in Resource, Stop(r) \/ RepeatDeploy(r) \/ DeployQueued(r)
      PROVE  \E kind \in Kind : AskFor(kind, r)
  BY <1>2 DEF Stop, RepeatDeploy, DeployQueued, Kind, DeployKind
<1>3. ASSUME NEW r \in Resource, NEW n \in 1..MaxPushes, PushQueued(r, n)
      PROVE  Contract!Next
  <2>1. Enqueue("branch", r) /\ worker' = worker /\ "branch" \in Kind
    BY <1>3 DEF PushQueued, Kind, DeployKind
  <2> QED BY <2>1, EnqueueRefines
<1>4. ASSUME NEW r \in Resource, NEW n \in 1..MaxPushes,
             PushFolded(r, n) \/ PushAlreadyRunning(r, n)
      PROVE  Phases' = Phases
  <2>1. jobs' = jobs /\ worker' = worker /\ SameBorn
    BY <1>4 DEF PushFolded, PushAlreadyRunning, rows, SameBorn, Unborn
  <2> QED BY <2>1, StutterRefines
<1>5. ASSUME NEW r \in Resource, DeployFolded(r)
      PROVE  Phases' = Phases
  <2>1. jobs' = jobs /\ worker' = worker /\ SameBorn
    BY <1>5 DEF DeployFolded, rows, SameBorn, Unborn
  <2> QED BY <2>1, StutterRefines
<1>6. ASSUME NEW j \in JobId, Cancel(j)
      PROVE  Contract!Next
  BY <1>6, CancelRefines
<1>7. ASSUME NEW r \in Resource, DeploymentOnly(r)
      PROVE  Contract!Next \/ Phases' = Phases
  <2>1. PICK j \in JobId : j = enqueued + 1 /\ enqueued' = j /\ enqueued \in Nat
    BY <1>7, BoundsAssumption DEF DeploymentOnly, LeaseInv, TypeOK, JobId
  <2>2. jobs' = jobs /\ missed' = [missed EXCEPT ![j] = "job"]
    BY <1>7, <2>1 DEF DeploymentOnly
  <2>3. SameBorn
    <3> SUFFICES ASSUME NEW k \in JobId PROVE Unborn(k)' <=> Unborn(k)
      BY DEF SameBorn
    <3>1. CASE k = j
      BY <2>1, <2>2, <3>1 DEF Unborn, LeaseInv, TypeOK, JobId
    <3>2. CASE k # j
      <4>1. k > enqueued' <=> k > enqueued
        BY <2>1, <3>2 DEF JobId
      <4> QED BY <2>2, <3>2, <4>1 DEF Unborn
    <3> QED BY <3>1, <3>2
  <2>4. worker' = worker \/ worker' = Idle
    BY <1>7 DEF DeploymentOnly
  <2>5. CASE worker' = worker
    BY <2>2, <2>3, <2>5, StutterRefines
  <2>6. CASE worker' = Idle /\ worker # Idle
    <3>1. PICK i \in JobId : worker.job = i /\ jobs[i].status = "leased"
      BY <2>6, WorkerRow
    <3> QED BY <2>2, <2>3, <2>6, <3>1, SettleRefines
  <2> QED BY <2>4, <2>5, <2>6
<1> QED BY <1>1, <1>2, <1>3, <1>4, <1>5, <1>6, <1>7 DEF Request, DeployLost, PushLost

LEMMA OutcomeRefines ==
  ASSUME LeaseInv, LeaseInv', MissedInv,
         Complete \/ CompleteThrows \/ RetryLater \/ GiveUp \/ FailThrows
  PROVE  Contract!Next \/ Phases' = Phases
<1>0. SameBorn
  BY WorkMarks, MarksKept DEF Work, Fault
<1>1. CASE CompleteThrows
  <2>1. jobs' = jobs /\ worker'.job = worker.job
    BY <1>1, WorkerRow DEF CompleteThrows, HandlerStep, rows, Idle
  <2> QED BY <1>0, <2>1, StutterRefines
<1>2. CASE Complete \/ RetryLater \/ GiveUp \/ FailThrows
  <2>1. worker # Idle /\ worker' = Idle
    BY <1>2 DEF Complete, RetryLater, GiveUp, FailThrows, rows, Idle
  <2>2. PICK j \in JobId : worker.job = j /\ jobs[j] \in JobRow /\ jobs[j].status = "leased"
    BY <2>1, WorkerRow
  <2>3. jobs'[j].status \in {"leased", "pending", "done", "failed"}
    BY <1>2, <2>2 DEF Complete, RetryLater, GiveUp, FailThrows, rows, LeaseInv, TypeOK, JobRow
  <2>4. \A k \in JobId \ {j} : jobs'[k] = jobs[k]
    BY <1>2, <2>2 DEF Complete, RetryLater, GiveUp, FailThrows, rows, LeaseInv, TypeOK
  <2> QED BY <1>0, <2>1, <2>2, <2>3, <2>4, SettleRefines
<1> QED BY <1>1, <1>2

LEMMA StepRefines ==
  LeaseInv /\ LeaseInv' /\ QuietInv /\ MissedInv /\ [Next]_vars
    => Contract!Next \/ Phases' = Phases
<1> SUFFICES ASSUME LeaseInv, LeaseInv', QuietInv, MissedInv, [Next]_vars
             PROVE  Contract!Next \/ Phases' = Phases
  OBVIOUS
<1>1. CASE Request
  BY <1>1, RequestRefines
<1>2. CASE Claim
  <2>1. worker = Idle /\ ClaimFrom(jobs)
        /\ jobs \in [JobId -> JobRow \cup {NoRow}]
    BY <1>2 DEF Claim, LeaseInv, TypeOK
  <2>2. SameBorn
    BY <1>2, WorkMarks, MarksKept DEF Work
  <2> QED BY <2>1, <2>2, ClaimRefines
<1>3. CASE Handler
  <2>1. worker # Idle
    BY <1>3 DEF Handler, HandlerStep, MarkRunning, FetchSource, DeploySucceeds, DeployThrows,
                StopReturns, StopThrows, Idle
  <2>2. jobs' = jobs
    BY <1>3 DEF Handler, MarkRunning, FetchSource, DeploySucceeds, DeployThrows,
                StopReturns, StopThrows, rows
  <2>3. \E to \in HandlerPhase : worker' = [worker EXCEPT !.phase = to]
    BY <1>3 DEF Handler, HandlerStep, MarkRunning, FetchSource, DeploySucceeds, DeployThrows,
                StopReturns, StopThrows, HandlerPhase
  <2>4. worker'.job = worker.job
    BY <2>1, <2>3, WorkerRow
  <2>5. SameBorn
    BY <1>3, WorkMarks, MarksKept DEF Work
  <2> QED BY <2>2, <2>4, <2>5, StutterRefines
<1>4. CASE Complete \/ CompleteThrows \/ RetryLater \/ GiveUp \/ FailThrows
  BY <1>4, OutcomeRefines
<1>5. CASE Tick
  <2>1. worker' = worker
        /\ \A k \in JobId : jobs'[k].status = jobs[k].status
    BY <1>5 DEF Tick, LeaseInv, TypeOK
  <2>2. SameBorn
    BY <1>5, ProcessMarks, MarksKept
  <2> QED BY <2>1, <2>2, StutterRefines
<1>6. CASE PruneFinishedJobs
  BY <1>6, PruneRefines
<1>7. CASE RequestRestart \/ Exit \/ UNCHANGED vars
  <2>1. jobs' = jobs /\ worker' = worker
    BY <1>7 DEF RequestRestart, Exit, rows, vars
  <2>2. SameBorn
    BY <1>7, ProcessMarks, MarksKept
  <2> QED BY <2>1, <2>2, StutterRefines
<1>8. CASE Crash
  <2>0. SameBorn
    BY <1>8, WorkMarks, MarksKept DEF Fault
  <2>1. jobs' = jobs /\ worker' = Idle
    BY <1>8 DEF Crash, rows
  <2>2. CASE worker = Idle
    BY <2>0, <2>1, <2>2, StutterRefines
  <2>3. CASE worker # Idle
    <3>1. PICK j \in JobId : worker.job = j /\ jobs'[j].status = "leased"
      BY <2>1, <2>3, WorkerRow
    <3> QED BY <2>0, <2>1, <2>3, <3>1, SettleRefines
  <2> QED BY <2>2, <2>3
<1>9. CASE Boot
  <2>0. SameBorn
    BY <1>9, ProcessMarks, MarksKept
  <2>1. worker = Idle
    BY <1>9 DEF Boot, QuietInv, DownIsIdle
  <2>2. /\ RecoverOrphanedLeases \in [JobId -> JobRow \cup {NoRow}]
        /\ \A k \in JobId : \/ RecoverOrphanedLeases[k].status = jobs[k].status
                            \/ /\ jobs[k].status = "leased"
                               /\ RecoverOrphanedLeases[k].status = "pending"
    BY RecoveredTable DEF LeaseInv
  <2>3. CASE ClaimFrom(RecoverOrphanedLeases)
    BY <2>0, <2>1, <2>2, <2>3, ClaimRefines
  <2>4. CASE jobs' = RecoverOrphanedLeases /\ worker' = Idle
    BY <2>0, <2>1, <2>2, <2>4, StutterRefines
  <2> QED BY <1>9, <2>3, <2>4 DEF Boot
<1> QED BY <1>1, <1>2, <1>3, <1>4, <1>5, <1>6, <1>7, <1>8, <1>9 DEF Next, Work, Fault

\* The jobs table, the worker loop and startup recovery implement the
\* contract of JobContract: requests, crashes, restarts, retries, prunes and
\* failed writes never lose a job, run it beside another, or run it after it
\* ended (queue/index.ts, queue/worker.ts).
THEOREM QueueKeepsContract == Spec => ContractSpec
<1>1. Init => Contract!Init
  BY InitRefines
<1>2. LeaseInv /\ LeaseInv' /\ QuietInv /\ MissedInv /\ [Next]_vars
        => [Contract!Next]_[j \in JobId |-> PhaseOf(j)]
  BY StepRefines DEF Phases
<1> QED BY <1>1, <1>2, LeaseHolds, QuietHolds, MissedHolds, PTL DEF Spec, ContractSpec, Contract!Spec

-----------------------------------------------------------------------------
(* What becomes of jobs and requests.                                       *)

\* A stop has no deployment row, nor has an id not given out yet, and only a
\* deploy's handler gets past its claim with work of its own to do.
StopsHaveNone ==
  \A j \in JobId : jobs[j].kind = "stop" \/ j > enqueued => deployments[j].status = "none"
StartedIsDeploy ==
  worker.phase \in {"started", "fetched"} => jobs[worker.job].kind \in DeployKind

StopInv == StopsHaveNone /\ StartedIsDeploy

LEMMA InitStops == Init => StopInv
  BY DEF Init, StopInv, StopsHaveNone, StartedIsDeploy, NoDeployment, Idle

LEMMA EnqueueStops ==
  ASSUME LeaseInv, StopInv, NEW kind \in Kind, NEW r \in Resource,
         Enqueue(kind, r), worker' = worker
  PROVE  StopInv'
<1>1. PICK j \in JobId : j = enqueued + 1 /\ enqueued' = j /\ enqueued \in Nat
  BY BoundsAssumption DEF Enqueue, LeaseInv, TypeOK, JobId
<1>2. /\ jobs'[j].kind = kind
      /\ \A k \in JobId \ {j} : jobs'[k] = jobs[k] /\ deployments'[k] = deployments[k]
      /\ kind \notin DeployKind => deployments' = deployments
  BY <1>1 DEF Enqueue, LeaseInv, TypeOK
<1>3. StopsHaveNone'
  <2> SUFFICES ASSUME NEW k \in JobId, jobs'[k].kind = "stop" \/ k > enqueued'
               PROVE  deployments'[k].status = "none"
    BY DEF StopsHaveNone
  <2>1. CASE k = j
    BY <1>1, <1>2, <2>1 DEF StopInv, StopsHaveNone, DeployKind, JobId
  <2>2. CASE k # j
    BY <1>1, <1>2, <2>2 DEF StopInv, StopsHaveNone, JobId
  <2> QED BY <2>1, <2>2
<1>4. StartedIsDeploy'
  <2> SUFFICES ASSUME worker.phase \in {"started", "fetched"}
               PROVE  jobs'[worker.job].kind \in DeployKind
    BY DEF StartedIsDeploy
  <2>1. worker # Idle
    BY DEF Idle
  <2>2. worker.job \in JobId /\ worker.job <= enqueued
    BY <2>1, WorkerRow DEF LeaseInv, RowsAreEnqueued
  <2>3. worker.job # j
    BY <1>1, <2>2 DEF JobId
  <2> QED BY <1>2, <2>2, <2>3 DEF StopInv, StartedIsDeploy
<1> QED BY <1>3, <1>4 DEF StopInv

\* No other step gives a job another kind, an id away, or a stop a row.
LEMMA StopsKept ==
  ASSUME StopInv, enqueued' = enqueued,
         \A k \in JobId : jobs'[k].kind \in {jobs[k].kind, "none"},
         \A k \in JobId : jobs[k].kind = "stop" \/ k > enqueued =>
                            deployments'[k].status = deployments[k].status
  PROVE  StopsHaveNone'
  BY DEF StopInv, StopsHaveNone

LEMMA StepStops == LeaseInv /\ StopInv /\ [Next]_vars => StopInv'
<1> SUFFICES ASSUME LeaseInv, StopInv, [Next]_vars PROVE StopInv'
  OBVIOUS
<1>1. ASSUME NEW kind \in Kind, NEW r \in Resource, AskFor(kind, r)
      PROVE  StopInv'
  BY <1>1, EnqueueStops DEF AskFor
<1>2. CASE Request
  <2>1. ASSUME NEW r \in Resource, Stop(r) \/ RepeatDeploy(r) \/ DeployQueued(r)
        PROVE  StopInv'
    BY <1>1, <2>1 DEF Stop, RepeatDeploy, DeployQueued, Kind, DeployKind
  <2>2. ASSUME NEW r \in Resource, NEW n \in 1..MaxPushes, PushQueued(r, n)
        PROVE  StopInv'
    <3>1. Enqueue("branch", r) /\ worker' = worker /\ "branch" \in Kind
      BY <2>2 DEF PushQueued, Kind, DeployKind
    <3> QED BY <3>1, EnqueueStops
  <2>3. ASSUME NEW r \in Resource, NEW n \in 1..MaxPushes,
               PushFolded(r, n) \/ PushAlreadyRunning(r, n)
        PROVE  StopInv'
    BY <2>3 DEF PushFolded, PushAlreadyRunning, rows, StopInv, StopsHaveNone, StartedIsDeploy
  <2>4. ASSUME NEW r \in Resource, DeployFolded(r)
        PROVE  StopInv'
    BY <2>4 DEF DeployFolded, rows, StopInv, StopsHaveNone, StartedIsDeploy
  <2>5. ASSUME NEW j \in JobId, Cancel(j)
        PROVE  StopInv'
    <3>1. jobs[j].kind \in DeployKind /\ jobs[j] \in JobRow /\ j <= enqueued
      BY <2>5, ActiveRow DEF Cancel, Cancellable, WithStatus
    <3>2. /\ enqueued' = enqueued /\ worker' = worker
          /\ \A k \in JobId : jobs'[k].kind = jobs[k].kind
          /\ \A k \in JobId \ {j} : deployments'[k] = deployments[k]
      BY <2>5, <3>1 DEF Cancel, LeaseInv, TypeOK, JobRow
    <3>3. jobs[j].kind # "stop" /\ ~(j > enqueued)
      BY <3>1 DEF DeployKind, LeaseInv, TypeOK, JobId
    <3>4. StopsHaveNone'
      BY <3>2, <3>3, StopsKept
    <3>5. StartedIsDeploy'
      <4> SUFFICES ASSUME worker.phase \in {"started", "fetched"}
                   PROVE  jobs'[worker.job].kind \in DeployKind
        BY <3>2 DEF StartedIsDeploy
      <4>1. worker.job \in JobId
        BY WorkerRow DEF Idle
      <4> QED BY <3>2, <4>1 DEF StopInv, StartedIsDeploy
    <3> QED BY <3>4, <3>5 DEF StopInv
  <2>6. ASSUME NEW r \in Resource, DeploymentOnly(r)
        PROVE  StopInv'
    <3>1. PICK j \in JobId : j = enqueued + 1 /\ enqueued' = j /\ enqueued \in Nat
      BY <2>6, BoundsAssumption DEF DeploymentOnly, LeaseInv, TypeOK, JobId
    <3>2. /\ jobs' = jobs /\ worker' \in {worker, Idle}
          /\ \A k \in JobId \ {j} : deployments'[k] = deployments[k]
      BY <2>6, <3>1 DEF DeploymentOnly, LeaseInv, TypeOK
    <3>3. jobs[j].kind # "stop"
      <4>1. jobs[j].status = "none"
        BY <3>1 DEF LeaseInv, RowsAreEnqueued, JobId
      <4>2. jobs[j] \in JobRow \cup {NoRow}
        BY DEF LeaseInv, TypeOK
      <4> QED BY <4>1, <4>2 DEF JobRow, JobStatus, NoRow
    <3>4. \A k \in JobId : k > enqueued' => k > enqueued /\ k # j
      BY <3>1 DEF JobId
    <3> QED BY <3>2, <3>3, <3>4 DEF StopInv, StopsHaveNone, StartedIsDeploy, Idle
  <2> QED BY <1>2, <2>1, <2>2, <2>3, <2>4, <2>5, <2>6 DEF Request, DeployLost, PushLost
<1>3. CASE Handler
  <2>1. worker # Idle /\ jobs' = jobs /\ enqueued' = enqueued
    BY <1>3 DEF Handler, HandlerStep, MarkRunning, FetchSource, DeploySucceeds, DeployThrows,
                StopReturns, StopThrows, Idle, rows
  <2>2. PICK j \in JobId :
          j = worker.job /\ j <= enqueued /\ worker = [job |-> j, phase |-> worker.phase]
    BY <2>1, WorkerRow DEF LeaseInv, RowsAreEnqueued
  <2>3. worker'.job = j
    BY <1>3, <2>2 DEF Handler, HandlerStep, MarkRunning, FetchSource, DeploySucceeds,
                      DeployThrows, StopReturns, StopThrows
  <2>4. /\ \A k \in JobId \ {j} : deployments'[k] = deployments[k]
        /\ deployments' = deployments \/ jobs[j].kind \in DeployKind
    BY <1>3, <2>2 DEF Handler, HandlerStep, MarkRunning, FetchSource, DeploySucceeds,
                      DeployThrows, StopReturns, StopThrows, rows, LeaseInv, TypeOK,
                      StopInv, StartedIsDeploy, DeployKind
  <2>5. StopsHaveNone'
    <3>1. j > enqueued => FALSE
      BY <2>2 DEF LeaseInv, TypeOK, JobId
    <3>2. jobs[j].kind = "stop" => deployments' = deployments
      BY <2>4 DEF DeployKind
    <3> QED BY <2>1, <2>4, <3>1, <3>2, StopsKept
  <2>6. StartedIsDeploy'
    BY <1>3, <2>1, <2>2, <2>3
       DEF Handler, HandlerStep, MarkRunning, FetchSource, DeploySucceeds, DeployThrows,
           StopReturns, StopThrows, StartedIsDeploy, DeployKind
  <2> QED BY <2>5, <2>6 DEF StopInv
<1>4. CASE Complete \/ CompleteThrows \/ RetryLater \/ GiveUp \/ FailThrows
  <2>1. worker # Idle /\ enqueued' = enqueued
    BY <1>4 DEF Complete, CompleteThrows, HandlerStep, RetryLater, GiveUp, FailThrows, Idle, rows
  <2>2. PICK j \in JobId :
          j = worker.job /\ jobs[j] \in JobRow /\ j <= enqueued
          /\ worker = [job |-> j, phase |-> worker.phase]
    BY <2>1, WorkerRow DEF LeaseInv, RowsAreEnqueued
  <2>3. \A k \in JobId : jobs'[k].kind = jobs[k].kind
    BY <1>4, <2>2 DEF Complete, CompleteThrows, RetryLater, GiveUp, FailThrows, rows,
                      LeaseInv, TypeOK, JobRow
  <2>4. /\ \A k \in JobId \ {j} : deployments'[k] = deployments[k]
        /\ deployments' = deployments \/ jobs[j].kind \in DeployKind
    BY <1>4, <2>2 DEF Complete, CompleteThrows, RetryLater, GiveUp, FailThrows, rows,
                      LeaseInv, TypeOK
  <2>5. StopsHaveNone'
    <3>1. j > enqueued => FALSE
      BY <2>2 DEF LeaseInv, TypeOK, JobId
    <3>2. jobs[j].kind = "stop" => deployments' = deployments
      BY <2>4 DEF DeployKind
    <3> QED BY <2>1, <2>3, <2>4, <3>1, <3>2, StopsKept
  <2>6. worker'.phase \in {"idle", "threw"}
    BY <1>4, <2>2 DEF Complete, CompleteThrows, HandlerStep, RetryLater, GiveUp, FailThrows, Idle
  <2> QED BY <2>5, <2>6 DEF StopInv, StartedIsDeploy
<1>5. CASE Claim \/ Crash \/ Boot
  <2>1. /\ \A k \in JobId : jobs'[k].kind = jobs[k].kind
        /\ deployments' = deployments /\ enqueued' = enqueued
        /\ worker'.phase \in {"claimed", "idle"}
    <3>1. ASSUME NEW table \in [JobId -> JobRow \cup {NoRow}], ClaimFrom(table),
                 \A k \in JobId : table[k].kind = jobs[k].kind
          PROVE  /\ \A k \in JobId : jobs'[k].kind = jobs[k].kind
                 /\ worker'.phase = "claimed"
      BY <3>1 DEF ClaimFrom, Claimable, JobRow, NoRow
    <3>2. CASE Claim
      BY <3>1, <3>2 DEF Claim, LeaseInv, TypeOK
    <3>3. CASE Crash
      BY <3>3 DEF Crash, rows, Idle
    <3>4. CASE Boot
      BY <3>1, <3>4, RecoveredTable DEF Boot, LeaseInv, Idle
    <3> QED BY <1>5, <3>2, <3>3, <3>4
  <2> QED BY <2>1, StopsKept DEF StopInv, StartedIsDeploy
<1>6. CASE Tick \/ PruneFinishedJobs
  <2>1. /\ \A k \in JobId : jobs'[k].kind \in {jobs[k].kind, "none"}
        /\ \A k \in JobId : jobs[k].status = "leased" => jobs'[k] = jobs[k]
        /\ deployments' = deployments /\ enqueued' = enqueued /\ worker' = worker
    <3>1. CASE Tick
      <4> SUFFICES ASSUME NEW k \in JobId
                   PROVE  /\ jobs'[k].kind = jobs[k].kind
                          /\ jobs[k].status = "leased" => jobs'[k] = jobs[k]
        BY <3>1 DEF Tick
      <4>1. CASE jobs[k].status = "pending"
        <5>1. jobs[k] \in JobRow
          BY <4>1, ActiveRow
        <5> QED BY <3>1, <4>1, <5>1 DEF Tick, JobRow
      <4>2. CASE jobs[k].status # "pending"
        BY <3>1, <4>2 DEF Tick
      <4> QED BY <4>1, <4>2
    <3>2. CASE PruneFinishedJobs
      <4>1. PICK old \in SUBSET JobId :
              /\ \A k \in old : jobs[k].status \in Finished
              /\ jobs' = [k \in JobId |-> IF k \in old THEN NoRow ELSE jobs[k]]
        BY <3>2 DEF PruneFinishedJobs
      <4>2. deployments' = deployments /\ enqueued' = enqueued /\ worker' = worker
        BY <3>2 DEF PruneFinishedJobs
      <4> QED BY <4>1, <4>2 DEF Finished, NoRow
    <3> QED BY <1>6, <3>1, <3>2
  <2>2. StartedIsDeploy'
    <3> SUFFICES ASSUME worker.phase \in {"started", "fetched"}
                 PROVE  jobs'[worker.job].kind \in DeployKind
      BY <2>1 DEF StartedIsDeploy
    <3>1. worker.job \in JobId /\ jobs[worker.job].status = "leased"
      BY WorkerRow DEF Idle
    <3> QED BY <2>1, <3>1 DEF StopInv, StartedIsDeploy
  <2> QED BY <2>1, <2>2, StopsKept DEF StopInv
<1>7. CASE RequestRestart \/ Exit \/ UNCHANGED vars
  BY <1>7 DEF RequestRestart, Exit, vars, rows, StopInv, StopsHaveNone, StartedIsDeploy
<1> QED BY <1>2, <1>3, <1>4, <1>5, <1>6, <1>7 DEF Next, Work, Fault

LEMMA StopsHold == Spec => []StopInv
  BY LeaseHolds, InitStops, StepStops, PTL DEF Spec

-----------------------------------------------------------------------------
(* A job and its deployment end alike.                                     *)

\* A deploy whose handler returned has its deployment marked already, and one
\* whose handler threw has, unless a write failed: what the worker then writes
\* to the job is what the deployment says.
EndsMarked ==
  /\ worker.phase = "returned" /\ jobs[worker.job].kind \in DeployKind =>
       deployments[worker.job].status = "succeeded"
  /\ worker.phase = "threw" /\ deployments[worker.job].status = "running" => dbErrors # 0

OutcomeInv == OutcomesAgree /\ EndsMarked

LEMMA InitOutcome == Init => OutcomeInv
  BY DEF Init, OutcomeInv, OutcomesAgree, EndsMarked, NoRow, NoDeployment, Idle, DeployKind

\* Two writes about a deployment were lost, one of them to the database.
TwoLost == dbErrors # 0 /\ dbErrors + crashes >= 2

\* Failed writes and deaths are only ever counted up.
FaultsGrow == (TwoLost => TwoLost') /\ (dbErrors # 0 => dbErrors' # 0)

LEMMA FaultsCounted ==
  ASSUME LeaseInv, dbErrors' \in {dbErrors, dbErrors + 1}, crashes' \in {crashes, crashes + 1}
  PROVE  FaultsGrow
<1>1. dbErrors \in Nat /\ crashes \in Nat
  BY DEF LeaseInv, TypeOK
<1>2. dbErrors # 0 => dbErrors' # 0
  BY <1>1
<1>3. dbErrors' \in Nat /\ crashes' \in Nat /\ dbErrors' >= dbErrors /\ crashes' >= crashes
  BY <1>1
<1>4. \A a, b, c, d \in Nat : c >= a /\ d >= b /\ a + b >= 2 => c + d >= 2
  OBVIOUS
<1>5. dbErrors + crashes >= 2 => dbErrors' + crashes' >= 2
  BY <1>1, <1>3, <1>4
<1> QED BY <1>2, <1>5 DEF FaultsGrow, TwoLost

LEMMA StepFaults ==
  ASSUME LeaseInv, [Next]_vars
  PROVE  FaultsGrow
<1>1. dbErrors' \in {dbErrors, dbErrors + 1} /\ crashes' \in {crashes, crashes + 1}
  <2>1. CASE Request
    BY <2>1 DEF Request, Stop, RepeatDeploy, AskFor, DeployFolded, DeployQueued, DeployLost,
                DeploymentOnly, SecondWriteLost, PushFolded, PushAlreadyRunning, PushQueued,
                PushLost, Cancel, faults
  <2>2. CASE Work \/ Fault
    BY <2>2 DEF Work, Fault, Claim, Handler, MarkRunning, FetchSource, DeploySucceeds, DeployThrows,
                StopReturns, StopThrows, Complete, RetryLater, GiveUp, SecondWriteLost,
                CompleteThrows, FailThrows, Crash, faults
  <2>3. CASE Tick \/ PruneFinishedJobs \/ RequestRestart \/ Exit \/ Boot \/ UNCHANGED vars
    BY <2>3 DEF Tick, PruneFinishedJobs, RequestRestart, Exit, Boot, vars, faults
  <2> QED BY <2>1, <2>2, <2>3 DEF Next
<1> QED BY <1>1, FaultsCounted

\* The agreement of one job with its deployment; OutcomesAgree is this for all.
Agree(row, deployment, mark, twice) ==
  /\ deployment.status \in {"queued", "running"} /\ row.status \notin {"pending", "leased"} =>
       mark # "nothing" /\ (deployment.status = "running" => twice)
  /\ row.kind \in DeployKind =>
       /\ row.status = "done" => deployment.status = "succeeded"
       /\ row.status = "failed" /\ mark = "nothing" => deployment.status = "failed"
       /\ row.status = "cancelled" <=> deployment.status = "cancelled"

LEMMA AgreeForAll ==
  /\ OutcomesAgree <=> \A j \in JobId : Agree(jobs[j], deployments[j], missed[j], TwoLost)
  /\ OutcomesAgree' <=> \A j \in JobId : Agree(jobs'[j], deployments'[j], missed'[j], TwoLost')
  BY DEF OutcomesAgree, Agree, ActiveJobs, WithStatus, TwoLost

\* Rows whose status moves only between pending and leased, or that are
\* deleted once over, agree as before while their deployments stand.
LEMMA AgreeKept ==
  ASSUME OutcomesAgree, FaultsGrow, deployments' = deployments, missed' = missed,
         \A k \in JobId :
            \/ jobs'[k].kind = jobs[k].kind /\ jobs'[k].status = jobs[k].status
            \/ /\ jobs'[k].kind = jobs[k].kind
               /\ jobs[k].status \in {"pending", "leased"}
               /\ jobs'[k].status \in {"pending", "leased"}
            \/ jobs'[k] = NoRow /\ jobs[k].status \in Finished
  PROVE  OutcomesAgree'
<1> SUFFICES ASSUME NEW k \in JobId
             PROVE  Agree(jobs'[k], deployments'[k], missed'[k], TwoLost')
  BY AgreeForAll
<1>1. Agree(jobs[k], deployments[k], missed[k], TwoLost)
  BY AgreeForAll
<1> QED BY <1>1 DEF Agree, FaultsGrow, NoRow, Finished, DeployKind

\* One job's row and deployment change, the others stand.
LEMMA AgreeAt ==
  ASSUME OutcomesAgree, FaultsGrow, NEW j \in JobId,
         Agree(jobs'[j], deployments'[j], missed'[j], TwoLost'),
         \A k \in JobId \ {j} : /\ jobs'[k] = jobs[k] /\ deployments'[k] = deployments[k]
                                /\ missed'[k] = missed[k]
  PROVE  OutcomesAgree'
<1> SUFFICES ASSUME NEW k \in JobId
             PROVE  Agree(jobs'[k], deployments'[k], missed'[k], TwoLost')
  BY AgreeForAll
<1>1. Agree(jobs[k], deployments[k], missed[k], TwoLost)
  BY AgreeForAll
<1> QED BY <1>1 DEF Agree, FaultsGrow

\* The handler stands where it stood, or has not ended.
LEMMA EndsKept ==
  ASSUME EndsMarked, FaultsGrow,
         \/ worker'.phase \notin {"returned", "threw"}
         \/ /\ worker' = worker
            /\ \/ worker = Idle
               \/ /\ jobs'[worker.job].kind \in {jobs[worker.job].kind, "none"}
                  /\ deployments'[worker.job] = deployments[worker.job]
  PROVE  EndsMarked'
  BY DEF EndsMarked, FaultsGrow, Idle, DeployKind

LEMMA EnqueueOutcome ==
  ASSUME LeaseInv, OutcomeInv, FaultsGrow, NEW kind \in Kind, NEW r \in Resource,
         Enqueue(kind, r), worker' = worker
  PROVE  OutcomeInv'
<1>1. PICK j \in JobId : j = enqueued + 1 /\ enqueued \in Nat
  BY BoundsAssumption DEF Enqueue, LeaseInv, TypeOK, JobId
<1>2. /\ jobs'[j].status = "pending" /\ jobs'[j].kind = kind
      /\ \A k \in JobId \ {j} : jobs'[k] = jobs[k] /\ deployments'[k] = deployments[k]
      /\ missed' = missed
  BY <1>1 DEF Enqueue, LeaseInv, TypeOK
<1>3. kind \in DeployKind => deployments'[j].status = "queued"
  BY <1>1 DEF Enqueue, LeaseInv, TypeOK
<1>4. OutcomesAgree'
  <2>1. Agree(jobs'[j], deployments'[j], missed'[j], TwoLost')
    BY <1>2, <1>3 DEF Agree
  <2> QED BY <2>1, <1>2, AgreeAt DEF OutcomeInv
<1>5. EndsMarked'
  <2>1. CASE worker = Idle
    BY <2>1, EndsKept DEF OutcomeInv
  <2>2. CASE worker # Idle
    <3>1. worker.job \in JobId /\ worker.job <= enqueued
      BY <2>2, WorkerRow DEF LeaseInv, RowsAreEnqueued
    <3>2. worker.job # j
      BY <1>1, <3>1 DEF JobId
    <3> QED BY <1>2, <3>1, <3>2, EndsKept DEF OutcomeInv
  <2> QED BY <2>1, <2>2
<1> QED BY <1>4, <1>5 DEF OutcomeInv

LEMMA RequestOutcome ==
  ASSUME LeaseInv, OutcomeInv, FaultsGrow, Request
  PROVE  OutcomeInv'
<1>1. ASSUME NEW r \in Resource, Stop(r) \/ RepeatDeploy(r) \/ DeployQueued(r)
      PROVE  OutcomeInv'
  <2>1. PICK kind \in Kind : AskFor(kind, r)
    BY <1>1 DEF Stop, RepeatDeploy, DeployQueued, Kind, DeployKind
  <2> QED BY <2>1, EnqueueOutcome DEF AskFor
<1>2. ASSUME NEW r \in Resource, NEW n \in 1..MaxPushes, PushQueued(r, n)
      PROVE  OutcomeInv'
  <2>1. Enqueue("branch", r) /\ worker' = worker /\ "branch" \in Kind
    BY <1>2 DEF PushQueued, Kind, DeployKind
  <2> QED BY <2>1, EnqueueOutcome
<1>3. ASSUME NEW r \in Resource, NEW n \in 1..MaxPushes,
             PushFolded(r, n) \/ PushAlreadyRunning(r, n)
      PROVE  OutcomeInv'
  <2>1. /\ jobs' = jobs /\ deployments' = deployments /\ worker' = worker
        /\ missed' = missed
    BY <1>3 DEF PushFolded, PushAlreadyRunning, rows
  <2> QED BY <2>1, AgreeKept, EndsKept DEF OutcomeInv
<1>4. ASSUME NEW r \in Resource, DeployFolded(r)
      PROVE  OutcomeInv'
  <2>1. /\ jobs' = jobs /\ deployments' = deployments /\ worker' = worker
        /\ missed' = missed
    BY <1>4 DEF DeployFolded, rows
  <2> QED BY <2>1, AgreeKept, EndsKept DEF OutcomeInv
<1>5. ASSUME NEW j \in JobId, Cancel(j)
      PROVE  OutcomeInv'
  <2>1. jobs[j].status = "pending" /\ jobs[j].kind \in DeployKind /\ jobs[j] \in JobRow
    BY <1>5, ActiveRow DEF Cancel, Cancellable, WithStatus
  <2>2. deployments[j] \in DeploymentRow
    BY <2>1 DEF LeaseInv, TypeOK, DeploysHaveRows, NoDeployment
  <2>3. /\ jobs'[j].status = "cancelled" /\ deployments'[j].status = "cancelled"
        /\ \A k \in JobId \ {j} : jobs'[k] = jobs[k] /\ deployments'[k] = deployments[k]
        /\ worker' = worker /\ missed' = missed
    BY <1>5, <2>1, <2>2 DEF Cancel, LeaseInv, TypeOK, JobRow, DeploymentRow
  <2>4. OutcomesAgree'
    <3>1. Agree(jobs'[j], deployments'[j], missed'[j], TwoLost')
      BY <2>3 DEF Agree
    <3> QED BY <3>1, <2>3, AgreeAt DEF OutcomeInv
  <2>5. EndsMarked'
    <3>1. worker # Idle => worker.job \in JobId /\ worker.job # j
      BY <2>1, WorkerRow
    <3> QED BY <2>3, <3>1, EndsKept DEF OutcomeInv
  <2> QED BY <2>4, <2>5 DEF OutcomeInv
<1>6. ASSUME NEW r \in Resource, DeploymentOnly(r)
      PROVE  OutcomeInv'
  <2>1. PICK j \in JobId : j = enqueued + 1 /\ enqueued \in Nat
    BY <1>6, BoundsAssumption DEF DeploymentOnly, LeaseInv, TypeOK, JobId
  <2>2. /\ deployments'[j].status = "queued" /\ missed'[j] = "job" /\ jobs' = jobs
        /\ \A k \in JobId \ {j} : deployments'[k] = deployments[k] /\ missed'[k] = missed[k]
        /\ worker' \in {worker, Idle}
    BY <1>6, <2>1 DEF DeploymentOnly, LeaseInv, TypeOK
  <2>3. jobs'[j].kind \notin DeployKind
    <3>1. jobs[j].status = "none"
      BY <2>1 DEF LeaseInv, RowsAreEnqueued, JobId
    <3>2. jobs[j] \in JobRow \cup {NoRow}
      BY DEF LeaseInv, TypeOK
    <3> QED BY <2>2, <3>1, <3>2 DEF JobRow, JobStatus, NoRow, DeployKind
  <2>4. OutcomesAgree'
    <3>1. Agree(jobs'[j], deployments'[j], missed'[j], TwoLost')
      BY <2>2, <2>3 DEF Agree
    <3> QED BY <3>1, <2>2, AgreeAt DEF OutcomeInv
  <2>5. EndsMarked'
    <3>1. worker # Idle => worker.job \in JobId /\ worker.job <= enqueued
      BY WorkerRow DEF LeaseInv, RowsAreEnqueued
    <3>2. worker # Idle => worker.job # j
      BY <2>1, <3>1 DEF JobId
    <3>3. Idle.phase \notin {"returned", "threw"}
      BY DEF Idle
    <3> QED BY <2>2, <3>1, <3>2, <3>3, EndsKept DEF OutcomeInv
  <2> QED BY <2>4, <2>5 DEF OutcomeInv
<1> QED BY <1>1, <1>2, <1>3, <1>4, <1>5, <1>6 DEF Request, DeployLost, PushLost

\* Claiming starts a handler that has not returned, on a row that agreed.
LEMMA ClaimOutcome ==
  ASSUME LeaseInv, OutcomeInv, FaultsGrow, deployments' = deployments, missed' = missed,
         NEW table \in [JobId -> JobRow \cup {NoRow}], ClaimFrom(table),
         \A k \in JobId : table[k].kind = jobs[k].kind,
         \A k \in JobId : \/ table[k].status = jobs[k].status
                          \/ jobs[k].status = "leased" /\ table[k].status = "pending"
  PROVE  OutcomeInv'
<1>1. PICK j \in JobId :
        /\ table[j].status = "pending"
        /\ jobs' = [table EXCEPT ![j].status = "leased", ![j].attempts = @ + 1]
        /\ worker' = [job |-> j, phase |-> "claimed"]
  BY DEF ClaimFrom, Claimable
<1>2. jobs'[j].status = "leased" /\ jobs'[j].kind = table[j].kind
  <2>1. table[j] \in JobRow
    BY <1>1 DEF NoRow
  <2> QED BY <1>1, <2>1 DEF JobRow
<1>3. OutcomesAgree'
  <2> SUFFICES ASSUME NEW k \in JobId
               PROVE  Agree(jobs'[k], deployments'[k], missed'[k], TwoLost')
    BY AgreeForAll
  <2>1. Agree(jobs[k], deployments[k], missed[k], TwoLost)
    BY AgreeForAll DEF OutcomeInv
  <2>2. CASE k = j
    BY <1>1, <1>2, <2>1, <2>2 DEF Agree, FaultsGrow
  <2>3. CASE k # j
    <3>1. jobs'[k] = table[k]
      BY <1>1, <2>3
    <3> QED BY <2>1, <3>1 DEF Agree, FaultsGrow
  <2> QED BY <2>2, <2>3
<1>4. EndsMarked'
  BY <1>1 DEF EndsMarked
<1> QED BY <1>3, <1>4 DEF OutcomeInv

\* The handler writes its deployment while its job is leased; it returns only
\* with the deployment succeeded.
LEMMA HandlerOutcome ==
  ASSUME LeaseInv, StopInv, OutcomeInv, FaultsGrow, Handler
  PROVE  OutcomeInv'
<1>1. worker # Idle /\ jobs' = jobs
  BY DEF Handler, HandlerStep, MarkRunning, FetchSource, DeploySucceeds, DeployThrows,
         StopReturns, StopThrows, Idle, rows
<1>2. PICK j \in JobId :
        j = worker.job /\ jobs[j].status = "leased"
        /\ worker = [job |-> j, phase |-> worker.phase]
  BY <1>1, WorkerRow
<1>3. worker'.job = j
  BY <1>2 DEF Handler, HandlerStep, MarkRunning, FetchSource, DeploySucceeds, DeployThrows,
              StopReturns, StopThrows
<1>4. jobs[j].kind \in DeployKind => deployments[j] \in DeploymentRow
  BY DEF LeaseInv, TypeOK, DeploysHaveRows, NoDeployment
<1>5. \A k \in JobId \ {j} : deployments'[k] = deployments[k] /\ missed'[k] = missed[k]
  BY <1>2 DEF Handler, MarkRunning, FetchSource, DeploySucceeds, DeployThrows,
              StopReturns, StopThrows, rows, LeaseInv, TypeOK
<1>6. \/ deployments'[j].status = deployments[j].status
      \/ deployments'[j].status \in {"running", "succeeded", "failed"}
  <2>1. deployments[j] \in DeploymentRow \cup {NoDeployment}
    BY DEF LeaseInv, TypeOK
  <2>2. ASSUME NEW st \in {"running", "succeeded", "failed"},
               deployments' = [deployments EXCEPT ![j].status = st]
        PROVE  deployments'[j].status \in {"running", "succeeded", "failed"}
    BY <2>1, <2>2 DEF LeaseInv, TypeOK, DeploymentRow, NoDeployment
  <2>3. CASE FetchSource
    BY <1>2, <2>1, <2>3 DEF FetchSource, LeaseInv, TypeOK, DeploymentRow, NoDeployment
  <2>4. CASE deployments' = deployments
    BY <2>4
  <2> QED BY <1>2, <2>2, <2>3, <2>4
          DEF Handler, MarkRunning, DeploySucceeds, DeployThrows, StopReturns, StopThrows, rows
<1>7. OutcomesAgree'
  <2>1. Agree(jobs[j], deployments[j], missed[j], TwoLost)
    BY AgreeForAll DEF OutcomeInv
  <2>2. Agree(jobs'[j], deployments'[j], missed'[j], TwoLost')
    BY <1>1, <1>2, <1>6, <2>1 DEF Agree
  <2> QED BY <1>1, <1>5, <2>2, AgreeAt DEF OutcomeInv
<1>8. EndsMarked'
  <2>1. ASSUME worker'.phase = "returned", jobs[j].kind \in DeployKind
        PROVE  deployments'[j].status = "succeeded"
    <3>1. CASE DeploySucceeds
      BY <1>2, <1>4, <2>1, <3>1 DEF DeploySucceeds, LeaseInv, TypeOK, DeploymentRow
    <3>2. CASE MarkRunning \/ FetchSource \/ DeployThrows \/ StopThrows
      BY <1>2, <2>1, <3>2 DEF HandlerStep, MarkRunning, FetchSource, DeployThrows, StopThrows
    <3>3. CASE StopReturns
      BY <1>2, <2>1, <3>3 DEF StopReturns, DeployKind
    <3> QED BY <3>1, <3>2, <3>3 DEF Handler
  <2>2. ASSUME worker'.phase = "threw", deployments'[j].status = "running"
        PROVE  dbErrors' # 0
    <3>1. CASE DeployThrows
      <4>1. deployments[j] \in DeploymentRow \cup {NoDeployment} /\ dbErrors \in Nat
        BY DEF LeaseInv, TypeOK
      <4>2. CASE deployments' = [deployments EXCEPT ![j].status = "failed"]
        BY <2>2, <4>1, <4>2 DEF LeaseInv, TypeOK, DeploymentRow, NoDeployment
      <4>3. CASE dbErrors' = dbErrors + 1
        BY <4>1, <4>3
      <4> QED BY <1>2, <3>1, <4>2, <4>3 DEF DeployThrows
    <3>2. CASE StopThrows
      BY <1>2, <2>2, <3>2 DEF StopThrows, rows, StopInv, StopsHaveNone
    <3>3. CASE MarkRunning \/ FetchSource \/ DeploySucceeds \/ StopReturns
      BY <1>2, <2>2, <3>3 DEF HandlerStep, MarkRunning, FetchSource, DeploySucceeds, StopReturns
    <3> QED BY <3>1, <3>2, <3>3 DEF Handler
  <2> QED BY <1>1, <1>3, <2>1, <2>2 DEF EndsMarked
<1> QED BY <1>7, <1>8 DEF OutcomeInv

\* What the worker records is what the deployment says, or it records nothing.
LEMMA RecordOutcome ==
  ASSUME LeaseInv, StopInv, OutcomeInv, FaultsGrow,
         Complete \/ CompleteThrows \/ RetryLater \/ GiveUp \/ FailThrows
  PROVE  OutcomeInv'
<1>1. worker # Idle
  BY DEF Complete, CompleteThrows, HandlerStep, RetryLater, GiveUp, FailThrows, Idle
<1>2. PICK j \in JobId :
        j = worker.job /\ jobs[j].status = "leased" /\ jobs[j] \in JobRow
        /\ worker = [job |-> j, phase |-> worker.phase]
  BY <1>1, WorkerRow
<1>3. EndsMarked'
  <2>1. worker'.phase = "idle" \/ (worker'.phase = "threw" /\ dbErrors' = dbErrors + 1)
    BY <1>2 DEF Complete, CompleteThrows, HandlerStep, RetryLater, GiveUp, FailThrows, Idle
  <2> QED BY <2>1 DEF EndsMarked, LeaseInv, TypeOK
<1>4. \A k \in JobId \ {j} : /\ jobs'[k] = jobs[k] /\ deployments'[k] = deployments[k]
                             /\ missed'[k] = missed[k]
  BY <1>2 DEF Complete, CompleteThrows, RetryLater, GiveUp, FailThrows, rows, LeaseInv, TypeOK
<1>5. Agree(jobs[j], deployments[j], missed[j], TwoLost)
  BY AgreeForAll DEF OutcomeInv
<1>6. jobs[j].kind \notin DeployKind => deployments[j].status = "none"
  BY <1>2 DEF StopInv, StopsHaveNone, JobRow, Kind
<1>7. Agree(jobs'[j], deployments'[j], missed'[j], TwoLost')
  <2>1. CASE Complete
    <3>1. jobs'[j].status = "done" /\ jobs'[j].kind = jobs[j].kind /\ deployments' = deployments
      BY <1>2, <2>1 DEF Complete, LeaseInv, TypeOK, JobRow
    <3>2. jobs[j].kind \in DeployKind => deployments[j].status = "succeeded"
      BY <1>2, <2>1 DEF Complete, OutcomeInv, EndsMarked
    <3>3. CASE jobs[j].kind \in DeployKind
      BY <3>1, <3>2, <3>3 DEF Agree
    <3>4. CASE jobs[j].kind \notin DeployKind
      BY <1>2, <1>6, <3>1, <3>4 DEF Agree
    <3> QED BY <3>3, <3>4
  <2>2. CASE RetryLater
    <3>1. jobs'[j].status = "pending" /\ jobs'[j].kind = jobs[j].kind /\ deployments' = deployments
      BY <1>2, <2>2 DEF RetryLater, LeaseInv, TypeOK, JobRow
    <3>2. missed' = missed
      BY <2>2 DEF RetryLater
    <3> QED BY <1>2, <1>5, <3>1, <3>2 DEF Agree
  <2>3. CASE GiveUp
    <3>1. jobs'[j].status = "failed" /\ jobs'[j].kind = jobs[j].kind
      BY <1>2, <2>3 DEF GiveUp, LeaseInv, TypeOK, JobRow
    <3>2. CASE jobs[j].kind \in DeployKind
      <4>1. deployments[j] \in DeploymentRow
        BY <3>2 DEF LeaseInv, TypeOK, DeploysHaveRows, NoDeployment
      <4>2. CASE deployments' = [deployments EXCEPT ![j].status = "failed"]
        <5>1. deployments'[j].status = "failed"
          BY <4>1, <4>2 DEF LeaseInv, TypeOK, DeploymentRow
        <5> QED BY <3>1, <5>1 DEF Agree
      <4>3. CASE missed' = [missed EXCEPT ![j] = "outcome"] /\ SecondWriteLost
                 /\ deployments' = deployments
        <5>1. missed'[j] = "outcome"
          BY <4>3 DEF LeaseInv, TypeOK
        <5>2. deployments[j].status = "running" => dbErrors # 0
          BY <1>2, <2>3 DEF GiveUp, OutcomeInv, EndsMarked
        <5>3. deployments[j].status = "running" => TwoLost'
          BY <4>3, <5>2 DEF SecondWriteLost, TwoLost, LeaseInv, TypeOK
        <5>4. deployments[j].status # "cancelled"
          BY <1>2, <1>5, <3>2 DEF Agree
        <5> QED BY <3>1, <4>3, <5>1, <5>3, <5>4 DEF Agree
      <4> QED BY <1>2, <2>3, <3>2, <4>2, <4>3 DEF GiveUp
    <3>3. CASE jobs[j].kind \notin DeployKind
      BY <1>2, <1>6, <2>3, <3>1, <3>3 DEF GiveUp, Agree
    <3> QED BY <3>2, <3>3
  <2>4. CASE CompleteThrows \/ FailThrows
    BY <1>5, <2>4 DEF CompleteThrows, FailThrows, rows, Agree, FaultsGrow
  <2> QED BY <2>1, <2>2, <2>3, <2>4
<1>8. OutcomesAgree'
  BY <1>4, <1>7, AgreeAt DEF OutcomeInv
<1> QED BY <1>3, <1>8 DEF OutcomeInv

\* Time, pruning, a crash and a restart leave the deployments alone.
LEMMA ProcessOutcome ==
  ASSUME LeaseInv, OutcomeInv, FaultsGrow,
         Claim \/ Tick \/ PruneFinishedJobs \/ RequestRestart \/ Exit \/ Crash \/ Boot
  PROVE  OutcomeInv'
<1>1. CASE Claim
  BY <1>1, ClaimOutcome DEF Claim, LeaseInv, TypeOK
<1>2. CASE Boot /\ ClaimFrom(RecoverOrphanedLeases)
  <2>1. /\ RecoverOrphanedLeases \in [JobId -> JobRow \cup {NoRow}]
        /\ \A k \in JobId : RecoverOrphanedLeases[k].kind = jobs[k].kind
        /\ \A k \in JobId : \/ RecoverOrphanedLeases[k].status = jobs[k].status
                            \/ /\ jobs[k].status = "leased"
                               /\ RecoverOrphanedLeases[k].status = "pending"
    BY RecoveredTable DEF LeaseInv
  <2> QED BY <1>2, <2>1, ClaimOutcome DEF Boot
<1>3. CASE Boot /\ ~ClaimFrom(RecoverOrphanedLeases)
  <2>1. jobs' = RecoverOrphanedLeases /\ deployments' = deployments /\ worker' = Idle
        /\ missed' = missed
    BY <1>3 DEF Boot
  <2>2. OutcomesAgree'
    BY <2>1, RecoveredTable, AgreeKept DEF LeaseInv, OutcomeInv
  <2> QED BY <2>1, <2>2 DEF OutcomeInv, EndsMarked, Idle
<1>4. CASE Tick \/ PruneFinishedJobs
  <2>1. /\ \A k \in JobId : \/ jobs'[k].kind = jobs[k].kind /\ jobs'[k].status = jobs[k].status
                            \/ jobs'[k] = NoRow /\ jobs[k].status \in Finished
        /\ deployments' = deployments /\ worker' = worker /\ missed' = missed
    <3>1. CASE Tick
      <4> SUFFICES ASSUME NEW k \in JobId
                   PROVE  jobs'[k].kind = jobs[k].kind /\ jobs'[k].status = jobs[k].status
        BY <3>1 DEF Tick
      <4>1. CASE jobs[k].status = "pending"
        <5>1. jobs[k] \in JobRow
          BY <4>1, ActiveRow
        <5> QED BY <3>1, <4>1, <5>1 DEF Tick, JobRow
      <4>2. CASE jobs[k].status # "pending"
        BY <3>1, <4>2 DEF Tick
      <4> QED BY <4>1, <4>2
    <3>2. CASE PruneFinishedJobs
      <4>1. PICK old \in SUBSET JobId :
              /\ \A k \in old : jobs[k].status \in Finished
              /\ jobs' = [k \in JobId |-> IF k \in old THEN NoRow ELSE jobs[k]]
        BY <3>2 DEF PruneFinishedJobs
      <4>2. deployments' = deployments /\ worker' = worker /\ missed' = missed
        BY <3>2 DEF PruneFinishedJobs
      <4> QED BY <4>1, <4>2
    <3> QED BY <1>4, <3>1, <3>2
  <2>2. OutcomesAgree'
    BY <2>1, AgreeKept DEF OutcomeInv
  <2>3. EndsMarked'
    <3>1. worker # Idle => worker.job \in JobId
      BY WorkerRow
    <3>2. worker # Idle => jobs'[worker.job].kind \in {jobs[worker.job].kind, "none"}
      BY <2>1, <3>1 DEF NoRow
    <3> QED BY <2>1, <3>2, EndsKept DEF OutcomeInv
  <2> QED BY <2>2, <2>3 DEF OutcomeInv
<1>5. CASE RequestRestart \/ Exit
  <2>1. UNCHANGED <<jobs, deployments, worker, missed>>
    BY <1>5 DEF RequestRestart, Exit, rows
  <2> QED BY <2>1, AgreeKept, EndsKept DEF OutcomeInv
<1>6. CASE Crash
  <2>1. UNCHANGED <<jobs, deployments, missed>> /\ worker'.phase = "idle"
    BY <1>6 DEF Crash, rows, Idle
  <2> QED BY <2>1, AgreeKept, EndsKept DEF OutcomeInv
<1> QED BY <1>1, <1>2, <1>3, <1>4, <1>5, <1>6

LEMMA StepOutcome == LeaseInv /\ StopInv /\ OutcomeInv /\ [Next]_vars => OutcomeInv'
<1> SUFFICES ASSUME LeaseInv, StopInv, OutcomeInv, [Next]_vars PROVE OutcomeInv'
  OBVIOUS
<1>0. FaultsGrow
  BY StepFaults
<1>1. CASE Request
  BY <1>0, <1>1, RequestOutcome
<1>2. CASE Handler
  BY <1>0, <1>2, HandlerOutcome
<1>3. CASE Complete \/ CompleteThrows \/ RetryLater \/ GiveUp \/ FailThrows
  BY <1>0, <1>3, RecordOutcome
<1>4. CASE Claim \/ Tick \/ PruneFinishedJobs \/ RequestRestart \/ Exit \/ Crash \/ Boot
  BY <1>0, <1>4, ProcessOutcome
<1>5. CASE UNCHANGED vars
  BY <1>5, <1>0, AgreeKept, EndsKept DEF vars, OutcomeInv
<1> QED BY <1>1, <1>2, <1>3, <1>4, <1>5 DEF Next, Work, Fault

\* A deployment that reads queued or running has a job that will run, and a
\* finished deploy job and its deployment tell the same story, unless the
\* write that should have said so was lost; one that reads running for ever
\* takes two lost writes (the enqueueing requests, runDeploy and
\* cancelQueuedDeploy of jobs/deploy.ts, the failing branch of queue/worker.ts).
THEOREM OutcomesMatch == Spec => []OutcomesAgree
<1>1. Init => OutcomeInv
  BY InitOutcome
<1>2. LeaseInv /\ StopInv /\ OutcomeInv /\ [Next]_vars => OutcomeInv'
  BY StepOutcome
<1>3. OutcomeInv => OutcomesAgree
  BY DEF OutcomeInv
<1> QED BY <1>1, <1>2, <1>3, LeaseHolds, StopsHold, PTL DEF Spec

-----------------------------------------------------------------------------
(* How often a deploy runs.                                                *)

\* Claims a deploy job may have behind it: one for every time the process
\* died, and the one it may be running on now.
Claimed(j, n) == jobs[j].kind \in DeployKind => jobs[j].attempts <= n

WaitingHasClaimLeft ==
  \A j \in JobId :
    jobs[j].status = "pending" \/ (process = "down" /\ jobs[j].status = "leased") =>
      Claimed(j, crashes)

LivesInv == DeployRunsOncePerLife /\ WaitingHasClaimLeft

LEMMA InitLives == Init => LivesInv
  BY DEF Init, LivesInv, DeployRunsOncePerLife, WaitingHasClaimLeft, NoRow

\* A step that claims nothing, makes nothing wait that did not, and does not
\* end the process.
LEMMA LivesKept ==
  ASSUME LivesInv, crashes' = crashes, process' = process,
         \A k \in JobId :
            \/ jobs'[k].kind \notin DeployKind
            \/ jobs'[k].attempts = 0
            \/ /\ jobs'[k].kind = jobs[k].kind
               /\ jobs'[k].attempts = jobs[k].attempts
               /\ \/ jobs'[k].status = jobs[k].status
                  \/ jobs'[k].status \in Finished,
         crashes \in Nat
  PROVE  LivesInv'
<1> SUFFICES ASSUME NEW k \in JobId, jobs'[k].kind \in DeployKind
             PROVE  /\ jobs'[k].attempts <= 1 + crashes
                    /\ jobs'[k].status = "pending"
                         \/ (process = "down" /\ jobs'[k].status = "leased") =>
                              jobs'[k].attempts <= crashes
  BY DEF LivesInv, DeployRunsOncePerLife, WaitingHasClaimLeft, Claimed
<1> QED BY DEF LivesInv, DeployRunsOncePerLife, WaitingHasClaimLeft, Claimed, Finished

\* A step the process dies in, after it was under way: every job may then be
\* claimed once more.
LEMMA LivesLost ==
  ASSUME LivesInv, crashes' = crashes + 1, crashes \in Nat,
         \A k \in JobId :
            /\ jobs'[k].kind = jobs[k].kind
            /\ jobs'[k].attempts = jobs[k].attempts /\ jobs[k].attempts \in Nat
  PROVE  LivesInv'
  BY DEF LivesInv, DeployRunsOncePerLife, WaitingHasClaimLeft, Claimed

\* A claim takes a job that had one left, and recovery offers only those.
LEMMA ClaimLives ==
  ASSUME LeaseInv, LivesInv, crashes' = crashes, process' = "up",
         NEW table \in [JobId -> JobRow \cup {NoRow}], ClaimFrom(table),
         \A k \in JobId : table[k].kind = jobs[k].kind /\ table[k].attempts = jobs[k].attempts,
         \A k \in JobId : table[k].status = "pending" => Claimed(k, crashes)
  PROVE  LivesInv'
<1>1. PICK j \in JobId :
        /\ table[j].status = "pending"
        /\ jobs' = [table EXCEPT ![j].status = "leased", ![j].attempts = @ + 1]
  BY DEF ClaimFrom, Claimable
<1>2. table[j] \in JobRow
  BY <1>1 DEF NoRow
<1>3. crashes \in Nat
  BY DEF LeaseInv, TypeOK
<1> SUFFICES ASSUME NEW k \in JobId, jobs'[k].kind \in DeployKind
             PROVE  /\ jobs'[k].attempts <= 1 + crashes
                    /\ jobs'[k].status = "pending" => jobs'[k].attempts <= crashes
  BY DEF LivesInv, DeployRunsOncePerLife, WaitingHasClaimLeft, Claimed
<1>4. CASE k = j
  <2>1. /\ jobs'[j].status = "leased" /\ jobs'[j].kind = table[j].kind
        /\ jobs'[j].attempts = table[j].attempts + 1 /\ table[j].attempts \in Nat
    BY <1>1, <1>2 DEF JobRow
  <2>2. table[j].attempts <= crashes
    BY <1>1, <1>4, <2>1 DEF Claimed
  <2> QED BY <1>3, <1>4, <2>1, <2>2
<1>5. CASE k # j
  <2>1. jobs'[k] = table[k]
    BY <1>1, <1>5
  <2> QED BY <2>1 DEF LivesInv, DeployRunsOncePerLife, Claimed
<1> QED BY <1>4, <1>5

LEMMA RequestLives ==
  ASSUME LeaseInv, LivesInv, Request
  PROVE  LivesInv'
<1>1. ASSUME NEW kind \in Kind, NEW r \in Resource, Enqueue(kind, r)
      PROVE  \A k \in JobId : jobs'[k] = jobs[k] \/ jobs'[k].attempts = 0
  BY <1>1 DEF Enqueue, LeaseInv, TypeOK
<1>2. ASSUME NEW j \in JobId, Cancel(j)
      PROVE  \A k \in JobId :
               /\ jobs'[k].kind = jobs[k].kind /\ jobs'[k].attempts = jobs[k].attempts
               /\ jobs'[k].status = jobs[k].status \/ jobs'[k].status \in Finished
  <2>1. jobs[j] \in JobRow
    BY <1>2, ActiveRow DEF Cancel, Cancellable, WithStatus
  <2> QED BY <1>2, <2>1 DEF Cancel, LeaseInv, TypeOK, JobRow, Finished
<1>3. ASSUME NEW r \in Resource, NEW n \in 1..MaxPushes,
             PushFolded(r, n) \/ PushAlreadyRunning(r, n)
      PROVE  jobs' = jobs
  BY <1>3 DEF PushFolded, PushAlreadyRunning, rows
<1>4. ASSUME NEW r \in Resource, DeployFolded(r)
      PROVE  jobs' = jobs
  BY <1>4 DEF DeployFolded, rows
<1>5. ASSUME NEW r \in Resource,
             \/ Stop(r) \/ RepeatDeploy(r) \/ DeployQueued(r)
             \/ \E n \in 1..MaxPushes : PushQueued(r, n)
      PROVE  \E kind \in Kind : Enqueue(kind, r)
  BY <1>5 DEF Stop, RepeatDeploy, DeployQueued, AskFor, PushQueued, Kind, DeployKind
<1>6. crashes \in Nat /\ \A k \in JobId : jobs[k].attempts \in Nat
  BY DEF LeaseInv, TypeOK, JobRow, NoRow
<1>7. CASE UNCHANGED <<process, crashes>>
           /\ \A k \in JobId : jobs'[k] = jobs[k] \/ jobs'[k].attempts = 0
  BY <1>6, <1>7, LivesKept
<1>8. CASE /\ UNCHANGED <<process, crashes>>
           /\ \A k \in JobId :
                /\ jobs'[k].kind = jobs[k].kind /\ jobs'[k].attempts = jobs[k].attempts
                /\ jobs'[k].status = jobs[k].status \/ jobs'[k].status \in Finished
  BY <1>6, <1>8, LivesKept
<1>9. ASSUME NEW r \in Resource, DeploymentOnly(r)
      PROVE  LivesInv'
  <2>1. jobs' = jobs
    BY <1>9 DEF DeploymentOnly
  <2>2. UNCHANGED <<process, crashes>> \/ crashes' = crashes + 1
    BY <1>9 DEF DeploymentOnly, SecondWriteLost
  <2> QED BY <1>6, <2>1, <2>2, LivesKept, LivesLost
<1>10. CASE ~\E r \in Resource : DeploymentOnly(r)
  <2>1. UNCHANGED <<process, crashes>>
    BY <1>10 DEF Request, Stop, RepeatDeploy, AskFor, DeployFolded, DeployQueued, DeployLost,
                PushFolded, PushAlreadyRunning, PushQueued, PushLost, Cancel, faults
  <2> QED BY <1>1, <1>2, <1>3, <1>4, <1>5, <1>7, <1>8, <1>10, <2>1
          DEF Request, DeployLost, PushLost
<1> QED BY <1>9, <1>10

\* Recording an outcome: a deploy that fails had its one attempt, so only a
\* stop goes back to wait.
LEMMA WorkLives ==
  ASSUME LeaseInv, LivesInv,
         Handler \/ Complete \/ CompleteThrows \/ RetryLater \/ GiveUp \/ FailThrows
  PROVE  LivesInv'
<1>1. /\ worker # Idle /\ crashes \in Nat
      /\ \/ crashes' = crashes /\ process' = process
         \/ GiveUp /\ crashes' = crashes + 1
  <2>1. CASE GiveUp
    BY <2>1 DEF GiveUp, SecondWriteLost, faults, Idle, LeaseInv, TypeOK
  <2>2. CASE ~GiveUp
    BY <2>2 DEF Handler, HandlerStep, MarkRunning, FetchSource, DeploySucceeds, DeployThrows,
         StopReturns, StopThrows, Complete, CompleteThrows, RetryLater, FailThrows,
         faults, Idle, LeaseInv, TypeOK
  <2> QED BY <2>1, <2>2
<1>2. PICK j \in JobId :
        j = worker.job /\ jobs[j].status = "leased" /\ jobs[j] \in JobRow /\ jobs[j].attempts # 0
  BY <1>1, WorkerRow DEF LeaseInv, LeasedWasClaimed
<1>3. CASE ~GiveUp /\ (Handler \/ CompleteThrows \/ FailThrows)
  <2>1. jobs' = jobs
    BY <1>3 DEF Handler, MarkRunning, FetchSource, DeploySucceeds, DeployThrows,
                StopReturns, StopThrows, CompleteThrows, FailThrows, rows
  <2> QED BY <1>1, <1>3, <2>1, LivesKept
<1>4. CASE Complete \/ GiveUp
  <2>1. \A k \in JobId :
          /\ jobs'[k].kind = jobs[k].kind /\ jobs'[k].attempts = jobs[k].attempts
          /\ jobs'[k].status = jobs[k].status \/ jobs'[k].status \in Finished
    BY <1>2, <1>4 DEF Complete, GiveUp, LeaseInv, TypeOK, JobRow, Finished
  <2>2. \A k \in JobId : jobs[k].attempts \in Nat
    BY DEF LeaseInv, TypeOK, JobRow, NoRow
  <2> QED BY <1>1, <2>1, <2>2, LivesKept, LivesLost
<1>5. CASE ~GiveUp /\ RetryLater
  <2>1. jobs[j].kind \notin DeployKind
    BY <1>2, <1>5 DEF RetryLater, MaxAttempts, DeployKind, JobRow
  <2>2. /\ jobs'[j].kind = jobs[j].kind
        /\ \A k \in JobId \ {j} : jobs'[k] = jobs[k]
    BY <1>2, <1>5 DEF RetryLater, LeaseInv, TypeOK, JobRow
  <2> QED BY <1>1, <1>5, <2>1, <2>2, LivesKept
<1> QED BY <1>3, <1>4, <1>5

LEMMA ProcessLives ==
  ASSUME LeaseInv, QuietInv, LivesInv,
         Claim \/ Tick \/ PruneFinishedJobs \/ RequestRestart \/ Exit \/ Crash \/ Boot
  PROVE  LivesInv'
<1>1. crashes \in Nat
  BY DEF LeaseInv, TypeOK
<1>2. CASE Claim
  <2>1. \A k \in JobId : jobs[k].status = "pending" => Claimed(k, crashes)
    BY DEF LivesInv, WaitingHasClaimLeft
  <2>2. crashes' = crashes /\ process' = "up" /\ ClaimFrom(jobs)
        /\ jobs \in [JobId -> JobRow \cup {NoRow}]
    BY <1>2 DEF Claim, faults, LeaseInv, TypeOK
  <2> QED BY <2>1, <2>2, ClaimLives
<1>3. CASE Boot
  <2>1. \A k \in JobId : RecoverOrphanedLeases[k].status = "pending" => Claimed(k, crashes)
    BY <1>3, RecoveredTable DEF Boot, LeaseInv, LivesInv, WaitingHasClaimLeft
  <2>2. crashes' = crashes /\ process' = "up"
    BY <1>3 DEF Boot, faults
  <2>3. /\ RecoverOrphanedLeases \in [JobId -> JobRow \cup {NoRow}]
        /\ \A k \in JobId : /\ RecoverOrphanedLeases[k].kind = jobs[k].kind
                            /\ RecoverOrphanedLeases[k].attempts = jobs[k].attempts
    BY RecoveredTable DEF LeaseInv
  <2>4. CASE ClaimFrom(RecoverOrphanedLeases)
    BY <2>1, <2>2, <2>3, <2>4, ClaimLives
  <2>5. CASE jobs' = RecoverOrphanedLeases
    BY <2>1, <2>2, <2>3, <2>5
       DEF LivesInv, DeployRunsOncePerLife, WaitingHasClaimLeft, Claimed
  <2> QED BY <1>3, <2>4, <2>5 DEF Boot
<1>4. CASE Tick
  <2>1. \A k \in JobId : /\ jobs'[k].kind = jobs[k].kind
                         /\ jobs'[k].attempts = jobs[k].attempts
                         /\ jobs'[k].status = jobs[k].status
    <3> SUFFICES ASSUME NEW k \in JobId
                 PROVE  /\ jobs'[k].kind = jobs[k].kind
                        /\ jobs'[k].attempts = jobs[k].attempts
                        /\ jobs'[k].status = jobs[k].status
      OBVIOUS
    <3>1. CASE jobs[k].status = "pending"
      <4>1. jobs[k] \in JobRow
        BY <3>1, ActiveRow
      <4> QED BY <1>4, <3>1, <4>1 DEF Tick, JobRow
    <3>2. CASE jobs[k].status # "pending"
      BY <1>4, <3>2 DEF Tick
    <3> QED BY <3>1, <3>2
  <2>2. crashes' = crashes /\ process' = process
    BY <1>4 DEF Tick, faults
  <2> QED BY <1>1, <2>1, <2>2, LivesKept
<1>5. CASE PruneFinishedJobs
  <2>1. \A k \in JobId : jobs'[k] = jobs[k] \/ jobs'[k].attempts = 0
    BY <1>5 DEF PruneFinishedJobs, NoRow
  <2>2. crashes' = crashes /\ process' = process
    BY <1>5 DEF PruneFinishedJobs, faults
  <2> QED BY <1>1, <2>1, <2>2, LivesKept
<1>6. CASE RequestRestart
  BY <1>6 DEF RequestRestart, rows, faults, LivesInv, DeployRunsOncePerLife,
              WaitingHasClaimLeft, Claimed
<1>7. CASE Exit
  BY <1>7 DEF Exit, rows, faults, LivesInv, DeployRunsOncePerLife, WaitingHasClaimLeft, Claimed,
              QuietInv, StoppingIsQuiet
<1>8. CASE Crash
  <2>1. crashes' = crashes + 1 /\ jobs' = jobs
    BY <1>8 DEF Crash, rows
  <2>2. \A k \in JobId : jobs[k].attempts \in Nat
    BY DEF LeaseInv, TypeOK, JobRow, NoRow
  <2> QED BY <1>1, <2>1, <2>2 DEF LivesInv, DeployRunsOncePerLife, WaitingHasClaimLeft, Claimed
<1> QED BY <1>2, <1>3, <1>4, <1>5, <1>6, <1>7, <1>8

LEMMA StepLives == LeaseInv /\ QuietInv /\ LivesInv /\ [Next]_vars => LivesInv'
<1> SUFFICES ASSUME LeaseInv, QuietInv, LivesInv, [Next]_vars PROVE LivesInv'
  OBVIOUS
<1>1. CASE Request
  BY <1>1, RequestLives
<1>2. CASE Handler \/ Complete \/ CompleteThrows \/ RetryLater \/ GiveUp \/ FailThrows
  BY <1>2, WorkLives
<1>3. CASE Claim \/ Tick \/ PruneFinishedJobs \/ RequestRestart \/ Exit \/ Crash \/ Boot
  BY <1>3, ProcessLives
<1>4. CASE UNCHANGED vars
  BY <1>4 DEF vars, LivesInv, DeployRunsOncePerLife, WaitingHasClaimLeft, Claimed
<1> QED BY <1>1, <1>2, <1>3, <1>4 DEF Next, Work, Fault

\* A deploy's handler runs once, and once more for each time the process died
\* under it (DEPLOY_MAX_ATTEMPTS of jobs/deploy.ts, claim, fail and
\* recoverOrphanedLeases of queue/index.ts): no retry, cancel, prune or
\* dashboard restart runs it again.
THEOREM DeploysRunOncePerLife == Spec => []DeployRunsOncePerLife
<1>1. Init => LivesInv
  BY InitLives
<1>2. LeaseInv /\ QuietInv /\ LivesInv /\ [Next]_vars => LivesInv'
  BY StepLives
<1>3. LivesInv => DeployRunsOncePerLife
  BY DEF LivesInv
<1> QED BY <1>1, <1>2, <1>3, LeaseHolds, QuietHolds, PTL DEF Spec

-----------------------------------------------------------------------------
(* What a step does to the rows.                                           *)

\* A new job's row was free; no other changes.
LEMMA EnqueueRows ==
  ASSUME LeaseInv, NEW kind \in Kind, NEW r \in Resource, Enqueue(kind, r)
  PROVE  \E j \in JobId :
           /\ j = enqueued + 1 /\ enqueued' = j /\ jobs[j].status = "none"
           /\ jobs'[j] = [kind |-> kind, resource |-> r, status |-> "pending",
                          attempts |-> 0, delay |-> 0, created |-> clock']
           /\ clock' \in Nat /\ clock' >= clock /\ (~SharedStamps => clock' = clock + 1)
           /\ kind \in DeployKind => deployments'[j].status = "queued"
           /\ \A k \in JobId \ {j} : jobs'[k] = jobs[k] /\ deployments'[k] = deployments[k]
<1>1. PICK j \in JobId : j = enqueued + 1 /\ enqueued' = j /\ enqueued \in Nat
  BY BoundsAssumption DEF Enqueue, LeaseInv, TypeOK, JobId
<1>2. jobs[j].status = "none"
  BY <1>1 DEF LeaseInv, RowsAreEnqueued
<1>3. /\ jobs'[j] = [kind |-> kind, resource |-> r, status |-> "pending",
                     attempts |-> 0, delay |-> 0, created |-> clock']
      /\ \A k \in JobId \ {j} : jobs'[k] = jobs[k] /\ deployments'[k] = deployments[k]
  BY <1>1 DEF Enqueue, LeaseInv, TypeOK
<1>4. clock' \in Nat /\ clock' >= clock /\ (~SharedStamps => clock' = clock + 1)
  BY DEF Enqueue, LeaseInv, TypeOK
<1>5. kind \in DeployKind => deployments'[j].status = "queued"
  BY <1>1 DEF Enqueue, LeaseInv, TypeOK
<1> QED BY <1>1, <1>2, <1>3, <1>4, <1>5

\* A cancel ends one waiting deploy.
LEMMA CancelRows ==
  ASSUME LeaseInv, NEW j \in JobId, Cancel(j)
  PROVE  /\ jobs[j].status = "pending" /\ jobs[j] \in JobRow
         /\ jobs'[j].status = "cancelled" /\ jobs'[j].delay = jobs[j].delay
         /\ \A k \in JobId \ {j} : jobs'[k] = jobs[k] /\ deployments'[k] = deployments[k]
<1>1. jobs[j].status = "pending" /\ jobs[j] \in JobRow
  BY ActiveRow DEF Cancel, Cancellable, WithStatus
<1> QED BY <1>1 DEF Cancel, LeaseInv, TypeOK, JobRow

\* A claim leases one due job, none of the others due being older.
LEMMA ClaimRows ==
  ASSUME NEW table \in [JobId -> JobRow \cup {NoRow}], ClaimFrom(table)
  PROVE  \E j \in JobId :
           /\ table[j].status = "pending"
           /\ \A k \in JobId : table[k].status = "pending" /\ table[k].delay = 0 =>
                                 table[j].created <= table[k].created
           /\ worker' = [job |-> j, phase |-> "claimed"]
           /\ jobs'[j].status = "leased" /\ jobs'[j].kind = table[j].kind
           /\ jobs'[j].resource = table[j].resource /\ jobs'[j].created = table[j].created
           /\ jobs'[j].delay = table[j].delay
           /\ \A k \in JobId \ {j} : jobs'[k] = table[k]
<1>1. PICK j \in JobId :
        /\ table[j].status = "pending"
        /\ \A k \in JobId : table[k].status = "pending" /\ table[k].delay = 0 =>
                              table[j].created <= table[k].created
        /\ jobs' = [table EXCEPT ![j].status = "leased", ![j].attempts = @ + 1]
        /\ worker' = [job |-> j, phase |-> "claimed"]
  BY DEF ClaimFrom, Claimable
<1>2. table[j] \in JobRow
  BY <1>1 DEF NoRow
<1>3. /\ jobs'[j].status = "leased" /\ jobs'[j].kind = table[j].kind
      /\ jobs'[j].resource = table[j].resource /\ jobs'[j].created = table[j].created
      /\ jobs'[j].delay = table[j].delay
      /\ \A k \in JobId \ {j} : jobs'[k] = table[k]
  BY <1>1, <1>2 DEF JobRow
<1> QED BY <1>1, <1>3

\* The worker lays its job down: the row ends, waits again, or stays leased.
LayDown == Complete \/ RetryLater \/ GiveUp \/ FailThrows
LEMMA LayDownRows ==
  ASSUME LeaseInv, LayDown
  PROVE  LET j == worker.job
         IN /\ j \in JobId /\ worker # Idle /\ worker.phase \in {"returned", "threw"} /\ process = "up"
            /\ worker' = Idle /\ process' \in {process, "down"}
            /\ UNCHANGED <<enqueued, clock, head, owed, carries, answer, lastRun, tied>>
            /\ jobs[j].status = "leased"
            /\ jobs'[j].kind = jobs[j].kind /\ jobs'[j].resource = jobs[j].resource
            /\ jobs'[j].created = jobs[j].created
            /\ \/ jobs'[j].status \in Finished /\ jobs'[j].delay = jobs[j].delay
               \/ RetryLater /\ jobs'[j].status = "pending"
               \/ FailThrows /\ jobs' = jobs
            /\ \A k \in JobId \ {j} : /\ jobs'[k] = jobs[k] /\ deployments'[k] = deployments[k]
                                     /\ missed'[k] = missed[k]
            /\ dbErrors' \in {dbErrors, dbErrors + 1}
            /\ FailThrows => dbErrors' = dbErrors + 1 /\ missed' = missed
            /\ Complete \/ FailThrows => deployments' = deployments
<1>1. worker # Idle /\ worker.phase \in {"returned", "threw"} /\ process = "up"
  BY DEF LayDown, Complete, RetryLater, GiveUp, FailThrows, Idle
<1>2. PICK j \in JobId : j = worker.job /\ jobs[j].status = "leased" /\ jobs[j] \in JobRow
  BY <1>1, WorkerRow
<1>3. /\ worker' = Idle /\ process' \in {process, "down"}
      /\ UNCHANGED <<enqueued, clock, head, owed, carries, answer, lastRun, tied>>
      /\ dbErrors' \in {dbErrors, dbErrors + 1}
      /\ FailThrows => dbErrors' = dbErrors + 1 /\ missed' = missed
  <2>1. CASE GiveUp
    <3>1. FailThrows => dbErrors' = dbErrors + 1 /\ missed' = missed
      BY DEF FailThrows, rows
    <3> QED BY <2>1, <3>1 DEF GiveUp, SecondWriteLost, faults, asked
  <2>2. CASE Complete \/ RetryLater \/ FailThrows
    BY <2>2 DEF Complete, RetryLater, FailThrows, rows, faults, asked
  <2> QED BY <2>1, <2>2 DEF LayDown
<1>8. \A k \in JobId \ {j} : missed'[k] = missed[k]
  BY <1>2 DEF LayDown, Complete, RetryLater, GiveUp, FailThrows, rows, LeaseInv, TypeOK
<1>4. CASE Complete
  BY <1>1, <1>2, <1>3, <1>8, <1>4 DEF Complete, LeaseInv, TypeOK, JobRow, Finished
<1>5. CASE RetryLater
  BY <1>1, <1>2, <1>3, <1>8, <1>5 DEF RetryLater, Complete, FailThrows, LeaseInv, TypeOK, JobRow
<1>6. CASE GiveUp
  <2>1. /\ jobs'[j].kind = jobs[j].kind /\ jobs'[j].resource = jobs[j].resource
        /\ jobs'[j].created = jobs[j].created /\ jobs'[j].delay = jobs[j].delay
        /\ jobs'[j].status = "failed" /\ \A k \in JobId \ {j} : jobs'[k] = jobs[k]
    BY <1>2, <1>6 DEF GiveUp, LeaseInv, TypeOK, JobRow
  <2>2. \A k \in JobId \ {j} : deployments'[k] = deployments[k]
    BY <1>2, <1>6 DEF GiveUp, LeaseInv, TypeOK
  <2>3. ~Complete /\ ~FailThrows
    <3>1. ~Complete
      BY <1>6 DEF GiveUp, Complete
    <3>2. ~FailThrows
      <4>1. jobs' # jobs
        BY <1>2, <2>1
      <4> QED BY <4>1 DEF FailThrows, rows
    <3> QED BY <3>1, <3>2
  <2> QED BY <1>1, <1>2, <1>3, <1>8, <2>1, <2>2, <2>3 DEF Finished
<1>7. CASE FailThrows
  BY <1>1, <1>2, <1>3, <1>8, <1>7 DEF FailThrows, rows
<1> QED BY <1>4, <1>5, <1>6, <1>7 DEF LayDown

\* Time only shortens waits; the prune forgets only finished jobs.
LEMMA TimeRows ==
  ASSUME LeaseInv, Tick \/ PruneFinishedJobs
  PROVE  /\ UNCHANGED <<deployments, enqueued, clock, missed, worker, process, head, faults, asked>>
         /\ \A k \in JobId :
              \/ /\ jobs'[k].kind = jobs[k].kind /\ jobs'[k].resource = jobs[k].resource
                 /\ jobs'[k].status = jobs[k].status /\ jobs'[k].created = jobs[k].created
                 /\ (jobs[k].delay = 0 => jobs'[k].delay = 0)
              \/ jobs[k].status \in Finished /\ jobs'[k] = NoRow
<1>1. UNCHANGED <<deployments, enqueued, clock, missed, worker, process, head, faults, asked>>
  BY DEF Tick, PruneFinishedJobs
<1>2. CASE Tick
  <2> SUFFICES ASSUME NEW k \in JobId
               PROVE  /\ jobs'[k].kind = jobs[k].kind /\ jobs'[k].resource = jobs[k].resource
                      /\ jobs'[k].status = jobs[k].status /\ jobs'[k].created = jobs[k].created
                      /\ (jobs[k].delay = 0 => jobs'[k].delay = 0)
    BY <1>1
  <2>1. CASE jobs[k].status = "pending" /\ jobs[k].delay > 0
    <3>1. jobs[k] \in JobRow
      BY <2>1, ActiveRow
    <3>2. jobs'[k] = [jobs[k] EXCEPT !.delay = @ - 1]
      BY <1>2, <2>1 DEF Tick
    <3>3. jobs[k].delay # 0
      BY <2>1
    <3> QED BY <3>1, <3>2, <3>3 DEF JobRow
  <2>2. CASE ~(jobs[k].status = "pending" /\ jobs[k].delay > 0)
    BY <1>2, <2>2 DEF Tick
  <2> QED BY <2>1, <2>2
<1>3. CASE PruneFinishedJobs
  BY <1>1, <1>3 DEF PruneFinishedJobs
<1> QED BY <1>2, <1>3


-----------------------------------------------------------------------------
(* A push stays in hand.                                                   *)

\* A lease nobody is on: neither its deployment's failure nor its own could be
\* written.
Stranded(j) ==
  jobs[j].status = "leased" /\ worker.job # j /\ missed[j] = "outcome" /\ dbErrors >= 2

\* Who has a push, without the deploys that fetched it and ended.
Hand(j, r) ==
  /\ jobs[j].kind = "branch" /\ jobs[j].resource = r
  /\ carries[j] >= owed[r]
  /\ \/ jobs[j].status = "pending"
     \/ process = "down" /\ jobs[j].status = "leased"
     \/ /\ worker.job = j
        /\ \/ worker.phase \in {"claimed", "started"}
           \/ worker.phase = "fetched" /\ deployments[j].commit >= owed[r]
     \/ Stranded(j)
Held == \A r \in Resource : owed[r] # 0 => \E j \in JobId : Hand(j, r)

\* A fetch finds every push that was delivered, and a build that a delivery
\* finds running is the worker's, whose handler has not ended, or stranded.
HeadCovers == \A r \in Resource : owed[r] <= head[r]
AtWork(j) ==
  \/ worker.job = j /\ worker.phase \in {"claimed", "started", "fetched"}
  \/ worker.job = j /\ worker.phase = "threw" /\ missed[j] = "outcome" /\ dbErrors # 0
  \/ Stranded(j)
RunningInHand ==
  process # "down" =>
    \A j \in JobId :
      jobs[j].kind = "branch" /\ jobs[j].status = "leased" /\ deployments[j].status = "running" =>
        AtWork(j)

PushInv == HeadCovers /\ RunningInHand /\ Held

LEMMA InitPush == Init => PushInv
<1> SUFFICES ASSUME Init PROVE PushInv
  OBVIOUS
<1>1. HeadCovers
  BY DEF Init, HeadCovers
<1>2. RunningInHand
  BY DEF Init, RunningInHand, NoRow
<1>3. Held
  BY DEF Init, Held
<1> QED BY <1>1, <1>2, <1>3 DEF PushInv

\* The worker's job is a row that is leased; without one its id is none.
LEMMA WorkerJob ==
  ASSUME LeaseInv
  PROVE  /\ worker.job \in JobId => worker # Idle /\ jobs[worker.job].status = "leased"
         /\ worker = Idle => worker.job \notin JobId /\ worker.phase = "idle"
  BY DEF LeaseInv, TypeOK, WorkerHoldsLease, Idle, NoJob, JobId

LEMMA EnqueuePush ==
  ASSUME LeaseInv, PushInv, NEW kind \in Kind, NEW r \in Resource, Enqueue(kind, r),
         UNCHANGED <<worker, process, dbErrors, head, owed, carries>>
  PROVE  PushInv'
<1>1. PICK j \in JobId :
        /\ jobs[j].status = "none" /\ jobs'[j].status = "pending"
        /\ \A k \in JobId \ {j} : jobs'[k] = jobs[k] /\ deployments'[k] = deployments[k]
  <2>1. PICK j \in JobId :
          /\ jobs[j].status = "none"
          /\ jobs'[j] = [kind |-> kind, resource |-> r, status |-> "pending",
                         attempts |-> 0, delay |-> 0, created |-> clock']
          /\ \A k \in JobId \ {j} : jobs'[k] = jobs[k] /\ deployments'[k] = deployments[k]
    BY EnqueueRows
  <2>2. jobs'[j].status = "pending"
    BY <2>1
  <2> QED BY <2>1, <2>2
<1>2. HeadCovers'
  BY DEF PushInv, HeadCovers
<1>0. missed' = missed
  BY DEF Enqueue
<1>3. RunningInHand'
  BY <1>0, <1>1 DEF PushInv, RunningInHand, AtWork, Stranded
<1>4. Held'
  <2> SUFFICES ASSUME NEW q \in Resource, owed'[q] # 0 PROVE \E k \in JobId : Hand(k, q)'
    BY DEF Held
  <2>1. PICK k \in JobId : Hand(k, q)
    BY DEF PushInv, Held
  <2>2. k # j
    BY <1>1, <2>1, WorkerJob DEF Hand, Stranded
  <2> QED BY <1>0, <1>1, <2>1, <2>2 DEF Hand, Stranded
<1> QED BY <1>2, <1>3, <1>4 DEF PushInv

\* What a delivery owes, and what it gives the job that takes it.
LEMMA DeliveredTo ==
  ASSUME LeaseInv, HeadCovers, NEW r \in Resource, NEW n \in 1..MaxPushes, Delivered(r, n),
         NEW j \in JobId, CarriedBy(j, n)
  PROVE  /\ HeadCovers' /\ n \in Nat /\ carries'[j] >= n
         /\ owed'[r] = n \/ (owed'[r] = owed[r] /\ owed[r] >= n)
         /\ \A q \in Resource \ {r} : owed'[q] = owed[q]
         /\ \A k \in JobId : carries'[k] >= carries[k] /\ carries[k] \in Nat /\ carries'[k] \in Nat
         /\ \A q \in Resource : owed[q] \in Nat
<1>1. n \in Nat
  BY BoundsAssumption
<1>2. \A q \in Resource : owed[q] \in Nat /\ head[q] \in Nat
  BY DEF LeaseInv, TypeOK
<1>3. \A k \in JobId : carries[k] \in Nat
  BY DEF LeaseInv, TypeOK
<1>4. /\ owed'[r] = IF n > owed[r] THEN n ELSE owed[r]
      /\ head'[r] = IF n > head[r] THEN n ELSE head[r]
      /\ \A q \in Resource \ {r} : owed'[q] = owed[q] /\ head'[q] = head[q]
  BY DEF Delivered, LeaseInv, TypeOK
<1>5. /\ carries'[j] = IF n > carries[j] THEN n ELSE carries[j]
      /\ \A k \in JobId \ {j} : carries'[k] = carries[k]
  BY DEF CarriedBy, LeaseInv, TypeOK
<1>6. HeadCovers'
  <2> SUFFICES ASSUME NEW q \in Resource PROVE owed'[q] <= head'[q]
    BY DEF HeadCovers
  <2>1. owed[q] <= head[q]
    BY DEF HeadCovers
  <2> QED BY <1>1, <1>2, <1>4, <2>1
<1>7. \A k \in JobId : carries'[k] >= carries[k] /\ carries'[k] \in Nat
  BY <1>1, <1>3, <1>5
<1>8. carries'[j] >= n
  BY <1>1, <1>3, <1>5
<1>9. owed'[r] = n \/ (owed'[r] = owed[r] /\ owed[r] >= n)
  BY <1>1, <1>2, <1>4
<1> QED BY <1>1, <1>2, <1>3, <1>4, <1>6, <1>7, <1>8, <1>9

\* A delivery taken by a waiting build, or by the one that runs on the commit.
LEMMA TakenPush ==
  ASSUME LeaseInv, QuietInv, PushInv, NEW r \in Resource, NEW n \in 1..MaxPushes,
         PushFolded(r, n) \/ PushAlreadyRunning(r, n)
  PROVE  PushInv'
<1>1. UNCHANGED <<jobs, deployments, missed, worker, process, dbErrors>> /\ Serving /\ Delivered(r, n)
  BY DEF PushFolded, PushAlreadyRunning, rows, faults
<1>2. PICK j \in JobId :
        /\ CarriedBy(j, n)
        /\ jobs[j].kind = "branch" /\ jobs[j].resource = r
        /\ \/ jobs[j].status = "pending"
           \/ jobs[j].status = "leased" /\ deployments[j].status = "running" /\ deployments[j].commit = n
  BY DEF PushFolded, PushAlreadyRunning, PendingBuild, Oldest, BuildingExactly, LeasedBuilds, WithStatus
<1>3. /\ HeadCovers' /\ n \in Nat /\ carries'[j] >= n
      /\ owed'[r] = n \/ (owed'[r] = owed[r] /\ owed[r] >= n)
      /\ \A q \in Resource \ {r} : owed'[q] = owed[q]
      /\ \A k \in JobId : carries'[k] >= carries[k] /\ carries[k] \in Nat /\ carries'[k] \in Nat
      /\ \A q \in Resource : owed[q] \in Nat
  BY <1>1, <1>2, DeliveredTo DEF PushInv
<1>4. RunningInHand'
  BY <1>1 DEF PushInv, RunningInHand, AtWork, Stranded
<1>5. ASSUME NEW q \in Resource, owed'[q] = owed[q], owed'[q] # 0
      PROVE  \E k \in JobId : Hand(k, q)'
  <2>1. PICK k \in JobId : Hand(k, q)
    BY <1>5 DEF PushInv, Held
  <2>2. carries'[k] >= owed'[q]
    BY <1>3, <1>5, <2>1 DEF Hand
  <2> QED BY <1>1, <1>5, <2>1, <2>2 DEF Hand, Stranded
<1>6. ASSUME owed'[r] = n PROVE Hand(j, r)'
  <2>1. CASE jobs[j].status = "pending"
    BY <1>1, <1>2, <1>3, <1>6, <2>1 DEF Hand
  <2>2. CASE jobs[j].status = "leased" /\ deployments[j].status = "running" /\ deployments[j].commit = n
    <3>1. \/ worker.job = j /\ worker.phase \in {"claimed", "started", "fetched"}
          \/ Stranded(j)
      BY <1>1, <1>2, <2>2 DEF PushInv, RunningInHand, AtWork, Serving
    <3> QED BY <1>1, <1>2, <1>3, <1>6, <2>2, <3>1 DEF Hand, Stranded
  <2> QED BY <1>2, <2>1, <2>2
<1>7. Held'
  BY <1>3, <1>5, <1>6 DEF Held
<1> QED BY <1>3, <1>4, <1>7 DEF PushInv

LEMMA QueuedPush ==
  ASSUME LeaseInv, PushInv, NEW r \in Resource, NEW n \in 1..MaxPushes, PushQueued(r, n)
  PROVE  PushInv'
<1>1. /\ Enqueue("branch", r) /\ Delivered(r, n) /\ CarriedBy(enqueued + 1, n)
      /\ UNCHANGED <<worker, process, missed, dbErrors>>
  BY DEF PushQueued, Enqueue, faults
<1>2. PICK j \in JobId :
        /\ j = enqueued + 1 /\ jobs[j].status = "none" /\ jobs'[j].status = "pending"
        /\ jobs'[j].kind = "branch" /\ jobs'[j].resource = r
        /\ \A k \in JobId \ {j} : jobs'[k] = jobs[k] /\ deployments'[k] = deployments[k]
  <2>1. "branch" \in Kind
    BY DEF Kind, DeployKind
  <2>2. PICK j \in JobId :
          /\ j = enqueued + 1 /\ jobs[j].status = "none"
          /\ jobs'[j] = [kind |-> "branch", resource |-> r, status |-> "pending",
                         attempts |-> 0, delay |-> 0, created |-> clock']
          /\ \A k \in JobId \ {j} : jobs'[k] = jobs[k] /\ deployments'[k] = deployments[k]
    BY <1>1, <2>1, EnqueueRows
  <2>3. jobs'[j].status = "pending" /\ jobs'[j].kind = "branch" /\ jobs'[j].resource = r
    BY <2>2
  <2> QED BY <2>2, <2>3
<1>3. /\ HeadCovers' /\ n \in Nat /\ carries'[j] >= n
      /\ owed'[r] = n \/ (owed'[r] = owed[r] /\ owed[r] >= n)
      /\ \A q \in Resource \ {r} : owed'[q] = owed[q]
      /\ \A k \in JobId : carries'[k] >= carries[k] /\ carries[k] \in Nat /\ carries'[k] \in Nat
      /\ \A q \in Resource : owed[q] \in Nat
  BY <1>1, <1>2, DeliveredTo DEF PushInv
<1>4. RunningInHand'
  BY <1>1, <1>2 DEF PushInv, RunningInHand, AtWork, Stranded
<1>5. ASSUME NEW q \in Resource, owed'[q] = owed[q], owed'[q] # 0
      PROVE  \E k \in JobId : Hand(k, q)'
  <2>1. PICK k \in JobId : Hand(k, q)
    BY <1>5 DEF PushInv, Held
  <2>2. carries'[k] >= owed'[q] /\ k # j
    BY <1>2, <1>3, <1>5, <2>1, WorkerJob DEF Hand, Stranded
  <2> QED BY <1>1, <1>2, <1>5, <2>1, <2>2 DEF Hand, Stranded
<1>6. ASSUME owed'[r] = n PROVE Hand(j, r)'
  BY <1>2, <1>3, <1>6 DEF Hand
<1>7. Held'
  BY <1>3, <1>5, <1>6 DEF Held
<1> QED BY <1>3, <1>4, <1>7 DEF PushInv

\* A cancel drops what it carried, and nothing another job has.
LEMMA CancelPush ==
  ASSUME LeaseInv, PushInv, NEW j \in JobId, Cancel(j)
  PROVE  PushInv'
<1>1. /\ jobs[j].status = "pending" /\ jobs'[j].status = "cancelled" /\ jobs[j] \in JobRow
      /\ \A k \in JobId \ {j} : jobs'[k] = jobs[k] /\ deployments'[k] = deployments[k]
  BY CancelRows
<1>2. /\ UNCHANGED <<worker, process, head, carries, missed, dbErrors>>
      /\ \A q \in Resource : owed'[q] = owed[q] \/ owed'[q] = 0
      /\ LET r == jobs[j].resource IN carries[j] >= owed[r] => owed'[r] = 0
  BY <1>1 DEF Cancel, faults, LeaseInv, TypeOK, JobRow
<1>3. HeadCovers'
  BY <1>2 DEF PushInv, HeadCovers, LeaseInv, TypeOK
<1>4. RunningInHand'
  BY <1>1, <1>2 DEF PushInv, RunningInHand, AtWork, Stranded
<1>5. Held'
  <2> SUFFICES ASSUME NEW q \in Resource, owed'[q] # 0 PROVE \E k \in JobId : Hand(k, q)'
    BY DEF Held
  <2>1. owed'[q] = owed[q]
    BY <1>2
  <2>2. PICK k \in JobId : Hand(k, q)
    BY <2>1 DEF PushInv, Held
  <2>3. k # j
    BY <1>2, <2>2 DEF Hand
  <2> QED BY <1>1, <1>2, <2>1, <2>2, <2>3 DEF Hand, Stranded
<1> QED BY <1>3, <1>4, <1>5 DEF PushInv

\* A claim, also after a recovery of what was leased.
LEMMA ClaimPush ==
  ASSUME LeaseInv, QuietInv, PushInv, Claim \/ Boot
  PROVE  PushInv'
<1>1. UNCHANGED <<deployments, missed, dbErrors, head, owed, carries>> /\ process' = "up"
  BY DEF Claim, Boot, asked, faults
<1>2. HeadCovers'
  BY <1>1 DEF PushInv, HeadCovers
<1> DEFINE Waits(j) == jobs[j].status = "pending" \/ (process = "down" /\ jobs[j].status = "leased")
           Taken ==
           /\ \A j \in JobId : jobs'[j].kind = jobs[j].kind /\ jobs'[j].resource = jobs[j].resource
           /\ \A j \in JobId : Waits(j) =>
                jobs'[j].status = "pending" \/ (worker'.job = j /\ worker'.phase = "claimed")
           /\ \A j \in JobId : jobs'[j].status = "leased" =>
                (worker'.job = j /\ worker'.phase = "claimed") \/ (process # "down" /\ jobs'[j] = jobs[j])
           /\ \A j \in JobId : jobs[j].status = "leased" /\ process # "down" =>
                jobs'[j] = jobs[j] /\ worker'.job # j
<1>3. Taken
  <2>1. ASSUME NEW table \in [JobId -> JobRow \cup {NoRow}], ClaimFrom(table),
               \A k \in JobId : table[k].kind = jobs[k].kind /\ table[k].resource = jobs[k].resource,
               \A k \in JobId : Waits(k) => table[k].status = "pending",
               \A k \in JobId : table[k].status = "leased" => process # "down" /\ table[k] = jobs[k],
               process # "down" => table = jobs
        PROVE  Taken
    <3>1. PICK j \in JobId :
            /\ worker' = [job |-> j, phase |-> "claimed"] /\ table[j].status = "pending"
            /\ jobs'[j].kind = table[j].kind /\ jobs'[j].resource = table[j].resource
            /\ \A k \in JobId \ {j} : jobs'[k] = table[k]
      BY <2>1, ClaimRows
    <3> QED BY <2>1, <3>1
  <2>2. CASE Claim
    <3>1. process = "up" /\ ClaimFrom(jobs) /\ jobs \in [JobId -> JobRow \cup {NoRow}]
      BY <2>2 DEF Claim, LeaseInv, TypeOK
    <3> QED BY <2>1, <3>1
  <2>3. CASE Boot
    <3>1. process = "down" /\ RecoverOrphanedLeases \in [JobId -> JobRow \cup {NoRow}]
      BY <2>3, RecoveredTable DEF Boot, LeaseInv
    <3>2. \A k \in JobId :
            /\ RecoverOrphanedLeases[k].kind = jobs[k].kind
            /\ RecoverOrphanedLeases[k].resource = jobs[k].resource
            /\ RecoverOrphanedLeases[k].status # "leased"
            /\ Waits(k) => RecoverOrphanedLeases[k].status = "pending"
      BY <2>3, RecoveredTable DEF Boot, LeaseInv
    <3>3. CASE ClaimFrom(RecoverOrphanedLeases)
      BY <2>1, <3>1, <3>2, <3>3
    <3>4. CASE jobs' = RecoverOrphanedLeases
      BY <3>1, <3>2, <3>4
    <3> QED BY <2>3, <3>3, <3>4 DEF Boot
  <2> QED BY <2>2, <2>3
<1>4. worker = Idle
  BY DEF Claim, Boot, QuietInv, DownIsIdle
<1>5. RunningInHand'
  <2> SUFFICES ASSUME NEW j \in JobId, jobs'[j].kind = "branch", jobs'[j].status = "leased",
                      deployments'[j].status = "running"
               PROVE  AtWork(j)'
    BY DEF RunningInHand
  <2>1. CASE worker'.job = j /\ worker'.phase = "claimed"
    BY <2>1 DEF AtWork
  <2>2. CASE process # "down" /\ jobs'[j] = jobs[j]
    <3>1. Stranded(j)
      BY <1>1, <1>4, <2>2, WorkerJob DEF PushInv, RunningInHand, AtWork
    <3>2. worker'.job # j
      BY <1>3, <2>2, <3>1 DEF Stranded
    <3> QED BY <1>1, <2>2, <3>1, <3>2 DEF AtWork, Stranded
  <2> QED BY <1>3, <2>1, <2>2 DEF AtWork
<1>6. Held'
  <2> SUFFICES ASSUME NEW q \in Resource, owed'[q] # 0 PROVE \E k \in JobId : Hand(k, q)'
    BY DEF Held
  <2>1. PICK k \in JobId : Hand(k, q)
    BY <1>1 DEF PushInv, Held
  <2>2. Waits(k) \/ (process # "down" /\ Stranded(k))
    BY <1>4, <2>1, WorkerJob DEF Hand, Stranded
  <2>3. CASE Waits(k)
    <3> HIDE DEF Waits
    <3> QED BY <1>1, <1>3, <2>1, <2>3 DEF Hand
  <2>4. CASE process # "down" /\ Stranded(k)
    <3>1. jobs'[k] = jobs[k] /\ worker'.job # k
      BY <1>3, <2>4 DEF Stranded
    <3> QED BY <1>1, <2>1, <2>4, <3>1 DEF Hand, Stranded
  <2> QED BY <2>2, <2>3, <2>4
<1> QED BY <1>2, <1>5, <1>6 DEF PushInv

\* The handler's steps: a fetch finds what is owed, an end answers it.
LEMMA HandlerPush ==
  ASSUME LeaseInv, StopInv, PushInv, Handler
  PROVE  PushInv'
<1>1. /\ worker # Idle /\ process = "up" /\ UNCHANGED <<jobs, process, head, carries>>
      /\ \E to \in HandlerPhase : worker' = [worker EXCEPT !.phase = to]
  <2>1. \E from \in SUBSET HandlerPhase, to \in HandlerPhase : HandlerStep(from, to)
    BY DEF Handler, MarkRunning, FetchSource, DeploySucceeds, DeployThrows, StopReturns, StopThrows,
           HandlerPhase
  <2>2. UNCHANGED <<jobs, process, head, carries>>
    BY DEF Handler, MarkRunning, FetchSource, DeploySucceeds, DeployThrows, StopReturns, StopThrows,
           rows, asked
  <2> QED BY <2>1, <2>2 DEF HandlerStep, HandlerPhase, Idle
<1>2. PICK j \in JobId :
      /\ j = worker.job /\ jobs[j].status = "leased" /\ jobs[j] \in JobRow /\ worker.phase \in HandlerPhase
      /\ jobs[j].resource \in Resource
  BY <1>1, WorkerRow DEF JobRow
<1>3. worker'.job = j /\ worker.job = j /\ worker = [job |-> j, phase |-> worker.phase]
  BY <1>1, <1>2, WorkerRow
<1>4. \A k \in JobId \ {j} : deployments'[k] = deployments[k] /\ missed'[k] = missed[k]
  BY <1>2 DEF Handler, MarkRunning, FetchSource, DeploySucceeds, DeployThrows, StopReturns,
         StopThrows, rows, LeaseInv, TypeOK
<1>14. dbErrors \in Nat /\ dbErrors' \in {dbErrors, dbErrors + 1}
  BY DEF Handler, MarkRunning, FetchSource, DeploySucceeds, DeployThrows, StopReturns,
         StopThrows, faults, LeaseInv, TypeOK
<1>15. dbErrors >= 2 => dbErrors' >= 2
  BY <1>14
<1>5. /\ \A q \in Resource : owed[q] \in Nat /\ head[q] \in Nat
      /\ \A q \in Resource : owed'[q] = owed[q] \/ owed'[q] = 0
  BY <1>2 DEF Handler, MarkRunning, FetchSource, DeploySucceeds, DeployThrows, StopReturns,
         StopThrows, Answered, asked, LeaseInv, TypeOK
<1>6. HeadCovers'
  BY <1>1, <1>5 DEF PushInv, HeadCovers
<1>7. ASSUME NEW k \in JobId, k # j, NEW q \in Resource, Hand(k, q), owed'[q] = owed[q]
      PROVE  Hand(k, q)'
  BY <1>1, <1>3, <1>4, <1>7, <1>15 DEF Hand, Stranded
<1>8. ASSUME NEW k \in JobId, k # j
      PROVE  jobs'[k].kind = "branch" /\ jobs'[k].status = "leased" /\ deployments'[k].status = "running"
               => AtWork(k)'
  BY <1>1, <1>2, <1>3, <1>4, <1>8, <1>15 DEF PushInv, RunningInHand, AtWork, Stranded
<1>9. deployments[j] \in DeploymentRow \cup {NoDeployment}
  BY <1>2 DEF LeaseInv, TypeOK
<1>10. ASSUME jobs[j].kind = "branch"
       PROVE  \/ worker'.phase \in {"claimed", "started", "fetched"}
              \/ worker'.phase = "threw" /\ missed'[j] = "outcome" /\ dbErrors' # 0
              \/ deployments'[j].status # "running"
  <2>1. CASE MarkRunning \/ FetchSource
    BY <1>3, <2>1 DEF MarkRunning, FetchSource, HandlerStep
  <2>2. CASE DeploySucceeds
    BY <1>2, <1>9, <2>2 DEF DeploySucceeds, LeaseInv, TypeOK, DeploymentRow, NoDeployment
  <2>3. CASE DeployThrows
    <3>1. CASE deployments' = [deployments EXCEPT ![j].status = "failed"]
      BY <1>9, <3>1 DEF LeaseInv, TypeOK, DeploymentRow, NoDeployment
    <3>2. CASE missed' = [missed EXCEPT ![j] = "outcome"] /\ dbErrors' = dbErrors + 1
      <4>1. worker'.phase = "threw"
        BY <1>3, <2>3 DEF DeployThrows, HandlerStep
      <4> QED BY <1>14, <3>2, <4>1 DEF LeaseInv, TypeOK
    <3> QED BY <1>2, <2>3, <3>1, <3>2 DEF DeployThrows
  <2>4. CASE StopReturns \/ StopThrows
    BY <1>2, <1>10, <2>4 DEF StopReturns, StopThrows
  <2> QED BY <2>1, <2>2, <2>3, <2>4 DEF Handler
<1>11. RunningInHand'
  BY <1>1, <1>3, <1>8, <1>10 DEF RunningInHand, AtWork
<1>12. ASSUME NEW q \in Resource, owed'[q] # 0, Hand(j, q)
       PROVE  Hand(j, q)'
  <2>1. owed'[q] = owed[q] /\ jobs[j].kind = "branch" /\ jobs[j].resource = q /\ carries[j] >= owed[q]
    BY <1>5, <1>12 DEF Hand
  <2>2. worker.phase \in {"claimed", "started"} \/ (worker.phase = "fetched" /\ deployments[j].commit >= owed[q])
    BY <1>1, <1>2, <1>12 DEF Hand, Stranded
  <2>3. CASE MarkRunning
    <3>1. worker'.phase = "started"
      BY <1>3, <2>3 DEF MarkRunning, HandlerStep
    <3> QED BY <1>1, <1>3, <2>1, <3>1 DEF Hand
  <2>4. CASE FetchSource
    <3>1. worker'.phase = "fetched"
      BY <1>3, <2>4 DEF FetchSource, HandlerStep
    <3>2. deployments'[j].commit = head[q]
      <4>1. deployments' = [deployments EXCEPT ![j].commit = head[q]]
        BY <1>2, <2>1, <2>4 DEF FetchSource
      <4> QED BY <1>2, <1>9, <4>1 DEF LeaseInv, TypeOK, DeploymentRow, NoDeployment
    <3>3. head[q] >= owed[q]
      BY <1>5 DEF PushInv, HeadCovers
    <3> QED BY <1>1, <1>3, <2>1, <3>1, <3>2, <3>3 DEF Hand
  <2>5. CASE DeploySucceeds \/ DeployThrows
    <3>1. owed'[q] = 0
      <4>1. owed' = [owed EXCEPT ![q] =
               IF /\ carries[j] >= @
                  /\ deployments[j].commit >= @ \/ worker.phase \in {"claimed", "started"}
               THEN 0 ELSE @]
        BY <1>2, <2>1, <2>5 DEF DeploySucceeds, DeployThrows, Answered
      <4> QED BY <2>1, <2>2, <4>1 DEF LeaseInv, TypeOK
    <3> QED BY <1>12, <3>1
  <2>6. CASE StopReturns \/ StopThrows
    BY <1>2, <2>1, <2>6 DEF StopReturns, StopThrows
  <2> QED BY <2>3, <2>4, <2>5, <2>6 DEF Handler
<1>13. Held'
  <2> SUFFICES ASSUME NEW q \in Resource, owed'[q] # 0 PROVE \E k \in JobId : Hand(k, q)'
    BY DEF Held
  <2>1. owed'[q] = owed[q]
    BY <1>5
  <2>2. PICK k \in JobId : Hand(k, q)
    BY <2>1 DEF PushInv, Held
  <2>3. CASE k = j
    <3>1. Hand(j, q)
      BY <2>2, <2>3
    <3>2. Hand(j, q)'
      BY <1>12, <3>1
    <3> QED BY <1>2, <3>2
  <2>4. CASE k # j
    <3>1. Hand(k, q)'
      BY <1>7, <2>1, <2>2, <2>4
    <3> QED BY <3>1
  <2> QED BY <2>3, <2>4
<1> QED BY <1>6, <1>11, <1>13 DEF PushInv

\* A handler that ended had no push in hand any more.
LEMMA OutcomePush ==
  ASSUME LeaseInv, PushInv, LayDown \/ CompleteThrows
  PROVE  PushInv'
<1> DEFINE j == worker.job
<1>1. /\ j \in JobId /\ worker.phase \in {"returned", "threw"} /\ process = "up" /\ jobs[j].status = "leased"
      /\ UNCHANGED <<head, owed, carries>> /\ process' \in {process, "down"}
      /\ \A k \in JobId \ {j} : /\ jobs'[k] = jobs[k] /\ deployments'[k] = deployments[k]
                               /\ missed'[k] = missed[k]
      /\ dbErrors' \in {dbErrors, dbErrors + 1}
      /\ \/ worker' = Idle /\ jobs'[j].status \in Finished \cup {"pending"}
         \/ /\ worker' = Idle /\ jobs' = jobs /\ deployments' = deployments /\ missed' = missed
            /\ dbErrors' = dbErrors + 1
         \/ /\ worker'.job = j /\ worker'.phase = "threw" /\ worker.phase = "returned"
            /\ jobs' = jobs /\ deployments' = deployments
      /\ jobs'[j].kind = jobs[j].kind
  <2>1. CASE LayDown
    BY <2>1, LayDownRows DEF asked
  <2>2. CASE CompleteThrows
    <3>1. worker # Idle /\ worker.phase = "returned" /\ process = "up"
      BY <2>2 DEF CompleteThrows, HandlerStep, Idle
    <3>2. j \in JobId /\ jobs[j].status = "leased" /\ worker = [job |-> j, phase |-> worker.phase]
      BY <3>1, WorkerRow
    <3> QED BY <2>2, <3>1, <3>2 DEF CompleteThrows, HandlerStep, rows, asked
  <2> QED BY <2>1, <2>2
<1>2. HeadCovers'
  BY <1>1 DEF PushInv, HeadCovers
<1>3. worker'.job # j => worker' = Idle
  BY <1>1
<1>4. dbErrors \in Nat /\ (dbErrors >= 2 => dbErrors' >= 2) /\ (dbErrors # 0 => dbErrors + 1 >= 2)
  BY <1>1 DEF LeaseInv, TypeOK
<1>5. \A k \in JobId : worker' = Idle => worker'.job # k
  BY DEF Idle, NoJob, JobId
<1>6. ASSUME NEW k \in JobId, k # j, Stranded(k)
      PROVE  Stranded(k)'
  BY <1>1, <1>3, <1>4, <1>5, <1>6 DEF Stranded
<1>7. RunningInHand'
  <2> SUFFICES ASSUME NEW k \in JobId, process' # "down", jobs'[k].kind = "branch",
                      jobs'[k].status = "leased", deployments'[k].status = "running"
               PROVE  AtWork(k)'
    BY DEF RunningInHand
  <2>1. CASE k # j
    <3>1. Stranded(k)
      BY <1>1, <2>1 DEF PushInv, RunningInHand, AtWork
    <3> QED BY <1>6, <2>1, <3>1 DEF AtWork
  <2>2. CASE k = j
    <3>1. jobs' = jobs /\ deployments' = deployments
      BY <1>1, <2>2 DEF Finished
    <3>2. worker.phase = "threw" /\ missed[j] = "outcome" /\ dbErrors # 0
      BY <1>1, <2>2, <3>1 DEF PushInv, RunningInHand, AtWork, Stranded
    <3>3. worker' = Idle /\ missed' = missed /\ dbErrors' = dbErrors + 1
      BY <1>1, <2>2, <3>1, <3>2 DEF Finished
    <3> QED BY <1>4, <1>5, <2>2, <3>1, <3>2, <3>3 DEF AtWork, Stranded
  <2> QED BY <2>1, <2>2
<1>8. Held'
  <2> SUFFICES ASSUME NEW q \in Resource, owed'[q] # 0 PROVE \E k \in JobId : Hand(k, q)'
    BY DEF Held
  <2>1. PICK k \in JobId : Hand(k, q)
    BY <1>1 DEF PushInv, Held
  <2>2. k # j /\ (jobs[k].status = "pending" \/ Stranded(k))
    BY <1>1, <2>1 DEF Hand, Stranded
  <2>3. Stranded(k) => Stranded(k)'
    BY <1>6, <2>2
  <2>4. /\ jobs'[k].kind = "branch" /\ jobs'[k].resource = q /\ carries'[k] >= owed'[q]
        /\ jobs'[k].status = "pending" \/ Stranded(k)'
    BY <1>1, <2>1, <2>2, <2>3 DEF Hand
  <2> QED BY <2>4 DEF Hand
<1> QED BY <1>2, <1>7, <1>8 DEF PushInv

LEMMA ProcessPush ==
  ASSUME LeaseInv, QuietInv, PushInv,
         Tick \/ PruneFinishedJobs \/ RequestRestart \/ Exit \/ Crash \/ UNCHANGED vars
  PROVE  PushInv'
<1>1. UNCHANGED <<deployments, missed, dbErrors, head, owed, carries>>
  BY DEF Tick, PruneFinishedJobs, RequestRestart, Exit, Crash, vars, asked, rows, faults
<1>2. HeadCovers'
  BY <1>1 DEF PushInv, HeadCovers
<1>3. CASE Tick \/ PruneFinishedJobs
  <2>1. /\ UNCHANGED <<worker, process>>
        /\ \A k \in JobId :
             \/ /\ jobs'[k].kind = jobs[k].kind /\ jobs'[k].resource = jobs[k].resource
                /\ jobs'[k].status = jobs[k].status
             \/ jobs[k].status \in Finished /\ jobs'[k] = NoRow
    BY <1>3, TimeRows
  <2>2. RunningInHand'
    BY <1>1, <2>1 DEF PushInv, RunningInHand, AtWork, Stranded, NoRow
  <2>3. Held'
    <3> SUFFICES ASSUME NEW q \in Resource, owed'[q] # 0 PROVE \E k \in JobId : Hand(k, q)'
      BY DEF Held
    <3>1. PICK k \in JobId : Hand(k, q)
      BY <1>1 DEF PushInv, Held
    <3>2. jobs[k].status \notin Finished
      BY <3>1, WorkerJob DEF Hand, Stranded, Finished
    <3> QED BY <1>1, <2>1, <3>1, <3>2 DEF Hand, Stranded
  <2> QED BY <1>2, <2>2, <2>3 DEF PushInv
<1>4. CASE RequestRestart \/ Exit \/ Crash \/ UNCHANGED vars
  <2>1. /\ jobs' = jobs
        /\ \/ worker' = worker /\ process # "down" /\ process' # "down"
           \/ worker' = worker /\ process' = process
           \/ process' = "down"
    BY <1>4 DEF RequestRestart, Exit, Crash, vars, rows
  <2>2. RunningInHand'
    BY <1>1, <2>1 DEF PushInv, RunningInHand, AtWork, Stranded
  <2>3. Held'
    <3> SUFFICES ASSUME NEW q \in Resource, owed'[q] # 0 PROVE \E k \in JobId : Hand(k, q)'
      BY DEF Held
    <3>1. PICK k \in JobId : Hand(k, q)
      BY <1>1 DEF PushInv, Held
    <3>2. worker.job = k => jobs[k].status = "leased"
      BY WorkerJob
    <3> QED BY <1>1, <2>1, <3>1, <3>2 DEF Hand, Stranded
  <2> QED BY <1>2, <2>2, <2>3 DEF PushInv
<1> QED BY <1>3, <1>4

\* A deployment without its job: at most the process dies with it.
LEMMA LostPush ==
  ASSUME LeaseInv, PushInv, NEW r \in Resource, DeploymentOnly(r),
         \A q \in Resource : head[q] \in Nat /\ head'[q] \in Nat /\ head'[q] >= head[q]
  PROVE  PushInv'
<1>1. PICK j \in JobId : j = enqueued + 1 /\ enqueued \in Nat
  BY BoundsAssumption DEF DeploymentOnly, LeaseInv, TypeOK, JobId
<1>2. /\ UNCHANGED <<jobs, owed, carries>>
      /\ \A k \in JobId \ {j} : deployments'[k] = deployments[k] /\ missed'[k] = missed[k]
      /\ \/ worker' = worker /\ process' = process
         \/ process' = "down"
      /\ dbErrors \in Nat /\ dbErrors' \in {dbErrors, dbErrors + 1}
  BY <1>1 DEF DeploymentOnly, SecondWriteLost, LeaseInv, TypeOK
<1>3. jobs[j].status = "none"
  BY <1>1 DEF LeaseInv, RowsAreEnqueued, JobId
<1>4. (dbErrors >= 2 => dbErrors' >= 2) /\ (dbErrors # 0 => dbErrors' # 0)
  BY <1>2
<1>5. HeadCovers'
  <2> SUFFICES ASSUME NEW q \in Resource PROVE owed'[q] <= head'[q]
    BY DEF HeadCovers
  <2>1. owed[q] \in Nat /\ owed[q] <= head[q] /\ owed'[q] = owed[q]
    BY <1>2 DEF PushInv, HeadCovers, LeaseInv, TypeOK
  <2> QED BY <2>1
<1>6. RunningInHand'
  BY <1>2, <1>3, <1>4 DEF PushInv, RunningInHand, AtWork, Stranded
<1>7. Held'
  <2> SUFFICES ASSUME NEW q \in Resource, owed'[q] # 0 PROVE \E k \in JobId : Hand(k, q)'
    BY DEF Held
  <2>1. PICK k \in JobId : Hand(k, q)
    BY <1>2 DEF PushInv, Held
  <2>2. k # j /\ (worker.job = k => jobs[k].status = "leased")
    BY <1>3, <2>1, WorkerJob DEF Hand, Stranded
  <2>3. CASE process' = "down"
    <3>1. jobs[k].status \in {"pending", "leased"}
      BY <2>1, <2>2 DEF Hand, Stranded
    <3> QED BY <1>2, <2>1, <2>3, <3>1 DEF Hand
  <2>4. CASE worker' = worker /\ process' = process
    BY <1>2, <1>4, <2>1, <2>2, <2>4 DEF Hand, Stranded
  <2> QED BY <1>2, <2>3, <2>4
<1> QED BY <1>5, <1>6, <1>7 DEF PushInv

LEMMA StepPush == LeaseInv /\ QuietInv /\ StopInv /\ PushInv /\ [Next]_vars => PushInv'
<1> SUFFICES ASSUME LeaseInv, QuietInv, StopInv, PushInv, [Next]_vars PROVE PushInv'
  OBVIOUS
<1>1. CASE Request
  <2>1. ASSUME NEW r \in Resource, Stop(r) \/ RepeatDeploy(r) \/ DeployQueued(r)
        PROVE  PushInv'
    <3>1. PICK kind \in Kind : AskFor(kind, r)
      BY <2>1 DEF Stop, RepeatDeploy, DeployQueued, Kind, DeployKind
    <3> QED BY <3>1, EnqueuePush DEF AskFor, faults
  <2>2. ASSUME NEW r \in Resource, DeployFolded(r)
        PROVE  PushInv'
    <3>1. UNCHANGED <<jobs, deployments, missed, dbErrors, worker, process, head, owed, carries>>
      BY <2>2 DEF DeployFolded, rows, faults
    <3> QED BY <3>1 DEF PushInv, HeadCovers, RunningInHand, AtWork, Held, Hand, Stranded
  <2>3. ASSUME NEW r \in Resource, DeployLost(r) \/ \E n \in 1..MaxPushes : PushLost(r, n)
        PROVE  PushInv'
    <3>1. DeploymentOnly(r)
      BY <2>3 DEF DeployLost, PushLost
    <3>2. \A q \in Resource : head[q] \in Nat /\ head'[q] \in Nat /\ head'[q] >= head[q]
      <4>1. CASE head' = head
        BY <4>1 DEF LeaseInv, TypeOK
      <4>2. ASSUME NEW n \in 1..MaxPushes, PushLost(r, n)
            PROVE  \A q \in Resource : head[q] \in Nat /\ head'[q] \in Nat /\ head'[q] >= head[q]
        <5>1. n \in Nat
          BY BoundsAssumption
        <5>2. head' = [head EXCEPT ![r] = IF n > @ THEN n ELSE @]
          BY <4>2 DEF PushLost
        <5> QED BY <5>1, <5>2 DEF LeaseInv, TypeOK
      <4> QED BY <2>3, <4>1, <4>2 DEF DeployLost
    <3> QED BY <3>1, <3>2, LostPush
  <2> QED BY <1>1, <2>1, <2>2, <2>3, TakenPush, QueuedPush, CancelPush DEF Request
<1>2. CASE Work \/ Fault \/ Boot
  BY <1>2, ClaimPush, HandlerPush, OutcomePush, ProcessPush DEF Work, Fault, LayDown
<1> QED BY <1>1, <1>2, ProcessPush DEF Next

\* A push the webhook accepted is never swallowed: a build that waits or runs
\* has its commit or will fetch it, until a deploy given it has ended, or it
\* is with a lease both of whose failed writes keep until the next start
\* (findPendingJob, findLeasedJobs and the running-commit check of
\* routes/github.ts, with the claims and recoveries of queue/index.ts).
THEOREM PushesStayInHand == Spec => []PushInHand
<1>1. Init => PushInv
  BY InitPush
<1>2. LeaseInv /\ QuietInv /\ StopInv /\ PushInv /\ [Next]_vars => PushInv'
  BY StepPush
<1>3. PushInv => PushInHand
  BY DEF PushInv, Held, Hand, Stranded, PushInHand, Holds
<1> QED BY <1>1, <1>2, <1>3, LeaseHolds, QuietHolds, StopsHold, PTL DEF Spec


-----------------------------------------------------------------------------
(* The last request runs last.                                             *)

Active(j) == jobs[j].status \in {"pending", "leased"}
\* Only a stop waits for a backoff, and then it was put back.
NoWait ==
  \A j \in JobId : Active(j) /\ jobs[j].delay # 0 => j \in late /\ jobs[j].kind = "stop"
NoneAhead == \A j \in JobId : Active(j) => jobs[j].created <= clock
\* What the worker is on is no younger than what waits.
LeasedFirst ==
  \A j, k \in JobId :
    (/\ jobs[j].status = "leased" /\ j \notin late
     /\ jobs[k].status = "pending" /\ (k \in late => jobs[k].kind # "stop"))
      => jobs[j].created <= jobs[k].created
OnlyOne ==
  process # "down" => \A j \in JobId : jobs[j].status = "leased" => worker.job = j \/ j \in late
EndedLast ==
  worker.phase \in {"returned", "threw"} => lastRun[jobs[worker.job].resource] = worker.job
\* A job that must not run after the answer waits ahead of it, and the answer
\* with it; without the answer, the last to run is one that may.
Rival(k, r) ==
  Active(k) /\ jobs[k].resource = r /\ k # answer[r] /\ k \notin late \cup tied[r]
Ahead(k, r) ==
  jobs[answer[r]].status = "pending" /\ jobs[k].created < jobs[answer[r]].created
Answers(r) ==
  answer[r] # NoJob =>
    /\ answer[r] <= enqueued
    /\ Active(answer[r]) => jobs[answer[r]].resource = r
    /\ \A k \in JobId : Rival(k, r) => Ahead(k, r)
    /\ Active(answer[r]) \/ lastRun[r] \in {answer[r]} \cup late \cup tied[r]
AnswerLast == \A r \in Resource : Answers(r)

TurnInv == NoWait /\ NoneAhead /\ LeasedFirst /\ OnlyOne
OrderInv == TurnInv /\ EndedLast /\ AnswerLast

LEMMA InitOrder == Init => OrderInv
<1> SUFFICES ASSUME Init PROVE OrderInv
  OBVIOUS
<1>1. \A j \in JobId : ~Active(j) /\ jobs[j].status # "leased"
  BY DEF Init, Active, NoRow
<1>2. TurnInv
  BY <1>1 DEF TurnInv, NoWait, NoneAhead, LeasedFirst, OnlyOne
<1> QED BY <1>2 DEF OrderInv, Init, EndedLast, AnswerLast, Answers, Idle

LEMMA Numbers ==
  ASSUME LeaseInv
  PROVE  /\ \A j \in JobId : j \in Nat /\ jobs[j].created \in Nat
         /\ enqueued \in Nat /\ clock \in Nat
         /\ \A j \in JobId : Active(j) => j <= enqueued
         /\ \A r \in Resource : answer[r] # NoJob => answer[r] \in JobId
<1>1. \A j \in JobId : j \in Nat
  BY BoundsAssumption DEF JobId
<1>2. \A j \in JobId : jobs[j].created \in Nat
  BY DEF LeaseInv, TypeOK, JobRow, NoRow
<1>3. enqueued \in Nat /\ clock \in Nat
  BY BoundsAssumption DEF LeaseInv, TypeOK
<1>4. \A r \in Resource : answer[r] # NoJob => answer[r] \in JobId
  <2>1. \A r \in Resource : answer[r] \in 0..MaxJobs
    BY DEF LeaseInv, TypeOK
  <2> QED BY <2>1, BoundsAssumption DEF JobId, NoJob
<1> QED BY <1>1, <1>2, <1>3, <1>4 DEF LeaseInv, RowsAreEnqueued, Active

\* A row that takes no part any more, or is put back, disturbs no turn.
LEMMA TurnKept ==
  ASSUME LeaseInv, TurnInv, clock' >= clock, clock' \in Nat, late \subseteq late',
         \A k \in JobId : Active(k)' =>
           /\ Active(k) /\ jobs'[k].created = jobs[k].created /\ jobs'[k].kind = jobs[k].kind
           /\ jobs'[k].delay # 0 => jobs[k].delay # 0 \/ (k \in late' /\ jobs[k].kind = "stop"),
         \A k \in JobId : jobs'[k].status = "leased" => jobs[k].status = "leased",
         \A k \in JobId : jobs'[k].status = "pending" =>
           jobs[k].status = "pending" \/ (k \in late' /\ jobs[k].kind = "stop"),
         OnlyOne'
  PROVE  TurnInv'
<1>1. NoWait'
  BY DEF TurnInv, NoWait
<1>2. LeasedFirst'
  <2> SUFFICES ASSUME NEW j \in JobId, NEW k \in JobId, jobs'[j].status = "leased", j \notin late',
                      jobs'[k].status = "pending", k \in late' => jobs'[k].kind # "stop"
               PROVE  jobs'[j].created <= jobs'[k].created
    BY DEF LeasedFirst
  <2>1. Active(j)' /\ Active(k)'
    BY DEF Active
  <2>2. /\ jobs[j].status = "leased" /\ j \notin late
        /\ jobs[k].status = "pending" /\ (k \in late => jobs[k].kind # "stop")
    BY <2>1
  <2>3. jobs[j].created <= jobs[k].created
    BY <2>2 DEF TurnInv, LeasedFirst
  <2> QED BY <2>1, <2>3
<1>3. NoneAhead'
  <2> SUFFICES ASSUME NEW k \in JobId, Active(k)' PROVE jobs'[k].created <= clock'
    BY DEF NoneAhead
  <2>1. jobs'[k].created = jobs[k].created /\ jobs[k].created <= clock
    BY DEF TurnInv, NoneAhead
  <2> QED BY <2>1, Numbers
<1> QED BY <1>1, <1>2, <1>3 DEF TurnInv

\* What a step must leave of a resource whose answer it does not change.
LEMMA AnswersKept ==
  ASSUME LeaseInv, NEW r \in Resource, Answers(r), answer[r] # NoJob,
         answer'[r] = answer[r], tied'[r] = tied[r], late \subseteq late',
         enqueued' >= enqueued, enqueued' \in Nat,
         \A k \in JobId : Active(k)' /\ (jobs'[k].resource = r \/ k = answer[r]) =>
           /\ Active(k) /\ jobs'[k].created = jobs[k].created
           /\ jobs'[k].resource = jobs[k].resource,
         \A k \in JobId : jobs[answer[r]].status = "pending" /\ Rival(k, r)' =>
           jobs'[answer[r]].status = "pending",
         Active(answer[r])' \/ lastRun'[r] \in {answer[r]} \cup late' \cup tied[r]
  PROVE  Answers(r)'
<1>1. answer[r] \in JobId /\ enqueued \in Nat /\ answer[r] \in Nat
  BY Numbers
<1>2. answer'[r] <= enqueued'
  BY <1>1 DEF Answers
<1>3. Active(answer[r])' => jobs'[answer'[r]].resource = r
  BY <1>1 DEF Answers, Active
<1>4. ASSUME NEW k \in JobId, Rival(k, r)' PROVE Ahead(k, r)'
  <2>1. Active(k)' /\ jobs'[k].resource = r /\ k # answer[r] /\ k \notin late \cup tied[r]
    BY <1>4 DEF Rival
  <2>2. Rival(k, r) /\ jobs'[k].created = jobs[k].created
    BY <2>1 DEF Rival
  <2>3. Ahead(k, r)
    BY <2>2 DEF Answers
  <2>4. jobs'[answer[r]].status = "pending"
    BY <1>4, <2>3 DEF Ahead
  <2>5. jobs'[answer[r]].created = jobs[answer[r]].created
    BY <1>1, <2>4 DEF Active
  <2> QED BY <2>2, <2>3, <2>4, <2>5 DEF Ahead
<1>5. Active(answer[r])' \/ lastRun'[r] \in {answer'[r]} \cup late' \cup tied'[r]
  BY DEF Active
<1> QED BY <1>2, <1>3, <1>4, <1>5 DEF Answers, Active

LEMMA EnqueueOrder ==
  ASSUME LeaseInv, OrderInv, NEW kind \in Kind, NEW r \in Resource, Enqueue(kind, r),
         worker' = worker, process' = process, AnsweredByNew(r)
  PROVE  OrderInv'
<1>1. PICK j \in JobId :
        /\ j = enqueued + 1 /\ enqueued' = j /\ jobs[j].status = "none"
        /\ jobs'[j] = [kind |-> kind, resource |-> r, status |-> "pending",
                       attempts |-> 0, delay |-> 0, created |-> clock']
        /\ clock' \in Nat /\ clock' >= clock
        /\ \A k \in JobId \ {j} : jobs'[k] = jobs[k]
  BY EnqueueRows
<1>2. /\ jobs'[j].status = "pending" /\ jobs'[j].resource = r /\ jobs'[j].delay = 0
      /\ jobs'[j].created = clock' /\ Active(j)'
  BY <1>1 DEF Active
<1>3. \A k \in JobId \ {j} : Active(k)' <=> Active(k)
  BY <1>1 DEF Active
<1>4. \A k \in JobId : Active(k) => k # j /\ jobs[k].created <= clock'
  <2> SUFFICES ASSUME NEW k \in JobId, Active(k) PROVE k # j /\ jobs[k].created <= clock'
    OBVIOUS
  <2>1. jobs[k].created <= clock
    BY DEF OrderInv, TurnInv, NoneAhead
  <2>2. k # j
    BY <1>1 DEF Active
  <2> QED BY <1>1, <2>1, <2>2, Numbers
<1>5. /\ answer'[r] = j /\ \A q \in Resource : q # r => answer'[q] = answer[q]
      /\ tied'[r] = {k \in ActiveJobs : jobs[k].resource = r /\ jobs[k].created = clock'}
      /\ \A q \in Resource : q # r => tied'[q] = tied[q]
      /\ late' = late /\ lastRun' = lastRun
  BY <1>1 DEF AnsweredByNew, LeaseInv, TypeOK
<1>6. NoWait' /\ OnlyOne' /\ NoneAhead'
  <2>1. NoWait'
    BY <1>1, <1>2, <1>3, <1>5 DEF OrderInv, TurnInv, NoWait
  <2>2. OnlyOne'
    BY <1>1, <1>2, <1>5 DEF OrderInv, TurnInv, OnlyOne
  <2>3. NoneAhead'
    <3> SUFFICES ASSUME NEW k \in JobId, Active(k)' PROVE jobs'[k].created <= clock'
      BY DEF NoneAhead
    <3>1. CASE k = j
      BY <1>1, <1>2, <3>1
    <3>2. CASE k # j
      BY <1>1, <1>3, <1>4, <3>2
    <3> QED BY <3>1, <3>2
  <2> QED BY <2>1, <2>2, <2>3
<1>7. LeasedFirst'
  <2> SUFFICES ASSUME NEW i \in JobId, NEW k \in JobId, jobs'[i].status = "leased", i \notin late,
                      jobs'[k].status = "pending", k \in late => jobs'[k].kind # "stop"
               PROVE  jobs'[i].created <= jobs'[k].created
    BY <1>5 DEF LeasedFirst
  <2>1. i # j /\ jobs[i].status = "leased" /\ Active(i) /\ jobs'[i] = jobs[i]
    BY <1>1, <1>2 DEF Active
  <2>2. CASE k = j
    BY <1>2, <1>4, <2>1, <2>2
  <2>3. CASE k # j
    <3>1. jobs'[k] = jobs[k]
      BY <1>1, <2>3
    <3> QED BY <2>1, <3>1 DEF OrderInv, TurnInv, LeasedFirst
  <2> QED BY <2>2, <2>3
<1>8. EndedLast'
  <2>1. CASE worker = Idle
    BY <2>1 DEF EndedLast, Idle
  <2>2. CASE worker # Idle
    <3>1. worker.job \in JobId /\ worker.job # j
      BY <1>1, <2>2, WorkerRow
    <3>2. jobs'[worker.job] = jobs[worker.job]
      BY <1>1, <3>1
    <3> QED BY <1>5, <3>2 DEF OrderInv, EndedLast
  <2> QED BY <2>1, <2>2
<1>9. ASSUME NEW q \in Resource, q # r, answer[q] # NoJob
      PROVE  Answers(q)'
  <2>1. Answers(q) /\ answer[q] \in JobId /\ answer[q] # j
    BY <1>1, <1>9, Numbers DEF OrderInv, AnswerLast, Answers
  <2>2. \A k \in JobId : Active(k)' /\ (jobs'[k].resource = q \/ k = answer[q]) =>
           /\ Active(k) /\ jobs'[k].created = jobs[k].created
           /\ jobs'[k].resource = jobs[k].resource
    BY <1>1, <1>2, <1>3, <1>9, <2>1
  <2>3. jobs'[answer[q]] = jobs[answer[q]]
    BY <1>1, <2>1
  <2>4. Active(answer[q])' \/ lastRun'[q] \in {answer[q]} \cup late' \cup tied[q]
    BY <1>5, <2>1, <2>3, <1>9 DEF Answers, Active
  <2>5. enqueued' >= enqueued /\ enqueued' \in Nat
    BY <1>1, Numbers
  <2> QED BY <1>5, <1>9, <2>1, <2>2, <2>3, <2>4, <2>5, AnswersKept
<1>10. Answers(r)'
  <2>1. ASSUME NEW k \in JobId, Rival(k, r)' PROVE Ahead(k, r)'
    <3>1. k # j /\ Active(k) /\ jobs'[k] = jobs[k] /\ jobs[k].resource = r /\ k \notin tied'[r]
      BY <1>1, <1>3, <1>5, <2>1 DEF Rival
    <3>2. k \in ActiveJobs
      BY <3>1 DEF ActiveJobs, WithStatus, Active
    <3>3. jobs[k].created # clock' /\ jobs[k].created <= clock' /\ jobs[k].created \in Nat
      BY <1>4, <1>5, <3>1, <3>2, Numbers
    <3> QED BY <1>1, <1>2, <1>5, <3>1, <3>3 DEF Ahead
  <2>2. answer'[r] <= enqueued'
    BY <1>1, <1>5, Numbers
  <2> QED BY <1>2, <1>5, <2>1, <2>2 DEF Answers
<1>11. AnswerLast'
  BY <1>5, <1>9, <1>10 DEF AnswerLast, Answers
<1> QED BY <1>6, <1>7, <1>8, <1>11 DEF OrderInv, TurnInv

\* A press sent to a build that waits: nothing of the resource is behind it.
LEMMA FoldedOrder ==
  ASSUME LeaseInv, OrderInv, NEW r \in Resource, DeployFolded(r)
  PROVE  OrderInv'
<1>1. PICK j \in PendingDeploymentFor(r) :
        /\ answer' = [answer EXCEPT ![r] = j]
        /\ tied' = [tied EXCEPT ![r] =
                      {k \in WithStatus("leased") :
                         jobs[k].resource = r /\ jobs[k].created = jobs[j].created}]
  BY DEF DeployFolded
<1>2. /\ j \in JobId /\ jobs[j].status = "pending" /\ jobs[j].resource = r /\ Active(j)
      /\ jobs[j].kind = "branch"
      /\ \A k \in JobId : jobs[k].status = "pending" /\ jobs[k].resource = r /\ k # j =>
                            ~(jobs[k].created >= jobs[j].created)
  BY <1>1 DEF PendingDeploymentFor, PendingBuild, Oldest, WithStatus, HasPendingJobAfter, Active
<1>3. UNCHANGED <<jobs, enqueued, clock, worker, process, lastRun, late>>
  BY DEF DeployFolded, rows
<1>4. /\ answer'[r] = j /\ \A q \in Resource : q # r => answer'[q] = answer[q]
      /\ tied'[r] = {k \in WithStatus("leased") :
                       jobs[k].resource = r /\ jobs[k].created = jobs[j].created}
      /\ \A q \in Resource : q # r => tied'[q] = tied[q]
  BY <1>1 DEF LeaseInv, TypeOK
<1>5. Answers(r)'
  <2>1. ASSUME NEW k \in JobId, Rival(k, r)' PROVE Ahead(k, r)'
    <3>1. k # j /\ Active(k) /\ jobs[k].resource = r /\ k \notin late /\ k \notin tied'[r]
      BY <1>3, <1>4, <2>1 DEF Rival, Active
    <3>2. jobs[k].created \in Nat /\ jobs[j].created \in Nat
      BY <1>2, Numbers
    <3>3. jobs[k].created < jobs[j].created
      <4>1. CASE jobs[k].status = "pending"
        BY <1>2, <3>1, <3>2, <4>1
      <4>2. CASE jobs[k].status = "leased"
        <5>1. jobs[k].created <= jobs[j].created
          BY <1>2, <3>1, <4>2 DEF OrderInv, TurnInv, LeasedFirst
        <5>2. jobs[k].created # jobs[j].created
          BY <1>4, <3>1, <4>2 DEF WithStatus
        <5> QED BY <3>2, <5>1, <5>2
      <4> QED BY <3>1, <4>1, <4>2 DEF Active
    <3> QED BY <1>2, <1>3, <1>4, <3>3 DEF Ahead
  <2>2. j <= enqueued
    BY <1>2, Numbers
  <2> QED BY <1>2, <1>3, <1>4, <2>1, <2>2 DEF Answers, Active
<1>6. ASSUME NEW q \in Resource, q # r PROVE Answers(q)'
  <2>1. Answers(q)
    BY DEF OrderInv, AnswerLast
  <2>2. answer'[q] = answer[q] /\ tied'[q] = tied[q]
    BY <1>4, <1>6
  <2> QED BY <1>3, <2>1, <2>2 DEF Answers, Rival, Ahead, Active
<1>7. AnswerLast'
  BY <1>5, <1>6 DEF AnswerLast
<1>8. TurnInv' /\ EndedLast'
  BY <1>3 DEF OrderInv, TurnInv, NoWait, NoneAhead, LeasedFirst, OnlyOne, EndedLast, Active
<1> QED BY <1>7, <1>8 DEF OrderInv

\* A deploy taken back: its resource waits for the next request, or for the
\* one that was behind it.
LEMMA CancelOrder ==
  ASSUME LeaseInv, OrderInv, NEW j \in JobId, Cancel(j)
  PROVE  OrderInv'
<1>1. /\ jobs[j].status = "pending" /\ jobs[j] \in JobRow
      /\ jobs'[j].status = "cancelled"
      /\ \A k \in JobId \ {j} : jobs'[k] = jobs[k]
  BY CancelRows
<1>2. /\ UNCHANGED <<enqueued, clock, worker, process, lastRun, late, tied>>
      /\ \A q \in Resource : answer'[q] = answer[q] \/ answer'[q] = NoJob
      /\ LET r == jobs[j].resource IN r \in Resource /\ (answer[r] = j => answer'[r] = NoJob)
  BY <1>1 DEF Cancel, LeaseInv, TypeOK, JobRow
<1>3. \A k \in JobId : Active(k)' => Active(k) /\ k # j /\ jobs'[k] = jobs[k]
  BY <1>1 DEF Active
<1>4. OnlyOne'
  BY <1>1, <1>2 DEF OrderInv, TurnInv, OnlyOne
<1>5. TurnInv'
  <2>1. clock' >= clock /\ clock' \in Nat /\ late \subseteq late'
    BY <1>2, Numbers
  <2>2. \A k \in JobId : /\ jobs'[k].status = "leased" => jobs[k].status = "leased"
                         /\ jobs'[k].status = "pending" => jobs[k].status = "pending"
    BY <1>1
  <2> QED BY <1>3, <1>4, <2>1, <2>2, TurnKept DEF OrderInv
<1>6. worker # Idle => worker.job \in JobId /\ worker.job # j
  BY <1>1, WorkerRow
<1>7. EndedLast'
  BY <1>1, <1>2, <1>6 DEF OrderInv, EndedLast, Idle
<1>8. ASSUME NEW q \in Resource, answer'[q] # NoJob
      PROVE  Answers(q)'
  <2>1. answer'[q] = answer[q] /\ Answers(q) /\ answer[q] # NoJob /\ answer[q] \in JobId
    BY <1>2, <1>8, Numbers DEF OrderInv, AnswerLast
  <2>2. answer[q] # j
    BY <1>1, <1>2, <1>8, <2>1 DEF Answers, Active
  <2>3. jobs'[answer[q]] = jobs[answer[q]]
    BY <1>1, <2>1, <2>2
  <2>4. Active(answer[q])' \/ lastRun'[q] \in {answer[q]} \cup late' \cup tied[q]
    BY <1>2, <2>1, <2>3 DEF Answers, Active
  <2>5. enqueued' >= enqueued /\ enqueued' \in Nat
    BY <1>2, Numbers
  <2> QED BY <1>2, <1>3, <2>1, <2>3, <2>4, <2>5, AnswersKept
<1>9. AnswerLast'
  BY <1>8 DEF AnswerLast, Answers
<1> QED BY <1>5, <1>7, <1>9 DEF OrderInv

\* A step that leaves jobs and answers alone keeps their order, whether the
\* worker goes on or the process dies under it.
LEMMA SameOrder ==
  ASSUME LeaseInv, OrderInv,
         UNCHANGED <<jobs, clock, lastRun, answer, tied, late>>,
         enqueued' >= enqueued, enqueued' \in Nat,
         \/ worker' = worker /\ (process' # "down" => process # "down")
         \/ worker' = Idle /\ process' = "down"
  PROVE  OrderInv'
<1>1. TurnInv'
  BY DEF OrderInv, TurnInv, NoWait, NoneAhead, LeasedFirst, OnlyOne, Active
<1>2. EndedLast'
  BY DEF OrderInv, EndedLast, Idle
<1>3. ASSUME NEW q \in Resource, answer[q] # NoJob PROVE Answers(q)'
  <2>1. Answers(q)
    BY DEF OrderInv, AnswerLast
  <2>2. answer[q] <= enqueued'
    BY <1>3, <2>1, Numbers DEF Answers
  <2> QED BY <2>1, <2>2 DEF Answers, Rival, Ahead, Active
<1>4. AnswerLast'
  BY <1>3 DEF AnswerLast, Answers
<1> QED BY <1>1, <1>2, <1>4 DEF OrderInv

LEMMA RequestOrder ==
  ASSUME LeaseInv, QuietInv, OrderInv, Request
  PROVE  OrderInv'
<1>1. ASSUME NEW r \in Resource, Stop(r) \/ RepeatDeploy(r) \/ DeployQueued(r)
      PROVE  OrderInv'
  <2>1. PICK kind \in Kind : AskFor(kind, r)
    BY <1>1 DEF Stop, RepeatDeploy, DeployQueued, Kind, DeployKind
  <2> QED BY <2>1, EnqueueOrder DEF AskFor
<1>2. ASSUME NEW r \in Resource, NEW n \in 1..MaxPushes, PushQueued(r, n)
      PROVE  OrderInv'
  <2>1. "branch" \in Kind
    BY DEF Kind, DeployKind
  <2> QED BY <1>2, <2>1, EnqueueOrder DEF PushQueued
<1>3. ASSUME NEW r \in Resource, NEW n \in 1..MaxPushes, PushFolded(r, n) \/ PushAlreadyRunning(r, n)
      PROVE  OrderInv'
  <2>1. UNCHANGED <<jobs, enqueued, clock, worker, process, lastRun, answer, tied, late>>
    BY <1>3 DEF PushFolded, PushAlreadyRunning, rows, order
  <2>2. enqueued' >= enqueued /\ enqueued' \in Nat
    BY <2>1, Numbers
  <2> QED BY <2>1, <2>2, SameOrder
<1>4. ASSUME NEW r \in Resource, DeploymentOnly(r), Serving
      PROVE  OrderInv'
  <2>1. UNCHANGED <<jobs, clock, lastRun, answer, tied, late>> /\ enqueued' = enqueued + 1
    BY <1>4 DEF DeploymentOnly, order
  <2>2. enqueued' >= enqueued /\ enqueued' \in Nat
    BY <2>1, Numbers
  <2>3. \/ worker' = worker /\ (process' # "down" => process # "down")
        \/ worker' = Idle /\ process' = "down"
    BY <1>4 DEF DeploymentOnly, Serving
  <2> QED BY <2>1, <2>2, <2>3, SameOrder
<1> QED BY <1>1, <1>2, <1>3, <1>4, FoldedOrder, CancelOrder DEF Request, DeployLost, PushLost

\* The oldest due job is claimed, also after a recovery.
LEMMA ClaimOrder ==
  ASSUME LeaseInv, QuietInv, OrderInv, Claim \/ Boot
  PROVE  OrderInv'
<1>1. /\ UNCHANGED <<enqueued, clock, answer, lastRun, late, tied>>
      /\ process' = "up" /\ worker = Idle
      /\ \A k \in JobId : jobs[k].status = "leased" => process = "down" \/ k \in late
  <2>1. /\ UNCHANGED <<enqueued, clock, answer, lastRun, late, tied>>
        /\ process' = "up" /\ worker = Idle
    BY DEF Claim, Boot, asked, QuietInv, DownIsIdle
  <2>2. \A k \in JobId : jobs[k].status = "leased" => process = "down" \/ k \in late
    BY <2>1, WorkerJob DEF OrderInv, TurnInv, OnlyOne
  <2> QED BY <2>1, <2>2
<1> DEFINE Same(k) ==
      /\ jobs'[k].kind = jobs[k].kind /\ jobs'[k].resource = jobs[k].resource
      /\ jobs'[k].created = jobs[k].created /\ jobs'[k].delay = jobs[k].delay
      /\ Active(k)' <=> Active(k)
           Prompt(k) == k \in late => jobs[k].kind # "stop"
           Stays(k) == jobs[k].status = "leased" /\ k \in late
           Chosen(j) ==
      /\ worker' = [job |-> j, phase |-> "claimed"]
      /\ jobs'[j].status = "leased" /\ Active(j)
      /\ \A k \in JobId \ {j} : jobs[k].status = "pending" => jobs'[k].status = "pending"
      /\ \A k \in JobId : jobs'[k].status = "leased" => k = j \/ k \in late
      /\ \A k \in JobId : Active(k) /\ Prompt(k) => jobs[j].created <= jobs[k].created \/ Stays(k)
      /\ \A k \in JobId : jobs'[k].status = "pending" /\ Prompt(k) =>
                            jobs[j].created <= jobs[k].created
<1>2. ASSUME NEW table \in [JobId -> JobRow \cup {NoRow}], ClaimFrom(table),
             \A k \in JobId :
               /\ table[k].kind = jobs[k].kind /\ table[k].resource = jobs[k].resource
               /\ table[k].created = jobs[k].created /\ table[k].delay = jobs[k].delay
               /\ Active(k) <=> table[k].status \in {"pending", "leased"}
               /\ jobs[k].status = "pending" => table[k].status = "pending"
               /\ table[k].status = "leased" => Stays(k)
      PROVE  (\A k \in JobId : Same(k)) /\ \E j \in JobId : Chosen(j)
  <2>1. PICK j \in JobId :
          /\ table[j].status = "pending"
          /\ \A k \in JobId : table[k].status = "pending" /\ table[k].delay = 0 =>
                                table[j].created <= table[k].created
          /\ worker' = [job |-> j, phase |-> "claimed"]
          /\ jobs'[j].status = "leased" /\ jobs'[j].kind = table[j].kind
          /\ jobs'[j].resource = table[j].resource /\ jobs'[j].created = table[j].created
          /\ jobs'[j].delay = table[j].delay
          /\ \A k \in JobId \ {j} : jobs'[k] = table[k]
    BY <1>2, ClaimRows
  <2>2. ASSUME NEW k \in JobId PROVE Same(k)
    <3>1. CASE k = j
      BY <1>2, <2>1, <3>1 DEF Active
    <3>2. CASE k # j
      BY <1>2, <2>1, <3>2 DEF Active
    <3> QED BY <3>1, <3>2
  <2>3. ASSUME NEW k \in JobId, Active(k), Prompt(k), table[k].status = "pending"
        PROVE  jobs[j].created <= jobs[k].created
    <3>1. jobs[k].delay = 0
      BY <2>3 DEF OrderInv, TurnInv, NoWait
    <3> QED BY <1>2, <2>1, <2>3, <3>1
  <2>4. \A k \in JobId : Active(k) /\ Prompt(k) => jobs[j].created <= jobs[k].created \/ Stays(k)
    BY <1>2, <2>3
  <2>5. \A k \in JobId : jobs'[k].status = "pending" /\ Prompt(k) =>
                           jobs[j].created <= jobs[k].created
    <3> SUFFICES ASSUME NEW k \in JobId, jobs'[k].status = "pending", Prompt(k)
                 PROVE  jobs[j].created <= jobs[k].created
      OBVIOUS
    <3>1. k # j /\ table[k].status = "pending"
      BY <2>1
    <3> QED BY <1>2, <2>3, <3>1
  <2>6. /\ Active(j) /\ \A k \in JobId : jobs'[k].status = "leased" => k = j \/ k \in late
        /\ \A k \in JobId \ {j} : jobs[k].status = "pending" => jobs'[k].status = "pending"
    BY <1>2, <2>1
  <2> QED BY <2>1, <2>2, <2>4, <2>5, <2>6
<1> HIDE DEF Same, Chosen
<1>3. /\ \A k \in JobId : Same(k)
      /\ \/ \E j \in JobId : Chosen(j)
         \/ /\ worker' = Idle /\ \A k \in JobId : jobs'[k].status # "leased"
            /\ \A k \in JobId : jobs[k].status = "pending" => jobs'[k].status = "pending"
  <2>1. CASE Claim
    <3>1. ClaimFrom(jobs) /\ jobs \in [JobId -> JobRow \cup {NoRow}] /\ process = "up"
      BY <2>1 DEF Claim, LeaseInv, TypeOK
    <3>2. \A k \in JobId :
            /\ Active(k) <=> jobs[k].status \in {"pending", "leased"}
            /\ jobs[k].status = "leased" => Stays(k)
      BY <1>1, <3>1 DEF Active
    <3> HIDE DEF Stays
    <3> QED BY <1>2, <3>1, <3>2
  <2>2. CASE Boot
    <3>1. RecoverOrphanedLeases \in [JobId -> JobRow \cup {NoRow}]
      BY RecoveredTable DEF LeaseInv
    <3>2. \A k \in JobId :
            /\ RecoverOrphanedLeases[k].kind = jobs[k].kind
            /\ RecoverOrphanedLeases[k].resource = jobs[k].resource
            /\ RecoverOrphanedLeases[k].created = jobs[k].created
            /\ RecoverOrphanedLeases[k].delay = jobs[k].delay
            /\ Active(k) <=> RecoverOrphanedLeases[k].status \in {"pending", "leased"}
            /\ jobs[k].status = "pending" => RecoverOrphanedLeases[k].status = "pending"
            /\ RecoverOrphanedLeases[k].status # "leased"
      <4> SUFFICES ASSUME NEW k \in JobId
                   PROVE  /\ RecoverOrphanedLeases[k].kind = jobs[k].kind
                          /\ RecoverOrphanedLeases[k].resource = jobs[k].resource
                          /\ RecoverOrphanedLeases[k].created = jobs[k].created
                          /\ RecoverOrphanedLeases[k].delay = jobs[k].delay
                          /\ Active(k) <=> RecoverOrphanedLeases[k].status \in {"pending", "leased"}
                          /\ jobs[k].status = "pending" => RecoverOrphanedLeases[k].status = "pending"
                          /\ RecoverOrphanedLeases[k].status # "leased"
        OBVIOUS
      <4>1. CASE jobs[k].status = "leased"
        <5>1. jobs[k] \in JobRow
          BY <4>1, ActiveRow
        <5> QED BY <4>1, <5>1 DEF RecoverOrphanedLeases, JobRow, Active
      <4>2. CASE jobs[k].status # "leased"
        BY <4>2 DEF RecoverOrphanedLeases, Active
      <4> QED BY <4>1, <4>2
    <3>3. CASE ClaimFrom(RecoverOrphanedLeases)
      <4> HIDE DEF Stays
      <4> QED BY <1>2, <3>1, <3>2, <3>3
    <3>4. CASE jobs' = RecoverOrphanedLeases /\ worker' = Idle
      BY <3>2, <3>4 DEF Active, Same
    <3> QED BY <2>2, <3>3, <3>4 DEF Boot
  <2> QED BY <2>1, <2>2
<1>4. TurnInv'
  <2>1. NoWait' /\ NoneAhead'
    BY <1>1, <1>3 DEF OrderInv, TurnInv, NoWait, NoneAhead, Same
  <2>2. LeasedFirst'
    <3> SUFFICES ASSUME NEW j \in JobId, NEW k \in JobId, jobs'[j].status = "leased", j \notin late,
                        jobs'[k].status = "pending", k \in late => jobs'[k].kind # "stop"
                 PROVE  jobs'[j].created <= jobs'[k].created
      BY <1>1 DEF LeasedFirst
    <3>1. /\ jobs'[j].created = jobs[j].created /\ jobs'[k].created = jobs[k].created
          /\ jobs'[k].kind = jobs[k].kind
      BY <1>3 DEF Same
    <3>2. Chosen(j)
      BY <1>3 DEF Chosen
    <3> QED BY <3>1, <3>2 DEF Chosen
  <2>3. OnlyOne'
    BY <1>1, <1>3 DEF OnlyOne, Chosen
  <2> QED BY <2>1, <2>2, <2>3 DEF TurnInv
<1>5. EndedLast'
  BY <1>3 DEF EndedLast, Idle, Chosen
<1>6. ASSUME NEW q \in Resource, answer[q] # NoJob PROVE Answers(q)'
  <2>1. Answers(q) /\ answer[q] \in JobId
    BY <1>6, Numbers DEF OrderInv, AnswerLast
  <2>2. ASSUME NEW k \in JobId, jobs[answer[q]].status = "pending", Rival(k, q)'
        PROVE  jobs'[answer[q]].status = "pending"
    <3>1. Rival(k, q) /\ k \notin late /\ Active(k)
      BY <1>1, <1>3, <2>2 DEF Rival, Same
    <3>2. Ahead(k, q)
      BY <1>6, <2>1, <3>1 DEF Answers
    <3>3. ~(jobs[answer[q]].created <= jobs[k].created)
      BY <2>1, <3>2, Numbers DEF Ahead
    <3>4. ~Chosen(answer[q])
      BY <3>1, <3>3 DEF Chosen
    <3> QED BY <1>3, <2>1, <2>2, <3>4 DEF Chosen
  <2>3. Active(answer[q])' \/ lastRun'[q] \in {answer[q]} \cup late' \cup tied[q]
    BY <1>1, <1>3, <1>6, <2>1 DEF Answers, Same
  <2>4. enqueued' >= enqueued /\ enqueued' \in Nat
    BY <1>1, Numbers
  <2>5. \A k \in JobId : Active(k)' => /\ Active(k) /\ jobs'[k].created = jobs[k].created
                                        /\ jobs'[k].resource = jobs[k].resource
    BY <1>3 DEF Same
  <2> QED BY <1>1, <1>6, <2>1, <2>2, <2>3, <2>4, <2>5, AnswersKept
<1>7. AnswerLast'
  BY <1>1, <1>6 DEF AnswerLast, Answers
<1> QED BY <1>4, <1>5, <1>7 DEF OrderInv

LEMMA HandlerOrder ==
  ASSUME LeaseInv, OrderInv, Handler \/ CompleteThrows
  PROVE  OrderInv'
<1>1. /\ UNCHANGED <<jobs, enqueued, clock, process, answer, late, tied>>
      /\ worker # Idle /\ process = "up"
  BY DEF Handler, MarkRunning, FetchSource, DeploySucceeds, DeployThrows, StopReturns, StopThrows,
         CompleteThrows, HandlerStep, rows, asked, Idle
<1>2. PICK j \in JobId :
        /\ j = worker.job /\ jobs[j].status = "leased" /\ jobs[j] \in JobRow /\ Active(j)
        /\ jobs[j].resource \in Resource /\ worker = [job |-> j, phase |-> worker.phase]
  BY <1>1, WorkerRow DEF JobRow, Active
<1>3. \/ /\ worker'.job = j /\ worker'.phase \in {"started", "fetched"} /\ lastRun' = lastRun
      \/ /\ worker'.job = j /\ worker'.phase \in {"returned", "threw"}
         /\ lastRun' = [lastRun EXCEPT ![jobs[j].resource] = j]
  <2>1. CASE MarkRunning \/ FetchSource
    BY <1>2, <2>1 DEF MarkRunning, FetchSource, HandlerStep, asked
  <2>2. CASE DeploySucceeds
    BY <1>2, <2>2 DEF DeploySucceeds, HandlerStep, Answered
  <2>3. CASE DeployThrows
    BY <1>2, <2>3 DEF DeployThrows, HandlerStep, Answered
  <2>4. CASE StopReturns
    BY <1>2, <2>4 DEF StopReturns, HandlerStep
  <2>5. CASE StopThrows
    BY <1>2, <2>5 DEF StopThrows, HandlerStep
  <2>6. CASE CompleteThrows
    <3>1. worker'.job = j /\ worker'.phase = "threw" /\ lastRun' = lastRun
      BY <1>2, <2>6 DEF CompleteThrows, HandlerStep, asked
    <3>2. lastRun[jobs[j].resource] = j
      BY <1>2, <2>6 DEF CompleteThrows, HandlerStep, OrderInv, EndedLast
    <3>3. lastRun \in [Resource -> 0..MaxJobs]
      BY DEF LeaseInv, TypeOK
    <3>4. lastRun = [lastRun EXCEPT ![jobs[j].resource] = j]
      BY <3>2, <3>3
    <3> QED BY <3>1, <3>4
  <2> QED BY <2>1, <2>2, <2>3, <2>4, <2>5, <2>6 DEF Handler
<1>4. TurnInv'
  BY <1>1, <1>2, <1>3 DEF OrderInv, TurnInv, NoWait, NoneAhead, LeasedFirst, OnlyOne, Active
<1>5. \A q \in Resource : q # jobs[j].resource => lastRun'[q] = lastRun[q]
  BY <1>3 DEF LeaseInv, TypeOK
<1>6. worker'.phase \in {"returned", "threw"} => lastRun'[jobs[j].resource] = j
  BY <1>2, <1>3 DEF LeaseInv, TypeOK
<1>7. EndedLast'
  BY <1>1, <1>3, <1>6 DEF EndedLast
<1>8. ASSUME NEW q \in Resource, answer[q] # NoJob
      PROVE  Active(answer[q]) \/ lastRun'[q] \in {answer[q]} \cup late \cup tied[q]
  <2>1. Answers(q)
    BY DEF OrderInv, AnswerLast
  <2>2. CASE q # jobs[j].resource \/ lastRun' = lastRun
    BY <1>5, <1>8, <2>1, <2>2 DEF Answers
  <2>3. CASE q = jobs[j].resource /\ lastRun'[q] = j
    <3>1. CASE Rival(j, q)
      BY <1>2, <1>8, <2>1, <3>1 DEF Answers, Ahead, Active
    <3>2. CASE ~Rival(j, q)
      BY <1>2, <2>3, <3>2 DEF Rival
    <3> QED BY <3>1, <3>2
  <2> QED BY <1>3, <1>6, <2>2, <2>3
<1>9. ASSUME NEW q \in Resource PROVE Answers(q)'
  <2>1. Answers(q)
    BY DEF OrderInv, AnswerLast
  <2> QED BY <1>1, <1>8, <2>1 DEF Answers, Rival, Ahead, Active
<1> QED BY <1>4, <1>7, <1>9 DEF OrderInv, AnswerLast

\* The worker's job ends, or is put back, which only a stop and a job whose
\* end could not be written are.
LEMMA LayDownOrder ==
  ASSUME LeaseInv, OrderInv, LayDown
  PROVE  OrderInv'
<1>1. PICK j \in JobId :
        /\ j = worker.job /\ worker.phase \in {"returned", "threw"}
        /\ worker' = Idle /\ UNCHANGED <<enqueued, clock, answer, lastRun, tied>>
        /\ jobs[j].status = "leased"
        /\ jobs'[j].kind = jobs[j].kind /\ jobs'[j].resource = jobs[j].resource
        /\ jobs'[j].created = jobs[j].created
        /\ \/ jobs'[j].status \in Finished /\ jobs'[j].delay = jobs[j].delay
           \/ RetryLater /\ jobs'[j].status = "pending"
           \/ FailThrows /\ jobs' = jobs
        /\ \A k \in JobId \ {j} : jobs'[k] = jobs[k]
  BY LayDownRows
<1>2. jobs[j] \in JobRow /\ Active(j) /\ jobs[j].attempts # 0 /\ jobs[j].resource \in Resource
  BY <1>1, ActiveRow DEF Active, LeaseInv, LeasedWasClaimed, JobRow
<1>3. /\ late \subseteq late'
      /\ RetryLater => j \in late' /\ jobs[j].kind = "stop"
      /\ FailThrows => j \in late'
  <2>1. CASE RetryLater
    <3>1. jobs[j].attempts < MaxAttempts(jobs[j].kind)
      BY <1>1, <2>1 DEF RetryLater
    <3>2. jobs[j].kind = "stop"
      BY <1>2, <3>1 DEF MaxAttempts, JobRow
    <3>3. worker.phase = "threw" /\ late' = late \cup {j}
      BY <1>1, <2>1, <3>2 DEF RetryLater
    <3> QED BY <3>2, <3>3
  <2>2. CASE FailThrows
    <3>1. late' = late \cup {j}
      BY <1>1, <2>2 DEF FailThrows
    <3>2. ~RetryLater
      <4>1. dbErrors' = dbErrors + 1 /\ dbErrors \in Nat
        BY <2>2 DEF FailThrows, LeaseInv, TypeOK
      <4> QED BY <4>1 DEF RetryLater, faults
    <3> QED BY <3>1, <3>2
  <2>3. CASE Complete \/ GiveUp
    <3>1. late' = late
      BY <2>3 DEF Complete, GiveUp, asked
    <3>2. jobs'[j].status \in {"done", "failed"}
      BY <1>1, <1>2, <2>3 DEF Complete, GiveUp, LeaseInv, TypeOK, JobRow
    <3>3. ~FailThrows
      BY <1>1, <3>2 DEF FailThrows, rows
    <3>4. ~RetryLater
      <4> SUFFICES ASSUME RetryLater PROVE FALSE
        OBVIOUS
      <4>1. jobs'[j].status = "pending"
        BY <1>1, <1>2 DEF RetryLater, LeaseInv, TypeOK, JobRow
      <4> QED BY <3>2, <4>1
    <3> QED BY <3>1, <3>3, <3>4
  <2> QED BY <2>1, <2>2, <2>3 DEF LayDown
<1>4. /\ \A k \in JobId : Active(k)' =>
           /\ Active(k) /\ jobs'[k].created = jobs[k].created /\ jobs'[k].kind = jobs[k].kind
           /\ jobs'[k].resource = jobs[k].resource
           /\ jobs'[k].delay # 0 => jobs[k].delay # 0 \/ (k \in late' /\ jobs[k].kind = "stop")
      /\ \A k \in JobId : jobs'[k].status = "leased" => jobs[k].status = "leased"
      /\ \A k \in JobId : jobs'[k].status = "pending" =>
           jobs[k].status = "pending" \/ (k \in late' /\ jobs[k].kind = "stop")
      /\ Active(j)' => j \in late'
      /\ jobs'[j].status = "leased" => j \in late'
  BY <1>1, <1>2, <1>3 DEF Active, Finished
<1>5. OnlyOne'
  <2> SUFFICES ASSUME NEW k \in JobId, jobs'[k].status = "leased" PROVE k \in late'
    BY DEF OnlyOne
  <2>1. process # "down"
    BY DEF LayDown, Complete, RetryLater, GiveUp, FailThrows
  <2> QED BY <1>1, <1>3, <1>4, <2>1 DEF OrderInv, TurnInv, OnlyOne
<1>6. TurnInv'
  <2>1. clock' >= clock /\ clock' \in Nat
    BY <1>1, Numbers
  <2> QED BY <1>3, <1>4, <1>5, <2>1, TurnKept DEF OrderInv
<1>7. EndedLast'
  BY <1>1 DEF EndedLast, Idle
<1>8. lastRun[jobs[j].resource] = j
  BY <1>1 DEF OrderInv, EndedLast
<1>9. ASSUME NEW q \in Resource, answer[q] # NoJob PROVE Answers(q)'
  <2>1. Answers(q) /\ answer[q] \in JobId
    BY <1>9, Numbers DEF OrderInv, AnswerLast
  <2>2. jobs[answer[q]].status = "pending" => jobs'[answer[q]].status = "pending"
    BY <1>1, <2>1
  <2>3. Active(answer[q])' \/ lastRun'[q] \in {answer[q]} \cup late' \cup tied[q]
    <3>1. CASE answer[q] = j
      <4>1. jobs[j].resource = q
        BY <1>2, <1>9, <2>1, <3>1 DEF Answers
      <4> QED BY <1>1, <1>8, <3>1, <4>1
    <3>2. CASE answer[q] # j
      BY <1>1, <1>3, <1>9, <2>1, <3>2 DEF Answers, Active
    <3> QED BY <3>1, <3>2
  <2>4. enqueued' >= enqueued /\ enqueued' \in Nat
    BY <1>1, Numbers
  <2> QED BY <1>1, <1>3, <1>4, <1>9, <2>1, <2>2, <2>3, <2>4, AnswersKept
<1>10. AnswerLast'
  BY <1>1, <1>9 DEF AnswerLast, Answers
<1> QED BY <1>6, <1>7, <1>10 DEF OrderInv

LEMMA ProcessOrder ==
  ASSUME LeaseInv, OrderInv,
         Tick \/ PruneFinishedJobs \/ RequestRestart \/ Exit \/ Crash \/ UNCHANGED vars
  PROVE  OrderInv'
<1>1. UNCHANGED <<enqueued, clock, answer, lastRun, late, tied>>
  BY DEF Tick, PruneFinishedJobs, RequestRestart, Exit, Crash, vars, asked, rows
<1>2. enqueued' >= enqueued /\ enqueued' \in Nat /\ clock' >= clock /\ clock' \in Nat
  BY <1>1, Numbers
<1>3. CASE Tick \/ PruneFinishedJobs
  <2>1. /\ UNCHANGED <<worker, process>>
        /\ \A k \in JobId :
             \/ /\ jobs'[k].kind = jobs[k].kind /\ jobs'[k].resource = jobs[k].resource
                /\ jobs'[k].status = jobs[k].status /\ jobs'[k].created = jobs[k].created
                /\ (jobs[k].delay = 0 => jobs'[k].delay = 0)
             \/ jobs[k].status \in Finished /\ jobs'[k] = NoRow
    BY <1>3, TimeRows
  <2>2. \A k \in JobId :
          /\ Active(k)' <=> Active(k)
          /\ Active(k) => /\ jobs'[k].created = jobs[k].created /\ jobs'[k].resource = jobs[k].resource
                          /\ jobs'[k].status = jobs[k].status /\ jobs'[k].kind = jobs[k].kind
                          /\ (jobs[k].delay = 0 => jobs'[k].delay = 0)
          /\ jobs'[k].status = "leased" => jobs[k].status = "leased"
          /\ jobs'[k].status = "pending" => jobs[k].status = "pending"
    BY <2>1 DEF Active, Finished, NoRow
  <2>3. OnlyOne'
    BY <1>1, <2>1, <2>2 DEF OrderInv, TurnInv, OnlyOne
  <2>4. TurnInv'
    <3>1. late \subseteq late'
      BY <1>1
    <3> QED BY <1>2, <2>2, <2>3, <3>1, TurnKept DEF OrderInv
  <2>5. EndedLast'
    <3>1. CASE worker = Idle
      BY <2>1, <3>1 DEF EndedLast, Idle
    <3>2. CASE worker # Idle
      <4>1. worker.job \in JobId /\ Active(worker.job)
        BY <3>2, WorkerRow DEF Active
      <4> QED BY <1>1, <2>1, <2>2, <4>1 DEF OrderInv, EndedLast
    <3> QED BY <3>1, <3>2
  <2>6. ASSUME NEW q \in Resource, answer[q] # NoJob PROVE Answers(q)'
    <3>1. Answers(q) /\ answer[q] \in JobId
      BY <2>6, Numbers DEF OrderInv, AnswerLast
    <3>2. jobs[answer[q]].status = "pending" => jobs'[answer[q]].status = "pending"
      BY <2>2, <3>1 DEF Active
    <3>3. Active(answer[q])' \/ lastRun'[q] \in {answer[q]} \cup late' \cup tied[q]
      BY <1>1, <2>2, <2>6, <3>1 DEF Answers
    <3> QED BY <1>1, <1>2, <2>2, <2>6, <3>1, <3>2, <3>3, AnswersKept
  <2>7. AnswerLast'
    BY <1>1, <2>6 DEF AnswerLast, Answers
  <2> QED BY <2>4, <2>5, <2>7 DEF OrderInv
<1>4. CASE RequestRestart \/ Exit \/ Crash \/ UNCHANGED vars
  <2>1. /\ jobs' = jobs
        /\ \/ worker' = worker /\ (process' # "down" => process # "down")
           \/ worker' = Idle /\ process' = "down"
    BY <1>4 DEF RequestRestart, Exit, Crash, vars, rows
  <2> QED BY <1>1, <1>2, <2>1, SameOrder
<1> QED BY <1>3, <1>4

LEMMA StepOrder == LeaseInv /\ QuietInv /\ OrderInv /\ [Next]_vars => OrderInv'
<1> QED BY RequestOrder, ClaimOrder, HandlerOrder, LayDownOrder, ProcessOrder
        DEF Next, Work, Fault, LayDown

\* Once nothing of a resource waits or runs, what ran last is what was asked
\* last, but for a stop put back by its retry, a job left leased by a failed
\* write, and one of the newest request's millisecond: folding, cancelling,
\* crashing, restarting and failing keep the order of requests otherwise
\* (claim, enqueue, fail, hasPendingJobAfter and recoverOrphanedLeases of
\* queue/index.ts).
THEOREM RequestsKeepTheirOrder == Spec => []LastAskRunsLast
<1>1. Init => OrderInv
  BY InitOrder
<1>2. LeaseInv /\ QuietInv /\ OrderInv /\ [Next]_vars => OrderInv'
  BY StepOrder
<1>3. ASSUME LeaseInv, OrderInv PROVE LastAskRunsLast
  <2> SUFFICES ASSUME NEW r \in Resource, \A j \in ActiveJobs : jobs[j].resource # r,
                      answer[r] # NoJob
               PROVE  lastRun[r] \in {answer[r]} \cup late \cup tied[r]
    BY DEF LastAskRunsLast
  <2>1. Answers(r) /\ answer[r] \in JobId
    BY <1>3, Numbers DEF OrderInv, AnswerLast
  <2>2. ~Active(answer[r])
    BY <2>1 DEF Answers, ActiveJobs, WithStatus, Active
  <2> QED BY <2>1, <2>2 DEF Answers
<1> QED BY <1>1, <1>2, <1>3, LeaseHolds, QuietHolds, PTL DEF Spec
=============================================================================
