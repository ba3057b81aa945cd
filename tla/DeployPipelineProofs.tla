------------------------ MODULE DeployPipelineProofs ------------------------
(***************************************************************************)
(* What holds of DeployPipeline for every number of images, deployments,    *)
(* requests, crashes, failed calls and containers removed by hand: its      *)
(* types, that the reconciler heals only what is down, that a removal whose *)
(* calls succeeded leaves nothing behind, that a resource never has more    *)
(* than two containers, that its route dials only what passed the health    *)
(* gate, that no route is left on that the row does not want, and that a    *)
(* deploy moves the route before it takes away what served.                 *)
(***************************************************************************)
EXTENDS DeployPipeline, SequenceTheorems, FiniteSetTheorems, WellFoundedInduction, TLAPS

DeployPc == {"asked", "running", "reclaimed", "created", "started", "healthy", "switched",
             "retired", "threw", "cleaned"}

\* While a handler runs, its job is the head of the queue.
JobInHand ==
  /\ worker.pc # "idle" => queue # << >>
  /\ worker.pc \in DeployPc => Head(queue).kind = "deploy"

\* A queued deploy and a container have their deployments row.
RowsExist ==
  /\ \A i \in 1..Len(queue) : queue[i].kind = "deploy" => queue[i].id <= Len(deployments)
  /\ \A d \in DeployId : containers[d] # "none" => d <= Len(deployments)

\* A deploy past its first await shows as running until it is recorded, and the
\* container it starts is its own.
ShownRunning ==
  /\ worker.pc \in DeployPc \ {"asked"} => deployments[Head(queue).id].status = "running"
  /\ worker.pc = "created" => worker.new = Head(queue).id

\* What redeployPlan counts as in flight.
Under == {"queued", "running"}

\* What a listing may have missed: a container started since belongs to a deploy
\* that is still in flight or that was seen to finish.
ListingHolds ==
  recon.pc = "listed" /\ ~recon.finished =>
    \A d \in DeployId :
      containers[d] = "running" => d \in recon.live \/ deployments[d].status \in Under

Inv == TypeOK /\ JobInHand /\ RowsExist /\ ShownRunning /\ ListingHolds

LEMMA InitInv == Init => Inv
  <1> SUFFICES ASSUME Init PROVE Inv
    OBVIOUS
  <1>1. row \in Resource
    BY PortsAssumption DEF Init, Resource
  <1>2. /\ deployments \in Seq(Deployment) /\ Len(deployments) <= MaxDeploys
        /\ queue \in Seq(Job) /\ route \in DeployId \cup {None} /\ gated \subseteq DeployId
        /\ containers \in [DeployId -> {"none", "still", "running"}] /\ spent \in [Budget -> Nat]
    BY BoundsAssumption DEF Init
  <1>3. TypeOK
    BY <1>1, <1>2 DEF Init, TypeOK, Idle, Resting, Pc
  <1>4. JobInHand /\ RowsExist /\ ShownRunning /\ ListingHolds
    BY DEF Init, JobInHand, RowsExist, ShownRunning, ListingHolds, Idle, Resting, DeployPc
  <1> QED BY <1>3, <1>4 DEF Inv

-----------------------------------------------------------------------------
(* What the steps have in common.                                          *)

\* Counting against a bound keeps the counts natural and never lowers one.
LEMMA SpendCounts ==
  ASSUME spent \in [Budget -> Nat], NEW b \in Budget, NEW max, Spend(b, max)
  PROVE  /\ spent' \in [Budget -> Nat] /\ spent'[b] # 0
         /\ \A c \in Budget : spent'[c] = 0 => spent[c] = 0
  BY DEF Spend

\* The deployment of the deploy in hand.
LEMMA CurrentRow ==
  ASSUME Inv, worker.pc \in DeployPc
  PROVE  /\ queue # << >>
         /\ current \in 1..Len(deployments) /\ current \in DeployId
         /\ Current \in Deployment
  <1>1. queue # << >> /\ queue \in Seq(Job) /\ Head(queue).kind = "deploy"
    BY DEF Inv, TypeOK, JobInHand, DeployPc
  <1>2. Head(queue) = queue[1] /\ 1 \in 1..Len(queue) /\ Head(queue) \in Job
    BY <1>1
  <1>3. current \in DeployId /\ current <= Len(deployments)
    BY <1>1, <1>2 DEF Inv, RowsExist, Job, current
  <1> QED BY <1>1, <1>3, BoundsAssumption DEF Inv, TypeOK, DeployId, current, Current

\* A row whose status is written keeps the table's shape.
LEMMA StatusWritten ==
  ASSUME Inv, NEW i \in 1..Len(deployments),
         NEW status \in {"queued", "running", "succeeded", "failed"},
         deployments' = [deployments EXCEPT ![i].status = status]
  PROVE  /\ deployments' \in Seq(Deployment) /\ Len(deployments') = Len(deployments)
         /\ deployments'[i].status = status
         /\ \A j \in 1..Len(deployments) : j # i => deployments'[j] = deployments[j]
  <1> DEFINE e == [deployments[i] EXCEPT !.status = status]
  <1>1. deployments \in Seq(Deployment) /\ deployments[i] \in Deployment
    BY DEF Inv, TypeOK
  <1>2. e \in Deployment /\ e.status = status
    BY <1>1 DEF Deployment
  <1>3. deployments' = [deployments EXCEPT ![i] = e]
    OBVIOUS
  <1> HIDE DEF e
  <1> QED BY <1>1, <1>2, <1>3, ExceptSeq

\* What is left of the queue when its head is done.
LEMMA QueueMoves ==
  ASSUME Inv, queue # << >>, queue' = Tail(queue), Len(deployments') >= Len(deployments),
         Len(deployments') \in Nat
  PROVE  /\ queue' \in Seq(Job)
         /\ \A i \in 1..Len(queue') : queue'[i].kind = "deploy" => queue'[i].id <=
            Len(deployments')
  <1>1. queue \in Seq(Job) /\ Len(deployments) \in Nat
    BY DEF Inv, TypeOK
  <1>2. /\ queue' \in Seq(Job) /\ Len(queue') = Len(queue) - 1
        /\ \A i \in 1..Len(queue') : queue'[i] = queue[i + 1]
    BY <1>1, HeadTailProperties
  <1>3. ASSUME NEW i \in 1..Len(queue'), queue'[i].kind = "deploy"
        PROVE  queue'[i].id <= Len(deployments')
    <2>1. i + 1 \in 1..Len(queue) /\ queue'[i] = queue[i + 1]
      BY <1>1, <1>2, <1>3
    <2>2. queue[i + 1] \in Job /\ queue[i + 1].id \in Int
      BY <2>1, <1>1, BoundsAssumption DEF Job, DeployId, None
    <2> QED BY <2>1, <2>2, <1>1, <1>3 DEF Inv, RowsExist
  <1> QED BY <1>2, <1>3

\* A job asked for goes behind the others.
LEMMA QueueGrows ==
  ASSUME Inv, NEW job \in Job, queue' = Append(queue, job),
         Len(deployments') >= Len(deployments), Len(deployments') \in Nat,
         job.kind = "deploy" => job.id <= Len(deployments')
  PROVE  /\ queue' \in Seq(Job) /\ queue' # << >>
         /\ queue # << >> => Head(queue') = Head(queue)
         /\ \A i \in 1..Len(queue') : queue'[i].kind = "deploy" => queue'[i].id <=
            Len(deployments')
  <1>1. queue \in Seq(Job) /\ Len(deployments) \in Nat
    BY DEF Inv, TypeOK
  <1>2. /\ queue' \in Seq(Job) /\ queue' # << >> /\ Len(queue') = Len(queue) + 1
        /\ \A i \in 1..Len(queue) : queue'[i] = queue[i]
        /\ queue'[Len(queue) + 1] = job
    BY <1>1, AppendProperties
  <1>3. queue # << >> => Head(queue') = Head(queue)
    BY <1>1, HeadTailAppend
  <1>4. ASSUME NEW i \in 1..Len(queue'), queue'[i].kind = "deploy"
        PROVE  queue'[i].id <= Len(deployments')
    <2>1. CASE i = Len(queue) + 1
      BY <2>1, <1>2, <1>4
    <2>2. CASE i # Len(queue) + 1
      <3>1. i \in 1..Len(queue) /\ queue'[i] = queue[i]
        BY <2>2, <1>1, <1>2
      <3>2. queue[i] \in Job /\ queue[i].id \in Int
        BY <3>1, <1>1, BoundsAssumption DEF Job, DeployId, None
      <3> QED BY <3>1, <3>2, <1>1, <1>4 DEF Inv, RowsExist
    <2> QED BY <2>1, <2>2
  <1> QED BY <1>2, <1>3, <1>4

\* The next deployment shows as queued, the others as before.
LEMMA RowCreated ==
  ASSUME Inv, NEW image \in Image, NEW trigger \in {"manual", "rollback", "reconcile"},
         CreateDeployment(image, trigger)
  PROVE  /\ deployments' \in Seq(Deployment) /\ Len(deployments') = Len(deployments) + 1
         /\ Len(deployments) \in Nat /\ Len(deployments') <= MaxDeploys
         /\ \A j \in 1..Len(deployments) : deployments'[j] = deployments[j]
         /\ deployments'[Len(deployments')].status = "queued"
         /\ deployments'[Len(deployments')].trigger = trigger
         /\ cooling' \in BOOLEAN /\ aged' = aged
  <1> DEFINE d == [image |-> image, trigger |-> trigger, status |-> "queued"]
  <1>1. deployments \in Seq(Deployment) /\ d \in Deployment /\ Len(deployments) < MaxDeploys
    BY DEF Inv, TypeOK, Deployment, CreateDeployment
  <1>2. /\ deployments' \in Seq(Deployment) /\ Len(deployments') = Len(deployments) + 1
        /\ \A j \in 1..Len(deployments) : deployments'[j] = deployments[j]
        /\ deployments'[Len(deployments) + 1] = d
    BY <1>1, AppendProperties DEF CreateDeployment
  <1>3. Len(deployments') <= MaxDeploys /\ Len(deployments) \in Nat
    BY <1>1, <1>2, BoundsAssumption
  <1>4. cooling' \in BOOLEAN /\ aged' = aged
    BY DEF CreateDeployment
  <1> QED BY <1>2, <1>3, <1>4

\* A deploy asked for gets the next deployment, which shows as queued.
LEMMA DeployQueued ==
  ASSUME Inv, NEW image \in Image, NEW trigger \in {"manual", "rollback", "reconcile"},
         EnqueueDeploy(image, trigger)
  PROVE  /\ CreateDeployment(image, trigger)
         /\ queue' \in Seq(Job) /\ queue' # << >>
         /\ queue # << >> => Head(queue') = Head(queue)
         /\ \A i \in 1..Len(queue') : queue'[i].kind = "deploy" => queue'[i].id <=
            Len(deployments')
  <1> DEFINE job == [kind |-> "deploy", id |-> Len(deployments) + 1]
  <1>1. CreateDeployment(image, trigger)
    BY DEF EnqueueDeploy
  <1>2. /\ Len(deployments') = Len(deployments) + 1
        /\ Len(deployments) \in Nat /\ Len(deployments') <= MaxDeploys
    BY <1>1, RowCreated
  <1>3. job \in Job /\ job.id <= Len(deployments') /\ queue' = Append(queue, job)
    BY <1>2, BoundsAssumption DEF Job, DeployId, EnqueueDeploy
  <1> HIDE DEF job
  <1>4. /\ queue' \in Seq(Job) /\ queue' # << >>
        /\ queue # << >> => Head(queue') = Head(queue)
        /\ \A i \in 1..Len(queue') : queue'[i].kind = "deploy" => queue'[i].id <=
           Len(deployments')
    BY <1>2, <1>3, QueueGrows
  <1> QED BY <1>1, <1>4

\* What the worker holds, and the reconciler's tick.
Holding ==
  [pc : Pc, old : DeployId \cup {None}, new : DeployId \cup {None},
   outgoing : Image \cup {NoImage}, previous : Image \cup {NoImage},
   port : BOOLEAN, switching : BOOLEAN]
Tick ==
  [pc : {"idle", "listed", "planned", "swept", "inspected"},
   present : SUBSET DeployId, live : SUBSET DeployId, finished : BOOLEAN,
   chosen : DeployId \cup {None}, seen : DeployId \cup {None}]

\* A handler that goes on keeps what it holds; one that ends rests.
LEMMA Moves ==
  ASSUME TypeOK, NEW pc \in Pc, Goto(pc)
  PROVE  /\ worker' \in Holding
         /\ worker'.pc = pc
         /\ worker'.new = worker.new
         /\ worker'.old = worker.old
  BY DEF TypeOK, Goto, Holding

LEMMA Rests == Idle \in Holding /\ Idle.pc = "idle" /\ Resting \in Tick /\ Resting.pc = "idle"
  BY DEF Idle, Holding, Pc, Resting, Tick, None

\* A container's deployment has an image.
LEMMA ImageOf ==
  ASSUME Inv, NEW d \in DeployId, containers[d] # "none"
  PROVE  deployments[d].image \in Image
  <1>1. d \in 1..Len(deployments)
    BY BoundsAssumption DEF Inv, TypeOK, RowsExist, DeployId
  <1>2. deployments[d] \in Deployment
    BY <1>1 DEF Inv, TypeOK
  <1> QED BY <1>2 DEF Deployment

\* What a new row leaves of the invariant.
LEMMA RowKeeps ==
  ASSUME Inv, NEW image \in Image, NEW trigger \in {"manual", "rollback", "reconcile"},
         CreateDeployment(image, trigger), UNCHANGED <<containers, worker>>,
         queue # << >> => queue' # << >> /\ Head(queue') = Head(queue),
         \A i \in 1..Len(queue') : queue'[i].kind = "deploy" => queue'[i].id <= Len(deployments'),
         recon' = recon \/ recon'.pc # "listed"
  PROVE  JobInHand' /\ RowsExist' /\ ShownRunning' /\ ListingHolds'
  <1>1. /\ Len(deployments') = Len(deployments) + 1 /\ Len(deployments) \in Nat
        /\ \A j \in 1..Len(deployments) : deployments'[j] = deployments[j]
    BY RowCreated
  <1>2. JobInHand'
    BY DEF Inv, JobInHand, DeployPc
  <1>3. RowsExist'
    BY <1>1, BoundsAssumption DEF Inv, RowsExist, DeployId
  <1>4. ShownRunning'
    BY <1>1, CurrentRow DEF Inv, JobInHand, ShownRunning, DeployPc, current
  <1>5. ListingHolds'
    <2> SUFFICES ASSUME recon' = recon, recon.pc = "listed", ~recon.finished,
                        NEW d \in DeployId, containers[d] = "running"
                 PROVE  d \in recon.live \/ deployments'[d].status \in Under
      BY DEF ListingHolds
    <2>1. d \in recon.live \/ deployments[d].status \in Under
      BY DEF Inv, ListingHolds
    <2>2. d \in 1..Len(deployments)
      BY <1>1, BoundsAssumption DEF Inv, RowsExist, DeployId
    <2> QED BY <2>1, <2>2, <1>1
  <1> QED BY <1>2, <1>3, <1>4, <1>5

\* Asking for a deploy leaves the job in hand, and a deployment in flight.
LEMMA DeployAsked ==
  ASSUME Inv, NEW image \in Image, NEW trigger \in {"manual", "rollback", "reconcile"},
         EnqueueDeploy(image, trigger), UNCHANGED <<containers, worker>>,
         recon' = recon \/ recon'.pc # "listed"
  PROVE  JobInHand' /\ RowsExist' /\ ShownRunning' /\ ListingHolds'
  BY DeployQueued, RowKeeps

\* A row whose job was not written leaves the queue as it was.
LEMMA RowOnly ==
  ASSUME Inv, NEW image \in Image, NEW trigger \in {"manual", "rollback", "reconcile"},
         EnqueueLost(image, trigger), UNCHANGED <<containers, worker>>,
         recon' = recon \/ recon'.pc # "listed"
  PROVE  JobInHand' /\ RowsExist' /\ ShownRunning' /\ ListingHolds'
  <1>1. CreateDeployment(image, trigger) /\ queue' = queue
    BY DEF EnqueueLost
  <1>2. Len(deployments') = Len(deployments) + 1 /\ Len(deployments) \in Nat
    BY <1>1, RowCreated
  <1>3. ASSUME NEW i \in 1..Len(queue'), queue'[i].kind = "deploy"
        PROVE  queue'[i].id <= Len(deployments')
    <2>1. i \in 1..Len(queue) /\ queue'[i] = queue[i]
      BY <1>1
    <2>2. queue[i] \in Job /\ queue[i].id \in Int
      BY <2>1, BoundsAssumption DEF Inv, TypeOK, Job, DeployId, None
    <2> QED BY <2>1, <2>2, <1>2, <1>3 DEF Inv, RowsExist
  <1> QED BY <1>1, <1>3, RowKeeps

\* Asking for anything else leaves the job in hand.
LEMMA ChoreAsked ==
  ASSUME Inv, NEW kind \in {"stop", "remove", "sync"},
         queue' = Append(queue, [kind |-> kind, id |-> None]),
         UNCHANGED <<deployments, containers, worker, recon>>
  PROVE  queue' \in Seq(Job) /\ JobInHand' /\ RowsExist' /\ ShownRunning' /\ ListingHolds'
  <1>1. [kind |-> kind, id |-> None] \in Job /\ Len(deployments) \in Nat
    BY DEF Job, Inv, TypeOK
  <1>2. /\ queue' \in Seq(Job) /\ queue' # << >> /\ (queue # << >> => Head(queue') = Head(queue))
        /\ \A i \in 1..Len(queue') : queue'[i].kind = "deploy" => queue'[i].id <=
           Len(deployments')
    <2> DEFINE job == [kind |-> kind, id |-> None]
    <2>1. job \in Job /\ queue' = Append(queue, job) /\ job.kind # "deploy"
      BY <1>1
    <2> HIDE DEF job
    <2> QED BY <2>1, <1>1, QueueGrows
  <1>3. JobInHand' /\ RowsExist' /\ ShownRunning' /\ ListingHolds'
    BY <1>2 DEF Inv, JobInHand, RowsExist, ShownRunning, ListingHolds, DeployPc
  <1> QED BY <1>2, <1>3

\* A job that ends leaves the worker idle and the rest of the queue waiting.
LEMMA JobDone ==
  ASSUME Inv, queue # << >>, JobEnds, Len(deployments') = Len(deployments),
         \A d \in DeployId : containers'[d] # "none" => containers[d] # "none"
  PROVE  /\ worker' \in Holding /\ queue' \in Seq(Job)
         /\ JobInHand' /\ RowsExist' /\ ShownRunning'
  <1>1. queue' \in Seq(Job)
        /\ \A i \in 1..Len(queue') : queue'[i].kind = "deploy" => queue'[i].id <=
           Len(deployments')
    BY QueueMoves DEF JobEnds, Inv, TypeOK
  <1>2. worker' \in Holding /\ worker'.pc = "idle"
    BY Rests DEF JobEnds
  <1>3. JobInHand' /\ ShownRunning'
    BY <1>2 DEF JobInHand, ShownRunning, DeployPc
  <1>4. RowsExist'
    BY <1>1 DEF Inv, RowsExist
  <1> QED BY <1>1, <1>2, <1>3, <1>4

\* The newest of some containers is one of them.
LEMMA NewestIsOne ==
  ASSUME NEW S \in SUBSET DeployId
  PROVE  Newest(S) \in DeployId \cup {None}
  <1>1. CASE S = {}
    BY <1>1 DEF Newest
  <1>2. CASE S # {}
    <2> DEFINE age == {MaxDeploys - d : d \in S}
               earlier == OpToRel(<, Nat)
    <2>1. S \subseteq Int /\ age \subseteq Nat /\ age # {}
      <3>1. S \subseteq Int /\ \A d \in S : MaxDeploys - d \in Nat
        BY BoundsAssumption DEF DeployId
      <3>2. age \subseteq Nat
        BY <3>1
      <3>3. PICK d \in S : TRUE
        BY <1>2
      <3>4. MaxDeploys - d \in age
        BY <3>3
      <3> QED BY <3>1, <3>2, <3>4
    <2>2. \A m, n \in Nat : m < n => <<m, n>> \in earlier
      BY DEF OpToRel
    <2> HIDE DEF age, earlier
    <2>3. PICK a \in age : \A b \in age : <<b, a>> \notin earlier
      <3>1. IsWellFoundedOn(earlier, Nat)
        BY NatLessThanWellFounded DEF earlier
      <3>2. \E a \in age : \A b \in age : ~ (<<b, a>> \in earlier)
        BY <3>1, <2>1, WFMin, Zenon
      <3> QED BY <3>2
    <2>4. ASSUME NEW b \in age PROVE a <= b
      <3>1. a \in Nat /\ b \in Nat
        BY <2>1
      <3>2. ~ (b < a)
        BY <3>1, <2>2, <2>3, Zenon
      <3> QED BY <3>1, <3>2
    <2>5. PICK d \in S : a = MaxDeploys - d
      BY <2>3 DEF age
    <2>6. ASSUME NEW e \in S PROVE e <= d
      <3>1. MaxDeploys - e \in age
        BY DEF age
      <3> QED BY <3>1, <2>1, <2>4, <2>5, BoundsAssumption
    <2>7. \E n \in S : \A e \in S : e <= n
      BY <2>6
    <2> DEFINE newest == CHOOSE n \in S : \A e \in S : e <= n
    <2>8. newest \in S
      BY <2>7, Zenon
    <2>9. Newest(S) = newest
      BY <1>2, Zenon DEF Newest
    <2> HIDE DEF newest
    <2> QED BY <2>8, <2>9, Zenon
  <1> QED BY <1>1, <1>2

-----------------------------------------------------------------------------
(* One lemma for each action.                                              *)

LEMMA DeployStep == Inv /\ Deploy => Inv'
  <1> SUFFICES ASSUME Inv, Deploy PROVE Inv'
    OBVIOUS
  <1>1. row.image \in Image /\ EnqueueDeploy(row.image, "manual")
    BY DEF Deploy, Inv, TypeOK, Resource
  <1>2. /\ deployments' \in Seq(Deployment)
        /\ Len(deployments') <= MaxDeploys
        /\ queue' \in Seq(Job)
        /\ cooling' \in BOOLEAN /\ aged' = aged
    BY <1>1, DeployQueued, RowCreated
  <1>3. spent' \in [Budget -> Nat]
    BY SpendCounts DEF Deploy, Inv, TypeOK, Budget
  <1>4. TypeOK'
    BY <1>2, <1>3 DEF Deploy, Inv, TypeOK
  <1>5. JobInHand' /\ RowsExist' /\ ShownRunning' /\ ListingHolds'
    BY <1>1, DeployAsked DEF Deploy
  <1> QED BY <1>4, <1>5 DEF Inv

LEMMA RollbackStep == Inv /\ Rollback => Inv'
  <1> SUFFICES ASSUME Inv, Rollback PROVE Inv'
    OBVIOUS
  <1>1. row.previous \in Image /\ EnqueueDeploy(row.previous, "rollback")
    BY DEF Rollback, Inv, TypeOK, Resource
  <1>2. /\ deployments' \in Seq(Deployment)
        /\ Len(deployments') <= MaxDeploys
        /\ queue' \in Seq(Job)
        /\ cooling' \in BOOLEAN /\ aged' = aged
    BY <1>1, DeployQueued, RowCreated
  <1>3. spent' \in [Budget -> Nat]
    BY SpendCounts DEF Rollback, Inv, TypeOK, Budget
  <1>4. TypeOK'
    BY <1>2, <1>3 DEF Rollback, Inv, TypeOK
  <1>5. JobInHand' /\ RowsExist' /\ ShownRunning' /\ ListingHolds'
    BY <1>1, DeployAsked DEF Rollback
  <1> QED BY <1>4, <1>5 DEF Inv

LEMMA DeployLostStep == Inv /\ DeployLost => Inv'
  <1> SUFFICES ASSUME Inv, DeployLost PROVE Inv'
    OBVIOUS
  <1>1. PICK image \in Image, trigger \in {"manual", "rollback", "reconcile"} :
          EnqueueLost(image, trigger)
    BY DEF DeployLost, Inv, TypeOK, Resource
  <1>2. /\ deployments' \in Seq(Deployment)
        /\ Len(deployments') <= MaxDeploys
        /\ cooling' \in BOOLEAN /\ aged' = aged
    BY <1>1, RowCreated DEF EnqueueLost
  <1>3. queue' = queue /\ spent' \in [Budget -> Nat]
    BY <1>1, SpendCounts DEF EnqueueLost, Inv, TypeOK, Budget
  <1>4. TypeOK'
    BY <1>2, <1>3 DEF DeployLost, Inv, TypeOK
  <1>5. JobInHand' /\ RowsExist' /\ ShownRunning' /\ ListingHolds'
    BY <1>1, RowOnly DEF DeployLost
  <1> QED BY <1>4, <1>5 DEF Inv

LEMMA StopStep == Inv /\ Stop => Inv'
  <1> SUFFICES ASSUME Inv, Stop PROVE Inv'
    OBVIOUS
  <1>1. row' \in Resource
    BY DEF Stop, Inv, TypeOK, Resource
  <1>2. queue' \in Seq(Job) /\ JobInHand' /\ RowsExist' /\ ShownRunning' /\ ListingHolds'
    BY ChoreAsked DEF Stop
  <1>3. spent' \in [Budget -> Nat]
    BY SpendCounts DEF Stop, Inv, TypeOK, Budget
  <1>4. TypeOK'
    BY <1>1, <1>2, <1>3 DEF Stop, Inv, TypeOK
  <1>5. JobInHand' /\ RowsExist' /\ ShownRunning' /\ ListingHolds'
    BY <1>2
  <1> QED BY <1>4, <1>5 DEF Inv

LEMMA RemoveStep == Inv /\ Remove => Inv'
  <1> SUFFICES ASSUME Inv, Remove PROVE Inv'
    OBVIOUS
  <1>1. row' \in Resource
    BY DEF Remove, Inv, TypeOK, Resource
  <1>2. queue' \in Seq(Job) /\ JobInHand' /\ RowsExist' /\ ShownRunning' /\ ListingHolds'
    BY ChoreAsked DEF Remove
  <1>3. spent' \in [Budget -> Nat]
    BY SpendCounts DEF Remove, Inv, TypeOK, Budget
  <1>4. TypeOK'
    BY <1>1, <1>2, <1>3 DEF Remove, Inv, TypeOK
  <1>5. JobInHand' /\ RowsExist' /\ ShownRunning' /\ ListingHolds'
    BY <1>2
  <1> QED BY <1>4, <1>5 DEF Inv

LEMMA SaveSettingsStep == Inv /\ SaveSettings => Inv'
  <1> SUFFICES ASSUME Inv, SaveSettings PROVE Inv'
    OBVIOUS
  <1>1. row' \in Resource
    BY PortsAssumption DEF SaveSettings, Inv, TypeOK, Resource
  <1>2. queue' \in Seq(Job) /\ JobInHand' /\ RowsExist' /\ ShownRunning' /\ ListingHolds'
    BY ChoreAsked DEF SaveSettings
  <1>3. spent' \in [Budget -> Nat]
    BY SpendCounts DEF SaveSettings, Inv, TypeOK, Budget
  <1>4. TypeOK'
    BY <1>1, <1>2, <1>3 DEF SaveSettings, Inv, TypeOK
  <1>5. JobInHand' /\ RowsExist' /\ ShownRunning' /\ ListingHolds'
    BY <1>2
  <1> QED BY <1>4, <1>5 DEF Inv

LEMMA SkipJobStep == Inv /\ SkipJob => Inv'
  <1> SUFFICES ASSUME Inv, SkipJob PROVE Inv'
    OBVIOUS
  <1>1. queue # << >> /\ worker.pc = "idle"
    BY DEF SkipJob, Take
  <1>2. /\ queue' \in Seq(Job)
        /\ \A i \in 1..Len(queue') : queue'[i].kind = "deploy" => queue'[i].id <= Len(deployments')
    BY <1>1, QueueMoves DEF SkipJob, Inv, TypeOK
  <1>3. TypeOK'
    BY <1>2 DEF SkipJob, Inv, TypeOK
  <1>4. JobInHand' /\ ShownRunning'
    BY <1>1 DEF SkipJob, JobInHand, ShownRunning, DeployPc
  <1>5. RowsExist'
    BY <1>2 DEF SkipJob, Inv, RowsExist
  <1>6. ListingHolds'
    BY DEF SkipJob, Inv, ListingHolds
  <1> QED BY <1>3, <1>4, <1>5, <1>6 DEF Inv

LEMMA TakeDeployStep == Inv /\ TakeDeploy => Inv'
  <1> SUFFICES ASSUME Inv, TakeDeploy PROVE Inv'
    OBVIOUS
  <1>1. /\ row.container \in DeployId \cup {None}
        /\ row.previous \in Image \cup {NoImage}
        /\ row.port \in BOOLEAN
    BY DEF Inv, TypeOK, Resource
  <1>2. worker' \in Holding
    BY <1>1 DEF TakeDeploy, Holding, Idle, Pc, None
  <1>3. spent' \in [Budget -> Nat]
    BY DEF TakeDeploy, Inv, TypeOK
  <1>4. TypeOK'
    BY <1>1, <1>2, <1>3 DEF TakeDeploy, Inv, TypeOK, Holding
  <1>5. JobInHand' /\ RowsExist' /\ ShownRunning' /\ ListingHolds'
    BY DEF TakeDeploy, Take, Inv, TypeOK, JobInHand, DeployPc, Idle, RowsExist, ShownRunning,
       ListingHolds
  <1> QED BY <1>4, <1>5 DEF Inv

LEMMA NoteOutgoingStep == Inv /\ NoteOutgoing => Inv'
  <1> SUFFICES ASSUME Inv, NoteOutgoing PROVE Inv'
    OBVIOUS
  <1>1. current \in DeployId /\ current \in 1..Len(deployments) /\ queue # << >>
    BY CurrentRow DEF NoteOutgoing, At, DeployPc
  <1>2. deployments' \in Seq(Deployment) /\ Len(deployments') = Len(deployments)
        /\ deployments'[current].status = "running"
    BY <1>1, StatusWritten DEF NoteOutgoing
  <1>3. \A d \in DeployId : containers[d] # "none" => deployments[d].image \in Image
    BY ImageOf
  <1>4. worker' \in Holding /\ worker'.pc = "running"
    BY <1>3 DEF NoteOutgoing, Inv, TypeOK, Present, Holding, Pc, None
  <1>5. TypeOK'
    BY <1>2, <1>4, SpendCounts DEF NoteOutgoing, Inv, TypeOK, Holding, Budget
  <1>6. JobInHand'
    BY <1>4 DEF NoteOutgoing, At, Inv, JobInHand, DeployPc
  <1>7. RowsExist'
    BY <1>2 DEF NoteOutgoing, Inv, RowsExist
  <1>8. ShownRunning'
    BY <1>2, <1>4 DEF NoteOutgoing, ShownRunning, current
  <1>9. ListingHolds'
    <2>1. \A d \in 1..Len(deployments) : d # current => deployments'[d] = deployments[d]
      BY <1>1, StatusWritten DEF NoteOutgoing
    <2>2. \A d \in DeployId : containers[d] = "running" => d \in 1..Len(deployments)
      BY BoundsAssumption DEF Inv, TypeOK, RowsExist, DeployId
    <2> QED BY <1>2, <2>1, <2>2 DEF NoteOutgoing, Inv, ListingHolds, Under
  <1> QED BY <1>5, <1>6, <1>7, <1>8, <1>9 DEF Inv

LEMMA ReclaimStraysStep == Inv /\ ReclaimStrays => Inv'
  <1> SUFFICES ASSUME Inv, ReclaimStrays PROVE Inv'
    OBVIOUS
  <1>1. containers' \in [DeployId -> {"none", "still", "running"}]
    BY SpendCounts DEF ReclaimStrays, Inv, TypeOK
  <1>2. worker' \in Holding
    BY Moves DEF ReclaimStrays, Inv, Pc
  <1>3. spent' \in [Budget -> Nat]
    BY SpendCounts DEF ReclaimStrays, Inv, TypeOK, Budget
  <1>4. TypeOK'
    BY <1>1, <1>2, <1>3 DEF ReclaimStrays, Inv, TypeOK, Holding
  <1>5. JobInHand' /\ RowsExist' /\ ShownRunning' /\ ListingHolds'
    BY DEF ReclaimStrays, At, Goto, Inv, TypeOK, JobInHand, DeployPc, RowsExist, ShownRunning,
       ListingHolds
  <1> QED BY <1>4, <1>5 DEF Inv

LEMMA CreateContainerStep == Inv /\ CreateContainer => Inv'
  <1> SUFFICES ASSUME Inv, CreateContainer PROVE Inv'
    OBVIOUS
  <1>1. current \in DeployId /\ current \in 1..Len(deployments) /\ queue # << >>
    BY CurrentRow DEF CreateContainer, At, DeployPc
  <1>2. worker' \in Holding
    BY <1>1 DEF CreateContainer, Inv, TypeOK, Holding, Pc
  <1>3. spent' \in [Budget -> Nat]
    BY DEF CreateContainer, Inv, TypeOK
  <1>4. TypeOK'
    BY <1>1, <1>2, <1>3 DEF CreateContainer, Inv, TypeOK, Holding
  <1>5. JobInHand'
    BY DEF CreateContainer, At, Inv, TypeOK, JobInHand, DeployPc
  <1>6. RowsExist'
    BY <1>1 DEF CreateContainer, Inv, TypeOK, RowsExist
  <1>7. ShownRunning'
    BY DEF CreateContainer, At, Inv, TypeOK, ShownRunning, DeployPc, current
  <1>8. ListingHolds'
    BY <1>1 DEF CreateContainer, Inv, TypeOK, ListingHolds
  <1> QED BY <1>4, <1>5, <1>6, <1>7, <1>8 DEF Inv

LEMMA StartContainerStep == Inv /\ StartContainer => Inv'
  <1> SUFFICES ASSUME Inv, StartContainer PROVE Inv'
    OBVIOUS
  <1>1. worker' \in Holding
    BY Moves DEF StartContainer, Inv, Pc
  <1>2. spent' \in [Budget -> Nat]
    BY DEF StartContainer, Inv, TypeOK
  <1>3. TypeOK'
    BY <1>1, <1>2 DEF StartContainer, Inv, TypeOK, Holding
  <1>4. JobInHand'
    BY DEF StartContainer, At, Goto, Inv, TypeOK, JobInHand, DeployPc
  <1>5. RowsExist'
    BY DEF StartContainer, Present, Inv, TypeOK, RowsExist
  <1>6. ShownRunning'
    BY DEF StartContainer, At, Goto, Inv, TypeOK, ShownRunning, DeployPc
  <1>7. ListingHolds'
    BY CurrentRow DEF StartContainer, At, DeployPc, Inv, TypeOK, ShownRunning, ListingHolds,
       Under, current
  <1> QED BY <1>3, <1>4, <1>5, <1>6, <1>7 DEF Inv

LEMMA PassHealthGateStep == Inv /\ PassHealthGate => Inv'
  <1> SUFFICES ASSUME Inv, PassHealthGate PROVE Inv'
    OBVIOUS
  <1>1. worker' \in Holding
    BY Moves DEF PassHealthGate, Inv, Pc
  <1>2. spent' \in [Budget -> Nat]
    BY DEF PassHealthGate, Inv, TypeOK
  <1>3. TypeOK'
    BY <1>1, <1>2 DEF PassHealthGate, Live, Inv, TypeOK, Holding
  <1>4. JobInHand' /\ RowsExist' /\ ShownRunning' /\ ListingHolds'
    BY DEF PassHealthGate, At, Goto, Inv, TypeOK, JobInHand, DeployPc, RowsExist, ShownRunning,
       ListingHolds
  <1> QED BY <1>3, <1>4 DEF Inv

LEMMA SwitchRouteStep == Inv /\ SwitchRoute => Inv'
  <1> SUFFICES ASSUME Inv, SwitchRoute PROVE Inv'
    OBVIOUS
  <1>1. worker' \in Holding
    BY DEF SwitchRoute, Inv, TypeOK, Holding, Pc
  <1>2. spent' \in [Budget -> Nat]
    BY SpendCounts DEF SwitchRoute, Inv, TypeOK, Budget
  <1>3. TypeOK'
    BY <1>1, <1>2 DEF SwitchRoute, Inv, TypeOK, Holding
  <1>4. JobInHand' /\ RowsExist' /\ ShownRunning' /\ ListingHolds'
    BY DEF SwitchRoute, At, Inv, TypeOK, JobInHand, DeployPc, RowsExist, ShownRunning,
       ListingHolds
  <1> QED BY <1>3, <1>4 DEF Inv

LEMMA SwitchFailsStep == Inv /\ SwitchFails => Inv'
  <1> SUFFICES ASSUME Inv, SwitchFails PROVE Inv'
    OBVIOUS
  <1>1. worker' \in Holding
    BY DEF SwitchFails, Inv, TypeOK, Holding, Pc
  <1>2. spent' \in [Budget -> Nat]
    BY SpendCounts DEF SwitchFails, Inv, TypeOK, Budget
  <1>3. TypeOK'
    BY <1>1, <1>2 DEF SwitchFails, Inv, TypeOK, Holding
  <1>4. JobInHand' /\ RowsExist' /\ ShownRunning' /\ ListingHolds'
    BY DEF SwitchFails, At, Inv, TypeOK, JobInHand, DeployPc, RowsExist, ShownRunning,
       ListingHolds
  <1> QED BY <1>3, <1>4 DEF Inv

LEMMA RetireOldStep == Inv /\ RetireOld => Inv'
  <1> SUFFICES ASSUME Inv, RetireOld PROVE Inv'
    OBVIOUS
  <1>1. containers' \in [DeployId -> {"none", "still", "running"}]
    BY SpendCounts DEF RetireOld, Inv, TypeOK
  <1>2. worker' \in Holding
    BY Moves DEF RetireOld, Inv, Pc
  <1>3. spent' \in [Budget -> Nat]
    BY SpendCounts DEF RetireOld, Inv, TypeOK, Budget
  <1>4. TypeOK'
    BY <1>1, <1>2, <1>3 DEF RetireOld, Inv, TypeOK, Holding
  <1>5. JobInHand' /\ RowsExist' /\ ShownRunning' /\ ListingHolds'
    BY DEF RetireOld, At, Goto, Inv, TypeOK, JobInHand, DeployPc, RowsExist, ShownRunning,
       ListingHolds
  <1> QED BY <1>4, <1>5 DEF Inv

LEMMA DeployThrowsStep == Inv /\ DeployThrows => Inv'
  <1> SUFFICES ASSUME Inv, DeployThrows PROVE Inv'
    OBVIOUS
  <1>1. worker' \in Holding
    BY Moves DEF DeployThrows, Inv, Pc
  <1>2. spent' \in [Budget -> Nat]
    BY SpendCounts DEF DeployThrows, Inv, TypeOK, Budget
  <1>3. TypeOK'
    BY <1>1, <1>2 DEF DeployThrows, Inv, TypeOK, Holding
  <1>4. JobInHand' /\ RowsExist' /\ ShownRunning' /\ ListingHolds'
    BY DEF DeployThrows, At, Goto, Inv, TypeOK, JobInHand, DeployPc, RowsExist, ShownRunning,
       ListingHolds
  <1> QED BY <1>3, <1>4 DEF Inv

LEMMA CleanUpStep == Inv /\ CleanUp => Inv'
  <1> SUFFICES ASSUME Inv, CleanUp PROVE Inv'
    OBVIOUS
  <1>1. containers' \in [DeployId -> {"none", "still", "running"}]
    BY SpendCounts DEF CleanUp, Inv, TypeOK
  <1>2. worker' \in Holding
    BY Moves DEF CleanUp, Inv, Pc
  <1>3. spent' \in [Budget -> Nat]
    BY SpendCounts DEF CleanUp, Inv, TypeOK, Budget
  <1>4. TypeOK'
    BY <1>1, <1>2, <1>3 DEF CleanUp, Inv, TypeOK, Holding
  <1>5. JobInHand' /\ RowsExist' /\ ShownRunning' /\ ListingHolds'
    BY DEF CleanUp, At, Goto, Inv, TypeOK, JobInHand, DeployPc, RowsExist, ShownRunning,
       ListingHolds
  <1> QED BY <1>4, <1>5 DEF Inv

LEMMA RecordSuccessStep == Inv /\ RecordSuccess => Inv'
  <1> SUFFICES ASSUME Inv, RecordSuccess PROVE Inv'
    OBVIOUS
  <1>1. current \in DeployId /\ current \in 1..Len(deployments) /\ queue # << >>
    BY CurrentRow DEF RecordSuccess, At, DeployPc
  <1>2. deployments' \in Seq(Deployment) /\ Len(deployments') = Len(deployments)
    BY <1>1, StatusWritten DEF RecordSuccess, Ends
  <1>3. worker' \in Holding /\ queue' \in Seq(Job) /\ JobInHand' /\ RowsExist' /\ ShownRunning'
    BY <1>1, <1>2, JobDone DEF RecordSuccess
  <1>4. row' \in Resource
    BY CurrentRow DEF RecordSuccess, At, DeployPc, Inv, TypeOK, Resource, Deployment
  <1>5. TypeOK'
    BY <1>2, <1>3, <1>4 DEF RecordSuccess, Ends, Inv, TypeOK, Holding
  <1>6. JobInHand' /\ RowsExist' /\ ShownRunning'
    BY <1>3
  <1>7. ListingHolds'
    BY DEF RecordSuccess, Ends, Inv, TypeOK, ListingHolds
  <1> QED BY <1>5, <1>6, <1>7 DEF Inv

LEMMA MarkFailedStep == Inv /\ MarkFailed => Inv'
  <1> SUFFICES ASSUME Inv, MarkFailed PROVE Inv'
    OBVIOUS
  <1>1. current \in DeployId /\ current \in 1..Len(deployments) /\ queue # << >>
    BY CurrentRow DEF MarkFailed, At, DeployPc
  <1>2. deployments' \in Seq(Deployment) /\ Len(deployments') = Len(deployments)
    BY <1>1, StatusWritten DEF MarkFailed, Ends
  <1>3. worker' \in Holding /\ queue' \in Seq(Job) /\ JobInHand' /\ RowsExist' /\ ShownRunning'
    BY <1>1, <1>2, JobDone DEF MarkFailed
  <1>4. TypeOK'
    BY <1>2, <1>3 DEF MarkFailed, Ends, Inv, TypeOK, Holding
  <1>5. JobInHand' /\ RowsExist' /\ ShownRunning'
    BY <1>3
  <1>6. ListingHolds'
    BY DEF MarkFailed, Ends, Inv, TypeOK, ListingHolds
  <1> QED BY <1>4, <1>5, <1>6 DEF Inv

LEMMA TakeStopStep == Inv /\ TakeStop => Inv'
  <1> SUFFICES ASSUME Inv, TakeStop PROVE Inv'
    OBVIOUS
  <1>1. /\ row.container \in DeployId \cup {None}
        /\ row.previous \in Image \cup {NoImage}
        /\ row.port \in BOOLEAN
    BY DEF Inv, TypeOK, Resource
  <1>2. worker' \in Holding
    BY <1>1 DEF TakeStop, Holding, Idle, Pc, None
  <1>3. spent' \in [Budget -> Nat]
    BY DEF TakeStop, Inv, TypeOK
  <1>4. TypeOK'
    BY <1>1, <1>2, <1>3 DEF TakeStop, Inv, TypeOK, Holding
  <1>5. JobInHand' /\ RowsExist' /\ ShownRunning' /\ ListingHolds'
    BY DEF TakeStop, Take, Inv, TypeOK, JobInHand, DeployPc, Idle, RowsExist, ShownRunning,
       ListingHolds
  <1> QED BY <1>4, <1>5 DEF Inv

LEMMA StopContainerStep == Inv /\ StopContainer => Inv'
  <1> SUFFICES ASSUME Inv, StopContainer PROVE Inv'
    OBVIOUS
  <1>1. containers' \in [DeployId -> {"none", "still", "running"}]
    BY SpendCounts DEF StopContainer, Inv, TypeOK
  <1>2. worker' \in Holding
    BY Moves DEF StopContainer, Inv, Pc
  <1>3. spent' \in [Budget -> Nat]
    BY SpendCounts DEF StopContainer, Inv, TypeOK, Budget
  <1>4. TypeOK'
    BY <1>1, <1>2, <1>3 DEF StopContainer, Inv, TypeOK, Holding
  <1>5. JobInHand' /\ RowsExist' /\ ShownRunning' /\ ListingHolds'
    BY DEF StopContainer, At, Goto, Inv, TypeOK, JobInHand, DeployPc, Present, RowsExist,
       ShownRunning, ListingHolds
  <1> QED BY <1>4, <1>5 DEF Inv

LEMMA StopRouteStep == Inv /\ StopRoute => Inv'
  <1> SUFFICES ASSUME Inv, StopRoute PROVE Inv'
    OBVIOUS
  <1>1. worker' \in Holding
    BY Moves DEF StopRoute, DeleteRoute, Inv, Pc
  <1>2. spent' \in [Budget -> Nat]
    BY SpendCounts DEF StopRoute, DeleteRoute, Inv, TypeOK, Budget
  <1>3. TypeOK'
    BY <1>1, <1>2 DEF StopRoute, DeleteRoute, Inv, TypeOK, Holding
  <1>4. JobInHand' /\ RowsExist' /\ ShownRunning' /\ ListingHolds'
    BY DEF StopRoute, DeleteRoute, At, Goto, Inv, TypeOK, JobInHand, DeployPc, RowsExist,
       ShownRunning, ListingHolds
  <1> QED BY <1>3, <1>4 DEF Inv

LEMMA RemoveRouteStep == Inv /\ RemoveRoute => Inv'
  <1> SUFFICES ASSUME Inv, RemoveRoute PROVE Inv'
    OBVIOUS
  <1>1. worker' \in Holding
    BY Moves DEF RemoveRoute, DeleteRoute, Inv, Pc
  <1>2. spent' \in [Budget -> Nat]
    BY SpendCounts DEF RemoveRoute, DeleteRoute, Inv, TypeOK, Budget
  <1>3. TypeOK'
    BY <1>1, <1>2 DEF RemoveRoute, DeleteRoute, Inv, TypeOK, Holding
  <1>4. JobInHand' /\ RowsExist' /\ ShownRunning' /\ ListingHolds'
    BY DEF RemoveRoute, DeleteRoute, At, Goto, Inv, TypeOK, JobInHand, DeployPc, RowsExist,
       ShownRunning, ListingHolds
  <1> QED BY <1>3, <1>4 DEF Inv

LEMMA TakeRemoveStep == Inv /\ TakeRemove => Inv'
  <1> SUFFICES ASSUME Inv, TakeRemove PROVE Inv'
    OBVIOUS
  <1>1. /\ row.container \in DeployId \cup {None}
        /\ row.previous \in Image \cup {NoImage}
        /\ row.port \in BOOLEAN
    BY DEF Inv, TypeOK, Resource
  <1>2. row' \in Resource
    BY DEF TakeRemove, Inv, TypeOK, Resource
  <1>3. worker' \in Holding
    BY <1>1 DEF TakeRemove, Holding, Idle, Pc, None
  <1>4. spent' \in [Budget -> Nat]
    BY DEF TakeRemove, Inv, TypeOK
  <1>5. TypeOK'
    BY <1>1, <1>2, <1>3, <1>4 DEF TakeRemove, Inv, TypeOK, Holding
  <1>6. JobInHand' /\ RowsExist' /\ ShownRunning' /\ ListingHolds'
    BY DEF TakeRemove, Take, Inv, TypeOK, JobInHand, DeployPc, Idle, RowsExist, ShownRunning,
       ListingHolds
  <1> QED BY <1>5, <1>6 DEF Inv

LEMMA RemoveContainerStep == Inv /\ RemoveContainer => Inv'
  <1> SUFFICES ASSUME Inv, RemoveContainer PROVE Inv'
    OBVIOUS
  <1>1. containers' \in [DeployId -> {"none", "still", "running"}]
    BY SpendCounts DEF RemoveContainer, Inv, TypeOK
  <1>2. worker' \in Holding
    BY Moves DEF RemoveContainer, Inv, Pc
  <1>3. spent' \in [Budget -> Nat]
    BY SpendCounts DEF RemoveContainer, Inv, TypeOK, Budget
  <1>4. TypeOK'
    BY <1>1, <1>2, <1>3 DEF RemoveContainer, Inv, TypeOK, Holding
  <1>5. JobInHand' /\ RowsExist' /\ ShownRunning' /\ ListingHolds'
    BY DEF RemoveContainer, At, Goto, Inv, TypeOK, JobInHand, DeployPc, RowsExist, ShownRunning,
       ListingHolds
  <1> QED BY <1>4, <1>5 DEF Inv

LEMMA RemoveStraysStep == Inv /\ RemoveStrays => Inv'
  <1> SUFFICES ASSUME Inv, RemoveStrays PROVE Inv'
    OBVIOUS
  <1>1. containers' \in [DeployId -> {"none", "still", "running"}]
    BY SpendCounts DEF RemoveStrays, Inv, TypeOK
  <1>2. worker' \in Holding
    BY Moves DEF RemoveStrays, Inv, Pc
  <1>3. spent' \in [Budget -> Nat]
    BY SpendCounts DEF RemoveStrays, Inv, TypeOK, Budget
  <1>4. TypeOK'
    BY <1>1, <1>2, <1>3 DEF RemoveStrays, Inv, TypeOK, Holding
  <1>5. JobInHand' /\ RowsExist' /\ ShownRunning' /\ ListingHolds'
    BY DEF RemoveStrays, At, Goto, Inv, TypeOK, JobInHand, DeployPc, RowsExist, ShownRunning,
       ListingHolds
  <1> QED BY <1>4, <1>5 DEF Inv

LEMMA LookAtRoutesStep == Inv /\ LookAtRoutes => Inv'
  <1> SUFFICES ASSUME Inv, LookAtRoutes PROVE Inv'
    OBVIOUS
  <1>1. /\ row.container \in DeployId \cup {None}
        /\ row.previous \in Image \cup {NoImage}
        /\ row.port \in BOOLEAN
    BY DEF Inv, TypeOK, Resource
  <1>2. worker' \in Holding
    BY <1>1 DEF LookAtRoutes, Holding, Idle, Pc, None
  <1>3. spent' \in [Budget -> Nat]
    BY DEF LookAtRoutes, Inv, TypeOK
  <1>4. TypeOK'
    BY <1>1, <1>2, <1>3 DEF LookAtRoutes, Inv, TypeOK, Holding
  <1>5. JobInHand' /\ RowsExist' /\ ShownRunning' /\ ListingHolds'
    BY DEF LookAtRoutes, Take, Inv, TypeOK, JobInHand, DeployPc, Idle, RowsExist, ShownRunning,
       ListingHolds
  <1> QED BY <1>4, <1>5 DEF Inv

LEMMA RecordStopStep == Inv /\ RecordStop => Inv'
  <1> SUFFICES ASSUME Inv, RecordStop PROVE Inv'
    OBVIOUS
  <1>1. queue # << >>
    BY DEF RecordStop, At, Inv, JobInHand
  <1>2. worker' \in Holding /\ queue' \in Seq(Job) /\ JobInHand' /\ RowsExist' /\ ShownRunning'
    BY <1>1, JobDone DEF RecordStop
  <1>3. spent' \in [Budget -> Nat]
    BY DEF RecordStop, Inv, TypeOK
  <1>4. row' \in Resource
    BY DEF RecordStop, Inv, TypeOK, Resource
  <1>5. route' \in DeployId \cup {None}
    BY DEF RecordStop, Inv, TypeOK, Live
  <1>6. TypeOK'
    BY <1>2, <1>3, <1>4, <1>5 DEF RecordStop, Inv, TypeOK, Holding
  <1>7. JobInHand' /\ RowsExist' /\ ShownRunning'
    BY <1>2
  <1>8. ListingHolds'
    BY DEF RecordStop, At, Inv, ListingHolds
  <1> QED BY <1>6, <1>7, <1>8 DEF Inv

LEMMA DeleteRowStep == Inv /\ DeleteRow => Inv'
  <1> SUFFICES ASSUME Inv, DeleteRow PROVE Inv'
    OBVIOUS
  <1>1. queue # << >>
    BY DEF DeleteRow, At, Inv, JobInHand
  <1>2. worker' \in Holding /\ queue' \in Seq(Job) /\ JobInHand' /\ RowsExist' /\ ShownRunning'
    BY <1>1, JobDone DEF DeleteRow
  <1>3. spent' \in [Budget -> Nat]
    BY DEF DeleteRow, Inv, TypeOK
  <1>4. row' \in Resource
    BY DEF DeleteRow, Inv, TypeOK, Resource
  <1>5. route' \in DeployId \cup {None}
    BY DEF DeleteRow, Inv, TypeOK, Live
  <1>6. TypeOK'
    BY <1>2, <1>3, <1>4, <1>5 DEF DeleteRow, Inv, TypeOK, Holding
  <1>7. JobInHand' /\ RowsExist' /\ ShownRunning'
    BY <1>2
  <1>8. ListingHolds'
    BY DEF DeleteRow, At, Inv, ListingHolds
  <1> QED BY <1>6, <1>7, <1>8 DEF Inv

LEMMA SyncRouteStep == Inv /\ SyncRoute => Inv'
  <1> SUFFICES ASSUME Inv, SyncRoute PROVE Inv'
    OBVIOUS
  <1>1. queue # << >>
    BY DEF SyncRoute, At, Inv, JobInHand
  <1>2. worker' \in Holding /\ queue' \in Seq(Job) /\ JobInHand' /\ RowsExist' /\ ShownRunning'
    BY <1>1, JobDone DEF SyncRoute
  <1>3. spent' \in [Budget -> Nat]
    BY SpendCounts DEF SyncRoute, Inv, TypeOK, Budget
  <1>4. row' \in Resource
    BY DEF SyncRoute, Inv, TypeOK, Resource
  <1>5. route' \in DeployId \cup {None}
    BY DEF SyncRoute, Inv, TypeOK, Live
  <1>6. TypeOK'
    BY <1>2, <1>3, <1>4, <1>5 DEF SyncRoute, Inv, TypeOK, Holding
  <1>7. JobInHand' /\ RowsExist' /\ ShownRunning'
    BY <1>2
  <1>8. ListingHolds'
    BY DEF SyncRoute, At, Inv, ListingHolds
  <1> QED BY <1>6, <1>7, <1>8 DEF Inv

LEMMA SweepStaleRouteStep == Inv /\ SweepStaleRoute => Inv'
  <1> SUFFICES ASSUME Inv, SweepStaleRoute PROVE Inv'
    OBVIOUS
  <1>1. queue # << >>
    BY DEF SweepStaleRoute, At, Inv, JobInHand
  <1>2. worker' \in Holding /\ queue' \in Seq(Job) /\ JobInHand' /\ RowsExist' /\ ShownRunning'
    BY <1>1, JobDone DEF SweepStaleRoute
  <1>3. spent' \in [Budget -> Nat]
    BY SpendCounts DEF SweepStaleRoute, Inv, TypeOK, Budget
  <1>4. row' \in Resource
    BY DEF SweepStaleRoute, Inv, TypeOK, Resource
  <1>5. route' \in DeployId \cup {None}
    BY DEF SweepStaleRoute, Inv, TypeOK, Live
  <1>6. TypeOK'
    BY <1>2, <1>3, <1>4, <1>5 DEF SweepStaleRoute, Inv, TypeOK, Holding
  <1>7. JobInHand' /\ RowsExist' /\ ShownRunning'
    BY <1>2
  <1>8. ListingHolds'
    BY DEF SweepStaleRoute, At, Inv, ListingHolds
  <1> QED BY <1>6, <1>7, <1>8 DEF Inv

LEMMA ListContainersStep == Inv /\ ListContainers => Inv'
  <1> SUFFICES ASSUME Inv, ListContainers PROVE Inv'
    OBVIOUS
  <1>1. recon' \in Tick
    BY DEF ListContainers, Listing, Resting, Present, Live, Tick, None
  <1>2. spent' \in [Budget -> Nat]
    BY DEF ListContainers, Inv, TypeOK
  <1>3. TypeOK'
    BY <1>1, <1>2 DEF ListContainers, Inv, TypeOK, Tick
  <1>4. JobInHand' /\ RowsExist' /\ ShownRunning' /\ ListingHolds'
    BY DEF ListContainers, Inv, JobInHand, RowsExist, ShownRunning, Listing, Live, Resting,
       ListingHolds
  <1> QED BY <1>3, <1>4 DEF Inv

LEMMA PlanRedeployStep == Inv /\ PlanRedeploy => Inv'
  <1> SUFFICES ASSUME Inv, PlanRedeploy PROVE Inv'
    OBVIOUS
  <1>1. recon' \in Tick /\ recon'.pc = "planned"
    <2>1. Newest(recon.live) \in DeployId \cup {None}
      BY NewestIsOne DEF Inv, TypeOK
    <2> QED BY <2>1 DEF PlanRedeploy, Planned, Inv, TypeOK, Tick, Resource, None
  <1>2. CASE EnqueueDeploy(row.image, "reconcile")
    <2>1. row.image \in Image
      BY DEF Inv, TypeOK, Resource
    <2>2. /\ deployments' \in Seq(Deployment) /\ Len(deployments') <= MaxDeploys
          /\ queue' \in Seq(Job) /\ cooling' \in BOOLEAN /\ aged' = aged
      BY <2>1, <1>2, DeployQueued, RowCreated
    <2>3. TypeOK'
      BY <1>1, <2>2 DEF PlanRedeploy, Inv, TypeOK, Tick
    <2> QED BY <1>1, <1>2, <2>1, <2>3, DeployAsked DEF PlanRedeploy, Inv
  <1>3. CASE UNCHANGED <<deployments, queue, cooling, aged>>
    <2>1. TypeOK'
      BY <1>1, <1>3 DEF PlanRedeploy, Inv, TypeOK, Tick
    <2>2. JobInHand' /\ RowsExist' /\ ShownRunning' /\ ListingHolds'
      BY <1>1, <1>3 DEF PlanRedeploy, Inv, JobInHand, RowsExist, ShownRunning, ListingHolds
    <2> QED BY <2>1, <2>2 DEF Inv
  <1> QED BY <1>2, <1>3 DEF PlanRedeploy

LEMMA PlanLostStep == Inv /\ PlanLost => Inv'
  <1> SUFFICES ASSUME Inv, PlanLost PROVE Inv'
    OBVIOUS
  <1>1. row.image \in Image /\ EnqueueLost(row.image, "reconcile")
    BY DEF PlanLost, Inv, TypeOK, Resource
  <1>2. /\ deployments' \in Seq(Deployment)
        /\ Len(deployments') <= MaxDeploys
        /\ cooling' \in BOOLEAN /\ aged' = aged
    BY <1>1, RowCreated DEF EnqueueLost
  <1>3. queue' = queue /\ spent' \in [Budget -> Nat]
    BY <1>1, SpendCounts DEF EnqueueLost, Inv, TypeOK, Budget
  <1>4. recon' \in Tick /\ recon'.pc = "idle"
    BY Rests DEF PlanLost
  <1>5. TypeOK'
    BY <1>2, <1>3, <1>4 DEF PlanLost, Inv, TypeOK, Tick
  <1>6. JobInHand' /\ RowsExist' /\ ShownRunning' /\ ListingHolds'
    BY <1>1, <1>4, RowOnly DEF PlanLost
  <1> QED BY <1>5, <1>6 DEF Inv

LEMMA HourPassesStep == Inv /\ HourPasses => Inv'
  <1> SUFFICES ASSUME Inv, HourPasses PROVE Inv'
    OBVIOUS
  <1>1. aged' \subseteq DeployId
    <2>1. InFlight \subseteq DeployId
      BY BoundsAssumption DEF InFlight, Inv, TypeOK, DeployId
    <2> QED BY <2>1 DEF HourPasses
  <1>2. cooling' \in BOOLEAN
    BY DEF HourPasses, Inv, TypeOK
  <1>3. spent' \in [Budget -> Nat]
    BY SpendCounts DEF HourPasses, Inv, TypeOK, Budget
  <1>4. TypeOK'
    BY <1>1, <1>2, <1>3 DEF HourPasses, Inv, TypeOK
  <1>5. JobInHand' /\ RowsExist' /\ ShownRunning' /\ ListingHolds'
    BY DEF HourPasses, Inv, JobInHand, RowsExist, ShownRunning, ListingHolds
  <1> QED BY <1>4, <1>5 DEF Inv

LEMMA SweepOrphansStep == Inv /\ SweepOrphans => Inv'
  <1> SUFFICES ASSUME Inv, SweepOrphans PROVE Inv'
    OBVIOUS
  <1>1. containers' \in [DeployId -> {"none", "still", "running"}]
    BY SpendCounts DEF SweepOrphans, Inv, TypeOK
  <1>2. recon' \in Tick
    BY Rests DEF SweepOrphans, Inv, TypeOK, Tick
  <1>3. spent' \in [Budget -> Nat]
    BY SpendCounts DEF SweepOrphans, Inv, TypeOK, Budget
  <1>4. UNCHANGED <<row, deployments, queue, route, worker, cooling, aged, process, gated, asked>>
    BY DEF SweepOrphans
  <1>5. TypeOK'
    BY <1>1, <1>2, <1>3, <1>4 DEF Inv, TypeOK, Tick
  <1>6. JobInHand'
    BY <1>4 DEF Inv, JobInHand
  <1>7. RowsExist'
    BY DEF SweepOrphans, Inv, RowsExist
  <1>8. ShownRunning'
    BY <1>4 DEF Inv, ShownRunning
  <1>9. ListingHolds'
    BY DEF SweepOrphans, Ticking, Resting, Inv, TypeOK, ListingHolds
  <1> QED BY <1>5, <1>6, <1>7, <1>8, <1>9 DEF Inv

LEMMA InspectChosenStep == Inv /\ InspectChosen => Inv'
  <1> SUFFICES ASSUME Inv, InspectChosen PROVE Inv'
    OBVIOUS
  <1>1. recon' \in Tick
    BY Rests DEF InspectChosen, Inv, TypeOK, Tick
  <1>2. spent' \in [Budget -> Nat]
    BY SpendCounts DEF InspectChosen, Inv, TypeOK, Budget
  <1>3. TypeOK'
    BY <1>1, <1>2 DEF InspectChosen, Inv, TypeOK, Tick
  <1>4. JobInHand' /\ RowsExist' /\ ShownRunning' /\ ListingHolds'
    BY DEF InspectChosen, Inv, JobInHand, RowsExist, ShownRunning, Ticking, Resting, TypeOK,
       ListingHolds
  <1> QED BY <1>3, <1>4 DEF Inv

LEMMA RepointStep == Inv /\ Repoint => Inv'
  <1> SUFFICES ASSUME Inv, Repoint PROVE Inv'
    OBVIOUS
  <1>1. row' \in Resource
    BY DEF Repoint, Inv, TypeOK, Resource
  <1>2. recon' \in Tick
    BY Rests DEF Repoint
  <1>3. spent' \in [Budget -> Nat]
    BY DEF Repoint, Inv, TypeOK
  <1>4. TypeOK'
    BY <1>1, <1>2, <1>3 DEF Repoint, Inv, TypeOK, Tick
  <1>5. JobInHand' /\ RowsExist' /\ ShownRunning' /\ ListingHolds'
    BY DEF Repoint, Inv, JobInHand, RowsExist, ShownRunning, Ticking, Resting, TypeOK,
       ListingHolds
  <1> QED BY <1>4, <1>5 DEF Inv

LEMMA BackoffPassesStep == Inv /\ BackoffPasses => Inv'
  <1> SUFFICES ASSUME Inv, BackoffPasses PROVE Inv'
    OBVIOUS
  <1>1. cooling' \in BOOLEAN /\ process' \in {"up", "boot", "down"}
    BY DEF BackoffPasses, Inv, TypeOK
  <1>2. TypeOK'
    BY <1>1 DEF BackoffPasses, Inv, TypeOK
  <1>3. JobInHand' /\ RowsExist' /\ ShownRunning' /\ ListingHolds'
    BY DEF BackoffPasses, Inv, JobInHand, RowsExist, ShownRunning, ListingHolds
  <1> QED BY <1>2, <1>3 DEF Inv

LEMMA ServeStep == Inv /\ Serve => Inv'
  <1> SUFFICES ASSUME Inv, Serve PROVE Inv'
    OBVIOUS
  <1>1. cooling' \in BOOLEAN /\ process' \in {"up", "boot", "down"}
    BY DEF Serve, Inv, TypeOK
  <1>2. TypeOK'
    BY <1>1 DEF Serve, Inv, TypeOK
  <1>3. JobInHand' /\ RowsExist' /\ ShownRunning' /\ ListingHolds'
    BY DEF Serve, Inv, JobInHand, RowsExist, ShownRunning, ListingHolds
  <1> QED BY <1>2, <1>3 DEF Inv

LEMMA RemovedByHandStep == Inv /\ RemovedByHand => Inv'
  <1> SUFFICES ASSUME Inv, RemovedByHand PROVE Inv'
    OBVIOUS
  <1>1. containers' \in [DeployId -> {"none", "still", "running"}]
    BY SpendCounts DEF RemovedByHand, Inv, TypeOK
  <1>2. \A d \in DeployId : containers'[d] # "none" => containers'[d] = containers[d]
    BY DEF RemovedByHand, Inv, TypeOK
  <1>3. TypeOK'
    BY <1>1, SpendCounts DEF RemovedByHand, Inv, TypeOK, Budget
  <1>4. JobInHand' /\ ShownRunning'
    BY DEF RemovedByHand, Inv, JobInHand, ShownRunning
  <1>5. RowsExist' /\ ListingHolds'
    BY <1>2 DEF RemovedByHand, Inv, RowsExist, ListingHolds
  <1> QED BY <1>3, <1>4, <1>5 DEF Inv

LEMMA CrashStep == Inv /\ Crash => Inv'
  <1> SUFFICES ASSUME Inv, Crash PROVE Inv'
    OBVIOUS
  <1>1. worker' \in Holding /\ worker'.pc = "idle" /\ recon' \in Tick /\ recon'.pc = "idle"
    BY Rests DEF Crash
  <1>2. TypeOK'
    BY <1>1, SpendCounts DEF Crash, Inv, TypeOK, Holding, Tick, Budget
  <1>3. JobInHand' /\ ShownRunning' /\ ListingHolds'
    BY <1>1 DEF JobInHand, ShownRunning, ListingHolds, DeployPc
  <1>4. RowsExist'
    BY DEF Crash, Inv, RowsExist
  <1> QED BY <1>2, <1>3, <1>4 DEF Inv

LEMMA BootStep == Inv /\ Boot => Inv'
  <1> SUFFICES ASSUME Inv, Boot PROVE Inv'
    OBVIOUS
  <1>1. Listing \in Tick
    BY DEF Listing, Resting, Present, Live, Tick, None
  <1>2. recon' \in Tick
    BY <1>1 DEF Boot, Inv, TypeOK, Tick
  <1>3. spent' \in [Budget -> Nat]
    BY SpendCounts DEF Boot, Inv, TypeOK, Budget
  <1>4. TypeOK'
    BY <1>1, <1>2, <1>3 DEF Boot, Inv, TypeOK, Tick
  <1>5. JobInHand' /\ RowsExist' /\ ShownRunning' /\ ListingHolds'
    BY DEF Boot, Inv, JobInHand, RowsExist, ShownRunning, Listing, Live, Resting, ListingHolds
  <1> QED BY <1>4, <1>5 DEF Inv

-----------------------------------------------------------------------------
(* All the steps.                                                          *)

LEMMA NextInv == Inv /\ [Next]_vars => Inv'
  <1> SUFFICES ASSUME Inv, [Next]_vars PROVE Inv'
    OBVIOUS
  <1>1. CASE Request
    BY <1>1, DeployStep, RollbackStep, DeployLostStep, StopStep, RemoveStep, SaveSettingsStep
    DEF Request
  <1>2. CASE Deploying
    BY <1>2, TakeDeployStep, NoteOutgoingStep, ReclaimStraysStep, CreateContainerStep,
       StartContainerStep, PassHealthGateStep, SwitchRouteStep, SwitchFailsStep, RetireOldStep,
       RecordSuccessStep, DeployThrowsStep, CleanUpStep, MarkFailedStep
    DEF Deploying
  <1>3. CASE Stopping \/ Removing \/ Syncing \/ SkipJob
    BY <1>3, TakeStopStep, StopContainerStep, StopRouteStep, RecordStopStep,
       TakeRemoveStep, RemoveContainerStep, RemoveStraysStep, RemoveRouteStep, DeleteRowStep,
       LookAtRoutesStep, SyncRouteStep, SweepStaleRouteStep, SkipJobStep
    DEF Stopping, Removing, Syncing
  <1>4. CASE Reconciling
    BY <1>4, ListContainersStep, PlanRedeployStep, SweepOrphansStep, InspectChosenStep,
       RepointStep
    DEF Reconciling
  <1>5. CASE PlanLost \/ HourPasses \/ BackoffPasses \/ Crash \/ Boot \/ Serve
             \/ RemovedByHand
    BY <1>5, PlanLostStep, HourPassesStep, BackoffPassesStep, CrashStep, BootStep, ServeStep,
       RemovedByHandStep
  <1>6. CASE UNCHANGED vars
    BY <1>6 DEF vars, Inv, TypeOK, JobInHand, RowsExist, ShownRunning, ListingHolds
  <1> QED BY <1>1, <1>2, <1>3, <1>4, <1>5, <1>6 DEF Next, Work

LEMMA AlwaysInv == Spec => []Inv
  BY InitInv, NextInv, PTL DEF Spec

\* Every variable of the pipeline keeps its type: the rows, the queue, what the
\* worker and the tick hold across their awaits (jobs/deploy.ts, reconciler.ts).
THEOREM TypeCorrect == Spec => []TypeOK
  <1>1. Inv => TypeOK
    BY DEF Inv
  <1> QED BY <1>1, AlwaysInv, PTL

\* Only a request and the reconciler's plan add a deployment.
LEMMA OthersAddNone ==
  ASSUME Inv, Work \/ (Reconciling /\ ~PlanRedeploy) \/ HourPasses \/ BackoffPasses \/ Crash
              \/ Boot \/ Serve \/ RemovedByHand \/ UNCHANGED vars
  PROVE  Len(deployments') = Len(deployments)
  <1>1. CASE NoteOutgoing \/ RecordSuccess \/ MarkFailed
    <2>1. current \in 1..Len(deployments)
      BY <1>1, CurrentRow DEF NoteOutgoing, RecordSuccess, MarkFailed, At, DeployPc
    <2> QED BY <1>1, <2>1, StatusWritten DEF NoteOutgoing, RecordSuccess, MarkFailed, Ends
  <1>2. CASE Deploying /\ ~(NoteOutgoing \/ RecordSuccess \/ MarkFailed)
    BY <1>2 DEF Deploying, TakeDeploy, ReclaimStrays, CreateContainer, StartContainer,
       PassHealthGate, SwitchRoute, SwitchFails, RetireOld, DeployThrows, CleanUp
  <1>3. CASE Stopping \/ Removing \/ Syncing \/ SkipJob
    BY <1>3 DEF Stopping, Removing, Syncing, SkipJob, TakeStop, StopContainer, StopRoute,
       RecordStop, TakeRemove, RemoveContainer, RemoveStrays, RemoveRoute, DeleteRow,
       DeleteRoute, LookAtRoutes, SyncRoute, SweepStaleRoute
  <1>4. CASE Reconciling /\ ~PlanRedeploy
    BY <1>4 DEF Reconciling, ListContainers, SweepOrphans, InspectChosen, Repoint
  <1>5. CASE HourPasses \/ BackoffPasses \/ Crash \/ Boot \/ Serve \/ RemovedByHand
             \/ UNCHANGED vars
    BY <1>5 DEF HourPasses, BackoffPasses, Crash, Boot, Serve, RemovedByHand, vars
  <1> QED BY <1>1, <1>2, <1>3, <1>4, <1>5 DEF Work

\* A plan whose listing shows nothing running is right but for the containers of
\* deploys still in flight, all more than an hour old.
LEMMA PlanIsRight ==
  ASSUME Inv, recon.pc = "listed", MissesContainer
  PROVE  Live \subseteq aged
  <1> SUFFICES ASSUME NEW d \in Live PROVE d \in aged
    OBVIOUS
  <1>1. d \in DeployId /\ containers[d] = "running"
    BY DEF Live
  <1>2. deployments[d].status \in Under
    BY <1>1 DEF MissesContainer, MayRedeploy, Inv, ListingHolds
  <1>3. d \in 1..Len(deployments) /\ deployments \in Seq(Deployment)
    BY <1>1, BoundsAssumption DEF Inv, TypeOK, RowsExist, DeployId
  <1> QED BY <1>2, <1>3 DEF MissesContainer, MayRedeploy, InFlight, Under

\* A step that queues a redeploy is a plan whose listing still holds.
LEMMA HealStep == Inv /\ [Next]_vars => (HealQueued => Live \subseteq aged)
  <1> SUFFICES ASSUME Inv, [Next]_vars, HealQueued PROVE Live \subseteq aged
    OBVIOUS
  <1>1. CASE Request
    <2>1. CASE Deploy \/ Rollback \/ DeployLost
      <3>1. PICK image \in Image, trigger \in {"manual", "rollback"} :
              CreateDeployment(image, trigger)
        BY <2>1 DEF Deploy, Rollback, DeployLost, EnqueueDeploy, EnqueueLost, Inv, TypeOK,
           Resource
      <3> QED BY <3>1, RowCreated DEF HealQueued
    <2>2. CASE Stop \/ Remove \/ SaveSettings
      <3>1. deployments' = deployments
        BY <2>2 DEF Stop, Remove, SaveSettings
      <3>2. Len(deployments') = Len(deployments) /\ Len(deployments) \in Nat
        BY <3>1 DEF Inv, TypeOK
      <3> QED BY <3>2 DEF HealQueued
    <2> QED BY <1>1, <2>1, <2>2 DEF Request
  <1>2. CASE PlanRedeploy \/ PlanLost
    <2>1. recon.pc = "listed" /\ MissesContainer
      BY <1>2 DEF PlanRedeploy, PlanLost, Ticking, HealQueued, Inv, TypeOK
    <2> QED BY <2>1, PlanIsRight
  <1>3. CASE (Next /\ ~Request /\ ~PlanRedeploy /\ ~PlanLost) \/ UNCHANGED vars
    <2>1. Len(deployments') = Len(deployments) /\ Len(deployments) \in Nat
      BY <1>3, OthersAddNone DEF Next, Inv, TypeOK
    <2> QED BY <2>1 DEF HealQueued
  <1> QED BY <1>1, <1>2, <1>3

\* A tick queues a redeploy only when no container of the resource runs at that
\* moment but those of deploys in flight for more than an hour, although the
\* list it decides on was read before its awaits (redeployPlan in
\* reconciler.ts).
THEOREM HealsOnlyWhatIsDown == Spec => HealIsNeeded
  BY AlwaysInv, HealStep, PTL DEF Spec, HealIsNeeded

-----------------------------------------------------------------------------
(* What a removal leaves.                                                  *)

\* Nothing is left when the row goes: the containers went before the route, the
\* route before the row, and no handler of a deploy was under way or starts.
Gone ==
  spent["docker"] = 0 /\ spent["proxy"] = 0 =>
    /\ worker.pc \in {"emptied", "released"} => \A d \in DeployId : containers[d] = "none"
    /\ worker.pc = "released" => route = None
    /\ ~row.exists => /\ \A d \in DeployId : containers[d] = "none"
                      /\ route = None /\ worker.pc \in {"idle", "unrouting"}

LEMMA GoneStep == Inv /\ Gone /\ Next => Gone'
  <1> SUFFICES ASSUME Inv, Gone, Next PROVE Gone'
    OBVIOUS
  <1>1. CASE Deploy
    BY <1>1, SpendCounts DEF Deploy, EnqueueDeploy, CreateDeployment, Serving, Budget, Gone, Inv,
       TypeOK
  <1>2. CASE Rollback
    BY <1>2, SpendCounts DEF Rollback, EnqueueDeploy, CreateDeployment, Serving, Budget, Gone,
       Inv, TypeOK
  <1>3. CASE Stop
    BY <1>3, SpendCounts DEF Stop, Serving, Budget, Gone, Inv, TypeOK
  <1>4. CASE Remove
    BY <1>4, SpendCounts DEF Remove, Resource, Serving, Budget, Gone, Inv, TypeOK
  <1>5. CASE SaveSettings
    BY <1>5, SpendCounts DEF SaveSettings, Resource, Serving, Budget, Gone, Inv, TypeOK
  <1>6. CASE SkipJob
    BY <1>6 DEF SkipJob, Take, Gone, Inv, TypeOK
  <1>7. CASE TakeDeploy
    BY <1>7 DEF TakeDeploy, Take, Idle, Gone, Inv, TypeOK
  <1>8. CASE NoteOutgoing
    BY <1>8, SpendCounts DEF NoteOutgoing, At, Present, current, Budget, Gone, Inv, TypeOK
  <1>9. CASE ReclaimStrays
    BY <1>9, SpendCounts DEF ReclaimStrays, At, Goto, Budget, Gone, Inv, TypeOK
  <1>10. CASE CreateContainer
    BY <1>10 DEF CreateContainer, At, Present, current, Gone, Inv, TypeOK
  <1>11. CASE StartContainer
    BY <1>11 DEF StartContainer, At, Goto, Present, Gone, Inv, TypeOK
  <1>12. CASE PassHealthGate
    BY <1>12 DEF PassHealthGate, At, Goto, Live, Gone, Inv, TypeOK
  <1>13. CASE SwitchRoute
    BY <1>13, SpendCounts DEF SwitchRoute, At, Budget, Gone, Inv, TypeOK
  <1>14. CASE SwitchFails
    BY <1>14, SpendCounts DEF SwitchFails, At, Budget, Gone, Inv, TypeOK
  <1>15. CASE RetireOld
    BY <1>15, SpendCounts DEF RetireOld, At, Goto, Budget, Gone, Inv, TypeOK
  <1>16. CASE RecordSuccess
    BY <1>16 DEF RecordSuccess, At, JobEnds, Ends, Idle, Resource, Current, Gone, Inv, TypeOK
  <1>17. CASE DeployThrows
    BY <1>17, SpendCounts DEF DeployThrows, At, Goto, Present, Live, Budget, Gone, Inv, TypeOK
  <1>18. CASE CleanUp
    BY <1>18, SpendCounts DEF CleanUp, At, Goto, Budget, Gone, Inv, TypeOK
  <1>19. CASE MarkFailed
    BY <1>19 DEF MarkFailed, At, JobEnds, Ends, Idle, Gone, Inv, TypeOK
  <1>20. CASE TakeStop
    BY <1>20 DEF TakeStop, Take, Idle, Gone, Inv, TypeOK
  <1>21. CASE StopContainer
    BY <1>21, SpendCounts DEF StopContainer, At, Goto, Present, Budget, Gone, Inv, TypeOK
  <1>22. CASE StopRoute
    BY <1>22, SpendCounts DEF StopRoute, At, Goto, DeleteRoute, Budget, Gone, Inv, TypeOK
  <1>23. CASE RecordStop
    BY <1>23 DEF RecordStop, At, JobEnds, Idle, Resource, Gone, Inv, TypeOK
  <1>24. CASE TakeRemove
    BY <1>24 DEF TakeRemove, Take, Idle, Resource, Gone, Inv, TypeOK
  <1>25. CASE RemoveContainer
    BY <1>25, SpendCounts DEF RemoveContainer, At, Goto, Budget, Gone, Inv, TypeOK
  <1>26. CASE RemoveStrays
    BY <1>26, SpendCounts DEF RemoveStrays, At, Goto, Budget, Gone, Inv, TypeOK
  <1>27. CASE RemoveRoute
    BY <1>27, SpendCounts DEF RemoveRoute, At, Goto, DeleteRoute, Budget, Gone, Inv, TypeOK
  <1>28. CASE DeleteRow
    BY <1>28 DEF DeleteRow, At, JobEnds, Idle, Resource, Gone, Inv, TypeOK
  <1>29. CASE LookAtRoutes
    BY <1>29 DEF LookAtRoutes, Take, Idle, Wanted, Gone, Inv, TypeOK
  <1>30. CASE SyncRoute
    BY <1>30, SpendCounts DEF SyncRoute, At, JobEnds, Idle, Live, Budget, Gone, Inv, TypeOK
  <1>31. CASE SweepStaleRoute
    BY <1>31, SpendCounts DEF SweepStaleRoute, At, JobEnds, Idle, Budget, Gone, Inv, TypeOK
  <1>32. CASE ListContainers
    BY <1>32 DEF ListContainers, Listing, Gone, Inv, TypeOK
  <1>33. CASE PlanRedeploy
    BY <1>33 DEF PlanRedeploy, Planned, EnqueueDeploy, CreateDeployment, Ticking, Gone, Inv,
       TypeOK
  <1>34. CASE SweepOrphans
    BY <1>34, SpendCounts DEF SweepOrphans, Ticking, Resting, Budget, Gone, Inv, TypeOK
  <1>35. CASE InspectChosen
    BY <1>35, SpendCounts DEF InspectChosen, Present, Ticking, Resting, Budget, Gone, Inv, TypeOK
  <1>36. CASE Repoint
    BY <1>36 DEF Repoint, Resource, Ticking, Resting, Gone, Inv, TypeOK
  <1>37. CASE BackoffPasses
    BY <1>37 DEF BackoffPasses, Gone, Inv, TypeOK
  <1>38. CASE Crash
    BY <1>38, SpendCounts DEF Crash, Idle, Resting, Budget, Gone, Inv, TypeOK
  <1>39. CASE Boot
    BY <1>39, SpendCounts DEF Boot, Listing, Budget, Gone, Inv, TypeOK
  <1>40. CASE Serve
    BY <1>40 DEF Serve, Gone, Inv, TypeOK
  <1>41. CASE RemovedByHand
    BY <1>41, SpendCounts DEF RemovedByHand, Present, Budget, Gone, Inv, TypeOK
  <1>42. CASE DeployLost
    BY <1>42, SpendCounts DEF DeployLost, EnqueueLost, CreateDeployment, Serving, Budget, Gone,
       Inv, TypeOK
  <1>43. CASE PlanLost
    BY <1>43, SpendCounts DEF PlanLost, EnqueueLost, CreateDeployment, Ticking, Budget, Resting,
       Gone, Inv, TypeOK
  <1>44. CASE HourPasses
    BY <1>44, SpendCounts DEF HourPasses, Budget, Gone, Inv, TypeOK
    <1> QED BY <1>1, <1>2, <1>3, <1>4, <1>5, <1>6, <1>7, <1>8, <1>9, <1>10, <1>11, <1>12, <1>13,
       <1>14, <1>15, <1>16, <1>17, <1>18, <1>19, <1>20, <1>21, <1>22, <1>23, <1>24, <1>25, <1>26,
       <1>27, <1>28, <1>29, <1>30, <1>31, <1>32, <1>33, <1>34, <1>35, <1>36, <1>37, <1>38, <1>39,
       <1>40, <1>41, <1>42, <1>43, <1>44
    DEF Next, Request, Work, Deploying, Stopping, Removing, Syncing, Reconciling

\* Once a deleted resource's row is gone, nothing of it is left: no container,
\* kept, crashed or stray, and no route (runRemove in jobs/index.ts), unless a
\* call to Docker or the proxy failed.
THEOREM RemovalLeavesNothing == Spec => []RemovedMeansGone
  <1>1. Init => Gone
    BY DEF Init, Gone, Idle
  <1>2. Inv /\ Gone /\ [Next]_vars => Gone'
    BY GoneStep DEF vars, Gone
  <1>3. Gone => RemovedMeansGone
    BY DEF Gone, RemovedMeansGone, Without, Present
  <1> QED BY <1>1, <1>2, <1>3, AlwaysInv, PTL DEF Spec

-----------------------------------------------------------------------------
(* How many containers there are.                                          *)

\* What is unspent after a step was unspent before it.
LEMMA SpentStays ==
  ASSUME Inv, Next, NEW b \in Budget, spent'[b] = 0
  PROVE  spent[b] = 0
  <1>1. CASE Crash
    BY <1>1, SpendCounts DEF Crash, Inv, TypeOK, Budget
  <1>2. CASE ~Crash
    <2> SUFFICES spent' = spent \/ \E c \in Budget : spent' = [spent EXCEPT ![c] = @ + 1]
      BY DEF Inv, TypeOK
    <2>1. CASE Request
      BY <2>1 DEF Request, Deploy, Rollback, DeployLost, EnqueueLost, Stop, Remove, SaveSettings,
         Spend, Budget
    <2>2. CASE Deploying
      BY <2>2 DEF Deploying, TakeDeploy, NoteOutgoing, ReclaimStrays, CreateContainer,
         StartContainer, PassHealthGate, SwitchRoute, SwitchFails, RetireOld, RecordSuccess,
         DeployThrows, CleanUp, MarkFailed, Spend, Budget
    <2>3. CASE Stopping \/ Removing \/ Syncing \/ SkipJob
      BY <2>3 DEF Stopping, Removing, Syncing, TakeStop, StopContainer, StopRoute, RecordStop,
         TakeRemove, RemoveContainer, RemoveStrays, RemoveRoute, DeleteRow, LookAtRoutes,
         SyncRoute, SweepStaleRoute, SkipJob, DeleteRoute, Spend, Budget
    <2>4. CASE Reconciling
      BY <2>4 DEF Reconciling, ListContainers, PlanRedeploy, SweepOrphans, InspectChosen,
         Repoint, Spend, Budget
    <2>5. CASE HourPasses
      BY <2>5 DEF HourPasses, Spend, Budget
    <2>6. CASE PlanLost \/ BackoffPasses \/ Boot \/ Serve \/ RemovedByHand
      BY <2>6 DEF PlanLost, EnqueueLost, BackoffPasses, Boot, Serve, RemovedByHand, Spend, Budget
    <2> QED BY <1>2, <2>1, <2>2, <2>3, <2>4, <2>5, <2>6 DEF Next, Work
  <1> QED BY <1>1, <1>2

\* Only a deploy's create makes a container, the one of its own deployment.
LEMMA ContainerSteps ==
  ASSUME Inv, Next, NEW d \in DeployId, containers'[d] # "none", containers[d] = "none"
  PROVE  CreateContainer /\ d = current
  <1>1. containers \in [DeployId -> {"none", "still", "running"}]
    BY DEF Inv, TypeOK
  <1>2. CASE CreateContainer
    BY <1>1, <1>2 DEF CreateContainer
  <1>3. CASE StartContainer
    BY <1>1, <1>3 DEF StartContainer, Present
  <1>4. CASE ReclaimStrays \/ RetireOld \/ CleanUp
    BY <1>1, <1>4 DEF ReclaimStrays, RetireOld, CleanUp
  <1>5. CASE StopContainer
    BY <1>1, <1>5 DEF StopContainer, Present
  <1>6. CASE RemoveContainer \/ RemoveStrays \/ SweepOrphans \/ RemovedByHand
    BY <1>1, <1>6 DEF RemoveContainer, RemoveStrays, SweepOrphans, RemovedByHand
  <1>7. CASE Deploying
             /\ ~(CreateContainer \/ StartContainer \/ ReclaimStrays \/ RetireOld \/ CleanUp)
    BY <1>7 DEF Deploying, TakeDeploy, NoteOutgoing, PassHealthGate, SwitchRoute, SwitchFails,
       RecordSuccess, DeployThrows, MarkFailed
  <1>8. CASE (Stopping \/ Removing \/ Syncing \/ SkipJob)
             /\ ~(StopContainer \/ RemoveContainer \/ RemoveStrays)
    BY <1>8 DEF Stopping, Removing, Syncing, SkipJob, TakeStop, StopRoute, RecordStop,
       TakeRemove, RemoveRoute, DeleteRow, DeleteRoute, LookAtRoutes, SyncRoute, SweepStaleRoute
  <1>9. CASE Request \/ (Reconciling /\ ~SweepOrphans) \/ PlanLost \/ HourPasses
             \/ BackoffPasses \/ Crash \/ Boot \/ Serve
    BY <1>9 DEF Request, Deploy, Rollback, DeployLost, Stop, Remove, SaveSettings, Reconciling,
       ListContainers, PlanRedeploy, PlanLost, InspectChosen, Repoint, HourPasses,
       BackoffPasses, Crash, Boot, Serve
  <1> QED BY <1>2, <1>3, <1>4, <1>5, <1>6, <1>7, <1>8, <1>9 DEF Next, Work

\* Only ReclaimStrays brings a deploy to where it creates its container.
LEMMA ReclaimedSteps ==
  ASSUME Inv, Next, worker'.pc = "reclaimed"
  PROVE  ReclaimStrays \/ worker' = worker
  <1>1. CASE Request
    BY <1>1 DEF Request, Deploy, Rollback, DeployLost, Stop, Remove, SaveSettings, Inv, TypeOK
  <1>2. CASE TakeDeploy
    BY <1>2 DEF TakeDeploy, Take, Idle, Inv, TypeOK
  <1>3. CASE NoteOutgoing
    BY <1>3 DEF NoteOutgoing, At, Inv, TypeOK
  <1>4. CASE ReclaimStrays
    BY <1>4 DEF ReclaimStrays, At, Goto, Inv, TypeOK
  <1>5. CASE CreateContainer
    BY <1>5 DEF CreateContainer, At, Inv, TypeOK
  <1>6. CASE StartContainer
    BY <1>6 DEF StartContainer, At, Goto, Inv, TypeOK
  <1>7. CASE PassHealthGate
    BY <1>7 DEF PassHealthGate, At, Goto, Inv, TypeOK
  <1>8. CASE SwitchRoute
    BY <1>8 DEF SwitchRoute, At, Inv, TypeOK
  <1>9. CASE SwitchFails
    BY <1>9 DEF SwitchFails, At, Inv, TypeOK
  <1>10. CASE RetireOld
    BY <1>10 DEF RetireOld, At, Goto, Inv, TypeOK
  <1>11. CASE RecordSuccess
    BY <1>11 DEF RecordSuccess, At, JobEnds, Idle, Inv, TypeOK
  <1>12. CASE DeployThrows
    BY <1>12 DEF DeployThrows, At, Goto, Inv, TypeOK
  <1>13. CASE CleanUp
    BY <1>13 DEF CleanUp, At, Goto, Inv, TypeOK
  <1>14. CASE MarkFailed
    BY <1>14 DEF MarkFailed, At, JobEnds, Idle, Inv, TypeOK
  <1>15. CASE TakeStop
    BY <1>15 DEF TakeStop, Take, Idle, Inv, TypeOK
  <1>16. CASE StopContainer
    BY <1>16 DEF StopContainer, At, Goto, Inv, TypeOK
  <1>17. CASE StopRoute
    BY <1>17 DEF StopRoute, At, Goto, DeleteRoute, Inv, TypeOK
  <1>18. CASE RecordStop
    BY <1>18 DEF RecordStop, At, JobEnds, Idle, Inv, TypeOK
  <1>19. CASE TakeRemove
    BY <1>19 DEF TakeRemove, Take, Idle, Inv, TypeOK
  <1>20. CASE RemoveContainer
    BY <1>20 DEF RemoveContainer, At, Goto, Inv, TypeOK
  <1>21. CASE RemoveStrays
    BY <1>21 DEF RemoveStrays, At, Goto, Inv, TypeOK
  <1>22. CASE RemoveRoute
    BY <1>22 DEF RemoveRoute, At, Goto, DeleteRoute, Inv, TypeOK
  <1>23. CASE DeleteRow
    BY <1>23 DEF DeleteRow, At, JobEnds, Idle, Inv, TypeOK
  <1>24. CASE LookAtRoutes
    BY <1>24 DEF LookAtRoutes, Take, Idle, Inv, TypeOK
  <1>25. CASE SyncRoute
    BY <1>25 DEF SyncRoute, At, JobEnds, Idle, Inv, TypeOK
  <1>26. CASE SweepStaleRoute
    BY <1>26 DEF SweepStaleRoute, At, JobEnds, Idle, Inv, TypeOK
  <1>27. CASE SkipJob
    BY <1>27 DEF SkipJob, Take, Inv, TypeOK
  <1>28. CASE Reconciling
    BY <1>28 DEF Reconciling, ListContainers, PlanRedeploy, SweepOrphans, InspectChosen,
       Repoint, Inv, TypeOK
  <1>29. CASE PlanLost \/ HourPasses \/ BackoffPasses \/ Crash \/ Boot \/ Serve
         \/ RemovedByHand
    BY <1>29 DEF PlanLost, HourPasses, BackoffPasses, Crash, Boot, Serve, RemovedByHand, Idle,
       Inv, TypeOK
  <1> QED BY <1>1, <1>2, <1>3, <1>4, <1>5, <1>6, <1>7, <1>8, <1>9, <1>10, <1>11, <1>12, <1>13,
     <1>14, <1>15, <1>16, <1>17, <1>18, <1>19, <1>20, <1>21, <1>22, <1>23, <1>24, <1>25, <1>26,
     <1>27, <1>28, <1>29 DEF Next, Work, Deploying, Stopping, Removing, Syncing

\* Of a resource at most two containers are present, and where a deploy creates
\* its own only the one the row named, unless Docker failed a call.
Two ==
  spent["docker"] = 0 =>
    /\ \E a, b \in DeployId \cup {None} : \A d \in DeployId : containers[d] # "none" => d \in
       {a, b}
    /\ worker.pc = "reclaimed" => \A d \in DeployId : containers[d] # "none" => d = worker.old

LEMMA TwoStep == Inv /\ Two /\ Next => Two'
  <1> SUFFICES ASSUME Inv, Two, Next, spent'["docker"] = 0
               PROVE  /\ \E a, b \in DeployId \cup {None} :
                           \A d \in DeployId : containers'[d] # "none" => d \in {a, b}
                      /\ worker'.pc = "reclaimed" =>
                           \A d \in DeployId : containers'[d] # "none" => d = worker'.old
    BY DEF Two
  <1>1. spent["docker"] = 0
    BY SpentStays DEF Budget
  <1>2. \E a, b \in DeployId \cup {None} : \A d \in DeployId : containers'[d] # "none" => d \in
     {a, b}
    <2>1. CASE CreateContainer
      <3>1. worker.old \in DeployId \cup {None} /\ current \in DeployId
        BY <2>1, CurrentRow DEF CreateContainer, At, DeployPc, Inv, TypeOK
      <3>2. \A d \in DeployId : containers'[d] # "none" => d \in {worker.old, current}
        BY <1>1, <2>1, ContainerSteps DEF CreateContainer, At, Two
      <3> QED BY <3>1, <3>2
    <2>2. CASE ~CreateContainer
      <3>1. \A d \in DeployId : containers'[d] # "none" => containers[d] # "none"
        BY <2>2, ContainerSteps
      <3> QED BY <1>1, <3>1 DEF Two
    <2> QED BY <2>1, <2>2
  <1>3. ASSUME worker'.pc = "reclaimed", NEW d \in DeployId, containers'[d] # "none"
        PROVE  d = worker'.old
    <2>1. CASE ReclaimStrays
      <3>1. spent' = spent
        BY <2>1, SpendCounts DEF ReclaimStrays, Inv, TypeOK, Budget
      <3>2. spent["docker"] # spent["docker"] + 1
        BY DEF Inv, TypeOK, Budget
      <3>3. containers' = [e \in DeployId |-> IF e = worker.old THEN containers[e] ELSE "none"]
        BY <2>1, <3>1, <3>2 DEF ReclaimStrays, Spend, Inv, TypeOK, Budget
      <3>4. worker'.old = worker.old
        BY <2>1 DEF ReclaimStrays, Goto, Inv, TypeOK
      <3> QED BY <1>3, <3>3, <3>4
    <2>2. CASE worker' = worker
      <3>1. ~CreateContainer
        BY <1>3 DEF CreateContainer, Inv, TypeOK
      <3>2. containers[d] # "none"
        BY <1>3, <3>1, ContainerSteps
      <3> QED BY <1>1, <1>3, <2>2, <3>2 DEF Two
    <2> QED BY <1>3, <2>1, <2>2, ReclaimedSteps
  <1> QED BY <1>2, <1>3

LEMMA PairIsSmall ==
  ASSUME NEW a, NEW b, NEW S \in SUBSET {a, b}
  PROVE  Cardinality(S) <= 2
  <1>1. IsFiniteSet({a}) /\ Cardinality({a}) = 1
    BY FS_Singleton
  <1>2. IsFiniteSet({a} \cup {b}) /\ Cardinality({a} \cup {b}) <= 2
    BY <1>1, FS_AddElement
  <1>3. {a, b} = {a} \cup {b}
    OBVIOUS
  <1>4. /\ Cardinality(S) <= Cardinality({a, b})
        /\ Cardinality(S) \in Nat
        /\ Cardinality({a, b}) \in Nat
    BY <1>2, <1>3, FS_Subset, FS_CardinalityType
  <1> QED BY <1>2, <1>3, <1>4

\* However deploys fail, crash and are run again, a resource never has more than
\* two containers, the one its row names and the one being tried (reclaimStrays
\* and the clean-up in jobs/deploy.ts), unless a call to Docker failed.
THEOREM NeverThree == Spec => []AtMostTwo
  <1>1. Init => Two
    BY DEF Init, Two, Idle
  <1>2. Inv /\ Two /\ [Next]_vars => Two'
    BY TwoStep DEF vars, Two
  <1>3. Inv /\ Two => AtMostTwo
    <2> SUFFICES ASSUME Inv, Two, spent["docker"] = 0 PROVE Cardinality(Present) <= 2
      BY DEF Inv, AtMostTwo, Without
    <2>1. PICK a, b \in DeployId \cup {None} :
            \A d \in DeployId : containers[d] # "none" => d \in {a, b}
      BY DEF Two
    <2>2. Present \in SUBSET {a, b}
      BY <2>1 DEF Present
    <2> QED BY <2>2, PairIsSmall
  <1> QED BY <1>1, <1>2, <1>3, AlwaysInv, PTL DEF Spec

-----------------------------------------------------------------------------
(* What the route dials.                                                   *)

\* A deploy in hand works on the container named after its deployment, no two
\* queued deploys are of one deployment, and the route is of a known one.
OwnContainer ==
  /\ worker.pc \in DeployPc => worker.new \in {None, current}
  /\ \A i, j \in 1..Len(queue) :
       queue[i].kind = "deploy" /\ queue[j].kind = "deploy" /\ queue[i].id = queue[j].id => i = j
  /\ route # None => route <= Len(deployments)

Early == {"idle", "asked", "running", "reclaimed"}

\* Without a crash a deploy not begun, or not yet at its container, has none and
\* is not routed.
NotBegun ==
  spent["crashes"] = 0 =>
    \A i \in 1..Len(queue) :
      queue[i].kind = "deploy" /\ (i > 1 \/ worker.pc \in Early)
        => containers[queue[i].id] = "none" /\ route # queue[i].id

\* With no crash and every Docker call answered, what runs has passed the gate,
\* but for the container the deploy in hand is trying.
Gated ==
  spent["crashes"] = 0 /\ spent["docker"] = 0 =>
    /\ \A d \in DeployId : containers[d] = "running" =>
         \/ d \in gated
         \/ worker.pc \in {"started", "threw"} /\ ~worker.switching /\ d = worker.new
    /\ worker.pc = "healthy" => worker.new \in gated
    /\ worker.pc \in Early \cup {"created", "started", "healthy"} => ~worker.switching
    /\ route # None => route \in gated

LEMMA AfterHead ==
  ASSUME Inv, queue # << >>, queue' = Tail(queue)
  PROVE  /\ \A i \in 1..Len(queue') : i + 1 \in 1..Len(queue) /\ i + 1 > 1 /\ queue'[i] = queue[i + 1]
  <1>1. queue \in Seq(Job)
    BY DEF Inv, TypeOK
  <1>2. /\ Len(queue') = Len(queue) - 1 /\ Len(queue) \in Nat
        /\ \A i \in 1..Len(queue') : queue'[i] = queue[i + 1]
    BY <1>1, HeadTailProperties
  <1> QED BY <1>2

LEMMA AfterAsking ==
  ASSUME Inv, NEW job, queue' = Append(queue, job)
  PROVE  \A i \in 1..Len(queue') :
           \/ i \in 1..Len(queue) /\ queue'[i] = queue[i]
           \/ i = Len(queue) + 1 /\ queue'[i] = job
  BY DEF Inv, TypeOK

\* A step leaves the queue, takes the head of a job that is over, or adds a job.
LEMMA QueueSteps ==
  ASSUME Inv, Next
  PROVE  \/ UNCHANGED queue
         \/ queue # << >> /\ queue' = Tail(queue) /\ worker'.pc = "idle"
         \/ /\ UNCHANGED <<worker, containers, route>>
            /\ \E job : /\ queue' = Append(queue, job)
                        /\ job.kind = "deploy" => job.id = Len(deployments) + 1
  <1>1. CASE Deploy \/ Rollback \/ PlanRedeploy
    <2>1. ASSUME NEW image, NEW trigger, EnqueueDeploy(image, trigger)
          PROVE  \E job : /\ queue' = Append(queue, job)
                          /\ job.kind = "deploy" => job.id = Len(deployments) + 1
      <3> DEFINE job == [kind |-> "deploy", id |-> Len(deployments) + 1]
      <3>1. queue' = Append(queue, job) /\ job.id = Len(deployments) + 1
        BY <2>1 DEF EnqueueDeploy
      <3> HIDE DEF job
      <3> QED BY <3>1
    <2> QED BY <1>1, <2>1 DEF Deploy, Rollback, PlanRedeploy
  <1>2. CASE Stop \/ Remove \/ SaveSettings
    <2>1. ASSUME NEW kind \in {"stop", "remove", "sync"},
                 queue' = Append(queue, [kind |-> kind, id |-> None])
          PROVE  \E job : /\ queue' = Append(queue, job)
                          /\ job.kind = "deploy" => job.id = Len(deployments) + 1
      <3> DEFINE job == [kind |-> kind, id |-> None]
      <3>1. queue' = Append(queue, job) /\ job.kind # "deploy"
        BY <2>1
      <3> HIDE DEF job
      <3> QED BY <3>1
    <2> QED BY <1>2, <2>1 DEF Stop, Remove, SaveSettings
  <1>3. CASE RecordSuccess \/ MarkFailed \/ RecordStop \/ DeleteRow \/ SyncRoute \/
     SweepStaleRoute
    BY <1>3 DEF RecordSuccess, MarkFailed, RecordStop, DeleteRow, SyncRoute, SweepStaleRoute,
       JobEnds, At, Idle, Inv, JobInHand
  <1>4. CASE SkipJob
    BY <1>4, Rests DEF SkipJob, Take
  <1>5. CASE Deploying /\ ~RecordSuccess /\ ~MarkFailed
    BY <1>5 DEF Deploying, TakeDeploy, NoteOutgoing, ReclaimStrays, CreateContainer,
       StartContainer, PassHealthGate, SwitchRoute, SwitchFails, RetireOld, DeployThrows,
       CleanUp
  <1>6. CASE TakeStop \/ StopContainer \/ StopRoute \/ TakeRemove \/ RemoveContainer \/
     RemoveStrays
             \/ RemoveRoute \/ LookAtRoutes
    BY <1>6 DEF TakeStop, StopContainer, StopRoute, TakeRemove, RemoveContainer, RemoveStrays,
       RemoveRoute, LookAtRoutes, DeleteRoute
  <1>7. CASE ListContainers \/ SweepOrphans \/ InspectChosen \/ Repoint \/ DeployLost
             \/ PlanLost \/ HourPasses \/ BackoffPasses \/ Crash \/ Boot \/ Serve
             \/ RemovedByHand
    BY <1>7 DEF ListContainers, SweepOrphans, InspectChosen, Repoint, DeployLost, EnqueueLost,
       PlanLost, HourPasses, BackoffPasses, Crash, Boot, Serve, RemovedByHand
  <1> QED BY <1>1, <1>2, <1>3, <1>4, <1>5, <1>6, <1>7
          DEF Next, Request, Work, Deploying, Stopping, Removing, Syncing, Reconciling

\* What is queued keeps its deployment, whatever is asked for and done.
LEMMA DistinctStep ==
  ASSUME Inv, OwnContainer, Next
  PROVE  \A i, j \in 1..Len(queue') :
           queue'[i].kind = "deploy" /\ queue'[j].kind = "deploy" /\ queue'[i].id = queue'[j].id
             => i = j
  <1>1. CASE UNCHANGED queue
    BY <1>1 DEF OwnContainer
  <1>2. CASE queue # << >> /\ queue' = Tail(queue)
    <2>1. \A i \in 1..Len(queue') : i + 1 \in 1..Len(queue) /\ queue'[i] = queue[i + 1]
      BY <1>2, AfterHead
    <2> SUFFICES ASSUME NEW i \in 1..Len(queue'), NEW j \in 1..Len(queue'),
                        queue'[i].kind = "deploy", queue'[j].kind = "deploy",
                        queue'[i].id = queue'[j].id
                 PROVE  i = j
      OBVIOUS
    <2>2. i + 1 = j + 1
      BY <2>1 DEF OwnContainer
    <2> QED BY <2>2
  <1>3. CASE \E job : /\ queue' = Append(queue, job)
                      /\ job.kind = "deploy" => job.id = Len(deployments) + 1
    <2>1. PICK job : /\ queue' = Append(queue, job)
                     /\ job.kind = "deploy" => job.id = Len(deployments) + 1
      BY <1>3
    <2>2. \A i \in 1..Len(queue') :
            \/ i \in 1..Len(queue) /\ queue'[i] = queue[i]
            \/ i = Len(queue) + 1 /\ queue'[i] = job
      BY <2>1, AfterAsking
    <2>3. /\ Len(deployments) \in Nat
          /\ \A i \in 1..Len(queue) : queue[i].kind = "deploy" =>
               queue[i].id \in Int /\ queue[i].id <= Len(deployments)
      BY BoundsAssumption DEF Inv, TypeOK, RowsExist, Job, DeployId, None
    <2> QED BY <2>1, <2>2, <2>3 DEF OwnContainer
  <1> QED BY <1>1, <1>2, <1>3, QueueSteps

\* Adding a job or going on, a handler keeps its job in hand.
LEMMA HandStays ==
  ASSUME Inv, Next, worker.pc # "idle", worker'.pc # "idle"
  PROVE  Head(queue') = Head(queue)
  <1>1. queue # << >> /\ queue \in Seq(Job)
    BY DEF Inv, TypeOK, JobInHand
  <1>2. CASE \E job : queue' = Append(queue, job)
    BY <1>1, <1>2, HeadTailAppend
  <1> QED BY <1>2, QueueSteps

\* A deploy's container is none at first, then the one it creates.
LEMMA NewSteps ==
  ASSUME Inv, Next, worker'.pc \in DeployPc
  PROVE  \/ worker'.new = None
         \/ CreateContainer /\ worker'.new = current
         \/ worker.pc \in DeployPc /\ worker'.new = worker.new
  <1>1. CASE Request
    BY <1>1 DEF Request, Deploy, Rollback, DeployLost, Stop, Remove, SaveSettings, DeployPc, Inv,
       TypeOK
  <1>2. CASE TakeDeploy
    BY <1>2 DEF TakeDeploy, Take, Idle, DeployPc, Inv, TypeOK
  <1>3. CASE NoteOutgoing
    BY <1>3 DEF NoteOutgoing, At, DeployPc, Inv, TypeOK
  <1>4. CASE ReclaimStrays
    BY <1>4 DEF ReclaimStrays, At, Goto, DeployPc, Inv, TypeOK
  <1>5. CASE CreateContainer
    BY <1>5 DEF CreateContainer, At, DeployPc, Inv, TypeOK
  <1>6. CASE StartContainer
    BY <1>6 DEF StartContainer, At, Goto, DeployPc, Inv, TypeOK
  <1>7. CASE PassHealthGate
    BY <1>7 DEF PassHealthGate, At, Goto, DeployPc, Inv, TypeOK
  <1>8. CASE SwitchRoute
    BY <1>8 DEF SwitchRoute, At, DeployPc, Inv, TypeOK
  <1>9. CASE SwitchFails
    BY <1>9 DEF SwitchFails, At, DeployPc, Inv, TypeOK
  <1>10. CASE RetireOld
    BY <1>10 DEF RetireOld, At, Goto, DeployPc, Inv, TypeOK
  <1>11. CASE RecordSuccess
    BY <1>11 DEF RecordSuccess, At, JobEnds, Idle, DeployPc, Inv, TypeOK
  <1>12. CASE DeployThrows
    BY <1>12 DEF DeployThrows, At, Goto, DeployPc, Inv, TypeOK
  <1>13. CASE CleanUp
    BY <1>13 DEF CleanUp, At, Goto, DeployPc, Inv, TypeOK
  <1>14. CASE MarkFailed
    BY <1>14 DEF MarkFailed, At, JobEnds, Idle, DeployPc, Inv, TypeOK
  <1>15. CASE TakeStop
    BY <1>15 DEF TakeStop, Take, Idle, DeployPc, Inv, TypeOK
  <1>16. CASE StopContainer
    BY <1>16 DEF StopContainer, At, Goto, DeployPc, Inv, TypeOK
  <1>17. CASE StopRoute
    BY <1>17 DEF StopRoute, At, Goto, DeleteRoute, DeployPc, Inv, TypeOK
  <1>18. CASE RecordStop
    BY <1>18 DEF RecordStop, At, JobEnds, Idle, DeployPc, Inv, TypeOK
  <1>19. CASE TakeRemove
    BY <1>19 DEF TakeRemove, Take, Idle, DeployPc, Inv, TypeOK
  <1>20. CASE RemoveContainer
    BY <1>20 DEF RemoveContainer, At, Goto, DeployPc, Inv, TypeOK
  <1>21. CASE RemoveStrays
    BY <1>21 DEF RemoveStrays, At, Goto, DeployPc, Inv, TypeOK
  <1>22. CASE RemoveRoute
    BY <1>22 DEF RemoveRoute, At, Goto, DeleteRoute, DeployPc, Inv, TypeOK
  <1>23. CASE DeleteRow
    BY <1>23 DEF DeleteRow, At, JobEnds, Idle, DeployPc, Inv, TypeOK
  <1>24. CASE LookAtRoutes
    BY <1>24 DEF LookAtRoutes, Take, Idle, DeployPc, Inv, TypeOK
  <1>25. CASE SyncRoute
    BY <1>25 DEF SyncRoute, At, JobEnds, Idle, DeployPc, Inv, TypeOK
  <1>26. CASE SweepStaleRoute
    BY <1>26 DEF SweepStaleRoute, At, JobEnds, Idle, DeployPc, Inv, TypeOK
  <1>27. CASE SkipJob
    BY <1>27 DEF SkipJob, Take, DeployPc, Inv, TypeOK
  <1>28. CASE Reconciling
    BY <1>28 DEF Reconciling, ListContainers, PlanRedeploy, SweepOrphans, InspectChosen,
       Repoint, DeployPc, Inv, TypeOK
  <1>29. CASE PlanLost \/ HourPasses \/ BackoffPasses \/ Crash \/ Boot \/ Serve
         \/ RemovedByHand
    BY <1>29 DEF PlanLost, HourPasses, BackoffPasses, Crash, Boot, Serve, RemovedByHand, Idle,
       DeployPc, Inv, TypeOK
  <1> QED BY <1>1, <1>2, <1>3, <1>4, <1>5, <1>6, <1>7, <1>8, <1>9, <1>10, <1>11, <1>12, <1>13,
     <1>14, <1>15, <1>16, <1>17, <1>18, <1>19, <1>20, <1>21, <1>22, <1>23, <1>24, <1>25, <1>26,
     <1>27, <1>28, <1>29 DEF Next, Work, Deploying, Stopping, Removing, Syncing

\* A step keeps the route, deletes it, switches it to the container in hand, or
\* dials a running one.
LEMMA RouteSteps ==
  ASSUME Next
  PROVE  \/ route' \in {route, None}
         \/ SwitchRoute /\ route' = worker.new
         \/ route' \in Live
  <1>1. CASE SwitchRoute
    BY <1>1 DEF SwitchRoute
  <1>2. CASE SyncRoute
    BY <1>2 DEF SyncRoute
  <1>3. CASE StopRoute \/ RemoveRoute \/ SweepStaleRoute
    BY <1>3 DEF StopRoute, RemoveRoute, DeleteRoute, SweepStaleRoute
  <1>4. CASE Deploying /\ ~SwitchRoute
    BY <1>4 DEF Deploying, TakeDeploy, NoteOutgoing, ReclaimStrays, CreateContainer,
       StartContainer, PassHealthGate, SwitchFails, RetireOld, RecordSuccess, DeployThrows,
       CleanUp, MarkFailed
  <1>5. CASE (Stopping \/ Removing \/ Syncing \/ SkipJob)
             /\ ~(SyncRoute \/ StopRoute \/ RemoveRoute \/ SweepStaleRoute)
    BY <1>5 DEF Stopping, Removing, Syncing, SkipJob, TakeStop, StopContainer, RecordStop,
       TakeRemove, RemoveContainer, RemoveStrays, DeleteRow, LookAtRoutes
  <1>6. CASE Request \/ Reconciling \/ PlanLost \/ HourPasses \/ BackoffPasses \/ Crash
             \/ Boot \/ Serve \/ RemovedByHand
    BY <1>6 DEF Request, Deploy, Rollback, DeployLost, Stop, Remove, SaveSettings, Reconciling,
       ListContainers, PlanRedeploy, PlanLost, SweepOrphans, InspectChosen, Repoint,
       HourPasses, BackoffPasses, Crash, Boot, Serve, RemovedByHand
  <1> QED BY <1>1, <1>2, <1>3, <1>4, <1>5, <1>6 DEF Next, Work

LEMMA LenGrows ==
  ASSUME Inv, Next
  PROVE  /\ Len(deployments) \in Nat
         /\ Len(deployments') \in Nat
         /\ Len(deployments) <= Len(deployments')
  <1>1. Len(deployments) \in Nat
    BY DEF Inv, TypeOK
  <1>2. Inv'
    BY NextInv
  <1>3. Len(deployments') \in Nat
    BY <1>2 DEF Inv, TypeOK
  <1>4. CASE Deploy \/ Rollback \/ DeployLost \/ PlanLost
             \/ (PlanRedeploy /\ deployments' # deployments)
    <2>1. PICK image \in Image, trigger \in {"manual", "rollback", "reconcile"} :
            CreateDeployment(image, trigger)
      BY <1>4 DEF Deploy, Rollback, DeployLost, PlanLost, PlanRedeploy, EnqueueDeploy,
         EnqueueLost, Inv, TypeOK, Resource
    <2> QED BY <2>1, <1>1, RowCreated
  <1>5. CASE ~(Deploy \/ Rollback \/ DeployLost \/ PlanLost \/ PlanRedeploy)
    <2>1. CASE Stop \/ Remove \/ SaveSettings
      <3>1. deployments' = deployments
        BY <2>1 DEF Stop, Remove, SaveSettings
      <3> QED BY <3>1, <1>1
    <2>2. CASE ~(Stop \/ Remove \/ SaveSettings)
      BY <1>5, <2>2, <1>1, OthersAddNone DEF Next, Request
    <2> QED BY <2>1, <2>2
  <1>6. CASE deployments' = deployments
    BY <1>1, <1>6
  <1> QED BY <1>1, <1>3, <1>4, <1>5, <1>6

LEMMA OwnStep == Inv /\ OwnContainer /\ Next => OwnContainer'
  <1> SUFFICES ASSUME Inv, OwnContainer, Next PROVE OwnContainer'
    OBVIOUS
  <1>1. worker'.pc \in DeployPc => worker'.new \in {None, current'}
    <2> SUFFICES ASSUME worker'.pc \in DeployPc PROVE worker'.new \in {None, current'}
      OBVIOUS
    <2>1. worker.pc \in DeployPc => current' = current
      BY HandStays DEF DeployPc, current
    <2>2. CreateContainer => worker.pc \in DeployPc
      BY DEF CreateContainer, At, DeployPc
    <2> QED BY <2>1, <2>2, NewSteps DEF OwnContainer
  <1>2. route' # None => route' <= Len(deployments')
    <2> SUFFICES ASSUME route' # None PROVE route' <= Len(deployments')
      OBVIOUS
    <2>1. CASE route' = route
      BY <2>1, LenGrows DEF OwnContainer, Inv, TypeOK, DeployId, None
    <2>2. CASE SwitchRoute /\ route' = worker.new
      <3>1. worker.pc \in DeployPc
        BY <2>2 DEF SwitchRoute, At, DeployPc
      <3>2. route' = current /\ current \in 1..Len(deployments)
        BY <3>1, <2>2, CurrentRow DEF OwnContainer
      <3> QED BY <3>2, LenGrows
    <2>3. CASE route' \in Live
      <3>1. route' \in DeployId /\ route' <= Len(deployments)
        BY <2>3 DEF Live, Inv, RowsExist
      <3> QED BY <3>1, LenGrows, BoundsAssumption DEF DeployId
    <2> QED BY <2>1, <2>2, <2>3, RouteSteps
  <1> QED BY <1>1, <1>2, DistinctStep DEF OwnContainer

\* Without a crash so far there was none before, and this is none.
LEMMA CrashesCount ==
  ASSUME Inv, Next, spent'["crashes"] = 0
  PROVE  spent["crashes"] = 0 /\ ~Crash
  <1>1. "crashes" \in Budget
    BY DEF Budget
  <1>2. ~Crash
    BY <1>1, SpendCounts DEF Crash, Inv, TypeOK
  <1> QED BY <1>1, <1>2, SpentStays

\* A handler is early on only at its beginning.
LEMMA EarlySteps ==
  ASSUME Inv, Next, worker'.pc \in Early
  PROVE  worker.pc \in Early \/ worker'.pc = "idle"
  <1>1. CASE Request
    BY <1>1 DEF Request, Deploy, Rollback, DeployLost, Stop, Remove, SaveSettings, Early, Inv,
       TypeOK
  <1>2. CASE TakeDeploy
    BY <1>2 DEF TakeDeploy, Take, Idle, Early, Inv, TypeOK
  <1>3. CASE NoteOutgoing
    BY <1>3 DEF NoteOutgoing, At, Early, Inv, TypeOK
  <1>4. CASE ReclaimStrays
    BY <1>4 DEF ReclaimStrays, At, Goto, Early, Inv, TypeOK
  <1>5. CASE CreateContainer
    BY <1>5 DEF CreateContainer, At, Early, Inv, TypeOK
  <1>6. CASE StartContainer
    BY <1>6 DEF StartContainer, At, Goto, Early, Inv, TypeOK
  <1>7. CASE PassHealthGate
    BY <1>7 DEF PassHealthGate, At, Goto, Early, Inv, TypeOK
  <1>8. CASE SwitchRoute
    BY <1>8 DEF SwitchRoute, At, Early, Inv, TypeOK
  <1>9. CASE SwitchFails
    BY <1>9 DEF SwitchFails, At, Early, Inv, TypeOK
  <1>10. CASE RetireOld
    BY <1>10 DEF RetireOld, At, Goto, Early, Inv, TypeOK
  <1>11. CASE RecordSuccess
    BY <1>11 DEF RecordSuccess, At, JobEnds, Idle, Early, Inv, TypeOK
  <1>12. CASE DeployThrows
    BY <1>12 DEF DeployThrows, At, Goto, Early, Inv, TypeOK
  <1>13. CASE CleanUp
    BY <1>13 DEF CleanUp, At, Goto, Early, Inv, TypeOK
  <1>14. CASE MarkFailed
    BY <1>14 DEF MarkFailed, At, JobEnds, Idle, Early, Inv, TypeOK
  <1>15. CASE Stopping \/ Removing \/ Syncing \/ SkipJob
    BY <1>15 DEF Stopping, Removing, Syncing, TakeStop, StopContainer, StopRoute, RecordStop,
       TakeRemove, RemoveContainer, RemoveStrays, RemoveRoute, DeleteRow, LookAtRoutes,
       SyncRoute, SweepStaleRoute, SkipJob, Take, Idle, At, Goto, DeleteRoute, JobEnds, Early,
       Inv, TypeOK
  <1>16. CASE Reconciling
    BY <1>16 DEF Reconciling, ListContainers, PlanRedeploy, SweepOrphans, InspectChosen,
       Repoint, Early, Inv, TypeOK
  <1>17. CASE PlanLost \/ HourPasses \/ BackoffPasses \/ Crash \/ Boot \/ Serve
         \/ RemovedByHand
    BY <1>17 DEF PlanLost, HourPasses, BackoffPasses, Crash, Boot, Serve, RemovedByHand, Idle,
       Early, Inv, TypeOK
  <1> QED BY <1>1, <1>2, <1>3, <1>4, <1>5, <1>6, <1>7, <1>8, <1>9, <1>10, <1>11, <1>12, <1>13,
     <1>14, <1>15, <1>16, <1>17 DEF Next, Work, Deploying

LEMMA TailDiffers == Inv /\ queue # << >> => Tail(queue) # queue
  <1> SUFFICES ASSUME Inv, queue # << >> PROVE Tail(queue) # queue
    OBVIOUS
  <1> DEFINE rest == Tail(queue)
  <1>1. queue \in Seq(Job)
    BY DEF Inv, TypeOK
  <1>2. Len(rest) = Len(queue) - 1
    BY <1>1, HeadTailProperties
  <1>3. Len(queue) \in Nat
    BY <1>1
  <1> HIDE DEF rest
  <1>4. Len(rest) # Len(queue)
    BY <1>2, <1>3
  <1>5. rest # queue
    BY <1>4
  <1> QED BY <1>5 DEF rest

\* A worker goes idle only with the end of its job, or in a crash.
LEMMA IdleSteps ==
  ASSUME Inv, Next, UNCHANGED queue, worker'.pc = "idle", ~Crash
  PROVE  worker.pc = "idle"
  <1>1. CASE Request
    BY <1>1, TailDiffers DEF Request, Deploy, Rollback, DeployLost, Stop, Remove, SaveSettings,
       JobInHand, Inv, TypeOK
  <1>2. CASE Deploying
    BY <1>2, TailDiffers DEF Deploying, TakeDeploy, NoteOutgoing, ReclaimStrays,
       CreateContainer, StartContainer, PassHealthGate, SwitchRoute, SwitchFails, RetireOld,
       RecordSuccess, DeployThrows, CleanUp, MarkFailed, Take, Idle, At, Goto, JobEnds,
       JobInHand, Inv, TypeOK
  <1>3. CASE Stopping \/ Removing \/ Syncing \/ SkipJob
    BY <1>3, TailDiffers DEF Stopping, Removing, Syncing, TakeStop, StopContainer, StopRoute,
       RecordStop, TakeRemove, RemoveContainer, RemoveStrays, RemoveRoute, DeleteRow,
       LookAtRoutes, SyncRoute, SweepStaleRoute, SkipJob, Take, Idle, At, Goto, DeleteRoute,
       JobEnds, JobInHand, Inv, TypeOK
  <1>4. CASE Reconciling
    BY <1>4, TailDiffers DEF Reconciling, ListContainers, PlanRedeploy, SweepOrphans,
       InspectChosen, Repoint, JobInHand, Inv, TypeOK
  <1>5. CASE PlanLost \/ HourPasses \/ BackoffPasses \/ Crash \/ Boot \/ Serve
         \/ RemovedByHand
    BY <1>5, TailDiffers DEF PlanLost, HourPasses, BackoffPasses, Crash, Boot, Serve,
       RemovedByHand, Idle, JobInHand, Inv, TypeOK
  <1> QED BY <1>1, <1>2, <1>3, <1>4, <1>5 DEF Next, Work

\* A step without a crash leaves the deploys not begun where they were.
LEMMA NotBegunStep == Inv /\ OwnContainer /\ NotBegun /\ Next => NotBegun'
  <1> SUFFICES ASSUME Inv, OwnContainer, NotBegun, Next, spent'["crashes"] = 0,
                      NEW i \in 1..Len(queue'), queue'[i].kind = "deploy",
                      i > 1 \/ worker'.pc \in Early
               PROVE  containers'[queue'[i].id] = "none" /\ route' # queue'[i].id
    BY DEF NotBegun
  <1>1. spent["crashes"] = 0 /\ ~Crash
    BY CrashesCount
  <1>2. ASSUME NEW k \in 1..Len(queue), queue'[i] = queue[k],
               k > 1 \/ worker.pc \in Early,
               CreateContainer \/ SwitchRoute => k > 1
        PROVE  containers'[queue'[i].id] = "none" /\ route' # queue'[i].id
    <2> DEFINE id == queue[k].id
    <2>1. containers[id] = "none" /\ route # id
      BY <1>1, <1>2 DEF NotBegun
    <2>2. id \in DeployId /\ id # None
      <3>1. queue[k] \in Job /\ queue[k].kind = "deploy"
        BY <1>2 DEF Inv, TypeOK
      <3> QED BY <3>1, BoundsAssumption DEF Job, DeployId, None
    <2>3. CreateContainer \/ SwitchRoute => id # current
      <3> SUFFICES ASSUME CreateContainer \/ SwitchRoute PROVE id # current
        OBVIOUS
      <3>1. worker.pc \in DeployPc
        BY DEF CreateContainer, SwitchRoute, At, DeployPc
      <3>2. queue \in Seq(Job) /\ queue # << >> /\ Head(queue).kind = "deploy"
        BY <3>1 DEF Inv, TypeOK, JobInHand, DeployPc
      <3>3. 1 \in 1..Len(queue) /\ Head(queue) = queue[1] /\ k # 1
        BY <3>2, <1>2
      <3> QED BY <3>2, <3>3, <1>2 DEF OwnContainer, current
    <2>4. containers'[id] = "none"
      BY <2>1, <2>2, <2>3, ContainerSteps
    <2>5. route' # id
      <3>1. SwitchRoute => worker.new # id
        BY <2>2, <2>3 DEF OwnContainer, SwitchRoute, At, DeployPc
      <3>2. id \notin Live
        BY <2>1 DEF Live
      <3> QED BY <3>1, <3>2, <2>1, <2>2, RouteSteps
    <2> QED BY <2>4, <2>5, <1>2
  <1>3. CreateContainer \/ SwitchRoute => UNCHANGED queue /\ worker'.pc \notin Early
    BY DEF CreateContainer, SwitchRoute, Early, Inv, TypeOK
  <1>4. CASE UNCHANGED queue
    <2>1. worker'.pc \in Early => worker.pc \in Early \/ worker'.pc = "idle"
      BY EarlySteps
    <2>2. worker'.pc = "idle" => worker.pc = "idle"
      BY <1>1, <1>4, IdleSteps
    <2>3. i > 1 \/ worker.pc \in Early
      BY <2>1, <2>2 DEF Early
    <2> QED BY <1>2, <1>3, <1>4, <2>3
  <1>5. CASE queue # << >> /\ queue' = Tail(queue)
    <2>1. i + 1 \in 1..Len(queue) /\ i + 1 > 1 /\ queue'[i] = queue[i + 1]
      BY <1>5, AfterHead
    <2> QED BY <1>2, <2>1
  <1>6. CASE /\ UNCHANGED <<worker, containers, route>>
             /\ \E job : /\ queue' = Append(queue, job)
                         /\ job.kind = "deploy" => job.id = Len(deployments) + 1
    <2>1. PICK job : /\ queue' = Append(queue, job)
                     /\ job.kind = "deploy" => job.id = Len(deployments) + 1
      BY <1>6
    <2>2. CASE i \in 1..Len(queue) /\ queue'[i] = queue[i]
      BY <2>2, <1>1, <1>6 DEF NotBegun
    <2>3. CASE queue'[i] = job
      <3>1. Inv'
        BY NextInv
      <3>2. queue'[i].id = Len(deployments) + 1 /\ queue'[i].id \in DeployId
        BY <2>1, <2>3, <3>1 DEF Inv, TypeOK, Job
      <3>3. containers[queue'[i].id] = "none"
        BY <3>2, BoundsAssumption DEF Inv, TypeOK, RowsExist, DeployId
      <3>4. route # queue'[i].id
        BY <3>2, LenGrows DEF OwnContainer, None
      <3> QED BY <1>6, <3>3, <3>4
    <2> QED BY <2>1, <2>2, <2>3, AfterAsking
  <1> QED BY <1>4, <1>5, <1>6, QueueSteps

LEMMA GatedStep == Inv /\ OwnContainer /\ NotBegun /\ Gated /\ Next => Gated'
  <1> SUFFICES ASSUME Inv, OwnContainer, NotBegun, Gated, Next PROVE Gated'
    OBVIOUS
  <1>1. CASE Deploy
    BY <1>1, SpendCounts DEF Deploy, EnqueueDeploy, CreateDeployment, Serving, Budget, Gated,
       OwnContainer, Early, DeployPc, current, Inv, TypeOK
  <1>2. CASE Rollback
    BY <1>2, SpendCounts DEF Rollback, EnqueueDeploy, CreateDeployment, Serving, Budget, Gated,
       OwnContainer, Early, DeployPc, current, Inv, TypeOK
  <1>3. CASE Stop
    BY <1>3, SpendCounts DEF Stop, Serving, Budget, Gated, OwnContainer, Early, DeployPc,
       current, Inv, TypeOK
  <1>4. CASE Remove
    BY <1>4, SpendCounts DEF Remove, Resource, Serving, Budget, Gated, OwnContainer, Early,
       DeployPc, current, Inv, TypeOK
  <1>5. CASE SaveSettings
    BY <1>5, SpendCounts DEF SaveSettings, Resource, Serving, Budget, Gated, OwnContainer,
       Early, DeployPc, current, Inv, TypeOK
  <1>6. CASE SkipJob
    BY <1>6 DEF SkipJob, Take, Gated, OwnContainer, Early, DeployPc, current, Inv, TypeOK
  <1>7. CASE TakeDeploy
    BY <1>7 DEF TakeDeploy, Take, Idle, Gated, OwnContainer, Early, DeployPc, current, Inv, TypeOK
  <1>8. CASE NoteOutgoing
    BY <1>8, SpendCounts DEF NoteOutgoing, At, Present, current, Budget, Gated, OwnContainer,
       Early, DeployPc, Inv, TypeOK
  <1>9. CASE ReclaimStrays
    BY <1>9, SpendCounts DEF ReclaimStrays, At, Goto, Budget, Gated, OwnContainer, Early,
       DeployPc, current, Inv, TypeOK
  <1>10. CASE CreateContainer
    <2>1. /\ worker.pc = "reclaimed"
          /\ queue \in Seq(Job)
          /\ queue # << >>
          /\ Head(queue).kind = "deploy"
      BY <1>10, CurrentRow DEF CreateContainer, At, DeployPc, Inv, TypeOK, JobInHand
    <2>2. 1 \in 1..Len(queue) /\ queue[1] = Head(queue)
      BY <2>1
    <2>3. spent["crashes"] = 0 => containers[current] = "none" /\ route # current
      BY <2>1, <2>2 DEF NotBegun, Early, current
    <2> QED BY <1>10, <2>1, <2>3 DEF CreateContainer, Present, Gated, Early, Inv, TypeOK
  <1>11. CASE StartContainer
    BY <1>11 DEF StartContainer, At, Goto, Present, Gated, OwnContainer, Early, DeployPc,
       current, Inv, TypeOK
  <1>12. CASE PassHealthGate
    BY <1>12 DEF PassHealthGate, At, Goto, Live, Gated, OwnContainer, Early, DeployPc, current,
       Inv, TypeOK
  <1>13. CASE SwitchRoute
    BY <1>13, SpendCounts DEF SwitchRoute, At, Budget, Gated, OwnContainer, Early, DeployPc,
       current, Inv, TypeOK
  <1>14. CASE SwitchFails
    BY <1>14, SpendCounts DEF SwitchFails, At, Budget, Gated, OwnContainer, Early, DeployPc,
       current, Inv, TypeOK
  <1>15. CASE RetireOld
    BY <1>15, SpendCounts DEF RetireOld, At, Goto, Budget, Gated, OwnContainer, Early, DeployPc,
       current, Inv, TypeOK
  <1>16. CASE RecordSuccess
    BY <1>16 DEF RecordSuccess, At, JobEnds, Ends, Idle, Resource, Current, Gated, OwnContainer,
       Early, DeployPc, current, Inv, TypeOK
  <1>17. CASE DeployThrows
    BY <1>17, SpendCounts DEF DeployThrows, At, Goto, Present, Live, Budget, Gated,
       OwnContainer, Early, DeployPc, current, Inv, TypeOK
  <1>18. CASE CleanUp
    <2>1. spent'["docker"] = 0 =>
            /\ spent' = spent
            /\ containers' = IF worker.new # None /\ ~worker.switching
                             THEN [containers EXCEPT ![worker.new] = "none"] ELSE containers
      BY <1>18, SpendCounts DEF CleanUp, Inv, TypeOK, Budget
    <2>2. worker.pc = "threw" /\ worker' = [worker EXCEPT !.pc = "cleaned"]
      BY <1>18 DEF CleanUp, At, Goto
    <2>3. worker'.pc = "cleaned" /\ route' = route /\ gated' = gated
      BY <1>18, <2>2 DEF CleanUp, Inv, TypeOK
    <2>4. ASSUME spent["crashes"] = 0, spent["docker"] = 0, spent'["docker"] = 0,
                 NEW d \in DeployId, containers'[d] = "running"
          PROVE  d \in gated
      <3>1. CASE worker.new # None /\ ~worker.switching
        <4>1. d # worker.new /\ containers[d] = "running"
          BY <2>1, <2>4, <3>1 DEF Inv, TypeOK
        <4> QED BY <4>1, <2>4 DEF Gated
      <3>2. CASE ~(worker.new # None /\ ~worker.switching)
        <4>1. containers[d] = "running" /\ d # None
          BY <2>1, <2>4, <3>2, BoundsAssumption DEF DeployId, None
        <4> QED BY <4>1, <2>4, <3>2 DEF Gated
      <3> QED BY <3>1, <3>2
    <2> QED BY <2>1, <2>3, <2>4 DEF Gated, Early
  <1>19. CASE MarkFailed
    BY <1>19 DEF MarkFailed, At, JobEnds, Ends, Idle, Gated, OwnContainer, Early, DeployPc,
       current, Inv, TypeOK
  <1>20. CASE TakeStop
    BY <1>20 DEF TakeStop, Take, Idle, Gated, OwnContainer, Early, DeployPc, current, Inv, TypeOK
  <1>21. CASE StopContainer
    BY <1>21, SpendCounts DEF StopContainer, At, Goto, Present, Budget, Gated, OwnContainer,
       Early, DeployPc, current, Inv, TypeOK
  <1>22. CASE StopRoute
    BY <1>22, SpendCounts DEF StopRoute, At, Goto, DeleteRoute, Budget, Gated, OwnContainer,
       Early, DeployPc, current, Inv, TypeOK
  <1>23. CASE RecordStop
    BY <1>23 DEF RecordStop, At, JobEnds, Idle, Resource, Gated, OwnContainer, Early, DeployPc,
       current, Inv, TypeOK
  <1>24. CASE TakeRemove
    BY <1>24 DEF TakeRemove, Take, Idle, Resource, Gated, OwnContainer, Early, DeployPc,
       current, Inv, TypeOK
  <1>25. CASE RemoveContainer
    BY <1>25, SpendCounts DEF RemoveContainer, At, Goto, Budget, Gated, OwnContainer, Early,
       DeployPc, current, Inv, TypeOK
  <1>26. CASE RemoveStrays
    BY <1>26, SpendCounts DEF RemoveStrays, At, Goto, Budget, Gated, OwnContainer, Early,
       DeployPc, current, Inv, TypeOK
  <1>27. CASE RemoveRoute
    BY <1>27, SpendCounts DEF RemoveRoute, At, Goto, DeleteRoute, Budget, Gated, OwnContainer,
       Early, DeployPc, current, Inv, TypeOK
  <1>28. CASE DeleteRow
    BY <1>28 DEF DeleteRow, At, JobEnds, Idle, Resource, Gated, OwnContainer, Early, DeployPc,
       current, Inv, TypeOK
  <1>29. CASE LookAtRoutes
    BY <1>29 DEF LookAtRoutes, Take, Idle, Wanted, Gated, OwnContainer, Early, DeployPc,
       current, Inv, TypeOK
  <1>30. CASE SyncRoute
    BY <1>30, SpendCounts DEF SyncRoute, At, JobEnds, Idle, Live, Budget, Gated, OwnContainer,
       Early, DeployPc, current, Inv, TypeOK
  <1>31. CASE SweepStaleRoute
    BY <1>31, SpendCounts DEF SweepStaleRoute, At, JobEnds, Idle, Budget, Gated, OwnContainer,
       Early, DeployPc, current, Inv, TypeOK
  <1>32. CASE ListContainers
    BY <1>32 DEF ListContainers, Listing, Gated, OwnContainer, Early, DeployPc, current, Inv,
       TypeOK
  <1>33. CASE PlanRedeploy
    BY <1>33 DEF PlanRedeploy, Planned, EnqueueDeploy, CreateDeployment, Ticking, Gated,
       OwnContainer, Early, DeployPc, current, Inv, TypeOK
  <1>34. CASE SweepOrphans
    BY <1>34, SpendCounts DEF SweepOrphans, Ticking, Resting, Budget, Gated, OwnContainer,
       Early, DeployPc, current, Inv, TypeOK
  <1>35. CASE InspectChosen
    BY <1>35, SpendCounts DEF InspectChosen, Present, Ticking, Resting, Budget, Gated,
       OwnContainer, Early, DeployPc, current, Inv, TypeOK
  <1>36. CASE Repoint
    BY <1>36 DEF Repoint, Resource, Ticking, Resting, Gated, OwnContainer, Early, DeployPc,
       current, Inv, TypeOK
  <1>37. CASE BackoffPasses
    BY <1>37 DEF BackoffPasses, Gated, OwnContainer, Early, DeployPc, current, Inv, TypeOK
  <1>38. CASE Crash
    BY <1>38, SpendCounts DEF Crash, Idle, Resting, Budget, Gated, OwnContainer, Early,
       DeployPc, current, Inv, TypeOK
  <1>39. CASE Boot
    BY <1>39, SpendCounts DEF Boot, Listing, Budget, Gated, OwnContainer, Early, DeployPc,
       current, Inv, TypeOK
  <1>40. CASE Serve
    BY <1>40 DEF Serve, Gated, OwnContainer, Early, DeployPc, current, Inv, TypeOK
  <1>41. CASE RemovedByHand
    BY <1>41, SpendCounts DEF RemovedByHand, Present, Budget, Gated, OwnContainer, Early,
       DeployPc, current, Inv, TypeOK
  <1>42. CASE DeployLost
    BY <1>42, SpendCounts DEF DeployLost, EnqueueLost, CreateDeployment, Serving, Budget, Gated,
       OwnContainer, Early, DeployPc, current, Inv, TypeOK
  <1>43. CASE PlanLost
    BY <1>43, SpendCounts DEF PlanLost, EnqueueLost, CreateDeployment, Ticking, Budget, Resting,
       Gated, OwnContainer, Early, DeployPc, current, Inv, TypeOK
  <1>44. CASE HourPasses
    BY <1>44, SpendCounts DEF HourPasses, Budget, Gated, OwnContainer, Early, DeployPc, current,
       Inv, TypeOK
    <1> QED BY <1>1, <1>2, <1>3, <1>4, <1>5, <1>6, <1>7, <1>8, <1>9, <1>10, <1>11, <1>12, <1>13,
       <1>14, <1>15, <1>16, <1>17, <1>18, <1>19, <1>20, <1>21, <1>22, <1>23, <1>24, <1>25, <1>26,
       <1>27, <1>28, <1>29, <1>30, <1>31, <1>32, <1>33, <1>34, <1>35, <1>36, <1>37, <1>38, <1>39,
       <1>40, <1>41, <1>42, <1>43, <1>44
    DEF Next, Request, Work, Deploying, Stopping, Removing, Syncing, Reconciling

\* A route only ever dials a container that passed the health gate, whatever the
\* requests, the reconciler and the jobs do to the row meanwhile, if musdash did
\* not die and no call to Docker failed (8a in jobs/deploy.ts, currentUpstream in
\* jobs/routes.ts).
THEOREM OnlyGatedIsRouted == Spec => []RouteGated
  <1>1. Init => OwnContainer /\ NotBegun /\ Gated
    BY DEF Init, OwnContainer, NotBegun, Gated, Idle, DeployPc, Early
  <1>2. Inv /\ OwnContainer /\ NotBegun /\ Gated /\ [Next]_vars =>
        (OwnContainer /\ NotBegun /\ Gated)'
    <2>1. CASE Next
      BY <2>1, OwnStep, NotBegunStep, GatedStep
    <2>2. CASE UNCHANGED vars
      BY <2>2 DEF vars, OwnContainer, NotBegun, Gated, current
    <2> QED BY <2>1, <2>2
  <1>3. Gated => RouteGated
    BY DEF Gated, RouteGated, Without
  <1> QED BY <1>1, <1>2, <1>3, AlwaysInv, PTL DEF Spec

-----------------------------------------------------------------------------
(* Which routes stay.                                                      *)

\* A handler past its take has a row, and a sync that found a route wanted is
\* the head.
RowInHand ==
  /\ worker.pc \notin {"idle", "unrouting"} => row.exists
  /\ worker.pc = "rerouting" => Head(queue).kind = "sync"

\* With the proxy answering, a route that was taken away stays away until its
\* row says so, and a deploy switches a route on for the port it read.
Unrouted ==
  spent["proxy"] = 0 =>
    /\ worker.pc \in {"unrouted", "released"} => route = None
    /\ ~row.exists => route = None
    /\ worker.pc \in {"switched", "retired"} /\ route # None => worker.port

\* Where no deploy fails and nobody removes a container, a deploy goes through.
GoesThrough ==
  Without({"proxy", "failures", "byHand"}) =>
    /\ worker.pc \notin {"threw", "cleaned"}
    /\ worker.pc = "created" => worker.new \in Present
    /\ worker.pc = "started" => worker.new \in Live

\* What a handler read and a request changed since has a job behind it.
Behind(kinds) == \E i \in 2..Len(queue) : queue[i].kind \in kinds
ChangesQueued ==
  /\ worker.pc \in DeployPc /\ worker.port /\ ~row.port => Behind({"sync"})
  /\ worker.pc = "rerouting" /\ ~Wanted => Behind({"sync", "remove"})

\* The jobs that will take away a route nobody wants, or make it wanted; those
\* of the kinds in sure always do.
Settles(i, sure) ==
  \/ queue[i].kind \in sure
  \/ queue[i].kind = "sync" /\ (i > 1 \/ worker.pc # "rerouting")
  \/ queue[i].kind = "deploy" /\ i = 1 /\ worker.pc \in {"switched", "retired"}
Settled(sure) ==
  route # None /\ ~Wanted => \E i \in 1..Len(queue) : Settles(i, sure)

Offs == {"stop", "remove"}
RouteJobs ==
  /\ Without({"proxy", "crashes"}) => Settled(Offs)
  /\ Without({"proxy", "failures", "byHand"}) => Settled(Offs \cup {"deploy"})

WantInv == RowInHand /\ Unrouted /\ GoesThrough /\ ChangesQueued /\ RouteJobs

LEMMA RowInHandStep == Inv /\ RowInHand /\ Next => RowInHand'
  <1> SUFFICES ASSUME Inv, RowInHand, Next PROVE RowInHand'
    OBVIOUS
  <1>a. ASSUME worker' = worker, worker.pc = "rerouting" PROVE Head(queue') = Head(queue)
    BY <1>a, HandStays
  <1>1. CASE Deploy
    BY <1>1, SpendCounts, <1>a DEF Deploy, EnqueueDeploy, CreateDeployment, Serving, Budget,
       RowInHand, Inv, TypeOK
  <1>2. CASE Rollback
    BY <1>2, SpendCounts, <1>a DEF Rollback, EnqueueDeploy, CreateDeployment, Serving, Budget,
       RowInHand, Inv, TypeOK
  <1>3. CASE Stop
    BY <1>3, SpendCounts, <1>a DEF Stop, Serving, Budget, RowInHand, Inv, TypeOK
  <1>4. CASE Remove
    BY <1>4, SpendCounts, <1>a DEF Remove, Resource, Serving, Budget, RowInHand, Inv, TypeOK
  <1>5. CASE SaveSettings
    BY <1>5, SpendCounts, <1>a DEF SaveSettings, Resource, Serving, Budget, RowInHand, Inv, TypeOK
  <1>6. CASE SkipJob
    BY <1>6 DEF SkipJob, Take, RowInHand, Inv, TypeOK
  <1>7. CASE TakeDeploy
    BY <1>7 DEF TakeDeploy, Take, Idle, RowInHand, Inv, TypeOK
  <1>8. CASE NoteOutgoing
    BY <1>8, SpendCounts DEF NoteOutgoing, At, Present, current, Budget, RowInHand, Inv, TypeOK
  <1>9. CASE ReclaimStrays
    BY <1>9, SpendCounts DEF ReclaimStrays, At, Goto, Budget, RowInHand, Inv, TypeOK
  <1>10. CASE CreateContainer
    BY <1>10 DEF CreateContainer, At, Present, current, RowInHand, Inv, TypeOK
  <1>11. CASE StartContainer
    BY <1>11 DEF StartContainer, At, Goto, Present, RowInHand, Inv, TypeOK
  <1>12. CASE PassHealthGate
    BY <1>12 DEF PassHealthGate, At, Goto, Live, RowInHand, Inv, TypeOK
  <1>13. CASE SwitchRoute
    BY <1>13, SpendCounts DEF SwitchRoute, At, Budget, RowInHand, Inv, TypeOK
  <1>14. CASE SwitchFails
    BY <1>14, SpendCounts DEF SwitchFails, At, Budget, RowInHand, Inv, TypeOK
  <1>15. CASE RetireOld
    BY <1>15, SpendCounts DEF RetireOld, At, Goto, Budget, RowInHand, Inv, TypeOK
  <1>16. CASE RecordSuccess
    BY <1>16 DEF RecordSuccess, At, JobEnds, Ends, Idle, Resource, Current, RowInHand, Inv,
       TypeOK
  <1>17. CASE DeployThrows
    BY <1>17, SpendCounts DEF DeployThrows, At, Goto, Present, Live, Budget, RowInHand, Inv,
       TypeOK
  <1>18. CASE CleanUp
    BY <1>18, SpendCounts DEF CleanUp, At, Goto, Budget, RowInHand, Inv, TypeOK
  <1>19. CASE MarkFailed
    BY <1>19 DEF MarkFailed, At, JobEnds, Ends, Idle, RowInHand, Inv, TypeOK
  <1>20. CASE TakeStop
    BY <1>20 DEF TakeStop, Take, Idle, RowInHand, Inv, TypeOK
  <1>21. CASE StopContainer
    BY <1>21, SpendCounts DEF StopContainer, At, Goto, Present, Budget, RowInHand, Inv, TypeOK
  <1>22. CASE StopRoute
    BY <1>22, SpendCounts DEF StopRoute, At, Goto, DeleteRoute, Budget, RowInHand, Inv, TypeOK
  <1>23. CASE RecordStop
    BY <1>23 DEF RecordStop, At, JobEnds, Idle, Resource, RowInHand, Inv, TypeOK
  <1>24. CASE TakeRemove
    BY <1>24 DEF TakeRemove, Take, Idle, Resource, RowInHand, Inv, TypeOK
  <1>25. CASE RemoveContainer
    BY <1>25, SpendCounts DEF RemoveContainer, At, Goto, Budget, RowInHand, Inv, TypeOK
  <1>26. CASE RemoveStrays
    BY <1>26, SpendCounts DEF RemoveStrays, At, Goto, Budget, RowInHand, Inv, TypeOK
  <1>27. CASE RemoveRoute
    BY <1>27, SpendCounts DEF RemoveRoute, At, Goto, DeleteRoute, Budget, RowInHand, Inv, TypeOK
  <1>28. CASE DeleteRow
    BY <1>28 DEF DeleteRow, At, JobEnds, Idle, Resource, RowInHand, Inv, TypeOK
  <1>29. CASE LookAtRoutes
    BY <1>29 DEF LookAtRoutes, Take, Idle, Wanted, RowInHand, Inv, TypeOK
  <1>30. CASE SyncRoute
    BY <1>30, SpendCounts DEF SyncRoute, At, JobEnds, Idle, Live, Budget, RowInHand, Inv, TypeOK
  <1>31. CASE SweepStaleRoute
    BY <1>31, SpendCounts DEF SweepStaleRoute, At, JobEnds, Idle, Budget, RowInHand, Inv, TypeOK
  <1>32. CASE ListContainers
    BY <1>32 DEF ListContainers, Listing, RowInHand, Inv, TypeOK
  <1>33. CASE PlanRedeploy
    BY <1>33, <1>a DEF PlanRedeploy, Planned, EnqueueDeploy, CreateDeployment, Ticking, RowInHand,
       Inv, TypeOK
  <1>34. CASE SweepOrphans
    BY <1>34, SpendCounts DEF SweepOrphans, Ticking, Resting, Budget, RowInHand, Inv, TypeOK
  <1>35. CASE InspectChosen
    BY <1>35, SpendCounts DEF InspectChosen, Present, Ticking, Resting, Budget, RowInHand, Inv,
       TypeOK
  <1>36. CASE Repoint
    BY <1>36 DEF Repoint, Resource, Ticking, Resting, RowInHand, Inv, TypeOK
  <1>37. CASE BackoffPasses
    BY <1>37 DEF BackoffPasses, RowInHand, Inv, TypeOK
  <1>38. CASE Crash
    BY <1>38, SpendCounts DEF Crash, Idle, Resting, Budget, RowInHand, Inv, TypeOK
  <1>39. CASE Boot
    BY <1>39, SpendCounts DEF Boot, Listing, Budget, RowInHand, Inv, TypeOK
  <1>40. CASE Serve
    BY <1>40 DEF Serve, RowInHand, Inv, TypeOK
  <1>41. CASE RemovedByHand
    BY <1>41, SpendCounts DEF RemovedByHand, Present, Budget, RowInHand, Inv, TypeOK
  <1>42. CASE DeployLost
    BY <1>42, SpendCounts, <1>a DEF DeployLost, EnqueueLost, CreateDeployment, Serving, Budget,
       RowInHand, Inv, TypeOK
  <1>43. CASE PlanLost
    BY <1>43, SpendCounts, <1>a DEF PlanLost, EnqueueLost, CreateDeployment, Ticking, Budget,
       Resting, RowInHand, Inv, TypeOK
  <1>44. CASE HourPasses
    BY <1>44, SpendCounts DEF HourPasses, Budget, RowInHand, Inv, TypeOK
  <1> QED BY <1>1, <1>2, <1>3, <1>4, <1>5, <1>6, <1>7, <1>8, <1>9, <1>10, <1>11, <1>12, <1>13, <1>14,
     <1>15, <1>16, <1>17, <1>18, <1>19, <1>20, <1>21, <1>22, <1>23, <1>24, <1>25, <1>26,
     <1>27, <1>28, <1>29, <1>30, <1>31, <1>32, <1>33, <1>34, <1>35, <1>36, <1>37, <1>38,
     <1>39, <1>40, <1>41, <1>42, <1>43, <1>44
    DEF Next, Request, Work, Deploying, Stopping, Removing, Syncing, Reconciling

LEMMA UnroutedStep == Inv /\ RowInHand /\ Unrouted /\ Next => Unrouted'
  <1> SUFFICES ASSUME Inv, RowInHand, Unrouted, Next PROVE Unrouted'
    OBVIOUS
  <1>1. CASE Deploy
    BY <1>1, SpendCounts DEF Deploy, EnqueueDeploy, CreateDeployment, Serving, Budget, RowInHand,
       Unrouted, Inv, TypeOK
  <1>2. CASE Rollback
    BY <1>2, SpendCounts DEF Rollback, EnqueueDeploy, CreateDeployment, Serving, Budget,
       RowInHand, Unrouted, Inv, TypeOK
  <1>3. CASE Stop
    BY <1>3, SpendCounts DEF Stop, Serving, Budget, RowInHand, Unrouted, Inv, TypeOK
  <1>4. CASE Remove
    BY <1>4, SpendCounts DEF Remove, Resource, Serving, Budget, RowInHand, Unrouted, Inv, TypeOK
  <1>5. CASE SaveSettings
    BY <1>5, SpendCounts DEF SaveSettings, Resource, Serving, Budget, RowInHand, Unrouted, Inv,
       TypeOK
  <1>6. CASE SkipJob
    BY <1>6 DEF SkipJob, Take, RowInHand, Unrouted, Inv, TypeOK
  <1>7. CASE TakeDeploy
    BY <1>7 DEF TakeDeploy, Take, Idle, RowInHand, Unrouted, Inv, TypeOK
  <1>8. CASE NoteOutgoing
    BY <1>8, SpendCounts DEF NoteOutgoing, At, Present, current, Budget, RowInHand, Unrouted,
       Inv, TypeOK
  <1>9. CASE ReclaimStrays
    BY <1>9, SpendCounts DEF ReclaimStrays, At, Goto, Budget, RowInHand, Unrouted, Inv, TypeOK
  <1>10. CASE CreateContainer
    BY <1>10 DEF CreateContainer, At, Present, current, RowInHand, Unrouted, Inv, TypeOK
  <1>11. CASE StartContainer
    BY <1>11 DEF StartContainer, At, Goto, Present, RowInHand, Unrouted, Inv, TypeOK
  <1>12. CASE PassHealthGate
    BY <1>12 DEF PassHealthGate, At, Goto, Live, RowInHand, Unrouted, Inv, TypeOK
  <1>13. CASE SwitchRoute
    BY <1>13, SpendCounts DEF SwitchRoute, At, Budget, RowInHand, Unrouted, Inv, TypeOK
  <1>14. CASE SwitchFails
    BY <1>14, SpendCounts DEF SwitchFails, At, Budget, RowInHand, Unrouted, Inv, TypeOK
  <1>15. CASE RetireOld
    BY <1>15, SpendCounts DEF RetireOld, At, Goto, Budget, RowInHand, Unrouted, Inv, TypeOK
  <1>16. CASE RecordSuccess
    BY <1>16 DEF RecordSuccess, At, JobEnds, Ends, Idle, Resource, Current, RowInHand, Unrouted,
       Inv, TypeOK
  <1>17. CASE DeployThrows
    BY <1>17, SpendCounts DEF DeployThrows, At, Goto, Present, Live, Budget, RowInHand,
       Unrouted, Inv, TypeOK
  <1>18. CASE CleanUp
    BY <1>18, SpendCounts DEF CleanUp, At, Goto, Budget, RowInHand, Unrouted, Inv, TypeOK
  <1>19. CASE MarkFailed
    BY <1>19 DEF MarkFailed, At, JobEnds, Ends, Idle, RowInHand, Unrouted, Inv, TypeOK
  <1>20. CASE TakeStop
    BY <1>20 DEF TakeStop, Take, Idle, RowInHand, Unrouted, Inv, TypeOK
  <1>21. CASE StopContainer
    BY <1>21, SpendCounts DEF StopContainer, At, Goto, Present, Budget, RowInHand, Unrouted,
       Inv, TypeOK
  <1>22. CASE StopRoute
    BY <1>22, SpendCounts DEF StopRoute, At, Goto, DeleteRoute, Budget, RowInHand, Unrouted,
       Inv, TypeOK
  <1>23. CASE RecordStop
    BY <1>23 DEF RecordStop, At, JobEnds, Idle, Resource, RowInHand, Unrouted, Inv, TypeOK
  <1>24. CASE TakeRemove
    BY <1>24 DEF TakeRemove, Take, Idle, Resource, RowInHand, Unrouted, Inv, TypeOK
  <1>25. CASE RemoveContainer
    BY <1>25, SpendCounts DEF RemoveContainer, At, Goto, Budget, RowInHand, Unrouted, Inv,
       TypeOK
  <1>26. CASE RemoveStrays
    BY <1>26, SpendCounts DEF RemoveStrays, At, Goto, Budget, RowInHand, Unrouted, Inv, TypeOK
  <1>27. CASE RemoveRoute
    BY <1>27, SpendCounts DEF RemoveRoute, At, Goto, DeleteRoute, Budget, RowInHand, Unrouted,
       Inv, TypeOK
  <1>28. CASE DeleteRow
    BY <1>28 DEF DeleteRow, At, JobEnds, Idle, Resource, RowInHand, Unrouted, Inv, TypeOK
  <1>29. CASE LookAtRoutes
    BY <1>29 DEF LookAtRoutes, Take, Idle, Wanted, RowInHand, Unrouted, Inv, TypeOK
  <1>30. CASE SyncRoute
    BY <1>30, SpendCounts DEF SyncRoute, At, JobEnds, Idle, Live, Budget, RowInHand, Unrouted,
       Inv, TypeOK
  <1>31. CASE SweepStaleRoute
    BY <1>31, SpendCounts DEF SweepStaleRoute, At, JobEnds, Idle, Budget, RowInHand, Unrouted,
       Inv, TypeOK
  <1>32. CASE ListContainers
    BY <1>32 DEF ListContainers, Listing, RowInHand, Unrouted, Inv, TypeOK
  <1>33. CASE PlanRedeploy
    BY <1>33 DEF PlanRedeploy, Planned, EnqueueDeploy, CreateDeployment, Ticking, RowInHand,
       Unrouted, Inv, TypeOK
  <1>34. CASE SweepOrphans
    BY <1>34, SpendCounts DEF SweepOrphans, Ticking, Resting, Budget, RowInHand, Unrouted, Inv,
       TypeOK
  <1>35. CASE InspectChosen
    BY <1>35, SpendCounts DEF InspectChosen, Present, Ticking, Resting, Budget, RowInHand,
       Unrouted, Inv, TypeOK
  <1>36. CASE Repoint
    BY <1>36 DEF Repoint, Resource, Ticking, Resting, RowInHand, Unrouted, Inv, TypeOK
  <1>37. CASE BackoffPasses
    BY <1>37 DEF BackoffPasses, RowInHand, Unrouted, Inv, TypeOK
  <1>38. CASE Crash
    BY <1>38, SpendCounts DEF Crash, Idle, Resting, Budget, RowInHand, Unrouted, Inv, TypeOK
  <1>39. CASE Boot
    BY <1>39, SpendCounts DEF Boot, Listing, Budget, RowInHand, Unrouted, Inv, TypeOK
  <1>40. CASE Serve
    BY <1>40 DEF Serve, RowInHand, Unrouted, Inv, TypeOK
  <1>41. CASE RemovedByHand
    BY <1>41, SpendCounts DEF RemovedByHand, Present, Budget, RowInHand, Unrouted, Inv, TypeOK
  <1>42. CASE DeployLost
    BY <1>42, SpendCounts DEF DeployLost, EnqueueLost, CreateDeployment, Serving, Budget,
       RowInHand, Unrouted, Inv, TypeOK
  <1>43. CASE PlanLost
    BY <1>43, SpendCounts DEF PlanLost, EnqueueLost, CreateDeployment, Ticking, Budget, Resting,
       RowInHand, Unrouted, Inv, TypeOK
  <1>44. CASE HourPasses
    BY <1>44, SpendCounts DEF HourPasses, Budget, RowInHand, Unrouted, Inv, TypeOK
  <1> QED BY <1>1, <1>2, <1>3, <1>4, <1>5, <1>6, <1>7, <1>8, <1>9, <1>10, <1>11, <1>12, <1>13, <1>14,
     <1>15, <1>16, <1>17, <1>18, <1>19, <1>20, <1>21, <1>22, <1>23, <1>24, <1>25, <1>26,
     <1>27, <1>28, <1>29, <1>30, <1>31, <1>32, <1>33, <1>34, <1>35, <1>36, <1>37, <1>38,
     <1>39, <1>40, <1>41, <1>42, <1>43, <1>44
    DEF Next, Request, Work, Deploying, Stopping, Removing, Syncing, Reconciling

LEMMA GoesThroughStep == Inv /\ RowInHand /\ GoesThrough /\ Next => GoesThrough'
  <1> SUFFICES ASSUME Inv, RowInHand, GoesThrough, Next PROVE GoesThrough'
    OBVIOUS
  <1>a. \A b \in Budget : spent'[b] = 0 => spent[b] = 0
    BY SpentStays
  <1>b. containers \in [DeployId -> {"none", "still", "running"}]
    BY DEF Inv, TypeOK
  <1>1. CASE Deploy
    BY <1>1, SpendCounts, <1>a, <1>b DEF Deploy, EnqueueDeploy, CreateDeployment, Serving, Budget,
       RowInHand, GoesThrough, Without, Present, Live, Inv, TypeOK
  <1>2. CASE Rollback
    BY <1>2, SpendCounts, <1>a, <1>b DEF Rollback, EnqueueDeploy, CreateDeployment, Serving,
       Budget, RowInHand, GoesThrough, Without, Present, Live, Inv, TypeOK
  <1>3. CASE Stop
    BY <1>3, SpendCounts, <1>a, <1>b DEF Stop, Serving, Budget, RowInHand, GoesThrough, Without,
       Present, Live, Inv, TypeOK
  <1>4. CASE Remove
    BY <1>4, SpendCounts, <1>a, <1>b DEF Remove, Resource, Serving, Budget, RowInHand,
       GoesThrough, Without, Present, Live, Inv, TypeOK
  <1>5. CASE SaveSettings
    BY <1>5, SpendCounts, <1>a, <1>b DEF SaveSettings, Resource, Serving, Budget, RowInHand,
       GoesThrough, Without, Present, Live, Inv, TypeOK
  <1>6. CASE SkipJob
    BY <1>6, <1>a, <1>b DEF SkipJob, Take, RowInHand, GoesThrough, Without, Present, Live,
       Budget, Inv, TypeOK
  <1>7. CASE TakeDeploy
    BY <1>7, <1>a, <1>b DEF TakeDeploy, Take, Idle, RowInHand, GoesThrough, Without, Present,
       Live, Budget, Inv, TypeOK
  <1>8. CASE NoteOutgoing
    BY <1>8, SpendCounts, <1>a, <1>b DEF NoteOutgoing, At, Present, current, Budget, RowInHand,
       GoesThrough, Without, Live, Inv, TypeOK
  <1>9. CASE ReclaimStrays
    BY <1>9, SpendCounts, <1>a, <1>b DEF ReclaimStrays, At, Goto, Budget, RowInHand,
       GoesThrough, Without, Present, Live, Inv, TypeOK
  <1>10. CASE CreateContainer
    BY <1>10, <1>a, <1>b, CurrentRow DEF DeployPc, CreateContainer, At, Present, current,
       RowInHand, GoesThrough, Without, Live, Budget, Inv, TypeOK
  <1>11. CASE StartContainer
    BY <1>11, <1>a, <1>b DEF StartContainer, At, Goto, Present, RowInHand, GoesThrough, Without,
       Live, Budget, Inv, TypeOK
  <1>12. CASE PassHealthGate
    BY <1>12, <1>a, <1>b DEF PassHealthGate, At, Goto, Live, RowInHand, GoesThrough, Without,
       Present, Budget, Inv, TypeOK
  <1>13. CASE SwitchRoute
    BY <1>13, SpendCounts, <1>a, <1>b DEF SwitchRoute, At, Budget, RowInHand, GoesThrough,
       Without, Present, Live, Inv, TypeOK
  <1>14. CASE SwitchFails
    BY <1>14, SpendCounts, <1>a, <1>b DEF SwitchFails, At, Budget, RowInHand, GoesThrough,
       Without, Present, Live, Inv, TypeOK
  <1>15. CASE RetireOld
    BY <1>15, SpendCounts, <1>a, <1>b DEF RetireOld, At, Goto, Budget, RowInHand, GoesThrough,
       Without, Present, Live, Inv, TypeOK
  <1>16. CASE RecordSuccess
    BY <1>16, <1>a, <1>b DEF RecordSuccess, At, JobEnds, Ends, Idle, Resource, Current,
       RowInHand, GoesThrough, Without, Present, Live, Budget, Inv, TypeOK
  <1>17. CASE DeployThrows
    BY <1>17, SpendCounts, <1>a, <1>b DEF DeployThrows, At, Goto, Present, Live, Budget,
       RowInHand, GoesThrough, Without, Inv, TypeOK
  <1>18. CASE CleanUp
    BY <1>18, SpendCounts, <1>a, <1>b DEF CleanUp, At, Goto, Budget, RowInHand, GoesThrough,
       Without, Present, Live, Inv, TypeOK
  <1>19. CASE MarkFailed
    BY <1>19, <1>a, <1>b DEF MarkFailed, At, JobEnds, Ends, Idle, RowInHand, GoesThrough,
       Without, Present, Live, Budget, Inv, TypeOK
  <1>20. CASE TakeStop
    BY <1>20, <1>a, <1>b DEF TakeStop, Take, Idle, RowInHand, GoesThrough, Without, Present,
       Live, Budget, Inv, TypeOK
  <1>21. CASE StopContainer
    BY <1>21, SpendCounts, <1>a, <1>b DEF StopContainer, At, Goto, Present, Budget, RowInHand,
       GoesThrough, Without, Live, Inv, TypeOK
  <1>22. CASE StopRoute
    BY <1>22, SpendCounts, <1>a, <1>b DEF StopRoute, At, Goto, DeleteRoute, Budget, RowInHand,
       GoesThrough, Without, Present, Live, Inv, TypeOK
  <1>23. CASE RecordStop
    BY <1>23, <1>a, <1>b DEF RecordStop, At, JobEnds, Idle, Resource, RowInHand, GoesThrough,
       Without, Present, Live, Budget, Inv, TypeOK
  <1>24. CASE TakeRemove
    BY <1>24, <1>a, <1>b DEF TakeRemove, Take, Idle, Resource, RowInHand, GoesThrough, Without,
       Present, Live, Budget, Inv, TypeOK
  <1>25. CASE RemoveContainer
    BY <1>25, SpendCounts, <1>a, <1>b DEF RemoveContainer, At, Goto, Budget, RowInHand,
       GoesThrough, Without, Present, Live, Inv, TypeOK
  <1>26. CASE RemoveStrays
    BY <1>26, SpendCounts, <1>a, <1>b DEF RemoveStrays, At, Goto, Budget, RowInHand,
       GoesThrough, Without, Present, Live, Inv, TypeOK
  <1>27. CASE RemoveRoute
    BY <1>27, SpendCounts, <1>a, <1>b DEF RemoveRoute, At, Goto, DeleteRoute, Budget, RowInHand,
       GoesThrough, Without, Present, Live, Inv, TypeOK
  <1>28. CASE DeleteRow
    BY <1>28, <1>a, <1>b DEF DeleteRow, At, JobEnds, Idle, Resource, RowInHand, GoesThrough,
       Without, Present, Live, Budget, Inv, TypeOK
  <1>29. CASE LookAtRoutes
    BY <1>29, <1>a, <1>b DEF LookAtRoutes, Take, Idle, Wanted, RowInHand, GoesThrough, Without,
       Present, Live, Budget, Inv, TypeOK
  <1>30. CASE SyncRoute
    BY <1>30, SpendCounts, <1>a, <1>b DEF SyncRoute, At, JobEnds, Idle, Live, Budget, RowInHand,
       GoesThrough, Without, Present, Inv, TypeOK
  <1>31. CASE SweepStaleRoute
    BY <1>31, SpendCounts, <1>a, <1>b DEF SweepStaleRoute, At, JobEnds, Idle, Budget, RowInHand,
       GoesThrough, Without, Present, Live, Inv, TypeOK
  <1>32. CASE ListContainers
    BY <1>32, <1>a, <1>b DEF ListContainers, Listing, RowInHand, GoesThrough, Without, Present,
       Live, Budget, Inv, TypeOK
  <1>33. CASE PlanRedeploy
    BY <1>33, <1>a, <1>b DEF PlanRedeploy, Planned, EnqueueDeploy, CreateDeployment, Ticking,
       RowInHand, GoesThrough, Without, Present, Live, Budget, Inv, TypeOK
  <1>34. CASE SweepOrphans
    BY <1>34, SpendCounts, <1>a, <1>b DEF SweepOrphans, Ticking, Resting, Budget, RowInHand,
       GoesThrough, Without, Present, Live, Inv, TypeOK
  <1>35. CASE InspectChosen
    BY <1>35, SpendCounts, <1>a, <1>b DEF InspectChosen, Present, Ticking, Resting, Budget,
       RowInHand, GoesThrough, Without, Live, Inv, TypeOK
  <1>36. CASE Repoint
    BY <1>36, <1>a, <1>b DEF Repoint, Resource, Ticking, Resting, RowInHand, GoesThrough,
       Without, Present, Live, Budget, Inv, TypeOK
  <1>37. CASE BackoffPasses
    BY <1>37, <1>a, <1>b DEF BackoffPasses, RowInHand, GoesThrough, Without, Present, Live,
       Budget, Inv, TypeOK
  <1>38. CASE Crash
    BY <1>38, SpendCounts, <1>a, <1>b DEF Crash, Idle, Resting, Budget, RowInHand, GoesThrough,
       Without, Present, Live, Inv, TypeOK
  <1>39. CASE Boot
    BY <1>39, SpendCounts, <1>a, <1>b DEF Boot, Listing, Budget, RowInHand, GoesThrough,
       Without, Present, Live, Inv, TypeOK
  <1>40. CASE Serve
    BY <1>40, <1>a, <1>b DEF Serve, RowInHand, GoesThrough, Without, Present, Live, Budget, Inv,
       TypeOK
  <1>41. CASE RemovedByHand
    BY <1>41, SpendCounts, <1>a, <1>b DEF RemovedByHand, Present, Budget, RowInHand,
       GoesThrough, Without, Live, Inv, TypeOK
  <1>42. CASE DeployLost
    BY <1>42, SpendCounts, <1>a, <1>b DEF DeployLost, EnqueueLost, CreateDeployment, Serving,
       Budget, RowInHand, GoesThrough, Without, Present, Live, Inv, TypeOK
  <1>43. CASE PlanLost
    BY <1>43, SpendCounts, <1>a, <1>b DEF PlanLost, EnqueueLost, CreateDeployment, Ticking,
       Resting, RowInHand, GoesThrough, Without, Present, Live, Budget, Inv, TypeOK
  <1>44. CASE HourPasses
    BY <1>44, SpendCounts, <1>a, <1>b DEF HourPasses, RowInHand, GoesThrough, Without, Present,
       Live, Budget, Inv, TypeOK
  <1> QED BY <1>1, <1>2, <1>3, <1>4, <1>5, <1>6, <1>7, <1>8, <1>9, <1>10, <1>11, <1>12, <1>13, <1>14,
     <1>15, <1>16, <1>17, <1>18, <1>19, <1>20, <1>21, <1>22, <1>23, <1>24, <1>25, <1>26,
     <1>27, <1>28, <1>29, <1>30, <1>31, <1>32, <1>33, <1>34, <1>35, <1>36, <1>37, <1>38,
     <1>39, <1>40, <1>41, <1>42, <1>43, <1>44
    DEF Next, Request, Work, Deploying, Stopping, Removing, Syncing, Reconciling

\* Where a handler comes from, and what it read of the row.
LEMMA PcSteps ==
  ASSUME Inv, Next
  PROVE  /\ worker'.pc = "rerouting" => worker.pc = "rerouting" \/ LookAtRoutes
         /\ worker.pc \in {"switched", "retired"} =>
              worker'.pc \in {"switched", "retired"} \/ RecordSuccess \/ Crash
         /\ worker'.pc \in DeployPc /\ worker'.port /\ ~row'.port =>
              worker.pc \in DeployPc /\ worker.port /\ (~row.port \/ SaveSettings)
  <1>1. CASE Deploy
    BY <1>1, SpendCounts DEF Deploy, EnqueueDeploy, CreateDeployment, Serving, Budget, DeployPc,
       Resource, Inv, TypeOK
  <1>2. CASE Rollback
    BY <1>2, SpendCounts DEF Rollback, EnqueueDeploy, CreateDeployment, Serving, Budget, DeployPc,
       Resource, Inv, TypeOK
  <1>3. CASE Stop
    BY <1>3, SpendCounts DEF Stop, Serving, Budget, DeployPc, Resource, Inv, TypeOK
  <1>4. CASE Remove
    BY <1>4, SpendCounts DEF Remove, Resource, Serving, Budget, DeployPc, Inv, TypeOK
  <1>5. CASE SaveSettings
    BY <1>5, SpendCounts DEF SaveSettings, Resource, Serving, Budget, DeployPc, Inv, TypeOK
  <1>6. CASE SkipJob
    BY <1>6 DEF SkipJob, Take, DeployPc, Resource, Inv, TypeOK
  <1>7. CASE TakeDeploy
    BY <1>7 DEF TakeDeploy, Take, Idle, DeployPc, Resource, Inv, TypeOK
  <1>8. CASE NoteOutgoing
    BY <1>8, SpendCounts DEF NoteOutgoing, At, Present, current, Budget, DeployPc, Resource,
       Inv, TypeOK
  <1>9. CASE ReclaimStrays
    BY <1>9, SpendCounts DEF ReclaimStrays, At, Goto, Budget, DeployPc, Resource, Inv, TypeOK
  <1>10. CASE CreateContainer
    BY <1>10 DEF CreateContainer, At, Present, current, DeployPc, Resource, Inv, TypeOK
  <1>11. CASE StartContainer
    BY <1>11 DEF StartContainer, At, Goto, Present, DeployPc, Resource, Inv, TypeOK
  <1>12. CASE PassHealthGate
    BY <1>12 DEF PassHealthGate, At, Goto, Live, DeployPc, Resource, Inv, TypeOK
  <1>13. CASE SwitchRoute
    BY <1>13, SpendCounts DEF SwitchRoute, At, Budget, DeployPc, Resource, Inv, TypeOK
  <1>14. CASE SwitchFails
    BY <1>14, SpendCounts DEF SwitchFails, At, Budget, DeployPc, Resource, Inv, TypeOK
  <1>15. CASE RetireOld
    BY <1>15, SpendCounts DEF RetireOld, At, Goto, Budget, DeployPc, Resource, Inv, TypeOK
  <1>16. CASE RecordSuccess
    BY <1>16 DEF RecordSuccess, At, JobEnds, Ends, Idle, Resource, Current, DeployPc, Inv,
       TypeOK
  <1>17. CASE DeployThrows
    BY <1>17, SpendCounts DEF DeployThrows, At, Goto, Present, Live, Budget, DeployPc, Resource,
       Inv, TypeOK
  <1>18. CASE CleanUp
    BY <1>18, SpendCounts DEF CleanUp, At, Goto, Budget, DeployPc, Resource, Inv, TypeOK
  <1>19. CASE MarkFailed
    BY <1>19 DEF MarkFailed, At, JobEnds, Ends, Idle, DeployPc, Resource, Inv, TypeOK
  <1>20. CASE TakeStop
    BY <1>20 DEF TakeStop, Take, Idle, DeployPc, Resource, Inv, TypeOK
  <1>21. CASE StopContainer
    BY <1>21, SpendCounts DEF StopContainer, At, Goto, Present, Budget, DeployPc, Resource, Inv,
       TypeOK
  <1>22. CASE StopRoute
    BY <1>22, SpendCounts DEF StopRoute, At, Goto, DeleteRoute, Budget, DeployPc, Resource, Inv,
       TypeOK
  <1>23. CASE RecordStop
    BY <1>23 DEF RecordStop, At, JobEnds, Idle, Resource, DeployPc, Inv, TypeOK
  <1>24. CASE TakeRemove
    BY <1>24 DEF TakeRemove, Take, Idle, Resource, DeployPc, Inv, TypeOK
  <1>25. CASE RemoveContainer
    BY <1>25, SpendCounts DEF RemoveContainer, At, Goto, Budget, DeployPc, Resource, Inv, TypeOK
  <1>26. CASE RemoveStrays
    BY <1>26, SpendCounts DEF RemoveStrays, At, Goto, Budget, DeployPc, Resource, Inv, TypeOK
  <1>27. CASE RemoveRoute
    BY <1>27, SpendCounts DEF RemoveRoute, At, Goto, DeleteRoute, Budget, DeployPc, Resource,
       Inv, TypeOK
  <1>28. CASE DeleteRow
    BY <1>28 DEF DeleteRow, At, JobEnds, Idle, Resource, DeployPc, Inv, TypeOK
  <1>29. CASE LookAtRoutes
    BY <1>29 DEF LookAtRoutes, Take, Idle, Wanted, DeployPc, Resource, Inv, TypeOK
  <1>30. CASE SyncRoute
    BY <1>30, SpendCounts DEF SyncRoute, At, JobEnds, Idle, Live, Budget, DeployPc, Resource,
       Inv, TypeOK
  <1>31. CASE SweepStaleRoute
    BY <1>31, SpendCounts DEF SweepStaleRoute, At, JobEnds, Idle, Budget, DeployPc, Resource,
       Inv, TypeOK
  <1>32. CASE ListContainers
    BY <1>32 DEF ListContainers, Listing, DeployPc, Resource, Inv, TypeOK
  <1>33. CASE PlanRedeploy
    BY <1>33 DEF PlanRedeploy, Planned, EnqueueDeploy, CreateDeployment, Ticking, DeployPc,
       Resource, Inv, TypeOK
  <1>34. CASE SweepOrphans
    BY <1>34, SpendCounts DEF SweepOrphans, Ticking, Resting, Budget, DeployPc, Resource, Inv,
       TypeOK
  <1>35. CASE InspectChosen
    BY <1>35, SpendCounts DEF InspectChosen, Present, Ticking, Resting, Budget, DeployPc,
       Resource, Inv, TypeOK
  <1>36. CASE Repoint
    BY <1>36 DEF Repoint, Resource, Ticking, Resting, DeployPc, Inv, TypeOK
  <1>37. CASE BackoffPasses
    BY <1>37 DEF BackoffPasses, DeployPc, Resource, Inv, TypeOK
  <1>38. CASE Crash
    BY <1>38, SpendCounts DEF Crash, Idle, Resting, Budget, DeployPc, Resource, Inv, TypeOK
  <1>39. CASE Boot
    BY <1>39, SpendCounts DEF Boot, Listing, Budget, DeployPc, Resource, Inv, TypeOK
  <1>40. CASE Serve
    BY <1>40 DEF Serve, DeployPc, Resource, Inv, TypeOK
  <1>41. CASE RemovedByHand
    BY <1>41, SpendCounts DEF RemovedByHand, Present, Budget, DeployPc, Resource, Inv, TypeOK
  <1>42. CASE DeployLost
    BY <1>42, SpendCounts DEF DeployLost, EnqueueLost, CreateDeployment, Serving, Budget,
       DeployPc, Resource, Inv, TypeOK
  <1>43. CASE PlanLost
    BY <1>43, SpendCounts DEF PlanLost, EnqueueLost, CreateDeployment, Ticking, Budget, Resting,
       DeployPc, Resource, Inv, TypeOK
  <1>44. CASE HourPasses
    BY <1>44, SpendCounts DEF HourPasses, Budget, DeployPc, Resource, Inv, TypeOK
  <1> QED BY <1>1, <1>2, <1>3, <1>4, <1>5, <1>6, <1>7, <1>8, <1>9, <1>10, <1>11, <1>12, <1>13, <1>14,
     <1>15, <1>16, <1>17, <1>18, <1>19, <1>20, <1>21, <1>22, <1>23, <1>24, <1>25, <1>26,
     <1>27, <1>28, <1>29, <1>30, <1>31, <1>32, <1>33, <1>34, <1>35, <1>36, <1>37, <1>38,
     <1>39, <1>40, <1>41, <1>42, <1>43, <1>44
    DEF Next, Request, Work, Deploying, Stopping, Removing, Syncing, Reconciling

\* What may leave a route that the row does not want.
LEMMA OnSteps ==
  ASSUME Inv, RowInHand, Unrouted, Next, spent'["proxy"] = 0, route' # None, ~Wanted'
  PROVE  \/ route # None /\ ~Wanted
         \/ SwitchRoute \/ TakeRemove \/ Remove \/ SaveSettings \/ (SyncRoute /\ ~Wanted)
  <1>1. CASE Deploy
    BY <1>1, SpendCounts DEF Deploy, EnqueueDeploy, CreateDeployment, Serving, Budget, Wanted,
       RowInHand, Unrouted, Resource, Inv, TypeOK
  <1>2. CASE Rollback
    BY <1>2, SpendCounts DEF Rollback, EnqueueDeploy, CreateDeployment, Serving, Budget, Wanted,
       RowInHand, Unrouted, Resource, Inv, TypeOK
  <1>3. CASE Stop
    BY <1>3, SpendCounts DEF Stop, Serving, Budget, Wanted, RowInHand, Unrouted, Resource, Inv,
       TypeOK
  <1>4. CASE Remove
    BY <1>4, SpendCounts DEF Remove, Resource, Serving, Budget, Wanted, RowInHand, Unrouted,
       Inv, TypeOK
  <1>5. CASE SaveSettings
    BY <1>5, SpendCounts DEF SaveSettings, Resource, Serving, Budget, Wanted, RowInHand,
       Unrouted, Inv, TypeOK
  <1>6. CASE SkipJob
    BY <1>6 DEF SkipJob, Take, Wanted, RowInHand, Unrouted, Resource, Inv, TypeOK
  <1>7. CASE TakeDeploy
    BY <1>7 DEF TakeDeploy, Take, Idle, Wanted, RowInHand, Unrouted, Resource, Inv, TypeOK
  <1>8. CASE NoteOutgoing
    BY <1>8, SpendCounts DEF NoteOutgoing, At, Present, current, Budget, Wanted, RowInHand,
       Unrouted, Resource, Inv, TypeOK
  <1>9. CASE ReclaimStrays
    BY <1>9, SpendCounts DEF ReclaimStrays, At, Goto, Budget, Wanted, RowInHand, Unrouted,
       Resource, Inv, TypeOK
  <1>10. CASE CreateContainer
    BY <1>10 DEF CreateContainer, At, Present, current, Wanted, RowInHand, Unrouted, Resource,
       Inv, TypeOK
  <1>11. CASE StartContainer
    BY <1>11 DEF StartContainer, At, Goto, Present, Wanted, RowInHand, Unrouted, Resource, Inv,
       TypeOK
  <1>12. CASE PassHealthGate
    BY <1>12 DEF PassHealthGate, At, Goto, Live, Wanted, RowInHand, Unrouted, Resource, Inv,
       TypeOK
  <1>13. CASE SwitchRoute
    BY <1>13, SpendCounts DEF SwitchRoute, At, Budget, Wanted, RowInHand, Unrouted, Resource,
       Inv, TypeOK
  <1>14. CASE SwitchFails
    BY <1>14, SpendCounts DEF SwitchFails, At, Budget, Wanted, RowInHand, Unrouted, Resource,
       Inv, TypeOK
  <1>15. CASE RetireOld
    BY <1>15, SpendCounts DEF RetireOld, At, Goto, Budget, Wanted, RowInHand, Unrouted,
       Resource, Inv, TypeOK
  <1>16. CASE RecordSuccess
    BY <1>16 DEF RecordSuccess, At, JobEnds, Ends, Idle, Resource, Current, Wanted, RowInHand,
       Unrouted, Inv, TypeOK
  <1>17. CASE DeployThrows
    BY <1>17, SpendCounts DEF DeployThrows, At, Goto, Present, Live, Budget, Wanted, RowInHand,
       Unrouted, Resource, Inv, TypeOK
  <1>18. CASE CleanUp
    BY <1>18, SpendCounts DEF CleanUp, At, Goto, Budget, Wanted, RowInHand, Unrouted, Resource,
       Inv, TypeOK
  <1>19. CASE MarkFailed
    BY <1>19 DEF MarkFailed, At, JobEnds, Ends, Idle, Wanted, RowInHand, Unrouted, Resource,
       Inv, TypeOK
  <1>20. CASE TakeStop
    BY <1>20 DEF TakeStop, Take, Idle, Wanted, RowInHand, Unrouted, Resource, Inv, TypeOK
  <1>21. CASE StopContainer
    BY <1>21, SpendCounts DEF StopContainer, At, Goto, Present, Budget, Wanted, RowInHand,
       Unrouted, Resource, Inv, TypeOK
  <1>22. CASE StopRoute
    BY <1>22, SpendCounts DEF StopRoute, At, Goto, DeleteRoute, Budget, Wanted, RowInHand,
       Unrouted, Resource, Inv, TypeOK
  <1>23. CASE RecordStop
    BY <1>23 DEF RecordStop, At, JobEnds, Idle, Resource, Wanted, RowInHand, Unrouted, Inv,
       TypeOK
  <1>24. CASE TakeRemove
    BY <1>24 DEF TakeRemove, Take, Idle, Resource, Wanted, RowInHand, Unrouted, Inv, TypeOK
  <1>25. CASE RemoveContainer
    BY <1>25, SpendCounts DEF RemoveContainer, At, Goto, Budget, Wanted, RowInHand, Unrouted,
       Resource, Inv, TypeOK
  <1>26. CASE RemoveStrays
    BY <1>26, SpendCounts DEF RemoveStrays, At, Goto, Budget, Wanted, RowInHand, Unrouted,
       Resource, Inv, TypeOK
  <1>27. CASE RemoveRoute
    BY <1>27, SpendCounts DEF RemoveRoute, At, Goto, DeleteRoute, Budget, Wanted, RowInHand,
       Unrouted, Resource, Inv, TypeOK
  <1>28. CASE DeleteRow
    BY <1>28 DEF DeleteRow, At, JobEnds, Idle, Resource, Wanted, RowInHand, Unrouted, Inv,
       TypeOK
  <1>29. CASE LookAtRoutes
    BY <1>29 DEF LookAtRoutes, Take, Idle, Wanted, RowInHand, Unrouted, Resource, Inv, TypeOK
  <1>30. CASE SyncRoute
    BY <1>30, SpendCounts DEF SyncRoute, At, JobEnds, Idle, Live, Budget, Wanted, RowInHand,
       Unrouted, Resource, Inv, TypeOK
  <1>31. CASE SweepStaleRoute
    BY <1>31, SpendCounts DEF SweepStaleRoute, At, JobEnds, Idle, Budget, Wanted, RowInHand,
       Unrouted, Resource, Inv, TypeOK
  <1>32. CASE ListContainers
    BY <1>32 DEF ListContainers, Listing, Wanted, RowInHand, Unrouted, Resource, Inv, TypeOK
  <1>33. CASE PlanRedeploy
    BY <1>33 DEF PlanRedeploy, Planned, EnqueueDeploy, CreateDeployment, Ticking, Wanted,
       RowInHand, Unrouted, Resource, Inv, TypeOK
  <1>34. CASE SweepOrphans
    BY <1>34, SpendCounts DEF SweepOrphans, Ticking, Resting, Budget, Wanted, RowInHand,
       Unrouted, Resource, Inv, TypeOK
  <1>35. CASE InspectChosen
    BY <1>35, SpendCounts DEF InspectChosen, Present, Ticking, Resting, Budget, Wanted,
       RowInHand, Unrouted, Resource, Inv, TypeOK
  <1>36. CASE Repoint
    BY <1>36 DEF Repoint, Resource, Ticking, Resting, Wanted, RowInHand, Unrouted, Inv, TypeOK
  <1>37. CASE BackoffPasses
    BY <1>37 DEF BackoffPasses, Wanted, RowInHand, Unrouted, Resource, Inv, TypeOK
  <1>38. CASE Crash
    BY <1>38, SpendCounts DEF Crash, Idle, Resting, Budget, Wanted, RowInHand, Unrouted,
       Resource, Inv, TypeOK
  <1>39. CASE Boot
    BY <1>39, SpendCounts DEF Boot, Listing, Budget, Wanted, RowInHand, Unrouted, Resource, Inv,
       TypeOK
  <1>40. CASE Serve
    BY <1>40 DEF Serve, Wanted, RowInHand, Unrouted, Resource, Inv, TypeOK
  <1>41. CASE RemovedByHand
    BY <1>41, SpendCounts DEF RemovedByHand, Present, Budget, Wanted, RowInHand, Unrouted,
       Resource, Inv, TypeOK
  <1>42. CASE DeployLost
    BY <1>42, SpendCounts DEF DeployLost, EnqueueLost, CreateDeployment, Serving, Budget, Wanted,
       RowInHand, Unrouted, Resource, Inv, TypeOK
  <1>43. CASE PlanLost
    BY <1>43, SpendCounts DEF PlanLost, EnqueueLost, CreateDeployment, Ticking, Budget, Resting,
       Wanted, RowInHand, Unrouted, Resource, Inv, TypeOK
  <1>44. CASE HourPasses
    BY <1>44, SpendCounts DEF HourPasses, Budget, Wanted, RowInHand, Unrouted, Resource, Inv,
       TypeOK
  <1> QED BY <1>1, <1>2, <1>3, <1>4, <1>5, <1>6, <1>7, <1>8, <1>9, <1>10, <1>11, <1>12, <1>13, <1>14,
     <1>15, <1>16, <1>17, <1>18, <1>19, <1>20, <1>21, <1>22, <1>23, <1>24, <1>25, <1>26,
     <1>27, <1>28, <1>29, <1>30, <1>31, <1>32, <1>33, <1>34, <1>35, <1>36, <1>37, <1>38,
     <1>39, <1>40, <1>41, <1>42, <1>43, <1>44
    DEF Next, Request, Work, Deploying, Stopping, Removing, Syncing, Reconciling

\* While a sync is under way only requests change whether its route is wanted.
LEMMA RowSteps ==
  ASSUME Inv, Next, worker.pc = "rerouting", worker'.pc = "rerouting", Wanted, ~Wanted'
  PROVE  Remove \/ SaveSettings
  <1>1. CASE Deploy
    BY <1>1, SpendCounts DEF Deploy, EnqueueDeploy, CreateDeployment, Serving, Budget, Wanted,
       Resource, Inv, TypeOK
  <1>2. CASE Rollback
    BY <1>2, SpendCounts DEF Rollback, EnqueueDeploy, CreateDeployment, Serving, Budget, Wanted,
       Resource, Inv, TypeOK
  <1>3. CASE Stop
    BY <1>3, SpendCounts DEF Stop, Serving, Budget, Wanted, Resource, Inv, TypeOK
  <1>4. CASE Remove
    BY <1>4, SpendCounts DEF Remove, Resource, Serving, Budget, Wanted, Inv, TypeOK
  <1>5. CASE SaveSettings
    BY <1>5, SpendCounts DEF SaveSettings, Resource, Serving, Budget, Wanted, Inv, TypeOK
  <1>6. CASE SkipJob
    BY <1>6 DEF SkipJob, Take, Wanted, Resource, Inv, TypeOK
  <1>7. CASE TakeDeploy
    BY <1>7 DEF TakeDeploy, Take, Idle, Wanted, Resource, Inv, TypeOK
  <1>8. CASE NoteOutgoing
    BY <1>8, SpendCounts DEF NoteOutgoing, At, Present, current, Budget, Wanted, Resource, Inv,
       TypeOK
  <1>9. CASE ReclaimStrays
    BY <1>9, SpendCounts DEF ReclaimStrays, At, Goto, Budget, Wanted, Resource, Inv, TypeOK
  <1>10. CASE CreateContainer
    BY <1>10 DEF CreateContainer, At, Present, current, Wanted, Resource, Inv, TypeOK
  <1>11. CASE StartContainer
    BY <1>11 DEF StartContainer, At, Goto, Present, Wanted, Resource, Inv, TypeOK
  <1>12. CASE PassHealthGate
    BY <1>12 DEF PassHealthGate, At, Goto, Live, Wanted, Resource, Inv, TypeOK
  <1>13. CASE SwitchRoute
    BY <1>13, SpendCounts DEF SwitchRoute, At, Budget, Wanted, Resource, Inv, TypeOK
  <1>14. CASE SwitchFails
    BY <1>14, SpendCounts DEF SwitchFails, At, Budget, Wanted, Resource, Inv, TypeOK
  <1>15. CASE RetireOld
    BY <1>15, SpendCounts DEF RetireOld, At, Goto, Budget, Wanted, Resource, Inv, TypeOK
  <1>16. CASE RecordSuccess
    BY <1>16 DEF RecordSuccess, At, JobEnds, Ends, Idle, Resource, Current, Wanted, Inv, TypeOK
  <1>17. CASE DeployThrows
    BY <1>17, SpendCounts DEF DeployThrows, At, Goto, Present, Live, Budget, Wanted, Resource,
       Inv, TypeOK
  <1>18. CASE CleanUp
    BY <1>18, SpendCounts DEF CleanUp, At, Goto, Budget, Wanted, Resource, Inv, TypeOK
  <1>19. CASE MarkFailed
    BY <1>19 DEF MarkFailed, At, JobEnds, Ends, Idle, Wanted, Resource, Inv, TypeOK
  <1>20. CASE TakeStop
    BY <1>20 DEF TakeStop, Take, Idle, Wanted, Resource, Inv, TypeOK
  <1>21. CASE StopContainer
    BY <1>21, SpendCounts DEF StopContainer, At, Goto, Present, Budget, Wanted, Resource, Inv,
       TypeOK
  <1>22. CASE StopRoute
    BY <1>22, SpendCounts DEF StopRoute, At, Goto, DeleteRoute, Budget, Wanted, Resource, Inv,
       TypeOK
  <1>23. CASE RecordStop
    BY <1>23 DEF RecordStop, At, JobEnds, Idle, Resource, Wanted, Inv, TypeOK
  <1>24. CASE TakeRemove
    BY <1>24 DEF TakeRemove, Take, Idle, Resource, Wanted, Inv, TypeOK
  <1>25. CASE RemoveContainer
    BY <1>25, SpendCounts DEF RemoveContainer, At, Goto, Budget, Wanted, Resource, Inv, TypeOK
  <1>26. CASE RemoveStrays
    BY <1>26, SpendCounts DEF RemoveStrays, At, Goto, Budget, Wanted, Resource, Inv, TypeOK
  <1>27. CASE RemoveRoute
    BY <1>27, SpendCounts DEF RemoveRoute, At, Goto, DeleteRoute, Budget, Wanted, Resource, Inv,
       TypeOK
  <1>28. CASE DeleteRow
    BY <1>28 DEF DeleteRow, At, JobEnds, Idle, Resource, Wanted, Inv, TypeOK
  <1>29. CASE LookAtRoutes
    BY <1>29 DEF LookAtRoutes, Take, Idle, Wanted, Resource, Inv, TypeOK
  <1>30. CASE SyncRoute
    BY <1>30, SpendCounts DEF SyncRoute, At, JobEnds, Idle, Live, Budget, Wanted, Resource, Inv,
       TypeOK
  <1>31. CASE SweepStaleRoute
    BY <1>31, SpendCounts DEF SweepStaleRoute, At, JobEnds, Idle, Budget, Wanted, Resource, Inv,
       TypeOK
  <1>32. CASE ListContainers
    BY <1>32 DEF ListContainers, Listing, Wanted, Resource, Inv, TypeOK
  <1>33. CASE PlanRedeploy
    BY <1>33 DEF PlanRedeploy, Planned, EnqueueDeploy, CreateDeployment, Ticking, Wanted,
       Resource, Inv, TypeOK
  <1>34. CASE SweepOrphans
    BY <1>34, SpendCounts DEF SweepOrphans, Ticking, Resting, Budget, Wanted, Resource, Inv,
       TypeOK
  <1>35. CASE InspectChosen
    BY <1>35, SpendCounts DEF InspectChosen, Present, Ticking, Resting, Budget, Wanted,
       Resource, Inv, TypeOK
  <1>36. CASE Repoint
    BY <1>36 DEF Repoint, Resource, Ticking, Resting, Wanted, Inv, TypeOK
  <1>37. CASE BackoffPasses
    BY <1>37 DEF BackoffPasses, Wanted, Resource, Inv, TypeOK
  <1>38. CASE Crash
    BY <1>38, SpendCounts DEF Crash, Idle, Resting, Budget, Wanted, Resource, Inv, TypeOK
  <1>39. CASE Boot
    BY <1>39, SpendCounts DEF Boot, Listing, Budget, Wanted, Resource, Inv, TypeOK
  <1>40. CASE Serve
    BY <1>40 DEF Serve, Wanted, Resource, Inv, TypeOK
  <1>41. CASE RemovedByHand
    BY <1>41, SpendCounts DEF RemovedByHand, Present, Budget, Wanted, Resource, Inv, TypeOK
  <1>42. CASE DeployLost
    BY <1>42, SpendCounts DEF DeployLost, EnqueueLost, CreateDeployment, Serving, Budget, Wanted,
       Resource, Inv, TypeOK
  <1>43. CASE PlanLost
    BY <1>43, SpendCounts DEF PlanLost, EnqueueLost, CreateDeployment, Ticking, Budget, Resting,
       Wanted, Resource, Inv, TypeOK
  <1>44. CASE HourPasses
    BY <1>44, SpendCounts DEF HourPasses, Budget, Wanted, Resource, Inv, TypeOK
  <1> QED BY <1>1, <1>2, <1>3, <1>4, <1>5, <1>6, <1>7, <1>8, <1>9, <1>10, <1>11, <1>12, <1>13, <1>14,
     <1>15, <1>16, <1>17, <1>18, <1>19, <1>20, <1>21, <1>22, <1>23, <1>24, <1>25, <1>26,
     <1>27, <1>28, <1>29, <1>30, <1>31, <1>32, <1>33, <1>34, <1>35, <1>36, <1>37, <1>38,
     <1>39, <1>40, <1>41, <1>42, <1>43, <1>44
    DEF Next, Request, Work, Deploying, Stopping, Removing, Syncing, Reconciling

\* A job that ends with the route on, before and after, is no stop, removal or sweep.
LEMMA EndSteps ==
  ASSUME Inv, RowInHand, Unrouted, Next, spent'["proxy"] = 0, route # None, route' # None,
         queue # << >>, queue' = Tail(queue), queue' # queue
  PROVE  RecordSuccess \/ SyncRoute \/ MarkFailed
  <1>a. ASSUME NEW job PROVE queue' # Append(queue, job)
    <2> DEFINE more == Append(queue, job)
               rest == Tail(queue)
    <2>1. queue \in Seq(Job) /\ Len(queue) \in Nat
      BY DEF Inv, TypeOK
    <2>2. Len(rest) = Len(queue) - 1
      BY <2>1, HeadTailProperties
    <2>3. Len(more) = Len(queue) + 1
      BY <2>1
    <2> HIDE DEF more, rest
    <2>4. Len(rest) # Len(more)
      BY <2>1, <2>2, <2>3
    <2>5. rest # more
      BY <2>4
    <2> QED BY <2>5 DEF more, rest
  <1>1. CASE Deploy
    BY <1>1, SpendCounts, <1>a DEF Deploy, EnqueueDeploy, CreateDeployment, Serving, Budget,
       RowInHand, Unrouted, Inv, TypeOK
  <1>2. CASE Rollback
    BY <1>2, SpendCounts, <1>a DEF Rollback, EnqueueDeploy, CreateDeployment, Serving, Budget,
       RowInHand, Unrouted, Inv, TypeOK
  <1>3. CASE Stop
    BY <1>3, SpendCounts, <1>a DEF Stop, Serving, Budget, RowInHand, Unrouted, Inv, TypeOK
  <1>4. CASE Remove
    BY <1>4, SpendCounts, <1>a DEF Remove, Resource, Serving, Budget, RowInHand, Unrouted, Inv,
       TypeOK
  <1>5. CASE SaveSettings
    BY <1>5, SpendCounts, <1>a DEF SaveSettings, Resource, Serving, Budget, RowInHand, Unrouted,
       Inv, TypeOK
  <1>6. CASE SkipJob
    BY <1>6 DEF SkipJob, Take, RowInHand, Unrouted, Inv, TypeOK
  <1>7. CASE TakeDeploy
    BY <1>7 DEF TakeDeploy, Take, Idle, RowInHand, Unrouted, Inv, TypeOK
  <1>8. CASE NoteOutgoing
    BY <1>8, SpendCounts DEF NoteOutgoing, At, Present, current, Budget, RowInHand, Unrouted,
       Inv, TypeOK
  <1>9. CASE ReclaimStrays
    BY <1>9, SpendCounts DEF ReclaimStrays, At, Goto, Budget, RowInHand, Unrouted, Inv, TypeOK
  <1>10. CASE CreateContainer
    BY <1>10 DEF CreateContainer, At, Present, current, RowInHand, Unrouted, Inv, TypeOK
  <1>11. CASE StartContainer
    BY <1>11 DEF StartContainer, At, Goto, Present, RowInHand, Unrouted, Inv, TypeOK
  <1>12. CASE PassHealthGate
    BY <1>12 DEF PassHealthGate, At, Goto, Live, RowInHand, Unrouted, Inv, TypeOK
  <1>13. CASE SwitchRoute
    BY <1>13, SpendCounts DEF SwitchRoute, At, Budget, RowInHand, Unrouted, Inv, TypeOK
  <1>14. CASE SwitchFails
    BY <1>14, SpendCounts DEF SwitchFails, At, Budget, RowInHand, Unrouted, Inv, TypeOK
  <1>15. CASE RetireOld
    BY <1>15, SpendCounts DEF RetireOld, At, Goto, Budget, RowInHand, Unrouted, Inv, TypeOK
  <1>16. CASE RecordSuccess
    BY <1>16 DEF RecordSuccess, At, JobEnds, Ends, Idle, Resource, Current, RowInHand, Unrouted,
       Inv, TypeOK
  <1>17. CASE DeployThrows
    BY <1>17, SpendCounts DEF DeployThrows, At, Goto, Present, Live, Budget, RowInHand,
       Unrouted, Inv, TypeOK
  <1>18. CASE CleanUp
    BY <1>18, SpendCounts DEF CleanUp, At, Goto, Budget, RowInHand, Unrouted, Inv, TypeOK
  <1>19. CASE MarkFailed
    BY <1>19 DEF MarkFailed, At, JobEnds, Ends, Idle, RowInHand, Unrouted, Inv, TypeOK
  <1>20. CASE TakeStop
    BY <1>20 DEF TakeStop, Take, Idle, RowInHand, Unrouted, Inv, TypeOK
  <1>21. CASE StopContainer
    BY <1>21, SpendCounts DEF StopContainer, At, Goto, Present, Budget, RowInHand, Unrouted,
       Inv, TypeOK
  <1>22. CASE StopRoute
    BY <1>22, SpendCounts DEF StopRoute, At, Goto, DeleteRoute, Budget, RowInHand, Unrouted,
       Inv, TypeOK
  <1>23. CASE RecordStop
    BY <1>23 DEF RecordStop, At, JobEnds, Idle, Resource, RowInHand, Unrouted, Inv, TypeOK
  <1>24. CASE TakeRemove
    BY <1>24 DEF TakeRemove, Take, Idle, Resource, RowInHand, Unrouted, Inv, TypeOK
  <1>25. CASE RemoveContainer
    BY <1>25, SpendCounts DEF RemoveContainer, At, Goto, Budget, RowInHand, Unrouted, Inv,
       TypeOK
  <1>26. CASE RemoveStrays
    BY <1>26, SpendCounts DEF RemoveStrays, At, Goto, Budget, RowInHand, Unrouted, Inv, TypeOK
  <1>27. CASE RemoveRoute
    BY <1>27, SpendCounts DEF RemoveRoute, At, Goto, DeleteRoute, Budget, RowInHand, Unrouted,
       Inv, TypeOK
  <1>28. CASE DeleteRow
    BY <1>28 DEF DeleteRow, At, JobEnds, Idle, Resource, RowInHand, Unrouted, Inv, TypeOK
  <1>29. CASE LookAtRoutes
    BY <1>29 DEF LookAtRoutes, Take, Idle, Wanted, RowInHand, Unrouted, Inv, TypeOK
  <1>30. CASE SyncRoute
    BY <1>30, SpendCounts DEF SyncRoute, At, JobEnds, Idle, Live, Budget, RowInHand, Unrouted,
       Inv, TypeOK
  <1>31. CASE SweepStaleRoute
    BY <1>31, SpendCounts DEF SweepStaleRoute, At, JobEnds, Idle, Budget, RowInHand, Unrouted,
       Inv, TypeOK
  <1>32. CASE ListContainers
    BY <1>32 DEF ListContainers, Listing, RowInHand, Unrouted, Inv, TypeOK
  <1>33. CASE PlanRedeploy
    BY <1>33, <1>a DEF PlanRedeploy, Planned, EnqueueDeploy, CreateDeployment, Ticking, RowInHand,
       Unrouted, Inv, TypeOK
  <1>34. CASE SweepOrphans
    BY <1>34, SpendCounts DEF SweepOrphans, Ticking, Resting, Budget, RowInHand, Unrouted, Inv,
       TypeOK
  <1>35. CASE InspectChosen
    BY <1>35, SpendCounts DEF InspectChosen, Present, Ticking, Resting, Budget, RowInHand,
       Unrouted, Inv, TypeOK
  <1>36. CASE Repoint
    BY <1>36 DEF Repoint, Resource, Ticking, Resting, RowInHand, Unrouted, Inv, TypeOK
  <1>37. CASE BackoffPasses
    BY <1>37 DEF BackoffPasses, RowInHand, Unrouted, Inv, TypeOK
  <1>38. CASE Crash
    BY <1>38, SpendCounts DEF Crash, Idle, Resting, Budget, RowInHand, Unrouted, Inv, TypeOK
  <1>39. CASE Boot
    BY <1>39, SpendCounts DEF Boot, Listing, Budget, RowInHand, Unrouted, Inv, TypeOK
  <1>40. CASE Serve
    BY <1>40 DEF Serve, RowInHand, Unrouted, Inv, TypeOK
  <1>41. CASE RemovedByHand
    BY <1>41, SpendCounts DEF RemovedByHand, Present, Budget, RowInHand, Unrouted, Inv, TypeOK
  <1>42. CASE DeployLost
    BY <1>42, SpendCounts, <1>a DEF DeployLost, EnqueueLost, CreateDeployment, Serving, Budget,
       RowInHand, Unrouted, Inv, TypeOK
  <1>43. CASE PlanLost
    BY <1>43, SpendCounts, <1>a DEF PlanLost, EnqueueLost, CreateDeployment, Ticking, Budget,
       Resting, RowInHand, Unrouted, Inv, TypeOK
  <1>44. CASE HourPasses
    BY <1>44, SpendCounts DEF HourPasses, Budget, RowInHand, Unrouted, Inv, TypeOK
  <1> QED BY <1>1, <1>2, <1>3, <1>4, <1>5, <1>6, <1>7, <1>8, <1>9, <1>10, <1>11, <1>12, <1>13, <1>14,
     <1>15, <1>16, <1>17, <1>18, <1>19, <1>20, <1>21, <1>22, <1>23, <1>24, <1>25, <1>26,
     <1>27, <1>28, <1>29, <1>30, <1>31, <1>32, <1>33, <1>34, <1>35, <1>36, <1>37, <1>38,
     <1>39, <1>40, <1>41, <1>42, <1>43, <1>44
    DEF Next, Request, Work, Deploying, Stopping, Removing, Syncing, Reconciling

LEMMA BehindStays ==
  ASSUME Inv, NEW kinds, Behind(kinds), queue' = queue \/ \E job : queue' = Append(queue, job)
  PROVE  Behind(kinds)'
  <1>1. queue \in Seq(Job)
    BY DEF Inv, TypeOK
  <1>2. PICK i \in 2..Len(queue) : queue[i].kind \in kinds
    BY DEF Behind
  <1>3. i \in 2..Len(queue') /\ queue'[i] = queue[i]
    BY <1>1, <1>2
  <1> QED BY <1>2, <1>3 DEF Behind

LEMMA BehindQueued ==
  ASSUME Inv, NEW kinds, NEW kind \in kinds, queue # << >>,
         queue' = Append(queue, [kind |-> kind, id |-> None])
  PROVE  Behind(kinds)'
  <1>1. queue \in Seq(Job) /\ Len(queue) \in Nat /\ Len(queue) >= 1
    BY DEF Inv, TypeOK
  <1>2. Len(queue) + 1 \in 2..Len(queue') /\ queue'[Len(queue) + 1] = [kind |-> kind, id |-> None]
    BY <1>1
  <1>3. queue'[Len(queue) + 1].kind = kind
    BY <1>2
  <1> QED BY <1>2, <1>3 DEF Behind

\* What was behind the head is in the queue when the head is done.
LEMMA BehindComes ==
  ASSUME Inv, NEW kinds, Behind(kinds), queue # << >>, queue' = Tail(queue)
  PROVE  \E i \in 1..Len(queue') : queue'[i].kind \in kinds
  <1>1. /\ queue \in Seq(Job) /\ Len(queue') = Len(queue) - 1
        /\ \A i \in 1..Len(queue') : queue'[i] = queue[i + 1]
    BY HeadTailProperties DEF Inv, TypeOK
  <1>2. PICK i \in 2..Len(queue) : queue[i].kind \in kinds
    BY DEF Behind
  <1>3. i - 1 \in 1..Len(queue') /\ queue'[i - 1] = queue[i]
    BY <1>1, <1>2
  <1> QED BY <1>2, <1>3

LEMMA ChangesStep == Inv /\ ChangesQueued /\ Next => ChangesQueued'
  <1> SUFFICES ASSUME Inv, ChangesQueued, Next PROVE ChangesQueued'
    OBVIOUS
  <1>1. /\ worker'.pc # "idle" => queue' = queue \/ \E job : queue' = Append(queue, job)
        /\ worker.pc # "idle" => queue # << >>
        /\ \A pc \in DeployPc : pc # "idle"
    BY QueueSteps DEF Inv, JobInHand, DeployPc
  <1>2. ASSUME worker'.pc \in DeployPc, worker'.port, ~row'.port
        PROVE  Behind({"sync"})'
    <2>1. worker.pc \in DeployPc /\ worker.port /\ (~row.port \/ SaveSettings)
      BY <1>2, PcSteps
    <2>2. CASE ~row.port
      BY <1>1, <1>2, <2>1, <2>2, BehindStays DEF ChangesQueued
    <2>3. CASE SaveSettings
      <3>1. queue' = Append(queue, [kind |-> "sync", id |-> None]) /\ queue # << >>
        BY <1>1, <2>1, <2>3 DEF SaveSettings
      <3> QED BY <3>1, BehindQueued
    <2> QED BY <2>1, <2>2, <2>3
  <1>3. ASSUME worker'.pc = "rerouting", ~Wanted'
        PROVE  Behind({"sync", "remove"})'
    <2>1. ~LookAtRoutes
      <3>1. SUFFICES ASSUME LookAtRoutes PROVE FALSE
        OBVIOUS
      <3>2. Wanted
        BY <1>3, <3>1 DEF LookAtRoutes, Idle, Inv, TypeOK
      <3> QED BY <1>3, <3>1, <3>2 DEF LookAtRoutes, Wanted
    <2>2. worker.pc = "rerouting" /\ queue # << >>
      BY <1>1, <1>3, <2>1, PcSteps
    <2>3. CASE ~Wanted
      BY <1>1, <1>3, <2>2, <2>3, BehindStays DEF ChangesQueued
    <2>4. CASE Wanted
      <3>1. Remove \/ SaveSettings
        BY <1>3, <2>2, <2>4, RowSteps
      <3>2. \E kind \in {"sync", "remove"} : queue' = Append(queue, [kind |-> kind, id |-> None])
        BY <3>1 DEF Remove, SaveSettings
      <3> QED BY <2>2, <3>2, BehindQueued
    <2> QED BY <2>3, <2>4
  <1> QED BY <1>2, <1>3 DEF ChangesQueued

LEMMA SettledStep ==
  ASSUME Inv, RowInHand, Unrouted, ChangesQueued, Next, spent'["proxy"] = 0,
         NEW sure, Offs \subseteq sure, "sync" \notin sure, Settled(sure),
         "deploy" \in sure => worker.pc # "cleaned", "deploy" \notin sure => ~Crash
  PROVE  Settled(sure)'
  <1> SUFFICES ASSUME route' # None, ~Wanted'
               PROVE  \E i \in 1..Len(queue') : Settles(i, sure)'
    BY DEF Settled
  <1>0. /\ queue \in Seq(Job) /\ spent["proxy"] = 0
        /\ queue # << >> => 1 \in 1..Len(queue) /\ Head(queue) = queue[1]
        /\ worker.pc # "idle" => queue # << >>
    BY SpentStays DEF Inv, TypeOK, Budget, JobInHand
  <1>1. CASE SwitchRoute
    <2>1. /\ queue' = queue /\ worker'.pc = "switched" /\ worker.pc \in DeployPc
          /\ worker.pc # "idle"
      BY <1>1 DEF SwitchRoute, At, DeployPc, Inv, TypeOK
    <2>2. Settles(1, sure)'
      BY <1>0, <2>1 DEF Settles, Inv, JobInHand
    <2> QED BY <1>0, <2>1, <2>2
  <1>2. CASE TakeRemove
    <2>1. queue' = queue /\ queue # << >> /\ Head(queue).kind = "remove"
      BY <1>2 DEF TakeRemove, Take
    <2>2. Settles(1, sure)'
      BY <1>0, <2>1 DEF Settles, Offs
    <2> QED BY <1>0, <2>1, <2>2
  <1>3. CASE Remove \/ SaveSettings
    <2>1. PICK kind \in {"remove", "sync"} : queue' = Append(queue, [kind |-> kind, id |-> None])
      BY <1>3 DEF Remove, SaveSettings
    <2>2. PICK n \in 1..Len(queue') : n = Len(queue) + 1
      BY <1>0, <2>1
    <2>3. queue'[n] = [kind |-> kind, id |-> None]
      BY <1>0, <2>1, <2>2
    <2>4. worker' = worker /\ (n > 1 \/ worker.pc = "idle")
      <3>1. worker' = worker
        BY <1>3 DEF Remove, SaveSettings
      <3>2. Len(queue) \in Nat /\ (worker.pc # "idle" => 1 \in 1..Len(queue))
        BY <1>0
      <3> QED BY <3>1, <3>2, <2>2
    <2>5. queue'[n].kind = kind
      BY <2>3
    <2>6. Settles(n, sure)'
      BY <2>4, <2>5 DEF Settles, Offs
    <2> QED BY <2>6
  <1>4. CASE SyncRoute /\ ~Wanted
    <2>1. /\ queue # << >> /\ queue' = Tail(queue) /\ worker'.pc = "idle"
          /\ Behind({"sync", "remove"})
      BY <1>0, <1>4 DEF SyncRoute, At, JobEnds, Idle, ChangesQueued
    <2>2. PICK i \in 1..Len(queue') : queue'[i].kind \in {"sync", "remove"}
      BY <2>1, BehindComes
    <2>3. Settles(i, sure)'
      BY <2>1, <2>2 DEF Settles, Offs
    <2> QED BY <2>3
  <1>5. CASE RecordSuccess
    <2>1. /\ queue # << >> /\ queue' = Tail(queue) /\ worker'.pc = "idle" /\ route' = route
          /\ worker.pc = "retired" /\ worker.pc \in DeployPc
      BY <1>0, <1>5 DEF RecordSuccess, At, JobEnds, Idle, DeployPc
    <2>2. row'.exists = row.exists /\ row'.desired = "running" /\ row'.port = row.port
      BY <1>5 DEF RecordSuccess, Inv, TypeOK, Resource
    <2>3. ~row.port /\ worker.port
      BY <1>0, <2>1, <2>2 DEF Wanted, RowInHand, Unrouted
    <2>4. PICK i \in 1..Len(queue') : queue'[i].kind \in {"sync"}
      BY <2>1, <2>3, BehindComes DEF ChangesQueued
    <2>5. Settles(i, sure)'
      BY <2>1, <2>4 DEF Settles
    <2> QED BY <2>5
  <1>6. CASE route # None /\ ~Wanted /\ ~RecordSuccess /\ ~SyncRoute
    <2>1. PICK i \in 1..Len(queue) : Settles(i, sure)
      BY <1>6 DEF Settled
    <2>2. CASE queue' = queue \/ \E job : queue' = Append(queue, job)
      <3>1. i \in 1..Len(queue') /\ queue'[i] = queue[i]
        BY <1>0, <2>1, <2>2
      <3>2. worker'.pc = "rerouting" => worker.pc = "rerouting"
        BY <1>6, PcSteps DEF LookAtRoutes, Idle, Inv, TypeOK
      <3>3. "deploy" \in sure \/ worker.pc \notin {"switched", "retired"}
              \/ worker'.pc \in {"switched", "retired"}
        BY <1>6, PcSteps
      <3>4. Settles(i, sure)'
        BY <2>1, <3>1, <3>2, <3>3 DEF Settles
      <3> QED BY <3>1, <3>4
    <2>3. CASE queue # << >> /\ queue' = Tail(queue) /\ queue' # queue
      <3>1. MarkFailed
        BY <1>0, <1>6, <2>3, EndSteps
      <3>2. worker.pc = "cleaned" /\ worker.pc \in DeployPc /\ worker'.pc = "idle"
        BY <3>1 DEF MarkFailed, At, JobEnds, Idle, DeployPc
      <3>3. i # 1
        BY <1>0, <2>1, <2>3, <3>2 DEF Settles, Offs, Inv, JobInHand
      <3>4. /\ Len(queue') = Len(queue) - 1
            /\ \A k \in 1..Len(queue') : queue'[k] = queue[k + 1]
        BY <1>0, <2>3, HeadTailProperties
      <3>5. i - 1 \in 1..Len(queue') /\ queue'[i - 1] = queue[i]
        BY <1>0, <2>1, <3>3, <3>4
      <3>6. Settles(i - 1, sure)'
        BY <2>1, <3>2, <3>3, <3>5 DEF Settles
      <3> QED BY <3>5, <3>6
    <2> QED BY <2>2, <2>3, QueueSteps
  <1> QED BY <1>1, <1>2, <1>3, <1>4, <1>5, <1>6, OnSteps

\* A route is on only while the row wants it, or a job that is queued or under
\* way will take it away or make it wanted: whatever the requests change while a
\* deploy or a sync is under way, the job that notices comes behind it
\* (syncResourceRoutes in jobs/routes.ts, runStop and runRemove in
\* jobs/index.ts, 8a and 8c in jobs/deploy.ts).
THEOREM NoRouteIsLeftOn == Spec => []RouteIsWanted
  <1>1. Init => WantInv
    BY DEF Init, WantInv, RowInHand, Unrouted, GoesThrough, ChangesQueued, RouteJobs, Settled,
       Idle, DeployPc
  <1>2. Inv /\ WantInv /\ [Next]_vars => WantInv'
    <2> SUFFICES ASSUME Inv, WantInv, [Next]_vars PROVE WantInv'
      OBVIOUS
    <2>1. CASE Next
      <3>1. RowInHand' /\ Unrouted' /\ GoesThrough' /\ ChangesQueued'
        BY <2>1, RowInHandStep, UnroutedStep, GoesThroughStep, ChangesStep DEF WantInv
      <3>2. \A b \in Budget : spent'[b] = 0 => spent[b] = 0
        BY <2>1, SpentStays
      <3>3. ASSUME Without({"proxy", "crashes"})' PROVE Settled(Offs)'
        <4>1. spent'["proxy"] = 0 /\ spent'["crashes"] = 0 /\ Without({"proxy", "crashes"})
          BY <3>2, <3>3 DEF Without, Budget
        <4>2. ~Crash
          BY <2>1, <4>1, CrashesCount
        <4> QED BY <2>1, <4>1, <4>2, SettledStep DEF WantInv, RouteJobs, Offs
      <3>4. ASSUME Without({"proxy", "failures", "byHand"})'
            PROVE  Settled(Offs \cup {"deploy"})'
        <4>1. spent'["proxy"] = 0 /\ Without({"proxy", "failures", "byHand"})
          BY <3>2, <3>4 DEF Without, Budget
        <4>2. worker.pc # "cleaned" /\ Settled(Offs \cup {"deploy"})
          BY <4>1 DEF WantInv, GoesThrough, RouteJobs
        <4> QED BY <2>1, <4>1, <4>2, SettledStep DEF WantInv, Offs
      <3> QED BY <3>1, <3>3, <3>4 DEF WantInv, RouteJobs
    <2>2. CASE UNCHANGED vars
      BY <2>2 DEF vars, WantInv, RowInHand, Unrouted, GoesThrough, ChangesQueued, Behind,
         RouteJobs, Settled, Settles, Without, Wanted, Present, Live
    <2> QED BY <2>1, <2>2
  <1>3. WantInv => RouteIsWanted
    <2> SUFFICES ASSUME WantInv, Quiet, Without({"proxy"}),
                        Without({"crashes"}) \/ Without({"failures", "byHand"}), route # None
                 PROVE  Wanted
      BY DEF RouteIsWanted
    <2>1. 1..Len(queue) = {}
      BY DEF Quiet
    <2>2. Settled(Offs) \/ Settled(Offs \cup {"deploy"})
      BY DEF WantInv, RouteJobs, Without
    <2> QED BY <2>1, <2>2 DEF Settled
  <1> QED BY <1>1, <1>2, <1>3, AlwaysInv, PTL DEF Spec


-----------------------------------------------------------------------------
(* What a deploy takes away.                                               *)

\* With no crash and every call to Docker and the proxy answered, a resource
\* has one container between deploys, and the one a deploy read and its own
\* within one.
OneAtATime ==
  Without({"crashes", "proxy", "docker"}) =>
    /\ worker.pc \notin {"created", "started", "healthy", "switched", "threw"} =>
         \A d, e \in Present : d = e
    /\ worker.pc = "threw" => \A d, e \in Present \ {worker.new} : d = e
    /\ worker.pc \in {"reclaimed", "created", "started", "healthy", "switched"} =>
         Present \subseteq {worker.old, worker.new}
    /\ worker.pc = "retired" => Present \subseteq {worker.new}
    /\ worker.pc \in Early \cup {"created", "started", "healthy", "threw"} => ~worker.switching

\* The route leaves what the deploy read for what it made in one step, and is
\* none before the first deploy's.
RouteFollows ==
  Without({"crashes", "proxy", "docker"}) =>
    /\ /\ worker.pc \in {"asked", "running", "reclaimed", "created", "started", "healthy", "threw"}
       /\ worker.new # None
       => route # worker.new
    /\ worker.pc \in {"switched", "retired"} => route \in {None, worker.new}
    /\ worker.pc \notin {"switched", "retired"} /\ row.container = None => route = None
    /\ worker.pc \in {"asked", "running"} /\ worker.old = None => route = None
    /\ worker.old # None => row.container # None
    /\ recon.pc \in {"inspected", "swept"} => recon.chosen # None

LEMMA OneAtATimeStep == Inv /\ OwnContainer /\ RouteFollows /\ OneAtATime /\ Next => OneAtATime'
  <1> SUFFICES ASSUME Inv, OwnContainer, RouteFollows, OneAtATime, Next PROVE OneAtATime'
    OBVIOUS
  <1>a. \A b \in Budget : spent'[b] = 0 => spent[b] = 0
    BY SpentStays
  <1>b. containers \in [DeployId -> {"none", "still", "running"}]
    BY DEF Inv, TypeOK
  <1>c. Without({"crashes", "proxy", "docker"})' => Without({"crashes", "proxy", "docker"})
    BY <1>a DEF Without, Budget
  <1>d. None \notin Present
    BY BoundsAssumption DEF Present, DeployId, None
  <1>1. CASE Deploy
    BY <1>1, <1>c DEF Deploy, OneAtATime, Present
  <1>2. CASE Rollback
    BY <1>2, <1>c DEF Rollback, OneAtATime, Present
  <1>3. CASE Stop
    BY <1>3, SpendCounts, <1>a, <1>b DEF Stop, Serving, Budget, OneAtATime, RouteFollows,
       Without, Present, Live, Early, OwnContainer, Inv, TypeOK
  <1>4. CASE Remove
    BY <1>4, SpendCounts, <1>a, <1>b DEF Remove, Resource, Serving, Budget, OneAtATime,
       RouteFollows, Without, Present, Live, Early, OwnContainer, Inv, TypeOK
  <1>5. CASE SaveSettings
    BY <1>5, SpendCounts, <1>a, <1>b DEF SaveSettings, Resource, Serving, Budget, OneAtATime,
       RouteFollows, Without, Present, Live, Early, OwnContainer, Inv, TypeOK
  <1>6. CASE SkipJob
    BY <1>6, <1>a, <1>b DEF SkipJob, Take, OneAtATime, RouteFollows, Without, Present, Live,
       Budget, Early, OwnContainer, Inv, TypeOK
  <1>7. CASE TakeDeploy
    BY <1>7, <1>a, <1>b DEF TakeDeploy, Take, Idle, OneAtATime, RouteFollows, Without, Present,
       Live, Budget, Early, OwnContainer, Inv, TypeOK
  <1>8. CASE NoteOutgoing
    <2>1. /\ containers' = containers /\ worker.pc = "asked" /\ worker'.pc = "running"
          /\ worker'.switching = worker.switching
      BY <1>8 DEF NoteOutgoing, At, Inv, TypeOK
    <2> QED BY <2>1, <1>c DEF OneAtATime, Present, Early
  <1>9. CASE ReclaimStrays
    BY <1>9, SpendCounts, <1>a, <1>b DEF ReclaimStrays, At, Goto, Budget, OneAtATime,
       RouteFollows, Without, Present, Live, Early, OwnContainer, Inv, TypeOK
  <1>10. CASE CreateContainer
    BY <1>10, <1>a, <1>b, CurrentRow, <1>d DEF DeployPc, CreateContainer, At, Present, current,
       OneAtATime, RouteFollows, Without, Live, Budget, Early, OwnContainer, Inv, TypeOK
  <1>11. CASE StartContainer
    BY <1>11, <1>a, <1>b DEF StartContainer, At, Goto, Present, OneAtATime, RouteFollows,
       Without, Live, Budget, Early, OwnContainer, Inv, TypeOK
  <1>12. CASE PassHealthGate
    BY <1>12, <1>a, <1>b DEF PassHealthGate, At, Goto, Live, OneAtATime, RouteFollows, Without,
       Present, Budget, Early, OwnContainer, Inv, TypeOK
  <1>13. CASE SwitchRoute
    BY <1>13, SpendCounts, <1>a, <1>b DEF SwitchRoute, At, Budget, OneAtATime, RouteFollows,
       Without, Present, Live, Early, OwnContainer, Inv, TypeOK
  <1>14. CASE SwitchFails
    BY <1>14, SpendCounts, <1>a, <1>b DEF SwitchFails, At, Budget, OneAtATime, RouteFollows,
       Without, Present, Live, Early, OwnContainer, Inv, TypeOK
  <1>15. CASE RetireOld
    <2>1. worker.pc = "switched" /\ worker'.pc = "retired"
      BY <1>15 DEF RetireOld, At, Goto, Inv, TypeOK
    <2> SUFFICES ASSUME Without({"crashes", "proxy", "docker"})'
                 PROVE  \A d \in Present' : d = worker'.new
      BY <2>1 DEF OneAtATime, Early
    <2>2. /\ containers' = IF worker.old \in DeployId \ {worker.new}
                           THEN [containers EXCEPT ![worker.old] = "none"] ELSE containers
          /\ worker'.new = worker.new
      BY <1>15, SpendCounts DEF RetireOld, Goto, Without, Budget, Inv, TypeOK
    <2>3. \A d \in Present : d = worker.old \/ d = worker.new
      BY <1>c, <2>1 DEF OneAtATime
    <2> QED BY <2>2, <2>3, <1>b DEF Present
  <1>16. CASE RecordSuccess
    BY <1>16, <1>a, <1>b DEF RecordSuccess, At, JobEnds, Ends, Idle, Resource, Current,
       OneAtATime, RouteFollows, Without, Present, Live, Budget, Early, OwnContainer, Inv,
       TypeOK
  <1>17. CASE DeployThrows
    BY <1>17, SpendCounts, <1>a, <1>b DEF DeployThrows, At, Goto, Present, Live, Budget,
       OneAtATime, RouteFollows, Without, Early, OwnContainer, Inv, TypeOK
  <1>18. CASE CleanUp
    <2>1. worker.pc = "threw" /\ worker'.pc = "cleaned"
      BY <1>18 DEF CleanUp, At, Goto, Inv, TypeOK
    <2> SUFFICES ASSUME Without({"crashes", "proxy", "docker"})'
                 PROVE  \A d, e \in Present' : d = e
      BY <2>1 DEF OneAtATime, Early
    <2>2. ~worker.switching /\ \A d, e \in Present \ {worker.new} : d = e
      BY <1>c, <2>1 DEF OneAtATime
    <2>3. containers' = IF worker.new # None
                        THEN [containers EXCEPT ![worker.new] = "none"] ELSE containers
      BY <1>18, <2>2, SpendCounts DEF CleanUp, Without, Budget, Inv, TypeOK
    <2>4. worker.new \in DeployId \cup {None}
      BY DEF Inv, TypeOK
    <2>5. \A d \in Present' : d \in Present \ {worker.new}
      BY <2>3, <2>4, <1>b, BoundsAssumption DEF Present, DeployId, None
    <2> QED BY <2>2, <2>5
  <1>19. CASE MarkFailed
    BY <1>19, <1>a, <1>b DEF MarkFailed, At, JobEnds, Ends, Idle, OneAtATime, RouteFollows,
       Without, Present, Live, Budget, Early, OwnContainer, Inv, TypeOK
  <1>20. CASE TakeStop
    BY <1>20, <1>a, <1>b DEF TakeStop, Take, Idle, OneAtATime, RouteFollows, Without, Present,
       Live, Budget, Early, OwnContainer, Inv, TypeOK
  <1>21. CASE StopContainer
    BY <1>21, SpendCounts, <1>a, <1>b DEF StopContainer, At, Goto, Present, Budget, OneAtATime,
       RouteFollows, Without, Live, Early, OwnContainer, Inv, TypeOK
  <1>22. CASE StopRoute
    BY <1>22, SpendCounts, <1>a, <1>b DEF StopRoute, At, Goto, DeleteRoute, Budget, OneAtATime,
       RouteFollows, Without, Present, Live, Early, OwnContainer, Inv, TypeOK
  <1>23. CASE RecordStop
    BY <1>23, <1>a, <1>b DEF RecordStop, At, JobEnds, Idle, Resource, OneAtATime, RouteFollows,
       Without, Present, Live, Budget, Early, OwnContainer, Inv, TypeOK
  <1>24. CASE TakeRemove
    BY <1>24, <1>a, <1>b DEF TakeRemove, Take, Idle, Resource, OneAtATime, RouteFollows,
       Without, Present, Live, Budget, Early, OwnContainer, Inv, TypeOK
  <1>25. CASE RemoveContainer
    BY <1>25, SpendCounts, <1>a, <1>b DEF RemoveContainer, At, Goto, Budget, OneAtATime,
       RouteFollows, Without, Present, Live, Early, OwnContainer, Inv, TypeOK
  <1>26. CASE RemoveStrays
    BY <1>26, SpendCounts, <1>a, <1>b DEF RemoveStrays, At, Goto, Budget, OneAtATime,
       RouteFollows, Without, Present, Live, Early, OwnContainer, Inv, TypeOK
  <1>27. CASE RemoveRoute
    BY <1>27, SpendCounts, <1>a, <1>b DEF RemoveRoute, At, Goto, DeleteRoute, Budget,
       OneAtATime, RouteFollows, Without, Present, Live, Early, OwnContainer, Inv, TypeOK
  <1>28. CASE DeleteRow
    BY <1>28, <1>a, <1>b DEF DeleteRow, At, JobEnds, Idle, Resource, OneAtATime, RouteFollows,
       Without, Present, Live, Budget, Early, OwnContainer, Inv, TypeOK
  <1>29. CASE LookAtRoutes
    BY <1>29, <1>a, <1>b DEF LookAtRoutes, Take, Idle, Wanted, OneAtATime, RouteFollows,
       Without, Present, Live, Budget, Early, OwnContainer, Inv, TypeOK
  <1>30. CASE SyncRoute
    BY <1>30, SpendCounts, <1>a, <1>b DEF SyncRoute, At, JobEnds, Idle, Live, Budget,
       OneAtATime, RouteFollows, Without, Present, Early, OwnContainer, Inv, TypeOK
  <1>31. CASE SweepStaleRoute
    BY <1>31, SpendCounts, <1>a, <1>b DEF SweepStaleRoute, At, JobEnds, Idle, Budget,
       OneAtATime, RouteFollows, Without, Present, Live, Early, OwnContainer, Inv, TypeOK
  <1>32. CASE ListContainers
    BY <1>32, <1>a, <1>b DEF ListContainers, Listing, OneAtATime, RouteFollows, Without,
       Present, Live, Budget, Early, OwnContainer, Inv, TypeOK
  <1>33. CASE PlanRedeploy
    BY <1>33, <1>a, <1>b DEF PlanRedeploy, Planned, EnqueueDeploy, CreateDeployment, Ticking,
       OneAtATime, RouteFollows, Without, Present, Live, Budget, Early, OwnContainer, Inv,
       TypeOK
  <1>34. CASE SweepOrphans
    BY <1>34, SpendCounts, <1>a, <1>b DEF SweepOrphans, Ticking, Resting, Budget, OneAtATime,
       RouteFollows, Without, Present, Live, Early, OwnContainer, Inv, TypeOK
  <1>35. CASE InspectChosen
    BY <1>35, SpendCounts, <1>a, <1>b DEF InspectChosen, Present, Ticking, Resting, Budget,
       OneAtATime, RouteFollows, Without, Live, Early, OwnContainer, Inv, TypeOK
  <1>36. CASE Repoint
    BY <1>36, <1>a, <1>b DEF Repoint, Resource, Ticking, Resting, OneAtATime, RouteFollows,
       Without, Present, Live, Budget, Early, OwnContainer, Inv, TypeOK
  <1>37. CASE BackoffPasses
    BY <1>37, <1>a, <1>b DEF BackoffPasses, OneAtATime, RouteFollows, Without, Present, Live,
       Budget, Early, OwnContainer, Inv, TypeOK
  <1>38. CASE Crash
    BY <1>38, SpendCounts, <1>a, <1>b DEF Crash, Idle, Resting, Budget, OneAtATime,
       RouteFollows, Without, Present, Live, Early, OwnContainer, Inv, TypeOK
  <1>39. CASE Boot
    BY <1>39, SpendCounts, <1>a, <1>b DEF Boot, Listing, Budget, OneAtATime, RouteFollows,
       Without, Present, Live, Early, OwnContainer, Inv, TypeOK
  <1>40. CASE Serve
    BY <1>40, <1>a, <1>b DEF Serve, OneAtATime, RouteFollows, Without, Present, Live, Budget,
       Early, OwnContainer, Inv, TypeOK
  <1>41. CASE RemovedByHand
    BY <1>41, SpendCounts, <1>a, <1>b DEF RemovedByHand, Present, Budget, OneAtATime,
       RouteFollows, Without, Live, Early, OwnContainer, Inv, TypeOK
  <1>42. CASE DeployLost
    BY <1>42, <1>c DEF DeployLost, OneAtATime, Present
  <1>43. CASE PlanLost
    BY <1>43, SpendCounts, <1>a, <1>b DEF PlanLost, EnqueueLost, CreateDeployment, Ticking,
       Resting, OneAtATime, RouteFollows, Without, Present, Live, Budget, Early, OwnContainer,
       Inv, TypeOK
  <1>44. CASE HourPasses
    BY <1>44, SpendCounts, <1>a, <1>b DEF HourPasses, OneAtATime, RouteFollows, Without, Present,
       Live, Budget, Early, OwnContainer, Inv, TypeOK
  <1> QED BY <1>1, <1>2, <1>3, <1>4, <1>5, <1>6, <1>7, <1>8, <1>9, <1>10, <1>11, <1>12, <1>13, <1>14,
     <1>15, <1>16, <1>17, <1>18, <1>19, <1>20, <1>21, <1>22, <1>23, <1>24, <1>25, <1>26,
     <1>27, <1>28, <1>29, <1>30, <1>31, <1>32, <1>33, <1>34, <1>35, <1>36, <1>37, <1>38,
     <1>39, <1>40, <1>41, <1>42, <1>43, <1>44
    DEF Next, Request, Work, Deploying, Stopping, Removing, Syncing, Reconciling

LEMMA RouteFollowsStep == Inv /\ OwnContainer /\ NotBegun /\ RowInHand /\ RouteFollows /\ Next => RouteFollows'
  <1> SUFFICES ASSUME Inv, OwnContainer, NotBegun, RowInHand, RouteFollows, Next PROVE RouteFollows'
    OBVIOUS
  <1>a. \A b \in Budget : spent'[b] = 0 => spent[b] = 0
    BY SpentStays
  <1>b. queue # << >> => 1 \in 1..Len(queue) /\ Head(queue) = queue[1]
    BY DEF Inv, TypeOK
  <1>1. CASE Deploy
    BY <1>1, SpendCounts, <1>a DEF Deploy, EnqueueDeploy, CreateDeployment, Serving, Budget,
       RouteFollows, RowInHand, Without, Present, Live, Inv, TypeOK
  <1>2. CASE Rollback
    BY <1>2, SpendCounts, <1>a DEF Rollback, EnqueueDeploy, CreateDeployment, Serving, Budget,
       RouteFollows, RowInHand, Without, Present, Live, Inv, TypeOK
  <1>3. CASE Stop
    BY <1>3, SpendCounts, <1>a DEF Stop, Serving, Budget, RouteFollows, RowInHand, Without,
       Present, Live, Inv, TypeOK
  <1>4. CASE Remove
    BY <1>4, SpendCounts, <1>a DEF Remove, Resource, Serving, Budget, RouteFollows, RowInHand,
       Without, Present, Live, Inv, TypeOK
  <1>5. CASE SaveSettings
    BY <1>5, SpendCounts, <1>a DEF SaveSettings, Resource, Serving, Budget, RouteFollows,
       RowInHand, Without, Present, Live, Inv, TypeOK
  <1>6. CASE SkipJob
    BY <1>6, <1>a DEF SkipJob, Take, RouteFollows, RowInHand, Without, Present, Live, Budget,
       Inv, TypeOK
  <1>7. CASE TakeDeploy
    BY <1>7, <1>a DEF TakeDeploy, Take, Idle, RouteFollows, RowInHand, Without, Present, Live,
       Budget, Inv, TypeOK
  <1>8. CASE NoteOutgoing
    BY <1>8, SpendCounts, <1>a DEF NoteOutgoing, At, Present, current, Budget, RouteFollows,
       RowInHand, Without, Live, Inv, TypeOK
  <1>9. CASE ReclaimStrays
    BY <1>9, SpendCounts, <1>a DEF ReclaimStrays, At, Goto, Budget, RouteFollows, RowInHand,
       Without, Present, Live, Inv, TypeOK
  <1>10. CASE CreateContainer
    <2>1. /\ worker.pc = "reclaimed" /\ worker'.pc = "created" /\ worker'.old = worker.old
          /\ worker'.new = current /\ UNCHANGED <<route, row, recon>> /\ spent' = spent
      BY <1>10 DEF CreateContainer, At, Inv, TypeOK
    <2>2. queue # << >> /\ Head(queue).kind = "deploy"
      BY <2>1 DEF Inv, JobInHand, DeployPc
    <2>3. spent["crashes"] = 0 => route # current
      BY <1>b, <2>1, <2>2 DEF NotBegun, Early, current
    <2> QED BY <2>1, <2>3 DEF RouteFollows, Without
  <1>11. CASE StartContainer
    BY <1>11, <1>a DEF StartContainer, At, Goto, Present, RouteFollows, RowInHand, Without,
       Live, Budget, Inv, TypeOK
  <1>12. CASE PassHealthGate
    BY <1>12, <1>a DEF PassHealthGate, At, Goto, Live, RouteFollows, RowInHand, Without,
       Present, Budget, Inv, TypeOK
  <1>13. CASE SwitchRoute
    BY <1>13, SpendCounts, <1>a DEF SwitchRoute, At, Budget, RouteFollows, RowInHand, Without,
       Present, Live, Inv, TypeOK
  <1>14. CASE SwitchFails
    BY <1>14, SpendCounts, <1>a DEF SwitchFails, At, Budget, RouteFollows, RowInHand, Without,
       Present, Live, Inv, TypeOK
  <1>15. CASE RetireOld
    BY <1>15, SpendCounts, <1>a DEF RetireOld, At, Goto, Budget, RouteFollows, RowInHand,
       Without, Present, Live, Inv, TypeOK
  <1>16. CASE RecordSuccess
    BY <1>16, <1>a DEF RecordSuccess, At, JobEnds, Ends, Idle, Resource, Current, RouteFollows,
       RowInHand, Without, Present, Live, Budget, Inv, TypeOK
  <1>17. CASE DeployThrows
    BY <1>17, SpendCounts, <1>a DEF DeployThrows, At, Goto, Present, Live, Budget, RouteFollows,
       RowInHand, Without, Inv, TypeOK
  <1>18. CASE CleanUp
    BY <1>18, SpendCounts, <1>a DEF CleanUp, At, Goto, Budget, RouteFollows, RowInHand, Without,
       Present, Live, Inv, TypeOK
  <1>19. CASE MarkFailed
    BY <1>19, <1>a DEF MarkFailed, At, JobEnds, Ends, Idle, RouteFollows, RowInHand, Without,
       Present, Live, Budget, Inv, TypeOK
  <1>20. CASE TakeStop
    BY <1>20, <1>a DEF TakeStop, Take, Idle, RouteFollows, RowInHand, Without, Present, Live,
       Budget, Inv, TypeOK
  <1>21. CASE StopContainer
    BY <1>21, SpendCounts, <1>a DEF StopContainer, At, Goto, Present, Budget, RouteFollows,
       RowInHand, Without, Live, Inv, TypeOK
  <1>22. CASE StopRoute
    BY <1>22, SpendCounts, <1>a DEF StopRoute, At, Goto, DeleteRoute, Budget, RouteFollows,
       RowInHand, Without, Present, Live, Inv, TypeOK
  <1>23. CASE RecordStop
    BY <1>23, <1>a DEF RecordStop, At, JobEnds, Idle, Resource, RouteFollows, RowInHand,
       Without, Present, Live, Budget, Inv, TypeOK
  <1>24. CASE TakeRemove
    BY <1>24, <1>a DEF TakeRemove, Take, Idle, Resource, RouteFollows, RowInHand, Without,
       Present, Live, Budget, Inv, TypeOK
  <1>25. CASE RemoveContainer
    BY <1>25, SpendCounts, <1>a DEF RemoveContainer, At, Goto, Budget, RouteFollows, RowInHand,
       Without, Present, Live, Inv, TypeOK
  <1>26. CASE RemoveStrays
    BY <1>26, SpendCounts, <1>a DEF RemoveStrays, At, Goto, Budget, RouteFollows, RowInHand,
       Without, Present, Live, Inv, TypeOK
  <1>27. CASE RemoveRoute
    BY <1>27, SpendCounts, <1>a DEF RemoveRoute, At, Goto, DeleteRoute, Budget, RouteFollows,
       RowInHand, Without, Present, Live, Inv, TypeOK
  <1>28. CASE DeleteRow
    BY <1>28, <1>a DEF DeleteRow, At, JobEnds, Idle, Resource, RouteFollows, RowInHand, Without,
       Present, Live, Budget, Inv, TypeOK
  <1>29. CASE LookAtRoutes
    BY <1>29, <1>a DEF LookAtRoutes, Take, Idle, Wanted, RouteFollows, RowInHand, Without,
       Present, Live, Budget, Inv, TypeOK
  <1>30. CASE SyncRoute
    BY <1>30, SpendCounts, <1>a DEF SyncRoute, At, JobEnds, Idle, Live, Budget, RouteFollows,
       RowInHand, Without, Present, Inv, TypeOK
  <1>31. CASE SweepStaleRoute
    BY <1>31, SpendCounts, <1>a DEF SweepStaleRoute, At, JobEnds, Idle, Budget, RouteFollows,
       RowInHand, Without, Present, Live, Inv, TypeOK
  <1>32. CASE ListContainers
    BY <1>32, <1>a DEF ListContainers, Listing, RouteFollows, RowInHand, Without, Present, Live,
       Budget, Inv, TypeOK
  <1>33. CASE PlanRedeploy
    BY <1>33, <1>a DEF PlanRedeploy, Planned, EnqueueDeploy, CreateDeployment, Ticking,
       RouteFollows, RowInHand, Without, Present, Live, Budget, Inv, TypeOK
  <1>34. CASE SweepOrphans
    BY <1>34, SpendCounts, <1>a DEF SweepOrphans, Ticking, Resting, Budget, RouteFollows,
       RowInHand, Without, Present, Live, Inv, TypeOK
  <1>35. CASE InspectChosen
    BY <1>35, SpendCounts, <1>a DEF InspectChosen, Present, Ticking, Resting, Budget,
       RouteFollows, RowInHand, Without, Live, Inv, TypeOK
  <1>36. CASE Repoint
    BY <1>36, <1>a DEF Repoint, Resource, Ticking, Resting, RouteFollows, RowInHand, Without,
       Present, Live, Budget, Inv, TypeOK
  <1>37. CASE BackoffPasses
    BY <1>37, <1>a DEF BackoffPasses, RouteFollows, RowInHand, Without, Present, Live, Budget,
       Inv, TypeOK
  <1>38. CASE Crash
    BY <1>38, SpendCounts, <1>a DEF Crash, Idle, Resting, Budget, RouteFollows, RowInHand,
       Without, Present, Live, Inv, TypeOK
  <1>39. CASE Boot
    BY <1>39, SpendCounts, <1>a DEF Resting, Boot, Listing, Budget, RouteFollows, RowInHand,
       Without, Present, Live, Inv, TypeOK
  <1>40. CASE Serve
    BY <1>40, <1>a DEF Serve, RouteFollows, RowInHand, Without, Present, Live, Budget, Inv,
       TypeOK
  <1>41. CASE RemovedByHand
    BY <1>41, SpendCounts, <1>a DEF RemovedByHand, Present, Budget, RouteFollows, RowInHand,
       Without, Live, Inv, TypeOK
  <1>42. CASE DeployLost
    BY <1>42, SpendCounts, <1>a DEF DeployLost, EnqueueLost, CreateDeployment, Serving, Budget,
       RouteFollows, RowInHand, Without, Present, Live, Inv, TypeOK
  <1>43. CASE PlanLost
    BY <1>43, SpendCounts, <1>a DEF PlanLost, EnqueueLost, CreateDeployment, Ticking, Resting,
       RouteFollows, RowInHand, Without, Present, Live, Budget, Inv, TypeOK
  <1>44. CASE HourPasses
    BY <1>44, SpendCounts, <1>a DEF HourPasses, RouteFollows, RowInHand, Without, Present, Live,
       Budget, Inv, TypeOK
  <1> QED BY <1>1, <1>2, <1>3, <1>4, <1>5, <1>6, <1>7, <1>8, <1>9, <1>10, <1>11, <1>12, <1>13, <1>14,
     <1>15, <1>16, <1>17, <1>18, <1>19, <1>20, <1>21, <1>22, <1>23, <1>24, <1>25, <1>26,
     <1>27, <1>28, <1>29, <1>30, <1>31, <1>32, <1>33, <1>34, <1>35, <1>36, <1>37, <1>38,
     <1>39, <1>40, <1>41, <1>42, <1>43, <1>44
    DEF Next, Request, Work, Deploying, Stopping, Removing, Syncing, Reconciling

\* No step of a deploy takes away the running container the route dials, while
\* musdash lives, calls succeed and the row names no container that is gone
\* (runDeploy, 8a before 8b, and the clean-up of its failure, in jobs/deploy.ts).
THEOREM SwapsKeepServing == Spec => ServingKept
  <1> DEFINE Swap == /\ RowInHand /\ OwnContainer /\ NotBegun
                     /\ OneAtATime /\ RouteFollows
  <1>1. Init => Swap
    BY DEF Init, RowInHand, OwnContainer, NotBegun, OneAtATime, RouteFollows, Idle, Resting,
       DeployPc, Early, Present
  <1>2. Inv /\ Swap /\ [Next]_vars => Swap'
    <2>1. CASE Next
      BY <2>1, RowInHandStep, OwnStep, NotBegunStep, OneAtATimeStep, RouteFollowsStep
    <2>2. CASE UNCHANGED vars
      BY <2>2 DEF vars, RowInHand, OwnContainer, NotBegun, OneAtATime, RouteFollows, current,
         Without, Present
    <2> QED BY <2>1, <2>2
  <1>3. Inv /\ Swap /\ [Next]_vars =>
          [(/\ Deploying /\ Without({"crashes", "proxy", "docker"})
            /\ worker.old \in Present \cup {None} /\ route \in Live)
             => containers'[route] = "running"]_vars
    <2> SUFFICES ASSUME Inv, Swap, Deploying, Without({"crashes", "proxy", "docker"}),
                        worker.old \in Present \cup {None}, route \in Live
                 PROVE  containers'[route] = "running"
      OBVIOUS
    <2>1. /\ route \in DeployId /\ containers[route] = "running" /\ route \in Present
          /\ containers \in [DeployId -> {"none", "still", "running"}] /\ route # None
      BY BoundsAssumption DEF Live, Present, Inv, TypeOK, DeployId, None
    <2>2. CASE ReclaimStrays
      <3>1. worker.pc = "running" /\ (worker.old = None => route = None)
        BY <2>2 DEF ReclaimStrays, At, RouteFollows
      <3>2. worker.old = route
        BY <2>1, <3>1 DEF OneAtATime
      <3> QED BY <2>1, <2>2, <3>2 DEF ReclaimStrays
    <2>3. CASE RetireOld
      <3>1. route = worker.new
        BY <2>1, <2>3 DEF RetireOld, At, RouteFollows
      <3> QED BY <2>1, <2>3, <3>1 DEF RetireOld
    <2>4. CASE CleanUp
      <3>1. worker.new # None => route # worker.new
        BY <2>4 DEF CleanUp, At, RouteFollows
      <3> QED BY <2>1, <2>4, <3>1 DEF CleanUp
    <2>5. CASE CreateContainer \/ StartContainer
      BY <2>1, <2>5 DEF CreateContainer, StartContainer
    <2>6. CASE ~(ReclaimStrays \/ RetireOld \/ CleanUp \/ CreateContainer \/ StartContainer)
      BY <2>1, <2>6 DEF Deploying, TakeDeploy, NoteOutgoing, PassHealthGate, SwitchRoute,
         SwitchFails, RecordSuccess, DeployThrows, MarkFailed
    <2> QED BY <2>2, <2>3, <2>4, <2>5, <2>6
  <1> QED BY <1>1, <1>2, <1>3, AlwaysInv, PTL DEF Spec, ServingKept
=============================================================================
