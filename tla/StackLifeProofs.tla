----------------------------- MODULE StackLifeProofs -----------------------------
(***************************************************************************)
(* What holds of StackLife for any services, files, forms, failing calls,     *)
(* deaths of services and crashes.                                           *)
(***************************************************************************)
EXTENDS StackLife, NaturalsInduction, WellFoundedInduction, SequenceTheorems, TLAPS

JobRecord == [kind : {"deploy", "stop", "remove", "volume"}, file : SUBSET Service,
              ticked : BOOLEAN, tries : 1..3, by : {"hand", "again", "heal"}, aged : BOOLEAN]

\* TypeOK, variable by variable.
RowRecord == [exists : BOOLEAN, desired : {"running", "stopped"}, current : SUBSET Service,
              container : Service \cup {NoService}]
RowTyped == row \in RowRecord
PastTyped == draft \in Files /\ succeeded \in Seq(Files) /\ finished \subseteq Files
DockerTyped ==
  /\ containers \in [Service -> [state : State, restarts : 0..2]]
  /\ volumes \subseteq Volume /\ network \in BOOLEAN
QueueTyped == queue \in Seq(JobRecord)
WorkerRecord ==
  [pc : {"idle", "off", "config", "up", "gate", "poll", "down", "volumes", "forget"},
   base : [Service -> 0..2], todo : SUBSET Service, good : BOOLEAN, blind : BOOLEAN]
WorkerTyped == worker \in WorkerRecord
TickTyped == tmp \in BOOLEAN /\ tick \in [on : BOOLEAN, down : SUBSET Service, finished : BOOLEAN]
AskedRecord == [files : SUBSET Files, ticked : BOOLEAN, kept : BOOLEAN, forgot : BOOLEAN]
AskedTyped == asked \in AskedRecord
CountsTyped == crashed \subseteq Service /\ edits \in 0..MaxEdits /\ faults \in 0..MaxFaults

\* A job is what somebody asked for: a file someone deployed, a choice someone made.
Wants(job) ==
  /\ job.kind = "deploy" => job.file \in Files /\ job.file \in asked.files
  /\ job.kind = "remove" /\ job.ticked => asked.ticked
  /\ job.kind = "volume" => asked.kept
QueueWanted == \A i \in DOMAIN queue : Wants(queue[i])

\* The handler under way is of the first job, whose row is there; a delete past
\* `down` left no container, and past the volumes none of the stack's it was to take.
HandlerHolds ==
  /\ worker.pc \in {"config", "up", "gate", "poll"} =>
       queue # << >> /\ queue[1].kind = "deploy" /\ row.exists
  /\ worker.pc \in {"volumes", "forget"} =>
       queue # << >> /\ queue[1].kind = "remove" /\ row.exists /\ Existing = {}
  /\ worker.pc = "forget" /\ queue[1].ticked => "own" \notin volumes

\* What should run is a file someone deployed, and a foreign volume is left alone.
RowSound ==
  /\ row.current # {} => row.current \in Files /\ row.current \in asked.files
  /\ row.desired = "running" => row.current # {}
  /\ "foreign" \in volumes

\* What a tick found down is down as long as no deploy ended since, unless one is
\* past its `up`.
TickSees ==
  tick.on /\ ~tick.finished /\ row.exists /\ worker.pc \notin {"gate", "poll"} =>
    \A s \in tick.down : s \in row.current /\ containers[s].state \notin {"running", "done"}

\* A service that runs has restarted no less than when the deploy looked, and one
\* that crashed since `up` shows it.
CountsKept ==
  /\ crashed \cap OneShots = {}
  /\ worker.pc \in {"up", "gate", "poll"} =>
       \A s \in Service : containers[s].state = "running" => containers[s].restarts >= worker.base[s]
  /\ worker.pc \in {"gate", "poll"} =>
       \A s \in crashed : containers[s].restarts > worker.base[s] \/ containers[s].state \in {"none", "failed"}

LifeInv ==
  /\ RowTyped /\ PastTyped /\ DockerTyped /\ QueueTyped /\ WorkerTyped /\ TickTyped /\ AskedTyped /\ CountsTyped
  /\ QueueWanted /\ HandlerHolds /\ RowSound /\ TickSees /\ CountsKept /\ SecretsSwept /\ RowGoesLast

-----------------------------------------------------------------------------
(* Numbers and sequences.                                                   *)

LEMMA Before ==
  ASSUME NEW S, S \subseteq Nat, S # {}
  PROVE  \E i \in S : \A j \in S : i <= j
<1> DEFINE R == {p \in Nat \X Nat : p[1] < p[2]}
<1>1. IsWellFoundedOn(R, Nat)
  <2>1. OpToRel(<, Nat) = R
    BY DEF OpToRel
  <2> QED BY <2>1, NatLessThanWellFounded
<1>2. \E x \in S : \A y \in S : <<y, x>> \notin R
  <2> HIDE DEF R
  <2> QED BY <1>1, WFMin
<1>3. PICK x \in S : \A y \in S : <<y, x>> \notin R
  BY <1>2
<1>4. ASSUME NEW y \in S, y < x
      PROVE  FALSE
  <2>1. <<y, x>> \in Nat \X Nat /\ <<y, x>>[1] < <<y, x>>[2]
    BY <1>4
  <2> QED BY <2>1, <1>3
<1> QED BY <1>3, <1>4

\* The newest of some places of a sequence exists.
LEMMA Newest ==
  ASSUME NEW n \in Nat, NEW S, S \subseteq 1..n, S # {}
  PROVE  \E i \in S : \A j \in S : j <= i
<1> DEFINE T == {n - i : i \in S}
<1>1. T \subseteq Nat /\ T # {}
  <2>1. \A i \in S : i \in Nat /\ n - i \in Nat
    OBVIOUS
  <2>2. PICK i \in S : TRUE
    OBVIOUS
  <2>3. n - i \in T
    OBVIOUS
  <2> QED BY <2>1, <2>3
<1>2. PICK m \in T : \A k \in T : m <= k
  <2> HIDE DEF T
  <2> QED BY <1>1, Before
<1>3. PICK i \in S : m = n - i
  BY <1>2
<1>4. \A j \in S : n - j \in T
  OBVIOUS
<1>5. ASSUME NEW j \in S PROVE j <= i
  <2> HIDE DEF T
  <2>1. n - i <= n - j
    BY <1>2, <1>3, <1>4
  <2>2. i \in Nat /\ j \in Nat
    OBVIOUS
  <2> QED BY <2>1, <2>2
<1> QED BY <1>5

\* A job joins the line, leaves it, or is tried again.
LEMMA JoinLine ==
  ASSUME NEW S, NEW q \in Seq(S), NEW j \in S
  PROVE  /\ Append(q, j) \in Seq(S) /\ Len(Append(q, j)) = Len(q) + 1 /\ Append(q, j) # << >>
         /\ \A i \in 1..Len(q) : Append(q, j)[i] = q[i]
         /\ Append(q, j)[Len(q) + 1] = j
  BY AppendProperties

LEMMA LeaveLine ==
  ASSUME NEW S, NEW q \in Seq(S), q # << >>
  PROVE  /\ Len(q) \in Nat \ {0} /\ Head(q) = q[1] /\ q[1] \in S
         /\ Tail(q) \in Seq(S) /\ Len(Tail(q)) = Len(q) - 1
         /\ \A i \in 1..(Len(q) - 1) : Tail(q)[i] = q[i + 1]
  BY HeadTailProperties

LEMMA HeadOfLine ==
  ASSUME NEW S, NEW q \in Seq(S), NEW j \in S
  PROVE  /\ << j >> \o q \in Seq(S) /\ Len(<< j >> \o q) = Len(q) + 1
         /\ (<< j >> \o q)[1] = j
         /\ \A i \in 1..Len(q) : (<< j >> \o q)[i + 1] = q[i]
<1>1. << j >> \in Seq(S) /\ Len(<< j >>) = 1 /\ << j >>[1] = j
  OBVIOUS
<1> QED BY <1>1, ConcatProperties

LEMMA LifeConstants ==
  /\ NoService \notin Service /\ OneShots \subseteq Service /\ Routed \subseteq Service
  /\ Files \subseteq SUBSET Service /\ {} \notin Files /\ MaxEdits \in Nat /\ MaxFaults \in Nat
<1>1. NoService \notin Service /\ OneShots \subseteq Service /\ Routed \subseteq Service
  BY StackNames, LifeNames
<1>2. Files \subseteq SUBSET Service /\ {} \notin Files
  BY LifeFiles
<1> QED BY <1>1, <1>2, LifeBounds

-----------------------------------------------------------------------------
(* The line of jobs.                                                        *)

\* What was asked for stays asked for.
AskedGrows ==
  asked.files \subseteq asked'.files /\ (asked.ticked => asked'.ticked) /\ (asked.kept => asked'.kept)

LEMMA SameLine ==
  ASSUME QueueTyped, QueueWanted, UNCHANGED queue, AskedGrows
  PROVE  QueueTyped' /\ QueueWanted'
  BY DEF QueueTyped, QueueWanted, Wants, AskedGrows

LEMMA JobJoins ==
  ASSUME QueueTyped, QueueWanted, AskedGrows, NEW job \in JobRecord, queue' = Append(queue, job),
         job.kind = "deploy" => job.file \in Files /\ job.file \in asked'.files,
         job.kind = "remove" /\ job.ticked => asked'.ticked,
         job.kind = "volume" => asked'.kept
  PROVE  /\ QueueTyped' /\ QueueWanted'
         /\ queue # << >> => queue' # << >> /\ queue'[1] = queue[1]
         /\ Len(queue') = Len(queue) + 1 /\ queue'[Len(queue')] = job
<1>1. /\ queue' \in Seq(JobRecord) /\ Len(queue') = Len(queue) + 1 /\ queue' # << >>
      /\ \A i \in 1..Len(queue) : queue'[i] = queue[i]
      /\ queue'[Len(queue) + 1] = job /\ Len(queue) \in Nat
  BY JoinLine DEF QueueTyped
<1>2. DOMAIN queue = 1..Len(queue) /\ DOMAIN queue' = 1..(Len(queue) + 1)
  BY <1>1 DEF QueueTyped
<1>3. \A i \in DOMAIN queue' : i = Len(queue) + 1 \/ (i \in DOMAIN queue /\ queue'[i] = queue[i])
  <2>1. ASSUME NEW i \in 1..(Len(queue) + 1), i # Len(queue) + 1
        PROVE  i \in 1..Len(queue) /\ queue'[i] = queue[i]
    BY <2>1, <1>1
  <2> QED BY <1>2, <2>1
<1>4. QueueWanted'
  BY <1>1, <1>3 DEF QueueWanted, Wants, AskedGrows
<1>5. queue # << >> => queue'[1] = queue[1]
  BY <1>1 DEF QueueTyped
<1> QED BY <1>1, <1>4, <1>5 DEF QueueTyped

LEMMA JobLeaves ==
  ASSUME QueueTyped, QueueWanted, AskedGrows, queue # << >>, queue' = Tail(queue)
  PROVE  /\ QueueTyped' /\ QueueWanted' /\ Head(queue) = queue[1] /\ queue[1] \in JobRecord
         /\ Len(queue') < Len(queue)
<1>1. /\ Len(queue) \in Nat \ {0} /\ Head(queue) = queue[1] /\ queue[1] \in JobRecord
      /\ queue' \in Seq(JobRecord) /\ Len(queue') = Len(queue) - 1
      /\ \A i \in 1..(Len(queue) - 1) : queue'[i] = queue[i + 1]
  BY LeaveLine DEF QueueTyped
<1>2. DOMAIN queue = 1..Len(queue) /\ DOMAIN queue' = 1..(Len(queue) - 1)
  BY <1>1 DEF QueueTyped
<1>3. QueueWanted'
  BY <1>1, <1>2 DEF QueueWanted, Wants, AskedGrows
<1> QED BY <1>1, <1>3 DEF QueueTyped

\* A job that throws leaves, or waits for another try in its place.
LEMMA JobThrows ==
  ASSUME QueueTyped, QueueWanted, UNCHANGED asked, queue # << >>, Throws
  PROVE  /\ worker' = Idle /\ QueueTyped' /\ QueueWanted' /\ Head(queue) = queue[1] /\ queue[1] \in JobRecord
         /\ Len(queue') <= Len(queue)
<1>0. AskedGrows
  BY DEF AskedGrows
<1>1. Head(queue) = queue[1] /\ queue[1] \in JobRecord /\ worker' = Idle
  BY LeaveLine DEF QueueTyped, Throws
<1>2. CASE queue' = Tail(queue)
  <2>1. Len(queue') \in Nat /\ Len(queue) \in Nat
    BY <1>2, JobLeaves, <1>0 DEF QueueTyped
  <2> QED BY <1>1, <1>2, <1>0, <2>1, JobLeaves
<1>3. CASE queue' # Tail(queue)
  <2> DEFINE job == [queue[1] EXCEPT !.tries = @ + 1]
             rest == Tail(queue)
  <2>1. queue[1].kind # "deploy" /\ queue[1].tries < 3 /\ queue' = << job >> \o rest
    BY <1>1, <1>3 DEF Throws, Retry, MaxTries
  <2>2. job \in JobRecord /\ job.kind = queue[1].kind /\ job.file = queue[1].file /\ job.ticked = queue[1].ticked
    BY <1>1, <2>1 DEF JobRecord
  <2>3. /\ Len(queue) \in Nat \ {0} /\ rest \in Seq(JobRecord) /\ Len(rest) = Len(queue) - 1
        /\ \A i \in 1..(Len(queue) - 1) : rest[i] = queue[i + 1]
    BY LeaveLine DEF QueueTyped
  <2> HIDE DEF job, rest
  <2>4. /\ queue' \in Seq(JobRecord) /\ Len(queue') = Len(queue)
        /\ queue'[1] = job /\ \A i \in 1..(Len(queue) - 1) : queue'[i + 1] = rest[i]
    BY <2>1, <2>2, <2>3, HeadOfLine
  <2>5. DOMAIN queue = 1..Len(queue) /\ DOMAIN queue' = 1..Len(queue)
    BY <2>4 DEF QueueTyped
  <2>6. \A i \in 1..Len(queue) : i = 1 \/ queue'[i] = queue[i]
    <3>1. ASSUME NEW i \in 1..Len(queue), i # 1
          PROVE  queue'[i] = queue[i]
      <4>1. i - 1 \in 1..(Len(queue) - 1) /\ (i - 1) + 1 = i
        BY <3>1, <2>3
      <4> QED BY <4>1, <2>3, <2>4
    <3> QED BY <3>1
  <2>7. QueueWanted'
    <3>1. ASSUME NEW i \in DOMAIN queue' PROVE Wants(queue[i])'
      <4>1. Wants(queue[i]) /\ Wants(queue[1])
        BY <2>3, <2>5 DEF QueueWanted
      <4>2. CASE i = 1
        BY <4>1, <4>2, <2>2, <2>4 DEF Wants
      <4>3. CASE i # 1
        BY <4>1, <4>3, <2>5, <2>6 DEF Wants
      <4> QED BY <4>2, <4>3
    <3> QED BY <3>1 DEF QueueWanted
  <2> QED BY <1>1, <2>4, <2>7, <2>3 DEF QueueTyped
<1> QED BY <1>2, <1>3

-----------------------------------------------------------------------------
(* What the steps have in common.                                           *)

LEMMA IdleWorker == Idle \in WorkerRecord /\ Idle.pc = "idle"
<1>1. 0 \in 0..2
  OBVIOUS
<1>2. [s \in Service |-> 0] \in [Service -> 0..2]
  BY <1>1
<1> QED BY <1>2 DEF Idle, WorkerRecord

LEMMA FaultCounts ==
  ASSUME CountsTyped, Fault
  PROVE  faults \in Nat /\ faults' = faults + 1 /\ faults' \in 0..MaxFaults
  BY LifeConstants DEF CountsTyped, Fault

LEMMA EditCounts ==
  ASSUME CountsTyped, Edit
  PROVE  edits' \in 0..MaxEdits
  BY LifeConstants DEF CountsTyped, Edit

LEMMA DeployHead ==
  ASSUME LifeInv, worker.pc \in {"config", "up", "gate", "poll"}
  PROVE  /\ queue # << >> /\ Head(queue) = queue[1] /\ queue[1].kind = "deploy" /\ row.exists
         /\ Head(queue).file \in Files /\ Head(queue).file \in asked.files
         /\ Head(queue).file \subseteq Service /\ Head(queue).file # {}
<1>1. queue # << >> /\ queue[1].kind = "deploy" /\ row.exists
  BY DEF LifeInv, HandlerHolds
<1>2. Head(queue) = queue[1] /\ 1 \in DOMAIN queue
  BY <1>1, LeaveLine DEF LifeInv, QueueTyped
<1>3. Wants(queue[1])
  BY <1>2 DEF LifeInv, QueueWanted
<1> QED BY <1>1, <1>2, <1>3, LifeConstants DEF Wants

\* What Docker has after Compose brought some services to the file.
LEMMA RecreateSteps ==
  ASSUME LifeInv, NEW touched \in SUBSET Service, NEW kept \in SUBSET Running, Recreate(touched, kept)
  PROVE  /\ DockerTyped' /\ volumes \subseteq volumes'
         /\ \A s \in Service :
              \/ containers'[s] = containers[s] /\ (s \in touched => s \in kept)
              \/ containers'[s] = None
              \/ s \notin kept /\ containers'[s] = [state |-> "running", restarts |-> 0]
<1> DEFINE C == [state : State, restarts : 0..2]
<1>1. None \in C /\ [state |-> "running", restarts |-> 0] \in C
  <2>1. 0 \in 0..2
    OBVIOUS
  <2> QED BY <2>1 DEF None, State
<1>2. \A s \in Service : containers[s] \in C
  BY DEF LifeInv, DockerTyped
<1> HIDE DEF C
<1>3. \A s \in Service :
        /\ containers'[s] \in C
        /\ \/ containers'[s] = containers[s] /\ (s \in touched => s \in kept)
           \/ containers'[s] = None
           \/ s \notin kept /\ containers'[s] = [state |-> "running", restarts |-> 0]
  BY <1>1, <1>2 DEF Recreate, Running
<1>4. containers' \in [Service -> C]
  BY <1>3 DEF Recreate
<1>5. volumes' \subseteq Volume /\ network' \in BOOLEAN /\ volumes \subseteq volumes'
  BY DEF LifeInv, DockerTyped, Recreate, Volume
<1> QED BY <1>3, <1>4, <1>5 DEF DockerTyped, C

-----------------------------------------------------------------------------
(* The forms, and the jobs they and the ticks add.                          *)

\* A form touches what Docker has, the handler and the tick not at all.
LEMMA FormKeeps ==
  ASSUME LifeInv, AskedGrows, QueueTyped' /\ QueueWanted',
         queue # << >> => queue' # << >> /\ queue'[1] = queue[1],
         RowTyped', row'.exists = row.exists, row'.current = row.current,
         row'.desired \in {row.desired, "stopped"},
         draft' \in Files, AskedTyped', asked'.forgot = asked.forgot, Edit,
         UNCHANGED <<past, docker, worker, tmp, crashed, faults>>, tick' \in {tick, NoTick}
  PROVE  LifeInv'
<1>1. PastTyped' /\ DockerTyped' /\ WorkerTyped' /\ SecretsSwept' /\ CountsKept'
  BY DEF LifeInv, PastTyped, DockerTyped, WorkerTyped, SecretsSwept, CountsKept, past, docker
<1>2. TickTyped' /\ CountsTyped'
  <2>1. TickTyped'
    <3>1. NoTick \in [on : BOOLEAN, down : SUBSET Service, finished : BOOLEAN]
      BY DEF NoTick
    <3> QED BY <3>1 DEF LifeInv, TickTyped
  <2>2. edits' \in 0..MaxEdits
    BY EditCounts DEF LifeInv
  <2> QED BY <2>1, <2>2 DEF LifeInv, CountsTyped
<1>3. HandlerHolds'
  BY DEF LifeInv, HandlerHolds, Existing, docker
<1>4. RowSound'
  BY DEF LifeInv, RowSound, AskedGrows, docker
<1>5. TickSees'
  BY DEF LifeInv, TickSees, NoTick, docker
<1>6. RowGoesLast'
  BY DEF LifeInv, RowGoesLast, Existing, docker
<1> QED BY <1>1, <1>2, <1>3, <1>4, <1>5, <1>6 DEF LifeInv

\* A rollback goes to the file of a deployment that succeeded.
LEMMA RollbackSucceeded ==
  ASSUME PastTyped, NEW f \in RollbackFiles
  PROVE  f \in Files
<1> DEFINE others == {i \in DOMAIN succeeded : succeeded[i] # row.current}
<1>1. others # {} /\ f = succeeded[CHOOSE i \in others : \A j \in others : j <= i]
  BY DEF RollbackFiles
<1>2. DOMAIN succeeded = 1..Len(succeeded) /\ Len(succeeded) \in Nat /\ \A i \in DOMAIN succeeded : succeeded[i] \in Files
  BY DEF PastTyped
<1>3. others \subseteq 1..Len(succeeded)
  BY <1>2
<1> DEFINE newest == CHOOSE i \in others : \A j \in others : j <= i
<1>4. newest \in others
  <2> HIDE DEF others
  <2>1. \E i \in others : \A j \in others : j <= i
    BY <1>1, <1>2, <1>3, Newest
  <2> QED BY <2>1
<1>5. newest \in DOMAIN succeeded
  BY <1>4
<1> QED BY <1>1, <1>2, <1>5

LEMMA NewJob ==
  ASSUME NEW kind \in {"deploy", "stop", "remove", "volume"}, NEW f \in SUBSET Service, NEW ticked \in BOOLEAN
  PROVE  /\ Job(kind, f, ticked) \in JobRecord
         /\ \A by \in {"again", "heal"} : [Job(kind, f, ticked) EXCEPT !.by = by] \in JobRecord
<1>1. 1 \in 1..3
  OBVIOUS
<1> QED BY <1>1 DEF Job, JobRecord

\* A file that is asked for joins those that were.
LEMMA AskJoins ==
  ASSUME LifeInv, NEW f \in Files,
         NEW job \in {Job("deploy", f, FALSE), [Job("deploy", f, FALSE) EXCEPT !.by = "again"]}, Ask(job)
  PROVE  /\ AskedGrows /\ QueueTyped' /\ QueueWanted'
         /\ queue # << >> => queue' # << >> /\ queue'[1] = queue[1]
         /\ AskedTyped' /\ asked'.forgot = asked.forgot
<1>1. job \in JobRecord /\ job.kind = "deploy" /\ job.file = f
  <2>1. f \in SUBSET Service
    BY LifeConstants
  <2>2. Job("deploy", f, FALSE) \in JobRecord /\ [Job("deploy", f, FALSE) EXCEPT !.by = "again"] \in JobRecord
    BY <2>1, NewJob
  <2>3. CASE job = Job("deploy", f, FALSE)
    BY <2>2, <2>3 DEF Job
  <2>4. CASE job = [Job("deploy", f, FALSE) EXCEPT !.by = "again"]
    BY <2>2, <2>4 DEF Job
  <2> QED BY <2>3, <2>4
<1>2. queue' = Append(queue, job) /\ asked' = [asked EXCEPT !.files = asked.files \cup {f}]
  BY <1>1 DEF Ask
<1>3. /\ asked \in AskedRecord /\ asked'.files = asked.files \cup {f} /\ asked'.ticked = asked.ticked
      /\ asked'.kept = asked.kept /\ asked'.forgot = asked.forgot
  BY <1>2 DEF LifeInv, AskedTyped, AskedRecord
<1>4. AskedTyped' /\ AskedGrows /\ job.file \in asked'.files
  <2>1. asked.files \cup {f} \in SUBSET Files
    BY <1>3 DEF AskedRecord
  <2>2. asked' \in AskedRecord
    BY <1>2, <1>3, <2>1 DEF AskedRecord
  <2> QED BY <1>1, <1>3, <2>2 DEF AskedTyped, AskedGrows
<1> QED BY <1>1, <1>2, <1>3, <1>4, JobJoins DEF LifeInv

LEMMA DeployKeeps ==
  ASSUME LifeInv, Deploy
  PROVE  LifeInv'
<1>1. draft \in Files
  BY DEF LifeInv, PastTyped
<1>2. Ask(Job("deploy", draft, FALSE)) /\ UNCHANGED <<row, draft, past, docker, worker, tmp, tick, crashed, faults>> /\ Edit
  BY DEF Deploy
<1>3. RowTyped'
  BY <1>2 DEF LifeInv, RowTyped
<1> QED BY <1>1, <1>2, <1>3, AskJoins, FormKeeps

LEMMA RollbackKeeps ==
  ASSUME LifeInv, Rollback
  PROVE  LifeInv'
<1>1. PICK f \in RollbackFiles : Ask(Job("deploy", f, FALSE))
  BY DEF Rollback
<1>2. f \in Files /\ draft \in Files
  BY RollbackSucceeded DEF LifeInv, PastTyped
<1>3. Ask(Job("deploy", f, FALSE)) /\ UNCHANGED <<row, draft, past, docker, worker, tmp, tick, crashed, faults>> /\ Edit
  BY <1>1 DEF Rollback
<1>4. RowTyped'
  BY <1>3 DEF LifeInv, RowTyped
<1> QED BY <1>2, <1>3, <1>4, AskJoins, FormKeeps

LEMMA RedeployKeeps ==
  ASSUME LifeInv, Redeploy
  PROVE  LifeInv'
<1>1. PICK f \in finished : Ask([Job("deploy", f, FALSE) EXCEPT !.by = "again"])
  BY DEF Redeploy
<1>2. f \in Files /\ draft \in Files
  BY DEF LifeInv, PastTyped
<1>3. UNCHANGED <<row, draft, past, docker, worker, tmp, tick, crashed, faults>> /\ Edit
  BY DEF Redeploy
<1>4. RowTyped'
  BY <1>3 DEF LifeInv, RowTyped
<1> QED BY <1>1, <1>2, <1>3, <1>4, AskJoins, FormKeeps

LEMMA SaveSettingsKeeps ==
  ASSUME LifeInv, SaveSettings
  PROVE  LifeInv'
<1>1. AskedGrows /\ RowTyped' /\ AskedTyped' /\ draft' \in Files
  BY DEF LifeInv, SaveSettings, AskedGrows, RowTyped, AskedTyped
<1>2. QueueTyped' /\ QueueWanted'
  BY <1>1, SameLine DEF LifeInv, SaveSettings
<1>3. UNCHANGED <<row, past, docker, queue, worker, tmp, tick, asked, crashed, faults>> /\ Edit
  BY DEF SaveSettings
<1> QED BY <1>1, <1>2, <1>3, FormKeeps

\* A stop, a delete or the removal of a volume joins the line with its choice.
LEMMA OtherJoins ==
  ASSUME LifeInv, NEW kind \in {"stop", "remove", "volume"}, NEW ticked \in BOOLEAN, AskedGrows,
         queue' = Append(queue, Job(kind, {}, ticked)),
         kind = "remove" /\ ticked => asked'.ticked, kind = "volume" => asked'.kept
  PROVE  /\ QueueTyped' /\ QueueWanted'
         /\ queue # << >> => queue' # << >> /\ queue'[1] = queue[1]
<1> DEFINE job == Job(kind, {}, ticked)
<1>1. job \in JobRecord /\ job.kind = kind /\ job.ticked = ticked /\ kind # "deploy"
  BY NewJob DEF Job
<1> HIDE DEF job
<1> QED BY <1>1, JobJoins DEF LifeInv, job

LEMMA StopKeeps ==
  ASSUME LifeInv, Stop
  PROVE  LifeInv'
<1>1. AskedGrows /\ RowTyped' /\ AskedTyped' /\ draft' \in Files
  BY DEF LifeInv, Stop, AskedGrows, RowTyped, AskedTyped, PastTyped
<1>2. queue' = Append(queue, Job("stop", {}, FALSE)) /\ Edit
      /\ UNCHANGED <<row, past, docker, worker, tmp, tick, asked, crashed, faults>>
  BY DEF Stop
<1> QED BY <1>1, <1>2, OtherJoins, FormKeeps

LEMMA DeleteKeeps ==
  ASSUME LifeInv, Delete
  PROVE  LifeInv'
<1>1. PICK ticked \in BOOLEAN :
        queue' = Append(queue, Job("remove", {}, ticked)) /\ asked' = [asked EXCEPT !.ticked = asked.ticked \/ ticked]
  BY DEF Delete
<1>2. AskedTyped' /\ AskedGrows /\ (ticked => asked'.ticked) /\ asked'.forgot = asked.forgot
  BY <1>1 DEF LifeInv, AskedTyped, AskedRecord, AskedGrows
<1>3. RowTyped' /\ row'.exists = row.exists /\ row'.current = row.current /\ row'.desired = "stopped"
  BY DEF LifeInv, Delete, RowTyped, RowRecord
<1>4. Edit /\ UNCHANGED <<draft, past, docker, worker, tmp, tick, crashed, faults>> /\ draft' \in Files
  BY DEF LifeInv, Delete, PastTyped
<1> QED BY <1>1, <1>2, <1>3, <1>4, OtherJoins, FormKeeps

LEMMA RemoveKeptVolumeKeeps ==
  ASSUME LifeInv, RemoveKeptVolume
  PROVE  LifeInv'
<1>1. AskedTyped' /\ AskedGrows /\ asked'.kept /\ asked'.forgot = asked.forgot /\ RowTyped'
  BY DEF LifeInv, RemoveKeptVolume, AskedTyped, AskedRecord, AskedGrows, RowTyped
<1>2. queue' = Append(queue, Job("volume", {}, FALSE)) /\ Edit /\ draft' \in Files
      /\ UNCHANGED <<row, past, docker, worker, tmp, tick, crashed, faults>>
  BY DEF LifeInv, RemoveKeptVolume, PastTyped
<1> QED BY <1>1, <1>2, OtherJoins, FormKeeps

LEMMA TickHealsKeeps ==
  ASSUME LifeInv, TickHeals
  PROVE  LifeInv'
<1> DEFINE job == [Job("deploy", row.current, FALSE) EXCEPT !.by = "heal"]
<1>1. row.current \in Files /\ row.current \in asked.files /\ row.current \subseteq Service
  BY LifeConstants DEF LifeInv, TickHeals, RowSound
<1>2. job \in JobRecord /\ job.kind = "deploy" /\ job.file = row.current
  BY <1>1, NewJob DEF Job
<1>3. queue' = Append(queue, job) /\ tick' = NoTick
      /\ UNCHANGED <<row, draft, past, docker, worker, tmp, asked, crashed, bounds>>
  BY DEF TickHeals
<1> HIDE DEF job
<1>4. AskedGrows
  BY <1>3 DEF AskedGrows
<1>5. /\ QueueTyped' /\ QueueWanted'
      /\ queue # << >> => queue' # << >> /\ queue'[1] = queue[1]
  BY <1>1, <1>2, <1>3, <1>4, JobJoins DEF LifeInv
<1>6. /\ RowTyped' /\ PastTyped' /\ DockerTyped' /\ WorkerTyped' /\ SecretsSwept' /\ CountsKept'
      /\ AskedTyped' /\ CountsTyped'
  BY <1>3 DEF LifeInv, RowTyped, PastTyped, DockerTyped, WorkerTyped, SecretsSwept, CountsKept,
     AskedTyped, CountsTyped, past, docker, bounds
<1>7. HandlerHolds' /\ RowSound' /\ RowGoesLast'
  BY <1>3, <1>5 DEF LifeInv, HandlerHolds, RowSound, RowGoesLast, Existing, docker
<1>8. TickTyped' /\ TickSees'
  BY <1>3 DEF LifeInv, TickTyped, TickSees, NoTick
<1> QED BY <1>5, <1>6, <1>7, <1>8 DEF LifeInv

LEMMA NoRowKeeps ==
  ASSUME LifeInv, NoRow
  PROVE  LifeInv'
<1>1. /\ RowTyped' /\ PastTyped' /\ DockerTyped' /\ TickTyped' /\ AskedTyped' /\ CountsTyped'
      /\ RowSound' /\ RowGoesLast'
  BY DEF NoRow, Ended, Idle, past, docker, bounds, LifeInv, RowTyped, PastTyped, DockerTyped, TickTyped,
     AskedTyped, CountsTyped, RowSound, RowGoesLast, Existing
<1>2. WorkerTyped'
  BY IdleWorker DEF NoRow, Ended, WorkerTyped
<1>3. QueueTyped' /\ QueueWanted'
  BY JobLeaves DEF NoRow, Ended, Idle, past, docker, bounds, LifeInv, AskedGrows, HandlerHolds
<1>4. HandlerHolds'
  BY DEF NoRow, Ended, Idle, past, docker, bounds, LifeInv, HandlerHolds, Existing
<1>5. TickSees'
  BY DEF NoRow, Ended, Idle, past, docker, bounds, LifeInv, TickSees
<1>6. CountsKept'
  BY DEF NoRow, Ended, Idle, past, docker, bounds, LifeInv, CountsKept
<1>7. SecretsSwept'
  BY DEF LifeInv, NoRow, Ended, Idle, SecretsSwept, At
<1> QED BY <1>1, <1>2, <1>3, <1>4, <1>5, <1>6, <1>7 DEF LifeInv


LEMMA BeginKeeps ==
  ASSUME LifeInv, Begin
  PROVE  LifeInv'
<1>1. /\ RowTyped' /\ PastTyped' /\ DockerTyped' /\ AskedTyped' /\ CountsTyped' /\ RowSound'
      /\ TickSees' /\ RowGoesLast'
  BY DEF Begin, Take, At, Idle, past, docker, bounds, LifeInv, RowTyped, PastTyped, DockerTyped,
     AskedTyped, CountsTyped, RowSound, TickSees, RowGoesLast, Existing
<1>2. WorkerTyped'
  <2>1. [Idle EXCEPT !.pc = "config"] \in WorkerRecord
    BY IdleWorker DEF WorkerRecord
  <2> QED BY <2>1 DEF Begin, WorkerTyped
<1>3. TickTyped'
  BY DEF Begin, Take, At, Idle, past, docker, bounds, LifeInv, TickTyped
<1>4. QueueTyped' /\ QueueWanted'
  BY SameLine DEF Begin, Take, At, Idle, past, docker, bounds, LifeInv, AskedGrows
<1>5. HandlerHolds'
  BY DEF Begin, Take, At, Idle, past, docker, bounds, LifeInv, HandlerHolds, Existing
<1>6. CountsKept'
  BY DEF Begin, Take, At, Idle, past, docker, bounds, LifeInv, CountsKept
<1>7. SecretsSwept'
  BY DEF Begin, Take, At, Idle, past, docker, bounds, LifeInv, SecretsSwept
<1> QED BY <1>1, <1>2, <1>3, <1>4, <1>5, <1>6, <1>7 DEF LifeInv


LEMMA SnapshotKeeps ==
  ASSUME LifeInv, Snapshot
  PROVE  LifeInv'
<1>1. /\ RowTyped' /\ PastTyped' /\ DockerTyped' /\ TickTyped' /\ AskedTyped' /\ RowSound' /\ TickSees'
      /\ RowGoesLast'
  BY DEF Snapshot, At, Fault, MaxRestarts, past, docker, bounds, LifeInv, RowTyped, PastTyped,
     DockerTyped, TickTyped, AskedTyped, RowSound, TickSees, RowGoesLast, Existing
<1>2. WorkerTyped'
  <2>1. PICK unread \in SUBSET Existing :
          worker' = [worker EXCEPT !.pc = "up",
                       !.base = [s \in Service |-> IF s \in unread THEN 0 ELSE containers[s].restarts]]
    BY DEF Snapshot
  <2>2. \A s \in Service : containers[s].restarts \in 0..2 /\ 0 \in 0..2
    BY DEF LifeInv, DockerTyped
  <2>3. [s \in Service |-> IF s \in unread THEN 0 ELSE containers[s].restarts] \in [Service -> 0..2]
    BY <2>2
  <2> QED BY <2>1, <2>3 DEF LifeInv, WorkerTyped, WorkerRecord
<1>3. CountsTyped'
  BY FaultCounts DEF LifeInv, Snapshot, CountsTyped
<1>4. QueueTyped' /\ QueueWanted'
  BY SameLine DEF Snapshot, At, Fault, MaxRestarts, past, docker, bounds, LifeInv, AskedGrows
<1>5. HandlerHolds'
  BY DEF Snapshot, At, Fault, MaxRestarts, past, docker, bounds, LifeInv, HandlerHolds, Existing
<1>6. CountsKept'
  <2>1. PICK unread \in SUBSET Existing :
          worker' = [worker EXCEPT !.pc = "up",
                       !.base = [s \in Service |-> IF s \in unread THEN 0 ELSE containers[s].restarts]]
    BY DEF Snapshot
  <2>2. /\ worker'.pc = "up"
        /\ \A s \in Service : worker'.base[s] = IF s \in unread THEN 0 ELSE containers[s].restarts
    BY <2>1 DEF LifeInv, WorkerTyped, WorkerRecord
  <2>3. \A s \in Service : containers[s].restarts \in Nat
    BY DEF LifeInv, DockerTyped
  <2>4. UNCHANGED <<crashed, containers>>
    BY DEF Snapshot, docker
  <2> QED BY <2>2, <2>3, <2>4 DEF LifeInv, CountsKept
<1>7. SecretsSwept'
  BY DEF Snapshot, At, Fault, MaxRestarts, past, docker, bounds, LifeInv, SecretsSwept
<1> QED BY <1>1, <1>2, <1>3, <1>4, <1>5, <1>6, <1>7 DEF LifeInv


LEMMA UpKeeps ==
  ASSUME LifeInv, Up
  PROVE  LifeInv'
<1>a. PICK kept \in SUBSET Running :
        /\ Recreate(Service, kept)
        /\ worker' = [worker EXCEPT !.pc = "gate", !.todo = Routed \cap Head(queue).file,
                        !.base = [s \in Service |-> IF s \in kept THEN worker.base[s] ELSE 0]]
  BY DEF Up
<1>b. At("up") /\ UNCHANGED <<row, draft, past, queue, tick, asked, bounds>> /\ tmp' = FALSE /\ crashed' = {}
  BY DEF Up
<1>c. queue # << >> /\ queue[1].kind = "deploy" /\ row.exists
  BY <1>b, DeployHead DEF At
<1>d. /\ DockerTyped' /\ volumes \subseteq volumes'
      /\ \A s \in Service :
           \/ containers'[s] = containers[s] /\ s \in kept
           \/ containers'[s] = None
           \/ s \notin kept /\ containers'[s] = [state |-> "running", restarts |-> 0]
  BY <1>a, RecreateSteps
<1>e. [s \in Service |-> IF s \in kept THEN worker.base[s] ELSE 0] \in [Service -> 0..2]
  <2>1. 0 \in 0..2 /\ \A s \in Service : worker.base[s] \in 0..2
    BY DEF LifeInv, WorkerTyped, WorkerRecord
  <2> QED BY <2>1
<1>f. WorkerTyped' /\ worker'.pc = "gate" /\ \A s \in Service : worker'.base[s] = IF s \in kept THEN worker.base[s] ELSE 0
  BY <1>a, <1>e, LifeConstants DEF LifeInv, WorkerTyped, WorkerRecord
<1>1. RowTyped' /\ PastTyped' /\ AskedTyped'
  BY DEF Up, At, Recreate, None, Running, Volume, past, docker, bounds, LifeInv, RowTyped, PastTyped,
     AskedTyped
<1>2. DockerTyped'
  BY <1>d
<1>3. WorkerTyped'
  BY <1>f
<1>4. TickTyped'
  BY DEF Up, At, Recreate, None, Running, Volume, past, docker, bounds, LifeInv, TickTyped
<1>5. CountsTyped'
  BY DEF Up, At, Recreate, None, Running, Volume, past, docker, bounds, LifeInv, CountsTyped
<1>6. QueueTyped' /\ QueueWanted'
  BY SameLine DEF Up, At, Recreate, None, Running, Volume, past, docker, bounds, LifeInv, AskedGrows
<1>7. HandlerHolds'
  BY <1>b, <1>c, <1>f DEF HandlerHolds
<1>8. RowSound'
  BY <1>b, <1>d DEF LifeInv, RowSound
<1>9. TickSees'
  BY <1>f DEF TickSees
<1>10. CountsKept'
  <2>1. \A s \in Service : containers'[s].state = "running" => containers'[s].restarts >= worker'.base[s]
    BY <1>b, <1>d, <1>f DEF LifeInv, CountsKept, At, None
  <2> QED BY <2>1, <1>b, <1>f DEF CountsKept
<1>11. SecretsSwept'
  BY <1>b DEF SecretsSwept
<1>12. RowGoesLast'
  BY <1>b, <1>c DEF RowGoesLast
<1> QED BY <1>1, <1>2, <1>3, <1>4, <1>5, <1>6, <1>7, <1>8, <1>9, <1>10, <1>11, <1>12 DEF LifeInv


LEMMA UpFailsKeeps ==
  ASSUME LifeInv, UpFails
  PROVE  LifeInv'
<1>1. RowTyped' /\ AskedTyped'
  BY DEF UpFails, Ended, Idle, DeployEnds, At, Fault, Recreate, None, Volume, past, docker, bounds,
     LifeInv, RowTyped, AskedTyped
<1>2. PastTyped'
  BY DeployHead DEF LifeInv, UpFails, past, PastTyped, DeployEnds, At
<1>3. DockerTyped' /\ volumes \subseteq volumes'
  <2>1. PICK touched \in SUBSET Service : Recreate(touched, {})
    BY DEF UpFails
  <2> QED BY <2>1, RecreateSteps
<1>4. WorkerTyped'
  BY IdleWorker DEF UpFails, DeployEnds, Ended, WorkerTyped
<1>5. TickTyped'
  BY DEF UpFails, Ended, Idle, DeployEnds, At, Fault, Recreate, None, Volume, past, docker, bounds,
     LifeInv, TickTyped
<1>6. CountsTyped'
  BY FaultCounts DEF LifeInv, UpFails, CountsTyped
<1>7. QueueTyped' /\ QueueWanted'
  BY JobLeaves DEF UpFails, Ended, Idle, DeployEnds, At, Fault, Recreate, None, Volume, past, docker,
     bounds, LifeInv, AskedGrows, HandlerHolds
<1>8. HandlerHolds'
  BY DEF UpFails, Ended, Idle, DeployEnds, At, Fault, Recreate, None, Volume, past, docker, bounds,
     LifeInv, HandlerHolds, Existing
<1>9. RowSound'
  BY DEF UpFails, Ended, Idle, DeployEnds, At, Fault, Recreate, None, Volume, past, docker, bounds,
     LifeInv, RowSound
<1>10. TickSees'
  BY DEF UpFails, Ended, Idle, DeployEnds, At, Fault, Recreate, None, Volume, past, docker, bounds,
     LifeInv, TickSees
<1>11. CountsKept'
  BY DEF UpFails, Ended, Idle, DeployEnds, At, Fault, Recreate, None, Volume, past, docker, bounds,
     LifeInv, CountsKept
<1>12. SecretsSwept'
  BY DEF UpFails, Ended, Idle, DeployEnds, At, Fault, Recreate, None, Volume, past, docker, bounds,
     LifeInv, SecretsSwept
<1>13. RowGoesLast'
  BY DEF LifeInv, UpFails, RowGoesLast, HandlerHolds, past, docker, At
<1> QED BY <1>1, <1>2, <1>3, <1>4, <1>5, <1>6, <1>7, <1>8, <1>9, <1>10, <1>11, <1>12, <1>13 DEF LifeInv


LEMMA GateRoutedKeeps ==
  ASSUME LifeInv, GateRouted
  PROVE  LifeInv'
<1>1. /\ RowTyped' /\ PastTyped' /\ DockerTyped' /\ TickTyped' /\ AskedTyped' /\ CountsTyped'
      /\ RowSound' /\ TickSees' /\ RowGoesLast'
  BY DEF GateRouted, At, past, docker, bounds, LifeInv, RowTyped, PastTyped, DockerTyped, TickTyped,
     AskedTyped, CountsTyped, RowSound, TickSees, RowGoesLast, Existing
<1>2. WorkerTyped'
  BY DEF LifeInv, GateRouted, WorkerTyped, WorkerRecord
<1>3. QueueTyped' /\ QueueWanted'
  BY SameLine DEF GateRouted, At, past, docker, bounds, LifeInv, AskedGrows
<1>4. HandlerHolds'
  BY DEF GateRouted, At, past, docker, bounds, LifeInv, HandlerHolds, Existing
<1>5. CountsKept'
  BY DEF GateRouted, At, past, docker, bounds, LifeInv, CountsKept
<1>6. SecretsSwept'
  BY DEF GateRouted, At, past, docker, bounds, LifeInv, SecretsSwept
<1> QED BY <1>1, <1>2, <1>3, <1>4, <1>5, <1>6 DEF LifeInv


LEMMA GateOthersKeeps ==
  ASSUME LifeInv, GateOthers
  PROVE  LifeInv'
<1>1. /\ RowTyped' /\ PastTyped' /\ DockerTyped' /\ TickTyped' /\ AskedTyped' /\ CountsTyped'
      /\ RowSound' /\ TickSees' /\ RowGoesLast'
  BY DEF GateOthers, At, past, docker, bounds, LifeInv, RowTyped, PastTyped, DockerTyped, TickTyped,
     AskedTyped, CountsTyped, RowSound, TickSees, RowGoesLast, Existing
<1>2. WorkerTyped'
  BY DEF LifeInv, GateOthers, WorkerTyped, WorkerRecord
<1>3. QueueTyped' /\ QueueWanted'
  BY SameLine DEF GateOthers, At, past, docker, bounds, LifeInv, AskedGrows
<1>4. HandlerHolds'
  BY DEF GateOthers, At, past, docker, bounds, LifeInv, HandlerHolds, Existing
<1>5. CountsKept'
  BY DEF GateOthers, At, past, docker, bounds, LifeInv, CountsKept
<1>6. SecretsSwept'
  BY DEF GateOthers, At, past, docker, bounds, LifeInv, SecretsSwept
<1> QED BY <1>1, <1>2, <1>3, <1>4, <1>5, <1>6 DEF LifeInv


LEMMA DeployFailsKeeps ==
  ASSUME LifeInv, DeployFails
  PROVE  LifeInv'
<1>1. RowTyped' /\ DockerTyped' /\ AskedTyped' /\ RowSound' /\ RowGoesLast'
  BY DEF DeployFails, Ended, Idle, DeployEnds, At, Fault, past, docker, bounds, LifeInv, RowTyped,
     DockerTyped, AskedTyped, RowSound, RowGoesLast, Existing
<1>2. PastTyped'
  BY DeployHead DEF LifeInv, DeployFails, PastTyped, DeployEnds, past
<1>3. WorkerTyped'
  BY IdleWorker DEF DeployFails, DeployEnds, Ended, WorkerTyped
<1>4. TickTyped'
  BY DEF DeployFails, Ended, Idle, DeployEnds, At, Fault, past, docker, bounds, LifeInv, TickTyped
<1>5. CountsTyped'
  BY FaultCounts DEF LifeInv, DeployFails, CountsTyped
<1>6. QueueTyped' /\ QueueWanted'
  BY JobLeaves DEF DeployFails, Ended, Idle, DeployEnds, At, Fault, past, docker, bounds, LifeInv,
     AskedGrows, HandlerHolds
<1>7. HandlerHolds'
  BY DEF DeployFails, Ended, Idle, DeployEnds, At, Fault, past, docker, bounds, LifeInv, HandlerHolds,
     Existing
<1>8. TickSees'
  BY DEF DeployFails, Ended, Idle, DeployEnds, At, Fault, past, docker, bounds, LifeInv, TickSees
<1>9. CountsKept'
  BY DEF DeployFails, Ended, Idle, DeployEnds, At, Fault, past, docker, bounds, LifeInv, CountsKept
<1>10. SecretsSwept'
  BY DEF DeployFails, Ended, Idle, DeployEnds, At, Fault, past, docker, bounds, LifeInv, SecretsSwept
<1> QED BY <1>1, <1>2, <1>3, <1>4, <1>5, <1>6, <1>7, <1>8, <1>9, <1>10 DEF LifeInv


LEMMA ForgetRowKeeps ==
  ASSUME LifeInv, ForgetRow
  PROVE  LifeInv'
<1>a. queue # << >> /\ Head(queue) = queue[1] /\ queue[1] \in JobRecord
  BY LeaveLine DEF LifeInv, HandlerHolds, ForgetRow, At, QueueTyped
<1>1. PastTyped' /\ DockerTyped' /\ TickTyped' /\ CountsTyped'
  BY DEF ForgetRow, Ended, Idle, At, past, docker, bounds, LifeInv, PastTyped, DockerTyped, TickTyped,
     CountsTyped
<1>2. RowTyped'
  BY DEF LifeInv, ForgetRow, RowTyped, RowRecord
<1>3. WorkerTyped'
  BY IdleWorker DEF ForgetRow, Ended, WorkerTyped
<1>4. AskedTyped'
  BY <1>a DEF LifeInv, ForgetRow, AskedTyped, AskedRecord, JobRecord
<1>5. QueueTyped' /\ QueueWanted'
  BY JobLeaves DEF ForgetRow, Ended, Idle, At, past, docker, bounds, LifeInv, AskedGrows, HandlerHolds
<1>6. HandlerHolds'
  BY DEF ForgetRow, Ended, Idle, At, past, docker, bounds, LifeInv, HandlerHolds, Existing
<1>7. RowSound'
  BY DEF ForgetRow, Ended, Idle, At, past, docker, bounds, LifeInv, RowSound
<1>8. TickSees'
  BY DEF ForgetRow, Ended, Idle, At, past, docker, bounds, LifeInv, TickSees
<1>9. CountsKept'
  BY DEF ForgetRow, Ended, Idle, At, past, docker, bounds, LifeInv, CountsKept
<1>10. SecretsSwept'
  BY DEF ForgetRow, Ended, Idle, At, past, docker, bounds, LifeInv, SecretsSwept
<1>11. RowGoesLast'
  BY <1>a DEF LifeInv, ForgetRow, RowGoesLast, HandlerHolds, Existing, AskedTyped, AskedRecord, docker, At
<1> QED BY <1>1, <1>2, <1>3, <1>4, <1>5, <1>6, <1>7, <1>8, <1>9, <1>10, <1>11 DEF LifeInv


LEMMA TickListsKeeps ==
  ASSUME LifeInv, TickLists
  PROVE  LifeInv'
<1>a. /\ tick' = [on |-> TRUE, finished |-> FALSE, down |-> tick'.down] /\ tick'.down \subseteq row.current
      /\ \A s \in tick'.down : s \in row.current /\ containers[s].state \notin {"running", "done"}
  <2>1. row.current \subseteq Service
    BY DEF LifeInv, RowTyped, RowRecord
  <2> QED BY <2>1 DEF TickLists, StackServicesDown
<1>1. /\ RowTyped' /\ PastTyped' /\ DockerTyped' /\ WorkerTyped' /\ AskedTyped' /\ CountsTyped'
      /\ HandlerHolds' /\ RowSound' /\ CountsKept' /\ SecretsSwept' /\ RowGoesLast'
  BY DEF TickLists, At, StackServicesDown, past, docker, bounds, LifeInv, RowTyped, PastTyped,
     DockerTyped, WorkerTyped, AskedTyped, CountsTyped, HandlerHolds, RowSound, CountsKept, SecretsSwept,
     RowGoesLast, Existing
<1>2. TickTyped'
  <2>1. tick'.down \subseteq row.current
    BY <1>a
  <2> QED BY <2>1, <1>a DEF LifeInv, TickLists, TickTyped, RowTyped, RowRecord
<1>3. QueueTyped' /\ QueueWanted'
  BY SameLine DEF TickLists, At, StackServicesDown, past, docker, bounds, LifeInv, AskedGrows
<1>4. TickSees'
  BY <1>a DEF TickLists, TickSees, docker
<1> QED BY <1>1, <1>2, <1>3, <1>4 DEF LifeInv


LEMMA TickEndsKeeps ==
  ASSUME LifeInv, TickEnds
  PROVE  LifeInv'
<1>1. PastTyped' /\ WorkerTyped' /\ AskedTyped' /\ CountsTyped' /\ CountsKept' /\ SecretsSwept'
  BY DEF TickEnds, NoTick, PrimaryService, past, docker, bounds, LifeInv, PastTyped, WorkerTyped,
     AskedTyped, CountsTyped, CountsKept, SecretsSwept
<1>2. RowTyped'
  <2>1. CASE UNCHANGED row
    BY <2>1 DEF LifeInv, RowTyped
  <2>2. CASE ~UNCHANGED row
    <3> DEFINE s == CHOOSE s \in PrimaryService(NoService, row.current) : TRUE
    <3>1. row.current \subseteq Service /\ row.current # {}
      BY <2>2 DEF LifeInv, TickEnds, RowTyped, RowRecord, RowSound
    <3>2. s \in Service
      BY <3>1 DEF PrimaryService
    <3>3. row' = [row EXCEPT !.container = s]
      BY <2>2 DEF TickEnds
    <3> HIDE DEF s
    <3> QED BY <3>2, <3>3 DEF LifeInv, RowTyped, RowRecord
  <2> QED BY <2>1, <2>2
<1>3. DockerTyped'
  BY DEF TickEnds, NoTick, PrimaryService, past, docker, bounds, LifeInv, DockerTyped
<1>4. TickTyped'
  BY DEF TickEnds, NoTick, PrimaryService, past, docker, bounds, LifeInv, TickTyped
<1>5. QueueTyped' /\ QueueWanted'
  BY SameLine DEF TickEnds, NoTick, PrimaryService, past, docker, bounds, LifeInv, AskedGrows
<1>6. HandlerHolds'
  BY DEF TickEnds, NoTick, PrimaryService, past, docker, bounds, LifeInv, HandlerHolds, Existing
<1>7. RowSound'
  BY DEF TickEnds, NoTick, PrimaryService, past, docker, bounds, LifeInv, RowSound
<1>8. TickSees'
  BY DEF TickEnds, NoTick, PrimaryService, past, docker, bounds, LifeInv, TickSees
<1>9. RowGoesLast'
  BY DEF TickEnds, NoTick, PrimaryService, past, docker, bounds, LifeInv, RowGoesLast, Existing
<1> QED BY <1>1, <1>2, <1>3, <1>4, <1>5, <1>6, <1>7, <1>8, <1>9 DEF LifeInv


LEMMA OneShotDoneKeeps ==
  ASSUME LifeInv, OneShotDone
  PROVE  LifeInv'
<1>1. /\ RowTyped' /\ PastTyped' /\ WorkerTyped' /\ TickTyped' /\ AskedTyped' /\ CountsTyped'
      /\ RowSound' /\ SecretsSwept'
  BY DEF OneShotDone, Running, past, docker, bounds, LifeInv, RowTyped, PastTyped, WorkerTyped,
     TickTyped, AskedTyped, CountsTyped, RowSound, SecretsSwept
<1>2. DockerTyped'
  <2>1. PICK s \in Service : containers' = [containers EXCEPT ![s] = [containers[s] EXCEPT !.state = "done"]]
    BY DEF OneShotDone, Running
  <2>2. [containers[s] EXCEPT !.state = "done"] \in [state : State, restarts : 0..2]
    BY DEF LifeInv, DockerTyped, State
  <2> QED BY <2>1, <2>2 DEF LifeInv, DockerTyped, OneShotDone
<1>3. QueueTyped' /\ QueueWanted'
  BY SameLine DEF OneShotDone, Running, past, docker, bounds, LifeInv, AskedGrows
<1>4. HandlerHolds'
  BY DEF OneShotDone, Running, past, docker, bounds, LifeInv, HandlerHolds, Existing
<1>5. TickSees'
  BY DEF OneShotDone, Running, past, docker, bounds, LifeInv, TickSees
<1>6. CountsKept'
  BY DEF OneShotDone, Running, past, docker, bounds, LifeInv, CountsKept
<1>7. RowGoesLast'
  BY DEF OneShotDone, Running, past, docker, bounds, LifeInv, RowGoesLast, Existing
<1> QED BY <1>1, <1>2, <1>3, <1>4, <1>5, <1>6, <1>7 DEF LifeInv


LEMMA ServiceRestartsKeeps ==
  ASSUME LifeInv, ServiceRestarts
  PROVE  LifeInv'
<1>a. PICK s \in Service :
        /\ s \notin OneShots /\ containers[s].state = "running" /\ containers[s].restarts < 2
        /\ containers' = [containers EXCEPT ![s] = [containers[s] EXCEPT !.restarts = @ + 1]]
        /\ crashed' = crashed \cup {s}
  BY DEF ServiceRestarts, Running, MaxRestarts
<1>1. /\ RowTyped' /\ PastTyped' /\ WorkerTyped' /\ TickTyped' /\ AskedTyped' /\ RowSound'
      /\ SecretsSwept'
  BY DEF ServiceRestarts, Running, Fault, MaxRestarts, past, docker, bounds, LifeInv, RowTyped,
     PastTyped, WorkerTyped, TickTyped, AskedTyped, RowSound, SecretsSwept
<1>2. DockerTyped'
  BY DEF ServiceRestarts, Running, Fault, MaxRestarts, past, docker, bounds, LifeInv, DockerTyped
<1>3. CountsTyped'
  BY FaultCounts, <1>a DEF LifeInv, ServiceRestarts, CountsTyped
<1>4. QueueTyped' /\ QueueWanted'
  BY SameLine DEF ServiceRestarts, Running, Fault, MaxRestarts, past, docker, bounds, LifeInv, AskedGrows
<1>5. HandlerHolds'
  BY DEF ServiceRestarts, Running, Fault, MaxRestarts, past, docker, bounds, LifeInv, HandlerHolds, Existing
<1>6. TickSees'
  BY DEF ServiceRestarts, Running, Fault, MaxRestarts, past, docker, bounds, LifeInv, TickSees
<1>7. CountsKept'
  <2>1. /\ containers'[s].state = "running" /\ containers'[s].restarts = containers[s].restarts + 1
        /\ \A x \in Service : x # s => containers'[x] = containers[x]
    BY <1>a DEF LifeInv, DockerTyped
  <2>2. containers[s].restarts \in Nat /\ worker.base[s] \in Nat
    BY <1>a DEF LifeInv, DockerTyped, WorkerTyped, WorkerRecord
  <2>3. UNCHANGED worker /\ crashed \subseteq Service
    BY DEF LifeInv, CountsTyped, ServiceRestarts
  <2> QED BY <1>a, <2>1, <2>2, <2>3 DEF LifeInv, CountsKept
<1>8. RowGoesLast'
  BY DEF ServiceRestarts, Running, Fault, MaxRestarts, past, docker, bounds, LifeInv, RowGoesLast, Existing
<1> QED BY <1>1, <1>2, <1>3, <1>4, <1>5, <1>6, <1>7, <1>8 DEF LifeInv


LEMMA ServiceDiesKeeps ==
  ASSUME LifeInv, ServiceDies
  PROVE  LifeInv'
<1>1. /\ RowTyped' /\ PastTyped' /\ WorkerTyped' /\ TickTyped' /\ AskedTyped' /\ RowSound'
      /\ SecretsSwept'
  BY DEF ServiceDies, Running, Fault, None, past, docker, bounds, LifeInv, RowTyped, PastTyped,
     WorkerTyped, TickTyped, AskedTyped, RowSound, SecretsSwept
<1>2. DockerTyped'
  <2>1. PICK s \in Service, c \in {None, [state |-> "failed", restarts |-> 0]} :
          containers' = [containers EXCEPT ![s] = c]
    BY DEF ServiceDies, Running
  <2>2. 0 \in 0..2
    OBVIOUS
  <2>3. c \in [state : State, restarts : 0..2]
    BY <2>2 DEF None, State
  <2> QED BY <2>1, <2>3 DEF LifeInv, DockerTyped, ServiceDies
<1>3. CountsTyped'
  BY FaultCounts DEF LifeInv, ServiceDies, CountsTyped
<1>4. QueueTyped' /\ QueueWanted'
  BY SameLine DEF ServiceDies, Running, Fault, None, past, docker, bounds, LifeInv, AskedGrows
<1>5. HandlerHolds'
  BY DEF ServiceDies, Running, Fault, None, past, docker, bounds, LifeInv, HandlerHolds, Existing
<1>6. TickSees'
  BY DEF ServiceDies, Running, Fault, None, past, docker, bounds, LifeInv, TickSees
<1>7. CountsKept'
  BY DEF ServiceDies, Running, Fault, None, past, docker, bounds, LifeInv, CountsKept
<1>8. RowGoesLast'
  BY DEF ServiceDies, Running, Fault, None, past, docker, bounds, LifeInv, RowGoesLast, Existing
<1> QED BY <1>1, <1>2, <1>3, <1>4, <1>5, <1>6, <1>7, <1>8 DEF LifeInv


LEMMA CrashKeeps ==
  ASSUME LifeInv, Crash
  PROVE  LifeInv'
<1>1. RowTyped' /\ PastTyped' /\ AskedTyped'
  BY DEF Crash, Working, At, Fault, Recreate, None, NoTick, Idle, Volume, past, docker, bounds, LifeInv,
     RowTyped, PastTyped, AskedTyped
<1>2. DockerTyped' /\ volumes \subseteq volumes'
  <2>1. CASE UNCHANGED docker
    BY <2>1 DEF LifeInv, DockerTyped, docker
  <2>2. CASE ~UNCHANGED docker
    <3>1. PICK touched \in SUBSET Service : Recreate(touched, {})
      BY <2>2 DEF Crash
    <3> QED BY <3>1, RecreateSteps
  <2> QED BY <2>1, <2>2
<1>3. WorkerTyped'
  <2>1. [Idle EXCEPT !.pc = "off"] \in WorkerRecord
    BY IdleWorker DEF WorkerRecord
  <2> QED BY <2>1 DEF Crash, WorkerTyped
<1>4. TickTyped'
  BY DEF Crash, Working, At, Fault, Recreate, None, NoTick, Idle, Volume, past, docker, bounds, LifeInv,
     TickTyped
<1>5. CountsTyped'
  BY FaultCounts DEF LifeInv, Crash, CountsTyped
<1>6. QueueTyped' /\ QueueWanted'
  BY SameLine DEF Crash, Working, At, Fault, Recreate, None, NoTick, Idle, Volume, past, docker, bounds,
     LifeInv, AskedGrows
<1>7. HandlerHolds'
  BY DEF Crash, Working, At, Fault, Recreate, None, NoTick, Idle, Volume, past, docker, bounds, LifeInv,
     HandlerHolds, Existing
<1>8. RowSound'
  BY DEF Crash, Working, At, Fault, Recreate, None, NoTick, Idle, Volume, past, docker, bounds, LifeInv,
     RowSound
<1>9. TickSees'
  BY DEF Crash, Working, At, Fault, Recreate, None, NoTick, Idle, Volume, past, docker, bounds, LifeInv,
     TickSees
<1>10. CountsKept'
  BY DEF Crash, Working, At, Fault, Recreate, None, NoTick, Idle, Volume, past, docker, bounds, LifeInv,
     CountsKept
<1>11. SecretsSwept'
  BY DEF Crash, Working, At, Fault, Recreate, None, NoTick, Idle, Volume, past, docker, bounds, LifeInv,
     SecretsSwept
<1>12. RowGoesLast'
  <2>1. CASE UNCHANGED docker
    BY <2>1 DEF LifeInv, Crash, RowGoesLast, Existing, docker
  <2>2. CASE ~UNCHANGED docker
    BY <2>2 DEF LifeInv, Crash, RowGoesLast, HandlerHolds, At
  <2> QED BY <2>1, <2>2
<1> QED BY <1>1, <1>2, <1>3, <1>4, <1>5, <1>6, <1>7, <1>8, <1>9, <1>10, <1>11, <1>12 DEF LifeInv


LEMMA BootKeeps ==
  ASSUME LifeInv, Boot
  PROVE  LifeInv'
<1>1. /\ RowTyped' /\ PastTyped' /\ DockerTyped' /\ AskedTyped' /\ CountsTyped' /\ RowSound'
      /\ TickSees' /\ RowGoesLast'
  BY DEF Boot, At, Idle, past, docker, bounds, LifeInv, RowTyped, PastTyped, DockerTyped, AskedTyped,
     CountsTyped, RowSound, TickSees, RowGoesLast, Existing
<1>2. WorkerTyped'
  BY IdleWorker DEF Boot, WorkerTyped
<1>3. TickTyped'
  BY DEF Boot, At, Idle, past, docker, bounds, LifeInv, TickTyped
<1>4. QueueTyped' /\ QueueWanted'
  BY SameLine DEF Boot, At, Idle, past, docker, bounds, LifeInv, AskedGrows
<1>5. HandlerHolds'
  BY DEF Boot, At, Idle, past, docker, bounds, LifeInv, HandlerHolds, Existing
<1>6. CountsKept'
  BY DEF Boot, At, Idle, past, docker, bounds, LifeInv, CountsKept
<1>7. SecretsSwept'
  BY DEF Boot, At, Idle, past, docker, bounds, LifeInv, SecretsSwept
<1> QED BY <1>1, <1>2, <1>3, <1>4, <1>5, <1>6, <1>7 DEF LifeInv


LEMMA StopStackKeeps ==
  ASSUME LifeInv, StopStack
  PROVE  LifeInv'
<1>a. queue # << >> /\ Head(queue) = queue[1] /\ queue[1] \in JobRecord /\ queue[1].kind = "stop"
  BY LeaveLine DEF LifeInv, StopStack, HandlerHolds, Take, At, QueueTyped
<1>b. UNCHANGED asked /\ AskedGrows
  BY DEF StopStack, AskedGrows
<1>c. QueueTyped' /\ QueueWanted'
  <2>1. CASE Throws
    BY <1>a, <1>b, <2>1, JobThrows DEF LifeInv
  <2>2. CASE ~Throws
    BY <1>a, <1>b, <2>2, JobLeaves, SameLine DEF LifeInv, StopStack, Ended
  <2> QED BY <2>1, <2>2
<1>d. worker' = Idle
  BY <1>a, <1>b, JobThrows DEF LifeInv, StopStack, Ended
<1>1. PastTyped' /\ TickTyped' /\ AskedTyped'
  BY DEF StopStack, Take, At, Idle, Ended, Throws, past, docker, bounds, LifeInv, PastTyped, TickTyped,
     AskedTyped
<1>2. RowTyped'
  BY DEF LifeInv, StopStack, RowTyped, RowRecord
<1>3. DockerTyped'
  <2>1. \A s \in Service : containers'[s] \in [state : State, restarts : 0..2]
    BY DEF LifeInv, StopStack, DockerTyped, State
  <2>2. containers' \in [Service -> [state : State, restarts : 0..2]]
    BY <2>1 DEF StopStack
  <2> QED BY <2>2 DEF LifeInv, StopStack, DockerTyped
<1>4. WorkerTyped'
  BY <1>d, IdleWorker DEF WorkerTyped
<1>5. CountsTyped'
  BY FaultCounts DEF LifeInv, StopStack, CountsTyped
<1>6. QueueTyped' /\ QueueWanted'
  BY <1>c
<1>7. HandlerHolds'
  BY <1>d, IdleWorker DEF HandlerHolds
<1>8. RowSound'
  BY DEF LifeInv, StopStack, RowSound, RowTyped, RowRecord
<1>9. TickSees'
  <2>1. \A s \in Service : containers[s].state \notin {"running", "done"} => containers'[s] = containers[s]
    BY DEF StopStack, Running
  <2>2. row'.current = row.current /\ row'.exists = row.exists /\ tick' = tick /\ worker.pc = "idle"
    BY DEF LifeInv, StopStack, Take, At, RowTyped, RowRecord
  <2>3. tick.down \subseteq Service
    BY DEF LifeInv, TickTyped
  <2> QED BY <2>1, <2>2, <2>3 DEF LifeInv, TickSees
<1>10. CountsKept'
  BY <1>d, IdleWorker DEF LifeInv, StopStack, CountsKept
<1>11. SecretsSwept'
  BY <1>d, IdleWorker DEF LifeInv, StopStack, Take, At, SecretsSwept
<1>12. RowGoesLast'
  BY DEF LifeInv, StopStack, RowGoesLast, RowTyped, RowRecord
<1> QED BY <1>1, <1>2, <1>3, <1>4, <1>5, <1>6, <1>7, <1>8, <1>9, <1>10, <1>11, <1>12 DEF LifeInv


LEMMA ComposeDownKeeps ==
  ASSUME LifeInv, ComposeDown
  PROVE  LifeInv'
<1>a. queue # << >> /\ Head(queue) = queue[1] /\ queue[1] \in JobRecord /\ queue[1].kind = "remove"
  BY LeaveLine DEF LifeInv, ComposeDown, HandlerHolds, Take, At, QueueTyped
<1>b. UNCHANGED asked /\ AskedGrows
  BY DEF ComposeDown, AskedGrows
<1>c. QueueTyped' /\ QueueWanted'
  <2>1. CASE Throws
    BY <1>a, <1>b, <2>1, JobThrows DEF LifeInv
  <2>2. CASE ~Throws
    BY <1>a, <1>b, <2>2, JobLeaves, SameLine DEF LifeInv, ComposeDown, Ended
  <2> QED BY <2>1, <2>2
<1>d. worker' = Idle \/ (worker' = [Idle EXCEPT !.pc = "volumes"] /\ UNCHANGED queue /\ Existing' = {})
  <2>1. CASE Throws
    BY <1>a, <1>b, <2>1, JobThrows DEF LifeInv
  <2>2. CASE ~Throws
    BY <2>2 DEF ComposeDown, StackRemains, Existing, None
  <2> QED BY <2>1, <2>2
<1>e. [Idle EXCEPT !.pc = "volumes"] \in WorkerRecord /\ [Idle EXCEPT !.pc = "volumes"].pc = "volumes"
  BY IdleWorker DEF WorkerRecord
<1>f. row'.exists
  BY DEF LifeInv, ComposeDown, RowTyped, RowRecord
<1>1. PastTyped' /\ TickTyped' /\ AskedTyped'
  BY DEF ComposeDown, Take, At, Idle, Throws, past, docker, bounds, LifeInv, PastTyped, TickTyped, AskedTyped
<1>2. RowTyped'
  BY DEF LifeInv, ComposeDown, RowTyped, RowRecord
<1>3. DockerTyped'
  <2>1. 0 \in 0..2
    OBVIOUS
  <2>2. \A s \in Service : containers'[s] \in [state : State, restarts : 0..2]
    BY <2>1 DEF LifeInv, ComposeDown, DockerTyped, State, None
  <2>3. containers' \in [Service -> [state : State, restarts : 0..2]]
    BY <2>2 DEF ComposeDown
  <2> QED BY <2>3 DEF LifeInv, ComposeDown, DockerTyped
<1>4. WorkerTyped'
  BY <1>d, <1>e, IdleWorker DEF WorkerTyped
<1>5. CountsTyped'
  BY FaultCounts DEF LifeInv, ComposeDown, CountsTyped
<1>6. QueueTyped' /\ QueueWanted'
  BY <1>c
<1>7. HandlerHolds'
  BY <1>a, <1>d, <1>e, <1>f, IdleWorker DEF HandlerHolds
<1>8. RowSound'
  BY DEF LifeInv, ComposeDown, RowSound, RowTyped, RowRecord
<1>9. TickSees'
  <2>1. \A s \in Service : containers'[s] = containers[s] \/ containers'[s] = None
    BY DEF ComposeDown
  <2>2. row'.current = row.current /\ row'.exists = row.exists /\ tick' = tick /\ worker.pc = "idle"
    BY DEF LifeInv, ComposeDown, Take, At, RowTyped, RowRecord
  <2>3. tick.down \subseteq Service
    BY DEF LifeInv, TickTyped
  <2> QED BY <2>1, <2>2, <2>3 DEF LifeInv, TickSees, None
<1>10. CountsKept'
  BY <1>d, <1>e, IdleWorker DEF LifeInv, ComposeDown, CountsKept
<1>11. SecretsSwept'
  BY DEF LifeInv, ComposeDown, Take, At, SecretsSwept
<1>12. RowGoesLast'
  BY <1>f DEF RowGoesLast
<1> QED BY <1>1, <1>2, <1>3, <1>4, <1>5, <1>6, <1>7, <1>8, <1>9, <1>10, <1>11, <1>12 DEF LifeInv


LEMMA RemoveStackVolumesKeeps ==
  ASSUME LifeInv, RemoveStackVolumes
  PROVE  LifeInv'
<1>a. queue # << >> /\ Head(queue) = queue[1] /\ queue[1] \in JobRecord /\ queue[1].kind = "remove"
  BY LeaveLine DEF LifeInv, RemoveStackVolumes, HandlerHolds, Take, At, QueueTyped
<1>b. UNCHANGED asked /\ AskedGrows
  BY DEF RemoveStackVolumes, AskedGrows
<1>c. QueueTyped' /\ QueueWanted'
  <2>1. CASE Throws
    BY <1>a, <1>b, <2>1, JobThrows DEF LifeInv
  <2>2. CASE ~Throws
    BY <1>a, <1>b, <2>2, JobLeaves, SameLine DEF LifeInv, RemoveStackVolumes, Ended
  <2> QED BY <2>1, <2>2
<1>d. \/ worker' = Idle
      \/ /\ worker' = [Idle EXCEPT !.pc = "forget"] /\ UNCHANGED queue
         /\ queue[1].ticked => "own" \notin volumes'
  <2>1. CASE Throws
    BY <1>a, <1>b, <2>1, JobThrows DEF LifeInv
  <2>2. CASE ~Throws
    BY <1>a, <2>2 DEF RemoveStackVolumes, StackVolumesToRemove
  <2> QED BY <2>1, <2>2
<1>e. [Idle EXCEPT !.pc = "forget"] \in WorkerRecord /\ [Idle EXCEPT !.pc = "forget"].pc = "forget"
  BY IdleWorker DEF WorkerRecord
<1>1. RowTyped' /\ PastTyped' /\ TickTyped' /\ AskedTyped'
  BY DEF RemoveStackVolumes, At, Idle, Throws, past, docker, bounds, LifeInv, RowTyped, PastTyped,
     TickTyped, AskedTyped
<1>2. DockerTyped'
  BY DEF LifeInv, RemoveStackVolumes, DockerTyped
<1>3. WorkerTyped'
  BY <1>d, <1>e, IdleWorker DEF WorkerTyped
<1>4. CountsTyped'
  BY FaultCounts DEF LifeInv, RemoveStackVolumes, CountsTyped
<1>5. QueueTyped' /\ QueueWanted'
  BY <1>c
<1>6. HandlerHolds'
  BY <1>a, <1>d, <1>e, IdleWorker DEF LifeInv, RemoveStackVolumes, HandlerHolds, At, Existing
<1>7. RowSound'
  BY DEF LifeInv, RemoveStackVolumes, StackVolumesToRemove, RowSound
<1>8. TickSees'
  BY DEF LifeInv, RemoveStackVolumes, At, TickSees, docker
<1>9. CountsKept'
  BY <1>d, <1>e, IdleWorker DEF LifeInv, RemoveStackVolumes, CountsKept
<1>10. SecretsSwept'
  BY DEF LifeInv, RemoveStackVolumes, At, SecretsSwept
<1>11. RowGoesLast'
  BY DEF LifeInv, RemoveStackVolumes, At, HandlerHolds, RowGoesLast
<1> QED BY <1>1, <1>2, <1>3, <1>4, <1>5, <1>6, <1>7, <1>8, <1>9, <1>10, <1>11 DEF LifeInv


LEMMA RemoveVolumeKeeps ==
  ASSUME LifeInv, RemoveVolume
  PROVE  LifeInv'
<1>a. queue # << >> /\ Head(queue) = queue[1] /\ queue[1] \in JobRecord /\ queue[1].kind = "volume"
  BY LeaveLine DEF LifeInv, RemoveVolume, HandlerHolds, Take, At, QueueTyped
<1>b. UNCHANGED asked /\ AskedGrows
  BY DEF RemoveVolume, AskedGrows
<1>c. QueueTyped' /\ QueueWanted'
  <2>1. CASE Throws
    BY <1>a, <1>b, <2>1, JobThrows DEF LifeInv
  <2>2. CASE ~Throws
    BY <1>a, <1>b, <2>2, JobLeaves, SameLine DEF LifeInv, RemoveVolume, Ended
  <2> QED BY <2>1, <2>2
<1>d. worker' = Idle
  BY <1>a, <1>b, JobThrows DEF LifeInv, RemoveVolume, Ended
<1>1. RowTyped' /\ PastTyped' /\ TickTyped' /\ AskedTyped'
  BY DEF RemoveVolume, Take, At, Idle, Throws, Ended, past, docker, bounds, LifeInv, RowTyped,
     PastTyped, TickTyped, AskedTyped
<1>2. DockerTyped'
  BY DEF LifeInv, RemoveVolume, DockerTyped
<1>3. WorkerTyped'
  BY <1>d, IdleWorker DEF WorkerTyped
<1>4. CountsTyped'
  BY FaultCounts DEF LifeInv, RemoveVolume, CountsTyped
<1>5. QueueTyped' /\ QueueWanted'
  BY <1>c
<1>6. HandlerHolds'
  BY <1>d, IdleWorker DEF HandlerHolds
<1>7. RowSound'
  BY DEF LifeInv, RemoveVolume, StackVolumesToRemove, RowSound
<1>8. TickSees'
  BY DEF LifeInv, RemoveVolume, Take, At, TickSees, docker
<1>9. CountsKept'
  BY <1>d, IdleWorker DEF LifeInv, RemoveVolume, CountsKept
<1>10. SecretsSwept'
  BY <1>d, IdleWorker DEF LifeInv, RemoveVolume, Take, At, SecretsSwept
<1>11. RowGoesLast'
  BY DEF LifeInv, RemoveVolume, RowGoesLast, Existing, StackVolumesToRemove
<1> QED BY <1>1, <1>2, <1>3, <1>4, <1>5, <1>6, <1>7, <1>8, <1>9, <1>10, <1>11 DEF LifeInv


LEMMA PassOverKeeps ==
  ASSUME LifeInv, PassOver
  PROVE  LifeInv' /\ Len(queue') = Len(queue)
<1>1. PICK i \in 2..Len(queue) :
        queue' = << queue[i] >> \o SubSeq(queue, 1, i - 1) \o SubSeq(queue, i + 1, Len(queue))
  BY DEF PassOver
<1>2. At("idle") /\ UNCHANGED <<row, draft, past, docker, worker, tmp, tick, asked, crashed, bounds>>
  BY DEF PassOver
<1> DEFINE n == Len(queue)
           before == SubSeq(queue, 1, i - 1)
           after == SubSeq(queue, i + 1, n)
           front == << queue[i] >> \o before
<1>3. queue \in Seq(JobRecord) /\ n \in Nat /\ DOMAIN queue = 1..n /\ i \in 1..n /\ i \in Nat /\ i >= 2
  BY DEF LifeInv, QueueTyped
<1>4. /\ before \in Seq(JobRecord) /\ Len(before) = i - 1
      /\ \A k \in 1..(i - 1) : before[k] = queue[k]
  <2>1. \A k \in 1..(i - 1) : queue[k] \in JobRecord
    BY <1>3
  <2> QED BY <1>3, <2>1, SubSeqProperties
<1>5. /\ after \in Seq(JobRecord) /\ Len(after) = n - i
      /\ \A k \in 1..(n - i) : after[k] = queue[i + k]
  <2>1. \A k \in (i + 1)..n : queue[k] \in JobRecord
    BY <1>3
  <2>2. i + 1 \in Int /\ n \in Int
    BY <1>3
  <2>3. /\ after \in Seq(JobRecord) /\ Len(after) = IF i + 1 <= n THEN n - (i + 1) + 1 ELSE 0
        /\ \A k \in 1..(n - (i + 1) + 1) : after[k] = queue[(i + 1) + k - 1]
    BY <2>1, <2>2, SubSeqProperties
  <2> HIDE DEF after
  <2>4. n - (i + 1) + 1 = n - i /\ (~(i + 1 <= n) => n - i = 0)
    <3>1. n \in Int /\ i \in Int /\ i <= n
      BY <1>3
    <3> HIDE DEF n
    <3> QED BY <3>1
  <2>5. \A k \in 1..(n - i) : (i + 1) + k - 1 = i + k
    BY <1>3
  <2> QED BY <2>3, <2>4, <2>5
<1> HIDE DEF before, after
<1>6. /\ front \in Seq(JobRecord) /\ Len(front) = i /\ front[1] = queue[i]
      /\ \A k \in 1..(i - 1) : front[k + 1] = before[k]
  BY <1>3, <1>4, HeadOfLine
<1> HIDE DEF front
<1>7. /\ queue' \in Seq(JobRecord) /\ Len(queue') = n
      /\ \A k \in 1..n : queue'[k] = IF k <= i THEN front[k] ELSE after[k - i]
  <2>1. queue' = front \o after
    BY <1>1 DEF front, before, after
  <2>2. Len(front) + Len(after) = n
    BY <1>3, <1>5, <1>6
  <2>3. /\ front \o after \in Seq(JobRecord) /\ Len(front \o after) = Len(front) + Len(after)
        /\ \A k \in 1..(Len(front) + Len(after)) :
             (front \o after)[k] = IF k <= Len(front) THEN front[k] ELSE after[k - Len(front)]
    BY <1>5, <1>6, ConcatProperties
  <2> QED BY <2>1, <2>2, <2>3, <1>6
\* Every place of the new line has a job of the old one, and the other way round.
<1>8. \A k \in 1..n : \E m \in 1..n : queue'[k] = queue[m]
  <2>1. ASSUME NEW k \in 1..n
        PROVE  \E m \in 1..n : queue'[k] = queue[m]
    <3>1. CASE k = 1
      BY <3>1, <1>3, <1>6, <1>7
    <3>2. CASE k # 1 /\ k <= i
      <4>1. k - 1 \in 1..(i - 1) /\ (k - 1) + 1 = k /\ k - 1 \in 1..n
        BY <3>2, <1>3
      <4> QED BY <4>1, <3>2, <1>4, <1>6, <1>7
    <3>3. CASE k > i
      <4>1. k - i \in 1..(n - i) /\ i + (k - i) = k
        BY <3>3, <1>3
      <4> QED BY <4>1, <3>3, <1>3, <1>5, <1>7
    <3> QED BY <3>1, <3>2, <3>3, <1>3
  <2> QED BY <2>1
<1>9. DOMAIN queue' = 1..n
  BY <1>7
<1>10. QueueTyped' /\ QueueWanted'
  <2>1. QueueWanted'
    <3>1. ASSUME NEW k \in 1..n
          PROVE  Wants(queue[k])'
      <4>1. PICK m \in 1..n : queue'[k] = queue[m]
        BY <1>8
      <4>2. Wants(queue[m])
        BY <1>3 DEF LifeInv, QueueWanted
      <4> QED BY <1>2, <4>1, <4>2 DEF Wants
    <3> QED BY <1>9, <3>1 DEF QueueWanted
  <2> QED BY <2>1, <1>7 DEF QueueTyped
<1>11. /\ RowTyped' /\ PastTyped' /\ DockerTyped' /\ WorkerTyped' /\ TickTyped' /\ AskedTyped' /\ CountsTyped'
       /\ RowSound' /\ CountsKept' /\ SecretsSwept' /\ RowGoesLast'
  BY <1>2 DEF LifeInv, RowTyped, PastTyped, DockerTyped, WorkerTyped, TickTyped, AskedTyped, CountsTyped,
     RowSound, CountsKept, SecretsSwept, RowGoesLast, Existing, past, docker, bounds
<1>12. HandlerHolds'
  BY <1>2 DEF HandlerHolds, At
<1>13. TickSees'
  BY <1>2, <1>10 DEF LifeInv, TickSees, docker
<1> QED BY <1>7, <1>10, <1>11, <1>12, <1>13 DEF LifeInv

\* An hour passes: some jobs are marked, and nothing else is new of them.
LEMMA HourPassesKeeps ==
  ASSUME LifeInv, HourPasses
  PROVE  LifeInv' /\ Len(queue') = Len(queue)
<1>1. PICK i \in DOMAIN queue :
        queue' = [k \in DOMAIN queue |->
                   [queue[k] EXCEPT !.aged = queue[k].aged \/ (queue[k].kind = "deploy" /\ k <= i)]]
  BY DEF HourPasses
<1>2. Fault /\ UNCHANGED <<row, draft, past, docker, worker, tmp, tick, asked, crashed, edits>>
  BY DEF HourPasses
<1>3. queue \in Seq(JobRecord) /\ Len(queue) \in Nat /\ DOMAIN queue = 1..Len(queue)
  BY DEF LifeInv, QueueTyped
<1>4. \A k \in DOMAIN queue : /\ queue'[k] \in JobRecord /\ queue'[k].kind = queue[k].kind
                              /\ queue'[k].file = queue[k].file /\ queue'[k].ticked = queue[k].ticked
  <2>1. ASSUME NEW k \in DOMAIN queue
        PROVE  /\ queue'[k] \in JobRecord /\ queue'[k].kind = queue[k].kind
               /\ queue'[k].file = queue[k].file /\ queue'[k].ticked = queue[k].ticked
    <3> DEFINE b == queue[k].aged \/ (queue[k].kind = "deploy" /\ k <= i)
    <3>1. queue[k] \in JobRecord /\ b \in BOOLEAN
      <4>1. queue[k] \in JobRecord
        BY <1>3
      <4>2. queue[k].aged \in BOOLEAN
        BY <4>1 DEF JobRecord
      <4> QED BY <4>1, <4>2
    <3>2. queue'[k] = [queue[k] EXCEPT !.aged = b]
      BY <1>1
    <3> HIDE DEF b
    <3> QED BY <3>1, <3>2 DEF JobRecord
  <2> QED BY <2>1
<1>5. queue' \in Seq(JobRecord) /\ Len(queue') = Len(queue) /\ DOMAIN queue' = DOMAIN queue
  <2>1. queue' \in [1..Len(queue) -> JobRecord]
    BY <1>1, <1>3, <1>4
  <2> QED BY <2>1, <1>3
<1>6. QueueTyped' /\ QueueWanted'
  <2>1. \A k \in DOMAIN queue : Wants(queue[k])
    BY DEF LifeInv, QueueWanted
  <2>2. \A k \in DOMAIN queue' : Wants(queue[k])'
    BY <1>2, <1>4, <1>5, <2>1 DEF Wants
  <2> QED BY <1>5, <2>2 DEF QueueTyped, QueueWanted
<1>7. /\ RowTyped' /\ PastTyped' /\ DockerTyped' /\ WorkerTyped' /\ TickTyped' /\ AskedTyped'
      /\ RowSound' /\ TickSees' /\ CountsKept' /\ SecretsSwept' /\ RowGoesLast'
  BY <1>2 DEF LifeInv, RowTyped, PastTyped, DockerTyped, WorkerTyped, TickTyped, AskedTyped,
     RowSound, TickSees, CountsKept, SecretsSwept, RowGoesLast, Existing, past, docker
<1>8. CountsTyped'
  BY <1>2, FaultCounts DEF LifeInv, CountsTyped
<1>9. HandlerHolds'
  <2>1. queue # << >> => queue' # << >> /\ 1 \in DOMAIN queue
    BY <1>3, <1>5
  <2>2. queue # << >> => queue'[1].kind = queue[1].kind /\ queue'[1].ticked = queue[1].ticked
    BY <2>1, <1>4
  <2> QED BY <1>2, <2>1, <2>2 DEF LifeInv, HandlerHolds, Existing, docker
<1> QED BY <1>5, <1>6, <1>7, <1>8, <1>9 DEF LifeInv

\* One poll: the deploy fails, succeeds or goes on.
LEMMA PollKeeps ==
  ASSUME LifeInv, Poll
  PROVE  LifeInv'
<1> DEFINE file == Head(queue).file
<1>1. /\ queue # << >> /\ Head(queue) = queue[1] /\ queue[1].kind = "deploy" /\ row.exists
      /\ file \in Files /\ file \in asked.files /\ file \subseteq Service /\ file # {}
  BY DeployHead DEF Poll, At
<1> HIDE DEF file
<1>2. At("poll") /\ UNCHANGED <<draft, docker, asked, crashed, edits>> /\ AskedGrows /\ (UNCHANGED faults \/ Fault)
  BY DEF Poll, AskedGrows
<1>3. DockerTyped' /\ AskedTyped' /\ CountsTyped'
  BY <1>2, FaultCounts DEF LifeInv, DockerTyped, AskedTyped, CountsTyped, docker
<1>4. CASE DeployEnds
  <2>1. /\ worker' = Idle /\ queue' = Tail(queue) /\ tmp' = FALSE
        /\ finished' = finished \cup {file} /\ tick' = [tick EXCEPT !.finished = tick.on]
    BY <1>4 DEF DeployEnds, Ended, file
  <2>2. QueueTyped' /\ QueueWanted'
    BY <1>1, <1>2, <2>1, JobLeaves DEF LifeInv
  <2>3. WorkerTyped' /\ HandlerHolds' /\ SecretsSwept'
    BY <2>1, IdleWorker DEF WorkerTyped, HandlerHolds, SecretsSwept
  <2>4. TickTyped' /\ TickSees'
    BY <2>1 DEF LifeInv, TickTyped, TickSees
  <2>5. CountsKept'
    BY <1>2, <2>1, IdleWorker DEF LifeInv, CountsKept
  <2>6. \/ UNCHANGED <<row, succeeded>>
        \/ /\ succeeded' = Append(succeeded, file)
           /\ row' = [row EXCEPT !.desired = "running", !.current = file, !.container = row'.container]
           /\ row'.container \in Service
    <3>1. CASE RecordSuccess
      <4> DEFINE s == CHOOSE s \in PrimaryService(NoService, file) : TRUE
      <4>1. s \in Service
        BY <1>1 DEF PrimaryService
      <4>2. row' = [row EXCEPT !.desired = "running", !.current = file, !.container = s]
            /\ succeeded' = Append(succeeded, file)
        BY <3>1 DEF RecordSuccess, file
      <4> HIDE DEF s
      <4>3. row'.container = s
        BY <4>2 DEF LifeInv, RowTyped, RowRecord
      <4> QED BY <4>1, <4>2, <4>3
    <3>2. CASE UNCHANGED <<row, succeeded>>
      BY <3>2
    <3>3. CASE worker' = [worker EXCEPT !.good = worker'.good, !.blind = worker'.blind] /\ UNCHANGED queue
      <4>1. worker'.pc = "poll"
        BY <3>3, <1>2 DEF LifeInv, WorkerTyped, WorkerRecord, At
      <4> QED BY <4>1, <2>1, IdleWorker
    <3>4. RecordSuccess \/ UNCHANGED <<row, succeeded>>
      BY DEF Poll, past
    <3> QED BY <3>1, <3>2, <3>4
  <2>7. PastTyped'
    BY <1>1, <1>2, <2>1, <2>6, AppendProperties DEF LifeInv, PastTyped
  <2>8. RowTyped' /\ RowSound' /\ RowGoesLast'
    <3>1. CASE UNCHANGED <<row, succeeded>>
      BY <1>2, <3>1 DEF LifeInv, RowTyped, RowSound, RowGoesLast, Existing, docker
    <3>2. CASE ~UNCHANGED <<row, succeeded>>
      <4>1. RowTyped' /\ row'.current = file /\ row'.exists
        BY <1>1, <2>6, <3>2 DEF LifeInv, RowTyped, RowRecord
      <4> QED BY <4>1, <1>1, <1>2 DEF LifeInv, RowSound, RowGoesLast, docker
    <3> QED BY <3>1, <3>2
  <2> QED BY <1>3, <2>2, <2>3, <2>4, <2>5, <2>7, <2>8 DEF LifeInv
<1>5. CASE ~DeployEnds
  <2>1. /\ worker' = [worker EXCEPT !.good = worker'.good, !.blind = worker'.blind]
        /\ worker'.good \in BOOLEAN /\ worker'.blind \in BOOLEAN
        /\ UNCHANGED <<row, past, queue, tmp, tick>>
    BY <1>5 DEF LifeInv, WorkerTyped, WorkerRecord, Poll, RecordSuccess
  <2>2. WorkerTyped' /\ worker'.pc = "poll" /\ worker'.base = worker.base /\ worker.pc = "poll"
    BY <1>2, <2>1 DEF LifeInv, WorkerTyped, WorkerRecord, At
  <2>3. QueueTyped' /\ QueueWanted'
    BY <1>2, <2>1, SameLine DEF LifeInv
  <2>4. RowTyped' /\ PastTyped' /\ TickTyped' /\ RowSound' /\ TickSees' /\ RowGoesLast'
    BY <1>2, <2>1, <2>2 DEF LifeInv, RowTyped, PastTyped, TickTyped, RowSound, TickSees, RowGoesLast,
       Existing, past, docker
  <2>5. HandlerHolds' /\ CountsKept' /\ SecretsSwept'
    BY <1>2, <2>1, <2>2 DEF LifeInv, HandlerHolds, CountsKept, SecretsSwept, docker
  <2> QED BY <1>3, <2>2, <2>3, <2>4, <2>5 DEF LifeInv
<1> QED BY <1>4, <1>5

-----------------------------------------------------------------------------
(* The invariant.                                                           *)

LEMMA InitLife == Init => LifeInv
<1> SUFFICES ASSUME Init PROVE LifeInv
  OBVIOUS
<1>1. PICK f \in Files, g \in Files, old \in BOOLEAN :
        /\ old \/ f = g
        /\ succeeded = IF old THEN <<f, g>> ELSE << >>
        /\ draft = g
        /\ row = [exists |-> TRUE, desired |-> "stopped", current |-> IF old THEN g ELSE {},
                  container |-> NoService]
        /\ containers = [s \in Service |-> IF old /\ s \in g THEN [state |-> "failed", restarts |-> 0] ELSE None]
        /\ volumes = IF old THEN Volume ELSE {"foreign"}
        /\ network = old
        /\ finished = IF old THEN {f, g} ELSE {}
        /\ asked = [files |-> finished, ticked |-> FALSE, kept |-> FALSE, forgot |-> FALSE]
  BY Zenon DEF Init
<1>2. /\ queue = << >> /\ worker = Idle /\ tmp = FALSE /\ tick = NoTick
      /\ crashed = {} /\ edits = 0 /\ faults = 0
  BY DEF Init
<1>3. g \subseteq Service /\ {} \in SUBSET Service
  BY LifeConstants
<1>4. RowTyped /\ PastTyped
  <2>1. row \in RowRecord
    BY <1>1, <1>3 DEF RowRecord
  <2>2. succeeded \in Seq(Files) /\ finished \subseteq Files
    BY <1>1
  <2> QED BY <1>1, <2>1, <2>2 DEF RowTyped, PastTyped
<1>5. DockerTyped
  <2>1. 0 \in 0..2
    OBVIOUS
  <2>2. [state |-> "failed", restarts |-> 0] \in [state : State, restarts : 0..2] /\ None \in [state : State, restarts : 0..2]
    BY <2>1 DEF None, State
  <2>3. containers \in [Service -> [state : State, restarts : 0..2]]
    BY <1>1, <2>2
  <2> QED BY <1>1, <2>3 DEF DockerTyped, Volume
<1>6. QueueTyped /\ QueueWanted
  BY <1>2 DEF QueueTyped, QueueWanted
<1>7. WorkerTyped /\ worker.pc = "idle"
  BY <1>2, IdleWorker DEF WorkerTyped
<1>8. TickTyped /\ ~tick.on
  BY <1>2, <1>3 DEF TickTyped, NoTick
<1>9. AskedTyped
  <2>1. finished \in SUBSET Files
    BY <1>1
  <2> QED BY <1>1, <2>1 DEF AskedTyped, AskedRecord
<1>10. CountsTyped
  BY <1>2, LifeConstants DEF CountsTyped
<1>11. HandlerHolds /\ SecretsSwept /\ CountsKept
  BY <1>2, <1>7 DEF HandlerHolds, SecretsSwept, CountsKept
<1>12. RowSound /\ TickSees /\ RowGoesLast
  BY <1>1, <1>8 DEF RowSound, TickSees, RowGoesLast, Volume
<1> QED BY <1>4, <1>5, <1>6, <1>7, <1>8, <1>9, <1>10, <1>11, <1>12 DEF LifeInv

LEMMA NextLife == LifeInv /\ [Next]_vars => LifeInv'
<1> SUFFICES ASSUME LifeInv, [Next]_vars PROVE LifeInv'
  OBVIOUS
<1>1. CASE Deploy \/ Rollback \/ Redeploy \/ SaveSettings \/ Stop \/ Delete \/ RemoveKeptVolume
  BY <1>1, DeployKeeps, RollbackKeeps, RedeployKeeps, SaveSettingsKeeps, StopKeeps, DeleteKeeps,
     RemoveKeptVolumeKeeps
<1>2. CASE PassOver \/ NoRow \/ Begin \/ Snapshot \/ Up \/ UpFails \/ GateRouted \/ GateOthers \/ Poll \/ DeployFails
  BY <1>2, PassOverKeeps, NoRowKeeps, BeginKeeps, SnapshotKeeps, UpKeeps, UpFailsKeeps, GateRoutedKeeps,
     GateOthersKeeps, PollKeeps, DeployFailsKeeps
<1>3. CASE StopStack \/ ComposeDown \/ RemoveStackVolumes \/ ForgetRow \/ RemoveVolume
  BY <1>3, StopStackKeeps, ComposeDownKeeps, RemoveStackVolumesKeeps, ForgetRowKeeps, RemoveVolumeKeeps
<1>4. CASE TickLists \/ TickHeals \/ TickEnds \/ HourPasses
  BY <1>4, TickListsKeeps, TickHealsKeeps, TickEndsKeeps, HourPassesKeeps
<1>5. CASE OneShotDone \/ ServiceRestarts \/ ServiceDies \/ Crash \/ Boot
  BY <1>5, OneShotDoneKeeps, ServiceRestartsKeeps, ServiceDiesKeeps, CrashKeeps, BootKeeps
<1>6. CASE UNCHANGED vars
  <2>1. /\ RowTyped' /\ PastTyped' /\ DockerTyped' /\ WorkerTyped' /\ TickTyped' /\ AskedTyped' /\ CountsTyped'
        /\ QueueTyped' /\ QueueWanted'
    BY <1>6 DEF LifeInv, RowTyped, PastTyped, DockerTyped, WorkerTyped, TickTyped, AskedTyped, CountsTyped,
       QueueTyped, QueueWanted, Wants, vars
  <2>2. HandlerHolds' /\ RowSound' /\ TickSees' /\ CountsKept' /\ SecretsSwept' /\ RowGoesLast'
    BY <1>6 DEF LifeInv, HandlerHolds, RowSound, TickSees, CountsKept, SecretsSwept, RowGoesLast,
       Existing, vars
  <2> QED BY <2>1, <2>2 DEF LifeInv
<1> QED BY <1>1, <1>2, <1>3, <1>4, <1>5, <1>6 DEF Next

LEMMA LifeHolds == Spec => []LifeInv
  BY InitLife, NextLife, PTL DEF Spec

-----------------------------------------------------------------------------
(* What it gives.                                                           *)

\* Whatever forms, failing calls and crashes: once a deleted stack's row is gone
\* no container of it is left, nor a volume it was to take (processRemove,
\* composeDown), and no deploy's secrets outlive it (runComposeDeploy's finally,
\* prepareComposeDirs).
THEOREM NothingIsLeft == Spec => []NothingLeft
<1>1. LifeInv => NothingLeft
  BY DEF LifeInv, NothingLeft, TypeOK, RowTyped, RowRecord, PastTyped, DockerTyped, QueueTyped, JobRecord,
     WorkerTyped, WorkerRecord, TickTyped, AskedTyped, AskedRecord, CountsTyped, MaxTries, MaxRestarts
<1> QED BY <1>1, LifeHolds, PTL

\* A volume goes only by a ticked delete or the removal of a kept one, and one
\* that is not provably the stack's never (volumes/select.ts).
THEOREM VolumesAreLostByChoice == Spec => VolumesLostByChoice
<1> DEFINE ByChoice == volumes' # volumes =>
                         "foreign" \in volumes \cap volumes' /\ ("own" \in volumes' \/ asked.ticked \/ asked.kept)
<1>1. LifeInv /\ LifeInv' /\ [Next]_vars => [ByChoice]_vars
  <2> SUFFICES ASSUME LifeInv, LifeInv', Next, volumes' # volumes
               PROVE  "foreign" \in volumes \cap volumes' /\ ("own" \in volumes' \/ asked.ticked \/ asked.kept)
    BY DEF vars
  <2>1. "foreign" \in volumes /\ "foreign" \in volumes'
    BY DEF LifeInv, RowSound
  <2>2. Up \/ UpFails \/ Crash \/ RemoveStackVolumes \/ RemoveVolume
    BY DEF Next, docker, Deploy, Rollback, Redeploy, SaveSettings, Stop, Delete, RemoveKeptVolume, PassOver,
       NoRow, Begin, Snapshot, GateRouted, GateOthers, Poll, DeployFails, StopStack, ComposeDown, ForgetRow,
       TickLists, TickHeals, TickEnds, HourPasses, OneShotDone, ServiceRestarts, ServiceDies, Boot
  <2>3. CASE Up \/ UpFails \/ Crash
    <3>1. "own" \in volumes'
      BY <2>3 DEF Up, UpFails, Crash, Recreate, docker
    <3> QED BY <2>1, <3>1
  <2>4. CASE RemoveStackVolumes
    <3>1. queue # << >> /\ queue[1].kind = "remove" /\ Head(queue).ticked
      BY <2>4 DEF LifeInv, HandlerHolds, RemoveStackVolumes, At
    <3>2. Head(queue) = queue[1] /\ 1 \in DOMAIN queue
      BY <3>1, LeaveLine DEF LifeInv, QueueTyped
    <3>3. asked.ticked
      BY <3>1, <3>2 DEF LifeInv, QueueWanted, Wants
    <3> QED BY <2>1, <3>3
  <2>5. CASE RemoveVolume
    <3>1. queue # << >> /\ Head(queue).kind = "volume"
      BY <2>5 DEF RemoveVolume, Take
    <3>2. Head(queue) = queue[1] /\ 1 \in DOMAIN queue
      BY <3>1, LeaveLine DEF LifeInv, QueueTyped
    <3>3. asked.kept
      BY <3>1, <3>2 DEF LifeInv, QueueWanted, Wants
    <3> QED BY <2>1, <3>3
  <2> QED BY <2>2, <2>3, <2>4, <2>5
<1> QED BY <1>1, LifeHolds, PTL DEF Spec, VolumesLostByChoice

\* Only a tick adds a heal, and then for what it still is right to heal
\* (redeployPlan, stackServicesDown).
LEMMA HealsCome ==
  ASSUME LifeInv, Next, Len(queue') > Len(queue), queue'[Len(queue')].by = "heal"
  PROVE  TickHeals
<1>1. ASSUME NEW job, job.by # "heal", queue' = Append(queue, job)
      PROVE  FALSE
  <2>1. Len(queue') = Len(queue) + 1 /\ Len(queue) \in Nat /\ queue'[Len(queue) + 1] = job
    BY <1>1 DEF LifeInv, QueueTyped
  <2> QED BY <1>1, <2>1
<1>2. ASSUME NEW job, Ask(job)
      PROVE  queue' = Append(queue, job)
  BY <1>2 DEF Ask
<1>3. Len(queue) \in Nat
  BY DEF LifeInv, QueueTyped
<1>4. CASE Deploy \/ Rollback \/ Redeploy \/ Stop \/ Delete \/ RemoveKeptVolume
  <2>1. \A kind, f, ticked : Job(kind, f, ticked).by # "heal"
    BY DEF Job
  <2>2. \A f : [Job("deploy", f, FALSE) EXCEPT !.by = "again"].by # "heal"
    BY DEF Job
  <2>3. CASE Deploy \/ Rollback
    BY <1>1, <1>2, <2>1, <2>3 DEF Deploy, Rollback
  <2>4. CASE Redeploy
    BY <1>1, <1>2, <2>2, <2>4 DEF Redeploy
  <2>5. CASE Stop \/ Delete \/ RemoveKeptVolume
    BY <1>1, <2>1, <2>5 DEF Stop, Delete, RemoveKeptVolume
  <2> QED BY <1>4, <2>3, <2>4, <2>5
<1>5. CASE UNCHANGED queue
  BY <1>3, <1>5
<1>6. CASE PassOver \/ HourPasses
  BY <1>3, <1>6, PassOverKeeps, HourPassesKeeps
<1>7. CASE queue # << >> /\ queue' = Tail(queue)
  <2>1. Len(queue') < Len(queue) /\ Len(queue') \in Nat
    BY <1>7, LeaveLine DEF LifeInv, QueueTyped
  <2> QED BY <1>3, <2>1
<1>8. CASE queue # << >> /\ UNCHANGED asked /\ Throws
  <2>1. Len(queue') <= Len(queue) /\ QueueTyped'
    BY <1>8, JobThrows DEF LifeInv
  <2>2. Len(queue') \in Nat
    BY <2>1 DEF QueueTyped
  <2> QED BY <1>3, <2>1, <2>2
<1>9. CASE NoRow \/ UpFails \/ DeployFails \/ ForgetRow
  <2>1. queue # << >> /\ queue' = Tail(queue)
    BY <1>9 DEF LifeInv, HandlerHolds, NoRow, UpFails, DeployFails, ForgetRow, DeployEnds, Ended, At
  <2> QED BY <2>1, <1>7
<1>10. CASE Poll
  <2>1. queue # << >> /\ (queue' = Tail(queue) \/ UNCHANGED queue)
    BY <1>10 DEF LifeInv, HandlerHolds, Poll, RecordSuccess, DeployEnds, Ended, At
  <2> QED BY <2>1, <1>5, <1>7
<1>11. CASE StopStack \/ ComposeDown \/ RemoveStackVolumes \/ RemoveVolume
  <2>1. queue # << >> /\ UNCHANGED asked /\ (queue' = Tail(queue) \/ UNCHANGED queue \/ Throws)
    BY <1>11 DEF LifeInv, HandlerHolds, StopStack, ComposeDown, RemoveStackVolumes, RemoveVolume, Ended, Take, At
  <2> QED BY <2>1, <1>5, <1>7, <1>8
<1>12. CASE SaveSettings \/ Begin \/ Snapshot \/ Up \/ GateRouted \/ GateOthers \/ TickLists \/ TickEnds
            \/ OneShotDone \/ ServiceRestarts \/ ServiceDies \/ Crash \/ Boot
  BY <1>5, <1>12 DEF SaveSettings, Begin, Snapshot, Up, GateRouted, GateOthers, TickLists, TickEnds,
     OneShotDone, ServiceRestarts, ServiceDies, Crash, Boot
<1> QED BY <1>4, <1>6, <1>9, <1>10, <1>11, <1>12 DEF Next

\* The reconciler never heals by a stale list, unless a deploy asked for over an
\* hour ago is bringing the stack up meanwhile, which redeployPlan no longer
\* waits for; nor with a file nobody deployed.
THEOREM HealsOnlyWhatIsDown == Spec => HealsOnlyWhatRan
<1> DEFINE Right == Len(queue') > Len(queue) /\ queue'[Len(queue')].by = "heal"
                      => (DownNow # {} \/ UpAgain) /\ queue'[Len(queue')].file \in asked.files
<1>1. LifeInv /\ [Next]_vars => [Right]_vars
  <2> SUFFICES ASSUME LifeInv, Next, Len(queue') > Len(queue), queue'[Len(queue')].by = "heal"
               PROVE  (DownNow # {} \/ UpAgain) /\ queue'[Len(queue')].file \in asked.files
    BY DEF vars
  <2>1. TickHeals
    BY HealsCome
  <2> DEFINE job == [Job("deploy", row.current, FALSE) EXCEPT !.by = "heal"]
  <2>2. /\ tick.on /\ ~tick.finished /\ ~YoungDeploy /\ row.exists /\ tick.down # {}
        /\ queue' = Append(queue, job)
    BY <2>1 DEF TickHeals, InFlight
  <2>3. queue'[Len(queue')] = job /\ job.file = row.current /\ row.current \in asked.files
    <3>1. row.current \in asked.files
      BY <2>1 DEF LifeInv, TickHeals, RowSound
    <3>2. job.file = row.current
      BY DEF Job
    <3> HIDE DEF job
    <3>3. queue'[Len(queue')] = job
      BY <2>2 DEF LifeInv, QueueTyped
    <3> QED BY <3>1, <3>2, <3>3
  <2> HIDE DEF job
  <2>4. CASE worker.pc \in {"gate", "poll"}
    <3>1. queue # << >> /\ queue[1].kind = "deploy" /\ Head(queue) = queue[1]
      BY <2>4, DeployHead
    <3>2. 1 \in DOMAIN queue
      BY <3>1, LeaveLine DEF LifeInv, QueueTyped
    <3>3. queue[1].aged
      BY <2>2, <3>1, <3>2 DEF YoungDeploy
    <3> QED BY <2>3, <2>4, <3>1, <3>3 DEF UpAgain
  <2>5. CASE worker.pc \notin {"gate", "poll"}
    <3>1. PICK s \in tick.down : s \in row.current /\ containers[s].state \notin {"running", "done"}
      BY <2>2, <2>5 DEF LifeInv, TickSees
    <3>2. row.current \subseteq Service
      BY DEF LifeInv, RowTyped, RowRecord
    <3>3. s \in DownNow
      BY <3>1, <3>2 DEF DownNow, StackServicesDown
    <3> QED BY <2>3, <3>3
  <2> QED BY <2>4, <2>5
<1> QED BY <1>1, LifeHolds, PTL DEF Spec, HealsOnlyWhatRan

\* A service without a domain that crashed since `up` fails the deploy, unless it
\* could not be inspected (gateStack, serviceVerdict).
THEOREM CrashedNeverPasses == Spec => CrashNeverPasses
<1> DEFINE Fails == Len(succeeded') > Len(succeeded) /\ faults' = faults /\ ~worker.blind => crashed \cap Others = {}
<1>1. LifeInv /\ [Next]_vars => [Fails]_vars
  <2> SUFFICES ASSUME LifeInv, Next, Len(succeeded') > Len(succeeded), faults' = faults
               PROVE  crashed \cap Others = {}
    BY DEF vars
  <2>1. succeeded' # succeeded
    BY DEF LifeInv, PastTyped
  <2>2. Poll
    BY <2>1 DEF Next, past, Deploy, Rollback, Redeploy, SaveSettings, Stop, Delete, RemoveKeptVolume, PassOver,
       NoRow, Begin, Snapshot, Up, UpFails, GateRouted, GateOthers, DeployFails, StopStack, ComposeDown,
       RemoveStackVolumes, ForgetRow, RemoveVolume, TickLists, TickHeals, TickEnds, HourPasses,
       OneShotDone, ServiceRestarts, ServiceDies, Crash, Boot
  <2>3. ~Fault
    BY DEF LifeInv, CountsTyped, Fault
  <2>4. \A s \in Others : Verdict(s, {}) = "good"
    BY <2>1, <2>2, <2>3 DEF Poll, past
  <2>5. ASSUME NEW s \in crashed \cap Others
        PROVE  FALSE
    <3>1. s \in Service /\ (containers[s].restarts > worker.base[s] \/ containers[s].state \in {"none", "failed"})
      BY <2>2 DEF LifeInv, CountsKept, CountsTyped, Poll, At
    <3>2. /\ containers[s].restarts \in Nat /\ worker.base[s] \in Nat /\ containers[s].state \in State
      BY <3>1 DEF LifeInv, DockerTyped, WorkerTyped, WorkerRecord
    <3>3. Restarts(s) \in Nat /\ (containers[s].restarts > worker.base[s] => Restarts(s) > 0)
      BY <3>2 DEF Restarts
    <3> DEFINE n == Restarts(s)
               restart == IF s \in OneShots THEN "no" ELSE "always"
    <3>4. ServiceVerdict(containers[s].state, n, restart) = "good"
      BY <2>4 DEF Verdict
    <3>5. n \in Nat /\ (n > 0 \/ containers[s].state \in {"none", "failed"})
      BY <3>1, <3>3
    <3> HIDE DEF n, restart
    <3>6. ServiceVerdict(containers[s].state, n, restart) # "good"
      BY <3>5, <3>2 DEF ServiceVerdict, State
    <3> QED BY <3>4, <3>6
  <2> QED BY <2>5
<1> QED BY <1>1, LifeHolds, PTL DEF Spec, CrashNeverPasses
================================================================================
