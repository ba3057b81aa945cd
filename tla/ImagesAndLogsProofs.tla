--------------------------- MODULE ImagesAndLogsProofs ---------------------------
(***************************************************************************)
(* The inductive invariants of Builds, LiveLogs and LogLines, for every      *)
(* value of their constants.  PlatformProofs states the theorems.            *)
(*                                                                          *)
(* Images: what a succeeded deployment says it was built from is what its    *)
(* image was built from, unless a crash overtook it.  A crash makes a job    *)
(* run again, which may write its row once more after other rows came to     *)
(* name its image; so the invariant says which deployments can run again     *)
(* (QueueSound), that a tag in use is of one that began (KnownRan), and that *)
(* whoever still runs, or could, finds its rows and images as it left them   *)
(* or has its tag marked (Settled, Underway).                                *)
(*                                                                          *)
(* A deployment's log: each that is held has the deployment's last lines      *)
(* (LogsSound), so many at most (LogsFew), the one that is written among     *)
(* them (LogInHand); the page that is drawn shows the first lines of it and  *)
(* will ask for the others (PageDrawn), the one that is open shows them all  *)
(* (PageOpen).                                                               *)
(*                                                                          *)
(* A container's lines: what the chunks have brought is put into lines frame *)
(* by frame (ChunksSound, PartialSound), and some of the lines are handed    *)
(* over, of which the ring has the last (RingHolds) and the files theirs,    *)
(* each where the newer one's begin (FilesSound); the rest is in hand        *)
(* (HandedOver).                                                             *)
(***************************************************************************)
EXTENDS MCImagesAndLogs, Integers, FiniteSetTheorems, SequenceTheorems, WellFoundedInduction, NaturalsInduction, TLAPS

-----------------------------------------------------------------------------
(* Counting.                                                                *)

\* Whatever holds of 0, and of n + 1 when it holds of n, holds of all.
LEMMA Counting ==
  ASSUME NEW X, 0 \in X, \A n \in Nat : n \in X => n + 1 \in X
  PROVE  Nat \subseteq X
<1> SUFFICES ASSUME Nat \ X # {} PROVE FALSE
  OBVIOUS
<1> DEFINE R == {p \in Nat \X Nat : p[1] < p[2]}
           S == Nat \ X
<1>1. IsWellFoundedOn(R, Nat)
  <2>1. OpToRel(<, Nat) = R
    BY DEF OpToRel
  <2> QED BY <2>1, NatLessThanWellFounded
<1>2. \E x \in S : \A y \in S : <<y, x>> \notin R
  <2>1. S \subseteq Nat /\ S # {}
    OBVIOUS
  <2> HIDE DEF R, S
  <2> QED BY <1>1, <2>1, WFMin
<1>3. PICK x \in S : \A y \in S : <<y, x>> \notin R
  BY <1>2
<1>4. x \in Nat /\ x # 0 /\ x \notin X
  OBVIOUS
<1>5. x - 1 \in Nat /\ x - 1 < x /\ (x - 1) + 1 = x
  BY <1>4
<1>6. x - 1 \notin X
  BY <1>4, <1>5
<1> QED BY <1>3, <1>4, <1>5, <1>6

LEMMA LeastOf ==
  ASSUME NEW M, M \subseteq Nat, M # {}
  PROVE  \E x \in M : \A y \in M : ~(y < x)
<1> DEFINE R == {p \in Nat \X Nat : p[1] < p[2]}
<1>1. IsWellFoundedOn(R, Nat)
  <2>1. OpToRel(<, Nat) = R
    BY DEF OpToRel
  <2> QED BY <2>1, NatLessThanWellFounded
<1>2. \E x \in M : \A y \in M : <<y, x>> \notin R
  <2> HIDE DEF R
  <2> QED BY <1>1, WFMin
<1> QED BY <1>2

-----------------------------------------------------------------------------
(* Images and what their rows say (Builds).                                  *)

ImagesBounds == MaxRows \in Nat /\ MaxMoves \in Nat /\ MaxUpsets \in Nat

-----------------------------------------------------------------------------
(* The invariant.                                                           *)

ImageJob == [kind : {"deploy", "prune"}, row : 0..MaxRows, image : 0..MaxRows, exists : BOOLEAN,
             again : BOOLEAN, pin : 0..MaxMoves + 1]
ImageRow == [trigger : {"manual", "webhook", "rollback", "redeploy"}, image : 0..MaxRows,
             inputs : Images!Inputs, status : {"queued", "running", "succeeded", "failed"}]
ImageWork == [pc : {"idle", "off", "image", "resolve", "build", "name", "start", "end", "prune"},
              job : ImageJob, source : [repo : Repos \cup {"none"}, vars : 0..MaxMoves],
              inputs : Images!Inputs, image : 0..MaxRows, keep : SUBSET Images!Tags]
WorldTyped ==
  /\ heads \in [Repos -> 1..moves + 1] /\ saved \in [repo : Repos, vars : 0..moves]
  /\ moves \in 0..MaxMoves /\ upsets \in 0..MaxUpsets
RowsTyped ==
  /\ rows \in Seq(ImageRow) /\ Len(rows) <= MaxRows
  /\ images \in [Images!Tags -> Images!Inputs]
  /\ current \in 0..MaxRows /\ previous \in 0..MaxRows /\ overtaken \subseteq Images!Tags
WorkTyped ==
  /\ waiting \in Seq(ImageJob) /\ work \in ImageWork
  /\ work.pc \in {"image", "resolve"} => work.source.repo \in Repos
ImagesTyped == WorldTyped /\ RowsTyped /\ WorkTyped

\* A deployment has begun; a deploy is in hand; whose job is in hand or waits.
Ran(t) == t \in DOMAIN rows /\ rows[t].status # "queued"
InHand == work.pc \notin {"idle", "prune"}
DeployJobs == {i \in DOMAIN waiting : waiting[i].kind = "deploy"}
InWork(a) == (\E i \in DeployJobs : waiting[i].row = a) \/ (InHand /\ Images!Row = a)

\* Every deployment has one job, and only the first may have begun.
QueueSound ==
  /\ \A i \in DeployJobs : /\ waiting[i].row \in DOMAIN rows /\ rows[waiting[i].row].status # "failed"
                           /\ i > 1 \/ work.pc # "idle" => rows[waiting[i].row].status = "queued"
  /\ \A i, k \in DeployJobs : i # k => waiting[i].row # waiting[k].row
  /\ InHand => /\ work.job.kind = "deploy" /\ Images!Row \in DOMAIN rows
               /\ rows[Images!Row].status = IF work.pc = "end" THEN "succeeded" ELSE "running"
  /\ work.pc = "prune" => work.job.kind = "prune"

\* A tag that is named, or that holds an image, is of a deployment that began.
KnownRan ==
  /\ \A t \in {current, previous, work.image, work.job.image} \ {0} : Ran(t)
  /\ \A i \in DOMAIN rows : rows[i].image # 0 => Ran(rows[i].image)
  /\ \A i \in DOMAIN waiting : waiting[i].image # 0 => Ran(waiting[i].image)
  /\ \A t \in Images!Tags : Images!OnServer(t) => Ran(t)
CurrentThere == current # 0 => Images!OnServer(current)

\* What a job's payload says of its row.  A repeated deployment builds only when
\* its image is gone, and then its own tag holds what it built.
JobSound(j) ==
  /\ j.image # j.row /\ ~(j.exists /\ j.again)
  /\ rows[j.row].status = "queued" => rows[j.row].image = j.image
  /\ j.exists => ~Images!OnServer(j.row) /\ rows[j.row].image = j.image
  /\ j.again => ~Images!OnServer(j.image) \/ (~Images!OnServer(j.row) /\ rows[j.row].image = j.image)
  /\ j.pin # 0 => j.again /\ rows[j.row].inputs.commit = j.pin
JobsSound == (\A i \in DeployJobs : JobSound(waiting[i])) /\ (InHand => JobSound(work.job))
HandSound ==
  /\ work.pc = "image" => work.image = work.job.image
  /\ work.pc \in {"resolve", "build", "name"} =>
       ~work.job.exists /\ (work.job.again => ~Images!OnServer(work.job.image))
  /\ work.pc = "resolve" /\ work.job.pin # 0 => rows[Images!Row].inputs.repo = work.source.repo
  /\ work.pc = "start" => rows[Images!Row].image = work.image
  /\ work.pc = "prune" => {current, previous} \ {0} \subseteq work.keep
  /\ work.pc \in {"build", "name"} => rows[Images!Row].inputs = work.inputs /\ work.inputs # Images!NoInputs
ImagesInHand == QueueSound /\ KnownRan /\ CurrentThere /\ JobsSound /\ HandSound

\* A deployment that may run again is the one that was just recorded, and who
\* else names its image does so since, unless it was overtaken.
JustRecorded == \A a : InWork(a) /\ rows[a].status = "succeeded" => current = rows[a].image
NotGoneBackTo == \A a : InWork(a) /\ previous = a => a \in overtaken
NamedSince ==
  \A a : InWork(a) => \A i \in DOMAIN rows : i # a /\ rows[i].image = a => a \in overtaken \/ current = a

\* A push that built found nothing to reuse, and would find nothing again.
BuiltAnew ==
  \A a : InWork(a) /\ rows[a].trigger = "webhook" /\ Images!OnServer(a) /\ a \notin overtaken =>
    \A k \in DOMAIN rows :
      rows[k].status = "succeeded" /\ rows[k].inputs = images[a] /\ Images!OnServer(rows[k].image)
        => rows[k].image = a
BuildsAnew ==
  work.pc = "build" /\ rows[Images!Row].trigger = "webhook" =>
    \A k \in DOMAIN rows :
      rows[k].status = "succeeded" /\ rows[k].inputs = work.inputs => ~Images!OnServer(rows[k].image)
TakesOthers ==
  work.pc \in {"name", "start"} /\ work.image # Images!Row => ~Images!OnServer(Images!Row) \/ Images!Row \in overtaken

\* What a row says, and what is about to be built or named.
Truthful(i) ==
  /\ rows[i].image # 0 /\ rows[i].image \notin overtaken /\ rows[i].inputs # Images!NoInputs
  /\ Images!OnServer(rows[i].image)
  => images[rows[i].image] = rows[i].inputs
RowsTruthful == \A i \in DOMAIN rows : Truthful(i)
BuildTruthful ==
  work.pc = "build" =>
    Images!Row \in overtaken
      \/ \A i \in DOMAIN rows : rows[i].image = Images!Row => rows[i].inputs \in {work.inputs, Images!NoInputs}
NameTruthful ==
  work.pc = "name" =>
    /\ work.image # 0
    /\ work.image \notin overtaken /\ Images!OnServer(work.image) => images[work.image] = work.inputs

Settled == JustRecorded /\ NotGoneBackTo /\ NamedSince /\ BuiltAnew /\ RowsTruthful
Underway == BuildsAnew /\ TakesOthers /\ BuildTruthful /\ NameTruthful
ImagesInv == ImagesTyped /\ ImagesInHand /\ Settled /\ Underway

LEMMA RestTyped ==
  ASSUME ImagesBounds
  PROVE  Images!Rest \in ImageWork /\ Images!Rest.pc = "idle" /\ Images!Rest.image = 0 /\ Images!Rest.job.image = 0
  BY DEF ImagesBounds, Images!Rest, ImageWork, ImageJob, Images!PruneJob, Images!NoInputs, Images!Inputs, Images!NoCommit

LEMMA InitImages ==
  ASSUME ImagesBounds, Images!Init
  PROVE  ImagesInv
<1>1. /\ rows = << >> /\ waiting = << >> /\ work = Images!Rest /\ current = 0 /\ previous = 0
      /\ overtaken = {} /\ moves = 0 /\ upsets = 0 /\ heads = [r \in Repos |-> 1] /\ saved \in [repo : Repos, vars : {0}]
      /\ images = [t \in Images!Tags |-> Images!NoInputs]
  BY DEF Images!Init, Images!BuildPlaceholder
<1>2. Images!NoInputs \in Images!Inputs
  BY DEF ImagesBounds, Images!NoInputs, Images!Inputs, Images!NoCommit
<1>3. work \in ImageWork /\ work.pc = "idle" /\ work.image = 0 /\ work.job.image = 0
  BY <1>1, RestTyped
<1>4. ImagesTyped
  <2>1. WorldTyped
    BY <1>1 DEF ImagesBounds, WorldTyped
  <2>2. RowsTyped
    <3>1. rows \in Seq(ImageRow) /\ Len(rows) <= MaxRows
      <4> HIDE DEF ImageRow
      <4> QED BY <1>1 DEF ImagesBounds
    <3> QED BY <1>1, <1>2, <3>1 DEF ImagesBounds, RowsTyped
  <2>3. WorkTyped
    <3>1. waiting \in Seq(ImageJob)
      <4> HIDE DEF ImageJob
      <4> QED BY <1>1
    <3> QED BY <1>3, <3>1 DEF WorkTyped
  <2> QED BY <2>1, <2>2, <2>3 DEF ImagesTyped
<1>5. ~\E i \in DOMAIN rows : TRUE
  BY <1>1
<1>6. ~\E i \in DOMAIN waiting : TRUE
  BY <1>1
<1>7. ~InHand /\ \A a : ~InWork(a)
  BY <1>3, <1>6 DEF InHand, InWork, DeployJobs
<1>8. \A t \in Images!Tags : ~Images!OnServer(t)
  BY <1>1 DEF Images!OnServer
<1>9. ImagesInHand
  <2>1. QueueSound /\ JobsSound
    BY <1>3, <1>6, <1>7 DEF QueueSound, JobsSound, DeployJobs
  <2>2. KnownRan /\ CurrentThere
    BY <1>1, <1>3, <1>5, <1>6, <1>8 DEF KnownRan, CurrentThere
  <2>3. HandSound
    BY <1>3 DEF HandSound
  <2> QED BY <2>1, <2>2, <2>3 DEF ImagesInHand
<1>10. Settled
  BY <1>5, <1>7 DEF Settled, JustRecorded, NotGoneBackTo, NamedSince, BuiltAnew, RowsTruthful
<1>11. Underway
  BY <1>3 DEF Underway, BuildsAnew, TakesOthers, BuildTruthful, NameTruthful
<1> QED BY <1>4, <1>9, <1>10, <1>11 DEF ImagesInv

-----------------------------------------------------------------------------
(* One row written, one asked for.                                           *)

Statuses == {"queued", "running", "succeeded", "failed"}
OneRow(r) == /\ rows' \in Seq(ImageRow) /\ Len(rows') = Len(rows) /\ DOMAIN rows' = DOMAIN rows
             /\ rows'[r].trigger = rows[r].trigger
             /\ \A i \in DOMAIN rows \ {r} : rows'[i] = rows[i]

LEMMA RowFields ==
  ASSUME rows \in Seq(ImageRow), NEW r \in DOMAIN rows, NEW new \in ImageRow, rows' = [rows EXCEPT ![r] = new],
         new.trigger = rows[r].trigger
  PROVE  OneRow(r) /\ rows'[r] = new
<1> HIDE DEF ImageRow
<1>1. rows' \in Seq(ImageRow) /\ Len(rows') = Len(rows) /\ DOMAIN rows' = DOMAIN rows
  OBVIOUS
<1>2. rows'[r] = new /\ \A i \in DOMAIN rows \ {r} : rows'[i] = rows[i]
  OBVIOUS
<1> QED BY <1>1, <1>2 DEF OneRow

LEMMA IsRow ==
  ASSUME rows \in Seq(ImageRow), NEW r \in DOMAIN rows
  PROVE  rows[r] \in ImageRow
<1> HIDE DEF ImageRow
<1> QED OBVIOUS

LEMMA StatusSet ==
  ASSUME rows \in Seq(ImageRow), NEW r \in DOMAIN rows, NEW st \in Statuses, rows' = [rows EXCEPT ![r].status = st]
  PROVE  OneRow(r) /\ rows'[r].status = st /\ rows'[r].image = rows[r].image /\ rows'[r].inputs = rows[r].inputs
<1> DEFINE new == [rows[r] EXCEPT !.status = st]
<1>1. rows[r] \in ImageRow
  BY IsRow
<1>2. /\ new \in ImageRow /\ new.trigger = rows[r].trigger
      /\ new.status = st /\ new.image = rows[r].image /\ new.inputs = rows[r].inputs
  BY <1>1 DEF ImageRow, Statuses
<1>3. rows' = [rows EXCEPT ![r] = new]
  OBVIOUS
<1> HIDE DEF new
<1> QED BY <1>2, <1>3, RowFields

LEMMA ImageSet ==
  ASSUME rows \in Seq(ImageRow), NEW r \in DOMAIN rows, NEW image \in 0..MaxRows, rows' = [rows EXCEPT ![r].image = image]
  PROVE  OneRow(r) /\ rows'[r].image = image /\ rows'[r].status = rows[r].status /\ rows'[r].inputs = rows[r].inputs
<1> DEFINE new == [rows[r] EXCEPT !.image = image]
<1>1. rows[r] \in ImageRow
  BY IsRow
<1>2. /\ new \in ImageRow /\ new.trigger = rows[r].trigger
      /\ new.status = rows[r].status /\ new.image = image /\ new.inputs = rows[r].inputs
  BY <1>1 DEF ImageRow
<1>3. rows' = [rows EXCEPT ![r] = new]
  OBVIOUS
<1> HIDE DEF new
<1> QED BY <1>2, <1>3, RowFields

LEMMA InputsSet ==
  ASSUME rows \in Seq(ImageRow), NEW r \in DOMAIN rows, NEW inputs \in Images!Inputs,
         rows' = [rows EXCEPT ![r].inputs = inputs]
  PROVE  OneRow(r) /\ rows'[r].inputs = inputs /\ rows'[r].status = rows[r].status /\ rows'[r].image = rows[r].image
<1> DEFINE new == [rows[r] EXCEPT !.inputs = inputs]
<1>1. rows[r] \in ImageRow
  BY IsRow
<1>2. /\ new \in ImageRow /\ new.trigger = rows[r].trigger
      /\ new.status = rows[r].status /\ new.image = rows[r].image /\ new.inputs = inputs
  BY <1>1 DEF ImageRow
<1>3. rows' = [rows EXCEPT ![r] = new]
  OBVIOUS
<1> HIDE DEF new
<1> QED BY <1>2, <1>3, RowFields

\* The queue as a function.
LEMMA JobQueued ==
  ASSUME waiting \in Seq(ImageJob), NEW j \in ImageJob, waiting' = Append(waiting, j)
  PROVE  /\ waiting' \in Seq(ImageJob)
         /\ \E m \in Nat \ DOMAIN waiting : DOMAIN waiting' = DOMAIN waiting \cup {m} /\ waiting'[m] = j /\ m > 0
         /\ \A i \in DOMAIN waiting : waiting'[i] = waiting[i]
<1> HIDE DEF ImageJob
<1>1. PICK m \in Nat : m = Len(waiting) + 1
  OBVIOUS
<1>2. /\ waiting' \in Seq(ImageJob) /\ Len(waiting') = m /\ waiting'[m] = j
      /\ \A i \in 1..Len(waiting) : waiting'[i] = waiting[i]
  BY <1>1
<1>3. DOMAIN waiting = 1..Len(waiting) /\ DOMAIN waiting' = 1..m /\ Len(waiting) \in Nat
  BY <1>2
<1>4. DOMAIN waiting' = DOMAIN waiting \cup {m} /\ m \notin DOMAIN waiting /\ m > 0
  BY <1>1, <1>3
<1> QED BY <1>2, <1>3, <1>4

LEMMA RowAsked ==
  ASSUME ImagesBounds, RowsTyped, NEW r \in ImageRow, rows' = Append(rows, r), Len(rows) < MaxRows
  PROVE  /\ rows' \in Seq(ImageRow) /\ Len(rows') <= MaxRows
         /\ \E n \in 1..MaxRows : /\ n = Len(rows) + 1 /\ n \notin DOMAIN rows /\ DOMAIN rows' = DOMAIN rows \cup {n}
                                  /\ rows'[n] = r
         /\ \A i \in DOMAIN rows : rows'[i] = rows[i]
<1> HIDE DEF ImageRow
<1>0. rows \in Seq(ImageRow) /\ Len(rows) \in Nat /\ MaxRows \in Nat
  BY DEF ImagesBounds, RowsTyped
<1>1. PICK n \in Nat : n = Len(rows) + 1
  BY <1>0
<1>2. /\ rows' \in Seq(ImageRow) /\ Len(rows') = n /\ rows'[n] = r
      /\ \A i \in 1..Len(rows) : rows'[i] = rows[i]
  BY <1>0, <1>1
<1>3. DOMAIN rows = 1..Len(rows) /\ DOMAIN rows' = 1..n
  BY <1>0, <1>2
<1>4. DOMAIN rows' = DOMAIN rows \cup {n} /\ n \notin DOMAIN rows /\ n \in 1..MaxRows
  BY <1>0, <1>1, <1>3
<1> QED BY <1>0, <1>1, <1>2, <1>3, <1>4

\* The first job leaves the queue, or comes back to its head.
LEMMA JobTaken ==
  ASSUME waiting \in Seq(ImageJob), waiting # << >>, waiting' = Tail(waiting)
  PROVE  /\ waiting' \in Seq(ImageJob) /\ Head(waiting) = waiting[1] /\ 1 \in DOMAIN waiting /\ waiting[1] \in ImageJob
         /\ \A i \in DOMAIN waiting' : i \in Nat /\ i > 0 /\ i + 1 > 1 /\ i + 1 \in DOMAIN waiting /\ waiting'[i] = waiting[i + 1]
<1> HIDE DEF ImageJob
<1>1. /\ waiting' \in Seq(ImageJob) /\ Len(waiting') = Len(waiting) - 1 /\ Len(waiting) \in Nat /\ Len(waiting) > 0
      /\ \A i \in 1..Len(waiting') : waiting'[i] = waiting[i + 1]
  OBVIOUS
<1>2. DOMAIN waiting = 1..Len(waiting) /\ DOMAIN waiting' = 1..Len(waiting')
  BY <1>1
<1> QED BY <1>1, <1>2

LEMMA JobReturned ==
  ASSUME waiting \in Seq(ImageJob), NEW j \in ImageJob, waiting' = << j >> \o waiting
  PROVE  /\ waiting' \in Seq(ImageJob) /\ waiting'[1] = j
         /\ \A i \in DOMAIN waiting' : i \in Nat /\ i > 0 /\ (i > 1 => i - 1 \in DOMAIN waiting /\ waiting'[i] = waiting[i - 1])
<1> HIDE DEF ImageJob
<1> DEFINE one == << j >>
<1>0. one \in Seq(ImageJob) /\ Len(one) = 1 /\ one[1] = j
  OBVIOUS
<1>1. waiting' = one \o waiting
  OBVIOUS
<1> HIDE DEF one
<1>2. /\ waiting' \in Seq(ImageJob) /\ Len(waiting') = 1 + Len(waiting) /\ Len(waiting) \in Nat
      /\ \A i \in 1..(1 + Len(waiting)) : waiting'[i] = IF i <= 1 THEN one[i] ELSE waiting[i - 1]
  BY <1>0, <1>1
<1>3. DOMAIN waiting = 1..Len(waiting) /\ DOMAIN waiting' = 1..(1 + Len(waiting))
  BY <1>2
<1>4. waiting'[1] = j
  <2>1. 1 \in 1..(1 + Len(waiting)) /\ 1 <= 1
    BY <1>2
  <2> QED BY <1>0, <1>2, <2>1
<1> QED BY <1>2, <1>3, <1>4

\* The newest of some rows.
LEMMA NewestIs ==
  ASSUME NEW I, NEW n \in Nat, I \subseteq 1..n, I # {}
  PROVE  Images!Newest(I) \in I
<1> DEFINE R == {p \in Nat \X Nat : p[1] < p[2]}
           S == {n - i : i \in I}
<1>1. IsWellFoundedOn(R, Nat)
  <2>1. OpToRel(<, Nat) = R
    BY DEF OpToRel
  <2> QED BY <2>1, NatLessThanWellFounded
<1>2. S \subseteq Nat /\ S # {}
  <2>1. \A i \in I : n - i \in Nat
    <3>1. \A i \in 1..n : n - i \in Nat
      OBVIOUS
    <3> QED BY <3>1
  <2>2. PICK i \in I : TRUE
    OBVIOUS
  <2>3. n - i \in S
    BY <2>2
  <2> QED BY <2>1, <2>3
<1>3. \E x \in S : \A y \in S : <<y, x>> \notin R
  <2> HIDE DEF R, S
  <2> QED BY <1>1, <1>2, WFMin
<1>4. PICK x \in S : \A y \in S : <<y, x>> \notin R
  BY <1>3
<1>5. PICK m \in I : x = n - m
  OBVIOUS
<1>6. ASSUME NEW k \in I
      PROVE  k <= m
  <2>1. n - k \in S /\ n - k \in Nat /\ x \in Nat
    BY <1>2
  <2>2. ~(n - k < x)
    BY <1>4, <2>1
  <2> QED BY <1>5, <2>2
<1>7. \E i \in I : \A k \in I : k <= i
  BY <1>6
<1> QED BY <1>7 DEF Images!Newest

-----------------------------------------------------------------------------
(* What a step leaves alone.                                                 *)

\* The deployments are the same, none has succeeded; one may have lost its image.
RowsLike ==
  /\ DOMAIN rows' = DOMAIN rows
  /\ \A i \in DOMAIN rows :
       /\ rows'[i].trigger = rows[i].trigger /\ rows'[i].inputs = rows[i].inputs
       /\ rows'[i].image = rows[i].image \/ (rows'[i].image = 0 /\ rows'[i].status # "succeeded")
       /\ rows'[i].status = "succeeded" => rows[i].status = "succeeded"
RanKept == \A t : Ran(t) => Ran(t)'
ImagesShrink == \A t \in Images!Tags : images'[t] \in {images[t], Images!NoInputs}
PinsKept == current' = current /\ previous' = previous /\ overtaken' = overtaken

LEMMA Shrunk ==
  ASSUME ImagesShrink, NEW t \in Images!Tags, Images!OnServer(t)'
  PROVE  Images!OnServer(t) /\ images'[t] = images[t]
  BY DEF ImagesShrink, Images!OnServer

LEMMA InWorkRow ==
  ASSUME ImagesBounds, QueueSound, RowsTyped, NEW a, InWork(a)
  PROVE  a \in DOMAIN rows /\ a \in Images!Tags /\ a # 0
<1>1. a \in DOMAIN rows
  BY DEF QueueSound, InWork, DeployJobs
<1>2. rows \in Seq(ImageRow) /\ Len(rows) <= MaxRows /\ MaxRows \in Nat
  BY DEF ImagesBounds, RowsTyped
<1>3. DOMAIN rows = 1..Len(rows) /\ Len(rows) \in Nat
  <2> HIDE DEF ImageRow
  <2> QED BY <1>2
<1> QED BY <1>1, <1>2, <1>3 DEF Images!Tags

LEMMA RowTag ==
  ASSUME ImagesBounds, RowsTyped, NEW i \in DOMAIN rows
  PROVE  i \in Images!Tags /\ rows[i] \in ImageRow /\ rows[i].image \in 0..MaxRows
         /\ (rows[i].image # 0 => rows[i].image \in Images!Tags)
<1>2. rows \in Seq(ImageRow) /\ Len(rows) <= MaxRows /\ MaxRows \in Nat
  BY DEF ImagesBounds, RowsTyped
<1>3. DOMAIN rows = 1..Len(rows) /\ Len(rows) \in Nat /\ rows[i] \in ImageRow
  <2> HIDE DEF ImageRow
  <2> QED BY <1>2
<1>4. i \in Images!Tags
  BY <1>2, <1>3 DEF Images!Tags
<1>5. rows[i].image \in 0..MaxRows
  BY <1>3 DEF ImageRow
<1> QED BY <1>2, <1>3, <1>4, <1>5 DEF Images!Tags

LEMMA SettledKept ==
  ASSUME ImagesBounds, Settled, QueueSound, RowsTyped, RowsLike, ImagesShrink, PinsKept, \A a : InWork(a)' => InWork(a)
  PROVE  Settled'
<1>0. \A a : InWork(a)' => InWork(a) /\ a \in DOMAIN rows /\ a \in Images!Tags /\ a # 0
  BY InWorkRow
<1>s. \A i \in DOMAIN rows : rows'[i].status = "succeeded" => rows[i].status = "succeeded" /\ rows'[i].image = rows[i].image
  BY DEF RowsLike
<1>g. \A i \in DOMAIN rows : rows'[i].image # 0 => rows'[i].image = rows[i].image
  BY DEF RowsLike
<1>1. JustRecorded'
  <2> SUFFICES ASSUME NEW a, InWork(a)', rows'[a].status = "succeeded"
               PROVE  current' = rows'[a].image
    BY DEF JustRecorded
  <2> QED BY <1>0, <1>s DEF Settled, JustRecorded, PinsKept
<1>2. NotGoneBackTo'
  BY <1>0 DEF Settled, NotGoneBackTo, PinsKept
<1>3. NamedSince'
  <2> SUFFICES ASSUME NEW a, InWork(a)', NEW i \in DOMAIN rows', i # a, rows'[i].image = a
               PROVE  a \in overtaken' \/ current' = a
    BY DEF NamedSince
  <2>1. InWork(a) /\ i \in DOMAIN rows /\ rows[i].image = a
    BY <1>0, <1>g DEF RowsLike
  <2> QED BY <2>1 DEF Settled, NamedSince, PinsKept
<1>4. BuiltAnew'
  <2> SUFFICES ASSUME NEW a, InWork(a)', rows'[a].trigger = "webhook", Images!OnServer(a)', a \notin overtaken',
                      NEW k \in DOMAIN rows', rows'[k].status = "succeeded", rows'[k].inputs = images'[a],
                      Images!OnServer(rows[k].image)'
               PROVE  rows'[k].image = a
    BY DEF BuiltAnew
  <2>1. k \in DOMAIN rows /\ InWork(a) /\ a \in DOMAIN rows /\ a \in Images!Tags
    BY <1>0 DEF RowsLike
  <2>2. rows[a].trigger = "webhook" /\ rows[k].status = "succeeded" /\ rows[k].inputs = rows'[k].inputs
        /\ rows'[k].image = rows[k].image
    BY <2>1, <1>s DEF RowsLike
  <2>3. Images!OnServer(a) /\ images'[a] = images[a]
    BY <2>1, Shrunk
  <2>4. rows[k].image # 0 /\ images'[rows[k].image] # Images!NoInputs
    BY <2>2 DEF Images!OnServer, Images!BuildPlaceholder
  <2>5. rows[k].image \in Images!Tags
    BY <2>1, <2>4, RowTag
  <2>6. Images!OnServer(rows[k].image)
    BY <2>4, <2>5 DEF ImagesShrink, Images!OnServer, Images!BuildPlaceholder
  <2> QED BY <2>1, <2>2, <2>3, <2>6 DEF Settled, BuiltAnew, PinsKept
<1>5. RowsTruthful'
  <2> SUFFICES ASSUME NEW i \in DOMAIN rows', rows'[i].image # 0, rows'[i].image \notin overtaken',
                      rows'[i].inputs # Images!NoInputs, Images!OnServer(rows[i].image)'
               PROVE  images'[rows'[i].image] = rows'[i].inputs
    BY DEF RowsTruthful, Truthful
  <2>1. i \in DOMAIN rows /\ rows'[i].image = rows[i].image /\ rows'[i].inputs = rows[i].inputs
    BY <1>g DEF RowsLike
  <2>2. rows[i].image \in Images!Tags
    BY <2>1, RowTag
  <2>3. Images!OnServer(rows[i].image) /\ images'[rows[i].image] = images[rows[i].image]
    <3>1. images'[rows[i].image] # Images!NoInputs
      BY <2>1 DEF Images!OnServer
    <3> QED BY <2>1, <2>2, <3>1 DEF ImagesShrink, Images!OnServer, Images!BuildPlaceholder
  <2> QED BY <2>1, <2>3 DEF Settled, RowsTruthful, Truthful, PinsKept
<1> QED BY <1>1, <1>2, <1>3, <1>4, <1>5 DEF Settled

LEMMA JobSoundKept ==
  ASSUME ImagesBounds, RowsTyped, ImagesShrink, NEW j \in ImageJob, JobSound(j), j.row \in DOMAIN rows,
         rows'[j.row].image = rows[j.row].image, rows'[j.row].inputs = rows[j.row].inputs,
         rows'[j.row].status = "queued" => rows[j.row].status = "queued"
  PROVE  JobSound(j)'
<1>1. j.row \in Images!Tags
  BY RowTag
<1>2. Images!OnServer(j.row)' => Images!OnServer(j.row)
  BY <1>1, Shrunk
<1>3. Images!OnServer(j.image)' => Images!OnServer(j.image)
  <2>1. ASSUME j.image # 0 PROVE j.image \in Images!Tags
    BY <2>1 DEF ImagesBounds, ImageJob, Images!Tags
  <2> QED BY <2>1, Shrunk DEF Images!OnServer, Images!BuildPlaceholder
<1> QED BY <1>2, <1>3 DEF JobSound

LEMMA KnownRanKept ==
  ASSUME KnownRan, ImagesShrink, RanKept, DOMAIN rows' = DOMAIN rows,
         \A i \in DOMAIN rows : rows'[i].image \in {rows[i].image, 0},
         \A t \in {current', previous', work'.image, work'.job.image} :
            t # 0 => t \in {current, previous, work.image, work.job.image} \/ \E i \in DOMAIN waiting : waiting[i].image = t,
         \A i \in DOMAIN waiting' : waiting'[i].image # 0 =>
            waiting'[i].image = work.job.image \/ \E k \in DOMAIN waiting : waiting'[i].image = waiting[k].image
  PROVE  KnownRan'
<1>1. \A t \in {current', previous', work'.image, work'.job.image} : t # 0 => Ran(t)'
  BY DEF KnownRan, RanKept
<1>2. \A i \in DOMAIN rows' : rows'[i].image # 0 => Ran(rows[i].image)'
  <2>1. \A i \in DOMAIN rows' : rows'[i].image # 0 => rows'[i].image = rows[i].image
    OBVIOUS
  <2> QED BY <2>1 DEF KnownRan, RanKept, Ran
<1>3. \A i \in DOMAIN waiting' : waiting'[i].image # 0 => Ran(waiting[i].image)'
  BY DEF KnownRan, RanKept, Ran
<1>4. \A t \in Images!Tags : Images!OnServer(t)' => Ran(t)'
  BY Shrunk DEF KnownRan, RanKept
<1> QED BY <1>1, <1>2, <1>3, <1>4 DEF KnownRan, Ran, Images!OnServer

-----------------------------------------------------------------------------
(* The world, and the requests that concern no deployment.                   *)

LEMMA UnderwayKept ==
  ASSUME ImagesBounds, Underway, HandSound, QueueSound, RowsTyped, WorkTyped, RowsLike, ImagesShrink, PinsKept, work' = work
  PROVE  Underway'
<1>1. ASSUME work.pc \in {"build", "name", "start"}
      PROVE  Images!Row \in DOMAIN rows /\ Images!Row \in Images!Tags
  BY <1>1, RowTag DEF QueueSound, InHand
<1>2. BuildsAnew'
  <2> SUFFICES ASSUME work.pc = "build", rows'[work.job.row].trigger = "webhook",
                      NEW k \in DOMAIN rows', rows'[k].status = "succeeded", rows'[k].inputs = work.inputs,
                      Images!OnServer(rows[k].image)'
               PROVE  FALSE
    BY DEF BuildsAnew, Images!Row
  <2>1. k \in DOMAIN rows /\ rows[k].status = "succeeded" /\ rows[k].inputs = work.inputs /\ rows'[k].image = rows[k].image
        /\ rows[Images!Row].trigger = "webhook"
    BY <1>1 DEF RowsLike, Images!Row
  <2>2. rows[k].image # 0 /\ images'[rows[k].image] # Images!NoInputs
    BY <2>1 DEF Images!OnServer, Images!BuildPlaceholder
  <2>3. rows[k].image \in Images!Tags
    BY <2>1, <2>2, RowTag
  <2>4. Images!OnServer(rows[k].image)
    BY <2>2, <2>3 DEF ImagesShrink, Images!OnServer, Images!BuildPlaceholder
  <2> QED BY <2>1, <2>4 DEF Underway, BuildsAnew
<1>3. TakesOthers'
  <2> SUFFICES ASSUME work.pc \in {"name", "start"}, work.image # Images!Row, Images!OnServer(Images!Row)'
               PROVE  Images!Row \in overtaken
    BY DEF TakesOthers, Images!Row, PinsKept
  <2>1. Images!OnServer(Images!Row)
    BY <1>1 DEF ImagesShrink, Images!OnServer, Images!Row
  <2> QED BY <2>1 DEF Underway, TakesOthers
<1>4. BuildTruthful'
  <2> SUFFICES ASSUME work.pc = "build", Images!Row \notin overtaken, NEW i \in DOMAIN rows', rows'[i].image = Images!Row
               PROVE  rows'[i].inputs \in {work.inputs, Images!NoInputs}
    BY DEF BuildTruthful, Images!Row, PinsKept
  <2>1. Images!Row # 0
    BY <1>1 DEF ImagesBounds, Images!Tags
  <2> QED BY <2>1 DEF Underway, BuildTruthful, RowsLike
<1>5. NameTruthful'
  <2> SUFFICES ASSUME work.pc = "name", work.image # 0, work.image \notin overtaken, Images!OnServer(work.image)'
               PROVE  images'[work.image] = work.inputs
    BY DEF Underway, NameTruthful, PinsKept
  <2>1. work.image \in Images!Tags
    BY DEF ImagesBounds, WorkTyped, ImageWork, Images!Tags
  <2>2. Images!OnServer(work.image) /\ images'[work.image] = images[work.image]
    BY <2>1 DEF ImagesShrink, Images!OnServer
  <2> QED BY <2>2 DEF Underway, NameTruthful, PinsKept
<1> QED BY <1>2, <1>3, <1>4, <1>5 DEF Underway

LEMMA RowsSame ==
  ASSUME rows' = rows
  PROVE  RowsLike /\ RanKept
  BY DEF RowsLike, RanKept, Ran

RowSame(r) ==
  /\ r \in DOMAIN rows /\ rows'[r].image = rows[r].image /\ rows'[r].inputs = rows[r].inputs
  /\ rows'[r].status = "queued" => rows[r].status = "queued"

LEMMA JobsSoundKept ==
  ASSUME ImagesBounds, RowsTyped, WorkTyped', ImagesShrink,
         \A i \in DeployJobs' : JobSound(waiting'[i]) /\ RowSame(waiting'[i].row),
         InHand' => JobSound(work'.job) /\ RowSame(work'.job.row)
  PROVE  JobsSound'
<1>1. ASSUME NEW i \in DeployJobs' PROVE JobSound(waiting[i])'
  <2>1. waiting'[i] \in ImageJob /\ i \in DOMAIN waiting'
    <3> HIDE DEF ImageJob
    <3> QED BY <1>1 DEF WorkTyped, DeployJobs
  <2>2. PICK j \in ImageJob : j = waiting'[i]
    BY <2>1
  <2>3. JobSound(j) /\ RowSame(j.row)
    BY <1>1, <2>2
  <2>4. JobSound(j)'
    BY <2>3, JobSoundKept DEF RowSame
  <2> QED BY <2>2, <2>4 DEF JobSound, Images!OnServer
<1>2. ASSUME InHand' PROVE JobSound(work.job)'
  <2>1. work'.job \in ImageJob
    BY <1>2 DEF WorkTyped, ImageWork
  <2>2. PICK j \in ImageJob : j = work'.job
    BY <2>1
  <2>3. JobSound(j) /\ RowSame(j.row)
    BY <1>2, <2>2
  <2>4. JobSound(j)'
    BY <2>3, JobSoundKept DEF RowSame
  <2> QED BY <2>2, <2>4 DEF JobSound, Images!OnServer
<1> QED BY <1>1, <1>2 DEF JobsSound

LEMMA WorldMoved ==
  ASSUME ImagesBounds, ImagesInv, WorldTyped', rows' = rows, work' = work, PinsKept, ImagesShrink,
         images' \in [Images!Tags -> Images!Inputs], CurrentThere',
         waiting' \in Seq(ImageJob), DOMAIN waiting \subseteq DOMAIN waiting',
         \A i \in DOMAIN waiting : waiting'[i] = waiting[i],
         \A i \in DOMAIN waiting' \ DOMAIN waiting : waiting'[i] = Images!PruneJob
  PROVE  ImagesInv'
<1>0. /\ RowsLike /\ RanKept /\ Settled /\ Underway /\ QueueSound /\ HandSound /\ KnownRan /\ JobsSound
      /\ RowsTyped /\ WorkTyped
  BY RowsSame DEF ImagesInv, ImagesInHand, ImagesTyped
<1>1. ImagesTyped'
  BY <1>0 DEF ImagesTyped, RowsTyped, WorkTyped, PinsKept
<1>2. /\ DeployJobs' = DeployJobs /\ \A i \in DeployJobs : i \in DOMAIN waiting /\ waiting'[i] = waiting[i]
      /\ InHand' = InHand /\ Images!Row' = Images!Row
  BY DEF DeployJobs, Images!PruneJob, InHand, Images!Row
<1>3. \A a : InWork(a)' => InWork(a)
  BY <1>2 DEF InWork
<1>4. QueueSound'
  BY <1>0, <1>2 DEF QueueSound
<1>5. KnownRan'
  <2>1. \A i \in DOMAIN waiting' : waiting'[i].image # 0 => \E k \in DOMAIN waiting : waiting'[i].image = waiting[k].image
    BY DEF Images!PruneJob
  <2>2. \A t \in {current', previous', work'.image, work'.job.image} : t \in {current, previous, work.image, work.job.image}
    BY DEF PinsKept
  <2> QED BY <1>0, <2>1, <2>2, KnownRanKept
<1>6. JobsSound'
  <2>1. ASSUME NEW i \in DeployJobs'
        PROVE  JobSound(waiting'[i]) /\ RowSame(waiting'[i].row)
    BY <1>0, <1>2, <2>1 DEF JobsSound, QueueSound, RowSame
  <2>2. ASSUME InHand'
        PROVE  JobSound(work'.job) /\ RowSame(work'.job.row)
    BY <1>0, <1>2, <2>2 DEF JobsSound, QueueSound, RowSame, Images!Row
  <2> QED BY <1>0, <1>1, <2>1, <2>2, JobsSoundKept DEF ImagesTyped
<1>7. CurrentThere'
  OBVIOUS
<1>8. HandSound'
  <2>1. Images!OnServer(work.job.image)' => Images!OnServer(work.job.image)
    <3>1. work.job.image \in 0..MaxRows
      BY <1>0 DEF WorkTyped, ImageWork, ImageJob
    <3>2. work.job.image # 0 => work.job.image \in Images!Tags
      BY <3>1 DEF ImagesBounds, Images!Tags
    <3> QED BY <3>2 DEF ImagesShrink, Images!OnServer, Images!BuildPlaceholder
  <2> QED BY <1>0, <2>1 DEF HandSound, Images!Row, PinsKept
<1>9. Settled' /\ Underway'
  BY <1>0, <1>3, SettledKept, UnderwayKept
<1> QED BY <1>1, <1>4, <1>5, <1>6, <1>7, <1>8, <1>9 DEF ImagesInv, ImagesInHand

LEMMA SaveSourceImages ==
  ASSUME ImagesBounds, ImagesInv, Images!SaveSource
  PROVE  ImagesInv'
<1>1. /\ RowsTyped /\ WorkTyped /\ WorldTyped /\ CurrentThere
      /\ moves < MaxMoves /\ moves' = moves + 1
      /\ UNCHANGED <<heads, rows, images, current, previous, waiting, work, overtaken, upsets>>
      /\ saved' \in {[saved EXCEPT !.repo = r] : r \in Repos} \cup {[saved EXCEPT !.vars = @ + 1]}
  BY DEF ImagesInv, ImagesTyped, ImagesInHand, Images!SaveSource
<1>2. WorldTyped'
  <2>1. heads' \in [Repos -> 1..moves' + 1] /\ moves' \in 0..MaxMoves /\ upsets' \in 0..MaxUpsets
    BY <1>1 DEF ImagesBounds, WorldTyped
  <2>2. saved' \in [repo : Repos, vars : 0..moves']
    BY <1>1 DEF ImagesBounds, WorldTyped
  <2> QED BY <2>1, <2>2 DEF WorldTyped
<1>3. CurrentThere' /\ PinsKept /\ ImagesShrink
  BY <1>1 DEF CurrentThere, PinsKept, ImagesShrink, Images!OnServer
<1>4. waiting' \in Seq(ImageJob) /\ images' \in [Images!Tags -> Images!Inputs]
  BY <1>1 DEF WorkTyped, RowsTyped
<1> QED BY <1>1, <1>2, <1>3, <1>4, WorldMoved

LEMMA PushToBranchImages ==
  ASSUME ImagesBounds, ImagesInv, Images!PushToBranch
  PROVE  ImagesInv'
<1>1. /\ RowsTyped /\ WorkTyped /\ WorldTyped /\ CurrentThere
      /\ moves < MaxMoves /\ moves' = moves + 1
      /\ UNCHANGED <<saved, rows, images, current, previous, waiting, work, overtaken, upsets>>
  BY DEF ImagesInv, ImagesTyped, ImagesInHand, Images!PushToBranch
<1>2. WorldTyped'
  <2>1. saved' \in [repo : Repos, vars : 0..moves'] /\ moves' \in 0..MaxMoves /\ upsets' \in 0..MaxUpsets
    BY <1>1 DEF ImagesBounds, WorldTyped
  <2>2. PICK r \in Repos : heads' = [heads EXCEPT ![r] = @ + 1]
    BY DEF Images!PushToBranch
  <2>3. heads' \in [Repos -> 1..moves' + 1]
    BY <1>1, <2>2 DEF ImagesBounds, WorldTyped
  <2> QED BY <2>1, <2>3 DEF WorldTyped
<1>3. CurrentThere' /\ PinsKept /\ ImagesShrink
  BY <1>1 DEF CurrentThere, PinsKept, ImagesShrink, Images!OnServer
<1>4. waiting' \in Seq(ImageJob) /\ images' \in [Images!Tags -> Images!Inputs]
  BY <1>1 DEF WorkTyped, RowsTyped
<1> QED BY <1>1, <1>2, <1>3, <1>4, WorldMoved

LEMMA AskForPruneImages ==
  ASSUME ImagesBounds, ImagesInv, Images!AskForPrune
  PROVE  ImagesInv'
<1>1. /\ RowsTyped /\ WorkTyped /\ WorldTyped /\ CurrentThere
      /\ waiting' = Append(waiting, Images!PruneJob)
      /\ UNCHANGED <<heads, saved, rows, images, current, previous, work, overtaken, moves, upsets>>
  BY DEF ImagesInv, ImagesTyped, ImagesInHand, Images!AskForPrune
<1>2. WorldTyped' /\ CurrentThere' /\ PinsKept /\ ImagesShrink /\ images' \in [Images!Tags -> Images!Inputs]
  BY <1>1 DEF WorldTyped, CurrentThere, PinsKept, ImagesShrink, Images!OnServer, RowsTyped
<1>3. Images!PruneJob \in ImageJob /\ waiting \in Seq(ImageJob)
  BY <1>1 DEF ImagesBounds, WorkTyped, ImageJob, Images!PruneJob, Images!NoCommit
<1>4. /\ waiting' \in Seq(ImageJob) /\ \A i \in DOMAIN waiting : waiting'[i] = waiting[i]
      /\ \E m \in Nat \ DOMAIN waiting : DOMAIN waiting' = DOMAIN waiting \cup {m} /\ waiting'[m] = Images!PruneJob
  <2> HIDE DEF ImageJob, Images!PruneJob
  <2> QED BY <1>1, <1>3, JobQueued
<1>5. DOMAIN waiting \subseteq DOMAIN waiting' /\ \A i \in DOMAIN waiting' \ DOMAIN waiting : waiting'[i] = Images!PruneJob
  BY <1>4
<1> QED BY <1>1, <1>2, <1>4, <1>5, WorldMoved

LEMMA RemovedByHandImages ==
  ASSUME ImagesBounds, ImagesInv, Images!RemovedByHand
  PROVE  ImagesInv'
<1>1. /\ RowsTyped /\ WorkTyped /\ WorldTyped /\ CurrentThere
      /\ upsets < MaxUpsets /\ upsets' = upsets + 1
      /\ UNCHANGED <<heads, saved, rows, current, previous, waiting, work, overtaken, moves>>
  BY DEF ImagesInv, ImagesTyped, ImagesInHand, Images!RemovedByHand, Images!Upset
<1>2. PICK t \in Images!Tags \ {current} : images' = [images EXCEPT ![t] = Images!NoInputs]
  BY DEF Images!RemovedByHand
<1>3. Images!NoInputs \in Images!Inputs
  BY DEF ImagesBounds, Images!NoInputs, Images!Inputs, Images!NoCommit
<1>4. images' \in [Images!Tags -> Images!Inputs] /\ ImagesShrink /\ images'[current] = images[current]
  BY <1>1, <1>2, <1>3 DEF RowsTyped, ImagesShrink
<1>5. WorldTyped'
  BY <1>1 DEF ImagesBounds, WorldTyped
<1>6. CurrentThere' /\ PinsKept /\ waiting' \in Seq(ImageJob)
  BY <1>1, <1>4 DEF CurrentThere, PinsKept, Images!OnServer, WorkTyped
<1> QED BY <1>1, <1>4, <1>5, <1>6, WorldMoved

-----------------------------------------------------------------------------
(* A deploy in hand goes on, ends or fails.                                  *)

RowWritten ==
  /\ rows' \in Seq(ImageRow) /\ Len(rows') = Len(rows)
  /\ \A i \in DOMAIN rows \ {Images!Row} : rows'[i] = rows[i]
  /\ rows'[Images!Row].status # "queued"
HandedOn ==
  \/ work' = Images!Rest
  \/ /\ work' \in ImageWork /\ InHand' /\ work'.job = work.job /\ work'.image \in {work.image, 0}
     /\ work'.pc \in {"image", "resolve"} => work'.source.repo \in Repos
     /\ rows'[Images!Row].status = IF work'.pc = "end" THEN "succeeded" ELSE "running"
     /\ JobSound(work.job)'

LEMMA IdleUnderway ==
  ASSUME work'.pc \notin {"build", "name", "start"}
  PROVE  Underway'
  BY DEF Underway, BuildsAnew, TakesOthers, BuildTruthful, NameTruthful

LEMMA RestQueue ==
  ASSUME ImagesBounds, work' = Images!Rest
  PROVE  /\ ~InHand' /\ work' \in ImageWork /\ work'.pc = "idle" /\ work'.image = 0 /\ work'.job.image = 0
         /\ HandSound' /\ Underway'
<1>1. work' \in ImageWork /\ work'.pc = "idle" /\ work'.image = 0 /\ work'.job.image = 0
  BY RestTyped
<1>2. ~InHand'
  BY <1>1 DEF InHand
<1>3. HandSound'
  BY <1>1 DEF HandSound
<1> QED BY <1>1, <1>2, <1>3, IdleUnderway

LEMMA WaitingQueued ==
  ASSUME QueueSound, InHand, NEW i \in DeployJobs
  PROVE  waiting[i].row \in DOMAIN rows \ {Images!Row} /\ rows[waiting[i].row].status = "queued"
  BY DEF QueueSound, InHand

LEMMA WorkMoved ==
  ASSUME ImagesBounds, ImagesInv, InHand, WorldTyped', images' = images, waiting' = waiting, PinsKept, RowsLike, RowWritten,
         HandedOn, HandSound', Underway'
  PROVE  ImagesInv'
<1>0. /\ Settled /\ QueueSound /\ KnownRan /\ JobsSound /\ CurrentThere
      /\ RowsTyped /\ WorkTyped /\ work \in ImageWork
  BY DEF ImagesInv, ImagesInHand, ImagesTyped, WorkTyped
<1>1. ImagesShrink /\ CurrentThere'
  BY <1>0 DEF ImagesShrink, CurrentThere, PinsKept, Images!OnServer
<1>2. RanKept
  BY <1>0 DEF RanKept, Ran, RowsLike, RowWritten
<1>3. work' \in ImageWork /\ (work'.pc \in {"image", "resolve"} => work'.source.repo \in Repos)
  BY RestQueue DEF HandedOn
<1>4. ImagesTyped'
  <2>1. RowsTyped'
    BY <1>0 DEF RowsTyped, RowWritten, PinsKept
  <2>2. WorkTyped'
    BY <1>0, <1>3 DEF WorkTyped
  <2> QED BY <2>1, <2>2 DEF ImagesTyped
<1>5. DeployJobs' = DeployJobs
  BY DEF DeployJobs
<1>6. InHand' => work'.job = work.job /\ rows'[Images!Row].status = IF work'.pc = "end" THEN "succeeded" ELSE "running"
  BY RestQueue DEF HandedOn
<1>7. \A a : InWork(a)' => InWork(a)
  BY <1>5, <1>6 DEF InWork, Images!Row
<1>8. QueueSound'
  <2>1. ASSUME NEW i \in DeployJobs'
        PROVE  waiting'[i].row \in DOMAIN rows' /\ rows'[waiting'[i].row].status = "queued"
    BY <1>0, <1>5, <2>1, WaitingQueued DEF RowsLike, RowWritten
  <2>2. \A i, k \in DeployJobs' : i # k => waiting'[i].row # waiting'[k].row
    BY <1>0, <1>5 DEF QueueSound
  <2>3. ASSUME InHand'
        PROVE  /\ work'.job.kind = "deploy" /\ work'.job.row \in DOMAIN rows'
               /\ rows'[work'.job.row].status = IF work'.pc = "end" THEN "succeeded" ELSE "running"
    BY <1>0, <1>6, <2>3 DEF QueueSound, Images!Row, RowsLike
  <2>4. work'.pc # "prune"
    <3>1. CASE work' = Images!Rest
      BY <3>1, RestQueue
    <3>2. CASE InHand'
      BY <3>2 DEF InHand
    <3> QED BY <3>1, <3>2 DEF HandedOn
  <2> QED BY <2>1, <2>2, <2>3, <2>4 DEF QueueSound, Images!Row
<1>9. KnownRan'
  <2>1. \A t \in {current', previous', work'.image, work'.job.image} :
          t # 0 => t \in {current, previous, work.image, work.job.image}
    <3>1. current' = current /\ previous' = previous
      BY DEF PinsKept
    <3>2. work'.image \in {work.image, 0} /\ work'.job.image \in {work.job.image, 0}
      BY RestQueue DEF HandedOn
    <3> QED BY <3>1, <3>2
  <2>2. DOMAIN rows' = DOMAIN rows /\ \A i \in DOMAIN rows : rows'[i].image \in {rows[i].image, 0}
    BY DEF RowsLike
  <2> QED BY <1>0, <1>1, <1>2, <2>1, <2>2, KnownRanKept
<1>10. JobsSound'
  <2>1. ASSUME NEW i \in DeployJobs'
        PROVE  JobSound(waiting'[i]) /\ RowSame(waiting'[i].row)
    BY <1>0, <1>5, <2>1, WaitingQueued DEF JobsSound, RowSame, RowWritten
  <2>2. ASSUME InHand' PROVE JobSound(work.job)'
    <3>1. work'.job = work.job /\ work' # Images!Rest
      BY <1>6, <2>2, RestQueue
    <3> QED BY <3>1 DEF HandedOn
  <2>3. ASSUME NEW i \in DeployJobs' PROVE JobSound(waiting[i])'
    <3>1. waiting'[i] \in ImageJob
      <4>1. waiting' \in Seq(ImageJob) /\ i \in DOMAIN waiting'
        BY <1>0, <2>3 DEF WorkTyped, DeployJobs
      <4> HIDE DEF ImageJob
      <4> QED BY <4>1
    <3>2. PICK j \in ImageJob : j = waiting'[i]
      BY <3>1
    <3>3. JobSound(j) /\ RowSame(j.row)
      BY <2>1, <2>3, <3>2
    <3>4. JobSound(j)'
      BY <1>0, <1>1, <3>3, JobSoundKept DEF RowSame
    <3> QED BY <3>2, <3>4 DEF JobSound, Images!OnServer
  <2> QED BY <2>2, <2>3 DEF JobsSound
<1>11. Settled'
  BY <1>0, <1>1, <1>7, SettledKept
<1> QED BY <1>1, <1>4, <1>8, <1>9, <1>10, <1>11 DEF ImagesInv, ImagesInHand

\* The deploy fails: its row says so.
LEMMA ThrowsImages ==
  ASSUME ImagesBounds, ImagesInv, InHand, WorldTyped', images' = images, waiting' = waiting, PinsKept, Images!Throws
  PROVE  ImagesInv'
<1>1. work' = Images!Rest /\ rows' = [rows EXCEPT ![Images!Row].status = "failed"]
  BY DEF Images!Throws
<1>2. RowsTyped /\ Images!Row \in DOMAIN rows
  BY DEF ImagesInv, ImagesTyped, ImagesInHand, QueueSound
<1>3. /\ OneRow(Images!Row) /\ rows'[Images!Row].status = "failed"
      /\ rows'[Images!Row].image = rows[Images!Row].image /\ rows'[Images!Row].inputs = rows[Images!Row].inputs
  BY <1>1, <1>2, StatusSet DEF RowsTyped, Statuses
<1>4. RowsLike /\ RowWritten
  <2>1. \A i \in DOMAIN rows : i = Images!Row \/ rows'[i] = rows[i]
    BY <1>3 DEF OneRow
  <2> QED BY <1>3, <2>1 DEF OneRow, RowsLike, RowWritten
<1> QED BY <1>1, <1>4, RestQueue, WorkMoved DEF HandedOn

LEMMA DeployFailsImages ==
  ASSUME ImagesBounds, ImagesInv, Images!DeployFails
  PROVE  ImagesInv'
<1>1. /\ InHand /\ images' = images /\ waiting' = waiting /\ PinsKept /\ Images!Throws
      /\ upsets < MaxUpsets /\ upsets' = upsets + 1 /\ UNCHANGED <<heads, saved, moves>>
  BY DEF Images!DeployFails, Images!Upset, InHand, PinsKept
<1>2. WorldTyped'
  BY <1>1 DEF ImagesBounds, WorldTyped, ImagesInv, ImagesTyped
<1> QED BY <1>1, <1>2, ThrowsImages

LEMMA ImageGoneImages ==
  ASSUME ImagesBounds, ImagesInv, Images!ImageGone
  PROVE  ImagesInv'
<1>1. /\ InHand /\ images' = images /\ waiting' = waiting /\ PinsKept /\ Images!Throws
      /\ UNCHANGED <<heads, saved, moves, upsets>>
  BY DEF Images!ImageGone, Images!At, InHand, PinsKept
<1>2. WorldTyped'
  BY <1>1 DEF WorldTyped, ImagesInv, ImagesTyped
<1> QED BY <1>1, <1>2, ThrowsImages

LEMMA EndImages ==
  ASSUME ImagesBounds, ImagesInv, Images!End
  PROVE  ImagesInv'
<1>1. /\ InHand /\ images' = images /\ waiting' = waiting /\ PinsKept /\ rows' = rows /\ work' = Images!Rest
      /\ UNCHANGED <<heads, saved, moves, upsets>> /\ work.pc = "end"
  BY DEF Images!End, Images!At, InHand, PinsKept
<1>2. WorldTyped' /\ RowsTyped
  BY <1>1 DEF WorldTyped, ImagesInv, ImagesTyped
<1>3. RowsLike /\ RowWritten
  BY <1>1, <1>2, RowsSame DEF ImagesInv, ImagesInHand, QueueSound, RowWritten, RowsTyped
<1> QED BY <1>1, <1>2, <1>3, RestQueue, WorkMoved DEF HandedOn

-----------------------------------------------------------------------------
(* Which image a deploy takes.                                               *)

LEMMA PcSet ==
  ASSUME work \in ImageWork, NEW p \in {"image", "resolve", "build", "name", "start", "end"}, work' = [work EXCEPT !.pc = p]
  PROVE  /\ work' \in ImageWork /\ work'.pc = p /\ InHand' /\ work'.job = work.job /\ work'.image = work.image
         /\ work'.source = work.source /\ work'.inputs = work.inputs /\ work'.keep = work.keep
<1>1. /\ work' \in ImageWork /\ work'.pc = p /\ work'.job = work.job /\ work'.image = work.image
      /\ work'.source = work.source /\ work'.inputs = work.inputs /\ work'.keep = work.keep
  BY DEF ImageWork
<1> QED BY <1>1 DEF InHand

\* An image that is there is deployed as it is.
LEMMA StartImages ==
  ASSUME ImagesBounds, ImagesInv, work.pc = "image", work.job.exists \/ work.job.again, Images!OnServer(work.image),
         work' = [work EXCEPT !.pc = "start"], rows' = rows, images' = images, waiting' = waiting, PinsKept, WorldTyped'
  PROVE  ImagesInv'
<1>1. /\ QueueSound /\ JobsSound /\ HandSound /\ RowsTyped /\ work \in ImageWork
  BY DEF ImagesInv, ImagesTyped, ImagesInHand, WorkTyped
<1>2. /\ work' \in ImageWork /\ InHand /\ InHand' /\ work'.pc = "start" /\ work'.job = work.job /\ work'.image = work.image
  BY <1>1, PcSet DEF InHand
<1>3. JobSound(work.job) /\ work.image = work.job.image /\ Images!Row \in DOMAIN rows /\ rows[Images!Row].status = "running"
  BY <1>1, <1>2 DEF JobsSound, HandSound, QueueSound
<1>4. ~Images!OnServer(Images!Row) /\ rows[Images!Row].image = work.image
  BY <1>3 DEF JobSound, Images!Row
<1>5. JobSound(work.job)'
  BY <1>2, <1>3 DEF JobSound, Images!OnServer
<1>6. HandSound'
  BY <1>2, <1>4 DEF HandSound, Images!Row
<1>7. Underway'
  <2>1. TakesOthers'
    BY <1>2, <1>4 DEF TakesOthers, Images!Row, Images!OnServer
  <2> QED BY <1>2, <2>1 DEF Underway, BuildsAnew, BuildTruthful, NameTruthful
<1>8. RowsLike /\ RowWritten /\ HandedOn
  BY <1>1, <1>2, <1>3, <1>5, RowsSame DEF RowWritten, HandedOn, RowsTyped
<1> QED BY <1>2, <1>6, <1>7, <1>8, WorkMoved

\* Otherwise a build begins.
LEMMA ResolveImages ==
  ASSUME ImagesBounds, ImagesInv, work.pc = "image", ~work.job.exists, work.job.again => ~Images!OnServer(work.job.image),
         work.job.pin # 0 => rows[Images!Row].inputs.repo = work.source.repo,
         work' = [work EXCEPT !.pc = "resolve"],
         rows' = rows \/ rows' = [rows EXCEPT ![Images!Row].image = 0],
         images' = images, waiting' = waiting, PinsKept, WorldTyped'
  PROVE  ImagesInv'
<1>1. /\ QueueSound /\ JobsSound /\ HandSound /\ RowsTyped /\ WorkTyped /\ work \in ImageWork
  BY DEF ImagesInv, ImagesTyped, ImagesInHand, WorkTyped
<1>2. /\ work' \in ImageWork /\ InHand /\ InHand' /\ work'.pc = "resolve" /\ work'.job = work.job /\ work'.image = work.image
      /\ work'.source = work.source
  BY <1>1, PcSet DEF InHand
<1>3. JobSound(work.job) /\ Images!Row \in DOMAIN rows /\ rows[Images!Row].status = "running"
  BY <1>1, <1>2 DEF JobsSound, QueueSound
<1>4. /\ OneRow(Images!Row) /\ rows'[Images!Row].image \in {0, rows[Images!Row].image}
      /\ rows'[Images!Row].status = "running" /\ rows'[Images!Row].inputs = rows[Images!Row].inputs
  <2>1. CASE rows' = rows
    BY <1>1, <1>3, <2>1 DEF OneRow, RowsTyped
  <2>2. CASE rows' = [rows EXCEPT ![Images!Row].image = 0]
    <3>1. PICK none \in 0..MaxRows : none = 0
      BY DEF ImagesBounds
    <3>2. rows' = [rows EXCEPT ![Images!Row].image = none]
      BY <2>2, <3>1
    <3> QED BY <1>1, <1>3, <3>1, <3>2, ImageSet DEF RowsTyped
  <2> QED BY <2>1, <2>2
<1>5. JobSound(work.job)'
  BY <1>2, <1>3, <1>4 DEF JobSound, Images!OnServer, Images!Row
<1>6. HandSound'
  BY <1>2, <1>4 DEF HandSound, Images!Row, Images!OnServer
<1>7. Underway'
  BY <1>2, IdleUnderway
<1>8. RowsLike /\ RowWritten
  <2>1. \A i \in DOMAIN rows : i = Images!Row \/ rows'[i] = rows[i]
    BY <1>4 DEF OneRow
  <2> QED BY <1>3, <1>4, <2>1 DEF OneRow, RowsLike, RowWritten
<1>9. HandedOn
  BY <1>1, <1>2, <1>4, <1>5 DEF HandedOn, WorkTyped
<1> QED BY <1>2, <1>6, <1>7, <1>8, <1>9, WorkMoved

LEMMA TakeExistingImages ==
  ASSUME ImagesBounds, ImagesInv, Images!TakeExisting
  PROVE  ImagesInv'
<1>1. /\ work.pc = "image" /\ work.job.exists /\ InHand /\ images' = images /\ waiting' = waiting /\ PinsKept
      /\ UNCHANGED <<heads, saved, moves, upsets>>
      /\ IF Images!OnServer(work.image) THEN work' = [work EXCEPT !.pc = "start"] /\ rows' = rows ELSE Images!Throws
  BY DEF Images!TakeExisting, Images!At, InHand, PinsKept
<1>2. WorldTyped'
  BY <1>1 DEF WorldTyped, ImagesInv, ImagesTyped
<1>3. CASE Images!OnServer(work.image)
  BY <1>1, <1>2, <1>3, StartImages
<1>4. CASE ~Images!OnServer(work.image)
  BY <1>1, <1>2, <1>4, ThrowsImages
<1> QED BY <1>3, <1>4

LEMMA RepeatDeployImages ==
  ASSUME ImagesBounds, ImagesInv, Images!RepeatDeploy
  PROVE  ImagesInv'
<1>1. /\ work.pc = "image" /\ work.job.again /\ InHand /\ images' = images /\ waiting' = waiting /\ PinsKept
      /\ UNCHANGED <<heads, saved, moves, upsets>>
  BY DEF Images!RepeatDeploy, Images!At, InHand, PinsKept
<1>2. WorldTyped'
  BY <1>1 DEF WorldTyped, ImagesInv, ImagesTyped
<1>3. JobSound(work.job) /\ work.image = work.job.image
  BY <1>1 DEF ImagesInv, ImagesInHand, JobsSound, HandSound
<1>4. CASE Images!OnServer(work.image) /\ work' = [work EXCEPT !.pc = "start"] /\ rows' = rows
  BY <1>1, <1>2, <1>4, StartImages
<1>5. CASE /\ ~Images!OnServer(work.image)
           /\ work.job.pin # Images!NoCommit /\ rows[Images!Row].inputs.repo = work.source.repo
           /\ rows' = [rows EXCEPT ![Images!Row].image = Images!BuildPlaceholder]
           /\ work' = [work EXCEPT !.pc = "resolve"]
  <2>1. ~work.job.exists /\ rows' = [rows EXCEPT ![Images!Row].image = 0]
    BY <1>1, <1>3, <1>5 DEF JobSound, Images!BuildPlaceholder
  <2> QED BY <1>1, <1>2, <1>3, <1>5, <2>1, ResolveImages
<1>6. CASE Images!Throws
  BY <1>1, <1>2, <1>6, ThrowsImages
<1> QED BY <1>4, <1>5, <1>6 DEF Images!RepeatDeploy

LEMMA BuildBranchImages ==
  ASSUME ImagesBounds, ImagesInv, Images!BuildBranch
  PROVE  ImagesInv'
<1>1. /\ work.pc = "image" /\ ~work.job.again /\ ~work.job.exists /\ InHand
      /\ images' = images /\ waiting' = waiting /\ rows' = rows /\ PinsKept
      /\ UNCHANGED <<heads, saved, moves, upsets>> /\ work' = [work EXCEPT !.pc = "resolve"]
  BY DEF Images!BuildBranch, Images!At, InHand, PinsKept
<1>2. WorldTyped'
  BY <1>1 DEF WorldTyped, ImagesInv, ImagesTyped
<1>3. work.job.pin = 0
  BY <1>1 DEF ImagesInv, ImagesInHand, JobsSound, JobSound
<1> QED BY <1>1, <1>2, <1>3, ResolveImages

-----------------------------------------------------------------------------
(* A job begins, a prune ends, the process crashes.                          *)

\* A step that writes at most one row's status, and moves jobs about.
JobsMoved ==
  /\ \A i \in DeployJobs' : InWork(waiting'[i].row) /\ RowSame(waiting'[i].row) /\ JobSound(waiting'[i])
  /\ \A i \in DOMAIN waiting' :
       waiting'[i].image = work.job.image \/ \E k \in DOMAIN waiting : waiting'[i].image = waiting[k].image
  /\ InHand' => InWork(work'.job.row) /\ RowSame(work'.job.row) /\ JobSound(work'.job)
  /\ work'.image \in {0, work'.job.image}
  /\ work'.job.image = 0 \/ \E k \in DOMAIN waiting : work'.job.image = waiting[k].image

LEMMA JobsMovedOn ==
  ASSUME ImagesBounds, ImagesInv, WorldTyped', WorkTyped', rows' \in Seq(ImageRow), Len(rows') = Len(rows), RowsLike, RanKept,
         images' \in [Images!Tags -> Images!Inputs], ImagesShrink, PinsKept, CurrentThere',
         QueueSound', HandSound', Underway', JobsMoved
  PROVE  ImagesInv'
<1>0. Settled /\ QueueSound /\ KnownRan /\ JobsSound /\ RowsTyped /\ WorkTyped
  BY DEF ImagesInv, ImagesInHand, ImagesTyped
<1>1. ImagesTyped'
  BY <1>0 DEF ImagesTyped, RowsTyped, PinsKept
<1>2. \A a : InWork(a)' => InWork(a)
  BY DEF InWork, JobsMoved, DeployJobs, Images!Row
<1>3. Settled'
  BY <1>0, <1>2, SettledKept
<1>4. JobsSound'
  BY <1>0, JobsSoundKept DEF JobsMoved
<1>5. KnownRan'
  <2>1. \A t \in {current', previous', work'.image, work'.job.image} :
          t # 0 => t \in {current, previous, work.image, work.job.image} \/ \E i \in DOMAIN waiting : waiting[i].image = t
    BY DEF PinsKept, JobsMoved
  <2>2. \A i \in DOMAIN waiting' : waiting'[i].image # 0 =>
            waiting'[i].image = work.job.image \/ \E k \in DOMAIN waiting : waiting'[i].image = waiting[k].image
    BY DEF JobsMoved
  <2>3. DOMAIN rows' = DOMAIN rows /\ \A i \in DOMAIN rows : rows'[i].image \in {rows[i].image, 0}
    BY DEF RowsLike
  <2> QED BY <1>0, <2>1, <2>2, <2>3, KnownRanKept
<1> QED BY <1>1, <1>3, <1>4, <1>5 DEF ImagesInv, ImagesInHand

LEMMA PruneKeepsImages ==
  ASSUME ImagesBounds, ImagesInv, Images!PruneImages
  PROVE  ImagesInv'
<1>1. /\ work.pc = "prune" /\ work' = Images!Rest
      /\ UNCHANGED <<heads, saved, rows, current, previous, waiting, overtaken, moves, upsets>>
      /\ images' = [t \in Images!Tags |-> IF t \in work.keep \cup {current} THEN images[t] ELSE Images!NoInputs]
  BY DEF Images!PruneImages, Images!At
<1>2. /\ WorldTyped /\ WorkTyped /\ RowsTyped /\ CurrentThere /\ QueueSound /\ JobsSound
  BY DEF ImagesInv, ImagesTyped, ImagesInHand
<1>3. ImagesShrink /\ images' \in [Images!Tags -> Images!Inputs]
  <2>1. Images!NoInputs \in Images!Inputs
    BY DEF ImagesBounds, Images!NoInputs, Images!Inputs, Images!NoCommit
  <2> QED BY <1>1, <1>2, <2>1 DEF ImagesShrink, RowsTyped
<1>4. CurrentThere'
  <2>1. current # 0 => current \in Images!Tags
    BY <1>2 DEF ImagesBounds, RowsTyped, Images!Tags
  <2> QED BY <1>1, <1>2, <2>1 DEF CurrentThere, Images!OnServer
<1>5. /\ ~InHand' /\ work' \in ImageWork /\ work'.pc = "idle" /\ work'.image = 0 /\ work'.job.image = 0
      /\ HandSound' /\ Underway'
  BY <1>1, RestQueue
<1>6. WorldTyped' /\ WorkTyped' /\ RowsLike /\ RanKept /\ PinsKept /\ rows' \in Seq(ImageRow) /\ Len(rows') = Len(rows)
  BY <1>1, <1>2, <1>5, RowsSame DEF WorldTyped, WorkTyped, PinsKept, RowsTyped
<1>7. DeployJobs' = DeployJobs /\ ~InHand
  BY <1>1 DEF DeployJobs, InHand
<1>8. QueueSound'
  BY <1>1, <1>2, <1>5, <1>7 DEF QueueSound
<1>9. JobsMoved
  <2>1. ASSUME NEW i \in DeployJobs'
        PROVE  InWork(waiting'[i].row) /\ RowSame(waiting'[i].row) /\ JobSound(waiting'[i])
    BY <1>1, <1>2, <1>7 DEF QueueSound, JobsSound, InWork, RowSame
  <2> QED BY <1>1, <1>5, <2>1 DEF JobsMoved
<1> QED BY <1>3, <1>4, <1>5, <1>6, <1>8, <1>9, JobsMovedOn

LEMMA CrashImages ==
  ASSUME ImagesBounds, ImagesInv, Images!Crash
  PROVE  ImagesInv'
<1>1. /\ work.pc # "idle" /\ work' = Images!Rest /\ waiting' = << work.job >> \o waiting
      /\ upsets < MaxUpsets /\ upsets' = upsets + 1
      /\ UNCHANGED <<heads, saved, rows, images, current, previous, overtaken, moves>>
  BY DEF Images!Crash, Images!At, Images!Upset
<1>2. /\ WorldTyped /\ WorkTyped /\ RowsTyped /\ CurrentThere /\ QueueSound /\ JobsSound
      /\ work.job \in ImageJob /\ waiting \in Seq(ImageJob)
  BY DEF ImagesInv, ImagesTyped, ImagesInHand, WorkTyped, ImageWork
<1>3. ImagesShrink /\ CurrentThere' /\ images' \in [Images!Tags -> Images!Inputs]
  BY <1>1, <1>2 DEF ImagesShrink, CurrentThere, Images!OnServer, RowsTyped
<1>4. /\ ~InHand' /\ work' \in ImageWork /\ work'.pc = "idle" /\ work'.image = 0 /\ work'.job.image = 0
      /\ HandSound' /\ Underway'
  BY <1>1, RestQueue
<1>5. /\ waiting' \in Seq(ImageJob) /\ waiting'[1] = work.job
      /\ \A i \in DOMAIN waiting' : i \in Nat /\ i > 0 /\ (i > 1 => i - 1 \in DOMAIN waiting /\ waiting'[i] = waiting[i - 1])
  <2> HIDE DEF ImageJob
  <2> QED BY <1>1, <1>2, JobReturned
<1>6. WorldTyped' /\ WorkTyped' /\ RowsLike /\ RanKept /\ PinsKept /\ rows' \in Seq(ImageRow) /\ Len(rows') = Len(rows)
  BY <1>1, <1>2, <1>4, <1>5, RowsSame DEF ImagesBounds, WorldTyped, WorkTyped, PinsKept, RowsTyped
<1>7. \A i \in DeployJobs' : /\ i = 1 => waiting'[i] = work.job /\ InHand
                             /\ i # 1 => i > 1 /\ i - 1 \in DeployJobs /\ waiting'[i] = waiting[i - 1]
  <2> SUFFICES ASSUME NEW i \in DOMAIN waiting', waiting'[i].kind = "deploy"
               PROVE  /\ i = 1 => waiting'[i] = work.job /\ InHand
                      /\ i # 1 => i > 1 /\ i - 1 \in DeployJobs /\ waiting'[i] = waiting[i - 1]
    BY DEF DeployJobs
  <2>1. CASE i = 1
    BY <1>1, <1>2, <1>5, <2>1 DEF QueueSound, InHand
  <2>2. CASE i # 1
    <3>1. i > 1
      BY <1>5, <2>2
    <3> QED BY <1>5, <2>2, <3>1 DEF DeployJobs
  <2> QED BY <2>1, <2>2
<1>8. \A i \in DeployJobs : rows[waiting[i].row].status = "queued" /\ waiting[i].row \in DOMAIN rows
  BY <1>1, <1>2 DEF QueueSound
<1>9. InHand => Images!Row \in DOMAIN rows /\ rows[Images!Row].status \in {"running", "succeeded"}
  BY <1>2 DEF QueueSound
<1>10. QueueSound'
  <2>1. ASSUME NEW i \in DeployJobs'
        PROVE  /\ waiting'[i].row \in DOMAIN rows' /\ rows'[waiting'[i].row].status # "failed"
               /\ i > 1 => rows'[waiting'[i].row].status = "queued"
    <3>1. CASE i = 1
      BY <1>1, <1>7, <1>9, <2>1, <3>1 DEF Images!Row
    <3>2. CASE i # 1
      <4>1. i - 1 \in DeployJobs /\ waiting'[i] = waiting[i - 1]
        BY <1>7, <2>1, <3>2
      <4> QED BY <1>1, <1>8, <4>1
    <3> QED BY <3>1, <3>2
  <2>2. ASSUME NEW i \in DeployJobs', NEW k \in DeployJobs', i # k, waiting'[i].row = waiting'[k].row
        PROVE  FALSE
    <3>0. i \in Nat /\ k \in Nat
      BY <1>5, <2>2 DEF DeployJobs
    <3>1. CASE i = 1 /\ k # 1
      BY <1>7, <1>8, <1>9, <2>2, <3>1 DEF Images!Row
    <3>2. CASE i # 1 /\ k = 1
      BY <1>7, <1>8, <1>9, <2>2, <3>2 DEF Images!Row
    <3>3. CASE i # 1 /\ k # 1
      <4>1. i - 1 \in DeployJobs /\ k - 1 \in DeployJobs /\ waiting[i - 1].row = waiting[k - 1].row
        BY <1>7, <2>2, <3>3
      <4>2. i - 1 # k - 1
        BY <2>2, <3>0
      <4> QED BY <1>2, <4>1, <4>2 DEF QueueSound
    <3> QED BY <2>2, <3>1, <3>2, <3>3
  <2> QED BY <1>4, <2>1, <2>2 DEF QueueSound
<1>11. JobsMoved
  <2>1. ASSUME NEW i \in DeployJobs'
        PROVE  InWork(waiting'[i].row) /\ RowSame(waiting'[i].row) /\ JobSound(waiting'[i])
    <3>1. CASE i = 1
      <4>1. waiting'[i] = work.job /\ InHand
        BY <1>7, <2>1, <3>1
      <4> QED BY <1>1, <1>2, <1>9, <4>1 DEF JobsSound, InWork, RowSame, Images!Row
    <3>2. CASE i # 1
      <4>1. i - 1 \in DeployJobs /\ waiting'[i] = waiting[i - 1]
        BY <1>7, <2>1, <3>2
      <4> QED BY <1>1, <1>2, <1>8, <4>1 DEF JobsSound, InWork, RowSame
    <3> QED BY <3>1, <3>2
  <2>2. ASSUME NEW i \in DOMAIN waiting'
        PROVE  waiting'[i].image = work.job.image \/ \E k \in DOMAIN waiting : waiting'[i].image = waiting[k].image
    <3>1. i \in Nat /\ i > 0
      BY <1>5, <2>2
    <3>2. CASE i = 1
      BY <1>5, <3>2
    <3>3. CASE i > 1
      BY <1>5, <2>2, <3>3
    <3> QED BY <3>1, <3>2, <3>3
  <2> QED BY <1>4, <2>1, <2>2 DEF JobsMoved
<1> QED BY <1>3, <1>4, <1>6, <1>10, <1>11, JobsMovedOn

LEMMA TakeImages ==
  ASSUME ImagesBounds, ImagesInv, Images!Take
  PROVE  ImagesInv'
<1>1. /\ work.pc = "idle" /\ waiting # << >> /\ waiting' = Tail(waiting)
      /\ UNCHANGED <<heads, saved, images, current, previous, overtaken, moves, upsets>>
      /\ IF Head(waiting).kind = "prune"
         THEN work' = [Images!Rest EXCEPT !.pc = "prune", !.job = Head(waiting), !.keep = Images!ComputeKeepSet] /\ UNCHANGED rows
         ELSE /\ work' = [Images!Rest EXCEPT !.pc = "image", !.job = Head(waiting),
                                             !.image = Head(waiting).image, !.source = saved]
              /\ rows' = [rows EXCEPT ![Head(waiting).row].status = "running"]
  BY DEF Images!Take, Images!At
<1>2. /\ WorldTyped /\ WorkTyped /\ RowsTyped /\ CurrentThere /\ QueueSound /\ JobsSound /\ waiting \in Seq(ImageJob)
  BY DEF ImagesInv, ImagesTyped, ImagesInHand, WorkTyped
<1>3. ImagesShrink /\ CurrentThere' /\ images' \in [Images!Tags -> Images!Inputs] /\ WorldTyped' /\ PinsKept /\ ~InHand
  BY <1>1, <1>2 DEF ImagesShrink, CurrentThere, Images!OnServer, RowsTyped, WorldTyped, PinsKept, InHand
<1>4. /\ waiting' \in Seq(ImageJob) /\ Head(waiting) = waiting[1] /\ 1 \in DOMAIN waiting /\ waiting[1] \in ImageJob
      /\ \A i \in DOMAIN waiting' : i \in Nat /\ i > 0 /\ i + 1 > 1 /\ i + 1 \in DOMAIN waiting /\ waiting'[i] = waiting[i + 1]
  <2> HIDE DEF ImageJob
  <2> QED BY <1>1, <1>2, JobTaken
<1>5. PICK j \in ImageJob : j = waiting[1]
  BY <1>4
<1>6. \A i \in DeployJobs' : /\ i + 1 > 1 /\ i + 1 # 1 /\ i + 1 \in DeployJobs /\ waiting'[i] = waiting[i + 1] /\ i \in Nat
  BY <1>4 DEF DeployJobs
<1>7. \A i \in DeployJobs' : /\ waiting'[i].row \in DOMAIN rows /\ rows[waiting'[i].row].status = "queued"
                             /\ InWork(waiting'[i].row) /\ JobSound(waiting'[i])
  BY <1>2, <1>6 DEF QueueSound, InWork, JobsSound
<1>8. \A i, k \in DeployJobs' : i # k => waiting'[i].row # waiting'[k].row
  <2> SUFFICES ASSUME NEW i \in DeployJobs', NEW k \in DeployJobs', i # k PROVE waiting'[i].row # waiting'[k].row
    OBVIOUS
  <2>1. i + 1 # k + 1 /\ i + 1 \in DeployJobs /\ k + 1 \in DeployJobs
    BY <1>6
  <2> QED BY <1>2, <1>6, <2>1 DEF QueueSound
<1>9. \A i \in DOMAIN waiting' : \E k \in DOMAIN waiting : waiting'[i].image = waiting[k].image
  BY <1>4
<1>10. Images!Rest \in ImageWork
  BY RestTyped
<1>11. CASE j.kind = "prune"
  <2>1. rows' = rows /\ work' = [Images!Rest EXCEPT !.pc = "prune", !.job = j, !.keep = Images!ComputeKeepSet]
    BY <1>1, <1>4, <1>5, <1>11
  <2>2. Images!ComputeKeepSet \subseteq Images!Tags /\ {current, previous} \ {0} \subseteq Images!ComputeKeepSet
    <3>1. {current, previous} \ {0} \subseteq Images!Tags
      BY <1>2 DEF ImagesBounds, RowsTyped, Images!Tags
    <3>2. Images!Retained \ {0} \subseteq Images!Tags
      BY <1>2, RowTag DEF Images!Retained, Images!BuildPlaceholder
    <3> QED BY <3>1, <3>2 DEF Images!ComputeKeepSet, Images!BuildPlaceholder
  <2>3. /\ work' \in ImageWork /\ work'.pc = "prune" /\ work'.job = j /\ work'.keep = Images!ComputeKeepSet
        /\ work'.image = 0
    <3> DEFINE keep == Images!ComputeKeepSet
    <3>1. keep \in SUBSET Images!Tags /\ work' = [Images!Rest EXCEPT !.pc = "prune", !.job = j, !.keep = keep]
      BY <2>1, <2>2
    <3> HIDE DEF keep
    <3>2. work' \in ImageWork /\ work'.pc = "prune" /\ work'.job = j /\ work'.keep = keep /\ work'.image = Images!Rest.image
      BY <1>10, <3>1 DEF ImageWork
    <3> QED BY <3>2, RestTyped DEF keep
  <2>4. ~InHand' /\ Underway' /\ WorkTyped'
    BY <1>4, <2>3, IdleUnderway DEF InHand, WorkTyped
  <2>5. HandSound'
    BY <1>1, <2>2, <2>3 DEF HandSound
  <2>6. RowsLike /\ RanKept /\ rows' \in Seq(ImageRow) /\ Len(rows') = Len(rows)
    BY <1>2, <2>1, RowsSame DEF RowsTyped
  <2>7. QueueSound'
    BY <1>7, <1>8, <1>11, <2>1, <2>3, <2>4 DEF QueueSound
  <2>8. JobsMoved
    <3>1. \A i \in DeployJobs' : InWork(waiting'[i].row) /\ RowSame(waiting'[i].row) /\ JobSound(waiting'[i])
      BY <1>7, <2>1 DEF RowSame
    <3>2. \E k \in DOMAIN waiting : work'.job.image = waiting[k].image
      BY <1>4, <1>5, <2>3
    <3> QED BY <1>9, <2>3, <2>4, <3>1, <3>2 DEF JobsMoved
  <2> QED BY <1>3, <2>4, <2>5, <2>6, <2>7, <2>8, JobsMovedOn
<1>12. CASE j.kind # "prune"
  <2>0. j.kind = "deploy" /\ 1 \in DeployJobs
    BY <1>4, <1>5, <1>12 DEF ImageJob, DeployJobs
  <2>1. rows' = [rows EXCEPT ![j.row].status = "running"]
        /\ work' = [Images!Rest EXCEPT !.pc = "image", !.job = j, !.image = j.image, !.source = saved]
    BY <1>1, <1>4, <1>5, <1>12
  <2>2. j.row \in DOMAIN rows /\ JobSound(j) /\ InWork(j.row)
    BY <1>2, <1>5, <2>0 DEF QueueSound, JobsSound, InWork
  <2>3. /\ OneRow(j.row) /\ rows'[j.row].status = "running"
        /\ rows'[j.row].image = rows[j.row].image /\ rows'[j.row].inputs = rows[j.row].inputs
    BY <1>2, <2>1, <2>2, StatusSet DEF RowsTyped, Statuses
  <2>4. saved \in [repo : Repos, vars : 0..MaxMoves]
    BY <1>2 DEF ImagesBounds, WorldTyped
  <2>5. /\ work' \in ImageWork /\ work'.pc = "image" /\ work'.job = j /\ work'.image = j.image /\ work'.source = saved
    <3>1. saved \in [repo : Repos \cup {"none"}, vars : 0..MaxMoves] /\ j.image \in 0..MaxRows
      BY <2>4 DEF ImageJob
    <3>2. PICK image \in 0..MaxRows : image = j.image
      BY <3>1
    <3> QED BY <1>10, <2>1, <3>1, <3>2 DEF ImageWork
  <2>6. InHand' /\ Underway' /\ HandSound' /\ WorkTyped'
    BY <1>4, <2>4, <2>5, IdleUnderway DEF InHand, HandSound, WorkTyped
  <2>7. \A i \in DOMAIN rows : i = j.row \/ rows'[i] = rows[i]
    BY <2>3 DEF OneRow
  <2>8. RowsLike /\ RanKept /\ rows' \in Seq(ImageRow) /\ Len(rows') = Len(rows)
    BY <2>3, <2>7 DEF OneRow, RowsLike, RanKept, Ran
  <2>9. \A i \in DeployJobs' : waiting'[i].row # j.row
    <3> SUFFICES ASSUME NEW i \in DeployJobs' PROVE waiting'[i].row # j.row
      OBVIOUS
    <3>1. i + 1 \in DeployJobs /\ i + 1 # 1 /\ waiting'[i] = waiting[i + 1]
      BY <1>6
    <3> QED BY <1>2, <1>5, <2>0, <3>1 DEF QueueSound
  <2>10. QueueSound'
    BY <1>7, <1>8, <2>0, <2>2, <2>3, <2>5, <2>7, <2>8, <2>9 DEF QueueSound, RowsLike, Images!Row
  <2>11. JobsMoved
    <3>1. \A i \in DeployJobs' : InWork(waiting'[i].row) /\ RowSame(waiting'[i].row) /\ JobSound(waiting'[i])
      BY <1>7, <2>7, <2>9 DEF RowSame
    <3>2. \E k \in DOMAIN waiting : work'.job.image = waiting[k].image
      BY <1>4, <1>5, <2>5
    <3> QED BY <1>9, <2>2, <2>3, <2>5, <3>1, <3>2 DEF JobsMoved, RowSame
  <2> QED BY <1>3, <2>6, <2>8, <2>10, <2>11, JobsMovedOn
<1> QED BY <1>11, <1>12

-----------------------------------------------------------------------------
(* A build is resolved, made, named, recorded.                               *)

LEMMA InHandOnly ==
  ASSUME ImagesBounds, QueueSound, KnownRan, RowsTyped, InHand
  PROVE  /\ Images!Row \in DOMAIN rows /\ Images!Row \in Images!Tags /\ Images!Row # 0 /\ Ran(Images!Row)
         /\ \A a : InWork(a) => a = Images!Row \/ (a \in Images!Tags /\ a # 0 /\ rows[a].status = "queued" /\ ~Ran(a)
                                                   /\ ~Images!OnServer(a))
<1>1. Images!Row \in DOMAIN rows /\ rows[Images!Row].status \in {"running", "succeeded"}
  BY DEF QueueSound
<1>2. Images!Row \in Images!Tags /\ Images!Row # 0
  BY <1>1, RowTag DEF ImagesBounds, Images!Tags
<1>3. ASSUME NEW a, InWork(a), a # Images!Row
      PROVE  a \in Images!Tags /\ a # 0 /\ rows[a].status = "queued" /\ ~Ran(a) /\ ~Images!OnServer(a)
  <2>1. rows[a].status = "queued"
    BY <1>3, WaitingQueued DEF InWork
  <2>2. a \in Images!Tags /\ a # 0 /\ ~Ran(a)
    BY <1>3, <2>1, InWorkRow DEF Ran
  <2> QED BY <2>1, <2>2 DEF KnownRan
<1> QED BY <1>1, <1>2, <1>3 DEF Ran

LEMMA HandMoved ==
  ASSUME ImagesBounds, ImagesInv, InHand, InHand', waiting' = waiting, work'.job = work.job, OneRow(Images!Row), WorkTyped',
         rows'[Images!Row].status = IF work'.pc = "end" THEN "succeeded" ELSE "running",
         JobSound(work.job)',
         \A t \in {current', previous', work'.image, rows'[Images!Row].image} : t # 0 => Ran(t),
         \A t \in Images!Tags : Images!OnServer(t)' => Images!OnServer(t) \/ t = Images!Row
  PROVE  QueueSound' /\ KnownRan' /\ JobsSound' /\ \A a : InWork(a)' <=> InWork(a)
<1>0. /\ QueueSound /\ KnownRan /\ JobsSound /\ RowsTyped /\ WorkTyped /\ DeployJobs' = DeployJobs
  BY DEF ImagesInv, ImagesInHand, ImagesTyped, DeployJobs
<1>1. Images!Row \in DOMAIN rows /\ Ran(Images!Row) /\ rows[Images!Row].status # "queued"
  BY <1>0, InHandOnly DEF Ran
<1>2. DOMAIN rows' = DOMAIN rows /\ \A i \in DOMAIN rows : i = Images!Row \/ rows'[i] = rows[i]
  BY DEF OneRow
<1>3. RanKept
  BY <1>1, <1>2 DEF RanKept, Ran
<1>4. QueueSound'
  <2>1. ASSUME NEW i \in DeployJobs'
        PROVE  waiting'[i].row \in DOMAIN rows' /\ rows'[waiting'[i].row].status = "queued"
    BY <1>0, <1>2, <2>1, WaitingQueued
  <2>2. \A i, k \in DeployJobs' : i # k => waiting'[i].row # waiting'[k].row
    BY <1>0 DEF QueueSound
  <2>3. /\ work'.job.kind = "deploy" /\ work'.job.row \in DOMAIN rows'
        /\ rows'[work'.job.row].status = IF work'.pc = "end" THEN "succeeded" ELSE "running"
    BY <1>0, <1>2 DEF QueueSound, Images!Row
  <2> QED BY <2>1, <2>2, <2>3 DEF QueueSound, Images!Row, InHand
<1>5. KnownRan'
  <2>1. \A t \in {current', previous', work'.image, work'.job.image} : t # 0 => Ran(t)'
    BY <1>0, <1>3 DEF KnownRan, RanKept
  <2>2. \A i \in DOMAIN rows' : rows'[i].image # 0 => Ran(rows[i].image)'
    <3> SUFFICES ASSUME NEW i \in DOMAIN rows, rows'[i].image # 0 PROVE Ran(rows[i].image)'
      BY <1>2
    <3>1. Ran(rows'[i].image)
      BY <1>0, <1>2 DEF KnownRan
    <3> QED BY <1>3, <3>1 DEF RanKept, Ran
  <2>3. \A i \in DOMAIN waiting' : waiting'[i].image # 0 => Ran(waiting[i].image)'
    BY <1>0, <1>3 DEF KnownRan, RanKept, Ran
  <2>4. \A t \in Images!Tags : Images!OnServer(t)' => Ran(t)'
    BY <1>0, <1>1, <1>3 DEF KnownRan, RanKept
  <2> QED BY <2>1, <2>2, <2>3, <2>4 DEF KnownRan, Ran, Images!OnServer
<1>6. JobsSound'
  <2>1. ASSUME NEW i \in DeployJobs' PROVE JobSound(waiting[i])'
    <3>1. waiting[i] \in ImageJob
      <4>1. waiting \in Seq(ImageJob) /\ i \in DOMAIN waiting
        BY <1>0, <2>1 DEF WorkTyped, DeployJobs
      <4> HIDE DEF ImageJob
      <4> QED BY <4>1
    <3>2. PICK j \in ImageJob : j = waiting[i] /\ j = waiting'[i]
      BY <3>1
    <3>3. JobSound(j) /\ j.row \in DOMAIN rows \ {Images!Row} /\ rows[j.row].status = "queued" /\ InWork(j.row)
      BY <1>0, <2>1, <3>2, WaitingQueued DEF JobsSound, InWork
    <3>4. ~Images!OnServer(j.row)' /\ rows'[j.row] = rows[j.row] /\ rows[j.row].image = j.image
      BY <1>0, <1>2, <3>3, InHandOnly DEF JobSound
    <3>5. JobSound(j)'
      BY <3>3, <3>4 DEF JobSound
    <3> QED BY <3>2, <3>5 DEF JobSound, Images!OnServer
  <2> QED BY <2>1 DEF JobsSound
<1>7. \A a : InWork(a)' <=> InWork(a)
  BY <1>0 DEF InWork, Images!Row
<1> QED BY <1>4, <1>5, <1>6, <1>7

LEMMA BuildSucceedsImages ==
  ASSUME ImagesBounds, ImagesInv, Images!BuildSucceeds
  PROVE  ImagesInv'
<1>1. /\ work.pc = "build" /\ images' = [images EXCEPT ![Images!Row] = work.inputs]
      /\ work' = [work EXCEPT !.pc = "name", !.image = Images!Row]
      /\ UNCHANGED <<heads, saved, rows, current, previous, waiting, overtaken, moves, upsets>> /\ InHand
  BY DEF Images!BuildSucceeds, Images!At, InHand
<1>2. /\ WorldTyped /\ WorkTyped /\ RowsTyped /\ CurrentThere /\ QueueSound /\ JobsSound /\ KnownRan /\ HandSound
      /\ Settled /\ Underway /\ work \in ImageWork
  BY DEF ImagesInv, ImagesTyped, ImagesInHand, WorkTyped
<1>3. PICK r \in Images!Tags : r = Images!Row
  BY <1>1, <1>2, InHandOnly
<1>4. /\ r \in DOMAIN rows /\ r # 0 /\ Ran(r) /\ rows[r].status = "running" /\ r \in 0..MaxRows
      /\ \A a : InWork(a) => a = r \/ (~Ran(a) /\ ~Images!OnServer(a) /\ a \in Images!Tags /\ a # 0)
  <2>1. r \in 0..MaxRows
    BY <1>3 DEF Images!Tags
  <2> QED BY <1>1, <1>2, <1>3, <2>1, InHandOnly DEF QueueSound
<1>5. /\ work' \in ImageWork /\ work'.pc = "name" /\ work'.image = r /\ work'.job = work.job /\ work'.inputs = work.inputs
      /\ work.inputs \in Images!Inputs
  BY <1>1, <1>2, <1>3, <1>4 DEF ImageWork
<1>6. /\ images' \in [Images!Tags -> Images!Inputs] /\ images'[r] = work.inputs
      /\ \A t \in Images!Tags : t # r => images'[t] = images[t]
  BY <1>1, <1>2, <1>3, <1>5 DEF RowsTyped
<1>7. work.inputs # Images!NoInputs /\ rows[r].inputs = work.inputs /\ ~work.job.exists
      /\ (work.job.again => ~Images!OnServer(work.job.image))
  BY <1>1, <1>2, <1>3 DEF HandSound
<1>8. Images!OnServer(r)' /\ \A t \in Images!Tags : t # r => (Images!OnServer(t)' <=> Images!OnServer(t))
  BY <1>4, <1>6, <1>7 DEF Images!OnServer, Images!BuildPlaceholder
<1>9. JobSound(work.job)'
  <2>1. JobSound(work.job) /\ work.job.image # r /\ work.job.image \in 0..MaxRows
    BY <1>1, <1>2, <1>3 DEF JobsSound, JobSound, Images!Row, ImageWork, ImageJob
  <2>2. PICK j \in ImageJob : j = work.job
    BY <1>2 DEF ImageWork
  <2>3. ~Images!OnServer(j.image) => ~Images!OnServer(j.image)'
    <3>1. j.image # 0 => j.image \in Images!Tags
      BY <2>1, <2>2 DEF ImagesBounds, Images!Tags
    <3> QED BY <1>8, <2>1, <2>2, <3>1 DEF Images!OnServer, Images!BuildPlaceholder
  <2>4. JobSound(j)'
    BY <1>1, <1>7, <2>1, <2>2, <2>3 DEF JobSound
  <2> QED BY <1>5, <2>2, <2>4 DEF JobSound, Images!OnServer
<1>10. OneRow(Images!Row) /\ InHand' /\ WorkTyped'
  BY <1>1, <1>2, <1>5 DEF OneRow, RowsTyped, InHand, WorkTyped
<1>11. QueueSound' /\ KnownRan' /\ JobsSound' /\ \A a : InWork(a)' <=> InWork(a)
  <2>1. \A t \in {current', previous', work'.image, rows'[Images!Row].image} : t # 0 => Ran(t)
    BY <1>1, <1>2, <1>3, <1>4, <1>5 DEF KnownRan
  <2>2. \A t \in Images!Tags : Images!OnServer(t)' => Images!OnServer(t) \/ t = Images!Row
    BY <1>3, <1>8
  <2>3. rows'[Images!Row].status = IF work'.pc = "end" THEN "succeeded" ELSE "running"
    BY <1>1, <1>3, <1>4, <1>5
  <2> QED BY <1>1, <1>5, <1>9, <1>10, <2>1, <2>2, <2>3, HandMoved
<1>12. ImagesTyped'
  BY <1>1, <1>2, <1>6, <1>10 DEF ImagesTyped, WorldTyped, RowsTyped
<1>13. CurrentThere' /\ HandSound'
  <2>1. CurrentThere'
    <3>1. current # 0 => current \in Images!Tags
      BY <1>2 DEF ImagesBounds, RowsTyped, Images!Tags
    <3> QED BY <1>1, <1>2, <1>8, <3>1 DEF CurrentThere, Images!OnServer
  <2>2. HandSound'
    <3>1. work.job.image # 0 => work.job.image \in Images!Tags
      BY <1>2 DEF ImagesBounds, ImageWork, ImageJob, Images!Tags
    <3>2. work.job.again => ~Images!OnServer(work.job.image)'
      <4>1. work.job.image # r
        BY <1>1, <1>2, <1>3 DEF JobsSound, JobSound, Images!Row
      <4> QED BY <1>5, <1>7, <1>8, <3>1, <4>1 DEF Images!OnServer, Images!BuildPlaceholder
    <3> QED BY <1>1, <1>3, <1>5, <1>7, <3>2 DEF HandSound, Images!Row
  <2> QED BY <2>1, <2>2
<1>14. Settled'
  <2>1. JustRecorded' /\ NotGoneBackTo' /\ NamedSince'
    BY <1>1, <1>2, <1>11 DEF Settled, JustRecorded, NotGoneBackTo, NamedSince
  <2>2. BuiltAnew'
    <3> SUFFICES ASSUME NEW a, InWork(a)', rows[a].trigger = "webhook", Images!OnServer(a)', a \notin overtaken,
                        NEW k \in DOMAIN rows, rows[k].status = "succeeded", rows[k].inputs = images'[a],
                        Images!OnServer(rows[k].image)'
                 PROVE  rows[k].image = a
      BY <1>1 DEF BuiltAnew, Images!OnServer
    <3>1. a = r
      BY <1>4, <1>8, <1>11
    <3>2. ~Images!OnServer(rows[k].image)
      BY <1>1, <1>2, <1>3, <1>6, <3>1 DEF Underway, BuildsAnew
    <3>3. rows[k].image \in Images!Tags
      <4>1. rows[k].image # 0
        BY <1>1 DEF Images!OnServer, Images!BuildPlaceholder
      <4> QED BY <1>2, <4>1, RowTag
    <3> QED BY <1>1, <1>8, <3>1, <3>2, <3>3 DEF Images!OnServer
  <2>3. RowsTruthful'
    <3> SUFFICES ASSUME NEW i \in DOMAIN rows, rows[i].image # 0, rows[i].image \notin overtaken,
                        rows[i].inputs # Images!NoInputs, Images!OnServer(rows[i].image)'
                 PROVE  images'[rows[i].image] = rows[i].inputs
      BY <1>1 DEF RowsTruthful, Truthful, Images!OnServer
    <3>1. CASE rows[i].image = r
      BY <1>1, <1>2, <1>3, <1>6, <3>1 DEF Underway, BuildTruthful
    <3>2. CASE rows[i].image # r
      <4>1. rows[i].image \in Images!Tags /\ images'[rows[i].image] # Images!NoInputs
        BY <1>1, <1>2, RowTag DEF Images!OnServer
      <4>2. Images!OnServer(rows[i].image) /\ images'[rows[i].image] = images[rows[i].image]
        BY <1>6, <3>2, <4>1 DEF Images!OnServer, Images!BuildPlaceholder
      <4> QED BY <1>2, <4>2 DEF Settled, RowsTruthful, Truthful
    <3> QED BY <3>1, <3>2
  <2> QED BY <2>1, <2>2, <2>3 DEF Settled
<1>15. Underway'
  <2>1. TakesOthers' /\ NameTruthful'
    BY <1>3, <1>4, <1>5, <1>6 DEF TakesOthers, NameTruthful, Images!Row
  <2> QED BY <1>5, <2>1 DEF Underway, BuildsAnew, BuildTruthful
<1> QED BY <1>11, <1>12, <1>13, <1>14, <1>15 DEF ImagesInv, ImagesInHand

LEMMA NameImageImages ==
  ASSUME ImagesBounds, ImagesInv, Images!NameImage
  PROVE  ImagesInv'
<1>1. /\ work.pc = "name" /\ work' = [work EXCEPT !.pc = "start"]
      /\ rows' = [rows EXCEPT ![Images!Row].image = work.image]
      /\ UNCHANGED <<heads, saved, images, current, previous, waiting, overtaken, moves, upsets>> /\ InHand
  BY DEF Images!NameImage, Images!At, InHand
<1>2. /\ WorldTyped /\ WorkTyped /\ RowsTyped /\ CurrentThere /\ QueueSound /\ JobsSound /\ KnownRan /\ HandSound
      /\ Settled /\ Underway /\ work \in ImageWork
  BY DEF ImagesInv, ImagesTyped, ImagesInHand, WorkTyped
<1>3. /\ Images!Row \in DOMAIN rows /\ Images!Row \in Images!Tags /\ Images!Row # 0 /\ rows[Images!Row].status = "running"
      /\ \A a : InWork(a) => a = Images!Row \/ (~Ran(a) /\ ~Images!OnServer(a) /\ a \in Images!Tags /\ a # 0)
  BY <1>1, <1>2, InHandOnly DEF QueueSound
<1>4. /\ work' \in ImageWork /\ work'.pc = "start" /\ work'.image = work.image /\ work'.job = work.job
      /\ InHand'
  BY <1>1, <1>2, PcSet
<1>5. work.image \in 0..MaxRows
  BY <1>2 DEF ImageWork
<1>6. /\ OneRow(Images!Row) /\ rows'[Images!Row].image = work.image /\ rows'[Images!Row].status = "running"
      /\ rows'[Images!Row].inputs = rows[Images!Row].inputs
  BY <1>1, <1>2, <1>3, <1>5, ImageSet DEF RowsTyped
<1>7. DOMAIN rows' = DOMAIN rows /\ \A i \in DOMAIN rows : i = Images!Row \/ rows'[i] = rows[i]
  BY <1>6 DEF OneRow
<1>8. /\ rows[Images!Row].inputs = work.inputs /\ ~work.job.exists
      /\ (work.job.again => ~Images!OnServer(work.job.image)) /\ JobSound(work.job)
  BY <1>1, <1>2 DEF HandSound, JobsSound
<1>9. JobSound(work.job)'
  BY <1>1, <1>4, <1>6, <1>8 DEF JobSound, Images!OnServer, Images!Row
<1>10. WorkTyped'
  BY <1>1, <1>2, <1>4 DEF WorkTyped
<1>11. QueueSound' /\ KnownRan' /\ JobsSound' /\ \A a : InWork(a)' <=> InWork(a)
  <2>1. \A t \in {current', previous', work'.image, rows'[Images!Row].image} : t # 0 => Ran(t)
    BY <1>1, <1>2, <1>4, <1>6 DEF KnownRan
  <2>2. \A t \in Images!Tags : Images!OnServer(t)' => Images!OnServer(t) \/ t = Images!Row
    BY <1>1 DEF Images!OnServer
  <2>3. rows'[Images!Row].status = IF work'.pc = "end" THEN "succeeded" ELSE "running"
    BY <1>4, <1>6
  <2> QED BY <1>1, <1>4, <1>6, <1>9, <1>10, <2>1, <2>2, <2>3, HandMoved
<1>12. ImagesTyped'
  BY <1>1, <1>2, <1>6, <1>10 DEF ImagesTyped, WorldTyped, RowsTyped, OneRow
<1>13. CurrentThere' /\ HandSound'
  BY <1>1, <1>2, <1>4, <1>6 DEF CurrentThere, Images!OnServer, HandSound, Images!Row
<1>14. Settled'
  <2>1. JustRecorded'
    BY <1>1, <1>2, <1>3, <1>6, <1>7, <1>11 DEF Settled, JustRecorded, OneRow
  <2>2. NotGoneBackTo'
    BY <1>1, <1>2, <1>11 DEF Settled, NotGoneBackTo
  <2>3. NamedSince'
    <3> SUFFICES ASSUME NEW a, InWork(a), NEW i \in DOMAIN rows, i # a, rows'[i].image = a
                 PROVE  a \in overtaken \/ current = a
      BY <1>1, <1>7, <1>11 DEF NamedSince
    <3>1. CASE i = Images!Row
      <4>1. ~Ran(a) /\ a # 0
        BY <1>3, <3>1
      <4> QED BY <1>2, <1>6, <3>1, <4>1 DEF KnownRan
    <3>2. CASE i # Images!Row
      BY <1>2, <1>7, <3>2 DEF Settled, NamedSince
    <3> QED BY <3>1, <3>2
  <2>4. BuiltAnew'
    <3> SUFFICES ASSUME NEW a, InWork(a), rows'[a].trigger = "webhook", Images!OnServer(a), a \notin overtaken,
                        NEW k \in DOMAIN rows, rows'[k].status = "succeeded", rows'[k].inputs = images[a],
                        Images!OnServer(rows'[k].image)
                 PROVE  rows'[k].image = a
      BY <1>1, <1>7, <1>11 DEF BuiltAnew, Images!OnServer
    <3>1. a = Images!Row
      BY <1>3
    <3>2. k # Images!Row /\ rows[a].trigger = "webhook"
      BY <1>6, <3>1 DEF OneRow
    <3> QED BY <1>2, <1>7, <3>2 DEF Settled, BuiltAnew
  <2>5. RowsTruthful'
    <3> SUFFICES ASSUME NEW i \in DOMAIN rows, rows'[i].image # 0, rows'[i].image \notin overtaken,
                        rows'[i].inputs # Images!NoInputs, Images!OnServer(rows'[i].image)
                 PROVE  images[rows'[i].image] = rows'[i].inputs
      BY <1>1, <1>7 DEF RowsTruthful, Truthful, Images!OnServer
    <3>1. CASE i = Images!Row
      BY <1>1, <1>2, <1>6, <1>8, <3>1 DEF Underway, NameTruthful
    <3>2. CASE i # Images!Row
      BY <1>2, <1>7, <3>2 DEF Settled, RowsTruthful, Truthful
    <3> QED BY <3>1, <3>2
  <2> QED BY <2>1, <2>2, <2>3, <2>4, <2>5 DEF Settled
<1>15. Underway'
  <2>1. TakesOthers'
    BY <1>1, <1>2, <1>4 DEF Underway, TakesOthers, Images!Row, Images!OnServer
  <2> QED BY <1>4, <2>1 DEF Underway, BuildsAnew, BuildTruthful, NameTruthful
<1> QED BY <1>11, <1>12, <1>13, <1>14, <1>15 DEF ImagesInv, ImagesInHand

LEMMA RecordSuccessImages ==
  ASSUME ImagesBounds, ImagesInv, Images!RecordSuccess
  PROVE  ImagesInv'
<1>1. /\ work.pc = "start" /\ Images!OnServer(work.image) /\ work' = [work EXCEPT !.pc = "end"]
      /\ current' = work.image /\ previous' = IF current \notin {0, work.image} THEN current ELSE previous
      /\ rows' = [rows EXCEPT ![Images!Row].status = "succeeded"]
      /\ UNCHANGED <<heads, saved, images, waiting, overtaken, moves, upsets>> /\ InHand
  BY DEF Images!RecordSuccess, Images!At, InHand, Images!BuildPlaceholder
<1>2. /\ WorldTyped /\ WorkTyped /\ RowsTyped /\ CurrentThere /\ QueueSound /\ JobsSound /\ KnownRan /\ HandSound
      /\ Settled /\ Underway /\ work \in ImageWork
  BY DEF ImagesInv, ImagesTyped, ImagesInHand, WorkTyped
<1>3. /\ Images!Row \in DOMAIN rows /\ Images!Row \in Images!Tags /\ Images!Row # 0
      /\ \A a : InWork(a) => a = Images!Row \/ (~Ran(a) /\ ~Images!OnServer(a) /\ a \in Images!Tags /\ a # 0)
  BY <1>1, <1>2, InHandOnly DEF QueueSound
<1>4. /\ work' \in ImageWork /\ work'.pc = "end" /\ work'.image = work.image /\ work'.job = work.job
      /\ InHand'
  BY <1>1, <1>2, PcSet
<1>5. work.image \in 0..MaxRows /\ work.image # 0
  BY <1>1, <1>2 DEF ImageWork, Images!OnServer, Images!BuildPlaceholder
<1>6. /\ OneRow(Images!Row) /\ rows'[Images!Row].status = "succeeded"
      /\ rows'[Images!Row].image = rows[Images!Row].image /\ rows'[Images!Row].inputs = rows[Images!Row].inputs
  BY <1>1, <1>2, <1>3, StatusSet DEF RowsTyped, Statuses
<1>7. DOMAIN rows' = DOMAIN rows /\ \A i \in DOMAIN rows : i = Images!Row \/ rows'[i] = rows[i]
  BY <1>6 DEF OneRow
<1>8. rows[Images!Row].image = work.image /\ JobSound(work.job)
  BY <1>1, <1>2 DEF HandSound, JobsSound
<1>9. JobSound(work.job)'
  <2>1. rows'[Images!Row].status # "queued"
    BY <1>6
  <2> QED BY <1>1, <1>4, <1>6, <1>8, <2>1 DEF JobSound, Images!OnServer, Images!Row
<1>10. WorkTyped'
  BY <1>1, <1>2, <1>4 DEF WorkTyped
<1>11. QueueSound' /\ KnownRan' /\ JobsSound' /\ \A a : InWork(a)' <=> InWork(a)
  <2>1. \A t \in {current', previous', work'.image, rows'[Images!Row].image} : t # 0 => Ran(t)
    BY <1>1, <1>2, <1>4, <1>6, <1>8 DEF KnownRan
  <2>2. \A t \in Images!Tags : Images!OnServer(t)' => Images!OnServer(t) \/ t = Images!Row
    BY <1>1 DEF Images!OnServer
  <2>3. rows'[Images!Row].status = IF work'.pc = "end" THEN "succeeded" ELSE "running"
    BY <1>4, <1>6
  <2> QED BY <1>1, <1>4, <1>6, <1>9, <1>10, <2>1, <2>2, <2>3, HandMoved
<1>12. ImagesTyped'
  BY <1>1, <1>2, <1>5, <1>6, <1>10 DEF ImagesTyped, WorldTyped, RowsTyped, OneRow
<1>13. CurrentThere' /\ HandSound'
  BY <1>1, <1>4 DEF CurrentThere, Images!OnServer, HandSound
\* The container that goes is the image's of this deployment only if it was overtaken.
<1>14. current = Images!Row /\ work.image # Images!Row => Images!Row \in overtaken
  BY <1>1, <1>2, <1>3 DEF Underway, TakesOthers, CurrentThere
<1>15. Settled'
  <2>1. JustRecorded'
    <3> SUFFICES ASSUME NEW a, InWork(a), rows'[a].status = "succeeded" PROVE work.image = rows'[a].image
      BY <1>1, <1>11 DEF JustRecorded
    <3>1. CASE a = Images!Row
      BY <1>6, <1>8, <3>1
    <3>2. CASE a # Images!Row
      BY <1>2, <1>3, <1>7, <3>2, InWorkRow DEF Ran
    <3> QED BY <3>1, <3>2
  <2>2. NotGoneBackTo'
    <3> SUFFICES ASSUME NEW a, InWork(a), previous' = a PROVE a \in overtaken
      BY <1>1, <1>11 DEF NotGoneBackTo
    <3>1. CASE current \notin {0, work.image}
      <4>1. Ran(a) /\ a = current
        BY <1>1, <1>2, <3>1 DEF KnownRan
      <4>2. a = Images!Row
        BY <1>3, <4>1
      <4> QED BY <1>14, <3>1, <4>1, <4>2
    <3>2. CASE current \in {0, work.image}
      BY <1>1, <1>2, <3>2 DEF Settled, NotGoneBackTo
    <3> QED BY <3>1, <3>2
  <2>3. NamedSince'
    <3> SUFFICES ASSUME NEW a, InWork(a), NEW i \in DOMAIN rows, i # a, rows'[i].image = a
                 PROVE  a \in overtaken \/ work.image = a
      BY <1>1, <1>7, <1>11 DEF NamedSince
    <3>1. rows[i].image = a /\ a # 0
      BY <1>3, <1>6, <1>7
    <3>2. a = Images!Row
      BY <1>2, <1>3, <3>1 DEF KnownRan
    <3>3. a \in overtaken \/ current = a
      BY <1>2, <3>1 DEF Settled, NamedSince
    <3> QED BY <1>14, <3>2, <3>3
  <2>4. BuiltAnew'
    <3> SUFFICES ASSUME NEW a, InWork(a), rows'[a].trigger = "webhook", Images!OnServer(a), a \notin overtaken,
                        NEW k \in DOMAIN rows, rows'[k].status = "succeeded", rows'[k].inputs = images[a],
                        Images!OnServer(rows'[k].image)
                 PROVE  rows'[k].image = a
      BY <1>1, <1>7, <1>11 DEF BuiltAnew, Images!OnServer
    <3>1. a = Images!Row
      BY <1>3
    <3>2. rows[a].trigger = "webhook"
      BY <1>6, <3>1 DEF OneRow
    <3>3. CASE k = Images!Row
      BY <1>1, <1>2, <1>6, <1>8, <3>1, <3>3 DEF Underway, TakesOthers
    <3>4. CASE k # Images!Row
      BY <1>2, <1>7, <3>2, <3>4 DEF Settled, BuiltAnew
    <3> QED BY <3>3, <3>4
  <2>5. RowsTruthful'
    <3>1. \A i \in DOMAIN rows : rows'[i].image = rows[i].image /\ rows'[i].inputs = rows[i].inputs
      BY <1>6, <1>7
    <3> QED BY <1>1, <1>2, <1>7, <3>1 DEF Settled, RowsTruthful, Truthful, Images!OnServer
  <2> QED BY <2>1, <2>2, <2>3, <2>4, <2>5 DEF Settled
<1>16. Underway'
  BY <1>4, IdleUnderway
<1> QED BY <1>11, <1>12, <1>13, <1>15, <1>16 DEF ImagesInv, ImagesInHand

\* What a push reuses was built from the same inputs, and is on the server.
LEMMA Reused ==
  ASSUME RowsTyped, NEW inputs
  PROVE  /\ Images!FindReusableImage(inputs) # 0 =>
              \E k \in DOMAIN rows : /\ rows[k].status = "succeeded" /\ rows[k].inputs = inputs
                                     /\ Images!OnServer(rows[k].image) /\ rows[k].image = Images!FindReusableImage(inputs)
         /\ Images!FindReusableImage(inputs) = 0 =>
              \A k \in DOMAIN rows : rows[k].status = "succeeded" /\ rows[k].inputs = inputs => ~Images!OnServer(rows[k].image)
<1> DEFINE there == {i \in Images!ReusableBuilds(inputs) : Images!OnServer(rows[i].image)}
<1>1. \A k : k \in there <=> /\ k \in DOMAIN rows /\ rows[k].status = "succeeded" /\ rows[k].inputs = inputs
                             /\ Images!OnServer(rows[k].image)
  BY DEF Images!ReusableBuilds, Images!BuildFingerprint, Images!OnServer
<1>2. Images!FindReusableImage(inputs) = IF there = {} THEN 0 ELSE rows[Images!Newest(there)].image
  BY DEF Images!FindReusableImage, Images!BuildPlaceholder
<1>3. ASSUME there # {} PROVE Images!Newest(there) \in there
  <2>1. PICK n \in Nat : n = Len(rows) /\ DOMAIN rows = 1..n
    <3>1. rows \in Seq(ImageRow)
      BY DEF RowsTyped
    <3> HIDE DEF ImageRow
    <3> QED BY <3>1
  <2>2. there \subseteq 1..n
    BY <1>1, <2>1
  <2> HIDE DEF there
  <2> QED BY <1>3, <2>2, NewestIs
<1> HIDE DEF there
<1>4. ASSUME there # {}
      PROVE  rows[Images!Newest(there)].image # 0
  BY <1>1, <1>3, <1>4 DEF Images!OnServer, Images!BuildPlaceholder
<1> QED BY <1>1, <1>2, <1>3, <1>4

LEMMA ResolveKeepsImages ==
  ASSUME ImagesBounds, ImagesInv, Images!Resolve
  PROVE  ImagesInv'
<1> DEFINE commit == IF work.job.pin # Images!NoCommit THEN work.job.pin ELSE heads[work.source.repo]
           inputs == [commit |-> commit, repo |-> work.source.repo, vars |-> work.source.vars]
           reused == IF rows[Images!Row].trigger = "webhook" THEN Images!FindReusableImage(inputs) ELSE 0
<1>1. /\ work.pc = "resolve"
      /\ rows' = [rows EXCEPT ![Images!Row].inputs = inputs]
      /\ work' = [work EXCEPT !.inputs = inputs, !.image = reused, !.pc = IF reused # 0 THEN "name" ELSE "build"]
      /\ overtaken' = overtaken \cup {t \in {Images!Row, rows[Images!Row].image} : Images!OnServer(t) /\ images[t] # inputs}
      /\ UNCHANGED <<heads, saved, images, current, previous, waiting, moves, upsets>> /\ InHand
  BY DEF Images!Resolve, Images!At, InHand, Images!BuildPlaceholder
<1>2. /\ WorldTyped /\ WorkTyped /\ RowsTyped /\ CurrentThere /\ QueueSound /\ JobsSound /\ KnownRan /\ HandSound
      /\ Settled /\ Underway /\ work \in ImageWork
  BY DEF ImagesInv, ImagesTyped, ImagesInHand, WorkTyped
<1>3. /\ Images!Row \in DOMAIN rows /\ Images!Row \in Images!Tags /\ Images!Row # 0 /\ rows[Images!Row].status = "running"
      /\ \A a : InWork(a) => a = Images!Row \/ (~Ran(a) /\ ~Images!OnServer(a) /\ a \in Images!Tags /\ a # 0)
  BY <1>1, <1>2, InHandOnly DEF QueueSound
<1>4. /\ commit \in 1..MaxMoves + 1 /\ inputs.commit = commit /\ inputs \in Images!Inputs /\ inputs # Images!NoInputs
      /\ (work.job.pin # 0 => commit = work.job.pin)
  <2>1. work.source.repo \in Repos /\ work.source.vars \in 0..MaxMoves /\ work.job.pin \in 0..MaxMoves + 1
    BY <1>1, <1>2 DEF WorkTyped, ImageWork, ImageJob
  <2>2. heads[work.source.repo] \in 1..MaxMoves + 1
    <3>1. heads[work.source.repo] \in 1..moves + 1 /\ moves \in 0..MaxMoves
      BY <1>2, <2>1 DEF WorldTyped
    <3> QED BY <3>1 DEF ImagesBounds
  <2>3. commit \in 1..MaxMoves + 1 /\ (work.job.pin # 0 => commit = work.job.pin)
    BY <2>1, <2>2 DEF ImagesBounds, Images!NoCommit
  <2> HIDE DEF commit
  <2> QED BY <2>1, <2>3 DEF ImagesBounds, Images!Inputs, Images!NoInputs, Images!NoCommit
<1> HIDE DEF commit, inputs
<1>5. /\ reused # 0 => /\ rows[Images!Row].trigger = "webhook"
                       /\ \E k \in DOMAIN rows : /\ rows[k].status = "succeeded" /\ rows[k].inputs = inputs
                                                 /\ Images!OnServer(rows[k].image) /\ rows[k].image = reused
      /\ reused = 0 /\ rows[Images!Row].trigger = "webhook" =>
           \A k \in DOMAIN rows : rows[k].status = "succeeded" /\ rows[k].inputs = inputs => ~Images!OnServer(rows[k].image)
  BY <1>2, Reused
<1> HIDE DEF reused
<1>6. reused \in 0..MaxRows /\ (reused # 0 => reused \in Images!Tags /\ Images!OnServer(reused) /\ Ran(reused))
  <2>1. CASE reused = 0
    BY <2>1 DEF ImagesBounds
  <2>2. CASE reused # 0
    BY <1>2, <1>5, <2>2, RowTag DEF KnownRan
  <2> QED BY <2>1, <2>2
<1>7. /\ work' \in ImageWork /\ work'.pc = (IF reused # 0 THEN "name" ELSE "build") /\ work'.image = reused
      /\ work'.inputs = inputs /\ work'.job = work.job /\ InHand'
  <2>1. PICK p \in {"name", "build"} : p = IF reused # 0 THEN "name" ELSE "build"
    OBVIOUS
  <2>2. /\ work' \in ImageWork /\ work'.pc = p /\ work'.image = reused /\ work'.inputs = inputs /\ work'.job = work.job
    BY <1>1, <1>2, <1>4, <1>6, <2>1 DEF ImageWork
  <2> QED BY <2>1, <2>2 DEF InHand
<1>8. /\ OneRow(Images!Row) /\ rows'[Images!Row].inputs = inputs /\ rows'[Images!Row].status = "running"
      /\ rows'[Images!Row].image = rows[Images!Row].image
  BY <1>1, <1>2, <1>3, <1>4, InputsSet DEF RowsTyped
<1>9. DOMAIN rows' = DOMAIN rows /\ \A i \in DOMAIN rows : i = Images!Row \/ rows'[i] = rows[i]
  BY <1>8 DEF OneRow
<1>10. ~work.job.exists /\ (work.job.again => ~Images!OnServer(work.job.image)) /\ JobSound(work.job)
  BY <1>1, <1>2 DEF HandSound, JobsSound
<1>11. JobSound(work.job)'
  BY <1>1, <1>4, <1>7, <1>8, <1>10 DEF JobSound, Images!OnServer, Images!Row
<1>12. WorkTyped'
  BY <1>1, <1>2, <1>7 DEF WorkTyped
<1>13. QueueSound' /\ KnownRan' /\ JobsSound' /\ \A a : InWork(a)' <=> InWork(a)
  <2>1. \A t \in {current', previous', work'.image, rows'[Images!Row].image} : t # 0 => Ran(t)
    BY <1>1, <1>2, <1>3, <1>6, <1>7, <1>8 DEF KnownRan
  <2>2. \A t \in Images!Tags : Images!OnServer(t)' => Images!OnServer(t) \/ t = Images!Row
    BY <1>1 DEF Images!OnServer
  <2>3. rows'[Images!Row].status = IF work'.pc = "end" THEN "succeeded" ELSE "running"
    BY <1>7, <1>8
  <2> QED BY <1>1, <1>7, <1>8, <1>11, <1>12, <2>1, <2>2, <2>3, HandMoved
<1>14. /\ overtaken' \subseteq Images!Tags /\ overtaken \subseteq overtaken'
       /\ \A t \in {Images!Row, rows[Images!Row].image} : Images!OnServer(t) /\ t \notin overtaken' => images[t] = inputs
  <2>1. \A t \in {Images!Row, rows[Images!Row].image} : Images!OnServer(t) => t \in Images!Tags
    BY <1>2, <1>3, RowTag DEF Images!OnServer, Images!BuildPlaceholder
  <2> QED BY <1>1, <1>2, <2>1 DEF RowsTyped
<1>15. ImagesTyped'
  BY <1>1, <1>2, <1>8, <1>12, <1>14 DEF ImagesTyped, WorldTyped, RowsTyped, OneRow
<1>16. CurrentThere' /\ HandSound'
  BY <1>1, <1>2, <1>4, <1>7, <1>8, <1>10 DEF CurrentThere, Images!OnServer, HandSound, Images!Row
<1>17. Settled'
  <2>1. JustRecorded'
    BY <1>1, <1>2, <1>3, <1>8, <1>9, <1>13 DEF Settled, JustRecorded
  <2>2. NotGoneBackTo'
    BY <1>1, <1>2, <1>13, <1>14 DEF Settled, NotGoneBackTo
  <2>3. NamedSince'
    <3>1. \A i \in DOMAIN rows : rows'[i].image = rows[i].image
      BY <1>8, <1>9
    <3> QED BY <1>1, <1>2, <1>9, <1>13, <1>14, <3>1 DEF Settled, NamedSince
  <2>4. BuiltAnew'
    <3> SUFFICES ASSUME NEW a, InWork(a), rows'[a].trigger = "webhook", Images!OnServer(a), a \notin overtaken',
                        NEW k \in DOMAIN rows, rows'[k].status = "succeeded", rows'[k].inputs = images[a],
                        Images!OnServer(rows'[k].image)
                 PROVE  rows'[k].image = a
      BY <1>1, <1>9, <1>13 DEF BuiltAnew, Images!OnServer
    <3>1. a = Images!Row
      BY <1>3
    <3>2. k # Images!Row /\ rows[a].trigger = "webhook" /\ rows'[k] = rows[k]
      BY <1>8, <1>9, <3>1 DEF OneRow
    <3> QED BY <1>2, <1>14, <3>2 DEF Settled, BuiltAnew
  <2>5. RowsTruthful'
    <3> SUFFICES ASSUME NEW i \in DOMAIN rows, rows'[i].image # 0, rows'[i].image \notin overtaken',
                        rows'[i].inputs # Images!NoInputs, Images!OnServer(rows'[i].image)
                 PROVE  images[rows'[i].image] = rows'[i].inputs
      BY <1>1, <1>9 DEF RowsTruthful, Truthful, Images!OnServer
    <3>1. CASE i = Images!Row
      BY <1>8, <1>14, <3>1
    <3>2. CASE i # Images!Row
      BY <1>2, <1>9, <1>14, <3>2 DEF Settled, RowsTruthful, Truthful
    <3> QED BY <3>1, <3>2
  <2> QED BY <2>1, <2>2, <2>3, <2>4, <2>5 DEF Settled
<1>18. Underway'
  <2>1. BuildsAnew'
    <3> SUFFICES ASSUME reused = 0, rows'[Images!Row].trigger = "webhook", NEW k \in DOMAIN rows,
                        rows'[k].status = "succeeded", rows'[k].inputs = inputs, Images!OnServer(rows'[k].image)
                 PROVE  FALSE
      BY <1>1, <1>7, <1>9 DEF BuildsAnew, Images!OnServer, Images!Row
    <3>1. k # Images!Row /\ rows'[k] = rows[k] /\ rows[Images!Row].trigger = "webhook"
      BY <1>8, <1>9 DEF OneRow
    <3> QED BY <1>5, <3>1
  <2>2. TakesOthers'
    <3> SUFFICES ASSUME reused # 0, reused # Images!Row, Images!OnServer(Images!Row), Images!Row \notin overtaken'
                 PROVE  FALSE
      BY <1>1, <1>7 DEF TakesOthers, Images!OnServer, Images!Row
    <3>1. images[Images!Row] = inputs /\ Images!Row \notin overtaken
      BY <1>14
    <3>2. InWork(Images!Row)
      BY <1>1 DEF InWork
    <3> QED BY <1>2, <1>5, <3>1, <3>2 DEF Settled, BuiltAnew
  <2>3. BuildTruthful'
    <3> SUFFICES ASSUME Images!Row \notin overtaken', NEW i \in DOMAIN rows, rows'[i].image = Images!Row
                 PROVE  rows'[i].inputs \in {inputs, Images!NoInputs}
      BY <1>7, <1>9 DEF BuildTruthful, Images!Row
    <3>1. CASE i = Images!Row
      BY <1>8, <3>1
    <3>2. CASE i # Images!Row
      <4>1. rows'[i] = rows[i] /\ rows[i].image = Images!Row /\ Images!Row \notin overtaken /\ InWork(Images!Row)
        BY <1>1, <1>9, <1>14, <3>2 DEF InWork
      <4>2. current = Images!Row
        BY <1>2, <3>2, <4>1 DEF Settled, NamedSince
      <4>3. Images!OnServer(Images!Row)
        BY <1>2, <1>3, <4>2 DEF CurrentThere
      <4>4. images[Images!Row] = inputs
        BY <1>14, <4>3
      <4> QED BY <1>2, <1>3, <4>1, <4>3, <4>4 DEF Settled, RowsTruthful, Truthful
    <3> QED BY <3>1, <3>2
  <2>4. NameTruthful'
    <3> SUFFICES ASSUME reused # 0
                 PROVE  reused \notin overtaken' /\ Images!OnServer(reused) => images[reused] = inputs
      BY <1>1, <1>7 DEF NameTruthful, Images!OnServer
    <3> QED BY <1>2, <1>4, <1>5, <1>6, <1>14 DEF Settled, RowsTruthful, Truthful
  <2> QED BY <2>1, <2>2, <2>3, <2>4 DEF Underway
<1> QED BY <1>13, <1>15, <1>16, <1>17, <1>18 DEF ImagesInv, ImagesInHand

-----------------------------------------------------------------------------
(* A deployment is asked for.                                                *)

\* What a new row may say of the image it names.
AskSound(row) ==
  /\ row.status = "queued"
  /\ row.image # 0 =>
       /\ Ran(row.image)
       /\ InWork(row.image) => row.image \in overtaken \/ current = row.image
       /\ row.image \notin overtaken /\ row.inputs # Images!NoInputs /\ Images!OnServer(row.image)
            => images[row.image] = row.inputs
       /\ work.pc = "build" /\ row.image = Images!Row /\ Images!Row \notin overtaken
            => row.inputs \in {work.inputs, Images!NoInputs}

LEMMA Asked ==
  ASSUME ImagesBounds, ImagesInv, NEW asks \in ImageRow, NEW j \in ImageJob, AskSound(asks), Images!Ask(asks, j),
         j.image = asks.image, ~(j.exists /\ j.again), j.pin # 0 => j.again /\ asks.inputs.commit = j.pin,
         UNCHANGED <<heads, saved, images, current, previous, work, overtaken, moves, upsets>>
  PROVE  ImagesInv'
<1>1. /\ WorldTyped /\ WorkTyped /\ RowsTyped /\ CurrentThere /\ QueueSound /\ JobsSound /\ KnownRan /\ HandSound
      /\ Settled /\ Underway /\ work \in ImageWork /\ waiting \in Seq(ImageJob)
  BY DEF ImagesInv, ImagesTyped, ImagesInHand, WorkTyped
<1>2. /\ Len(rows) < MaxRows /\ rows' = Append(rows, asks)
      /\ waiting' = Append(waiting, [j EXCEPT !.kind = "deploy", !.row = Len(rows) + 1])
  BY DEF Images!Ask
<1>3. /\ rows' \in Seq(ImageRow) /\ Len(rows') <= MaxRows
      /\ \E n \in 1..MaxRows : /\ n = Len(rows) + 1 /\ n \notin DOMAIN rows /\ DOMAIN rows' = DOMAIN rows \cup {n}
                               /\ rows'[n] = asks
      /\ \A i \in DOMAIN rows : rows'[i] = rows[i]
  BY <1>1, <1>2, RowAsked
<1>4. PICK n \in 1..MaxRows : /\ n = Len(rows) + 1 /\ n \notin DOMAIN rows /\ DOMAIN rows' = DOMAIN rows \cup {n}
                              /\ rows'[n] = asks
  BY <1>3
<1>5. n \in Images!Tags /\ n # 0 /\ n \in 0..MaxRows
  BY <1>4 DEF ImagesBounds, Images!Tags
<1>6. PICK new \in ImageJob : /\ new = [j EXCEPT !.kind = "deploy", !.row = n] /\ new.kind = "deploy" /\ new.row = n
                              /\ new.image = asks.image /\ new.exists = j.exists /\ new.again = j.again /\ new.pin = j.pin
  <2> DEFINE it == [j EXCEPT !.kind = "deploy", !.row = n]
  <2>1. /\ it \in ImageJob /\ it.kind = "deploy" /\ it.row = n
        /\ it.image = j.image /\ it.exists = j.exists /\ it.again = j.again /\ it.pin = j.pin
    BY <1>5 DEF ImageJob
  <2> HIDE DEF it
  <2>2. it = [j EXCEPT !.kind = "deploy", !.row = n]
    BY DEF it
  <2> QED BY <2>1, <2>2
<1>7. /\ waiting' \in Seq(ImageJob) /\ \A i \in DOMAIN waiting : waiting'[i] = waiting[i]
      /\ \E m \in Nat \ DOMAIN waiting : DOMAIN waiting' = DOMAIN waiting \cup {m} /\ waiting'[m] = new /\ m > 0
  <2>1. waiting' = Append(waiting, new)
    BY <1>2, <1>4, <1>6
  <2> HIDE DEF ImageJob
  <2> QED BY <1>1, <2>1, JobQueued
<1>8. PICK m \in Nat \ DOMAIN waiting : DOMAIN waiting' = DOMAIN waiting \cup {m} /\ waiting'[m] = new
  BY <1>7
<1>9. DeployJobs' = DeployJobs \cup {m} /\ m \notin DeployJobs /\ \A i \in DeployJobs : waiting'[i] = waiting[i] /\ i # m
  BY <1>6, <1>7, <1>8 DEF DeployJobs
<1>10. InHand' = InHand /\ Images!Row' = Images!Row /\ (InHand => Images!Row \in DOMAIN rows)
  BY <1>1 DEF InHand, Images!Row, QueueSound
<1>11. \A a : InWork(a)' => InWork(a) \/ a = n
  BY <1>6, <1>8, <1>9, <1>10 DEF InWork
<1>12. RanKept /\ ImagesShrink /\ ~Ran(n) /\ \A t : Images!OnServer(t)' <=> Images!OnServer(t)
  BY <1>3, <1>4 DEF RanKept, Ran, ImagesShrink, Images!OnServer
<1>13. ~Images!OnServer(n)
  BY <1>1, <1>5, <1>12 DEF KnownRan
<1>14. \A i \in DeployJobs : waiting[i].row \in DOMAIN rows
  BY <1>1 DEF QueueSound
<1>15. asks.image # n /\ asks.status = "queued"
  <2>1. asks.image # 0 => asks.image \in DOMAIN rows
    BY DEF AskSound, Ran
  <2> QED BY <1>4, <1>5, <2>1 DEF AskSound
<1>16. ImagesTyped'
  BY <1>1, <1>3, <1>7 DEF ImagesTyped, WorldTyped, RowsTyped, WorkTyped
<1>17. QueueSound'
  <2>1. ASSUME NEW i \in DeployJobs'
        PROVE  /\ waiting'[i].row \in DOMAIN rows' /\ rows'[waiting'[i].row].status # "failed"
               /\ i > 1 \/ work'.pc # "idle" => rows'[waiting'[i].row].status = "queued"
    <3>1. CASE i = m
      BY <1>4, <1>6, <1>8, <1>15, <3>1
    <3>2. CASE i \in DeployJobs
      BY <1>1, <1>3, <1>4, <1>9, <1>14, <3>2 DEF QueueSound
    <3> QED BY <1>9, <2>1, <3>1, <3>2
  <2>2. ASSUME NEW i \in DeployJobs', NEW k \in DeployJobs', i # k PROVE waiting'[i].row # waiting'[k].row
    <3>1. \A l \in DeployJobs : waiting'[l].row # n /\ waiting'[l] = waiting[l]
      BY <1>4, <1>9, <1>14
    <3>2. waiting'[m].row = n
      BY <1>6, <1>8
    <3>3. CASE i \in DeployJobs /\ k \in DeployJobs
      BY <1>1, <2>2, <3>1, <3>3 DEF QueueSound
    <3> QED BY <1>9, <2>2, <3>1, <3>2, <3>3
  <2>3. ASSUME InHand'
        PROVE  /\ work'.job.kind = "deploy" /\ work'.job.row \in DOMAIN rows'
               /\ rows'[work'.job.row].status = IF work'.pc = "end" THEN "succeeded" ELSE "running"
    BY <1>1, <1>3, <1>4, <1>10, <2>3 DEF QueueSound, Images!Row
  <2>4. work'.pc = "prune" => work'.job.kind = "prune"
    BY <1>1 DEF QueueSound
  <2> QED BY <2>1, <2>2, <2>3, <2>4 DEF QueueSound, Images!Row
<1>18. KnownRan'
  <2>1. \A t \in {current', previous', work'.image, work'.job.image} \ {0} : Ran(t)'
    BY <1>1, <1>12 DEF KnownRan, RanKept
  <2>2. \A i \in DOMAIN rows' : rows'[i].image # 0 => Ran(rows[i].image)'
    <3> SUFFICES ASSUME NEW i \in DOMAIN rows', rows'[i].image # 0 PROVE Ran(rows[i].image)'
      OBVIOUS
    <3>1. Ran(rows'[i].image)
      BY <1>1, <1>3, <1>4 DEF KnownRan, AskSound
    <3> QED BY <1>12, <3>1 DEF RanKept, Ran
  <2>3. \A i \in DOMAIN waiting' : waiting'[i].image # 0 => Ran(waiting[i].image)'
    <3> SUFFICES ASSUME NEW i \in DOMAIN waiting', waiting'[i].image # 0 PROVE Ran(waiting[i].image)'
      OBVIOUS
    <3>1. Ran(waiting'[i].image)
      BY <1>1, <1>6, <1>7, <1>8 DEF KnownRan, AskSound
    <3> QED BY <1>12, <3>1 DEF RanKept, Ran
  <2>4. \A t \in Images!Tags : Images!OnServer(t)' => Ran(t)'
    BY <1>1, <1>12 DEF KnownRan, RanKept
  <2> QED BY <2>1, <2>2, <2>3, <2>4 DEF KnownRan, Ran, Images!OnServer
<1>19. JobsSound'
  <2>1. JobSound(new)'
    BY <1>4, <1>6, <1>12, <1>13, <1>15 DEF JobSound
  <2>2. ASSUME NEW i \in DeployJobs' PROVE JobSound(waiting[i])'
    <3>1. CASE i = m
      BY <1>8, <2>1, <3>1 DEF JobSound, Images!OnServer
    <3>2. CASE i \in DeployJobs
      <4>1. waiting[i] \in ImageJob
        <5>1. i \in DOMAIN waiting
          BY <3>2 DEF DeployJobs
        <5> HIDE DEF ImageJob
        <5> QED BY <1>1, <5>1
      <4>2. PICK k \in ImageJob : k = waiting[i] /\ k = waiting'[i]
        BY <1>9, <3>2, <4>1
      <4>3. JobSound(k) /\ k.row \in DOMAIN rows /\ rows'[k.row] = rows[k.row]
        BY <1>1, <1>3, <1>14, <3>2, <4>2 DEF JobsSound
      <4>4. JobSound(k)'
        BY <1>1, <1>12, <4>3, JobSoundKept
      <4> QED BY <4>2, <4>4 DEF JobSound, Images!OnServer
    <3> QED BY <1>9, <2>2, <3>1, <3>2
  <2>3. ASSUME InHand PROVE JobSound(work.job)'
    <3>1. PICK k \in ImageJob : k = work.job
      BY <1>1 DEF ImageWork
    <3>2. JobSound(k) /\ k.row \in DOMAIN rows /\ rows'[k.row] = rows[k.row]
      BY <1>1, <1>3, <1>10, <2>3, <3>1 DEF JobsSound, Images!Row
    <3>3. JobSound(k)'
      BY <1>1, <1>12, <3>2, JobSoundKept
    <3> QED BY <3>1, <3>3 DEF JobSound, Images!OnServer
  <2> QED BY <1>10, <2>2, <2>3 DEF JobsSound
<1>20. CurrentThere' /\ HandSound'
  <2>1. ASSUME InHand PROVE rows'[Images!Row] = rows[Images!Row]
    BY <1>3, <1>10, <2>1
  <2> QED BY <1>1, <1>12, <2>1 DEF CurrentThere, HandSound, Images!OnServer, InHand, Images!Row
<1>21. Settled'
  <2>1. JustRecorded'
    <3> SUFFICES ASSUME NEW a, InWork(a)', rows'[a].status = "succeeded" PROVE current = rows'[a].image
      BY DEF JustRecorded
    <3>1. InWork(a) /\ a \in DOMAIN rows
      BY <1>1, <1>4, <1>11, <1>15, InWorkRow
    <3> QED BY <1>1, <1>3, <3>1 DEF Settled, JustRecorded
  <2>2. NotGoneBackTo'
    <3>1. previous # n
      BY <1>1, <1>5, <1>12 DEF KnownRan
    <3> QED BY <1>1, <1>11, <3>1 DEF Settled, NotGoneBackTo
  <2>3. NamedSince'
    <3> SUFFICES ASSUME NEW a, InWork(a)', NEW i \in DOMAIN rows', i # a, rows'[i].image = a
                 PROVE  a \in overtaken \/ current = a
      BY DEF NamedSince
    <3>1. CASE i = n
      <4>1. InWork(a) /\ a # 0 /\ asks.image = a
        BY <1>1, <1>4, <1>11, <3>1, InWorkRow
      <4> QED BY <4>1 DEF AskSound
    <3>2. CASE i \in DOMAIN rows
      <4>1. rows[i].image = a
        BY <1>3, <3>2
      <4>2. a # n
        BY <1>1, <1>5, <1>12, <3>2, <4>1 DEF KnownRan
      <4> QED BY <1>1, <1>11, <3>2, <4>1, <4>2 DEF Settled, NamedSince
    <3> QED BY <1>4, <3>1, <3>2
  <2>4. BuiltAnew'
    <3> SUFFICES ASSUME NEW a, InWork(a)', rows'[a].trigger = "webhook", Images!OnServer(a), a \notin overtaken,
                        NEW k \in DOMAIN rows', rows'[k].status = "succeeded", rows'[k].inputs = images[a],
                        Images!OnServer(rows'[k].image)
                 PROVE  rows'[k].image = a
      BY DEF BuiltAnew, Images!OnServer
    <3>1. InWork(a) /\ a \in DOMAIN rows
      BY <1>1, <1>11, <1>13, InWorkRow
    <3>2. k \in DOMAIN rows
      BY <1>4, <1>15
    <3> QED BY <1>1, <1>3, <3>1, <3>2 DEF Settled, BuiltAnew
  <2>5. RowsTruthful'
    <3> SUFFICES ASSUME NEW i \in DOMAIN rows', rows'[i].image # 0, rows'[i].image \notin overtaken,
                        rows'[i].inputs # Images!NoInputs, Images!OnServer(rows'[i].image)
                 PROVE  images[rows'[i].image] = rows'[i].inputs
      BY DEF RowsTruthful, Truthful, Images!OnServer
    <3>1. CASE i = n
      BY <1>4, <3>1 DEF AskSound
    <3>2. CASE i \in DOMAIN rows
      BY <1>1, <1>3, <3>2 DEF Settled, RowsTruthful, Truthful
    <3> QED BY <1>4, <3>1, <3>2
  <2> QED BY <2>1, <2>2, <2>3, <2>4, <2>5 DEF Settled
<1>22. Underway'
  <2>1. ASSUME InHand PROVE rows'[Images!Row] = rows[Images!Row] /\ Images!Row # 0
    BY <1>1, <1>3, <1>10, <2>1, RowTag DEF ImagesBounds, Images!Tags
  <2>2. BuildsAnew'
    <3> SUFFICES ASSUME work.pc = "build", rows'[Images!Row].trigger = "webhook", NEW k \in DOMAIN rows',
                        rows'[k].status = "succeeded", rows'[k].inputs = work.inputs, Images!OnServer(rows'[k].image)
                 PROVE  FALSE
      BY <1>10 DEF BuildsAnew, Images!OnServer
    <3>1. k \in DOMAIN rows /\ InHand
      BY <1>4, <1>15 DEF InHand
    <3> QED BY <1>1, <1>3, <2>1, <3>1 DEF Underway, BuildsAnew
  <2>3. TakesOthers'
    BY <1>1, <1>10 DEF Underway, TakesOthers, Images!OnServer
  <2>4. BuildTruthful'
    <3> SUFFICES ASSUME work.pc = "build", Images!Row \notin overtaken, NEW i \in DOMAIN rows', rows'[i].image = Images!Row
                 PROVE  rows'[i].inputs \in {work.inputs, Images!NoInputs}
      BY <1>10 DEF BuildTruthful
    <3>1. InHand
      BY DEF InHand
    <3>2. CASE i = n
      BY <1>4, <2>1, <3>1, <3>2 DEF AskSound
    <3>3. CASE i \in DOMAIN rows
      BY <1>1, <1>3, <3>3 DEF Underway, BuildTruthful
    <3> QED BY <1>4, <3>2, <3>3
  <2>5. NameTruthful'
    BY <1>1 DEF Underway, NameTruthful, Images!OnServer
  <2> QED BY <2>2, <2>3, <2>4, <2>5 DEF Underway
<1> QED BY <1>16, <1>17, <1>18, <1>19, <1>20, <1>21, <1>22 DEF ImagesInv, ImagesInHand

LEMMA NoInputsThere ==
  ASSUME ImagesBounds
  PROVE  Images!NoInputs \in Images!Inputs /\ Images!PruneJob \in ImageJob
  BY DEF ImagesBounds, Images!NoInputs, Images!Inputs, Images!NoCommit, ImageJob, Images!PruneJob

LEMMA AskForBuildImages ==
  ASSUME ImagesBounds, ImagesInv, Images!AskForBuild
  PROVE  ImagesInv'
<1>1. PICK trigger \in {"manual", "webhook"} :
        Images!Ask([trigger |-> trigger, image |-> Images!BuildPlaceholder, inputs |-> Images!NoInputs, status |-> "queued"],
                   Images!PruneJob)
  BY DEF Images!AskForBuild
<1> DEFINE asks == [trigger |-> trigger, image |-> Images!BuildPlaceholder, inputs |-> Images!NoInputs, status |-> "queued"]
<1>2. asks \in ImageRow /\ asks.image = 0 /\ AskSound(asks)
  BY NoInputsThere DEF ImagesBounds, ImageRow, AskSound, Images!BuildPlaceholder
<1>3. /\ Images!PruneJob \in ImageJob /\ Images!PruneJob.image = 0 /\ ~Images!PruneJob.exists /\ Images!PruneJob.pin = 0
  BY NoInputsThere DEF Images!PruneJob, Images!NoCommit
<1>4. UNCHANGED <<heads, saved, images, current, previous, work, overtaken, moves, upsets>>
  BY DEF Images!AskForBuild
<1>5. Images!Ask(asks, Images!PruneJob)
  BY <1>1
<1> HIDE DEF asks
<1> QED BY <1>2, <1>3, <1>4, <1>5, Asked

\* The inputs of the newest row that names an image.
LEMMA CommitIs ==
  ASSUME RowsTyped, NEW image
  PROVE  \/ Images!CommitForImage(image) = Images!NoInputs
         \/ \E k \in DOMAIN rows : rows[k].image = image /\ Images!CommitForImage(image) = rows[k].inputs
<1> DEFINE named == {i \in DOMAIN rows : rows[i].image = image /\ rows[i].inputs # Images!NoInputs}
<1>1. Images!CommitForImage(image) = IF named = {} THEN Images!NoInputs ELSE rows[Images!Newest(named)].inputs
  BY DEF Images!CommitForImage
<1>2. ASSUME named # {} PROVE Images!Newest(named) \in named
  <2>1. PICK n \in Nat : n = Len(rows) /\ DOMAIN rows = 1..n
    <3>1. rows \in Seq(ImageRow)
      BY DEF RowsTyped
    <3> HIDE DEF ImageRow
    <3> QED BY <3>1
  <2>2. named \subseteq 1..n
    BY <2>1
  <2> HIDE DEF named
  <2> QED BY <1>2, <2>2, NewestIs
<1> QED BY <1>1, <1>2

LEMMA RollbackImages ==
  ASSUME ImagesBounds, ImagesInv, Images!Rollback
  PROVE  ImagesInv'
<1> DEFINE asks == [trigger |-> "rollback", image |-> previous, inputs |-> Images!CommitForImage(previous), status |-> "queued"]
           it == [Images!PruneJob EXCEPT !.image = previous, !.exists = TRUE]
<1>1. /\ previous # 0 /\ Images!Ask(asks, it)
      /\ UNCHANGED <<heads, saved, images, current, previous, work, overtaken, moves, upsets>>
  BY DEF Images!Rollback, Images!BuildPlaceholder
<1>2. /\ RowsTyped /\ KnownRan /\ Settled
  BY DEF ImagesInv, ImagesTyped, ImagesInHand
<1>3. PICK inputs \in Images!Inputs :
        /\ inputs = Images!CommitForImage(previous)
        /\ inputs = Images!NoInputs \/ \E k \in DOMAIN rows : rows[k].image = previous /\ inputs = rows[k].inputs
  <2>1. \A k \in DOMAIN rows : rows[k].inputs \in Images!Inputs
    BY <1>2, RowTag DEF ImageRow
  <2> QED BY <1>2, <2>1, CommitIs, NoInputsThere
<1>4. /\ asks \in ImageRow /\ asks.image = previous /\ asks.status = "queued" /\ asks.inputs = inputs
  BY <1>2, <1>3 DEF ImageRow, RowsTyped
<1>5. /\ it \in ImageJob /\ it.image = previous /\ ~it.again /\ it.pin = 0
  BY <1>2, NoInputsThere DEF ImageJob, Images!PruneJob, Images!NoCommit, RowsTyped
<1> HIDE DEF asks, it
<1>6. AskSound(asks)
  <2>1. Ran(previous)
    BY <1>1, <1>2 DEF KnownRan
  <2>2. InWork(previous) => previous \in overtaken
    BY <1>2 DEF Settled, NotGoneBackTo
  <2>3. previous \notin overtaken /\ inputs # Images!NoInputs /\ Images!OnServer(previous) => images[previous] = inputs
    BY <1>1, <1>2, <1>3 DEF Settled, RowsTruthful, Truthful
  <2>4. work.pc = "build" => InWork(Images!Row)
    BY DEF InWork, InHand
  <2> QED BY <1>4, <2>1, <2>2, <2>3, <2>4 DEF AskSound
<1> QED BY <1>1, <1>4, <1>5, <1>6, Asked

LEMMA EnqueueRedeployImages ==
  ASSUME ImagesBounds, ImagesInv, Images!EnqueueRedeploy
  PROVE  ImagesInv'
<1>1. PICK i \in DOMAIN rows :
       /\ Images!Redeployable(rows[i])
       /\ Images!Ask([rows[i] EXCEPT !.trigger = "redeploy", !.status = "queued"],
              [Images!PruneJob EXCEPT !.image = rows[i].image, !.again = TRUE, !.pin = rows[i].inputs.commit])
  BY DEF Images!EnqueueRedeploy
<1>2. UNCHANGED <<heads, saved, images, current, previous, work, overtaken, moves, upsets>>
  BY DEF Images!EnqueueRedeploy
<1>3. /\ RowsTyped /\ KnownRan /\ Settled /\ QueueSound /\ Underway
  BY DEF ImagesInv, ImagesTyped, ImagesInHand
<1> DEFINE asks == [rows[i] EXCEPT !.trigger = "redeploy", !.status = "queued"]
           it == [Images!PruneJob EXCEPT !.image = rows[i].image, !.again = TRUE, !.pin = rows[i].inputs.commit]
<1>4. rows[i] \in ImageRow /\ rows[i].image \in 0..MaxRows /\ rows[i].inputs.commit \in 0..MaxMoves + 1
  BY <1>3, RowTag DEF ImageRow, Images!Inputs
<1>5. asks \in ImageRow /\ asks.image = rows[i].image /\ asks.status = "queued" /\ asks.inputs = rows[i].inputs
  BY <1>4 DEF ImageRow
<1>6. it \in ImageJob /\ it.image = rows[i].image /\ it.again /\ ~it.exists /\ it.pin = rows[i].inputs.commit
  BY <1>4, NoInputsThere DEF ImageJob, Images!PruneJob
<1>7. Images!Ask(asks, it)
  BY <1>1
<1> HIDE DEF asks, it
<1>8. AskSound(asks)
  <2>1. rows[i].image # 0 => Ran(rows[i].image)
    BY <1>3 DEF KnownRan
  <2>2. ASSUME InWork(rows[i].image) PROVE rows[i].image \in overtaken \/ current = rows[i].image
    <3>1. CASE rows[i].image # i
      BY <1>3, <2>2, <3>1 DEF Settled, NamedSince
    <3>2. CASE rows[i].image = i
      <4>1. rows[i].status # "failed"
        BY <1>3, <2>2, <3>2 DEF QueueSound, InWork
      <4>2. rows[i].status = "succeeded"
        BY <1>1, <4>1 DEF Images!Redeployable
      <4> QED BY <1>3, <2>2, <3>2, <4>2 DEF Settled, JustRecorded
    <3> QED BY <3>1, <3>2
  <2>3. rows[i].image # 0 /\ rows[i].image \notin overtaken /\ rows[i].inputs # Images!NoInputs
          /\ Images!OnServer(rows[i].image) => images[rows[i].image] = rows[i].inputs
    BY <1>3 DEF Settled, RowsTruthful, Truthful
  <2>4. work.pc = "build" /\ rows[i].image = Images!Row /\ Images!Row \notin overtaken
          => rows[i].inputs \in {work.inputs, Images!NoInputs}
    BY <1>3 DEF Underway, BuildTruthful
  <2> QED BY <1>5, <2>1, <2>2, <2>3, <2>4 DEF AskSound
<1> QED BY <1>2, <1>5, <1>6, <1>7, <1>8, Asked

-----------------------------------------------------------------------------
(* The invariant of the images.                                              *)

LEMMA ImagesStep ==
  ASSUME ImagesBounds, ImagesInv, Images!Next
  PROVE  ImagesInv'
  BY AskForBuildImages, RollbackImages, EnqueueRedeployImages, SaveSourceImages, AskForPruneImages, PruneKeepsImages,
     TakeImages, TakeExistingImages, RepeatDeployImages, BuildBranchImages, ResolveKeepsImages, BuildSucceedsImages,
     NameImageImages, DeployFailsImages, RecordSuccessImages, ImageGoneImages, EndImages, PushToBranchImages,
     RemovedByHandImages, CrashImages
  DEF Images!Next

LEMMA ImagesStutter ==
  ASSUME ImagesInv, UNCHANGED Images!vars
  PROVE  ImagesInv'
<1>1. ImagesTyped'
  BY DEF ImagesInv, Images!vars, ImagesTyped, WorldTyped, RowsTyped, WorkTyped
<1>2. InHand' = InHand /\ DeployJobs' = DeployJobs /\ Images!Row' = Images!Row /\ \A t : Ran(t)' <=> Ran(t)
  BY DEF Images!vars, InHand, DeployJobs, Images!Row, Ran
<1>3. (\A a : InWork(a)' <=> InWork(a)) /\ \A t : Images!OnServer(t)' <=> Images!OnServer(t)
  BY <1>2 DEF Images!vars, InWork, Images!OnServer
<1>4. QueueSound' /\ CurrentThere' /\ HandSound'
  BY <1>2, <1>3 DEF ImagesInv, ImagesInHand, Images!vars, QueueSound, CurrentThere, HandSound, Images!OnServer
<1>5. KnownRan'
  BY DEF ImagesInv, ImagesInHand, Images!vars, KnownRan, Ran, Images!OnServer
<1>6. JobsSound'
  BY DEF ImagesInv, ImagesInHand, Images!vars, JobsSound, JobSound, InHand, DeployJobs, Images!OnServer
<1>7. Settled'
  BY <1>3 DEF ImagesInv, Images!vars, Settled, JustRecorded, NotGoneBackTo, NamedSince, BuiltAnew, RowsTruthful, Truthful,
     Images!OnServer
<1>8. Underway'
  BY <1>2 DEF ImagesInv, Images!vars, Underway, BuildsAnew, TakesOthers, BuildTruthful, NameTruthful, Images!OnServer
<1> QED BY <1>1, <1>4, <1>5, <1>6, <1>7, <1>8 DEF ImagesInv, ImagesInHand

LEMMA ImagesMean ==
  ASSUME ImagesBounds, ImagesInv
  PROVE  Images!BuildsTypeOK /\ Images!RowsTellTheTruth
<1>1. ImagesTyped /\ RowsTruthful
  BY DEF ImagesInv, Settled
<1>2. Images!BuildsTypeOK
  <2>1. heads \in [Repos -> 1..MaxMoves + 1] /\ saved \in [repo : Repos, vars : 0..MaxMoves]
    <3>1. moves \in 0..MaxMoves /\ heads \in [Repos -> 1..moves + 1] /\ saved \in [repo : Repos, vars : 0..moves]
      BY <1>1 DEF ImagesTyped, WorldTyped
    <3>2. 1..moves + 1 \subseteq 1..MaxMoves + 1 /\ 0..moves \subseteq 0..MaxMoves
      BY <3>1 DEF ImagesBounds
    <3> QED BY <3>1, <3>2
  <2> QED BY <1>1, <2>1 DEF ImagesTyped, WorldTyped, RowsTyped, WorkTyped, ImageWork, ImageRow, Images!BuildsTypeOK
<1>3. Images!RowsTellTheTruth
  BY <1>1 DEF RowsTruthful, Truthful, Images!RowsTellTheTruth, Images!TellsTheTruth, Images!OnServer, Images!BuildPlaceholder
<1> QED BY <1>2, <1>3

LEMMA RollbackStepHolds ==
  ASSUME ImagesBounds, ImagesInv
  PROVE  Images!RollbackStep
<1>1. /\ RowsTyped /\ WorkTyped /\ JobsSound /\ HandSound /\ work \in ImageWork
  BY DEF ImagesInv, ImagesInHand, ImagesTyped, WorkTyped
<1>2. ASSUME Images!PruneImages, NEW t \in {current, previous}, Images!OnServer(t)
      PROVE  images'[t] # Images!NoInputs /\ current' = current /\ previous' = previous
  <2>1. /\ work.pc = "prune" /\ current' = current /\ previous' = previous
        /\ images' = [k \in Images!Tags |-> IF k \in work.keep \cup {current} THEN images[k] ELSE Images!NoInputs]
    BY <1>2 DEF Images!PruneImages, Images!At
  <2>2. t # 0 /\ images[t] # Images!NoInputs
    BY <1>2 DEF Images!OnServer, Images!BuildPlaceholder
  <2>3. t \in work.keep
    BY <1>1, <1>2, <2>1, <2>2 DEF HandSound
  <2>4. t \in Images!Tags
    BY <1>1, <1>2, <2>2 DEF ImagesBounds, RowsTyped, Images!Tags
  <2> QED BY <2>1, <2>2, <2>3, <2>4
<1>3. ASSUME Images!Resolve, work.job.pin # Images!NoCommit
      PROVE  work'.inputs.commit = rows[Images!Row].inputs.commit /\ work'.inputs.repo = rows[Images!Row].inputs.repo
  <2> DEFINE inputs == [commit |-> work.job.pin, repo |-> work.source.repo, vars |-> work.source.vars]
  <2>1. work.pc = "resolve" /\ InHand
    BY <1>3 DEF Images!Resolve, Images!At, InHand
  <2>2. work'.inputs = inputs
    BY <1>1, <1>3 DEF Images!Resolve, ImageWork
  <2>3. work.job.pin = rows[Images!Row].inputs.commit /\ work.source.repo = rows[Images!Row].inputs.repo
    BY <1>1, <1>3, <2>1 DEF JobsSound, JobSound, HandSound, Images!Row, Images!NoCommit
  <2> QED BY <2>2, <2>3
<1>4. ASSUME Images!PruneImages
      PROVE  \A t \in {current, previous} : Images!OnServer(t) => Images!OnServer(t)'
  BY <1>2, <1>4 DEF Images!OnServer, Images!BuildPlaceholder
<1> QED BY <1>3, <1>4 DEF Images!RollbackStep

-----------------------------------------------------------------------------
(* The logs of deployments and the page that follows one (LiveLogs).         *)

LogsBounds ==
  MaxDeployments \in Nat /\ MaxLines \in Nat /\ MaxDrops \in Nat /\ LineCap \in Nat \ {0} /\ Keep \in Nat \ {0}

LogsTyped ==
  /\ DOMAIN deployLogs \subseteq 1..begun /\ \A d \in DOMAIN deployLogs : deployLogs[d] \in Live!Log
  /\ begun \in 0..MaxDeployments /\ deploying \in {0, begun} /\ drops \in 0..MaxDrops
  /\ written \in [Live!Deployments -> 0..MaxLines] /\ \A d \in Live!Deployments : d > begun => written[d] = 0
PageTyped ==
  /\ page \in [of : 0..MaxDeployments, skip : 0..LineCap, shown : Seq(1..MaxLines)]
  /\ link \in {"none", "drawn", "open", "lost"} /\ spoilt \in BOOLEAN /\ again \in BOOLEAN
  /\ link # "none" => page.of \in 1..begun

\* A log has a deployment's last lines; so many logs are held.
LogSound(lines, n) == /\ Len(lines) \in 1..LineCap
                      /\ \A i \in 1..Len(lines) : lines[i] = n - Len(lines) + i
LogsSound == \A d \in DOMAIN deployLogs : LogSound(deployLogs[d].lines, written[d])
LogsFew == Cardinality(DOMAIN deployLogs) <= Keep
LogInHand == deploying # 0 /\ drops = 0 /\ written[deploying] > 0 => Live!Held(deploying)

\* A page that is open shows lines up to the newest; one that was drawn shows the
\* first lines of the log that is held, and will ask for those after them.
UpToNewest(shown, n) == Live!InOrder(shown) /\ (shown # << >> => shown[Len(shown)] = n)
PageOpen ==
  link = "open" /\ ~again /\ ~spoilt =>
    UpToNewest(page.shown, written[page.of]) /\ (Live!Held(page.of) => page.shown # << >>)
Begins(shown, lines) == Len(shown) <= Len(lines) /\ \A i \in 1..Len(shown) : shown[i] = lines[i]
PageDrawn ==
  link = "drawn" /\ ~spoilt =>
    /\ page.skip = Len(page.shown)
    /\ IF Live!Held(page.of) THEN Begins(page.shown, deployLogs[page.of].lines) ELSE page.shown = << >>

LogsInv == LogsTyped /\ PageTyped /\ LogsSound /\ LogsFew /\ LogInHand /\ PageOpen /\ PageDrawn

LEMMA LogsCount == \A S : Live!Cardinality(S) = Cardinality(S)
  BY DEF Live!Cardinality, Cardinality

LEMMA LogsMean ==
  ASSUME LogsBounds, LogsInv
  PROVE  Live!LiveLogsTypeOK /\ Live!PageFollows /\ Live!LogsAreKept
<1>1. 1..begun \subseteq Live!Deployments
  BY DEF LogsInv, LogsTyped, LogsBounds, Live!Deployments
<1>2. Live!LiveLogsTypeOK
  BY <1>1 DEF LogsInv, LogsTyped, PageTyped, LogsBounds, Live!LiveLogsTypeOK
<1>3. Live!PageFollows
  BY DEF LogsInv, PageOpen, Live!PageFollows, UpToNewest, Live!Newest
<1>4. Live!LogsAreKept
  BY LogsCount DEF LogsInv, LogsFew, LogInHand, Live!LogsAreKept
<1> QED BY <1>2, <1>3, <1>4

-----------------------------------------------------------------------------
(* The sweep.                                                               *)

\* The oldest so many are as many, where there are.
OlderThan(M, x) == {e \in M : e < x}
LEMMA OldestIs == \A M, n : Live!Oldest(M, n) = {d \in M : Cardinality(OlderThan(M, d)) < n}
  BY LogsCount DEF Live!Oldest, OlderThan

LEMMA OldestEnough ==
  ASSUME NEW M, M \subseteq Nat, IsFiniteSet(M)
  PROVE  \A n \in Nat : n <= Cardinality(M) => Cardinality(Live!Oldest(M, n)) >= n
<1> DEFINE X == {n \in Nat : n <= Cardinality(M) => Cardinality(Live!Oldest(M, n)) >= n}
<1>0. /\ Cardinality(M) \in Nat
      /\ \A S \in SUBSET M : IsFiniteSet(S) /\ Cardinality(S) \in Nat
  BY FS_CardinalityType, FS_Subset
<1>1. \A n : Live!Oldest(M, n) \in SUBSET M
  BY OldestIs
<1>2. 0 \in X
  BY <1>0, <1>1
<1>3. ASSUME NEW n \in Nat, n \in X
      PROVE  n + 1 \in X
  <2> SUFFICES ASSUME n + 1 <= Cardinality(M) PROVE Cardinality(Live!Oldest(M, n + 1)) >= n + 1
    OBVIOUS
  <2> DEFINE A == Live!Oldest(M, n)
             B == Live!Oldest(M, n + 1)
  <2>1. A \in SUBSET M /\ B \in SUBSET M /\ Cardinality(A) >= n
    BY <1>0, <1>1, <1>3
  <2>2. \A e \in M : OlderThan(M, e) \in SUBSET M
    BY DEF OlderThan
  <2>3. A \subseteq B
    <3>1. \A e \in M : Cardinality(OlderThan(M, e)) \in Nat
      BY <1>0, <2>2
    <3>2. \A e \in M : Cardinality(OlderThan(M, e)) < n => Cardinality(OlderThan(M, e)) < n + 1
      BY <3>1
    <3> QED BY <3>2, OldestIs
  <2>4. CASE Cardinality(A) >= n + 1
    <3>1. Cardinality(A) <= Cardinality(B)
      BY <1>0, <2>1, <2>3, FS_Subset
    <3> QED BY <1>0, <2>1, <2>4, <3>1
  <2>5. CASE ~(Cardinality(A) >= n + 1)
    <3>1. Cardinality(A) = n
      BY <1>0, <2>1, <2>5
    <3>2. M \ A # {}
      <4>1. A # M
        BY <1>0, <3>1
      <4> QED BY <2>1, <4>1
    <3>3. M \ A \subseteq Nat
      OBVIOUS
    <3>4. PICK x \in M \ A : \A y \in M \ A : ~(y < x)
      <4> HIDE DEF A
      <4> QED BY <3>2, <3>3, LeastOf
    <3>5. OlderThan(M, x) \subseteq A
      <4> HIDE DEF A
      <4> QED BY <3>4 DEF OlderThan
    <3>6. Cardinality(OlderThan(M, x)) <= n
      BY <1>0, <2>1, <3>1, <3>5, FS_Subset
    <3>7. x \in B
      <4>1. Cardinality(OlderThan(M, x)) \in Nat
        BY <1>0, <2>2
      <4>2. Cardinality(OlderThan(M, x)) < n + 1
        BY <3>6, <4>1
      <4> QED BY <3>4, <4>2, OldestIs
    <3>8. A \cup {x} \subseteq B /\ x \notin A
      <4> HIDE DEF A, B
      <4> QED BY <2>3, <3>4, <3>7
    <3>9. Cardinality(A \cup {x}) = n + 1
      <4> HIDE DEF A
      <4>1. IsFiniteSet(A)
        BY <1>0, <2>1
      <4> QED BY <3>1, <3>8, <4>1, FS_AddElement
    <3>10. Cardinality(A \cup {x}) <= Cardinality(B)
      <4> HIDE DEF A, B
      <4> QED BY <1>0, <2>1, <3>8, FS_Subset
    <3> QED BY <1>0, <2>1, <3>9, <3>10
  <2> QED BY <2>4, <2>5
<1>4. Nat \subseteq X
  <2> HIDE DEF X
  <2> QED BY <1>2, <1>3, Counting
<1> QED BY <1>4

\* A sweep leaves room for one more.
LEMMA SweepMakesRoom ==
  ASSUME LogsBounds, LogsTyped
  PROVE  /\ Live!SweepDeployLogs \subseteq DOMAIN deployLogs
         /\ IsFiniteSet(Live!SweepDeployLogs) /\ Cardinality(Live!SweepDeployLogs) <= Keep - 1
<1> DEFINE kept == {d \in DOMAIN deployLogs : deployLogs[d].finished # "long" \/ Live!Listens(d)}
           fewer == kept \ Live!Oldest({d \in kept : deployLogs[d].finished # "no"}, Live!Over(kept))
<1>1. Live!SweepDeployLogs = fewer \ Live!Oldest(fewer, Live!Over(fewer)) /\ fewer \subseteq DOMAIN deployLogs
  BY DEF Live!SweepDeployLogs
<1> HIDE DEF fewer
<1>2. /\ begun \in Nat /\ DOMAIN deployLogs \subseteq 1..begun
  BY DEF LogsTyped, LogsBounds
<1>3. IsFiniteSet(1..begun)
  BY <1>2, FS_Interval
<1>4. IsFiniteSet(fewer) /\ fewer \subseteq Nat /\ Cardinality(fewer) \in Nat
  BY <1>1, <1>2, <1>3, FS_Subset, FS_CardinalityType
<1>5. IsFiniteSet(Live!SweepDeployLogs)
  BY <1>1, <1>4, FS_Subset
<1> DEFINE n == Live!Over(fewer)
           out == Live!Oldest(fewer, n)
<1>6. n \in Int /\ n = Cardinality(fewer) - Keep + 1
  BY <1>4, LogsCount DEF Live!Over, LogsBounds
<1>7. out \subseteq fewer
  BY OldestIs
<1> HIDE DEF n, out
<1>8. Cardinality(Live!SweepDeployLogs) = Cardinality(fewer) - Cardinality(out)
  <2>1. Live!SweepDeployLogs = fewer \ out
    BY <1>1 DEF n, out
  <2>2. fewer \cap out = out
    BY <1>7
  <2>3. Cardinality(fewer \ out) = Cardinality(fewer) - Cardinality(fewer \cap out)
    BY <1>4, FS_Difference
  <2> QED BY <2>1, <2>2, <2>3
<1>9. Cardinality(out) \in Nat
  BY <1>4, <1>7, FS_Subset, FS_CardinalityType
<1>10. CASE n <= 0
  <2>1. Cardinality(fewer) <= Keep - 1
    BY <1>4, <1>6, <1>10 DEF LogsBounds
  <2>2. Cardinality(Live!SweepDeployLogs) \in Nat
    BY <1>5, FS_CardinalityType
  <2> QED BY <1>1, <1>4, <1>5, <1>8, <1>9, <2>1, <2>2 DEF LogsBounds
<1>11. CASE n > 0
  <2>1. n \in Nat /\ n <= Cardinality(fewer)
    BY <1>4, <1>6, <1>11 DEF LogsBounds
  <2>2. Cardinality(out) >= n
    BY <1>4, <2>1, OldestEnough DEF out
  <2> QED BY <1>1, <1>4, <1>5, <1>6, <1>8, <1>9, <2>2 DEF LogsBounds
<1> QED BY <1>6, <1>10, <1>11

-----------------------------------------------------------------------------
(* A line.                                                                  *)

\* The lines of a log with one more, and with one less at its head.
LEMMA CappedSound ==
  ASSUME LogsBounds, NEW line \in 1..MaxLines, NEW lines \in Seq(1..MaxLines), Len(lines) <= LineCap,
         \A i \in 1..Len(lines) : lines[i] = (line - 1) - Len(lines) + i
  PROVE  /\ Live!Capped(Append(lines, line)) \in Seq(1..MaxLines)
         /\ Len(Live!Capped(Append(lines, line))) \in 1..LineCap
         /\ \A i \in 1..Len(Live!Capped(Append(lines, line))) :
              Live!Capped(Append(lines, line))[i] = line - Len(Live!Capped(Append(lines, line))) + i
         /\ Live!Capped(Append(lines, line)) = Append(lines, line) \/ Len(lines) = LineCap
<1> DEFINE more == Append(lines, line)
<1>1. more \in Seq(1..MaxLines) /\ Len(more) = Len(lines) + 1 /\ Len(lines) \in Nat
      /\ \A i \in 1..Len(more) : more[i] = line - Len(more) + i
  <2>1. more \in Seq(1..MaxLines) /\ Len(more) = Len(lines) + 1 /\ Len(lines) \in Nat
    OBVIOUS
  <2>2. ASSUME NEW i \in 1..Len(lines) + 1
        PROVE  more[i] = line - (Len(lines) + 1) + i
    <3>1. CASE i = Len(lines) + 1
      BY <2>1, <3>1 DEF LogsBounds
    <3>2. CASE i # Len(lines) + 1
      <4>1. i \in 1..Len(lines)
        BY <2>1, <3>2
      <4>2. more[i] = lines[i]
        BY <4>1
      <4> QED BY <2>1, <4>1, <4>2 DEF LogsBounds
    <3> QED BY <3>1, <3>2
  <2> QED BY <2>1, <2>2
<1> HIDE DEF more
<1>2. CASE Len(more) <= LineCap
  <2>1. Live!Capped(more) = more
    BY <1>1, <1>2 DEF Live!Capped, LogsBounds
  <2> QED BY <1>1, <1>2, <2>1 DEF more, LogsBounds
<1>3. CASE ~(Len(more) <= LineCap)
  <2>1. Len(lines) = LineCap
    BY <1>1, <1>3 DEF LogsBounds
  <2>2. Live!Capped(more) = Tail(more) /\ more # << >>
    BY <1>1, <1>3 DEF Live!Capped, LogsBounds
  <2>3. /\ Tail(more) \in Seq(1..MaxLines) /\ Len(Tail(more)) = Len(more) - 1
        /\ \A i \in 1..Len(Tail(more)) : Tail(more)[i] = more[i + 1]
    BY <1>1, <2>2, HeadTailProperties
  <2>4. \A i \in 1..Len(Tail(more)) : Tail(more)[i] = line - Len(Tail(more)) + i
    <3>1. ASSUME NEW i \in 1..Len(Tail(more))
          PROVE  Tail(more)[i] = line - Len(Tail(more)) + i
      <4>1. i + 1 \in 1..Len(more) /\ Tail(more)[i] = more[i + 1] /\ i \in Int /\ line \in Int
            /\ Len(more) \in Int
        BY <1>1, <2>3 DEF LogsBounds
      <4>2. more[i + 1] = line - Len(more) + (i + 1)
        BY <1>1, <4>1
      <4> QED BY <2>3, <4>1, <4>2
    <3> QED BY <3>1
  <2>5. Live!Capped(more) \in Seq(1..MaxLines) /\ Len(Live!Capped(more)) = LineCap
    BY <1>1, <2>1, <2>2, <2>3 DEF LogsBounds
  <2>6. LineCap \in 1..LineCap
    BY DEF LogsBounds
  <2> QED BY <2>1, <2>2, <2>4, <2>5, <2>6 DEF more
<1> QED BY <1>2, <1>3

LEMMA AppendInOrder ==
  ASSUME LogsBounds, NEW shown \in Seq(1..MaxLines), NEW line \in 1..MaxLines, Live!InOrder(shown),
         shown # << >> => shown[Len(shown)] = line - 1
  PROVE  /\ Append(shown, line) \in Seq(1..MaxLines) /\ Live!InOrder(Append(shown, line))
         /\ Append(shown, line) # << >> /\ Append(shown, line)[Len(Append(shown, line))] = line
<1>1. /\ Append(shown, line) \in Seq(1..MaxLines) /\ Len(Append(shown, line)) = Len(shown) + 1
      /\ Len(shown) \in Nat /\ Append(shown, line)[Len(shown) + 1] = line
      /\ \A i \in 1..Len(shown) : Append(shown, line)[i] = shown[i]
  OBVIOUS
<1>2. ASSUME NEW i \in 1..Len(shown)
      PROVE  Append(shown, line)[i + 1] = Append(shown, line)[i] + 1
  <2>1. CASE i = Len(shown)
    <3>1. shown # << >>
      BY <1>1, <2>1
    <3> QED BY <1>1, <2>1, <3>1 DEF LogsBounds
  <2>2. CASE i # Len(shown)
    <3>1. i \in 1..Len(shown) - 1 /\ i + 1 \in 1..Len(shown)
      BY <1>1, <2>2
    <3>2. shown[i + 1] = shown[i] + 1
      BY <3>1 DEF Live!InOrder
    <3> QED BY <1>1, <3>1, <3>2
  <2> QED BY <2>1, <2>2
<1>3. Live!InOrder(Append(shown, line))
  BY <1>1, <1>2 DEF Live!InOrder
<1>4. Append(shown, line) # << >>
  <2>1. Len(<< >>) = 0
    OBVIOUS
  <2>2. Len(Append(shown, line)) # 0
    BY <1>1
  <2>3. ASSUME Append(shown, line) = << >>
        PROVE  FALSE
    <3>1. Len(Append(shown, line)) = Len(<< >>)
      BY <2>3
    <3> QED BY <2>1, <2>2, <3>1
  <2> QED BY <2>3
<1> QED BY <1>1, <1>3, <1>4

\* What a published line makes of the logs.
NextLine == written[deploying] + 1
StayingLogs == IF Live!Held(deploying) THEN DOMAIN deployLogs ELSE Live!SweepDeployLogs
LogNow == IF Live!Held(deploying) THEN deployLogs[deploying] ELSE [lines |-> << >>, finished |-> "no"]

MissedNow ==
  \/ link = "drawn" /\ page.of = deploying /\ Append(LogNow.lines, NextLine) # Live!Capped(Append(LogNow.lines, NextLine))
  \/ link = "drawn" /\ page.of # deploying /\ Live!Held(page.of) /\ page.of \notin StayingLogs

LEMMA PublishIs ==
  ASSUME LogsBounds, LogsInv, Live!PublishDeployLog
  PROVE  /\ NextLine \in 1..MaxLines /\ LogNow \in Live!Log /\ NextLine = written[deploying] + 1
         /\ written' = [written EXCEPT ![deploying] = NextLine]
         /\ deploying = begun /\ begun \in 1..MaxDeployments /\ StayingLogs \subseteq DOMAIN deployLogs
         /\ Live!Held(deploying) => StayingLogs = DOMAIN deployLogs /\ LogNow = deployLogs[deploying]
         /\ ~Live!Held(deploying) => /\ IsFiniteSet(StayingLogs) /\ Cardinality(StayingLogs) <= Keep - 1
                                /\ LogNow = [lines |-> << >>, finished |-> "no"]
         /\ Len(LogNow.lines) <= LineCap
         /\ \A i \in 1..Len(LogNow.lines) : LogNow.lines[i] = written[deploying] - Len(LogNow.lines) + i
         /\ deployLogs' = [d \in StayingLogs \cup {deploying} |->
                             IF d = deploying THEN [LogNow EXCEPT !.lines = Live!Capped(Append(LogNow.lines, NextLine))]
                             ELSE deployLogs[d]]
         /\ page' = IF Live!Listens(deploying) THEN [page EXCEPT !.shown = Append(@, NextLine)] ELSE page
         /\ spoilt' = (spoilt \/ MissedNow)
         /\ UNCHANGED <<deploying, begun, link, again, drops>>
<1>1. deploying = begun /\ begun \in 1..MaxDeployments /\ NextLine \in 1..MaxLines
  BY DEF LogsInv, LogsTyped, LogsBounds, Live!PublishDeployLog, Live!Deployments, NextLine
<1>2. LogNow \in Live!Log
  <2>1. [lines |-> << >>, finished |-> "no"] \in Live!Log
    BY DEF Live!Log
  <2> QED BY <2>1 DEF LogsInv, LogsTyped, Live!Held, LogNow
<1>3. StayingLogs \subseteq DOMAIN deployLogs
      /\ (~Live!Held(deploying) => IsFiniteSet(StayingLogs) /\ Cardinality(StayingLogs) <= Keep - 1)
  <2>1. LogsTyped
    BY DEF LogsInv
  <2> QED BY <2>1, SweepMakesRoom DEF StayingLogs
<1>4. /\ Len(LogNow.lines) <= LineCap
      /\ \A i \in 1..Len(LogNow.lines) : LogNow.lines[i] = written[deploying] - Len(LogNow.lines) + i
  <2>1. CASE Live!Held(deploying)
    BY <2>1 DEF LogsInv, LogsSound, LogSound, Live!Held, LogsBounds, LogNow
  <2>2. CASE ~Live!Held(deploying)
    <3>1. Len(LogNow.lines) = 0
      BY <2>2 DEF LogNow
    <3> QED BY <3>1 DEF LogsBounds
  <2> QED BY <2>1, <2>2
<1>5. /\ written' = [written EXCEPT ![deploying] = NextLine]
      /\ deployLogs' = [d \in StayingLogs \cup {deploying} |->
                          IF d = deploying THEN [LogNow EXCEPT !.lines = Live!Capped(Append(LogNow.lines, NextLine))]
                          ELSE deployLogs[d]]
      /\ page' = (IF Live!Listens(deploying) THEN [page EXCEPT !.shown = Append(@, NextLine)] ELSE page)
  BY DEF Live!PublishDeployLog, StayingLogs, LogNow, NextLine
<1>6. /\ spoilt' = (spoilt \/ MissedNow)
      /\ UNCHANGED <<deploying, begun, link, again, drops>>
  BY DEF Live!PublishDeployLog, StayingLogs, LogNow, NextLine, MissedNow
<1>7. Live!Held(deploying) => StayingLogs = DOMAIN deployLogs /\ LogNow = deployLogs[deploying]
  BY DEF StayingLogs, LogNow
<1>8. ~Live!Held(deploying) => LogNow = [lines |-> << >>, finished |-> "no"]
  BY DEF LogNow
<1>9. NextLine = written[deploying] + 1
  BY DEF NextLine
<1> QED BY <1>1, <1>2, <1>3, <1>4, <1>5, <1>6, <1>7, <1>8, <1>9

LEMMA PublishLogs ==
  ASSUME LogsBounds, LogsInv, Live!PublishDeployLog
  PROVE  LogsInv'
<1>1. /\ NextLine \in 1..MaxLines /\ LogNow \in Live!Log /\ NextLine = written[deploying] + 1
      /\ written' = [written EXCEPT ![deploying] = NextLine]
      /\ deploying = begun /\ begun \in 1..MaxDeployments /\ StayingLogs \subseteq DOMAIN deployLogs
      /\ Live!Held(deploying) => StayingLogs = DOMAIN deployLogs /\ LogNow = deployLogs[deploying]
      /\ ~Live!Held(deploying) => /\ IsFiniteSet(StayingLogs) /\ Cardinality(StayingLogs) <= Keep - 1
                             /\ LogNow = [lines |-> << >>, finished |-> "no"]
      /\ Len(LogNow.lines) <= LineCap
      /\ \A i \in 1..Len(LogNow.lines) : LogNow.lines[i] = written[deploying] - Len(LogNow.lines) + i
      /\ deployLogs' = [d \in StayingLogs \cup {deploying} |->
                          IF d = deploying THEN [LogNow EXCEPT !.lines = Live!Capped(Append(LogNow.lines, NextLine))]
                          ELSE deployLogs[d]]
      /\ page' = IF Live!Listens(deploying) THEN [page EXCEPT !.shown = Append(@, NextLine)] ELSE page
      /\ spoilt' = (spoilt \/ MissedNow)
      /\ UNCHANGED <<deploying, begun, link, again, drops>>
  BY PublishIs
<1> DEFINE lines == Live!Capped(Append(LogNow.lines, NextLine))
<1>2. /\ LogNow.lines \in Seq(1..MaxLines) /\ written \in [Live!Deployments -> 0..MaxLines] /\ deploying \in Live!Deployments
      /\ written[deploying] = NextLine - 1 /\ 1..begun \subseteq Live!Deployments
  <2>1. LogNow.lines \in Seq(1..MaxLines)
    BY <1>1 DEF Live!Log
  <2>2. written \in [Live!Deployments -> 0..MaxLines] /\ begun \in 0..MaxDeployments
    BY DEF LogsInv, LogsTyped
  <2>3. deploying \in Live!Deployments /\ 1..begun \subseteq Live!Deployments
    BY <1>1, <2>2 DEF Live!Deployments, LogsBounds
  <2>4. written[deploying] = NextLine - 1
    BY <1>1, <2>2, <2>3 DEF LogsBounds
  <2> QED BY <2>1, <2>2, <2>3, <2>4
<1>3. /\ lines \in Seq(1..MaxLines) /\ Len(lines) \in 1..LineCap
      /\ \A i \in 1..Len(lines) : lines[i] = NextLine - Len(lines) + i
      /\ lines = Append(LogNow.lines, NextLine) \/ Len(LogNow.lines) = LineCap
  <2>1. LogNow.lines \in Seq(1..MaxLines) /\ NextLine \in 1..MaxLines /\ Len(LogNow.lines) <= LineCap
        /\ \A i \in 1..Len(LogNow.lines) : LogNow.lines[i] = (NextLine - 1) - Len(LogNow.lines) + i
    BY <1>1, <1>2
  <2> QED BY <2>1, CappedSound
<1> HIDE DEF lines
<1>4. /\ written' \in [Live!Deployments -> 0..MaxLines] /\ written'[deploying] = NextLine
      /\ \A d \in Live!Deployments \ {deploying} : written'[d] = written[d]
  BY <1>1, <1>2 DEF LogsBounds
<1>5. /\ DOMAIN deployLogs' = StayingLogs \cup {deploying} /\ deployLogs'[deploying] \in Live!Log
      /\ deployLogs'[deploying].lines = lines /\ \A d \in StayingLogs \ {deploying} : deployLogs'[d] = deployLogs[d]
  <2>1. [LogNow EXCEPT !.lines = lines] \in Live!Log /\ [LogNow EXCEPT !.lines = lines].lines = lines
    BY <1>1, <1>3 DEF Live!Log
  <2> QED BY <1>1, <2>1 DEF lines
<1>6. LogsTyped'
  BY <1>1, <1>2, <1>4, <1>5 DEF LogsInv, LogsTyped, Live!Deployments
<1>7. LogsSound'
  <2>1. ASSUME NEW d \in DOMAIN deployLogs'
        PROVE  LogSound(deployLogs'[d].lines, written'[d])
    <3>1. CASE d = deploying
      BY <1>3, <1>4, <1>5, <3>1 DEF LogSound
    <3>2. CASE d # deploying
      <4>1. d \in DOMAIN deployLogs /\ d \in Live!Deployments /\ deployLogs'[d] = deployLogs[d] /\ written'[d] = written[d]
        BY <1>1, <1>2, <1>4, <1>5, <3>2 DEF LogsInv, LogsTyped
      <4> QED BY <4>1 DEF LogsInv, LogsSound, LogSound
    <3> QED BY <3>1, <3>2
  <2> QED BY <2>1 DEF LogsSound
<1>8. LogsFew'
  <2>1. CASE Live!Held(deploying)
    <3>1. DOMAIN deployLogs' = DOMAIN deployLogs
      BY <1>1, <1>5, <2>1 DEF Live!Held
    <3> QED BY <3>1 DEF LogsInv, LogsFew
  <2>2. CASE ~Live!Held(deploying)
    <3>1. IsFiniteSet(StayingLogs) /\ Cardinality(StayingLogs) <= Keep - 1 /\ Cardinality(StayingLogs) \in Nat
      BY <1>1, <2>2, FS_CardinalityType
    <3>2. Cardinality(StayingLogs \cup {deploying}) <= Cardinality(StayingLogs) + 1
      BY <3>1, FS_AddElement
    <3>3. Cardinality(StayingLogs \cup {deploying}) \in Nat
      BY <3>1, FS_AddElement, FS_CardinalityType
    <3> QED BY <1>5, <3>1, <3>2, <3>3 DEF LogsFew, LogsBounds
  <2> QED BY <2>1, <2>2
<1>9. LogInHand'
  BY <1>1, <1>5 DEF LogInHand, Live!Held
<1>10. page \in [of : 0..MaxDeployments, skip : 0..LineCap, shown : Seq(1..MaxLines)]
  BY DEF LogsInv, PageTyped
<1>11. CASE Live!Listens(deploying)
  <2>1. /\ link = "open" /\ page.of = deploying
        /\ page' = [page EXCEPT !.shown = Append(page.shown, NextLine)] /\ Append(page.shown, NextLine) \in Seq(1..MaxLines)
    BY <1>1, <1>10, <1>11 DEF Live!Listens
  <2>2. /\ page' \in [of : 0..MaxDeployments, skip : 0..LineCap, shown : Seq(1..MaxLines)]
        /\ page'.of = page.of /\ page'.shown = Append(page.shown, NextLine)
    BY <1>10, <2>1
  <2>3. PageTyped'
    BY <1>1, <1>11, <2>1, <2>2 DEF LogsInv, PageTyped
  <2>4. PageDrawn'
    BY <1>1, <2>1 DEF PageDrawn
  <2>5. PageOpen'
    <3>1. ASSUME ~again', ~spoilt'
          PROVE  UpToNewest(page'.shown, written'[page'.of]) /\ page'.shown # << >>
      <4>1. UpToNewest(page.shown, written[page.of])
        BY <1>1, <2>1, <3>1 DEF LogsInv, PageOpen
      <4>2. page.shown \in Seq(1..MaxLines)
        BY <1>10
      <4>3. /\ Live!InOrder(Append(page.shown, NextLine)) /\ Append(page.shown, NextLine) # << >>
            /\ Append(page.shown, NextLine)[Len(Append(page.shown, NextLine))] = NextLine
        BY <1>2, <2>1, <4>1, <4>2, AppendInOrder DEF UpToNewest
      <4> QED BY <1>4, <2>1, <2>2, <4>3 DEF UpToNewest, Live!InOrder
    <3> QED BY <3>1 DEF PageOpen
  <2> QED BY <1>6, <1>7, <1>8, <1>9, <2>3, <2>4, <2>5 DEF LogsInv
<1>12. CASE ~Live!Listens(deploying)
  <2>1. page' = page /\ link' = link /\ again' = again
    BY <1>1, <1>12
  <2>2. spoilt' \in BOOLEAN /\ (~spoilt' => ~spoilt)
    BY <1>1 DEF LogsInv, PageTyped
  <2>3. PageTyped'
    BY <1>1, <2>1, <2>2 DEF LogsInv, PageTyped
  <2>4. PageOpen'
    <3>1. ASSUME link = "open", ~again, ~spoilt
          PROVE  UpToNewest(page.shown, written'[page.of]) /\ (Live!Held(page.of)' => page.shown # << >>)
      <4>1. page.of # deploying /\ page.of \in Live!Deployments
        BY <1>2, <1>12, <3>1 DEF Live!Listens, LogsInv, PageTyped
      <4>2. written'[page.of] = written[page.of] /\ (Live!Held(page.of)' => Live!Held(page.of))
        BY <1>1, <1>4, <1>5, <2>1, <4>1 DEF Live!Held
      <4> QED BY <2>1, <3>1, <4>2 DEF LogsInv, PageOpen, UpToNewest, Live!InOrder
    <3> QED BY <2>1, <2>2, <3>1 DEF PageOpen
  <2>5. PageDrawn'
    <3>1. ASSUME link = "drawn", ~spoilt'
          PROVE  /\ page.skip = Len(page.shown)
                 /\ IF page.of \in DOMAIN deployLogs'
                    THEN Begins(page.shown, deployLogs'[page.of].lines) ELSE page.shown = << >>
      <4>1. /\ page.skip = Len(page.shown)
            /\ IF Live!Held(page.of) THEN Begins(page.shown, deployLogs[page.of].lines) ELSE page.shown = << >>
        BY <2>2, <3>1 DEF LogsInv, PageDrawn
      <4>2. CASE page.of = deploying
        <5>1. lines = Append(LogNow.lines, NextLine)
          BY <1>1, <3>1, <4>2 DEF lines, MissedNow
        <5>2. Begins(page.shown, LogNow.lines)
          <6>1. CASE Live!Held(page.of)
            BY <1>1, <4>1, <4>2, <6>1
          <6>2. CASE ~Live!Held(page.of)
            <7>1. Len(page.shown) = 0 /\ Len(LogNow.lines) \in Nat
              BY <1>2, <4>1, <6>2
            <7> QED BY <7>1 DEF Begins
          <6> QED BY <6>1, <6>2
        <5>3. Begins(page.shown, Append(LogNow.lines, NextLine))
          <6>1. page.shown \in Seq(1..MaxLines) /\ Len(page.shown) \in Nat
            BY <1>10
          <6>2. /\ Len(Append(LogNow.lines, NextLine)) = Len(LogNow.lines) + 1 /\ Len(LogNow.lines) \in Nat
                /\ \A i \in 1..Len(LogNow.lines) : Append(LogNow.lines, NextLine)[i] = LogNow.lines[i]
            BY <1>2
          <6> QED BY <5>2, <6>1, <6>2 DEF Begins
        <5> QED BY <1>5, <4>1, <4>2, <5>1, <5>3
      <4>3. CASE page.of # deploying
        <5>1. Live!Held(page.of) <=> page.of \in DOMAIN deployLogs'
          BY <1>1, <1>5, <3>1, <4>3 DEF Live!Held, MissedNow
        <5>2. page.of \in DOMAIN deployLogs' => deployLogs'[page.of] = deployLogs[page.of]
          BY <1>5, <4>3
        <5> QED BY <4>1, <5>1, <5>2
      <4> QED BY <4>2, <4>3
    <3> QED BY <2>1, <3>1 DEF PageDrawn, Live!Held, Begins
  <2> QED BY <1>6, <1>7, <1>8, <1>9, <2>3, <2>4, <2>5 DEF LogsInv
<1> QED BY <1>11, <1>12

-----------------------------------------------------------------------------
(* The other steps.                                                         *)

LEMMA StartLogs ==
  ASSUME LogsBounds, LogsInv, Live!StartDeploy
  PROVE  LogsInv'
<1>1. /\ begun \in Nat /\ begun' = begun + 1 /\ begun' \in 0..MaxDeployments /\ deploying' = begun'
      /\ UNCHANGED <<deployLogs, written, page, link, spoilt, again, drops>> /\ 1..begun \subseteq 1..begun'
      /\ begun' \in Live!Deployments
  BY DEF Live!StartDeploy, LogsInv, LogsTyped, LogsBounds, Live!Deployments
<1>2. written[begun'] = 0
  BY <1>1 DEF LogsInv, LogsTyped
<1>3. LogsTyped'
  BY <1>1 DEF LogsInv, LogsTyped, Live!Deployments
<1>4. PageTyped'
  BY <1>1 DEF LogsInv, PageTyped
<1>5. LogInHand'
  BY <1>1, <1>2 DEF LogInHand
<1>6. LogsSound' /\ LogsFew' /\ PageOpen' /\ PageDrawn'
  BY <1>1 DEF LogsInv, LogsSound, LogSound, LogsFew, PageOpen, UpToNewest, Live!InOrder, PageDrawn, Begins, Live!Held
<1> QED BY <1>3, <1>4, <1>5, <1>6 DEF LogsInv

\* A log's mark changes, its lines do not.
LEMMA MarkedLogs ==
  ASSUME LogsInv, DOMAIN deployLogs' = DOMAIN deployLogs, \A d \in DOMAIN deployLogs : deployLogs'[d] \in Live!Log,
         \A d \in DOMAIN deployLogs : deployLogs'[d].lines = deployLogs[d].lines,
         UNCHANGED <<begun, written, page, link, spoilt, again, drops>>,
         deploying' \in {0, deploying}
  PROVE  LogsInv'
<1>1. LogsTyped'
  BY DEF LogsInv, LogsTyped
<1>2. PageTyped'
  BY DEF LogsInv, PageTyped
<1>3. LogsSound' /\ LogsFew' /\ LogInHand'
  BY DEF LogsInv, LogsSound, LogSound, LogsFew, LogInHand, Live!Held
<1>4. PageOpen' /\ PageDrawn'
  BY DEF LogsInv, PageOpen, UpToNewest, Live!InOrder, PageDrawn, Begins, Live!Held
<1> QED BY <1>1, <1>2, <1>3, <1>4 DEF LogsInv

LEMMA MarkLogs ==
  ASSUME LogsInv, Live!MarkDeployLogFinished
  PROVE  LogsInv'
<1>1. deploying' = 0 /\ UNCHANGED <<begun, written, page, link, spoilt, again, drops>>
  BY DEF Live!MarkDeployLogFinished
<1>2. \A d \in DOMAIN deployLogs : deployLogs[d] \in Live!Log
  BY DEF LogsInv, LogsTyped
<1>3. CASE Live!Held(deploying)
  <2> DEFINE mark == IF deployLogs[deploying].finished = "no" THEN "lately" ELSE deployLogs[deploying].finished
  <2>1. deployLogs' = [deployLogs EXCEPT ![deploying] = [@ EXCEPT !.finished = mark]]
    BY <1>3 DEF Live!MarkDeployLogFinished
  <2>2. deployLogs[deploying] \in Live!Log /\ mark \in {"no", "lately", "long"}
    BY <1>2, <1>3 DEF Live!Held, Live!Log
  <2> HIDE DEF mark
  <2>3. /\ [deployLogs[deploying] EXCEPT !.finished = mark] \in Live!Log
        /\ [deployLogs[deploying] EXCEPT !.finished = mark].lines = deployLogs[deploying].lines
    BY <2>2 DEF Live!Log
  <2>4. DOMAIN deployLogs' = DOMAIN deployLogs /\ \A d \in DOMAIN deployLogs :
          deployLogs'[d] = IF d = deploying THEN [deployLogs[deploying] EXCEPT !.finished = mark] ELSE deployLogs[d]
    BY <2>1
  <2>5. \A d \in DOMAIN deployLogs : deployLogs'[d] \in Live!Log /\ deployLogs'[d].lines = deployLogs[d].lines
    BY <1>2, <2>3, <2>4
  <2> QED BY <1>1, <2>4, <2>5, MarkedLogs
<1>4. CASE ~Live!Held(deploying)
  <2>1. deployLogs' = deployLogs
    BY <1>4 DEF Live!MarkDeployLogFinished
  <2> QED BY <1>1, <1>2, <2>1, MarkedLogs
<1> QED BY <1>3, <1>4

LEMMA TtlLogs ==
  ASSUME LogsInv, Live!TtlPasses
  PROVE  LogsInv'
<1>1. PICK d \in DOMAIN deployLogs : deployLogs' = [deployLogs EXCEPT ![d] = [@ EXCEPT !.finished = "long"]]
  BY DEF Live!TtlPasses
<1>2. UNCHANGED <<deploying, begun, written, page, link, spoilt, again, drops>>
  BY DEF Live!TtlPasses
<1>3. \A e \in DOMAIN deployLogs : deployLogs[e] \in Live!Log
  BY DEF LogsInv, LogsTyped
<1>4. /\ [deployLogs[d] EXCEPT !.finished = "long"] \in Live!Log
      /\ [deployLogs[d] EXCEPT !.finished = "long"].lines = deployLogs[d].lines
  BY <1>3 DEF Live!Log
<1>5. DOMAIN deployLogs' = DOMAIN deployLogs /\ \A e \in DOMAIN deployLogs :
        deployLogs'[e] = IF e = d THEN [deployLogs[d] EXCEPT !.finished = "long"] ELSE deployLogs[e]
  BY <1>1
<1>6. \A e \in DOMAIN deployLogs : deployLogs'[e] \in Live!Log /\ deployLogs'[e].lines = deployLogs[e].lines
  BY <1>3, <1>4, <1>5
<1> QED BY <1>2, <1>5, <1>6, MarkedLogs

\* What is held of a deployment.
LEMMA TailIs ==
  ASSUME LogsBounds, LogsInv, NEW d
  PROVE  /\ Live!DeployLogTail(d) \in Seq(1..MaxLines) /\ Len(Live!DeployLogTail(d)) \in 0..LineCap
         /\ Live!Held(d) => /\ Live!DeployLogTail(d) = deployLogs[d].lines /\ Live!DeployLogTail(d) # << >>
                       /\ Live!InOrder(Live!DeployLogTail(d)) /\ Live!DeployLogTail(d)[Len(Live!DeployLogTail(d))] = written[d]
         /\ ~Live!Held(d) => Live!DeployLogTail(d) = << >>
<1>1. CASE Live!Held(d)
  <2> DEFINE lines == deployLogs[d].lines
  <2>1. Live!DeployLogTail(d) = lines
    BY <1>1 DEF Live!DeployLogTail
  <2>2. lines \in Seq(1..MaxLines) /\ Len(lines) \in 1..LineCap /\ d \in Live!Deployments
        /\ written[d] \in 0..MaxLines
        /\ \A i \in 1..Len(lines) : lines[i] = written[d] - Len(lines) + i
    BY <1>1 DEF LogsInv, LogsTyped, LogsSound, LogSound, Live!Held, Live!Log, Live!Deployments, LogsBounds
  <2> HIDE DEF lines
  <2>3. Live!InOrder(lines)
    <3>1. ASSUME NEW i \in 1..Len(lines) - 1
          PROVE  lines[i + 1] = lines[i] + 1
      <4>1. i \in 1..Len(lines) /\ i + 1 \in 1..Len(lines) /\ Len(lines) \in Int /\ written[d] \in Int
        BY <2>2 DEF LogsBounds
      <4>2. lines[i] = written[d] - Len(lines) + i /\ lines[i + 1] = written[d] - Len(lines) + (i + 1)
        BY <2>2, <4>1
      <4> QED BY <4>1, <4>2
    <3> QED BY <3>1 DEF Live!InOrder
  <2>4. lines # << >> /\ lines[Len(lines)] = written[d]
    BY <2>2 DEF LogsBounds
  <2> QED BY <1>1, <2>1, <2>2, <2>3, <2>4 DEF lines, LogsBounds
<1>2. CASE ~Live!Held(d)
  BY <1>2 DEF Live!DeployLogTail, LogsBounds
<1> QED BY <1>1, <1>2

LEMMA DrawLogs ==
  ASSUME LogsBounds, LogsInv, Live!DrawPage
  PROVE  LogsInv'
<1>1. PICK d \in 1..begun : page' = [of |-> d, skip |-> Len(Live!DeployLogTail(d)), shown |-> Live!DeployLogTail(d)]
  BY DEF Live!DrawPage
<1>2. link' = "drawn" /\ UNCHANGED <<deployLogs, deploying, begun, written, spoilt, again, drops>>
  BY DEF Live!DrawPage
<1>3. d \in 0..MaxDeployments
  BY DEF LogsInv, LogsTyped, LogsBounds
<1>4. LogsTyped' /\ LogsSound' /\ LogsFew' /\ LogInHand'
  BY <1>2 DEF LogsInv, LogsTyped, LogsSound, LogSound, LogsFew, LogInHand, Live!Held
<1>5. PageTyped'
  BY <1>1, <1>2, <1>3, TailIs DEF LogsInv, PageTyped
<1>6. PageDrawn'
  <2>1. page'.of = d /\ page'.skip = Len(Live!DeployLogTail(d)) /\ page'.shown = Live!DeployLogTail(d)
    BY <1>1
  <2>2. Live!Held(d) => Begins(Live!DeployLogTail(d), deployLogs[d].lines)
    BY TailIs DEF Begins, LogsBounds
  <2>3. ~Live!Held(d) => Live!DeployLogTail(d) = << >>
    BY TailIs
  <2> QED BY <1>2, <2>1, <2>2, <2>3 DEF PageDrawn, Live!Held, Begins
<1>7. PageOpen'
  BY <1>2 DEF PageOpen
<1> QED BY <1>4, <1>5, <1>6, <1>7 DEF LogsInv

\* A sequence's first lines with those after them.
LEMMA Rejoined ==
  ASSUME NEW S, NEW lines \in Seq(S), NEW shown \in Seq(S), Begins(shown, lines)
  PROVE  shown \o SubSeq(lines, Len(shown) + 1, Len(lines)) = lines
<1> DEFINE rest == SubSeq(lines, Len(shown) + 1, Len(lines))
<1>1. Len(shown) \in Nat /\ Len(lines) \in Nat /\ Len(shown) <= Len(lines)
  BY DEF Begins
<1>2. rest \in Seq(S) /\ Len(rest) = Len(lines) - Len(shown)
      /\ \A i \in 1..Len(rest) : rest[i] = lines[Len(shown) + i]
  <2>1. Len(shown) + 1 \in Int /\ Len(lines) \in Int /\ \A i \in Len(shown) + 1..Len(lines) : lines[i] \in S
    BY <1>1
  <2> QED BY <1>1, <2>1, SubSeqProperties
<1> HIDE DEF rest
<1>3. shown \o rest \in Seq(S) /\ Len(shown \o rest) = Len(lines)
      /\ \A i \in 1..Len(shown \o rest) :
           (shown \o rest)[i] = IF i <= Len(shown) THEN shown[i] ELSE rest[i - Len(shown)]
  BY <1>1, <1>2, ConcatProperties
<1>4. \A i \in 1..Len(lines) : (shown \o rest)[i] = lines[i]
  <2>1. ASSUME NEW i \in 1..Len(lines)
        PROVE  (shown \o rest)[i] = lines[i]
    <3>1. CASE i <= Len(shown)
      BY <1>1, <1>3, <3>1 DEF Begins
    <3>2. CASE ~(i <= Len(shown))
      <4>1. i - Len(shown) \in 1..Len(rest) /\ Len(shown) + (i - Len(shown)) = i
        BY <1>1, <1>2, <3>2
      <4>2. rest[i - Len(shown)] = lines[i]
        BY <1>2, <4>1
      <4> QED BY <1>3, <3>2, <4>2
    <3> QED BY <3>1, <3>2
  <2> QED BY <2>1
<1>5. shown \o rest = lines
  BY <1>3, <1>4, SeqEqual
<1> QED BY <1>5 DEF rest

LEMMA ConnectPageLogs ==
  ASSUME LogsBounds, LogsInv, Live!ConnectLogs
  PROVE  LogsInv'
<1> DEFINE d == page.of
           lines == Live!DeployLogTail(d)
           shown == page.shown \o SubSeq(lines, page.skip + 1, Len(lines))
<1>1. /\ link \in {"drawn", "lost"} /\ page' = [page EXCEPT !.shown = shown] /\ link' = "open"
      /\ again' = (again \/ link = "lost") /\ UNCHANGED <<deployLogs, deploying, begun, written, spoilt, drops>>
  BY DEF Live!ConnectLogs
<1>2. /\ page \in [of : 0..MaxDeployments, skip : 0..LineCap, shown : Seq(1..MaxLines)]
      /\ page.shown \in Seq(1..MaxLines) /\ page.skip \in Nat
  BY DEF LogsInv, PageTyped, LogsBounds
<1>3. lines \in Seq(1..MaxLines) /\ Len(lines) \in Nat
  BY TailIs DEF LogsBounds
<1>4. shown \in Seq(1..MaxLines)
  <2>1. SubSeq(lines, page.skip + 1, Len(lines)) \in Seq(1..MaxLines)
    <3> HIDE DEF lines
    <3>1. ASSUME NEW i \in page.skip + 1..Len(lines)
          PROVE  lines[i] \in 1..MaxLines
      <4>1. i \in 1..Len(lines)
        BY <1>2, <1>3
      <4>2. \A k \in 1..Len(lines) : lines[k] \in 1..MaxLines
        BY <1>3, ElementOfSeq
      <4> QED BY <4>1, <4>2
    <3> QED BY <1>2, <1>3, <3>1, SubSeqProperties
  <2> HIDE DEF lines
  <2> QED BY <1>2, <2>1, ConcatProperties
<1>5. LogsTyped' /\ LogsSound' /\ LogsFew' /\ LogInHand'
  BY <1>1 DEF LogsInv, LogsTyped, LogsSound, LogSound, LogsFew, LogInHand, Live!Held
<1>6. page'.of = d /\ page'.shown = shown
  <2> HIDE DEF shown
  <2> QED BY <1>1, <1>2
<1>7. PageTyped'
  <2> HIDE DEF shown
  <2> QED BY <1>1, <1>2, <1>4 DEF LogsInv, PageTyped
<1>8. PageDrawn'
  BY <1>1 DEF PageDrawn
<1>9. PageOpen'
  <2>1. ASSUME ~again', ~spoilt
        PROVE  UpToNewest(shown, written[d]) /\ (Live!Held(d) => shown # << >>)
    <3>1. /\ page.skip = Len(page.shown)
          /\ IF Live!Held(d) THEN Begins(page.shown, deployLogs[d].lines) ELSE page.shown = << >>
      BY <1>1, <2>1 DEF LogsInv, PageDrawn
    <3>2. CASE Live!Held(d)
      <4>1. Begins(page.shown, lines)
        BY <3>1, <3>2, TailIs
      <4>2. shown = lines
        <5> HIDE DEF lines
        <5> QED BY <1>2, <1>3, <3>1, <4>1, Rejoined
      <4>3. lines # << >> /\ Live!InOrder(lines) /\ lines[Len(lines)] = written[d]
        BY <3>2, TailIs
      <4> HIDE DEF shown, lines
      <4> QED BY <4>2, <4>3 DEF UpToNewest
    <3>3. CASE ~Live!Held(d)
      <4>1. page.shown = << >> /\ lines = << >> /\ page.skip = 0
        BY <3>1, <3>3, TailIs
      <4>2. SubSeq(<< >>, 1, 0) = << >>
        OBVIOUS
      <4>3. Len(lines) = 0
        <5> HIDE DEF lines
        <5> QED BY <4>1
      <4>4. shown = << >>
        <5> HIDE DEF lines
        <5>1. shown = << >> \o SubSeq(<< >>, 1, 0)
          BY <4>1, <4>3
        <5>2. << >> \o << >> = << >>
          OBVIOUS
        <5> HIDE DEF shown
        <5> QED BY <4>2, <5>1, <5>2
      <4> HIDE DEF shown
      <4> QED BY <3>3, <4>4 DEF UpToNewest, Live!InOrder
    <3> QED BY <3>2, <3>3
  <2> HIDE DEF shown, d
  <2> QED BY <1>1, <1>6, <2>1 DEF PageOpen, UpToNewest, Live!InOrder, Live!Held
<1> QED BY <1>5, <1>7, <1>8, <1>9 DEF LogsInv

LEMMA LostLogs ==
  ASSUME LogsBounds, LogsInv, Live!ConnectionLost
  PROVE  LogsInv'
<1>1. /\ link = "open" /\ link' = "lost" /\ drops' = drops + 1 /\ drops < MaxDrops
      /\ UNCHANGED <<deployLogs, deploying, begun, written, page, spoilt, again>>
  BY DEF Live!ConnectionLost
<1>2. drops \in Nat /\ drops' \in 0..MaxDrops /\ drops' # 0
  BY <1>1 DEF LogsInv, LogsTyped, LogsBounds
<1> QED BY <1>1, <1>2 DEF LogsInv, LogsTyped, PageTyped, LogsSound, LogSound, LogsFew, LogInHand, PageOpen, PageDrawn

LEMMA CloseLogs ==
  ASSUME LogsBounds, LogsInv, Live!ClosePage
  PROVE  LogsInv'
<1>1. /\ link' = "none" /\ page' = Live!NoPage /\ spoilt' = FALSE /\ again' = FALSE
      /\ UNCHANGED <<deployLogs, deploying, begun, written, drops>>
  BY DEF Live!ClosePage
<1>2. Live!NoPage \in [of : 0..MaxDeployments, skip : 0..LineCap, shown : Seq(1..MaxLines)]
  BY DEF Live!NoPage, LogsBounds
<1> QED BY <1>1, <1>2 DEF LogsInv, LogsTyped, PageTyped, LogsSound, LogSound, LogsFew, LogInHand, Live!Held, PageOpen, PageDrawn

LEMMA CrashLogs ==
  ASSUME LogsBounds, LogsInv, Live!Crash
  PROVE  LogsInv'
<1>1. /\ drops < MaxDrops /\ drops' = drops + 1 /\ deployLogs' = << >>
      /\ link' = (IF link = "open" THEN "lost" ELSE link) /\ spoilt' = (spoilt \/ link # "none")
      /\ UNCHANGED <<deploying, begun, written, page, again>>
  BY DEF Live!Crash
<1>2. drops \in Nat /\ drops' \in 0..MaxDrops /\ drops' # 0
  BY <1>1 DEF LogsInv, LogsTyped, LogsBounds
<1>3. DOMAIN deployLogs' = {}
  BY <1>1
<1>4. LogsTyped' /\ LogsSound' /\ LogInHand'
  BY <1>1, <1>2, <1>3 DEF LogsInv, LogsTyped, LogsSound, LogInHand
<1>5. LogsFew'
  BY <1>3, FS_EmptySet DEF LogsFew, LogsBounds
<1>6. PageTyped' /\ PageOpen' /\ PageDrawn'
  BY <1>1 DEF LogsInv, PageTyped, PageOpen, PageDrawn
<1> QED BY <1>4, <1>5, <1>6 DEF LogsInv

LEMMA InitLogs == ASSUME LogsBounds, Live!Init PROVE LogsInv
<1>1. DOMAIN deployLogs = {}
  BY DEF Live!Init
<1>2. Live!NoPage \in [of : 0..MaxDeployments, skip : 0..LineCap, shown : Seq(1..MaxLines)]
  BY DEF Live!NoPage, LogsBounds
<1>3. LogsFew
  BY <1>1, FS_EmptySet DEF LogsFew, LogsBounds
<1>4. LogsTyped
  BY <1>1 DEF Live!Init, LogsTyped, LogsBounds, Live!Deployments
<1>5. PageTyped
  BY <1>2 DEF Live!Init, PageTyped
<1>6. LogsSound /\ LogInHand /\ PageOpen /\ PageDrawn
  BY <1>1 DEF Live!Init, LogsSound, LogInHand, PageOpen, PageDrawn
<1> QED BY <1>3, <1>4, <1>5, <1>6 DEF LogsInv

LEMMA LogsStep ==
  ASSUME LogsBounds, LogsInv, Live!Next
  PROVE  LogsInv'
<1>1. CASE Live!PublishDeployLog
  BY <1>1, PublishLogs
<1>2. CASE Live!StartDeploy
  BY <1>2, StartLogs
<1>3. CASE Live!MarkDeployLogFinished
  BY <1>3, MarkLogs
<1>4. CASE Live!TtlPasses
  BY <1>4, TtlLogs
<1>5. CASE Live!DrawPage
  BY <1>5, DrawLogs
<1>6. CASE Live!ConnectLogs
  BY <1>6, ConnectPageLogs
<1>7. CASE Live!ConnectionLost
  BY <1>7, LostLogs
<1>8. CASE Live!ClosePage
  BY <1>8, CloseLogs
<1>9. CASE Live!Crash
  BY <1>9, CrashLogs
<1> QED BY <1>1, <1>2, <1>3, <1>4, <1>5, <1>6, <1>7, <1>8, <1>9 DEF Live!Next

LEMMA LogsStutter ==
  ASSUME LogsInv, UNCHANGED Live!vars
  PROVE  LogsInv'
  BY DEF Live!vars, LogsInv, LogsTyped, PageTyped, LogsSound, LogSound, LogsFew, LogInHand, PageOpen, UpToNewest, Live!InOrder,
     PageDrawn, Begins, Live!Held

-----------------------------------------------------------------------------
(* The lines of a container: chunks, ring and files (LogLines).              *)

LEMMA LinesBounds ==
  /\ HeaderLen \in Nat \ {0} /\ Capacity \in Nat \ {0} /\ FileLines \in Nat \ {0}
  /\ KeepFiles \in Nat /\ MaxFrames \in Nat
  BY ImagesAndLogsAssumption

Sequential(q) == \E S : q \in Seq(S)

\* What was returned is what came whole, and what is held back is the rest.
ChunksSound ==
  /\ output \in [1..MaxFrames -> Frames] /\ sent \in Nat
  /\ parsed \in 0..MaxFrames /\ pushed \in 0..parsed
  /\ carry = sent - Lines!Bytes[parsed] /\ carry >= 0 /\ sent <= Lines!Bytes[MaxFrames]
  /\ parsed < MaxFrames => Lines!Bytes[parsed + 1] > sent
PartialSound == partial = Lines!Written[pushed].partial \/ Lines!Flushed

\* The place so many lines back from where the next one goes.
PlaceBack(x, k) == IF k <= x THEN x - k ELSE x - k + Capacity
RingHolds(p) ==
  /\ next \in 0..Capacity - 1 /\ items = [i \in 0..Capacity - 1 |-> items[i]]
  /\ count = IF Len(p) < Capacity THEN Len(p) ELSE Capacity
  /\ \A k \in 1..count : items[PlaceBack(next, k)] = p[Len(p) - k + 1]
FilesSound == Sequential(files) /\ Len(files) \in 1..KeepFiles + 1 /\ Len(files[1]) <= FileLines
HandedOver(p) == Sequential(p) /\ Lines!Expected = p \o hand /\ RingHolds(p) /\ Lines!FilesHold(p)

LinesInv == ChunksSound /\ PartialSound /\ FilesSound /\ Sequential(hand) /\ \E p : HandedOver(p)

-----------------------------------------------------------------------------
(* The stream's bytes.                                                      *)

\* Where the first frames of w end, of so many bytes each.
EndsAt(f, w, n) == f = [i \in 0..n |-> IF i = 0 THEN 0 ELSE f[i - 1] + w[i]]
LEMMA EndsExist ==
  ASSUME NEW w
  PROVE  \A n \in Nat : \E f : EndsAt(f, w, n)
<1> DEFINE X == {n \in Nat : \E f : EndsAt(f, w, n)}
<1>1. 0 \in X
  <2> DEFINE f == [i \in 0..0 |-> 0]
  <2>1. EndsAt(f, w, 0)
    BY DEF EndsAt
  <2> QED BY <2>1
<1>2. ASSUME NEW n \in Nat, n \in X
      PROVE  n + 1 \in X
  <2>1. PICK f : EndsAt(f, w, n)
    BY <1>2
  <2> DEFINE g == [i \in 0..n + 1 |-> IF i = n + 1 THEN f[n] + w[n + 1] ELSE f[i]]
  <2>2. \A i \in 0..n : f[i] = IF i = 0 THEN 0 ELSE f[i - 1] + w[i]
    BY <2>1 DEF EndsAt
  <2>3. \A i \in 0..n : g[i] = f[i]
    OBVIOUS
  <2>4. \A i \in 0..n + 1 : g[i] = IF i = 0 THEN 0 ELSE g[i - 1] + w[i]
    <3>1. TAKE i \in 0..n + 1
    <3>2. CASE i = n + 1
      <4>1. g[i] = f[n] + w[n + 1] /\ i # 0 /\ i - 1 = n /\ n \in 0..n
        BY <3>2
      <4>2. g[n] = f[n]
        BY <2>3, <4>1
      <4> HIDE DEF g
      <4> QED BY <3>2, <4>1, <4>2
    <3>3. CASE i # n + 1
      <4>1. i \in 0..n
        BY <3>3
      <4>2. i # 0 => i - 1 \in 0..n
        BY <4>1
      <4> HIDE DEF g
      <4> QED BY <2>2, <2>3, <4>1, <4>2
    <3> QED BY <3>2, <3>3
  <2>5. g = [i \in 0..n + 1 |-> g[i]]
    OBVIOUS
  <2> HIDE DEF g
  <2>6. EndsAt(g, w, n + 1)
    BY <2>4, <2>5 DEF EndsAt
  <2> QED BY <2>6
<1> HIDE DEF X
<1>3. Nat \subseteq X
  BY <1>1, <1>2, Counting
<1> USE DEF X
<1> QED BY <1>3

\* A frame's header and its payload.
LEMMA FramesAre ==
  ASSUME NEW frame \in Frames
  PROVE  /\ frame.stream \in Lines!Streams /\ frame.payload \in Seq({"c", "nl"})
         /\ Len(frame.payload) \in Nat /\ DOMAIN frame.payload = 1..Len(frame.payload)
<1>1. PICK s \in {"stdout", "stderr"}, p \in {<< >>, <<"c">>, <<"c", "nl">>, <<"nl", "c">>, <<"nl">>} :
        frame = [stream |-> s, payload |-> p]
  BY DEF Frames, Frame
<1>2. p \in Seq({"c", "nl"})
  <2>1. << >> \in Seq({"c", "nl"}) /\ <<"c">> \in Seq({"c", "nl"}) /\ <<"nl">> \in Seq({"c", "nl"})
    OBVIOUS
  <2>2. <<"c", "nl">> \in Seq({"c", "nl"}) /\ <<"nl", "c">> \in Seq({"c", "nl"})
    OBVIOUS
  <2> QED BY <1>1, <2>1, <2>2
<1>3. frame.stream = s /\ frame.payload = p
  BY <1>1
<1>4. Len(p) \in Nat /\ DOMAIN p = 1..Len(p)
  BY <1>2, LenProperties
<1> QED BY <1>2, <1>3, <1>4 DEF Lines!Streams

LEMMA OutputIs ==
  ASSUME output \in [1..MaxFrames -> Frames]
  PROVE  Len(output) = MaxFrames /\ \A n \in 1..MaxFrames : output[n] \in Frames
  BY LinesBounds

LEMMA BytesAre ==
  ASSUME output \in [1..MaxFrames -> Frames]
  PROVE  /\ Lines!Bytes[0] = 0
         /\ \A n \in 1..MaxFrames : Lines!Bytes[n] = Lines!Bytes[n - 1] + Lines!Size(output[n])
<1> DEFINE w == [n \in 1..MaxFrames |-> Lines!Size(output[n])]
<1>1. MaxFrames \in Nat /\ Len(output) = MaxFrames
  BY LinesBounds, OutputIs
<1>2. PICK f : EndsAt(f, w, MaxFrames)
  <2> HIDE DEF w
  <2> QED BY <1>1, EndsExist
<1>3. f = [n \in 0..Len(output) |-> IF n = 0 THEN 0 ELSE f[n - 1] + Lines!Size(output[n])]
  <2>1. \A n \in 0..MaxFrames : n # 0 => w[n] = Lines!Size(output[n])
    BY <1>1
  <2>2. f = [n \in 0..MaxFrames |-> f[n]]
    BY <1>2 DEF EndsAt
  <2>3. \A n \in 0..MaxFrames : f[n] = IF n = 0 THEN 0 ELSE f[n - 1] + w[n]
    <3> HIDE DEF w
    <3> QED BY <1>2 DEF EndsAt
  <2> HIDE DEF w
  <2>4. \A n \in 0..MaxFrames : f[n] = IF n = 0 THEN 0 ELSE f[n - 1] + Lines!Size(output[n])
    BY <2>1, <2>3
  <2> QED BY <1>1, <2>2, <2>4
<1>4. Lines!Bytes = [n \in 0..Len(output) |-> IF n = 0 THEN 0 ELSE Lines!Bytes[n - 1] + Lines!Size(output[n])]
  BY <1>3 DEF Lines!Bytes
<1>5. \A n \in 0..MaxFrames : Lines!Bytes[n] = IF n = 0 THEN 0 ELSE Lines!Bytes[n - 1] + Lines!Size(output[n])
  BY <1>1, <1>4
<1> QED BY <1>1, <1>5

LEMMA FrameSizes ==
  ASSUME output \in [1..MaxFrames -> Frames]
  PROVE  \A n \in 1..MaxFrames : /\ Lines!Size(output[n]) \in Nat \ {0}
                                 /\ Lines!Size(output[n]) = HeaderLen + Len(output[n].payload)
<1>1. TAKE n \in 1..MaxFrames
<1>2. Lines!Size(output[n]) = HeaderLen + Len(output[n].payload)
  BY DEF Lines!Size
<1>3. Len(output[n].payload) \in Nat
  BY OutputIs, FramesAre
<1> QED BY <1>2, <1>3, LinesBounds

\* Each frame ends after the one before.
LEMMA BytesGrow ==
  ASSUME output \in [1..MaxFrames -> Frames]
  PROVE  /\ \A n \in 0..MaxFrames : Lines!Bytes[n] \in Nat
         /\ \A n \in 0..MaxFrames : \A m \in 0..n : Lines!Bytes[m] <= Lines!Bytes[n]
<1> DEFINE X == {n \in Nat : n <= MaxFrames =>
                   Lines!Bytes[n] \in Nat /\ \A m \in 0..n : Lines!Bytes[m] \in Nat /\ Lines!Bytes[m] <= Lines!Bytes[n]}
<1>0. MaxFrames \in Nat
  BY LinesBounds
<1>1. 0 \in X
  <2>1. Lines!Bytes[0] = 0
    BY BytesAre
  <2>2. \A m \in 0..0 : m = 0
    OBVIOUS
  <2> QED BY <2>1, <2>2
<1>2. ASSUME NEW n \in Nat, n \in X
      PROVE  n + 1 \in X
  <2> SUFFICES ASSUME n + 1 <= MaxFrames
               PROVE  /\ Lines!Bytes[n + 1] \in Nat
                      /\ \A m \in 0..n + 1 : Lines!Bytes[m] \in Nat /\ Lines!Bytes[m] <= Lines!Bytes[n + 1]
    OBVIOUS
  <2>1. n + 1 \in 1..MaxFrames /\ (n + 1) - 1 = n
    BY <1>0
  <2>2. Lines!Bytes[n + 1] = Lines!Bytes[n] + Lines!Size(output[n + 1])
    BY <2>1, BytesAre
  <2>3. Lines!Size(output[n + 1]) \in Nat
    BY <2>1, FrameSizes
  <2>4. Lines!Bytes[n] \in Nat /\ \A m \in 0..n : Lines!Bytes[m] \in Nat /\ Lines!Bytes[m] <= Lines!Bytes[n]
    BY <1>0, <1>2
  <2> QED BY <2>2, <2>3, <2>4
<1> HIDE DEF X
<1>3. Nat \subseteq X
  BY <1>1, <1>2, Counting
<1> USE DEF X
<1> QED BY <1>0, <1>3

LEMMA BytesStay ==
  ASSUME output' = output
  PROVE  Lines!Bytes' = Lines!Bytes
  BY DEF Lines!Bytes, Lines!Size

LEMMA Between ==
  ASSUME NEW s \in Int, NEW n \in Int, NEW a \in Int, NEW c \in Int, NEW b, b = s + n - a
  PROVE  b - (c - a) = s + n - c /\ b - (c - a) \in Int
  OBVIOUS

LEMMA ShortIs ==
  ASSUME NEW k, NEW bytes
  PROVE  LET rest == bytes - (Lines!Bytes[parsed + k] - Lines!Bytes[parsed])
         IN  Lines!Short(k, bytes) <=>
               rest < HeaderLen \/ rest - HeaderLen < Len(output[parsed + k + 1].payload)
  BY DEF Lines!Short

\* A push returns the frames that are whole, and no other.
LEMMA PushReturns ==
  ASSUME ChunksSound, NEW n \in Nat, sent + n <= Lines!Bytes[MaxFrames]
  PROVE  /\ Lines!DemuxPush(carry + n) \in 0..MaxFrames - parsed
         /\ Lines!Bytes[parsed + Lines!DemuxPush(carry + n)] <= sent + n
         /\ parsed + Lines!DemuxPush(carry + n) < MaxFrames
              => Lines!Bytes[parsed + Lines!DemuxPush(carry + n) + 1] > sent + n
<1>0. /\ output \in [1..MaxFrames -> Frames] /\ MaxFrames \in Nat /\ Len(output) = MaxFrames
      /\ parsed \in 0..MaxFrames /\ sent \in Nat /\ carry = sent - Lines!Bytes[parsed]
      /\ HeaderLen \in Nat \ {0} /\ Lines!Bytes[parsed] \in Nat /\ Lines!Bytes[parsed] <= sent
  <2>1. output \in [1..MaxFrames -> Frames] /\ parsed \in 0..MaxFrames
    BY DEF ChunksSound
  <2>2. Lines!Bytes[parsed] \in Nat
    BY <2>1, BytesGrow
  <2> QED BY <2>1, <2>2, OutputIs, LinesBounds DEF ChunksSound
<1>a. PICK b : b = carry + n
  OBVIOUS
<1>c. b = sent + n - Lines!Bytes[parsed] /\ b \in Int
  BY <1>0, <1>a
<1> DEFINE left == MaxFrames - parsed
<1>1. \A k \in 0..left : k < left => (Lines!Short(k, b) <=> sent + n < Lines!Bytes[parsed + k + 1])
  <2> SUFFICES ASSUME NEW k \in 0..left, k < left
               PROVE  Lines!Short(k, b) <=> sent + n < Lines!Bytes[parsed + k + 1]
    OBVIOUS
  <2>1. parsed + k \in 0..MaxFrames /\ parsed + k + 1 \in 1..MaxFrames /\ (parsed + k + 1) - 1 = parsed + k
    BY <1>0
  <2>2. Lines!Bytes[parsed + k + 1] = Lines!Bytes[parsed + k] + Lines!Size(output[parsed + k + 1])
    BY <1>0, <2>1, BytesAre
  <2>3. /\ Lines!Size(output[parsed + k + 1]) = HeaderLen + Len(output[parsed + k + 1].payload)
        /\ Len(output[parsed + k + 1].payload) \in Nat
    BY <1>0, <2>1, FrameSizes, OutputIs, FramesAre
  <2>4. Lines!Bytes[parsed + k] \in Nat
    BY <1>0, <2>1, BytesGrow
  <2> DEFINE rest == b - (Lines!Bytes[parsed + k] - Lines!Bytes[parsed])
             size == Len(output[parsed + k + 1].payload)
  <2>5. Lines!Short(k, b) <=> rest < HeaderLen \/ rest - HeaderLen < size
    BY ShortIs
  <2>6. rest = sent + n - Lines!Bytes[parsed + k] /\ rest \in Int
    <3>1. sent \in Int /\ n \in Int /\ Lines!Bytes[parsed] \in Int /\ Lines!Bytes[parsed + k] \in Int
      BY <1>0, <2>4
    <3> QED BY <1>c, <3>1, Between
  <2>7. Lines!Bytes[parsed + k + 1] = Lines!Bytes[parsed + k] + HeaderLen + size /\ size \in Nat
    BY <1>0, <2>2, <2>3, <2>4
  <2> HIDE DEF rest, size
  <2> QED BY <1>0, <2>4, <2>5, <2>6, <2>7
<1>2. Lines!Short(left, b)
  <2>1. parsed + left = MaxFrames
    BY <1>0
  <2>2. Lines!Bytes[MaxFrames] \in Nat
    BY <1>0, BytesGrow
  <2>3. b - (Lines!Bytes[parsed + left] - Lines!Bytes[parsed]) < HeaderLen
    <3>1. sent \in Int /\ n \in Int /\ Lines!Bytes[parsed] \in Int /\ Lines!Bytes[MaxFrames] \in Int
      BY <1>0, <2>2
    <3>2. b - (Lines!Bytes[MaxFrames] - Lines!Bytes[parsed]) = sent + n - Lines!Bytes[MaxFrames]
      BY <1>c, <3>1, Between
    <3>3. sent + n - Lines!Bytes[MaxFrames] < HeaderLen
      BY <1>0, <3>1
    <3> HIDE DEF left
    <3> QED BY <2>1, <3>2, <3>3
  <2> HIDE DEF left
  <2> QED BY <2>3, ShortIs
<1>b. left \in Nat /\ left \in 0..left
  BY <1>0
<1> HIDE DEF left
<1> DEFINE M == {k \in 0..left : Lines!Short(k, b)}
<1>3. \E k \in M : \A j \in M : ~(j < k)
  <2>1. M \subseteq Nat /\ M # {}
    BY <1>b, <1>2
  <2> HIDE DEF M
  <2> QED BY <2>1, LeastOf
<1> DEFINE r == Lines!DemuxPush(b)
<1>4. r \in 0..left /\ Lines!Short(r, b) /\ \A k \in 0..r - 1 : ~Lines!Short(k, b)
  <2>1. \E k \in 0..left : Lines!Short(k, b) /\ \A j \in 0..k - 1 : ~Lines!Short(j, b)
    <3>1. PICK k \in M : \A j \in M : ~(j < k)
      BY <1>3
    <3>2. \A j \in 0..k - 1 : j \in 0..left /\ j < k
      BY <1>b
    <3>3. \A j \in 0..k - 1 : ~Lines!Short(j, b)
      BY <3>1, <3>2
    <3> QED BY <3>1, <3>3
  <2> QED BY <1>0, <2>1 DEF Lines!DemuxPush, left
<1> HIDE DEF r
<1> USE DEF left
<1>5. parsed + r < MaxFrames => Lines!Bytes[parsed + r + 1] > sent + n
  <2> SUFFICES ASSUME parsed + r < MaxFrames PROVE Lines!Bytes[parsed + r + 1] > sent + n
    OBVIOUS
  <2>1. r < left /\ parsed + r + 1 \in 0..MaxFrames
    BY <1>0, <1>4
  <2>2. sent + n < Lines!Bytes[parsed + r + 1]
    BY <1>1, <1>4, <2>1
  <2>3. Lines!Bytes[parsed + r + 1] \in Nat
    BY <1>0, <2>1, BytesGrow
  <2> QED BY <1>0, <2>2, <2>3
<1>6. Lines!Bytes[parsed + r] <= sent + n
  <2>1. CASE r = 0
    BY <1>0, <2>1
  <2>2. CASE r # 0
    <3>1. /\ r - 1 \in 0..r - 1 /\ r - 1 \in 0..left /\ r - 1 < left
          /\ parsed + (r - 1) + 1 = parsed + r /\ parsed + r \in 0..MaxFrames
      BY <1>0, <1>4, <2>2
    <3>2. ~(sent + n < Lines!Bytes[parsed + (r - 1) + 1])
      BY <1>1, <1>4, <3>1
    <3>3. Lines!Bytes[parsed + r] \in Nat
      BY <1>0, <3>1, BytesGrow
    <3> QED BY <1>0, <3>1, <3>2, <3>3
  <2> QED BY <2>1, <2>2
<1> QED BY <1>a, <1>4, <1>5, <1>6 DEF r

\* What has come whole is what was returned.
LEMMA WholeIs ==
  ASSUME ChunksSound
  PROVE  Lines!Whole = parsed
<1>0. /\ output \in [1..MaxFrames -> Frames] /\ MaxFrames \in Nat /\ Len(output) = MaxFrames
      /\ parsed \in 0..MaxFrames /\ sent \in Nat
      /\ \A n \in 0..MaxFrames : Lines!Bytes[n] \in Nat
  BY OutputIs, LinesBounds, BytesGrow DEF ChunksSound
<1>1. Lines!Bytes[parsed] <= sent /\ (parsed < MaxFrames => Lines!Bytes[parsed + 1] > sent)
  BY <1>0 DEF ChunksSound
<1>2. ASSUME NEW n \in 0..MaxFrames, Lines!Bytes[n] <= sent, n < MaxFrames => Lines!Bytes[n + 1] > sent
      PROVE  n = parsed
  <2>1. CASE n < parsed
    <3>1. n + 1 \in 0..parsed /\ n < MaxFrames /\ n + 1 \in 0..MaxFrames
      BY <1>0, <2>1
    <3>2. Lines!Bytes[n + 1] <= Lines!Bytes[parsed]
      BY <1>0, <3>1, BytesGrow
    <3> QED BY <1>0, <1>1, <1>2, <3>1, <3>2
  <2>2. CASE parsed < n
    <3>1. parsed + 1 \in 0..n /\ parsed < MaxFrames /\ parsed + 1 \in 0..MaxFrames
      BY <1>0, <2>2
    <3>2. Lines!Bytes[parsed + 1] <= Lines!Bytes[n]
      BY <1>0, <3>1, BytesGrow
    <3> QED BY <1>0, <1>1, <1>2, <3>1, <3>2
  <2> QED BY <1>0, <2>1, <2>2
<1> QED BY <1>0, <1>1, <1>2 DEF Lines!Whole

-----------------------------------------------------------------------------
(* Sequences, of whatever.                                                  *)

LEMMA SeqIs ==
  ASSUME NEW q, Sequential(q)
  PROVE  /\ Len(q) \in Nat /\ DOMAIN q = 1..Len(q)
         /\ q = [i \in 1..Len(q) |-> q[i]]
<1>1. PICK S : q \in Seq(S)
  BY DEF Sequential
<1>2. Len(q) \in Nat /\ DOMAIN q = 1..Len(q) /\ q \in [1..Len(q) -> S]
  BY <1>1, LenProperties
<1> QED BY <1>2

LEMMA SeqOf ==
  ASSUME NEW n \in Nat, NEW q, q = [i \in 1..n |-> q[i]]
  PROVE  Sequential(q) /\ Len(q) = n
<1> DEFINE S == {q[i] : i \in 1..n}
<1>1. q \in [1..n -> S]
  OBVIOUS
<1>2. q \in Seq(S)
  <2> HIDE DEF S
  <2> QED BY <1>1, SeqDef
<1>3. Len(q) = n
  <2> HIDE DEF S
  <2>1. Len(q) \in Nat /\ DOMAIN q = 1..Len(q)
    BY <1>2, LenProperties
  <2>2. DOMAIN q = 1..n
    BY <1>1
  <2>3. 1..n = 1..Len(q)
    BY <2>1, <2>2
  <2> QED BY <2>1, <2>3
<1> QED BY <1>2, <1>3 DEF Sequential

LEMMA SeqNone == Sequential(<< >>) /\ Len(<< >>) = 0
<1>1. << >> \in Seq({})
  OBVIOUS
<1> QED BY <1>1 DEF Sequential

LEMMA SeqBoth ==
  ASSUME NEW q, NEW r, Sequential(q), Sequential(r)
  PROVE  \E S : q \in Seq(S) /\ r \in Seq(S)
<1>1. PICK S : q \in Seq(S)
  BY DEF Sequential
<1>2. PICK T : r \in Seq(T)
  BY DEF Sequential
<1> DEFINE U == S \cup T
<1>3. q \in Seq(U)
  <2>1. S \subseteq U
    OBVIOUS
  <2> HIDE DEF U
  <2> QED BY <1>1, <2>1, SeqMonotonic
<1>4. r \in Seq(U)
  <2>1. T \subseteq U
    OBVIOUS
  <2> HIDE DEF U
  <2> QED BY <1>2, <2>1, SeqMonotonic
<1> QED BY <1>3, <1>4

LEMMA SeqJoin ==
  ASSUME NEW q, NEW r, Sequential(q), Sequential(r)
  PROVE  /\ Sequential(q \o r) /\ Len(q \o r) = Len(q) + Len(r)
         /\ \A i \in 1..Len(q) : (q \o r)[i] = q[i]
         /\ \A i \in 1..Len(r) : (q \o r)[Len(q) + i] = r[i]
<1>1. PICK S : q \in Seq(S) /\ r \in Seq(S)
  BY SeqBoth
<1>2. Len(q) \in Nat /\ Len(r) \in Nat
  BY SeqIs
<1>3. /\ q \o r \in Seq(S) /\ Len(q \o r) = Len(q) + Len(r)
      /\ \A i \in 1..Len(q) + Len(r) : (q \o r)[i] = IF i <= Len(q) THEN q[i] ELSE r[i - Len(q)]
  BY <1>1, ConcatProperties
<1>4. \A i \in 1..Len(q) : (q \o r)[i] = q[i]
  BY <1>2, <1>3
<1>5. ASSUME NEW i \in 1..Len(r)
      PROVE  (q \o r)[Len(q) + i] = r[i]
  <2>1. Len(q) + i \in 1..Len(q) + Len(r) /\ ~(Len(q) + i <= Len(q)) /\ (Len(q) + i) - Len(q) = i
    BY <1>2
  <2> QED BY <1>3, <2>1
<1> QED BY <1>3, <1>4, <1>5 DEF Sequential

LEMMA SeqSame ==
  ASSUME NEW q, NEW r, Sequential(q), Sequential(r), Len(q) = Len(r), \A i \in 1..Len(q) : q[i] = r[i]
  PROVE  q = r
<1>1. PICK S : q \in Seq(S) /\ r \in Seq(S)
  BY SeqBoth
<1> QED BY <1>1, SeqEqual

LEMMA SeqPart ==
  ASSUME NEW q, Sequential(q), NEW a \in Nat, NEW b \in 0..Len(q), a <= b
  PROVE  /\ Sequential(SubSeq(q, a + 1, b)) /\ Len(SubSeq(q, a + 1, b)) = b - a
         /\ \A i \in 1..b - a : SubSeq(q, a + 1, b)[i] = q[a + i]
<1>1. PICK S : q \in Seq(S)
  BY DEF Sequential
<1>2. Len(q) \in Nat /\ a + 1 \in Int /\ b \in Int /\ b \in Nat
  BY SeqIs
<1>3. \A i \in a + 1..b : q[i] \in S
  <2>1. TAKE i \in a + 1..b
  <2>2. i \in 1..Len(q)
    BY <1>2
  <2> QED BY <1>1, <2>2, ElementOfSeq
<1> DEFINE m == a + 1
<1>4. m \in Int /\ b \in Int /\ \A i \in m..b : q[i] \in S
  BY <1>2, <1>3
<1>5. /\ SubSeq(q, m, b) \in Seq(S)
      /\ Len(SubSeq(q, m, b)) = IF m <= b THEN b - m + 1 ELSE 0
      /\ \A i \in 1..b - m + 1 : SubSeq(q, m, b)[i] = q[m + i - 1]
  <2> HIDE DEF m
  <2> QED BY <1>4, SubSeqProperties
<1>6. Len(SubSeq(q, m, b)) = b - a
  BY <1>2, <1>5
<1>7. \A i \in 1..b - a : SubSeq(q, m, b)[i] = q[a + i]
  <2>1. TAKE i \in 1..b - a
  <2>2. i \in 1..b - m + 1 /\ m + i - 1 = a + i
    BY <1>2
  <2> HIDE DEF m
  <2> QED BY <1>5, <2>2
<1> QED BY <1>5, <1>6, <1>7 DEF Sequential

LEMMA SeqMore ==
  ASSUME NEW q, NEW e, Sequential(q)
  PROVE  /\ Sequential(Append(q, e)) /\ Len(Append(q, e)) = Len(q) + 1
         /\ \A i \in 1..Len(q) : Append(q, e)[i] = q[i]
         /\ Append(q, e)[Len(q) + 1] = e
<1>1. PICK S : q \in Seq(S)
  BY DEF Sequential
<1> DEFINE U == S \cup {e}
<1>2. q \in Seq(U) /\ e \in U
  <2>1. S \subseteq U /\ e \in U
    OBVIOUS
  <2> HIDE DEF U
  <2> QED BY <1>1, <2>1, SeqMonotonic
<1> HIDE DEF U
<1> QED BY <1>2, AppendProperties DEF Sequential

LEMMA SeqRest ==
  ASSUME NEW q, Sequential(q), q # << >>
  PROVE  /\ Len(q) \in Nat \ {0} /\ Head(q) = q[1]
         /\ Sequential(Tail(q)) /\ Len(Tail(q)) = Len(q) - 1
         /\ \A i \in 1..Len(q) - 1 : Tail(q)[i] = q[i + 1]
<1>1. PICK S : q \in Seq(S)
  BY DEF Sequential
<1>2. Len(q) \in Nat \ {0}
  BY <1>1, EmptySeq
<1>3. /\ Tail(q) \in Seq(S) /\ Len(Tail(q)) = Len(q) - 1
      /\ \A i \in 1..Len(Tail(q)) : Tail(q)[i] = q[i + 1]
  BY <1>1, HeadTailProperties
<1>4. Head(q) = q[1]
  BY <1>1, <1>2
<1> QED BY <1>2, <1>3, <1>4 DEF Sequential

-----------------------------------------------------------------------------
(* The lines of the frames.                                                 *)

LEMMA LinesCount == \A S : Lines!Cardinality(S) = Cardinality(S)
  BY DEF Lines!Cardinality, Cardinality

\* A frame's lines are as many as its ends.
LEMMA AssembledIs ==
  ASSUME NEW left, NEW frame \in Frames
  PROVE  Sequential(Lines!Assemble(left, frame).lines)
<1> DEFINE ends == {i \in DOMAIN frame.payload : frame.payload[i] = "nl"}
           n == Lines!Cardinality(ends)
           q == Lines!Assemble(left, frame).lines
<1>1. n \in Nat
  <2>1. DOMAIN frame.payload = 1..Len(frame.payload) /\ Len(frame.payload) \in Nat
    BY FramesAre
  <2>2. IsFiniteSet(1..Len(frame.payload))
    BY <2>1, FS_Interval
  <2>3. ends \subseteq 1..Len(frame.payload)
    BY <2>1
  <2> HIDE DEF ends
  <2>4. IsFiniteSet(ends)
    BY <2>2, <2>3, FS_Subset
  <2>5. Cardinality(ends) \in Nat
    BY <2>4, FS_CardinalityType
  <2> QED BY <2>5, LinesCount
<1>2. q = [k \in 1..n |->
             [stream |-> frame.stream,
              text |-> (IF k = 1 THEN left ELSE 0) + Lines!EndOf(ends, k) - Lines!EndOf(ends, k - 1) - 1]]
  BY DEF Lines!Assemble
<1>3. q = [k \in 1..n |-> q[k]]
  <2> HIDE DEF n, q
  <2> QED BY <1>2
<1> HIDE DEF n, q
<1>4. Sequential(q)
  BY <1>1, <1>3, SeqOf
<1> QED BY <1>4 DEF q

\* One frame more.
AddFrame(got, frame) ==
  LET a == Lines!Assemble(got.partial[frame.stream], frame)
  IN  [lines |-> got.lines \o a.lines, partial |-> [got.partial EXCEPT ![frame.stream] = a.left]]
LEMMA AddFrameIs ==
  ASSUME NEW got, NEW frame
  PROVE  LET a == Lines!Assemble(got.partial[frame.stream], frame)
         IN  /\ AddFrame(got, frame).lines = got.lines \o a.lines
             /\ AddFrame(got, frame).partial = [got.partial EXCEPT ![frame.stream] = a.left]
  BY DEF AddFrame

NoLine == [lines |-> << >>, partial |-> Lines!Nothing]

PutTogether(f, w, n) == f = [i \in 0..n |-> IF i = 0 THEN NoLine ELSE AddFrame(f[i - 1], w[i])]
LEMMA PutTogetherExist ==
  ASSUME NEW w
  PROVE  \A n \in Nat : \E f : PutTogether(f, w, n)
<1> DEFINE X == {n \in Nat : \E f : PutTogether(f, w, n)}
<1>1. 0 \in X
  <2> DEFINE f == [i \in 0..0 |-> NoLine]
  <2>1. PutTogether(f, w, 0)
    BY DEF PutTogether
  <2> QED BY <2>1
<1>2. ASSUME NEW n \in Nat, n \in X
      PROVE  n + 1 \in X
  <2>1. PICK f : PutTogether(f, w, n)
    BY <1>2
  <2> DEFINE g == [i \in 0..n + 1 |-> IF i = n + 1 THEN AddFrame(f[n], w[n + 1]) ELSE f[i]]
  <2>2. \A i \in 0..n : f[i] = IF i = 0 THEN NoLine ELSE AddFrame(f[i - 1], w[i])
    BY <2>1 DEF PutTogether
  <2>3. \A i \in 0..n : g[i] = f[i]
    OBVIOUS
  <2>4. \A i \in 0..n + 1 : g[i] = IF i = 0 THEN NoLine ELSE AddFrame(g[i - 1], w[i])
    <3>1. TAKE i \in 0..n + 1
    <3>2. CASE i = n + 1
      <4>1. g[i] = AddFrame(f[n], w[n + 1]) /\ i # 0 /\ i - 1 = n /\ n \in 0..n
        BY <3>2
      <4>2. g[n] = f[n]
        BY <2>3, <4>1
      <4> HIDE DEF g
      <4> QED BY <3>2, <4>1, <4>2
    <3>3. CASE i # n + 1
      <4>1. i \in 0..n
        BY <3>3
      <4>2. i # 0 => i - 1 \in 0..n
        BY <4>1
      <4> HIDE DEF g
      <4>3. i # 0 => f[i - 1] = g[i - 1]
        BY <2>3, <4>2
      <4> QED BY <2>2, <2>3, <4>1, <4>3
    <3> QED BY <3>2, <3>3
  <2>5. g = [i \in 0..n + 1 |-> g[i]]
    OBVIOUS
  <2> HIDE DEF g
  <2>6. PutTogether(g, w, n + 1)
    BY <2>4, <2>5 DEF PutTogether
  <2> QED BY <2>6
<1> HIDE DEF X
<1>3. Nat \subseteq X
  BY <1>1, <1>2, Counting
<1> USE DEF X
<1> QED BY <1>3

LEMMA WrittenAre ==
  ASSUME output \in [1..MaxFrames -> Frames]
  PROVE  /\ Lines!Written[0] = NoLine
         /\ \A n \in 1..MaxFrames : Lines!Written[n] = AddFrame(Lines!Written[n - 1], output[n])
<1>1. MaxFrames \in Nat /\ Len(output) = MaxFrames
  BY LinesBounds, OutputIs
<1>2. PICK f : PutTogether(f, output, MaxFrames)
  BY <1>1, PutTogetherExist
<1> DEFINE Written(g) ==
             [n \in 0..Len(output) |->
                IF n = 0 THEN [lines |-> << >>, partial |-> Lines!Nothing]
                ELSE LET s == output[n].stream
                         got == Lines!Assemble(g[n - 1].partial[s], output[n])
                     IN  [lines |-> g[n - 1].lines \o got.lines,
                          partial |-> [g[n - 1].partial EXCEPT ![s] = got.left]]]
<1>3. \A g : Written(g) = [n \in 0..MaxFrames |-> IF n = 0 THEN NoLine ELSE AddFrame(g[n - 1], output[n])]
  BY <1>1 DEF AddFrame, NoLine
<1>4. f = Written(f)
  <2> HIDE DEF Written
  <2> QED BY <1>2, <1>3 DEF PutTogether
<1>5. Lines!Written = Written(Lines!Written)
  BY <1>4 DEF Lines!Written
<1>6. Lines!Written = [n \in 0..MaxFrames |-> IF n = 0 THEN NoLine ELSE AddFrame(Lines!Written[n - 1], output[n])]
  <2> HIDE DEF Written
  <2> QED BY <1>3, <1>5
<1>7. \A n \in 0..MaxFrames : Lines!Written[n] = IF n = 0 THEN NoLine ELSE AddFrame(Lines!Written[n - 1], output[n])
  BY <1>6
<1> QED BY <1>1, <1>7

LEMMA WrittenStay ==
  ASSUME output' = output
  PROVE  Lines!Written' = Lines!Written
  BY DEF Lines!Written, Lines!Assemble, Lines!EndOf, Lines!Nothing, Lines!Streams

LEMMA WrittenLines ==
  ASSUME output \in [1..MaxFrames -> Frames]
  PROVE  \A n \in 0..MaxFrames : Sequential(Lines!Written[n].lines)
<1> DEFINE X == {n \in Nat : n <= MaxFrames => Sequential(Lines!Written[n].lines)}
<1>0. MaxFrames \in Nat
  BY LinesBounds
<1>1. 0 \in X
  <2>1. Lines!Written[0].lines = << >>
    BY WrittenAre DEF NoLine
  <2> QED BY <2>1, SeqNone
<1>2. ASSUME NEW n \in Nat, n \in X
      PROVE  n + 1 \in X
  <2> SUFFICES ASSUME n + 1 <= MaxFrames
               PROVE  Sequential(Lines!Written[n + 1].lines)
    OBVIOUS
  <2>1. n + 1 \in 1..MaxFrames /\ (n + 1) - 1 = n /\ Sequential(Lines!Written[n].lines)
    BY <1>0, <1>2
  <2>2. PICK got, frame : got = Lines!Written[n] /\ frame = output[n + 1]
    OBVIOUS
  <2> DEFINE a == Lines!Assemble(got.partial[frame.stream], frame)
  <2>3. Lines!Written[n + 1].lines = got.lines \o a.lines
    <3>1. Lines!Written[n + 1] = AddFrame(got, frame)
      BY <2>1, <2>2, WrittenAre
    <3>2. AddFrame(got, frame).lines = got.lines \o a.lines
      BY AddFrameIs
    <3> HIDE DEF a
    <3> QED BY <3>1, <3>2
  <2>4. frame \in Frames
    BY <2>1, <2>2, OutputIs
  <2>5. Sequential(a.lines)
    BY <2>4, AssembledIs
  <2> HIDE DEF a
  <2> QED BY <2>1, <2>2, <2>3, <2>5, SeqJoin
<1> HIDE DEF X
<1>3. Nat \subseteq X
  BY <1>1, <1>2, Counting
<1> USE DEF X
<1> QED BY <1>0, <1>3

LEMMA SeqNil ==
  ASSUME NEW q, Sequential(q)
  PROVE  q \o << >> = q /\ << >> \o q = q
<1>1. PICK S : q \in Seq(S)
  BY DEF Sequential
<1> QED BY <1>1, ConcatEmptySeq

LEMMA UnendedIs ==
  /\ \A left : Sequential(Lines!Unended(left))
  /\ Lines!Unended(Lines!Nothing) = << >>
<1>1. ASSUME NEW left, NEW s
      PROVE  Sequential(Lines!Rest(left, s))
  <2> DEFINE e == [stream |-> s, text |-> left[s]]
             S == {e}
  <2>1. <<e>> \in Seq(S) /\ << >> \in Seq(S)
    <3> HIDE DEF e
    <3> QED OBVIOUS
  <2>2. Lines!Rest(left, s) \in {<<e>>, << >>}
    BY DEF Lines!Rest
  <2> HIDE DEF e, S
  <2>3. Lines!Rest(left, s) \in Seq(S)
    BY <2>1, <2>2
  <2> QED BY <2>3 DEF Sequential
<1>2. ASSUME NEW left
      PROVE  Sequential(Lines!Unended(left))
  <2>1. Sequential(Lines!Rest(left, "stdout")) /\ Sequential(Lines!Rest(left, "stderr"))
    BY <1>1
  <2> QED BY <2>1, SeqJoin DEF Lines!Unended
<1>3. Lines!Unended(Lines!Nothing) = << >>
  <2>1. Lines!Rest(Lines!Nothing, "stdout") = << >> /\ Lines!Rest(Lines!Nothing, "stderr") = << >>
    BY DEF Lines!Rest, Lines!Nothing, Lines!Streams
  <2> QED BY <2>1, SeqNil, SeqNone DEF Lines!Unended
<1> QED BY <1>2, <1>3

-----------------------------------------------------------------------------
(* The ring.                                                                *)

LEMMA ModIs ==
  ASSUME NEW c \in Nat \ {0}, NEW x \in 0..c - 1
  PROVE  x % c = x /\ (x + c) % c = x /\ (x + c * 2) % c = x
  BY Z3

LEMMA NextIs ==
  ASSUME next \in 0..Capacity - 1
  PROVE  (next + 1) % Capacity = IF next + 1 = Capacity THEN 0 ELSE next + 1
<1>1. Capacity \in Nat \ {0} /\ next \in Nat
  BY LinesBounds
<1>2. CASE next + 1 = Capacity
  <2>1. 0 \in 0..Capacity - 1 /\ 0 + Capacity = next + 1
    BY <1>1, <1>2
  <2>2. (0 + Capacity) % Capacity = 0
    BY <1>1, <2>1, ModIs
  <2> QED BY <1>2, <2>1, <2>2
<1>3. CASE next + 1 # Capacity
  <2>1. next + 1 \in 0..Capacity - 1
    BY <1>1, <1>3
  <2> QED BY <1>1, <1>3, <2>1, ModIs
<1> QED BY <1>2, <1>3

\* A line overwrites the oldest one, where there is no place.
LEMMA RingKeeps ==
  ASSUME NEW p, NEW line, Sequential(p), RingHolds(p), Lines!RingPush(line)
  PROVE  RingHolds(Append(p, line))'
<1> DEFINE q == Append(p, line)
<1>0. /\ Capacity \in Nat \ {0} /\ next \in 0..Capacity - 1 /\ Len(p) \in Nat
      /\ next' = IF next + 1 = Capacity THEN 0 ELSE next + 1
  BY LinesBounds, SeqIs, NextIs DEF RingHolds, Lines!RingPush
<1>1. Len(q) = Len(p) + 1 /\ (\A i \in 1..Len(p) : q[i] = p[i]) /\ q[Len(p) + 1] = line
  BY SeqMore
<1> HIDE DEF q
<1>2. next' \in 0..Capacity - 1
  BY <1>0
<1>3. /\ items' = [i \in 0..Capacity - 1 |-> items'[i]]
      /\ \A i \in 0..Capacity - 1 : items'[i] = IF i = next THEN line ELSE items[i]
  <2>1. items' = [items EXCEPT ![next] = line] /\ items = [i \in 0..Capacity - 1 |-> items[i]]
    BY DEF RingHolds, Lines!RingPush
  <2> QED BY <1>0, <2>1
<1>4. count' = IF Len(q) < Capacity THEN Len(q) ELSE Capacity
  BY <1>0, <1>1 DEF RingHolds, Lines!RingPush
<1>5. count \in 0..Capacity /\ count <= Len(p) /\ count' \in 1..count + 1 /\ count' <= Capacity
  BY <1>0, <1>1, <1>4 DEF RingHolds
<1>6. ASSUME NEW k \in 1..count'
      PROVE  items'[PlaceBack(next', k)] = q[Len(q) - k + 1]
  <2>1. CASE k = 1
    <3>1. PlaceBack(next', k) = next
      BY <1>0, <2>1 DEF PlaceBack
    <3>2. Len(q) - k + 1 = Len(p) + 1
      BY <1>0, <1>1, <2>1
    <3> QED BY <1>0, <1>1, <1>3, <3>1, <3>2
  <2>2. CASE k # 1
    <3>1. k - 1 \in 1..count /\ k \in Nat /\ k - 1 < Capacity /\ k <= Capacity
      BY <1>0, <1>5, <2>2
    <3>2. /\ PlaceBack(next', k) = PlaceBack(next, k - 1)
          /\ PlaceBack(next, k - 1) \in 0..Capacity - 1 /\ PlaceBack(next, k - 1) # next
      BY <1>0, <3>1 DEF PlaceBack
    <3>3. items[PlaceBack(next, k - 1)] = p[Len(p) - (k - 1) + 1]
      BY <3>1 DEF RingHolds
    <3>4. Len(p) - (k - 1) + 1 = Len(q) - k + 1 /\ Len(q) - k + 1 \in 1..Len(p)
      BY <1>0, <1>1, <1>5, <3>1
    <3> QED BY <1>1, <1>3, <3>2, <3>3, <3>4
  <2> QED BY <2>1, <2>2
<1>7. RingHolds(q)'
  BY <1>2, <1>3, <1>4, <1>6 DEF RingHolds
<1> QED BY <1>7 DEF q

LEMMA BackIs ==
  ASSUME next \in 0..Capacity - 1, NEW m \in 0..Capacity, NEW i \in 1..m
  PROVE  (Lines!Start(m) + i - 1) % Capacity = PlaceBack(next, m - i + 1)
<1>0. Capacity \in Nat \ {0} /\ next \in Nat /\ m \in Nat /\ i \in Nat
  BY LinesBounds
<1>1. CASE m <= next
  <2>1. next - m \in 0..Capacity - 1 /\ next - m + Capacity * 2 = (next - m) + Capacity * 2
    BY <1>0, <1>1
  <2>2. Lines!Start(m) = next - m
    BY <1>0, <2>1, ModIs DEF Lines!Start
  <2>3. next - m + i - 1 \in 0..Capacity - 1 /\ PlaceBack(next, m - i + 1) = next - m + i - 1
    BY <1>0, <1>1 DEF PlaceBack
  <2> QED BY <1>0, <2>2, <2>3, ModIs
<1>2. CASE ~(m <= next)
  <2> DEFINE x == next - m + Capacity
  <2>1. x \in 0..Capacity - 1 /\ next - m + Capacity * 2 = x + Capacity
    BY <1>0, <1>2
  <2>2. Lines!Start(m) = x
    <3> HIDE DEF x
    <3> QED BY <1>0, <2>1, ModIs DEF Lines!Start
  <2>3. CASE m - i + 1 <= next
    <3>1. next - m + i - 1 \in 0..Capacity - 1 /\ PlaceBack(next, m - i + 1) = next - m + i - 1
      BY <1>0, <2>3 DEF PlaceBack
    <3>2. Lines!Start(m) + i - 1 = (next - m + i - 1) + Capacity
      BY <1>0, <2>2
    <3> QED BY <1>0, <3>1, <3>2, ModIs
  <2>4. CASE ~(m - i + 1 <= next)
    <3>1. x + i - 1 \in 0..Capacity - 1 /\ PlaceBack(next, m - i + 1) = x + i - 1
      BY <1>0, <1>2, <2>4 DEF PlaceBack
    <3> QED BY <1>0, <2>2, <3>1, ModIs
  <2> QED BY <2>3, <2>4
<1> QED BY <1>1, <1>2

\* The ring gives the newest so many, in order.
LEMMA ToArrayIs ==
  ASSUME NEW p, Sequential(p), RingHolds(p), NEW n \in 0..Capacity
  PROVE  Lines!ToArray(n) = Lines!LastOf(n, p)
<1>0. /\ Capacity \in Nat \ {0} /\ next \in 0..Capacity - 1 /\ Len(p) \in Nat /\ n \in Nat
      /\ count = IF Len(p) < Capacity THEN Len(p) ELSE Capacity
  BY LinesBounds, SeqIs DEF RingHolds
<1> DEFINE m == IF n < count THEN n ELSE count
           a == IF Len(p) > n THEN Len(p) - n ELSE 0
           q == Lines!ToArray(n)
           r == Lines!LastOf(n, p)
<1>1. m \in 0..Capacity /\ m <= count /\ a \in 0..Len(p) /\ Len(p) - a = m
  <2>1. count \in Nat /\ count <= Capacity /\ count <= Len(p)
    BY <1>0
  <2>2. CASE Len(p) > n
    <3>1. n <= count
      BY <1>0, <2>2
    <3>2. m = n /\ a = Len(p) - n
      BY <1>0, <2>1, <2>2, <3>1
    <3> HIDE DEF m, a
    <3> QED BY <1>0, <2>1, <2>2, <3>1, <3>2
  <2>3. CASE ~(Len(p) > n)
    <3>1. count = Len(p) /\ count <= n
      BY <1>0, <2>3
    <3>2. m = count /\ a = 0
      BY <1>0, <2>1, <2>3, <3>1
    <3> HIDE DEF m, a
    <3> QED BY <1>0, <2>1, <2>3, <3>1, <3>2
  <2> QED BY <2>2, <2>3
<1>2. r = SubSeq(p, a + 1, Len(p))
  BY DEF Lines!LastOf
<1>3. q = [i \in 1..m |-> items[(Lines!Start(m) + i - 1) % Capacity]]
  BY DEF Lines!ToArray
<1> HIDE DEF m, a, q, r
<1>4. q = [i \in 1..m |-> q[i]] /\ m \in Nat
  BY <1>1, <1>3
<1>5. Sequential(q) /\ Len(q) = m
  BY <1>4, SeqOf
<1>6. /\ Sequential(SubSeq(p, a + 1, Len(p))) /\ Len(SubSeq(p, a + 1, Len(p))) = Len(p) - a
      /\ \A i \in 1..Len(p) - a : SubSeq(p, a + 1, Len(p))[i] = p[a + i]
  <2>1. a \in Nat /\ a <= Len(p) /\ Len(p) \in 0..Len(p)
    BY <1>0, <1>1
  <2> QED BY <2>1, SeqPart
<1>7. ASSUME NEW i \in 1..m
      PROVE  q[i] = r[i]
  <2>1. q[i] = items[(Lines!Start(m) + i - 1) % Capacity]
    BY <1>3
  <2>2. (Lines!Start(m) + i - 1) % Capacity = PlaceBack(next, m - i + 1)
    BY <1>0, <1>1, BackIs
  <2>3. m - i + 1 \in 1..count
    BY <1>0, <1>1
  <2>4. items[PlaceBack(next, m - i + 1)] = p[Len(p) - (m - i + 1) + 1]
    BY <2>3 DEF RingHolds
  <2>5. Len(p) - (m - i + 1) + 1 = a + i /\ i \in 1..Len(p) - a
    BY <1>0, <1>1
  <2> QED BY <1>2, <1>6, <2>1, <2>2, <2>4, <2>5
<1>8. q = r
  BY <1>1, <1>2, <1>5, <1>6, <1>7, SeqSame
<1> QED BY <1>8 DEF q, r

-----------------------------------------------------------------------------
(* The files.                                                               *)

\* Where each file begins.
CutsAt(fs, lines, cut) ==
  /\ cut \in [0..Len(fs) -> 0..Len(lines)]
  /\ cut[0] = Len(lines)
  /\ \A i \in 1..Len(fs) :
       /\ cut[i] <= cut[i - 1] /\ fs[i] = SubSeq(lines, cut[i] + 1, cut[i - 1])
       /\ i > 1 => Len(fs[i]) = FileLines
  /\ cut[Len(fs)] = 0 \/ Len(fs) = KeepFiles + 1
LEMMA CutsAre ==
  ASSUME NEW lines
  PROVE  Lines!FilesHold(lines) <=> \E cut : CutsAt(files, lines, cut)
  BY DEF Lines!FilesHold, CutsAt

LEMMA PartOfMore ==
  ASSUME NEW p, NEW line, Sequential(p)
  PROVE  /\ \A a \in Nat : \A b \in 0..Len(p) : a <= b =>
              SubSeq(Append(p, line), a + 1, b) = SubSeq(p, a + 1, b)
         /\ \A a \in 0..Len(p) : SubSeq(Append(p, line), a + 1, Len(p) + 1) = Append(SubSeq(p, a + 1, Len(p)), line)
<1> DEFINE q == Append(p, line)
<1>0. /\ Len(p) \in Nat /\ Sequential(q) /\ Len(q) = Len(p) + 1
      /\ (\A i \in 1..Len(p) : q[i] = p[i]) /\ q[Len(p) + 1] = line
  BY SeqIs, SeqMore
<1> HIDE DEF q
<1>1. ASSUME NEW a \in Nat, NEW b \in 0..Len(p), a <= b
      PROVE  SubSeq(q, a + 1, b) = SubSeq(p, a + 1, b)
  <2>1. b \in 0..Len(q)
    BY <1>0
  <2>2. /\ Sequential(SubSeq(q, a + 1, b)) /\ Len(SubSeq(q, a + 1, b)) = b - a
        /\ \A i \in 1..b - a : SubSeq(q, a + 1, b)[i] = q[a + i]
    BY <1>0, <1>1, <2>1, SeqPart
  <2>3. /\ Sequential(SubSeq(p, a + 1, b)) /\ Len(SubSeq(p, a + 1, b)) = b - a
        /\ \A i \in 1..b - a : SubSeq(p, a + 1, b)[i] = p[a + i]
    BY <1>1, SeqPart
  <2>4. \A i \in 1..b - a : a + i \in 1..Len(p)
    BY <1>0, <1>1
  <2>5. \A i \in 1..b - a : SubSeq(q, a + 1, b)[i] = SubSeq(p, a + 1, b)[i]
    BY <1>0, <2>2, <2>3, <2>4
  <2> QED BY <2>2, <2>3, <2>5, SeqSame
<1>2. ASSUME NEW a \in 0..Len(p)
      PROVE  SubSeq(q, a + 1, Len(p) + 1) = Append(SubSeq(p, a + 1, Len(p)), line)
  <2>0. PICK L : L = Len(p) /\ L \in Nat
    BY <1>0
  <2>1. a \in Nat /\ a <= L + 1 /\ L + 1 \in 0..Len(q) /\ a <= L /\ L \in 0..Len(p)
    BY <1>0, <2>0
  <2>2. /\ Sequential(SubSeq(q, a + 1, L + 1)) /\ Len(SubSeq(q, a + 1, L + 1)) = L + 1 - a
        /\ \A i \in 1..L + 1 - a : SubSeq(q, a + 1, L + 1)[i] = q[a + i]
    BY <1>0, <2>1, SeqPart
  <2> DEFINE r == SubSeq(p, a + 1, L)
  <2>3. Sequential(r) /\ Len(r) = L - a /\ \A i \in 1..L - a : r[i] = p[a + i]
    BY <2>1, SeqPart
  <2> HIDE DEF r
  <2>4. /\ Sequential(Append(r, line)) /\ Len(Append(r, line)) = L - a + 1
        /\ \A i \in 1..L - a : Append(r, line)[i] = r[i]
        /\ Append(r, line)[L - a + 1] = line
    BY <2>3, SeqMore
  <2>5. ASSUME NEW i \in 1..L + 1 - a
        PROVE  SubSeq(q, a + 1, L + 1)[i] = Append(r, line)[i]
    <3>1. CASE i = L - a + 1
      <4>1. a + i = Len(p) + 1
        BY <2>0, <2>1, <3>1
      <4> QED BY <1>0, <2>2, <2>4, <3>1, <4>1
    <3>2. CASE i # L - a + 1
      <4>1. i \in 1..L - a /\ a + i \in 1..Len(p)
        BY <2>0, <2>1, <3>2
      <4> QED BY <1>0, <2>2, <2>3, <2>4, <4>1
    <3> QED BY <3>1, <3>2
  <2>6. Len(SubSeq(q, a + 1, L + 1)) = Len(Append(r, line))
    BY <2>0, <2>1, <2>2, <2>4
  <2>7. \A i \in 1..Len(SubSeq(q, a + 1, L + 1)) : SubSeq(q, a + 1, L + 1)[i] = Append(r, line)[i]
    BY <2>2, <2>5
  <2>8. SubSeq(q, a + 1, L + 1) = Append(r, line)
    BY <2>2, <2>4, <2>6, <2>7, SeqSame
  <2> QED BY <2>0, <2>8 DEF r
<1> QED BY <1>1, <1>2 DEF q

LEMMA SeqPutFirst ==
  ASSUME NEW q, NEW e, Sequential(q), 1 \in 1..Len(q)
  PROVE  /\ Sequential([q EXCEPT ![1] = e]) /\ Len([q EXCEPT ![1] = e]) = Len(q)
         /\ \A j \in 1..Len(q) : [q EXCEPT ![1] = e][j] = IF j = 1 THEN e ELSE q[j]
<1>1. Len(q) \in Nat /\ q = [j \in 1..Len(q) |-> q[j]]
  BY SeqIs
<1> DEFINE r == [q EXCEPT ![1] = e]
<1>2. r = [j \in 1..Len(q) |-> r[j]] /\ \A j \in 1..Len(q) : r[j] = IF j = 1 THEN e ELSE q[j]
  BY <1>1
<1> HIDE DEF r
<1>3. Sequential(r) /\ Len(r) = Len(q)
  BY <1>1, <1>2, SeqOf
<1> QED BY <1>2, <1>3 DEF r

\* The newest file takes the line.
LEMMA CutsAppend ==
  ASSUME NEW p, NEW line, Sequential(p), NEW fs, Sequential(fs), Len(fs) >= 1, NEW cut, CutsAt(fs, p, cut)
  PROVE  \E c : CutsAt([fs EXCEPT ![1] = Append(fs[1], line)], Append(p, line), c)
<1> DEFINE q == Append(p, line)
           gs == [fs EXCEPT ![1] = Append(fs[1], line)]
           c == [i \in 0..Len(fs) |-> IF i = 0 THEN Len(p) + 1 ELSE cut[i]]
<1>0. Len(p) \in Nat /\ Len(fs) \in Nat /\ Len(q) = Len(p) + 1
  BY SeqIs, SeqMore
<1>1. /\ Sequential(gs) /\ Len(gs) = Len(fs)
      /\ \A j \in 1..Len(fs) : gs[j] = IF j = 1 THEN Append(fs[1], line) ELSE fs[j]
  <2>1. 1 \in 1..Len(fs)
    BY <1>0
  <2>2. PICK e : e = Append(fs[1], line)
    OBVIOUS
  <2>3. /\ Sequential([fs EXCEPT ![1] = e]) /\ Len([fs EXCEPT ![1] = e]) = Len(fs)
        /\ \A j \in 1..Len(fs) : [fs EXCEPT ![1] = e][j] = IF j = 1 THEN e ELSE fs[j]
    BY <2>1, SeqPutFirst
  <2> QED BY <2>2, <2>3
<1> HIDE DEF gs, q
<1>2. \A i \in 0..Len(fs) : cut[i] \in 0..Len(p)
  BY <1>0 DEF CutsAt
<1>3. c[0] = Len(p) + 1 /\ (\A i \in 1..Len(fs) : c[i] = cut[i]) /\ c \in [0..Len(fs) -> 0..Len(p) + 1]
  <2>1. \A i \in 0..Len(fs) : (IF i = 0 THEN Len(p) + 1 ELSE cut[i]) \in 0..Len(p) + 1
    BY <1>0, <1>2
  <2> QED BY <1>0, <2>1
<1> HIDE DEF c
<1>4. ASSUME NEW i \in 1..Len(gs)
      PROVE  /\ c[i] <= c[i - 1] /\ gs[i] = SubSeq(q, c[i] + 1, c[i - 1])
             /\ i > 1 => Len(gs[i]) = FileLines
  <2>1. /\ i \in 1..Len(fs) /\ cut[i] <= cut[i - 1] /\ fs[i] = SubSeq(p, cut[i] + 1, cut[i - 1])
        /\ i > 1 => Len(fs[i]) = FileLines
    BY <1>1 DEF CutsAt
  <2>2. cut[i] \in 0..Len(p) /\ cut[i - 1] \in 0..Len(p) /\ c[i] = cut[i]
    BY <1>0, <1>2, <1>3, <2>1
  <2>3. CASE i = 1
    <3>1. c[i - 1] = Len(p) + 1 /\ cut[i - 1] = Len(p) /\ c[i] <= c[i - 1]
      BY <1>0, <1>3, <2>2, <2>3 DEF CutsAt
    <3>2. SubSeq(q, cut[i] + 1, Len(p) + 1) = Append(SubSeq(p, cut[i] + 1, Len(p)), line)
      BY <2>2, PartOfMore DEF q
    <3>3. gs[i] = Append(fs[i], line)
      BY <1>1, <2>1, <2>3
    <3>4. gs[i] = Append(SubSeq(p, cut[i] + 1, Len(p)), line)
      BY <2>1, <3>1, <3>3
    <3>5. gs[i] = SubSeq(q, c[i] + 1, c[i - 1])
      BY <2>2, <3>1, <3>2, <3>4
    <3> QED BY <2>3, <3>1, <3>5
  <2>4. CASE i # 1
    <3>1. i > 1 /\ i - 1 \in 1..Len(fs)
      BY <1>0, <2>1, <2>4
    <3>2. c[i - 1] = cut[i - 1] /\ gs[i] = fs[i]
      BY <1>1, <1>3, <2>1, <2>4, <3>1
    <3>3. SubSeq(q, cut[i] + 1, cut[i - 1]) = SubSeq(p, cut[i] + 1, cut[i - 1])
      <4>1. cut[i] \in Nat
        BY <2>2
      <4>2. \A a \in Nat : \A b \in 0..Len(p) : a <= b => SubSeq(q, a + 1, b) = SubSeq(p, a + 1, b)
        BY PartOfMore DEF q
      <4> QED BY <2>1, <2>2, <4>1, <4>2
    <3> QED BY <2>1, <2>2, <3>1, <3>2, <3>3
  <2> QED BY <2>3, <2>4
<1>5. c[Len(gs)] = 0 \/ Len(gs) = KeepFiles + 1
  <2>1. Len(fs) \in 1..Len(fs)
    BY <1>0
  <2> QED BY <1>1, <1>3, <2>1 DEF CutsAt
<1>6. CutsAt(gs, q, c)
  <2>1. c \in [0..Len(gs) -> 0..Len(q)] /\ c[0] = Len(q)
    BY <1>0, <1>1, <1>3
  <2> QED BY <1>4, <1>5, <2>1 DEF CutsAt
<1> QED BY <1>6 DEF q, gs

\* A file begins with the line, and the oldest goes.
Fewer(a, b) == IF a > b THEN b ELSE a
Turned(fs) == << << >> >> \o SubSeq(fs, 1, Fewer(Len(fs), KeepFiles))
LEMMA SeqOne == ASSUME NEW e PROVE Sequential(<<e>>) /\ Len(<<e>>) = 1 /\ <<e>>[1] = e
<1>1. <<e>> \in Seq({e})
  OBVIOUS
<1> QED BY <1>1 DEF Sequential

LEMMA TurnedIs ==
  ASSUME NEW fs, Sequential(fs), KeepFiles \in Nat
  PROVE  /\ Fewer(Len(fs), KeepFiles) \in 0..Len(fs) /\ Fewer(Len(fs), KeepFiles) <= KeepFiles
         /\ Sequential(Turned(fs)) /\ Len(Turned(fs)) = Fewer(Len(fs), KeepFiles) + 1
         /\ Turned(fs)[1] = << >>
         /\ \A i \in 1..Fewer(Len(fs), KeepFiles) : Turned(fs)[i + 1] = fs[i]
<1> DEFINE m == Fewer(Len(fs), KeepFiles)
           new == << << >> >>
<1>1. Len(fs) \in Nat /\ m \in 0..Len(fs) /\ m <= KeepFiles
  <2>1. Len(fs) \in Nat
    BY SeqIs
  <2> QED BY <2>1 DEF Fewer
<1>2. Sequential(new) /\ Len(new) = 1 /\ new[1] = << >>
  BY SeqOne
<1> HIDE DEF m, new
<1>3. /\ Sequential(SubSeq(fs, 1, m)) /\ Len(SubSeq(fs, 1, m)) = m
      /\ \A i \in 1..m : SubSeq(fs, 1, m)[i] = fs[i]
  <2>1. /\ Sequential(SubSeq(fs, 0 + 1, m)) /\ Len(SubSeq(fs, 0 + 1, m)) = m - 0
        /\ \A i \in 1..m - 0 : SubSeq(fs, 0 + 1, m)[i] = fs[0 + i]
    BY <1>1, SeqPart
  <2>2. 0 + 1 = 1 /\ m - 0 = m /\ \A i \in 1..m : 0 + i = i
    BY <1>1
  <2> QED BY <2>1, <2>2
<1>4. PICK old : old = SubSeq(fs, 1, m)
  OBVIOUS
<1>b. Turned(fs) = new \o old
  BY <1>4 DEF Turned, m, new
<1>5. /\ Sequential(Turned(fs)) /\ Len(Turned(fs)) = 1 + m
      /\ \A i \in 1..1 : Turned(fs)[i] = new[i]
      /\ \A i \in 1..m : Turned(fs)[1 + i] = old[i]
  <2>1. Sequential(old) /\ Len(old) = m
    BY <1>3, <1>4
  <2>2. /\ Sequential(new \o old) /\ Len(new \o old) = Len(new) + Len(old)
        /\ \A i \in 1..Len(new) : (new \o old)[i] = new[i]
        /\ \A i \in 1..Len(old) : (new \o old)[Len(new) + i] = old[i]
    <3>1. Sequential(new) /\ Sequential(old)
      BY <1>2, <2>1
    <3> QED BY <3>1, SeqJoin
  <2> QED BY <1>2, <1>b, <2>1, <2>2
<1>6. 1 + m = m + 1 /\ Turned(fs)[1] = << >> /\ \A i \in 1..m : Turned(fs)[i + 1] = fs[i]
  <2>1. \A i \in 1..m : 1 + i = i + 1
    BY <1>1
  <2>2. 1 \in 1..1
    OBVIOUS
  <2> QED BY <1>1, <1>2, <1>3, <1>4, <1>5, <2>1, <2>2
<1> QED BY <1>1, <1>5, <1>6 DEF m

LEMMA CutsTurn ==
  ASSUME NEW p, NEW line, Sequential(p), NEW fs, Sequential(fs), Len(fs) \in 1..KeepFiles + 1,
         Len(fs[1]) = FileLines, NEW cut, CutsAt(fs, p, cut)
  PROVE  \E c : CutsAt([Turned(fs) EXCEPT ![1] = Append(Turned(fs)[1], line)], Append(p, line), c)
<1> DEFINE q == Append(p, line)
           m == Fewer(Len(fs), KeepFiles)
           gs == [Turned(fs) EXCEPT ![1] = Append(Turned(fs)[1], line)]
           c == [i \in 0..m + 1 |-> IF i = 0 THEN Len(p) + 1 ELSE cut[i - 1]]
<1>0. /\ Len(p) \in Nat /\ Len(fs) \in Nat /\ Len(q) = Len(p) + 1 /\ KeepFiles \in Nat
      /\ m \in 0..Len(fs) /\ m <= KeepFiles /\ m = IF Len(fs) > KeepFiles THEN KeepFiles ELSE Len(fs)
  BY SeqIs, SeqMore, TurnedIs, LinesBounds DEF Fewer
<1>1. /\ Sequential(gs) /\ Len(gs) = m + 1 /\ gs[1] = Append(<< >>, line)
      /\ \A j \in 1..m : gs[j + 1] = fs[j]
  <2>1. PICK turned : turned = Turned(fs)
    OBVIOUS
  <2>2. /\ Sequential(turned) /\ Len(turned) = m + 1 /\ turned[1] = << >>
        /\ \A j \in 1..m : turned[j + 1] = fs[j]
    BY <1>0, <2>1, TurnedIs
  <2>3. PICK e : e = Append(turned[1], line)
    OBVIOUS
  <2> HIDE DEF m
  <2>4. 1 \in 1..Len(turned)
    BY <1>0, <2>2
  <2>5. /\ Sequential([turned EXCEPT ![1] = e]) /\ Len([turned EXCEPT ![1] = e]) = Len(turned)
        /\ \A j \in 1..Len(turned) : [turned EXCEPT ![1] = e][j] = IF j = 1 THEN e ELSE turned[j]
    <3>1. Sequential(turned)
      BY <2>2
    <3> QED BY <2>4, <3>1, SeqPutFirst
  <2>6. gs = [turned EXCEPT ![1] = e]
    BY <2>1, <2>3
  <2> HIDE DEF gs
  <2>7. gs[1] = Append(<< >>, line)
    BY <2>2, <2>3, <2>4, <2>5, <2>6
  <2>8. ASSUME NEW j \in 1..m
        PROVE  gs[j + 1] = fs[j]
    <3>1. j + 1 \in 1..Len(turned) /\ j + 1 # 1
      BY <1>0, <2>2
    <3> QED BY <2>2, <2>5, <2>6, <3>1
  <2> QED BY <2>2, <2>5, <2>6, <2>7, <2>8
<1> HIDE DEF gs, q, m
<1>2. cut \in [0..Len(fs) -> 0..Len(p)] /\ cut[0] = Len(p) /\ \A i \in 0..m : cut[i] \in 0..Len(p)
  <2>1. cut \in [0..Len(fs) -> 0..Len(p)] /\ cut[0] = Len(p)
    BY DEF CutsAt
  <2>2. \A i \in 0..m : i \in 0..Len(fs)
    BY <1>0
  <2> QED BY <2>1, <2>2
<1>3. /\ c[0] = Len(p) + 1 /\ (\A i \in 1..m + 1 : c[i] = cut[i - 1])
      /\ c \in [0..m + 1 -> 0..Len(p) + 1]
  <2>1. \A i \in 0..m + 1 : (IF i = 0 THEN Len(p) + 1 ELSE cut[i - 1]) \in 0..Len(p) + 1
    <3>1. TAKE i \in 0..m + 1
    <3>2. i # 0 => i - 1 \in 0..m
      BY <1>0
    <3> QED BY <1>0, <1>2, <3>2
  <2>2. 0 \in 0..m + 1
    BY <1>0
  <2> QED BY <1>0, <2>1, <2>2
<1> HIDE DEF c
<1>4. ASSUME NEW i \in 1..Len(gs)
      PROVE  /\ c[i] <= c[i - 1] /\ gs[i] = SubSeq(q, c[i] + 1, c[i - 1])
             /\ i > 1 => Len(gs[i]) = FileLines
  <2>0. i \in 1..m + 1
    BY <1>1
  <2>1. CASE i = 1
    <3>1. c[i] = Len(p) /\ c[i - 1] = Len(p) + 1
      BY <1>0, <1>2, <1>3, <2>0, <2>1
    <3>2. SubSeq(p, Len(p) + 1, Len(p)) = << >>
      BY <1>0, SubSeqEmpty
    <3>3. SubSeq(q, Len(p) + 1, Len(p) + 1) = Append(SubSeq(p, Len(p) + 1, Len(p)), line)
      <4>1. Len(p) \in 0..Len(p)
        BY <1>0
      <4> QED BY <4>1, PartOfMore DEF q
    <3>4. gs[i] = SubSeq(q, c[i] + 1, c[i - 1])
      BY <1>1, <2>1, <3>1, <3>2, <3>3
    <3> QED BY <1>0, <2>1, <3>1, <3>4
  <2>2. CASE i # 1
    <3>0. PICK j \in 1..m : i = j + 1
      BY <1>0, <2>0, <2>2
    <3>1. j \in 1..Len(fs) /\ j - 1 \in 0..m /\ j \in 0..m /\ i - 1 = j /\ i - 1 \in 1..m + 1
      BY <1>0, <3>0
    <3>2. /\ cut[j] <= cut[j - 1] /\ fs[j] = SubSeq(p, cut[j] + 1, cut[j - 1])
          /\ j > 1 => Len(fs[j]) = FileLines
      BY <3>1 DEF CutsAt
    <3>3. c[i] = cut[j] /\ c[i - 1] = cut[j - 1] /\ gs[i] = fs[j]
      BY <1>1, <1>3, <2>0, <3>0, <3>1
    <3>4. Len(fs[j]) = FileLines
      <4>1. CASE j = 1
        BY <4>1
      <4>2. CASE j # 1
        <5>1. m \in Nat
          BY <1>0
        <5>2. j > 1
          BY <4>2, <5>1
        <5> QED BY <3>2, <5>2
      <4> QED BY <4>1, <4>2
    <3>5. SubSeq(q, cut[j] + 1, cut[j - 1]) = SubSeq(p, cut[j] + 1, cut[j - 1])
      <4>1. cut[j] \in Nat /\ cut[j - 1] \in 0..Len(p)
        BY <1>2, <3>1
      <4>2. \A a \in Nat : \A b \in 0..Len(p) : a <= b => SubSeq(q, a + 1, b) = SubSeq(p, a + 1, b)
        BY PartOfMore DEF q
      <4> QED BY <3>2, <4>1, <4>2
    <3> QED BY <3>2, <3>3, <3>4, <3>5
  <2> QED BY <2>1, <2>2
<1>5. c[Len(gs)] = 0 \/ Len(gs) = KeepFiles + 1
  <2>1. CASE m = KeepFiles
    BY <1>1, <2>1
  <2>2. CASE m # KeepFiles
    <3>1. m = Len(fs) /\ Len(fs) # KeepFiles + 1
      BY <1>0, <2>2
    <3>2. c[Len(gs)] = cut[m]
      <4>1. m + 1 \in 1..m + 1 /\ (m + 1) - 1 = m
        BY <1>0
      <4> QED BY <1>1, <1>3, <4>1
    <3> QED BY <3>1, <3>2 DEF CutsAt
  <2> QED BY <2>1, <2>2
<1>6. CutsAt(gs, q, c)
  <2>1. c \in [0..Len(gs) -> 0..Len(q)] /\ c[0] = Len(q)
    BY <1>0, <1>1, <1>3
  <2> QED BY <1>4, <1>5, <2>1 DEF CutsAt
<1> QED BY <1>6 DEF q, gs

LEMMA FilesKeep ==
  ASSUME NEW p, NEW line, Sequential(p), FilesSound, Lines!FilesHold(p), Lines!AppendToFile(line)
  PROVE  FilesSound' /\ Lines!FilesHold(Append(p, line))'
<1>0. /\ Sequential(files) /\ Len(files) \in 1..KeepFiles + 1 /\ Len(files[1]) <= FileLines
      /\ KeepFiles \in Nat /\ FileLines \in Nat \ {0} /\ Len(p) \in Nat
  BY SeqIs, LinesBounds DEF FilesSound
<1>1. PICK cut : CutsAt(files, p, cut)
  BY CutsAre
<1>2. Sequential(files[1])
  <2>1. 1 \in 1..Len(files) /\ 0 \in 0..Len(files) /\ 1 \in 0..Len(files)
    BY <1>0
  <2>2. files[1] = SubSeq(p, cut[1] + 1, cut[1 - 1]) /\ cut[1] <= cut[1 - 1]
    BY <1>1, <2>1 DEF CutsAt
  <2>3. cut[1 - 1] = Len(p) /\ cut[1] \in 0..Len(p)
    BY <1>1, <2>1 DEF CutsAt
  <2>4. cut[1] \in Nat /\ Len(p) \in 0..Len(p) /\ cut[1] <= Len(p)
    BY <1>0, <2>3
  <2>5. Sequential(SubSeq(p, cut[1] + 1, Len(p)))
    BY <2>4, SeqPart
  <2> QED BY <2>2, <2>3, <2>5
<1>3. Len(files[1]) \in Nat /\ Len(Append(files[1], line)) = Len(files[1]) + 1
  BY <1>2, SeqIs, SeqMore
<1>4. CASE Len(files[1]) < FileLines
  <2>1. files' = [files EXCEPT ![1] = Append(files[1], line)]
    BY <1>4 DEF Lines!AppendToFile, Lines!Rotate
  <2>2. \E c : CutsAt(files', Append(p, line), c)
    <3>1. Len(files) >= 1
      BY <1>0
    <3> QED BY <1>0, <1>1, <2>1, <3>1, CutsAppend
  <2>3. Sequential(files') /\ Len(files') = Len(files) /\ files'[1] = Append(files[1], line)
    <3>1. PICK e : e = Append(files[1], line)
      OBVIOUS
    <3>2. 1 \in 1..Len(files)
      BY <1>0
    <3>3. /\ Sequential([files EXCEPT ![1] = e]) /\ Len([files EXCEPT ![1] = e]) = Len(files)
          /\ \A j \in 1..Len(files) : [files EXCEPT ![1] = e][j] = IF j = 1 THEN e ELSE files[j]
      BY <1>0, <3>2, SeqPutFirst
    <3> QED BY <2>1, <3>1, <3>2, <3>3
  <2>4. Len(files'[1]) <= FileLines
    BY <1>0, <1>3, <1>4, <2>3
  <2>5. FilesSound'
    BY <1>0, <2>3, <2>4 DEF FilesSound
  <2> QED BY <2>2, <2>5 DEF Lines!FilesHold, CutsAt
<1>5. CASE ~(Len(files[1]) < FileLines)
  <2> DEFINE turned == Turned(files)
  <2>1. files' = [turned EXCEPT ![1] = Append(turned[1], line)]
    BY <1>5 DEF Lines!AppendToFile, Lines!Rotate, Turned, Fewer
  <2>0. Len(files[1]) = FileLines
    BY <1>0, <1>3, <1>5
  <2>2. \E c : CutsAt(files', Append(p, line), c)
    BY <1>0, <1>1, <2>0, <2>1, CutsTurn
  <2>3. /\ Sequential(turned) /\ Len(turned) = Fewer(Len(files), KeepFiles) + 1 /\ turned[1] = << >>
        /\ Fewer(Len(files), KeepFiles) \in 0..Len(files) /\ Fewer(Len(files), KeepFiles) <= KeepFiles
    BY <1>0, TurnedIs
  <2> HIDE DEF turned
  <2>4. Sequential(files') /\ Len(files') = Len(turned) /\ files'[1] = Append(<< >>, line)
    <3>1. PICK e : e = Append(turned[1], line)
      OBVIOUS
    <3>2. 1 \in 1..Len(turned)
      BY <1>0, <2>3
    <3>3. /\ Sequential([turned EXCEPT ![1] = e]) /\ Len([turned EXCEPT ![1] = e]) = Len(turned)
          /\ \A j \in 1..Len(turned) : [turned EXCEPT ![1] = e][j] = IF j = 1 THEN e ELSE turned[j]
      BY <2>3, <3>2, SeqPutFirst
    <3> QED BY <2>1, <2>3, <3>1, <3>2, <3>3
  <2>5. Len(Append(<< >>, line)) = 1
    BY SeqMore, SeqNone
  <2>6. FilesSound'
    BY <1>0, <2>3, <2>4, <2>5 DEF FilesSound
  <2> QED BY <2>2, <2>6 DEF Lines!FilesHold, CutsAt
<1> QED BY <1>4, <1>5

-----------------------------------------------------------------------------
(* The steps.                                                               *)

LEMMA NothingIs == \A s \in Lines!Streams : Lines!Nothing[s] = 0
  BY DEF Lines!Nothing

LEMMA LinesBegin == Lines!Init => LinesInv
<1> SUFFICES ASSUME Lines!Init PROVE LinesInv
  OBVIOUS
<1>1. /\ output \in [1..MaxFrames -> Frames] /\ MaxFrames \in Nat /\ Len(output) = MaxFrames
      /\ sent = 0 /\ parsed = 0 /\ carry = 0 /\ pushed = 0 /\ hand = << >>
  BY OutputIs, LinesBounds DEF Lines!Init
<1>2. Lines!Bytes[0] = 0 /\ \A n \in 0..MaxFrames : Lines!Bytes[n] \in Nat
  BY <1>1, BytesAre, BytesGrow
<1>3. ChunksSound
  <2>1. carry = sent - Lines!Bytes[parsed] /\ carry >= 0 /\ sent <= Lines!Bytes[MaxFrames]
    <3>1. MaxFrames \in 0..MaxFrames
      BY <1>1
    <3> QED BY <1>1, <1>2, <3>1
  <2>2. ASSUME parsed < MaxFrames
        PROVE  Lines!Bytes[parsed + 1] > sent
    <3>1. 1 \in 1..MaxFrames
      BY <1>1, <2>2
    <3>2. Lines!Bytes[1] = Lines!Bytes[1 - 1] + Lines!Size(output[1]) /\ Lines!Size(output[1]) \in Nat \ {0}
      BY <1>1, <3>1, BytesAre, FrameSizes
    <3> QED BY <1>1, <1>2, <3>2
  <2> QED BY <1>1, <2>1, <2>2 DEF ChunksSound
<1>4. Lines!Written[0] = NoLine
  BY <1>1, WrittenAre
<1>5. PartialSound
  BY <1>1, <1>4 DEF PartialSound, NoLine, Lines!Init
<1>6. FilesSound
  <2>1. Sequential(<< << >> >>) /\ Len(<< << >> >>) = 1 /\ << << >> >>[1] = << >>
    BY SeqOne
  <2>2. files = << << >> >>
    BY DEF Lines!Init
  <2> QED BY <2>1, <2>2, SeqNone, LinesBounds DEF FilesSound
<1>7. Sequential(hand)
  BY <1>1, SeqNone
<1>8. Lines!Expected = << >> \o hand
  <2>1. Lines!Written[pushed].lines = << >> /\ Lines!Written[pushed].partial = Lines!Nothing
    BY <1>1, <1>4 DEF NoLine
  <2>2. << >> \o << >> = << >>
    BY SeqNil, SeqNone
  <2>3. Lines!Unended(Lines!Nothing) = << >>
    BY UnendedIs
  <2> QED BY <1>1, <2>1, <2>2, <2>3 DEF Lines!Expected
<1>9. RingHolds(<< >>)
  <2>1. /\ Len(<< >>) = 0 /\ Capacity \in Nat \ {0} /\ next = 0 /\ count = 0
        /\ items = [i \in 0..Capacity - 1 |-> << >>]
    BY SeqNone, LinesBounds DEF Lines!Init
  <2> QED BY <2>1 DEF RingHolds
<1>10. Lines!FilesHold(<< >>)
  <2> DEFINE cut == [i \in 0..1 |-> 0]
  <2>1. Len(files) = 1 /\ files[1] = << >> /\ Len(<< >>) = 0
    BY SeqOne, SeqNone DEF Lines!Init
  <2>2. SubSeq(<< >>, 0 + 1, 0) = << >>
    OBVIOUS
  <2>3. cut \in [0..1 -> 0..0] /\ cut[0] = 0 /\ cut[1] = 0 /\ \A i \in 1..1 : i = 1
    OBVIOUS
  <2> HIDE DEF cut
  <2>4. ASSUME NEW i \in 1..Len(files)
        PROVE  /\ cut[i] <= cut[i - 1] /\ files[i] = SubSeq(<< >>, cut[i] + 1, cut[i - 1])
               /\ i > 1 => Len(files[i]) = FileLines
    <3>1. i = 1 /\ i - 1 = 0
      BY <2>1, <2>3
    <3>2. cut[i] = 0 /\ cut[i - 1] = 0 /\ files[i] = << >>
      BY <2>1, <2>3, <3>1
    <3>3. SubSeq(<< >>, cut[i] + 1, cut[i - 1]) = << >>
      BY <2>2, <3>2
    <3> QED BY <3>1, <3>2, <3>3
  <2>5. CutsAt(files, << >>, cut)
    BY <2>1, <2>3, <2>4 DEF CutsAt
  <2> QED BY <2>5, CutsAre
<1>11. HandedOver(<< >>)
  BY <1>8, <1>9, <1>10, SeqNone DEF HandedOver
<1> QED BY <1>3, <1>5, <1>6, <1>7, <1>11 DEF LinesInv

\* Where the frames put into lines and what is left of them stay, so do the lines.
LEMMA ExpectedStays ==
  ASSUME UNCHANGED <<output, sent, pushed, partial>>
  PROVE  Lines!Expected' = Lines!Expected /\ Lines!Flushed' = Lines!Flushed
<1>1. Lines!Bytes' = Lines!Bytes /\ Lines!Written' = Lines!Written
  BY BytesStay, WrittenStay
<1>2. Lines!Flushed' = Lines!Flushed
  BY <1>1 DEF Lines!Flushed, Lines!Nothing, Lines!Streams
<1> QED BY <1>1, <1>2 DEF Lines!Expected, Lines!Unended, Lines!Rest

LEMMA ReadChunkKeeps ==
  ASSUME LinesInv, Lines!ReadChunk
  PROVE  LinesInv'
<1>0. /\ output \in [1..MaxFrames -> Frames] /\ MaxFrames \in Nat /\ Len(output) = MaxFrames
      /\ parsed \in 0..MaxFrames /\ sent \in Nat /\ carry = sent - Lines!Bytes[parsed]
      /\ \A n \in 0..MaxFrames : Lines!Bytes[n] \in Nat
      /\ pushed = parsed /\ sent <= Lines!Bytes[MaxFrames]
  BY OutputIs, LinesBounds, BytesGrow DEF LinesInv, ChunksSound, Lines!ReadChunk
<1>1. PICK n \in 1..Lines!Bytes[MaxFrames] - sent :
        /\ sent' = sent + n
        /\ parsed' = parsed + Lines!DemuxPush(carry + n)
        /\ carry' = carry + n - (Lines!Bytes[parsed'] - Lines!Bytes[parsed])
  BY <1>0 DEF Lines!ReadChunk
<1>2. Lines!Bytes' = Lines!Bytes /\ Lines!Written' = Lines!Written /\ output' = output
  BY BytesStay, WrittenStay DEF Lines!ReadChunk
<1>3. Lines!Bytes[MaxFrames] \in Nat /\ n \in Nat /\ n >= 1 /\ sent + n <= Lines!Bytes[MaxFrames]
  <2>1. MaxFrames \in 0..MaxFrames
    BY <1>0
  <2>2. Lines!Bytes[MaxFrames] \in Nat
    BY <1>0, <2>1
  <2> QED BY <1>0, <2>2
<1>4. /\ parsed' \in parsed..MaxFrames /\ Lines!Bytes[parsed'] <= sent'
      /\ parsed' < MaxFrames => Lines!Bytes[parsed' + 1] > sent'
  <2>1. PICK r : r = Lines!DemuxPush(carry + n)
    OBVIOUS
  <2>2. /\ r \in 0..MaxFrames - parsed /\ Lines!Bytes[parsed + r] <= sent + n
        /\ parsed + r < MaxFrames => Lines!Bytes[parsed + r + 1] > sent + n
    <3>1. ChunksSound /\ n \in Nat /\ sent + n <= Lines!Bytes[MaxFrames]
      BY <1>3 DEF LinesInv
    <3>2. /\ Lines!DemuxPush(carry + n) \in 0..MaxFrames - parsed
          /\ Lines!Bytes[parsed + Lines!DemuxPush(carry + n)] <= sent + n
          /\ parsed + Lines!DemuxPush(carry + n) < MaxFrames
               => Lines!Bytes[parsed + Lines!DemuxPush(carry + n) + 1] > sent + n
      BY <3>1, PushReturns
    <3> QED BY <2>1, <3>2
  <2>3. parsed' = parsed + r
    BY <1>1, <2>1
  <2>4. parsed + r \in parsed..MaxFrames
    BY <1>0, <2>2
  <2>5. sent' = sent + n
    BY <1>1
  <2> QED BY <2>2, <2>3, <2>4, <2>5
<1>5. ChunksSound'
  <2>1. parsed' \in 0..MaxFrames /\ Lines!Bytes[parsed'] \in Nat /\ Lines!Bytes[parsed] \in Nat
    BY <1>0, <1>4
  <2>2. carry' = sent' - Lines!Bytes[parsed'] /\ carry' >= 0 /\ sent' \in Nat /\ sent' <= Lines!Bytes[MaxFrames]
    <3>1. PICK c, d, e : c = Lines!Bytes[parsed'] /\ d = Lines!Bytes[parsed] /\ e = Lines!Bytes[MaxFrames]
      OBVIOUS
    <3>2. c \in Nat /\ d \in Nat /\ e \in Nat /\ sent \in Nat /\ n \in Nat
      BY <1>0, <1>3, <2>1, <3>1
    <3>3. carry = sent - d /\ carry' = carry + n - (c - d) /\ sent' = sent + n /\ c <= sent' /\ sent + n <= e
      BY <1>0, <1>1, <1>3, <1>4, <3>1
    <3>4. carry' = sent' - c /\ carry' >= 0 /\ sent' \in Nat /\ sent' <= e
      BY <3>2, <3>3
    <3> QED BY <3>1, <3>4
  <2>3. pushed' \in 0..parsed'
    BY <1>0, <1>4, <2>1 DEF Lines!ReadChunk
  <2> QED BY <1>0, <1>2, <1>4, <2>1, <2>2, <2>3 DEF ChunksSound
<1>6. ~Lines!Flushed /\ ~Lines!Flushed'
  <2>1. ~Lines!Flushed
    BY <1>0, <1>3 DEF Lines!Flushed
  <2>2. pushed' # MaxFrames
    <3>1. pushed' = parsed
      BY <1>0 DEF Lines!ReadChunk
    <3>2. Lines!Bytes[parsed] <= sent
      BY <1>0 DEF LinesInv, ChunksSound
    <3> QED BY <1>0, <1>3, <3>1, <3>2
  <2> QED BY <1>0, <1>2, <2>1, <2>2 DEF Lines!Flushed
<1>7. PartialSound'
  BY <1>2, <1>6 DEF LinesInv, PartialSound, Lines!ReadChunk
<1>8. Lines!Expected' = Lines!Expected
  BY <1>2, <1>6 DEF Lines!Expected, Lines!ReadChunk
<1>9. UNCHANGED <<hand, items, next, count, files>>
  BY DEF Lines!ReadChunk
<1>10. \E p : HandedOver(p)'
  <2>1. PICK p : HandedOver(p)
    BY DEF LinesInv
  <2>2. HandedOver(p)'
    BY <1>8, <1>9, <2>1 DEF HandedOver, RingHolds, Lines!FilesHold
  <2> QED BY <2>2
<1>11. FilesSound' /\ Sequential(hand)'
  BY <1>9 DEF LinesInv, FilesSound
<1> QED BY <1>5, <1>7, <1>10, <1>11 DEF LinesInv

LEMMA PushFrameKeeps ==
  ASSUME LinesInv, Lines!PushFrame
  PROVE  LinesInv'
<1>0. /\ output \in [1..MaxFrames -> Frames] /\ MaxFrames \in Nat /\ Len(output) = MaxFrames
      /\ parsed \in 0..MaxFrames /\ pushed \in 0..parsed /\ pushed < parsed /\ pushed' = pushed + 1
      /\ pushed + 1 \in 1..MaxFrames /\ pushed + 1 - 1 = pushed /\ hand = << >>
  BY OutputIs, LinesBounds DEF LinesInv, ChunksSound, Lines!PushFrame
<1>1. UNCHANGED <<output, sent, parsed, carry, items, next, count, files>>
  BY DEF Lines!PushFrame
<1>2. Lines!Bytes' = Lines!Bytes /\ Lines!Written' = Lines!Written
  BY <1>1, BytesStay, WrittenStay
<1>3. ~Lines!Flushed
  BY <1>0 DEF Lines!Flushed
<1>4. partial = Lines!Written[pushed].partial
  BY <1>3 DEF LinesInv, PartialSound
<1>5. PICK got, frame : got = Lines!Written[pushed] /\ frame = output[pushed + 1]
  OBVIOUS
<1>6. frame \in Frames
  BY <1>0, <1>5, OutputIs
<1> DEFINE a == Lines!Assemble(got.partial[frame.stream], frame)
<1>7. hand' = a.lines /\ partial' = [got.partial EXCEPT ![frame.stream] = a.left]
  BY <1>4, <1>5 DEF Lines!PushFrame
<1>8. Sequential(a.lines)
  BY <1>6, AssembledIs
<1>9. /\ Lines!Written[pushed + 1] = AddFrame(got, frame)
      /\ AddFrame(got, frame).lines = got.lines \o a.lines
      /\ AddFrame(got, frame).partial = [got.partial EXCEPT ![frame.stream] = a.left]
  <2>1. Lines!Written[pushed + 1] = AddFrame(got, frame)
    BY <1>0, <1>5, WrittenAre
  <2> QED BY <2>1, AddFrameIs
<1> HIDE DEF a
<1>10. /\ Lines!Written[pushed + 1].lines = got.lines \o hand'
       /\ partial' = Lines!Written[pushed + 1].partial
  BY <1>7, <1>9
<1>11. PartialSound'
  BY <1>0, <1>2, <1>10 DEF PartialSound
<1>12. Sequential(hand') /\ Sequential(got.lines)
  <2>1. pushed \in 0..MaxFrames
    BY <1>0
  <2> QED BY <1>0, <1>5, <1>7, <1>8, <2>1, WrittenLines
<1>13. Lines!Expected' = got.lines \o hand'
  <2>1. Sequential(got.lines \o hand')
    BY <1>12, SeqJoin
  <2>2. CASE Lines!Flushed'
    <3>1. partial' = Lines!Nothing
      BY <2>2 DEF Lines!Flushed, Lines!Nothing, Lines!Streams
    <3>2. Lines!Expected' = Lines!Written[pushed + 1].lines \o Lines!Unended(Lines!Written[pushed + 1].partial)
      BY <1>0, <1>2, <2>2 DEF Lines!Expected, Lines!Unended, Lines!Rest
    <3>3. Lines!Unended(Lines!Written[pushed + 1].partial) = << >>
      BY <1>10, <3>1, UnendedIs
    <3>4. (got.lines \o hand') \o << >> = got.lines \o hand'
      BY <2>1, SeqNil
    <3> QED BY <1>10, <3>2, <3>3, <3>4
  <2>3. CASE ~Lines!Flushed'
    <3>1. Lines!Expected' = Lines!Written[pushed + 1].lines
      BY <1>0, <1>2, <2>3 DEF Lines!Expected
    <3> QED BY <1>10, <3>1
  <2> QED BY <2>2, <2>3
<1>14. PICK p : HandedOver(p)
  BY DEF LinesInv
<1>15. p = got.lines
  <2>1. Lines!Expected = got.lines
    BY <1>3, <1>5 DEF Lines!Expected
  <2>2. p \o << >> = p
    BY <1>14, SeqNil DEF HandedOver
  <2> QED BY <1>0, <1>14, <2>1, <2>2 DEF HandedOver
<1>16. HandedOver(p)'
  BY <1>1, <1>13, <1>14, <1>15 DEF HandedOver, RingHolds, Lines!FilesHold
<1>17. ChunksSound' /\ FilesSound'
  <2>1. pushed' \in 0..parsed'
    BY <1>0, <1>1
  <2> QED BY <1>1, <1>2, <2>1 DEF LinesInv, ChunksSound, FilesSound
<1> QED BY <1>11, <1>12, <1>16, <1>17 DEF LinesInv

\* A line that is handed over leaves the rest of them.
LEMMA HandOver ==
  ASSUME NEW p, NEW q, Sequential(p), Sequential(q), q # << >>
  PROVE  p \o q = Append(p, Head(q)) \o Tail(q)
<1> DEFINE e == Head(q)
           t == Tail(q)
           more == Append(p, e)
<1>0. /\ Len(p) \in Nat /\ Len(q) \in Nat \ {0} /\ e = q[1]
      /\ Sequential(t) /\ Len(t) = Len(q) - 1 /\ \A i \in 1..Len(q) - 1 : t[i] = q[i + 1]
  BY SeqIs, SeqRest
<1> HIDE DEF e, t
<1>1. /\ Sequential(more) /\ Len(more) = Len(p) + 1 /\ (\A i \in 1..Len(p) : more[i] = p[i]) /\ more[Len(p) + 1] = e
  BY SeqMore
<1> HIDE DEF more
<1>2. /\ Sequential(p \o q) /\ Len(p \o q) = Len(p) + Len(q)
      /\ \A i \in 1..Len(p) : (p \o q)[i] = p[i]
      /\ \A i \in 1..Len(q) : (p \o q)[Len(p) + i] = q[i]
  BY SeqJoin
<1>3. /\ Sequential(more \o t) /\ Len(more \o t) = Len(more) + Len(t)
      /\ \A i \in 1..Len(more) : (more \o t)[i] = more[i]
      /\ \A i \in 1..Len(t) : (more \o t)[Len(more) + i] = t[i]
  <2>1. Sequential(more) /\ Sequential(t)
    BY <1>0, <1>1
  <2> QED BY <2>1, SeqJoin
<1>4. ASSUME NEW i \in 1..Len(p \o q)
      PROVE  (p \o q)[i] = (more \o t)[i]
  <2>1. CASE i \in 1..Len(p)
    <3>1. i \in 1..Len(more)
      BY <1>0, <1>1, <2>1
    <3> QED BY <1>1, <1>2, <1>3, <2>1, <3>1
  <2>2. CASE i = Len(p) + 1
    <3>1. 1 \in 1..Len(q) /\ i \in 1..Len(more) /\ i = Len(p) + 1
      BY <1>0, <1>1, <2>2
    <3>2. (p \o q)[i] = q[1]
      BY <1>2, <3>1
    <3>3. (more \o t)[i] = e
      BY <1>1, <1>3, <3>1
    <3> QED BY <1>0, <3>2, <3>3
  <2>3. CASE i > Len(p) + 1
    <3>1. PICK j \in 1..Len(q) - 1 : i = Len(p) + 1 + j
      <4>1. i - (Len(p) + 1) \in 1..Len(q) - 1 /\ i = Len(p) + 1 + (i - (Len(p) + 1))
        BY <1>0, <1>2, <2>3
      <4> QED BY <4>1
    <3>2. j + 1 \in 1..Len(q) /\ i = Len(p) + (j + 1) /\ j \in 1..Len(t) /\ i = Len(more) + j
      BY <1>0, <1>1, <3>1
    <3>3. (p \o q)[i] = q[j + 1]
      BY <1>2, <3>2
    <3>4. (more \o t)[i] = t[j]
      BY <1>3, <3>2
    <3>5. t[j] = q[j + 1]
      BY <1>0
    <3> QED BY <3>3, <3>4, <3>5
  <2>4. i \in 1..Len(p) \/ i = Len(p) + 1 \/ i > Len(p) + 1
    <3>1. i \in Nat /\ i >= 1 /\ Len(p) \in Nat
      BY <1>0, <1>2
    <3> QED BY <3>1
  <2> QED BY <2>1, <2>2, <2>3, <2>4
<1>5. Len(p \o q) = Len(more \o t)
  BY <1>0, <1>1, <1>2, <1>3
<1>6. p \o q = more \o t
  BY <1>2, <1>3, <1>4, <1>5, SeqSame
<1> QED BY <1>6 DEF e, t, more

LEMMA PublishLogKeeps ==
  ASSUME LinesInv, Lines!PublishLog
  PROVE  LinesInv'
<1>1. UNCHANGED <<output, sent, parsed, carry, pushed, partial>>
  BY DEF Lines!PublishLog
<1>2. PICK p : HandedOver(p)
  BY DEF LinesInv
<1>3. PICK line : line = Head(hand)
  OBVIOUS
<1>4. /\ hand # << >> /\ hand' = Tail(hand) /\ Sequential(hand) /\ Sequential(p)
      /\ Lines!RingPush(line) /\ Lines!AppendToFile(line) /\ FilesSound
  BY <1>2, <1>3 DEF LinesInv, HandedOver, Lines!PublishLog
<1>5. Lines!Expected' = Append(p, line) \o hand'
  <2>1. Lines!Expected' = Lines!Expected
    BY <1>1, ExpectedStays
  <2>2. p \o hand = Append(p, Head(hand)) \o Tail(hand)
    BY <1>4, HandOver
  <2> QED BY <1>2, <1>3, <1>4, <2>1, <2>2 DEF HandedOver
<1>6. RingHolds(Append(p, line))'
  BY <1>2, <1>4, RingKeeps DEF HandedOver
<1>7. FilesSound' /\ Lines!FilesHold(Append(p, line))'
  BY <1>2, <1>4, FilesKeep DEF HandedOver
<1>8. Sequential(Append(p, line)) /\ Sequential(hand')
  BY <1>4, SeqMore, SeqRest
<1>9. HandedOver(Append(p, line))'
  BY <1>5, <1>6, <1>7, <1>8 DEF HandedOver
<1>10. ChunksSound' /\ PartialSound'
  <2>1. Lines!Bytes' = Lines!Bytes /\ Lines!Written' = Lines!Written
    BY <1>1, BytesStay, WrittenStay
  <2>2. Lines!Flushed' = Lines!Flushed
    BY <1>1, ExpectedStays
  <2> QED BY <1>1, <2>1, <2>2 DEF LinesInv, ChunksSound, PartialSound
<1> QED BY <1>7, <1>8, <1>9, <1>10 DEF LinesInv

LEMMA FlushKeeps ==
  ASSUME LinesInv, Lines!Flush
  PROVE  LinesInv'
<1>0. /\ output \in [1..MaxFrames -> Frames] /\ MaxFrames \in Nat /\ Len(output) = MaxFrames
      /\ parsed \in 0..MaxFrames /\ pushed = parsed /\ sent = Lines!Bytes[MaxFrames] /\ hand = << >>
      /\ partial' = Lines!Nothing /\ hand' = Lines!Unended(partial) /\ sent \in Nat
  BY OutputIs, LinesBounds DEF LinesInv, ChunksSound, Lines!Flush
<1>1. UNCHANGED <<output, sent, parsed, carry, pushed, items, next, count, files>>
  BY DEF Lines!Flush
<1>2. Lines!Bytes' = Lines!Bytes /\ Lines!Written' = Lines!Written
  BY <1>1, BytesStay, WrittenStay
<1>3. parsed = MaxFrames
  <2> SUFFICES ASSUME parsed # MaxFrames PROVE FALSE
    OBVIOUS
  <2>1. parsed + 1 \in 0..MaxFrames /\ parsed < MaxFrames /\ MaxFrames \in 0..MaxFrames
    BY <1>0
  <2>2. Lines!Bytes[parsed + 1] <= Lines!Bytes[MaxFrames] /\ Lines!Bytes[parsed + 1] \in Nat
    BY <1>0, <2>1, BytesGrow
  <2>3. Lines!Bytes[parsed + 1] > sent
    BY <2>1 DEF LinesInv, ChunksSound
  <2> QED BY <1>0, <2>2, <2>3
<1>4. ~Lines!Flushed
  <2>1. PICK s \in Lines!Streams : partial[s] > 0
    BY DEF Lines!Flush
  <2>2. partial # Lines!Nothing
    BY <2>1, NothingIs
  <2> QED BY <2>2 DEF Lines!Flushed
<1>5. Lines!Flushed'
  BY <1>0, <1>1, <1>2, <1>3 DEF Lines!Flushed, Lines!Nothing, Lines!Streams
<1>6. partial = Lines!Written[pushed].partial
  BY <1>4 DEF LinesInv, PartialSound
<1>7. PICK p : HandedOver(p)
  BY DEF LinesInv
<1>8. p = Lines!Written[pushed].lines
  <2>1. Lines!Expected = Lines!Written[pushed].lines
    BY <1>4 DEF Lines!Expected
  <2>2. p \o << >> = p
    BY <1>7, SeqNil DEF HandedOver
  <2> QED BY <1>0, <1>7, <2>1, <2>2 DEF HandedOver
<1>9. Lines!Expected' = p \o hand'
  <2>1. Lines!Expected' = Lines!Written[pushed].lines \o Lines!Unended(Lines!Written[pushed].partial)
    BY <1>1, <1>2, <1>5 DEF Lines!Expected, Lines!Unended, Lines!Rest
  <2> QED BY <1>0, <1>6, <1>8, <2>1
<1>10. HandedOver(p)'
  BY <1>1, <1>7, <1>9 DEF HandedOver, RingHolds, Lines!FilesHold
<1>11. ChunksSound' /\ FilesSound' /\ PartialSound' /\ Sequential(hand')
  BY <1>0, <1>1, <1>2, <1>5, UnendedIs DEF LinesInv, ChunksSound, FilesSound, PartialSound
<1> QED BY <1>10, <1>11 DEF LinesInv

LEMMA LinesStutter ==
  ASSUME LinesInv, UNCHANGED Lines!vars
  PROVE  LinesInv'
<1>1. UNCHANGED <<output, sent, parsed, carry, pushed, partial, hand, items, next, count, files>>
  BY DEF Lines!vars
<1>2. Lines!Bytes' = Lines!Bytes /\ Lines!Written' = Lines!Written
  BY <1>1, BytesStay, WrittenStay
<1>3. Lines!Expected' = Lines!Expected /\ Lines!Flushed' = Lines!Flushed
  BY <1>1, ExpectedStays
<1>4. PICK p : HandedOver(p)
  BY DEF LinesInv
<1>5. HandedOver(p)'
  BY <1>1, <1>3, <1>4 DEF HandedOver, RingHolds, Lines!FilesHold
<1>6. ChunksSound' /\ FilesSound' /\ PartialSound' /\ Sequential(hand')
  BY <1>1, <1>2, <1>3 DEF LinesInv, ChunksSound, FilesSound, PartialSound
<1> QED BY <1>5, <1>6 DEF LinesInv

LEMMA LinesStep ==
  ASSUME LinesInv, Lines!Next
  PROVE  LinesInv'
  BY ReadChunkKeeps, PushFrameKeeps, PublishLogKeeps, FlushKeeps DEF Lines!Next

LEMMA LinesMean ==
  ASSUME LinesInv
  PROVE  Lines!LinesArrive
<1>1. PICK p : HandedOver(p)
  BY DEF LinesInv
<1>2. Sequential(p) /\ Sequential(hand) /\ Lines!Expected = p \o hand
  BY <1>1 DEF LinesInv, HandedOver
<1>3. /\ Sequential(p \o hand) /\ Len(p \o hand) = Len(p) + Len(hand)
      /\ \A i \in 1..Len(p) : (p \o hand)[i] = p[i]
      /\ \A i \in 1..Len(hand) : (p \o hand)[Len(p) + i] = hand[i]
  BY <1>2, SeqJoin
<1>4. Len(p) \in Nat /\ Len(hand) \in Nat
  BY <1>2, SeqIs
<1> DEFINE all == p \o hand
           old == SubSeq(all, 0 + 1, Len(p))
           new == SubSeq(all, Len(p) + 1, Len(all))
<1>5. Lines!Yielded = p
  <2>1. /\ Sequential(old) /\ Len(old) = Len(p) - 0
        /\ \A i \in 1..Len(p) - 0 : old[i] = all[0 + i]
    <3>1. Len(p) \in 0..Len(all) /\ 0 <= Len(p) /\ 0 \in Nat
      BY <1>3, <1>4
    <3> HIDE DEF all
    <3> QED BY <1>3, <3>1, SeqPart DEF all
  <2>2. Len(old) = Len(p) /\ \A i \in 1..Len(p) : old[i] = p[i]
    <3> HIDE DEF old
    <3> QED BY <1>3, <1>4, <2>1
  <2>3. old = p
    <3> HIDE DEF old
    <3> QED BY <1>2, <2>1, <2>2, SeqSame
  <2>4. Len(all) - Len(hand) = Len(p) /\ 0 + 1 = 1
    BY <1>3, <1>4
  <2> QED BY <1>2, <2>3, <2>4 DEF Lines!Yielded
<1>6. hand = Lines!LastOf(Len(hand), Lines!Expected)
  <2>1. /\ Sequential(new) /\ Len(new) = Len(all) - Len(p)
        /\ \A i \in 1..Len(all) - Len(p) : new[i] = all[Len(p) + i]
    <3>1. Len(all) \in 0..Len(all) /\ Len(p) <= Len(all) /\ Len(p) \in Nat
      BY <1>3, <1>4
    <3> HIDE DEF all
    <3> QED BY <1>3, <3>1, SeqPart DEF all
  <2>2. Len(all) - Len(p) = Len(hand)
    BY <1>3, <1>4
  <2>3. Len(new) = Len(hand) /\ \A i \in 1..Len(new) : new[i] = hand[i]
    <3> HIDE DEF new
    <3> QED BY <1>3, <2>1, <2>2
  <2>4. new = hand
    <3> HIDE DEF new
    <3> QED BY <1>2, <2>1, <2>3, SeqSame
  <2>5. (IF Len(all) > Len(hand) THEN Len(all) - Len(hand) ELSE 0) = Len(p)
    BY <1>3, <1>4
  <2> QED BY <1>2, <2>4, <2>5 DEF Lines!LastOf
<1>7. \A n \in 0..Capacity : Lines!ToArray(n) = Lines!LastOf(n, Lines!Yielded)
  BY <1>1, <1>2, <1>5, ToArrayIs DEF HandedOver
<1>8. Lines!FilesHold(Lines!Yielded)
  BY <1>1, <1>5 DEF HandedOver
<1>9. carry = sent - Lines!Bytes[Lines!Whole] /\ pushed <= Lines!Whole
  <2>1. Lines!Whole = parsed
    BY WholeIs DEF LinesInv
  <2>2. pushed <= parsed
    BY DEF LinesInv, ChunksSound
  <2> QED BY <2>1, <2>2 DEF LinesInv, ChunksSound
<1>10. pushed = parsed => pushed = Lines!Whole
  BY WholeIs DEF LinesInv
<1> QED BY <1>6, <1>7, <1>8, <1>9, <1>10 DEF Lines!LinesArrive
================================================================================
