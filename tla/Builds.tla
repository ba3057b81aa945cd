--------------------------------- MODULE Builds ---------------------------------
(***************************************************************************)
(* From a branch to an image, and what becomes of the image: the image step  *)
(* of a git resource's deploy (jobs/deploy.ts, jobs/build.ts), the record of  *)
(* a build's inputs by which a push reuses an image (build/fingerprint.ts,    *)
(* db/queries.ts), rollbacks and "Deploy this again", and the prune with its  *)
(* keep set (build/images.ts, docker/impl.ts).                                *)
(*                                                                          *)
(* One resource.  An image's tag is the number of the deployment that built   *)
(* it; its content is the inputs it was built from.                           *)
(***************************************************************************)
EXTENDS Naturals, Sequences, FiniteSets, SequencesExt

CONSTANTS
  Repos,         \* repositories the resource may build
  RetainedBuilds,\* RETAINED_BUILDS
  MaxRows,       \* bound: deployments asked for
  MaxMoves,      \* bound: pushes to a branch, changes of the settings
  MaxUpsets      \* bound: failing builds and gates, crashes, images removed by hand

VARIABLES
  heads,         \* external: the commit at each branch's head
  saved,         \* the resource's source: its repository and what else a build reads
  rows,          \* its deployments
  images,        \* what each tag on the server holds
  current, previous, \* the resource's image and its rollback target
  waiting,       \* jobs
  work,          \* the job in hand
  overtaken,     \* history: tags whose deployment a crash made run again for other inputs
  moves, upsets

vars == <<heads, saved, rows, images, current, previous, waiting, work, overtaken, moves, upsets>>

Tags == 1..MaxRows
BuildPlaceholder == 0
NoCommit == 0
NoInputs == [commit |-> NoCommit, repo |-> "none", vars |-> 0]
Inputs == [commit : 0..MaxMoves + 1, repo : Repos \cup {"none"}, vars : 0..MaxMoves]
PruneJob == [kind |-> "prune", row |-> 0, image |-> 0, exists |-> FALSE, again |-> FALSE, pin |-> NoCommit]
Rest == [pc |-> "idle", job |-> PruneJob, source |-> [repo |-> "none", vars |-> 0],
         inputs |-> NoInputs, image |-> 0, keep |-> {}]

BuildsTypeOK ==
  /\ heads \in [Repos -> 1..MaxMoves + 1]
  /\ saved \in [repo : Repos, vars : 0..MaxMoves]
  /\ rows \in Seq([trigger : {"manual", "webhook", "rollback", "redeploy"}, image : 0..MaxRows,
                   inputs : Inputs, status : {"queued", "running", "succeeded", "failed"}])
  /\ images \in [Tags -> Inputs]
  /\ current \in 0..MaxRows /\ previous \in 0..MaxRows
  /\ work.pc \in {"idle", "off", "image", "resolve", "build", "name", "start", "end", "prune"}
  /\ overtaken \subseteq Tags /\ moves \in 0..MaxMoves /\ upsets \in 0..MaxUpsets

Init ==
  /\ heads = [r \in Repos |-> 1]
  /\ saved \in [repo : Repos, vars : {0}]
  /\ rows = << >> /\ images = [t \in Tags |-> NoInputs]
  /\ current = BuildPlaceholder /\ previous = BuildPlaceholder
  /\ waiting = << >> /\ work = Rest
  /\ overtaken = {} /\ moves = 0 /\ upsets = 0

At(pc) == work.pc = pc
Row == work.job.row
OnServer(tag) == tag # BuildPlaceholder /\ images[tag] # NoInputs
Upset == upsets < MaxUpsets /\ upsets' = upsets + 1
Newest(I) == CHOOSE i \in I : \A k \in I : k <= i

-----------------------------------------------------------------------------
(* Requests.                                                               *)

Ask(row, job) ==
  /\ Len(rows) < MaxRows
  /\ rows' = Append(rows, row)
  /\ waiting' = Append(waiting, [job EXCEPT !.kind = "deploy", !.row = Len(rows) + 1])

\* A push, or Deploy: it folds into a build that waits.
AskForBuild ==
  /\ \A i \in DOMAIN waiting :
       waiting[i].kind = "deploy" => waiting[i].exists \/ waiting[i].again
  /\ \E trigger \in {"manual", "webhook"} :
       Ask([trigger |-> trigger, image |-> BuildPlaceholder, inputs |-> NoInputs, status |-> "queued"],
           PruneJob)
  /\ UNCHANGED <<heads, saved, images, current, previous, work, overtaken, moves, upsets>>

\* The inputs an image was built from, by the newest row that names both.
CommitForImage(image) ==
  LET named == {i \in DOMAIN rows : rows[i].image = image /\ rows[i].inputs # NoInputs}
  IN  IF named = {} THEN NoInputs ELSE rows[Newest(named)].inputs

Rollback ==
  /\ previous # BuildPlaceholder
  /\ Ask([trigger |-> "rollback", image |-> previous, inputs |-> CommitForImage(previous),
          status |-> "queued"],
         [PruneJob EXCEPT !.image = previous, !.exists = TRUE])
  /\ UNCHANGED <<heads, saved, images, current, previous, work, overtaken, moves, upsets>>

\* The page offers it for a finished deployment that names a commit or an image.
Redeployable(row) ==
  row.status \in {"succeeded", "failed"} /\ (row.inputs # NoInputs \/ row.image # BuildPlaceholder)

EnqueueRedeploy ==
  /\ \E i \in DOMAIN rows :
       /\ Redeployable(rows[i])
       /\ Ask([rows[i] EXCEPT !.trigger = "redeploy", !.status = "queued"],
              [PruneJob EXCEPT !.image = rows[i].image, !.again = TRUE, !.pin = rows[i].inputs.commit])
  /\ UNCHANGED <<heads, saved, images, current, previous, work, overtaken, moves, upsets>>

\* Settings: another repository, or other variables or build settings.
SaveSource ==
  /\ moves < MaxMoves /\ moves' = moves + 1
  /\ saved' \in {[saved EXCEPT !.repo = r] : r \in Repos} \cup {[saved EXCEPT !.vars = @ + 1]}
  /\ saved' # saved
  /\ UNCHANGED <<heads, rows, images, current, previous, waiting, work, overtaken, upsets>>

\* The daily schedule (bound: one at a time).
AskForPrune ==
  /\ \A i \in DOMAIN waiting : waiting[i].kind # "prune"
  /\ \E i \in DOMAIN rows : rows[i].status \in {"succeeded", "failed"}
  /\ ~At("prune")
  /\ waiting' = Append(waiting, PruneJob)
  /\ UNCHANGED <<heads, saved, rows, images, current, previous, work, overtaken, moves, upsets>>

-----------------------------------------------------------------------------
(* The prune.                                                              *)

\* The newest distinct images of succeeded deployments.
Retained ==
  LET ok == {i \in DOMAIN rows : rows[i].status = "succeeded" /\ rows[i].image # BuildPlaceholder}
      newer(i) == {rows[k].image : k \in {k \in ok : k > i}}
  IN  {rows[i].image : i \in {i \in ok : Cardinality(newer(i)) < RetainedBuilds}}

ComputeKeepSet_slip == ({current} \cup Retained) \ {BuildPlaceholder}
ComputeKeepSet == ({current, previous} \cup Retained) \ {BuildPlaceholder}

\* What the keep set leaves, but never an image that a container was made from.
PruneImages ==
  /\ At("prune")
  /\ images' = [t \in Tags |-> IF t \in work.keep \cup {current} THEN images[t] ELSE NoInputs]
  /\ work' = Rest
  /\ UNCHANGED <<heads, saved, rows, current, previous, waiting, overtaken, moves, upsets>>

-----------------------------------------------------------------------------
(* A deploy, up to its container.                                          *)

\* The resource and its variables are read as the job begins.
Take ==
  /\ At("idle") /\ waiting # << >>
  /\ waiting' = Tail(waiting)
  /\ LET job == Head(waiting) IN
       IF job.kind = "prune"
       THEN work' = [Rest EXCEPT !.pc = "prune", !.job = job, !.keep = ComputeKeepSet] /\ UNCHANGED rows
       ELSE /\ work' = [Rest EXCEPT !.pc = "image", !.job = job, !.image = job.image, !.source = saved]
            /\ rows' = [rows EXCEPT ![job.row].status = "running"]
  /\ UNCHANGED <<heads, saved, images, current, previous, overtaken, moves, upsets>>

Throws ==
  /\ work' = Rest
  /\ rows' = [rows EXCEPT ![Row].status = "failed"]

\* A rollback: its image is on the server, or the deploy fails.
TakeExisting ==
  /\ At("image") /\ work.job.exists
  /\ IF OnServer(work.image) THEN work' = [work EXCEPT !.pc = "start"] /\ UNCHANGED rows ELSE Throws
  /\ UNCHANGED <<heads, saved, images, current, previous, waiting, overtaken, moves, upsets>>

RepeatDeploy_slip ==
  /\ At("image") /\ work.job.again
  /\ \/ /\ OnServer(work.image)
        /\ work' = [work EXCEPT !.pc = "start"] /\ UNCHANGED rows
     \/ /\ ~OnServer(work.image) /\ work.job.pin # NoCommit
        /\ rows' = [rows EXCEPT ![Row].image = BuildPlaceholder]
        /\ work' = [work EXCEPT !.pc = "resolve"]
     \/ /\ ~OnServer(work.image) /\ work.job.pin = NoCommit
        /\ Throws
  /\ UNCHANGED <<heads, saved, images, current, previous, waiting, overtaken, moves, upsets>>

\* "Deploy this again": the image, or its commit built again, which only the
\* repository it came from can do.
RepeatDeploy ==
  /\ At("image") /\ work.job.again
  /\ \/ /\ OnServer(work.image)
        /\ work' = [work EXCEPT !.pc = "start"] /\ UNCHANGED rows
     \/ /\ ~OnServer(work.image)
        /\ work.job.pin # NoCommit /\ rows[Row].inputs.repo = work.source.repo
        /\ rows' = [rows EXCEPT ![Row].image = BuildPlaceholder]
        /\ work' = [work EXCEPT !.pc = "resolve"]
     \/ /\ ~OnServer(work.image)
        /\ work.job.pin = NoCommit \/ rows[Row].inputs.repo # work.source.repo
        /\ Throws
  /\ UNCHANGED <<heads, saved, images, current, previous, waiting, overtaken, moves, upsets>>

BuildBranch ==
  /\ At("image") /\ ~work.job.exists /\ ~work.job.again
  /\ work' = [work EXCEPT !.pc = "resolve"]
  /\ UNCHANGED <<heads, saved, rows, images, current, previous, waiting, overtaken, moves, upsets>>

BuildFingerprint_slip(a, b) == a.commit = b.commit /\ a.repo = b.repo
\* Whether two builds have the same inputs.
BuildFingerprint(a, b) == a = b

ReusableBuilds(inputs) ==
  {i \in DOMAIN rows : rows[i].status = "succeeded" /\ rows[i].image # BuildPlaceholder
                       /\ BuildFingerprint(rows[i].inputs, inputs)}

\* The newest of them that is still on the server.
FindReusableImage(inputs) ==
  LET there == {i \in ReusableBuilds(inputs) : OnServer(rows[i].image)}
  IN  IF there = {} THEN BuildPlaceholder ELSE rows[Newest(there)].image

\* The commit is recorded before anything is built; only a push reuses.
Resolve ==
  /\ At("resolve")
  /\ LET commit == IF work.job.pin # NoCommit THEN work.job.pin ELSE heads[work.source.repo]
         inputs == [commit |-> commit, repo |-> work.source.repo, vars |-> work.source.vars]
         reused == IF rows[Row].trigger = "webhook" THEN FindReusableImage(inputs) ELSE BuildPlaceholder
     IN  /\ rows' = [rows EXCEPT ![Row].inputs = inputs]
         /\ work' = [work EXCEPT !.inputs = inputs, !.image = reused,
                                 !.pc = IF reused # BuildPlaceholder THEN "name" ELSE "build"]
         /\ overtaken' = overtaken \cup {t \in {Row, rows[Row].image} : OnServer(t) /\ images[t] # inputs}
  /\ UNCHANGED <<heads, saved, images, current, previous, waiting, moves, upsets>>

BuildSucceeds ==
  /\ At("build")
  /\ images' = [images EXCEPT ![Row] = work.inputs]
  /\ work' = [work EXCEPT !.pc = "name", !.image = Row]
  /\ UNCHANGED <<heads, saved, rows, current, previous, waiting, overtaken, moves, upsets>>

NameImage ==
  /\ At("name")
  /\ rows' = [rows EXCEPT ![Row].image = work.image]
  /\ work' = [work EXCEPT !.pc = "start"]
  /\ UNCHANGED <<heads, saved, images, current, previous, waiting, overtaken, moves, upsets>>

\* A source that cannot be resolved, fetched or built, a gate not passed.
DeployFails ==
  /\ work.pc \in {"resolve", "build", "start"} /\ Upset
  /\ Throws
  /\ UNCHANGED <<heads, saved, images, current, previous, waiting, overtaken, moves>>

\* The image of the container that goes becomes the rollback target.
RecordSuccess ==
  /\ At("start") /\ OnServer(work.image)
  /\ current' = work.image
  /\ previous' = IF current \notin {BuildPlaceholder, work.image} THEN current ELSE previous
  /\ rows' = [rows EXCEPT ![Row].status = "succeeded"]
  /\ work' = [work EXCEPT !.pc = "end"]
  /\ UNCHANGED <<heads, saved, images, waiting, overtaken, moves, upsets>>

ImageGone ==
  /\ At("start") /\ ~OnServer(work.image)
  /\ Throws
  /\ UNCHANGED <<heads, saved, images, current, previous, waiting, overtaken, moves, upsets>>

End ==
  /\ At("end")
  /\ work' = Rest
  /\ UNCHANGED <<heads, saved, rows, images, current, previous, waiting, overtaken, moves, upsets>>

-----------------------------------------------------------------------------
(* The world.                                                              *)

PushToBranch ==
  /\ moves < MaxMoves /\ moves' = moves + 1
  /\ \E r \in Repos : heads' = [heads EXCEPT ![r] = @ + 1]
  /\ UNCHANGED <<saved, rows, images, current, previous, waiting, work, overtaken, upsets>>

RemovedByHand ==
  /\ Upset
  /\ \E t \in Tags \ {current} : OnServer(t) /\ images' = [images EXCEPT ![t] = NoInputs]
  /\ UNCHANGED <<heads, saved, rows, current, previous, waiting, work, overtaken, moves>>

\* The job in hand runs again from its beginning, with the payload it had.
Crash ==
  /\ ~At("idle") /\ Upset
  /\ waiting' = << work.job >> \o waiting
  /\ work' = Rest
  /\ UNCHANGED <<heads, saved, rows, images, current, previous, overtaken, moves>>

Next ==
  \/ AskForBuild \/ Rollback \/ EnqueueRedeploy \/ SaveSource \/ AskForPrune
  \/ PruneImages \/ Take \/ TakeExisting \/ RepeatDeploy \/ BuildBranch \/ Resolve
  \/ BuildSucceeds \/ NameImage \/ DeployFails \/ RecordSuccess \/ ImageGone \/ End
  \/ PushToBranch \/ RemovedByHand \/ Crash

Spec == Init /\ [][Next]_vars

-----------------------------------------------------------------------------
(* Properties.                                                             *)

TellsTheTruth(row) ==
  row.status = "succeeded" /\ row.inputs # NoInputs /\ OnServer(row.image) => images[row.image] = row.inputs

\* What a succeeded deployment says it was built from is what its image was
\* built from, through reuse, rollback, redeploy, prune and crash, unless a
\* crash made a build run again after the branch or the settings had moved on.
RowsTellTheTruth == \A i \in DOMAIN rows : rows[i].image \notin overtaken => TellsTheTruth(rows[i])

\* The same without the exception: "the row deploys that build's artifact, so it
\* describes the same inputs as the row that built it" (db/queries.ts).
\* Refuted: README, section 3.
RowsAlwaysTellTheTruth == \A i \in DOMAIN rows : TellsTheTruth(rows[i])

\* No prune takes the image that runs or the one a rollback goes back to, and a
\* deployment that repeats another never resolves to a commit or a repository
\* that its row was not recorded with.
RollbackStep ==
  /\ PruneImages => \A t \in {current, previous} : OnServer(t) => OnServer(t)'
  /\ Resolve /\ work.job.pin # NoCommit =>
       work'.inputs.commit = rows[Row].inputs.commit /\ work'.inputs.repo = rows[Row].inputs.repo
RollbackStands == [][RollbackStep]_vars
================================================================================
