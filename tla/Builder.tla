-------------------------------- MODULE Builder --------------------------------
(***************************************************************************)
(* The build daemon and a build in it: the daemon's bootstrap               *)
(* (build/bootstrap.ts) with the memory cap it is made under                *)
(* (build/memory.ts), the reconciler's watch over it (reconciler.ts), and    *)
(* the build's client with its stall check, its timeout and the restart      *)
(* after it (build/index.ts, build/run.ts, proc/stream.ts).                  *)
(*                                                                          *)
(* Memory is counted in MiB.  The daemon may be stopped, removed or hang;    *)
(* calls fail; musdash crashes; its host may be resized while it is down.    *)
(***************************************************************************)
EXTENDS Integers, Sequences, FiniteSets

CONSTANTS
  Hosts,       \* memory the Docker host may have
  Overrides,   \* what MUSDASH_BUILDKIT_MEMORY_MB may say, or Unset
  Unset,
  Enough,      \* external: a daemon with less does not stay up
  MaxBuilds,   \* bound: builds asked for
  MaxMishaps   \* bound: failing calls, crashes, what happens to the daemon

VARIABLES
  daemon,      \* the container
  host, override,
  todo,        \* waiting jobs, in order
  hand,        \* the worker's step, and whether the bootstrap adopted
  bucket,      \* a bootstrap was queued in this minute
  client,      \* the build's client
  verdict,     \* the last build's outcome
  ready,       \* history: a bootstrap of this process ended well
  unstopped,   \* history: a failed build's restart did not happen
  builds, mishaps

vars == <<daemon, host, override, todo, hand, bucket, client, verdict, ready, unstopped, builds, mishaps>>
settings == <<host, override>>

NoDaemon == [made |-> FALSE, gen |-> "new", cap |-> 0, up |-> FALSE, hung |-> FALSE, left |-> FALSE]
NoClient == [silent |-> FALSE, asked |-> "no", stopped |-> "no", exit |-> "no"]
Rest == [pc |-> "idle", adopted |-> FALSE]

BuilderTypeOK ==
  /\ daemon \in [made : BOOLEAN, gen : {"old", "new"}, cap : Nat, up : BOOLEAN,
                 hung : BOOLEAN, left : BOOLEAN]
  /\ host \in Hosts /\ override \in Overrides
  /\ todo \in Seq({"ensure", "build"})
  /\ hand \in [pc : {"off", "idle", "look", "create", "start", "wait", "build", "stop", "restart", "again"},
               adopted : BOOLEAN]
  /\ bucket \in BOOLEAN
  /\ client \in [silent : BOOLEAN, asked : {"no", "fine", "starved"},
                 stopped : {"no", "aborted", "timeout"}, exit : {"no", "zero", "other"}]
  /\ verdict \in {"none", "built", "starved", "timeout", "failed"}
  /\ ready \in BOOLEAN /\ unstopped \in BOOLEAN
  /\ builds \in 0..MaxBuilds /\ mishaps \in 0..MaxMishaps

\* Installed before: nothing, or a daemon of an older definition.
Init ==
  /\ host \in Hosts /\ override \in Overrides
  /\ daemon \in {NoDaemon, [NoDaemon EXCEPT !.made = TRUE, !.gen = "old", !.cap = Enough, !.up = TRUE]}
  /\ todo = << >> /\ hand = [Rest EXCEPT !.pc = "off"] /\ bucket = FALSE
  /\ client = NoClient /\ verdict = "none" /\ ready = FALSE /\ unstopped = FALSE
  /\ builds = 0 /\ mishaps = 0

At(pc) == hand.pc = pc
Go(pc) == hand' = [hand EXCEPT !.pc = pc]
Mishap == mishaps < MaxMishaps /\ mishaps' = mishaps + 1
\* The daemon round-trips through its socket.
Probe == daemon.up /\ ~daemon.hung

-----------------------------------------------------------------------------
(* The memory cap.                                                         *)

Reserve == 576
Floor == 192
Ceiling == 8192
Step == 32

\* The host's memory less a reserve, at most half of it, in steps.
BuildkitMemoryCap(total) ==
  LET raw == IF total - Reserve < total \div 2 THEN total - Reserve ELSE total \div 2
      stepped == (raw \div Step) * Step
  IN  IF stepped < Floor THEN Floor ELSE IF stepped > Ceiling THEN Ceiling ELSE stepped

\* An override at or above the host's memory is refused.
Refused == override # Unset /\ override >= host
ResolveMemoryCap == IF override = Unset THEN BuildkitMemoryCap(host) ELSE override

-----------------------------------------------------------------------------
(* The bootstrap.  It has one attempt.                                     *)

Current_slip == daemon.made /\ daemon.gen = "new"
\* A daemon of this definition, made for this user and under this cap, is adopted.
Current == daemon.made /\ daemon.gen = "new" /\ daemon.cap = ResolveMemoryCap

\* The cap first: a refused override leaves the daemon as it is.
Look ==
  /\ At("look")
  /\ \/ /\ Refused
        /\ hand' = Rest /\ UNCHANGED daemon
     \/ /\ ~Refused /\ Current
        /\ hand' = [pc |-> "start", adopted |-> TRUE] /\ UNCHANGED daemon
     \/ /\ ~Refused /\ ~Current
        /\ daemon' = NoDaemon
        /\ hand' = [pc |-> "create", adopted |-> FALSE]
  /\ UNCHANGED <<settings, todo, bucket, client, verdict, ready, unstopped, builds, mishaps>>

Create ==
  /\ At("create")
  /\ daemon' = [NoDaemon EXCEPT !.made = TRUE, !.cap = ResolveMemoryCap]
  /\ Go("start")
  /\ UNCHANGED <<settings, todo, bucket, client, verdict, ready, unstopped, builds, mishaps>>

\* Starting one that runs changes nothing.
Started == [daemon EXCEPT !.up = daemon.cap >= Enough]

\* One made by this job is removed when it does not come up, an adopted one is
\* kept; the removal's own failure is only logged.
GiveUp(box) ==
  /\ hand' = Rest
  /\ \/ daemon' = (IF hand.adopted THEN box ELSE NoDaemon) /\ UNCHANGED mishaps
     \/ ~hand.adopted /\ daemon' = box /\ Mishap

Start ==
  /\ At("start")
  /\ IF daemon.made /\ (Started.up \/ hand.adopted)
     THEN daemon' = Started /\ Go("wait") /\ UNCHANGED mishaps
     ELSE GiveUp(IF daemon.made THEN Started ELSE NoDaemon)
  /\ UNCHANGED <<settings, todo, bucket, client, verdict, ready, unstopped, builds>>

\* Until it answers; an exit, or thirty seconds without an answer, is an error.
WaitForDaemon ==
  /\ At("wait")
  /\ IF Probe THEN hand' = Rest /\ ready' = TRUE /\ UNCHANGED <<daemon, mishaps>>
              ELSE GiveUp(daemon) /\ UNCHANGED ready
  /\ UNCHANGED <<settings, todo, bucket, client, verdict, unstopped, builds>>

\* A call of the bootstrap, of the restart after a build or of the job's end fails.
CallFails ==
  /\ hand.pc \in {"look", "create", "start"}
  /\ Mishap
  /\ hand' = Rest
  /\ daemon' = IF At("start") /\ ~hand.adopted THEN NoDaemon ELSE daemon
  /\ UNCHANGED <<settings, todo, bucket, client, verdict, ready, unstopped, builds>>

-----------------------------------------------------------------------------
(* A build.                                                                *)

AskForBuild ==
  /\ ~At("off") /\ builds < MaxBuilds
  /\ builds' = builds + 1
  /\ todo' = Append(todo, "build")
  /\ UNCHANGED <<daemon, settings, hand, bucket, client, verdict, ready, unstopped, mishaps>>

Take ==
  /\ At("idle") /\ todo # << >>
  /\ todo' = Tail(todo)
  /\ IF Head(todo) = "ensure" THEN Go("look") /\ UNCHANGED <<client, verdict>>
                              ELSE Go("build") /\ client' = NoClient /\ verdict' = "none"
  /\ UNCHANGED <<daemon, settings, bucket, ready, unstopped, builds, mishaps>>

\* A line, or long enough without one.
Prints ==
  /\ At("build") /\ client.exit = "no"
  /\ client' = [client EXCEPT !.silent = ~@]
  /\ UNCHANGED <<daemon, settings, todo, hand, bucket, verdict, ready, unstopped, builds, mishaps>>

\* The stall check, one at a time.  A daemon that cannot be asked is not starved.
Ask ==
  /\ At("build") /\ client.silent /\ client.asked = "no" /\ client.stopped # "aborted"
  /\ \E reading \in {"fine", "starved"} : client' = [client EXCEPT !.asked = reading]
  /\ UNCHANGED <<daemon, settings, todo, hand, bucket, verdict, ready, unstopped, builds, mishaps>>

\* The first stop is the one that counts, and none counts after the exit.
Stop(why) == [client EXCEPT !.stopped = IF @ = "no" /\ client.exit = "no" THEN why ELSE @, !.asked = "no"]

\* A line printed meanwhile makes the reading stale.
Answered ==
  /\ At("build") /\ client.asked # "no"
  /\ client' = IF client.asked = "starved" /\ client.silent THEN Stop("aborted")
               ELSE [client EXCEPT !.asked = "no"]
  /\ UNCHANGED <<daemon, settings, todo, hand, bucket, verdict, ready, unstopped, builds, mishaps>>

TimesOut ==
  /\ At("build") /\ client.stopped = "no" /\ client.exit = "no"
  /\ client' = [client EXCEPT !.stopped = "timeout"]
  /\ UNCHANGED <<daemon, settings, todo, hand, bucket, verdict, ready, unstopped, builds, mishaps>>

\* A client that ends otherwise than well may leave its steps running in the daemon.
Exits ==
  /\ At("build") /\ client.exit = "no"
  /\ \E code \in {"zero", "other"} :
       /\ code = "zero" => Probe
       /\ client' = [client EXCEPT !.exit = code]
       /\ \E left \in {daemon.left, daemon.up /\ code = "other"} :
            daemon' = [daemon EXCEPT !.left = daemon.left \/ left]
  /\ UNCHANGED <<settings, todo, hand, bucket, verdict, ready, unstopped, builds, mishaps>>

Verdict_slip ==
  IF client.stopped = "aborted" THEN "starved"
  ELSE IF client.stopped = "timeout" THEN "timeout"
  ELSE IF client.exit = "zero" THEN "built" ELSE "failed"

\* An exit of 0 counts, whatever was decided meanwhile.
Verdict ==
  IF client.exit = "zero" THEN "built"
  ELSE IF client.stopped = "aborted" THEN "starved"
  ELSE IF client.stopped = "timeout" THEN "timeout" ELSE "failed"

BuildImage_slip ==
  /\ At("build") /\ client.exit # "no"
  /\ verdict' = Verdict
  /\ \/ Verdict # "failed" /\ Go("stop")
     \/ Verdict \in {"built", "failed"} /\ hand' = Rest
  /\ UNCHANGED <<daemon, settings, todo, bucket, client, ready, unstopped, builds, mishaps>>

\* After a failure the daemon is restarted, and after a build that left it its heap.
BuildImage ==
  /\ At("build") /\ client.exit # "no"
  /\ verdict' = Verdict
  /\ \/ Go("stop")
     \/ Verdict = "built" /\ hand' = Rest
  /\ UNCHANGED <<daemon, settings, todo, bucket, client, ready, unstopped, builds, mishaps>>

\* The restart: it never throws, so a missing daemon or a failing call ends it.
RestartBuildkit ==
  /\ \/ /\ At("stop") /\ daemon.made
        /\ daemon' = [daemon EXCEPT !.up = FALSE, !.hung = FALSE, !.left = FALSE]
        /\ Go("restart") /\ UNCHANGED <<unstopped, mishaps>>
     \/ /\ At("stop") /\ ~daemon.made
        /\ hand' = Rest /\ UNCHANGED <<daemon, unstopped, mishaps>>
     \/ /\ At("restart")
        /\ daemon' = IF daemon.made THEN Started ELSE daemon
        /\ Go("again") /\ UNCHANGED <<unstopped, mishaps>>
     \/ /\ At("again")
        /\ hand' = Rest /\ UNCHANGED <<daemon, unstopped, mishaps>>
     \/ /\ hand.pc \in {"stop", "restart"} /\ Mishap
        /\ hand' = Rest /\ unstopped' = (unstopped \/ At("stop")) /\ UNCHANGED daemon
  /\ UNCHANGED <<settings, todo, bucket, client, verdict, ready, builds>>

-----------------------------------------------------------------------------
(* The reconciler, boots, crashes, and the world.                          *)

EnsureBuildkitQueued_slip ==
  /\ At("idle") /\ ~bucket /\ daemon.up /\ ~Probe
  /\ todo' = Append(todo, "ensure") /\ bucket' = TRUE
  /\ UNCHANGED <<daemon, settings, hand, client, verdict, ready, unstopped, builds, mishaps>>

\* A running daemon is not asked while the worker runs a job.
EnsureBuildkitQueued ==
  /\ ~At("off") /\ ~bucket
  /\ ~daemon.up \/ (At("idle") /\ ~Probe)
  /\ todo' = Append(todo, "ensure") /\ bucket' = TRUE
  /\ UNCHANGED <<daemon, settings, hand, client, verdict, ready, unstopped, builds, mishaps>>

\* The minute in a bootstrap's id passes (bound: not while one of this process waits).
BucketRolls ==
  /\ bucket /\ \A i \in DOMAIN todo : todo[i] # "ensure"
  /\ bucket' = FALSE
  /\ UNCHANGED <<daemon, settings, todo, hand, client, verdict, ready, unstopped, builds, mishaps>>

\* A process begins with a bootstrap of its own id, in the settings it finds.
Boot ==
  /\ At("off")
  /\ hand' = Rest /\ bucket' = TRUE
  /\ todo' = Append(todo, "ensure")
  /\ UNCHANGED <<daemon, settings, client, verdict, ready, unstopped, builds, mishaps>>

\* The job in hand runs again; the client dies, its steps perhaps not.
Crash ==
  /\ ~At("off") /\ Mishap
  /\ hand' = [Rest EXCEPT !.pc = "off"] /\ bucket' = FALSE /\ ready' = FALSE
  /\ todo' = IF At("idle") THEN todo
             ELSE << IF hand.pc \in {"look", "create", "start", "wait"} THEN "ensure" ELSE "build" >> \o todo
  /\ client' = NoClient
  /\ unstopped' = (unstopped \/ hand.pc \in {"build", "stop"})
  /\ \E left \in {daemon.left, daemon.left \/ (At("build") /\ daemon.up)} :
       daemon' = [daemon EXCEPT !.left = left]
  /\ \/ UNCHANGED settings
     \/ host' \in Hosts /\ override' \in Overrides
  /\ UNCHANGED <<verdict, builds>>

\* It stops, is removed, or hangs.
DaemonFails ==
  /\ daemon.up /\ Mishap
  /\ daemon' \in {[daemon EXCEPT !.up = FALSE, !.hung = FALSE, !.left = FALSE], NoDaemon,
                  [daemon EXCEPT !.hung = TRUE]}
  /\ UNCHANGED <<settings, todo, hand, bucket, client, verdict, ready, unstopped, builds>>

Work ==
  \/ Look \/ Create \/ Start \/ WaitForDaemon \/ Take \/ BuildImage \/ RestartBuildkit

Next ==
  \/ Work \/ CallFails \/ AskForBuild \/ Prints \/ Ask \/ Answered \/ TimesOut \/ Exits
  \/ EnsureBuildkitQueued \/ BucketRolls \/ Boot \/ Crash \/ DaemonFails

Spec == Init /\ [][Next]_vars

\* The worker runs, timers fire, a stopped client is killed, the minute passes.
Fairness ==
  /\ WF_vars(Work) /\ WF_vars(Boot) /\ WF_vars(TimesOut) /\ WF_vars(Exits /\ client.stopped # "no")
  /\ SF_vars(EnsureBuildkitQueued) /\ WF_vars(BucketRolls)
FairSpec == Spec /\ Fairness

-----------------------------------------------------------------------------
(* Properties.                                                             *)

\* A build whose client ended well is a build, though its stop was under way.
BuiltImageCounts == verdict # "none" /\ client.exit = "zero" => verdict = "built"

\* No build runs beside what a failed one left in the daemon, unless a crash or
\* a failing call kept the daemon from its restart (build/index.ts).
BuildsAlone == At("build") /\ client.exit = "no" /\ daemon.left => unstopped

\* A daemon that a bootstrap of this process left ready has the definition and
\* the cap that the process would give it now.
CapIsCurrent == ready /\ daemon.made => daemon.gen = "new" /\ daemon.cap = ResolveMemoryCap

\* A daemon that is gone or down comes back, unless it hangs, its override is
\* refused, or its cap is too low for it to stay up.
Healed == Probe \/ daemon.hung \/ Refused \/ ResolveMemoryCap < Enough
DaemonHeals == <>[]Healed
================================================================================
