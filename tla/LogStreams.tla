------------------------------- MODULE LogStreams -------------------------------
(***************************************************************************)
(* The live log stream of a resource's container (logs/stream.ts) and what it  *)
(* fills (logs/buffer.ts, logs/file.ts): one for all viewers, begun by the      *)
(* deploy that made the container (jobs/deploy.ts) and by every tick of the     *)
(* reconciler (reconciler.ts), ended when the container is replaced, stopped    *)
(* or removed (jobs/index.ts).  A stream is aborted at once and unwinds later. *)
(*                                                                          *)
(* One resource; its containers are numbered as its deploys make them.         *)
(***************************************************************************)
EXTENDS Naturals, Sequences, FiniteSets

CONSTANTS
  MaxDeploys, \* bound: containers made
  MaxStreams, \* bound: streams begun
  MaxBreaks   \* bound: connections to Docker lost

VARIABLES
  up, there, \* the containers that run, those that exist
  row,      \* the resource's container, 0 for none
  desired,  \* "running", "stopped", or "gone" when it was deleted
  active,   \* the stream that is registered, 0 for none
  streams,  \* every stream: its container, whether it was aborted, whether it unwound
  job,      \* the deploy, stop or removal in hand, and the container it deals with
  tick,     \* the container the reconciler found running, 0 for none, and the one the row named then
  deploys, breaks

vars == <<up, there, row, desired, active, streams, job, tick, deploys, breaks>>

Containers == 1..MaxDeploys
Stream == [container : Containers, aborted : BOOLEAN, ended : BOOLEAN]
Rest == [pc |-> "idle", old |-> 0, new |-> 0]
NoTick == [found |-> 0, row |-> 0]

LogStreamsTypeOK ==
  /\ there \subseteq Containers /\ up \subseteq there /\ row \in 0..MaxDeploys
  /\ desired \in {"running", "stopped", "gone"}
  /\ streams \in Seq(Stream) /\ Len(streams) <= MaxStreams
  /\ active \in 0..MaxStreams
  /\ job \in [pc : {"idle", "made", "left", "stop", "remove"}, old : 0..MaxDeploys, new : 0..MaxDeploys]
  /\ tick \in [found : 0..MaxDeploys, row : 0..MaxDeploys]
  /\ deploys \in 0..MaxDeploys /\ breaks \in 0..MaxBreaks

Init ==
  /\ up = {} /\ there = {} /\ row = 0 /\ desired = "running" /\ active = 0 /\ streams = << >> /\ job = Rest
  /\ tick = NoTick /\ deploys = 0 /\ breaks = 0

-----------------------------------------------------------------------------
(* logs/stream.ts.                                                         *)

Aborted(all) == IF active = 0 THEN all ELSE [all EXCEPT ![active].aborted = TRUE]

StopLogStream == active' = 0 /\ streams' = Aborted(streams)

\* A no-op when the container is followed; the stream of another is stopped.
Follow(c) ==
  IF active # 0 /\ streams[active].container = c
  THEN UNCHANGED <<active, streams>>
  ELSE /\ Len(streams) < MaxStreams
       /\ streams' = Append(Aborted(streams), [container |-> c, aborted |-> FALSE, ended |-> FALSE])
       /\ active' = Len(streams) + 1

FollowEnds_slip(s) ==
  /\ streams' = [streams EXCEPT ![s].ended = TRUE]
  /\ active' = 0

\* Its record goes only while it is its own: a newer one may have its place.
FollowEnds(s) ==
  /\ streams' = [streams EXCEPT ![s].ended = TRUE]
  /\ active' = IF active = s THEN 0 ELSE active

\* Aborted, or its container stopped, or its connection broke.
StreamUnwinds ==
  /\ \E s \in DOMAIN streams :
       /\ ~streams[s].ended
       /\ \/ (streams[s].aborted \/ streams[s].container \notin up) /\ UNCHANGED breaks
          \/ breaks < MaxBreaks /\ breaks' = breaks + 1
       /\ FollowEnds(s)
  /\ UNCHANGED <<up, there, row, desired, job, tick, deploys>>

-----------------------------------------------------------------------------
(* The jobs, one at a time.                                                *)

\* Created and healthy; the route is switched.
DeployMakes ==
  /\ job.pc = "idle" /\ desired # "gone" /\ deploys < MaxDeploys
  /\ deploys' = deploys + 1
  /\ up' = up \cup {deploys + 1} /\ there' = there \cup {deploys + 1}
  /\ job' = [pc |-> "made", old |-> row, new |-> deploys + 1]
  /\ UNCHANGED <<row, desired, active, streams, tick, breaks>>

\* The old container's stream ends before it is stopped and removed.
DeployDrains ==
  /\ job.pc = "made"
  /\ IF job.old # 0 THEN StopLogStream ELSE UNCHANGED <<active, streams>>
  /\ job' = [job EXCEPT !.pc = "left"]
  /\ UNCHANGED <<up, there, row, desired, tick, deploys, breaks>>

StopsOld ==
  /\ job.pc = "left" /\ job.old \in there
  /\ up' = up \ {job.old} /\ there' = there \ {job.old}
  /\ UNCHANGED <<row, desired, active, streams, job, tick, deploys, breaks>>

DeployEnds ==
  /\ job.pc = "left" /\ job.old \notin there
  /\ row' = job.new /\ desired' = "running"
  /\ Follow(job.new)
  /\ job' = Rest
  /\ UNCHANGED <<up, there, tick, deploys, breaks>>

\* Stop and remove begin alike, with the container the row names then; a
\* removal says at once what it wants.
StopBegins ==
  /\ job.pc = "idle" /\ desired # "gone"
  /\ StopLogStream
  /\ \/ job' = [Rest EXCEPT !.pc = "stop", !.old = row] /\ UNCHANGED desired
     \/ job' = [Rest EXCEPT !.pc = "remove", !.old = row] /\ desired' = "stopped"
  /\ UNCHANGED <<up, there, row, tick, deploys, breaks>>

StopEnds ==
  /\ job.pc = "stop"
  /\ up' = up \ {job.old} /\ desired' = "stopped" /\ job' = Rest
  /\ UNCHANGED <<there, row, active, streams, tick, deploys, breaks>>

RemoveEnds ==
  /\ job.pc = "remove"
  /\ up' = {} /\ there' = {} /\ row' = 0 /\ desired' = "gone" /\ job' = Rest
  /\ UNCHANGED <<active, streams, tick, deploys, breaks>>

-----------------------------------------------------------------------------
(* The reconciler.                                                         *)

\* It takes one of the resource's running containers from a list, then asks
\* about it; much may have changed by the answer.
TickLists ==
  /\ tick.found = 0 /\ desired = "running"
  /\ \E c \in up : tick' = [found |-> c, row |-> row]
  /\ UNCHANGED <<up, there, row, desired, active, streams, job, deploys, breaks>>

TickFollows ==
  /\ tick.found # 0
  /\ tick' = NoTick
  /\ IF tick.found \in there
     THEN /\ Follow(tick.found)
          /\ row' = IF desired = "gone" \/ tick.row = tick.found THEN row ELSE tick.found
     ELSE UNCHANGED <<row, active, streams>>
  /\ UNCHANGED <<up, there, desired, job, deploys, breaks>>

Next ==
  \/ StreamUnwinds \/ DeployMakes \/ DeployDrains \/ StopsOld \/ DeployEnds
  \/ StopBegins \/ StopEnds \/ RemoveEnds \/ TickLists \/ TickFollows

Spec == Init /\ [][Next]_vars

-----------------------------------------------------------------------------
(* Properties.                                                             *)

Live == {s \in DOMAIN streams : ~streams[s].ended /\ ~streams[s].aborted}

\* A stream nobody aborted is the one that is registered, so there is one at
\* most and whoever replaces or stops it can; and no record outlives its stream,
\* or its container would never be followed again.
StreamTracked == Live = {active} \ {0}
================================================================================
