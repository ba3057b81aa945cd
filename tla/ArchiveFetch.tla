------------------------------ MODULE ArchiveFetch ------------------------------
(***************************************************************************)
(* The download of a repository's archive into a build directory            *)
(* (github/archive-fetch.ts, github/tarball.ts, build/workdir.ts): a redirect *)
(* from GitHub, a body that tar extracts while it comes, a watchdog for a     *)
(* link that went quiet and for the time all of it may take, and one retry.  *)
(*                                                                          *)
(* Time passes in ticks, never past a timer that is due.                     *)
(***************************************************************************)
EXTENDS Naturals

CONSTANTS
  Pieces,   \* an archive's length
  Cap,      \* capMs
  Stall,    \* stallMs
  Grace,    \* killGraceMs and drainMs together
  ApiWait,  \* the API's hop: a token's mint and the request, both again after a
            \* 401, each with ghFetch's own signal, and the watchdog's next look
  MaxCrashes \* bound: musdash dies

VARIABLES
  now,      \* ticks since the download began
  attempt,  \* the one under way: where it is, which, and how it failed
  quiet,    \* ticks since its last byte; while it asks the API, since it asked
  stopped,  \* what the watchdog decided
  body,     \* the body: pieces left, whether a read failed, whether tar's input is closed
  tar,      \* tar, by attempt: "none", "runs", "asked" to end, "gone"; the piece in its pipe; its
            \* exit code
  asked,    \* ticks since tar was asked
  tree,     \* pieces in the build directory, by the attempt that wrote them
  crashes

vars == <<now, attempt, quiet, stopped, body, tar, asked, tree, crashes>>

Attempts == {1, 2}
NoBody == [left |-> Pieces, failed |-> FALSE, closed |-> FALSE]
NoTar == [pc |-> "none", held |-> 0, ok |-> FALSE]
Failures == {"none", "stall", "network", "http", "timeout", "final", "cap", "tar"}
Running == attempt.pc \in {"begin", "locate", "fetch", "stream", "failed"}

ArchiveTypeOK ==
  /\ now \in Nat
  /\ attempt \in [pc : {"idle", "begin", "locate", "fetch", "stream", "failed", "ok", "lost"},
                  n : Attempts, failure : Failures]
  /\ quiet \in Nat /\ stopped \in {"no", "stall", "cap"}
  /\ body \in [left : 0..Pieces, failed : BOOLEAN, closed : BOOLEAN]
  /\ tar \in [Attempts -> [pc : {"none", "runs", "asked", "gone"}, held : 0..1, ok : BOOLEAN]]
  /\ asked \in Nat /\ tree \in [Attempts -> 0..Pieces] /\ crashes \in 0..MaxCrashes

Idle == [pc |-> "idle", n |-> 1, failure |-> "none"]
Empty == [n \in Attempts |-> 0]

Init ==
  /\ now = 0 /\ attempt = Idle /\ quiet = 0 /\ stopped = "no" /\ body = NoBody
  /\ tar = [n \in Attempts |-> NoTar] /\ asked = 0 /\ tree = Empty /\ crashes = 0

Goes(pc) == attempt' = [attempt EXCEPT !.pc = pc]
Fails(failure) == attempt' = [attempt EXCEPT !.pc = "failed", !.failure = failure]
Mine == tar[attempt.n]

-----------------------------------------------------------------------------
(* One attempt: fetchArchive.                                              *)

\* The build directory is made anew, whatever was left in it.
CreateBuildDir ==
  /\ attempt.pc = "idle"
  /\ now' = 0 /\ attempt' = [Idle EXCEPT !.pc = "begin"] /\ tree' = Empty
  /\ tar' = [n \in Attempts |-> NoTar] /\ quiet' = 0 /\ stopped' = "no" /\ body' = NoBody /\ asked' = 0
  /\ UNCHANGED crashes

Deadline_slip == IF attempt.n = 1 THEN Cap ELSE 2 * Cap
\* Both attempts have the one that was fixed before the first.
Deadline == Cap

AttemptBegins ==
  /\ attempt.pc = "begin"
  /\ IF now >= Deadline THEN Fails("cap") ELSE Goes("locate")
  /\ quiet' = 0 /\ stopped' = "no" /\ body' = NoBody /\ asked' = 0
  /\ UNCHANGED <<now, tar, tree, crashes>>

\* GitHub's redirect; its 5xx; or what no retry can mend.
Locate ==
  /\ attempt.pc = "locate"
  /\ \/ quiet < ApiWait /\ Goes("fetch")
     \/ quiet < ApiWait /\ (Fails("http") \/ Fails("final"))
     \/ quiet >= ApiWait /\ Fails("timeout")
  /\ quiet' = 0
  /\ UNCHANGED <<now, stopped, body, tar, asked, tree, crashes>>

\* The archive host's answer, and tar, which reads it as it comes.
FetchAnswers ==
  /\ attempt.pc = "fetch" /\ stopped = "no"
  /\ \/ Goes("stream") /\ tar' = [tar EXCEPT ![attempt.n].pc = "runs"]
     \/ (Fails("network") \/ Fails("http") \/ Fails("final")) /\ UNCHANGED tar
  /\ quiet' = 0
  /\ UNCHANGED <<now, stopped, body, asked, tree, crashes>>

FetchAborted ==
  /\ attempt.pc = "fetch" /\ stopped # "no"
  /\ Fails(stopped)
  /\ UNCHANGED <<now, quiet, stopped, body, tar, asked, tree, crashes>>

\* A piece is read when tar's pipe wants one.
Pull ==
  /\ attempt.pc = "stream" /\ Mine.pc \in {"runs", "asked"} /\ ~body.closed /\ Mine.held = 0
  /\ body' = [body EXCEPT !.left = @ - 1, !.closed = body.left = 1]
  /\ tar' = [tar EXCEPT ![attempt.n].held = 1]
  /\ quiet' = 0
  /\ UNCHANGED <<now, attempt, stopped, asked, tree, crashes>>

TarWrites ==
  /\ \E n \in Attempts :
       /\ tar[n].pc \in {"runs", "asked"} /\ tar[n].held = 1
       /\ tree' = [tree EXCEPT ![n] = @ + 1] /\ tar' = [tar EXCEPT ![n].held = 0]
  /\ UNCHANGED <<now, attempt, quiet, stopped, body, asked, crashes>>

\* The connection breaks: tar's input ends early.
ReadFails ==
  /\ attempt.pc = "stream" /\ ~body.closed /\ stopped = "no"
  /\ body' = [body EXCEPT !.failed = TRUE, !.closed = TRUE]
  /\ UNCHANGED <<now, attempt, quiet, stopped, tar, asked, tree, crashes>>

\* The watchdog, from the request to the archive host on, until tar has exited.
Due == IF now >= Deadline THEN "cap" ELSE IF quiet >= Stall THEN "stall" ELSE "no"
WatchDue == attempt.pc \in {"fetch", "stream"} /\ stopped = "no" /\ Mine.pc # "gone" /\ Due # "no"

\* It cancels the body and asks tar to end; the piece in the pipe stays there.
Watch ==
  /\ WatchDue
  /\ stopped' = Due
  /\ body' = [body EXCEPT !.closed = @ \/ attempt.pc = "stream"]
  /\ tar' = [tar EXCEPT ![attempt.n].pc = IF @ = "runs" THEN "asked" ELSE @]
  /\ asked' = 0
  /\ UNCHANGED <<now, attempt, quiet, tree, crashes>>

\* tar ends: well, when it got the whole of it; with an error on what was cut
\* short, on a full disk, or because it was asked or killed.
TarExits ==
  /\ \E n \in Attempts :
       /\ tar[n].pc \in {"runs", "asked"}
       /\ \E ok \in BOOLEAN :
            /\ ok => tree[n] = Pieces
            /\ tar' = [tar EXCEPT ![n] = [pc |-> "gone", held |-> 0, ok |-> ok]]
  /\ UNCHANGED <<now, attempt, quiet, stopped, body, asked, tree, crashes>>

KillDue == \E n \in Attempts : tar[n].pc = "asked" /\ asked >= Grace

FetchArchive_slip ==
  /\ attempt.pc = "stream" /\ (Mine.pc = "gone" \/ stopped # "no")
  /\ IF Mine.ok THEN Goes("ok")
     ELSE IF stopped # "no" THEN Fails(stopped)
     ELSE IF body.failed THEN Fails("network") ELSE Fails("tar")
  /\ UNCHANGED <<now, quiet, stopped, body, tar, asked, tree, crashes>>

\* The attempt settles when its tar has exited, and a tar that ended well
\* did its work whatever the watchdog decided.
FetchArchive ==
  /\ attempt.pc = "stream" /\ Mine.pc = "gone"
  /\ IF Mine.ok THEN Goes("ok")
     ELSE IF stopped # "no" THEN Fails(stopped)
     ELSE IF body.failed THEN Fails("network") ELSE Fails("tar")
  /\ UNCHANGED <<now, quiet, stopped, body, tar, asked, tree, crashes>>

-----------------------------------------------------------------------------
(* The download: withOneRetry.                                             *)

RetryReason(failure) == failure \in {"stall", "network", "http", "timeout"}

EmptyDirInPlace == Empty

WithOneRetry ==
  /\ attempt.pc = "failed"
  /\ IF attempt.n = 1 /\ RetryReason(attempt.failure)
     THEN attempt' = [pc |-> "begin", n |-> 2, failure |-> "none"] /\ tree' = EmptyDirInPlace
     ELSE attempt' = [attempt EXCEPT !.pc = "lost"] /\ UNCHANGED tree
  /\ UNCHANGED <<now, quiet, stopped, body, tar, asked, crashes>>

\* The build has what it needs, or has failed, and its directory goes.
RemoveBuildDir ==
  /\ attempt.pc \in {"ok", "lost"}
  /\ attempt' = Idle /\ tree' = Empty
  /\ UNCHANGED <<now, quiet, stopped, body, tar, asked, crashes>>

\* Its children die with it; the directory stays as it was.
Crash ==
  /\ attempt.pc # "idle" /\ crashes < MaxCrashes /\ crashes' = crashes + 1
  /\ attempt' = Idle
  /\ tar' = [n \in Attempts |-> NoTar]
  /\ UNCHANGED <<now, quiet, stopped, body, asked, tree>>

Tick ==
  /\ Running /\ ~WatchDue /\ ~KillDue
  /\ attempt.pc \notin {"begin", "failed"} /\ ~(attempt.pc = "stream" /\ Mine.pc = "gone")
  /\ ~(attempt.pc = "fetch" /\ stopped # "no")
  /\ attempt.pc = "locate" => quiet < ApiWait
  /\ now' = now + 1 /\ quiet' = quiet + 1 /\ asked' = IF Mine.pc = "asked" THEN asked + 1 ELSE asked
  /\ UNCHANGED <<attempt, stopped, body, tar, tree, crashes>>

Next ==
  \/ CreateBuildDir \/ AttemptBegins \/ Locate \/ FetchAnswers \/ FetchAborted
  \/ Pull \/ TarWrites \/ ReadFails \/ Watch \/ TarExits \/ FetchArchive
  \/ WithOneRetry \/ RemoveBuildDir \/ Crash \/ Tick

Spec == Init /\ [][Next]_vars

-----------------------------------------------------------------------------
(* Properties.                                                             *)

\* A download that succeeds leaves the whole tree of one attempt and nothing
\* of another: no tar of a failed attempt writes on once its successor may.
WholeTree == attempt.pc = "ok" => \E n \in Attempts : tree = [Empty EXCEPT ![n] = Pieces]

\* It ends by its cap, but for the API's hop it may be waiting in then and the
\* tar it may have to kill: the worker is not held longer.
EndsByTheCap == Running => now <= Cap + ApiWait + Grace
================================================================================
