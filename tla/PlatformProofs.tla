----------------------------- MODULE PlatformProofs -----------------------------
(***************************************************************************)
(* What holds of the parts MCPlatform runs side by side, for every value of   *)
(* their constants: of a download and its tars (ArchiveFetch), of followed    *)
(* container logs (LogStreams), of the password gate and the first account    *)
(* (Accounts), of the health gate and the wait for certificates (HealthGate), *)
(* of the sizes the Volumes pages ask for (VolumeSizes), of variables and the  *)
(* secrets made for a stack (Variables), of layer caches (BuildCache) and, by  *)
(* ImagesAndLogsProofs, of images and the rows of their deployments (Builds),  *)
(* of a deployment's log (LiveLogs) and of a container's lines (LogLines).    *)
(***************************************************************************)
EXTENDS MCPlatform, ImagesAndLogsProofs, Integers, FiniteSetTheorems, SequenceTheorems, WellFoundedInduction, TLAPS

-----------------------------------------------------------------------------
(* A download and its tars (ArchiveFetch).                                   *)

AttemptRecord == [pc : {"idle", "begin", "locate", "fetch", "stream", "failed", "ok", "lost"},
                  n : Archive!Attempts, failure : Archive!Failures]
TarRecord == [pc : {"none", "runs", "asked", "gone"}, held : 0..1, ok : BOOLEAN]
FetchTyped ==
  /\ attempt \in AttemptRecord /\ tar \in [Archive!Attempts -> TarRecord] /\ tree \in [Archive!Attempts -> Nat]
  /\ stopped \in {"no", "stall", "cap"}

Writes(n) == tar[n].pc \in {"runs", "asked"}

\* Only the attempt under way may write, and the other has left nothing.
OnlyMineWrites ==
  \A n \in Archive!Attempts : attempt.pc # "idle" /\ n # attempt.n => tree[n] = 0 /\ ~Writes(n)

\* An attempt begins with no tar and does not end before its tar.
TarBelongs ==
  /\ attempt.pc \in {"begin", "locate", "fetch"} => Archive!Mine.pc = "none"
  /\ attempt.pc \in {"failed", "ok", "lost"} => ~Writes(attempt.n)
  /\ attempt.pc # "idle" /\ attempt.n = 1 => tar[2].pc = "none"

\* A tar that ended well extracted everything, and success is such an end.
GoodTarIsWhole ==
  /\ attempt.pc # "idle" /\ Archive!Mine.pc = "gone" /\ Archive!Mine.ok => tree[attempt.n] = Pieces
  /\ attempt.pc = "ok" => Archive!Mine.pc = "gone" /\ Archive!Mine.ok

FetchInv == FetchTyped /\ OnlyMineWrites /\ TarBelongs /\ GoodTarIsWhole

LEMMA InitFetch == Archive!Init => FetchInv
  BY DEF Archive!Init, FetchInv, FetchTyped, OnlyMineWrites, TarBelongs, GoodTarIsWhole, AttemptRecord, TarRecord,
     Archive!Idle, Archive!Empty, Archive!NoTar, Archive!Attempts, Archive!Failures, Archive!Mine, Writes

\* Where an attempt is and whose it is, after each kind of step.
LEMMA AttemptGoes ==
  ASSUME FetchTyped,
         NEW pc \in {"idle", "begin", "locate", "fetch", "stream", "failed", "ok", "lost"}, Archive!Goes(pc)
  PROVE  attempt' \in AttemptRecord /\ attempt'.pc = pc /\ attempt'.n = attempt.n
  BY DEF FetchTyped, Archive!Goes, AttemptRecord

LEMMA FailsTo ==
  ASSUME FetchTyped, NEW failure \in Archive!Failures, Archive!Fails(failure)
  PROVE  attempt' \in AttemptRecord /\ attempt'.pc = "failed" /\ attempt'.n = attempt.n
<1>1. attempt \in AttemptRecord /\ attempt' = [attempt EXCEPT !.pc = "failed", !.failure = failure]
  BY DEF FetchTyped, Archive!Fails
<1>2. attempt'.pc = "failed" /\ attempt'.n = attempt.n
  BY <1>1 DEF AttemptRecord
<1>3. attempt' = [pc |-> "failed", n |-> attempt.n, failure |-> failure]
  BY <1>1 DEF AttemptRecord
<1> QED BY <1>1, <1>2, <1>3 DEF AttemptRecord

\* Steps that move the attempt and leave tar and the directory alone.
LEMMA AttemptMoves ==
  ASSUME FetchInv, attempt' \in AttemptRecord, attempt'.n = attempt.n, attempt.pc # "idle",
         UNCHANGED <<tar, tree>>, stopped' \in {"no", "stall", "cap"},
         attempt'.pc \in {"begin", "locate", "fetch"} => Archive!Mine.pc = "none",
         attempt'.pc \in {"failed", "ok", "lost"} => ~Writes(attempt.n),
         attempt'.pc = "ok" => Archive!Mine.pc = "gone" /\ Archive!Mine.ok
  PROVE  FetchInv'
<1>1. FetchTyped'
  BY DEF FetchInv, FetchTyped
<1>2. OnlyMineWrites'
  BY DEF FetchInv, OnlyMineWrites, Writes
<1>3. TarBelongs' /\ GoodTarIsWhole'
  BY DEF FetchInv, TarBelongs, GoodTarIsWhole, Writes, Archive!Mine
<1> QED BY <1>1, <1>2, <1>3 DEF FetchInv

\* Steps of a tar that write or end nothing but its own attempt's.
LEMMA TarMoves ==
  ASSUME FetchInv, UNCHANGED attempt, stopped' \in {"no", "stall", "cap"}, NEW n \in Archive!Attempts, Writes(n),
         tar' \in [Archive!Attempts -> TarRecord], tree' \in [Archive!Attempts -> Nat],
         \A m \in Archive!Attempts \ {n} : tar'[m] = tar[m] /\ tree'[m] = tree[m],
         tar'[n].pc # "none", tar'[n].pc = "gone" /\ tar'[n].ok => tree'[n] = Pieces
  PROVE  FetchInv'
<1>1. FetchTyped'
  BY DEF FetchInv, FetchTyped
<1>2. attempt.pc # "idle" => n = attempt.n /\ attempt.pc \notin {"begin", "locate", "fetch", "failed", "ok", "lost"}
  BY DEF FetchInv, OnlyMineWrites, TarBelongs, Archive!Mine, Writes
<1>3. OnlyMineWrites'
  BY <1>2 DEF FetchInv, OnlyMineWrites, Writes
<1>4. attempt.pc # "idle" => (attempt.n = 1 => 2 \in Archive!Attempts \ {n})
  BY <1>2 DEF Archive!Attempts
<1>5. TarBelongs' /\ GoodTarIsWhole'
  BY <1>2, <1>4 DEF FetchInv, TarBelongs, GoodTarIsWhole, Archive!Mine, Writes
<1> QED BY <1>1, <1>3, <1>5 DEF FetchInv

LEMMA FetchStep ==
  ASSUME FetchInv, Archive!Next
  PROVE  FetchInv'
<1>0. /\ FetchTyped /\ attempt.n \in Archive!Attempts /\ 1 \in Archive!Attempts /\ 2 \in Archive!Attempts
      /\ \A failure \in {"stall", "network", "http", "timeout", "final", "cap", "tar"} : failure \in Archive!Failures
  BY DEF FetchInv, FetchTyped, AttemptRecord, Archive!Attempts, Archive!Failures
<1>1. CASE Archive!CreateBuildDir
  <2>1. attempt' = [pc |-> "begin", n |-> 1, failure |-> "none"]
    BY <1>1 DEF Archive!CreateBuildDir, Archive!Idle
  <2>2. tree' = [n \in Archive!Attempts |-> 0] /\ tar' = [n \in Archive!Attempts |-> Archive!NoTar] /\ stopped' = "no"
    BY <1>1 DEF Archive!CreateBuildDir, Archive!Empty
  <2> QED BY <2>1, <2>2 DEF FetchInv, FetchTyped, OnlyMineWrites, TarBelongs, GoodTarIsWhole, AttemptRecord, TarRecord,
             Archive!NoTar, Archive!Attempts, Archive!Failures, Archive!Mine, Writes
<1>2. CASE Archive!AttemptBegins
  BY <1>0, <1>2, AttemptGoes, FailsTo, AttemptMoves DEF Archive!AttemptBegins, FetchInv, TarBelongs, Writes, Archive!Mine
<1>3. CASE Archive!Locate
  BY <1>0, <1>3, AttemptGoes, FailsTo, AttemptMoves DEF Archive!Locate, FetchInv, TarBelongs, Writes, Archive!Mine, FetchTyped
<1>4. CASE Archive!FetchAnswers
  <2>1. CASE UNCHANGED tar
    BY <1>0, <1>4, <2>1, AttemptGoes, FailsTo, AttemptMoves DEF Archive!FetchAnswers, FetchInv, TarBelongs, Writes, Archive!Mine, FetchTyped
  <2>2. CASE Archive!Goes("stream") /\ tar' = [tar EXCEPT ![attempt.n].pc = "runs"]
    <3>1. attempt' \in AttemptRecord /\ attempt'.pc = "stream" /\ attempt'.n = attempt.n
      BY <1>0, <2>2, AttemptGoes
    <3>2. tar' \in [Archive!Attempts -> TarRecord] /\ tar'[attempt.n].pc = "runs"
      BY <1>0, <2>2 DEF FetchTyped, TarRecord
    <3>3. \A m \in Archive!Attempts \ {attempt.n} : tar'[m] = tar[m]
      BY <1>0, <2>2 DEF FetchTyped
    <3>4. attempt.pc = "fetch" /\ UNCHANGED <<tree, stopped>>
      BY <1>4 DEF Archive!FetchAnswers
    <3>5. FetchTyped' /\ OnlyMineWrites'
      BY <1>0, <3>1, <3>2, <3>3, <3>4 DEF FetchInv, FetchTyped, OnlyMineWrites, Writes
    <3>6. TarBelongs' /\ GoodTarIsWhole'
      BY <1>0, <3>1, <3>2, <3>3, <3>4 DEF FetchInv, TarBelongs, GoodTarIsWhole, Archive!Mine, Writes
    <3> QED BY <3>5, <3>6 DEF FetchInv
  <2> QED BY <1>4, <2>1, <2>2 DEF Archive!FetchAnswers
<1>5. CASE Archive!FetchAborted
  BY <1>0, <1>5, FailsTo, AttemptMoves DEF Archive!FetchAborted, FetchInv, TarBelongs, Writes, Archive!Mine, FetchTyped
<1>6. CASE Archive!Pull
  <2>1. Writes(attempt.n) /\ UNCHANGED <<attempt, stopped, tree>> /\ tar' = [tar EXCEPT ![attempt.n].held = 1]
    BY <1>6 DEF Archive!Pull, Writes, Archive!Mine
  <2>2. tar' \in [Archive!Attempts -> TarRecord] /\ tar'[attempt.n].pc = tar[attempt.n].pc
    BY <1>0, <2>1 DEF FetchTyped, TarRecord
  <2>3. \A m \in Archive!Attempts \ {attempt.n} : tar'[m] = tar[m]
    BY <1>0, <2>1 DEF FetchTyped
  <2> QED BY <1>0, <2>1, <2>2, <2>3, TarMoves DEF FetchTyped, Writes
<1>7. CASE Archive!TarWrites
  <2>1. PICK n \in Archive!Attempts : Writes(n) /\ tree' = [tree EXCEPT ![n] = @ + 1] /\ tar' = [tar EXCEPT ![n].held = 0]
    BY <1>7 DEF Archive!TarWrites, Writes
  <2>2. tar' \in [Archive!Attempts -> TarRecord] /\ tar'[n].pc = tar[n].pc /\ tree' \in [Archive!Attempts -> Nat]
    BY <1>0, <2>1 DEF FetchTyped, TarRecord
  <2>3. \A m \in Archive!Attempts \ {n} : tar'[m] = tar[m] /\ tree'[m] = tree[m]
    BY <1>0, <2>1 DEF FetchTyped
  <2>4. UNCHANGED <<attempt, stopped>>
    BY <1>7 DEF Archive!TarWrites
  <2> QED BY <1>0, <2>1, <2>2, <2>3, <2>4, TarMoves DEF FetchTyped, Writes
<1>8. CASE Archive!ReadFails
  BY <1>0, <1>8, AttemptMoves DEF Archive!ReadFails, FetchInv, TarBelongs, Writes, Archive!Mine, FetchTyped
<1>9. CASE Archive!Watch
  <2>1. /\ tar' = [tar EXCEPT ![attempt.n].pc = IF @ = "runs" THEN "asked" ELSE @]
        /\ UNCHANGED <<attempt, tree>> /\ stopped' = Archive!Due
    BY <1>9 DEF Archive!Watch
  <2>2. CASE Archive!Mine.pc = "runs"
    <3>1. tar' \in [Archive!Attempts -> TarRecord] /\ tar'[attempt.n].pc = "asked"
      BY <1>0, <2>1, <2>2 DEF FetchTyped, TarRecord, Archive!Mine
    <3>2. \A m \in Archive!Attempts \ {attempt.n} : tar'[m] = tar[m]
      BY <1>0, <2>1 DEF FetchTyped
    <3> QED BY <1>0, <2>1, <2>2, <3>1, <3>2, TarMoves DEF FetchTyped, Writes, Archive!Mine, Archive!Due
  <2>3. CASE Archive!Mine.pc # "runs"
    <3>1. tar' = tar
      BY <1>0, <2>1, <2>3 DEF FetchTyped, TarRecord, Archive!Mine
    <3>2. attempt.pc \in {"fetch", "stream"} /\ Archive!Due \in {"no", "stall", "cap"}
      BY <1>9 DEF Archive!Watch, Archive!WatchDue, Archive!Due
    <3> QED BY <1>0, <2>1, <3>1, <3>2, AttemptMoves DEF FetchInv, TarBelongs, FetchTyped
  <2> QED BY <2>2, <2>3
<1>10. CASE Archive!TarExits
  <2>1. PICK n \in Archive!Attempts, ok \in BOOLEAN :
          /\ Writes(n) /\ ok => tree[n] = Pieces
          /\ Writes(n)
          /\ tar' = [tar EXCEPT ![n] = [pc |-> "gone", held |-> 0, ok |-> ok]]
    BY <1>10 DEF Archive!TarExits, Writes
  <2>2. tar' \in [Archive!Attempts -> TarRecord] /\ tar'[n].pc = "gone" /\ tar'[n].ok = ok
    BY <1>0, <2>1 DEF FetchTyped, TarRecord
  <2>3. \A m \in Archive!Attempts \ {n} : tar'[m] = tar[m]
    BY <1>0, <2>1 DEF FetchTyped
  <2>4. UNCHANGED <<attempt, stopped, tree>>
    BY <1>10 DEF Archive!TarExits
  <2> QED BY <1>0, <2>1, <2>2, <2>3, <2>4, TarMoves DEF FetchTyped
<1>11. CASE Archive!FetchArchive
  <2>1. attempt.pc = "stream" /\ Archive!Mine.pc = "gone" /\ UNCHANGED <<stopped, tar, tree>>
    BY <1>11 DEF Archive!FetchArchive
  <2>2. CASE Archive!Goes("ok") /\ Archive!Mine.ok
    BY <1>0, <2>1, <2>2, AttemptGoes, AttemptMoves DEF FetchTyped, Writes, Archive!Mine
  <2>3. CASE \E failure \in Archive!Failures : Archive!Fails(failure)
    BY <1>0, <2>1, <2>3, FailsTo, AttemptMoves DEF FetchTyped, Writes, Archive!Mine
  <2> QED BY <1>0, <1>11, <2>2, <2>3 DEF Archive!FetchArchive, FetchTyped, Archive!Failures
<1>12. CASE Archive!WithOneRetry
  <2>1. attempt.pc = "failed" /\ UNCHANGED <<stopped, tar>>
    BY <1>12 DEF Archive!WithOneRetry
  <2>2. CASE attempt.n = 1 /\ attempt' = [pc |-> "begin", n |-> 2, failure |-> "none"] /\ tree' = Archive!EmptyDirInPlace
    <3>1. attempt' \in AttemptRecord /\ attempt'.n = 2 /\ attempt'.pc = "begin"
      BY <1>0, <2>2 DEF AttemptRecord, Archive!Failures
    <3>2. tree' \in [Archive!Attempts -> Nat] /\ tree'[1] = 0
      BY <1>0, <2>2 DEF Archive!EmptyDirInPlace, Archive!Empty
    <3>3. tar[2].pc = "none" /\ ~Writes(1)
      BY <2>1, <2>2 DEF FetchInv, TarBelongs
    <3>4. FetchTyped'
      BY <1>0, <2>1, <3>1, <3>2 DEF FetchTyped
    <3>5. OnlyMineWrites' /\ TarBelongs' /\ GoodTarIsWhole'
      BY <2>1, <3>1, <3>2, <3>3 DEF OnlyMineWrites, TarBelongs, GoodTarIsWhole, Writes, Archive!Mine, Archive!Attempts
    <3> QED BY <3>4, <3>5 DEF FetchInv
  <2>3. CASE attempt' = [attempt EXCEPT !.pc = "lost"] /\ UNCHANGED tree
    BY <1>0, <2>1, <2>3, AttemptGoes, AttemptMoves DEF Archive!Goes, FetchInv, TarBelongs, FetchTyped
  <2> QED BY <1>12, <2>2, <2>3 DEF Archive!WithOneRetry
<1>13. CASE Archive!RemoveBuildDir \/ Archive!Crash
  <2>1. attempt' \in AttemptRecord /\ attempt'.pc = "idle"
    BY <1>13 DEF Archive!RemoveBuildDir, Archive!Crash, Archive!Idle, AttemptRecord, Archive!Attempts, Archive!Failures
  <2>2. tar' = tar \/ tar' = [n \in Archive!Attempts |-> Archive!NoTar]
    BY <1>13 DEF Archive!RemoveBuildDir, Archive!Crash
  <2>3. tree' = tree \/ tree' = [n \in Archive!Attempts |-> 0]
    BY <1>13 DEF Archive!RemoveBuildDir, Archive!Crash, Archive!Empty
  <2>4. Archive!NoTar \in TarRecord /\ stopped' = stopped
    BY <1>13 DEF Archive!RemoveBuildDir, Archive!Crash, Archive!NoTar, TarRecord
  <2>5. FetchTyped'
    BY <1>0, <2>1, <2>2, <2>3, <2>4 DEF FetchTyped
  <2> QED BY <2>1, <2>5 DEF FetchInv, OnlyMineWrites, TarBelongs, GoodTarIsWhole
<1>14. CASE Archive!Tick
  BY <1>14 DEF Archive!Tick, FetchInv, FetchTyped, OnlyMineWrites, TarBelongs, GoodTarIsWhole, Writes, Archive!Mine
<1> QED BY <1>1, <1>2, <1>3, <1>4, <1>5, <1>6, <1>7, <1>8, <1>9, <1>10, <1>11, <1>12, <1>13, <1>14 DEF Archive!Next

LEMMA FetchStutters ==
  ASSUME FetchInv, UNCHANGED Archive!vars
  PROVE  FetchInv'
  BY DEF Archive!vars, FetchInv, FetchTyped, OnlyMineWrites, TarBelongs, GoodTarIsWhole, Writes, Archive!Mine

\* What is in the directory, in the pipe and still to come is one archive.
BodyRecord == [left : 0..Pieces, failed : BOOLEAN, closed : BOOLEAN]
PiecesTyped == body \in BodyRecord /\ tree \in [Archive!Attempts -> 0..Pieces] /\ crashes \in 0..MaxCrashes
NothingYet ==
  /\ attempt.pc \in {"begin", "locate", "fetch"} => tree[attempt.n] = 0
  /\ attempt.pc \in {"locate", "fetch"} => body = Archive!NoBody
  /\ \A n \in Archive!Attempts : tar[n].pc = "none" => tar[n].held = 0
OneArchive ==
  attempt.pc = "stream" => /\ tree[attempt.n] + Archive!Mine.held + body.left <= Pieces
                           /\ ~body.closed => body.left > 0
IdleIsQuiet == attempt.pc = "idle" => \A n \in Archive!Attempts : ~Writes(n)

PiecesInv == PiecesTyped /\ NothingYet /\ OneArchive /\ IdleIsQuiet

LEMMA InitPieces == Archive!Init => PiecesInv
<1> SUFFICES ASSUME Archive!Init PROVE PiecesInv
  OBVIOUS
<1>1. PiecesTyped
  BY PlatformAssumption DEF Archive!Init, PiecesTyped, BodyRecord, Archive!NoBody, Archive!Empty
<1> QED BY <1>1 DEF Archive!Init, PiecesInv, NothingYet, OneArchive, IdleIsQuiet, Archive!Idle, Archive!NoTar, Writes

\* Where an attempt's place after a step says that no tar of it writes.
LEMMA PiecesQuiet ==
  ASSUME FetchTyped, FetchTyped', PiecesInv, PiecesTyped', attempt'.pc \in {"begin", "failed", "ok", "lost"},
         attempt'.pc = "begin" => tree'[attempt'.n] = 0, UNCHANGED tar
  PROVE  PiecesInv'
<1>1. NothingYet'
  BY DEF NothingYet, PiecesInv
<1>2. OneArchive' /\ IdleIsQuiet'
  BY DEF OneArchive, IdleIsQuiet
<1> QED BY <1>1, <1>2 DEF PiecesInv

LEMMA PiecesStep ==
  ASSUME FetchInv, FetchInv', PiecesInv, Archive!Next
  PROVE  PiecesInv'
<1>0. /\ FetchTyped /\ FetchTyped' /\ attempt.n \in Archive!Attempts /\ attempt'.n \in Archive!Attempts /\ attempt \in AttemptRecord
      /\ attempt.n \in {1, 2} /\ body \in BodyRecord /\ tree \in [Archive!Attempts -> 0..Pieces] /\ crashes \in 0..MaxCrashes
  BY DEF FetchInv, FetchTyped, AttemptRecord, Archive!Attempts, PiecesInv, PiecesTyped
<1>m. MaxCrashes \in Nat /\ Pieces \in Nat /\ Pieces > 0 /\ Archive!NoBody \in BodyRecord /\ Archive!Empty \in [Archive!Attempts -> 0..Pieces]
  BY PlatformAssumption DEF Archive!NoBody, BodyRecord, Archive!Empty
<1>1. CASE Archive!CreateBuildDir
  <2>1. attempt' = [pc |-> "begin", n |-> 1, failure |-> "none"] /\ tree' = Archive!Empty
        /\ body' = Archive!NoBody /\ crashes' = crashes /\ tar' = [n \in Archive!Attempts |-> Archive!NoTar]
    BY <1>1 DEF Archive!CreateBuildDir, Archive!Idle
  <2>2. PiecesTyped'
    BY <1>0, <1>m, <2>1 DEF PiecesTyped
  <2> QED BY <2>1, <2>2 DEF PiecesInv, NothingYet, OneArchive, IdleIsQuiet, Archive!NoTar, Archive!Attempts, Archive!Empty
<1>2. CASE Archive!AttemptBegins
  <2>1. attempt.pc = "begin" /\ body' = Archive!NoBody /\ UNCHANGED <<tar, tree, crashes>>
    BY <1>2 DEF Archive!AttemptBegins
  <2>2. PiecesTyped'
    BY <1>0, <1>m, <2>1 DEF PiecesTyped
  <2>3. attempt'.n = attempt.n /\ attempt'.pc \in {"failed", "locate"}
    BY <1>0, <1>2, AttemptGoes, FailsTo DEF Archive!AttemptBegins, Archive!Failures
  <2> QED BY <2>1, <2>2, <2>3 DEF PiecesInv, NothingYet, OneArchive, IdleIsQuiet
<1>3. CASE Archive!Locate
  <2>1. attempt.pc = "locate" /\ UNCHANGED <<body, tar, tree, crashes>>
    BY <1>3 DEF Archive!Locate
  <2>2. attempt'.n = attempt.n /\ attempt'.pc \in {"failed", "fetch"}
    BY <1>0, <1>3, AttemptGoes, FailsTo DEF Archive!Locate, Archive!Failures
  <2> QED BY <2>1, <2>2 DEF PiecesInv, PiecesTyped, NothingYet, OneArchive, IdleIsQuiet
<1>4. CASE Archive!FetchAnswers
  <2>1. attempt.pc = "fetch" /\ UNCHANGED <<body, tree, crashes>>
    BY <1>4 DEF Archive!FetchAnswers
  <2>2. CASE Archive!Fails("network") \/ Archive!Fails("http") \/ Archive!Fails("final")
    <3>1. attempt'.n = attempt.n /\ attempt'.pc = "failed"
      BY <1>0, <2>2, FailsTo DEF Archive!Failures
    <3>2. tar' = tar
      BY <1>4, <2>1, <3>1, <1>0, AttemptGoes DEF Archive!FetchAnswers
    <3> QED BY <2>1, <3>1, <3>2 DEF PiecesInv, PiecesTyped, NothingYet, OneArchive, IdleIsQuiet
  <2>3. CASE Archive!Goes("stream") /\ tar' = [tar EXCEPT ![attempt.n].pc = "runs"]
    <3>1. attempt'.n = attempt.n /\ attempt'.pc = "stream"
      BY <1>0, <2>3, AttemptGoes
    <3>2. tar[attempt.n].pc = "none" /\ tar[attempt.n].held = 0 /\ tree[attempt.n] = 0 /\ body = Archive!NoBody
      BY <1>0, <2>1 DEF FetchInv, TarBelongs, Archive!Mine, PiecesInv, NothingYet
    <3>3. tar'[attempt.n].held = 0 /\ tar'[attempt.n].pc = "runs" /\ \A m \in Archive!Attempts \ {attempt.n} : tar'[m] = tar[m]
      BY <1>0, <2>3, <3>2 DEF FetchTyped, TarRecord
    <3>4. body'.left = Pieces /\ body'.closed = FALSE
      BY <2>1, <3>2 DEF Archive!NoBody
    <3>5. OneArchive'
      BY <1>0, <1>m, <2>1, <3>1, <3>2, <3>3, <3>4 DEF OneArchive, Archive!Mine
    <3>6. NothingYet' /\ IdleIsQuiet' /\ PiecesTyped'
      BY <2>1, <3>1, <3>3 DEF PiecesInv, PiecesTyped, NothingYet, IdleIsQuiet
    <3> QED BY <3>5, <3>6 DEF PiecesInv
  <2> QED BY <1>4, <2>2, <2>3 DEF Archive!FetchAnswers
<1>5. CASE Archive!FetchAborted
  <2>1. attempt.pc = "fetch" /\ UNCHANGED <<body, tar, tree, crashes>> /\ stopped \in Archive!Failures
    BY <1>0, <1>5 DEF Archive!FetchAborted, FetchTyped, Archive!Failures
  <2>2. attempt'.n = attempt.n /\ attempt'.pc = "failed"
    BY <1>0, <1>5, <2>1, FailsTo DEF Archive!FetchAborted
  <2> QED BY <2>1, <2>2 DEF PiecesInv, PiecesTyped, NothingYet, OneArchive, IdleIsQuiet
<1>6. CASE Archive!Pull
  <2>1. /\ attempt.pc = "stream" /\ attempt' = attempt /\ tree' = tree /\ crashes' = crashes
        /\ ~body.closed /\ tar[attempt.n].held = 0
        /\ body' = [body EXCEPT !.left = @ - 1, !.closed = body.left = 1]
        /\ tar' = [tar EXCEPT ![attempt.n].held = 1] /\ Writes(attempt.n)
    BY <1>6 DEF Archive!Pull, Archive!Mine, Writes
  <2>2. body.left > 0 /\ tree[attempt.n] + body.left <= Pieces /\ body.left \in 0..Pieces
    BY <1>0, <1>m, <2>1 DEF PiecesInv, OneArchive, Archive!Mine, BodyRecord
  <2> DEFINE last == body.left = 1
  <2>3. body' \in BodyRecord /\ body'.left = body.left - 1 /\ (~body'.closed => body.left # 1)
    <3>1. body.left - 1 \in 0..Pieces /\ body.failed \in BOOLEAN /\ last \in BOOLEAN
      BY <1>0, <1>m, <2>2 DEF BodyRecord
    <3>2. body' = [body EXCEPT !.left = body.left - 1, !.closed = last]
      BY <1>0, <2>1 DEF BodyRecord
    <3> HIDE DEF last
    <3>3. body' \in BodyRecord /\ body'.left = body.left - 1 /\ body'.closed = last
      BY <1>0, <3>1, <3>2 DEF BodyRecord
    <3> QED BY <3>3 DEF last
  <2>4. tar'[attempt.n].held = 1 /\ tar'[attempt.n].pc = tar[attempt.n].pc
        /\ \A m \in Archive!Attempts \ {attempt.n} : tar'[m] = tar[m]
    BY <1>0, <2>1 DEF FetchTyped, TarRecord
  <2>5. OneArchive'
    BY <1>0, <1>m, <2>1, <2>2, <2>3, <2>4 DEF OneArchive, Archive!Mine
  <2>6. NothingYet' /\ IdleIsQuiet' /\ PiecesTyped'
    BY <1>0, <2>1, <2>3, <2>4 DEF PiecesInv, PiecesTyped, NothingYet, IdleIsQuiet, Writes
  <2> QED BY <2>5, <2>6 DEF PiecesInv
<1>7. CASE Archive!TarWrites
  <2>1. PICK n \in Archive!Attempts : /\ Writes(n) /\ tar[n].held = 1
                              /\ tree' = [tree EXCEPT ![n] = @ + 1] /\ tar' = [tar EXCEPT ![n].held = 0]
    BY <1>7 DEF Archive!TarWrites, Writes
  <2>2. attempt' = attempt /\ body' = body /\ crashes' = crashes
    BY <1>7 DEF Archive!TarWrites
  <2>3. n = attempt.n /\ attempt.pc = "stream"
    BY <1>0, <2>1 DEF FetchInv, OnlyMineWrites, TarBelongs, Archive!Mine, Writes, PiecesInv, IdleIsQuiet, AttemptRecord
  <2>4. tree[n] \in Nat /\ tree[n] + 1 + body.left <= Pieces /\ body.left \in 0..Pieces
    BY <1>0, <1>m, <2>1, <2>3 DEF PiecesInv, OneArchive, Archive!Mine, BodyRecord
  <2>5. tar'[n].held = 0 /\ tar'[n].pc = tar[n].pc /\ \A m \in Archive!Attempts \ {n} : tar'[m] = tar[m]
    BY <1>0, <2>1 DEF FetchTyped, TarRecord
  <2>6. tree[n] + 1 \in 0..Pieces /\ tree'[n] = tree[n] + 1 /\ tree' \in [Archive!Attempts -> 0..Pieces]
    BY <1>0, <1>m, <2>1, <2>4
  <2>7. OneArchive'
    BY <1>0, <1>m, <2>2, <2>3, <2>4, <2>5, <2>6 DEF OneArchive, Archive!Mine, PiecesInv
  <2>8. NothingYet' /\ IdleIsQuiet' /\ PiecesTyped'
    BY <1>0, <2>2, <2>3, <2>5, <2>6 DEF PiecesInv, PiecesTyped, NothingYet, IdleIsQuiet, Writes
  <2> QED BY <2>7, <2>8 DEF PiecesInv
<1>8. CASE Archive!ReadFails
  <2>1. /\ attempt.pc = "stream" /\ UNCHANGED <<attempt, tar, tree, crashes>>
        /\ body' = [body EXCEPT !.failed = TRUE, !.closed = TRUE]
    BY <1>8 DEF Archive!ReadFails
  <2>2. body' \in BodyRecord /\ body'.left = body.left /\ body'.closed = TRUE
    BY <1>0, <2>1 DEF BodyRecord
  <2> QED BY <2>1, <2>2 DEF PiecesInv, PiecesTyped, NothingYet, OneArchive, IdleIsQuiet, Archive!Mine, Writes
<1>9. CASE Archive!Watch
  <2>1. /\ attempt.pc \in {"fetch", "stream"} /\ UNCHANGED <<attempt, tree, crashes>>
        /\ body' = [body EXCEPT !.closed = @ \/ attempt.pc = "stream"]
        /\ tar' = [tar EXCEPT ![attempt.n].pc = IF @ = "runs" THEN "asked" ELSE @]
    BY <1>9 DEF Archive!Watch, Archive!WatchDue
  <2>2. /\ body' \in BodyRecord /\ body'.left = body.left /\ (attempt.pc = "stream" => body'.closed = TRUE)
        /\ (attempt.pc = "fetch" => body' = body)
    BY <1>0, <2>1 DEF BodyRecord
  <2>3. /\ tar'[attempt.n].held = tar[attempt.n].held /\ \A m \in Archive!Attempts \ {attempt.n} : tar'[m] = tar[m]
        /\ (tar'[attempt.n].pc = "none" => tar[attempt.n].pc = "none")
    BY <1>0, <2>1 DEF FetchTyped, TarRecord
  <2>4. OneArchive'
    BY <1>0, <2>1, <2>2, <2>3 DEF PiecesInv, OneArchive, Archive!Mine
  <2>5. NothingYet' /\ IdleIsQuiet' /\ PiecesTyped'
    BY <1>0, <2>1, <2>2, <2>3 DEF PiecesInv, PiecesTyped, NothingYet, IdleIsQuiet
  <2> QED BY <2>4, <2>5 DEF PiecesInv
<1>10. CASE Archive!TarExits
  <2>1. PICK n \in Archive!Attempts, ok \in BOOLEAN : Writes(n) /\ tar' = [tar EXCEPT ![n] = [pc |-> "gone", held |-> 0, ok |-> ok]]
    BY <1>10 DEF Archive!TarExits, Writes
  <2>2. UNCHANGED <<attempt, body, tree, crashes>>
    BY <1>10 DEF Archive!TarExits
  <2>3. tar'[n].held = 0 /\ tar'[n].pc = "gone" /\ \A m \in Archive!Attempts \ {n} : tar'[m] = tar[m]
    BY <1>0, <2>1 DEF FetchTyped
  <2>4. tree[attempt.n] \in Nat /\ tar[attempt.n].held \in Nat /\ body.left \in Nat
    BY <1>0, <1>m DEF FetchTyped, TarRecord, BodyRecord
  <2>5. OneArchive'
    BY <1>0, <1>m, <2>2, <2>3, <2>4 DEF PiecesInv, OneArchive, Archive!Mine
  <2>6. NothingYet' /\ IdleIsQuiet' /\ PiecesTyped'
    BY <1>0, <2>2, <2>3 DEF PiecesInv, PiecesTyped, NothingYet, IdleIsQuiet, Writes
  <2> QED BY <2>5, <2>6 DEF PiecesInv
<1>11. CASE Archive!FetchArchive
  <2>1. attempt.pc = "stream" /\ UNCHANGED <<body, tar, tree, crashes>> /\ (stopped # "no" => stopped \in Archive!Failures)
    <3>1. attempt.pc = "stream" /\ UNCHANGED <<body, tar, tree, crashes>>
      BY <1>11 DEF Archive!FetchArchive
    <3>2. stopped # "no" => stopped \in Archive!Failures
      BY <1>0 DEF FetchTyped, Archive!Failures
    <3> QED BY <3>1, <3>2
  <2>2. attempt'.n = attempt.n /\ attempt'.pc \in {"ok", "failed"}
    BY <1>0, <1>11, <2>1, AttemptGoes, FailsTo DEF Archive!FetchArchive, Archive!Failures
  <2> QED BY <2>1, <2>2 DEF PiecesInv, PiecesTyped, NothingYet, OneArchive, IdleIsQuiet
<1>12. CASE Archive!WithOneRetry
  <2>1. attempt.pc = "failed" /\ UNCHANGED <<body, tar, crashes>>
    BY <1>12 DEF Archive!WithOneRetry
  <2>2. CASE attempt' = [pc |-> "begin", n |-> 2, failure |-> "none"] /\ tree' = Archive!EmptyDirInPlace
    BY <1>0, <1>m, <2>1, <2>2, PiecesQuiet DEF Archive!EmptyDirInPlace, Archive!Empty, PiecesTyped
  <2>3. CASE attempt' = [attempt EXCEPT !.pc = "lost"] /\ UNCHANGED tree
    <3>1. attempt'.pc = "lost"
      BY <1>0, <2>3 DEF AttemptRecord
    <3> QED BY <1>0, <2>1, <2>3, <3>1, PiecesQuiet DEF PiecesTyped
  <2> QED BY <1>12, <2>2, <2>3 DEF Archive!WithOneRetry
<1>13. CASE Archive!RemoveBuildDir
  <2>1. attempt.pc \in {"ok", "lost"} /\ attempt'.pc = "idle" /\ tree' = Archive!Empty /\ UNCHANGED <<body, tar, crashes>>
    BY <1>13 DEF Archive!RemoveBuildDir, Archive!Idle
  <2>2. \A n \in Archive!Attempts : ~Writes(n)
    BY <1>0, <2>1 DEF FetchInv, OnlyMineWrites, TarBelongs
  <2> QED BY <1>0, <1>m, <2>1, <2>2 DEF PiecesInv, PiecesTyped, NothingYet, OneArchive, IdleIsQuiet, Writes
<1>14. CASE Archive!Crash
  <2>1. /\ attempt'.pc = "idle" /\ crashes < MaxCrashes /\ crashes' = crashes + 1 /\ tree' = tree /\ body' = body
        /\ tar' = [n \in Archive!Attempts |-> Archive!NoTar]
    BY <1>14 DEF Archive!Crash, Archive!Idle
  <2>2. PiecesTyped'
    BY <1>0, <1>m, <2>1 DEF PiecesTyped
  <2> QED BY <2>1, <2>2 DEF PiecesInv, NothingYet, OneArchive, IdleIsQuiet, Writes, Archive!NoTar
<1>15. CASE Archive!Tick
  BY <1>15 DEF Archive!Tick, PiecesInv, PiecesTyped, NothingYet, OneArchive, IdleIsQuiet, Writes, Archive!Mine
<1> QED BY <1>1, <1>2, <1>3, <1>4, <1>5, <1>6, <1>7, <1>8, <1>9, <1>10, <1>11, <1>12, <1>13, <1>14, <1>15 DEF Archive!Next

\* How far the clock may be at each place of an attempt: what is left after the
\* cap is the redirect it waits for, or the tar it has to kill.
ClockTyped == now \in Nat /\ quiet \in Nat /\ asked \in Nat
InTime ==
  /\ attempt.pc \in {"begin", "failed", "stream"} => now <= Cap + ApiWait + Grace
  /\ attempt.pc = "locate" => now < Cap + quiet /\ quiet <= ApiWait
  /\ attempt.pc = "fetch" \/ (attempt.pc = "stream" /\ stopped = "no") => now <= Cap + ApiWait
  /\ attempt.pc = "stream" /\ stopped # "no" /\ Archive!Mine.pc = "asked" => now <= Cap + ApiWait + asked /\ asked <= Grace
TarIsStopped ==
  attempt.pc = "stream" => Archive!Mine.pc # "none" /\ (Archive!Mine.pc = "runs" => stopped = "no")
TimeInv == ClockTyped /\ InTime /\ TarIsStopped

LEMMA InitTime == Archive!Init => TimeInv
  BY DEF Archive!Init, TimeInv, ClockTyped, InTime, TarIsStopped, Archive!Idle

LEMMA TimeStep ==
  ASSUME FetchInv, TimeInv, Archive!Next
  PROVE  TimeInv'
<1>0. /\ FetchTyped /\ attempt.n \in Archive!Attempts /\ attempt \in AttemptRecord
      /\ now \in Nat /\ quiet \in Nat /\ asked \in Nat
      /\ Cap \in Nat /\ ApiWait \in Nat /\ Grace \in Nat
  BY PlatformAssumption DEF FetchInv, FetchTyped, AttemptRecord, TimeInv, ClockTyped
<1>1. CASE Archive!CreateBuildDir
  BY <1>0, <1>1 DEF Archive!CreateBuildDir, Archive!Idle, TimeInv, ClockTyped, InTime, TarIsStopped
<1>2. CASE Archive!AttemptBegins
  <2>1. /\ attempt.pc = "begin" /\ UNCHANGED <<now, tar>> /\ quiet' = 0 /\ asked' = 0
        /\ IF now >= Cap THEN Archive!Fails("cap") ELSE Archive!Goes("locate")
    BY <1>2 DEF Archive!AttemptBegins, Archive!Deadline
  <2>2. now >= Cap => attempt'.pc = "failed"
    BY <1>0, <2>1, FailsTo DEF Archive!Failures
  <2>3. ~(now >= Cap) => attempt'.pc = "locate"
    BY <1>0, <2>1, AttemptGoes
  <2> QED BY <1>0, <2>1, <2>2, <2>3 DEF TimeInv, ClockTyped, InTime, TarIsStopped
<1>3. CASE Archive!Locate
  <2>1. attempt.pc = "locate" /\ UNCHANGED <<now, asked>> /\ quiet' = 0
    BY <1>3 DEF Archive!Locate
  <2>2. attempt'.pc \in {"failed", "fetch"}
    BY <1>0, <1>3, AttemptGoes, FailsTo DEF Archive!Locate, Archive!Failures
  <2> QED BY <1>0, <2>1, <2>2 DEF TimeInv, ClockTyped, InTime, TarIsStopped
<1>4. CASE Archive!FetchAnswers
  <2>1. attempt.pc = "fetch" /\ UNCHANGED <<now, asked, stopped>> /\ quiet' = 0 /\ stopped = "no"
    BY <1>4 DEF Archive!FetchAnswers
  <2>2. CASE Archive!Fails("network") \/ Archive!Fails("http") \/ Archive!Fails("final")
    <3>1. attempt'.pc = "failed"
      BY <1>0, <2>2, FailsTo DEF Archive!Failures
    <3> QED BY <1>0, <2>1, <3>1 DEF TimeInv, ClockTyped, InTime, TarIsStopped
  <2>3. CASE Archive!Goes("stream") /\ tar' = [tar EXCEPT ![attempt.n].pc = "runs"]
    <3>1. attempt'.n = attempt.n /\ attempt'.pc = "stream"
      BY <1>0, <2>3, AttemptGoes
    <3>2. tar'[attempt.n].pc = "runs"
      BY <1>0, <2>3 DEF FetchTyped, TarRecord
    <3> QED BY <1>0, <2>1, <3>1, <3>2 DEF TimeInv, ClockTyped, InTime, TarIsStopped, Archive!Mine
  <2> QED BY <1>4, <2>2, <2>3 DEF Archive!FetchAnswers
<1>5. CASE Archive!FetchAborted
  <2>1. attempt.pc = "fetch" /\ UNCHANGED <<now, quiet, asked>> /\ stopped \in Archive!Failures
    BY <1>0, <1>5 DEF Archive!FetchAborted, FetchTyped, Archive!Failures
  <2>2. attempt'.pc = "failed"
    BY <1>0, <1>5, <2>1, FailsTo DEF Archive!FetchAborted
  <2> QED BY <1>0, <2>1, <2>2 DEF TimeInv, ClockTyped, InTime, TarIsStopped
<1>6. CASE Archive!Pull
  <2>1. /\ attempt' = attempt /\ UNCHANGED <<now, stopped, asked>> /\ quiet' = 0 /\ attempt.pc = "stream"
        /\ tar' = [tar EXCEPT ![attempt.n].held = 1]
    BY <1>6 DEF Archive!Pull
  <2>2. tar'[attempt.n].pc = tar[attempt.n].pc
    BY <1>0, <2>1 DEF FetchTyped, TarRecord
  <2> QED BY <1>0, <2>1, <2>2 DEF TimeInv, ClockTyped, InTime, TarIsStopped, Archive!Mine
<1>7. CASE Archive!TarWrites
  <2>1. PICK n \in Archive!Attempts : tar' = [tar EXCEPT ![n].held = 0]
    BY <1>7 DEF Archive!TarWrites
  <2>2. tar'[attempt.n].pc = tar[attempt.n].pc /\ UNCHANGED <<now, attempt, quiet, stopped, asked>>
    BY <1>0, <1>7, <2>1 DEF FetchTyped, TarRecord, Archive!TarWrites
  <2> QED BY <1>0, <2>2 DEF TimeInv, ClockTyped, InTime, TarIsStopped, Archive!Mine
<1>8. CASE Archive!ReadFails
  BY <1>8 DEF Archive!ReadFails, TimeInv, ClockTyped, InTime, TarIsStopped, Archive!Mine
<1>9. CASE Archive!Watch
  <2>1. /\ attempt.pc \in {"fetch", "stream"} /\ stopped = "no" /\ stopped' # "no" /\ Archive!Mine.pc # "gone"
        /\ tar' = [tar EXCEPT ![attempt.n].pc = IF @ = "runs" THEN "asked" ELSE @]
        /\ asked' = 0 /\ UNCHANGED <<now, attempt, quiet>>
    BY <1>9 DEF Archive!Watch, Archive!WatchDue
  <2>2. tar[attempt.n].pc \in {"none", "runs", "asked", "gone"}
    BY <1>0 DEF FetchTyped, TarRecord
  <2>3. tar'[attempt.n].pc = IF tar[attempt.n].pc = "runs" THEN "asked" ELSE tar[attempt.n].pc
    BY <1>0, <2>1 DEF FetchTyped, TarRecord
  <2> QED BY <1>0, <2>1, <2>2, <2>3 DEF TimeInv, ClockTyped, InTime, TarIsStopped, Archive!Mine
<1>10. CASE Archive!TarExits
  <2>1. PICK n \in Archive!Attempts, ok \in BOOLEAN : tar' = [tar EXCEPT ![n] = [pc |-> "gone", held |-> 0, ok |-> ok]]
    BY <1>10 DEF Archive!TarExits
  <2>2. tar'[attempt.n].pc \in {tar[attempt.n].pc, "gone"} /\ UNCHANGED <<now, attempt, quiet, stopped, asked>>
    BY <1>0, <1>10, <2>1 DEF FetchTyped, Archive!TarExits
  <2> QED BY <1>0, <2>2 DEF TimeInv, ClockTyped, InTime, TarIsStopped, Archive!Mine
<1>11. CASE Archive!FetchArchive
  <2>1. attempt.pc = "stream" /\ UNCHANGED <<now, quiet, asked>> /\ (stopped # "no" => stopped \in Archive!Failures)
    <3>1. attempt.pc = "stream" /\ UNCHANGED <<now, quiet, asked>>
      BY <1>11 DEF Archive!FetchArchive
    <3>2. stopped # "no" => stopped \in Archive!Failures
      BY <1>0 DEF FetchTyped, Archive!Failures
    <3> QED BY <3>1, <3>2
  <2>2. attempt'.pc \in {"ok", "failed"}
    BY <1>0, <1>11, <2>1, AttemptGoes, FailsTo DEF Archive!FetchArchive, Archive!Failures
  <2> QED BY <1>0, <2>1, <2>2 DEF TimeInv, ClockTyped, InTime, TarIsStopped
<1>12. CASE Archive!WithOneRetry
  <2>1. attempt.pc = "failed" /\ UNCHANGED <<now, quiet, asked>> /\ attempt'.pc \in {"begin", "lost"}
    BY <1>0, <1>12 DEF Archive!WithOneRetry, AttemptRecord
  <2> QED BY <1>0, <2>1 DEF TimeInv, ClockTyped, InTime, TarIsStopped
<1>13. CASE Archive!RemoveBuildDir \/ Archive!Crash
  BY <1>0, <1>13 DEF Archive!RemoveBuildDir, Archive!Crash, Archive!Idle, TimeInv, ClockTyped, InTime, TarIsStopped
<1>14. CASE Archive!Tick
  <2>1. /\ UNCHANGED <<attempt, stopped, tar>> /\ now' = now + 1 /\ quiet' = quiet + 1
        /\ asked' = IF Archive!Mine.pc = "asked" THEN asked + 1 ELSE asked
        /\ attempt.pc \notin {"begin", "failed"} /\ ~(attempt.pc = "stream" /\ Archive!Mine.pc = "gone")
        /\ ~(attempt.pc = "fetch" /\ stopped # "no") /\ (attempt.pc = "locate" => quiet < ApiWait)
    BY <1>14 DEF Archive!Tick
  <2>2. attempt.pc \in {"fetch", "stream"} /\ stopped = "no" /\ Archive!Mine.pc # "gone" => now < Cap
    BY <1>0, <1>14 DEF Archive!Tick, Archive!WatchDue, Archive!Due, Archive!Deadline
  <2>3. Archive!Mine.pc = "asked" => asked < Grace
    BY <1>0, <1>14 DEF Archive!Tick, Archive!KillDue, Archive!Mine
  <2>4. attempt.pc = "fetch" => Archive!Mine.pc = "none"
    BY DEF FetchInv, TarBelongs
  <2>5. Archive!Mine.pc \in {"none", "runs", "asked", "gone"} /\ Archive!Mine' = Archive!Mine
    BY <1>0, <2>1 DEF FetchTyped, TarRecord, Archive!Mine
  <2>6. ClockTyped'
    BY <1>0, <2>1 DEF ClockTyped
  <2>7. InTime'
    BY <1>0, <2>1, <2>2, <2>3, <2>4, <2>5 DEF TimeInv, InTime, TarIsStopped
  <2>8. TarIsStopped'
    BY <2>1, <2>5 DEF TimeInv, TarIsStopped
  <2> QED BY <2>6, <2>7, <2>8 DEF TimeInv
<1> QED BY <1>1, <1>2, <1>3, <1>4, <1>5, <1>6, <1>7, <1>8, <1>9, <1>10, <1>11, <1>12, <1>13, <1>14 DEF Archive!Next

ArchiveInv == FetchInv /\ PiecesInv /\ TimeInv

LEMMA ArchiveStutters ==
  ASSUME ArchiveInv, UNCHANGED Archive!vars
  PROVE  ArchiveInv'
<1>1. FetchInv'
  BY FetchStutters DEF ArchiveInv
<1>2. PiecesInv' /\ TimeInv'
  BY DEF ArchiveInv, Archive!vars, PiecesInv, PiecesTyped, NothingYet, OneArchive, IdleIsQuiet, TimeInv, ClockTyped, InTime,
         TarIsStopped, Archive!Mine, Writes
<1> QED BY <1>1, <1>2 DEF ArchiveInv

LEMMA ArchiveKeeps ==
  ASSUME part = "archive" => ArchiveInv, [Next]_vars
  PROVE  (part = "archive" => ArchiveInv)'
<1> SUFFICES ASSUME part' = "archive" PROVE ArchiveInv'
  OBVIOUS
<1>1. CASE UNCHANGED vars
  <2>1. part = "archive" /\ UNCHANGED Archive!vars
    BY <1>1 DEF vars, archiveVars, Archive!vars
  <2> QED BY <2>1, ArchiveStutters
<1>2. CASE Next
  <2>1. part = "archive" /\ Archive!Next
    BY <1>2 DEF Next, Only
  <2> QED BY <2>1, FetchStep, PiecesStep, TimeStep DEF ArchiveInv
<1> QED BY <1>1, <1>2

LEMMA ArchiveBegins ==
  ASSUME Init, part = "archive"
  PROVE  ArchiveInv
<1>1. Archive!Init
  BY DEF Init
<1> QED BY <1>1, InitFetch, InitPieces, InitTime DEF ArchiveInv

\* What the parts of the invariant say of a download.
LEMMA ArchiveMeans ==
  ASSUME ArchiveInv
  PROVE  Archive!ArchiveTypeOK /\ Archive!WholeTree /\ Archive!EndsByTheCap
<1>1. Archive!ArchiveTypeOK
  BY DEF ArchiveInv, FetchInv, FetchTyped, PiecesInv, PiecesTyped, TimeInv, ClockTyped, Archive!ArchiveTypeOK, AttemptRecord,
         TarRecord, BodyRecord
<1>2. Archive!WholeTree
  <2> SUFFICES ASSUME attempt.pc = "ok"
               PROVE  tree = [Archive!Empty EXCEPT ![attempt.n] = Pieces] /\ attempt.n \in Archive!Attempts
    BY DEF Archive!WholeTree
  <2>1. attempt.n \in Archive!Attempts /\ tree[attempt.n] = Pieces
    BY DEF ArchiveInv, FetchInv, FetchTyped, GoodTarIsWhole, AttemptRecord
  <2>2. \A n \in Archive!Attempts \ {attempt.n} : tree[n] = 0
    BY DEF ArchiveInv, FetchInv, OnlyMineWrites
  <2> QED BY <2>1, <2>2 DEF ArchiveInv, FetchInv, FetchTyped, Archive!Empty
<1>3. Archive!EndsByTheCap
  BY PlatformAssumption DEF ArchiveInv, TimeInv, ClockTyped, InTime, Archive!EndsByTheCap, Archive!Running
<1> QED BY <1>1, <1>2, <1>3

\* For every length of an archive, every timer and any number of crashes: a build
\* that goes on after its download has the whole tree of one attempt and nothing
\* of the other, and the worker is not held past the cap but for a redirect's
\* wait and a tar's grace (github/archive-fetch.ts).
THEOREM TreeIsWhole == Spec => [](WholeTree)
<1>1. Init => (part = "archive" => ArchiveInv)
  BY ArchiveBegins
<1>2. (part = "archive" => ArchiveInv) /\ [Next]_vars => (part = "archive" => ArchiveInv)'
  BY ArchiveKeeps
<1>3. (part = "archive" => ArchiveInv) => WholeTree
  BY ArchiveMeans DEF WholeTree
<1> QED BY <1>1, <1>2, <1>3, PTL DEF Spec

-----------------------------------------------------------------------------
(* Followed container logs (LogStreams).                                     *)

\* What a step relies on: only a stream that was begun is registered, and a
\* deploy in hand has made its container.
RegisteredWasBegun == active \in 0..Len(streams)
InHandWasMade == job.pc \in {"made", "left"} => job.new \in Follow!Containers

TrackInv == Follow!LogStreamsTypeOK /\ Follow!StreamTracked /\ RegisteredWasBegun /\ InHandWasMade

LEMMA InitTracks ==
  ASSUME Follow!Init
  PROVE  TrackInv
  BY PlatformAssumption DEF Follow!Init, TrackInv, Follow!LogStreamsTypeOK, Follow!StreamTracked, RegisteredWasBegun, InHandWasMade,
     Follow!Live, Follow!Rest, Follow!NoTick, Follow!Stream, Follow!Containers

-----------------------------------------------------------------------------
(* What the three operations of logs/stream.ts do to the streams.            *)

StreamsKept == streams \in Seq(Follow!Stream) /\ Len(streams) <= MaxStreams /\ RegisteredWasBegun /\ Follow!StreamTracked

LEMMA AbortedStreams ==
  ASSUME StreamsKept
  PROVE  /\ Follow!Aborted(streams) \in Seq(Follow!Stream)
         /\ Len(Follow!Aborted(streams)) = Len(streams)
         /\ \A s \in DOMAIN streams : Follow!Aborted(streams)[s].ended \/ Follow!Aborted(streams)[s].aborted
<1>1. CASE active = 0
  BY <1>1 DEF StreamsKept, Follow!Aborted, Follow!StreamTracked, Follow!Live
<1>2. CASE active # 0
  <2>1. active \in DOMAIN streams /\ streams[active] \in Follow!Stream
    BY <1>2 DEF StreamsKept, RegisteredWasBegun
  <2>2. \A s \in DOMAIN streams : s # active => streams[s].ended \/ streams[s].aborted
    BY DEF StreamsKept, Follow!StreamTracked, Follow!Live
  <2>3. Follow!Aborted(streams) = [streams EXCEPT ![active].aborted = TRUE]
    BY <1>2 DEF Follow!Aborted
  <2>4. [streams[active] EXCEPT !.aborted = TRUE] \in Follow!Stream
    BY <2>1 DEF Follow!Stream
  <2> QED BY <2>1, <2>2, <2>3, <2>4 DEF StreamsKept, Follow!Stream
<1> QED BY <1>1, <1>2

LEMMA StopKeeps ==
  ASSUME StreamsKept, Follow!StopLogStream
  PROVE  StreamsKept'
<1>1. streams' \in Seq(Follow!Stream) /\ Len(streams') = Len(streams) /\ active' = 0
  BY AbortedStreams DEF Follow!StopLogStream
<1>2. DOMAIN streams' = DOMAIN streams
  BY <1>1 DEF StreamsKept
<1>3. Follow!Live' = {}
  BY <1>2, AbortedStreams DEF Follow!StopLogStream, Follow!Live
<1> QED BY <1>1, <1>3 DEF StreamsKept, RegisteredWasBegun, Follow!StreamTracked

LEMMA FollowKeeps ==
  ASSUME StreamsKept, NEW c \in Follow!Containers, Follow!Follow(c)
  PROVE  StreamsKept'
<1>1. CASE UNCHANGED <<active, streams>>
  BY <1>1 DEF StreamsKept, RegisteredWasBegun, Follow!StreamTracked, Follow!Live
<1>2. CASE ~UNCHANGED <<active, streams>>
  <2> DEFINE entered == [container |-> c, aborted |-> FALSE, ended |-> FALSE]
             old == Follow!Aborted(streams)
  <2>1. /\ Len(streams) < MaxStreams
        /\ streams' = Append(old, entered)
        /\ active' = Len(streams) + 1
    BY <1>2 DEF Follow!Follow
  <2>2. entered \in Follow!Stream
    BY DEF Follow!Stream
  <2>3. /\ old \in Seq(Follow!Stream) /\ Len(old) = Len(streams)
        /\ \A s \in DOMAIN streams : old[s].ended \/ old[s].aborted
    BY AbortedStreams
  <2> HIDE DEF old, entered
  <2>4. /\ streams' \in Seq(Follow!Stream) /\ Len(streams') = Len(streams) + 1
        /\ \A s \in 1..Len(streams) : streams'[s] = old[s]
        /\ streams'[Len(streams) + 1] = entered
    BY <2>1, <2>2, <2>3
  <2>5. Len(streams') <= MaxStreams
    BY <2>1, <2>4, PlatformAssumption DEF StreamsKept
  <2>6. Len(streams) \in Nat /\ DOMAIN streams = 1..Len(streams) /\ DOMAIN streams' = 1..Len(streams) + 1
    BY <2>4 DEF StreamsKept
  <2>7. Follow!Live' = {Len(streams) + 1}
    <3>1. \A s \in DOMAIN streams' : s # Len(streams) + 1 => streams'[s].ended \/ streams'[s].aborted
      BY <2>3, <2>4, <2>6
    <3>2. ~streams'[Len(streams) + 1].ended /\ ~streams'[Len(streams) + 1].aborted
      BY <2>4 DEF entered
    <3> QED BY <3>1, <3>2, <2>6 DEF Follow!Live
  <2>8. active' \in 0..Len(streams') /\ active' # 0
    BY <2>1, <2>4, <2>6
  <2> QED BY <2>1, <2>4, <2>5, <2>7, <2>8 DEF StreamsKept, RegisteredWasBegun, Follow!StreamTracked
<1> QED BY <1>1, <1>2

LEMMA EndKeeps ==
  ASSUME StreamsKept, NEW s \in DOMAIN streams, Follow!FollowEnds(s)
  PROVE  StreamsKept'
<1>1. streams' = [streams EXCEPT ![s].ended = TRUE] /\ active' = IF active = s THEN 0 ELSE active
  BY DEF Follow!FollowEnds
<1>2. [streams[s] EXCEPT !.ended = TRUE] \in Follow!Stream
  <2>1. streams[s] \in Follow!Stream
    BY DEF StreamsKept
  <2> QED BY <2>1 DEF Follow!Stream
<1>3. streams' \in Seq(Follow!Stream) /\ Len(streams') = Len(streams)
  BY <1>1, <1>2 DEF StreamsKept
<1>4. /\ DOMAIN streams' = DOMAIN streams /\ streams'[s].ended
      /\ \A t \in DOMAIN streams : t # s => streams'[t] = streams[t]
  BY <1>1, <1>2, <1>3 DEF StreamsKept, Follow!Stream
<1>5. Follow!Live' = Follow!Live \ {s}
  BY <1>4 DEF Follow!Live
<1>6. active' \in 0..Len(streams') /\ {active'} \ {0} = ({active} \ {0}) \ {s}
  BY <1>1, <1>3 DEF StreamsKept, RegisteredWasBegun
<1> QED BY <1>3, <1>5, <1>6 DEF StreamsKept, RegisteredWasBegun, Follow!StreamTracked

-----------------------------------------------------------------------------
(* The steps of the jobs and the reconciler.                                 *)

\* The rest of the state is typed and consistent.
RestOK ==
  /\ there \subseteq Follow!Containers /\ up \subseteq there /\ row \in 0..MaxDeploys
  /\ desired \in {"running", "stopped", "gone"}
  /\ job \in [pc : {"idle", "made", "left", "stop", "remove"}, old : 0..MaxDeploys, new : 0..MaxDeploys]
  /\ tick \in [found : 0..MaxDeploys, row : 0..MaxDeploys]
  /\ deploys \in 0..MaxDeploys /\ breaks \in 0..MaxBreaks
  /\ InHandWasMade

LEMMA TrackParts == TrackInv => StreamsKept /\ RestOK
  BY DEF TrackInv, StreamsKept, RestOK, Follow!LogStreamsTypeOK

\* Each step keeps the registered stream the only live one.
LEMMA StepKeepsStreams ==
  ASSUME StreamsKept, RestOK, Follow!Next
  PROVE  StreamsKept'
<1>1. CASE Follow!StreamUnwinds
  BY <1>1, EndKeeps DEF Follow!StreamUnwinds
<1>2. CASE UNCHANGED <<active, streams>>
  BY <1>2 DEF StreamsKept, RegisteredWasBegun, Follow!StreamTracked, Follow!Live
<1>3. CASE Follow!StopLogStream
  BY <1>3, StopKeeps
<1>4. CASE Follow!DeployEnds
  BY <1>4, FollowKeeps DEF Follow!DeployEnds, RestOK, InHandWasMade
<1>5. CASE Follow!TickFollows /\ tick.found \in there
  BY <1>5, FollowKeeps DEF Follow!TickFollows, RestOK
<1> QED BY <1>1, <1>2, <1>3, <1>4, <1>5
    DEF Follow!Next, Follow!DeployMakes, Follow!DeployDrains, Follow!StopsOld, Follow!StopBegins, Follow!StopEnds, Follow!RemoveEnds, Follow!TickLists, Follow!TickFollows

LEMMA StepKeepsRest ==
  ASSUME RestOK, Follow!Next
  PROVE  RestOK'
<1> USE PlatformAssumption DEF RestOK, InHandWasMade, Follow!Containers, Follow!Rest, Follow!NoTick
<1>1. CASE Follow!StreamUnwinds
  BY <1>1 DEF Follow!StreamUnwinds
<1>2. CASE Follow!DeployMakes
  BY <1>2 DEF Follow!DeployMakes
<1>3. CASE Follow!DeployDrains
  BY <1>3 DEF Follow!DeployDrains
<1>4. CASE Follow!StopsOld
  BY <1>4 DEF Follow!StopsOld
<1>5. CASE Follow!DeployEnds
  BY <1>5 DEF Follow!DeployEnds
<1>6. CASE Follow!StopBegins
  <2>1. row \in 0..MaxDeploys
    OBVIOUS
  <2>2. \/ job' = [pc |-> "stop", old |-> row, new |-> 0]
        \/ job' = [pc |-> "remove", old |-> row, new |-> 0]
    BY <1>6 DEF Follow!StopBegins
  <2>3. desired' \in {desired, "stopped"} /\ UNCHANGED <<up, there, row, tick, deploys, breaks>>
    BY <1>6 DEF Follow!StopBegins
  <2> QED BY <2>1, <2>2, <2>3
<1>7. CASE Follow!StopEnds
  <2>1. job' = [pc |-> "idle", old |-> 0, new |-> 0]
    BY <1>7 DEF Follow!StopEnds
  <2>2. up' \subseteq up /\ desired' = "stopped" /\ UNCHANGED <<there, row, tick, deploys, breaks>>
    BY <1>7 DEF Follow!StopEnds
  <2> QED BY <2>1, <2>2
<1>8. CASE Follow!RemoveEnds
  BY <1>8 DEF Follow!RemoveEnds
<1>9. CASE Follow!TickLists
  BY <1>9 DEF Follow!TickLists
<1>10. CASE Follow!TickFollows
  BY <1>10 DEF Follow!TickFollows
<1> QED BY <1>1, <1>2, <1>3, <1>4, <1>5, <1>6, <1>7, <1>8, <1>9, <1>10 DEF Follow!Next

LEMMA TrackStutters ==
  ASSUME TrackInv, UNCHANGED Follow!vars
  PROVE  TrackInv'
  BY DEF Follow!vars, TrackInv, Follow!LogStreamsTypeOK, Follow!StreamTracked, RegisteredWasBegun, InHandWasMade, Follow!Live

LEMMA FollowStep ==
  ASSUME TrackInv, Follow!Next
  PROVE  TrackInv'
<1>1. StreamsKept' /\ RestOK'
  BY TrackParts, StepKeepsStreams, StepKeepsRest
<1>2. active' \in 0..MaxStreams
  BY <1>1, PlatformAssumption DEF StreamsKept, RegisteredWasBegun
<1> QED BY <1>1, <1>2 DEF TrackInv, StreamsKept, RestOK, Follow!LogStreamsTypeOK

LEMMA StreamsKeep ==
  ASSUME part = "follow" => TrackInv, [Next]_vars
  PROVE  (part = "follow" => TrackInv)'
<1> SUFFICES ASSUME part' = "follow" PROVE TrackInv'
  OBVIOUS
<1>1. CASE UNCHANGED vars
  <2>1. part = "follow" /\ UNCHANGED Follow!vars
    BY <1>1 DEF vars, followVars, Follow!vars
  <2> QED BY <2>1, TrackStutters
<1>2. CASE Next
  <2>1. part = "follow" /\ Follow!Next
    BY <1>2 DEF Next, Only
  <2> QED BY <2>1, FollowStep
<1> QED BY <1>1, <1>2

LEMMA StreamsBegin ==
  ASSUME Init, part = "follow"
  PROVE  TrackInv
<1>1. Follow!Init
  BY DEF Init
<1> QED BY <1>1, InitTracks

\* For every number of deploys, streams and lost connections, the stream nobody
\* aborted is the registered one and no record outlives its stream
\* (logs/stream.ts): the streams of a replaced and of the new container never
\* both feed the log, and a container can always be followed again.
THEOREM StreamsAreTracked == Spec => [](StreamTracked)
<1>1. Init => (part = "follow" => TrackInv)
  BY StreamsBegin
<1>2. (part = "follow" => TrackInv) /\ [Next]_vars => (part = "follow" => TrackInv)'
  BY StreamsKeep
<1>3. (part = "follow" => TrackInv) => StreamTracked
  BY DEF TrackInv, StreamTracked
<1> QED BY <1>1, <1>2, <1>3, PTL DEF Spec

-----------------------------------------------------------------------------
(* The password gate and the first account (Accounts).                       *)

\* Nobody is called as no one is.
LEMMA NobodyIsNone == SignIn!None \notin Requests /\ SignIn!Earlier \notin Requests /\ SignIn!None # SignIn!Earlier
  BY PlatformAssumption DEF SignIn!None, SignIn!Earlier

RequestRecord == [ask : SignIn!Asks \cup {SignIn!None}, pc : {"done", "ask", "wait", "runs", "back", "session"},
           op : {SignIn!None, "hash", "verify", "rehash"}, seen : {"old", "new"}, ok : BOOLEAN,
           answer : {SignIn!None, "home", "login", "setup", "incorrect", "busy", "error"}]
GateTyped ==
  /\ request \in [Requests -> RequestRecord] /\ queue \in Seq(Requests)
  /\ running \in Requests \cup {SignIn!None} /\ hash \in {"old", "new"}

\* Nobody waits twice, so whoever is given the gate waits no more.
WaitsOnce == \A i, k \in DOMAIN queue : queue[i] = queue[k] => i = k

\* Only the sign-in with the right password hashes again.
RehashIsKnown == \A r \in Requests : request[r].op = "rehash" => request[r].ask = "known"

\* The gate's part and the account's part of what a step relies on.
GateInv == GateTyped /\ SignIn!GateIsHeld /\ WaitsOnce
AccountInv == GateTyped /\ account \in Requests \cup {SignIn!None, SignIn!Earlier} /\ SignIn!OneAccount /\ RehashIsKnown

LEMMA GateBegins ==
  ASSUME SignIn!Init
  PROVE  GateInv /\ AccountInv
<1>1. SignIn!Rest \in RequestRecord
  BY DEF SignIn!Rest, SignIn!Ended, RequestRecord, SignIn!None
<1>2. GateTyped
  BY <1>1 DEF SignIn!Init, GateTyped
<1>3. SignIn!GateIsHeld
  BY DEF SignIn!Init, SignIn!GateIsHeld, SignIn!At, SignIn!Rest, SignIn!Ended
<1>4. SignIn!OneAccount /\ RehashIsKnown
  BY DEF SignIn!Init, SignIn!OneAccount, RehashIsKnown, SignIn!At, SignIn!Rest, SignIn!Ended, SignIn!None
<1> QED BY <1>2, <1>3, <1>4 DEF SignIn!Init, GateInv, AccountInv, WaitsOnce

-----------------------------------------------------------------------------
(* How a request moves.                                                      *)

Place == {"done", "ask", "wait", "runs", "back", "session"}
Others(r) == \A q \in Requests \ {r} : request'[q] = request[q]

LEMMA RequestFields ==
  ASSUME GateTyped, NEW r \in Requests
  PROVE  /\ request[r] \in RequestRecord
         /\ request[r].pc \in Place
  BY DEF GateTyped, RequestRecord, Place

LEMMA RequestGoes ==
  ASSUME GateTyped, NEW r \in Requests, NEW pc \in Place, SignIn!Goes(r, pc)
  PROVE  /\ request' \in [Requests -> RequestRecord] /\ Others(r)
         /\ request'[r].pc = pc /\ request'[r].ask = request[r].ask
         /\ request'[r].op = request[r].op /\ request'[r].answer = request[r].answer
<1>1. request[r] \in RequestRecord /\ request' = [request EXCEPT ![r].pc = pc]
  BY RequestFields DEF SignIn!Goes
<1>2. [request[r] EXCEPT !.pc = pc] \in RequestRecord
  BY <1>1 DEF RequestRecord, Place
<1>3. request' \in [Requests -> RequestRecord] /\ Others(r) /\ request'[r] = [request[r] EXCEPT !.pc = pc]
  BY <1>1, <1>2 DEF GateTyped, Others
<1> QED BY <1>1, <1>3 DEF RequestRecord

LEMMA AnswerTo ==
  ASSUME GateTyped, NEW r \in Requests,
         NEW answer \in {"home", "login", "setup", "incorrect", "busy", "error"}, SignIn!Answered(r, answer)
  PROVE  /\ request' \in [Requests -> RequestRecord] /\ Others(r)
         /\ request'[r].pc = "done" /\ request'[r].ask = request[r].ask
         /\ request'[r].op = SignIn!None /\ request'[r].answer = answer
<1> DEFINE given == SignIn!Ended(request[r].ask, answer)
<1>1. request[r].ask \in SignIn!Asks \cup {SignIn!None}
  BY RequestFields DEF RequestRecord
<1>2. /\ given.pc = "done" /\ given.ask = request[r].ask /\ given.op = SignIn!None /\ given.answer = answer
  BY DEF SignIn!Ended
<1>3. given \in RequestRecord
  BY <1>1 DEF RequestRecord, SignIn!Ended
<1>4. request' = [request EXCEPT ![r] = given]
  BY DEF SignIn!Answered
<1> HIDE DEF given
<1>5. request' \in [Requests -> RequestRecord] /\ Others(r) /\ request'[r] = given
  BY <1>3, <1>4 DEF GateTyped, Others
<1> QED BY <1>2, <1>5

\* A request that neither waits nor runs, before and after, leaves the gate be.
LEMMA AwayFromGate ==
  ASSUME GateInv, NEW r \in Requests, UNCHANGED <<running, queue>>, hash' \in {"old", "new"},
         request' \in [Requests -> RequestRecord], Others(r),
         request[r].pc \notin {"wait", "runs"}, request'[r].pc \notin {"wait", "runs"}
  PROVE  GateInv'
<1>1. \A q \in Requests : (SignIn!At(q, "runs")' <=> SignIn!At(q, "runs")) /\ (SignIn!At(q, "wait")' <=> SignIn!At(q, "wait"))
  BY DEF SignIn!At, Others
<1>2. SignIn!GateIsHeld'
  BY <1>1 DEF GateInv, SignIn!GateIsHeld
<1> QED BY <1>2 DEF GateInv, GateTyped, WaitsOnce

LEMMA FromRest ==
  ASSUME GateTyped, NEW r \in Requests, NEW new \in RequestRecord, request' = [request EXCEPT ![r] = new]
  PROVE  request' \in [Requests -> RequestRecord] /\ Others(r) /\ request'[r] = new
  BY DEF GateTyped, Others

\* What a first look makes of a request.
LEMMA BeginMakes ==
  ASSUME GateTyped, account \in Requests \cup {SignIn!None, SignIn!Earlier}, NEW r \in Requests, SignIn!Begin(r)
  PROVE  /\ request' \in [Requests -> RequestRecord] /\ Others(r)
         /\ request'[r].pc \in {"done", "ask"} /\ request'[r].op # "rehash"
         /\ request'[r].answer \in {"login", SignIn!None}
<1>1. PICK new \in RequestRecord :
        /\ request' = [request EXCEPT ![r] = new]
        /\ new.pc \in {"done", "ask"} /\ new.op # "rehash" /\ new.answer \in {"login", SignIn!None}
  <2>1. PICK ask \in SignIn!Asks :
       \/ request' = [request EXCEPT ![r] = SignIn!Ended(ask, "login")]
       \/ request' = [request EXCEPT ![r] = SignIn!Asking(ask, "hash", "new")]
       \/ request' = [request EXCEPT ![r] = SignIn!Asking(ask, "verify", hash)]
    BY DEF SignIn!Begin
  <2>2. SignIn!Ended(ask, "login") \in RequestRecord /\ SignIn!Asking(ask, "hash", "new") \in RequestRecord /\ SignIn!Asking(ask, "verify", hash) \in RequestRecord
    BY DEF SignIn!Ended, SignIn!Asking, RequestRecord, SignIn!None, GateTyped
  <2>3. \A new \in {SignIn!Ended(ask, "login"), SignIn!Asking(ask, "hash", "new"), SignIn!Asking(ask, "verify", hash)} :
          new.pc \in {"done", "ask"} /\ new.op # "rehash" /\ new.answer \in {"login", SignIn!None}
    BY DEF SignIn!Ended, SignIn!Asking, SignIn!None
  <2> QED BY <2>1, <2>2, <2>3
<1> QED BY <1>1, FromRest

-----------------------------------------------------------------------------
(* The gate: password.ts.                                                    *)

LEMMA GateTaken ==
  ASSUME GateInv, NEW r \in Requests, SignIn!At(r, "ask"), running = SignIn!None, running' = r,
         SignIn!Goes(r, "runs"), UNCHANGED <<queue, hash>>
  PROVE  GateInv'
<1>1. /\ request' \in [Requests -> RequestRecord] /\ Others(r) /\ request'[r].pc = "runs"
  BY RequestGoes DEF GateInv, Place
<1>2. queue = << >> /\ \A q \in Requests : ~SignIn!At(q, "runs") /\ ~SignIn!At(q, "wait")
  BY DEF GateInv, SignIn!GateIsHeld
<1>3. \A q \in Requests : (request'[q].pc = "runs" <=> q = r) /\ request'[q].pc # "wait"
  BY <1>1, <1>2 DEF Others, SignIn!At
<1>4. SignIn!GateIsHeld'
  BY <1>2, <1>3, NobodyIsNone DEF SignIn!GateIsHeld, SignIn!At
<1> QED BY <1>1, <1>2, <1>4 DEF GateInv, GateTyped, WaitsOnce

LEMMA QueueJoined ==
  ASSUME GateInv, NEW r \in Requests, SignIn!At(r, "ask"), running # SignIn!None,
         queue' = Append(queue, r), SignIn!Goes(r, "wait"), UNCHANGED <<running, hash>>
  PROVE  GateInv'
<1>1. /\ request' \in [Requests -> RequestRecord] /\ Others(r) /\ request'[r].pc = "wait"
  BY RequestGoes DEF GateInv, Place
<1>2. \A i \in DOMAIN queue : queue[i] \in Requests /\ queue[i] # r
  BY DEF GateInv, SignIn!GateIsHeld, SignIn!At, GateTyped
<1>3. /\ queue' \in Seq(Requests) /\ DOMAIN queue' = 1..Len(queue) + 1 /\ Len(queue) \in Nat
      /\ \A i \in 1..Len(queue) : queue'[i] = queue[i]
      /\ queue'[Len(queue) + 1] = r /\ DOMAIN queue = 1..Len(queue)
  BY DEF GateInv, GateTyped
<1>4. WaitsOnce'
  BY <1>2, <1>3 DEF GateInv, WaitsOnce
<1>5. \A q \in Requests : (request'[q].pc = "runs" <=> SignIn!At(q, "runs"))
                          /\ (request'[q].pc = "wait" <=> SignIn!At(q, "wait") \/ q = r)
  BY <1>1 DEF Others, SignIn!At
<1>6. {queue'[i] : i \in DOMAIN queue'} = {queue[i] : i \in DOMAIN queue} \cup {r}
  BY <1>3
<1>7. SignIn!GateIsHeld'
  BY <1>5, <1>6 DEF GateInv, SignIn!GateIsHeld, SignIn!At
<1> QED BY <1>1, <1>3, <1>4, <1>7 DEF GateInv, GateTyped

\* What a release does to the request that had the gate and to the next.
LEMMA ReleaseMakes ==
  ASSUME GateInv, NEW r \in Requests, SignIn!At(r, "runs"), NEW ok \in BOOLEAN, SignIn!Release(r, ok)
  PROVE  /\ request' \in [Requests -> RequestRecord]
         /\ request'[r].pc = "back"
         /\ \A q \in Requests : /\ request'[q].ask = request[q].ask /\ request'[q].op = request[q].op
                               /\ request'[q].answer = request[q].answer
         /\ \A q \in Requests \ {r} :
               request'[q].pc = IF queue # << >> /\ q = Head(queue) THEN "runs" ELSE request[q].pc
<1>1. CASE queue = << >>
  BY <1>1 DEF SignIn!Release, GateInv, GateTyped, RequestRecord
<1>2. CASE queue # << >>
  <2>1. Head(queue) \in Requests /\ SignIn!At(Head(queue), "wait")
    BY <1>2 DEF GateInv, SignIn!GateIsHeld, GateTyped
  <2>2. Head(queue) # r
    BY <2>1 DEF SignIn!At
  <2>3. request' = [request EXCEPT ![r].pc = "back", ![r].ok = ok, ![Head(queue)].pc = "runs"]
    BY <1>2 DEF SignIn!Release
  <2> DEFINE h == Head(queue)
  <2>4. h \in Requests /\ h # r /\ request' = [request EXCEPT ![r].pc = "back", ![r].ok = ok, ![h].pc = "runs"]
    BY <2>1, <2>2, <2>3
  <2> HIDE DEF h
  <2>5. request \in [Requests -> RequestRecord] /\ request[r] \in RequestRecord /\ request[h] \in RequestRecord
    BY <2>4 DEF GateInv, GateTyped
  <2>6. /\ request'[r] = [request[r] EXCEPT !.pc = "back", !.ok = ok]
        /\ request'[h] = [request[h] EXCEPT !.pc = "runs"]
        /\ \A q \in Requests \ {r, h} : request'[q] = request[q]
        /\ DOMAIN request' = Requests /\ request' = [q \in Requests |-> request'[q]]
    BY <2>4, <2>5
  <2>7. request'[r] \in RequestRecord /\ request'[h] \in RequestRecord
    BY <2>5, <2>6 DEF RequestRecord
  <2>8. request' \in [Requests -> RequestRecord]
    BY <2>4, <2>5, <2>6, <2>7
  <2>9. /\ request'[r].pc = "back" /\ request'[h].pc = "runs"
        /\ request'[r].ask = request[r].ask /\ request'[r].op = request[r].op
        /\ request'[r].answer = request[r].answer
        /\ request'[h].ask = request[h].ask /\ request'[h].op = request[h].op
        /\ request'[h].answer = request[h].answer
    BY <2>5, <2>6 DEF RequestRecord
  <2> QED BY <1>2, <2>4, <2>6, <2>8, <2>9 DEF h
<1> QED BY <1>1, <1>2

LEMMA ReleaseKeeps ==
  ASSUME GateInv, NEW r \in Requests, SignIn!OperationEnds(r)
  PROVE  GateInv'
<1>1. PICK ok \in BOOLEAN : SignIn!Release(r, ok)
  BY DEF SignIn!OperationEnds
<1>2. SignIn!At(r, "runs") /\ hash' = hash
  BY DEF SignIn!OperationEnds
<1>3. /\ request' \in [Requests -> RequestRecord] /\ request'[r].pc = "back"
      /\ \A q \in Requests \ {r} :
            request'[q].pc = IF queue # << >> /\ q = Head(queue) THEN "runs" ELSE request[q].pc
  BY <1>1, <1>2, ReleaseMakes
<1>4. \A q \in Requests : SignIn!At(q, "runs") <=> q = r
  BY <1>2 DEF GateInv, SignIn!GateIsHeld
<1>5. CASE queue = << >>
  <2>1. running' = SignIn!None /\ queue' = << >>
    BY <1>1, <1>5 DEF SignIn!Release
  <2>2. \A q \in Requests : ~SignIn!At(q, "wait")
    BY <1>5 DEF GateInv, SignIn!GateIsHeld
  <2>3. \A q \in Requests : request'[q].pc \notin {"runs", "wait"}
    BY <1>3, <1>4, <1>5, <2>2 DEF SignIn!At
  <2>4. SignIn!GateIsHeld'
    BY <2>1, <2>3 DEF SignIn!GateIsHeld, SignIn!At
  <2> QED BY <1>2, <1>3, <2>1, <2>4 DEF GateInv, GateTyped, WaitsOnce
<1>6. CASE queue # << >>
  <2> DEFINE h == Head(queue)
  <2>1. running' = h /\ queue' = Tail(queue)
    BY <1>1, <1>6 DEF SignIn!Release
  <2>2. /\ queue' \in Seq(Requests) /\ Len(queue) \in Nat /\ Len(queue) > 0
        /\ DOMAIN queue = 1..Len(queue) /\ DOMAIN queue' = 1..Len(queue) - 1
        /\ \A i \in DOMAIN queue' : queue'[i] = queue[i + 1]
        /\ h = queue[1] /\ h \in Requests
    BY <1>6, <2>1 DEF GateInv, GateTyped
  <2> HIDE DEF h
  <2>3. WaitsOnce'
    BY <2>2 DEF GateInv, WaitsOnce
  <2>4. \A q \in Requests : SignIn!At(q, "wait") <=> \E i \in DOMAIN queue : q = queue[i]
    BY DEF GateInv, SignIn!GateIsHeld
  <2>5. SignIn!At(h, "wait") /\ h # r
    BY <1>4, <2>2, <2>4 DEF SignIn!At
  <2>6. \A q \in Requests : /\ request'[q].pc = "runs" <=> q = h
                            /\ request'[q].pc = "wait" <=> SignIn!At(q, "wait") /\ q # h
    BY <1>3, <1>4, <1>6, <2>5 DEF SignIn!At, h
  <2>7. \A q : (\E i \in DOMAIN queue' : q = queue'[i]) <=> (\E i \in DOMAIN queue : q = queue[i]) /\ q # h
    <3>1. \A i \in DOMAIN queue' : i + 1 \in DOMAIN queue /\ queue'[i] = queue[i + 1] /\ queue[i + 1] # h
      BY <2>2 DEF GateInv, WaitsOnce
    <3>2. \A i \in DOMAIN queue : i # 1 => i - 1 \in DOMAIN queue' /\ queue[i] = queue'[i - 1]
      BY <2>2
    <3> QED BY <2>2, <3>1, <3>2
  <2>8. {q \in Requests : request'[q].pc = "wait"} = {queue'[i] : i \in DOMAIN queue'}
    <3>1. \A i \in DOMAIN queue' : queue'[i] \in Requests
      BY <2>2
    <3>2. \A q \in Requests : request'[q].pc = "wait" <=> \E i \in DOMAIN queue' : q = queue'[i]
      BY <2>4, <2>6, <2>7
    <3> QED BY <3>1, <3>2
  <2>9. SignIn!GateIsHeld'
    BY <2>1, <2>2, <2>6, <2>8, NobodyIsNone DEF SignIn!GateIsHeld, SignIn!At
  <2> QED BY <1>2, <1>3, <2>1, <2>2, <2>3, <2>9 DEF GateInv, GateTyped
<1> QED BY <1>5, <1>6

-----------------------------------------------------------------------------
(* One lemma for every step of a request.                                    *)

\* The steps outside the gate neither begin nor end an operation.
LEMMA GateStep ==
  ASSUME GateInv, AccountInv, NEW r \in Requests,
         \/ SignIn!Begin(r) \/ SignIn!GateRun(r) \/ SignIn!OperationEnds(r)
         \/ SignIn!CreateUser(r) \/ SignIn!VerifyCredentials(r) \/ SignIn!UpgradeHash(r) \/ SignIn!Throws(r) \/ SignIn!CreateSession(r)
  PROVE  GateInv'
<1>1. CASE SignIn!Begin(r)
  BY <1>1, BeginMakes, AwayFromGate DEF SignIn!Begin, AccountInv, GateInv, GateTyped, SignIn!At
<1>2. CASE SignIn!GateRun(r)
  <2>1. ASSUME SignIn!Busy(r), UNCHANGED <<running, queue>>
        PROVE  GateInv'
    <3>1. SignIn!Goes(r, "session") \/ SignIn!Answered(r, "busy")
      BY <2>1 DEF SignIn!Busy
    <3>2. /\ request' \in [Requests -> RequestRecord] /\ Others(r)
          /\ request'[r].pc \in {"session", "done"}
      BY <3>1, RequestGoes, AnswerTo DEF GateInv, Place
    <3> QED BY <1>2, <2>1, <3>2, AwayFromGate DEF SignIn!GateRun, SignIn!At, GateInv, GateTyped
  <2> QED BY <1>2, <2>1, GateTaken, QueueJoined DEF SignIn!GateRun
<1>3. CASE SignIn!OperationEnds(r)
  BY <1>3, ReleaseKeeps
<1>4. CASE SignIn!CreateUser(r)
  <2>1. SignIn!Goes(r, "session") \/ SignIn!Answered(r, "login")
    BY <1>4 DEF SignIn!CreateUser
  <2>2. /\ request' \in [Requests -> RequestRecord] /\ Others(r) /\ request'[r].pc \in {"session", "done"}
    BY <2>1, RequestGoes, AnswerTo DEF GateInv, Place
  <2> QED BY <1>4, <2>2, AwayFromGate DEF SignIn!CreateUser, SignIn!At, GateInv, GateTyped
<1>5. CASE SignIn!VerifyCredentials(r)
  <2>1. CASE SignIn!Goes(r, "session") \/ SignIn!Answered(r, "incorrect")
    <3>1. /\ request' \in [Requests -> RequestRecord] /\ Others(r) /\ request'[r].pc \in {"session", "done"}
      BY <2>1, RequestGoes, AnswerTo DEF GateInv, Place
    <3> QED BY <1>5, <3>1, AwayFromGate DEF SignIn!VerifyCredentials, SignIn!At, GateInv, GateTyped
  <2>2. CASE request' = [request EXCEPT ![r].pc = "ask", ![r].op = "rehash"]
    <3>1. request \in [Requests -> RequestRecord] /\ request[r] \in RequestRecord
      BY DEF GateInv, GateTyped
    <3>2. request' \in [Requests -> RequestRecord]
      BY <2>2, <3>1 DEF RequestRecord
    <3>3. Others(r)
      BY <2>2, <3>1 DEF Others
    <3>4. request'[r].pc = "ask"
      BY <2>2, <3>1 DEF RequestRecord
    <3> QED BY <1>5, <3>2, <3>3, <3>4, AwayFromGate DEF SignIn!VerifyCredentials, SignIn!At, GateInv, GateTyped
  <2> QED BY <1>5, <2>1, <2>2 DEF SignIn!VerifyCredentials
<1>6. CASE SignIn!UpgradeHash(r)
  <2>1. /\ request' \in [Requests -> RequestRecord] /\ Others(r) /\ request'[r].pc = "session"
    BY <1>6, RequestGoes DEF SignIn!UpgradeHash, GateInv, Place
  <2> QED BY <1>6, <2>1, AwayFromGate DEF SignIn!UpgradeHash, SignIn!At, GateInv, GateTyped
<1>7. CASE SignIn!Throws(r)
  <2>1. /\ request' \in [Requests -> RequestRecord] /\ Others(r) /\ request'[r].pc = "done"
    BY <1>7, AnswerTo DEF SignIn!Throws, GateInv
  <2> QED BY <1>7, <2>1, AwayFromGate DEF SignIn!Throws, SignIn!At, GateInv, GateTyped
<1>8. CASE SignIn!CreateSession(r)
  <2>1. /\ request' \in [Requests -> RequestRecord] /\ Others(r) /\ request'[r].pc = "done"
    BY <1>8, AnswerTo DEF SignIn!CreateSession, GateInv
  <2> QED BY <1>8, <2>1, AwayFromGate DEF SignIn!CreateSession, SignIn!At, GateInv, GateTyped
<1> QED BY <1>1, <1>2, <1>3, <1>4, <1>5, <1>6, <1>7, <1>8

\* A request that does not come to stand for a setup that was let in, or whose
\* account it is, leaves the account's part be.
LEMMA AccountKept ==
  ASSUME AccountInv, GateInv', NEW r \in Requests, Others(r),
         account' \in Requests \cup {SignIn!None, SignIn!Earlier}, account' = account \/ account = SignIn!None,
         request'[r].op = "rehash" => request'[r].ask = "known",
         request'[r].ask = "setup" /\ (request'[r].answer = "home" \/ request'[r].pc = "session") => account' = r
  PROVE  AccountInv'
<1>1. RehashIsKnown'
  BY DEF AccountInv, RehashIsKnown, Others
<1>2. ASSUME NEW q \in Requests \ {r}, request'[q].ask = "setup",
             request'[q].answer = "home" \/ request'[q].pc = "session"
      PROVE  account' = q
  <2>1. account = q
    BY <1>2 DEF AccountInv, SignIn!OneAccount, SignIn!At, Others
  <2> QED BY <2>1, NobodyIsNone
<1>3. SignIn!OneAccount'
  BY <1>2 DEF SignIn!OneAccount, SignIn!At
<1> QED BY <1>1, <1>3 DEF AccountInv, GateInv

LEMMA AccountStep ==
  ASSUME GateInv, GateInv', AccountInv, NEW r \in Requests,
         \/ SignIn!Begin(r) \/ SignIn!GateRun(r) \/ SignIn!OperationEnds(r)
         \/ SignIn!CreateUser(r) \/ SignIn!VerifyCredentials(r) \/ SignIn!UpgradeHash(r) \/ SignIn!Throws(r) \/ SignIn!CreateSession(r)
  PROVE  AccountInv'
<1>0. /\ RehashIsKnown /\ GateTyped /\ account \in Requests \cup {SignIn!None, SignIn!Earlier}
      /\ request[r].ask = "setup" /\ (request[r].answer = "home" \/ request[r].pc = "session") => account = r
  BY DEF AccountInv, SignIn!OneAccount, SignIn!At
<1>1. CASE SignIn!Begin(r)
  BY <1>0, <1>1, BeginMakes, AccountKept DEF SignIn!Begin, AccountInv, GateTyped, SignIn!None
<1>2. CASE SignIn!GateRun(r)
  <2>1. CASE SignIn!Answered(r, "busy")
    BY <1>0, <1>2, <2>1, AnswerTo, AccountKept DEF SignIn!GateRun, SignIn!None
  <2>2. CASE SignIn!Goes(r, "runs") \/ SignIn!Goes(r, "wait")
    BY <1>0, <1>2, <2>2, RequestGoes, AccountKept DEF SignIn!GateRun, Place, RehashIsKnown
  <2>3. CASE SignIn!Goes(r, "session") /\ request[r].op = "rehash"
    <3>1. request[r].ask = "known"
      BY <1>0, <2>3 DEF RehashIsKnown
    <3> QED BY <1>0, <1>2, <2>3, <3>1, RequestGoes, AccountKept DEF SignIn!GateRun, Place
  <2> QED BY <1>2, <2>1, <2>2, <2>3 DEF SignIn!GateRun, SignIn!Busy
<1>3. CASE SignIn!OperationEnds(r)
  <2>1. PICK ok \in BOOLEAN : SignIn!Release(r, ok)
    BY <1>3 DEF SignIn!OperationEnds
  <2>2. SignIn!At(r, "runs") /\ account' = account
    BY <1>3 DEF SignIn!OperationEnds
  <2>3. \A q \in Requests : /\ request'[q].ask = request[q].ask /\ request'[q].op = request[q].op
                            /\ request'[q].answer = request[q].answer
                            /\ request'[q].pc = "session" => request[q].pc = "session"
    BY <2>1, <2>2, ReleaseMakes
  <2>4. SignIn!OneAccount' /\ RehashIsKnown'
    BY <2>2, <2>3 DEF AccountInv, SignIn!OneAccount, RehashIsKnown, SignIn!At
  <2> QED BY <2>2, <2>4 DEF AccountInv, GateInv
<1>4. CASE SignIn!CreateUser(r)
  <2>1. CASE account = SignIn!None
    <3>1. SignIn!Goes(r, "session") /\ account' = r
      BY <1>4, <2>1 DEF SignIn!CreateUser
    <3> QED BY <1>0, <2>1, <3>1, RequestGoes, AccountKept DEF Place, RehashIsKnown
  <2>2. CASE account # SignIn!None
    <3>1. SignIn!Answered(r, "login") /\ account' = account
      BY <1>4, <2>2 DEF SignIn!CreateUser
    <3> QED BY <1>0, <3>1, AnswerTo, AccountKept DEF SignIn!None
  <2> QED BY <2>1, <2>2
<1>5. CASE SignIn!VerifyCredentials(r)
  <2>1. request[r].ask # "setup" /\ account' = account
    BY <1>5 DEF SignIn!VerifyCredentials
  <2>2. CASE SignIn!Answered(r, "incorrect")
    BY <1>0, <2>1, <2>2, AnswerTo, AccountKept DEF SignIn!None
  <2>3. CASE request[r].ask = "known" /\ request' = [request EXCEPT ![r].pc = "ask", ![r].op = "rehash"]
    <3>1. Others(r) /\ request'[r].ask = "known"
      BY <1>0, <2>3 DEF GateTyped, RequestRecord, Others
    <3> QED BY <1>0, <2>1, <3>1, AccountKept
  <2>4. CASE SignIn!Goes(r, "session")
    BY <1>0, <2>1, <2>4, RequestGoes, AccountKept DEF Place, RehashIsKnown
  <2> QED BY <1>5, <2>2, <2>3, <2>4 DEF SignIn!VerifyCredentials
<1>6. CASE SignIn!UpgradeHash(r)
  <2>1. SignIn!Goes(r, "session") /\ account' = account /\ request[r].ask = "known"
    BY <1>0, <1>6 DEF SignIn!UpgradeHash, RehashIsKnown
  <2> QED BY <1>0, <2>1, RequestGoes, AccountKept DEF Place
<1>7. CASE SignIn!Throws(r)
  BY <1>0, <1>7, AnswerTo, AccountKept DEF SignIn!Throws, SignIn!None
<1>8. CASE SignIn!CreateSession(r)
  BY <1>0, <1>8, AnswerTo, AccountKept DEF SignIn!CreateSession, SignIn!At, SignIn!None
<1> QED BY <1>1, <1>2, <1>3, <1>4, <1>5, <1>6, <1>7, <1>8

\* What is counted and kept besides.
CountInv == Len(queue) <= MaxWaiting /\ sessions \subseteq {"alive", "expired"} /\ answers \in 0..MaxAnswers

LEMMA CountStep ==
  ASSUME GateInv, CountInv, [SignIn!Next]_(SignIn!vars)
  PROVE  CountInv'
<1>0. /\ MaxWaiting \in Nat /\ MaxAnswers \in Nat /\ queue \in Seq(Requests) /\ Len(queue) \in Nat
      /\ sessions \subseteq {"alive", "expired"} /\ answers \in 0..MaxAnswers /\ Len(queue) <= MaxWaiting
  BY PlatformAssumption DEF GateInv, GateTyped, CountInv
<1>1. CASE \E r \in Requests : SignIn!Begin(r)
  BY <1>0, <1>1 DEF SignIn!Begin, CountInv
<1>2. CASE \E r \in Requests : SignIn!GateRun(r)
  <2>1. PICK r \in Requests : SignIn!GateRun(r)
    BY <1>2
  <2>2. UNCHANGED <<sessions, answers>>
    BY <2>1 DEF SignIn!GateRun
  <2>3. CASE queue' = queue
    BY <1>0, <2>2, <2>3 DEF CountInv
  <2>4. CASE Len(queue) < MaxWaiting /\ queue' = Append(queue, r)
    <3>1. Len(queue') = Len(queue) + 1
      BY <1>0, <2>4
    <3> QED BY <1>0, <2>2, <2>4, <3>1 DEF CountInv
  <2> QED BY <2>1, <2>3, <2>4 DEF SignIn!GateRun
<1>3. CASE \E r \in Requests : SignIn!OperationEnds(r)
  <2>1. PICK r \in Requests : SignIn!OperationEnds(r)
    BY <1>3
  <2>2. UNCHANGED <<sessions, answers>>
    BY <2>1 DEF SignIn!OperationEnds
  <2>3. queue' = queue \/ (queue # << >> /\ queue' = Tail(queue))
    BY <2>1 DEF SignIn!OperationEnds, SignIn!Release
  <2>4. CASE queue # << >> /\ queue' = Tail(queue)
    <3>1. Len(queue') = Len(queue) - 1
      BY <1>0, <2>4
    <3> QED BY <1>0, <2>2, <3>1 DEF CountInv
  <2> QED BY <1>0, <2>2, <2>3, <2>4 DEF CountInv
<1>4. CASE UNCHANGED <<queue, answers>> /\ sessions' \subseteq sessions \cup {"alive", "expired"}
  BY <1>0, <1>4 DEF CountInv
<1>5. ASSUME NEW r \in Requests, SignIn!CreateUser(r) \/ SignIn!VerifyCredentials(r) \/ SignIn!UpgradeHash(r) \/ SignIn!Throws(r) \/ SignIn!CreateSession(r)
      PROVE  UNCHANGED <<queue, answers>> /\ sessions' \subseteq sessions \cup {"alive", "expired"}
  BY <1>5 DEF SignIn!CreateUser, SignIn!VerifyCredentials, SignIn!UpgradeHash, SignIn!Throws, SignIn!CreateSession
<1>6. ASSUME SignIn!Logout \/ SignIn!SessionExpires \/ SignIn!PurgeExpired \/ UNCHANGED SignIn!vars
      PROVE  UNCHANGED <<queue, answers>> /\ sessions' \subseteq sessions \cup {"alive", "expired"}
  BY <1>6 DEF SignIn!Logout, SignIn!SessionExpires, SignIn!PurgeExpired, SignIn!vars
<1>7. CASE \E r \in Requests : SignIn!CreateUser(r) \/ SignIn!VerifyCredentials(r) \/ SignIn!UpgradeHash(r) \/ SignIn!Throws(r) \/ SignIn!CreateSession(r)
  BY <1>4, <1>5, <1>7
<1>8. CASE SignIn!Logout \/ SignIn!SessionExpires \/ SignIn!PurgeExpired \/ UNCHANGED SignIn!vars
  BY <1>4, <1>6, <1>8
<1>9. CASE SignIn!Next
  BY <1>1, <1>2, <1>3, <1>7, <1>8, <1>9 DEF SignIn!Next
<1> QED BY <1>8, <1>9

SignInInv == GateInv /\ AccountInv /\ CountInv

LEMMA SignInStep ==
  ASSUME SignInInv, [SignIn!Next]_(SignIn!vars)
  PROVE  SignInInv'
<1>0. GateInv /\ AccountInv /\ CountInv
  BY DEF SignInInv
<1>1. GateInv' /\ AccountInv'
  <2>1. CASE UNCHANGED <<account, hash, request, running, queue>>
    BY <1>0, <2>1 DEF GateInv, AccountInv, GateTyped, SignIn!GateIsHeld, WaitsOnce, SignIn!OneAccount, RehashIsKnown, SignIn!At
  <2>2. CASE \E r \in Requests :
               \/ SignIn!Begin(r) \/ SignIn!GateRun(r) \/ SignIn!OperationEnds(r)
               \/ SignIn!CreateUser(r) \/ SignIn!VerifyCredentials(r) \/ SignIn!UpgradeHash(r) \/ SignIn!Throws(r) \/ SignIn!CreateSession(r)
    BY <1>0, <2>2, GateStep, AccountStep
  <2>3. CASE SignIn!Logout \/ SignIn!SessionExpires \/ SignIn!PurgeExpired \/ UNCHANGED SignIn!vars
    BY <2>1, <2>3 DEF SignIn!Logout, SignIn!SessionExpires, SignIn!PurgeExpired, SignIn!vars
  <2>4. CASE SignIn!Next
    BY <2>2, <2>3, <2>4 DEF SignIn!Next
  <2> QED BY <2>3, <2>4
<1> QED BY <1>0, <1>1, CountStep DEF SignInInv

LEMMA SignInKeeps ==
  ASSUME part = "signin" => SignInInv, [Next]_vars
  PROVE  (part = "signin" => SignInInv)'
<1> SUFFICES ASSUME part' = "signin" PROVE SignInInv'
  OBVIOUS
<1>1. part = "signin" /\ [SignIn!Next]_(SignIn!vars)
  <2>1. CASE UNCHANGED vars
    BY <2>1 DEF vars, signinVars, SignIn!vars
  <2>2. CASE Next
    BY <2>2 DEF Next, Only
  <2> QED BY <2>1, <2>2
<1> QED BY <1>1, SignInStep

LEMMA SignInBegins ==
  ASSUME Init, part = "signin"
  PROVE  SignInInv
<1>1. SignIn!Init
  BY DEF Init
<1>2. CountInv
  BY <1>1, PlatformAssumption DEF SignIn!Init, CountInv
<1> QED BY <1>1, <1>2, GateBegins DEF SignInInv

LEMMA SignInMeans ==
  ASSUME SignInInv
  PROVE  SignIn!AccountsTypeOK /\ SignIn!OneAccount /\ SignIn!GateIsHeld
  BY DEF SignInInv, GateInv, AccountInv, CountInv, GateTyped, RequestRecord, SignIn!AccountsTypeOK

\* For any number of requests, however many are refused or fail, the password
\* gate (password.ts) has a holder whenever somebody waits, its holder is the
\* one request whose operation runs, and who waits is in its queue; and any
\* number of setups at once (routes/auth.ts) leave the account of the first
\* insert, with none of the others signed in.
THEOREM GateAlwaysHeld == Spec => [](GateIsHeld)
<1>1. Init => (part = "signin" => SignInInv)
  BY SignInBegins
<1>2. (part = "signin" => SignInInv) /\ [Next]_vars => (part = "signin" => SignInInv)'
  BY SignInKeeps
<1>3. (part = "signin" => SignInInv) => GateIsHeld
  BY SignInMeans DEF GateIsHeld
<1> QED BY <1>1, <1>2, <1>3, PTL DEF Spec

-----------------------------------------------------------------------------
(* The health gate and the wait for certificates (HealthGate).               *)

\* What the gate's times and boxes are made of.
CertRecord == [pc : {"looks", "probes", "sleeps", "ready", "late"}, until : Nat]
GateLimit == HealthTime + AnswerTime + Uptime + 1
NearGate ==
  /\ clock \in Nat /\ way \in Gate!Ways /\ deadline \in 0..HealthTime /\ baseline \in Baselines
  /\ box \in Gate!Boxes /\ since \in Nat
  /\ gate \in {"begins", "looks", "asks", "sleeps", "passed", "failed", "switched"}
  /\ wake \in Nat /\ look \in Gate!Boxes /\ switched \in Nat

\* No sleep and no request ends later than the gate may.
GateTimes ==
  /\ gate = "begins" => clock = 0
  /\ gate = "asks" => way = "http" /\ clock <= wake /\ wake <= deadline + AnswerTime
  /\ gate = "sleeps" => clock <= wake /\ IF way = "uptime" THEN wake = Uptime ELSE wake <= deadline + AnswerTime + 1
  /\ gate = "looks" => IF way = "uptime" THEN clock = Uptime ELSE clock <= deadline + AnswerTime + 1
  /\ gate = "passed" => clock <= GateLimit

\* A container that was never seen to crash has run as long as the gate waited.
BoxSeen ==
  /\ box.restarts >= baseline
  /\ box.health = "healthy" => box.running
  /\ gate = "asks" => look.running /\ look.restarts = baseline
  /\ way = "uptime" /\ Gate!Gating /\ box.running /\ box.restarts = baseline => since = Gate!Least(clock, Uptime)
  /\ Gate!CrashLoopFails

HealthInv == NearGate /\ GateTimes /\ BoxSeen

LEMMA GateTimesAre ==
  /\ HealthTime \in Nat /\ AnswerTime \in Nat /\ Uptime \in Nat /\ CertTime \in Nat /\ GateLimit \in Nat
  /\ AttemptTime \in Nat /\ AttemptTime > 0 /\ RetryTime \in Nat /\ MaxFaults \in Nat /\ Baselines \subseteq Nat
  /\ Gate!Never \in Nat /\ Gate!Never > CertTime + GateLimit
  BY PlatformAssumption DEF GateLimit, Gate!Never

LEMMA InitHealth ==
  ASSUME Gate!Init
  PROVE  HealthInv
<1>0. baseline \in Nat /\ baseline \in Baselines /\ way \in Gate!Ways
  BY GateTimesAre DEF Gate!Init
<1>1. box \in Gate!Boxes /\ box.restarts = baseline /\ box.running
  BY <1>0 DEF Gate!Init, Gate!Boxes
<1>2. NearGate
  BY <1>0, <1>1, GateTimesAre DEF Gate!Init, NearGate
<1>3. GateTimes
  BY DEF Gate!Init, GateTimes
<1>4. BoxSeen
  BY <1>0, <1>1, GateTimesAre DEF Gate!Init, BoxSeen, Gate!CrashLoopFails, Gate!Least
<1> QED BY <1>2, <1>3, <1>4 DEF HealthInv

\* The container moves and the gate does not look.
LEMMA BoxMoves ==
  ASSUME HealthInv, Gate!Gating, UNCHANGED <<clock, way, deadline, baseline, gate, wake, look, switched>>,
         box' \in Gate!Boxes, since' \in Nat, box'.restarts >= box.restarts,
         box'.running /\ box'.restarts = box.restarts => box.running /\ since' = since,
         box'.health = "healthy" => box'.running
  PROVE  HealthInv'
<1>0. baseline \in Nat /\ box.restarts \in Nat /\ box'.restarts \in Nat /\ box.restarts >= baseline
  BY GateTimesAre DEF HealthInv, NearGate, BoxSeen, Gate!Boxes
<1>1. NearGate' /\ GateTimes'
  BY DEF HealthInv, NearGate, GateTimes
<1>2. box'.restarts = baseline => box.restarts = baseline /\ box'.restarts = box.restarts
  BY <1>0
<1>3. (Gate!CrashLoopFails)'
  BY DEF Gate!CrashLoopFails, Gate!Gating
<1>4. BoxSeen'
  BY <1>0, <1>2, <1>3 DEF HealthInv, BoxSeen, Gate!Gating
<1> QED BY <1>1, <1>4 DEF HealthInv

LEMMA SettlesKeeps ==
  ASSUME HealthInv, Gate!Settles
  PROVE  HealthInv'
<1>1. box \in Gate!Boxes /\ box.running
  BY DEF HealthInv, NearGate, Gate!Settles
<1>2. \/ box' = [box EXCEPT !.serves = TRUE]
      \/ \E health \in {"healthy", "unhealthy"} : box' = [box EXCEPT !.health = health]
  BY DEF Gate!Settles
<1>3. box' \in Gate!Boxes /\ box'.restarts = box.restarts /\ box'.running = box.running /\ box.restarts \in Nat
  BY <1>1, <1>2 DEF Gate!Boxes
<1> QED BY <1>3, BoxMoves DEF Gate!Settles, HealthInv, NearGate, Gate!certVars

LEMMA CrashesKeeps ==
  ASSUME HealthInv, Gate!Crashes
  PROVE  HealthInv'
<1>1. box \in Gate!Boxes /\ box.restarts \in Nat /\ box.health \in {"none", "starting", "healthy", "unhealthy"}
  BY DEF HealthInv, NearGate, Gate!Boxes
<1> DEFINE asNew == IF box.health = "none" THEN "none" ELSE "starting"
           asEnded == IF box.health = "none" THEN "none" ELSE "unhealthy"
<1>2. \/ box' = [box EXCEPT !.restarts = box.restarts + 1, !.serves = FALSE, !.health = asNew]
      \/ box' = [box EXCEPT !.running = FALSE, !.serves = FALSE, !.health = asEnded]
  BY <1>1 DEF Gate!Crashes
<1>3. {asNew, asEnded} \subseteq {"none", "starting", "healthy", "unhealthy"} /\ box.restarts + 1 \in Nat
  BY <1>1
<1> HIDE DEF asNew, asEnded
<1>4. CASE box' = [box EXCEPT !.restarts = box.restarts + 1, !.serves = FALSE, !.health = asNew]
  <2>1. box' \in Gate!Boxes /\ box'.restarts = box.restarts + 1 /\ box'.health # "healthy"
    BY <1>1, <1>3, <1>4 DEF Gate!Boxes, asNew
  <2>2. box'.restarts >= box.restarts /\ box'.restarts # box.restarts
    BY <1>1, <2>1
  <2> QED BY <2>1, <2>2, BoxMoves DEF Gate!Crashes, Gate!certVars
<1>5. CASE box' = [box EXCEPT !.running = FALSE, !.serves = FALSE, !.health = asEnded]
  <2>1. box' \in Gate!Boxes /\ box'.restarts = box.restarts /\ ~box'.running /\ box'.health # "healthy"
    BY <1>1, <1>3, <1>5 DEF Gate!Boxes, asEnded
  <2>2. box'.restarts >= box.restarts
    BY <1>1, <2>1
  <2> QED BY <2>1, <2>2, BoxMoves DEF Gate!Crashes, Gate!certVars
<1> QED BY <1>2, <1>4, <1>5

LEMMA BeginsKeeps ==
  ASSUME HealthInv, Gate!Begins
  PROVE  HealthInv'
<1>1. /\ gate = "begins" /\ clock = 0 /\ UNCHANGED <<clock, way, deadline, baseline, box, since, look, switched>>
      /\ IF way = "uptime" THEN gate' = "sleeps" /\ wake' = clock + Uptime ELSE gate' = "looks" /\ wake' = wake
  BY DEF Gate!Begins, Gate!Sleeps, Gate!Ends, Gate!certVars, HealthInv, GateTimes
<1>2. NearGate'
  BY <1>1, GateTimesAre DEF HealthInv, NearGate
<1>3. deadline \in Nat
  BY GateTimesAre DEF HealthInv, NearGate
<1>4. GateTimes'
  BY <1>1, <1>3, GateTimesAre DEF GateTimes
<1>5. BoxSeen'
  BY <1>1 DEF HealthInv, BoxSeen, Gate!Gating, Gate!CrashLoopFails
<1> QED BY <1>2, <1>4, <1>5 DEF HealthInv

LEMMA LooksKeeps ==
  ASSUME HealthInv, Gate!Looks
  PROVE  HealthInv'
<1>0. /\ gate = "looks" /\ look' = box /\ UNCHANGED <<clock, way, deadline, baseline, box, since, switched>>
      /\ clock \in Nat /\ wake \in Nat /\ deadline \in 0..HealthTime /\ deadline \in Nat /\ baseline \in Nat
      /\ box \in Gate!Boxes /\ box.restarts \in Nat /\ box.restarts >= baseline /\ way \in {"http", "declared", "uptime"}
  BY GateTimesAre DEF Gate!Looks, Gate!certVars, HealthInv, NearGate, BoxSeen, Gate!Ways, Gate!Boxes
<1>1. CASE gate' = "failed" /\ wake' = wake
  <2>1. NearGate' /\ GateTimes'
    BY <1>0, <1>1 DEF HealthInv, NearGate, GateTimes
  <2>2. BoxSeen'
    BY <1>0, <1>1 DEF HealthInv, BoxSeen, Gate!Gating, Gate!CrashLoopFails
  <2> QED BY <2>1, <2>2 DEF HealthInv
<1>2. CASE way = "uptime" /\ box.restarts <= baseline /\ box.running /\ gate' = "passed" /\ wake' = wake
  <2>1. clock = Uptime /\ since = Gate!Least(clock, Uptime) /\ box.restarts = baseline
    BY <1>0, <1>2 DEF HealthInv, GateTimes, BoxSeen, Gate!Gating
  <2>2. since = Uptime
    BY <2>1 DEF Gate!Least
  <2>3. NearGate' /\ GateTimes'
    BY <1>0, <1>2, <2>1, GateTimesAre DEF HealthInv, NearGate, GateTimes, GateLimit
  <2>4. BoxSeen'
    BY <1>0, <1>2, <2>1, <2>2 DEF HealthInv, BoxSeen, Gate!Gating, Gate!CrashLoopFails
  <2> QED BY <2>3, <2>4 DEF HealthInv
<1>3. CASE way = "declared" /\ clock <= deadline /\ box.restarts <= baseline /\ box.health = "healthy"
           /\ gate' = "passed" /\ wake' = wake
  <2>1. box.restarts = baseline /\ box.running
    BY <1>0, <1>3 DEF HealthInv, BoxSeen
  <2>2. NearGate' /\ GateTimes'
    BY <1>0, <1>3, GateTimesAre DEF HealthInv, NearGate, GateTimes, GateLimit
  <2>3. BoxSeen'
    BY <1>0, <1>3, <2>1 DEF HealthInv, BoxSeen, Gate!Gating, Gate!CrashLoopFails
  <2> QED BY <2>2, <2>3 DEF HealthInv
<1>4. CASE way = "declared" /\ clock <= deadline /\ gate' = "sleeps" /\ wake' = clock + 1
  <2>1. NearGate' /\ GateTimes'
    BY <1>0, <1>4, GateTimesAre DEF HealthInv, NearGate, GateTimes
  <2>2. BoxSeen'
    BY <1>0, <1>4 DEF HealthInv, BoxSeen, Gate!Gating, Gate!CrashLoopFails
  <2> QED BY <2>1, <2>2 DEF HealthInv
<1>5. CASE way = "http" /\ clock <= deadline /\ box.restarts <= baseline /\ box.running
           /\ gate' = "asks" /\ wake' = clock + AnswerTime
  <2>1. box.restarts = baseline
    BY <1>0, <1>5
  <2>2. NearGate' /\ GateTimes'
    BY <1>0, <1>5, GateTimesAre DEF HealthInv, NearGate, GateTimes
  <2>3. BoxSeen'
    BY <1>0, <1>5, <2>1 DEF HealthInv, BoxSeen, Gate!Gating, Gate!CrashLoopFails
  <2> QED BY <2>2, <2>3 DEF HealthInv
<1>6. CASE way = "http"
  BY <1>0, <1>1, <1>5, <1>6 DEF Gate!Looks, Gate!Ends, Gate!AssertNotRestarted
<1>7. CASE way = "declared"
  BY <1>0, <1>1, <1>3, <1>4, <1>7 DEF Gate!Looks, Gate!Ends, Gate!Sleeps, Gate!AssertNotRestarted
<1>8. CASE way = "uptime"
  BY <1>0, <1>1, <1>2, <1>8 DEF Gate!Looks, Gate!Ends, Gate!AssertNotRestarted
<1> QED BY <1>0, <1>6, <1>7, <1>8

LEMMA AnsweredKeeps ==
  ASSUME HealthInv, Gate!Answered
  PROVE  HealthInv'
<1>1. /\ gate = "asks" /\ UNCHANGED <<clock, way, deadline, baseline, box, since, look, switched>>
      /\ \/ gate' = "passed" /\ wake' = wake
         \/ gate' = "sleeps" /\ wake' = clock + 1
  BY DEF Gate!Answered, Gate!Ends, Gate!Sleeps, Gate!certVars
<1>2. /\ clock \in Nat /\ wake \in Nat /\ deadline \in Nat /\ deadline <= HealthTime
      /\ way = "http" /\ clock <= wake /\ wake <= deadline + AnswerTime
      /\ look.running /\ look.restarts = baseline
  BY <1>1, GateTimesAre DEF HealthInv, NearGate, GateTimes, BoxSeen
<1>3. NearGate'
  BY <1>1, <1>2 DEF HealthInv, NearGate
<1>4. GateTimes'
  BY <1>1, <1>2, GateTimesAre DEF GateTimes, GateLimit
<1>5. BoxSeen'
  BY <1>1, <1>2 DEF HealthInv, BoxSeen, Gate!Gating, Gate!CrashLoopFails
<1> QED BY <1>3, <1>4, <1>5 DEF HealthInv

LEMMA WakesKeeps ==
  ASSUME HealthInv, Gate!Wakes
  PROVE  HealthInv'
<1>1. /\ gate = "sleeps" /\ clock >= wake /\ gate' = "looks"
      /\ UNCHANGED <<clock, way, deadline, baseline, box, since, wake, look, switched>>
  BY DEF Gate!Wakes, Gate!Ends, Gate!certVars
<1>2. clock \in Nat /\ wake \in Nat /\ deadline \in Nat /\ clock = wake
  BY <1>1, GateTimesAre DEF HealthInv, NearGate, GateTimes
<1>3. NearGate' /\ GateTimes'
  BY <1>1, <1>2, GateTimesAre DEF HealthInv, NearGate, GateTimes
<1>4. BoxSeen'
  BY <1>1 DEF HealthInv, BoxSeen, Gate!Gating, Gate!CrashLoopFails
<1> QED BY <1>3, <1>4 DEF HealthInv

LEMMA SwitchKeeps ==
  ASSUME HealthInv, Gate!SwitchRoute
  PROVE  HealthInv'
<1>1. /\ gate = "passed" /\ gate' = "switched" /\ switched' = clock
      /\ UNCHANGED <<clock, way, deadline, baseline, box, since, wake, look>>
  BY DEF Gate!SwitchRoute
<1>2. NearGate' /\ GateTimes'
  BY <1>1 DEF HealthInv, NearGate, GateTimes
<1>3. BoxSeen'
  BY <1>1 DEF HealthInv, BoxSeen, Gate!Gating, Gate!CrashLoopFails
<1> QED BY <1>2, <1>3 DEF HealthInv

\* The names' waits change nothing of the gate.
LEMMA GateRests ==
  ASSUME HealthInv, UNCHANGED <<clock, Gate!gateVars>>
  PROVE  HealthInv'
  BY DEF HealthInv, NearGate, GateTimes, BoxSeen, Gate!Gating, Gate!CrashLoopFails, Gate!gateVars

LEMMA TickKeeps ==
  ASSUME HealthInv, Gate!Tick
  PROVE  HealthInv'
<1>1. /\ clock' = clock + 1 /\ since' = Gate!Least(since + 1, Uptime)
      /\ UNCHANGED <<way, deadline, baseline, box, gate, wake, look, switched>>
      /\ gate \notin {"begins", "looks", "passed"}
      /\ gate \in {"asks", "sleeps"} => ~(clock >= wake)
  BY DEF Gate!Tick, Gate!certVars, Gate!GateDue
<1>2. clock \in Nat /\ wake \in Nat /\ deadline \in Nat /\ since \in Nat /\ since + 1 \in Nat /\ clock + 1 \in Nat
  BY GateTimesAre DEF HealthInv, NearGate
<1>3. since' \in Nat
  BY <1>1, <1>2, GateTimesAre DEF Gate!Least
<1>4. NearGate'
  BY <1>1, <1>2, <1>3 DEF HealthInv, NearGate
<1>5. GateTimes'
  BY <1>1, <1>2, GateTimesAre DEF HealthInv, GateTimes
<1>6. since = Uptime => since' = Uptime
  BY <1>1, <1>2, GateTimesAre DEF Gate!Least
<1>7. since = Gate!Least(clock, Uptime) => since' = Gate!Least(clock', Uptime)
  BY <1>1, <1>2, GateTimesAre DEF Gate!Least
<1>8. (Gate!CrashLoopFails)'
  BY <1>1, <1>6 DEF HealthInv, BoxSeen, Gate!CrashLoopFails
<1>9. BoxSeen'
  BY <1>1, <1>7, <1>8 DEF HealthInv, BoxSeen, Gate!Gating
<1> QED BY <1>4, <1>5, <1>9 DEF HealthInv

\* The wait of one name: never past what it waits for or their deadline, and a
\* certificate that is there waits no longer than a pause to be asked for.
WaitOK(h) ==
  /\ certs[h].pc = "looks" => clock <= switched + CertTime
  /\ certs[h].pc \in {"probes", "sleeps"} => clock <= certs[h].until /\ certs[h].until <= switched + CertTime
  /\ certs[h].pc = "late" => clock >= switched + CertTime
FoundOK(h) ==
  /\ certs[h].pc = "looks" => clock <= issued[h] + RetryTime
  /\ certs[h].pc = "sleeps" => certs[h].until <= issued[h] + RetryTime /\ certs[h].until <= clock + RetryTime
  /\ certs[h].pc = "late" => issued[h] + AttemptTime + RetryTime > switched + CertTime

CertsTyped == certs \in [Hosts -> CertRecord] /\ issued \in [Hosts -> Nat] /\ hangs \in 0..MaxFaults
NotYet ==
  gate # "switched" => \A h \in Hosts : certs[h].pc = "looks" /\ issued[h] = Gate!Never
Waits ==
  gate = "switched" => /\ switched <= clock /\ switched <= GateLimit
                       /\ \A h \in Hosts : WaitOK(h) /\ (hangs = 0 => FoundOK(h))
CertInv == CertsTyped /\ NotYet /\ Waits

LEMMA InitCerts == Gate!Init => CertInv
<1> SUFFICES ASSUME Gate!Init PROVE CertInv
  OBVIOUS
<1>1. CertsTyped
  BY GateTimesAre DEF Gate!Init, CertsTyped, CertRecord
<1>2. NotYet /\ Waits
  BY DEF Gate!Init, NotYet, Waits
<1> QED BY <1>1, <1>2 DEF CertInv

\* Before the switch the names wait for nothing.
LEMMA CertsRest ==
  ASSUME CertInv, gate # "switched", gate' # "switched", UNCHANGED Gate!certVars
  PROVE  CertInv'
  BY DEF CertInv, CertsTyped, NotYet, Waits, Gate!certVars

LEMMA SwitchCerts ==
  ASSUME HealthInv, CertInv, Gate!SwitchRoute
  PROVE  CertInv'
<1>1. /\ gate = "passed" /\ gate' = "switched" /\ switched' = clock
      /\ UNCHANGED <<clock, certs, issued, hangs>> /\ clock \in Nat /\ clock <= GateLimit
  BY DEF Gate!SwitchRoute, HealthInv, NearGate, GateTimes
<1>2. \A h \in Hosts : certs[h].pc = "looks" /\ issued[h] = Gate!Never
  BY <1>1 DEF CertInv, NotYet
<1>3. Gate!Never >= clock
  BY <1>1, GateTimesAre
<1>4. \A h \in Hosts : WaitOK(h)' /\ FoundOK(h)'
  BY <1>1, <1>2, <1>3, GateTimesAre DEF WaitOK, FoundOK
<1> QED BY <1>1, <1>4, GateTimesAre DEF CertInv, CertsTyped, NotYet, Waits

LEMMA IssuesCerts ==
  ASSUME HealthInv, CertInv, Gate!Issues
  PROVE  CertInv'
<1>1. gate = "switched" /\ UNCHANGED <<clock, Gate!gateVars, certs, hangs>>
  BY DEF Gate!Issues
<1>2. PICK h \in Hosts : issued' = [issued EXCEPT ![h] = clock]
  BY DEF Gate!Issues
<1>3. clock \in Nat /\ switched \in Nat /\ switched <= clock /\ gate' = gate /\ switched' = switched
  BY <1>1 DEF HealthInv, NearGate, CertInv, Waits, Gate!gateVars
<1>4. CertsTyped' /\ issued'[h] = clock /\ \A k \in Hosts \ {h} : issued'[k] = issued[k]
  BY <1>1, <1>2, <1>3 DEF CertInv, CertsTyped
<1>5. \A k \in Hosts : WaitOK(k)' /\ certs[k].until \in Nat
  BY <1>1, <1>3 DEF CertInv, Waits, WaitOK, CertsTyped, CertRecord
<1>6. ASSUME hangs = 0, NEW k \in Hosts
      PROVE  FoundOK(k)'
  <2>1. WaitOK(k) /\ FoundOK(k)
    BY <1>1, <1>6 DEF CertInv, Waits
  <2>2. CASE k # h
    BY <1>1, <1>3, <1>4, <2>1, <2>2 DEF FoundOK
  <2>3. CASE k = h
    BY <1>1, <1>3, <1>4, <1>5, <2>1, <2>3, GateTimesAre DEF FoundOK, WaitOK
  <2> QED BY <2>2, <2>3
<1> QED BY <1>1, <1>3, <1>4, <1>5, <1>6 DEF CertInv, NotYet, Waits

\* A name's wait moves, and no other's.
LEMMA WaitMoves ==
  ASSUME HealthInv, CertInv, gate = "switched", NEW h \in Hosts, NEW until \in Nat,
         NEW pc \in {"looks", "probes", "sleeps", "ready", "late"}, Gate!Cert(h, pc, until),
         UNCHANGED <<clock, Gate!gateVars, issued>>, hangs' \in 0..MaxFaults, hangs' = 0 => hangs = 0,
         pc = "looks" => clock <= switched + CertTime,
         pc \in {"probes", "sleeps"} => clock <= until /\ until <= switched + CertTime,
         pc = "late" => clock >= switched + CertTime,
         hangs' = 0 /\ pc = "looks" => clock <= issued[h] + RetryTime,
         hangs' = 0 /\ pc = "sleeps" => until <= issued[h] + RetryTime /\ until <= clock + RetryTime,
         hangs' = 0 /\ pc = "late" => issued[h] + AttemptTime + RetryTime > switched + CertTime
  PROVE  CertInv'
<1> DEFINE new == [pc |-> pc, until |-> until]
<1>1. certs' = [certs EXCEPT ![h] = new] /\ new \in CertRecord /\ new.pc = pc /\ new.until = until
  BY DEF Gate!Cert, CertRecord
<1> HIDE DEF new
<1>2. certs' \in [Hosts -> CertRecord] /\ certs'[h] = new /\ \A k \in Hosts \ {h} : certs'[k] = certs[k]
  BY <1>1 DEF CertInv, CertsTyped
<1>3. gate' = gate /\ switched' = switched /\ clock' = clock /\ issued' = issued
  BY DEF Gate!gateVars
<1>4. CertsTyped'
  BY <1>2, <1>3 DEF CertInv, CertsTyped
<1>5. ASSUME NEW k \in Hosts
      PROVE  WaitOK(k)' /\ (hangs' = 0 => FoundOK(k)')
  <2>1. CASE k = h
    <3>1. certs'[k].pc = pc /\ certs'[k].until = until /\ issued'[k] = issued[h]
      BY <1>1, <1>2, <1>3, <2>1
    <3>2. WaitOK(k)'
      BY <1>3, <3>1 DEF WaitOK
    <3>3. issued[h] \in Nat /\ clock \in Nat /\ switched \in Nat
      BY DEF HealthInv, NearGate, CertInv, CertsTyped
    <3>4. ASSUME hangs' = 0
          PROVE  FoundOK(k)'
      <4>1. pc = "looks" => clock <= issued[h] + RetryTime
        BY <3>4
      <4>2. pc = "sleeps" => until <= issued[h] + RetryTime /\ until <= clock + RetryTime
        BY <3>4
      <4>3. pc = "late" => issued[h] + AttemptTime + RetryTime > switched + CertTime
        BY <3>4
      <4> QED BY <1>3, <3>1, <3>3, <4>1, <4>2, <4>3, GateTimesAre DEF FoundOK
    <3> QED BY <3>2, <3>4
  <2>2. CASE k # h
    BY <1>2, <1>3, <2>2 DEF CertInv, Waits, WaitOK, FoundOK
  <2> QED BY <2>1, <2>2
<1> QED BY <1>3, <1>4, <1>5 DEF CertInv, NotYet, Waits

\* What is left of the names' time.
LEMMA LeftIs ==
  ASSUME HealthInv
  PROVE  /\ Gate!Left \in Nat /\ clock \in Nat /\ switched \in Nat
         /\ Gate!Left = 0 => clock >= switched + CertTime
         /\ Gate!Left # 0 => clock + Gate!Left = switched + CertTime
         /\ \A a \in Nat : Gate!Least(a, Gate!Left) \in Nat /\ Gate!Least(a, Gate!Left) <= a /\ Gate!Least(a, Gate!Left) <= Gate!Left
  BY GateTimesAre DEF HealthInv, NearGate, Gate!Left, Gate!Least

LEMMA ProbeCerts ==
  ASSUME HealthInv, CertInv, NEW h \in Hosts, Gate!Probe(h)
  PROVE  CertInv'
<1>1. /\ gate = "switched" /\ certs[h].pc = "looks" /\ UNCHANGED <<clock, Gate!gateVars, issued, hangs>>
      /\ IF Gate!Left = 0 THEN Gate!Cert(h, "late", clock) ELSE Gate!Cert(h, "probes", clock + Gate!Least(AttemptTime, Gate!Left))
  BY DEF Gate!Probe, Gate!Waiting
<1>2. WaitOK(h) /\ (hangs = 0 => FoundOK(h)) /\ issued[h] \in Nat /\ hangs \in 0..MaxFaults
  BY <1>1 DEF CertInv, Waits, CertsTyped
<1>3. clock \in Nat /\ switched \in Nat /\ Gate!Left \in Nat /\ clock <= switched + CertTime
  BY <1>1, <1>2, LeftIs DEF WaitOK
<1>4. CASE Gate!Left = 0
  <2>1. clock >= switched + CertTime /\ (hangs = 0 => issued[h] + AttemptTime + RetryTime > switched + CertTime)
    BY <1>1, <1>2, <1>3, <1>4, LeftIs, GateTimesAre DEF FoundOK
  <2> QED BY <1>1, <1>2, <1>3, <1>4, <2>1, WaitMoves
<1>5. CASE Gate!Left # 0
  <2> DEFINE until == clock + Gate!Least(AttemptTime, Gate!Left)
  <2>1. until \in Nat /\ clock <= until /\ until <= switched + CertTime
    BY <1>3, <1>5, LeftIs, GateTimesAre
  <2>2. Gate!Cert(h, "probes", until)
    BY <1>1, <1>5
  <2> HIDE DEF until
  <2> QED BY <1>1, <1>2, <1>3, <2>1, <2>2, WaitMoves
<1> QED BY <1>4, <1>5

LEMMA ProbeEndsCerts ==
  ASSUME HealthInv, CertInv, NEW h \in Hosts, Gate!ProbeEnds(h)
  PROVE  CertInv'
<1>1. gate = "switched" /\ certs[h].pc = "probes" /\ UNCHANGED <<clock, Gate!gateVars, issued>>
  BY DEF Gate!ProbeEnds, Gate!Waiting
<1>2. WaitOK(h) /\ issued[h] \in Nat /\ hangs \in 0..MaxFaults /\ certs[h].until \in Nat
      /\ switched <= GateLimit
  BY <1>1 DEF CertInv, Waits, CertsTyped, CertRecord
<1>3. clock \in Nat /\ switched \in Nat /\ Gate!Left \in Nat /\ clock <= switched + CertTime
  BY <1>1, <1>2, LeftIs, GateTimesAre DEF WaitOK
<1>4. CASE Gate!Cert(h, "ready", clock) /\ UNCHANGED hangs
  BY <1>1, <1>2, <1>3, <1>4, WaitMoves
<1>5. CASE /\ \/ issued[h] = Gate!Never /\ UNCHANGED hangs
              \/ clock >= certs[h].until /\ hangs < MaxFaults /\ hangs' = hangs + 1
           /\ IF Gate!Left = 0 THEN Gate!Cert(h, "late", clock) ELSE Gate!Cert(h, "sleeps", clock + Gate!Nap)
  <2>1. hangs' \in 0..MaxFaults /\ (hangs' = 0 => hangs = 0 /\ issued[h] = Gate!Never)
    BY <1>2, <1>5, GateTimesAre
  <2>2. Gate!Never > switched + CertTime
    BY <1>2, <1>3, GateTimesAre
  <2>3. CASE Gate!Left = 0
    <3>1. clock >= switched + CertTime /\ Gate!Cert(h, "late", clock)
      BY <1>5, <2>3, LeftIs
    <3>2. hangs' = 0 => issued[h] + AttemptTime + RetryTime > switched + CertTime
      BY <1>2, <1>3, <2>1, <2>2, GateTimesAre
    <3> QED BY <1>1, <1>2, <1>3, <2>1, <3>1, <3>2, WaitMoves
  <2>4. CASE Gate!Left # 0
    <3> DEFINE until == clock + Gate!Nap
    <3>1. until \in Nat /\ clock <= until /\ until <= switched + CertTime /\ until <= clock + RetryTime
      BY <1>3, <2>4, LeftIs, GateTimesAre DEF Gate!Nap
    <3>2. Gate!Cert(h, "sleeps", until)
      BY <1>5, <2>4
    <3> HIDE DEF until
    <3>3. hangs' = 0 => until <= issued[h] + RetryTime
      BY <1>2, <1>3, <2>1, <2>2, <3>1, GateTimesAre
    <3> QED BY <1>1, <1>2, <1>3, <2>1, <3>1, <3>2, <3>3, WaitMoves
  <2> QED BY <2>3, <2>4
<1> QED BY <1>4, <1>5 DEF Gate!ProbeEnds

LEMMA RetriesCerts ==
  ASSUME HealthInv, CertInv, NEW h \in Hosts, Gate!Retries(h)
  PROVE  CertInv'
<1>1. /\ gate = "switched" /\ certs[h].pc = "sleeps" /\ clock >= certs[h].until /\ Gate!Cert(h, "looks", clock)
      /\ UNCHANGED <<clock, Gate!gateVars, issued, hangs>>
  BY DEF Gate!Retries, Gate!Waiting
<1>2. WaitOK(h) /\ (hangs = 0 => FoundOK(h)) /\ hangs \in 0..MaxFaults /\ certs[h].until \in Nat /\ issued[h] \in Nat
  BY <1>1 DEF CertInv, Waits, CertsTyped, CertRecord
<1>3. clock \in Nat /\ switched \in Nat /\ clock = certs[h].until
  BY <1>1, <1>2, LeftIs DEF WaitOK
<1>4. clock <= switched + CertTime /\ (hangs = 0 => clock <= issued[h] + RetryTime)
  BY <1>1, <1>2, <1>3 DEF WaitOK, FoundOK
<1> QED BY <1>1, <1>2, <1>3, <1>4, WaitMoves

LEMMA TickCerts ==
  ASSUME HealthInv, CertInv, Gate!Tick
  PROVE  CertInv'
<1>1. clock' = clock + 1 /\ UNCHANGED <<gate, certs, issued, hangs, switched>> /\ \A h \in Hosts : ~Gate!CertDue(h)
  BY DEF Gate!Tick, Gate!certVars
<1>2. clock \in Nat /\ switched \in Nat
  BY DEF HealthInv, NearGate
<1>3. CertsTyped' /\ NotYet'
  BY <1>1 DEF CertInv, CertsTyped, NotYet
<1>4. ASSUME NEW h \in Hosts, gate = "switched"
      PROVE  WaitOK(h)' /\ (hangs = 0 => FoundOK(h)')
  <2>1. WaitOK(h) /\ (hangs = 0 => FoundOK(h)) /\ certs[h].until \in Nat /\ issued[h] \in Nat
        /\ certs[h].pc \in {"looks", "probes", "sleeps", "ready", "late"}
    BY <1>4 DEF CertInv, Waits, CertsTyped, CertRecord
  <2>2. certs[h].pc # "looks" /\ (certs[h].pc \in {"probes", "sleeps"} => clock < certs[h].until)
    BY <1>1, <1>2, <1>4, <2>1 DEF Gate!CertDue, Gate!Waiting
  <2> QED BY <1>1, <1>2, <2>1, <2>2, GateTimesAre DEF WaitOK, FoundOK
<1>5. Waits'
  BY <1>1, <1>2, <1>4, GateTimesAre DEF CertInv, Waits
<1> QED BY <1>3, <1>5 DEF CertInv

LEMMA HealthStep ==
  ASSUME HealthInv, CertInv, Gate!Next
  PROVE  HealthInv' /\ CertInv'
<1>1. CASE Gate!Settles
  BY <1>1, SettlesKeeps, CertsRest DEF Gate!Settles, Gate!Gating
<1>2. CASE Gate!Crashes
  BY <1>2, CrashesKeeps, CertsRest DEF Gate!Crashes, Gate!Gating
<1>3. CASE Gate!Begins
  BY <1>3, BeginsKeeps, CertsRest DEF Gate!Begins, Gate!Sleeps, Gate!Ends
<1>4. CASE Gate!Looks
  <2>1. gate = "looks" /\ gate' \in {"failed", "asks", "passed", "sleeps"} /\ UNCHANGED Gate!certVars
    BY <1>4 DEF Gate!Looks, Gate!Ends, Gate!Sleeps, HealthInv, NearGate, Gate!Ways
  <2> QED BY <1>4, <2>1, LooksKeeps, CertsRest
<1>5. CASE Gate!Answered
  BY <1>5, AnsweredKeeps, CertsRest DEF Gate!Answered, Gate!Sleeps, Gate!Ends
<1>6. CASE Gate!Wakes
  BY <1>6, WakesKeeps, CertsRest DEF Gate!Wakes, Gate!Ends
<1>7. CASE Gate!SwitchRoute
  BY <1>7, SwitchKeeps, SwitchCerts
<1>8. CASE Gate!Issues
  BY <1>8, GateRests, IssuesCerts DEF Gate!Issues
<1>9. CASE \E h \in Hosts : Gate!Probe(h) \/ Gate!ProbeEnds(h) \/ Gate!Retries(h)
  BY <1>9, GateRests, ProbeCerts, ProbeEndsCerts, RetriesCerts DEF Gate!Probe, Gate!ProbeEnds, Gate!Retries
<1>10. CASE Gate!Tick
  BY <1>10, TickKeeps, TickCerts
<1> QED BY <1>1, <1>2, <1>3, <1>4, <1>5, <1>6, <1>7, <1>8, <1>9, <1>10 DEF Gate!Next

LEMMA HealthStutters ==
  ASSUME HealthInv, CertInv, UNCHANGED Gate!vars
  PROVE  HealthInv' /\ CertInv'
<1>1. HealthInv'
  BY GateRests DEF Gate!vars, Gate!gateVars
<1>2. CertInv'
  BY DEF Gate!vars, CertInv, CertsTyped, NotYet, Waits, WaitOK, FoundOK
<1> QED BY <1>1, <1>2

LEMMA HealthMeans ==
  ASSUME HealthInv, CertInv
  PROVE  Gate!HealthGateTypeOK /\ Gate!CrashLoopFails /\ Gate!GateEnds /\ Gate!CertsEnd
<1>1. Gate!HealthGateTypeOK
  BY DEF HealthInv, NearGate, CertInv, CertsTyped, CertRecord, Gate!HealthGateTypeOK
<1>2. Gate!CrashLoopFails
  BY DEF HealthInv, BoxSeen
<1>3. Gate!GateEnds
  BY GateTimesAre DEF HealthInv, NearGate, GateTimes, Gate!GateEnds, Gate!Gating
<1>4. ASSUME NEW h \in Hosts, gate = "switched", Gate!Waiting(h)
      PROVE  clock <= switched + CertTime
  <2>1. WaitOK(h) /\ certs[h].pc \in {"looks", "probes", "sleeps"} /\ certs[h].until \in Nat
    BY <1>4 DEF CertInv, Waits, Gate!Waiting, CertsTyped, CertRecord
  <2>2. clock \in Nat /\ switched \in Nat
    BY DEF HealthInv, NearGate
  <2> QED BY <2>1, <2>2, GateTimesAre DEF WaitOK
<1>5. ASSUME NEW h \in Hosts, certs[h].pc = "late", hangs = 0
      PROVE  issued[h] + AttemptTime + RetryTime > switched + CertTime
  BY <1>5 DEF CertInv, NotYet, Waits, FoundOK
<1> QED BY <1>1, <1>2, <1>3, <1>4, <1>5 DEF Gate!CertsEnd

-----------------------------------------------------------------------------
(* The sizes the Volumes pages ask for (VolumeSizes).                        *)

PageRecord == [pc : {"idle", "waits"}, for : 0..AnswerTime, answer : Volumes!Results, age : 0..Volumes!Longest]
StoredRecord == [kind : Volumes!Results, kept : SUBSET Owners, age : 0..Volumes!Longest]

\* Who comes before r, by what they hold and then by id; the finite set of them
\* is what decides whether r is kept.
Before(a, b) == disk[a] > disk[b] \/ (disk[a] = disk[b] /\ a < b)
Holders == {r \in Owners : disk[r] > 0}
Ahead(r) == {s \in Holders : Before(s, r)}

LEMMA SizesAre ==
  /\ IsFiniteSet(Owners) /\ Owners \subseteq Nat /\ Totals \subseteq Nat /\ MaxResources \in Nat
  /\ Ttl \in Nat /\ Ttl > 0 /\ FailureTtl \in Nat /\ FailureTtl > 0 /\ DfTime \in Nat /\ AnswerTime \in Nat
  /\ Volumes!Longest \in Nat /\ Ttl <= Volumes!Longest /\ FailureTtl <= Volumes!Longest
  BY PlatformAssumption DEF Volumes!Longest

LEMMA SameCardinality == ASSUME NEW S PROVE Volumes!Cardinality(S) = Cardinality(S)
  BY DEF Volumes!Cardinality, Cardinality

LEMMA AheadIs ==
  ASSUME disk \in [Owners -> Totals], NEW r \in Owners
  PROVE  /\ IsFiniteSet(Ahead(r)) /\ Cardinality(Ahead(r)) \in Nat
         /\ Ahead(r) = {s \in Holders : disk[s] > disk[r] \/ (disk[s] = disk[r] /\ s < r)}
<1>1. Ahead(r) \in SUBSET Owners
  BY DEF Ahead, Holders
<1>2. IsFiniteSet(Ahead(r))
  BY <1>1, SizesAre, FS_Subset
<1> QED BY <1>2, FS_CardinalityType DEF Ahead, Before

\* Whoever is before another has fewer before itself.
LEMMA FewerAhead ==
  ASSUME disk \in [Owners -> Totals], NEW r \in Owners, NEW s \in Holders, Before(s, r)
  PROVE  Cardinality(Ahead(s)) < Cardinality(Ahead(r))
<1>0. s \in Owners /\ s \in Nat /\ r \in Nat /\ \A t \in Owners : t \in Nat /\ disk[t] \in Nat
  BY SizesAre DEF Holders
<1>1. Ahead(s) \subseteq Ahead(r)
  <2> SUFFICES ASSUME NEW t \in Ahead(s) PROVE t \in Ahead(r)
    OBVIOUS
  <2>1. t \in Holders /\ t \in Owners /\ Before(t, s)
    BY DEF Ahead, Holders
  <2>2. Before(t, r)
    BY <1>0, <2>1 DEF Before
  <2> QED BY <2>1, <2>2 DEF Ahead
<1>2. s \in Ahead(r) /\ s \notin Ahead(s)
  BY <1>0 DEF Ahead, Before
<1>3. /\ IsFiniteSet(Ahead(r)) /\ Cardinality(Ahead(r)) \in Nat /\ Cardinality(Ahead(s)) \in Nat
  BY <1>0, AheadIs
<1>4. Cardinality(Ahead(s)) <= Cardinality(Ahead(r)) /\ (Cardinality(Ahead(s)) = Cardinality(Ahead(r)) => Ahead(s) = Ahead(r))
  BY <1>1, <1>3, FS_Subset
<1> QED BY <1>2, <1>3, <1>4

\* What a snapshot keeps is few, and the largest.
LEMMA SnapshotKeepsLargest ==
  ASSUME disk \in [Owners -> Totals]
  PROVE  /\ Volumes!SnapshotOf(disk) \in SUBSET Owners
         /\ Cardinality(Volumes!SnapshotOf(disk)) <= MaxResources
         /\ \A r \in Volumes!SnapshotOf(disk) : \A s \in Owners \ Volumes!SnapshotOf(disk) : disk[s] <= disk[r]
<1> DEFINE kept == {r \in Holders : Cardinality(Ahead(r)) < MaxResources}
<1>1. Volumes!SnapshotOf(disk) = kept
  <2> DEFINE ahead(r) == {s \in Holders : disk[s] > disk[r] \/ (disk[s] = disk[r] /\ s < r)}
  <2>1. Volumes!SnapshotOf(disk) = {r \in Holders : Volumes!Cardinality(ahead(r)) < MaxResources}
    BY Zenon DEF Volumes!SnapshotOf, Holders
  <2>2. \A r : ahead(r) = Ahead(r)
    BY DEF Ahead, Before
  <2>3. \A r : Volumes!Cardinality(ahead(r)) = Cardinality(Ahead(r))
    BY <2>2, SameCardinality
  <2> HIDE DEF ahead
  <2> QED BY <2>1, <2>3
<1>2. kept \subseteq Owners
  BY DEF Holders
<1>3. \A t \in Owners : t \in Nat /\ disk[t] \in Nat
  BY SizesAre
<1>4. Cardinality(kept) <= MaxResources
  <2> DEFINE place == [r \in kept |-> Cardinality(Ahead(r))]
  <2>1. \A r \in kept : Cardinality(Ahead(r)) \in 0..MaxResources - 1
    <3> TAKE r \in kept
    <3>1. Cardinality(Ahead(r)) \in Nat /\ Cardinality(Ahead(r)) < MaxResources
      BY <1>2, AheadIs
    <3> HIDE DEF kept
    <3> QED BY <3>1, SizesAre
  <2>2. \A r, s \in kept : Cardinality(Ahead(r)) = Cardinality(Ahead(s)) => r = s
    <3> SUFFICES ASSUME NEW r \in kept, NEW s \in kept, r # s
                 PROVE  Cardinality(Ahead(r)) # Cardinality(Ahead(s))
      OBVIOUS
    <3>1. r \in Holders /\ s \in Holders /\ r \in Owners /\ s \in Owners
      BY <1>2
    <3>2. Before(r, s) \/ Before(s, r)
      BY <1>3, <3>1 DEF Before
    <3>3. Cardinality(Ahead(r)) \in Nat /\ Cardinality(Ahead(s)) \in Nat
      BY <3>1, AheadIs
    <3>4. Cardinality(Ahead(r)) < Cardinality(Ahead(s)) \/ Cardinality(Ahead(s)) < Cardinality(Ahead(r))
      BY <3>1, <3>2, FewerAhead
    <3> QED BY <3>3, <3>4
  <2>3. place \in Injection(kept, 0..MaxResources - 1)
    BY <2>1, <2>2 DEF Injection, IsInjective
  <2>4. MaxResources \in Nat /\ MaxResources - 1 \in Int /\ 0 \in Int
    BY SizesAre
  <2>5. IsFiniteSet(0..MaxResources - 1) /\ Cardinality(0..MaxResources - 1) = MaxResources
    BY <2>4, FS_Interval
  <2> HIDE DEF place, kept
  <2> QED BY <2>3, <2>5, FS_Injection
<1>5. ASSUME NEW r \in kept, NEW s \in Owners \ kept
      PROVE  disk[s] <= disk[r]
  <2>1. r \in Holders /\ r \in Owners /\ Cardinality(Ahead(r)) < MaxResources /\ disk[r] > 0
    BY <1>2 DEF Holders
  <2>2. CASE s \notin Holders
    BY <1>3, <2>1, <2>2 DEF Holders
  <2>3. CASE s \in Holders
    <3>1. ~(Cardinality(Ahead(s)) < MaxResources)
      BY <2>3
    <3>2. ~Before(s, r)
      <4> SUFFICES ASSUME Before(s, r) PROVE FALSE
        OBVIOUS
      <4>1. Cardinality(Ahead(s)) < Cardinality(Ahead(r))
        BY <2>1, <2>3, FewerAhead
      <4>2. Cardinality(Ahead(s)) \in Nat /\ Cardinality(Ahead(r)) \in Nat /\ MaxResources \in Nat
        BY <2>1, AheadIs, SizesAre
      <4> QED BY <2>1, <3>1, <4>1, <4>2
    <3> QED BY <1>3, <2>1, <3>2 DEF Before
  <2> QED BY <2>2, <2>3
<1> HIDE DEF kept
<1> QED BY <1>1, <1>2, <1>4, <1>5

-----------------------------------------------------------------------------
PagesOK ==
  \A p \in Pages : pages[p].answer # "none" => pages[p].age < Volumes!TtlOf(pages[p].answer)
KeptLargest ==
  stored.kind = "known" => /\ Cardinality(stored.kept) <= MaxResources
                           /\ \A r \in stored.kept : \A s \in Owners \ stored.kept : disk[s] <= disk[r]
SizesInv ==
  /\ disk \in [Owners -> Totals] /\ stored \in StoredRecord
  /\ measuring \in [Volumes!Slots -> 0..DfTime + 1] /\ pages \in [Pages -> PageRecord]
  /\ rests = TRUE /\ KeptLargest /\ PagesOK

LEMMA SizesMean ==
  ASSUME SizesInv
  PROVE  Volumes!VolumeSizesTypeOK /\ Volumes!MeasuredOnce
<1>1. Volumes!VolumeSizesTypeOK
  BY DEF SizesInv, Volumes!VolumeSizesTypeOK, StoredRecord, PageRecord
<1>2. Volumes!MeasuredOnce
  <2>1. rests /\ KeptLargest /\ PagesOK
    BY DEF SizesInv
  <2>2. Volumes!Cardinality(stored.kept) = Cardinality(stored.kept)
    BY SameCardinality
  <2> QED BY <2>1, <2>2 DEF Volumes!MeasuredOnce, KeptLargest, PagesOK
<1> QED BY <1>1, <1>2

LEMMA TtlIs ==
  ASSUME NEW result
  PROVE  Volumes!TtlOf(result) \in Nat /\ Volumes!TtlOf(result) > 0 /\ Volumes!TtlOf(result) <= Volumes!Longest
  BY SizesAre DEF Volumes!TtlOf

LEMMA InitSizes ==
  ASSUME Volumes!Init
  PROVE  SizesInv
<1>1. Volumes!Idle \in PageRecord /\ Volumes!Idle.answer = "none"
  BY SizesAre DEF Volumes!Idle, PageRecord, Volumes!Results
<1>2. pages = [p \in Pages |-> Volumes!Idle] /\ disk \in [Owners -> Totals] /\ rests = TRUE
  BY DEF Volumes!Init
<1>3. stored = [kind |-> "none", kept |-> {}, age |-> 0] /\ measuring = [s \in Volumes!Slots |-> 0]
  BY DEF Volumes!Init
<1>4. stored \in StoredRecord /\ KeptLargest
  BY <1>3, SizesAre DEF StoredRecord, Volumes!Results, KeptLargest
<1>5. measuring \in [Volumes!Slots -> 0..DfTime + 1]
  BY <1>3, SizesAre
<1>6. pages \in [Pages -> PageRecord] /\ PagesOK
  BY <1>1, <1>2 DEF PagesOK
<1> QED BY <1>2, <1>4, <1>5, <1>6 DEF SizesInv

\* A page that is answered, or that begins to wait.
LEMMA PageMoves ==
  ASSUME pages \in [Pages -> PageRecord], PagesOK, NEW p \in Pages, NEW new \in PageRecord,
         pages' = [pages EXCEPT ![p] = new], new.answer # "none" => new.age < Volumes!TtlOf(new.answer)
  PROVE  pages' \in [Pages -> PageRecord] /\ PagesOK'
<1>1. pages' \in [Pages -> PageRecord] /\ pages'[p] = new /\ \A q \in Pages \ {p} : pages'[q] = pages[q]
  OBVIOUS
<1>2. \A q \in Pages : pages'[q].answer # "none" => pages'[q].age < Volumes!TtlOf(pages'[q].answer)
  BY <1>1 DEF PagesOK
<1> QED BY <1>1, <1>2 DEF PagesOK, Volumes!TtlOf

LEMMA GetKeeps ==
  ASSUME SizesInv, Volumes!Get
  PROVE  SizesInv'
<1>1. PICK p \in Pages :
        /\ pages[p].pc = "idle"
        /\ IF Volumes!Fresh
           THEN /\ pages' = [pages EXCEPT ![p].answer = stored.kind, ![p].age = stored.age]
                /\ UNCHANGED <<measuring, rests>>
           ELSE /\ pages' = [pages EXCEPT ![p].pc = "waits", ![p].for = 0]
                /\ IF Volumes!InFlight THEN UNCHANGED <<measuring, rests>>
                   ELSE \E s \in Volumes!Slots :
                          /\ measuring[s] = 0 /\ \A t \in Volumes!Slots : t < s => measuring[t] > 0
                          /\ measuring' = [measuring EXCEPT ![s] = 1]
                          /\ rests' = (\A t \in Volumes!Slots : measuring[t] = 0)
  BY DEF Volumes!Get
<1>2. /\ disk \in [Owners -> Totals] /\ stored \in StoredRecord /\ rests = TRUE
      /\ measuring \in [Volumes!Slots -> 0..DfTime + 1] /\ pages \in [Pages -> PageRecord] /\ KeptLargest /\ PagesOK
  BY DEF SizesInv
<1>3. disk' = disk /\ stored' = stored
  BY DEF Volumes!Get
<1>4. KeptLargest'
  BY <1>2, <1>3 DEF KeptLargest
<1>5. pages[p] \in PageRecord /\ stored.kind \in Volumes!Results /\ stored.age \in 0..Volumes!Longest
  BY <1>2 DEF StoredRecord
<1>6. measuring' \in [Volumes!Slots -> 0..DfTime + 1] /\ rests' = TRUE
  <2>1. CASE UNCHANGED <<measuring, rests>>
    BY <1>2, <2>1
  <2>2. CASE ~Volumes!InFlight /\ \E s \in Volumes!Slots : measuring' = [measuring EXCEPT ![s] = 1] /\ rests' = (\A t \in Volumes!Slots : measuring[t] = 0)
    <3>1. 1 \in 0..DfTime + 1 /\ \A t \in Volumes!Slots : measuring[t] \in Nat
      BY <1>2, SizesAre
    <3>2. \A t \in Volumes!Slots : measuring[t] = 0
      BY <2>2, <3>1 DEF Volumes!InFlight
    <3> QED BY <1>2, <2>2, <3>1, <3>2
  <2> QED BY <1>1, <2>1, <2>2
<1>7. pages' \in [Pages -> PageRecord] /\ PagesOK'
  <2>1. CASE Volumes!Fresh
    <3> DEFINE new == [pages[p] EXCEPT !.answer = stored.kind, !.age = stored.age]
    <3>1. pages' = [pages EXCEPT ![p] = new]
      BY <1>1, <1>2, <2>1
    <3>2. new \in PageRecord /\ new.answer = stored.kind /\ new.age = stored.age
      BY <1>5 DEF PageRecord
    <3>3. new.age < Volumes!TtlOf(new.answer)
      BY <2>1, <3>2 DEF Volumes!Fresh
    <3> HIDE DEF new
    <3> QED BY <1>2, <3>1, <3>2, <3>3, PageMoves
  <2>2. CASE ~Volumes!Fresh
    <3> DEFINE new == [pages[p] EXCEPT !.pc = "waits", !.for = 0]
    <3>1. pages' = [pages EXCEPT ![p] = new]
      BY <1>1, <1>2, <2>2
    <3>2. 0 \in 0..AnswerTime
      BY SizesAre
    <3>3. new \in PageRecord /\ new.answer = pages[p].answer /\ new.age = pages[p].age
      BY <1>5, <3>2 DEF PageRecord
    <3>4. new.answer # "none" => new.age < Volumes!TtlOf(new.answer)
      BY <1>2, <3>3 DEF PagesOK
    <3> HIDE DEF new
    <3> QED BY <1>2, <3>1, <3>3, <3>4, PageMoves
  <2> QED BY <2>1, <2>2
<1> QED BY <1>2, <1>3, <1>4, <1>6, <1>7 DEF SizesInv

LEMMA MeasuredKeeps ==
  ASSUME SizesInv, Volumes!Measured
  PROVE  SizesInv'
<1>1. /\ disk \in [Owners -> Totals] /\ stored \in StoredRecord /\ rests = TRUE
      /\ measuring \in [Volumes!Slots -> 0..DfTime + 1] /\ pages \in [Pages -> PageRecord] /\ KeptLargest /\ PagesOK
  BY DEF SizesInv
<1>2. PICK s \in Volumes!Slots : measuring' = [measuring EXCEPT ![s] = 0]
  BY DEF Volumes!Measured
<1>3. disk' = disk /\ rests' = rests
  BY DEF Volumes!Measured
<1>4. measuring' \in [Volumes!Slots -> 0..DfTime + 1]
  BY <1>1, <1>2, SizesAre
<1>5. PICK result \in {"known", "unknown"} :
        /\ pages' = Volumes!Served(result)
        /\ stored' = [kind |-> result, kept |-> IF result = "known" THEN Volumes!SnapshotOf(disk) ELSE {}, age |-> 0]
  BY DEF Volumes!Measured
<1>6. stored' \in StoredRecord /\ KeptLargest'
  <2>1. CASE result = "known"
    <3> DEFINE kept == Volumes!SnapshotOf(disk)
    <3>1. kept \in SUBSET Owners /\ Cardinality(kept) <= MaxResources
          /\ \A r \in kept : \A t \in Owners \ kept : disk[t] <= disk[r]
      BY <1>1, SnapshotKeepsLargest
    <3>2. stored' = [kind |-> "known", kept |-> kept, age |-> 0]
      BY <1>5, <2>1
    <3> HIDE DEF kept
    <3>3. stored' \in StoredRecord
      BY <3>1, <3>2, SizesAre DEF StoredRecord, Volumes!Results
    <3>4. KeptLargest'
      BY <1>3, <3>1, <3>2 DEF KeptLargest
    <3> QED BY <3>3, <3>4
  <2>2. CASE result = "unknown"
    <3>1. stored' = [kind |-> "unknown", kept |-> {}, age |-> 0]
      BY <1>5, <2>2
    <3> QED BY <3>1, SizesAre DEF StoredRecord, Volumes!Results, KeptLargest
  <2> QED BY <2>1, <2>2
<1>7. pages' \in [Pages -> PageRecord] /\ PagesOK'
  <2> DEFINE told == [Volumes!Idle EXCEPT !.answer = result]
  <2>1. told \in PageRecord /\ told.answer = result /\ told.age = 0
    BY SizesAre DEF PageRecord, Volumes!Idle, Volumes!Results
  <2>2. pages' = [p \in Pages |-> IF pages[p].pc = "waits" THEN told ELSE pages[p]]
    BY <1>5 DEF Volumes!Served
  <2> HIDE DEF told
  <2>3. pages' \in [Pages -> PageRecord]
    BY <1>1, <2>1, <2>2
  <2>4. 0 < Volumes!TtlOf(result)
    BY TtlIs
  <2>5. \A p \in Pages : pages'[p] = told \/ pages'[p] = pages[p]
    BY <2>2
  <2>6. \A p \in Pages : pages'[p].answer # "none" => pages'[p].age < Volumes!TtlOf(pages'[p].answer)
    BY <1>1, <2>1, <2>4, <2>5 DEF PagesOK
  <2> QED BY <2>3, <2>6 DEF PagesOK, Volumes!TtlOf
<1> QED BY <1>1, <1>3, <1>4, <1>6, <1>7 DEF SizesInv

LEMMA AnswersKeeps ==
  ASSUME SizesInv, Volumes!AnswersUnknown
  PROVE  SizesInv'
<1>1. /\ disk \in [Owners -> Totals] /\ stored \in StoredRecord /\ rests = TRUE
      /\ measuring \in [Volumes!Slots -> 0..DfTime + 1] /\ pages \in [Pages -> PageRecord] /\ KeptLargest /\ PagesOK
  BY DEF SizesInv
<1> DEFINE new == [Volumes!Idle EXCEPT !.answer = "unknown"]
<1>2. PICK p \in Pages : pages' = [pages EXCEPT ![p] = new]
  BY DEF Volumes!AnswersUnknown
<1>3. UNCHANGED <<disk, stored, measuring, rests>>
  BY DEF Volumes!AnswersUnknown
<1>4. new \in PageRecord /\ new.age = 0
  BY SizesAre DEF PageRecord, Volumes!Idle, Volumes!Results
<1>5. new.age < Volumes!TtlOf(new.answer)
  BY <1>4, TtlIs
<1> HIDE DEF new
<1>6. pages' \in [Pages -> PageRecord] /\ PagesOK'
  BY <1>1, <1>2, <1>4, <1>5, PageMoves
<1>7. KeptLargest'
  BY <1>1, <1>3 DEF KeptLargest
<1> QED BY <1>1, <1>3, <1>6, <1>7 DEF SizesInv

LEMMA SizesTick ==
  ASSUME SizesInv, Volumes!Tick
  PROVE  SizesInv'
<1>1. /\ disk \in [Owners -> Totals] /\ stored \in StoredRecord /\ rests = TRUE
      /\ measuring \in [Volumes!Slots -> 0..DfTime + 1] /\ pages \in [Pages -> PageRecord] /\ KeptLargest /\ PagesOK
  BY DEF SizesInv
<1>2. disk' = disk /\ rests' = rests
  BY DEF Volumes!Tick
<1>3. measuring' \in [Volumes!Slots -> 0..DfTime + 1]
  <2>1. \A s \in Volumes!Slots : measuring[s] \in Nat /\ measuring[s] <= DfTime
    BY <1>1, SizesAre DEF Volumes!Tick
  <2>2. measuring' = [s \in Volumes!Slots |-> IF measuring[s] > 0 THEN measuring[s] + 1 ELSE 0]
    BY DEF Volumes!Tick
  <2> QED BY <2>1, <2>2, SizesAre
<1>4. stored' \in StoredRecord /\ stored'.kind = stored.kind /\ stored'.kept = stored.kept
  <2> DEFINE age == IF stored.kind # "none" /\ stored.age < Volumes!Longest THEN stored.age + 1 ELSE stored.age
  <2>1. stored.age \in 0..Volumes!Longest
    BY <1>1 DEF StoredRecord
  <2>2. age \in 0..Volumes!Longest
    BY <2>1, SizesAre
  <2>3. stored' = [stored EXCEPT !.age = age]
    BY <1>1 DEF Volumes!Tick, StoredRecord
  <2> HIDE DEF age
  <2> QED BY <1>1, <2>2, <2>3 DEF StoredRecord
<1>5. KeptLargest'
  BY <1>1, <1>2, <1>4 DEF KeptLargest
<1>6. \A p \in Pages : /\ pages'[p] \in PageRecord
                       /\ pages'[p].answer = pages[p].answer /\ pages'[p].age = pages[p].age
  <2> TAKE p \in Pages
  <2>1. pages[p] \in PageRecord
    BY <1>1
  <2>2. pages'[p] = IF pages[p].pc = "waits" THEN [pages[p] EXCEPT !.for = pages[p].for + 1] ELSE pages[p]
    BY <2>1 DEF Volumes!Tick, PageRecord
  <2>3. CASE pages[p].pc = "waits"
    <3>1. pages[p].for + 1 \in 0..AnswerTime
      BY <2>1, <2>3, SizesAre DEF Volumes!Tick, PageRecord
    <3> QED BY <2>1, <2>2, <2>3, <3>1 DEF PageRecord
  <2>4. CASE pages[p].pc # "waits"
    BY <2>1, <2>2, <2>4
  <2> QED BY <2>3, <2>4
<1>7. pages' \in [Pages -> PageRecord]
  <2>1. pages' = [p \in Pages |-> pages'[p]]
    BY DEF Volumes!Tick
  <2> QED BY <1>6, <2>1
<1>8. PagesOK'
  BY <1>1, <1>6 DEF PagesOK, Volumes!TtlOf
<1> QED BY <1>1, <1>2, <1>3, <1>4, <1>5, <1>7, <1>8 DEF SizesInv

LEMMA SizesStep ==
  ASSUME SizesInv, [Volumes!Next]_(Volumes!vars)
  PROVE  SizesInv'
<1>1. CASE UNCHANGED Volumes!vars
  BY <1>1 DEF Volumes!vars, SizesInv, KeptLargest, PagesOK, Volumes!TtlOf
<1> QED BY <1>1, GetKeeps, MeasuredKeeps, AnswersKeeps, SizesTick DEF Volumes!Next

-----------------------------------------------------------------------------
GatesInv == (part = "gate" => HealthInv /\ CertInv) /\ (part = "sizes" => SizesInv)

LEMMA WaitsBegin ==
  ASSUME Init
  PROVE  GatesInv
<1>1. part = "gate" => Gate!Init
  BY DEF Init
<1>2. part = "sizes" => Volumes!Init
  BY DEF Init
<1> QED BY <1>1, <1>2, InitHealth, InitCerts, InitSizes DEF GatesInv

LEMMA WaitsKeep ==
  ASSUME GatesInv, [Next]_vars
  PROVE  GatesInv'
<1>1. part' = "gate" => part = "gate" /\ (Gate!Next \/ UNCHANGED Gate!vars)
  <2>1. CASE UNCHANGED vars
    BY <2>1 DEF vars, gateVars, Gate!vars
  <2>2. CASE Next
    BY <2>2 DEF Next, Only
  <2> QED BY <2>1, <2>2
<1>2. part' = "sizes" => part = "sizes" /\ [Volumes!Next]_(Volumes!vars)
  <2>1. CASE UNCHANGED vars
    BY <2>1 DEF vars, sizeVars, Volumes!vars
  <2>2. CASE Next
    BY <2>2 DEF Next, Only
  <2> QED BY <2>1, <2>2
<1> QED BY <1>1, <1>2, HealthStep, HealthStutters, SizesStep DEF GatesInv

\* For every timer, every number of names and of pages: no container that had
\* restarted when the gate last looked passes it, whatever Docker called it; the
\* gate ends by its deadline, a request and a pause (jobs/health-gate.ts); a
\* name's certificate is waited for no longer than CERT_WAIT_MS, and found when
\* it was there for a whole round (caddy/tls-probe.ts); and one measurement
\* serves every page, the largest volumes of it kept and none of it served past
\* its time (volumes/sizes.ts).
THEOREM WaitsAlwaysBounded == Spec => [](WaitsAreBounded)
<1>1. Init => GatesInv
  BY WaitsBegin
<1>2. GatesInv /\ [Next]_vars => GatesInv'
  BY WaitsKeep
<1>3. GatesInv => WaitsAreBounded
  BY HealthMeans, SizesMean DEF GatesInv, WaitsAreBounded
<1> QED BY <1>1, <1>2, <1>3, PTL DEF Spec

-----------------------------------------------------------------------------
(* Variables and the secrets made for a stack (Variables).                   *)

LowLevels == {"project", "environment", "resource"}

LEMMA ThreeLevels ==
  /\ DOMAIN Env!Lowest = {1, 2, 3} /\ Env!Lowest[1] = "project" /\ Env!Lowest[2] = "environment" /\ Env!Lowest[3] = "resource"
  /\ Env!Level = LowLevels
<1>1. DOMAIN Env!Lowest = {1, 2, 3} /\ Env!Lowest[1] = "project" /\ Env!Lowest[2] = "environment" /\ Env!Lowest[3] = "resource"
  BY DEF Env!Lowest
<1>2. Env!Level = LowLevels
  BY <1>1 DEF Env!Level, Env!Range, LowLevels
<1> QED BY <1>1, <1>2

LEMMA MaxIs ==
  ASSUME NEW S \in SUBSET {1, 2, 3}, NEW m \in S, \A k \in S : m >= k
  PROVE  Env!Max(S) = m
<1>1. \A x \in S : (\A y \in S : x >= y) => x = m
  OBVIOUS
<1>2. \E x \in S : \A y \in S : x >= y
  OBVIOUS
<1>3. Env!Max(S) \in S /\ \A y \in S : Env!Max(S) >= y
  BY <1>2 DEF Env!Max
<1> QED BY <1>1, <1>3

\* The fold over the three levels, step by step: what a set of levels merges to.
MergedOf(s) ==
  LET one == IF 1 \in s THEN Env!MergeLevel(<< >>, Env!Lowest[1]) ELSE << >>
      two == IF 2 \in s THEN Env!MergeLevel(one, Env!Lowest[2]) ELSE one
  IN  IF 3 \in s THEN Env!MergeLevel(two, Env!Lowest[3]) ELSE two

LEMMA MergedOfStep ==
  ASSUME NEW s \in SUBSET {1, 2, 3}, s # {}
  PROVE  /\ s \ {Env!Max(s)} \in SUBSET {1, 2, 3}
         /\ MergedOf(s) = Env!MergeLevel(MergedOf(s \ {Env!Max(s)}), Env!Lowest[Env!Max(s)])
<1>1. CASE 3 \in s
  <2>1. Env!Max(s) = 3
    BY <1>1, MaxIs
  <2> QED BY <1>1, <2>1 DEF MergedOf
<1>2. CASE 3 \notin s /\ 2 \in s
  <2>1. Env!Max(s) = 2
    BY <1>2, MaxIs
  <2> QED BY <1>2, <2>1 DEF MergedOf
<1>3. CASE 3 \notin s /\ 2 \notin s
  <2>1. s = {1}
    BY <1>3
  <2>2. Env!Max(s) = 1
    BY <2>1, MaxIs
  <2> QED BY <2>1, <2>2 DEF MergedOf
<1> QED BY <1>1, <1>2, <1>3

LEMMA MergeLevelsIs ==
  Env!MergeLevels = Env!MergeLevel(Env!MergeLevel(Env!MergeLevel(<< >>, "project"), "environment"), "resource")
<1> DEFINE Body(it) == [s \in SUBSET {1, 2, 3} |->
                          IF s = {} THEN << >> ELSE Env!MergeLevel(it[s \ {Env!Max(s)}], Env!Lowest[Env!Max(s)])]
           merged == CHOOSE it : it = Body(it)
           witness == [s \in SUBSET {1, 2, 3} |-> MergedOf(s)]
<1>1. Env!MergeLevels = merged[{1, 2, 3}]
  BY ThreeLevels DEF Env!MergeLevels, Env!FoldLeft, Env!MapThenFoldSet
<1>2. witness = Body(witness)
  <2>1. \A s \in SUBSET {1, 2, 3} : s # {} => MergedOf(s) = Env!MergeLevel(witness[s \ {Env!Max(s)}], Env!Lowest[Env!Max(s)])
    BY MergedOfStep
  <2>2. MergedOf({}) = << >>
    BY DEF MergedOf
  <2> QED BY <2>1, <2>2
<1>3. merged = Body(merged)
  BY <1>2
<1> HIDE DEF merged, witness
<1>4. merged[{}] = << >>
  BY <1>3
<1>5. \A s \in SUBSET {1, 2, 3} : s # {} => merged[s] = Env!MergeLevel(merged[s \ {Env!Max(s)}], Env!Lowest[Env!Max(s)])
  BY <1>3
<1>6. Env!Max({1}) = 1 /\ Env!Max({1, 2}) = 2 /\ Env!Max({1, 2, 3}) = 3
  BY MaxIs
<1>7. merged[{1}] = Env!MergeLevel(<< >>, "project")
  BY <1>4, <1>5, <1>6, ThreeLevels, {1} \ {1} = {}
<1>8. merged[{1, 2}] = Env!MergeLevel(merged[{1}], "environment")
  BY <1>5, <1>6, ThreeLevels, {1, 2} \ {2} = {1}
<1>9. merged[{1, 2, 3}] = Env!MergeLevel(merged[{1, 2}], "resource")
  BY <1>5, <1>6, ThreeLevels, {1, 2, 3} \ {3} = {1, 2}
<1> QED BY <1>1, <1>7, <1>8, <1>9

LEMMA MergeLevelGives ==
  ASSUME NEW merged, NEW l
  PROVE  /\ DOMAIN Env!MergeLevel(merged, l) = DOMAIN merged \cup DOMAIN levels[l]
         /\ \A n \in DOMAIN merged \ DOMAIN levels[l] : Env!MergeLevel(merged, l)[n] = merged[n]
  BY DEF Env!MergeLevel

LEMMA MergeLevelTakes ==
  ASSUME NEW merged, NEW l, NEW n \in DOMAIN levels[l]
  PROVE  /\ Env!MergeLevel(merged, l)[n].text = levels[l][n].text
         /\ Env!MergeLevel(merged, l)[n].scope = levels[l][n].scope
         /\ Env!MergeLevel(merged, l)[n].origin = l
         /\ n \notin DOMAIN merged => Env!MergeLevel(merged, l)[n].overrides = << >>
         /\ n \in DOMAIN merged =>
              Env!MergeLevel(merged, l)[n].overrides = Append(merged[n].overrides, merged[n].origin)
  BY DEF Env!MergeLevel

LEMMA WinnerIs ==
  ASSUME NEW n
  PROVE  /\ n \in DOMAIN levels["resource"] => Env!Winner(n) = "resource"
         /\ n \notin DOMAIN levels["resource"] /\ n \in DOMAIN levels["environment"] => Env!Winner(n) = "environment"
         /\ n \notin DOMAIN levels["resource"] /\ n \notin DOMAIN levels["environment"] /\ n \in DOMAIN levels["project"]
              => Env!Winner(n) = "project"
<1>1. Env!Rank("project") = 1 /\ Env!Rank("environment") = 2 /\ Env!Rank("resource") = 3
  BY ThreeLevels DEF Env!Rank
<1> DEFINE Wins(l) == n \in DOMAIN levels[l] /\ \A m \in Env!Level : n \in DOMAIN levels[m] => Env!Rank(m) <= Env!Rank(l)
<1>2. Env!Winner(n) = CHOOSE l \in Env!Level : Wins(l)
  BY DEF Env!Winner
<1>3. ASSUME NEW l \in Env!Level, Wins(l)
      PROVE  Env!Winner(n) \in Env!Level /\ Wins(Env!Winner(n))
  BY <1>2, <1>3
<1>4. CASE n \in DOMAIN levels["resource"]
  <2>1. Wins("resource")
    BY <1>1, <1>4, ThreeLevels DEF LowLevels
  <2>2. Env!Winner(n) \in LowLevels /\ Env!Rank("resource") <= Env!Rank(Env!Winner(n))
    BY <1>3, <1>4, <2>1, ThreeLevels DEF LowLevels
  <2> QED BY <1>1, <1>4, <2>2 DEF LowLevels
<1>5. CASE n \notin DOMAIN levels["resource"] /\ n \in DOMAIN levels["environment"]
  <2>1. Wins("environment")
    BY <1>1, <1>5, ThreeLevels DEF LowLevels
  <2>2. Env!Winner(n) \in LowLevels /\ Env!Rank("environment") <= Env!Rank(Env!Winner(n)) /\ n \in DOMAIN levels[Env!Winner(n)]
    BY <1>3, <1>5, <2>1, ThreeLevels DEF LowLevels
  <2> QED BY <1>1, <1>5, <2>2 DEF LowLevels
<1>6. CASE /\ n \notin DOMAIN levels["resource"] /\ n \notin DOMAIN levels["environment"]
           /\ n \in DOMAIN levels["project"]
  <2>1. Wins("project")
    BY <1>1, <1>6, ThreeLevels DEF LowLevels
  <2>2. Env!Winner(n) \in LowLevels /\ n \in DOMAIN levels[Env!Winner(n)]
    BY <1>3, <1>6, <2>1, ThreeLevels DEF LowLevels
  <2> QED BY <1>6, <2>2 DEF LowLevels
<1> QED BY <1>4, <1>5, <1>6

LEMMA RangeAppends ==
  ASSUME NEW x, NEW y
  PROVE  /\ Env!Range(<< >>) = {} /\ Env!Range(Append(<< >>, x)) = {x}
         /\ Env!Range(Append(Append(<< >>, x), y)) = {x, y}
<1> DEFINE S == {x, y}
           a == Append(<< >>, x)
           b == Append(a, y)
<1>1. Env!Range(<< >>) = {}
  BY DEF Env!Range
<1>2. << >> \in Seq(S) /\ x \in S /\ y \in S
  OBVIOUS
<1> HIDE DEF S
<1>3. a \in Seq(S) /\ DOMAIN a = {1} /\ a[1] = x /\ Len(a) = 1
  BY <1>2
<1> HIDE DEF a
<1>4. b \in Seq(S) /\ Len(b) = 2 /\ b[1] = x /\ b[2] = y
  <2>1. b \in Seq(S) /\ Len(b) = Len(a) + 1 /\ b[Len(a) + 1] = y /\ \A i \in 1..Len(a) : b[i] = a[i]
    <3>1. y \in S /\ a \in Seq(S)
      BY <1>2, <1>3
    <3> QED BY <3>1, AppendProperties
  <2> HIDE DEF b
  <2> QED BY <1>3, <2>1
<1> HIDE DEF b
<1>5. DOMAIN b = {1, 2}
  BY <1>4
<1>6. Env!Range(a) = {x} /\ Env!Range(b) = {x, y}
  BY <1>3, <1>4, <1>5 DEF Env!Range
<1> QED BY <1>1, <1>6 DEF a, b

\* What the merge says of a name: the winner's text and scope, and who lost.
LEMMA MergedIs ==
  /\ DOMAIN Env!MergeLevels = Env!Defined
  /\ \A n \in Env!Defined :
       /\ Env!MergeLevels[n].text = Env!Winning(n).text /\ Env!MergeLevels[n].scope = Env!Winning(n).scope
       /\ Env!MergeLevels[n].origin = Env!Winner(n)
       /\ Env!Range(Env!MergeLevels[n].overrides) = {l \in Env!Level : n \in DOMAIN levels[l]} \ {Env!Winner(n)}
<1>1. PICK p, e, r, nothing : p = "project" /\ e = "environment" /\ r = "resource" /\ nothing = << >>
  OBVIOUS
<1> DEFINE one == Env!MergeLevel(nothing, p)
           two == Env!MergeLevel(one, e)
           all == Env!MergeLevel(two, r)
           P == DOMAIN levels[p]
           E == DOMAIN levels[e]
           R == DOMAIN levels[r]
<1>2. Env!MergeLevels = all /\ Env!Level = {p, e, r} /\ Env!Defined = P \cup E \cup R
  BY <1>1, MergeLevelsIs, ThreeLevels DEF Env!Defined, LowLevels
<1>3. DOMAIN one = P
  <2>1. DOMAIN one = DOMAIN nothing \cup P
    BY MergeLevelGives
  <2>2. DOMAIN nothing = {}
    BY <1>1
  <2> HIDE DEF one, P
  <2> QED BY <2>1, <2>2
<1>4. ASSUME NEW n \in P
      PROVE  /\ one[n].text = levels[p][n].text /\ one[n].scope = levels[p][n].scope
             /\ one[n].origin = p /\ one[n].overrides = << >>
  <2>1. DOMAIN one = DOMAIN nothing \cup P /\ \A m \in DOMAIN nothing \ P : one[m] = nothing[m]
    BY MergeLevelGives
  <2>2. ASSUME NEW m \in P
        PROVE  /\ one[m].text = levels[p][m].text /\ one[m].scope = levels[p][m].scope
               /\ one[m].origin = p
               /\ m \notin DOMAIN nothing => one[m].overrides = << >>
               /\ m \in DOMAIN nothing => one[m].overrides = Append(nothing[m].overrides, nothing[m].origin)
    BY MergeLevelTakes
  <2>3. \A m \in P : m \notin DOMAIN nothing
    BY <1>1
  <2> HIDE DEF one, P
  <2> QED BY <2>2, <2>3
<1> HIDE DEF one
<1>5. /\ DOMAIN two = P \cup E /\ \A n \in P \ E : two[n] = one[n]
      /\ \A n \in E :
           /\ two[n].text = levels[e][n].text /\ two[n].scope = levels[e][n].scope
           /\ two[n].origin = e
           /\ n \notin P => two[n].overrides = << >>
           /\ n \in P => two[n].overrides = Append(one[n].overrides, one[n].origin)
  <2>1. DOMAIN two = DOMAIN one \cup E /\ \A n \in DOMAIN one \ E : two[n] = one[n]
    BY MergeLevelGives
  <2>2. ASSUME NEW n \in E
        PROVE  /\ two[n].text = levels[e][n].text /\ two[n].scope = levels[e][n].scope
               /\ two[n].origin = e
               /\ n \notin DOMAIN one => two[n].overrides = << >>
               /\ n \in DOMAIN one => two[n].overrides = Append(one[n].overrides, one[n].origin)
    BY MergeLevelTakes
  <2> HIDE DEF two, P, E
  <2> QED BY <1>3, <2>1, <2>2
<1> HIDE DEF two
<1>6. /\ DOMAIN all = P \cup E \cup R /\ \A n \in (P \cup E) \ R : all[n] = two[n]
      /\ \A n \in R :
           /\ all[n].text = levels[r][n].text /\ all[n].scope = levels[r][n].scope
           /\ all[n].origin = r
           /\ n \notin P \cup E => all[n].overrides = << >>
           /\ n \in P \cup E => all[n].overrides = Append(two[n].overrides, two[n].origin)
  <2>1. DOMAIN all = DOMAIN two \cup R /\ \A n \in DOMAIN two \ R : all[n] = two[n]
    BY MergeLevelGives
  <2>2. ASSUME NEW n \in R
        PROVE  /\ all[n].text = levels[r][n].text /\ all[n].scope = levels[r][n].scope
               /\ all[n].origin = r
               /\ n \notin DOMAIN two => all[n].overrides = << >>
               /\ n \in DOMAIN two => all[n].overrides = Append(two[n].overrides, two[n].origin)
    BY MergeLevelTakes
  <2> HIDE DEF all, P, E, R
  <2> QED BY <1>5, <2>1, <2>2
<1> HIDE DEF all
<1>7. ASSUME NEW n \in Env!Defined
      PROVE  /\ all[n].text = Env!Winning(n).text /\ all[n].scope = Env!Winning(n).scope
             /\ all[n].origin = Env!Winner(n)
             /\ Env!Range(all[n].overrides) = {l \in Env!Level : n \in DOMAIN levels[l]} \ {Env!Winner(n)}
  <2> DEFINE Losers == {l \in Env!Level : n \in DOMAIN levels[l]} \ {Env!Winner(n)}
  <2>1. Losers = {l \in {p, e, r} : n \in DOMAIN levels[l]} \ {Env!Winner(n)}
    BY <1>2
  <2>2. CASE n \in R
    <3>1. Env!Winner(n) = r
      BY <1>1, <2>2, WinnerIs
    <3>2. all[n].text = levels[r][n].text /\ all[n].scope = levels[r][n].scope /\ all[n].origin = r
      BY <1>6, <2>2
    <3>3. Env!Range(all[n].overrides) = Losers
      <4>1. CASE n \notin P /\ n \notin E
        <5>1. all[n].overrides = << >>
          BY <1>5, <1>6, <2>2, <4>1
        <5>2. Losers = {}
          BY <1>1, <2>1, <3>1, <4>1
        <5> QED BY <1>1, <5>1, <5>2, RangeAppends
      <4>2. CASE n \in P /\ n \notin E
        <5>1. all[n].overrides = Append(<< >>, p)
          BY <1>4, <1>5, <1>6, <2>2, <4>2
        <5>2. Losers = {p}
          BY <1>1, <2>1, <2>2, <3>1, <4>2
        <5> QED BY <1>1, <5>1, <5>2, RangeAppends
      <4>3. CASE n \notin P /\ n \in E
        <5>1. all[n].overrides = Append(<< >>, e)
          BY <1>4, <1>5, <1>6, <2>2, <4>3
        <5>2. Losers = {e}
          BY <1>1, <2>1, <2>2, <3>1, <4>3
        <5> QED BY <1>1, <5>1, <5>2, RangeAppends
      <4>4. CASE n \in P /\ n \in E
        <5>1. two[n].overrides = Append(<< >>, p) /\ two[n].origin = e
          BY <1>4, <1>5, <4>4
        <5>2. all[n].overrides = Append(Append(<< >>, p), e)
          BY <1>5, <1>6, <2>2, <4>4, <5>1
        <5>3. Losers = {p, e}
          BY <1>1, <2>1, <2>2, <3>1, <4>4
        <5> QED BY <1>1, <5>2, <5>3, RangeAppends
      <4> QED BY <4>1, <4>2, <4>3, <4>4
    <3> QED BY <3>1, <3>2, <3>3 DEF Env!Winning
  <2>3. CASE n \notin R /\ n \in E
    <3>1. Env!Winner(n) = e /\ all[n] = two[n]
      BY <1>1, <1>6, <2>3, WinnerIs
    <3>2. /\ two[n].text = levels[e][n].text /\ two[n].scope = levels[e][n].scope
          /\ two[n].origin = e
      BY <1>5, <2>3
    <3>3. Env!Range(two[n].overrides) = Losers
      <4>1. CASE n \notin P
        <5>1. two[n].overrides = << >>
          BY <1>4, <1>5, <2>3, <4>1
        <5>2. Losers = {}
          BY <1>1, <2>1, <2>3, <3>1, <4>1
        <5> QED BY <1>1, <5>1, <5>2, RangeAppends
      <4>2. CASE n \in P
        <5>1. two[n].overrides = Append(<< >>, p)
          BY <1>4, <1>5, <2>3, <4>2
        <5>2. Losers = {p}
          BY <1>1, <2>1, <2>3, <3>1, <4>2
        <5> QED BY <1>1, <5>1, <5>2, RangeAppends
      <4> QED BY <4>1, <4>2
    <3> QED BY <3>1, <3>2, <3>3 DEF Env!Winning
  <2>4. CASE n \notin R /\ n \notin E /\ n \in P
    <3>1. Env!Winner(n) = p /\ all[n] = one[n]
      BY <1>1, <1>4, <1>5, <1>6, <2>4, WinnerIs
    <3>2. Losers = {}
      BY <1>1, <2>1, <2>4, <3>1
    <3> QED BY <1>4, <2>4, <1>1, <3>1, <3>2, RangeAppends DEF Env!Winning
  <2> QED BY <1>2, <2>2, <2>3, <2>4
<1> QED BY <1>2, <1>6, <1>7

\* What the winners say, before references are put in; and what a deploy resolves of it.
Flat == [n \in Env!Defined |-> Env!Winning(n).text]

LEMMA Resolves ==
  /\ Env!ResolveEnvVars.ok <=> ~Env!Throws(Flat)
  /\ Env!ResolveEnvVars.ok =>
       /\ DOMAIN Env!ResolveEnvVars.runtime = {n \in Env!Defined : Env!Winning(n).scope \in {"runtime", "both"}}
       /\ \A n \in DOMAIN Env!ResolveEnvVars.runtime : Env!ResolveEnvVars.runtime[n] = Env!Interpolate(Flat)[n]
       /\ DOMAIN Env!ResolveEnvVars.build = {n \in Env!Defined : Env!Winning(n).scope \in {"build", "both"}}
       /\ \A n \in DOMAIN Env!ResolveEnvVars.build : Env!ResolveEnvVars.build[n] = Env!Interpolate(Flat)[n]
       /\ Env!ResolveEnvVars.secrets = Env!Range(Env!Interpolate(Flat))
<1> DEFINE flat == [n \in DOMAIN Env!MergeLevels |-> Env!MergeLevels[n].text]
           expanded == IF Env!Throws(flat) THEN << >> ELSE Env!Interpolate(flat)
           Of(scopes) == [n \in {m \in DOMAIN expanded : Env!MergeLevels[m].scope \in scopes} |-> expanded[n]]
<1>1. Env!ResolveEnvVars = [ok |-> ~Env!Throws(flat), runtime |-> Of({"runtime", "both"}), build |-> Of({"build", "both"}),
                        secrets |-> Env!Range(expanded)]
  BY Zenon DEF Env!ResolveEnvVars
<1>2. flat = Flat
  BY MergedIs DEF Flat
<1>3. DOMAIN Env!Interpolate(Flat) = Env!Defined
  BY DEF Env!Interpolate, Flat
<1>4. ASSUME ~Env!Throws(flat), NEW scopes
      PROVE  /\ DOMAIN Of(scopes) = {n \in Env!Defined : Env!Winning(n).scope \in scopes}
             /\ \A n \in DOMAIN Of(scopes) : Of(scopes)[n] = Env!Interpolate(Flat)[n]
  <2>1. expanded = Env!Interpolate(Flat)
    BY <1>2, <1>4
  <2>2. {m \in DOMAIN expanded : Env!MergeLevels[m].scope \in scopes} = {n \in Env!Defined : Env!Winning(n).scope \in scopes}
    BY <1>3, <2>1, MergedIs
  <2> HIDE DEF expanded
  <2> QED BY <2>1, <2>2
<1>5. Env!Throws(flat) \/ expanded = Env!Interpolate(Flat)
  BY <1>2
<1> HIDE DEF expanded, flat, Of
<1>6. /\ Env!ResolveEnvVars.ok = ~Env!Throws(flat) /\ Env!ResolveEnvVars.runtime = Of({"runtime", "both"})
      /\ Env!ResolveEnvVars.build = Of({"build", "both"}) /\ Env!ResolveEnvVars.secrets = Env!Range(expanded)
  BY <1>1
<1>7. Env!ResolveEnvVars.ok <=> ~Env!Throws(Flat)
  BY <1>2, <1>6, Zenon
<1>8. ASSUME ~Env!Throws(flat)
      PROVE  /\ DOMAIN Env!ResolveEnvVars.runtime = {n \in Env!Defined : Env!Winning(n).scope \in {"runtime", "both"}}
             /\ \A n \in DOMAIN Env!ResolveEnvVars.runtime : Env!ResolveEnvVars.runtime[n] = Env!Interpolate(Flat)[n]
             /\ DOMAIN Env!ResolveEnvVars.build = {n \in Env!Defined : Env!Winning(n).scope \in {"build", "both"}}
             /\ \A n \in DOMAIN Env!ResolveEnvVars.build : Env!ResolveEnvVars.build[n] = Env!Interpolate(Flat)[n]
  <2>1. \A scopes : /\ DOMAIN Of(scopes) = {n \in Env!Defined : Env!Winning(n).scope \in scopes}
                     /\ \A n \in DOMAIN Of(scopes) : Of(scopes)[n] = Env!Interpolate(Flat)[n]
    BY <1>4, <1>8
  <2> DEFINE runs == Of({"runtime", "both"})
             builds == Of({"build", "both"})
  <2>2. /\ DOMAIN runs = {n \in Env!Defined : Env!Winning(n).scope \in {"runtime", "both"}}
        /\ \A n \in DOMAIN runs : runs[n] = Env!Interpolate(Flat)[n]
    BY <2>1, Zenon
  <2>3. /\ DOMAIN builds = {n \in Env!Defined : Env!Winning(n).scope \in {"build", "both"}}
        /\ \A n \in DOMAIN builds : builds[n] = Env!Interpolate(Flat)[n]
    BY <2>1, Zenon
  <2>4. Env!ResolveEnvVars.runtime = runs /\ Env!ResolveEnvVars.build = builds
    BY <1>6
  <2> HIDE DEF runs, builds
  <2> QED BY <2>2, <2>3, <2>4
<1>9. ~Env!Throws(flat) => Env!ResolveEnvVars.secrets = Env!Range(Env!Interpolate(Flat))
  BY <1>5, <1>6
<1> QED BY <1>2, <1>7, <1>8, <1>9, Zenon

\* One reference, escape or piece of a text, put in.
LEMMA ExpandIs ==
  ASSUME ~Env!Throws(Flat), NEW n \in Env!Defined, NEW i \in DOMAIN Env!Winning(n).text
  PROVE  Env!Expand(Flat, Env!Winning(n).text[i]) =
           IF Env!Winning(n).text[i].kind = "ref" THEN Env!Winning(Env!Winning(n).text[i].of).text
           ELSE IF Env!Winning(n).text[i].kind = "escape" THEN <<Env!Text("$")>> ELSE <<Env!Winning(n).text[i]>>
<1>1. Flat[n] = Env!Winning(n).text /\ DOMAIN Flat = Env!Defined
  BY DEF Flat
<1>2. ASSUME Env!Winning(n).text[i].kind = "ref"
      PROVE  Env!Winning(n).text[i].of \in Env!Defined
  BY <1>1, <1>2 DEF Env!Throws, Env!Refers
<1>3. ASSUME Env!Winning(n).text[i].kind = "ref"
      PROVE  Flat[Env!Winning(n).text[i].of] = Env!Winning(Env!Winning(n).text[i].of).text
  BY <1>2, <1>3 DEF Flat
<1> DEFINE piece == Env!Winning(n).text[i]
<1>4. piece.kind = "ref" => Env!Expand(Flat, piece) = Flat[piece.of]
  BY DEF Env!Expand
<1>5. piece.kind = "escape" => Env!Expand(Flat, piece) = <<Env!Text("$")>>
  BY DEF Env!Expand
<1>6. piece.kind \notin {"ref", "escape"} => Env!Expand(Flat, piece) = <<piece>>
  BY DEF Env!Expand
<1> QED BY <1>3, <1>4, <1>5, <1>6

LEMMA InterpolatesDeclared ==
  ASSUME ~Env!Throws(Flat), NEW n \in Env!Defined
  PROVE  Env!Interpolate(Flat)[n] = Env!Declared(n)
<1> DEFINE text == Env!Winning(n).text
           Part(piece) == IF piece.kind = "ref" THEN Env!Winning(piece.of).text
                          ELSE IF piece.kind = "escape" THEN <<Env!Text("$")>> ELSE <<piece>>
<1>1. Env!Declared(n) = Env!FlattenSeq([i \in DOMAIN text |-> Part(text[i])])
  BY Zenon DEF Env!Declared
<1>2. Env!Interpolate(Flat)[n] = Env!FlattenSeq([i \in DOMAIN text |-> Env!Expand(Flat, text[i])])
  <2>1. Flat[n] = text /\ n \in DOMAIN Flat
    BY DEF Flat
  <2> QED BY <2>1, Zenon DEF Env!Interpolate
<1>3. [i \in DOMAIN text |-> Env!Expand(Flat, text[i])] = [i \in DOMAIN text |-> Part(text[i])]
  BY ExpandIs
<1> QED BY <1>1, <1>2, <1>3, Zenon

LevelsTyped ==
  /\ levels = [l \in Env!Level |-> levels[l]]
  /\ \A l \in Env!Level : DOMAIN levels[l] \subseteq Names /\ \A n \in DOMAIN levels[l] : levels[l][n] \in Env!Variable

LEMMA WinningScope ==
  ASSUME LevelsTyped, NEW n \in Env!Defined
  PROVE  Env!Winning(n).scope \in Env!Scope
<1>1. Env!Winner(n) \in Env!Level /\ n \in DOMAIN levels[Env!Winner(n)]
  BY WinnerIs, ThreeLevels DEF Env!Defined, LowLevels
<1> QED BY <1>1 DEF LevelsTyped, Env!Winning, Env!Variable

LEMMA DeliversAsDeclared ==
  ASSUME LevelsTyped
  PROVE  Env!DeliveredAsDeclared
<1>1. /\ DOMAIN Env!ResolveEnvKeys = Env!Defined
      /\ \A n \in Env!Defined :
           /\ Env!ResolveEnvKeys[n].origin = Env!Winner(n) /\ Env!ResolveEnvKeys[n].scope = Env!Winning(n).scope
           /\ Env!Range(Env!ResolveEnvKeys[n].overrides) = {l \in Env!Level : n \in DOMAIN levels[l]} \ {Env!Winner(n)}
  <2>1. /\ DOMAIN Env!ResolveEnvKeys = DOMAIN Env!MergeLevels
        /\ \A n \in DOMAIN Env!MergeLevels :
             /\ Env!ResolveEnvKeys[n].origin = Env!MergeLevels[n].origin /\ Env!ResolveEnvKeys[n].scope = Env!MergeLevels[n].scope
             /\ Env!ResolveEnvKeys[n].overrides = Env!MergeLevels[n].overrides
    BY DEF Env!ResolveEnvKeys
  <2> QED BY <2>1, MergedIs
<1>2. ASSUME Env!ResolveEnvVars.ok
      PROVE  /\ \A n \in Env!Defined : Env!Refers(Env!Winning(n).text) \subseteq Env!Defined \ {n}
             /\ DOMAIN Env!ResolveEnvVars.runtime = {n \in Env!Defined : Env!Winning(n).scope # "build"}
             /\ DOMAIN Env!ResolveEnvVars.build = {n \in Env!Defined : Env!Winning(n).scope # "runtime"}
             /\ \A n \in DOMAIN Env!ResolveEnvVars.runtime : Env!ResolveEnvVars.runtime[n] = Env!Declared(n)
             /\ \A n \in DOMAIN Env!ResolveEnvVars.build : Env!ResolveEnvVars.build[n] = Env!Declared(n)
             /\ Env!Range(Env!ResolveEnvVars.runtime) \cup Env!Range(Env!ResolveEnvVars.build) \subseteq Env!ResolveEnvVars.secrets
  <2>1. ~Env!Throws(Flat)
    BY <1>2, Resolves
  <2>2. \A n \in Env!Defined : Env!Refers(Env!Winning(n).text) \subseteq Env!Defined \ {n}
    <3>1. DOMAIN Flat = Env!Defined /\ \A n \in Env!Defined : Flat[n] = Env!Winning(n).text
      BY DEF Flat
    <3> QED BY <2>1, <3>1 DEF Env!Throws
  <2>3. \A n \in Env!Defined : Env!Winning(n).scope \in {"runtime", "build", "both"}
    BY WinningScope DEF Env!Scope
  <2>4. /\ DOMAIN Env!ResolveEnvVars.runtime = {n \in Env!Defined : Env!Winning(n).scope # "build"}
        /\ DOMAIN Env!ResolveEnvVars.build = {n \in Env!Defined : Env!Winning(n).scope # "runtime"}
    BY <1>2, <2>3, Resolves
  <2>5. /\ \A n \in DOMAIN Env!ResolveEnvVars.runtime : Env!ResolveEnvVars.runtime[n] = Env!Declared(n)
        /\ \A n \in DOMAIN Env!ResolveEnvVars.build : Env!ResolveEnvVars.build[n] = Env!Declared(n)
    BY <1>2, <2>1, <2>4, Resolves, InterpolatesDeclared
  <2>6. Env!Range(Env!ResolveEnvVars.runtime) \cup Env!Range(Env!ResolveEnvVars.build) \subseteq Env!ResolveEnvVars.secrets
    <3>1. DOMAIN Env!Interpolate(Flat) = Env!Defined
      BY DEF Env!Interpolate, Flat
    <3>2. /\ \A n \in DOMAIN Env!ResolveEnvVars.runtime : n \in Env!Defined /\ Env!ResolveEnvVars.runtime[n] = Env!Interpolate(Flat)[n]
          /\ \A n \in DOMAIN Env!ResolveEnvVars.build : n \in Env!Defined /\ Env!ResolveEnvVars.build[n] = Env!Interpolate(Flat)[n]
          /\ Env!ResolveEnvVars.secrets = Env!Range(Env!Interpolate(Flat))
      BY <1>2, <2>4, Resolves
    <3> QED BY <3>1, <3>2 DEF Env!Range
  <2> QED BY <2>2, <2>4, <2>5, <2>6
<1> QED BY <1>1, <1>2, Zenon DEF Env!DeliveredAsDeclared

-----------------------------------------------------------------------------
\* A tab drawn of the resource shows what the resource has, or less; a secret
\* the user has not touched is the one that was made.
FormTyped ==
  /\ form = [level |-> form.level, vars |-> form.vars]
  /\ form.level \in Env!Level \cup {Env!None} /\ DOMAIN form.vars \subseteq Names
  /\ \A n \in DOMAIN form.vars : form.vars[n] \in Env!Variable
FormFollows ==
  form.level = "resource" =>
    \A n \in DOMAIN form.vars :
      n \in DOMAIN levels["resource"] /\ levels["resource"][n].text = form.vars[n].text
SecretsMade ==
  \A s \in (Generated \cap DOMAIN levels["resource"]) \ (edited \cup stale) :
    \E n : levels["resource"][s].text = <<Env!Secret(n)>>
EnvTyped ==
  /\ kind \in {"image", "compose"} /\ file \subseteq Names /\ saves \in 0..MaxSaves
  /\ LevelsTyped /\ FormTyped
  /\ edited \subseteq Names /\ stale \subseteq Names /\ DOMAIN used = Generated
EnvInv == EnvTyped /\ FormFollows /\ SecretsMade /\ Env!SecretsLast

LEMMA InitEnv ==
  ASSUME MaxSaves \in Nat, Env!Init
  PROVE  EnvInv
<1>1. levels = [l \in Env!Level |-> << >>] /\ DOMAIN << >> = {} /\ form.level = Env!None /\ form.vars = << >>
  BY DEF Env!Init, Env!NoForm
<1>2. LevelsTyped
  BY <1>1 DEF LevelsTyped
<1>3. FormTyped
  <2>1. form = [level |-> form.level, vars |-> form.vars]
    BY DEF Env!Init, Env!NoForm
  <2> QED BY <1>1, <2>1 DEF FormTyped
<1>4. FormFollows
  BY <1>1 DEF FormFollows, Env!None
<1>5. levels["resource"] = << >>
  BY <1>1, ThreeLevels DEF LowLevels
<1>6. SecretsMade
  BY <1>1, <1>5 DEF SecretsMade
<1>7. Env!SecretsLast
  BY DEF Env!Init, Env!SecretsLast
<1> QED BY <1>2, <1>3, <1>4, <1>6, <1>7 DEF EnvInv, EnvTyped, Env!Init

LEMMA DrawTabEnv ==
  ASSUME EnvInv, Env!DrawTab
  PROVE  EnvInv'
<1>1. PICK l \in Env!Level : form' = [level |-> l, vars |-> levels[l]]
  BY DEF Env!DrawTab
<1>2. form'.level = l /\ form'.vars = levels[l] /\ form' = [level |-> form'.level, vars |-> form'.vars]
  BY <1>1
<1>3. UNCHANGED <<kind, levels, file, used, edited, stale, saves>>
  BY DEF Env!DrawTab
<1>4. LevelsTyped' /\ SecretsMade' /\ Env!SecretsLast'
  BY <1>3 DEF EnvInv, EnvTyped, LevelsTyped, SecretsMade, Env!SecretsLast
<1>5. FormTyped'
  BY <1>2 DEF EnvInv, EnvTyped, LevelsTyped, FormTyped
<1>6. FormFollows'
  BY <1>2, <1>3 DEF FormFollows
<1> QED BY <1>3, <1>4, <1>5, <1>6 DEF EnvInv, EnvTyped

\* What a form posts: the texts as typed, under some scope.
LEMMA PostedIs ==
  ASSUME NEW l, NEW drawn, \A n \in DOMAIN drawn : drawn[n] \in Env!Variable
  PROVE  /\ DOMAIN Env!Posted(l, drawn) = DOMAIN drawn
         /\ \A n \in DOMAIN drawn : Env!Posted(l, drawn)[n].text = drawn[n].text /\ Env!Posted(l, drawn)[n] \in Env!Variable
<1>1. DOMAIN Env!Posted(l, drawn) = DOMAIN drawn
  BY DEF Env!Posted
<1>2. ASSUME NEW n \in DOMAIN drawn
      PROVE  Env!Posted(l, drawn)[n].text = drawn[n].text /\ Env!Posted(l, drawn)[n] \in Env!Variable
  <2>1. PICK scope \in Env!Scope : Env!Posted(l, drawn)[n] = [text |-> drawn[n].text, scope |-> scope]
    <3>1. Env!Posted(l, drawn)[n] = Env!Typed(l, drawn[n].text, drawn[n].scope)
      BY <1>2 DEF Env!Posted
    <3>2. drawn[n].scope \in Env!Scope /\ "runtime" \in Env!Scope
      BY <1>2 DEF Env!Variable, Env!Scope
    <3> QED BY <3>1, <3>2 DEF Env!Typed
  <2>2. drawn[n].text \in Typed \cup {<<Env!Secret(k)>> : k \in 1..MaxSaves}
    BY <1>2 DEF Env!Variable
  <2> QED BY <2>1, <2>2 DEF Env!Variable
<1> QED BY <1>1, <1>2

\* The save of one level replaces that level.
LEMMA SaveIs ==
  ASSUME LevelsTyped, NEW l \in Env!Level, NEW drawn, Env!Save(l, drawn)
  PROVE  /\ levels'[l] = Env!Posted(l, drawn) /\ levels' = [k \in Env!Level |-> levels'[k]]
         /\ \A k \in Env!Level \ {l} : levels'[k] = levels[k]
<1>1. levels' = [levels EXCEPT ![l] = Env!Posted(l, drawn)]
  <2>1. CASE l = "resource"
    BY <2>1 DEF Env!Save, Env!SetEnvVars
  <2>2. CASE l # "resource"
    BY <2>2 DEF Env!Save, Env!SetSharedEnvVars
  <2> QED BY <2>1, <2>2
<1> QED BY <1>1 DEF LevelsTyped

\* What is posted: the boxes as they were drawn, but for one name.
LEMMA SavedVariables ==
  ASSUME EnvInv, Env!SaveVariables
  PROVE  \E name \in Names : \E drawn :
           /\ Env!Save(form.level, drawn) /\ \A n \in DOMAIN drawn : drawn[n] \in Env!Variable
           /\ DOMAIN form.vars \ {name} \subseteq DOMAIN drawn /\ DOMAIN drawn \subseteq DOMAIN form.vars \cup {name}
           /\ \A n \in DOMAIN form.vars \ {name} : drawn[n] = form.vars[n]
           /\ IF form.level # "resource" THEN UNCHANGED <<edited, stale>>
              ELSE /\ edited' = edited \cup {name}
                   /\ stale' = stale \cup (DOMAIN levels["resource"] \ DOMAIN form.vars)
<1>1. PICK name \in Names :
        /\ \/ Env!Save(form.level, Env!Without(form.vars, name))
           \/ \E text \in Typed, scope \in Env!Scope :
                Env!Save(form.level, Env!With(form.vars, name, [text |-> text, scope |-> scope]))
        /\ IF form.level # "resource" THEN UNCHANGED <<edited, stale>>
           ELSE /\ edited' = edited \cup {name}
                /\ stale' = stale \cup (DOMAIN levels["resource"] \ DOMAIN form.vars)
  BY DEF Env!SaveVariables
<1>2. \A n \in DOMAIN form.vars : form.vars[n] \in Env!Variable
  BY DEF EnvInv, EnvTyped, FormTyped
<1>3. CASE Env!Save(form.level, Env!Without(form.vars, name))
  <2> DEFINE drawn == Env!Without(form.vars, name)
  <2>1. DOMAIN drawn = DOMAIN form.vars \ {name} /\ \A n \in DOMAIN drawn : drawn[n] = form.vars[n]
    BY DEF Env!Without
  <2> HIDE DEF drawn
  <2> QED BY <1>1, <1>2, <1>3, <2>1 DEF drawn
<1>4. ASSUME NEW text \in Typed, NEW scope \in Env!Scope,
             Env!Save(form.level, Env!With(form.vars, name, [text |-> text, scope |-> scope]))
      PROVE  \E drawn :
           /\ Env!Save(form.level, drawn) /\ \A n \in DOMAIN drawn : drawn[n] \in Env!Variable
           /\ DOMAIN form.vars \ {name} \subseteq DOMAIN drawn /\ DOMAIN drawn \subseteq DOMAIN form.vars \cup {name}
           /\ \A n \in DOMAIN form.vars \ {name} : drawn[n] = form.vars[n]
  <2> DEFINE drawn == Env!With(form.vars, name, [text |-> text, scope |-> scope])
  <2>1. /\ DOMAIN drawn = DOMAIN form.vars \cup {name} /\ drawn[name] = [text |-> text, scope |-> scope]
        /\ \A n \in DOMAIN form.vars \ {name} : drawn[n] = form.vars[n]
    BY DEF Env!With
  <2>2. [text |-> text, scope |-> scope] \in Env!Variable
    BY DEF Env!Variable
  <2> HIDE DEF drawn
  <2>3. Env!Save(form.level, drawn)
    BY <1>4 DEF drawn
  <2> QED BY <1>2, <2>1, <2>2, <2>3
<1> QED BY <1>1, <1>3, <1>4

LEMMA SaveVariablesEnv ==
  ASSUME MaxSaves \in Nat, EnvInv, Env!SaveVariables
  PROVE  EnvInv'
<1>1. /\ form.level # Env!None /\ saves' = saves + 1 /\ saves < MaxSaves
      /\ form' = [form EXCEPT !.vars = levels'[form.level]] /\ UNCHANGED <<kind, file, used>>
  BY DEF Env!SaveVariables
<1>0. PICK name \in Names : \E drawn :
        /\ Env!Save(form.level, drawn) /\ \A n \in DOMAIN drawn : drawn[n] \in Env!Variable
        /\ DOMAIN form.vars \ {name} \subseteq DOMAIN drawn /\ DOMAIN drawn \subseteq DOMAIN form.vars \cup {name}
        /\ \A n \in DOMAIN form.vars \ {name} : drawn[n] = form.vars[n]
        /\ IF form.level # "resource" THEN UNCHANGED <<edited, stale>>
           ELSE /\ edited' = edited \cup {name}
                /\ stale' = stale \cup (DOMAIN levels["resource"] \ DOMAIN form.vars)
  BY SavedVariables
<1>2. PICK drawn :
        /\ Env!Save(form.level, drawn) /\ \A n \in DOMAIN drawn : drawn[n] \in Env!Variable
        /\ DOMAIN form.vars \ {name} \subseteq DOMAIN drawn /\ DOMAIN drawn \subseteq DOMAIN form.vars \cup {name}
        /\ \A n \in DOMAIN form.vars \ {name} : drawn[n] = form.vars[n]
        /\ IF form.level # "resource" THEN UNCHANGED <<edited, stale>>
           ELSE /\ edited' = edited \cup {name}
                /\ stale' = stale \cup (DOMAIN levels["resource"] \ DOMAIN form.vars)
  BY <1>0
<1>3. PICK l : l = form.level /\ l \in Env!Level
  BY <1>1 DEF EnvInv, EnvTyped, FormTyped
<1>4. /\ levels'[l] = Env!Posted(l, drawn) /\ levels' = [k \in Env!Level |-> levels'[k]]
      /\ \A k \in Env!Level \ {l} : levels'[k] = levels[k]
  BY <1>2, <1>3, SaveIs DEF EnvInv, EnvTyped
<1>5. /\ DOMAIN Env!Posted(l, drawn) = DOMAIN drawn
      /\ \A n \in DOMAIN drawn : Env!Posted(l, drawn)[n].text = drawn[n].text /\ Env!Posted(l, drawn)[n] \in Env!Variable
  BY <1>2, PostedIs
<1>6. DOMAIN drawn \subseteq Names
  BY <1>2 DEF EnvInv, EnvTyped, FormTyped
<1>7. form'.level = l /\ form'.vars = levels'[l] /\ form' = [level |-> form'.level, vars |-> form'.vars]
  <2>1. form = [level |-> form.level, vars |-> form.vars]
    BY DEF EnvInv, EnvTyped, FormTyped
  <2> QED BY <1>1, <1>3, <2>1
<1>8. LevelsTyped'
  BY <1>4, <1>5, <1>6 DEF EnvInv, EnvTyped, LevelsTyped
<1>9. FormTyped'
  <2>1. DOMAIN form'.vars = DOMAIN drawn /\ \A n \in DOMAIN drawn : form'.vars[n] \in Env!Variable
    BY <1>4, <1>5, <1>7
  <2>2. form'.level \in Env!Level
    BY <1>3, <1>7
  <2>3. Env!Level' = Env!Level
    BY DEF Env!Level
  <2> QED BY <1>6, <1>7, <2>1, <2>2 DEF FormTyped
<1>10. FormFollows'
  BY <1>7 DEF FormFollows
<1>11. edited' \subseteq Names /\ stale' \subseteq Names /\ edited \subseteq edited' /\ stale \subseteq stale'
  BY <1>2, ThreeLevels DEF EnvInv, EnvTyped, LevelsTyped, LowLevels
<1>12. ASSUME NEW s \in Generated \ (edited' \cup stale'), s \in DOMAIN levels["resource"]
       PROVE  s \in DOMAIN levels'["resource"] /\ levels'["resource"][s].text = levels["resource"][s].text
  <2>1. CASE l # "resource"
    BY <1>4, <1>12, <2>1, ThreeLevels DEF LowLevels
  <2>2. CASE l = "resource"
    <3>1. s # name /\ s \in DOMAIN form.vars
      BY <1>2, <1>3, <1>12, <2>2
    <3>2. s \in DOMAIN drawn /\ drawn[s] = form.vars[s] /\ levels["resource"][s].text = form.vars[s].text
      BY <1>2, <1>3, <2>2, <3>1 DEF EnvInv, FormFollows
    <3>3. levels'["resource"] = Env!Posted(l, drawn)
      BY <1>4, <2>2
    <3> QED BY <1>5, <3>2, <3>3
  <2> QED BY <2>1, <2>2
<1>13. ASSUME NEW s \in Generated \ (edited' \cup stale'), s \in DOMAIN levels'["resource"]
       PROVE  s \in DOMAIN levels["resource"]
  <2>1. CASE l # "resource"
    BY <1>4, <1>13, <2>1, ThreeLevels DEF LowLevels
  <2>2. CASE l = "resource"
    <3>1. s \in DOMAIN drawn /\ s # name
      BY <1>2, <1>3, <1>4, <1>5, <1>13, <2>2
    <3> QED BY <1>2, <1>3, <2>2, <3>1 DEF EnvInv, FormFollows
  <2> QED BY <2>1, <2>2
<1>14. SecretsMade'
  <2>1. ASSUME NEW s \in (Generated \cap DOMAIN levels'["resource"]) \ (edited' \cup stale')
        PROVE  \E n : levels'["resource"][s].text = <<Env!Secret(n)>>
    <3>1. /\ s \in DOMAIN levels["resource"] /\ levels'["resource"][s].text = levels["resource"][s].text
          /\ s \notin edited \cup stale
      BY <1>11, <1>12, <1>13, <2>1
    <3> QED BY <3>1 DEF EnvInv, SecretsMade
  <2> QED BY <2>1 DEF SecretsMade
<1>15. Env!SecretsLast'
  <2>1. ASSUME NEW s \in Generated \ (edited' \cup stale'), used[s] # << >>
        PROVE  s \in DOMAIN levels'["resource"] /\ levels'["resource"][s].text = used[s]
    <3>1. s \in DOMAIN levels["resource"] /\ levels["resource"][s].text = used[s]
      BY <1>11, <2>1 DEF EnvInv, Env!SecretsLast
    <3> QED BY <1>12, <3>1
  <2> QED BY <1>1, <2>1 DEF Env!SecretsLast
<1>16. saves' \in 0..MaxSaves
  BY <1>1 DEF EnvInv, EnvTyped
<1> QED BY <1>1, <1>8, <1>9, <1>10, <1>11, <1>14, <1>15, <1>16 DEF EnvInv, EnvTyped

LEMMA SaveComposeFileEnv ==
  ASSUME MaxSaves \in Nat, EnvInv, Env!SaveComposeFile
  PROVE  EnvInv'
<1>1. PICK names \in SUBSET Names : file' = names /\ Env!GeneratePlaceholders(names)
  BY DEF Env!SaveComposeFile
<1>2. saves < MaxSaves /\ saves' = saves + 1 /\ UNCHANGED <<kind, form, used, edited, stale>>
  BY DEF Env!SaveComposeFile
<1> DEFINE new == [s \in Env!PlaceholderVars(names) |-> [text |-> <<Env!Secret(saves + 1)>>, scope |-> "runtime"]]
           old == levels["resource"]
<1>3. levels' = [levels EXCEPT !["resource"] =
                   [n \in DOMAIN old \cup DOMAIN new |-> IF n \in DOMAIN old THEN old[n] ELSE new[n]]]
  BY <1>1, ThreeLevels DEF Env!GeneratePlaceholders, Env!AddResourceEnvVars, EnvInv, EnvTyped, LevelsTyped, LowLevels
<1>4. /\ DOMAIN new \subseteq Names
      /\ \A n \in DOMAIN new : new[n] = [text |-> <<Env!Secret(saves + 1)>>, scope |-> "runtime"]
  BY DEF Env!PlaceholderVars
<1>5. \A n \in DOMAIN new : new[n] \in Env!Variable /\ new[n].text = <<Env!Secret(saves + 1)>>
  <2>1. saves + 1 \in 1..MaxSaves
    BY <1>2 DEF EnvInv, EnvTyped
  <2>2. <<Env!Secret(saves + 1)>> \in {<<Env!Secret(n)>> : n \in 1..MaxSaves}
    BY <2>1
  <2> QED BY <1>4, <2>2 DEF Env!Variable, Env!Scope
<1> HIDE DEF new
<1>6. /\ levels' = [k \in Env!Level |-> levels'[k]] /\ \A k \in Env!Level \ {"resource"} : levels'[k] = levels[k]
      /\ DOMAIN levels'["resource"] = DOMAIN old \cup DOMAIN new
      /\ \A n \in DOMAIN old : levels'["resource"][n] = old[n]
      /\ \A n \in DOMAIN new \ DOMAIN old : levels'["resource"][n] = new[n]
  BY <1>3, ThreeLevels DEF EnvInv, EnvTyped, LevelsTyped, LowLevels
<1>7. LevelsTyped'
  BY <1>4, <1>5, <1>6, ThreeLevels DEF EnvInv, EnvTyped, LevelsTyped, LowLevels
<1>8. FormTyped' /\ FormFollows'
  BY <1>2, <1>6 DEF EnvInv, EnvTyped, FormTyped, FormFollows
<1>9. SecretsMade'
  <2>1. ASSUME NEW s \in (Generated \cap DOMAIN levels'["resource"]) \ (edited \cup stale)
        PROVE  \E n : levels'["resource"][s].text = <<Env!Secret(n)>>
    <3>1. CASE s \in DOMAIN old
      BY <1>6, <2>1, <3>1 DEF EnvInv, SecretsMade
    <3>2. CASE s \notin DOMAIN old
      BY <1>5, <1>6, <2>1, <3>2
    <3> QED BY <3>1, <3>2
  <2> QED BY <1>2, <2>1 DEF SecretsMade
<1>10. Env!SecretsLast'
  BY <1>2, <1>6 DEF EnvInv, Env!SecretsLast
<1>11. saves' \in 0..MaxSaves /\ file' \subseteq Names
  BY <1>1, <1>2 DEF EnvInv, EnvTyped
<1> QED BY <1>2, <1>7, <1>8, <1>9, <1>10, <1>11 DEF EnvInv, EnvTyped

\* A text that is one piece is that piece.
LEMMA OnePiece ==
  ASSUME NEW piece
  PROVE  Env!FlattenSeq([i \in DOMAIN <<piece>> |-> << <<piece>>[i] >>]) = <<piece>>
<1>1. [i \in DOMAIN <<piece>> |-> << <<piece>>[i] >>] = << <<piece>> >>
  OBVIOUS
<1>2. Env!FlattenSeq(<< <<piece>> >>) = <<piece>>
  BY DEF Env!FlattenSeq
<1> QED BY <1>1, <1>2

\* A secret is delivered as it was made.
LEMMA SecretDelivered ==
  ASSUME NEW s \in DOMAIN levels["resource"], NEW n, levels["resource"][s].text = <<Env!Secret(n)>>
  PROVE  s \in Env!Defined /\ Env!Declared(s) = <<Env!Secret(n)>>
<1>1. s \in Env!Defined /\ Env!Winning(s) = levels["resource"][s]
  BY WinnerIs, ThreeLevels DEF Env!Defined, Env!Winning, LowLevels
<1> DEFINE Part(piece) == IF piece.kind = "ref" THEN Env!Winning(piece.of).text
                          ELSE IF piece.kind = "escape" THEN <<Env!Text("$")>> ELSE <<piece>>
           text == <<Env!Secret(n)>>
<1>2. Env!Declared(s) = Env!FlattenSeq([i \in DOMAIN text |-> Part(text[i])])
  BY <1>1 DEF Env!Declared
<1>3. \A i \in DOMAIN text : Part(text[i]) = << text[i] >>
  BY DEF Env!Secret
<1>4. [i \in DOMAIN text |-> Part(text[i])] = [i \in DOMAIN text |-> << text[i] >>]
  BY <1>3
<1> QED BY <1>1, <1>2, <1>4, OnePiece

LEMMA DeployEnv ==
  ASSUME EnvInv, Env!Deploy
  PROVE  EnvInv'
<1> DEFINE interp == Env!InterpolationEnv(Env!ResolveEnvVars.runtime)
           Made(s) == s \in DOMAIN interp.env /\ s \in DOMAIN levels["resource"] /\ s \notin edited \cup stale
<1>1. /\ Env!ResolveEnvVars.ok /\ UNCHANGED <<kind, levels, form, file, edited, stale, saves>>
      /\ used' = [s \in Generated |-> IF used[s] = << >> /\ Made(s) THEN interp.env[s] ELSE used[s]]
  BY Zenon DEF Env!Deploy
<1>2. LevelsTyped' /\ FormTyped' /\ FormFollows' /\ SecretsMade'
  BY <1>1 DEF EnvInv, EnvTyped, LevelsTyped, FormTyped, FormFollows, SecretsMade
<1>3. ASSUME NEW s \in Generated, Made(s)
      PROVE  interp.env[s] = levels["resource"][s].text
  <2>1. PICK n : levels["resource"][s].text = <<Env!Secret(n)>>
    BY <1>3 DEF EnvInv, SecretsMade
  <2>2. s \in Env!Defined /\ Env!Declared(s) = <<Env!Secret(n)>>
    BY <1>3, <2>1, SecretDelivered
  <2>3. s \in DOMAIN Env!ResolveEnvVars.runtime /\ interp.env[s] = Env!ResolveEnvVars.runtime[s]
    BY <1>3 DEF Env!InterpolationEnv
  <2>4. Env!ResolveEnvVars.runtime[s] = Env!Declared(s)
    BY <1>1, <2>3, DeliversAsDeclared DEF EnvInv, EnvTyped, Env!DeliveredAsDeclared
  <2> QED BY <2>1, <2>2, <2>3, <2>4
<1> HIDE DEF Made, interp
<1>4. Env!SecretsLast'
  <2>1. ASSUME NEW s \in Generated \ (edited \cup stale), used'[s] # << >>
        PROVE  s \in DOMAIN levels["resource"] /\ levels["resource"][s].text = used'[s]
    <3>1. CASE used[s] = << >> /\ Made(s)
      <4>1. used'[s] = interp.env[s]
        BY <1>1, <3>1
      <4> QED BY <1>3, <3>1, <4>1 DEF Made
    <3>2. CASE ~(used[s] = << >> /\ Made(s))
      <4>1. used'[s] = used[s]
        BY <1>1, <3>2
      <4> QED BY <2>1, <4>1 DEF EnvInv, Env!SecretsLast
    <3> QED BY <3>1, <3>2
  <2> QED BY <1>1, <2>1 DEF Env!SecretsLast
<1>5. DOMAIN used' = Generated
  BY <1>1
<1> QED BY <1>1, <1>2, <1>4, <1>5 DEF EnvInv, EnvTyped

LEMMA EnvStep ==
  ASSUME MaxSaves \in Nat, EnvInv, Env!Next
  PROVE  EnvInv'
  BY DrawTabEnv, SaveVariablesEnv, SaveComposeFileEnv, DeployEnv DEF Env!Next

LEMMA EnvStutters ==
  ASSUME EnvInv, UNCHANGED Env!vars
  PROVE  EnvInv'
<1>1. LevelsTyped' /\ FormTyped'
  BY DEF Env!vars, EnvInv, EnvTyped, LevelsTyped, FormTyped
<1>2. FormFollows' /\ SecretsMade' /\ Env!SecretsLast'
  BY DEF Env!vars, EnvInv, FormFollows, SecretsMade, Env!SecretsLast
<1> QED BY <1>1, <1>2 DEF Env!vars, EnvInv, EnvTyped

LEMMA EnvMeans ==
  ASSUME EnvInv
  PROVE  Env!VariablesTypeOK /\ Env!DeliveredAsDeclared /\ Env!SecretsLast
  BY DeliversAsDeclared DEF EnvInv, EnvTyped, LevelsTyped, FormTyped, Env!VariablesTypeOK

VariablesInv == part = "variables" => EnvInv

LEMMA VariablesBegin ==
  ASSUME Init
  PROVE  VariablesInv
<1>1. part = "variables" => Env!Init
  BY DEF Init
<1> QED BY <1>1, PlatformAssumption, InitEnv DEF VariablesInv

LEMMA VariablesKeep ==
  ASSUME VariablesInv, [Next]_vars
  PROVE  VariablesInv'
<1>1. part' = "variables" => part = "variables" /\ (Env!Next \/ UNCHANGED Env!vars)
  <2>1. CASE UNCHANGED vars
    BY <2>1 DEF vars, envVars, Env!vars
  <2>2. CASE Next
    BY <2>2 DEF Next, Only
  <2> QED BY <2>1, <2>2
<1> QED BY <1>1, PlatformAssumption, EnvStep, EnvStutters DEF VariablesInv

\* For any names, values, scopes and number of saves: a deploy delivers what the
\* highest level that defines a name says, with references put in once, under that
\* level's scope (db/queries.ts, env/interpolate.ts); and the secret made for a
\* stack stays the one its first deploy was given, until the user edits it or saves a
\* tab that was drawn before it was made (compose/placeholders.ts, routes/compose-form.ts).
THEOREM VariablesAlwaysLast == Spec => [](VariablesLast)
<1>1. Init => VariablesInv
  BY VariablesBegin
<1>2. VariablesInv /\ [Next]_vars => VariablesInv'
  BY VariablesKeep
<1>3. VariablesInv => VariablesLast
  BY EnvMeans DEF VariablesInv, VariablesLast
<1> QED BY <1>1, <1>2, <1>3, PTL DEF Spec

-----------------------------------------------------------------------------
(* The layer caches and their sweep (BuildCache).  What a set of caches       *)
(* measures is a fold over the set: that more of them measure no less is      *)
(* shown by induction on how many there are.                                  *)

\* One of a set, and the sums of all subsets, each by that one.
One(T) == CHOOSE x \in T : TRUE
Adds(g, c, T) == g[T] = IF T = {} THEN 0 ELSE c[One(T)] + g[T \ {One(T)}]

Sums(g, c, S) == \A T \in SUBSET S : Adds(g, c, T)

LEMMA OneIs == ASSUME NEW T, T # {} PROVE One(T) \in T
  BY DEF One

LEMMA SumsExist ==
  ASSUME NEW S, IsFiniteSet(S), NEW c \in [S -> Nat]
  PROVE  \E g \in [SUBSET S -> Nat] : \A T \in SUBSET S : Adds(g, c, T)
<1> DEFINE Small(n) == {T \in SUBSET S : Cardinality(T) <= n}
           X == {n \in Nat : \E g \in [Small(n) -> Nat] : \A T \in Small(n) : Adds(g, c, T)}
<1>1. \A T \in SUBSET S : IsFiniteSet(T) /\ Cardinality(T) \in Nat
  BY FS_Subset, FS_CardinalityType
<1>2. 0 \in X
  <2>1. Small(0) = {{}}
    BY <1>1, FS_EmptySet
  <2> DEFINE g == [T \in Small(0) |-> 0]
  <2>2. g \in [Small(0) -> Nat]
    OBVIOUS
  <2>3. \A T \in Small(0) : Adds(g, c, T)
    BY <2>1 DEF Adds
  <2> HIDE DEF g, Small
  <2> QED BY <2>2, <2>3
<1>3. ASSUME NEW n \in Nat, n \in X
      PROVE  n + 1 \in X
  <2>1. PICK g \in [Small(n) -> Nat] : \A T \in Small(n) : Adds(g, c, T)
    BY <1>3
  <2> DEFINE h == [T \in Small(n + 1) |-> IF T = {} THEN 0 ELSE c[One(T)] + g[T \ {One(T)}]]
  <2>2. ASSUME NEW T \in Small(n + 1), T # {}
        PROVE  T \ {One(T)} \in Small(n) /\ One(T) \in S
    <3>1. One(T) \in T /\ IsFiniteSet(T) /\ Cardinality(T) \in Nat /\ Cardinality(T) <= n + 1
      BY <1>1, <2>2, OneIs
    <3>2. Cardinality(T \ {One(T)}) = Cardinality(T) - 1
      BY <3>1, FS_RemoveElement
    <3> QED BY <3>1, <3>2
  <2>3. \A T \in Small(n) : T \in Small(n + 1)
    BY <1>1
  <2>4. h \in [Small(n + 1) -> Nat]
    <3>1. ASSUME NEW T \in Small(n + 1)
          PROVE  h[T] \in Nat
      <4>1. CASE T = {}
        BY <4>1
      <4>2. CASE T # {}
        <5>1. c[One(T)] \in Nat /\ g[T \ {One(T)}] \in Nat
          BY <2>2, <4>2
        <5> QED BY <4>2, <5>1
      <4> QED BY <4>1, <4>2
    <3> QED BY <3>1
  <2>5. \A T \in Small(n) : h[T] = g[T]
    <3>1. \A T \in Small(n) : h[T] = IF T = {} THEN 0 ELSE c[One(T)] + g[T \ {One(T)}]
      BY <2>3
    <3> QED BY <2>1, <3>1 DEF Adds
  <2>6. \A T \in Small(n + 1) : Adds(h, c, T)
    <3>1. ASSUME NEW T \in Small(n + 1)
          PROVE  Adds(h, c, T)
      <4>1. h[T] = IF T = {} THEN 0 ELSE c[One(T)] + g[T \ {One(T)}]
        OBVIOUS
      <4>2. CASE T # {}
        <5>1. h[T \ {One(T)}] = g[T \ {One(T)}]
          BY <2>2, <2>5, <4>2
        <5> HIDE DEF h
        <5> QED BY <4>1, <5>1 DEF Adds
      <4>3. CASE T = {}
        BY <4>1, <4>3 DEF Adds
      <4> QED BY <4>2, <4>3
    <3> QED BY <3>1
  <2> HIDE DEF h, Small
  <2> QED BY <2>4, <2>6
<1>4. Cardinality(S) \in X
  <2>1. Nat \subseteq X
    <3> HIDE DEF X
    <3> QED BY <1>2, <1>3, Counting
  <2> QED BY <2>1, FS_CardinalityType
<1>5. Small(Cardinality(S)) = SUBSET S
  BY FS_Subset
<1> QED BY <1>4, <1>5

\* Two sums of the same agree.
LEMMA SumsAgree ==
  ASSUME NEW S, IsFiniteSet(S), NEW c, NEW g, NEW h,
         Sums(g, c, S), Sums(h, c, S)
  PROVE  \A T \in SUBSET S : g[T] = h[T]
<1>0. \A T \in SUBSET S : Adds(g, c, T) /\ Adds(h, c, T)
  BY DEF Sums
<1> DEFINE X == {n \in Nat : \A T \in SUBSET S : Cardinality(T) <= n => g[T] = h[T]}
<1>1. \A T \in SUBSET S : IsFiniteSet(T) /\ Cardinality(T) \in Nat
  BY FS_Subset, FS_CardinalityType
<1>2. g[{}] = h[{}]
  BY <1>0 DEF Adds
<1>3. 0 \in X
  BY <1>1, <1>2, FS_EmptySet
<1>4. ASSUME NEW n \in Nat, n \in X
      PROVE  n + 1 \in X
  <2>1. ASSUME NEW T \in SUBSET S, Cardinality(T) <= n + 1, T # {}
        PROVE  g[T] = h[T]
    <3>1. One(T) \in T
      BY <2>1, OneIs
    <3>2. Cardinality(T \ {One(T)}) = Cardinality(T) - 1 /\ T \ {One(T)} \in SUBSET S
      BY <1>1, <3>1, FS_RemoveElement
    <3>3. g[T \ {One(T)}] = h[T \ {One(T)}]
      BY <1>1, <1>4, <2>1, <3>2
    <3> QED BY <1>0, <2>1, <3>3 DEF Adds
  <2> QED BY <1>2, <2>1
<1>5. Nat \subseteq X
  <2> HIDE DEF X
  <2> QED BY <1>3, <1>4, Counting
<1> QED BY <1>1, <1>5

\* Whichever is taken first.
LEMMA SumAdds ==
  ASSUME NEW S, IsFiniteSet(S), NEW c \in [S -> Nat], NEW g \in [SUBSET S -> Nat],
         \A T \in SUBSET S : Adds(g, c, T)
  PROVE  \A T \in SUBSET S : \A x \in T : g[T] = c[x] + g[T \ {x}]
<1> DEFINE X == {n \in Nat : \A T \in SUBSET S : \A x \in T : Cardinality(T) <= n => g[T] = c[x] + g[T \ {x}]}
<1>1. \A T \in SUBSET S : IsFiniteSet(T) /\ Cardinality(T) \in Nat
  BY FS_Subset, FS_CardinalityType
<1>2. 0 \in X
  BY <1>1, FS_EmptySet
<1>3. ASSUME NEW n \in Nat, n \in X
      PROVE  n + 1 \in X
  <2>1. ASSUME NEW T \in SUBSET S, NEW x \in T, Cardinality(T) <= n + 1
        PROVE  g[T] = c[x] + g[T \ {x}]
    <3> DEFINE y == One(T)
    <3>1. y \in T /\ g[T] = c[y] + g[T \ {y}]
      BY OneIs DEF Adds
    <3> HIDE DEF y
    <3>2. CASE y = x
      BY <3>1, <3>2
    <3>3. CASE y # x
      <4>1. T \ {y} \in SUBSET S /\ T \ {x} \in SUBSET S /\ x \in T \ {y} /\ y \in T \ {x}
        BY <3>1, <3>3
      <4>2. Cardinality(T \ {y}) = Cardinality(T) - 1 /\ Cardinality(T \ {x}) = Cardinality(T) - 1
        BY <1>1, <3>1, FS_RemoveElement
      <4>3. Cardinality(T \ {y}) <= n /\ Cardinality(T \ {x}) <= n
        BY <1>1, <2>1, <4>2
      <4>4. g[T \ {y}] = c[x] + g[(T \ {y}) \ {x}] /\ g[T \ {x}] = c[y] + g[(T \ {x}) \ {y}]
        BY <1>3, <4>1, <4>3
      <4>5. (T \ {y}) \ {x} = (T \ {x}) \ {y} /\ (T \ {y}) \ {x} \in SUBSET S
        OBVIOUS
      <4>6. PICK r \in Nat : r = g[(T \ {y}) \ {x}]
        BY <4>5
      <4>7. PICK a \in Nat, b \in Nat : a = c[x] /\ b = c[y]
        BY <3>1
      <4>8. g[T \ {y}] = a + r /\ g[T \ {x}] = b + r
        BY <4>4, <4>5, <4>6, <4>7
      <4>9. g[T] = b + (a + r)
        BY <3>1, <4>7, <4>8
      <4>10. c[x] + g[T \ {x}] = a + (b + r)
        BY <4>7, <4>8
      <4>11. b + (a + r) = a + (b + r)
        OBVIOUS
      <4> QED BY <4>9, <4>10, <4>11
    <3> QED BY <3>2, <3>3
  <2> QED BY <2>1
<1>4. Nat \subseteq X
  <2> HIDE DEF X
  <2> QED BY <1>2, <1>3, Counting
<1>5. ASSUME NEW T \in SUBSET S, NEW x \in T
      PROVE  g[T] = c[x] + g[T \ {x}]
  <2>1. Cardinality(T) \in Nat /\ Cardinality(T) <= Cardinality(T)
    BY <1>1
  <2>2. Cardinality(T) \in X
    <3> HIDE DEF X
    <3> QED BY <1>4, <2>1
  <2> QED BY <2>1, <2>2
<1> QED BY <1>5

\* More are no fewer bytes.
LEMMA SumGrows ==
  ASSUME NEW S, IsFiniteSet(S), NEW c \in [S -> Nat], NEW g \in [SUBSET S -> Nat],
         \A T \in SUBSET S : Adds(g, c, T)
  PROVE  \A U, T \in SUBSET S : U \subseteq T => g[U] <= g[T]
<1> DEFINE X == {n \in Nat : \A U, T \in SUBSET S : U \subseteq T /\ Cardinality(T) <= n => g[U] <= g[T]}
<1>1. \A T \in SUBSET S : IsFiniteSet(T) /\ Cardinality(T) \in Nat
  BY FS_Subset, FS_CardinalityType
<1>2. 0 \in X
  <2>1. ASSUME NEW U \in SUBSET S, NEW T \in SUBSET S, U \subseteq T, Cardinality(T) <= 0
        PROVE  g[U] <= g[T]
    <3>1. T = {} /\ U = {}
      BY <1>1, <2>1, FS_EmptySet
    <3> QED BY <3>1
  <2> QED BY <2>1
<1>3. ASSUME NEW n \in Nat, n \in X
      PROVE  n + 1 \in X
  <2>1. ASSUME NEW U \in SUBSET S, NEW T \in SUBSET S, U \subseteq T, Cardinality(T) <= n + 1
        PROVE  g[U] <= g[T]
    <3>1. CASE U = T
      BY <3>1
    <3>2. CASE U # T
      <4>1. PICK x \in T : x \notin U
        BY <2>1, <3>2
      <4>2. Cardinality(T \ {x}) <= n /\ T \ {x} \in SUBSET S /\ U \subseteq T \ {x}
        <5>1. Cardinality(T \ {x}) = Cardinality(T) - 1
          BY <1>1, FS_RemoveElement
        <5> QED BY <1>1, <2>1, <4>1, <5>1
      <4>3. g[U] <= g[T \ {x}]
        BY <1>3, <4>2
      <4>4. g[T] = c[x] + g[T \ {x}]
        BY SumAdds
      <4>5. c[x] \in Nat /\ g[T \ {x}] \in Nat /\ g[U] \in Nat
        BY <4>2
      <4> QED BY <4>3, <4>4, <4>5
    <3> QED BY <3>1, <3>2
  <2> QED BY <2>1
<1>4. Nat \subseteq X
  <2> HIDE DEF X
  <2> QED BY <1>2, <1>3, Counting
<1> QED BY <1>1, <1>4

-----------------------------------------------------------------------------

CachesTyped == caches \in [Keys -> [size : Sizes, unreadable : BOOLEAN]] /\ renewed \in [Keys -> Nat]

LEMMA ChargedTyped ==
  ASSUME Sizes \subseteq Nat, CachesTyped
  PROVE  \A key \in Keys : Cache!Charged(key) \in Nat
  BY DEF CachesTyped, Cache!Charged, Cache!TargetBytes

\* What is charged for caches, by the sums above.
LEMMA TotalIs ==
  ASSUME IsFiniteSet(Keys), NEW c, \A key \in Keys : c[key] = Cache!Charged(key),
         NEW g, \A T \in SUBSET Keys : Adds(g, c, T), NEW K \in SUBSET Keys
  PROVE  Cache!TotalBytes(K) = g[K]
<1> DEFINE Weighs(it) == it = [s \in SUBSET K |-> IF s = {} THEN 0
                                ELSE Cache!Charged(CHOOSE x \in s : TRUE) + it[s \ {CHOOSE x \in s : TRUE}]]
           iter == CHOOSE it : Weighs(it)
           h == [s \in SUBSET K |-> g[s]]
<1>1. Cache!TotalBytes(K) = iter[K]
  BY DEF Cache!TotalBytes, Cache!MapThenSumSet, Cache!MapThenFoldSet
<1>2. Weighs(h)
  <2>1. ASSUME NEW s \in SUBSET K
        PROVE  g[s] = IF s = {} THEN 0 ELSE Cache!Charged(CHOOSE x \in s : TRUE) + h[s \ {CHOOSE x \in s : TRUE}]
    <3>1. CASE s = {}
      BY <3>1 DEF Adds
    <3>2. CASE s # {}
      <4>1. One(s) \in Keys /\ s \ {One(s)} \in SUBSET K
        BY <3>2, OneIs
      <4>2. g[s] = c[One(s)] + g[s \ {One(s)}]
        BY <3>2 DEF Adds
      <4> QED BY <3>2, <4>1, <4>2 DEF One
    <3> QED BY <3>1, <3>2
  <2> QED BY <2>1
<1>3. Weighs(iter)
  BY <1>2
<1>4. \A T \in SUBSET K : Adds(iter, c, T)
  <2> HIDE DEF iter
  <2>1. ASSUME NEW T \in SUBSET K
        PROVE  Adds(iter, c, T)
    <3>1. iter[T] = IF T = {} THEN 0
                    ELSE Cache!Charged(CHOOSE x \in T : TRUE) + iter[T \ {CHOOSE x \in T : TRUE}]
      BY <1>3
    <3>2. CASE T # {}
      <4>1. One(T) \in Keys
        BY <3>2, OneIs
      <4> QED BY <3>1, <3>2, <4>1 DEF Adds, One
    <3>3. CASE T = {}
      BY <3>1, <3>3 DEF Adds
    <3> QED BY <3>2, <3>3
  <2> QED BY <2>1
<1>5. IsFiniteSet(K)
  BY FS_Subset
<1>6. \A T \in SUBSET K : iter[T] = g[T]
  <2> HIDE DEF iter
  <2>1. PICK f : f = iter
    OBVIOUS
  <2>2. Sums(f, c, K) /\ Sums(g, c, K)
    BY <1>4, <2>1 DEF Sums
  <2>3. \A T \in SUBSET K : f[T] = g[T]
    <3> HIDE DEF Weighs, h
    <3> QED BY <1>5, <2>2, SumsAgree
  <2> QED BY <2>1, <2>3
<1> QED BY <1>1, <1>6

LEMMA ChargesGrow ==
  ASSUME IsFiniteSet(Keys), Sizes \subseteq Nat, CachesTyped
  PROVE  /\ \A K \in SUBSET Keys : Cache!TotalBytes(K) \in Nat
         /\ \A J, K \in SUBSET Keys : J \subseteq K => Cache!TotalBytes(J) <= Cache!TotalBytes(K)
<1> DEFINE c == [key \in Keys |-> Cache!Charged(key)]
<1>1. c \in [Keys -> Nat]
  BY ChargedTyped
<1> HIDE DEF c
<1>2. PICK g \in [SUBSET Keys -> Nat] : \A T \in SUBSET Keys : Adds(g, c, T)
  BY <1>1, SumsExist
<1>3. \A K \in SUBSET Keys : Cache!TotalBytes(K) = g[K]
  <2> USE DEF c
  <2>1. \A key \in Keys : c[key] = Cache!Charged(key)
    OBVIOUS
  <2> HIDE DEF c
  <2> QED BY <1>2, <2>1, TotalIs
<1>4. \A J, K \in SUBSET Keys : J \subseteq K => g[J] <= g[K]
  BY <1>1, <1>2, SumGrows
<1> QED BY <1>2, <1>3, <1>4

-----------------------------------------------------------------------------
\* Over the cap, what is kept fits under the low watermark, or is one.
LEMMA KeptFits ==
  ASSUME IsFiniteSet(Keys), Sizes \subseteq Nat, CachesTyped, Cache!TotalBytes(Cache!Sized) > Cache!CapBytes,
         NEW S, S \subseteq Cache!Kept
  PROVE  Cache!TotalBytes(S) <= Cache!TargetBytes \/ \A j, k \in S : j = k
<1>1. /\ Cache!Sized \in SUBSET Keys /\ \A key \in Cache!Sized : renewed[key] \in Nat
      /\ Cache!Kept = {key \in Cache!Sized : Cache!TotalBytes(Cache!UpTo(key)) <= Cache!TargetBytes \/ Cache!UpTo(key) = {key}}
  <2>1. Cache!TotalBytes(Cache!Sized) \in Nat
    BY ChargesGrow DEF Cache!Sized, Cache!Present
  <2>2. ~(Cache!TotalBytes(Cache!Sized) <= Cache!CapBytes)
    BY <2>1 DEF Cache!CapBytes
  <2>3. Cache!Sized \in SUBSET Keys /\ \A key \in Cache!Sized : renewed[key] \in Nat
    BY DEF Cache!Sized, Cache!Present, CachesTyped
  <2> QED BY <2>2, <2>3 DEF Cache!Kept
<1> DEFINE F == {key \in S : Cache!TotalBytes(Cache!UpTo(key)) <= Cache!TargetBytes}
<1>2. CASE F = {}
  <2>1. ASSUME NEW j \in S, NEW k \in S, j # k
        PROVE  FALSE
    <3>1. Cache!UpTo(j) = {j} /\ Cache!UpTo(k) = {k} /\ j \in Cache!Sized /\ k \in Cache!Sized
      BY <1>1, <1>2
    <3>2. ~(renewed[k] >= renewed[j]) /\ ~(renewed[j] >= renewed[k])
      BY <2>1, <3>1 DEF Cache!UpTo
    <3> QED BY <1>1, <3>1, <3>2
  <2> QED BY <2>1
<1>3. CASE F # {}
  <2> DEFINE T == {renewed[key] : key \in F}
             R == {p \in Nat \X Nat : p[1] < p[2]}
  <2>1. T \subseteq Nat /\ T # {}
    BY <1>1, <1>3
  <2>2. IsWellFoundedOn(R, Nat)
    <3>1. OpToRel(<, Nat) = R
      BY DEF OpToRel
    <3> QED BY <3>1, NatLessThanWellFounded
  <2>3. \E x \in T : \A y \in T : <<y, x>> \notin R
    <3> HIDE DEF T, R
    <3> QED BY <2>1, <2>2, WFMin
  <2>4. PICK o \in F : \A key \in F : ~(renewed[key] < renewed[o])
    <3>1. PICK x \in T : \A y \in T : <<y, x>> \notin R
      BY <2>3
    <3>2. PICK o \in F : x = renewed[o]
      OBVIOUS
    <3>3. \A key \in F : renewed[key] \in T /\ renewed[key] \in Nat
      BY <1>1
    <3> QED BY <3>1, <3>2, <3>3
  <2>5. S \subseteq Cache!UpTo(o)
    <3>1. ASSUME NEW key \in S
          PROVE  renewed[key] >= renewed[o]
      <4>1. key \in Cache!Sized /\ o \in Cache!Sized /\ renewed[key] \in Nat /\ renewed[o] \in Nat
        BY <1>1
      <4>2. CASE key \in F
        BY <2>4, <4>1, <4>2
      <4>3. CASE key \notin F
        <5>1. Cache!UpTo(key) = {key}
          BY <1>1, <4>3
        <5>2. CASE renewed[o] >= renewed[key]
          <6>1. o \in Cache!UpTo(key)
            BY <4>1, <5>2 DEF Cache!UpTo
          <6> QED BY <4>3, <5>1, <6>1
        <5> QED BY <4>1, <5>2
      <4> QED BY <4>2, <4>3
    <3>2. S \subseteq Cache!Sized
      BY <1>1
    <3> QED BY <3>1, <3>2 DEF Cache!UpTo
  <2>6. Cache!UpTo(o) \in SUBSET Keys /\ S \in SUBSET Keys
    BY <1>1, <2>5 DEF Cache!UpTo
  <2>7. Cache!TotalBytes(S) <= Cache!TotalBytes(Cache!UpTo(o)) /\ Cache!TotalBytes(S) \in Nat /\ Cache!TotalBytes(Cache!UpTo(o)) \in Nat
    BY <2>5, <2>6, ChargesGrow
  <2>8. Cache!TotalBytes(Cache!UpTo(o)) <= Cache!TargetBytes
    BY <2>4
  <2> QED BY <2>7, <2>8 DEF Cache!TargetBytes
<1> QED BY <1>2, <1>3

\* None older is kept than one that goes.
LEMMA NoneOlderKept ==
  ASSUME IsFiniteSet(Keys), Sizes \subseteq Nat, CachesTyped,
         NEW key \in Cache!Sized \ Cache!Kept, NEW older \in Cache!Sized, renewed[older] < renewed[key]
  PROVE  older \notin Cache!Kept
<1>1. Cache!Sized \in SUBSET Keys /\ \A k \in Cache!Sized : renewed[k] \in Nat
  BY DEF Cache!Sized, Cache!Present, CachesTyped
<1>2. Cache!TotalBytes(Cache!Sized) > Cache!CapBytes
  <2>1. Cache!TotalBytes(Cache!Sized) \in Nat
    BY <1>1, ChargesGrow
  <2> QED BY <2>1 DEF Cache!Kept, Cache!CapBytes
<1>3. Cache!UpTo(key) \subseteq Cache!UpTo(older) /\ Cache!UpTo(older) \in SUBSET Keys
  BY <1>1 DEF Cache!UpTo
<1>4. Cache!TotalBytes(Cache!UpTo(key)) <= Cache!TotalBytes(Cache!UpTo(older))
      /\ Cache!TotalBytes(Cache!UpTo(key)) \in Nat /\ Cache!TotalBytes(Cache!UpTo(older)) \in Nat
  BY <1>3, ChargesGrow
<1>5. ~(Cache!TotalBytes(Cache!UpTo(key)) <= Cache!TargetBytes)
  <2>1. Cache!TotalBytes(Cache!Sized) \in Nat
    BY <1>1, ChargesGrow
  <2> QED BY <1>2, <2>1 DEF Cache!Kept, Cache!CapBytes
<1>6. key \in Cache!UpTo(older) /\ key # older
  BY <1>1 DEF Cache!UpTo
<1>7. ~(Cache!TotalBytes(Cache!UpTo(older)) <= Cache!TargetBytes) /\ Cache!UpTo(older) # {older}
  BY <1>4, <1>5, <1>6 DEF Cache!TargetBytes
<1> QED
  <2>1. Cache!TotalBytes(Cache!Sized) \in Nat
    BY <1>1, ChargesGrow
  <2> QED BY <1>2, <1>7, <2>1 DEF Cache!Kept, Cache!CapBytes

LEMMA SweepIsRight ==
  ASSUME IsFiniteSet(Keys), Sizes \subseteq Nat, CachesTyped
  PROVE  Cache!SweepStep
<1> SUFFICES ASSUME Cache!SweepBuildCache PROVE
       /\ Cache!Evicted \cap live # {} => Cache!TotalBytes(Cache!Sized) > Cache!CapBytes
       /\ \A key \in Cache!Sized : Cache!UpTo(key) = {key} => key \notin Cache!Evicted
       /\ \A key \in Cache!Sized \cap Cache!Evicted, older \in Cache!Sized :
            renewed[older] < renewed[key] => older \in Cache!Evicted \cup stuck
       /\ Cache!TotalBytes(Cache!Stays) <= Cache!CapBytes \/ \A j, k \in Cache!Stays : j = k
       /\ Cache!Orphans \ stuck \subseteq Cache!Evicted
  BY DEF Cache!SweepStep
<1>1. Cache!TotalBytes(Cache!Sized) \in Nat /\ Cache!Sized \in SUBSET Keys
  BY ChargesGrow DEF Cache!Sized, Cache!Present
<1>2. Cache!Evicted = (Cache!Orphans \cup (Cache!Sized \ Cache!Kept)) \ stuck
  <2>1. Cache!Orphans \subseteq Cache!Present /\ Cache!Sized \subseteq Cache!Present /\ Cache!Present \subseteq Keys
    BY DEF Cache!Orphans, Cache!Sized, Cache!Present
  <2>2. \A key \in Keys : renewed'[key] = IF key \in (Cache!Orphans \cup (Cache!Sized \ Cache!Kept)) \ stuck THEN 0 ELSE renewed[key]
    BY DEF Cache!SweepBuildCache, Cache!Remove
  <2>3. \A key \in Cache!Present : renewed[key] # 0
    BY DEF Cache!Present
  <2> QED BY <2>1, <2>2, <2>3 DEF Cache!Evicted
<1>3. Cache!Orphans \cap live = {} /\ Cache!Orphans \cap Cache!Sized = {}
  BY DEF Cache!Orphans, Cache!Sized
<1>4. Cache!Evicted \cap live # {} => Cache!TotalBytes(Cache!Sized) > Cache!CapBytes
  <2>1. Cache!TotalBytes(Cache!Sized) <= Cache!CapBytes => Cache!Kept = Cache!Sized
    BY DEF Cache!Kept
  <2> QED BY <1>1, <1>2, <1>3, <2>1 DEF Cache!CapBytes
<1>5. \A key \in Cache!Sized : Cache!UpTo(key) = {key} => key \in Cache!Kept
  BY DEF Cache!Kept
<1>6. \A key \in Cache!Sized \cap Cache!Evicted, older \in Cache!Sized :
        renewed[older] < renewed[key] => older \in Cache!Evicted \cup stuck
  BY <1>2, <1>3, NoneOlderKept
<1>7. Cache!Stays \subseteq Cache!Kept /\ Cache!Stays \in SUBSET Keys
  BY <1>1, <1>2 DEF Cache!Stays
<1>8. Cache!TotalBytes(Cache!Stays) <= Cache!CapBytes \/ \A j, k \in Cache!Stays : j = k
  <2>1. CASE Cache!TotalBytes(Cache!Sized) <= Cache!CapBytes
    <3>1. Cache!TotalBytes(Cache!Stays) <= Cache!TotalBytes(Cache!Sized) /\ Cache!TotalBytes(Cache!Stays) \in Nat
      BY <1>1, <1>7, ChargesGrow DEF Cache!Stays
    <3> QED BY <1>1, <2>1, <3>1 DEF Cache!CapBytes
  <2>2. CASE Cache!TotalBytes(Cache!Sized) > Cache!CapBytes
    <3>1. Cache!TotalBytes(Cache!Stays) \in Nat
      BY <1>7, ChargesGrow
    <3>2. Cache!TotalBytes(Cache!Stays) <= Cache!TargetBytes \/ \A j, k \in Cache!Stays : j = k
      BY <1>7, <2>2, KeptFits
    <3> QED BY <3>1, <3>2 DEF Cache!CapBytes, Cache!TargetBytes
  <2> QED BY <1>1, <2>1, <2>2 DEF Cache!CapBytes
<1> QED BY <1>2, <1>3, <1>4, <1>5, <1>6, <1>8

-----------------------------------------------------------------------------
\* What a cache is, throughout: a renewal is one of the builds so far.
CachesInv == part = "cache" => Cache!BuildCacheTypeOK

LEMMA CachesBegin == Init => CachesInv
<1> SUFFICES ASSUME Init, part = "cache"
             PROVE  Cache!BuildCacheTypeOK
  BY DEF CachesInv
<1>1. Cache!Init
  BY DEF Init
<1>2. 0 \in 0..MaxBuilds /\ 0 \in 0..MaxFaults
  BY PlatformAssumption
<1>3. caches \in [Keys -> [size : Sizes, unreadable : BOOLEAN]]
  BY <1>1 DEF Cache!Init
<1> QED BY <1>1, <1>2, <1>3 DEF Cache!Init, Cache!BuildCacheTypeOK

LEMMA RemoveTyped ==
  ASSUME Cache!BuildCacheTypeOK, NEW K, Cache!Remove(K)
  PROVE  renewed' \in [Keys -> 0..MaxBuilds]
  BY PlatformAssumption DEF Cache!BuildCacheTypeOK, Cache!Remove

LEMMA CachesStep ==
  ASSUME Cache!BuildCacheTypeOK, Cache!Next
  PROVE  Cache!BuildCacheTypeOK'
<1>1. ASSUME NEW key \in Keys, Cache!Build(key)
      PROVE  Cache!BuildCacheTypeOK'
  <2>1. renewals + 1 \in 0..MaxBuilds
    BY <1>1, PlatformAssumption DEF Cache!Build, Cache!BuildCacheTypeOK
  <2>2. renewed' \in [Keys -> 0..MaxBuilds]
    BY <1>1, <2>1 DEF Cache!Build, Cache!BuildCacheTypeOK
  <2>3. caches' \in [Keys -> [size : Sizes, unreadable : BOOLEAN]]
    BY <1>1 DEF Cache!Build, Cache!BuildCacheTypeOK
  <2> QED BY <1>1, <2>1, <2>2, <2>3 DEF Cache!Build, Cache!BuildCacheTypeOK
<1>2. ASSUME NEW key \in Keys, Cache!RemoveResourceCache(key)
      PROVE  Cache!BuildCacheTypeOK'
  <2>1. renewed' \in [Keys -> 0..MaxBuilds]
    BY <1>2, RemoveTyped DEF Cache!RemoveResourceCache
  <2> QED BY <1>2, <2>1 DEF Cache!RemoveResourceCache, Cache!BuildCacheTypeOK
<1>3. ASSUME Cache!DiskRefuses
      PROVE  Cache!BuildCacheTypeOK'
  <2>1. refusals' \in 0..MaxFaults
    BY <1>3, PlatformAssumption DEF Cache!DiskRefuses, Cache!BuildCacheTypeOK
  <2>2. caches' \in [Keys -> [size : Sizes, unreadable : BOOLEAN]] /\ stuck' \subseteq Keys /\ hidden' \subseteq Keys
    BY <1>3 DEF Cache!DiskRefuses, Cache!BuildCacheTypeOK
  <2> QED BY <1>3, <2>1, <2>2 DEF Cache!DiskRefuses, Cache!BuildCacheTypeOK
<1>4. ASSUME Cache!SweepBuildCache
      PROVE  Cache!BuildCacheTypeOK'
  <2>1. renewed' \in [Keys -> 0..MaxBuilds]
    BY <1>4, RemoveTyped DEF Cache!SweepBuildCache
  <2> QED BY <1>4, <2>1 DEF Cache!SweepBuildCache, Cache!BuildCacheTypeOK
<1> QED BY <1>1, <1>2, <1>3, <1>4 DEF Cache!Next

LEMMA CachesKeep ==
  ASSUME CachesInv, [Next]_vars
  PROVE  CachesInv'
<1>1. part' = "cache" => part = "cache" /\ (Cache!Next \/ UNCHANGED cacheVars)
  <2>1. CASE UNCHANGED vars
    BY <2>1 DEF vars
  <2>2. CASE Next
    BY <2>2 DEF Next, Only
  <2> QED BY <2>1, <2>2
<1>2. ASSUME part' = "cache"
      PROVE  Cache!BuildCacheTypeOK'
  <2>1. CASE Cache!Next
    BY <1>1, <1>2, <2>1, CachesStep DEF CachesInv
  <2>2. CASE UNCHANGED cacheVars
    BY <1>1, <1>2, <2>2 DEF CachesInv, cacheVars, Cache!BuildCacheTypeOK
  <2> QED BY <1>1, <1>2, <2>1, <2>2
<1> QED BY <1>2 DEF CachesInv

LEMMA CachesMean ==
  ASSUME Cache!BuildCacheTypeOK
  PROVE  Cache!SweepStep
<1>1. CachesTyped
  BY PlatformAssumption DEF Cache!BuildCacheTypeOK, CachesTyped
<1>2. IsFiniteSet(Keys) /\ Sizes \subseteq Nat
  BY PlatformAssumption
<1> QED BY <1>1, <1>2, SweepIsRight

-----------------------------------------------------------------------------
(* Images and what their rows say (Builds).                                  *)

LEMMA ImagesBounded == ImagesBounds
  BY ImagesAndLogsAssumption DEF ImagesBounds

LEMMA LogsBounded == LogsBounds
  BY ImagesAndLogsAssumption DEF LogsBounds

ImagesPart == part = "images" => ImagesInv

LEMMA ImagesBegin == Init => ImagesPart
<1> SUFFICES ASSUME Init, part = "images"
             PROVE  ImagesInv
  BY DEF ImagesPart
<1>1. Images!Init
  BY DEF Init
<1> QED BY <1>1, ImagesBounded, InitImages

LEMMA ImagesKeep ==
  ASSUME ImagesPart, [Next]_vars
  PROVE  ImagesPart'
<1>1. part' = "images" => part = "images" /\ (Images!Next \/ UNCHANGED Images!vars)
  <2>1. CASE UNCHANGED vars
    BY <2>1 DEF vars, imageVars, Images!vars
  <2>2. CASE Next
    BY <2>2 DEF Next, Only
  <2> QED BY <2>1, <2>2
<1>2. ASSUME part' = "images"
      PROVE  ImagesInv'
  <2>1. ImagesInv
    BY <1>1, <1>2 DEF ImagesPart
  <2>2. CASE Images!Next
    BY <2>1, <2>2, ImagesBounded, ImagesStep
  <2>3. CASE UNCHANGED Images!vars
    BY <2>1, <2>3, ImagesStutter
  <2> QED BY <1>1, <1>2, <2>2, <2>3
<1> QED BY <1>2 DEF ImagesPart

\* For any number of deployments, pushes, changes of the settings, images removed
\* by hand, failures and crashes: what a succeeded deployment says it was built
\* from is what its image was built from, whether it built, reused, repeated or
\* went back to it (jobs/build.ts, db/queries.ts), unless a crash made the build
\* run again after the branch or the settings had moved on.
THEOREM RowsTruthfulUnlessOvertaken == Spec => [](RowsTellTheTruth)
<1>1. Init => ImagesPart
  BY ImagesBegin
<1>2. ImagesPart /\ [Next]_vars => ImagesPart'
  BY ImagesKeep
<1>3. ImagesPart => RowsTellTheTruth
  BY ImagesBounded, ImagesMean DEF ImagesPart, RowsTellTheTruth
<1> QED BY <1>1, <1>2, <1>3, PTL DEF Spec

\* For any number of deployments, caches, sizes and refusals of the disk: no daily
\* prune takes the image that runs or the one a rollback goes back to
\* (build/images.ts), a deployment that repeats another is built from the commit
\* and the repository its row was recorded with, or not at all (jobs/deploy.ts), and
\* the sweep (build/cache.ts) takes no resource's cache while all fit the cap, never
\* the newest, no cache before an older one, and leaves no more than fits.
THEOREM PrunesAlwaysSpare == Spec => PrunesSpare
<1>1. Init => ImagesPart /\ CachesInv
  BY ImagesBegin, CachesBegin
<1>2. ImagesPart /\ CachesInv /\ [Next]_vars => (ImagesPart /\ CachesInv)'
  BY ImagesKeep, CachesKeep
<1>3. ImagesPart => (part = "images" => Images!RollbackStep)
  BY ImagesBounded, RollbackStepHolds DEF ImagesPart
<1>4. CachesInv => (part = "cache" => Cache!BuildCacheTypeOK /\ Cache!SweepStep)
  BY CachesMean DEF CachesInv
<1> QED BY <1>1, <1>2, <1>3, <1>4, PTL DEF Spec, PrunesSpare

-----------------------------------------------------------------------------
(* Logs and lines on their way to a page (LiveLogs, LogLines).               *)

PageInv == (part = "live" => LogsInv) /\ (part = "lines" => LinesInv)

LEMMA PageBegins == Init => PageInv
<1> SUFFICES ASSUME Init
             PROVE  PageInv
  OBVIOUS
<1>1. ASSUME part = "live"
      PROVE  LogsInv
  <2>1. Live!Init
    BY <1>1 DEF Init
  <2> QED BY <2>1, LogsBounded, InitLogs
<1>2. ASSUME part = "lines"
      PROVE  LinesInv
  <2>1. Lines!Init
    BY <1>2 DEF Init
  <2> QED BY <2>1, LinesBegin
<1> QED BY <1>1, <1>2 DEF PageInv

LEMMA PageKeeps ==
  ASSUME PageInv, [Next]_vars
  PROVE  PageInv'
<1>1. part' = "live" => part = "live" /\ (Live!Next \/ UNCHANGED Live!vars)
  <2>1. CASE UNCHANGED vars
    BY <2>1 DEF vars, liveVars, Live!vars
  <2>2. CASE Next
    BY <2>2 DEF Next, Only
  <2> QED BY <2>1, <2>2
<1>2. part' = "lines" => part = "lines" /\ (Lines!Next \/ UNCHANGED Lines!vars)
  <2>1. CASE UNCHANGED vars
    BY <2>1 DEF vars, lineVars, Lines!vars
  <2>2. CASE Next
    BY <2>2 DEF Next, Only
  <2> QED BY <2>1, <2>2
<1>3. ASSUME part' = "live"
      PROVE  LogsInv'
  <2>1. LogsInv
    BY <1>1, <1>3 DEF PageInv
  <2> QED BY <1>1, <1>3, <2>1, LogsBounded, LogsStep, LogsStutter
<1>4. ASSUME part' = "lines"
      PROVE  LinesInv'
  <2>1. LinesInv
    BY <1>2, <1>4 DEF PageInv
  <2> QED BY <1>2, <1>4, <2>1, LinesStep, LinesStutter
<1> QED BY <1>3, <1>4 DEF PageInv

\* For any number of deployments, lines, frames, chunks, lost connections and
\* crashes: an open page has a deployment's lines in order, each once, up to the
\* newest, unless some went before it asked for them or it connected again (events.ts,
\* routes/sse.ts); no more logs are held than DEPLOY_LOG_KEEP, the one being
\* written among them (events.ts); and what a container wrote, however Docker's
\* stream is cut (docker/demux.ts), is in the ring as its last lines
\* (logs/buffer.ts) and in the files as theirs (logs/file.ts), in order, each once.
THEOREM PageAlwaysFollows == Spec => [](PageFollows)
<1>1. Init => PageInv
  BY PageBegins
<1>2. PageInv /\ [Next]_vars => PageInv'
  BY PageKeeps
<1>3. PageInv => PageFollows
  BY LogsBounded, LogsMean, LinesMean DEF PageInv, PageFollows
<1> QED BY <1>1, <1>2, <1>3, PTL DEF Spec
================================================================================
