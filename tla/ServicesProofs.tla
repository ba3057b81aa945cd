------------------------------ MODULE ServicesProofs ------------------------------
(***************************************************************************)
(* What holds of the build daemon for any memory of its host, any override     *)
(* and any number of builds and mishaps, and of GitHub's installations for     *)
(* any number of them, of Apps, of grants and of fetches.                      *)
(***************************************************************************)
EXTENDS MCServices, Integers, Sequences, FiniteSets, TLAPS

-----------------------------------------------------------------------------
(* The build daemon.                                                         *)

\* What is in the daemon is in a container that is there.
Lives == (daemon.up \/ daemon.left) => daemon.made

\* Between its making and its first answer the daemon is the one the process
\* would make now: no setting changes while it lives.
CapStays ==
  hand.pc \in {"start", "wait"} /\ daemon.made =>
    daemon.gen = "new" /\ daemon.cap = Daemon!ResolveMemoryCap

\* What a build left is there from its client's exit to the restart after it.
LeftBehind ==
  daemon.left => unstopped \/ hand.pc = "stop" \/ (hand.pc = "build" /\ client.exit = "other")

\* A build in hand has no verdict.
Unjudged == hand.pc = "build" => verdict = "none"

\* The types of the three records.
Container == [made : BOOLEAN, gen : {"old", "new"}, cap : Nat, up : BOOLEAN, hung : BOOLEAN, left : BOOLEAN]
Hand == [pc : {"off", "idle", "look", "create", "start", "wait", "build", "stop", "restart", "again"},
         adopted : BOOLEAN]
Client == [silent : BOOLEAN, asked : {"no", "fine", "starved"},
           stopped : {"no", "aborted", "timeout"}, exit : {"no", "zero", "other"}]

BuilderInv ==
  /\ Daemon!BuilderTypeOK /\ Lives /\ Daemon!CapIsCurrent /\ CapStays
  /\ LeftBehind /\ Unjudged /\ Daemon!BuiltImageCounts

LEMMA CapIsNat ==
  ASSUME Daemon!BuilderTypeOK
  PROVE  Daemon!ResolveMemoryCap \in Nat
<1>1. host \in Nat /\ (override # Unset => override \in Nat)
  BY ServicesAssumption DEF Daemon!BuilderTypeOK
<1>2. Daemon!BuildkitMemoryCap(host) \in Nat
  BY <1>1 DEF Daemon!BuildkitMemoryCap, Daemon!Reserve, Daemon!Step, Daemon!Floor, Daemon!Ceiling
<1> QED BY <1>1, <1>2 DEF Daemon!ResolveMemoryCap

LEMMA Pieces ==
  /\ Daemon!NoDaemon \in Container /\ Daemon!NoClient \in Client /\ Daemon!Rest \in Hand
  /\ \A pc \in {"start", "create"}, b \in BOOLEAN : [pc |-> pc, adopted |-> b] \in Hand
  /\ [Daemon!Rest EXCEPT !.pc = "off"] \in Hand
  BY DEF Container, Client, Hand, Daemon!NoDaemon, Daemon!NoClient, Daemon!Rest

LEMMA StartedIsOne == daemon \in Container => Daemon!Started \in Container
<1> SUFFICES ASSUME daemon \in Container PROVE Daemon!Started \in Container
  OBVIOUS
<1>1. (daemon.cap >= Enough) \in BOOLEAN
  OBVIOUS
<1> DEFINE up == daemon.cap >= Enough
<1>2. [daemon EXCEPT !.up = up] \in Container
  <2> HIDE DEF up
  <2>1. up \in BOOLEAN
    BY <1>1 DEF up
  <2> QED BY <2>1 DEF Container
<1> QED BY <1>2 DEF Daemon!Started

LEMMA BuilderInit == Daemon!Init => BuilderInv
<1> SUFFICES ASSUME Daemon!Init PROVE BuilderInv
  OBVIOUS
<1>1. daemon \in Container
  BY ServicesAssumption, Pieces DEF Daemon!Init, Container
<1>2. hand \in Hand /\ client \in Client
  BY Pieces DEF Daemon!Init
<1>3. Daemon!BuilderTypeOK
  <2>1. todo \in Seq({"ensure", "build"}) /\ builds \in 0..MaxBuilds /\ mishaps \in 0..MaxMishaps
    BY ServicesAssumption DEF Daemon!Init
  <2> QED BY <1>1, <1>2, <2>1 DEF Daemon!Init, Daemon!BuilderTypeOK, Container, Hand, Client
<1>4. hand.pc = "off"
  BY DEF Daemon!Init, Daemon!Rest
<1>5. ~daemon.left /\ (daemon.up => daemon.made)
  <2>1. CASE daemon = Daemon!NoDaemon
    BY <2>1 DEF Daemon!NoDaemon
  <2>2. CASE daemon = [Daemon!NoDaemon EXCEPT !.made = TRUE, !.gen = "old", !.cap = Enough, !.up = TRUE]
    BY <2>2 DEF Daemon!NoDaemon
  <2> QED BY <2>1, <2>2 DEF Daemon!Init
<1> QED
  BY <1>3, <1>4, <1>5 DEF Daemon!Init, BuilderInv, Lives, Daemon!CapIsCurrent, CapStays, LeftBehind, Unjudged,
    Daemon!BuiltImageCounts

LEMMA LookKeeps ==
  ASSUME BuilderInv, Daemon!Look
  PROVE  BuilderInv'
<1>1. Daemon!BuilderTypeOK'
  <2>0. daemon \in Container /\ hand \in Hand /\ client \in Client /\ Daemon!ResolveMemoryCap \in Nat
    BY CapIsNat DEF BuilderInv, Daemon!BuilderTypeOK, Container, Hand, Client
  <2>1. daemon' \in Container
    BY <2>0, Pieces DEF Container, Daemon!Look, Daemon!At, Daemon!Refused, Daemon!Current, Daemon!settings
  <2>2. hand' \in Hand
    BY <2>0, Pieces DEF Hand, Daemon!Look, Daemon!At, Daemon!Refused, Daemon!Current, Daemon!settings
  <2>3. client' \in Client
    BY <2>0, Pieces DEF Client, Daemon!Look, Daemon!At, Daemon!Refused, Daemon!Current, Daemon!settings
  <2>4. /\ host' \in Hosts /\ override' \in Overrides /\ todo' \in Seq({"ensure", "build"})
        /\ bucket' \in BOOLEAN /\ verdict' \in {"none", "built", "starved", "timeout", "failed"}
        /\ ready' \in BOOLEAN /\ unstopped' \in BOOLEAN
    BY DEF BuilderInv, Daemon!BuilderTypeOK, Daemon!Look, Daemon!At, Daemon!Refused, Daemon!Current, Daemon!settings
  <2>5. builds' \in 0..MaxBuilds /\ mishaps' \in 0..MaxMishaps
    BY ServicesAssumption DEF BuilderInv, Daemon!BuilderTypeOK, Daemon!Look, Daemon!At, Daemon!Refused, Daemon!Current, Daemon!settings
  <2> QED BY <2>1, <2>2, <2>3, <2>4, <2>5 DEF Daemon!BuilderTypeOK, Container, Hand, Client
<1>2. Lives'
  BY DEF BuilderInv, Daemon!BuilderTypeOK, Lives, Daemon!Look, Daemon!At, Daemon!Refused, Daemon!Current, Daemon!Rest, Daemon!NoDaemon, Daemon!settings
<1>3. Daemon!CapIsCurrent' /\ CapStays'
  BY DEF BuilderInv, Daemon!BuilderTypeOK, Daemon!CapIsCurrent, CapStays, Daemon!ResolveMemoryCap,
    Daemon!BuildkitMemoryCap, Daemon!Look, Daemon!At, Daemon!Refused, Daemon!Current, Daemon!Rest, Daemon!NoDaemon, Daemon!settings
<1>4. LeftBehind' /\ Unjudged' /\ Daemon!BuiltImageCounts'
  BY DEF BuilderInv, Daemon!BuilderTypeOK, Lives, LeftBehind, Unjudged, Daemon!BuiltImageCounts, Daemon!Look, Daemon!At, Daemon!Refused, Daemon!Current, Daemon!Rest, Daemon!NoDaemon, Daemon!settings
<1> QED BY <1>1, <1>2, <1>3, <1>4 DEF BuilderInv

LEMMA CreateKeeps ==
  ASSUME BuilderInv, Daemon!Create
  PROVE  BuilderInv'
<1>1. Daemon!BuilderTypeOK'
  <2>0. daemon \in Container /\ hand \in Hand /\ client \in Client /\ Daemon!ResolveMemoryCap \in Nat
    BY CapIsNat DEF BuilderInv, Daemon!BuilderTypeOK, Container, Hand, Client
  <2>1. daemon' \in Container
    BY <2>0, Pieces DEF Container, Daemon!Create, Daemon!At, Daemon!Go, Daemon!settings
  <2>2. hand' \in Hand
    BY <2>0, Pieces DEF Hand, Daemon!Create, Daemon!At, Daemon!Go, Daemon!settings
  <2>3. client' \in Client
    BY <2>0, Pieces DEF Client, Daemon!Create, Daemon!At, Daemon!Go, Daemon!settings
  <2>4. /\ host' \in Hosts /\ override' \in Overrides /\ todo' \in Seq({"ensure", "build"})
        /\ bucket' \in BOOLEAN /\ verdict' \in {"none", "built", "starved", "timeout", "failed"}
        /\ ready' \in BOOLEAN /\ unstopped' \in BOOLEAN
    BY DEF BuilderInv, Daemon!BuilderTypeOK, Daemon!Create, Daemon!At, Daemon!Go, Daemon!settings
  <2>5. builds' \in 0..MaxBuilds /\ mishaps' \in 0..MaxMishaps
    BY ServicesAssumption DEF BuilderInv, Daemon!BuilderTypeOK, Daemon!Create, Daemon!At, Daemon!Go, Daemon!settings
  <2> QED BY <2>1, <2>2, <2>3, <2>4, <2>5 DEF Daemon!BuilderTypeOK, Container, Hand, Client
<1>2. Lives'
  BY DEF BuilderInv, Daemon!BuilderTypeOK, Lives, Daemon!Create, Daemon!At, Daemon!Go, Daemon!NoDaemon, Daemon!settings
<1>3. Daemon!CapIsCurrent' /\ CapStays'
  BY DEF BuilderInv, Daemon!BuilderTypeOK, Daemon!CapIsCurrent, CapStays, Daemon!ResolveMemoryCap,
    Daemon!BuildkitMemoryCap, Daemon!Create, Daemon!At, Daemon!Go, Daemon!NoDaemon, Daemon!settings
<1>4. LeftBehind' /\ Unjudged' /\ Daemon!BuiltImageCounts'
  BY DEF BuilderInv, Daemon!BuilderTypeOK, Lives, LeftBehind, Unjudged, Daemon!BuiltImageCounts, Daemon!Create, Daemon!At, Daemon!Go, Daemon!NoDaemon, Daemon!settings
<1> QED BY <1>1, <1>2, <1>3, <1>4 DEF BuilderInv

LEMMA StartKeeps ==
  ASSUME BuilderInv, Daemon!Start
  PROVE  BuilderInv'
<1>1. Daemon!BuilderTypeOK'
  <2>0. daemon \in Container /\ hand \in Hand /\ client \in Client /\ Daemon!ResolveMemoryCap \in Nat
    BY CapIsNat DEF BuilderInv, Daemon!BuilderTypeOK, Container, Hand, Client
  <2>1. daemon' \in Container
    <3>1. Daemon!Started \in Container
      BY <2>0, StartedIsOne
    <3> QED BY <2>0, <3>1, Pieces DEF Daemon!Start, Daemon!GiveUp
  <2>2. hand' \in Hand
    BY <2>0, Pieces DEF Hand, Daemon!Start, Daemon!At, Daemon!Go, Daemon!Mishap, Daemon!Started, Daemon!GiveUp, Daemon!settings
  <2>3. client' \in Client
    BY <2>0, Pieces DEF Client, Daemon!Start, Daemon!At, Daemon!Go, Daemon!Mishap, Daemon!Started, Daemon!GiveUp, Daemon!settings
  <2>4. /\ host' \in Hosts /\ override' \in Overrides /\ todo' \in Seq({"ensure", "build"})
        /\ bucket' \in BOOLEAN /\ verdict' \in {"none", "built", "starved", "timeout", "failed"}
        /\ ready' \in BOOLEAN /\ unstopped' \in BOOLEAN
    BY DEF BuilderInv, Daemon!BuilderTypeOK, Daemon!Start, Daemon!At, Daemon!Go, Daemon!Mishap, Daemon!Started, Daemon!GiveUp, Daemon!settings
  <2>5. builds' \in 0..MaxBuilds /\ mishaps' \in 0..MaxMishaps
    BY ServicesAssumption DEF BuilderInv, Daemon!BuilderTypeOK, Daemon!Start, Daemon!At, Daemon!Go, Daemon!Mishap, Daemon!Started, Daemon!GiveUp, Daemon!settings
  <2> QED BY <2>1, <2>2, <2>3, <2>4, <2>5 DEF Daemon!BuilderTypeOK, Container, Hand, Client
<1>2. Lives'
  BY DEF BuilderInv, Daemon!BuilderTypeOK, Lives, Daemon!Start, Daemon!At, Daemon!Go, Daemon!Mishap, Daemon!Started, Daemon!GiveUp, Daemon!Rest, Daemon!NoDaemon, Daemon!settings
<1>3. Daemon!CapIsCurrent' /\ CapStays'
  BY DEF BuilderInv, Daemon!BuilderTypeOK, Daemon!CapIsCurrent, CapStays, Daemon!ResolveMemoryCap,
    Daemon!BuildkitMemoryCap, Daemon!Start, Daemon!At, Daemon!Go, Daemon!Mishap, Daemon!Started, Daemon!GiveUp, Daemon!Rest, Daemon!NoDaemon, Daemon!settings
<1>4. LeftBehind' /\ Unjudged' /\ Daemon!BuiltImageCounts'
  BY DEF BuilderInv, Daemon!BuilderTypeOK, Lives, LeftBehind, Unjudged, Daemon!BuiltImageCounts, Daemon!Start, Daemon!At, Daemon!Go, Daemon!Mishap, Daemon!Started, Daemon!GiveUp, Daemon!Rest, Daemon!NoDaemon, Daemon!settings
<1> QED BY <1>1, <1>2, <1>3, <1>4 DEF BuilderInv

LEMMA WaitForDaemonKeeps ==
  ASSUME BuilderInv, Daemon!WaitForDaemon
  PROVE  BuilderInv'
<1>1. Daemon!BuilderTypeOK'
  <2>0. daemon \in Container /\ hand \in Hand /\ client \in Client /\ Daemon!ResolveMemoryCap \in Nat
    BY CapIsNat DEF BuilderInv, Daemon!BuilderTypeOK, Container, Hand, Client
  <2>1. daemon' \in Container
    BY <2>0, Pieces DEF Container, Daemon!WaitForDaemon, Daemon!At, Daemon!Mishap, Daemon!Probe, Daemon!GiveUp, Daemon!settings
  <2>2. hand' \in Hand
    BY <2>0, Pieces DEF Hand, Daemon!WaitForDaemon, Daemon!At, Daemon!Mishap, Daemon!Probe, Daemon!GiveUp, Daemon!settings
  <2>3. client' \in Client
    BY <2>0, Pieces DEF Client, Daemon!WaitForDaemon, Daemon!At, Daemon!Mishap, Daemon!Probe, Daemon!GiveUp, Daemon!settings
  <2>4. /\ host' \in Hosts /\ override' \in Overrides /\ todo' \in Seq({"ensure", "build"})
        /\ bucket' \in BOOLEAN /\ verdict' \in {"none", "built", "starved", "timeout", "failed"}
        /\ ready' \in BOOLEAN /\ unstopped' \in BOOLEAN
    BY DEF BuilderInv, Daemon!BuilderTypeOK, Daemon!WaitForDaemon, Daemon!At, Daemon!Mishap, Daemon!Probe, Daemon!GiveUp, Daemon!settings
  <2>5. builds' \in 0..MaxBuilds /\ mishaps' \in 0..MaxMishaps
    BY ServicesAssumption DEF BuilderInv, Daemon!BuilderTypeOK, Daemon!WaitForDaemon, Daemon!At, Daemon!Mishap, Daemon!Probe, Daemon!GiveUp, Daemon!settings
  <2> QED BY <2>1, <2>2, <2>3, <2>4, <2>5 DEF Daemon!BuilderTypeOK, Container, Hand, Client
<1>2. Lives'
  BY DEF BuilderInv, Daemon!BuilderTypeOK, Lives, Daemon!WaitForDaemon, Daemon!At, Daemon!Mishap, Daemon!Probe, Daemon!GiveUp, Daemon!Rest, Daemon!NoDaemon, Daemon!settings
<1>3. Daemon!CapIsCurrent' /\ CapStays'
  BY DEF BuilderInv, Daemon!BuilderTypeOK, Daemon!CapIsCurrent, CapStays, Daemon!ResolveMemoryCap,
    Daemon!BuildkitMemoryCap, Daemon!WaitForDaemon, Daemon!At, Daemon!Mishap, Daemon!Probe, Daemon!GiveUp, Daemon!Rest, Daemon!NoDaemon, Daemon!settings
<1>4. LeftBehind' /\ Unjudged' /\ Daemon!BuiltImageCounts'
  BY DEF BuilderInv, Daemon!BuilderTypeOK, Lives, LeftBehind, Unjudged, Daemon!BuiltImageCounts, Daemon!WaitForDaemon, Daemon!At, Daemon!Mishap, Daemon!Probe, Daemon!GiveUp, Daemon!Rest, Daemon!NoDaemon, Daemon!settings
<1> QED BY <1>1, <1>2, <1>3, <1>4 DEF BuilderInv

LEMMA TakeKeeps ==
  ASSUME BuilderInv, Daemon!Take
  PROVE  BuilderInv'
<1>1. Daemon!BuilderTypeOK'
  <2>0. daemon \in Container /\ hand \in Hand /\ client \in Client /\ Daemon!ResolveMemoryCap \in Nat
    BY CapIsNat DEF BuilderInv, Daemon!BuilderTypeOK, Container, Hand, Client
  <2>1. daemon' \in Container
    BY <2>0, Pieces DEF Container, Daemon!Take, Daemon!At, Daemon!Go, Daemon!settings
  <2>2. hand' \in Hand
    BY <2>0, Pieces DEF Hand, Daemon!Take, Daemon!At, Daemon!Go, Daemon!settings
  <2>3. client' \in Client
    BY <2>0, Pieces DEF Client, Daemon!Take, Daemon!At, Daemon!Go, Daemon!settings
  <2>4. /\ host' \in Hosts /\ override' \in Overrides /\ todo' \in Seq({"ensure", "build"})
        /\ bucket' \in BOOLEAN /\ verdict' \in {"none", "built", "starved", "timeout", "failed"}
        /\ ready' \in BOOLEAN /\ unstopped' \in BOOLEAN
    BY DEF BuilderInv, Daemon!BuilderTypeOK, Daemon!Take, Daemon!At, Daemon!Go, Daemon!settings
  <2>5. builds' \in 0..MaxBuilds /\ mishaps' \in 0..MaxMishaps
    BY ServicesAssumption DEF BuilderInv, Daemon!BuilderTypeOK, Daemon!Take, Daemon!At, Daemon!Go, Daemon!settings
  <2> QED BY <2>1, <2>2, <2>3, <2>4, <2>5 DEF Daemon!BuilderTypeOK, Container, Hand, Client
<1>2. Lives'
  BY DEF BuilderInv, Daemon!BuilderTypeOK, Lives, Daemon!Take, Daemon!At, Daemon!Go, Daemon!NoClient, Daemon!settings
<1>3. Daemon!CapIsCurrent' /\ CapStays'
  BY DEF BuilderInv, Daemon!BuilderTypeOK, Daemon!CapIsCurrent, CapStays, Daemon!ResolveMemoryCap,
    Daemon!BuildkitMemoryCap, Daemon!Take, Daemon!At, Daemon!Go, Daemon!NoClient, Daemon!settings
<1>4. LeftBehind' /\ Unjudged' /\ Daemon!BuiltImageCounts'
  BY DEF BuilderInv, Daemon!BuilderTypeOK, Lives, LeftBehind, Unjudged, Daemon!BuiltImageCounts, Daemon!Take, Daemon!At, Daemon!Go, Daemon!NoClient, Daemon!settings
<1> QED BY <1>1, <1>2, <1>3, <1>4 DEF BuilderInv

LEMMA BuildImageKeeps ==
  ASSUME BuilderInv, Daemon!BuildImage
  PROVE  BuilderInv'
<1>1. Daemon!BuilderTypeOK'
  <2>0. daemon \in Container /\ hand \in Hand /\ client \in Client /\ Daemon!ResolveMemoryCap \in Nat
    BY CapIsNat DEF BuilderInv, Daemon!BuilderTypeOK, Container, Hand, Client
  <2>1. daemon' \in Container
    BY <2>0, Pieces DEF Container, Daemon!BuildImage, Daemon!At, Daemon!Go, Daemon!Verdict, Daemon!settings
  <2>2. hand' \in Hand
    BY <2>0, Pieces DEF Hand, Daemon!BuildImage, Daemon!At, Daemon!Go, Daemon!Verdict, Daemon!settings
  <2>3. client' \in Client
    BY <2>0, Pieces DEF Client, Daemon!BuildImage, Daemon!At, Daemon!Go, Daemon!Verdict, Daemon!settings
  <2>4. /\ host' \in Hosts /\ override' \in Overrides /\ todo' \in Seq({"ensure", "build"})
        /\ bucket' \in BOOLEAN /\ verdict' \in {"none", "built", "starved", "timeout", "failed"}
        /\ ready' \in BOOLEAN /\ unstopped' \in BOOLEAN
    BY DEF BuilderInv, Daemon!BuilderTypeOK, Daemon!BuildImage, Daemon!At, Daemon!Go, Daemon!Verdict, Daemon!settings
  <2>5. builds' \in 0..MaxBuilds /\ mishaps' \in 0..MaxMishaps
    BY ServicesAssumption DEF BuilderInv, Daemon!BuilderTypeOK, Daemon!BuildImage, Daemon!At, Daemon!Go, Daemon!Verdict, Daemon!settings
  <2> QED BY <2>1, <2>2, <2>3, <2>4, <2>5 DEF Daemon!BuilderTypeOK, Container, Hand, Client
<1>2. Lives'
  BY DEF BuilderInv, Daemon!BuilderTypeOK, Lives, Daemon!BuildImage, Daemon!At, Daemon!Go, Daemon!Verdict, Daemon!Rest, Daemon!settings
<1>3. Daemon!CapIsCurrent' /\ CapStays'
  BY DEF BuilderInv, Daemon!BuilderTypeOK, Daemon!CapIsCurrent, CapStays, Daemon!ResolveMemoryCap,
    Daemon!BuildkitMemoryCap, Daemon!BuildImage, Daemon!At, Daemon!Go, Daemon!Verdict, Daemon!Rest, Daemon!settings
<1>4. LeftBehind' /\ Unjudged' /\ Daemon!BuiltImageCounts'
  BY DEF BuilderInv, Daemon!BuilderTypeOK, Lives, LeftBehind, Unjudged, Daemon!BuiltImageCounts, Daemon!BuildImage, Daemon!At, Daemon!Go, Daemon!Verdict, Daemon!Rest, Daemon!settings
<1> QED BY <1>1, <1>2, <1>3, <1>4 DEF BuilderInv

LEMMA RestartBuildkitKeeps ==
  ASSUME BuilderInv, Daemon!RestartBuildkit
  PROVE  BuilderInv'
<1>1. Daemon!BuilderTypeOK'
  <2>0. daemon \in Container /\ hand \in Hand /\ client \in Client /\ Daemon!ResolveMemoryCap \in Nat
    BY CapIsNat DEF BuilderInv, Daemon!BuilderTypeOK, Container, Hand, Client
  <2>1. daemon' \in Container
    <3>1. [daemon EXCEPT !.up = FALSE, !.hung = FALSE, !.left = FALSE] \in Container
      BY <2>0 DEF Container
    <3>2. Daemon!Started \in Container
      BY <2>0, StartedIsOne
    <3> QED BY <2>0, <3>1, <3>2 DEF Daemon!RestartBuildkit
  <2>2. hand' \in Hand
    BY <2>0, Pieces DEF Hand, Daemon!RestartBuildkit, Daemon!At, Daemon!Go, Daemon!Mishap, Daemon!Started, Daemon!settings
  <2>3. client' \in Client
    BY <2>0, Pieces DEF Client, Daemon!RestartBuildkit, Daemon!At, Daemon!Go, Daemon!Mishap, Daemon!Started, Daemon!settings
  <2>4. /\ host' \in Hosts /\ override' \in Overrides /\ todo' \in Seq({"ensure", "build"})
        /\ bucket' \in BOOLEAN /\ verdict' \in {"none", "built", "starved", "timeout", "failed"}
        /\ ready' \in BOOLEAN /\ unstopped' \in BOOLEAN
    BY DEF BuilderInv, Daemon!BuilderTypeOK, Daemon!RestartBuildkit, Daemon!At, Daemon!Go, Daemon!Mishap, Daemon!Started, Daemon!settings
  <2>5. builds' \in 0..MaxBuilds /\ mishaps' \in 0..MaxMishaps
    BY ServicesAssumption DEF BuilderInv, Daemon!BuilderTypeOK, Daemon!RestartBuildkit, Daemon!At, Daemon!Go, Daemon!Mishap, Daemon!Started, Daemon!settings
  <2> QED BY <2>1, <2>2, <2>3, <2>4, <2>5 DEF Daemon!BuilderTypeOK, Container, Hand, Client
<1>2. /\ daemon'.made = daemon.made /\ daemon'.gen = daemon.gen /\ daemon'.cap = daemon.cap
      /\ daemon'.left => daemon.left /\ (hand.pc = "stop" => ~daemon.made \/ unstopped')
      /\ daemon'.up => daemon'.made \/ daemon.up
      /\ hand'.pc \in {"idle", "restart", "again"}
      /\ hand.pc \in {"stop", "restart", "again"} /\ (unstopped => unstopped')
  <2>0. daemon \in Container /\ hand \in Hand /\ unstopped \in BOOLEAN
    BY DEF BuilderInv, Daemon!BuilderTypeOK, Container, Hand
  <2> USE <2>0 DEF Container, Hand, Daemon!At, Daemon!Go
  <2>1. CASE /\ Daemon!At("stop") /\ daemon.made
             /\ daemon' = [daemon EXCEPT !.up = FALSE, !.hung = FALSE, !.left = FALSE]
             /\ Daemon!Go("restart") /\ UNCHANGED <<unstopped, mishaps>>
    BY <2>1
  <2>2. CASE Daemon!At("stop") /\ ~daemon.made /\ hand' = Daemon!Rest /\ UNCHANGED <<daemon, unstopped, mishaps>>
    BY <2>2 DEF Daemon!Rest
  <2>3. CASE /\ Daemon!At("restart") /\ daemon' = IF daemon.made THEN Daemon!Started ELSE daemon
             /\ Daemon!Go("again") /\ UNCHANGED <<unstopped, mishaps>>
    BY <2>3 DEF Daemon!Started
  <2>4. CASE Daemon!At("again") /\ hand' = Daemon!Rest /\ UNCHANGED <<daemon, unstopped, mishaps>>
    BY <2>4 DEF Daemon!Rest
  <2>5. CASE /\ hand.pc \in {"stop", "restart"} /\ Daemon!Mishap
             /\ hand' = Daemon!Rest /\ unstopped' = (unstopped \/ Daemon!At("stop")) /\ UNCHANGED daemon
    BY <2>5 DEF Daemon!Rest
  <2> QED BY <2>1, <2>2, <2>3, <2>4, <2>5 DEF Daemon!RestartBuildkit
<1>3. Lives' /\ Daemon!CapIsCurrent' /\ CapStays'
  BY <1>2 DEF BuilderInv, Lives, Daemon!CapIsCurrent, CapStays, Daemon!ResolveMemoryCap,
    Daemon!BuildkitMemoryCap, Daemon!RestartBuildkit, Daemon!settings
<1>4. LeftBehind' /\ Unjudged' /\ Daemon!BuiltImageCounts'
  BY <1>2 DEF BuilderInv, Lives, LeftBehind, Unjudged, Daemon!BuiltImageCounts, Daemon!RestartBuildkit
<1> QED BY <1>1, <1>3, <1>4 DEF BuilderInv

LEMMA CallFailsKeeps ==
  ASSUME BuilderInv, Daemon!CallFails
  PROVE  BuilderInv'
<1>1. Daemon!BuilderTypeOK'
  <2>0. daemon \in Container /\ hand \in Hand /\ client \in Client /\ Daemon!ResolveMemoryCap \in Nat
    BY CapIsNat DEF BuilderInv, Daemon!BuilderTypeOK, Container, Hand, Client
  <2>1. daemon' \in Container
    BY <2>0, Pieces DEF Container, Daemon!CallFails, Daemon!At, Daemon!Mishap, Daemon!settings
  <2>2. hand' \in Hand
    BY <2>0, Pieces DEF Hand, Daemon!CallFails, Daemon!At, Daemon!Mishap, Daemon!settings
  <2>3. client' \in Client
    BY <2>0, Pieces DEF Client, Daemon!CallFails, Daemon!At, Daemon!Mishap, Daemon!settings
  <2>4. /\ host' \in Hosts /\ override' \in Overrides /\ todo' \in Seq({"ensure", "build"})
        /\ bucket' \in BOOLEAN /\ verdict' \in {"none", "built", "starved", "timeout", "failed"}
        /\ ready' \in BOOLEAN /\ unstopped' \in BOOLEAN
    BY DEF BuilderInv, Daemon!BuilderTypeOK, Daemon!CallFails, Daemon!At, Daemon!Mishap, Daemon!settings
  <2>5. builds' \in 0..MaxBuilds /\ mishaps' \in 0..MaxMishaps
    BY ServicesAssumption DEF BuilderInv, Daemon!BuilderTypeOK, Daemon!CallFails, Daemon!At, Daemon!Mishap, Daemon!settings
  <2> QED BY <2>1, <2>2, <2>3, <2>4, <2>5 DEF Daemon!BuilderTypeOK, Container, Hand, Client
<1>2. Lives'
  BY DEF BuilderInv, Daemon!BuilderTypeOK, Lives, Daemon!CallFails, Daemon!At, Daemon!Mishap, Daemon!Rest, Daemon!NoDaemon, Daemon!settings
<1>3. Daemon!CapIsCurrent' /\ CapStays'
  BY DEF BuilderInv, Daemon!BuilderTypeOK, Daemon!CapIsCurrent, CapStays, Daemon!ResolveMemoryCap,
    Daemon!BuildkitMemoryCap, Daemon!CallFails, Daemon!At, Daemon!Mishap, Daemon!Rest, Daemon!NoDaemon, Daemon!settings
<1>4. LeftBehind' /\ Unjudged' /\ Daemon!BuiltImageCounts'
  BY DEF BuilderInv, Daemon!BuilderTypeOK, Lives, LeftBehind, Unjudged, Daemon!BuiltImageCounts, Daemon!CallFails, Daemon!At, Daemon!Mishap, Daemon!Rest, Daemon!NoDaemon, Daemon!settings
<1> QED BY <1>1, <1>2, <1>3, <1>4 DEF BuilderInv

LEMMA AskForBuildKeeps ==
  ASSUME BuilderInv, Daemon!AskForBuild
  PROVE  BuilderInv'
<1>1. Daemon!BuilderTypeOK'
  <2>0. daemon \in Container /\ hand \in Hand /\ client \in Client /\ Daemon!ResolveMemoryCap \in Nat
    BY CapIsNat DEF BuilderInv, Daemon!BuilderTypeOK, Container, Hand, Client
  <2>1. daemon' \in Container
    BY <2>0, Pieces DEF Container, Daemon!AskForBuild, Daemon!At, Daemon!settings
  <2>2. hand' \in Hand
    BY <2>0, Pieces DEF Hand, Daemon!AskForBuild, Daemon!At, Daemon!settings
  <2>3. client' \in Client
    BY <2>0, Pieces DEF Client, Daemon!AskForBuild, Daemon!At, Daemon!settings
  <2>4. /\ host' \in Hosts /\ override' \in Overrides /\ todo' \in Seq({"ensure", "build"})
        /\ bucket' \in BOOLEAN /\ verdict' \in {"none", "built", "starved", "timeout", "failed"}
        /\ ready' \in BOOLEAN /\ unstopped' \in BOOLEAN
    BY DEF BuilderInv, Daemon!BuilderTypeOK, Daemon!AskForBuild, Daemon!At, Daemon!settings
  <2>5. builds' \in 0..MaxBuilds /\ mishaps' \in 0..MaxMishaps
    BY ServicesAssumption DEF BuilderInv, Daemon!BuilderTypeOK, Daemon!AskForBuild, Daemon!At, Daemon!settings
  <2> QED BY <2>1, <2>2, <2>3, <2>4, <2>5 DEF Daemon!BuilderTypeOK, Container, Hand, Client
<1>2. Lives'
  BY DEF BuilderInv, Daemon!BuilderTypeOK, Lives, Daemon!AskForBuild, Daemon!At, Daemon!settings
<1>3. Daemon!CapIsCurrent' /\ CapStays'
  BY DEF BuilderInv, Daemon!BuilderTypeOK, Daemon!CapIsCurrent, CapStays, Daemon!ResolveMemoryCap,
    Daemon!BuildkitMemoryCap, Daemon!AskForBuild, Daemon!At, Daemon!settings
<1>4. LeftBehind' /\ Unjudged' /\ Daemon!BuiltImageCounts'
  BY DEF BuilderInv, Daemon!BuilderTypeOK, Lives, LeftBehind, Unjudged, Daemon!BuiltImageCounts, Daemon!AskForBuild, Daemon!At, Daemon!settings
<1> QED BY <1>1, <1>2, <1>3, <1>4 DEF BuilderInv

LEMMA PrintsKeeps ==
  ASSUME BuilderInv, Daemon!Prints
  PROVE  BuilderInv'
<1>1. Daemon!BuilderTypeOK'
  <2>0. daemon \in Container /\ hand \in Hand /\ client \in Client /\ Daemon!ResolveMemoryCap \in Nat
    BY CapIsNat DEF BuilderInv, Daemon!BuilderTypeOK, Container, Hand, Client
  <2>1. daemon' \in Container
    BY <2>0, Pieces DEF Container, Daemon!Prints, Daemon!At, Daemon!settings
  <2>2. hand' \in Hand
    BY <2>0, Pieces DEF Hand, Daemon!Prints, Daemon!At, Daemon!settings
  <2>3. client' \in Client
    BY <2>0, Pieces DEF Client, Daemon!Prints, Daemon!At, Daemon!settings
  <2>4. /\ host' \in Hosts /\ override' \in Overrides /\ todo' \in Seq({"ensure", "build"})
        /\ bucket' \in BOOLEAN /\ verdict' \in {"none", "built", "starved", "timeout", "failed"}
        /\ ready' \in BOOLEAN /\ unstopped' \in BOOLEAN
    BY DEF BuilderInv, Daemon!BuilderTypeOK, Daemon!Prints, Daemon!At, Daemon!settings
  <2>5. builds' \in 0..MaxBuilds /\ mishaps' \in 0..MaxMishaps
    BY ServicesAssumption DEF BuilderInv, Daemon!BuilderTypeOK, Daemon!Prints, Daemon!At, Daemon!settings
  <2> QED BY <2>1, <2>2, <2>3, <2>4, <2>5 DEF Daemon!BuilderTypeOK, Container, Hand, Client
<1>2. Lives'
  BY DEF BuilderInv, Daemon!BuilderTypeOK, Lives, Daemon!Prints, Daemon!At, Daemon!settings
<1>3. Daemon!CapIsCurrent' /\ CapStays'
  BY DEF BuilderInv, Daemon!BuilderTypeOK, Daemon!CapIsCurrent, CapStays, Daemon!ResolveMemoryCap,
    Daemon!BuildkitMemoryCap, Daemon!Prints, Daemon!At, Daemon!settings
<1>4. LeftBehind' /\ Unjudged' /\ Daemon!BuiltImageCounts'
  BY DEF BuilderInv, Daemon!BuilderTypeOK, Lives, LeftBehind, Unjudged, Daemon!BuiltImageCounts, Daemon!Prints, Daemon!At, Daemon!settings
<1> QED BY <1>1, <1>2, <1>3, <1>4 DEF BuilderInv

LEMMA AskKeeps ==
  ASSUME BuilderInv, Daemon!Ask
  PROVE  BuilderInv'
<1>1. Daemon!BuilderTypeOK'
  <2>0. daemon \in Container /\ hand \in Hand /\ client \in Client /\ Daemon!ResolveMemoryCap \in Nat
    BY CapIsNat DEF BuilderInv, Daemon!BuilderTypeOK, Container, Hand, Client
  <2>1. daemon' \in Container
    BY <2>0, Pieces DEF Container, Daemon!Ask, Daemon!At, Daemon!settings
  <2>2. hand' \in Hand
    BY <2>0, Pieces DEF Hand, Daemon!Ask, Daemon!At, Daemon!settings
  <2>3. client' \in Client
    BY <2>0, Pieces DEF Client, Daemon!Ask, Daemon!At, Daemon!settings
  <2>4. /\ host' \in Hosts /\ override' \in Overrides /\ todo' \in Seq({"ensure", "build"})
        /\ bucket' \in BOOLEAN /\ verdict' \in {"none", "built", "starved", "timeout", "failed"}
        /\ ready' \in BOOLEAN /\ unstopped' \in BOOLEAN
    BY DEF BuilderInv, Daemon!BuilderTypeOK, Daemon!Ask, Daemon!At, Daemon!settings
  <2>5. builds' \in 0..MaxBuilds /\ mishaps' \in 0..MaxMishaps
    BY ServicesAssumption DEF BuilderInv, Daemon!BuilderTypeOK, Daemon!Ask, Daemon!At, Daemon!settings
  <2> QED BY <2>1, <2>2, <2>3, <2>4, <2>5 DEF Daemon!BuilderTypeOK, Container, Hand, Client
<1>2. Lives'
  BY DEF BuilderInv, Daemon!BuilderTypeOK, Lives, Daemon!Ask, Daemon!At, Daemon!settings
<1>3. Daemon!CapIsCurrent' /\ CapStays'
  BY DEF BuilderInv, Daemon!BuilderTypeOK, Daemon!CapIsCurrent, CapStays, Daemon!ResolveMemoryCap,
    Daemon!BuildkitMemoryCap, Daemon!Ask, Daemon!At, Daemon!settings
<1>4. LeftBehind' /\ Unjudged' /\ Daemon!BuiltImageCounts'
  BY DEF BuilderInv, Daemon!BuilderTypeOK, Lives, LeftBehind, Unjudged, Daemon!BuiltImageCounts, Daemon!Ask, Daemon!At, Daemon!settings
<1> QED BY <1>1, <1>2, <1>3, <1>4 DEF BuilderInv

LEMMA AnsweredKeeps ==
  ASSUME BuilderInv, Daemon!Answered
  PROVE  BuilderInv'
<1>1. Daemon!BuilderTypeOK'
  <2>0. daemon \in Container /\ hand \in Hand /\ client \in Client /\ Daemon!ResolveMemoryCap \in Nat
    BY CapIsNat DEF BuilderInv, Daemon!BuilderTypeOK, Container, Hand, Client
  <2>1. daemon' \in Container
    BY <2>0, Pieces DEF Container, Daemon!Answered, Daemon!At, Daemon!Stop, Daemon!settings
  <2>2. hand' \in Hand
    BY <2>0, Pieces DEF Hand, Daemon!Answered, Daemon!At, Daemon!Stop, Daemon!settings
  <2>3. client' \in Client
    BY <2>0, Pieces DEF Client, Daemon!Answered, Daemon!At, Daemon!Stop, Daemon!settings
  <2>4. /\ host' \in Hosts /\ override' \in Overrides /\ todo' \in Seq({"ensure", "build"})
        /\ bucket' \in BOOLEAN /\ verdict' \in {"none", "built", "starved", "timeout", "failed"}
        /\ ready' \in BOOLEAN /\ unstopped' \in BOOLEAN
    BY DEF BuilderInv, Daemon!BuilderTypeOK, Daemon!Answered, Daemon!At, Daemon!Stop, Daemon!settings
  <2>5. builds' \in 0..MaxBuilds /\ mishaps' \in 0..MaxMishaps
    BY ServicesAssumption DEF BuilderInv, Daemon!BuilderTypeOK, Daemon!Answered, Daemon!At, Daemon!Stop, Daemon!settings
  <2> QED BY <2>1, <2>2, <2>3, <2>4, <2>5 DEF Daemon!BuilderTypeOK, Container, Hand, Client
<1>2. Lives'
  BY DEF BuilderInv, Daemon!BuilderTypeOK, Lives, Daemon!Answered, Daemon!At, Daemon!Stop, Daemon!settings
<1>3. Daemon!CapIsCurrent' /\ CapStays'
  BY DEF BuilderInv, Daemon!BuilderTypeOK, Daemon!CapIsCurrent, CapStays, Daemon!ResolveMemoryCap,
    Daemon!BuildkitMemoryCap, Daemon!Answered, Daemon!At, Daemon!Stop, Daemon!settings
<1>4. LeftBehind' /\ Unjudged' /\ Daemon!BuiltImageCounts'
  BY DEF BuilderInv, Daemon!BuilderTypeOK, Lives, LeftBehind, Unjudged, Daemon!BuiltImageCounts, Daemon!Answered, Daemon!At, Daemon!Stop, Daemon!settings
<1> QED BY <1>1, <1>2, <1>3, <1>4 DEF BuilderInv

LEMMA TimesOutKeeps ==
  ASSUME BuilderInv, Daemon!TimesOut
  PROVE  BuilderInv'
<1>1. Daemon!BuilderTypeOK'
  <2>0. daemon \in Container /\ hand \in Hand /\ client \in Client /\ Daemon!ResolveMemoryCap \in Nat
    BY CapIsNat DEF BuilderInv, Daemon!BuilderTypeOK, Container, Hand, Client
  <2>1. daemon' \in Container
    BY <2>0, Pieces DEF Container, Daemon!TimesOut, Daemon!At, Daemon!settings
  <2>2. hand' \in Hand
    BY <2>0, Pieces DEF Hand, Daemon!TimesOut, Daemon!At, Daemon!settings
  <2>3. client' \in Client
    BY <2>0, Pieces DEF Client, Daemon!TimesOut, Daemon!At, Daemon!settings
  <2>4. /\ host' \in Hosts /\ override' \in Overrides /\ todo' \in Seq({"ensure", "build"})
        /\ bucket' \in BOOLEAN /\ verdict' \in {"none", "built", "starved", "timeout", "failed"}
        /\ ready' \in BOOLEAN /\ unstopped' \in BOOLEAN
    BY DEF BuilderInv, Daemon!BuilderTypeOK, Daemon!TimesOut, Daemon!At, Daemon!settings
  <2>5. builds' \in 0..MaxBuilds /\ mishaps' \in 0..MaxMishaps
    BY ServicesAssumption DEF BuilderInv, Daemon!BuilderTypeOK, Daemon!TimesOut, Daemon!At, Daemon!settings
  <2> QED BY <2>1, <2>2, <2>3, <2>4, <2>5 DEF Daemon!BuilderTypeOK, Container, Hand, Client
<1>2. Lives'
  BY DEF BuilderInv, Daemon!BuilderTypeOK, Lives, Daemon!TimesOut, Daemon!At, Daemon!settings
<1>3. Daemon!CapIsCurrent' /\ CapStays'
  BY DEF BuilderInv, Daemon!BuilderTypeOK, Daemon!CapIsCurrent, CapStays, Daemon!ResolveMemoryCap,
    Daemon!BuildkitMemoryCap, Daemon!TimesOut, Daemon!At, Daemon!settings
<1>4. LeftBehind' /\ Unjudged' /\ Daemon!BuiltImageCounts'
  BY DEF BuilderInv, Daemon!BuilderTypeOK, Lives, LeftBehind, Unjudged, Daemon!BuiltImageCounts, Daemon!TimesOut, Daemon!At, Daemon!settings
<1> QED BY <1>1, <1>2, <1>3, <1>4 DEF BuilderInv

LEMMA ExitsKeeps ==
  ASSUME BuilderInv, Daemon!Exits
  PROVE  BuilderInv'
<1>1. Daemon!BuilderTypeOK'
  <2>0. daemon \in Container /\ hand \in Hand /\ client \in Client /\ Daemon!ResolveMemoryCap \in Nat
    BY CapIsNat DEF BuilderInv, Daemon!BuilderTypeOK, Container, Hand, Client
  <2>1. daemon' \in Container
    BY <2>0, Pieces DEF Container, Daemon!Exits, Daemon!At, Daemon!Probe, Daemon!settings
  <2>2. hand' \in Hand
    BY <2>0, Pieces DEF Hand, Daemon!Exits, Daemon!At, Daemon!Probe, Daemon!settings
  <2>3. client' \in Client
    BY <2>0, Pieces DEF Client, Daemon!Exits, Daemon!At, Daemon!Probe, Daemon!settings
  <2>4. /\ host' \in Hosts /\ override' \in Overrides /\ todo' \in Seq({"ensure", "build"})
        /\ bucket' \in BOOLEAN /\ verdict' \in {"none", "built", "starved", "timeout", "failed"}
        /\ ready' \in BOOLEAN /\ unstopped' \in BOOLEAN
    BY DEF BuilderInv, Daemon!BuilderTypeOK, Daemon!Exits, Daemon!At, Daemon!Probe, Daemon!settings
  <2>5. builds' \in 0..MaxBuilds /\ mishaps' \in 0..MaxMishaps
    BY ServicesAssumption DEF BuilderInv, Daemon!BuilderTypeOK, Daemon!Exits, Daemon!At, Daemon!Probe, Daemon!settings
  <2> QED BY <2>1, <2>2, <2>3, <2>4, <2>5 DEF Daemon!BuilderTypeOK, Container, Hand, Client
<1>2. Lives'
  BY DEF BuilderInv, Daemon!BuilderTypeOK, Lives, Daemon!Exits, Daemon!At, Daemon!Probe, Daemon!settings
<1>3. Daemon!CapIsCurrent' /\ CapStays'
  BY DEF BuilderInv, Daemon!BuilderTypeOK, Daemon!CapIsCurrent, CapStays, Daemon!ResolveMemoryCap,
    Daemon!BuildkitMemoryCap, Daemon!Exits, Daemon!At, Daemon!Probe, Daemon!settings
<1>4. LeftBehind' /\ Unjudged' /\ Daemon!BuiltImageCounts'
  BY DEF BuilderInv, Daemon!BuilderTypeOK, Lives, LeftBehind, Unjudged, Daemon!BuiltImageCounts, Daemon!Exits, Daemon!At, Daemon!Probe, Daemon!settings
<1> QED BY <1>1, <1>2, <1>3, <1>4 DEF BuilderInv

LEMMA EnsureBuildkitQueuedKeeps ==
  ASSUME BuilderInv, Daemon!EnsureBuildkitQueued
  PROVE  BuilderInv'
<1>1. Daemon!BuilderTypeOK'
  <2>0. daemon \in Container /\ hand \in Hand /\ client \in Client /\ Daemon!ResolveMemoryCap \in Nat
    BY CapIsNat DEF BuilderInv, Daemon!BuilderTypeOK, Container, Hand, Client
  <2>1. daemon' \in Container
    BY <2>0, Pieces DEF Container, Daemon!EnsureBuildkitQueued, Daemon!At, Daemon!Probe, Daemon!settings
  <2>2. hand' \in Hand
    BY <2>0, Pieces DEF Hand, Daemon!EnsureBuildkitQueued, Daemon!At, Daemon!Probe, Daemon!settings
  <2>3. client' \in Client
    BY <2>0, Pieces DEF Client, Daemon!EnsureBuildkitQueued, Daemon!At, Daemon!Probe, Daemon!settings
  <2>4. /\ host' \in Hosts /\ override' \in Overrides /\ todo' \in Seq({"ensure", "build"})
        /\ bucket' \in BOOLEAN /\ verdict' \in {"none", "built", "starved", "timeout", "failed"}
        /\ ready' \in BOOLEAN /\ unstopped' \in BOOLEAN
    BY DEF BuilderInv, Daemon!BuilderTypeOK, Daemon!EnsureBuildkitQueued, Daemon!At, Daemon!Probe, Daemon!settings
  <2>5. builds' \in 0..MaxBuilds /\ mishaps' \in 0..MaxMishaps
    BY ServicesAssumption DEF BuilderInv, Daemon!BuilderTypeOK, Daemon!EnsureBuildkitQueued, Daemon!At, Daemon!Probe, Daemon!settings
  <2> QED BY <2>1, <2>2, <2>3, <2>4, <2>5 DEF Daemon!BuilderTypeOK, Container, Hand, Client
<1>2. Lives'
  BY DEF BuilderInv, Daemon!BuilderTypeOK, Lives, Daemon!EnsureBuildkitQueued, Daemon!At, Daemon!Probe, Daemon!settings
<1>3. Daemon!CapIsCurrent' /\ CapStays'
  BY DEF BuilderInv, Daemon!BuilderTypeOK, Daemon!CapIsCurrent, CapStays, Daemon!ResolveMemoryCap,
    Daemon!BuildkitMemoryCap, Daemon!EnsureBuildkitQueued, Daemon!At, Daemon!Probe, Daemon!settings
<1>4. LeftBehind' /\ Unjudged' /\ Daemon!BuiltImageCounts'
  BY DEF BuilderInv, Daemon!BuilderTypeOK, Lives, LeftBehind, Unjudged, Daemon!BuiltImageCounts, Daemon!EnsureBuildkitQueued, Daemon!At, Daemon!Probe, Daemon!settings
<1> QED BY <1>1, <1>2, <1>3, <1>4 DEF BuilderInv

LEMMA BucketRollsKeeps ==
  ASSUME BuilderInv, Daemon!BucketRolls
  PROVE  BuilderInv'
<1>1. Daemon!BuilderTypeOK'
  <2>0. daemon \in Container /\ hand \in Hand /\ client \in Client /\ Daemon!ResolveMemoryCap \in Nat
    BY CapIsNat DEF BuilderInv, Daemon!BuilderTypeOK, Container, Hand, Client
  <2>1. daemon' \in Container
    BY <2>0, Pieces DEF Container, Daemon!BucketRolls, Daemon!settings
  <2>2. hand' \in Hand
    BY <2>0, Pieces DEF Hand, Daemon!BucketRolls, Daemon!settings
  <2>3. client' \in Client
    BY <2>0, Pieces DEF Client, Daemon!BucketRolls, Daemon!settings
  <2>4. /\ host' \in Hosts /\ override' \in Overrides /\ todo' \in Seq({"ensure", "build"})
        /\ bucket' \in BOOLEAN /\ verdict' \in {"none", "built", "starved", "timeout", "failed"}
        /\ ready' \in BOOLEAN /\ unstopped' \in BOOLEAN
    BY DEF BuilderInv, Daemon!BuilderTypeOK, Daemon!BucketRolls, Daemon!settings
  <2>5. builds' \in 0..MaxBuilds /\ mishaps' \in 0..MaxMishaps
    BY ServicesAssumption DEF BuilderInv, Daemon!BuilderTypeOK, Daemon!BucketRolls, Daemon!settings
  <2> QED BY <2>1, <2>2, <2>3, <2>4, <2>5 DEF Daemon!BuilderTypeOK, Container, Hand, Client
<1>2. Lives'
  BY DEF BuilderInv, Daemon!BuilderTypeOK, Lives, Daemon!BucketRolls, Daemon!settings
<1>3. Daemon!CapIsCurrent' /\ CapStays'
  BY DEF BuilderInv, Daemon!BuilderTypeOK, Daemon!CapIsCurrent, CapStays, Daemon!ResolveMemoryCap,
    Daemon!BuildkitMemoryCap, Daemon!BucketRolls, Daemon!settings
<1>4. LeftBehind' /\ Unjudged' /\ Daemon!BuiltImageCounts'
  BY DEF BuilderInv, Daemon!BuilderTypeOK, Lives, LeftBehind, Unjudged, Daemon!BuiltImageCounts, Daemon!BucketRolls, Daemon!settings
<1> QED BY <1>1, <1>2, <1>3, <1>4 DEF BuilderInv

LEMMA BootKeeps ==
  ASSUME BuilderInv, Daemon!Boot
  PROVE  BuilderInv'
<1>1. Daemon!BuilderTypeOK'
  <2>0. daemon \in Container /\ hand \in Hand /\ client \in Client /\ Daemon!ResolveMemoryCap \in Nat
    BY CapIsNat DEF BuilderInv, Daemon!BuilderTypeOK, Container, Hand, Client
  <2>1. daemon' \in Container
    BY <2>0, Pieces DEF Container, Daemon!Boot, Daemon!At, Daemon!settings
  <2>2. hand' \in Hand
    BY <2>0, Pieces DEF Hand, Daemon!Boot, Daemon!At, Daemon!settings
  <2>3. client' \in Client
    BY <2>0, Pieces DEF Client, Daemon!Boot, Daemon!At, Daemon!settings
  <2>4. /\ host' \in Hosts /\ override' \in Overrides /\ todo' \in Seq({"ensure", "build"})
        /\ bucket' \in BOOLEAN /\ verdict' \in {"none", "built", "starved", "timeout", "failed"}
        /\ ready' \in BOOLEAN /\ unstopped' \in BOOLEAN
    BY DEF BuilderInv, Daemon!BuilderTypeOK, Daemon!Boot, Daemon!At, Daemon!settings
  <2>5. builds' \in 0..MaxBuilds /\ mishaps' \in 0..MaxMishaps
    BY ServicesAssumption DEF BuilderInv, Daemon!BuilderTypeOK, Daemon!Boot, Daemon!At, Daemon!settings
  <2> QED BY <2>1, <2>2, <2>3, <2>4, <2>5 DEF Daemon!BuilderTypeOK, Container, Hand, Client
<1>2. Lives'
  BY DEF BuilderInv, Daemon!BuilderTypeOK, Lives, Daemon!Boot, Daemon!At, Daemon!Rest, Daemon!settings
<1>3. Daemon!CapIsCurrent' /\ CapStays'
  BY DEF BuilderInv, Daemon!BuilderTypeOK, Daemon!CapIsCurrent, CapStays, Daemon!ResolveMemoryCap,
    Daemon!BuildkitMemoryCap, Daemon!Boot, Daemon!At, Daemon!Rest, Daemon!settings
<1>4. LeftBehind' /\ Unjudged' /\ Daemon!BuiltImageCounts'
  BY DEF BuilderInv, Daemon!BuilderTypeOK, Lives, LeftBehind, Unjudged, Daemon!BuiltImageCounts, Daemon!Boot, Daemon!At, Daemon!Rest, Daemon!settings
<1> QED BY <1>1, <1>2, <1>3, <1>4 DEF BuilderInv

LEMMA CrashKeeps ==
  ASSUME BuilderInv, Daemon!Crash
  PROVE  BuilderInv'
<1>1. Daemon!BuilderTypeOK'
  <2>0. daemon \in Container /\ hand \in Hand /\ client \in Client /\ Daemon!ResolveMemoryCap \in Nat
    BY CapIsNat DEF BuilderInv, Daemon!BuilderTypeOK, Container, Hand, Client
  <2>1. daemon' \in Container
    BY <2>0, Pieces DEF Container, Daemon!Crash, Daemon!At, Daemon!Mishap, Daemon!settings
  <2>2. hand' \in Hand
    BY <2>0, Pieces DEF Hand, Daemon!Crash, Daemon!At, Daemon!Mishap, Daemon!settings
  <2>3. client' \in Client
    BY <2>0, Pieces DEF Client, Daemon!Crash, Daemon!At, Daemon!Mishap, Daemon!settings
  <2>4. /\ host' \in Hosts /\ override' \in Overrides
        /\ bucket' \in BOOLEAN /\ verdict' \in {"none", "built", "starved", "timeout", "failed"}
        /\ ready' \in BOOLEAN /\ unstopped' \in BOOLEAN
    BY DEF BuilderInv, Daemon!BuilderTypeOK, Daemon!Crash, Daemon!settings
  <2>6. todo' \in Seq({"ensure", "build"})
    <3> DEFINE first == IF hand.pc \in {"look", "create", "start", "wait"} THEN "ensure" ELSE "build"
    <3>1. todo \in Seq({"ensure", "build"}) /\ << first >> \in Seq({"ensure", "build"})
      BY DEF BuilderInv, Daemon!BuilderTypeOK
    <3>2. << first >> \o todo \in Seq({"ensure", "build"})
      <4> HIDE DEF first
      <4> QED BY <3>1
    <3> QED BY <3>1, <3>2 DEF Daemon!Crash
  <2>5. builds' \in 0..MaxBuilds /\ mishaps' \in 0..MaxMishaps
    BY ServicesAssumption DEF BuilderInv, Daemon!BuilderTypeOK, Daemon!Crash, Daemon!At, Daemon!Mishap, Daemon!settings
  <2> QED BY <2>1, <2>2, <2>3, <2>4, <2>5, <2>6 DEF Daemon!BuilderTypeOK, Container, Hand, Client
<1>2. Lives'
  BY DEF BuilderInv, Daemon!BuilderTypeOK, Lives, Daemon!Crash, Daemon!At, Daemon!Mishap, Daemon!Rest, Daemon!NoClient, Daemon!settings
<1>3. Daemon!CapIsCurrent' /\ CapStays'
  BY DEF BuilderInv, Daemon!BuilderTypeOK, Daemon!CapIsCurrent, CapStays, Daemon!ResolveMemoryCap,
    Daemon!BuildkitMemoryCap, Daemon!Crash, Daemon!At, Daemon!Mishap, Daemon!Rest, Daemon!NoClient, Daemon!settings
<1>4. LeftBehind' /\ Unjudged' /\ Daemon!BuiltImageCounts'
  BY DEF BuilderInv, Daemon!BuilderTypeOK, Lives, LeftBehind, Unjudged, Daemon!BuiltImageCounts, Daemon!Crash, Daemon!At, Daemon!Mishap, Daemon!Rest, Daemon!NoClient, Daemon!settings
<1> QED BY <1>1, <1>2, <1>3, <1>4 DEF BuilderInv

LEMMA DaemonFailsKeeps ==
  ASSUME BuilderInv, Daemon!DaemonFails
  PROVE  BuilderInv'
<1>1. Daemon!BuilderTypeOK'
  <2>0. daemon \in Container /\ hand \in Hand /\ client \in Client /\ Daemon!ResolveMemoryCap \in Nat
    BY CapIsNat DEF BuilderInv, Daemon!BuilderTypeOK, Container, Hand, Client
  <2>1. daemon' \in Container
    BY <2>0, Pieces DEF Container, Daemon!DaemonFails, Daemon!Mishap, Daemon!settings
  <2>2. hand' \in Hand
    BY <2>0, Pieces DEF Hand, Daemon!DaemonFails, Daemon!Mishap, Daemon!settings
  <2>3. client' \in Client
    BY <2>0, Pieces DEF Client, Daemon!DaemonFails, Daemon!Mishap, Daemon!settings
  <2>4. /\ host' \in Hosts /\ override' \in Overrides /\ todo' \in Seq({"ensure", "build"})
        /\ bucket' \in BOOLEAN /\ verdict' \in {"none", "built", "starved", "timeout", "failed"}
        /\ ready' \in BOOLEAN /\ unstopped' \in BOOLEAN
    BY DEF BuilderInv, Daemon!BuilderTypeOK, Daemon!DaemonFails, Daemon!Mishap, Daemon!settings
  <2>5. builds' \in 0..MaxBuilds /\ mishaps' \in 0..MaxMishaps
    BY ServicesAssumption DEF BuilderInv, Daemon!BuilderTypeOK, Daemon!DaemonFails, Daemon!Mishap, Daemon!settings
  <2> QED BY <2>1, <2>2, <2>3, <2>4, <2>5 DEF Daemon!BuilderTypeOK, Container, Hand, Client
<1>2. /\ daemon'.made => daemon.made /\ daemon'.gen = daemon.gen /\ daemon'.cap = daemon.cap
      /\ daemon'.left => daemon.left
      /\ daemon'.up \/ daemon'.left => daemon'.made
  <2>0. daemon \in Container /\ daemon.made
    BY DEF BuilderInv, Lives, Daemon!BuilderTypeOK, Container, Daemon!DaemonFails
  <2>1. CASE daemon' = [daemon EXCEPT !.up = FALSE, !.hung = FALSE, !.left = FALSE]
    BY <2>0, <2>1 DEF Container
  <2>2. CASE daemon' = Daemon!NoDaemon
    BY <2>2 DEF Daemon!NoDaemon
  <2>3. CASE daemon' = [daemon EXCEPT !.hung = TRUE]
    BY <2>0, <2>3 DEF Container
  <2> QED BY <2>1, <2>2, <2>3 DEF Daemon!DaemonFails
<1>3. Lives' /\ Daemon!CapIsCurrent' /\ CapStays'
  BY <1>2 DEF BuilderInv, Lives, Daemon!CapIsCurrent, CapStays, Daemon!ResolveMemoryCap,
    Daemon!BuildkitMemoryCap, Daemon!DaemonFails, Daemon!settings
<1>4. LeftBehind' /\ Unjudged' /\ Daemon!BuiltImageCounts'
  BY <1>2 DEF BuilderInv, LeftBehind, Unjudged, Daemon!BuiltImageCounts, Daemon!DaemonFails
<1> QED BY <1>1, <1>3, <1>4 DEF BuilderInv

LEMMA BuilderNext == BuilderInv /\ Daemon!Next => BuilderInv'
  BY LookKeeps, CreateKeeps, StartKeeps, WaitForDaemonKeeps, TakeKeeps, BuildImageKeeps,
    RestartBuildkitKeeps, CallFailsKeeps, AskForBuildKeeps, PrintsKeeps, AskKeeps,
    AnsweredKeeps, TimesOutKeeps, ExitsKeeps, EnsureBuildkitQueuedKeeps, BucketRollsKeeps,
    BootKeeps, CrashKeeps, DaemonFailsKeeps
    DEF Daemon!Next, Daemon!Work

-----------------------------------------------------------------------------
(* GitHub's installations.                                                   *)

\* The types, by what keeps the state: GitHub, the database, the caches.
TheirsTyped ==
  grant \in [Ids -> 0..MaxGrants] /\ open \in [Ids -> BOOLEAN] /\ owner \in [Ids -> 0..MaxApps]
TablesTyped ==
  /\ app \in 0..MaxApps /\ apps \in 0..MaxApps /\ rows \in [Ids -> 0..MaxApps]
  /\ link \in Ids \cup {Grants!None} /\ replaced \in BOOLEAN
EventsTyped == events \subseteq [action : {"changed", "suspend", "deleted"}, id : Ids]
Mint == [pc : {"no", "asked", "answered"}, app : 0..MaxApps, grant : 0..MaxGrants]
CachesTyped ==
  /\ token \in [Ids -> 0..MaxGrants] /\ list \in [Ids -> 0..MaxGrants] /\ told \in [Ids -> 0..MaxGrants]
  /\ mint \in [Ids -> Mint] /\ fetches \subseteq Grants!Fetch
Sync == [pc : {"no", "asked", "answered"}, app : 0..MaxApps, ids : SUBSET Ids]
Call == [pc : {"no", "acquire", "mint", "sent"}, id : Ids \cup {Grants!None},
         grant : 0..MaxGrants, tries : 0..1, ok : BOOLEAN]
InFlightTyped == sync \in Sync /\ call \in Call /\ (call.pc # "no" => call.id \in Ids)
Typed == TheirsTyped /\ TablesTyped /\ EventsTyped /\ CachesTyped /\ InFlightTyped

\* musdash was told of the present grant or of an earlier one; an installation
\* that was never made has none, one that is gone lets nothing through.
ToldBefore ==
  \A i \in Ids : /\ grant[i] > 0 => told[i] <= grant[i]
                 /\ grant[i] = 0 => ~open[i]
                 /\ owner[i] = 0 => grant[i] = 0 /\ told[i] = 0

\* A fetch that may still be stored was answered under no earlier grant.
FreshIsCurrent == \A f \in fetches : f.fresh /\ f.grant # 0 => f.grant >= told[f.id]

GitHubInv == Typed /\ ToldBefore /\ FreshIsCurrent /\ Grants!ListsUnderTheGrant /\ Grants!LinksResolve

LEMMA TypesOfGitHub == Typed => Grants!GitHubTypeOK
  BY DEF Typed, TheirsTyped, TablesTyped, EventsTyped, CachesTyped, InFlightTyped, Mint, Sync, Call,
    Grants!GitHubTypeOK

LEMMA Zeroes ==
  0 \in 0..MaxGrants /\ 1 \in 0..MaxGrants /\ 0 \in 0..MaxApps /\ 0..MaxGrants \subseteq Nat
  BY ServicesAssumption

LEMMA Idle == Grants!NoMint \in Mint /\ Grants!NoSync \in Sync /\ Grants!NoCall \in Call
<1>1. Grants!NoMint \in Mint
  BY Zeroes DEF Mint, Grants!NoMint
<1>2. Grants!NoSync \in Sync /\ Grants!NoCall \in Call
  BY ServicesAssumption DEF Sync, Call, Grants!NoSync, Grants!NoCall
<1> QED BY <1>1, <1>2

\* How a mint moves.
LEMMA MintMoves ==
  /\ \A a \in 0..MaxApps : [pc |-> "asked", app |-> a, grant |-> 0] \in Mint
  /\ \A m \in Mint : \A g \in 0..MaxGrants : [m EXCEPT !.pc = "answered", !.grant = g] \in Mint
<1>1. \A a \in 0..MaxApps : [pc |-> "asked", app |-> a, grant |-> 0] \in Mint
  BY Zeroes DEF Mint
<1>2. \A m \in Mint : \A g \in 0..MaxGrants : [m EXCEPT !.pc = "answered", !.grant = g] \in Mint
  BY DEF Mint
<1> QED BY <1>1, <1>2

\* How a call moves.
LEMMA CallMoves ==
  ASSUME NEW c \in Call
  PROVE  /\ c.grant \in 0..MaxGrants /\ c.ok \in BOOLEAN
         /\ \A i \in Ids : [c EXCEPT !.pc = "acquire", !.id = i, !.tries = 0] \in Call
         /\ \A g \in 0..MaxGrants : [c EXCEPT !.pc = "sent", !.grant = g] \in Call
         /\ [c EXCEPT !.pc = "mint"] \in Call
         /\ [c EXCEPT !.pc = "acquire", !.grant = 0, !.tries = 1] \in Call
         /\ \A ok \in BOOLEAN :
              [c EXCEPT !.pc = "no", !.id = Grants!None, !.grant = 0, !.tries = 0, !.ok = ok] \in Call
<1>1. c.grant \in 0..MaxGrants /\ c.ok \in BOOLEAN
  BY DEF Call
<1>0. 0 \in 0..1 /\ 1 \in 0..1
  OBVIOUS
<1>2. \A i \in Ids : [c EXCEPT !.pc = "acquire", !.id = i, !.tries = 0] \in Call
  BY <1>0 DEF Call
<1>3. \A g \in 0..MaxGrants : [c EXCEPT !.pc = "sent", !.grant = g] \in Call
  BY DEF Call
<1>4. [c EXCEPT !.pc = "mint"] \in Call
  BY DEF Call
<1>5. [c EXCEPT !.pc = "acquire", !.grant = 0, !.tries = 1] \in Call
  BY <1>0, Zeroes DEF Call
<1>6. \A ok \in BOOLEAN :
         [c EXCEPT !.pc = "no", !.id = Grants!None, !.grant = 0, !.tries = 0, !.ok = ok] \in Call
  BY <1>0, Zeroes DEF Call
<1> QED BY <1>1, <1>2, <1>3, <1>4, <1>5, <1>6

LEMMA GitHubInit == Grants!Init => GitHubInv
<1> SUFFICES ASSUME Grants!Init PROVE GitHubInv
  OBVIOUS
<1>0. 0 \in 0..MaxGrants /\ 0 \in 0..MaxApps
  BY ServicesAssumption
<1>1. TheirsTyped /\ TablesTyped /\ EventsTyped
  <2>1. TheirsTyped
    BY <1>0 DEF Grants!Init, TheirsTyped
  <2>2. TablesTyped
    BY <1>0 DEF Grants!Init, TablesTyped
  <2>3. EventsTyped
    BY DEF Grants!Init, EventsTyped
  <2> QED BY <2>1, <2>2, <2>3
<1>2. CachesTyped
  BY ServicesAssumption, Idle DEF Grants!Init, CachesTyped
<1>3. InFlightTyped
  BY Idle DEF Grants!Init, InFlightTyped, Grants!NoCall
<1> QED
  BY <1>1, <1>2, <1>3 DEF Grants!Init, GitHubInv, Typed, ToldBefore, FreshIsCurrent,
    Grants!ListsUnderTheGrant, Grants!LinksResolve

\* What an event drops: afterwards nothing under way is stored, and what is
\* kept of the installations it names is gone.
LEMMA ForgetKeeps ==
  ASSUME CachesTyped, TheirsTyped, ToldBefore, Grants!ListsUnderTheGrant,
         NEW I \in SUBSET Ids, Grants!Forget(I), UNCHANGED Grants!theirs
  PROVE  CachesTyped' /\ ToldBefore' /\ FreshIsCurrent' /\ Grants!ListsUnderTheGrant'
<1> USE DEF Grants!Forget, Grants!InvalidateToken, Grants!RepoCacheForget, Grants!theirs
<1>1. token' \in [Ids -> 0..MaxGrants] /\ list' \in [Ids -> 0..MaxGrants] /\ told' \in [Ids -> 0..MaxGrants]
  <2>1. token' \in [Ids -> 0..MaxGrants]
    BY Zeroes DEF CachesTyped
  <2>2. list' \in [Ids -> 0..MaxGrants]
    BY Zeroes DEF CachesTyped
  <2>3. told' \in [Ids -> 0..MaxGrants]
    BY DEF CachesTyped, TheirsTyped
  <2> QED BY <2>1, <2>2, <2>3
<1>2. fetches' \subseteq Grants!Fetch /\ \A f \in fetches' : ~f.fresh
  <2> SUFFICES ASSUME NEW f \in fetches
               PROVE  LET g == [f EXCEPT !.now = f.now /\ f.id \notin I, !.fresh = FALSE]
                      IN  g \in Grants!Fetch /\ ~g.fresh
    OBVIOUS
  <2> DEFINE now == f.now /\ f.id \notin I
  <2>1. f \in Grants!Fetch /\ now \in BOOLEAN
    BY DEF CachesTyped, Grants!Fetch
  <2>2. [f EXCEPT !.now = now, !.fresh = FALSE] \in Grants!Fetch
    <3> HIDE DEF now
    <3> QED BY <2>1 DEF Grants!Fetch
  <2> QED BY <2>1, <2>2 DEF Grants!Fetch
<1>3. ToldBefore'
  <2> SUFFICES ASSUME NEW i \in Ids
               PROVE  /\ grant[i] > 0 => told'[i] <= grant[i]
                      /\ grant[i] = 0 => ~open[i]
                      /\ owner[i] = 0 => grant[i] = 0 /\ told'[i] = 0
    BY DEF ToldBefore
  <2> HIDE DEF Grants!Forget, Grants!InvalidateToken, Grants!RepoCacheForget
  <2>1. told'[i] = grant[i] \/ told'[i] = told[i]
    BY DEF Grants!Forget
  <2>2. grant[i] \in Nat /\ told[i] \in Nat
    BY Zeroes DEF CachesTyped, TheirsTyped
  <2> QED BY <2>1, <2>2 DEF ToldBefore
<1>4. Grants!ListsUnderTheGrant'
  BY DEF CachesTyped, TheirsTyped, Grants!ListsUnderTheGrant
<1> QED BY <1>1, <1>2, <1>3, <1>4 DEF CachesTyped, FreshIsCurrent

LEMMA ReplaceGithubAppKeeps ==
  ASSUME GitHubInv, Grants!ReplaceGithubApp
  PROVE  GitHubInv'
<1> USE DEF Grants!ReplaceGithubApp, Grants!theirs, Grants!ClearGitHubCaches, Grants!DeleteGithubApp
<1>0. TheirsTyped /\ TablesTyped /\ EventsTyped /\ CachesTyped /\ InFlightTyped
  BY DEF GitHubInv, Typed
<1>1. TheirsTyped'
  BY <1>0, ServicesAssumption DEF TheirsTyped, TablesTyped
<1>2. TablesTyped' /\ EventsTyped'
  BY <1>0, ServicesAssumption DEF TheirsTyped, TablesTyped, EventsTyped, InFlightTyped, Sync
<1>3. CachesTyped' /\ ToldBefore' /\ FreshIsCurrent' /\ Grants!ListsUnderTheGrant'
  BY <1>0, ForgetKeeps DEF GitHubInv
<1>4. InFlightTyped'
  <2>1. sync' \in Sync
    BY <1>0, Idle DEF TheirsTyped, TablesTyped, InFlightTyped, Sync
  <2>2. call' \in Call
    BY <1>0, Idle, CallMoves DEF TablesTyped, CachesTyped, InFlightTyped, Mint
  <2>3. call'.pc # "no" => call'.id \in Ids
    BY <1>0 DEF TablesTyped, InFlightTyped, Call
  <2> QED BY <2>1, <2>2, <2>3 DEF InFlightTyped
<1>6. Grants!LinksResolve'
  BY <1>0 DEF GitHubInv, TablesTyped, Grants!LinksResolve
<1> QED BY <1>1, <1>2, <1>3, <1>4, <1>6 DEF GitHubInv, Typed

LEMMA DisconnectKeeps ==
  ASSUME GitHubInv, Grants!Disconnect
  PROVE  GitHubInv'
<1> USE DEF Grants!Disconnect, Grants!theirs, Grants!None, Grants!ClearGitHubCaches, Grants!DeleteGithubApp, Grants!ClearGitLinkage
<1>0. TheirsTyped /\ TablesTyped /\ EventsTyped /\ CachesTyped /\ InFlightTyped
  BY DEF GitHubInv, Typed
<1>1. TheirsTyped'
  BY <1>0, ServicesAssumption DEF TheirsTyped, TablesTyped
<1>2. TablesTyped' /\ EventsTyped'
  BY <1>0, ServicesAssumption DEF TheirsTyped, TablesTyped, EventsTyped, InFlightTyped, Sync
<1>3. CachesTyped' /\ ToldBefore' /\ FreshIsCurrent' /\ Grants!ListsUnderTheGrant'
  BY <1>0, ForgetKeeps DEF GitHubInv
<1>4. InFlightTyped'
  <2>1. sync' \in Sync
    BY <1>0, Idle DEF TheirsTyped, TablesTyped, InFlightTyped, Sync
  <2>2. call' \in Call
    BY <1>0, Idle, CallMoves DEF TablesTyped, CachesTyped, InFlightTyped, Mint
  <2>3. call'.pc # "no" => call'.id \in Ids
    BY <1>0 DEF TablesTyped, InFlightTyped, Call
  <2> QED BY <2>1, <2>2, <2>3 DEF InFlightTyped
<1>6. Grants!LinksResolve'
  BY <1>0 DEF GitHubInv, TablesTyped, Grants!LinksResolve
<1> QED BY <1>1, <1>2, <1>3, <1>4, <1>6 DEF GitHubInv, Typed

LEMMA SetGitSourceKeeps ==
  ASSUME GitHubInv, Grants!SetGitSource
  PROVE  GitHubInv'
<1> USE DEF Grants!SetGitSource, Grants!theirs, Grants!caches
<1>0. TheirsTyped /\ TablesTyped /\ EventsTyped /\ CachesTyped /\ InFlightTyped
  BY DEF GitHubInv, Typed
<1>1. TheirsTyped'
  BY <1>0, ServicesAssumption DEF TheirsTyped, TablesTyped
<1>2. TablesTyped' /\ EventsTyped'
  BY <1>0, ServicesAssumption DEF TheirsTyped, TablesTyped, EventsTyped, InFlightTyped, Sync
<1>3. CachesTyped'
  <2>1. token' \in [Ids -> 0..MaxGrants] /\ list' \in [Ids -> 0..MaxGrants] /\ told' \in [Ids -> 0..MaxGrants]
    BY <1>0, Zeroes DEF TheirsTyped, CachesTyped, Mint, Grants!Fetch
  <2>2. mint' \in [Ids -> Mint]
    BY <1>0, Idle, Zeroes DEF TheirsTyped, CachesTyped, InFlightTyped
  <2>3. fetches' \subseteq Grants!Fetch
    BY <1>0, Zeroes DEF TheirsTyped, CachesTyped, Grants!Fetch
  <2> QED BY <2>1, <2>2, <2>3 DEF CachesTyped
<1>5. ToldBefore' /\ FreshIsCurrent' /\ Grants!ListsUnderTheGrant'
  BY <1>0 DEF GitHubInv, TheirsTyped, CachesTyped, ToldBefore, FreshIsCurrent, Grants!ListsUnderTheGrant, Grants!Fetch
<1>4. InFlightTyped'
  <2>1. sync' \in Sync
    BY <1>0, Idle DEF TheirsTyped, TablesTyped, InFlightTyped, Sync
  <2>2. call' \in Call
    BY <1>0, Idle, CallMoves DEF TablesTyped, CachesTyped, InFlightTyped, Mint
  <2>3. call'.pc # "no" => call'.id \in Ids
    BY <1>0 DEF TablesTyped, InFlightTyped, Call
  <2> QED BY <2>1, <2>2, <2>3 DEF InFlightTyped
<1>6. Grants!LinksResolve'
  BY <1>0 DEF GitHubInv, TablesTyped, Grants!LinksResolve
<1> QED BY <1>1, <1>2, <1>3, <1>4, <1>5, <1>6 DEF GitHubInv, Typed

LEMMA SyncBeginsKeeps ==
  ASSUME GitHubInv, Grants!SyncBegins
  PROVE  GitHubInv'
<1> USE DEF Grants!SyncBegins, Grants!theirs, Grants!tables, Grants!caches, Grants!Quiet
<1>0. TheirsTyped /\ TablesTyped /\ EventsTyped /\ CachesTyped /\ InFlightTyped
  BY DEF GitHubInv, Typed
<1>1. TheirsTyped'
  BY <1>0, ServicesAssumption DEF TheirsTyped, TablesTyped
<1>2. TablesTyped' /\ EventsTyped'
  BY <1>0, ServicesAssumption DEF TheirsTyped, TablesTyped, EventsTyped, InFlightTyped, Sync
<1>3. CachesTyped'
  <2>1. token' \in [Ids -> 0..MaxGrants] /\ list' \in [Ids -> 0..MaxGrants] /\ told' \in [Ids -> 0..MaxGrants]
    BY <1>0, Zeroes DEF TheirsTyped, CachesTyped, Mint, Grants!Fetch
  <2>2. mint' \in [Ids -> Mint]
    BY <1>0, Idle, Zeroes DEF TheirsTyped, CachesTyped, InFlightTyped
  <2>3. fetches' \subseteq Grants!Fetch
    BY <1>0, Zeroes DEF TheirsTyped, CachesTyped, Grants!Fetch
  <2> QED BY <2>1, <2>2, <2>3 DEF CachesTyped
<1>5. ToldBefore' /\ FreshIsCurrent' /\ Grants!ListsUnderTheGrant'
  BY <1>0 DEF GitHubInv, TheirsTyped, CachesTyped, ToldBefore, FreshIsCurrent, Grants!ListsUnderTheGrant, Grants!Fetch
<1>4. InFlightTyped'
  <2>1. sync' \in Sync
    BY <1>0, Idle DEF TheirsTyped, TablesTyped, InFlightTyped, Sync
  <2>2. call' \in Call
    BY <1>0, Idle, CallMoves DEF TablesTyped, CachesTyped, InFlightTyped, Mint
  <2>3. call'.pc # "no" => call'.id \in Ids
    BY <1>0 DEF TablesTyped, InFlightTyped, Call
  <2> QED BY <2>1, <2>2, <2>3 DEF InFlightTyped
<1>6. Grants!LinksResolve'
  BY <1>0 DEF GitHubInv, TablesTyped, Grants!LinksResolve
<1> QED BY <1>1, <1>2, <1>3, <1>4, <1>5, <1>6 DEF GitHubInv, Typed

LEMMA SyncAnsweredKeeps ==
  ASSUME GitHubInv, Grants!SyncAnswered
  PROVE  GitHubInv'
<1> USE DEF Grants!SyncAnswered, Grants!theirs, Grants!tables, Grants!caches
<1>0. TheirsTyped /\ TablesTyped /\ EventsTyped /\ CachesTyped /\ InFlightTyped
  BY DEF GitHubInv, Typed
<1>1. TheirsTyped'
  BY <1>0, ServicesAssumption DEF TheirsTyped, TablesTyped
<1>2. TablesTyped' /\ EventsTyped'
  BY <1>0, ServicesAssumption DEF TheirsTyped, TablesTyped, EventsTyped, InFlightTyped, Sync
<1>3. CachesTyped'
  <2>1. token' \in [Ids -> 0..MaxGrants] /\ list' \in [Ids -> 0..MaxGrants] /\ told' \in [Ids -> 0..MaxGrants]
    BY <1>0, Zeroes DEF TheirsTyped, CachesTyped, Mint, Grants!Fetch
  <2>2. mint' \in [Ids -> Mint]
    BY <1>0, Idle, Zeroes DEF TheirsTyped, CachesTyped, InFlightTyped
  <2>3. fetches' \subseteq Grants!Fetch
    BY <1>0, Zeroes DEF TheirsTyped, CachesTyped, Grants!Fetch
  <2> QED BY <2>1, <2>2, <2>3 DEF CachesTyped
<1>5. ToldBefore' /\ FreshIsCurrent' /\ Grants!ListsUnderTheGrant'
  BY <1>0 DEF GitHubInv, TheirsTyped, CachesTyped, ToldBefore, FreshIsCurrent, Grants!ListsUnderTheGrant, Grants!Fetch
<1>4. InFlightTyped'
  <2>1. sync' \in Sync
    BY <1>0, Idle DEF TheirsTyped, TablesTyped, InFlightTyped, Sync
  <2>2. call' \in Call
    BY <1>0, Idle, CallMoves DEF TablesTyped, CachesTyped, InFlightTyped, Mint
  <2>3. call'.pc # "no" => call'.id \in Ids
    BY <1>0 DEF TablesTyped, InFlightTyped, Call
  <2> QED BY <2>1, <2>2, <2>3 DEF InFlightTyped
<1>6. Grants!LinksResolve'
  BY <1>0 DEF GitHubInv, TablesTyped, Grants!LinksResolve
<1> QED BY <1>1, <1>2, <1>3, <1>4, <1>5, <1>6 DEF GitHubInv, Typed

LEMMA SyncInstallationsKeeps ==
  ASSUME GitHubInv, Grants!SyncInstallations
  PROVE  GitHubInv'
<1> USE DEF Grants!SyncInstallations, Grants!theirs, Grants!None, Grants!ClearGitHubCaches, Grants!ClearGitLinkage
<1>0. TheirsTyped /\ TablesTyped /\ EventsTyped /\ CachesTyped /\ InFlightTyped
  BY DEF GitHubInv, Typed
<1>1. TheirsTyped'
  BY <1>0, ServicesAssumption DEF TheirsTyped, TablesTyped
<1>2. TablesTyped' /\ EventsTyped'
  BY <1>0, ServicesAssumption DEF TheirsTyped, TablesTyped, EventsTyped, InFlightTyped, Sync
<1>3. CachesTyped' /\ ToldBefore' /\ FreshIsCurrent' /\ Grants!ListsUnderTheGrant'
  BY <1>0, ForgetKeeps DEF GitHubInv
<1>4. InFlightTyped'
  <2>1. sync' \in Sync
    BY <1>0, Idle DEF TheirsTyped, TablesTyped, InFlightTyped, Sync
  <2>2. call' \in Call
    BY <1>0, Idle, CallMoves DEF TablesTyped, CachesTyped, InFlightTyped, Mint
  <2>3. call'.pc # "no" => call'.id \in Ids
    BY <1>0 DEF TablesTyped, InFlightTyped, Call
  <2> QED BY <2>1, <2>2, <2>3 DEF InFlightTyped
<1>6. Grants!LinksResolve'
  BY <1>0 DEF GitHubInv, TablesTyped, Grants!LinksResolve
<1> QED BY <1>1, <1>2, <1>3, <1>4, <1>6 DEF GitHubInv, Typed

LEMMA SyncFailsKeeps ==
  ASSUME GitHubInv, Grants!SyncFails
  PROVE  GitHubInv'
<1> USE DEF Grants!SyncFails, Grants!theirs, Grants!tables, Grants!ClearGitHubCaches
<1>0. TheirsTyped /\ TablesTyped /\ EventsTyped /\ CachesTyped /\ InFlightTyped
  BY DEF GitHubInv, Typed
<1>1. TheirsTyped'
  BY <1>0, ServicesAssumption DEF TheirsTyped, TablesTyped
<1>2. TablesTyped' /\ EventsTyped'
  BY <1>0, ServicesAssumption DEF TheirsTyped, TablesTyped, EventsTyped, InFlightTyped, Sync
<1>3. CachesTyped' /\ ToldBefore' /\ FreshIsCurrent' /\ Grants!ListsUnderTheGrant'
  BY <1>0, ForgetKeeps DEF GitHubInv
<1>4. InFlightTyped'
  <2>1. sync' \in Sync
    BY <1>0, Idle DEF TheirsTyped, TablesTyped, InFlightTyped, Sync
  <2>2. call' \in Call
    BY <1>0, Idle, CallMoves DEF TablesTyped, CachesTyped, InFlightTyped, Mint
  <2>3. call'.pc # "no" => call'.id \in Ids
    BY <1>0 DEF TablesTyped, InFlightTyped, Call
  <2> QED BY <2>1, <2>2, <2>3 DEF InFlightTyped
<1>6. Grants!LinksResolve'
  BY <1>0 DEF GitHubInv, TablesTyped, Grants!LinksResolve
<1> QED BY <1>1, <1>2, <1>3, <1>4, <1>6 DEF GitHubInv, Typed

LEMMA HandleInstallationKeeps ==
  ASSUME GitHubInv, Grants!HandleInstallation
  PROVE  GitHubInv'
<1> USE DEF Grants!HandleInstallation, Grants!theirs, Grants!tables, Grants!caches, Grants!None, Grants!ForgetInstallation, Grants!ClearGitLinkage
<1>0. TheirsTyped /\ TablesTyped /\ EventsTyped /\ CachesTyped /\ InFlightTyped
  BY DEF GitHubInv, Typed
<1>1. TheirsTyped'
  BY <1>0, ServicesAssumption DEF TheirsTyped, TablesTyped
<1>2. TablesTyped' /\ EventsTyped'
  BY <1>0, ServicesAssumption DEF TheirsTyped, TablesTyped, EventsTyped, InFlightTyped, Sync
<1>3. CachesTyped' /\ ToldBefore' /\ FreshIsCurrent' /\ Grants!ListsUnderTheGrant'
  <2>1. CASE app = 0 /\ UNCHANGED <<Grants!tables, Grants!caches>>
    BY <2>1, <1>0 DEF GitHubInv, CachesTyped, ToldBefore, FreshIsCurrent, Grants!ListsUnderTheGrant
  <2>2. CASE \E e \in events : Grants!ForgetInstallation(e.id)
    BY <2>2, <1>0, ForgetKeeps DEF GitHubInv, EventsTyped
  <2> QED BY <2>1, <2>2
<1>4. InFlightTyped'
  <2>1. sync' \in Sync
    BY <1>0, Idle DEF TheirsTyped, TablesTyped, InFlightTyped, Sync
  <2>2. call' \in Call
    BY <1>0, Idle, CallMoves DEF TablesTyped, CachesTyped, InFlightTyped, Mint
  <2>3. call'.pc # "no" => call'.id \in Ids
    BY <1>0 DEF TablesTyped, InFlightTyped, Call
  <2> QED BY <2>1, <2>2, <2>3 DEF InFlightTyped
<1>6. Grants!LinksResolve'
  BY <1>0 DEF GitHubInv, TablesTyped, Grants!LinksResolve
<1> QED BY <1>1, <1>2, <1>3, <1>4, <1>6 DEF GitHubInv, Typed

LEMMA DeliveryLostKeeps ==
  ASSUME GitHubInv, Grants!DeliveryLost
  PROVE  GitHubInv'
<1> USE DEF Grants!DeliveryLost, Grants!theirs, Grants!tables, Grants!caches
<1>0. TheirsTyped /\ TablesTyped /\ EventsTyped /\ CachesTyped /\ InFlightTyped
  BY DEF GitHubInv, Typed
<1>1. TheirsTyped'
  BY <1>0, ServicesAssumption DEF TheirsTyped, TablesTyped
<1>2. TablesTyped' /\ EventsTyped'
  BY <1>0, ServicesAssumption DEF TheirsTyped, TablesTyped, EventsTyped, InFlightTyped, Sync
<1>3. CachesTyped'
  <2>1. token' \in [Ids -> 0..MaxGrants] /\ list' \in [Ids -> 0..MaxGrants] /\ told' \in [Ids -> 0..MaxGrants]
    BY <1>0, Zeroes DEF TheirsTyped, CachesTyped, Mint, Grants!Fetch
  <2>2. mint' \in [Ids -> Mint]
    BY <1>0, Idle, Zeroes DEF TheirsTyped, CachesTyped, InFlightTyped
  <2>3. fetches' \subseteq Grants!Fetch
    BY <1>0, Zeroes DEF TheirsTyped, CachesTyped, Grants!Fetch
  <2> QED BY <2>1, <2>2, <2>3 DEF CachesTyped
<1>5. ToldBefore' /\ FreshIsCurrent' /\ Grants!ListsUnderTheGrant'
  BY <1>0 DEF GitHubInv, TheirsTyped, CachesTyped, ToldBefore, FreshIsCurrent, Grants!ListsUnderTheGrant, Grants!Fetch
<1>4. InFlightTyped'
  <2>1. sync' \in Sync
    BY <1>0, Idle DEF TheirsTyped, TablesTyped, InFlightTyped, Sync
  <2>2. call' \in Call
    BY <1>0, Idle, CallMoves DEF TablesTyped, CachesTyped, InFlightTyped, Mint
  <2>3. call'.pc # "no" => call'.id \in Ids
    BY <1>0 DEF TablesTyped, InFlightTyped, Call
  <2> QED BY <2>1, <2>2, <2>3 DEF InFlightTyped
<1>6. Grants!LinksResolve'
  BY <1>0 DEF GitHubInv, TablesTyped, Grants!LinksResolve
<1> QED BY <1>1, <1>2, <1>3, <1>4, <1>5, <1>6 DEF GitHubInv, Typed

LEMMA StartCallKeeps ==
  ASSUME GitHubInv, Grants!StartCall
  PROVE  GitHubInv'
<1> USE DEF Grants!StartCall, Grants!theirs, Grants!tables, Grants!caches, Grants!None
<1>0. TheirsTyped /\ TablesTyped /\ EventsTyped /\ CachesTyped /\ InFlightTyped
  BY DEF GitHubInv, Typed
<1>1. TheirsTyped'
  BY <1>0, ServicesAssumption DEF TheirsTyped, TablesTyped
<1>2. TablesTyped' /\ EventsTyped'
  BY <1>0, ServicesAssumption DEF TheirsTyped, TablesTyped, EventsTyped, InFlightTyped, Sync
<1>3. CachesTyped'
  <2>1. token' \in [Ids -> 0..MaxGrants] /\ list' \in [Ids -> 0..MaxGrants] /\ told' \in [Ids -> 0..MaxGrants]
    BY <1>0, Zeroes DEF TheirsTyped, CachesTyped, Mint, Grants!Fetch
  <2>2. mint' \in [Ids -> Mint]
    BY <1>0, Idle, Zeroes DEF TheirsTyped, CachesTyped, InFlightTyped
  <2>3. fetches' \subseteq Grants!Fetch
    BY <1>0, Zeroes DEF TheirsTyped, CachesTyped, Grants!Fetch
  <2> QED BY <2>1, <2>2, <2>3 DEF CachesTyped
<1>5. ToldBefore' /\ FreshIsCurrent' /\ Grants!ListsUnderTheGrant'
  BY <1>0 DEF GitHubInv, TheirsTyped, CachesTyped, ToldBefore, FreshIsCurrent, Grants!ListsUnderTheGrant, Grants!Fetch
<1>4. InFlightTyped'
  <2>1. sync' \in Sync
    BY <1>0, Idle DEF TheirsTyped, TablesTyped, InFlightTyped, Sync
  <2>2. call' \in Call
    BY <1>0, CallMoves DEF TablesTyped, InFlightTyped
  <2>3. call'.pc # "no" => call'.id \in Ids
    BY <1>0 DEF TablesTyped, InFlightTyped, Call
  <2> QED BY <2>1, <2>2, <2>3 DEF InFlightTyped
<1>6. Grants!LinksResolve'
  BY <1>0 DEF GitHubInv, TablesTyped, Grants!LinksResolve
<1> QED BY <1>1, <1>2, <1>3, <1>4, <1>5, <1>6 DEF GitHubInv, Typed

LEMMA InstallationTokenKeeps ==
  ASSUME GitHubInv, Grants!InstallationToken
  PROVE  GitHubInv'
<1> USE DEF Grants!InstallationToken, Grants!theirs, Grants!tables
<1>0. TheirsTyped /\ TablesTyped /\ EventsTyped /\ CachesTyped /\ InFlightTyped
  BY DEF GitHubInv, Typed
<1>1. TheirsTyped'
  BY <1>0, ServicesAssumption DEF TheirsTyped, TablesTyped
<1>2. TablesTyped' /\ EventsTyped'
  BY <1>0, ServicesAssumption DEF TheirsTyped, TablesTyped, EventsTyped, InFlightTyped, Sync
<1>3. CachesTyped'
  <2>1. token' \in [Ids -> 0..MaxGrants] /\ list' \in [Ids -> 0..MaxGrants] /\ told' \in [Ids -> 0..MaxGrants]
    BY <1>0, Zeroes DEF TheirsTyped, CachesTyped, Mint, Grants!Fetch
  <2>2. mint' \in [Ids -> Mint]
    <3>1. [pc |-> "asked", app |-> app, grant |-> 0] \in Mint
      BY <1>0, MintMoves DEF TablesTyped
    <3> QED BY <1>0, <3>1 DEF CachesTyped
  <2>3. fetches' \subseteq Grants!Fetch
    BY <1>0, Zeroes DEF TheirsTyped, CachesTyped, Grants!Fetch
  <2> QED BY <2>1, <2>2, <2>3 DEF CachesTyped
<1>5. ToldBefore' /\ FreshIsCurrent' /\ Grants!ListsUnderTheGrant'
  BY <1>0 DEF GitHubInv, TheirsTyped, CachesTyped, ToldBefore, FreshIsCurrent, Grants!ListsUnderTheGrant, Grants!Fetch
<1>4. InFlightTyped'
  <2>1. sync' \in Sync
    BY <1>0, Idle DEF TheirsTyped, TablesTyped, InFlightTyped, Sync
  <2>2. call' \in Call
    <3>1. token[call.id] \in 0..MaxGrants
      BY <1>0 DEF CachesTyped, InFlightTyped
    <3> QED BY <1>0, <3>1, CallMoves DEF InFlightTyped
  <2>3. call'.pc # "no" => call'.id \in Ids
    BY <1>0 DEF TablesTyped, InFlightTyped, Call
  <2> QED BY <2>1, <2>2, <2>3 DEF InFlightTyped
<1>6. Grants!LinksResolve'
  BY <1>0 DEF GitHubInv, TablesTyped, Grants!LinksResolve
<1> QED BY <1>1, <1>2, <1>3, <1>4, <1>5, <1>6 DEF GitHubInv, Typed

LEMMA MintAnsweredKeeps ==
  ASSUME GitHubInv, Grants!MintAnswered
  PROVE  GitHubInv'
<1> USE DEF Grants!MintAnswered, Grants!theirs, Grants!tables
<1>0. TheirsTyped /\ TablesTyped /\ EventsTyped /\ CachesTyped /\ InFlightTyped
  BY DEF GitHubInv, Typed
<1>1. TheirsTyped'
  BY <1>0, ServicesAssumption DEF TheirsTyped, TablesTyped
<1>2. TablesTyped' /\ EventsTyped'
  BY <1>0, ServicesAssumption DEF TheirsTyped, TablesTyped, EventsTyped, InFlightTyped, Sync
<1>3. CachesTyped'
  <2>1. token' \in [Ids -> 0..MaxGrants] /\ list' \in [Ids -> 0..MaxGrants] /\ told' \in [Ids -> 0..MaxGrants]
    BY <1>0, Zeroes DEF TheirsTyped, CachesTyped, Mint, Grants!Fetch
  <2>2. mint' \in [Ids -> Mint]
    <3>1. \A i \in Ids : [mint[i] EXCEPT !.pc = "answered", !.grant = grant[i]] \in Mint
      BY <1>0, MintMoves DEF TheirsTyped, CachesTyped
    <3> QED BY <1>0, <3>1 DEF CachesTyped
  <2>3. fetches' \subseteq Grants!Fetch
    BY <1>0, Zeroes DEF TheirsTyped, CachesTyped, Grants!Fetch
  <2> QED BY <2>1, <2>2, <2>3 DEF CachesTyped
<1>5. ToldBefore' /\ FreshIsCurrent' /\ Grants!ListsUnderTheGrant'
  BY <1>0 DEF GitHubInv, TheirsTyped, CachesTyped, ToldBefore, FreshIsCurrent, Grants!ListsUnderTheGrant, Grants!Fetch
<1>4. InFlightTyped'
  <2>1. sync' \in Sync
    BY <1>0, Idle DEF TheirsTyped, TablesTyped, InFlightTyped, Sync
  <2>2. call' \in Call
    BY <1>0, Idle, CallMoves DEF TablesTyped, CachesTyped, InFlightTyped, Mint
  <2>3. call'.pc # "no" => call'.id \in Ids
    BY <1>0 DEF TablesTyped, InFlightTyped, Call
  <2> QED BY <2>1, <2>2, <2>3 DEF InFlightTyped
<1>6. Grants!LinksResolve'
  BY <1>0 DEF GitHubInv, TablesTyped, Grants!LinksResolve
<1> QED BY <1>1, <1>2, <1>3, <1>4, <1>5, <1>6 DEF GitHubInv, Typed

LEMMA MintEndsKeeps ==
  ASSUME GitHubInv, Grants!MintEnds
  PROVE  GitHubInv'
<1> USE DEF Grants!MintEnds, Grants!theirs, Grants!tables, Grants!Waits
<1>0. TheirsTyped /\ TablesTyped /\ EventsTyped /\ CachesTyped /\ InFlightTyped
  BY DEF GitHubInv, Typed
<1>1. TheirsTyped'
  BY <1>0, ServicesAssumption DEF TheirsTyped, TablesTyped
<1>2. TablesTyped' /\ EventsTyped'
  BY <1>0, ServicesAssumption DEF TheirsTyped, TablesTyped, EventsTyped, InFlightTyped, Sync
<1>3. CachesTyped'
  <2>1. token' \in [Ids -> 0..MaxGrants] /\ list' \in [Ids -> 0..MaxGrants] /\ told' \in [Ids -> 0..MaxGrants]
    BY <1>0, Zeroes DEF TheirsTyped, CachesTyped, Mint, Grants!Fetch
  <2>2. mint' \in [Ids -> Mint]
    BY <1>0, Idle, Zeroes DEF TheirsTyped, CachesTyped, InFlightTyped
  <2>3. fetches' \subseteq Grants!Fetch
    BY <1>0, Zeroes DEF TheirsTyped, CachesTyped, Grants!Fetch
  <2> QED BY <2>1, <2>2, <2>3 DEF CachesTyped
<1>5. ToldBefore' /\ FreshIsCurrent' /\ Grants!ListsUnderTheGrant'
  BY <1>0 DEF GitHubInv, TheirsTyped, CachesTyped, ToldBefore, FreshIsCurrent, Grants!ListsUnderTheGrant, Grants!Fetch
<1>4. InFlightTyped'
  <2>1. sync' \in Sync
    BY <1>0, Idle DEF TheirsTyped, TablesTyped, InFlightTyped, Sync
  <2>2. call' \in Call
    <3>1. \A i \in Ids : mint[i].grant \in 0..MaxGrants
      BY <1>0 DEF CachesTyped, Mint
    <3>2. \A i \in Ids : [call EXCEPT !.pc = "sent", !.grant = mint[i].grant] \in Call
      BY <1>0, <3>1, CallMoves DEF InFlightTyped
    <3>3. call' = call \/ \E i \in Ids : call' = [call EXCEPT !.pc = "sent", !.grant = mint[i].grant]
      OBVIOUS
    <3> QED BY <1>0, <3>2, <3>3 DEF InFlightTyped
  <2>3. call'.pc # "no" => call'.id \in Ids
    BY <1>0 DEF TablesTyped, InFlightTyped, Call
  <2> QED BY <2>1, <2>2, <2>3 DEF InFlightTyped
<1>6. Grants!LinksResolve'
  BY <1>0 DEF GitHubInv, TablesTyped, Grants!LinksResolve
<1> QED BY <1>1, <1>2, <1>3, <1>4, <1>5, <1>6 DEF GitHubInv, Typed

LEMMA MintFailsKeeps ==
  ASSUME GitHubInv, Grants!MintFails
  PROVE  GitHubInv'
<1> USE DEF Grants!MintFails, Grants!Fails, Grants!theirs, Grants!tables, Grants!None, Grants!Ended, Grants!Waits
<1>0. TheirsTyped /\ TablesTyped /\ EventsTyped /\ CachesTyped /\ InFlightTyped
  BY DEF GitHubInv, Typed
<1>1. TheirsTyped'
  BY <1>0, ServicesAssumption DEF TheirsTyped, TablesTyped
<1>2. TablesTyped' /\ EventsTyped'
  BY <1>0, ServicesAssumption DEF TheirsTyped, TablesTyped, EventsTyped, InFlightTyped, Sync
<1>3. CachesTyped'
  <2>1. token' \in [Ids -> 0..MaxGrants] /\ list' \in [Ids -> 0..MaxGrants] /\ told' \in [Ids -> 0..MaxGrants]
    BY <1>0, Zeroes DEF TheirsTyped, CachesTyped, Mint, Grants!Fetch
  <2>2. mint' \in [Ids -> Mint]
    BY <1>0, Idle, Zeroes DEF TheirsTyped, CachesTyped, InFlightTyped
  <2>3. fetches' \subseteq Grants!Fetch
    BY <1>0, Zeroes DEF TheirsTyped, CachesTyped, Grants!Fetch
  <2> QED BY <2>1, <2>2, <2>3 DEF CachesTyped
<1>5. ToldBefore' /\ FreshIsCurrent' /\ Grants!ListsUnderTheGrant'
  BY <1>0 DEF GitHubInv, TheirsTyped, CachesTyped, ToldBefore, FreshIsCurrent, Grants!ListsUnderTheGrant, Grants!Fetch
<1>4. InFlightTyped'
  <2>1. sync' \in Sync
    BY <1>0, Idle DEF TheirsTyped, TablesTyped, InFlightTyped, Sync
  <2>2. call' \in Call
    BY <1>0, CallMoves DEF InFlightTyped
  <2>3. call'.pc # "no" => call'.id \in Ids
    BY <1>0 DEF TablesTyped, InFlightTyped, Call
  <2> QED BY <2>1, <2>2, <2>3 DEF InFlightTyped
<1>6. Grants!LinksResolve'
  BY <1>0 DEF GitHubInv, TablesTyped, Grants!LinksResolve
<1> QED BY <1>1, <1>2, <1>3, <1>4, <1>5, <1>6 DEF GitHubInv, Typed

LEMMA TokenExpiresKeeps ==
  ASSUME GitHubInv, Grants!TokenExpires
  PROVE  GitHubInv'
<1> USE DEF Grants!TokenExpires, Grants!theirs, Grants!tables
<1>0. TheirsTyped /\ TablesTyped /\ EventsTyped /\ CachesTyped /\ InFlightTyped
  BY DEF GitHubInv, Typed
<1>1. TheirsTyped'
  BY <1>0, ServicesAssumption DEF TheirsTyped, TablesTyped
<1>2. TablesTyped' /\ EventsTyped'
  BY <1>0, ServicesAssumption DEF TheirsTyped, TablesTyped, EventsTyped, InFlightTyped, Sync
<1>3. CachesTyped'
  <2>1. token' \in [Ids -> 0..MaxGrants] /\ list' \in [Ids -> 0..MaxGrants] /\ told' \in [Ids -> 0..MaxGrants]
    BY <1>0, Zeroes DEF TheirsTyped, CachesTyped, Mint, Grants!Fetch
  <2>2. mint' \in [Ids -> Mint]
    BY <1>0, Idle, Zeroes DEF TheirsTyped, CachesTyped, InFlightTyped
  <2>3. fetches' \subseteq Grants!Fetch
    BY <1>0, Zeroes DEF TheirsTyped, CachesTyped, Grants!Fetch
  <2> QED BY <2>1, <2>2, <2>3 DEF CachesTyped
<1>5. ToldBefore' /\ FreshIsCurrent' /\ Grants!ListsUnderTheGrant'
  BY <1>0 DEF GitHubInv, TheirsTyped, CachesTyped, ToldBefore, FreshIsCurrent, Grants!ListsUnderTheGrant, Grants!Fetch
<1>4. InFlightTyped'
  <2>1. sync' \in Sync
    BY <1>0, Idle DEF TheirsTyped, TablesTyped, InFlightTyped, Sync
  <2>2. call' \in Call
    BY <1>0, Idle, CallMoves DEF TablesTyped, CachesTyped, InFlightTyped, Mint
  <2>3. call'.pc # "no" => call'.id \in Ids
    BY <1>0 DEF TablesTyped, InFlightTyped, Call
  <2> QED BY <2>1, <2>2, <2>3 DEF InFlightTyped
<1>6. Grants!LinksResolve'
  BY <1>0 DEF GitHubInv, TablesTyped, Grants!LinksResolve
<1> QED BY <1>1, <1>2, <1>3, <1>4, <1>5, <1>6 DEF GitHubInv, Typed

LEMMA WithTokenRetryKeeps ==
  ASSUME GitHubInv, Grants!WithTokenRetry
  PROVE  GitHubInv'
<1> USE DEF Grants!WithTokenRetry, Grants!theirs, Grants!tables, Grants!None, Grants!Accepted, Grants!Ended, Grants!DropIfCurrent
<1>0. TheirsTyped /\ TablesTyped /\ EventsTyped /\ CachesTyped /\ InFlightTyped
  BY DEF GitHubInv, Typed
<1>1. TheirsTyped'
  BY <1>0, ServicesAssumption DEF TheirsTyped, TablesTyped
<1>2. TablesTyped' /\ EventsTyped'
  BY <1>0, ServicesAssumption DEF TheirsTyped, TablesTyped, EventsTyped, InFlightTyped, Sync
<1>3. CachesTyped'
  <2>1. token' \in [Ids -> 0..MaxGrants] /\ list' \in [Ids -> 0..MaxGrants] /\ told' \in [Ids -> 0..MaxGrants]
    BY <1>0, Zeroes DEF TheirsTyped, CachesTyped, Mint, Grants!Fetch
  <2>2. mint' \in [Ids -> Mint]
    BY <1>0, Idle, Zeroes DEF TheirsTyped, CachesTyped, InFlightTyped
  <2>3. fetches' \subseteq Grants!Fetch
    BY <1>0, Zeroes DEF TheirsTyped, CachesTyped, Grants!Fetch
  <2> QED BY <2>1, <2>2, <2>3 DEF CachesTyped
<1>5. ToldBefore' /\ FreshIsCurrent' /\ Grants!ListsUnderTheGrant'
  BY <1>0 DEF GitHubInv, TheirsTyped, CachesTyped, ToldBefore, FreshIsCurrent, Grants!ListsUnderTheGrant, Grants!Fetch
<1>4. InFlightTyped'
  <2>1. sync' \in Sync
    BY <1>0, Idle DEF TheirsTyped, TablesTyped, InFlightTyped, Sync
  <2>2. call' \in Call
    BY <1>0, CallMoves DEF InFlightTyped
  <2>3. call'.pc # "no" => call'.id \in Ids
    BY <1>0 DEF TablesTyped, InFlightTyped, Call
  <2> QED BY <2>1, <2>2, <2>3 DEF InFlightTyped
<1>6. Grants!LinksResolve'
  BY <1>0 DEF GitHubInv, TablesTyped, Grants!LinksResolve
<1> QED BY <1>1, <1>2, <1>3, <1>4, <1>5, <1>6 DEF GitHubInv, Typed

LEMMA RepoCacheGetKeeps ==
  ASSUME GitHubInv, Grants!RepoCacheGet
  PROVE  GitHubInv'
<1> USE DEF Grants!RepoCacheGet, Grants!theirs, Grants!tables, Grants!Quiet
<1>0. TheirsTyped /\ TablesTyped /\ EventsTyped /\ CachesTyped /\ InFlightTyped
  BY DEF GitHubInv, Typed
<1>1. TheirsTyped'
  BY <1>0, ServicesAssumption DEF TheirsTyped, TablesTyped
<1>2. TablesTyped' /\ EventsTyped'
  BY <1>0, ServicesAssumption DEF TheirsTyped, TablesTyped, EventsTyped, InFlightTyped, Sync
<1>3. CachesTyped'
  <2>1. token' \in [Ids -> 0..MaxGrants] /\ list' \in [Ids -> 0..MaxGrants] /\ told' \in [Ids -> 0..MaxGrants]
    BY <1>0, Zeroes DEF TheirsTyped, CachesTyped, Mint, Grants!Fetch
  <2>2. mint' \in [Ids -> Mint]
    BY <1>0, Idle, Zeroes DEF TheirsTyped, CachesTyped, InFlightTyped
  <2>3. fetches' \subseteq Grants!Fetch
    <3>1. \A i \in Ids : [id |-> i, grant |-> 0, now |-> TRUE, fresh |-> TRUE] \in Grants!Fetch
      BY Zeroes DEF Grants!Fetch
    <3> QED BY <1>0, <3>1 DEF CachesTyped
  <2> QED BY <2>1, <2>2, <2>3 DEF CachesTyped
<1>5. ToldBefore' /\ FreshIsCurrent' /\ Grants!ListsUnderTheGrant'
  BY <1>0 DEF GitHubInv, TheirsTyped, CachesTyped, ToldBefore, FreshIsCurrent, Grants!ListsUnderTheGrant, Grants!Fetch
<1>4. InFlightTyped'
  <2>1. sync' \in Sync
    BY <1>0, Idle DEF TheirsTyped, TablesTyped, InFlightTyped, Sync
  <2>2. call' \in Call
    BY <1>0, Idle, CallMoves DEF TablesTyped, CachesTyped, InFlightTyped, Mint
  <2>3. call'.pc # "no" => call'.id \in Ids
    BY <1>0 DEF TablesTyped, InFlightTyped, Call
  <2> QED BY <2>1, <2>2, <2>3 DEF InFlightTyped
<1>6. Grants!LinksResolve'
  BY <1>0 DEF GitHubInv, TablesTyped, Grants!LinksResolve
<1> QED BY <1>1, <1>2, <1>3, <1>4, <1>5, <1>6 DEF GitHubInv, Typed

LEMMA ListAnsweredKeeps ==
  ASSUME GitHubInv, Grants!ListAnswered
  PROVE  GitHubInv'
<1> USE DEF Grants!ListAnswered, Grants!theirs, Grants!tables
<1>0. TheirsTyped /\ TablesTyped /\ EventsTyped /\ CachesTyped /\ InFlightTyped
  BY DEF GitHubInv, Typed
<1>1. TheirsTyped'
  BY <1>0, ServicesAssumption DEF TheirsTyped, TablesTyped
<1>2. TablesTyped' /\ EventsTyped'
  BY <1>0, ServicesAssumption DEF TheirsTyped, TablesTyped, EventsTyped, InFlightTyped, Sync
<1>3. CachesTyped'
  <2>1. token' \in [Ids -> 0..MaxGrants] /\ list' \in [Ids -> 0..MaxGrants] /\ told' \in [Ids -> 0..MaxGrants]
    BY <1>0, Zeroes DEF TheirsTyped, CachesTyped, Mint, Grants!Fetch
  <2>2. mint' \in [Ids -> Mint]
    BY <1>0, Idle, Zeroes DEF TheirsTyped, CachesTyped, InFlightTyped
  <2>3. fetches' \subseteq Grants!Fetch
    <3>1. \A f \in Grants!Fetch : \A g \in 0..MaxGrants : [f EXCEPT !.grant = g] \in Grants!Fetch
      BY DEF Grants!Fetch
    <3>2. \A f \in fetches : f \in Grants!Fetch /\ f.id \in Ids /\ (f.id \in Ids => grant[f.id] \in 0..MaxGrants)
      BY <1>0 DEF TheirsTyped, CachesTyped, Grants!Fetch
    <3> QED BY <3>1, <3>2
  <2> QED BY <2>1, <2>2, <2>3 DEF CachesTyped
<1>5. ToldBefore' /\ FreshIsCurrent' /\ Grants!ListsUnderTheGrant'
  <2>1. ToldBefore' /\ Grants!ListsUnderTheGrant'
    BY DEF GitHubInv, ToldBefore, Grants!ListsUnderTheGrant
  <2>2. PICK f \in fetches : f.grant = 0 /\ open[f.id] /\ fetches' = (fetches \ {f}) \cup {[f EXCEPT !.grant = grant[f.id]]}
    OBVIOUS
  <2> DEFINE g == [f EXCEPT !.grant = grant[f.id]]
  <2>3. f \in Grants!Fetch /\ f.id \in Ids /\ g.grant = grant[f.id] /\ g.id = f.id
    BY <1>0 DEF CachesTyped, Grants!Fetch
  <2>4. grant[f.id] \in 0..MaxGrants /\ told[f.id] \in 0..MaxGrants
    BY <1>0, <2>3 DEF TheirsTyped, CachesTyped
  <2>5. g.grant >= told[g.id]
    <3>0. f.id \in Ids /\ open[f.id] /\ ToldBefore
      BY <2>2, <2>3 DEF GitHubInv
    <3>1. grant[f.id] # 0 /\ (grant[f.id] > 0 => told[f.id] <= grant[f.id])
      BY <3>0 DEF ToldBefore
    <3>2. grant[f.id] >= told[f.id]
      BY <2>4, <3>1
    <3> HIDE DEF g
    <3> QED BY <2>3, <3>2
  <2>6. \A h \in fetches' : h = g \/ h \in fetches
    BY <2>2
  <2> HIDE DEF g
  <2>7. FreshIsCurrent'
    BY <2>5, <2>6 DEF GitHubInv, FreshIsCurrent
  <2> QED BY <2>1, <2>7
<1>4. InFlightTyped'
  <2>1. sync' \in Sync
    BY <1>0, Idle DEF TheirsTyped, TablesTyped, InFlightTyped, Sync
  <2>2. call' \in Call
    BY <1>0, Idle, CallMoves DEF TablesTyped, CachesTyped, InFlightTyped, Mint
  <2>3. call'.pc # "no" => call'.id \in Ids
    BY <1>0 DEF TablesTyped, InFlightTyped, Call
  <2> QED BY <2>1, <2>2, <2>3 DEF InFlightTyped
<1>6. Grants!LinksResolve'
  BY <1>0 DEF GitHubInv, TablesTyped, Grants!LinksResolve
<1> QED BY <1>1, <1>2, <1>3, <1>4, <1>5, <1>6 DEF GitHubInv, Typed

LEMMA RefreshKeeps ==
  ASSUME GitHubInv, Grants!Refresh
  PROVE  GitHubInv'
<1> USE DEF Grants!Refresh, Grants!theirs, Grants!tables
<1>0. TheirsTyped /\ TablesTyped /\ EventsTyped /\ CachesTyped /\ InFlightTyped
  BY DEF GitHubInv, Typed
<1>1. TheirsTyped'
  BY <1>0, ServicesAssumption DEF TheirsTyped, TablesTyped
<1>2. TablesTyped' /\ EventsTyped'
  BY <1>0, ServicesAssumption DEF TheirsTyped, TablesTyped, EventsTyped, InFlightTyped, Sync
<1>3. CachesTyped'
  <2>1. token' \in [Ids -> 0..MaxGrants] /\ list' \in [Ids -> 0..MaxGrants] /\ told' \in [Ids -> 0..MaxGrants]
    BY <1>0, Zeroes DEF TheirsTyped, CachesTyped, Mint, Grants!Fetch
  <2>2. mint' \in [Ids -> Mint]
    BY <1>0, Idle, Zeroes DEF TheirsTyped, CachesTyped, InFlightTyped
  <2>3. fetches' \subseteq Grants!Fetch
    BY <1>0, Zeroes DEF TheirsTyped, CachesTyped, Grants!Fetch
  <2> QED BY <2>1, <2>2, <2>3 DEF CachesTyped
<1>5. ToldBefore' /\ FreshIsCurrent' /\ Grants!ListsUnderTheGrant'
  BY <1>0 DEF GitHubInv, TheirsTyped, CachesTyped, ToldBefore, FreshIsCurrent, Grants!ListsUnderTheGrant, Grants!Fetch
<1>4. InFlightTyped'
  <2>1. sync' \in Sync
    BY <1>0, Idle DEF TheirsTyped, TablesTyped, InFlightTyped, Sync
  <2>2. call' \in Call
    BY <1>0, Idle, CallMoves DEF TablesTyped, CachesTyped, InFlightTyped, Mint
  <2>3. call'.pc # "no" => call'.id \in Ids
    BY <1>0 DEF TablesTyped, InFlightTyped, Call
  <2> QED BY <2>1, <2>2, <2>3 DEF InFlightTyped
<1>6. Grants!LinksResolve'
  BY <1>0 DEF GitHubInv, TablesTyped, Grants!LinksResolve
<1> QED BY <1>1, <1>2, <1>3, <1>4, <1>5, <1>6 DEF GitHubInv, Typed

LEMMA RefreshFailsKeeps ==
  ASSUME GitHubInv, Grants!RefreshFails
  PROVE  GitHubInv'
<1> USE DEF Grants!RefreshFails, Grants!theirs, Grants!tables
<1>0. TheirsTyped /\ TablesTyped /\ EventsTyped /\ CachesTyped /\ InFlightTyped
  BY DEF GitHubInv, Typed
<1>1. TheirsTyped'
  BY <1>0, ServicesAssumption DEF TheirsTyped, TablesTyped
<1>2. TablesTyped' /\ EventsTyped'
  BY <1>0, ServicesAssumption DEF TheirsTyped, TablesTyped, EventsTyped, InFlightTyped, Sync
<1>3. CachesTyped'
  <2>1. token' \in [Ids -> 0..MaxGrants] /\ list' \in [Ids -> 0..MaxGrants] /\ told' \in [Ids -> 0..MaxGrants]
    BY <1>0, Zeroes DEF TheirsTyped, CachesTyped, Mint, Grants!Fetch
  <2>2. mint' \in [Ids -> Mint]
    BY <1>0, Idle, Zeroes DEF TheirsTyped, CachesTyped, InFlightTyped
  <2>3. fetches' \subseteq Grants!Fetch
    BY <1>0, Zeroes DEF TheirsTyped, CachesTyped, Grants!Fetch
  <2> QED BY <2>1, <2>2, <2>3 DEF CachesTyped
<1>5. ToldBefore' /\ FreshIsCurrent' /\ Grants!ListsUnderTheGrant'
  BY <1>0 DEF GitHubInv, TheirsTyped, CachesTyped, ToldBefore, FreshIsCurrent, Grants!ListsUnderTheGrant, Grants!Fetch
<1>4. InFlightTyped'
  <2>1. sync' \in Sync
    BY <1>0, Idle DEF TheirsTyped, TablesTyped, InFlightTyped, Sync
  <2>2. call' \in Call
    BY <1>0, Idle, CallMoves DEF TablesTyped, CachesTyped, InFlightTyped, Mint
  <2>3. call'.pc # "no" => call'.id \in Ids
    BY <1>0 DEF TablesTyped, InFlightTyped, Call
  <2> QED BY <2>1, <2>2, <2>3 DEF InFlightTyped
<1>6. Grants!LinksResolve'
  BY <1>0 DEF GitHubInv, TablesTyped, Grants!LinksResolve
<1> QED BY <1>1, <1>2, <1>3, <1>4, <1>5, <1>6 DEF GitHubInv, Typed

LEMMA ListDroppedKeeps ==
  ASSUME GitHubInv, Grants!ListDropped
  PROVE  GitHubInv'
<1> USE DEF Grants!ListDropped, Grants!theirs, Grants!tables
<1>0. TheirsTyped /\ TablesTyped /\ EventsTyped /\ CachesTyped /\ InFlightTyped
  BY DEF GitHubInv, Typed
<1>1. TheirsTyped'
  BY <1>0, ServicesAssumption DEF TheirsTyped, TablesTyped
<1>2. TablesTyped' /\ EventsTyped'
  BY <1>0, ServicesAssumption DEF TheirsTyped, TablesTyped, EventsTyped, InFlightTyped, Sync
<1>3. CachesTyped'
  <2>1. token' \in [Ids -> 0..MaxGrants] /\ list' \in [Ids -> 0..MaxGrants] /\ told' \in [Ids -> 0..MaxGrants]
    BY <1>0, Zeroes DEF TheirsTyped, CachesTyped, Mint, Grants!Fetch
  <2>2. mint' \in [Ids -> Mint]
    BY <1>0, Idle, Zeroes DEF TheirsTyped, CachesTyped, InFlightTyped
  <2>3. fetches' \subseteq Grants!Fetch
    BY <1>0, Zeroes DEF TheirsTyped, CachesTyped, Grants!Fetch
  <2> QED BY <2>1, <2>2, <2>3 DEF CachesTyped
<1>5. ToldBefore' /\ FreshIsCurrent' /\ Grants!ListsUnderTheGrant'
  BY <1>0 DEF GitHubInv, TheirsTyped, CachesTyped, ToldBefore, FreshIsCurrent, Grants!ListsUnderTheGrant, Grants!Fetch
<1>4. InFlightTyped'
  <2>1. sync' \in Sync
    BY <1>0, Idle DEF TheirsTyped, TablesTyped, InFlightTyped, Sync
  <2>2. call' \in Call
    BY <1>0, Idle, CallMoves DEF TablesTyped, CachesTyped, InFlightTyped, Mint
  <2>3. call'.pc # "no" => call'.id \in Ids
    BY <1>0 DEF TablesTyped, InFlightTyped, Call
  <2> QED BY <2>1, <2>2, <2>3 DEF InFlightTyped
<1>6. Grants!LinksResolve'
  BY <1>0 DEF GitHubInv, TablesTyped, Grants!LinksResolve
<1> QED BY <1>1, <1>2, <1>3, <1>4, <1>5, <1>6 DEF GitHubInv, Typed

LEMMA InstallKeeps ==
  ASSUME GitHubInv, Grants!Install
  PROVE  GitHubInv'
<1> USE DEF Grants!Install, Grants!tables, Grants!caches, Grants!Tell
<1>0. TheirsTyped /\ TablesTyped /\ EventsTyped /\ CachesTyped /\ InFlightTyped
  BY DEF GitHubInv, Typed
<1>1. TheirsTyped'
  BY <1>0, ServicesAssumption DEF TheirsTyped, TablesTyped
<1>2. TablesTyped' /\ EventsTyped'
  BY <1>0, ServicesAssumption DEF TheirsTyped, TablesTyped, EventsTyped, InFlightTyped, Sync
<1>3. CachesTyped'
  <2>1. token' \in [Ids -> 0..MaxGrants] /\ list' \in [Ids -> 0..MaxGrants] /\ told' \in [Ids -> 0..MaxGrants]
    BY <1>0, Zeroes DEF TheirsTyped, CachesTyped, Mint, Grants!Fetch
  <2>2. mint' \in [Ids -> Mint]
    BY <1>0, Idle, Zeroes DEF TheirsTyped, CachesTyped, InFlightTyped
  <2>3. fetches' \subseteq Grants!Fetch
    BY <1>0, Zeroes DEF TheirsTyped, CachesTyped, Grants!Fetch
  <2> QED BY <2>1, <2>2, <2>3 DEF CachesTyped
<1>5. ToldBefore' /\ FreshIsCurrent' /\ Grants!ListsUnderTheGrant'
  BY <1>0 DEF GitHubInv, TheirsTyped, CachesTyped, ToldBefore, FreshIsCurrent, Grants!ListsUnderTheGrant, Grants!Fetch
<1>4. InFlightTyped'
  <2>1. sync' \in Sync
    BY <1>0, Idle DEF TheirsTyped, TablesTyped, InFlightTyped, Sync
  <2>2. call' \in Call
    BY <1>0, Idle, CallMoves DEF TablesTyped, CachesTyped, InFlightTyped, Mint
  <2>3. call'.pc # "no" => call'.id \in Ids
    BY <1>0 DEF TablesTyped, InFlightTyped, Call
  <2> QED BY <2>1, <2>2, <2>3 DEF InFlightTyped
<1>6. Grants!LinksResolve'
  BY <1>0 DEF GitHubInv, TablesTyped, Grants!LinksResolve
<1> QED BY <1>1, <1>2, <1>3, <1>4, <1>5, <1>6 DEF GitHubInv, Typed

LEMMA GrantChangesKeeps ==
  ASSUME GitHubInv, Grants!GrantChanges
  PROVE  GitHubInv'
<1> USE DEF Grants!GrantChanges, Grants!tables, Grants!caches, Grants!Tell
<1>0. TheirsTyped /\ TablesTyped /\ EventsTyped /\ CachesTyped /\ InFlightTyped
  BY DEF GitHubInv, Typed
<1>1. TheirsTyped'
  <2>1. grant' \in [Ids -> 0..MaxGrants]
    BY <1>0, ServicesAssumption DEF TheirsTyped
  <2>2. open' \in [Ids -> BOOLEAN] /\ owner' \in [Ids -> 0..MaxApps]
    BY <1>0 DEF TheirsTyped
  <2> QED BY <2>1, <2>2 DEF TheirsTyped
<1>2. TablesTyped' /\ EventsTyped'
  BY <1>0, ServicesAssumption DEF TheirsTyped, TablesTyped, EventsTyped, InFlightTyped, Sync
<1>3. CachesTyped'
  <2>1. token' \in [Ids -> 0..MaxGrants] /\ list' \in [Ids -> 0..MaxGrants] /\ told' \in [Ids -> 0..MaxGrants]
    BY <1>0, Zeroes DEF TheirsTyped, CachesTyped, Mint, Grants!Fetch
  <2>2. mint' \in [Ids -> Mint]
    BY <1>0, Idle, Zeroes DEF TheirsTyped, CachesTyped, InFlightTyped
  <2>3. fetches' \subseteq Grants!Fetch
    BY <1>0, Zeroes DEF TheirsTyped, CachesTyped, Grants!Fetch
  <2> QED BY <2>1, <2>2, <2>3 DEF CachesTyped
<1>5. ToldBefore' /\ FreshIsCurrent' /\ Grants!ListsUnderTheGrant'
  BY <1>0 DEF GitHubInv, TheirsTyped, CachesTyped, ToldBefore, FreshIsCurrent, Grants!ListsUnderTheGrant, Grants!Fetch
<1>4. InFlightTyped'
  <2>1. sync' \in Sync
    BY <1>0, Idle DEF TheirsTyped, TablesTyped, InFlightTyped, Sync
  <2>2. call' \in Call
    BY <1>0, Idle, CallMoves DEF TablesTyped, CachesTyped, InFlightTyped, Mint
  <2>3. call'.pc # "no" => call'.id \in Ids
    BY <1>0 DEF TablesTyped, InFlightTyped, Call
  <2> QED BY <2>1, <2>2, <2>3 DEF InFlightTyped
<1>6. Grants!LinksResolve'
  BY <1>0 DEF GitHubInv, TablesTyped, Grants!LinksResolve
<1> QED BY <1>1, <1>2, <1>3, <1>4, <1>5, <1>6 DEF GitHubInv, Typed

LEMMA UninstallKeeps ==
  ASSUME GitHubInv, Grants!Uninstall
  PROVE  GitHubInv'
<1> USE DEF Grants!Uninstall, Grants!tables, Grants!caches, Grants!Tell
<1>0. TheirsTyped /\ TablesTyped /\ EventsTyped /\ CachesTyped /\ InFlightTyped
  BY DEF GitHubInv, Typed
<1>1. TheirsTyped'
  BY <1>0, ServicesAssumption DEF TheirsTyped, TablesTyped
<1>2. TablesTyped' /\ EventsTyped'
  BY <1>0, ServicesAssumption DEF TheirsTyped, TablesTyped, EventsTyped, InFlightTyped, Sync
<1>3. CachesTyped'
  <2>1. token' \in [Ids -> 0..MaxGrants] /\ list' \in [Ids -> 0..MaxGrants] /\ told' \in [Ids -> 0..MaxGrants]
    BY <1>0, Zeroes DEF TheirsTyped, CachesTyped, Mint, Grants!Fetch
  <2>2. mint' \in [Ids -> Mint]
    BY <1>0, Idle, Zeroes DEF TheirsTyped, CachesTyped, InFlightTyped
  <2>3. fetches' \subseteq Grants!Fetch
    BY <1>0, Zeroes DEF TheirsTyped, CachesTyped, Grants!Fetch
  <2> QED BY <2>1, <2>2, <2>3 DEF CachesTyped
<1>5. ToldBefore' /\ FreshIsCurrent' /\ Grants!ListsUnderTheGrant'
  BY <1>0 DEF GitHubInv, TheirsTyped, CachesTyped, ToldBefore, FreshIsCurrent, Grants!ListsUnderTheGrant, Grants!Fetch
<1>4. InFlightTyped'
  <2>1. sync' \in Sync
    BY <1>0, Idle DEF TheirsTyped, TablesTyped, InFlightTyped, Sync
  <2>2. call' \in Call
    BY <1>0, Idle, CallMoves DEF TablesTyped, CachesTyped, InFlightTyped, Mint
  <2>3. call'.pc # "no" => call'.id \in Ids
    BY <1>0 DEF TablesTyped, InFlightTyped, Call
  <2> QED BY <2>1, <2>2, <2>3 DEF InFlightTyped
<1>6. Grants!LinksResolve'
  BY <1>0 DEF GitHubInv, TablesTyped, Grants!LinksResolve
<1> QED BY <1>1, <1>2, <1>3, <1>4, <1>5, <1>6 DEF GitHubInv, Typed

LEMMA GitHubNext == GitHubInv /\ Grants!Next => GitHubInv'
  BY ReplaceGithubAppKeeps, DisconnectKeeps, SetGitSourceKeeps, SyncBeginsKeeps,
    SyncAnsweredKeeps, SyncInstallationsKeeps, SyncFailsKeeps, HandleInstallationKeeps,
    DeliveryLostKeeps, StartCallKeeps, InstallationTokenKeeps, MintAnsweredKeeps,
    MintEndsKeeps, MintFailsKeeps, TokenExpiresKeeps, WithTokenRetryKeeps, RepoCacheGetKeeps,
    ListAnsweredKeeps, RefreshKeeps, RefreshFailsKeeps, ListDroppedKeeps, InstallKeeps,
    GrantChangesKeeps, UninstallKeeps
    DEF Grants!Next

-----------------------------------------------------------------------------
(* The two, as the run takes them.                                           *)

ServicesInv ==
  /\ part \in {"daemon", "grants"}
  /\ part = "daemon" => BuilderInv
  /\ part = "grants" => GitHubInv

LEMMA ServicesInit == Init => ServicesInv
  BY BuilderInit, GitHubInit DEF Init, ServicesInv

LEMMA ServicesNext == ServicesInv /\ [Next]_vars => ServicesInv'
<1> SUFFICES ASSUME ServicesInv, [Next]_vars PROVE ServicesInv'
  OBVIOUS
<1>1. CASE OfDaemon /\ Daemon!Next
  <2>1. BuilderInv'
    BY <1>1, BuilderNext DEF OfDaemon, ServicesInv
  <2> QED BY <1>1, <2>1 DEF OfDaemon, ServicesInv
<1>2. CASE OfGrants /\ Grants!Next
  <2>1. GitHubInv'
    BY <1>2, GitHubNext DEF OfGrants, ServicesInv
  <2> QED BY <1>2, <2>1 DEF OfGrants, ServicesInv
<1>3. CASE UNCHANGED vars
  <2>1. CASE part = "daemon"
    <3>1. BuilderInv /\ UNCHANGED <<part, daemon, host, override, todo, hand, bucket, client, verdict, ready, unstopped, builds, mishaps>>
      BY <1>3, <2>1 DEF ServicesInv, vars, daemonVars
    <3>2. BuilderInv'
      BY <3>1 DEF BuilderInv, Daemon!BuilderTypeOK, Lives, Daemon!CapIsCurrent, CapStays, LeftBehind, Unjudged,
        Daemon!BuiltImageCounts, Daemon!ResolveMemoryCap, Daemon!BuildkitMemoryCap
    <3> QED BY <2>1, <3>1, <3>2 DEF ServicesInv
  <2>2. CASE part = "grants"
    <3>1. GitHubInv /\ UNCHANGED <<part, grant, open, owner, app, apps, rows, link, events, token, mint, list, fetches, sync, call, told, replaced>>
      BY <1>3, <2>2 DEF ServicesInv, vars, grantVars
    <3>2. GitHubInv'
      BY <3>1 DEF GitHubInv, Typed, TheirsTyped, TablesTyped, EventsTyped, CachesTyped, InFlightTyped, ToldBefore,
        FreshIsCurrent, Grants!ListsUnderTheGrant, Grants!LinksResolve
    <3> QED BY <2>2, <3>1, <3>2 DEF ServicesInv
  <2> QED BY <2>1, <2>2 DEF ServicesInv
<1> QED BY <1>1, <1>2, <1>3 DEF Next

LEMMA ServicesAlways == FairSpec => []ServicesInv
<1> QED BY ServicesInit, ServicesNext, PTL DEF FairSpec

\* A build whose client ended well counts, though its stop was under way; none
\* runs beside what a failed one left in the daemon, unless a crash or a failing
\* call kept it from its restart; a daemon that was found ready has the cap this
\* process would give it (build/run.ts, build/index.ts, build/bootstrap.ts).
THEOREM BuildsStaySound == FairSpec => []BuildsAreSound
<1>1. ServicesInv => BuildsAreSound
  BY DEF ServicesInv, BuilderInv, BuildsAreSound, LeftBehind, Daemon!BuildsAlone, Daemon!BuilderTypeOK, Daemon!At
<1> QED BY <1>1, ServicesAlways, PTL

\* No list of repositories is kept that was fetched under a grant before the one
\* musdash was last told of, whatever was under way when it was told; and a
\* linked resource's installation has a row, unless an App was registered over
\* another (github/repo-cache.ts, db/queries.ts).
THEOREM ListsStayUnderTheGrant == FairSpec => []ListsUnderTheGrant
<1>1. ServicesInv => ListsUnderTheGrant
  BY TypesOfGitHub DEF ServicesInv, GitHubInv, ListsUnderTheGrant
<1> QED BY <1>1, ServicesAlways, PTL
================================================================================
