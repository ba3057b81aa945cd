------------------------------- MODULE MCPlatform -------------------------------
(***************************************************************************)
(* Ten parts of the process that share no state, checked in one run: each   *)
(* behaviour is of one of them, the others' variables stay Off.              *)
(***************************************************************************)
EXTENDS MCImagesAndLogs

CONSTANTS
  Pieces, Cap, Stall, Grace, ApiWait, MaxCrashes,                \* ArchiveFetch
  MaxDeploys, MaxStreams, MaxBreaks,                             \* LogStreams
  Requests, MaxWaiting, MaxAnswers,                              \* Accounts
  Keys, Sizes, MaxBuilds, MaxFaults,                             \* BuildCache, and HealthGate's MaxFaults
  Hosts, HealthTime, AnswerTime, Uptime, Baselines,              \* HealthGate, and ArchiveFetch's MaxCrashes
  CertTime, AttemptTime, RetryTime,
  Pages, Owners, Totals, MaxResources, Ttl, FailureTtl, DfTime,  \* VolumeSizes, and HealthGate's AnswerTime
  Names, Generated, Reserved, MaxSaves                           \* Variables

\* What a bound, a length and a time are, and that nobody is called as no one is.
ASSUME PlatformAssumption ==
  /\ Pieces \in Nat \ {0} /\ Cap \in Nat /\ Stall \in Nat /\ Grace \in Nat /\ ApiWait \in Nat
  /\ MaxCrashes \in Nat /\ MaxDeploys \in Nat /\ MaxStreams \in Nat /\ MaxBreaks \in Nat
  /\ MaxWaiting \in Nat /\ MaxAnswers \in Nat /\ {"none", "earlier"} \cap Requests = {}
  /\ Baselines \subseteq Nat /\ HealthTime \in Nat /\ AnswerTime \in Nat /\ Uptime \in Nat /\ CertTime \in Nat
  /\ AttemptTime \in Nat \ {0} /\ RetryTime \in Nat /\ MaxFaults \in Nat
  /\ IsFiniteSet(Owners) /\ Owners \subseteq Nat /\ Totals \subseteq Nat /\ MaxResources \in Nat
  /\ Ttl \in Nat \ {0} /\ FailureTtl \in Nat \ {0} /\ DfTime \in Nat /\ MaxSaves \in Nat
  /\ IsFiniteSet(Keys) /\ Sizes \subseteq Nat /\ MaxBuilds \in Nat

VARIABLES
  part,
  now, attempt, quiet, stopped, body, tar, asked, tree, crashes,
  up, there, row, desired, active, streams, job, tick, deploys, breaks,
  account, hash, request, running, queue, sessions, answers,
  caches, renewed, live, stuck, hidden, renewals, refusals,
  clock, way, deadline, baseline, box, since, gate, wake, look, switched, certs, issued, hangs,
  disk, stored, measuring, pages, rests,
  kind, levels, form, file, used, edited, stale, saves

\* A text, a reference to a placeholder, and an escape.
Typed == {<<[kind |-> "text", of |-> "x"]>>, <<[kind |-> "escape", of |-> "$$"]>>}
         \cup {<<[kind |-> "ref", of |-> n]>> : n \in Generated}

Archive == INSTANCE ArchiveFetch
Follow  == INSTANCE LogStreams
SignIn  == INSTANCE Accounts WITH active <- running
Cache   == INSTANCE BuildCache WITH builds <- renewals, faults <- refusals
Gate    == INSTANCE HealthGate WITH now <- clock, faults <- hangs
Volumes == INSTANCE VolumeSizes WITH running <- measuring
Env     == INSTANCE Variables WITH Texts <- Typed

imageVars == <<heads, saved, rows, images, current, previous, waiting, work, overtaken, moves, upsets>>
archiveVars == <<now, attempt, quiet, stopped, body, tar, asked, tree, crashes>>
liveVars == <<deployLogs, deploying, begun, written, page, link, spoilt, again, drops>>
followVars == <<up, there, row, desired, active, streams, job, tick, deploys, breaks>>
lineVars == <<output, sent, parsed, carry, pushed, partial, hand, items, next, count, files>>
signinVars == <<account, hash, request, running, queue, sessions, answers>>
cacheVars == <<caches, renewed, live, stuck, hidden, renewals, refusals>>
gateVars == <<clock, way, deadline, baseline, box, since, gate, wake, look, switched, certs, issued, hangs>>
sizeVars == <<disk, stored, measuring, pages, rests>>
envVars == <<kind, levels, form, file, used, edited, stale, saves>>
vars == <<part, imageVars, archiveVars, liveVars, followVars, lineVars, signinVars, cacheVars, gateVars, sizeVars, envVars>>

Off == 0
NoImages ==
  /\ heads = Off /\ saved = Off /\ rows = Off /\ images = Off /\ current = Off /\ previous = Off
  /\ waiting = Off /\ work = Off /\ overtaken = Off /\ moves = Off /\ upsets = Off
NoArchive ==
  /\ now = Off /\ attempt = Off /\ quiet = Off /\ stopped = Off /\ body = Off /\ tar = Off /\ asked = Off
  /\ tree = Off /\ crashes = Off
NoLive ==
  /\ deployLogs = Off /\ deploying = Off /\ begun = Off /\ written = Off /\ page = Off /\ link = Off
  /\ spoilt = Off /\ again = Off /\ drops = Off
NoFollow ==
  /\ up = Off /\ there = Off /\ row = Off /\ desired = Off /\ active = Off /\ streams = Off /\ job = Off
  /\ tick = Off /\ deploys = Off /\ breaks = Off
NoLines ==
  /\ output = Off /\ sent = Off /\ parsed = Off /\ carry = Off /\ pushed = Off /\ partial = Off /\ hand = Off
  /\ items = Off /\ next = Off /\ count = Off /\ files = Off
NoSignIn ==
  /\ account = Off /\ hash = Off /\ request = Off /\ running = Off /\ queue = Off /\ sessions = Off /\ answers = Off
NoCache ==
  /\ caches = Off /\ renewed = Off /\ live = Off /\ stuck = Off /\ hidden = Off /\ renewals = Off /\ refusals = Off
NoGate ==
  /\ clock = Off /\ way = Off /\ deadline = Off /\ baseline = Off /\ box = Off /\ since = Off /\ gate = Off
  /\ wake = Off /\ look = Off /\ switched = Off /\ certs = Off /\ issued = Off /\ hangs = Off
NoVolumes ==
  /\ disk = Off /\ stored = Off /\ measuring = Off /\ pages = Off /\ rests = Off
NoEnv ==
  /\ kind = Off /\ levels = Off /\ form = Off /\ file = Off /\ used = Off /\ edited = Off /\ stale = Off
  /\ saves = Off

Init ==
  \/ /\ part = "images" /\ Images!Init
     /\ NoArchive /\ NoLive /\ NoFollow /\ NoLines /\ NoSignIn /\ NoCache /\ NoGate /\ NoVolumes /\ NoEnv
  \/ /\ part = "archive" /\ Archive!Init
     /\ NoImages /\ NoLive /\ NoFollow /\ NoLines /\ NoSignIn /\ NoCache /\ NoGate /\ NoVolumes /\ NoEnv
  \/ /\ part = "live" /\ Live!Init
     /\ NoImages /\ NoArchive /\ NoFollow /\ NoLines /\ NoSignIn /\ NoCache /\ NoGate /\ NoVolumes /\ NoEnv
  \/ /\ part = "follow" /\ Follow!Init
     /\ NoImages /\ NoArchive /\ NoLive /\ NoLines /\ NoSignIn /\ NoCache /\ NoGate /\ NoVolumes /\ NoEnv
  \/ /\ part = "lines" /\ Lines!Init
     /\ NoImages /\ NoArchive /\ NoLive /\ NoFollow /\ NoSignIn /\ NoCache /\ NoGate /\ NoVolumes /\ NoEnv
  \/ /\ part = "signin" /\ SignIn!Init
     /\ NoImages /\ NoArchive /\ NoLive /\ NoFollow /\ NoLines /\ NoCache /\ NoGate /\ NoVolumes /\ NoEnv
  \/ /\ part = "cache" /\ Cache!Init
     /\ NoImages /\ NoArchive /\ NoLive /\ NoFollow /\ NoLines /\ NoSignIn /\ NoGate /\ NoVolumes /\ NoEnv
  \/ /\ part = "gate" /\ Gate!Init
     /\ NoImages /\ NoArchive /\ NoLive /\ NoFollow /\ NoLines /\ NoSignIn /\ NoCache /\ NoVolumes /\ NoEnv
  \/ /\ part = "sizes" /\ Volumes!Init
     /\ NoImages /\ NoArchive /\ NoLive /\ NoFollow /\ NoLines /\ NoSignIn /\ NoCache /\ NoGate /\ NoEnv
  \/ /\ part = "variables" /\ Env!Init
     /\ NoImages /\ NoArchive /\ NoLive /\ NoFollow /\ NoLines /\ NoSignIn /\ NoCache /\ NoGate /\ NoVolumes

Only(p) ==
  /\ part = p /\ UNCHANGED part
  /\ IF p = "images" THEN TRUE ELSE UNCHANGED imageVars
  /\ IF p = "archive" THEN TRUE ELSE UNCHANGED archiveVars
  /\ IF p = "live" THEN TRUE ELSE UNCHANGED liveVars
  /\ IF p = "follow" THEN TRUE ELSE UNCHANGED followVars
  /\ IF p = "lines" THEN TRUE ELSE UNCHANGED lineVars
  /\ IF p = "signin" THEN TRUE ELSE UNCHANGED signinVars
  /\ IF p = "cache" THEN TRUE ELSE UNCHANGED cacheVars
  /\ IF p = "gate" THEN TRUE ELSE UNCHANGED gateVars
  /\ IF p = "sizes" THEN TRUE ELSE UNCHANGED sizeVars
  /\ IF p = "variables" THEN TRUE ELSE UNCHANGED envVars

Next ==
  \/ Only("images") /\ Images!Next
  \/ Only("archive") /\ Archive!Next
  \/ Only("live") /\ Live!Next
  \/ Only("follow") /\ Follow!Next
  \/ Only("lines") /\ Lines!Next
  \/ Only("signin") /\ SignIn!Next
  \/ Only("cache") /\ Cache!Next
  \/ Only("gate") /\ Gate!Next
  \/ Only("sizes") /\ Volumes!Next
  \/ Only("variables") /\ Env!Next

Spec == Init /\ [][Next]_vars

-----------------------------------------------------------------------------
(* The parts' properties.                                                  *)

\* What a succeeded deployment says it was built from is what its image was
\* built from (Builds).
RowsTellTheTruth == part = "images" => Images!BuildsTypeOK /\ Images!RowsTellTheTruth

\* The daily prunes spare what is needed: no image that runs or that a rollback
\* goes back to, and a repeated deployment is not built in another repository
\* (Builds); no layer cache while all fit the cap, and never the newest (BuildCache).
PrunesSpare ==
  [][/\ part = "images" => Images!RollbackStep
     /\ part = "cache" => Cache!BuildCacheTypeOK /\ Cache!SweepStep]_vars

\* A download that succeeds leaves the whole tree of one attempt, and one that
\* does not ends by its cap (ArchiveFetch).
WholeTree == part = "archive" => Archive!ArchiveTypeOK /\ Archive!WholeTree /\ Archive!EndsByTheCap

\* An open page shows a deployment's lines in order, each once, up to the newest
\* (LiveLogs), and a container's lines reach the ring and the files (LogLines).
PageFollows ==
  /\ part = "live" => Live!LiveLogsTypeOK /\ Live!PageFollows /\ Live!LogsAreKept
  /\ part = "lines" => Lines!LinesArrive

\* A log stream nobody aborted is the one that is registered (LogStreams).
StreamTracked == part = "follow" => Follow!LogStreamsTypeOK /\ Follow!StreamTracked

\* Setups at once leave one account, and the password gate is held by whoever
\* runs, or somebody waits for nothing (Accounts).
GateIsHeld == part = "signin" => SignIn!AccountsTypeOK /\ SignIn!OneAccount /\ SignIn!GateIsHeld

\* No container that had restarted when the gate last looked passes it; the gate,
\* the wait for certificates (HealthGate) and a page's wait for sizes
\* (VolumeSizes) end in time, and one measurement serves every page.
WaitsAreBounded ==
  /\ part = "gate" => Gate!HealthGateTypeOK /\ Gate!CrashLoopFails /\ Gate!GateEnds /\ Gate!CertsEnd
  /\ part = "sizes" => Volumes!VolumeSizesTypeOK /\ Volumes!MeasuredOnce

\* What a deploy delivers is what the three levels declare, and a secret made for a
\* stack stays the one it was first given (Variables).
VariablesLast == part = "variables" => Env!VariablesTypeOK /\ Env!DeliveredAsDeclared /\ Env!SecretsLast
================================================================================
