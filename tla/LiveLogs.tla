-------------------------------- MODULE LiveLogs --------------------------------
(***************************************************************************)
(* The log of a deployment while it runs and after (events.ts), and the page  *)
(* that shows it (routes/app.ts, routes/sse.ts, public/app.js): the page is   *)
(* drawn with the lines there are, then asks for those after them and stays   *)
(* connected.  Logs live in memory, so many lines of so many deployments.    *)
(***************************************************************************)
EXTENDS Integers, Sequences, FiniteSets

CONSTANTS
  Keep,           \* DEPLOY_LOG_KEEP
  LineCap,        \* DEPLOY_LOG_CAP
  MaxDeployments, \* bound
  MaxLines,       \* bound: lines of one deployment
  MaxDrops        \* bound: connections lost, restarts

VARIABLES
  deployLogs, \* the logs held, by deployment: deploys begin in the order of their numbers
  deploying,  \* the deployment that runs, 0 for none; the worker runs one at a time
  begun,      \* deployments begun
  written,    \* lines of each
  page,       \* the page: of which deployment, the lines it was drawn with, those it shows
  link,       \* its connection: "none" before it is opened, "drawn", "open", "lost"
  spoilt,     \* history: lines it had not asked for yet were evicted or swept
  again,      \* history: it connected a second time
  drops

vars == <<deployLogs, deploying, begun, written, page, link, spoilt, again, drops>>

Deployments == 1..MaxDeployments
NoPage == [of |-> 0, skip |-> 0, shown |-> << >>]
Log == [lines : Seq(1..MaxLines), finished : {"no", "lately", "long"}]

LiveLogsTypeOK ==
  /\ DOMAIN deployLogs \subseteq Deployments /\ \A d \in DOMAIN deployLogs : deployLogs[d] \in Log
  /\ deploying \in 0..MaxDeployments /\ begun \in 0..MaxDeployments
  /\ written \in [Deployments -> 0..MaxLines]
  /\ page \in [of : 0..MaxDeployments, skip : 0..LineCap, shown : Seq(1..MaxLines)]
  /\ link \in {"none", "drawn", "open", "lost"} /\ spoilt \in BOOLEAN /\ again \in BOOLEAN
  /\ drops \in 0..MaxDrops

Init ==
  /\ deployLogs = << >> /\ deploying = 0 /\ begun = 0 /\ written = [d \in Deployments |-> 0]
  /\ page = NoPage /\ link = "none" /\ spoilt = FALSE /\ again = FALSE /\ drops = 0

Held(d) == d \in DOMAIN deployLogs
DeployLogTail(d) == IF Held(d) THEN deployLogs[d].lines ELSE << >>
Listens(d) == link = "open" /\ page.of = d

-----------------------------------------------------------------------------
(* Writing.                                                                *)

Over_slip(ids) == Cardinality(ids) - Keep
\* How many must go to make room for one more.
Over(ids) == Cardinality(ids) - Keep + 1

\* The oldest of those that may go, so many.
Oldest(may, n) == {d \in may : Cardinality({e \in may : e < d}) < n}

\* What stays: the long finished that nobody watches go; then finished ones; then any.
SweepDeployLogs ==
  LET kept == {d \in DOMAIN deployLogs : deployLogs[d].finished # "long" \/ Listens(d)}
      fewer == kept \ Oldest({d \in kept : deployLogs[d].finished # "no"}, Over(kept))
  IN  fewer \ Oldest(fewer, Over(fewer))

Capped(lines) == IF Len(lines) > LineCap THEN Tail(lines) ELSE lines

\* The page that is open gets the line; one that is not yet loses what goes.
PublishDeployLog ==
  /\ deploying # 0 /\ written[deploying] < MaxLines
  /\ LET line == written[deploying] + 1
         stay == IF Held(deploying) THEN DOMAIN deployLogs ELSE SweepDeployLogs
         log == IF Held(deploying) THEN deployLogs[deploying] ELSE [lines |-> << >>, finished |-> "no"]
         lines == Append(log.lines, line)
     IN  /\ written' = [written EXCEPT ![deploying] = line]
         /\ deployLogs' = [d \in stay \cup {deploying} |->
                            IF d = deploying THEN [log EXCEPT !.lines = Capped(lines)] ELSE deployLogs[d]]
         /\ page' = IF Listens(deploying) THEN [page EXCEPT !.shown = Append(@, line)] ELSE page
         /\ spoilt' = \/ spoilt
                      \/ link = "drawn" /\ page.of = deploying /\ lines # Capped(lines)
                      \/ link = "drawn" /\ page.of # deploying /\ Held(page.of) /\ page.of \notin stay
  /\ UNCHANGED <<deploying, begun, link, again, drops>>

StartDeploy ==
  /\ deploying = 0 /\ begun < MaxDeployments
  /\ begun' = begun + 1 /\ deploying' = begun + 1
  /\ UNCHANGED <<deployLogs, written, page, link, spoilt, again, drops>>

\* A no-op for a deployment that logged nothing.
MarkDeployLogFinished ==
  /\ deploying # 0
  /\ deploying' = 0
  /\ deployLogs' = IF Held(deploying)
                   THEN [deployLogs EXCEPT ![deploying].finished = IF @ = "no" THEN "lately" ELSE @]
                   ELSE deployLogs
  /\ UNCHANGED <<begun, written, page, link, spoilt, again, drops>>

TtlPasses ==
  /\ \E d \in DOMAIN deployLogs :
       /\ deployLogs[d].finished = "lately"
       /\ deployLogs' = [deployLogs EXCEPT ![d].finished = "long"]
  /\ UNCHANGED <<deploying, begun, written, page, link, spoilt, again, drops>>

-----------------------------------------------------------------------------
(* The page.                                                               *)

DrawPage ==
  /\ link = "none"
  /\ \E d \in 1..begun :
       page' = [of |-> d, skip |-> Len(DeployLogTail(d)), shown |-> DeployLogTail(d)]
  /\ link' = "drawn"
  /\ UNCHANGED <<deployLogs, deploying, begun, written, spoilt, again, drops>>

ConnectLogs_slip ==
  /\ link \in {"drawn", "lost"}
  /\ page' = [page EXCEPT !.shown = page.shown \o DeployLogTail(page.of)]
  /\ link' = "open" /\ again' = (again \/ link = "lost")
  /\ UNCHANGED <<deployLogs, deploying, begun, written, spoilt, drops>>

\* The lines after those it was drawn with, then every new one.  A browser
\* that connects again asks for the same lines.
ConnectLogs ==
  /\ link \in {"drawn", "lost"}
  /\ LET lines == DeployLogTail(page.of)
     IN  page' = [page EXCEPT !.shown = @ \o SubSeq(lines, page.skip + 1, Len(lines))]
  /\ link' = "open" /\ again' = (again \/ link = "lost")
  /\ UNCHANGED <<deployLogs, deploying, begun, written, spoilt, drops>>

ConnectionLost ==
  /\ link = "open" /\ drops < MaxDrops
  /\ link' = "lost" /\ drops' = drops + 1
  /\ UNCHANGED <<deployLogs, deploying, begun, written, page, spoilt, again>>

\* The page goes; another is opened.
ClosePage ==
  /\ link # "none"
  /\ link' = "none" /\ page' = NoPage /\ spoilt' = FALSE /\ again' = FALSE
  /\ UNCHANGED <<deployLogs, deploying, begun, written, drops>>

\* Memory goes; the deployment runs again and writes on.
Crash ==
  /\ drops < MaxDrops /\ drops' = drops + 1
  /\ deployLogs' = << >>
  /\ link' = IF link = "open" THEN "lost" ELSE link
  /\ spoilt' = (spoilt \/ link # "none")
  /\ UNCHANGED <<deploying, begun, written, page, again>>

Next ==
  \/ PublishDeployLog \/ StartDeploy \/ MarkDeployLogFinished \/ TtlPasses
  \/ DrawPage \/ ConnectLogs \/ ConnectionLost \/ ClosePage \/ Crash

Spec == Init /\ [][Next]_vars

-----------------------------------------------------------------------------
(* Properties.                                                             *)

InOrder(s) == \A i \in 1..Len(s) - 1 : s[i + 1] = s[i] + 1
Newest(d) == written[d]

\* An open page shows the deployment's lines in order, each once, up to the
\* newest, unless some went before it asked for them or it connected again.
PageFollows ==
  link = "open" /\ ~again /\ ~spoilt =>
    /\ InOrder(page.shown)
    /\ Held(page.of) => page.shown # << >> /\ page.shown[Len(page.shown)] = Newest(page.of)

\* "The stream starts after the lines drawn below, so none shows twice"
\* (views/pages/deployment.eta): also when the browser connects again.
\* Refuted: README, section 3.
NoneShowsTwice ==
  \A i, k \in DOMAIN page.shown : i # k => page.shown[i] # page.shown[k]

\* No more than so many logs are held, that of the deployment in hand among
\* them, whether or not the others were ever marked finished.
LogsAreKept ==
  /\ Cardinality(DOMAIN deployLogs) <= Keep
  /\ deploying # 0 /\ drops = 0 /\ written[deploying] > 0 => Held(deploying)
================================================================================
