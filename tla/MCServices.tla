------------------------------- MODULE MCServices -------------------------------
(***************************************************************************)
(* The two parts that depend on something outside the process, the build     *)
(* daemon and GitHub, checked in one run: they share no state, each           *)
(* behaviour is of one of them, the other's variables stay Off.              *)
(***************************************************************************)
EXTENDS Naturals

CONSTANTS
  Hosts, Overrides, Unset, Enough, MaxBuilds, MaxMishaps, \* Builder
  Ids, MaxApps, MaxGrants, MaxFetches                     \* GitHub

\* Memory is counted in whole MiB, and the bounds are numbers.
ASSUME ServicesAssumption ==
  /\ Hosts \subseteq Nat /\ Overrides \ {Unset} \subseteq Nat
  /\ Enough \in Nat /\ MaxBuilds \in Nat /\ MaxMishaps \in Nat
  /\ MaxApps \in Nat /\ MaxGrants \in Nat \ {0}

VARIABLES
  part,
  daemon, host, override, todo, hand, bucket, client, verdict, ready, unstopped, builds, mishaps,
  grant, open, owner, app, apps, rows, link, events, token, mint, list, fetches, sync, call, told, replaced

Daemon == INSTANCE Builder
Grants == INSTANCE GitHub

daemonVars == <<daemon, host, override, todo, hand, bucket, client, verdict, ready, unstopped, builds, mishaps>>
grantVars == <<grant, open, owner, app, apps, rows, link, events, token, mint, list, fetches, sync, call, told, replaced>>
vars == <<part, daemonVars, grantVars>>

Off == 0
NoDaemon ==
  /\ daemon = Off /\ host = Off /\ override = Off /\ todo = Off /\ hand = Off /\ bucket = Off /\ client = Off
  /\ verdict = Off /\ ready = Off /\ unstopped = Off /\ builds = Off /\ mishaps = Off
NoGrants ==
  /\ grant = Off /\ open = Off /\ owner = Off /\ app = Off /\ apps = Off /\ rows = Off /\ link = Off
  /\ events = Off /\ token = Off /\ mint = Off /\ list = Off /\ fetches = Off /\ sync = Off /\ call = Off
  /\ told = Off /\ replaced = Off

Init ==
  \/ part = "daemon" /\ Daemon!Init /\ NoGrants
  \/ part = "grants" /\ Grants!Init /\ NoDaemon

OfDaemon == part = "daemon" /\ UNCHANGED part /\ UNCHANGED grantVars
OfGrants == part = "grants" /\ UNCHANGED part /\ UNCHANGED daemonVars

Next == (OfDaemon /\ Daemon!Next) \/ (OfGrants /\ Grants!Next)

\* Each part's own fairness; that of the one that is Off asks nothing.
FairSpec ==
  /\ Init /\ [][Next]_vars
  /\ WF_vars(OfDaemon /\ Daemon!Work) /\ WF_vars(OfDaemon /\ Daemon!Boot) /\ WF_vars(OfDaemon /\ Daemon!TimesOut)
  /\ WF_vars(OfDaemon /\ Daemon!Exits /\ client.stopped # "no")
  /\ SF_vars(OfDaemon /\ Daemon!EnsureBuildkitQueued) /\ WF_vars(OfDaemon /\ Daemon!BucketRolls)
  /\ WF_vars(OfGrants /\ Grants!CallSteps) /\ SF_vars(OfGrants /\ Grants!MintAnswered)

-----------------------------------------------------------------------------
(* The parts' properties.                                                  *)

\* Builds and the daemon they run in: a build whose client ended well counts,
\* none runs beside what a failed one left, and a daemon that a bootstrap left
\* ready has the cap the process would give it now (Builder).
BuildsAreSound ==
  part = "daemon" =>
    Daemon!BuilderTypeOK /\ Daemon!BuiltImageCounts /\ Daemon!BuildsAlone /\ Daemon!CapIsCurrent

\* No list of repositories outlives the grant it was fetched under, and a linked
\* resource's installation has a row (GitHub).
ListsUnderTheGrant ==
  part = "grants" => Grants!GitHubTypeOK /\ Grants!ListsUnderTheGrant /\ Grants!LinksResolve

\* A build daemon that is gone or down comes back (Builder), and a token that
\* GitHub rejects does not stay (GitHub).
ServicesRecover ==
  /\ <>[](part = "daemon" => Daemon!Healed)
  /\ (\E i \in Ids : <>[](part = "grants" /\ Grants!LeftAlone(i))) => []<>(part = "grants" /\ Grants!Succeeded)
================================================================================
