--------------------------------- MODULE GitHub ---------------------------------
(***************************************************************************)
(* What musdash keeps of GitHub: the App and its installations' rows          *)
(* (db/queries.ts, github/register.ts), the link of a resource to one, the    *)
(* tokens and repository lists cached in memory (github/tokens.ts,            *)
(* github/token-retry.ts, github/repo-cache.ts), the lifecycle webhooks       *)
(* (routes/github.ts) and the forms that connect, sync and disconnect.        *)
(*                                                                          *)
(* A grant's number stands for the terms an installation holds under: a token *)
(* or a list is of the grant it was answered under.  Webhooks may be lost or   *)
(* come late and in any order; calls take time and fail.                      *)
(***************************************************************************)
EXTENDS Naturals, FiniteSets

CONSTANTS
  Ids,        \* GitHub's installation ids
  MaxApps,    \* bound: Apps registered
  MaxGrants,  \* bound: changes of a grant
  MaxFetches  \* bound: fetches of a list at once; also, none begins beside a sync or a call,
              \* and no sync beside a fetch or a call

VARIABLES
  grant, open, owner, \* external: an installation's grant, whether it is active, its App
  app, apps,  \* the row of the registered App, 0 for none; how many there have been
  rows,       \* rows of github_installations: the App of each, or 0
  link,       \* the resource's installation, or None
  events,     \* external: lifecycle deliveries on their way
  token,      \* the cache of tokens, by grant, 0 for none
  mint,       \* mints in flight, the App each asks as with it
  list,       \* the cache of repository lists, by grant
  fetches,    \* fetches of a list in flight; `now` when it is the one to join, `fresh` when
              \* nothing was forgotten since it began
  sync,       \* a sync in flight
  call,       \* a call with a token
  told,       \* history: the grant when musdash was last told that it changed
  replaced    \* history: an App was registered over another

vars == <<grant, open, owner, app, apps, rows, link, events, token, mint, list, fetches, sync, call,
          told, replaced>>
theirs == <<grant, open, owner>>
tables == <<app, apps, rows, link, replaced>>
caches == <<token, mint, list, fetches, told>>

None == "none"
NoMint == [pc |-> "no", app |-> 0, grant |-> 0]
NoSync == [pc |-> "no", app |-> 0, ids |-> {}]
NoCall == [pc |-> "no", id |-> None, grant |-> 0, tries |-> 0, ok |-> TRUE]
Fetch == [id : Ids, grant : 0..MaxGrants, now : BOOLEAN, fresh : BOOLEAN]

GitHubTypeOK ==
  /\ grant \in [Ids -> 0..MaxGrants] /\ open \in [Ids -> BOOLEAN] /\ owner \in [Ids -> 0..MaxApps]
  /\ app \in 0..MaxApps /\ apps \in 0..MaxApps /\ rows \in [Ids -> 0..MaxApps]
  /\ link \in Ids \cup {None}
  /\ events \subseteq [action : {"changed", "suspend", "deleted"}, id : Ids]
  /\ token \in [Ids -> 0..MaxGrants] /\ list \in [Ids -> 0..MaxGrants]
  /\ mint \in [Ids -> [pc : {"no", "asked", "answered"}, app : 0..MaxApps, grant : 0..MaxGrants]]
  /\ fetches \subseteq Fetch
  /\ sync \in [pc : {"no", "asked", "answered"}, app : 0..MaxApps, ids : SUBSET Ids]
  /\ call \in [pc : {"no", "acquire", "mint", "sent"}, id : Ids \cup {None}, grant : 0..MaxGrants, tries : 0..1, ok : BOOLEAN]
  /\ told \in [Ids -> 0..MaxGrants] /\ replaced \in BOOLEAN

Init ==
  /\ grant = [i \in Ids |-> 0] /\ open = [i \in Ids |-> FALSE] /\ owner = [i \in Ids |-> 0]
  /\ app = 0 /\ apps = 0 /\ rows = [i \in Ids |-> 0] /\ link = None /\ events = {}
  /\ token = [i \in Ids |-> 0] /\ mint = [i \in Ids |-> NoMint]
  /\ list = [i \in Ids |-> 0] /\ fetches = {}
  /\ sync = NoSync /\ call = NoCall /\ told = [i \in Ids |-> 0] /\ replaced = FALSE

Quiet == sync.pc = "no" /\ call.pc = "no"

-----------------------------------------------------------------------------
(* The caches, as what an event drops from them.                            *)

\* Mints in flight are left: what they answer is cached.
InvalidateToken(I) == token' = [i \in Ids |-> IF i \in I THEN 0 ELSE token[i]] /\ UNCHANGED mint

RepoCacheForget_slip(I) ==
  /\ list' = [i \in Ids |-> IF i \in I THEN 0 ELSE list[i]]
  /\ fetches' = {[f EXCEPT !.now = @ /\ f.id \notin I] : f \in fetches}

\* The entry and the record of a fetch go; no fetch under way, of any id, stores.
RepoCacheForget(I) ==
  /\ list' = [i \in Ids |-> IF i \in I THEN 0 ELSE list[i]]
  /\ fetches' = {[f EXCEPT !.now = @ /\ f.id \notin I, !.fresh = FALSE] : f \in fetches}

Forget(I) ==
  /\ InvalidateToken(I) /\ RepoCacheForget(I)
  /\ told' = [i \in Ids |-> IF i \in I THEN grant[i] ELSE told[i]]

ForgetInstallation(id) == Forget({id})
ClearGitHubCaches == Forget(Ids)

-----------------------------------------------------------------------------
(* The App and its installations.                                          *)

DeleteGithubApp == [i \in Ids |-> IF rows[i] = app THEN 0 ELSE rows[i]]

\* The callback of the manifest flow; it replaces an App that is registered.
ReplaceGithubApp ==
  /\ apps < MaxApps
  /\ apps' = apps + 1 /\ app' = apps + 1
  /\ rows' = IF app = 0 THEN rows ELSE DeleteGithubApp
  /\ replaced' = (replaced \/ app # 0)
  /\ ClearGitHubCaches
  /\ UNCHANGED <<theirs, link, events, sync, call>>

ClearGitLinkage_slip(I) == link
ClearGitLinkage(I) == IF link \in I THEN None ELSE link

Disconnect ==
  /\ app # 0
  /\ link' = ClearGitLinkage({i \in Ids : rows[i] # 0})
  /\ rows' = DeleteGithubApp /\ app' = 0
  /\ ClearGitHubCaches
  /\ UNCHANGED <<theirs, apps, replaced, events, sync, call>>

\* The form offers installations that have a row.
SetGitSource ==
  /\ \E i \in Ids : rows[i] # 0 /\ link' = i
  /\ UNCHANGED <<theirs, app, apps, rows, replaced, events, caches, sync, call>>

\* The sync asks as the App; it writes what GitHub answered when it asked.
SyncBegins ==
  /\ app # 0 /\ Quiet /\ fetches = {}
  /\ sync' = [pc |-> "asked", app |-> app, ids |-> {}]
  /\ UNCHANGED <<theirs, tables, events, caches, call>>

SyncAnswered ==
  /\ sync.pc = "asked"
  /\ sync' = [sync EXCEPT !.pc = "answered", !.ids = {i \in Ids : grant[i] > 0 /\ owner[i] = sync.app}]
  /\ UNCHANGED <<theirs, tables, events, caches, call>>

\* A row of an App that is gone cannot be written: the sync throws there.
SyncInstallations ==
  /\ sync.pc = "answered"
  /\ LET news == {i \in sync.ids : rows[i] = 0}
         gone == {i \in Ids : rows[i] # 0 /\ i \notin sync.ids}
     IN  IF news # {} /\ sync.app # app
         THEN UNCHANGED <<rows, link>>
         ELSE /\ rows' = [i \in Ids |-> IF i \in news THEN sync.app ELSE IF i \in gone THEN 0 ELSE rows[i]]
              /\ link' = ClearGitLinkage(gone)
  /\ sync' = NoSync
  /\ ClearGitHubCaches
  /\ UNCHANGED <<theirs, app, apps, replaced, events, call>>

SyncFails ==
  /\ sync.pc = "asked"
  /\ sync' = NoSync
  /\ ClearGitHubCaches
  /\ UNCHANGED <<theirs, tables, events, call>>

\* A delivery that is verified, with the App's secret: none without an App.
HandleInstallation ==
  /\ \E e \in events :
       /\ events' = events \ {e}
       /\ \/ app = 0 /\ UNCHANGED <<tables, caches>>
          \/ /\ app # 0 /\ e.action = "deleted"
             /\ link' = ClearGitLinkage({e.id}) /\ rows' = [rows EXCEPT ![e.id] = 0]
             /\ ForgetInstallation(e.id) /\ UNCHANGED <<app, apps, replaced>>
          \/ /\ app # 0 /\ e.action = "suspend"
             /\ ForgetInstallation(e.id) /\ UNCHANGED tables
          \/ /\ app # 0 /\ e.action = "changed"
             /\ rows' = [rows EXCEPT ![e.id] = IF @ = 0 THEN app ELSE @]
             /\ ForgetInstallation(e.id) /\ UNCHANGED <<app, apps, link, replaced>>
  /\ UNCHANGED <<theirs, sync, call>>

\* musdash is down, or GitHub gives up: nothing redelivers.
DeliveryLost ==
  /\ \E e \in events : events' = events \ {e}
  /\ UNCHANGED <<theirs, tables, caches, sync, call>>

-----------------------------------------------------------------------------
(* Tokens.  A call is made with one, and once more if GitHub rejects it.     *)

\* GitHub accepts the tokens of the present grant.
Accepted(i, g) == open[i] /\ g = grant[i]

StartCall ==
  /\ call.pc = "no" /\ link # None
  /\ call' = [call EXCEPT !.pc = "acquire", !.id = link, !.tries = 0]
  /\ UNCHANGED <<theirs, tables, events, caches, sync>>

\* A cached token, a mint under way, or a mint of its own, as the App of now.
InstallationToken ==
  /\ call.pc = "acquire"
  /\ IF token[call.id] # 0
     THEN call' = [call EXCEPT !.pc = "sent", !.grant = token[call.id]] /\ UNCHANGED mint
     ELSE /\ call' = [call EXCEPT !.pc = "mint"]
          /\ mint' = IF mint[call.id].pc # "no" THEN mint
                     ELSE [mint EXCEPT ![call.id] = [pc |-> "asked", app |-> app, grant |-> 0]]
  /\ UNCHANGED <<theirs, tables, events, token, list, fetches, told, sync>>

\* A mint needs an App, and GitHub answers the one the installation is of.
MayMint(i) == mint[i].app # 0 /\ mint[i].app = owner[i]

MintAnswered ==
  /\ \E i \in Ids :
       /\ mint[i].pc = "asked" /\ MayMint(i) /\ open[i]
       /\ mint' = [mint EXCEPT ![i].pc = "answered", ![i].grant = grant[i]]
  /\ UNCHANGED <<theirs, tables, events, token, list, fetches, told, sync, call>>

Ended(ok) == [call EXCEPT !.pc = "no", !.id = None, !.grant = 0, !.tries = 0, !.ok = ok]

Waits(i) == call.pc = "mint" /\ call.id = i

MintEnds ==
  /\ \E i \in Ids :
       /\ mint[i].pc = "answered"
       /\ token' = [token EXCEPT ![i] = mint[i].grant]
       /\ mint' = [mint EXCEPT ![i] = NoMint]
       /\ call' = IF Waits(i) THEN [call EXCEPT !.pc = "sent", !.grant = mint[i].grant] ELSE call
  /\ UNCHANGED <<theirs, tables, events, list, fetches, told, sync>>

\* Its failure clears the record too, so the next call asks again.
Fails(i) ==
  /\ mint[i].pc = "asked"
  /\ mint' = [mint EXCEPT ![i] = NoMint]
  /\ call' = IF Waits(i) THEN Ended(FALSE) ELSE call
  /\ UNCHANGED <<theirs, tables, events, token, list, fetches, told, sync>>

MintFails == \E i \in Ids : Fails(i)

\* One that GitHub does not answer: without an App at once, with another's as
\* soon as it is refused.
MintRefused == \E i \in Ids : ~MayMint(i) /\ Fails(i)

\* Its hour passes.
TokenExpires ==
  /\ \E i \in Ids : token[i] # 0 /\ token' = [token EXCEPT ![i] = 0]
  /\ UNCHANGED <<theirs, tables, events, mint, list, fetches, told, sync, call>>

DropIfCurrent_slip(i, g) == token
\* Only the token that was rejected goes, never one that took its place.
DropIfCurrent(i, g) == IF token[i] = g THEN [token EXCEPT ![i] = 0] ELSE token

WithTokenRetry ==
  /\ call.pc = "sent"
  /\ IF Accepted(call.id, call.grant)
     THEN call' = Ended(TRUE) /\ UNCHANGED token
     ELSE IF call.tries = 0
     THEN /\ token' = DropIfCurrent(call.id, call.grant)
          /\ call' = [call EXCEPT !.pc = "acquire", !.grant = 0, !.tries = 1]
     ELSE call' = Ended(FALSE) /\ UNCHANGED token
  /\ UNCHANGED <<theirs, tables, events, mint, list, fetches, told, sync>>

-----------------------------------------------------------------------------
(* Repository lists, which the picker shows.                                *)

\* A list too old is fetched; a fetch under way is joined.
RepoCacheGet ==
  /\ \E i \in Ids :
       /\ rows[i] # 0
       /\ \A f \in fetches : f.id = i => ~f.now
       /\ fetches' = fetches \cup {[id |-> i, grant |-> 0, now |-> TRUE, fresh |-> TRUE]}
  /\ Quiet /\ Cardinality(fetches) < MaxFetches
  /\ UNCHANGED <<theirs, tables, events, token, mint, list, told, sync, call>>

ListAnswered ==
  /\ \E f \in fetches :
       /\ f.grant = 0 /\ open[f.id]
       /\ fetches' = (fetches \ {f}) \cup {[f EXCEPT !.grant = grant[f.id]]}
  /\ UNCHANGED <<theirs, tables, events, token, mint, list, told, sync, call>>

\* Stored unless something was forgotten meanwhile; an older list past its
\* limits goes first, so a full cache stores it or nothing.
Refresh ==
  /\ \E f \in fetches :
       /\ f.grant # 0
       /\ list' = IF f.fresh THEN [list EXCEPT ![f.id] = f.grant] ELSE list
       /\ fetches' = fetches \ {f}
  /\ UNCHANGED <<theirs, tables, events, token, mint, told, sync, call>>

\* The older list is served, and kept.
RefreshFails ==
  /\ \E f \in fetches : fetches' = fetches \ {f}
  /\ UNCHANGED <<theirs, tables, events, token, mint, list, told, sync, call>>

\* Its hour passes, or a newer list of another installation takes its room.
ListDropped ==
  /\ \E i \in Ids : list[i] # 0 /\ list' = [list EXCEPT ![i] = 0]
  /\ UNCHANGED <<theirs, tables, events, token, mint, fetches, told, sync, call>>

-----------------------------------------------------------------------------
(* GitHub.                                                                 *)

Tell(action, i) == events' = events \cup {[action |-> action, id |-> i]}

Install ==
  /\ app # 0
  /\ \E i \in Ids :
       /\ owner[i] = 0
       /\ owner' = [owner EXCEPT ![i] = app] /\ grant' = [grant EXCEPT ![i] = 1]
       /\ open' = [open EXCEPT ![i] = TRUE] /\ Tell("changed", i)
  /\ UNCHANGED <<tables, caches, sync, call>>

\* Permissions, repositories, a suspension and its end: older tokens are refused.
GrantChanges ==
  /\ \E i \in Ids :
       /\ 0 < grant[i] /\ grant[i] < MaxGrants
       /\ grant' = [grant EXCEPT ![i] = @ + 1]
       /\ \/ open[i] /\ open' = [open EXCEPT ![i] = FALSE] /\ Tell("suspend", i)
          \/ open' = [open EXCEPT ![i] = TRUE] /\ Tell("changed", i)
  /\ UNCHANGED <<owner, tables, caches, sync, call>>

Uninstall ==
  /\ \E i \in Ids :
       /\ grant[i] > 0
       /\ grant' = [grant EXCEPT ![i] = 0] /\ open' = [open EXCEPT ![i] = FALSE]
       /\ Tell("deleted", i)
  /\ UNCHANGED <<owner, tables, caches, sync, call>>

Next ==
  \/ ReplaceGithubApp \/ Disconnect \/ SetGitSource
  \/ SyncBegins \/ SyncAnswered \/ SyncInstallations \/ SyncFails
  \/ HandleInstallation \/ DeliveryLost
  \/ StartCall \/ InstallationToken \/ MintAnswered \/ MintEnds \/ MintFails
  \/ TokenExpires \/ WithTokenRetry
  \/ RepoCacheGet \/ ListAnswered \/ Refresh \/ RefreshFails \/ ListDropped
  \/ Install \/ GrantChanges \/ Uninstall

Spec == Init /\ [][Next]_vars

\* Calls are made for ever, and GitHub answers some of them; the timeouts of
\* the others end them.
CallSteps == StartCall \/ InstallationToken \/ MintEnds \/ MintRefused \/ WithTokenRetry
Fairness == WF_vars(CallSteps) /\ SF_vars(MintAnswered)
FairSpec == Spec /\ Fairness

-----------------------------------------------------------------------------
(* Properties.                                                             *)

\* No list is shown that was fetched under a grant before the one musdash was
\* last told of, though its answer came after (github/repo-cache.ts).
ListsUnderTheGrant == \A i \in Ids : list[i] # 0 => list[i] >= told[i]

\* The same of tokens, of which no code takes care: a mint in flight when its
\* installation is forgotten is cached all the same (github/tokens.ts).
\* Refuted: README, section 3.
TokensUnderTheGrant == \A i \in Ids : token[i] # 0 => token[i] >= told[i]

\* A resource is linked to an installation that has a row, unless an App was
\* registered over another.
LinksResolve == link = None \/ rows[link] # 0 \/ replaced

\* The same without that exception.
\* Refuted: README, section 3.
LinksAlwaysResolve == link = None \/ rows[link] # 0

\* A rejected token does not stay, nor a failed mint: once the resource is linked
\* to an active installation of the App that is registered, calls succeed again.
LeftAlone(i) == link = i /\ open[i] /\ app # 0 /\ owner[i] = app
Succeeded == call.ok /\ call.pc = "no"
CallsRecover == (\E i \in Ids : <>[]LeftAlone(i)) => []<>Succeeded

\* The same of any active installation: an App registered over another keeps the
\* links to the other's installations, whose tokens it cannot mint.
\* Refuted: README, section 3.
LinkedCallsRecover == (\E i \in Ids : <>[](link = i /\ open[i])) => []<>Succeeded
================================================================================
