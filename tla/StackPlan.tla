------------------------------- MODULE StackPlan -------------------------------
(***************************************************************************)
(* The pure rules of Compose stacks that the deploy, the route sync, the    *)
(* reconciler and the forms share (jobs/compose-plan.ts).  No state.        *)
(*                                                                          *)
(* A domain row is [host, service, port, auto]; a row written before        *)
(* per-service routing has service NoService and belongs to the public one. *)
(***************************************************************************)
EXTENDS Integers, Sequences, FiniteSets

CONSTANTS
  Service,   \* names of services
  NoService, \* no service
  Host,      \* lower-cased hostnames
  NoHost,    \* no hostname
  Port       \* container ports

ASSUME StackNames == NoService \notin Service /\ NoHost \notin Host /\ 0 \notin Port

Row == [host : Host, service : Service \cup {NoService}, port : Port \cup {0}, auto : BOOLEAN]
Unset == [service |-> NoService, port |-> 0]
Public == {Unset} \cup [service : Service, port : Port]

\* What the rows claim, in order: the public service stands in for a missing
\* one, and the auto subdomain comes last.  A claim of no service counts for nothing.
Claims(rows, public, auto) ==
  LET claim(r) == IF r.service = NoService
                  THEN [host |-> r.host, service |-> public.service, port |-> public.port]
                  ELSE [host |-> r.host, service |-> r.service, port |-> r.port]
      implicit == IF auto = NoHost THEN << >>
                  ELSE << [host |-> auto, service |-> public.service, port |-> public.port] >>
  IN [i \in DOMAIN rows |-> claim(rows[i])] \o implicit

Made(claims) == {i \in DOMAIN claims : claims[i].service # NoService}
First(S) == CHOOSE i \in S : \A j \in S : i <= j

\* A service has one port: the public port, else that of its first claim.
PortIn(claims, public, s) ==
  LET own == {i \in Made(claims) : claims[i].service = s}
  IN IF s = public.service THEN public.port
     ELSE IF own = {} THEN 0
     ELSE claims[First(own)].port

\* Each host goes to its first claim, unless that asks for another port than
\* its service has (a conflict) or the host is the dashboard's.
RoutingPlan(rows, public, auto, dashboard) ==
  LET claims == Claims(rows, public, auto)
      winner(h) == claims[First({i \in Made(claims) : claims[i].host = h})]
      claimed == {claims[i].host : i \in Made(claims)} \ {dashboard}
  IN [s \in Service |->
        [hosts |-> {h \in claimed : winner(h).service = s
                                    /\ winner(h).port = PortIn(claims, public, s)},
         port |-> PortIn(claims, public, s)]]

Planned(plan) == {s \in Service : plan[s].hosts # {}}
PlannedHosts(plan) == UNION {plan[s].hosts : s \in Service}

\* The port a new or moved row of a service must ask for, 0 when nothing fixes
\* one; `except` is the row being moved.
ServicePortFor(rows, public, s, except) ==
  LET others == {i \in DOMAIN rows : i # except /\ rows[i].service = s}
  IN IF s = public.service THEN public.port
     ELSE IF others = {} THEN 0
     ELSE rows[First(others)].port

RoutingChangeNeedsDeploy_slip(before, routedServices, s, port) ==
  before[s].hosts # {} /\ before[s].port # port

\* Only a deploy joins a service to the proxy's network or moves a live port.
RoutingChangeNeedsDeploy(before, routedServices, s, port) ==
  IF before[s].hosts = {} THEN s \notin routedServices ELSE before[s].port # port

GainFirstHosts_slip(current, final) == {}

\* The routes that must be written before any other loses a host: those
\* gaining a host another route holds now.
GainFirstHosts(current, final) ==
  {s \in Service : \E h \in final[s] \ current[s] :
                      \E other \in Service \ {s} : h \in current[other]}

PrimaryService(publicService, services) ==
  IF publicService # NoService THEN {publicService}
  ELSE IF services = {} THEN {} ELSE {CHOOSE s \in services : TRUE}

\* A service's container: "none", or what the Engine says of it, exited with 0
\* ("done") or not ("failed").
State == {"none", "created", "running", "done", "failed"}

IsOneShot(restart) == restart \in {"no", "on-failure"}

\* The gate's verdict of one poll: good, bad for ever, or not yet.
ServiceVerdict(state, restarts, restart) ==
  CASE state = "none" -> "wait"
    [] state # "none" /\ restarts > 0 -> "bad"
    [] state = "running" /\ restarts = 0 -> "good"
    [] state = "done" /\ restarts = 0 -> IF IsOneShot(restart) THEN "good" ELSE "wait"
    [] state = "failed" /\ restarts = 0 -> "bad"
    [] state = "created" /\ restarts = 0 -> "wait"

\* The services a heal is for; any exit with 0 is taken for a one-shot's.
StackServicesDown(services, state) == {s \in services : state[s] \notin {"running", "done"}}
================================================================================
