------------------------------- MODULE HealthGate -------------------------------
(***************************************************************************)
(* What a deploy waits for: the health of its container before traffic moves  *)
(* (jobs/health-gate.ts), and a certificate for each new name after          *)
(* (jobs/health-gate.ts, caddy/tls-probe.ts).  Docker restarts a container    *)
(* that crashes and reports it as running all the while.                     *)
(*                                                                          *)
(* Time passes in ticks, never past a timer that is due; a question to Docker *)
(* takes none.                                                              *)
(***************************************************************************)
EXTENDS Naturals

CONSTANTS
  Hosts,       \* names new to the route
  HealthTime,  \* healthTimeoutSec
  AnswerTime,  \* how long one health request may take
  Uptime,      \* the uptime that is enough without a check
  Baselines,   \* restarts a stack's service may have had before
  MaxCrashes,  \* bound
  CertTime,    \* CERT_WAIT_MS
  AttemptTime, \* CERT_ATTEMPT_TIMEOUT_MS
  RetryTime,   \* CERT_RETRY_INTERVAL_MS
  MaxFaults    \* bound: handshakes the proxy lets hang

VARIABLES
  now,
  way,       \* what tells health: "http", "declared" or "uptime"
  deadline,  \* of the gate; a stack's services share one
  baseline,  \* restarts before this deploy
  box,       \* the container: whether Docker calls it running, restarts, health, whether it serves
  since,     \* ticks since it started last
  gate,      \* where the gate is: "begins", "looks", "asks", "sleeps", "passed", "switched", "failed"
  wake,      \* when the gate's sleep or its health request ends
  look,      \* history: the container as the gate saw it last
  switched,  \* when the route was switched
  certs,     \* each name: "looks", "probes", "sleeps", "ready", "late", and until when
  issued,    \* names the proxy has a certificate for, and since when
  faults

vars == <<now, way, deadline, baseline, box, since, gate, wake, look, switched, certs, issued, faults>>
certVars == <<switched, certs, issued, faults>>

Ways == {"http", "declared", "uptime"}
Boxes == [running : BOOLEAN, restarts : Nat, health : {"none", "starting", "healthy", "unhealthy"},
          serves : BOOLEAN]
\* Later than the gate may end and the names be waited for.
Never == CertTime + HealthTime + AnswerTime + Uptime + 2

HealthGateTypeOK ==
  /\ now \in Nat /\ way \in Ways /\ deadline \in 0..HealthTime /\ baseline \in Baselines
  /\ box \in Boxes /\ since \in Nat
  /\ gate \in {"begins", "looks", "asks", "sleeps", "passed", "failed", "switched"}
  /\ wake \in Nat /\ look \in Boxes /\ switched \in Nat
  /\ certs \in [Hosts -> [pc : {"looks", "probes", "sleeps", "ready", "late"}, until : Nat]]
  /\ issued \in [Hosts -> Nat] /\ faults \in 0..MaxFaults

Init ==
  /\ now = 0 /\ way \in Ways /\ deadline \in {0, HealthTime} /\ baseline \in Baselines
  /\ box = [running |-> TRUE, restarts |-> baseline,
            health |-> IF way = "declared" THEN "starting" ELSE "none", serves |-> FALSE]
  /\ since = 0 /\ gate = "begins" /\ wake = 0 /\ look = box
  /\ switched = 0 /\ certs = [h \in Hosts |-> [pc |-> "looks", until |-> 0]]
  /\ issued = [h \in Hosts |-> Never] /\ faults = 0

-----------------------------------------------------------------------------
(* The container, while the gate watches it.                               *)

Gating == gate \in {"begins", "looks", "asks", "sleeps"}

Settles ==
  /\ Gating /\ box.running
  /\ \/ ~box.serves /\ box' = [box EXCEPT !.serves = TRUE]
     \/ /\ box.health = "starting"
        /\ \E health \in {"healthy", "unhealthy"} : box' = [box EXCEPT !.health = health]
  /\ UNCHANGED <<now, way, deadline, baseline, since, gate, wake, look, certVars>>

\* It crashes and Docker starts it again; or it ends for good.
Crashes ==
  /\ Gating /\ box.running /\ box.restarts - baseline < MaxCrashes
  /\ \/ box' = [box EXCEPT !.restarts = @ + 1, !.serves = FALSE,
                           !.health = IF @ = "none" THEN "none" ELSE "starting"]
     \/ box' = [box EXCEPT !.running = FALSE, !.serves = FALSE,
                           !.health = IF @ = "none" THEN "none" ELSE "unhealthy"]
  /\ since' = 0
  /\ UNCHANGED <<now, way, deadline, baseline, gate, wake, look, certVars>>

-----------------------------------------------------------------------------
(* The gate: healthGate.                                                   *)

Ends(pc) == gate' = pc /\ UNCHANGED wake
Sleeps(ticks) == gate' = "sleeps" /\ wake' = now + ticks

Begins ==
  /\ gate = "begins"
  /\ IF way = "uptime" THEN Sleeps(Uptime) ELSE Ends("looks")
  /\ UNCHANGED <<now, way, deadline, baseline, box, since, look, certVars>>

AssertNotRestarted_slip == TRUE
\* A restart since the deploy began is a crash, though it runs.
AssertNotRestarted == box.restarts <= baseline

\* Each way's answer to what Docker says: the polls ask until the deadline, the
\* uptime is asked for once.
Looks ==
  /\ gate = "looks"
  /\ look' = box
  /\ IF way # "uptime" /\ now > deadline THEN Ends("failed")
     ELSE IF ~AssertNotRestarted THEN Ends("failed")
     ELSE CASE way = "http" ->
                 IF box.running THEN gate' = "asks" /\ wake' = now + AnswerTime ELSE Ends("failed")
            [] way = "declared" ->
                 IF box.health = "healthy" THEN Ends("passed")
                 ELSE IF box.health = "unhealthy" \/ ~box.running THEN Ends("failed") ELSE Sleeps(1)
            [] way = "uptime" -> Ends(IF box.running THEN "passed" ELSE "failed")
  /\ UNCHANGED <<now, way, deadline, baseline, box, since, certVars>>

\* It answers well; or ill, or not in time.
Answered ==
  /\ gate = "asks"
  /\ \/ box.serves /\ Ends("passed")
     \/ Sleeps(1)
  /\ UNCHANGED <<now, way, deadline, baseline, box, since, look, certVars>>

Wakes ==
  /\ gate = "sleeps" /\ now >= wake
  /\ Ends("looks")
  /\ UNCHANGED <<now, way, deadline, baseline, box, since, look, certVars>>

-----------------------------------------------------------------------------
(* The wait for certificates: awaitCertificates, waitForCertificate.        *)

\* Traffic moves; the names' waits share a deadline that begins there.
SwitchRoute ==
  /\ gate = "passed" /\ gate' = "switched" /\ switched' = now
  /\ UNCHANGED <<now, way, deadline, baseline, box, since, wake, look, certs, issued, faults>>

gateVars == <<way, deadline, baseline, box, since, gate, wake, look, switched>>
Left == IF now < switched + CertTime THEN switched + CertTime - now ELSE 0
Least(a, b) == IF a < b THEN a ELSE b
Cert(h, pc, until) == certs' = [certs EXCEPT ![h] = [pc |-> pc, until |-> until]]
Waiting(h) == gate = "switched" /\ certs[h].pc \in {"looks", "probes", "sleeps"}

\* The proxy gets one, sooner or later or never.
Issues ==
  /\ gate = "switched"
  /\ \E h \in Hosts : issued[h] = Never /\ issued' = [issued EXCEPT ![h] = now]
  /\ UNCHANGED <<now, gateVars, certs, faults>>

\* One handshake, no longer than what is left.
Probe(h) ==
  /\ Waiting(h) /\ certs[h].pc = "looks"
  /\ IF Left = 0 THEN Cert(h, "late", now) ELSE Cert(h, "probes", now + Least(AttemptTime, Left))
  /\ UNCHANGED <<now, gateVars, issued, faults>>

Nap_slip == RetryTime
\* The pause between two of them, no longer than what is left.
Nap == Least(RetryTime, Left)

\* The proxy answers with the certificate, or that it has none; or it lets the
\* handshake hang until its time is over.
ProbeEnds(h) ==
  /\ Waiting(h) /\ certs[h].pc = "probes"
  /\ \/ issued[h] # Never /\ Cert(h, "ready", now) /\ UNCHANGED faults
     \/ /\ \/ issued[h] = Never /\ UNCHANGED faults
           \/ now >= certs[h].until /\ faults < MaxFaults /\ faults' = faults + 1
        /\ IF Left = 0 THEN Cert(h, "late", now) ELSE Cert(h, "sleeps", now + Nap)
  /\ UNCHANGED <<now, gateVars, issued>>

Retries(h) ==
  /\ Waiting(h) /\ certs[h].pc = "sleeps" /\ now >= certs[h].until
  /\ Cert(h, "looks", now)
  /\ UNCHANGED <<now, gateVars, issued, faults>>

-----------------------------------------------------------------------------

GateDue == gate \in {"begins", "looks", "passed"} \/ (gate \in {"asks", "sleeps"} /\ now >= wake)
CertDue(h) == Waiting(h) /\ (certs[h].pc = "looks" \/ now >= certs[h].until)

Tick ==
  /\ Gating \/ \E h \in Hosts : Waiting(h)
  /\ ~GateDue /\ \A h \in Hosts : ~CertDue(h)
  /\ now' = now + 1 /\ since' = Least(since + 1, Uptime)
  /\ UNCHANGED <<way, deadline, baseline, box, gate, wake, look, certVars>>

Next ==
  \/ Settles \/ Crashes \/ Begins \/ Looks \/ Answered \/ Wakes
  \/ SwitchRoute \/ Issues
  \/ \E h \in Hosts : Probe(h) \/ ProbeEnds(h) \/ Retries(h)
  \/ Tick

Spec == Init /\ [][Next]_vars

-----------------------------------------------------------------------------
(* Properties.                                                             *)

\* A container that passes had not been restarted when the gate last looked,
\* though Docker calls a crash loop running: it reported health, or ran the
\* whole uptime without a crash.
CrashLoopFails ==
  gate \in {"passed", "switched"} =>
    /\ look.running /\ look.restarts = baseline
    /\ way = "declared" => look.health = "healthy"
    /\ way = "uptime" => since = Uptime

\* The gate ends by its deadline, but for the request it waits for and the
\* uptime it asks of a container without a check, whose deadline is not asked.
GateEnds ==
  Gating => IF way = "uptime" THEN now <= Uptime ELSE now <= deadline + AnswerTime + 1

\* The names are waited for together and no longer than their deadline, and a
\* certificate the proxy had for a whole round of handshake and pause before it
\* is found, unless the proxy let one hang.
CertsEnd ==
  /\ gate = "switched" /\ (\E h \in Hosts : Waiting(h)) => now <= switched + CertTime
  /\ \A h \in Hosts :
       certs[h].pc = "late" /\ faults = 0 => issued[h] + AttemptTime + RetryTime > switched + CertTime
================================================================================
