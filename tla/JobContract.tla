---------------------------- MODULE JobContract ----------------------------
(***************************************************************************)
(* What the job queue promises its callers, with nothing of how it keeps   *)
(* the promise: a submitted job waits, is run by at most one handler at a   *)
(* time, and ends once.  A job leaves the waiting room only by being run    *)
(* or by being withdrawn, whatever crashes in between, and a job that has   *)
(* ended or was withdrawn is never run again.                               *)
(*                                                                          *)
(* JobQueue (the jobs table, the worker loop, recovery at startup) is shown *)
(* to implement this module, by TLC on small instances and by TLAPS.        *)
(***************************************************************************)
CONSTANT Job

VARIABLE phase

Phase == {"unknown", "waiting", "running", "done", "failed", "withdrawn", "forgotten"}

\* A job in one of these phases has had its last run.
Over == {"done", "failed", "withdrawn", "forgotten"}

TypeOK == phase \in [Job -> Phase]

Init == phase = [j \in Job |-> "unknown"]

Submit(j) ==
  /\ phase[j] = "unknown"
  /\ phase' = [phase EXCEPT ![j] = "waiting"]

Withdraw(j) ==
  /\ phase[j] = "waiting"
  /\ phase' = [phase EXCEPT ![j] = "withdrawn"]

\* One handler at a time: the product's memory budget is built on it.
Start(j) ==
  /\ phase[j] = "waiting"
  /\ \A k \in Job : phase[k] # "running"
  /\ phase' = [phase EXCEPT ![j] = "running"]

\* A handler ends: for good, or to be tried again.
Settle(j) ==
  /\ phase[j] = "running"
  /\ \E p \in {"waiting", "done", "failed"} :
       phase' = [phase EXCEPT ![j] = p]

\* Old finished jobs are deleted, any number at once.
Forget ==
  \E F \in SUBSET {j \in Job : phase[j] \in Over} :
    phase' = [j \in Job |-> IF j \in F THEN "forgotten" ELSE phase[j]]

Next == \/ \E j \in Job : Submit(j) \/ Withdraw(j) \/ Start(j) \/ Settle(j)
        \/ Forget

Spec == Init /\ [][Next]_phase
=============================================================================
