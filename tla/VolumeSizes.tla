------------------------------ MODULE VolumeSizes ------------------------------
(***************************************************************************)
(* The measurement of the stacks' volumes that every page shares              *)
(* (volumes/sizes.ts, volumes/index.ts): dear, so it is cached, and a failure *)
(* too; a page that asks while it runs waits for it, though not for long.     *)
(*                                                                          *)
(* Time passes in ticks, never past a timer that is due.                     *)
(***************************************************************************)
EXTENDS Naturals, FiniteSets

CONSTANTS
  Pages,        \* those that ask
  Owners,       \* resources, numbered as their ids sort
  Totals,       \* what the volumes of one may measure; 0 when it has none
  MaxResources, \* VOLUME_SIZES_MAX_RESOURCES
  Ttl,          \* VOLUME_SIZES_TTL_MS
  FailureTtl,   \* VOLUME_SIZES_FAILURE_TTL_MS
  AnswerTime,   \* VOLUME_SIZES_ANSWER_MS
  DfTime        \* DF_TIMEOUT_MS

VARIABLES
  disk,    \* what there is to measure, by resource
  stored,  \* the last result: "none", "known" or "unknown", what it keeps, and its age
  running, \* the measurements that run, by how long, or 0 when the slot is empty: 1 is new
  pages,   \* each: "idle" or "waits", for how long, and its last answer with its age
  rests    \* history: whether each measurement began with nothing younger to serve

vars == <<disk, stored, running, pages, rests>>
Slots == 1..2 \* a second slot, so that a second measurement at once can be told

Longest == IF Ttl > FailureTtl THEN Ttl ELSE FailureTtl
Results == {"none", "known", "unknown"}

VolumeSizesTypeOK ==
  /\ disk \in [Owners -> Totals]
  /\ stored \in [kind : Results, kept : SUBSET Owners, age : 0..Longest]
  /\ running \in [Slots -> 0..DfTime + 1]
  /\ pages \in [Pages -> [pc : {"idle", "waits"}, for : 0..AnswerTime, answer : Results, age : 0..Longest]]
  /\ rests \in BOOLEAN

Idle == [pc |-> "idle", for |-> 0, answer |-> "none", age |-> 0]

Init ==
  /\ disk \in [Owners -> Totals]
  /\ stored = [kind |-> "none", kept |-> {}, age |-> 0]
  /\ running = [s \in Slots |-> 0] /\ pages = [p \in Pages |-> Idle] /\ rests = TRUE

\* The resources that hold the most, the first id before others that hold as much.
SnapshotOf(sizes) ==
  LET Before(a, b) == sizes[a] > sizes[b] \/ (sizes[a] = sizes[b] /\ a < b)
      measured == {r \in Owners : sizes[r] > 0}
  IN  {r \in measured : Cardinality({s \in measured : Before(s, r)}) < MaxResources}

TtlOf(kind) == IF kind = "known" THEN Ttl ELSE FailureTtl
Fresh == stored.kind # "none" /\ stored.age < TtlOf(stored.kind)

InFlight_slip == FALSE
InFlight == \E s \in Slots : running[s] > 0

\* A page asks: what is fresh is served; else it waits for the measurement that
\* runs, or for one that it starts.
Get ==
  /\ \E p \in Pages :
       /\ pages[p].pc = "idle"
       /\ IF Fresh
          THEN /\ pages' = [pages EXCEPT ![p].answer = stored.kind, ![p].age = stored.age]
               /\ UNCHANGED <<running, rests>>
          ELSE /\ pages' = [pages EXCEPT ![p].pc = "waits", ![p].for = 0]
               /\ IF InFlight THEN UNCHANGED <<running, rests>>
                  ELSE \E s \in Slots :
                         /\ running[s] = 0 /\ \A t \in Slots : t < s => running[t] > 0
                         /\ running' = [running EXCEPT ![s] = 1]
                         /\ rests' = (\A t \in Slots : running[t] = 0)
  /\ UNCHANGED <<disk, stored>>

Served(kind) == [p \in Pages |-> IF pages[p].pc = "waits" THEN [Idle EXCEPT !.answer = kind] ELSE pages[p]]

\* It lands, and whoever still waits has it; or it fails, at the latest when its
\* time is over.
Measured ==
  /\ \E s \in Slots :
       /\ running[s] > 0 /\ running' = [running EXCEPT ![s] = 0]
       /\ \/ /\ stored' = [kind |-> "known", kept |-> SnapshotOf(disk), age |-> 0]
             /\ pages' = Served("known")
          \/ stored' = [kind |-> "unknown", kept |-> {}, age |-> 0] /\ pages' = Served("unknown")
  /\ UNCHANGED <<disk, rests>>

\* The page is told "unknown" while the measurement runs on.
AnswersUnknown ==
  /\ \E p \in Pages :
       /\ pages[p].pc = "waits" /\ pages[p].for >= AnswerTime
       /\ pages' = [pages EXCEPT ![p] = [Idle EXCEPT !.answer = "unknown"]]
  /\ UNCHANGED <<disk, stored, running, rests>>

Tick ==
  /\ \A p \in Pages : pages[p].pc = "waits" => pages[p].for < AnswerTime
  /\ \A s \in Slots : running[s] <= DfTime
  /\ stored' = [stored EXCEPT !.age = IF stored.kind # "none" /\ @ < Longest THEN @ + 1 ELSE @]
  /\ running' = [s \in Slots |-> IF running[s] > 0 THEN running[s] + 1 ELSE 0]
  /\ pages' = [p \in Pages |-> IF pages[p].pc = "waits" THEN [pages[p] EXCEPT !.for = @ + 1] ELSE pages[p]]
  /\ UNCHANGED <<disk, rests>>

Next == Get \/ Measured \/ AnswersUnknown \/ Tick

Spec == Init /\ [][Next]_vars

-----------------------------------------------------------------------------
(* Properties.                                                             *)

\* However many pages ask, one measurement runs; what it kept is the largest;
\* and none is served once it is older than its kind may be.
MeasuredOnce ==
  /\ rests
  /\ stored.kind = "known" =>
       /\ Cardinality(stored.kept) <= MaxResources
       /\ \A r \in stored.kept : \A s \in Owners \ stored.kept : disk[s] <= disk[r]
  /\ \A p \in Pages : pages[p].answer # "none" => pages[p].age < TtlOf(pages[p].answer)
================================================================================
