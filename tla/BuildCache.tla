------------------------------- MODULE BuildCache -------------------------------
(***************************************************************************)
(* BuildKit's layer caches on disk (build/cache.ts): a directory a resource,  *)
(* renewed by its builds, removed with it, and swept daily: orphans first,    *)
(* then the least lately used once all of them are over the cap.              *)
(*                                                                          *)
(* The sweep is one synchronous job; what the disk refuses is the variable     *)
(* part of it.  Sizes are in tenths of the cap.                               *)
(***************************************************************************)
EXTENDS Naturals, FiniteSetsExt

CONSTANTS
  Keys,      \* cache keys, one a resource
  Sizes,     \* what a cache may measure
  MaxBuilds, \* bound
  MaxFaults  \* bound: directories that begin to refuse

VARIABLES
  caches,  \* of those there are: size, and whether their tree can be read
  renewed, \* mtime: the build that wrote each last, 0 where there is no cache
  live,    \* keys of the resources there are
  stuck,   \* directories that cannot be removed
  hidden,  \* directories that cannot be looked at
  builds, faults

vars == <<caches, renewed, live, stuck, hidden, builds, faults>>

CapBytes == 10
TargetBytes == 8 \* LOW_WATERMARK

BuildCacheTypeOK ==
  /\ caches \in [Keys -> [size : Sizes, unreadable : BOOLEAN]]
  /\ renewed \in [Keys -> 0..MaxBuilds]
  /\ live \subseteq Keys /\ stuck \subseteq Keys /\ hidden \subseteq Keys
  /\ builds \in 0..MaxBuilds /\ faults \in 0..MaxFaults

Init ==
  /\ caches \in [Keys -> [size : Sizes, unreadable : {FALSE}]]
  /\ renewed = [key \in Keys |-> 0] /\ live = Keys
  /\ stuck = {} /\ hidden = {} /\ builds = 0 /\ faults = 0

Present == {key \in Keys : renewed[key] # 0}
Remove(keys) == renewed' = [key \in Keys |-> IF key \in keys THEN 0 ELSE renewed[key]]

\* A build writes its resource's cache, which is the newest then.
Build(key) ==
  /\ key \in live /\ builds < MaxBuilds /\ builds' = builds + 1
  /\ \E size \in Sizes : caches' = [caches EXCEPT ![key].size = size]
  /\ renewed' = [renewed EXCEPT ![key] = builds + 1]
  /\ UNCHANGED <<live, stuck, hidden, faults>>

\* Best effort: its resource goes all the same.
RemoveResourceCache(key) ==
  /\ key \in live /\ live' = live \ {key}
  /\ Remove({key} \ stuck)
  /\ UNCHANGED <<caches, stuck, hidden, builds, faults>>

DiskRefuses ==
  /\ faults < MaxFaults /\ faults' = faults + 1
  /\ \E key \in Keys :
       \/ stuck' = stuck \cup {key} /\ UNCHANGED <<caches, hidden>>
       \/ hidden' = hidden \cup {key} /\ UNCHANGED <<caches, stuck>>
       \/ caches' = [caches EXCEPT ![key].unreadable = TRUE] /\ UNCHANGED <<stuck, hidden>>
  /\ UNCHANGED <<renewed, live, builds>>

Orphans == Present \ (live \cup hidden)
\* The caches that are weighed.
Sized == (Present \cap live) \ hidden
\* A cache with those newer than it.
UpTo(key) == {k \in Sized : renewed[k] >= renewed[key]}

\* A tree that cannot be read is charged the low watermark at least.
Charged(key) ==
  IF caches[key].unreadable /\ caches[key].size < TargetBytes THEN TargetBytes ELSE caches[key].size
TotalBytes(keys) == MapThenSumSet(Charged, keys)

Kept_slip ==
  IF TotalBytes(Sized) <= CapBytes THEN Sized
  ELSE {key \in Sized : TotalBytes(UpTo(key)) <= TargetBytes}

\* All of them stay up to the cap; else the newest, and those that fit under the
\* low watermark with all that are newer: no older one after one that does not.
Kept ==
  IF TotalBytes(Sized) <= CapBytes THEN Sized
  ELSE {key \in Sized : TotalBytes(UpTo(key)) <= TargetBytes \/ UpTo(key) = {key}}

SweepBuildCache ==
  /\ Remove((Orphans \cup (Sized \ Kept)) \ stuck)
  /\ UNCHANGED <<caches, live, stuck, hidden, builds, faults>>

Next ==
  \/ \E key \in Keys : Build(key) \/ RemoveResourceCache(key)
  \/ DiskRefuses \/ SweepBuildCache

Spec == Init /\ [][Next]_vars

-----------------------------------------------------------------------------
(* Properties.                                                             *)

Evicted == {key \in Present : renewed'[key] = 0}
Stays == Sized \ (Evicted \cup stuck)

\* The daily sweep (sweepBuildCache) spares every resource's cache while all fit
\* the cap; over it, it spares the newest, takes no cache before an older one,
\* and leaves what fits; and an orphan it can remove never outlives it.
SweepStep ==
  SweepBuildCache =>
    /\ Evicted \cap live # {} => TotalBytes(Sized) > CapBytes
    /\ \A key \in Sized : UpTo(key) = {key} => key \notin Evicted
    /\ \A key \in Sized \cap Evicted, older \in Sized :
         renewed[older] < renewed[key] => older \in Evicted \cup stuck
    /\ TotalBytes(Stays) <= CapBytes \/ \A j, k \in Stays : j = k
    /\ Orphans \ stuck \subseteq Evicted
SweepSpares == [][SweepStep]_vars
================================================================================
