------------------------------- MODULE ProxyProofs -------------------------------
(***************************************************************************)
(* What holds of Proxy for any hostnames, forms, attempts, failing calls,     *)
(* mishaps of the world and crashes.                                         *)
(***************************************************************************)
EXTENDS Proxy, Integers, SequenceTheorems, TLAPS

JobRecord == [kind : {"ensure", "apply", "sync"}, tries : 1..MaxTries]
RouteId == {"app", "host", "ip", "lost"}
TailId == {"host", "ip", "lost"}
ConfRecord == [base : BOOLEAN, routes : Seq(RouteId), host : Host \cup {NoHost}, app : SUBSET Host,
               issuer : BOOLEAN]
WorkerRecord ==
  [pc : {"idle", "off", "look", "pull", "preflight", "replace", "create", "start",
         "wait", "base", "verify", "sync", "drop", "append", "issuer"},
   job : JobRecord, adopted : BOOLEAN, restarted : BOOLEAN, host : Host \cup {NoHost},
   todo : Seq(TailId), left : BOOLEAN]

\* TypeOK, variable by variable.
BoxTyped ==
  box \in [made : {"none", "gen1", "stale", "current"}, state : {"exited", "running"},
           mapped : BOOLEAN, wedged : BOOLEAN, bad : BOOLEAN]
WorldTyped ==
  /\ throwaway \in BOOLEAN
  /\ registry \in {"good", "bad"} /\ cached \in {"none", "good", "bad"} /\ port \in {"free", "held"}
RowsTyped == dashboard \in Host \cup {NoHost} /\ applied \in Host \cup {NoHost} /\ appRow \subseteq Host
QueueTyped == queue \in Seq(JobRecord)
WorkerTyped == worker \in WorkerRecord
BoundsTyped == queued \in BOOLEAN /\ failed \in BOOLEAN /\ forms \in 0..MaxForms /\ faults \in 0..MaxFaults

\* A configuration whose routes are in order, with hosts on those that have some.
Ids(c) == Range(c.routes)
ConfSound(c) ==
  /\ c \in ConfRecord /\ InOrder(c.routes)
  /\ "app" \in Ids(c) <=> c.app # {}
  /\ "host" \in Ids(c) <=> c.host # NoHost
ConfOK == ConfSound(conf)

\* What does not exist does not run, and a bad image does not.
BoxSane == (box.made = "none" => box = NoBox) /\ (box.bad => box.state = "exited")

\* The bootstrap takes away only what is not current, after a preflight, and
\* creates where there is nothing.
BootPc == {"look", "pull", "preflight", "replace", "create", "start", "wait", "base", "verify"}
ReplaceReady ==
  /\ At("pull") => box.made # "current"
  /\ At("preflight") => box.made # "current"
  /\ At("replace") => cached = "good" /\ box.made # "current"
  /\ At("create") => box = NoBox

\* Which job is where.
Busy == worker.pc \notin {"idle", "off"}
KindFits ==
  /\ worker.pc \in BootPc => worker.job.kind = "ensure"
  /\ worker.pc \in {"drop", "append", "issuer"} => worker.job.kind # "sync"

\* How far the tail is taken down or built up again.
TailBuilt ==
  /\ At("drop") =>
       \/ worker.todo = <<"host", "ip", "lost">>
       \/ worker.todo = <<"ip", "lost">> /\ ~Has("host")
       \/ worker.todo = <<"lost">> /\ ~Has("host") /\ ~Has("ip")
  /\ At("append") =>
       \/ /\ worker.todo = <<"host", "ip", "lost">> /\ worker.host # NoHost
          /\ ~Has("host") /\ ~Has("ip") /\ ~Has("lost")
       \/ worker.todo = <<"ip", "lost">> /\ ~Has("ip") /\ ~Has("lost") /\ conf.host = worker.host
       \/ worker.todo = <<"lost">> /\ Has("ip") /\ ~Has("lost") /\ conf.host = worker.host
  /\ At("issuer") => Has("ip") /\ Has("lost") /\ conf.host = worker.host

\* A job that builds the tail builds the newest, or another is to come.
TailQueued == \E i \in DOMAIN queue : queue[i].kind # "sync"
Reads == worker.job.kind = "ensure" /\ worker.pc \in BootPc \cup {"sync"}
HostCurrent == Busy /\ worker.job.kind # "sync" /\ ~Reads => worker.host = dashboard \/ TailQueued

\* A job past its sync left the resources' routes as the rows say, or says so, or
\* another job is to come.
AppDone ==
  worker.pc \in {"drop", "append", "issuer"} => conf.app = AppHosts \/ worker.left \/ queue # << >>

\* What is not as the rows say is seen to, or was given up on.
TailRight == Has("ip") /\ Has("lost") /\ conf.host = dashboard /\ conf.issuer
TailFollows == failed \/ TailQueued \/ TailRight \/ At("off") \/ (Busy /\ worker.job.kind # "sync")
AppFollows == failed \/ queue # << >> \/ conf.app = AppHosts \/ Busy

WorkOK == WorkerTyped /\ QueueTyped /\ KindFits /\ TailBuilt /\ HostCurrent /\ AppDone /\ TailFollows /\ AppFollows
ProxyInv ==
  /\ BoxTyped /\ WorldTyped /\ RowsTyped /\ BoundsTyped /\ ConfOK /\ BoxSane /\ ReplaceReady /\ WorkOK

-----------------------------------------------------------------------------
(* Sequences.                                                               *)

LEMMA JoinLine ==
  ASSUME NEW S, NEW q \in Seq(S), NEW j \in S
  PROVE  /\ Append(q, j) \in Seq(S) /\ Len(Append(q, j)) = Len(q) + 1 /\ Append(q, j) # << >>
         /\ \A i \in 1..Len(q) : Append(q, j)[i] = q[i]
         /\ Append(q, j)[Len(q) + 1] = j
  BY AppendProperties

LEMMA HeadOfLine ==
  ASSUME NEW S, NEW q \in Seq(S), NEW j \in S
  PROVE  /\ << j >> \o q \in Seq(S) /\ Len(<< j >> \o q) = Len(q) + 1
         /\ (<< j >> \o q)[1] = j
         /\ \A i \in 1..Len(q) : (<< j >> \o q)[i + 1] = q[i]
<1>1. << j >> \in Seq(S) /\ Len(<< j >>) = 1 /\ << j >>[1] = j
  OBVIOUS
<1> QED BY <1>1, ConcatProperties

LEMMA LeaveAt ==
  ASSUME NEW S, NEW q \in Seq(S), NEW i \in 1..Len(q)
  PROVE  /\ RemoveAt(q, i) \in Seq(S) /\ Len(RemoveAt(q, i)) = Len(q) - 1
         /\ \A k \in 1..(Len(q) - 1) : RemoveAt(q, i)[k] = IF k < i THEN q[k] ELSE q[k + 1]
<1> DEFINE n == Len(q)
           front == SubSeq(q, 1, i - 1)
           back == SubSeq(q, i + 1, n)
<1>1. n \in Int /\ i \in Int /\ 1 <= i /\ i <= n /\ \A k \in 1..n : q[k] \in S
  OBVIOUS
<1> HIDE DEF n
<1>2. /\ front \in Seq(S) /\ Len(front) = i - 1
      /\ \A k \in 1..(i - 1) : front[k] = q[k]
  <2>1. 1 \in Int /\ i - 1 \in Int /\ \A k \in 1..(i - 1) : q[k] \in S
    BY <1>1
  <2>2. /\ front \in Seq(S) /\ Len(front) = IF 1 <= i - 1 THEN (i - 1) - 1 + 1 ELSE 0
        /\ \A k \in 1..((i - 1) - 1 + 1) : front[k] = q[1 + k - 1]
    BY <2>1, SubSeqProperties
  <2> HIDE DEF front
  <2>3. (i - 1) - 1 + 1 = i - 1 /\ (~(1 <= i - 1) => i - 1 = 0) /\ \A k \in 1..(i - 1) : 1 + k - 1 = k
    BY <1>1
  <2> QED BY <2>2, <2>3
<1>3. /\ back \in Seq(S) /\ Len(back) = n - i
      /\ \A k \in 1..(n - i) : back[k] = q[i + k]
  <2>1. i + 1 \in Int /\ n \in Int /\ \A k \in (i + 1)..n : q[k] \in S
    BY <1>1
  <2>2. /\ back \in Seq(S) /\ Len(back) = IF i + 1 <= n THEN n - (i + 1) + 1 ELSE 0
        /\ \A k \in 1..(n - (i + 1) + 1) : back[k] = q[(i + 1) + k - 1]
    BY <2>1, SubSeqProperties
  <2> HIDE DEF back
  <2>3. n - (i + 1) + 1 = n - i /\ (~(i + 1 <= n) => n - i = 0)
    BY <1>1
  <2>4. \A k \in 1..(n - i) : (i + 1) + k - 1 = i + k
    BY <1>1
  <2> QED BY <2>2, <2>3, <2>4
<1>4. RemoveAt(q, i) = front \o back
  BY DEF RemoveAt, n
<1> HIDE DEF front, back
<1>5. /\ front \o back \in Seq(S) /\ Len(front \o back) = Len(front) + Len(back)
      /\ \A k \in 1..(Len(front) + Len(back)) :
           (front \o back)[k] = IF k <= Len(front) THEN front[k] ELSE back[k - Len(front)]
  BY <1>2, <1>3, ConcatProperties
<1>6. Len(front) + Len(back) = n - 1
  BY <1>1, <1>2, <1>3
<1>7. ASSUME NEW k \in 1..(n - 1)
      PROVE  (front \o back)[k] = IF k < i THEN q[k] ELSE q[k + 1]
  <2>1. CASE k < i
    <3>1. k \in 1..(i - 1) /\ k <= i - 1
      BY <1>1, <2>1
    <3> QED BY <2>1, <3>1, <1>2, <1>5, <1>6
  <2>2. CASE ~(k < i)
    <3>1. k - (i - 1) \in 1..(n - i) /\ i + (k - (i - 1)) = k + 1 /\ ~(k <= i - 1)
      BY <1>1, <2>2
    <3> QED BY <2>2, <3>1, <1>2, <1>3, <1>5, <1>6
  <2> QED BY <2>1, <2>2
<1> QED BY <1>4, <1>5, <1>6, <1>7 DEF n

-----------------------------------------------------------------------------
(* The order of the routes.                                                 *)

LEMMA Ranks ==
  /\ Rank("app") = 1 /\ Rank("host") = 2 /\ Rank("ip") = 3 /\ Rank("lost") = 4
  /\ \A id \in RouteId : Rank(id) \in 1..4
  /\ \A id, other \in RouteId : Rank(id) = Rank(other) => id = other
<1>1. Rank("app") = 1 /\ Rank("host") = 2 /\ Rank("ip") = 3 /\ Rank("lost") = 4
  BY DEF Rank
<1> QED BY <1>1 DEF RouteId

\* Each id is at one place only.
LEMMA OnePlace ==
  ASSUME NEW s \in Seq(RouteId), InOrder(s), NEW i \in DOMAIN s, NEW j \in DOMAIN s, s[i] = s[j]
  PROVE  i = j
<1>1. i \in Nat /\ j \in Nat /\ Rank(s[i]) \in Nat /\ s[i] \in RouteId
  BY Ranks
<1>2. ~(i < j) /\ ~(j < i)
  BY <1>1 DEF InOrder
<1> QED BY <1>1, <1>2

\* A route behind all others, one ahead of all others, and one less.
LEMMA PutLast ==
  ASSUME NEW s \in Seq(RouteId), InOrder(s), NEW id \in RouteId,
         \A other \in Range(s) : Rank(other) < Rank(id)
  PROVE  Append(s, id) \in Seq(RouteId) /\ InOrder(Append(s, id)) /\ Range(Append(s, id)) = Range(s) \cup {id}
<1> DEFINE t == Append(s, id)
<1>1. /\ t \in Seq(RouteId) /\ Len(t) = Len(s) + 1 /\ Len(s) \in Nat
      /\ \A i \in 1..Len(s) : t[i] = s[i]
      /\ t[Len(s) + 1] = id
  BY JoinLine
<1> HIDE DEF t
<1>2. DOMAIN s = 1..Len(s) /\ DOMAIN t = 1..(Len(s) + 1)
  BY <1>1
<1>3. ASSUME NEW i \in DOMAIN t, NEW j \in DOMAIN t, i < j
      PROVE  Rank(t[i]) < Rank(t[j])
  <2>1. i \in 1..Len(s) /\ t[i] = s[i]
    BY <1>1, <1>2, <1>3
  <2>2. CASE j = Len(s) + 1
    BY <1>1, <1>2, <2>1, <2>2 DEF Range
  <2>3. CASE j # Len(s) + 1
    <3>1. j \in 1..Len(s)
      BY <1>1, <1>2, <2>3
    <3> QED BY <1>1, <1>2, <1>3, <2>1, <3>1 DEF InOrder
  <2> QED BY <2>2, <2>3
<1>4. Range(t) = Range(s) \cup {id}
  <2>1. \A i \in DOMAIN t : t[i] \in Range(s) \cup {id}
    <3>1. ASSUME NEW i \in DOMAIN t PROVE t[i] \in Range(s) \cup {id}
      <4>1. CASE i = Len(s) + 1
        BY <1>1, <4>1
      <4>2. CASE i # Len(s) + 1
        <5>1. i \in 1..Len(s)
          BY <1>1, <1>2, <4>2
        <5> QED BY <1>1, <1>2, <5>1 DEF Range
      <4> QED BY <4>1, <4>2
    <3> QED BY <3>1
  <2>2. \A i \in DOMAIN s : i \in DOMAIN t /\ t[i] = s[i]
    BY <1>1, <1>2
  <2>3. Len(s) + 1 \in DOMAIN t
    BY <1>1, <1>2
  <2> QED BY <1>1, <2>1, <2>2, <2>3 DEF Range
<1> QED BY <1>1, <1>3, <1>4 DEF InOrder, t

LEMMA PutFirst ==
  ASSUME NEW s \in Seq(RouteId), InOrder(s), "app" \notin Range(s)
  PROVE  /\ <<"app">> \o s \in Seq(RouteId) /\ InOrder(<<"app">> \o s)
         /\ Range(<<"app">> \o s) = Range(s) \cup {"app"}
<1> DEFINE t == <<"app">> \o s
<1>1. /\ t \in Seq(RouteId) /\ Len(t) = Len(s) + 1 /\ Len(s) \in Nat /\ t[1] = "app"
      /\ \A i \in 1..Len(s) : t[i + 1] = s[i]
  BY HeadOfLine DEF RouteId
<1> HIDE DEF t
<1>2. DOMAIN s = 1..Len(s) /\ DOMAIN t = 1..(Len(s) + 1)
  BY <1>1
<1>3. \A i \in DOMAIN t : i # 1 => i - 1 \in DOMAIN s /\ t[i] = s[i - 1]
  <2>1. ASSUME NEW i \in DOMAIN t, i # 1
        PROVE  i - 1 \in 1..Len(s) /\ (i - 1) + 1 = i
    BY <1>1, <1>2, <2>1
  <2> QED BY <1>1, <1>2, <2>1
<1>4. \A i \in DOMAIN s : s[i] \in RouteId /\ s[i] # "app" /\ Rank(s[i]) > 1
  <2>1. \A i \in DOMAIN s : s[i] \in RouteId /\ s[i] # "app"
    BY DEF Range
  <2> QED BY <2>1, Ranks DEF RouteId
<1>5. ASSUME NEW i \in DOMAIN t, NEW j \in DOMAIN t, i < j
      PROVE  Rank(t[i]) < Rank(t[j])
  <2>1. j # 1 /\ i \in Nat /\ j \in Nat
    BY <1>1, <1>2, <1>5
  <2>2. CASE i = 1
    BY <1>1, <1>3, <1>4, <2>1, <2>2, Ranks
  <2>3. CASE i # 1
    <3>1. i - 1 < j - 1
      BY <1>5, <2>1
    <3> QED BY <1>3, <2>1, <2>3, <3>1 DEF InOrder
  <2> QED BY <2>2, <2>3
<1>6. Range(t) = Range(s) \cup {"app"}
  <2>1. 1 \in DOMAIN t /\ \A i \in DOMAIN s : i + 1 \in DOMAIN t /\ t[i + 1] = s[i]
    BY <1>1, <1>2
  <2>2. \A i \in DOMAIN t : t[i] \in Range(s) \cup {"app"}
    <3>1. \A i \in DOMAIN t : i # 1 => t[i] \in Range(s)
      BY <1>3 DEF Range
    <3> QED BY <1>1, <3>1
  <2>3. \A i \in DOMAIN s : s[i] \in Range(t)
    BY <2>1 DEF Range
  <2>4. "app" \in Range(t)
    BY <1>1, <2>1 DEF Range
  <2>5. Range(t) \subseteq Range(s) \cup {"app"}
    BY <2>2 DEF Range
  <2>6. Range(s) \subseteq Range(t)
    BY <2>3 DEF Range
  <2> QED BY <2>4, <2>5, <2>6
<1> QED BY <1>1, <1>5, <1>6 DEF InOrder, t

LEMMA TakeOut ==
  ASSUME NEW s \in Seq(RouteId), InOrder(s), NEW id \in Range(s)
  PROVE  LET t == RemoveAt(s, CHOOSE i \in DOMAIN s : s[i] = id)
         IN t \in Seq(RouteId) /\ InOrder(t) /\ Range(t) = Range(s) \ {id}
<1> DEFINE i == CHOOSE i \in DOMAIN s : s[i] = id
           t == RemoveAt(s, i)
<1>1. i \in DOMAIN s /\ s[i] = id
  BY DEF Range
<1> HIDE DEF i
<1>2. /\ t \in Seq(RouteId) /\ Len(t) = Len(s) - 1 /\ Len(s) \in Nat /\ i \in 1..Len(s)
      /\ \A k \in 1..(Len(s) - 1) : t[k] = IF k < i THEN s[k] ELSE s[k + 1]
  BY <1>1, LeaveAt
<1> HIDE DEF t
<1>3. DOMAIN s = 1..Len(s) /\ DOMAIN t = 1..(Len(s) - 1)
  BY <1>2
<1> DEFINE At0(k) == IF k < i THEN k ELSE k + 1
<1>4. \A k \in DOMAIN t : At0(k) \in DOMAIN s /\ At0(k) # i /\ t[k] = s[At0(k)]
  BY <1>2, <1>3
<1>5. ASSUME NEW j \in DOMAIN s, j # i
      PROVE  \E k \in DOMAIN t : At0(k) = j
  <2>1. CASE j < i
    BY <1>2, <1>3, <2>1
  <2>2. CASE j > i
    <3>1. j - 1 \in DOMAIN t /\ ~(j - 1 < i) /\ (j - 1) + 1 = j
      BY <1>2, <1>3, <2>2
    <3> QED BY <3>1
  <2> QED BY <1>2, <1>3, <1>5, <2>1, <2>2
<1>6. ASSUME NEW k \in DOMAIN t, NEW m \in DOMAIN t, k < m
      PROVE  Rank(t[k]) < Rank(t[m])
  <2>1. At0(k) < At0(m)
    BY <1>2, <1>3, <1>6
  <2> QED BY <1>4, <2>1 DEF InOrder
<1>7. Range(t) = Range(s) \ {id}
  <2> HIDE DEF At0
  <2>1. \A j \in DOMAIN s : s[j] = id => j = i
    BY <1>1, OnePlace
  <2> QED BY <1>1, <1>4, <1>5, <2>1 DEF Range
<1> QED BY <1>2, <1>6, <1>7 DEF InOrder, t, i

-----------------------------------------------------------------------------
(* The writes of the configuration.                                         *)

\* What a write of routes leaves of the ids, with a sound configuration.
LEMMA DeleteSound ==
  ASSUME ConfOK, NEW id \in RouteId
  PROVE  ConfSound(DeleteRoute(id)) /\ Ids(DeleteRoute(id)) = Ids(conf) \ {id}
<1> DEFINE c == DeleteRoute(id)
<1>1. /\ conf \in ConfRecord /\ InOrder(conf.routes) /\ conf.routes \in Seq(RouteId)
      /\ conf.host \in Host \cup {NoHost} /\ conf.app \in SUBSET Host
      /\ ("app" \in Ids(conf) <=> conf.app # {}) /\ ("host" \in Ids(conf) <=> conf.host # NoHost)
  BY DEF ConfOK, ConfSound, ConfRecord
<1>2. c = [conf EXCEPT !.routes = c.routes, !.app = c.app, !.host = c.host]
  BY <1>1 DEF DeleteRoute, ConfRecord
<1>3. /\ c.routes = IF Has(id) THEN RemoveAt(conf.routes, CHOOSE i \in DOMAIN conf.routes : conf.routes[i] = id) ELSE conf.routes
      /\ c.app = (IF id = "app" THEN {} ELSE conf.app) /\ c.host = (IF id = "host" THEN NoHost ELSE conf.host)
  BY <1>1 DEF DeleteRoute, ConfRecord
<1>4. c.routes \in Seq(RouteId) /\ InOrder(c.routes) /\ Range(c.routes) = Range(conf.routes) \ {id}
  <2>1. CASE Has(id)
    BY <1>1, <1>3, <2>1, TakeOut DEF Has
  <2>2. CASE ~Has(id)
    BY <1>1, <1>3, <2>2 DEF Has
  <2> QED BY <2>1, <2>2
<1> HIDE DEF c
<1>5. c.app \in SUBSET Host /\ c.host \in Host \cup {NoHost}
  BY <1>1, <1>3
<1>6. c \in ConfRecord
  BY <1>1, <1>2, <1>4, <1>5 DEF ConfRecord
<1>7. Ids(c) = Ids(conf) \ {id}
  BY <1>4 DEF Ids
<1> QED BY <1>1, <1>3, <1>4, <1>6, <1>7 DEF ConfSound, c

LEMMA AppendSound ==
  ASSUME ConfOK, WorkerTyped, NEW id \in TailId,
         \A other \in Ids(conf) : Rank(other) < Rank(id), id = "host" => worker.host # NoHost
  PROVE  ConfSound(AppendRoute(id)) /\ Ids(AppendRoute(id)) = Ids(conf) \cup {id}
<1> DEFINE c == AppendRoute(id)
<1>1. /\ conf \in ConfRecord /\ InOrder(conf.routes) /\ conf.routes \in Seq(RouteId)
      /\ conf.host \in Host \cup {NoHost} /\ conf.app \in SUBSET Host
      /\ ("app" \in Ids(conf) <=> conf.app # {}) /\ ("host" \in Ids(conf) <=> conf.host # NoHost)
  BY DEF ConfOK, ConfSound, ConfRecord
<1>2. worker.host \in Host \cup {NoHost} /\ id \in RouteId /\ id # "app"
  BY DEF WorkerTyped, WorkerRecord, TailId, RouteId
<1>3. c = [conf EXCEPT !.routes = c.routes, !.host = c.host]
  BY <1>1 DEF AppendRoute, ConfRecord
<1>4. c.routes = Append(conf.routes, id) /\ c.app = conf.app /\ c.host = (IF id = "host" THEN worker.host ELSE conf.host)
  BY <1>1 DEF AppendRoute, ConfRecord
<1>5. c.routes \in Seq(RouteId) /\ InOrder(c.routes) /\ Range(c.routes) = Range(conf.routes) \cup {id}
  BY <1>1, <1>2, <1>4, PutLast DEF Ids
<1> HIDE DEF c
<1>6. c.host \in Host \cup {NoHost}
  BY <1>1, <1>2, <1>4
<1>7. c \in ConfRecord
  BY <1>1, <1>3, <1>5, <1>6 DEF ConfRecord
<1>8. Ids(c) = Ids(conf) \cup {id}
  BY <1>5 DEF Ids
<1> QED BY <1>1, <1>2, <1>4, <1>5, <1>7, <1>8 DEF ConfSound, c

LEMMA UpsertSound ==
  ASSUME ConfOK, NEW hosts \in SUBSET Host, hosts # {}
  PROVE  ConfSound(UpsertRoute(hosts)) /\ Ids(UpsertRoute(hosts)) = Ids(conf) \cup {"app"}
<1> DEFINE c == UpsertRoute(hosts)
<1>1. /\ conf \in ConfRecord /\ InOrder(conf.routes) /\ conf.routes \in Seq(RouteId)
      /\ conf.host \in Host \cup {NoHost} /\ conf.app \in SUBSET Host
      /\ ("app" \in Ids(conf) <=> conf.app # {}) /\ ("host" \in Ids(conf) <=> conf.host # NoHost)
  BY DEF ConfOK, ConfSound, ConfRecord
<1>2. c = [conf EXCEPT !.routes = c.routes, !.app = c.app]
  BY <1>1 DEF UpsertRoute, ConfRecord
<1>3. c.routes = (IF Has("app") THEN conf.routes ELSE <<"app">> \o conf.routes) /\ c.app = hosts /\ c.host = conf.host
  BY <1>1 DEF UpsertRoute, ConfRecord
<1>4. c.routes \in Seq(RouteId) /\ InOrder(c.routes) /\ Range(c.routes) = Range(conf.routes) \cup {"app"}
  <2>1. CASE Has("app")
    BY <1>1, <1>3, <2>1 DEF Has
  <2>2. CASE ~Has("app")
    BY <1>1, <1>3, <2>2, PutFirst DEF Has
  <2> QED BY <2>1, <2>2
<1> HIDE DEF c
<1>5. c \in ConfRecord
  BY <1>1, <1>2, <1>3, <1>4 DEF ConfRecord
<1>6. Ids(c) = Ids(conf) \cup {"app"}
  BY <1>4 DEF Ids
<1> QED BY <1>1, <1>3, <1>4, <1>5, <1>6 DEF ConfSound, c

\* The sync leaves the tail as it is.
SameTail(c) ==
  /\ \A id \in TailId : id \in Ids(c) <=> id \in Ids(conf)
  /\ c.host = conf.host /\ c.issuer = conf.issuer

LEMMA SyncedSound ==
  ASSUME ConfOK, RowsTyped
  PROVE  ConfSound(Synced) /\ Synced.app = AppHosts /\ SameTail(Synced)
<1>1. conf \in ConfRecord /\ ("app" \in Ids(conf) <=> conf.app # {}) /\ conf.app \in SUBSET Host
  BY DEF ConfOK, ConfSound, ConfRecord
<1>2. AppHosts \in SUBSET Host
  BY DEF AppHosts, RowsTyped
<1>3. CASE AppHosts # {} /\ conf.app = AppHosts /\ Has("app")
  BY <1>3 DEF Synced, SameTail, ConfOK
<1>4. CASE AppHosts # {} /\ ~(conf.app = AppHosts /\ Has("app"))
  <2>1. Synced = UpsertRoute(AppHosts)
    BY <1>4 DEF Synced
  <2>2. /\ UpsertRoute(AppHosts).app = AppHosts /\ UpsertRoute(AppHosts).host = conf.host
        /\ UpsertRoute(AppHosts).issuer = conf.issuer
    BY <1>1 DEF UpsertRoute, ConfRecord
  <2>3. ConfSound(UpsertRoute(AppHosts)) /\ Ids(UpsertRoute(AppHosts)) = Ids(conf) \cup {"app"}
    BY <1>2, <1>4, UpsertSound
  <2> HIDE DEF UpsertRoute
  <2> QED BY <2>1, <2>2, <2>3 DEF SameTail, TailId
<1>5. CASE AppHosts = {} /\ Has("app")
  <2>1. Synced = DeleteRoute("app")
    BY <1>5 DEF Synced
  <2>2. /\ DeleteRoute("app").app = {} /\ DeleteRoute("app").host = conf.host
        /\ DeleteRoute("app").issuer = conf.issuer
    BY <1>1 DEF DeleteRoute, ConfRecord
  <2>3. ConfSound(DeleteRoute("app")) /\ Ids(DeleteRoute("app")) = Ids(conf) \ {"app"}
    BY DeleteSound DEF RouteId
  <2> QED BY <1>5, <2>1, <2>2, <2>3 DEF SameTail, TailId
<1>6. CASE AppHosts = {} /\ ~Has("app")
  <2>1. Synced = conf
    BY <1>6 DEF Synced
  <2>2. conf.app = {}
    BY <1>1, <1>6 DEF Has, Ids
  <2> QED BY <1>6, <2>1, <2>2 DEF SameTail, ConfOK
<1> QED BY <1>3, <1>4, <1>5, <1>6

-----------------------------------------------------------------------------
(* The worker and its queue.                                                *)

LEMMA Records ==
  /\ \A kind \in {"ensure", "apply", "sync"} : Job(kind) \in JobRecord /\ Job(kind).kind = kind
  /\ Idle \in WorkerRecord /\ Idle.pc = "idle" /\ [Idle EXCEPT !.pc = "off"] \in WorkerRecord
  /\ Tail3 \in Seq(TailId) /\ \A h \in Host \cup {NoHost} : TailFor(h) \in Seq(TailId)
<1>1. 1 \in 1..MaxTries
  BY ProxyBounds
<1>2. \A kind \in {"ensure", "apply", "sync"} : Job(kind) \in JobRecord /\ Job(kind).kind = kind
  BY <1>1 DEF Job, JobRecord
<1>3. << >> \in Seq(TailId) /\ Tail3 \in Seq(TailId) /\ <<"ip", "lost">> \in Seq(TailId)
  BY DEF Tail3, TailId
<1>4. Idle \in WorkerRecord /\ Idle.pc = "idle" /\ [Idle EXCEPT !.pc = "off"] \in WorkerRecord
  BY <1>2, <1>3 DEF Idle, WorkerRecord
<1> QED BY <1>2, <1>3, <1>4 DEF TailFor

\* One more behind or ahead: what was waiting still waits.
LEMMA Joined ==
  ASSUME QueueTyped, NEW j \in JobRecord, queue' = Append(queue, j) \/ queue' = << j >> \o queue
  PROVE  /\ QueueTyped' /\ queue' # << >>
         /\ (TailQueued \/ j.kind # "sync") => TailQueued'
<1>1. queue \in Seq(JobRecord) /\ Len(queue) \in Nat /\ DOMAIN queue = 1..Len(queue)
  BY DEF QueueTyped
<1>2. CASE queue' = Append(queue, j)
  <2>1. /\ queue' \in Seq(JobRecord) /\ Len(queue') = Len(queue) + 1
        /\ \A i \in 1..Len(queue) : queue'[i] = queue[i]
        /\ queue'[Len(queue) + 1] = j
    BY <1>1, <1>2, JoinLine
  <2>2. DOMAIN queue' = 1..(Len(queue) + 1) /\ Len(queue) + 1 \in DOMAIN queue'
    BY <1>1, <2>1
  <2>3. \A i \in DOMAIN queue : i \in DOMAIN queue' /\ queue'[i] = queue[i]
    BY <1>1, <2>1, <2>2
  <2>4. queue' # << >>
    BY <1>1, <2>1
  <2> QED BY <2>1, <2>2, <2>3, <2>4 DEF QueueTyped, TailQueued
<1>3. CASE queue' = << j >> \o queue
  <2>1. /\ queue' \in Seq(JobRecord) /\ Len(queue') = Len(queue) + 1 /\ queue'[1] = j
        /\ \A i \in 1..Len(queue) : queue'[i + 1] = queue[i]
    BY <1>1, <1>3, HeadOfLine
  <2>2. DOMAIN queue' = 1..(Len(queue) + 1) /\ 1 \in DOMAIN queue'
    BY <1>1, <2>1
  <2>3. \A i \in DOMAIN queue : i + 1 \in DOMAIN queue' /\ queue'[i + 1] = queue[i]
    BY <1>1, <2>1, <2>2
  <2>4. queue' # << >>
    BY <1>1, <2>1
  <2> QED BY <2>1, <2>2, <2>3, <2>4 DEF QueueTyped, TailQueued
<1> QED BY <1>2, <1>3

LEMMA ThrowKeeps ==
  ASSUME ProxyInv, Busy, Throws, UNCHANGED rows, worker.job.kind = "sync" => conf' = conf
  PROVE  WorkOK' /\ ReplaceReady' /\ failed' \in BOOLEAN
<1>1. QueueTyped /\ WorkerTyped /\ TailFollows /\ failed \in BOOLEAN /\ worker.job \in JobRecord
  BY DEF ProxyInv, WorkOK, BoundsTyped, WorkerTyped, WorkerRecord
<1>2. worker' = Idle /\ worker'.pc = "idle" /\ WorkerTyped'
  BY Records DEF Throws, WorkerTyped
<1>3. \/ /\ queue' = << [worker.job EXCEPT !.tries = @ + 1] >> \o queue /\ failed' = failed
         /\ [worker.job EXCEPT !.tries = @ + 1] \in JobRecord
      \/ queue' = queue /\ failed' = TRUE
  <2>1. worker.job.tries \in 1..MaxTries /\ worker.job.kind \in {"ensure", "apply", "sync"}
    BY <1>1 DEF JobRecord
  <2>2. CASE worker.job.kind # "ensure" /\ worker.job.tries < MaxTries
    <3>1. worker.job.tries + 1 \in 1..MaxTries
      BY <2>1, <2>2, ProxyBounds
    <3>2. [worker.job EXCEPT !.tries = @ + 1] \in JobRecord
      BY <1>1, <3>1 DEF JobRecord
    <3> QED BY <2>2, <3>2 DEF Throws
  <2>3. CASE ~(worker.job.kind # "ensure" /\ worker.job.tries < MaxTries)
    BY <2>3 DEF Throws
  <2> QED BY <2>2, <2>3
<1>4. /\ QueueTyped' /\ failed' \in BOOLEAN /\ (failed' \/ queue' # << >>)
      /\ failed' \/ (failed' = failed /\ (TailQueued \/ worker.job.kind # "sync" => TailQueued'))
  <2>1. CASE queue' = queue /\ failed' = TRUE
    BY <1>1, <2>1 DEF QueueTyped
  <2>2. CASE /\ queue' = << [worker.job EXCEPT !.tries = @ + 1] >> \o queue /\ failed' = failed
             /\ [worker.job EXCEPT !.tries = @ + 1] \in JobRecord
    <3>1. [worker.job EXCEPT !.tries = @ + 1].kind = worker.job.kind
      BY <1>1 DEF JobRecord
    <3> QED BY <1>1, <2>2, <3>1, Joined
  <2> QED BY <1>3, <2>1, <2>2
<1>5. KindFits' /\ TailBuilt' /\ HostCurrent' /\ AppDone' /\ ReplaceReady'
  BY <1>2 DEF KindFits, TailBuilt, HostCurrent, AppDone, ReplaceReady, BootPc, At, Busy
<1>6. AppFollows'
  BY <1>4 DEF AppFollows
<1>7. TailFollows'
  <2>1. CASE failed' \/ TailQueued'
    BY <2>1 DEF TailFollows
  <2>2. CASE ~failed' /\ ~TailQueued'
    <3>1. failed' = failed /\ ~TailQueued /\ worker.job.kind = "sync"
      BY <1>4, <2>2
    <3>2. TailRight
      BY <1>1, <2>2, <3>1 DEF TailFollows, Busy, At
    <3>3. TailRight'
      BY <3>1, <3>2 DEF TailRight, Has, rows
    <3> QED BY <3>3 DEF TailFollows
  <2> QED BY <2>1, <2>2
<1> QED BY <1>2, <1>4, <1>5, <1>6, <1>7 DEF WorkOK

\* A step within a bootstrap.
LEMMA GoKeeps ==
  ASSUME ProxyInv, worker.pc \in BootPc, worker' \in WorkerRecord, worker'.job = worker.job,
         worker'.pc \in BootPc \cup {"sync"}, UNCHANGED <<queue, failed>>
  PROVE  WorkOK' /\ failed' \in BOOLEAN
<1>1. QueueTyped' /\ WorkerTyped' /\ failed' \in BOOLEAN /\ worker'.job.kind = "ensure"
  BY DEF ProxyInv, WorkOK, BoundsTyped, WorkerTyped, QueueTyped, KindFits
<1>2. Busy' /\ Reads'
  BY <1>1 DEF Busy, Reads, BootPc
<1>3. KindFits' /\ TailBuilt' /\ HostCurrent' /\ AppDone'
  BY <1>1, <1>2 DEF KindFits, TailBuilt, HostCurrent, AppDone, BootPc, At
<1>4. TailFollows' /\ AppFollows'
  BY <1>1, <1>2 DEF TailFollows, AppFollows
<1> QED BY <1>1, <1>3, <1>4 DEF WorkOK

\* A step of the world or of the reconciler: the worker goes on as it was.
LEMMA OutsideKeeps ==
  ASSUME ProxyInv, UNCHANGED <<worker, conf, failed, rows>>,
         queue' = queue \/ (\E j \in JobRecord : queue' = Append(queue, j))
  PROVE  WorkOK'
<1>1. /\ QueueTyped /\ WorkerTyped /\ KindFits /\ TailBuilt /\ HostCurrent /\ AppDone
      /\ TailFollows /\ AppFollows
  BY DEF ProxyInv, WorkOK
<1>2. /\ QueueTyped' /\ (TailQueued => TailQueued') /\ (queue # << >> => queue' # << >>)
  <2>1. CASE queue' = queue
    BY <1>1, <2>1 DEF QueueTyped, TailQueued
  <2>2. CASE \E j \in JobRecord : queue' = Append(queue, j)
    BY <1>1, <2>2, Joined
  <2> QED BY <2>1, <2>2
<1>3. WorkerTyped' /\ KindFits' /\ TailBuilt'
  BY <1>1 DEF WorkerTyped, KindFits, TailBuilt, Has, At
<1>4. HostCurrent' /\ AppDone'
  BY <1>1, <1>2 DEF HostCurrent, AppDone, Busy, Reads, AppHosts, rows
<1>5. TailFollows' /\ AppFollows'
  BY <1>1, <1>2 DEF TailFollows, AppFollows, TailRight, Has, At, Busy, AppHosts, rows
<1> QED BY <1>2, <1>3, <1>4, <1>5 DEF WorkOK

-----------------------------------------------------------------------------
(* The bootstrap.                                                           *)

LEMMA BlankSound == ConfSound(Blank) /\ ConfSound([Blank EXCEPT !.base = TRUE])
<1>1. << >> \in Seq(RouteId) /\ Range(<< >>) = {} /\ InOrder(<< >>)
  BY DEF Range, InOrder
<1>2. Blank \in ConfRecord /\ [Blank EXCEPT !.base = TRUE] \in ConfRecord
  BY <1>1 DEF Blank, ConfRecord
<1> QED BY <1>1, <1>2 DEF ConfSound, Ids, Blank

BoxRecord == [made : {"none", "gen1", "stale", "current"}, state : {"exited", "running"},
              mapped : BOOLEAN, wedged : BOOLEAN, bad : BOOLEAN]

LEMMA StartedSane ==
  ASSUME NEW b \in BoxRecord
  PROVE  /\ Started(b) \in BoxRecord /\ Started(b).made = b.made /\ Started(b).bad = b.bad
         /\ b.made = "none" \/ b.bad => Started(b) = [b EXCEPT !.state = "exited"]
         /\ b.bad => Started(b).state = "exited"
         /\ b.state = "running" /\ b.made # "none" /\ ~b.bad => Started(b) = b
<1>1. CASE b.made = "none" \/ b.bad
  <2>1. Started(b) = [b EXCEPT !.state = "exited"]
    BY <1>1 DEF Started
  <2> QED BY <1>1, <2>1 DEF BoxRecord
<1>2. CASE ~(b.made = "none" \/ b.bad) /\ b.state = "running"
  <2>1. Started(b) = b
    BY <1>2 DEF Started
  <2> QED BY <1>2, <2>1
<1>3. CASE ~(b.made = "none" \/ b.bad) /\ b.state # "running"
  <2>1. Started(b) = [b EXCEPT !.state = "running", !.wedged = FALSE, !.mapped = port = "free"]
    BY <1>3 DEF Started
  <2> QED BY <1>3, <2>1 DEF BoxRecord
<1> QED BY <1>1, <1>2, <1>3

LEMMA LookKeeps ==
  ASSUME ProxyInv, Look
  PROVE  ProxyInv'
<1>1. WorkOK' /\ ReplaceReady' /\ failed' \in BOOLEAN
  <2>1. Busy /\ worker.pc \in BootPc /\ WorkerTyped /\ worker.job.kind # "sync"
    BY DEF Look, ProxyInv, WorkOK, KindFits, At, Busy, BootPc
  <2>2. Throws \/ (
            /\ UNCHANGED <<queue, failed>>
            /\ worker' = [worker EXCEPT !.adopted = box.made = "current",
                                        !.pc = IF box.made = "current" THEN "start" ELSE "pull"])
    BY DEF Look, Call, NeverCameUp
  <2>3. CASE Throws
    BY <2>1, <2>3, ThrowKeeps DEF Look, rows
  <2>4. CASE 
            /\ UNCHANGED <<queue, failed>>
            /\ worker' = [worker EXCEPT !.adopted = box.made = "current",
                                        !.pc = IF box.made = "current" THEN "start" ELSE "pull"]
    <3>1. worker' \in WorkerRecord /\ worker'.job = worker.job /\ worker'.pc \in {"start", "pull"}
      BY <2>1, <2>4 DEF WorkerTyped, WorkerRecord, Go
    <3>2. WorkOK' /\ failed' \in BOOLEAN
      BY <2>1, <2>4, <3>1, GoKeeps DEF BootPc
    <3>3. ReplaceReady'
      <4>1. At("pull")' => box.made # "current"
        BY <2>1, <2>4 DEF At, WorkerTyped, WorkerRecord
      <4> QED BY <3>1, <4>1 DEF Look, ReplaceReady, At
    <3> QED BY <3>2, <3>3
  <2> QED BY <2>2, <2>3, <2>4
<1>2. BoxTyped'
  BY DEF Look, ProxyInv, BoxTyped
<1>3. WorldTyped'
  BY DEF Look, ProxyInv, WorldTyped, world
<1>4. RowsTyped'
  BY DEF Look, ProxyInv, RowsTyped, rows
<1>5. BoundsTyped'
  BY <1>1, ProxyBounds DEF Look, ProxyInv, BoundsTyped, jobs, Fault, Form, Call, QueueCaddyBootstrap
<1>6. ConfOK'
  BY DEF Look, ProxyInv, ConfOK
<1>7. BoxSane'
  BY DEF Look, ProxyInv, BoxSane, NoBox
<1> QED BY <1>1, <1>2, <1>3, <1>4, <1>5, <1>6, <1>7 DEF ProxyInv

LEMMA PullKeeps ==
  ASSUME ProxyInv, Pull
  PROVE  ProxyInv'
<1>1. WorkOK' /\ ReplaceReady' /\ failed' \in BOOLEAN
  <2>1. Busy /\ worker.pc \in BootPc /\ WorkerTyped /\ worker.job.kind # "sync"
    BY DEF Pull, ProxyInv, WorkOK, KindFits, At, Busy, BootPc
  <2>2. Throws \/ (Go(IF box.made = "none" THEN "create" ELSE "preflight") /\ UNCHANGED <<queue, failed>>)
    BY DEF Pull, Call, NeverCameUp
  <2>3. CASE Throws
    BY <2>1, <2>3, ThrowKeeps DEF Pull, rows
  <2>4. CASE Go(IF box.made = "none" THEN "create" ELSE "preflight") /\ UNCHANGED <<queue, failed>>
    <3>1. worker' \in WorkerRecord /\ worker'.job = worker.job /\ worker'.pc \in {"create", "preflight"}
      BY <2>1, <2>4 DEF WorkerTyped, WorkerRecord, Go
    <3>2. WorkOK' /\ failed' \in BOOLEAN
      BY <2>1, <2>4, <3>1, GoKeeps DEF BootPc
    <3>3. ReplaceReady'
      <4>1. /\ worker'.pc = IF box.made = "none" THEN "create" ELSE "preflight"
            /\ box.made # "current" /\ (box.made = "none" => box = NoBox)
        BY <2>1, <2>4 DEF Pull, Go, WorkerTyped, WorkerRecord, ProxyInv, ReplaceReady, At, BoxSane
      <4> QED BY <4>1 DEF Pull, ReplaceReady, At
    <3> QED BY <3>2, <3>3
  <2> QED BY <2>2, <2>3, <2>4
<1>2. BoxTyped'
  BY DEF Pull, ProxyInv, BoxTyped
<1>3. WorldTyped'
  BY DEF Pull, ProxyInv, WorldTyped, Fault
<1>4. RowsTyped'
  BY DEF Pull, ProxyInv, RowsTyped, rows
<1>5. BoundsTyped'
  BY <1>1, ProxyBounds DEF Pull, ProxyInv, BoundsTyped, jobs, Fault, Form, Call, QueueCaddyBootstrap
<1>6. ConfOK'
  BY DEF Pull, ProxyInv, ConfOK
<1>7. BoxSane'
  BY DEF Pull, ProxyInv, BoxSane, NoBox
<1> QED BY <1>1, <1>2, <1>3, <1>4, <1>5, <1>6, <1>7 DEF ProxyInv

LEMMA PreflightKeeps ==
  ASSUME ProxyInv, Preflight
  PROVE  ProxyInv'
<1>1. WorkOK' /\ ReplaceReady' /\ failed' \in BOOLEAN
  <2>1. Busy /\ worker.pc \in BootPc /\ WorkerTyped /\ worker.job.kind # "sync"
    BY DEF Preflight, ProxyInv, WorkOK, KindFits, At, Busy, BootPc
  <2>2. Throws \/ (cached = "good" /\ Go("replace") /\ UNCHANGED <<queue, failed>>)
    BY DEF Preflight, Call, NeverCameUp
  <2>3. CASE Throws
    BY <2>1, <2>3, ThrowKeeps DEF Preflight, rows
  <2>4. CASE cached = "good" /\ Go("replace") /\ UNCHANGED <<queue, failed>>
    <3>1. worker' \in WorkerRecord /\ worker'.job = worker.job /\ worker'.pc \in {"replace"}
      BY <2>1, <2>4 DEF WorkerTyped, WorkerRecord, Go
    <3>2. WorkOK' /\ failed' \in BOOLEAN
      BY <2>1, <2>4, <3>1, GoKeeps DEF BootPc
    <3>3. ReplaceReady'
      <4>1. box.made # "current"
        BY DEF Preflight, ProxyInv, ReplaceReady, At
      <4> QED BY <2>4, <3>1, <4>1 DEF Preflight, ReplaceReady, At, world
    <3> QED BY <3>2, <3>3
  <2> QED BY <2>2, <2>3, <2>4
<1>2. BoxTyped'
  BY DEF Preflight, ProxyInv, BoxTyped
<1>3. WorldTyped'
  BY DEF Preflight, ProxyInv, WorldTyped, world
<1>4. RowsTyped'
  BY DEF Preflight, ProxyInv, RowsTyped, rows
<1>5. BoundsTyped'
  BY <1>1, ProxyBounds DEF Preflight, ProxyInv, BoundsTyped, jobs, Fault, Form, Call, QueueCaddyBootstrap
<1>6. ConfOK'
  BY DEF Preflight, ProxyInv, ConfOK
<1>7. BoxSane'
  BY DEF Preflight, ProxyInv, BoxSane, NoBox
<1> QED BY <1>1, <1>2, <1>3, <1>4, <1>5, <1>6, <1>7 DEF ProxyInv

LEMMA ReplaceKeeps ==
  ASSUME ProxyInv, Replace
  PROVE  ProxyInv'
<1>1. WorkOK' /\ ReplaceReady' /\ failed' \in BOOLEAN
  <2>1. Busy /\ worker.pc \in BootPc /\ WorkerTyped /\ worker.job.kind # "sync"
    BY DEF Replace, ProxyInv, WorkOK, KindFits, At, Busy, BootPc
  <2>2. Throws \/ (box' = NoBox /\ Go("create") /\ UNCHANGED <<queue, failed>>)
    BY DEF Replace, Call, NeverCameUp
  <2>3. CASE Throws
    BY <2>1, <2>3, ThrowKeeps DEF Replace, rows
  <2>4. CASE box' = NoBox /\ Go("create") /\ UNCHANGED <<queue, failed>>
    <3>1. worker' \in WorkerRecord /\ worker'.job = worker.job /\ worker'.pc \in {"create"}
      BY <2>1, <2>4 DEF WorkerTyped, WorkerRecord, Go
    <3>2. WorkOK' /\ failed' \in BOOLEAN
      BY <2>1, <2>4, <3>1, GoKeeps DEF BootPc
    <3>3. ReplaceReady'
      BY <2>4, <3>1 DEF ReplaceReady, At
    <3> QED BY <3>2, <3>3
  <2> QED BY <2>2, <2>3, <2>4
<1>2. BoxTyped'
  <2>1. NoBox \in BoxRecord /\ box \in BoxRecord
    BY DEF ProxyInv, BoxTyped, BoxRecord, NoBox
  <2>2. box' = NoBox \/ box' = box
    BY DEF Replace
  <2> QED BY <2>1, <2>2 DEF BoxTyped, BoxRecord
<1>3. WorldTyped'
  BY DEF Replace, ProxyInv, WorldTyped, world
<1>4. RowsTyped'
  BY DEF Replace, ProxyInv, RowsTyped, rows
<1>5. BoundsTyped'
  BY <1>1, ProxyBounds DEF Replace, ProxyInv, BoundsTyped, jobs, Fault
<1>6. ConfOK'
  <2>1. ConfSound(conf)
    BY DEF ProxyInv, ConfOK
  <2>2. ConfSound(Blank)
    BY BlankSound
  <2> QED BY <2>1, <2>2 DEF Replace, ConfOK
<1>7. BoxSane'
  BY DEF Replace, ProxyInv, BoxSane, NoBox
<1> QED BY <1>1, <1>2, <1>3, <1>4, <1>5, <1>6, <1>7 DEF ProxyInv

LEMMA CreateKeeps ==
  ASSUME ProxyInv, Create
  PROVE  ProxyInv'
<1>1. WorkOK' /\ ReplaceReady' /\ failed' \in BOOLEAN
  <2>1. Busy /\ worker.pc \in BootPc /\ WorkerTyped /\ worker.job.kind # "sync"
    BY DEF Create, ProxyInv, WorkOK, KindFits, At, Busy, BootPc
  <2>2. Throws \/ (Go("start") /\ UNCHANGED <<queue, failed>>)
    BY DEF Create, Call, NeverCameUp
  <2>3. CASE Throws
    BY <2>1, <2>3, ThrowKeeps DEF Create, rows
  <2>4. CASE Go("start") /\ UNCHANGED <<queue, failed>>
    <3>1. worker' \in WorkerRecord /\ worker'.job = worker.job /\ worker'.pc \in {"start"}
      BY <2>1, <2>4 DEF WorkerTyped, WorkerRecord, Go
    <3>2. WorkOK' /\ failed' \in BOOLEAN
      BY <2>1, <2>4, <3>1, GoKeeps DEF BootPc
    <3>3. ReplaceReady'
      BY <3>1 DEF ReplaceReady, At
    <3> QED BY <3>2, <3>3
  <2> QED BY <2>2, <2>3, <2>4
<1>2. BoxTyped'
  BY DEF Create, ProxyInv, BoxTyped, NoBox
<1>3. WorldTyped'
  BY DEF Create, ProxyInv, WorldTyped, world
<1>4. RowsTyped'
  BY DEF Create, ProxyInv, RowsTyped, rows
<1>5. BoundsTyped'
  BY <1>1, ProxyBounds DEF Create, ProxyInv, BoundsTyped, jobs, Fault, Form, Call, QueueCaddyBootstrap
<1>6. ConfOK'
  BY DEF Create, ProxyInv, ConfOK
<1>7. BoxSane'
  BY DEF Create, ProxyInv, BoxSane, NoBox
<1> QED BY <1>1, <1>2, <1>3, <1>4, <1>5, <1>6, <1>7 DEF ProxyInv

LEMMA StartKeeps ==
  ASSUME ProxyInv, Start
  PROVE  ProxyInv'
<1>1. WorkOK' /\ ReplaceReady' /\ failed' \in BOOLEAN
  <2>1. Busy /\ worker.pc \in BootPc /\ WorkerTyped /\ worker.job.kind # "sync"
    BY DEF Start, ProxyInv, WorkOK, KindFits, At, Busy, BootPc
  <2>2. Throws \/ (Go("wait") /\ UNCHANGED <<queue, failed>>)
    BY DEF Start, Call, NeverCameUp
  <2>3. CASE Throws
    BY <2>1, <2>3, ThrowKeeps DEF Start, rows
  <2>4. CASE Go("wait") /\ UNCHANGED <<queue, failed>>
    <3>1. worker' \in WorkerRecord /\ worker'.job = worker.job /\ worker'.pc \in {"wait"}
      BY <2>1, <2>4 DEF WorkerTyped, WorkerRecord, Go
    <3>2. WorkOK' /\ failed' \in BOOLEAN
      BY <2>1, <2>4, <3>1, GoKeeps DEF BootPc
    <3>3. ReplaceReady'
      BY <3>1 DEF ReplaceReady, At
    <3> QED BY <3>2, <3>3
  <2> QED BY <2>2, <2>3, <2>4
<1>2. BoxTyped'
  <2>1. NoBox \in BoxRecord /\ box \in BoxRecord
    BY DEF ProxyInv, BoxTyped, BoxRecord, NoBox
  <2>2. Started(box) \in BoxRecord
    BY <2>1, StartedSane
  <2>3. box' \in {NoBox, box, Started(box)}
    BY DEF Start, NeverCameUp
  <2> QED BY <2>1, <2>2, <2>3 DEF BoxTyped, BoxRecord
<1>3. WorldTyped'
  BY DEF Start, ProxyInv, WorldTyped, world
<1>4. RowsTyped'
  BY DEF Start, ProxyInv, RowsTyped, rows
<1>5. BoundsTyped'
  BY <1>1, ProxyBounds DEF Start, NeverCameUp, ProxyInv, BoundsTyped, Fault
<1>6. ConfOK'
  BY DEF Start, ProxyInv, ConfOK
<1>7. BoxSane'
  <2>1. BoxSane /\ box \in BoxRecord
    BY DEF ProxyInv, BoxTyped, BoxRecord
  <2>2. Started(box).made = box.made /\ Started(box).bad = box.bad /\ (box.bad => Started(box).state = "exited")
    BY <2>1, StartedSane
  <2>3. box.made = "none" => Started(box) = NoBox
    <3>1. box.made = "none" => Started(box) = [box EXCEPT !.state = "exited"]
      BY <2>1, StartedSane
    <3> QED BY <2>1, <3>1 DEF BoxSane, NoBox
  <2>4. box' \in {NoBox, box, Started(box)}
    BY DEF Start, NeverCameUp
  <2> QED BY <2>1, <2>2, <2>3, <2>4 DEF BoxSane, NoBox
<1> QED BY <1>1, <1>2, <1>3, <1>4, <1>5, <1>6, <1>7 DEF ProxyInv

LEMMA WaitKeeps ==
  ASSUME ProxyInv, Wait
  PROVE  ProxyInv'
<1>1. WorkOK' /\ ReplaceReady' /\ failed' \in BOOLEAN
  <2>1. Busy /\ worker.pc \in BootPc /\ WorkerTyped /\ worker.job.kind # "sync"
    BY DEF Wait, ProxyInv, WorkOK, KindFits, At, Busy, BootPc
  <2>2. Throws \/ (
            \/ /\ worker' = [worker EXCEPT !.pc = "base", !.adopted = FALSE, !.restarted = FALSE]
               /\ UNCHANGED <<queue, failed>>
            \/ worker' = [worker EXCEPT !.restarted = TRUE] /\ UNCHANGED <<queue, failed>>)
    BY DEF Wait, Call, NeverCameUp
  <2>3. CASE Throws
    BY <2>1, <2>3, ThrowKeeps DEF Wait, rows
  <2>4. CASE 
            \/ /\ worker' = [worker EXCEPT !.pc = "base", !.adopted = FALSE, !.restarted = FALSE]
               /\ UNCHANGED <<queue, failed>>
            \/ worker' = [worker EXCEPT !.restarted = TRUE] /\ UNCHANGED <<queue, failed>>
    <3>1. worker' \in WorkerRecord /\ worker'.job = worker.job /\ worker'.pc \in {"base", "wait"}
      BY <2>1, <2>4 DEF WorkerTyped, WorkerRecord, Wait, At
    <3>2. WorkOK' /\ failed' \in BOOLEAN
      BY <2>1, <2>4, <3>1, GoKeeps DEF BootPc
    <3>3. ReplaceReady'
      BY <3>1 DEF ReplaceReady, At
    <3> QED BY <3>2, <3>3
  <2> QED BY <2>2, <2>3, <2>4
<1>2. BoxTyped'
  <2>1. [box EXCEPT !.state = "exited"] \in BoxRecord
    BY DEF ProxyInv, BoxTyped, BoxRecord
  <2>2. Started([box EXCEPT !.state = "exited"]) \in BoxRecord
    BY <2>1, StartedSane
  <2>3. NoBox \in BoxRecord /\ box \in BoxRecord
    BY DEF ProxyInv, BoxTyped, BoxRecord, NoBox
  <2>4. box' \in {NoBox, box, Started([box EXCEPT !.state = "exited"])}
    BY DEF Wait, NeverCameUp
  <2> QED BY <2>2, <2>3, <2>4 DEF BoxTyped, BoxRecord
<1>3. WorldTyped'
  BY DEF Wait, ProxyInv, WorldTyped, world
<1>4. RowsTyped'
  BY DEF Wait, ProxyInv, RowsTyped, rows
<1>5. BoundsTyped'
  BY <1>1, ProxyBounds DEF Wait, NeverCameUp, ProxyInv, BoundsTyped, Fault
<1>6. ConfOK'
  BY DEF Wait, ProxyInv, ConfOK
<1>7. BoxSane'
  <2> DEFINE b == [box EXCEPT !.state = "exited"]
  <2>1. BoxSane /\ box \in BoxRecord /\ b \in BoxRecord /\ b.made = box.made /\ b.bad = box.bad
    BY DEF ProxyInv, BoxTyped, BoxRecord
  <2>2. box.state = "running" => box.made # "none"
    BY <2>1 DEF BoxSane, NoBox
  <2>3. Started(b).made = b.made /\ (b.bad => Started(b).state = "exited") /\ Started(b).bad = b.bad
    BY <2>1, StartedSane
  <2> HIDE DEF b
  <2>4. CASE box' = Started(b) /\ box.state = "running"
    BY <2>1, <2>2, <2>3, <2>4 DEF BoxSane
  <2>5. CASE box' = box \/ box' = NoBox
    BY <2>1, <2>5 DEF BoxSane, NoBox
  <2> QED BY <2>4, <2>5 DEF Wait, NeverCameUp, b
<1> QED BY <1>1, <1>2, <1>3, <1>4, <1>5, <1>6, <1>7 DEF ProxyInv

LEMMA EnsureBaseConfigKeeps ==
  ASSUME ProxyInv, EnsureBaseConfig
  PROVE  ProxyInv'
<1>1. WorkOK' /\ ReplaceReady' /\ failed' \in BOOLEAN
  <2>1. Busy /\ worker.pc \in BootPc /\ WorkerTyped /\ worker.job.kind # "sync"
    BY DEF EnsureBaseConfig, ProxyInv, WorkOK, KindFits, At, Busy, BootPc
  <2>2. Throws \/ (worker' = [worker EXCEPT !.pc = "verify"] /\ UNCHANGED <<queue, failed>>)
    BY DEF EnsureBaseConfig, Call, NeverCameUp
  <2>3. CASE Throws
    BY <2>1, <2>3, ThrowKeeps DEF EnsureBaseConfig, rows
  <2>4. CASE worker' = [worker EXCEPT !.pc = "verify"] /\ UNCHANGED <<queue, failed>>
    <3>1. worker' \in WorkerRecord /\ worker'.job = worker.job /\ worker'.pc \in {"verify"}
      BY <2>1, <2>4 DEF WorkerTyped, WorkerRecord, Go
    <3>2. WorkOK' /\ failed' \in BOOLEAN
      BY <2>1, <2>4, <3>1, GoKeeps DEF BootPc
    <3>3. ReplaceReady'
      BY <3>1 DEF ReplaceReady, At
    <3> QED BY <3>2, <3>3
  <2> QED BY <2>2, <2>3, <2>4
<1>2. BoxTyped'
  BY DEF EnsureBaseConfig, ProxyInv, BoxTyped
<1>3. WorldTyped'
  BY DEF EnsureBaseConfig, ProxyInv, WorldTyped, world
<1>4. RowsTyped'
  BY DEF EnsureBaseConfig, ProxyInv, RowsTyped, rows
<1>5. BoundsTyped'
  BY <1>1, ProxyBounds DEF EnsureBaseConfig, ProxyInv, BoundsTyped, jobs, Fault, Form, Call, QueueCaddyBootstrap
<1>6. ConfOK'
  <2> DEFINE c == IF conf.base THEN conf ELSE [Blank EXCEPT !.base = TRUE]
  <2>1. ConfSound(conf) /\ ConfSound(c)
    BY BlankSound DEF ProxyInv, ConfOK
  <2>2. conf' \in {conf, c}
    BY DEF EnsureBaseConfig, Call
  <2> QED BY <2>1, <2>2 DEF ConfOK
<1>7. BoxSane'
  BY DEF EnsureBaseConfig, ProxyInv, BoxSane, NoBox
<1> QED BY <1>1, <1>2, <1>3, <1>4, <1>5, <1>6, <1>7 DEF ProxyInv

LEMMA VerifyServingKeeps ==
  ASSUME ProxyInv, VerifyServing
  PROVE  ProxyInv'
<1>1. WorkOK' /\ ReplaceReady' /\ failed' \in BOOLEAN
  <2>1. Busy /\ worker.pc \in BootPc /\ WorkerTyped /\ worker.job.kind # "sync"
    BY DEF VerifyServing, ProxyInv, WorkOK, KindFits, At, Busy, BootPc
  <2>2. Throws \/ (Go("sync") /\ UNCHANGED <<queue, failed>>)
    BY DEF VerifyServing, Call, NeverCameUp
  <2>3. CASE Throws
    BY <2>1, <2>3, ThrowKeeps DEF VerifyServing, rows
  <2>4. CASE Go("sync") /\ UNCHANGED <<queue, failed>>
    <3>1. worker' \in WorkerRecord /\ worker'.job = worker.job /\ worker'.pc \in {"sync"}
      BY <2>1, <2>4 DEF WorkerTyped, WorkerRecord, Go
    <3>2. WorkOK' /\ failed' \in BOOLEAN
      BY <2>1, <2>4, <3>1, GoKeeps DEF BootPc
    <3>3. ReplaceReady'
      BY <3>1 DEF ReplaceReady, At
    <3> QED BY <3>2, <3>3
  <2> QED BY <2>2, <2>3, <2>4
<1>2. BoxTyped'
  BY DEF VerifyServing, ProxyInv, BoxTyped
<1>3. WorldTyped'
  BY DEF VerifyServing, ProxyInv, WorldTyped, world
<1>4. RowsTyped'
  BY DEF VerifyServing, ProxyInv, RowsTyped, rows
<1>5. BoundsTyped'
  BY <1>1, ProxyBounds DEF VerifyServing, ProxyInv, BoundsTyped, jobs, Fault, Form, Call, QueueCaddyBootstrap
<1>6. ConfOK'
  BY DEF VerifyServing, ProxyInv, ConfOK
<1>7. BoxSane'
  BY DEF VerifyServing, ProxyInv, BoxSane, NoBox
<1> QED BY <1>1, <1>2, <1>3, <1>4, <1>5, <1>6, <1>7 DEF ProxyInv

-----------------------------------------------------------------------------
(* The jobs' writes.                                                        *)

LEMMA TakeKeeps ==
  ASSUME ProxyInv, Take
  PROVE  ProxyInv'
<1>1. WorkOK' /\ ReplaceReady' /\ failed' \in BOOLEAN
  <2>1. /\ QueueTyped /\ WorkerTyped /\ TailFollows /\ failed \in BOOLEAN /\ dashboard \in Host \cup {NoHost}
        /\ queue \in Seq(JobRecord) /\ UNCHANGED <<conf, failed, dashboard, appRow, box>>
    BY DEF Take, ProxyInv, WorkOK, BoundsTyped, RowsTyped, QueueTyped, rows
  <2>2. PICK i \in DOMAIN queue :
          /\ queue' = RemoveAt(queue, i)
          /\ worker' = [Idle EXCEPT !.job = queue[i],
                                    !.host = IF queue[i].kind = "apply" THEN GetDashboardHost ELSE NoHost,
                                    !.pc = IF queue[i].kind = "ensure" THEN "look" ELSE "sync"]
    BY DEF Take
  <2> DEFINE j == queue[i]
             h == IF j.kind = "apply" THEN GetDashboardHost ELSE NoHost
             pc == IF j.kind = "ensure" THEN "look" ELSE "sync"
  <2>3. j \in JobRecord /\ h \in Host \cup {NoHost} /\ pc \in {"look", "sync"} /\ i \in 1..Len(queue)
    BY <2>1, <2>2 DEF GetDashboardHost
  <2>4. /\ worker' \in WorkerRecord /\ worker'.job = j /\ worker'.host = h /\ worker'.pc = pc
    <3> HIDE DEF h, pc, j
    <3>1. Idle \in WorkerRecord /\ worker' = [Idle EXCEPT !.job = j, !.host = h, !.pc = pc]
      BY <2>2, Records DEF h, pc, j
    <3> QED BY <2>3, <3>1 DEF WorkerRecord
  <2>5. /\ queue' \in Seq(JobRecord) /\ Len(queue') = Len(queue) - 1 /\ Len(queue) \in Nat
        /\ \A k \in 1..(Len(queue) - 1) : queue'[k] = IF k < i THEN queue[k] ELSE queue[k + 1]
    BY <2>1, <2>2, <2>3, LeaveAt
  <2>6. TailQueued /\ j.kind = "sync" => TailQueued'
    <3> SUFFICES ASSUME TailQueued, j.kind = "sync" PROVE TailQueued'
      OBVIOUS
    <3>1. PICK k \in 1..Len(queue) : queue[k].kind # "sync"
      BY <2>1 DEF TailQueued
    <3>2. k # i
      BY <3>1
    <3> DEFINE m == IF k < i THEN k ELSE k - 1
    <3>3. m \in 1..(Len(queue) - 1) /\ (IF m < i THEN m ELSE m + 1) = k
      BY <2>3, <2>5, <3>1, <3>2
    <3> HIDE DEF m
    <3>4. queue'[m].kind # "sync"
      BY <2>5, <3>1, <3>3
    <3>5. m \in DOMAIN queue'
      BY <2>5, <3>3
    <3> QED BY <3>4, <3>5 DEF TailQueued
  <2> HIDE DEF j, h, pc
  <2>7. Busy' /\ QueueTyped' /\ WorkerTyped'
    BY <2>3, <2>4, <2>5 DEF Busy, QueueTyped, WorkerTyped
  <2>8. KindFits' /\ TailBuilt' /\ AppDone' /\ ReplaceReady'
    BY <2>3, <2>4 DEF KindFits, TailBuilt, AppDone, ReplaceReady, BootPc, At, pc
  <2>9. HostCurrent'
    <3>1. CASE j.kind = "ensure"
      BY <2>3, <2>4, <3>1 DEF HostCurrent, Reads, pc, BootPc
    <3>2. CASE j.kind = "apply"
      BY <2>1, <2>4, <3>2 DEF HostCurrent, h, GetDashboardHost
    <3>3. CASE j.kind = "sync"
      BY <2>4, <3>3 DEF HostCurrent
    <3> QED BY <2>3, <3>1, <3>2, <3>3 DEF JobRecord
  <2>10. AppFollows'
    BY <2>7 DEF AppFollows
  <2>11. TailFollows'
    <3>1. CASE j.kind # "sync"
      BY <2>4, <2>7, <3>1 DEF TailFollows
    <3>2. CASE j.kind = "sync"
      <4>1. failed \/ TailQueued \/ TailRight
        BY <2>1 DEF TailFollows, Take, At, Busy
      <4> QED BY <2>1, <2>6, <3>2, <4>1 DEF TailFollows, TailRight, Has
    <3> QED BY <3>1, <3>2
  <2> QED BY <2>1, <2>7, <2>8, <2>9, <2>10, <2>11 DEF WorkOK
<1>2. BoxTyped'
  BY DEF Take, ProxyInv, BoxTyped
<1>3. WorldTyped'
  BY DEF Take, ProxyInv, WorldTyped, world
<1>4. RowsTyped'
  BY DEF Take, ProxyInv, RowsTyped, rows
<1>5. BoundsTyped'
  BY <1>1, ProxyBounds DEF Take, ProxyInv, BoundsTyped, jobs, Fault, Form, Call, QueueCaddyBootstrap
<1>6. ConfOK'
  BY DEF Take, ProxyInv, ConfOK
<1>7. BoxSane'
  BY DEF Take, ProxyInv, BoxSane, NoBox
<1> QED BY <1>1, <1>2, <1>3, <1>4, <1>5, <1>6, <1>7 DEF ProxyInv

LEMMA SyncResourceRoutesKeeps ==
  ASSUME ProxyInv, SyncResourceRoutes
  PROVE  ProxyInv'
<1>1. WorkOK' /\ ReplaceReady' /\ failed' \in BOOLEAN
  <2>1. /\ QueueTyped /\ WorkerTyped /\ TailFollows /\ KindFits /\ HostCurrent /\ failed \in BOOLEAN /\ dashboard \in Host \cup {NoHost}
        /\ At("sync") /\ Busy /\ UNCHANGED <<dashboard, appRow, box>> /\ WorkerTyped
    BY DEF SyncResourceRoutes, ProxyInv, WorkOK, BoundsTyped, RowsTyped, QueueTyped, rows, At, Busy
  <2>2. ConfSound(Synced) /\ Synced.app = AppHosts /\ SameTail(Synced) /\ SameTail(conf) /\ AppHosts' = AppHosts
    BY <2>1, SyncedSound DEF ProxyInv, SameTail, AppHosts
  <2> DEFINE left == worker.left \/ faults' # faults
  <2>3. \/ Throws /\ conf' = conf
        \/ /\ conf' \in {conf, Synced} /\ (conf' = Synced \/ left) /\ worker.job.kind = "sync"
           /\ worker' = Idle /\ failed' = (failed \/ left) /\ queue' = queue
        \/ /\ conf' \in {conf, Synced} /\ (conf' = Synced \/ left) /\ worker.job.kind # "sync"
           /\ worker' = [worker EXCEPT !.pc = "drop", !.todo = Tail3, !.left = left,
                           !.host = IF worker.job.kind = "ensure" THEN GetDashboardHost ELSE @]
           /\ UNCHANGED <<failed, queue>>
    <3>1. Fault => faults' # faults
      BY DEF Fault, ProxyInv, BoundsTyped
    <3> QED BY <3>1 DEF SyncResourceRoutes
  <2>4. CASE Throws /\ conf' = conf
    BY <2>1, <2>4, ThrowKeeps DEF rows
  <2>5. conf' \in {conf, Synced} => (TailRight => TailRight')
    BY <2>1, <2>2 DEF TailRight, Has, SameTail, Ids, TailId
  <2>6. conf' \in {conf, Synced} /\ (conf' = Synced \/ left) => (conf'.app = AppHosts' \/ left)
    BY <2>2
  <2>7. left \in BOOLEAN
    BY <2>1 DEF WorkerTyped, WorkerRecord
  <2> HIDE DEF left
  <2>8. CASE /\ conf' \in {conf, Synced} /\ (conf' = Synced \/ left) /\ worker.job.kind = "sync"
             /\ worker' = Idle /\ failed' = (failed \/ left) /\ queue' = queue
    <3>1. WorkerTyped' /\ QueueTyped' /\ At("idle")' /\ failed' \in BOOLEAN
      BY <2>1, <2>7, <2>8, Records DEF WorkerTyped, QueueTyped, At
    <3>2. KindFits' /\ TailBuilt' /\ HostCurrent' /\ AppDone' /\ ReplaceReady'
      BY <3>1 DEF KindFits, TailBuilt, HostCurrent, AppDone, ReplaceReady, BootPc, At, Busy
    <3>3. TailFollows'
      <4>1. failed \/ TailQueued \/ TailRight
        BY <2>1, <2>8 DEF TailFollows, At
      <4> QED BY <2>5, <2>8, <4>1 DEF TailFollows, TailQueued
    <3>4. AppFollows'
      BY <2>6, <2>8 DEF AppFollows
    <3> QED BY <3>1, <3>2, <3>3, <3>4 DEF WorkOK
  <2>9. CASE /\ conf' \in {conf, Synced} /\ (conf' = Synced \/ left) /\ worker.job.kind # "sync"
             /\ worker' = [worker EXCEPT !.pc = "drop", !.todo = Tail3, !.left = left,
                             !.host = IF worker.job.kind = "ensure" THEN GetDashboardHost ELSE @]
             /\ UNCHANGED <<failed, queue>>
    <3> DEFINE h == IF worker.job.kind = "ensure" THEN GetDashboardHost ELSE worker.host
    <3>1. h \in Host \cup {NoHost} /\ worker \in WorkerRecord /\ Tail3 \in Seq(TailId)
      BY <2>1, Records DEF WorkerTyped, WorkerRecord, GetDashboardHost
    <3>2. /\ worker' \in WorkerRecord /\ worker'.pc = "drop" /\ worker'.todo = Tail3 /\ worker'.left = left
          /\ worker'.host = h /\ worker'.job = worker.job
      <4>1. worker' = [worker EXCEPT !.pc = "drop", !.todo = Tail3, !.left = left, !.host = h]
        BY <2>9
      <4> HIDE DEF h
      <4> QED BY <2>7, <3>1, <4>1 DEF WorkerRecord
    <3>3. WorkerTyped' /\ QueueTyped' /\ failed' \in BOOLEAN /\ Busy'
      BY <2>1, <2>9, <3>2 DEF WorkerTyped, QueueTyped, Busy
    <3>4. KindFits' /\ TailBuilt' /\ ReplaceReady'
      BY <2>9, <3>2 DEF KindFits, TailBuilt, ReplaceReady, BootPc, At, Tail3
    <3>5. HostCurrent'
      <4>1. CASE worker.job.kind = "ensure"
        BY <2>1, <3>2, <4>1 DEF HostCurrent, GetDashboardHost
      <4>2. CASE worker.job.kind # "ensure"
        <5>1. worker.host = dashboard \/ TailQueued
          BY <2>1, <2>9, <4>2 DEF HostCurrent, Reads
        <5> QED BY <2>1, <2>9, <3>2, <4>2, <5>1 DEF HostCurrent, TailQueued
      <4> QED BY <4>1, <4>2
    <3>6. AppDone' /\ AppFollows' /\ TailFollows'
      BY <2>6, <2>9, <3>2, <3>3 DEF AppDone, AppFollows, TailFollows
    <3> QED BY <3>3, <3>4, <3>5, <3>6 DEF WorkOK
  <2> QED BY <2>3, <2>4, <2>8, <2>9
<1>2. BoxTyped'
  BY DEF SyncResourceRoutes, ProxyInv, BoxTyped
<1>3. WorldTyped'
  BY DEF SyncResourceRoutes, ProxyInv, WorldTyped, world
<1>4. RowsTyped'
  BY DEF SyncResourceRoutes, ProxyInv, RowsTyped, rows
<1>5. BoundsTyped'
  BY <1>1, ProxyBounds DEF SyncResourceRoutes, ProxyInv, BoundsTyped, jobs, Fault, Form, Call, QueueCaddyBootstrap
<1>6. ConfOK'
  <2>1. ConfSound(Synced) /\ ConfSound(conf)
    BY SyncedSound DEF ProxyInv, ConfOK
  <2> QED BY <2>1 DEF SyncResourceRoutes, ConfOK
<1>7. BoxSane'
  BY DEF SyncResourceRoutes, ProxyInv, BoxSane, NoBox
<1> QED BY <1>1, <1>2, <1>3, <1>4, <1>5, <1>6, <1>7 DEF ProxyInv

LEMMA DropTailKeeps ==
  ASSUME ProxyInv, DropTail
  PROVE  ProxyInv'
<1>1. WorkOK' /\ ReplaceReady' /\ failed' \in BOOLEAN
  <2> DEFINE id == Head(worker.todo)
             w == IF Len(worker.todo) > 1 THEN [worker EXCEPT !.todo = Tail(@)]
                  ELSE [worker EXCEPT !.pc = "append", !.todo = TailFor(worker.host)]
  <2>1. /\ QueueTyped /\ WorkerTyped /\ TailBuilt /\ KindFits /\ HostCurrent /\ AppDone /\ ConfOK /\ failed \in BOOLEAN
        /\ At("drop") /\ Busy /\ worker.job.kind # "sync" /\ UNCHANGED <<dashboard, appRow, box>>
    BY DEF DropTail, ProxyInv, WorkOK, BoundsTyped, KindFits, rows, At, Busy
  <2>2. \/ Throws
        \/ conf' = DeleteRoute(id) /\ worker' = w /\ UNCHANGED <<queue, failed>>
    BY DEF DropTail, Call
  <2>3. CASE Throws
    BY <2>1, <2>3, ThrowKeeps DEF DropTail, rows
  <2>4. CASE conf' = DeleteRoute(id) /\ worker' = w /\ UNCHANGED <<queue, failed>>
    <3>1. /\ worker.todo \in {<<"host", "ip", "lost">>, <<"ip", "lost">>, <<"lost">>}
          /\ (worker.todo = <<"ip", "lost">> => ~Has("host"))
          /\ (worker.todo = <<"lost">> => ~Has("host") /\ ~Has("ip"))
      BY <2>1 DEF TailBuilt
    <3>9. id \in {"host", "ip", "lost"} /\ id # "app"
      BY <3>1
    <3>2. /\ \A other \in TailId : Has(other)' <=> Has(other) /\ other # id
          /\ conf'.app = conf.app /\ (Has("host") <=> conf.host # NoHost) /\ (Has("host")' <=> conf'.host # NoHost)
      <4>1. ConfSound(DeleteRoute(id)) /\ Ids(DeleteRoute(id)) = Ids(conf) \ {id}
        BY <2>1, <3>9, DeleteSound DEF RouteId
      <4>2. conf'.app = conf.app
        BY <2>1, <2>4, <3>9 DEF DeleteRoute, ConfOK, ConfSound, ConfRecord
      <4> QED BY <2>1, <2>4, <4>1, <4>2 DEF Has, Ids, TailId, ConfOK, ConfSound
    <3>3. /\ worker' \in WorkerRecord /\ worker'.job = worker.job /\ worker'.host = worker.host /\ worker'.left = worker.left
          /\ worker'.pc \in {"drop", "append"}
          /\ (worker.todo = <<"host", "ip", "lost">> => worker'.todo = <<"ip", "lost">> /\ worker'.pc = "drop")
          /\ (worker.todo = <<"ip", "lost">> => worker'.todo = <<"lost">> /\ worker'.pc = "drop")
          /\ (worker.todo = <<"lost">> => worker'.todo = TailFor(worker.host) /\ worker'.pc = "append")
      <4>1. worker \in WorkerRecord /\ TailFor(worker.host) \in Seq(TailId) /\ <<"ip", "lost">> \in Seq(TailId) /\ <<"lost">> \in Seq(TailId)
        BY <2>1, Records DEF WorkerTyped, WorkerRecord, TailId
      <4>2. \/ worker.todo = <<"host", "ip", "lost">> /\ worker' = [worker EXCEPT !.todo = <<"ip", "lost">>]
            \/ worker.todo = <<"ip", "lost">> /\ worker' = [worker EXCEPT !.todo = <<"lost">>]
            \/ worker.todo = <<"lost">> /\ worker' = [worker EXCEPT !.pc = "append", !.todo = TailFor(worker.host)]
        <5>1. CASE worker.todo = <<"host", "ip", "lost">>
          <6>1. Len(worker.todo) = 3 /\ Tail(worker.todo) = <<"ip", "lost">>
            BY <5>1
          <6>2. worker' = [worker EXCEPT !.todo = Tail(worker.todo)]
            BY <2>4, <6>1
          <6> QED BY <5>1, <6>1, <6>2
        <5>2. CASE worker.todo = <<"ip", "lost">>
          <6>1. Len(worker.todo) = 2 /\ Tail(worker.todo) = <<"lost">>
            BY <5>2
          <6>2. worker' = [worker EXCEPT !.todo = Tail(worker.todo)]
            BY <2>4, <6>1
          <6> QED BY <5>2, <6>1, <6>2
        <5>3. CASE worker.todo = <<"lost">>
          <6>1. Len(worker.todo) = 1
            BY <5>3
          <6> QED BY <2>4, <5>3, <6>1
        <5> QED BY <3>1, <5>1, <5>2, <5>3
      <4>3. worker.pc = "drop"
        BY <2>1 DEF At
      <4>4. <<"host", "ip", "lost">> # <<"ip", "lost">> /\ <<"host", "ip", "lost">> # <<"lost">> /\ <<"ip", "lost">> # <<"lost">>
        OBVIOUS
      <4> QED BY <4>1, <4>2, <4>3, <4>4 DEF WorkerRecord
    <3>4. TailBuilt'
      <4>1. CASE worker.todo = <<"host", "ip", "lost">>
        BY <3>2, <3>3, <4>1 DEF TailBuilt, At, TailId
      <4>2. CASE worker.todo = <<"ip", "lost">>
        BY <3>1, <3>2, <3>3, <4>2 DEF TailBuilt, At, TailId
      <4>3. CASE worker.todo = <<"lost">>
        <5>1. ~Has("host")' /\ ~Has("ip")' /\ ~Has("lost")' /\ conf'.host = NoHost
          BY <3>1, <3>2, <4>3 DEF TailId
        <5>2. At("append")' /\ worker'.todo = TailFor(worker.host) /\ worker'.host = worker.host
          BY <3>3, <4>3 DEF At
        <5> QED BY <5>1, <5>2 DEF TailBuilt, At, TailFor, Tail3
      <4> QED BY <3>1, <4>1, <4>2, <4>3
    <3>5. WorkerTyped' /\ QueueTyped' /\ failed' \in BOOLEAN /\ Busy'
      BY <2>1, <2>4, <3>3 DEF WorkerTyped, QueueTyped, Busy
    <3>6. KindFits' /\ ReplaceReady'
      BY <2>1, <3>3 DEF KindFits, ReplaceReady, BootPc, At
    <3>7. HostCurrent'
      <4>1. worker.host = dashboard \/ TailQueued
        BY <2>1 DEF HostCurrent, Reads, BootPc, At
      <4> QED BY <2>1, <2>4, <3>3, <4>1 DEF HostCurrent, TailQueued
    <3>8. AppDone' /\ AppFollows' /\ TailFollows'
      <4>1. conf.app = AppHosts \/ worker.left \/ queue # << >>
        BY <2>1 DEF AppDone, At
      <4>2. AppHosts' = AppHosts /\ worker'.left = worker.left
        BY <2>1, <3>3 DEF AppHosts
      <4> QED BY <2>1, <2>4, <3>2, <3>3, <3>5, <4>1, <4>2 DEF AppDone, AppFollows, TailFollows
    <3> QED BY <3>4, <3>5, <3>6, <3>7, <3>8 DEF WorkOK
  <2> QED BY <2>2, <2>3, <2>4
<1>2. BoxTyped'
  BY DEF DropTail, ProxyInv, BoxTyped
<1>3. WorldTyped'
  BY DEF DropTail, ProxyInv, WorldTyped, world
<1>4. RowsTyped'
  BY DEF DropTail, ProxyInv, RowsTyped, rows
<1>5. BoundsTyped'
  BY <1>1, ProxyBounds DEF DropTail, ProxyInv, BoundsTyped, jobs, Fault, Form, Call, QueueCaddyBootstrap
<1>6. ConfOK'
  <2>1. Head(worker.todo) \in RouteId
    BY DEF DropTail, ProxyInv, WorkOK, TailBuilt, RouteId
  <2>2. ConfSound(DeleteRoute(Head(worker.todo))) /\ ConfSound(conf)
    BY <2>1, DeleteSound DEF ProxyInv, ConfOK
  <2> QED BY <2>2 DEF DropTail, Call, ConfOK
<1>7. BoxSane'
  BY DEF DropTail, ProxyInv, BoxSane, NoBox
<1> QED BY <1>1, <1>2, <1>3, <1>4, <1>5, <1>6, <1>7 DEF ProxyInv

\* What is next of the tail ranks after all that is there.
LEMMA AppendReady ==
  ASSUME TailBuilt, WorkerTyped, ConfOK, At("append")
  PROVE  LET id == Head(worker.todo)
         IN /\ id \in {"host", "ip", "lost"}
            /\ ConfSound(AppendRoute(id)) /\ Ids(AppendRoute(id)) = Ids(conf) \cup {id}
<1> DEFINE id == Head(worker.todo)
<1>1. conf \in ConfRecord /\ Ids(conf) \subseteq RouteId
  <2>1. conf.routes \in Seq(RouteId)
    BY DEF ConfOK, ConfSound, ConfRecord
  <2> QED BY <2>1 DEF ConfOK, ConfSound, Ids, Range
<1>2. \/ id = "host" /\ worker.host # NoHost /\ ~Has("host") /\ ~Has("ip") /\ ~Has("lost")
      \/ id = "ip" /\ ~Has("ip") /\ ~Has("lost")
      \/ id = "lost" /\ ~Has("lost")
  BY DEF TailBuilt
<1> HIDE DEF id
<1>3. id \in TailId /\ (id = "host" => worker.host # NoHost)
  BY <1>2 DEF TailId
<1>4. \A other \in Ids(conf) : Rank(other) < Rank(id)
  BY <1>1, <1>2, Ranks DEF Has, Ids, RouteId
<1>5. ConfSound(AppendRoute(id)) /\ Ids(AppendRoute(id)) = Ids(conf) \cup {id}
  BY <1>3, <1>4, AppendSound
<1> QED BY <1>3, <1>5 DEF TailId, id

LEMMA AppendTailKeeps ==
  ASSUME ProxyInv, AppendTail
  PROVE  ProxyInv'
<1>1. WorkOK' /\ ReplaceReady' /\ failed' \in BOOLEAN
  <2> DEFINE id == Head(worker.todo)
             w == IF Len(worker.todo) > 1 THEN [worker EXCEPT !.todo = Tail(@)] ELSE [worker EXCEPT !.pc = "issuer"]
  <2>1. /\ QueueTyped /\ WorkerTyped /\ TailBuilt /\ KindFits /\ HostCurrent /\ AppDone /\ ConfOK /\ failed \in BOOLEAN
        /\ At("append") /\ Busy /\ worker.job.kind # "sync" /\ UNCHANGED <<dashboard, appRow, box>>
    BY DEF AppendTail, ProxyInv, WorkOK, BoundsTyped, KindFits, rows, At, Busy
  <2>2. \/ Throws
        \/ conf' = AppendRoute(id) /\ worker' = w /\ UNCHANGED <<queue, failed>>
    BY DEF AppendTail, Call
  <2>3. CASE Throws
    BY <2>1, <2>3, ThrowKeeps DEF AppendTail, rows
  <2>4. CASE conf' = AppendRoute(id) /\ worker' = w /\ UNCHANGED <<queue, failed>>
    <3>1. \/ /\ worker.todo = <<"host", "ip", "lost">> /\ worker.host # NoHost
             /\ ~Has("host") /\ ~Has("ip") /\ ~Has("lost")
          \/ worker.todo = <<"ip", "lost">> /\ ~Has("ip") /\ ~Has("lost") /\ conf.host = worker.host
          \/ worker.todo = <<"lost">> /\ Has("ip") /\ ~Has("lost") /\ conf.host = worker.host
      BY <2>1 DEF TailBuilt
    <3>9. id \in {"host", "ip", "lost"} /\ id # "app" /\ ConfSound(AppendRoute(id)) /\ Ids(AppendRoute(id)) = Ids(conf) \cup {id}
      BY AppendReady DEF AppendTail, ProxyInv, WorkOK
    <3>2. /\ \A other \in TailId : Has(other)' <=> Has(other) \/ other = id
          /\ conf'.app = conf.app /\ conf'.host = (IF id = "host" THEN worker.host ELSE conf.host)
      <4>1. conf'.app = conf.app /\ conf'.host = (IF id = "host" THEN worker.host ELSE conf.host)
        BY <2>1, <2>4 DEF AppendRoute, ConfOK, ConfSound, ConfRecord
      <4> QED BY <2>4, <3>9, <4>1 DEF Has, Ids, TailId
    <3>3. /\ worker' \in WorkerRecord /\ worker'.job = worker.job /\ worker'.host = worker.host /\ worker'.left = worker.left
          /\ worker'.pc \in {"append", "issuer"}
          /\ (worker.todo = <<"host", "ip", "lost">> => worker'.todo = <<"ip", "lost">> /\ worker'.pc = "append")
          /\ (worker.todo = <<"ip", "lost">> => worker'.todo = <<"lost">> /\ worker'.pc = "append")
          /\ (worker.todo = <<"lost">> => worker'.pc = "issuer")
      <4>1. worker \in WorkerRecord /\ <<"ip", "lost">> \in Seq(TailId) /\ <<"lost">> \in Seq(TailId)
        BY <2>1 DEF WorkerTyped, TailId
      <4>2. \/ worker.todo = <<"host", "ip", "lost">> /\ worker' = [worker EXCEPT !.todo = <<"ip", "lost">>]
            \/ worker.todo = <<"ip", "lost">> /\ worker' = [worker EXCEPT !.todo = <<"lost">>]
            \/ worker.todo = <<"lost">> /\ worker' = [worker EXCEPT !.pc = "issuer"]
        <5>1. CASE worker.todo = <<"host", "ip", "lost">>
          <6>1. Len(worker.todo) = 3 /\ Tail(worker.todo) = <<"ip", "lost">>
            BY <5>1
          <6>2. worker' = [worker EXCEPT !.todo = Tail(worker.todo)]
            BY <2>4, <6>1
          <6> QED BY <5>1, <6>1, <6>2
        <5>2. CASE worker.todo = <<"ip", "lost">>
          <6>1. Len(worker.todo) = 2 /\ Tail(worker.todo) = <<"lost">>
            BY <5>2
          <6>2. worker' = [worker EXCEPT !.todo = Tail(worker.todo)]
            BY <2>4, <6>1
          <6> QED BY <5>2, <6>1, <6>2
        <5>3. CASE worker.todo = <<"lost">>
          <6>1. Len(worker.todo) = 1
            BY <5>3
          <6> QED BY <2>4, <5>3, <6>1
        <5> QED BY <3>1, <5>1, <5>2, <5>3
      <4>3. worker.pc = "append"
        BY <2>1 DEF At
      <4>4. <<"host", "ip", "lost">> # <<"ip", "lost">> /\ <<"host", "ip", "lost">> # <<"lost">> /\ <<"ip", "lost">> # <<"lost">>
        OBVIOUS
      <4> QED BY <4>1, <4>2, <4>3, <4>4 DEF WorkerRecord
    <3>4. TailBuilt'
      <4>1. CASE worker.todo = <<"host", "ip", "lost">>
        <5>1. id = "host" /\ ~Has("ip") /\ ~Has("lost")
          BY <3>1, <4>1
        <5> QED BY <3>2, <3>3, <4>1, <5>1 DEF TailBuilt, At, TailId
      <4>2. CASE worker.todo = <<"ip", "lost">>
        <5>1. id = "ip" /\ ~Has("lost") /\ conf.host = worker.host
          BY <3>1, <4>2
        <5> QED BY <3>2, <3>3, <4>2, <5>1 DEF TailBuilt, At, TailId
      <4>3. CASE worker.todo = <<"lost">>
        <5>1. id = "lost" /\ Has("ip") /\ conf.host = worker.host
          BY <3>1, <4>3
        <5> QED BY <3>2, <3>3, <4>3, <5>1 DEF TailBuilt, At, TailId
      <4> QED BY <3>1, <4>1, <4>2, <4>3
    <3>5. WorkerTyped' /\ QueueTyped' /\ failed' \in BOOLEAN /\ Busy'
      BY <2>1, <2>4, <3>3 DEF WorkerTyped, QueueTyped, Busy
    <3>6. KindFits' /\ ReplaceReady'
      BY <2>1, <3>3 DEF KindFits, ReplaceReady, BootPc, At
    <3>7. HostCurrent'
      <4>1. worker.host = dashboard \/ TailQueued
        BY <2>1 DEF HostCurrent, Reads, BootPc, At
      <4> QED BY <2>1, <2>4, <3>3, <4>1 DEF HostCurrent, TailQueued
    <3>8. AppDone' /\ AppFollows' /\ TailFollows'
      <4>1. conf.app = AppHosts \/ worker.left \/ queue # << >>
        BY <2>1 DEF AppDone, At
      <4>2. AppHosts' = AppHosts /\ worker'.left = worker.left
        BY <2>1, <3>3 DEF AppHosts
      <4> QED BY <2>1, <2>4, <3>2, <3>3, <3>5, <4>1, <4>2 DEF AppDone, AppFollows, TailFollows
    <3> QED BY <3>4, <3>5, <3>6, <3>7, <3>8 DEF WorkOK
  <2> QED BY <2>2, <2>3, <2>4
<1>2. BoxTyped'
  BY DEF AppendTail, ProxyInv, BoxTyped
<1>3. WorldTyped'
  BY DEF AppendTail, ProxyInv, WorldTyped, world
<1>4. RowsTyped'
  BY DEF AppendTail, ProxyInv, RowsTyped, rows
<1>5. BoundsTyped'
  BY <1>1, ProxyBounds DEF AppendTail, ProxyInv, BoundsTyped, jobs, Fault, Form, Call, QueueCaddyBootstrap
<1>6. ConfOK'
  <2>1. ConfSound(AppendRoute(Head(worker.todo))) /\ ConfSound(conf)
    BY AppendReady DEF AppendTail, ProxyInv, WorkOK, ConfOK
  <2> QED BY <2>1 DEF AppendTail, Call, ConfOK
<1>7. BoxSane'
  BY DEF AppendTail, ProxyInv, BoxSane, NoBox
<1> QED BY <1>1, <1>2, <1>3, <1>4, <1>5, <1>6, <1>7 DEF ProxyInv

LEMMA EnsureTlsAutomationKeeps ==
  ASSUME ProxyInv, EnsureTlsAutomation
  PROVE  ProxyInv'
<1>1. WorkOK' /\ ReplaceReady' /\ failed' \in BOOLEAN
  <2>1. /\ QueueTyped /\ WorkerTyped /\ TailBuilt /\ KindFits /\ HostCurrent /\ AppDone /\ ConfOK /\ failed \in BOOLEAN
        /\ At("issuer") /\ Busy /\ worker.job.kind # "sync" /\ UNCHANGED <<dashboard, appRow, box>>
    BY DEF EnsureTlsAutomation, ProxyInv, WorkOK, BoundsTyped, KindFits, rows, At, Busy
  <2>2. \/ Throws
        \/ conf' = [conf EXCEPT !.issuer = TRUE] /\ Returns /\ queue' = queue
    BY DEF EnsureTlsAutomation
  <2>3. CASE Throws
    BY <2>1, <2>3, ThrowKeeps DEF EnsureTlsAutomation, rows
  <2>4. CASE conf' = [conf EXCEPT !.issuer = TRUE] /\ Returns /\ queue' = queue
    <3>1. worker' = Idle /\ failed' = worker.left /\ worker.left \in BOOLEAN
      BY <2>1, <2>4 DEF Returns, WorkerTyped, WorkerRecord
    <3>2. WorkerTyped' /\ QueueTyped' /\ At("idle")' /\ failed' \in BOOLEAN
      BY <2>1, <2>4, <3>1, Records DEF WorkerTyped, QueueTyped, At
    <3>3. KindFits' /\ TailBuilt' /\ HostCurrent' /\ AppDone' /\ ReplaceReady'
      BY <3>2 DEF KindFits, TailBuilt, HostCurrent, AppDone, ReplaceReady, BootPc, At, Busy
    <3>4. /\ conf'.routes = conf.routes /\ conf'.host = conf.host /\ conf'.app = conf.app /\ conf'.issuer
      BY <2>1, <2>4 DEF ConfOK, ConfSound, ConfRecord
    <3>5. AppFollows'
      <4>1. conf.app = AppHosts \/ worker.left \/ queue # << >>
        BY <2>1 DEF AppDone, At
      <4> QED BY <2>1, <2>4, <3>1, <3>4, <4>1 DEF AppFollows, AppHosts
    <3>6. TailFollows'
      <4>1. worker.host = dashboard \/ TailQueued
        BY <2>1 DEF HostCurrent, Reads, BootPc, At
      <4>2. Has("ip") /\ Has("lost") /\ conf.host = worker.host
        BY <2>1 DEF TailBuilt
      <4>3. worker.host = dashboard => TailRight'
        BY <2>1, <3>4, <4>2 DEF TailRight, Has
      <4> QED BY <2>4, <4>1, <4>3 DEF TailFollows, TailQueued
    <3> QED BY <3>2, <3>3, <3>5, <3>6 DEF WorkOK
  <2> QED BY <2>2, <2>3, <2>4
<1>2. BoxTyped'
  BY DEF EnsureTlsAutomation, ProxyInv, BoxTyped
<1>3. WorldTyped'
  BY DEF EnsureTlsAutomation, ProxyInv, WorldTyped, world
<1>4. RowsTyped'
  BY DEF EnsureTlsAutomation, ProxyInv, RowsTyped, rows, WorkOK, WorkerTyped, WorkerRecord
<1>5. BoundsTyped'
  BY <1>1, ProxyBounds DEF EnsureTlsAutomation, ProxyInv, BoundsTyped, jobs, Fault, Form, Call, QueueCaddyBootstrap
<1>6. ConfOK'
  <2>1. ConfSound(conf)
    BY DEF ProxyInv, ConfOK
  <2>2. ConfSound([conf EXCEPT !.issuer = TRUE])
    BY <2>1 DEF ConfSound, ConfRecord, Ids
  <2> QED BY <2>1, <2>2 DEF EnsureTlsAutomation, ConfOK
<1>7. BoxSane'
  BY DEF EnsureTlsAutomation, ProxyInv, BoxSane, NoBox
<1> QED BY <1>1, <1>2, <1>3, <1>4, <1>5, <1>6, <1>7 DEF ProxyInv

-----------------------------------------------------------------------------
(* The forms, the reconciler, the world and processes of musdash.            *)

LEMMA SetDashboardHostKeeps ==
  ASSUME ProxyInv, SetDashboardHost
  PROVE  ProxyInv'
<1>1. WorkOK' /\ ReplaceReady' /\ failed' \in BOOLEAN
  <2>1. ReplaceReady'
    BY DEF SetDashboardHost, ProxyInv, ReplaceReady, At, world, rows
  <2>2. failed' \in BOOLEAN
    BY DEF SetDashboardHost, ProxyInv, BoundsTyped
  <2>3. Job("apply") \in JobRecord /\ Job("apply").kind = "apply"
    BY Records
  <2>4. /\ KindFits /\ TailBuilt /\ TailFollows /\ HostCurrent /\ WorkerTyped /\ QueueTyped
        /\ queue' = Append(queue, Job("apply")) /\ UNCHANGED <<conf, worker, failed>>
    BY DEF SetDashboardHost, ProxyInv, WorkOK
  <2>5. QueueTyped' /\ queue' # << >> /\ TailQueued'
    BY <2>3, <2>4, Joined
  <2>6. KindFits' /\ TailBuilt' /\ WorkerTyped'
    BY <2>4 DEF KindFits, TailBuilt, WorkerTyped, Has, At
  <2>7. AppDone' /\ AppFollows'
    BY <2>5 DEF AppDone, AppFollows
  <2>8. HostCurrent' /\ TailFollows'
    BY <2>4, <2>5 DEF HostCurrent, TailFollows, Busy, Reads, TailRight, Has, At
  <2> QED BY <2>1, <2>2, <2>5, <2>6, <2>7, <2>8 DEF WorkOK
<1>2. BoxTyped'
  BY DEF SetDashboardHost, ProxyInv, BoxTyped
<1>3. WorldTyped'
  BY DEF SetDashboardHost, ProxyInv, WorldTyped, world
<1>4. RowsTyped'
  BY DEF SetDashboardHost, ProxyInv, RowsTyped, rows
<1>5. BoundsTyped'
  BY <1>1, ProxyBounds DEF SetDashboardHost, ProxyInv, BoundsTyped, Form, Fault, jobs
<1>6. ConfOK'
  BY DEF SetDashboardHost, ProxyInv, ConfOK
<1>7. BoxSane'
  BY DEF SetDashboardHost, ProxyInv, BoxSane, NoBox
<1> QED BY <1>1, <1>2, <1>3, <1>4, <1>5, <1>6, <1>7 DEF ProxyInv

LEMMA AddDomainKeeps ==
  ASSUME ProxyInv, AddDomain
  PROVE  ProxyInv'
<1>1. WorkOK' /\ ReplaceReady' /\ failed' \in BOOLEAN
  <2>1. ReplaceReady'
    BY DEF AddDomain, ProxyInv, ReplaceReady, At, world, rows
  <2>2. failed' \in BOOLEAN
    BY DEF AddDomain, ProxyInv, BoundsTyped
  <2>3. Job("sync") \in JobRecord /\ Job("sync").kind = "sync"
    BY Records
  <2>4. /\ KindFits /\ TailBuilt /\ TailFollows /\ HostCurrent /\ WorkerTyped /\ QueueTyped
        /\ queue' = Append(queue, Job("sync")) /\ UNCHANGED <<conf, worker, failed>> /\ dashboard' = dashboard
    BY DEF AddDomain, ProxyInv, WorkOK
  <2>5. QueueTyped' /\ queue' # << >> /\ (TailQueued => TailQueued')
    BY <2>3, <2>4, Joined
  <2>6. KindFits' /\ TailBuilt' /\ WorkerTyped'
    BY <2>4 DEF KindFits, TailBuilt, WorkerTyped, Has, At
  <2>7. AppDone' /\ AppFollows'
    BY <2>5 DEF AppDone, AppFollows
  <2>8. HostCurrent' /\ TailFollows'
    BY <2>4, <2>5 DEF HostCurrent, TailFollows, Busy, Reads, TailRight, Has, At
  <2> QED BY <2>1, <2>2, <2>5, <2>6, <2>7, <2>8 DEF WorkOK
<1>2. BoxTyped'
  BY DEF AddDomain, ProxyInv, BoxTyped
<1>3. WorldTyped'
  BY DEF AddDomain, ProxyInv, WorldTyped, world
<1>4. RowsTyped'
  BY DEF AddDomain, ProxyInv, RowsTyped, rows
<1>5. BoundsTyped'
  BY <1>1, ProxyBounds DEF AddDomain, ProxyInv, BoundsTyped, Form, Fault, jobs
<1>6. ConfOK'
  BY DEF AddDomain, ProxyInv, ConfOK
<1>7. BoxSane'
  BY DEF AddDomain, ProxyInv, BoxSane, NoBox
<1> QED BY <1>1, <1>2, <1>3, <1>4, <1>5, <1>6, <1>7 DEF ProxyInv

LEMMA DeleteDomainKeeps ==
  ASSUME ProxyInv, DeleteDomain
  PROVE  ProxyInv'
<1>1. WorkOK' /\ ReplaceReady' /\ failed' \in BOOLEAN
  <2>1. ReplaceReady'
    BY DEF DeleteDomain, ProxyInv, ReplaceReady, At, world, rows
  <2>2. failed' \in BOOLEAN
    BY DEF DeleteDomain, ProxyInv, BoundsTyped
  <2>3. Job("sync") \in JobRecord /\ Job("sync").kind = "sync"
    BY Records
  <2>4. /\ KindFits /\ TailBuilt /\ TailFollows /\ HostCurrent /\ WorkerTyped /\ QueueTyped
        /\ queue' = Append(queue, Job("sync")) /\ UNCHANGED <<conf, worker, failed>> /\ dashboard' = dashboard
    BY DEF DeleteDomain, ProxyInv, WorkOK
  <2>5. QueueTyped' /\ queue' # << >> /\ (TailQueued => TailQueued')
    BY <2>3, <2>4, Joined
  <2>6. KindFits' /\ TailBuilt' /\ WorkerTyped'
    BY <2>4 DEF KindFits, TailBuilt, WorkerTyped, Has, At
  <2>7. AppDone' /\ AppFollows'
    BY <2>5 DEF AppDone, AppFollows
  <2>8. HostCurrent' /\ TailFollows'
    BY <2>4, <2>5 DEF HostCurrent, TailFollows, Busy, Reads, TailRight, Has, At
  <2> QED BY <2>1, <2>2, <2>5, <2>6, <2>7, <2>8 DEF WorkOK
<1>2. BoxTyped'
  BY DEF DeleteDomain, ProxyInv, BoxTyped
<1>3. WorldTyped'
  BY DEF DeleteDomain, ProxyInv, WorldTyped, world
<1>4. RowsTyped'
  BY DEF DeleteDomain, ProxyInv, RowsTyped, rows
<1>5. BoundsTyped'
  BY <1>1, ProxyBounds DEF DeleteDomain, ProxyInv, BoundsTyped, Form, Fault, jobs
<1>6. ConfOK'
  BY DEF DeleteDomain, ProxyInv, ConfOK
<1>7. BoxSane'
  BY DEF DeleteDomain, ProxyInv, BoxSane, NoBox
<1> QED BY <1>1, <1>2, <1>3, <1>4, <1>5, <1>6, <1>7 DEF ProxyInv

LEMMA EnsureCaddyQueuedKeeps ==
  ASSUME ProxyInv, EnsureCaddyQueued
  PROVE  ProxyInv'
<1>1. WorkOK' /\ ReplaceReady' /\ failed' \in BOOLEAN
  <2>1. ReplaceReady'
    BY DEF EnsureCaddyQueued, ProxyInv, ReplaceReady, At, world
  <2>2. failed' \in BOOLEAN
    BY DEF EnsureCaddyQueued, ProxyInv, BoundsTyped
  <2>3. Job("ensure") \in JobRecord
    BY Records
  <2> QED BY <2>1, <2>2, <2>3, OutsideKeeps DEF EnsureCaddyQueued, QueueCaddyBootstrap
<1>2. BoxTyped'
  BY DEF EnsureCaddyQueued, ProxyInv, BoxTyped
<1>3. WorldTyped'
  BY DEF EnsureCaddyQueued, ProxyInv, WorldTyped, world
<1>4. RowsTyped'
  BY DEF EnsureCaddyQueued, ProxyInv, RowsTyped, rows
<1>5. BoundsTyped'
  BY <1>1 DEF EnsureCaddyQueued, ProxyInv, BoundsTyped, QueueCaddyBootstrap
<1>6. ConfOK'
  BY DEF EnsureCaddyQueued, ProxyInv, ConfOK
<1>7. BoxSane'
  BY DEF EnsureCaddyQueued, ProxyInv, BoxSane, NoBox
<1> QED BY <1>1, <1>2, <1>3, <1>4, <1>5, <1>6, <1>7 DEF ProxyInv

LEMMA BucketRollsKeeps ==
  ASSUME ProxyInv, BucketRolls
  PROVE  ProxyInv'
<1>1. WorkOK' /\ ReplaceReady' /\ failed' \in BOOLEAN
  <2>1. ReplaceReady'
    BY DEF BucketRolls, ProxyInv, ReplaceReady, At, world
  <2>2. failed' \in BOOLEAN
    BY DEF BucketRolls, ProxyInv, BoundsTyped
  <2> QED BY <2>1, <2>2, OutsideKeeps DEF BucketRolls, jobs
<1>2. BoxTyped'
  BY DEF BucketRolls, ProxyInv, BoxTyped
<1>3. WorldTyped'
  BY DEF BucketRolls, ProxyInv, WorldTyped, world
<1>4. RowsTyped'
  BY DEF BucketRolls, ProxyInv, RowsTyped, rows
<1>5. BoundsTyped'
  BY <1>1, ProxyBounds DEF BucketRolls, ProxyInv, BoundsTyped, Fault, jobs
<1>6. ConfOK'
  BY DEF BucketRolls, ProxyInv, ConfOK
<1>7. BoxSane'
  BY DEF BucketRolls, ProxyInv, BoxSane, NoBox
<1> QED BY <1>1, <1>2, <1>3, <1>4, <1>5, <1>6, <1>7 DEF ProxyInv

LEMMA HostChangesKeeps ==
  ASSUME ProxyInv, HostChanges
  PROVE  ProxyInv'
<1>1. WorkOK' /\ ReplaceReady' /\ failed' \in BOOLEAN
  <2>1. ReplaceReady'
    BY DEF HostChanges, ReplaceReady, At
  <2>2. failed' \in BOOLEAN
    BY DEF HostChanges, ProxyInv, BoundsTyped
  <2> QED BY <2>1, <2>2, OutsideKeeps DEF HostChanges, jobs
<1>2. BoxTyped'
  BY DEF HostChanges, ProxyInv, BoxTyped
<1>3. WorldTyped'
  BY DEF HostChanges, ProxyInv, WorldTyped, world
<1>4. RowsTyped'
  BY DEF HostChanges, ProxyInv, RowsTyped, rows
<1>5. BoundsTyped'
  BY <1>1, ProxyBounds DEF HostChanges, ProxyInv, BoundsTyped, Fault, jobs
<1>6. ConfOK'
  BY DEF HostChanges, ProxyInv, ConfOK
<1>7. BoxSane'
  <2>1. BoxSane /\ box \in BoxRecord /\ box' = [box EXCEPT !.made = "stale"]
    BY DEF HostChanges, ProxyInv, BoxTyped, BoxRecord
  <2> QED BY <2>1 DEF BoxSane, BoxRecord
<1> QED BY <1>1, <1>2, <1>3, <1>4, <1>5, <1>6, <1>7 DEF ProxyInv

LEMMA ProxyFailsKeeps ==
  ASSUME ProxyInv, ProxyFails
  PROVE  ProxyInv'
<1>1. WorkOK' /\ ReplaceReady' /\ failed' \in BOOLEAN
  <2>1. ReplaceReady'
    <3>1. ReplaceReady /\ box \in BoxRecord /\ BoxSane /\ UNCHANGED <<worker, cached>> /\ box.made # "none"
      BY DEF ProxyFails, ProxyInv, BoxTyped, BoxRecord, world
    <3>2. box'.made \in {"none", box.made}
      <4>1. /\ NoBox.made = "none" /\ [box EXCEPT !.state = "exited", !.wedged = FALSE].made = box.made
            /\ [box EXCEPT !.wedged = box.state = "running"].made = box.made
        BY <3>1 DEF NoBox, BoxRecord
      <4> QED BY <4>1 DEF ProxyFails
    <3>3. ~At("create")
      BY <3>1 DEF ReplaceReady, NoBox
    <3> QED BY <3>1, <3>2, <3>3 DEF ReplaceReady, At
  <2>2. failed' \in BOOLEAN
    BY DEF ProxyFails, ProxyInv, BoundsTyped
  <2> QED BY <2>1, <2>2, OutsideKeeps DEF ProxyFails, jobs
<1>2. BoxTyped'
  <2>1. NoBox \in BoxRecord /\ box \in BoxRecord
    BY DEF ProxyInv, BoxTyped, BoxRecord, NoBox
  <2>2. /\ [box EXCEPT !.state = "exited", !.wedged = FALSE] \in BoxRecord
        /\ [box EXCEPT !.wedged = box.state = "running"] \in BoxRecord
    BY <2>1 DEF BoxRecord
  <2> QED BY <2>1, <2>2 DEF ProxyFails, BoxTyped, BoxRecord
<1>3. WorldTyped'
  BY DEF ProxyFails, ProxyInv, WorldTyped, world
<1>4. RowsTyped'
  BY DEF ProxyFails, ProxyInv, RowsTyped, rows
<1>5. BoundsTyped'
  BY <1>1, ProxyBounds DEF ProxyFails, ProxyInv, BoundsTyped, Fault, jobs
<1>6. ConfOK'
  BY DEF ProxyFails, ProxyInv, ConfOK
<1>7. BoxSane'
  <2>1. BoxSane /\ box \in BoxRecord /\ box.made # "none"
    BY DEF ProxyFails, ProxyInv, BoxTyped, BoxRecord
  <2>2. CASE box' = NoBox
    BY <2>2 DEF BoxSane, NoBox
  <2>3. CASE box' = [box EXCEPT !.state = "exited", !.wedged = FALSE]
    BY <2>1, <2>3 DEF BoxSane, BoxRecord
  <2>4. CASE box' = [box EXCEPT !.wedged = box.state = "running"]
    BY <2>1, <2>4 DEF BoxSane, BoxRecord
  <2> QED BY <2>2, <2>3, <2>4 DEF ProxyFails
<1> QED BY <1>1, <1>2, <1>3, <1>4, <1>5, <1>6, <1>7 DEF ProxyInv

LEMMA PortTakenKeeps ==
  ASSUME ProxyInv, PortTaken
  PROVE  ProxyInv'
<1>1. WorkOK' /\ ReplaceReady' /\ failed' \in BOOLEAN
  <2>1. ReplaceReady'
    BY DEF PortTaken, ProxyInv, ReplaceReady, At, world
  <2>2. failed' \in BOOLEAN
    BY DEF PortTaken, ProxyInv, BoundsTyped
  <2> QED BY <2>1, <2>2, OutsideKeeps DEF PortTaken, jobs
<1>2. BoxTyped'
  BY DEF PortTaken, ProxyInv, BoxTyped
<1>3. WorldTyped'
  BY DEF PortTaken, ProxyInv, WorldTyped
<1>4. RowsTyped'
  BY DEF PortTaken, ProxyInv, RowsTyped, rows
<1>5. BoundsTyped'
  BY <1>1, ProxyBounds DEF PortTaken, ProxyInv, BoundsTyped, Fault, jobs
<1>6. ConfOK'
  BY DEF PortTaken, ProxyInv, ConfOK
<1>7. BoxSane'
  BY DEF PortTaken, ProxyInv, BoxSane, NoBox
<1> QED BY <1>1, <1>2, <1>3, <1>4, <1>5, <1>6, <1>7 DEF ProxyInv

LEMMA ImageBreaksKeeps ==
  ASSUME ProxyInv, ImageBreaks
  PROVE  ProxyInv'
<1>1. WorkOK' /\ ReplaceReady' /\ failed' \in BOOLEAN
  <2>1. ReplaceReady'
    BY DEF ImageBreaks, ProxyInv, ReplaceReady, At, world
  <2>2. failed' \in BOOLEAN
    BY DEF ImageBreaks, ProxyInv, BoundsTyped
  <2> QED BY <2>1, <2>2, OutsideKeeps DEF ImageBreaks, jobs
<1>2. BoxTyped'
  BY DEF ImageBreaks, ProxyInv, BoxTyped
<1>3. WorldTyped'
  BY DEF ImageBreaks, ProxyInv, WorldTyped
<1>4. RowsTyped'
  BY DEF ImageBreaks, ProxyInv, RowsTyped, rows
<1>5. BoundsTyped'
  BY <1>1, ProxyBounds DEF ImageBreaks, ProxyInv, BoundsTyped, Fault, jobs
<1>6. ConfOK'
  BY DEF ImageBreaks, ProxyInv, ConfOK
<1>7. BoxSane'
  BY DEF ImageBreaks, ProxyInv, BoxSane, NoBox
<1> QED BY <1>1, <1>2, <1>3, <1>4, <1>5, <1>6, <1>7 DEF ProxyInv

LEMMA WorldMendsKeeps ==
  ASSUME ProxyInv, WorldMends
  PROVE  ProxyInv'
<1>1. WorkOK' /\ ReplaceReady' /\ failed' \in BOOLEAN
  <2>1. ReplaceReady'
    BY DEF WorldMends, ProxyInv, ReplaceReady, At, world
  <2>2. failed' \in BOOLEAN
    BY DEF WorldMends, ProxyInv, BoundsTyped
  <2> QED BY <2>1, <2>2, OutsideKeeps DEF WorldMends, jobs
<1>2. BoxTyped'
  BY DEF WorldMends, ProxyInv, BoxTyped
<1>3. WorldTyped'
  BY DEF WorldMends, ProxyInv, WorldTyped
<1>4. RowsTyped'
  BY DEF WorldMends, ProxyInv, RowsTyped, rows
<1>5. BoundsTyped'
  BY <1>1, ProxyBounds DEF WorldMends, ProxyInv, BoundsTyped, Fault, jobs
<1>6. ConfOK'
  BY DEF WorldMends, ProxyInv, ConfOK
<1>7. BoxSane'
  BY DEF WorldMends, ProxyInv, BoxSane, NoBox
<1> QED BY <1>1, <1>2, <1>3, <1>4, <1>5, <1>6, <1>7 DEF ProxyInv

LEMMA CrashKeeps ==
  ASSUME ProxyInv, Crash
  PROVE  ProxyInv'
<1>1. WorkOK' /\ ReplaceReady' /\ failed' \in BOOLEAN
  <2>1. /\ QueueTyped /\ WorkerTyped /\ AppFollows /\ failed \in BOOLEAN /\ UNCHANGED <<conf, failed, rows>>
    BY DEF Crash, ProxyInv, WorkOK, BoundsTyped
  <2>2. worker' \in WorkerRecord /\ worker'.pc = "off"
    BY Records DEF Crash, WorkerRecord
  <2>3. KindFits' /\ TailBuilt' /\ HostCurrent' /\ AppDone' /\ ReplaceReady' /\ TailFollows' /\ WorkerTyped'
    BY <2>2 DEF KindFits, TailBuilt, HostCurrent, AppDone, ReplaceReady, TailFollows, WorkerTyped, BootPc, At, Busy
  <2>4. CASE queue' = queue /\ At("idle")
    <3>1. ~Busy
      BY <2>4 DEF Busy, At
    <3> QED BY <2>1, <2>3, <2>4, <3>1 DEF AppFollows, AppHosts, rows, QueueTyped, WorkOK
  <2>5. CASE queue' = << worker.job >> \o queue
    <3>1. worker.job \in JobRecord
      BY <2>1 DEF WorkerTyped, WorkerRecord
    <3>2. QueueTyped' /\ queue' # << >>
      BY <2>1, <2>5, <3>1, Joined
    <3> QED BY <2>1, <2>3, <3>2 DEF AppFollows, WorkOK
  <2> QED BY <2>4, <2>5 DEF Crash
<1>2. BoxTyped'
  BY DEF Crash, ProxyInv, BoxTyped
<1>3. WorldTyped'
  BY DEF Crash, ProxyInv, WorldTyped, world
<1>4. RowsTyped'
  BY DEF Crash, ProxyInv, RowsTyped, rows
<1>5. BoundsTyped'
  BY <1>1, ProxyBounds DEF Crash, ProxyInv, BoundsTyped, Fault
<1>6. ConfOK'
  BY DEF Crash, ProxyInv, ConfOK
<1>7. BoxSane'
  BY DEF Crash, ProxyInv, BoxSane, NoBox
<1> QED BY <1>1, <1>2, <1>3, <1>4, <1>5, <1>6, <1>7 DEF ProxyInv

LEMMA BootKeeps ==
  ASSUME ProxyInv, Boot
  PROVE  ProxyInv'
<1>1. WorkOK' /\ ReplaceReady' /\ failed' \in BOOLEAN
  <2>1. /\ QueueTyped /\ failed \in BOOLEAN /\ UNCHANGED <<failed, rows>> /\ worker' = Idle
        /\ queue' = Append(queue, Job("ensure"))
    BY DEF Boot, ProxyInv, WorkOK, BoundsTyped, QueueCaddyBootstrap
  <2>2. Job("ensure") \in JobRecord /\ Job("ensure").kind = "ensure"
    BY Records
  <2>3. QueueTyped' /\ queue' # << >> /\ TailQueued'
    BY <2>1, <2>2, Joined
  <2>4. WorkerTyped' /\ At("idle")'
    BY <2>1, Records DEF WorkerTyped, At
  <2>5. KindFits' /\ TailBuilt' /\ HostCurrent' /\ AppDone' /\ ReplaceReady'
    BY <2>4 DEF KindFits, TailBuilt, HostCurrent, AppDone, ReplaceReady, BootPc, At, Busy
  <2>6. TailFollows' /\ AppFollows'
    BY <2>3 DEF TailFollows, AppFollows
  <2> QED BY <2>1, <2>3, <2>4, <2>5, <2>6 DEF WorkOK
<1>2. BoxTyped'
  BY DEF Boot, ProxyInv, BoxTyped
<1>3. WorldTyped'
  BY DEF Boot, ProxyInv, WorldTyped, world
<1>4. RowsTyped'
  BY DEF Boot, ProxyInv, RowsTyped, rows
<1>5. BoundsTyped'
  BY <1>1 DEF Boot, ProxyInv, BoundsTyped, QueueCaddyBootstrap
<1>6. ConfOK'
  <2>1. ConfSound(conf)
    BY DEF ProxyInv, ConfOK
  <2>2. PICK same \in BOOLEAN : conf' = [conf EXCEPT !.issuer = @ /\ (same \/ ~conf.base)]
    BY DEF Boot
  <2>3. (conf.issuer /\ (same \/ ~conf.base)) \in BOOLEAN
    OBVIOUS
  <2>4. conf' \in ConfRecord /\ conf'.routes = conf.routes /\ conf'.host = conf.host /\ conf'.app = conf.app
    BY <2>1, <2>2, <2>3 DEF ConfSound, ConfRecord
  <2> QED BY <2>1, <2>4 DEF ConfOK, ConfSound, Ids
<1>7. BoxSane'
  BY DEF Boot, ProxyInv, BoxSane, NoBox
<1> QED BY <1>1, <1>2, <1>3, <1>4, <1>5, <1>6, <1>7 DEF ProxyInv

-----------------------------------------------------------------------------
(* The invariant, and what follows.                                         *)

LEMMA InitHolds == Init => ProxyInv
<1> SUFFICES ASSUME Init PROVE ProxyInv
  OBVIOUS
<1>1. BoxTyped /\ BoxSane
  BY ProxyConstants DEF Init, BoxTyped, BoxSane, NoBox
<1>2. WorldTyped /\ RowsTyped /\ BoundsTyped
  <2>1. 0 \in 0..MaxForms /\ 0 \in 0..MaxFaults
    BY ProxyBounds
  <2> QED BY <2>1 DEF Init, WorldTyped, RowsTyped, BoundsTyped
<1>3. ConfOK /\ conf.host = NoHost /\ conf.app = {}
  <2>1. CASE conf = Blank
    BY <2>1, BlankSound DEF ConfOK, Blank
  <2>2. CASE conf = [Blank EXCEPT !.base = TRUE, !.routes = TailFor(NoHost)]
    <3> DEFINE r == <<"ip", "lost">>
    <3>1. r \in Seq(RouteId) /\ Range(r) = {"ip", "lost"} /\ InOrder(r)
      <4>1. DOMAIN r = 1..2 /\ r[1] = "ip" /\ r[2] = "lost" /\ r \in Seq(RouteId)
        BY DEF RouteId
      <4> HIDE DEF r
      <4>2. DOMAIN r = {1, 2}
        BY <4>1
      <4>3. Range(r) = {"ip", "lost"}
        BY <4>1, <4>2 DEF Range
      <4>4. InOrder(r)
        BY <4>1, <4>2, Ranks DEF InOrder
      <4> QED BY <4>1, <4>3, <4>4
    <3>2. conf.routes = r /\ conf.host = NoHost /\ conf.app = {} /\ conf.base /\ conf.issuer
      BY <2>2 DEF Blank, TailFor
    <3>3. conf \in ConfRecord
      BY <2>2, <3>1 DEF Blank, TailFor, ConfRecord
    <3> HIDE DEF r
    <3>4. Ids(conf) = {"ip", "lost"}
      BY <3>1, <3>2 DEF Ids
    <3> QED BY <3>1, <3>2, <3>3, <3>4 DEF ConfOK, ConfSound
  <2> QED BY <2>1, <2>2 DEF Init
<1>4. worker \in WorkerRecord /\ worker.pc = "off" /\ queue = << >> /\ queue \in Seq(JobRecord)
  BY Records DEF Init, WorkerRecord
<1>5. WorkerTyped /\ QueueTyped /\ KindFits /\ TailBuilt /\ HostCurrent /\ AppDone /\ ReplaceReady /\ TailFollows
  BY <1>4 DEF WorkerTyped, QueueTyped, KindFits, TailBuilt, HostCurrent, AppDone, ReplaceReady, TailFollows,
     BootPc, At, Busy
<1>6. AppFollows
  <2>1. AppHosts = {}
    BY DEF Init, AppHosts
  <2> QED BY <1>3, <2>1 DEF AppFollows
<1> QED BY <1>1, <1>2, <1>3, <1>5, <1>6 DEF ProxyInv, WorkOK

LEMMA NextHolds == ProxyInv /\ [Next]_vars => ProxyInv'
<1> SUFFICES ASSUME ProxyInv, [Next]_vars PROVE ProxyInv'
  OBVIOUS
<1>1. CASE UNCHANGED vars
  <2>1. /\ UNCHANGED <<box, throwaway, conf, worker, queue, failed, queued, forms, faults, applied>>
        /\ UNCHANGED rows /\ UNCHANGED world
    BY <1>1 DEF vars, rows, world
  <2>2. WorkOK'
    BY <2>1, OutsideKeeps
  <2>3. BoxTyped' /\ WorldTyped' /\ RowsTyped' /\ BoundsTyped'
    BY <2>1 DEF ProxyInv, BoxTyped, WorldTyped, RowsTyped, BoundsTyped, rows, world
  <2>4. ConfOK' /\ BoxSane' /\ ReplaceReady'
    BY <2>1 DEF ProxyInv, ConfOK, BoxSane, ReplaceReady, At, world
  <2> QED BY <2>2, <2>3, <2>4 DEF ProxyInv
<1>2. CASE Bootstrap
  BY <1>2, LookKeeps, PullKeeps, PreflightKeeps, ReplaceKeeps, CreateKeeps, StartKeeps, WaitKeeps,
     EnsureBaseConfigKeeps, VerifyServingKeeps DEF Bootstrap
<1>3. CASE Work
  BY <1>2, <1>3, TakeKeeps, SyncResourceRoutesKeeps, DropTailKeeps, AppendTailKeeps,
     EnsureTlsAutomationKeeps DEF Work
<1> QED BY <1>1, <1>3, SetDashboardHostKeeps, AddDomainKeeps, DeleteDomainKeeps, EnsureCaddyQueuedKeeps,
     BucketRollsKeeps, CrashKeeps, BootKeeps, HostChangesKeeps, ProxyFailsKeeps, PortTakenKeeps,
     ImageBreaksKeeps, WorldMendsKeeps DEF Next

LEMMA AlwaysSound == Spec => []ProxyInv
BY InitHolds, NextHolds, PTL DEF Spec

\* The order of the proxy's routes: none twice, the 404 last, whatever calls
\* failed after they had been carried out; and when the queue has drained with
\* nothing given up on, the tail is whole and the dashboard's host the row's
\* (caddy/client.ts, ensureDashboardRoutes; jobs/dashboard.ts).
THEOREM RoutesStayOrdered == Spec => []RoutesOrdered
<1>1. ProxyInv => RoutesOrdered
  <2> SUFFICES ASSUME ProxyInv PROVE RoutesOrdered
    OBVIOUS
  <2>1. TypeOK
    <3>1. {"app"} \cup Range(Tail3) = RouteId /\ Range(Tail3) = TailId
      <4>1. DOMAIN Tail3 = 1..3 /\ Tail3[1] = "host" /\ Tail3[2] = "ip" /\ Tail3[3] = "lost"
        BY DEF Tail3
      <4>2. DOMAIN Tail3 = {1, 2, 3}
        BY <4>1
      <4>3. Range(Tail3) = TailId
        BY <4>1, <4>2 DEF Range, TailId
      <4> QED BY <4>3 DEF RouteId, TailId
    <3>2. WorkerTyped /\ QueueTyped /\ ConfOK
      BY DEF ProxyInv, WorkOK
    <3>3. queue \in Seq([kind : {"ensure", "apply", "sync"}, tries : 1..MaxTries])
      BY <3>2 DEF QueueTyped, JobRecord
    <3>4. worker \in [pc : {"idle", "off", "look", "pull", "preflight", "replace", "create", "start",
                       "wait", "base", "verify", "sync", "drop", "append", "issuer"},
                 job : [kind : {"ensure", "apply", "sync"}, tries : 1..MaxTries],
                 adopted : BOOLEAN, restarted : BOOLEAN, host : Host \cup {NoHost},
                 todo : Seq(Range(Tail3)), left : BOOLEAN]
      BY <3>1, <3>2 DEF WorkerTyped, WorkerRecord, JobRecord
    <3>5. conf \in [base : BOOLEAN, routes : Seq({"app"} \cup Range(Tail3)), host : Host \cup {NoHost},
               app : SUBSET Host, issuer : BOOLEAN]
      BY <3>1, <3>2 DEF ConfOK, ConfSound, ConfRecord
    <3>6. BoxTyped /\ WorldTyped /\ RowsTyped /\ BoundsTyped
      BY DEF ProxyInv
    <3> QED BY <3>3, <3>4, <3>5, <3>6 DEF TypeOK, BoxTyped, WorldTyped, RowsTyped, BoundsTyped
  <2>2. InOrder(conf.routes)
    BY DEF ProxyInv, ConfOK, ConfSound
  <2>3. ASSUME At("idle"), queue = << >>, ~failed
        PROVE  /\ Has("ip") /\ Has("lost") /\ (Has("host") <=> dashboard # NoHost)
               /\ conf.host = dashboard /\ conf.app = AppHosts /\ conf.issuer
    <3>1. ~Busy /\ ~At("off") /\ ~TailQueued
      BY <2>3 DEF Busy, At, TailQueued
    <3>2. TailRight /\ conf.app = AppHosts
      BY <2>3, <3>1 DEF ProxyInv, WorkOK, TailFollows, AppFollows
    <3>3. Has("host") <=> conf.host # NoHost
      BY DEF ProxyInv, ConfOK, ConfSound, Has, Ids
    <3> QED BY <3>2, <3>3 DEF TailRight
  <2> QED BY <2>1, <2>2, <2>3 DEF RoutesOrdered
<1> QED BY <1>1, AlwaysSound, PTL

\* A bootstrap takes a proxy that serves away only to replace an older
\* definition, after a preflight of the image (caddy/bootstrap.ts).
THEOREM NoProxyIsWasted == Spec => ServingKept
<1>1. ASSUME ProxyInv, Next, Serving, ~Serving', faults' = faults
      PROVE  At("replace") /\ cached = "good" /\ box.made # "current"
  <2>1. /\ box \in BoxRecord /\ box.state = "running" /\ ~box.wedged /\ box.mapped /\ box' # box
        /\ box.made # "none" /\ ~box.bad /\ ~Fault
    <3>1. ~Fault
      BY <1>1 DEF Fault, ProxyInv, BoundsTyped
    <3>2. box.made # "none" /\ ~box.bad
      BY <1>1 DEF ProxyInv, BoxSane, NoBox, Serving, Answers
    <3> QED BY <1>1, <3>1, <3>2 DEF Serving, Answers, ProxyInv, BoxTyped, BoxRecord
  <2>2. CASE Replace
    BY <1>1, <2>1, <2>2 DEF Replace, ProxyInv, ReplaceReady
  <2>3. ~Create
    BY <1>1, <2>1 DEF Create, ProxyInv, ReplaceReady, NoBox
  <2>4. ~Start
    <3>1. Started(box) = box
      BY <2>1, StartedSane
    <3> QED BY <2>1, <3>1 DEF Start, NeverCameUp
  <2>5. ~Wait
    BY <2>1 DEF Wait, NeverCameUp, Serving, Answers
  <2>6. ~HostChanges
    BY <1>1, <2>1 DEF HostChanges, Serving, Answers, BoxRecord
  <2>7. ~ProxyFails
    BY <2>1 DEF ProxyFails
  <2>8. ~Look /\ ~Pull /\ ~Preflight /\ ~EnsureBaseConfig /\ ~VerifyServing
    BY <2>1 DEF Look, Pull, Preflight, EnsureBaseConfig, VerifyServing
  <2>9. ~Take /\ ~SyncResourceRoutes /\ ~DropTail /\ ~AppendTail /\ ~EnsureTlsAutomation
    BY <2>1 DEF Take, SyncResourceRoutes, DropTail, AppendTail, EnsureTlsAutomation
  <2>10. ~SetDashboardHost /\ ~AddDomain /\ ~DeleteDomain /\ ~EnsureCaddyQueued /\ ~BucketRolls
    BY <2>1 DEF SetDashboardHost, AddDomain, DeleteDomain, EnsureCaddyQueued, BucketRolls
  <2>11. ~Crash /\ ~Boot /\ ~PortTaken /\ ~ImageBreaks /\ ~WorldMends
    BY <2>1 DEF Crash, Boot, PortTaken, ImageBreaks, WorldMends
  <2> QED BY <1>1, <2>2, <2>3, <2>4, <2>5, <2>6, <2>7, <2>8, <2>9, <2>10, <2>11 DEF Next, Work, Bootstrap
<1>2. ProxyInv /\ [Next]_vars
      => [Serving /\ ~Serving' /\ faults' = faults => At("replace") /\ cached = "good" /\ box.made # "current"]_vars
  BY <1>1
<1> QED BY <1>2, AlwaysSound, PTL DEF Spec, ServingKept

====
