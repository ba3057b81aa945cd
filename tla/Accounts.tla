-------------------------------- MODULE Accounts --------------------------------
(***************************************************************************)
(* Setup, sign-in, sign-out and the gate through which every password goes:   *)
(* one argon2 operation at a time, a few waiting (auth.ts, password.ts,       *)
(* routes/auth.ts, http.ts).  A request reads, awaits the gate, and then acts *)
(* on what may have changed.                                                 *)
(***************************************************************************)
EXTENDS Naturals, Sequences, FiniteSets

CONSTANTS
  Requests,    \* bound: requests; a finished one may be made again
  MaxWaiting,  \* MAX_WAITING
  MaxAnswers   \* bound: requests made

VARIABLES
  account,  \* who set it up, or "none"; an account may be of an earlier release
  hash,     \* whether its hash was made with the present parameters
  request,  \* each: what it asks, where it is, which gate operation, its answer
  active,   \* the request whose operation runs, or "none"
  queue,    \* those that wait
  sessions, \* of the account: alive, or expired and not purged
  answers

vars == <<account, hash, request, active, queue, sessions, answers>>

None == "none"
Earlier == "earlier"
Asks == {"setup", "known", "wrong", "unknown"}
Ended(ask, answer) == [ask |-> ask, pc |-> "done", op |-> None, seen |-> "new", ok |-> TRUE, answer |-> answer]
Asking(ask, op, seen) == [ask |-> ask, pc |-> "ask", op |-> op, seen |-> seen, ok |-> TRUE, answer |-> None]
Rest == Ended(None, None)

AccountsTypeOK ==
  /\ account \in Requests \cup {None, Earlier} /\ hash \in {"old", "new"}
  /\ request \in [Requests -> [ask : Asks \cup {None}, pc : {"done", "ask", "wait", "runs", "back", "session"},
                               op : {None, "hash", "verify", "rehash"}, seen : {"old", "new"}, ok : BOOLEAN,
                               answer : {None, "home", "login", "setup", "incorrect", "busy", "error"}]]
  /\ active \in Requests \cup {None}
  /\ queue \in Seq(Requests) /\ Len(queue) <= MaxWaiting
  /\ sessions \subseteq {"alive", "expired"} /\ answers \in 0..MaxAnswers

Init ==
  /\ \/ account = None /\ hash = "new"
     \/ account = Earlier /\ hash \in {"old", "new"}
  /\ request = [r \in Requests |-> Rest]
  /\ active = None /\ queue = << >> /\ sessions = {} /\ answers = 0

Goes(r, pc) == request' = [request EXCEPT ![r].pc = pc]
Answered(r, answer) == request' = [request EXCEPT ![r] = Ended(request[r].ask, answer)]
At(r, pc) == request[r].pc = pc

-----------------------------------------------------------------------------
(* Requests: routes/auth.ts, auth.ts.                                       *)

\* The first look: setup without an account, an account for an email.
Begin(r) ==
  /\ At(r, "done") /\ answers < MaxAnswers /\ answers' = answers + 1
  /\ \E ask \in Asks :
       \/ /\ ask = "setup" /\ account # None
          /\ request' = [request EXCEPT ![r] = Ended(ask, "login")]
       \/ /\ ask = "setup" /\ account = None
          /\ request' = [request EXCEPT ![r] = Asking(ask, "hash", "new")]
       \/ /\ ask \in {"known", "wrong"} /\ account # None
          /\ request' = [request EXCEPT ![r] = Asking(ask, "verify", hash)]
       \/ /\ ask = "unknown"
          /\ request' = [request EXCEPT ![r] = Asking(ask, "hash", "new")]
  /\ UNCHANGED <<account, hash, active, queue, sessions>>

\* A full gate answers 503, but a sign-in whose rehash it refuses goes on.
Busy(r) == IF request[r].op = "rehash" THEN Goes(r, "session") ELSE Answered(r, "busy")

\* gate.run: the gate is free, or full, or there is room to wait.
GateRun(r) ==
  /\ At(r, "ask")
  /\ \/ active = None /\ active' = r /\ Goes(r, "runs") /\ UNCHANGED queue
     \/ active # None /\ Len(queue) >= MaxWaiting /\ Busy(r) /\ UNCHANGED <<active, queue>>
     \/ /\ active # None /\ Len(queue) < MaxWaiting
        /\ queue' = Append(queue, r) /\ Goes(r, "wait") /\ UNCHANGED active
  /\ UNCHANGED <<account, hash, sessions, answers>>

Release_slip(r, ok) ==
  IF queue # << >>
  THEN /\ active' = Head(queue) /\ queue' = Tail(queue)
       /\ request' = [request EXCEPT ![r].pc = "back", ![r].ok = ok, ![Head(queue)].pc = "runs"]
  ELSE UNCHANGED <<active, queue>> /\ request' = [request EXCEPT ![r].pc = "back", ![r].ok = ok]

\* The slot goes straight to the next that waits.
Release(r, ok) ==
  IF queue # << >>
  THEN /\ active' = Head(queue) /\ queue' = Tail(queue)
       /\ request' = [request EXCEPT ![r].pc = "back", ![r].ok = ok, ![Head(queue)].pc = "runs"]
  ELSE /\ active' = None /\ UNCHANGED queue
       /\ request' = [request EXCEPT ![r].pc = "back", ![r].ok = ok]

\* An operation that fails frees the gate as well.
OperationEnds(r) ==
  /\ At(r, "runs")
  /\ \E ok \in BOOLEAN : Release(r, ok)
  /\ UNCHANGED <<account, hash, sessions, answers>>

CreateUser_slip(r) ==
  /\ At(r, "back") /\ request[r].ask = "setup" /\ request[r].ok
  /\ account' = r /\ hash' = "new" /\ Goes(r, "session")
  /\ UNCHANGED <<active, queue, sessions, answers>>

\* The insert decides: there is one account, whatever the email.
CreateUser(r) ==
  /\ At(r, "back") /\ request[r].ask = "setup" /\ request[r].ok
  /\ IF account = None
     THEN account' = r /\ hash' = "new" /\ Goes(r, "session")
     ELSE Answered(r, "login") /\ UNCHANGED <<account, hash>>
  /\ UNCHANGED <<active, queue, sessions, answers>>

\* What was read when the request began is what was verified.
VerifyCredentials(r) ==
  /\ At(r, "back") /\ request[r].ask # "setup" /\ request[r].op # "rehash" /\ request[r].ok
  /\ IF request[r].ask # "known" THEN Answered(r, "incorrect")
     ELSE IF request[r].seen = "old" THEN request' = [request EXCEPT ![r].pc = "ask", ![r].op = "rehash"]
     ELSE Goes(r, "session")
  /\ UNCHANGED <<account, hash, active, queue, sessions, answers>>

\* Best effort, and only over the hash it replaces.
UpgradeHash(r) ==
  /\ At(r, "back") /\ request[r].op = "rehash"
  /\ hash' = IF request[r].ok /\ hash = request[r].seen THEN "new" ELSE hash
  /\ Goes(r, "session")
  /\ UNCHANGED <<account, active, queue, sessions, answers>>

Throws(r) ==
  /\ At(r, "back") /\ request[r].op # "rehash" /\ ~request[r].ok
  /\ Answered(r, "error")
  /\ UNCHANGED <<account, hash, active, queue, sessions, answers>>

CreateSession(r) ==
  /\ At(r, "session")
  /\ sessions' = sessions \cup {"alive"}
  /\ Answered(r, "home")
  /\ UNCHANGED <<account, hash, active, queue, answers>>

-----------------------------------------------------------------------------
(* Sessions.                                                               *)

Logout ==
  /\ "alive" \in sessions /\ sessions' = sessions \ {"alive"}
  /\ UNCHANGED <<account, hash, request, active, queue, answers>>

SessionExpires ==
  /\ "alive" \in sessions /\ sessions' = (sessions \ {"alive"}) \cup {"expired"}
  /\ UNCHANGED <<account, hash, request, active, queue, answers>>

\* When it is used again, or by the daily purge.
PurgeExpired ==
  /\ "expired" \in sessions /\ sessions' = sessions \ {"expired"}
  /\ UNCHANGED <<account, hash, request, active, queue, answers>>

Next ==
  \/ \E r \in Requests :
       \/ Begin(r) \/ GateRun(r) \/ OperationEnds(r)
       \/ CreateUser(r) \/ VerifyCredentials(r) \/ UpgradeHash(r) \/ Throws(r) \/ CreateSession(r)
  \/ Logout \/ SessionExpires \/ PurgeExpired

Spec == Init /\ [][Next]_vars

-----------------------------------------------------------------------------
(* Properties.                                                             *)

\* Any number of setups at once leave the account that was first and sign only
\* its owner in.
OneAccount ==
  \A r \in Requests :
    request[r].ask = "setup" /\ (request[r].answer = "home" \/ At(r, "session")) => account = r

\* The gate runs one operation, and one whenever somebody waits, though
\* operations fail: it is never held by nobody.
GateIsHeld ==
  /\ {r \in Requests : At(r, "runs")} = {active} \ {None}
  /\ active = None => queue = << >>
  /\ {r \in Requests : At(r, "wait")} = {queue[i] : i \in DOMAIN queue}
================================================================================
