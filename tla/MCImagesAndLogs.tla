----------------------------- MODULE MCImagesAndLogs -----------------------------
(***************************************************************************)
(* Three of the parts that MCPlatform runs side by side: images and the rows *)
(* of their deployments (Builds), a deployment's log and the page that shows *)
(* it (LiveLogs), a container's lines (LogLines).                            *)
(***************************************************************************)
EXTENDS Naturals, Sequences, FiniteSets

CONSTANTS
  Repos, RetainedBuilds, MaxRows, MaxMoves, MaxUpsets,           \* Builds
  Keep, LineCap, MaxDeployments, MaxLines, MaxDrops,             \* LiveLogs
  HeaderLen, Capacity, FileLines, KeepFiles, MaxFrames           \* LogLines

\* What a bound and a length are.
ASSUME ImagesAndLogsAssumption ==
  /\ MaxRows \in Nat /\ MaxMoves \in Nat /\ MaxUpsets \in Nat
  /\ Keep \in Nat \ {0} /\ LineCap \in Nat \ {0}
  /\ MaxDeployments \in Nat /\ MaxLines \in Nat /\ MaxDrops \in Nat
  /\ HeaderLen \in Nat \ {0} /\ Capacity \in Nat \ {0} /\ FileLines \in Nat \ {0}
  /\ KeepFiles \in Nat \ {0} /\ MaxFrames \in Nat

VARIABLES
  heads, saved, rows, images, current, previous, waiting, work, overtaken, moves, upsets,
  deployLogs, deploying, begun, written, page, link, spoilt, again, drops,
  output, sent, parsed, carry, pushed, partial, hand, items, next, count, files

Frame(stream, payload) == [stream |-> stream, payload |-> payload]
\* Lines that end in a frame, in the next one, or not at all, and an empty frame.
Frames == {Frame("stdout", p) : p \in {<< >>, <<"c">>, <<"c", "nl">>, <<"nl", "c">>}} \cup {Frame("stderr", <<"nl">>)}

Images == INSTANCE Builds
Live   == INSTANCE LiveLogs
Lines  == INSTANCE LogLines WITH Outputs <- [1..MaxFrames -> Frames]
================================================================================
