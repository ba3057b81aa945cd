-------------------------------- MODULE LogLines --------------------------------
(***************************************************************************)
(* A container's output on its way to the page and the disk: Docker's framed  *)
(* stream cut into chunks anywhere (docker/demux.ts), lines put together of    *)
(* frames (docker/demux.ts, docker/impl.ts), the ring that keeps the last of  *)
(* them (logs/buffer.ts) and the files, which rotate (logs/file.ts).          *)
(*                                                                          *)
(* A frame is a header and a payload; a payload is of characters and ends of  *)
(* line.  A line is its stream and its characters' number.  The generator      *)
(* hands over one line at a time and takes no chunk before the last of them.  *)
(***************************************************************************)
EXTENDS Integers, Sequences, FiniteSets

CONSTANTS
  HeaderLen,  \* HEADER_LEN
  Outputs,    \* what a container may write: frames
  Capacity,   \* RING_CAPACITY
  FileLines,  \* MAX_BYTES, in lines
  KeepFiles   \* KEEP, one at least

VARIABLES
  output, sent,    \* the frames, and how much of them Docker has sent, in bytes
  parsed, carry,   \* frames the demuxer returned; bytes it holds back
  pushed, partial, \* frames put into lines; characters of each stream's line that has not ended
  hand,            \* lines that are there and not handed over yet
  items, next, count, \* the ring
  files            \* the file and its rotated ones, newest first: their lines

vars == <<output, sent, parsed, carry, pushed, partial, hand, items, next, count, files>>

Streams == {"stdout", "stderr"}
Size(frame) == HeaderLen + Len(frame.payload)
\* Where each frame ends in the stream.
Bytes[n \in 0..Len(output)] == IF n = 0 THEN 0 ELSE Bytes[n - 1] + Size(output[n])
Nothing == [s \in Streams |-> 0]

Init ==
  /\ output \in Outputs /\ sent = 0
  /\ parsed = 0 /\ carry = 0
  /\ pushed = 0 /\ partial = Nothing /\ hand = << >>
  /\ items = [i \in 0..Capacity - 1 |-> << >>] /\ next = 0 /\ count = 0
  /\ files = << << >> >>

-----------------------------------------------------------------------------
(* docker/demux.ts.                                                        *)

Short_slip(n, bytes) == bytes - (Bytes[parsed + n] - Bytes[parsed]) < HeaderLen
\* After n frames: no header, or not the payload that it declares.
Short(n, bytes) ==
  LET rest == bytes - (Bytes[parsed + n] - Bytes[parsed])
  IN  rest < HeaderLen \/ rest - HeaderLen < Len(output[parsed + n + 1].payload)

\* How many frames a push returns: as many as come before the first that is short.
DemuxPush(bytes) ==
  CHOOSE n \in 0..Len(output) - parsed : Short(n, bytes) /\ \A k \in 0..n - 1 : ~Short(k, bytes)

\* Where the first so many lines of a payload end.
EndOf(ends, k) == IF k = 0 THEN 0 ELSE CHOOSE i \in ends : Cardinality({j \in ends : j <= i}) = k

\* One frame's lines, the first with what was left, and what is left of the last one.
Assemble(left, frame) ==
  LET ends == {i \in DOMAIN frame.payload : frame.payload[i] = "nl"}
      n == Cardinality(ends)
  IN  [lines |-> [k \in 1..n |->
                   [stream |-> frame.stream,
                    text |-> (IF k = 1 THEN left ELSE 0) + EndOf(ends, k) - EndOf(ends, k - 1) - 1]],
       left |-> (IF n = 0 THEN left ELSE 0) + Len(frame.payload) - EndOf(ends, n)]

Rest(left, s) == IF left[s] > 0 THEN <<[stream |-> s, text |-> left[s]]>> ELSE << >>
\* The lines without an end, of which there is one a stream at most.
Unended(left) == Rest(left, "stdout") \o Rest(left, "stderr")

-----------------------------------------------------------------------------
(* logs/buffer.ts.                                                         *)

RingPush(line) ==
  /\ items' = [items EXCEPT ![next] = line]
  /\ next' = (next + 1) % Capacity
  /\ count' = IF count < Capacity THEN count + 1 ELSE count

Start_slip(n) == next
Start(n) == (next - n + Capacity * 2) % Capacity
ToArray(limit) ==
  LET n == IF limit < count THEN limit ELSE count
  IN  [i \in 1..n |-> items[(Start(n) + i - 1) % Capacity]]

-----------------------------------------------------------------------------
(* logs/file.ts.                                                           *)

\* The oldest goes, the others move down, and a file begins.
Rotate == IF Len(files[1]) < FileLines THEN files
          ELSE << << >> >> \o SubSeq(files, 1, IF Len(files) > KeepFiles THEN KeepFiles ELSE Len(files))
AppendToFile(line) == files' = [Rotate EXCEPT ![1] = Append(@, line)]

-----------------------------------------------------------------------------
(* docker/impl.ts: streamLogs.                                             *)

ReadChunk ==
  /\ hand = << >> /\ pushed = parsed
  /\ \E n \in 1..Bytes[Len(output)] - sent :
       /\ sent' = sent + n
       /\ parsed' = parsed + DemuxPush(carry + n)
       /\ carry' = carry + n - (Bytes[parsed'] - Bytes[parsed])
  /\ UNCHANGED <<output, pushed, partial, hand, items, next, count, files>>

PushFrame ==
  /\ hand = << >> /\ pushed < parsed /\ pushed' = pushed + 1
  /\ LET frame == output[pushed + 1]
         got == Assemble(partial[frame.stream], frame)
     IN  hand' = got.lines /\ partial' = [partial EXCEPT ![frame.stream] = got.left]
  /\ UNCHANGED <<output, sent, parsed, carry, items, next, count, files>>

\* events.ts: publishLog, with the line that is yielded.
PublishLog ==
  /\ hand # << >> /\ hand' = Tail(hand)
  /\ RingPush(Head(hand)) /\ AppendToFile(Head(hand))
  /\ UNCHANGED <<output, sent, parsed, carry, pushed, partial>>

\* The stream ends: a line without an end counts.
Flush ==
  /\ hand = << >> /\ pushed = parsed /\ sent = Bytes[Len(output)]
  /\ \E s \in Streams : partial[s] > 0
  /\ hand' = Unended(partial) /\ partial' = Nothing
  /\ UNCHANGED <<output, sent, parsed, carry, pushed, items, next, count, files>>

Next == ReadChunk \/ PushFrame \/ PublishLog \/ Flush

Spec == Init /\ [][Next]_vars

-----------------------------------------------------------------------------
(* Properties.                                                             *)

\* The lines and the rest of the first frames, whatever chunks bring them.
Written[n \in 0..Len(output)] ==
  IF n = 0 THEN [lines |-> << >>, partial |-> Nothing]
  ELSE LET s == output[n].stream
           got == Assemble(Written[n - 1].partial[s], output[n])
       IN  [lines |-> Written[n - 1].lines \o got.lines,
            partial |-> [Written[n - 1].partial EXCEPT ![s] = got.left]]

\* The frames that have come whole.
Whole == CHOOSE n \in 0..Len(output) :
           /\ Bytes[n] <= sent
           /\ n < Len(output) => Bytes[n + 1] > sent
Flushed == sent = Bytes[Len(output)] /\ pushed = Len(output) /\ partial = Nothing
\* The lines of the frames that were put into lines, and of what no frame will end.
Expected ==
  LET got == Written[pushed]
  IN  IF Flushed THEN got.lines \o Unended(got.partial) ELSE got.lines
Yielded == SubSeq(Expected, 1, Len(Expected) - Len(hand))
LastOf(n, s) == SubSeq(s, (IF Len(s) > n THEN Len(s) - n ELSE 0) + 1, Len(s))

\* The files hold the last lines one after the other, each where the newer one's
\* begin; a line is missing only behind so many full files.
FilesHold(lines) ==
  \E cut \in [0..Len(files) -> 0..Len(lines)] :
    /\ cut[0] = Len(lines)
    /\ \A i \in 1..Len(files) :
         /\ cut[i] <= cut[i - 1] /\ files[i] = SubSeq(lines, cut[i] + 1, cut[i - 1])
         /\ i > 1 => Len(files[i]) = FileLines
    /\ cut[Len(files)] = 0 \/ Len(files) = KeepFiles + 1

\* The lines the container wrote are on the page, the newest so many of them
\* in order, and in the files, whatever chunks brought the stream and whatever
\* the ring and the rotation overwrote; and what has come whole is put into
\* lines before another chunk is read.
LinesArrive ==
  /\ carry = sent - Bytes[Whole] /\ pushed <= Whole
  /\ hand = LastOf(Len(hand), Expected)
  /\ \A n \in 0..Capacity : ToArray(n) = LastOf(n, Yielded)
  /\ FilesHold(Yielded)
  /\ pushed = parsed => pushed = Whole
================================================================================
