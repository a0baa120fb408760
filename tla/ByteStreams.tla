----------------------------- MODULE ByteStreams -----------------------------
(***************************************************************************)
(* packages/camera/src: what is made of the MJPEG stream, whose chunks     *)
(* fall wherever the upstream happens to flush.  CameraProxy.deliver lets  *)
(* a viewer join at the next part (proxy.ts), and LatestFrame keeps the    *)
(* last whole JPEG (latest-frame.ts).  A byte is a symbol of any alphabet. *)
(***************************************************************************)
EXTENDS Naturals, Sequences

CONSTANTS
  Symbols,      \* what a stream consists of
  PartStart,    \* PART_START: where each part of the stream begins
  MaxStream,    \* bound: symbols in a stream
  MaxChunk,     \* bound: symbols in a chunk
  MaxPending    \* LatestFrame.maxPending: symbols kept of a frame still open

ASSUME BoundsAssumption == MaxStream \in Nat /\ MaxChunk \in Nat /\ MaxPending \in Nat
ASSUME PartStartAssumption == PartStart \in Seq(Symbols) /\ PartStart # <<>>

SOI == <<"FF", "D8">>
EOI == <<"FF", "D9">>

VARIABLES
  stream,       \* history: all of it, since the viewer came
  aligned,      \* deliver: the viewer has seen a boundary
  tail,         \* deliver: the tail of the last chunk
  written,      \* deliver: what was written to the viewer
  pending,      \* LatestFrame.pending
  frame         \* LatestFrame.frame, or none

deliverVars == <<aligned, tail, written>>
latestVars == <<pending, frame>>
streamVars == <<stream, deliverVars, latestVars>>

StreamInit ==
  /\ stream = <<>>
  /\ aligned = FALSE /\ tail = <<>> /\ written = <<>>
  /\ pending = <<>> /\ frame = <<>>

(* indexOf, from an index on; 0: not there. *)
Occurs(pattern, data, i) ==
  i + Len(pattern) - 1 <= Len(data) /\ SubSeq(data, i, i + Len(pattern) - 1) = pattern

IndexFrom(pattern, data, from) ==
  LET at == {i \in from..Len(data) : Occurs(pattern, data, i)} IN
  IF at = {} THEN 0 ELSE CHOOSE i \in at : \A j \in at : i <= j

From(data, i) == SubSeq(data, i, Len(data))
LastOf(data, n) == From(data, IF Len(data) > n THEN Len(data) - n + 1 ELSE 1)

-----------------------------------------------------------------------------
(* Faulty variants, used to check that the properties notice them.         *)
(* ShortTail: one symbol less is kept.                                     *)
ShortTail(data) == LastOf(data, Len(PartStart) - 2)

(* FrameCutShort: the end marker is taken for one symbol.                  *)
FrameCutShort(data, start, end) == SubSeq(data, start, end)

(* KeptAnyway: a frame that never ends is kept whole.                      *)
KeptAnyway(rest) == rest

-----------------------------------------------------------------------------
(* What is kept of a chunk without a boundary: all that may begin one. *)
Kept(data) == LastOf(data, Len(PartStart) - 1)

DeliverChunk(chunk) ==
  LET data == tail \o chunk
      at == IndexFrom(PartStart, data, 1) IN
  \/ /\ aligned
     /\ written' = written \o chunk
     /\ UNCHANGED <<aligned, tail>>
  \/ /\ ~aligned /\ at = 0
     /\ tail' = Kept(data)
     /\ UNCHANGED <<aligned, written>>
  \/ /\ ~aligned /\ at # 0
     /\ tail' = <<>>
     /\ aligned' = TRUE
     /\ written' = From(data, at)

FrameAt(data, start, end) == SubSeq(data, start, end + 1)

StillOpen(rest) == IF Len(rest) > MaxPending THEN <<>> ELSE rest

(* One turn of push's loop; what comes before a marker that is there is    *)
(* thrown away, the first half of one that is cut in two as well.          *)
Turn(s) ==
  LET start == IndexFrom(SOI, s.pending, 1)
      end == IndexFrom(EOI, s.pending, start + 2)
  IN CASE ~s.going -> s
       [] s.going /\ start = 0 -> [s EXCEPT !.going = FALSE, !.pending = <<>>]
       [] s.going /\ start # 0 /\ end = 0 ->
            [s EXCEPT !.going = FALSE, !.pending = StillOpen(From(s.pending, start))]
       [] s.going /\ start # 0 /\ end # 0 ->
            [s EXCEPT !.frame = FrameAt(s.pending, start, end), !.pending = From(s.pending, end + 2)]

(* The loop, which ends before it has taken more turns than there are      *)
(* symbols.                                                                *)
Pushed(data, last) ==
  LET Turns[n \in 0..(Len(data) + 1)] ==
        IF n = 0 THEN [going |-> TRUE, pending |-> data, frame |-> last] ELSE Turn(Turns[n - 1])
  IN Turns[Len(data) + 1]

Push(chunk) ==
  LET after == Pushed(pending \o chunk, frame) IN
  /\ pending' = after.pending
  /\ frame' = after.frame

Chunk ==
  \E n \in 1..MaxChunk : \E chunk \in [1..n -> Symbols] :
    /\ Len(stream) + n <= MaxStream
    /\ stream' = stream \o chunk
    /\ DeliverChunk(chunk)
    /\ Push(chunk)

StreamSpec == StreamInit /\ [][Chunk]_streamVars

-----------------------------------------------------------------------------
(* A viewer gets everything from the first boundary of the stream on, and  *)
(* nothing before, however the stream is cut into chunks (proxy.ts:149-157 *)
(* and CTHU-23).                                                           *)
JoinsAtAPart ==
  LET at == IndexFrom(PartStart, stream, 1) IN
  written = IF at = 0 THEN <<>> ELSE From(stream, at)

(* The latest frame is a whole one: a part of the stream from a start to   *)
(* the first end after it.  (Not always the last one: see the README.)     *)
FrameIsWhole ==
  frame # <<>> =>
    \E i \in 1..Len(stream) :
      LET end == IndexFrom(EOI, stream, i + 2) IN
      /\ Occurs(SOI, stream, i) /\ end # 0
      /\ frame = SubSeq(stream, i, end + 1)

(* "A stream that never closes a frame must not grow without bound"        *)
(* (latest-frame.ts:12): between two chunks, no more is kept of it.        *)
PendingIsBounded == Len(pending) <= MaxPending

(* What LatestFrame holds may be handed out, and does not grow. *)
LatestIsRight == FrameIsWhole /\ PendingIsBounded

=============================================================================
