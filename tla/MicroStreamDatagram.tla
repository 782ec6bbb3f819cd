------------------------- MODULE MicroStreamDatagram -------------------------
(***************************************************************************)
(* mjlib/multiplex/micro_stream_datagram.cc: frames over a byte stream.    *)
(* A peer writes frames with AsyncWrite; the line may lose or insert bytes *)
(* and hands them over in pieces of any size; the receiver assembles them  *)
(* in read_buffer_ and gives one frame to each AsyncRead.                  *)
(***************************************************************************)
EXTENDS FrameFormat, SequencesExt

CONSTANTS
  BufferSize,   \* options.buffer_size
  UserSize,     \* size of the buffer each AsyncRead is given
  NoiseBytes,   \* values of the bytes the line may insert
  MaxFaults     \* bound: bytes inserted or lost, and errors of the stream

ASSUME BufferAssumption ==
  /\ BufferSize \in Nat /\ BufferSize > 7
  /\ {UserSize, MaxFaults} \subseteq Nat
  /\ NoiseBytes \subseteq Byte

VARIABLES
  sent,        \* messages the peer has written
  line,        \* bytes on their way
  buffer,      \* read_buffer_[0 .. read_start_ - 1]
  callback,    \* current_read_callback_ is set
  reading,     \* an AsyncReadSome of the stream is outstanding
  got,         \* what the callbacks of AsyncRead were given
  mismatch,    \* stats_.checksum_mismatch
  faults       \* faults of the line so far

vars == <<sent, line, buffer, callback, reading, got, mismatch, faults>>

-----------------------------------------------------------------------------
(* TryEmitOneFrame, lines 152-276 *)

\* What the frame bytes, with a size field of n bytes, tell the user.
Emitted(bytes, n, size) ==
  LET written == IF size < UserSize THEN size ELSE UserSize IN
    [source |-> bytes[3].v,
     dest |-> bytes[4].v,
     size |-> size,
     data |-> [i \in 1..written |-> bytes[4 + n + i].v],
     ec |-> IF size > written THEN "kPayloadTruncated" ELSE "ok",
     frame |-> bytes[1].frame]

Waits(bytes) == [ret |-> FALSE, buffer |-> bytes, emit |-> <<>>, bad |-> 0]

\* Once the buffer starts with the header.
TryFrame(bytes) ==
  LET size == ReadVaruint(Consume(bytes, 4))
      length == FrameLength(size)
  IN IF Len(bytes) < 7 THEN Waits(bytes)
     ELSE IF size = <<>> THEN Waits(bytes)
     ELSE IF size[1] > 4096 \/ size[1] > BufferSize - 7 THEN Waits(<<>>)
     ELSE IF Len(bytes) < length THEN Waits(bytes)
     ELSE IF ~CrcMatches(SubSeq(bytes, 1, length))
     THEN [Waits(Consume(bytes, 2)) EXCEPT !.bad = 1]
     ELSE [ret |-> TRUE, buffer |-> Consume(bytes, length),
           emit |-> <<Emitted(bytes, size[2], size[1])>>, bad |-> 0]

TryEmitOneFrame(bytes) ==
  LET starts == {i \in DOMAIN bytes : bytes[i].v = Low}
      rest == Consume(bytes, Min(starts) - 1)
  IN IF starts = {} THEN Waits(<<>>)
     ELSE IF Len(rest) < 2 THEN Waits(rest)
     ELSE IF rest[2].v # High
     THEN [Waits(Consume(rest, 2)) EXCEPT !.ret = TRUE]
     ELSE TryFrame(rest)

-----------------------------------------------------------------------------
Init ==
  /\ sent = 0
  /\ line = <<>>
  /\ buffer = <<>>
  /\ callback = FALSE
  /\ reading = FALSE
  /\ got = <<>>
  /\ mismatch = 0
  /\ faults = 0

\* The end of AsyncRead and of HandleReadFrame: the callback is invoked if
\* a frame was emitted, more is read unless TryEmitOneFrame returned true.
Process(bytes) ==
  \E try \in {TryEmitOneFrame(bytes)} :
    /\ buffer' = try.buffer
    /\ got' = got \o try.emit
    /\ callback' = (try.emit = <<>>)
    /\ reading' = ~try.ret
    /\ mismatch' = mismatch + try.bad

\* Fault: what is in the buffer already is not looked at.
AsyncReadOnlyStarts ==
  /\ ~callback
  /\ callback' = TRUE
  /\ reading' = TRUE
  /\ UNCHANGED <<sent, line, buffer, got, mismatch, faults>>

AsyncRead ==
  /\ ~callback
  /\ Process(buffer)
  /\ UNCHANGED <<sent, line, faults>>

\* StartReadFrame(): the bytes a read of the stream may put behind the others.
StartReadFrame == BufferSize - Len(buffer)

\* The stream completes the read with some of the bytes.
HandleReadFrame ==
  /\ reading
  /\ \E n \in 1..Len(line) :
       /\ n <= StartReadFrame
       /\ Process(buffer \o SubSeq(line, 1, n))
       /\ line' = Consume(line, n)
  /\ UNCHANGED <<sent, faults>>

\* The stream completes the read with an error.
HandleReadError ==
  /\ reading
  /\ faults < MaxFaults
  /\ faults' = faults + 1
  /\ buffer' = <<>>
  /\ callback' = FALSE
  /\ reading' = FALSE
  /\ got' = Append(got, [ec |-> "error", frame |-> 0])
  /\ UNCHANGED <<sent, line, mismatch>>

\* The peer's AsyncWrite of its next message.
AsyncWrite ==
  /\ sent < Len(Messages)
  /\ sent' = sent + 1
  /\ line' = line \o Frame(sent')
  /\ UNCHANGED <<buffer, callback, reading, got, mismatch, faults>>

\* The line inserts or loses a byte.
LineInserts ==
  /\ faults < MaxFaults
  /\ faults' = faults + 1
  /\ \E v \in NoiseBytes, n \in 0..Len(line) :
       line' = SubSeq(line, 1, n) \o Noise(<<v>>)
                 \o Consume(line, n)
  /\ UNCHANGED <<sent, buffer, callback, reading, got, mismatch>>

LineLoses ==
  /\ faults < MaxFaults
  /\ faults' = faults + 1
  /\ \E n \in DOMAIN line : line' = RemoveAt(line, n)
  /\ UNCHANGED <<sent, buffer, callback, reading, got, mismatch>>

Next ==
  \/ AsyncRead
  \/ HandleReadFrame
  \/ HandleReadError
  \/ AsyncWrite
  \/ LineInserts
  \/ LineLoses

Spec == Init /\ [][Next]_vars

-----------------------------------------------------------------------------
TypeOK ==
  /\ sent \in 0..Len(Messages)
  /\ {callback, reading} \subseteq BOOLEAN
  /\ Len(buffer) <= BufferSize
  /\ mismatch \in Nat
  /\ faults \in 0..MaxFaults

\* What the callback of AsyncRead is due for message m.
Due(m) ==
  LET n == IF Len(m.payload) < UserSize THEN Len(m.payload) ELSE UserSize IN
    [source |-> m.source, dest |-> m.dest, size |-> Len(m.payload),
     data |-> SubSeq(m.payload, 1, n),
     ec |-> IF n < Len(m.payload) THEN "kPayloadTruncated" ELSE "ok"]

\* The calls of the owner's callback that gave it a frame.
Delivered == {i \in DOMAIN got : got[i].frame # 0}

\* Whatever the line does, the frames given to the owner are messages of the
\* peer, in order, none twice, with the ids and the payload that were sent.
FramesAsSent ==
  /\ \A i, j \in Delivered : i < j => got[i].frame < got[j].frame
  /\ \A i \in Delivered :
       LET g == got[i] IN
         /\ g.frame \in 1..sent
         /\ [source |-> g.source, dest |-> g.dest, size |-> g.size,
             data |-> g.data, ec |-> g.ec] = Due(Messages[g.frame])

\* Whatever the line does, frames arrive as they were sent; and on a line
\* without faults no checksum fails: payload bytes that look like a header
\* never start a frame of their own.
DeliveredAsSent == FramesAsSent /\ (mismatch > 0 => faults > 0)

\* Line 151: "Return true if we successfully emitted one frame."  If it did
\* not, another read is started: an owner that waits is never left without
\* a read of the stream.
WaitingMeansReading == callback => reading

\* On a line without faults nothing is held back: when an owner waits and
\* the line is empty, all that was sent has been delivered, however the
\* stream cut the bytes.
NothingHeldBack ==
  faults = 0 /\ callback /\ line = <<>> => {got[i].frame : i \in Delivered} = 1..sent
=============================================================================
