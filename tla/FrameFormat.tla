----------------------------- MODULE FrameFormat -----------------------------
(***************************************************************************)
(* mjlib/multiplex: the frames of the multiplex protocol as bytes.  They   *)
(* are written by Frame::encode (frame.cc) on the client and by            *)
(* MicroStreamDatagram::AsyncWrite on the servers, with the same layout.   *)
(*                                                                         *)
(* A byte on the line is a record: its value v, and the message and the    *)
(* position in its frame it comes from (message 0 for noise), which only   *)
(* the CRC looks at: a CRC is taken to tell a frame from everything else.  *)
(* Base stands for the 128 of the varuint encoding.                        *)
(***************************************************************************)
EXTENDS Integers, Sequences, FiniteSets, FiniteSetsExt

CONSTANTS
  Messages,     \* the messages of the peer: [source, dest, payload, crc]
  Base,         \* 128: a byte below it ends a varuint
  Width,        \* 2^32: sizes are uint32_t
  Low, High     \* the two bytes of kHeader

ASSUME BytesAssumption ==
  /\ Base \in Nat \ {0, 1}
  /\ Width \in Nat \ {0, 1}
  /\ Low \in 0..(Base - 1)
  /\ High \in Base..(2 * Base - 1)

Byte == 0..(2 * Base - 1)

\* The size field of a message takes at most two bytes; a CRC is a uint16_t.
ASSUME MessagesAssumption ==
  /\ Messages \in Seq([source : Byte, dest : Byte, payload : Seq(Byte), crc : Byte \X Byte])
  /\ \A k \in DOMAIN Messages : Len(Messages[k].payload) < Base * Base
                                /\ Len(Messages[k].payload) < Width

\* WriteVaruint of a size that takes at most two bytes
Varuint(n) == IF n < Base THEN <<n>> ELSE <<Base + (n % Base), n \div Base>>

Values(m) ==
  <<Low, High, m.source, m.dest>> \o Varuint(Len(m.payload)) \o m.payload \o m.crc

\* The bytes of message number k as they leave the peer.
Frame(k) ==
  LET values == Values(Messages[k]) IN
    [i \in DOMAIN values |-> [v |-> values[i], frame |-> k, pos |-> i]]

\* Bytes that belong to no message.
Noise(values) ==
  [i \in DOMAIN values |-> [v |-> values[i], frame |-> 0, pos |-> 0]]

\* ReadVaruint: <<value, bytes used>>, or <<>> if there are not enough bytes.
\* After five bytes that all ask for more, the value is the largest one.
ReadVaruint(bytes) ==
  LET ends == {i \in DOMAIN bytes : i <= 5 /\ bytes[i].v < Base}
      n == Min(ends)
      digit(i) == IF i <= n THEN bytes[i].v % Base ELSE 0
      sum == digit(1) + Base * (digit(2) + Base * (digit(3) + Base * (digit(4)
               + Base * digit(5))))
  IN IF ends # {} THEN <<sum % Width, n>>
     ELSE IF Len(bytes) >= 5 THEN <<Width - 1, 5>>
     ELSE <<>>

\* The bytes that are left when n are consumed.
Consume(bytes, n) == SubSeq(bytes, n + 1, Len(bytes))

\* Fault: the CRC is left out of the length.
FrameLengthShort(size) == 4 + size[2] + size[1]

\* Header and ids, the size field, the payload and the CRC.
FrameLength(size) == 4 + size[2] + size[1] + 2

\* Fault: the CRC is not compared.
CrcIgnored(bytes) == TRUE

\* The CRC matches: the bytes are one frame of the peer, whole and unbroken.
CrcMatches(bytes) ==
  /\ bytes[1].frame # 0
  /\ bytes = Frame(bytes[1].frame)
=============================================================================
