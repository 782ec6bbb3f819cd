------------------------------ MODULE Registers ------------------------------
(***************************************************************************)
(* mjlib/multiplex: the subframes of the register and tunnel services      *)
(* (format.h), how a client builds a request and reads a reply             *)
(* (register.cc) over the integer codecs of stream.h.  Bytes are numbers,  *)
(* a value is [type, v] with v its bit pattern as a natural number.        *)
(***************************************************************************)
EXTENDS Integers, Sequences, SequencesExt, FiniteSetsExt

kWriteBase == 0
kReadBase == 16
kReplyBase == 32
kWriteError == 48
kReadError == 49
kClientToServer == 64
kServerToClient == 65
kClientPollServer == 66
kNop == 80

Rest(bytes, n) == SubSeq(bytes, n + 1, Len(bytes))

\* What a Read of the stream returns: an optional value, and what is left.
Got(v, rest) == [ok |-> TRUE, v |-> v, rest |-> rest]
NotGot == [ok |-> FALSE, v |-> 0, rest |-> <<>>]

\* Fault: the bytes of a number are written most significant first.
WriteVaruintSwapped(n) == IF n < 128 THEN <<n>> ELSE <<128 + n \div 128, n % 128>>

\* WriteVaruint of a number below 2^14
WriteVaruint(n) == IF n < 128 THEN <<n>> ELSE <<128 + (n % 128), n \div 128>>

\* ReadVaruint: at most five bytes, the last of which is below 128; five
\* that all ask for more read as maxint.
ReadVaruint(bytes) ==
  LET ends == {i \in DOMAIN bytes : i <= 5 /\ bytes[i] < 128}
      n == Min(ends)
  IN IF ends # {}
     THEN Got(MapThenSumSet(LAMBDA i : (bytes[i] % 128) * 128 ^ (i - 1), 1..n),
              Rest(bytes, n))
     ELSE IF Len(bytes) >= 5 THEN Got(2 ^ 31 - 1, Rest(bytes, 5))
     ELSE NotGot

\* sizeof the alternatives of Format::Value
SizeOf(type) == <<1, 2, 4, 4>>[type + 1]

WriteValue(value) ==
  [i \in 1..SizeOf(value.type) |-> (value.v \div 256 ^ (i - 1)) % 256]

ReadValue(bytes, type) ==
  IF Len(bytes) < SizeOf(type) THEN NotGot
  ELSE Got([type |-> type,
            v |-> MapThenSumSet(LAMBDA i : bytes[i] * 256 ^ (i - 1), 1..SizeOf(type))],
           Rest(bytes, SizeOf(type)))

\* As many of the n values as are there whole.
ReadValues(bytes, type, n) ==
  LET there == Len(bytes) \div SizeOf(type)
      count == IF n < there THEN n ELSE there
  IN [i \in 1..count |-> ReadValue(Rest(bytes, (i - 1) * SizeOf(type)), type).v]

-----------------------------------------------------------------------------
(* RegisterRequest *)

EmptyRequest == [reply |-> FALSE, buffer |-> <<>>]

ExpectResponse(request, value) == [request EXCEPT !.reply = value]

EncodedLength(n) == IF n < 4 THEN n ELSE 0

\* The number of registers is in the subframe's id, or follows it.
Count(n) == IF EncodedLength(n) = 0 THEN WriteVaruint(n) ELSE <<>>

ReadSingle(request, reg, type) ==
  [reply |-> TRUE,
   buffer |-> request.buffer
     \o WriteVaruint(kReadBase + type * 4 + 1) \o WriteVaruint(reg)]

ReadMultiple(request, reg, n, type) ==
  [reply |-> TRUE,
   buffer |-> request.buffer
     \o WriteVaruint(kReadBase + type * 4 + EncodedLength(n)) \o Count(n)
     \o WriteVaruint(reg)]

WriteSingle(request, reg, value) ==
  [request EXCEPT !.buffer = @
     \o WriteVaruint(kWriteBase + value.type * 4 + 1) \o WriteVaruint(reg)
     \o WriteValue(value)]

WriteMultiple(request, reg, values) ==
  [request EXCEPT !.buffer = @
     \o WriteVaruint(kWriteBase + values[1].type * 4 + EncodedLength(Len(values)))
     \o Count(Len(values)) \o WriteVaruint(reg)
     \o FlattenSeq([i \in DOMAIN values |-> WriteValue(values[i])])]

-----------------------------------------------------------------------------
(* ParseRegisterReply *)

Parsed(values, rest) == [ok |-> TRUE, values |-> values, rest |-> rest]
NotParsed == [ok |-> FALSE, values |-> <<>>, rest |-> <<>>]

\* The reply subframe id: registers in a row.
ParseReply(id, bytes) ==
  LET type == (id - kReplyBase) \div 4
      n == IF id % 4 = 0 THEN ReadVaruint(bytes) ELSE Got(id % 4, bytes)
      start == ReadVaruint(n.rest)
      values == ReadValues(start.rest, type, n.v)
  IN IF ~n.ok \/ ~start.ok \/ Len(values) < n.v THEN NotParsed
     ELSE Parsed([i \in 1..n.v |-> <<start.v + i - 1, values[i]>>],
                 Rest(start.rest, n.v * SizeOf(type)))

ParseError(bytes) ==
  LET reg == ReadVaruint(bytes)
      err == ReadVaruint(reg.rest)
  IN IF reg.ok /\ err.ok THEN Parsed(<< <<reg.v, err.v>> >>, err.rest)
     ELSE NotParsed

ParseSubframe(bytes) ==
  LET id == ReadVaruint(bytes) IN
    IF ~id.ok THEN NotParsed
    ELSE IF id.v \in kReplyBase..(kReplyBase + 15) THEN ParseReply(id.v, id.rest)
    ELSE IF id.v \in {kWriteError, kReadError} THEN ParseError(id.rest)
    ELSE NotParsed

RECURSIVE ParseRegisterReply(_)
ParseRegisterReply(bytes) ==
  LET one == ParseSubframe(bytes) IN
    IF one.ok THEN one.values \o ParseRegisterReply(one.rest) ELSE <<>>
=============================================================================
