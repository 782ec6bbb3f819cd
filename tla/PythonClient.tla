---------------------------- MODULE PythonClient ----------------------------
(***************************************************************************)
(* mjlib/multiplex/multiplex_protocol.py over mjlib/multiplex/aioserial.py:*)
(* a tunnel that is polled and register requests, with an asyncio.Lock     *)
(* around each exchange.                                                   *)
(*                                                                         *)
(* What the devices send is read in pieces: of every frame two for the     *)
(* header, one for the size, two for the payload and the checksum.         *)
(* External: the devices, the serial port, and the program that uses the   *)
(* client.                                                                 *)
(***************************************************************************)
EXTENDS Registers

CONSTANTS
  ReadSize,    \* what the program asks read() for
  Asked,       \* the register operations the program requests
  Reply,       \* the payload of a device's register reply
  MaxFrames,   \* bound: frames the devices send
  MaxPolls,    \* bound: polls
  MaxWrites    \* bound: calls of write()

VARIABLES
  lock,        \* who holds manager.lock: "none", "poll" or "query"
  phase,       \* what read_frame() reads
  have,        \* pieces of it that AioSerial.read() has got
  result,      \* result of _try_one_poll
  buffered,    \* _read_data of the client
  writeData,   \* _write_data of the manager
  toServer,    \* history: frames written to the port
  frames,      \* history: frames of the devices
  arrived,     \* pieces that came to AioSerial
  consumed,    \* pieces that were taken from AioSerial._read_data
  got,         \* history: bytes that read() returned
  answers,     \* history: what register_query() returned
  polls, writes, cut   \* calls, and whether some answer was cut or taken

vars == <<lock, phase, have, result, buffered, writeData, toServer, frames,
          arrived, consumed, got, answers, polls, writes, cut>>

Pieces == 5

Init ==
  /\ lock = "none" /\ phase = "idle" /\ have = 0 /\ result = <<>>
  /\ buffered = <<>> /\ writeData = <<>> /\ toServer = <<>>
  /\ frames = <<>> /\ arrived = 0 /\ consumed = 0
  /\ got = <<>> /\ answers = <<>> /\ polls = 0 /\ writes = 0 /\ cut = FALSE

-----------------------------------------------------------------------------
(* RegisterRequest and ParseRegisterReply, with the subframe numbers of the *)
(* Python module, which are not those of format.h:73-84.                    *)

kPyWriteSingle == 16
kPyWriteMultiple == 20
kPyReadSingle == 24
kPyReadMultiple == 28
kPyReplySingle == 32
kPyReplyMultiple == 36
kPyErrors == {40, 41}

\* read_single, read_multiple, write_single and write_multiple
PyRequest(op) ==
  CASE op.name = "r" /\ op.n = 1 -> <<kPyReadSingle + op.type>> \o WriteVaruint(op.reg)
    [] op.name = "r" /\ op.n # 1 ->
         <<kPyReadMultiple + op.type>> \o WriteVaruint(op.reg) \o WriteVaruint(op.n)
    [] op.name = "w" /\ op.n = 1 ->
         <<kPyWriteSingle + op.type>> \o WriteVaruint(op.reg) \o WriteValue(op.values[1])
    [] op.name = "w" /\ op.n # 1 ->
         <<kPyWriteMultiple + op.type>> \o WriteVaruint(op.reg) \o WriteVaruint(op.n)
           \o FlattenSeq([i \in 1..op.n |-> WriteValue(op.values[i])])

\* Registers with the same type in a row; a value that is not there whole is
\* a struct.error.
PyValues(type, reg, n, bytes) ==
  LET values == ReadValues(bytes, type, n) IN
    IF Len(values) < n THEN [NotParsed EXCEPT !.values = <<"struct.error">>]
    ELSE Parsed([i \in 1..n |-> <<reg + i - 1, values[i]>>], Rest(bytes, n * SizeOf(type)))

PyParseSubframe(bytes) ==
  LET id == ReadVaruint(bytes)
      reg == ReadVaruint(id.rest)
      second == ReadVaruint(reg.rest)
      base == id.v - (id.v % 4)
  IN IF ~id.ok THEN NotParsed
     ELSE IF id.v \in kPyErrors THEN Parsed(<< <<reg.v, second.v>> >>, second.rest)
     ELSE IF ~reg.ok THEN NotParsed
     ELSE IF base = kPyReplySingle THEN PyValues(id.v % 4, reg.v, 1, reg.rest)
     ELSE IF ~second.ok THEN NotParsed
     ELSE IF base = kPyReplyMultiple THEN PyValues(id.v % 4, reg.v, second.v, second.rest)
     ELSE NotParsed

RECURSIVE PyParseRegisterReply(_)
PyParseRegisterReply(bytes) ==
  LET one == PyParseSubframe(bytes) IN
    IF one.ok THEN one.values \o PyParseRegisterReply(one.rest) ELSE one.values

-----------------------------------------------------------------------------
(* The lock, and what is written *)

\* MultiplexClient.write: a frame for the next drain.
Write ==
  /\ writes < MaxWrites
  /\ writes' = writes + 1
  /\ writeData' = Append(writeData, [kind |-> "data", what |-> <<writes'>>])
  /\ UNCHANGED <<lock, phase, have, result, buffered, toServer, frames, arrived,
                 consumed, got, answers, polls, cut>>

Drain ==
  /\ lock = "none" /\ writeData # <<>>
  /\ toServer' = toServer \o writeData
  /\ writeData' = <<>>
  /\ UNCHANGED <<lock, phase, have, result, buffered, frames, arrived, consumed,
                 got, answers, polls, writes, cut>>

\* register_write: like register_query, without waiting for an answer.
RegisterWrite ==
  /\ lock = "none" /\ writes < MaxWrites
  /\ writes' = writes + 1
  /\ toServer' = toServer \o writeData \o <<[kind |-> "data", what |-> <<writes'>>]>>
  /\ writeData' = <<>>
  /\ UNCHANGED <<lock, phase, have, result, buffered, frames, arrived, consumed,
                 got, answers, polls, cut>>

RegisterQuery ==
  /\ lock = "none" /\ answers = <<>>
  /\ lock' = "query" /\ phase' = "header" /\ have' = 0
  /\ toServer' = toServer \o writeData
       \o <<[kind |-> "query",
             what |-> FlattenSeq([i \in DOMAIN Asked |-> PyRequest(Asked[i])])]>>
  /\ writeData' = <<>>
  /\ UNCHANGED <<result, buffered, frames, arrived, consumed, got, answers, polls,
                 writes, cut>>

-----------------------------------------------------------------------------
(* MultiplexClient.read *)

\* _try_one_poll, up to the first read_frame().
TryOnePoll ==
  /\ lock = "none" /\ polls < MaxPolls /\ Len(buffered) < ReadSize
  /\ polls' = polls + 1
  /\ lock' = "poll" /\ phase' = "header" /\ have' = 0 /\ result' = <<>>
  /\ toServer' = Append(toServer, [kind |-> "poll", what |-> <<>>])
  /\ UNCHANGED <<buffered, writeData, frames, arrived, consumed, got, answers, writes, cut>>

ReadReturns ==
  /\ lock # "poll" /\ Len(buffered) >= ReadSize
  /\ got' = got \o SubSeq(buffered, 1, ReadSize)
  /\ buffered' = Rest(buffered, ReadSize)
  /\ UNCHANGED <<lock, phase, have, result, writeData, toServer, frames, arrived,
                 consumed, answers, polls, writes, cut>>

\* Fault: what was read before the timeout is dropped.
EndPollEmpty(more) ==
  /\ buffered' = buffered \o more
  /\ lock' = "none" /\ phase' = "idle" /\ have' = 0 /\ result' = <<>>
  /\ UNCHANGED answers

\* The loop ends: its result, and more, is added to what read() has.
EndPoll(more) ==
  /\ buffered' = buffered \o result \o more
  /\ lock' = "none" /\ phase' = "idle" /\ have' = 0 /\ result' = <<>>
  /\ UNCHANGED answers

EndQuery(answer) ==
  /\ answers' = Append(answers, answer)
  /\ lock' = "none" /\ phase' = "idle" /\ have' = 0
  /\ UNCHANGED <<buffered, result>>

\* A TimeoutError: of a poll it ends the loop, of a query it is raised.
EndFrame == IF lock = "poll" THEN EndPoll(<<>>) ELSE EndQuery("TimeoutError")

Continue(next, n) ==
  /\ phase' = next /\ have' = n
  /\ UNCHANGED <<lock, result, buffered, answers>>

\* A frame is complete: a poll ends with one of another device or service.
HandleFrame(frame) ==
  IF lock = "query"
  THEN /\ EndQuery(IF frame.kind = "register" THEN PyParseRegisterReply(frame.bytes) ELSE <<>>)
       /\ cut' = (cut \/ frame.kind = "tunnel")
  ELSE IF ~frame.mine \/ frame.kind # "tunnel" THEN EndPoll(<<>>) /\ UNCHANGED cut
  ELSE /\ result' = result \o frame.bytes
       /\ phase' = "header" /\ have' = 0
       /\ UNCHANGED <<lock, buffered, answers, cut>>

\* What AioSerial has is taken for the current read of read_frame; a header
\* that is none drops everything that has come.
ReadFrame ==
  LET need == IF phase = "size" THEN 1 ELSE 2
      there == arrived - consumed
      n == IF need - have < there THEN need - have ELSE there
      synchronised == (consumed + n) % Pieces = 2
  IN /\ lock # "none" /\ phase # "resync" /\ there > 0
     /\ IF have + n < need
        THEN consumed' = consumed + n /\ Continue(phase, have + n) /\ UNCHANGED cut
        ELSE CASE phase = "header" /\ synchronised ->
                    consumed' = consumed + n /\ Continue("size", 0) /\ UNCHANGED cut
               [] phase = "header" /\ ~synchronised /\ n < there ->
                    consumed' = arrived /\ EndFrame /\ cut' = TRUE
               [] phase = "header" /\ ~synchronised /\ n = there ->
                    consumed' = consumed + n /\ Continue("resync", 0) /\ cut' = TRUE
               [] phase = "size" ->
                    consumed' = consumed + n /\ Continue("rest", 0) /\ UNCHANGED cut
               [] phase = "rest" ->
                    /\ consumed' = consumed + n
                    /\ HandleFrame(frames[consumed' \div Pieces])
     /\ UNCHANGED <<writeData, toServer, frames, arrived, got, polls, writes>>

\* The read of 8192 bytes that does not block waits for the first ones.
Resync ==
  /\ phase = "resync" /\ arrived > consumed
  /\ consumed' = arrived
  /\ EndFrame
  /\ UNCHANGED <<writeData, toServer, frames, arrived, got, polls, writes, cut>>

\* wait_for cancels the read where it waits for more; what it has is lost.
Timeout ==
  /\ lock = "poll" /\ arrived = consumed
  /\ cut' = (cut \/ consumed % Pieces # 0)
  /\ EndPoll(<<>>)
  /\ UNCHANGED <<writeData, toServer, frames, arrived, consumed, got, polls, writes>>

-----------------------------------------------------------------------------
(* The devices *)

CountOf(s, P(_)) == Len(SelectSeq(s, P))

TunnelBytes ==
  FlattenSeq([i \in DOMAIN frames |->
                IF frames[i].kind = "tunnel" /\ frames[i].mine THEN frames[i].bytes ELSE <<>>])

\* A poll is answered with the next n bytes, a query with the reply; another
\* device may answer late.
DeviceSends(frame) ==
  /\ Len(frames) < MaxFrames
  /\ frames' = Append(frames, frame)
  /\ UNCHANGED <<lock, phase, have, result, buffered, writeData, toServer, arrived,
                 consumed, got, answers, polls, writes, cut>>

AnswerPoll(n) ==
  /\ CountOf(frames, LAMBDA f : f.mine /\ f.kind = "tunnel") < polls
  /\ DeviceSends([mine |-> TRUE, kind |-> "tunnel",
                  bytes |-> [i \in 1..n |-> Len(TunnelBytes) + i]])

AnswerQuery ==
  /\ CountOf(toServer, LAMBDA f : f.kind = "query") >
       CountOf(frames, LAMBDA f : f.kind = "register")
  /\ DeviceSends([mine |-> TRUE, kind |-> "register", bytes |-> Reply])

OtherAnswers == DeviceSends([mine |-> FALSE, kind |-> "tunnel", bytes |-> <<0>>])

HandleRead ==
  /\ \E n \in (arrived + 1)..(Pieces * Len(frames)) : arrived' = n
  /\ UNCHANGED <<lock, phase, have, result, buffered, writeData, toServer, frames,
                 consumed, got, answers, polls, writes, cut>>

Next ==
  \/ Write \/ Drain \/ RegisterWrite \/ RegisterQuery
  \/ TryOnePoll \/ ReadReturns
  \/ ReadFrame \/ Resync \/ Timeout
  \/ \E n \in 0..2 : AnswerPoll(n)
  \/ AnswerQuery \/ OtherAnswers \/ HandleRead

Spec == Init /\ [][Next]_vars

-----------------------------------------------------------------------------
\* The program is given the bytes of its device's tunnel in order and none
\* twice, through polls that time out and whose answers come with the next
\* one; none is lost but by a timeout within a frame or by a query that takes
\* the answer of a poll.  What the program writes is sent once and in order.
PythonTunnel ==
  LET read == got \o buffered \o result
      whole == [i \in 1..(consumed \div Pieces) |-> frames[i]]
      mine == SelectSeq(whole, LAMBDA f : f.mine /\ f.kind = "tunnel")
      data == SelectSeq(toServer \o writeData, LAMBDA f : f.kind = "data")
  IN /\ \A i, j \in DOMAIN read : i < j => read[i] < read[j]
     /\ ~cut => read = FlattenSeq([i \in DOMAIN mine |-> mine[i].bytes])
     /\ data = [i \in 1..writes |-> [kind |-> "data", what |-> <<i>>]]
=============================================================================
