----------------------------- MODULE MicroServer -----------------------------
(***************************************************************************)
(* mjlib/multiplex/micro_server.cc: a server executes the subframes of the *)
(* frames it is given and answers them, with one response outstanding at a *)
(* time, and carries byte streams ("tunnels") in them.                     *)
(*                                                                         *)
(* External: the client, which builds its requests with the operations of  *)
(* Registers; the datagram layer; the application (the Server interface    *)
(* and the owners of the tunnels).                                         *)
(***************************************************************************)
EXTENDS Registers, FiniteSets

CONSTANTS
  Id,             \* config_.id
  WriteActionOf,  \* WriteActionOf[reg]: what Server::Write returns
  Readable,       \* registers Server::Read knows
  WriteValues,    \* values the client writes
  Types,          \* type indices the client uses
  Lengths,        \* numbers of registers in one subframe
  Channels,       \* channels for which MakeTunnel is called
  NumTunnels,     \* options.max_tunnel_streams
  TunnelSize,     \* sizeof(TunnelStream::read_data_)
  Rooms, Chunks,  \* sizes of what is read, and written, in a tunnel
  BufferSize,     \* options.buffer_size
  MaxSize,        \* datagram_properties_.max_size
  MaxOps,         \* bound: register operations in a frame
  Budgets         \* bounds: what the client and the owner do

VARIABLES
  started,                 \* Start() was called
  readOutstanding, writeOutstanding,
  anythingToDo,            \* anything_to_do_
  tunnels,                 \* tunnels_, with the histories of each
  regs,                    \* the application's registers
  stats,                   \* stats_
  budget,                  \* what they may still do
  last                     \* history: what the frame of this step did

serverVars == <<started, readOutstanding, writeOutstanding, anythingToDo,
                tunnels, regs, stats>>
vars == <<serverVars, budget, last>>

kBroadcastId == 127

\* kMaxVaruintSize + kCrcSize + kExtraPadding
kNeededOverhead == 5 + 2 + 16

\* TunnelStream: read_data_, the sizes of read_buffer_ and the bytes of
\* write_buffer_; then the bytes stored, given to the reader, reported to
\* the writer, and sent in a response.
NoTunnel ==
  [id |-> 0, data |-> <<>>, room |-> 0, out |-> <<>>,
   stored |-> <<>>, given |-> <<>>, written |-> <<>>, sent |-> <<>>]

NoFrame ==
  [ops |-> <<>>, answered |-> TRUE, writes |-> <<>>, out |-> <<>>,
   before |-> <<>>, whole |-> TRUE]

NoStats ==
  [wrong_id |-> 0, receive_overrun |-> 0, unknown_subframe |-> 0,
   missing_subframe |-> 0, malformed_subframe |-> 0, write_error |-> 0,
   discards |-> 0]

Init ==
  /\ started = FALSE /\ readOutstanding = FALSE /\ writeOutstanding = FALSE
  /\ anythingToDo = FALSE
  /\ tunnels = [i \in 1..NumTunnels |-> NoTunnel]
  /\ regs = [r \in DOMAIN WriteActionOf \cup Readable |-> 0]
  /\ stats = NoStats
  /\ budget \in Budgets
  /\ last = NoFrame

-----------------------------------------------------------------------------
(* The owner of the server and of its tunnels *)

Spend(kind) ==
  budget[kind] > 0 /\ budget' = [budget EXCEPT ![kind] = @ - 1]

MakeTunnel(id) ==
  /\ Spend("owner")
  /\ \A i \in DOMAIN tunnels : tunnels[i].id # id
  /\ \E i \in DOMAIN tunnels :
       /\ tunnels[i].id = 0
       /\ \A j \in 1..(i - 1) : tunnels[j].id # 0
       /\ tunnels' = [tunnels EXCEPT ![i].id = id]
  /\ last' = NoFrame
  /\ UNCHANGED <<started, readOutstanding, writeOutstanding,
                 anythingToDo, regs, stats>>

Start ==
  /\ ~started
  /\ started' = TRUE
  /\ readOutstanding' = TRUE
  /\ last' = NoFrame
  /\ UNCHANGED <<writeOutstanding, anythingToDo, tunnels, regs,
                 stats, budget>>

AsyncReadSome(i, size) ==
  /\ Spend("owner")
  /\ tunnels[i].id # 0 /\ tunnels[i].room = 0
  /\ tunnels' = [tunnels EXCEPT ![i].room = size]
  /\ anythingToDo' = (anythingToDo \/ tunnels[i].data # <<>>)
  /\ last' = NoFrame
  /\ UNCHANGED <<started, readOutstanding, writeOutstanding,
                 regs, stats>>

\* The owner writes the bytes that follow those it was told are written.
AsyncWriteSome(i, size) ==
  /\ Spend("owner")
  /\ tunnels[i].id # 0 /\ tunnels[i].out = <<>>
  /\ tunnels' = [tunnels EXCEPT ![i].out =
                   [k \in 1..size |-> Len(tunnels[i].written) + k]]
  /\ last' = NoFrame
  /\ UNCHANGED <<started, readOutstanding, writeOutstanding,
                 anythingToDo, regs, stats>>

Least(a, b) == IF a < b THEN a ELSE b

\* How much DoReadTransfer copies into the reader's buffer; 0: it does nothing.
Transfer(t) == Least(t.room, Len(t.data))

\* Fault: what was copied is not removed.
DoReadTransferKeeps(t) ==
  IF Transfer(t) = 0 THEN t
  ELSE [t EXCEPT !.room = 0, !.given = @ \o SubSeq(t.data, 1, Transfer(t))]

DoReadTransfer(t) ==
  IF Transfer(t) = 0 THEN t
  ELSE [t EXCEPT !.data = Rest(t.data, Transfer(t)), !.room = 0,
                 !.given = @ \o SubSeq(t.data, 1, Transfer(t))]

\* Fault: one tunnel that has nothing to do makes Poll forget the others.
StillToDoAll == \A i \in DOMAIN tunnels : Transfer(tunnels[i]) > 0

\* Whether any DoReadTransfer of Poll returns true.
StillToDo == \E i \in DOMAIN tunnels : Transfer(tunnels[i]) > 0

\* A reader that is served may read again from its callback.
Poll ==
  /\ anythingToDo
  /\ \E again \in SUBSET {i \in DOMAIN tunnels : Transfer(tunnels[i]) > 0},
       size \in Rooms :
       tunnels' = [i \in DOMAIN tunnels |->
         [DoReadTransfer(tunnels[i]) EXCEPT !.room = IF i \in again THEN size ELSE @]]
  /\ anythingToDo' = StillToDo
  /\ last' = NoFrame
  /\ UNCHANGED <<started, readOutstanding, writeOutstanding,
                 regs, stats, budget>>

-----------------------------------------------------------------------------
(* Subframes.  p is what ProcessSubframes works on: the bytes left, the    *)
(* response (when there is one to make), the tunnels, the registers, the   *)
(* statistics, the histories; "more" tells whether to go on.               *)

Counted(p, stat) == [p EXCEPT !.stats[stat] = @ + 1]
Stop(p) == [p EXCEPT !.more = FALSE]
Malformed(p) == Stop(Counted(p, "malformed_subframe"))

\* Respond only if there is a response_stream.
Respond(p, bytes) == IF p.respond THEN [p EXCEPT !.out = @ \o bytes] ELSE p

FindTunnel(p, id) ==
  LET found == {i \in DOMAIN p.tunnels : p.tunnels[i].id = id}
  IN IF found = {} THEN 0 ELSE Min(found)

\* kServerToClient with at most "limit" of the bytes the owner of tunnel i
\* has, who is told how many they were.
ServerToClient(p, i, limit) ==
  LET head == Respond(p, <<kServerToClient>> \o WriteVaruint(p.tunnels[i].id))
      room == BufferSize - Len(head.out) - kNeededOverhead
      n == Least(Least(MaxSize - kNeededOverhead, limit),
                 Least(Len(p.tunnels[i].out), room))
      bytes == SubSeq(p.tunnels[i].out, 1, n)
  IN IF ~p.respond THEN p
     ELSE [Respond(head, WriteVaruint(n) \o bytes) EXCEPT
             !.tunnels[i].out = IF n > 0 THEN <<>> ELSE @,
             !.tunnels[i].written = @ \o bytes]

\* Two numbers in a row, and what follows them.
Two(first, second) ==
  [ok |-> first.ok /\ second.ok, first |-> first.v, second |-> second.v, rest |-> second.rest]
AndNext(first) == Two(first, ReadVaruint(first.rest))
ReadTwo(bytes) == AndNext(ReadVaruint(bytes))

\* All of the data, or none of it if it does not fit.
Store(p, i, size, bytes) ==
  IF size <= TunnelSize - Len(p.tunnels[i].data)
  THEN [p EXCEPT !.in = Rest(bytes, size),
                 !.tunnels[i].data = @ \o SubSeq(bytes, 1, size),
                 !.tunnels[i].stored = @ \o SubSeq(bytes, 1, size)]
  ELSE [Counted(p, "receive_overrun") EXCEPT !.in = bytes]

\* The numbers of h are the channel and the size.
ClientToServer(p, i, h) ==
  IF ~h.ok \/ Len(h.rest) < h.second \/ i = 0 THEN Malformed(p)
  ELSE ServerToClient([Store(p, i, h.second, h.rest) EXCEPT
                         !.tunnels[i] = DoReadTransfer(@), !.todo = TRUE], i, MaxSize)

ProcessSubframeClientToServer(p) ==
  LET h == ReadTwo(p.in) IN ClientToServer(p, FindTunnel(p, h.first), h)

\* They are the channel and the most the client takes.
ClientPollServer(p, i, h) ==
  IF ~h.ok \/ i = 0 THEN Malformed(p)
  ELSE ServerToClient([p EXCEPT !.in = h.rest], i, h.second)

ProcessSubframeClientPollServer(p) ==
  LET h == ReadTwo(p.in) IN ClientPollServer(p, FindTunnel(p, h.first), h)

\* The number of registers and the first of them.
Header(id, bytes) == IF id % 4 = 0 THEN ReadTwo(bytes) ELSE AndNext(Got(id % 4, bytes))

\* Server::Write, and the error it makes the server report.
WriteOne(p, reg, value) ==
  LET action == IF reg \in DOMAIN WriteActionOf THEN WriteActionOf[reg]
                ELSE "kUnknownRegister"
      asked == [p EXCEPT !.writes = Append(@, <<reg, value>>)]
  IN CASE action = "kUnknownRegister" ->
            Respond(asked, <<kWriteError>> \o WriteVaruint(reg) \o <<1>>)
       [] action = "kNotWriteable" ->
            Respond(asked, <<kWriteError>> \o WriteVaruint(reg) \o <<2>>)
       [] action = "kDiscardRemaining" -> Stop(Counted(asked, "discards"))
       [] action = "kSuccess" -> [asked EXCEPT !.regs[reg] = value.v]

\* The values are written in order; one that discards the rest stops it.
WriteAll(p, start, values) ==
  FoldLeft(LAMBDA q, k : IF q.more THEN WriteOne(q, start + k - 1, values[k]) ELSE q,
           p, [k \in DOMAIN values |-> k])

Written(p, missing) == IF p.more /\ missing THEN Malformed(p) ELSE p

\* The numbers of h are those of Header, here and below.
WriteRegisters(p, h, type, values) ==
  Written(WriteAll([p EXCEPT !.in = Rest(h.rest, h.first * SizeOf(type))], h.second, values),
          Len(values) < h.first)

ProcessSubframeWrite(p, id) ==
  LET h == Header(id, p.in) IN
    IF ~h.ok THEN Malformed(p)
    ELSE WriteRegisters(p, h, id \div 4, ReadValues(h.rest, id \div 4, h.first))

\* An error replaces what was read and ends the frame.
ReadRegisters(p, h, id, type) ==
  LET asked == {h.second + k - 1 : k \in 1..h.first}
      values == FlattenSeq([k \in 1..h.first |->
                  WriteValue([type |-> type, v |-> p.regs[h.second + k - 1]])])
  IN IF asked \subseteq Readable
     THEN Respond(p, WriteVaruint(kReplyBase + type * 4 + (id % 4))
                       \o (IF id % 4 = 0 THEN WriteVaruint(h.first) ELSE <<>>)
                       \o WriteVaruint(h.second) \o values)
     ELSE Malformed(Respond(p,
            <<kReadError>> \o WriteVaruint(Min(asked \ Readable)) \o <<1>>))

\* Without a response the rest of the subframe is not even looked at.
ProcessSubframeRead(p, id) ==
  LET h == Header(id, p.in) IN
    IF ~p.respond THEN p
    ELSE IF ~h.ok THEN Malformed(p)
    ELSE ReadRegisters([p EXCEPT !.in = h.rest], h, id, (id - kReadBase) \div 4)

Subframe(p, id) ==
  CASE id = kClientToServer -> ProcessSubframeClientToServer(p)
    [] id = kClientPollServer -> ProcessSubframeClientPollServer(p)
    [] id = kNop -> p
    [] id \in kWriteBase..(kWriteBase + 15) -> ProcessSubframeWrite(p, id)
    [] id \in kReadBase..(kReadBase + 15) -> ProcessSubframeRead(p, id)
    [] OTHER -> Stop(Counted(p, "unknown_subframe"))

RECURSIVE ProcessSubframes(_)
ProcessSubframes(p) ==
  LET id == ReadVaruint(p.in) IN
    IF p.in = <<>> \/ ~p.more THEN p
    ELSE IF ~id.ok THEN Counted(p, "missing_subframe")
    ELSE ProcessSubframes(Subframe([p EXCEPT !.in = id.rest], id.v))

-----------------------------------------------------------------------------
(* Frames *)

NeedResponse(reply) == reply /\ ~writeOutstanding

\* WriteResponse, unless the application discards the frame (CompleteFrame).
WriteResponse(p, destination) ==
  \E action \in {"kAccept", "kDiscard"} :
    /\ stats' = [p.stats EXCEPT
         !.wrong_id = IF destination = kBroadcastId THEN @ + 1 ELSE @,
         !.discards = IF action = "kDiscard" THEN @ + 1 ELSE @]
    /\ writeOutstanding' = (writeOutstanding \/ (p.respond /\ action = "kAccept"))
    /\ tunnels' = IF action = "kDiscard" THEN p.tunnels
         ELSE [i \in DOMAIN tunnels |-> [p.tunnels[i] EXCEPT !.sent = @ \o
                 Rest(p.tunnels[i].written, Len(tunnels[i].written))]]

\* What the frame means to its sender is only kept for the properties.
FrameProcessed(p, destination, meaning) ==
  /\ anythingToDo' = p.todo /\ regs' = p.regs
  /\ WriteResponse(p, destination)
  /\ last' = [ops |-> meaning, answered |-> p.respond, writes |-> p.writes,
              out |-> p.out, before |-> regs,
              whole |-> p.stats.receive_overrun = stats.receive_overrun]

ProcessFrame(destination, reply, payload, meaning) ==
  FrameProcessed(
    ProcessSubframes([in |-> payload, out |-> <<>>, respond |-> NeedResponse(reply),
                      more |-> TRUE, tunnels |-> tunnels, todo |-> anythingToDo,
                      regs |-> regs, stats |-> stats, writes |-> <<>>]),
    destination, meaning)

\* The read is started anew after every frame, and after an error.
HandleReadDatagram(destination, reply, payload, meaning) ==
  /\ readOutstanding
  /\ IF destination \notin {kBroadcastId, Id}
     THEN /\ stats' = [stats EXCEPT !.wrong_id = @ + 1]
          /\ last' = NoFrame
          /\ UNCHANGED <<writeOutstanding, anythingToDo, tunnels, regs>>
     ELSE ProcessFrame(destination, reply, payload, meaning)
  /\ UNCHANGED <<started, readOutstanding>>

HandleWrite(error) ==
  /\ writeOutstanding
  /\ writeOutstanding' = FALSE
  /\ stats' = IF error THEN [stats EXCEPT !.write_error = @ + 1] ELSE stats
  /\ last' = NoFrame
  /\ UNCHANGED <<started, readOutstanding, anythingToDo, tunnels,
                 regs, budget>>

-----------------------------------------------------------------------------
(* The client *)

Reads ==
  [op : {"read"}, reg : DOMAIN WriteActionOf, n : Lengths, type : Types]

Writes ==
  [op : {"write"}, reg : DOMAIN WriteActionOf,
   values : {[k \in 1..n |-> [type |-> type, v |-> v + k]] :
               n \in Lengths, type \in Types, v \in WriteValues}]

\* How the client adds an operation to its request.
Add(request, op) ==
  IF op.op = "read"
  THEN IF op.n = 1 THEN ReadSingle(request, op.reg, op.type)
       ELSE ReadMultiple(request, op.reg, op.n, op.type)
  ELSE IF Len(op.values) = 1 THEN WriteSingle(request, op.reg, op.values[1])
       ELSE WriteMultiple(request, op.reg, op.values)

ClientSends ==
  /\ Spend("requests")
  /\ \E n \in 1..MaxOps : \E ops \in [1..n -> Reads \cup Writes] :
    LET request == FoldLeft(Add, EmptyRequest, ops) IN
      \E destination \in {Id, Id + 1, kBroadcastId}, wanted \in BOOLEAN :
        HandleReadDatagram(destination,
          ExpectResponse(request, request.reply \/ wanted).reply, request.buffer, ops)

\* The bytes that follow those stored in the tunnel.
Following(channel, n) ==
  LET stored == UNION {ToSet(tunnels[i].stored) :
                         i \in {i \in DOMAIN tunnels : tunnels[i].id = channel}}
  IN [k \in 1..n |-> Cardinality(stored) + k]

\* A tunnel of the client: data, or a poll, in a frame of its own.
ClientTunnel ==
  /\ Spend("tunnel")
  /\ \E channel \in Channels, n \in Chunks :
    \/ HandleReadDatagram(Id, TRUE,
         <<kClientToServer, channel, n>> \o Following(channel, n), <<>>)
    \/ HandleReadDatagram(Id, TRUE, <<kClientPollServer, channel, n>>, <<>>)

Next ==
  \/ \E id \in Channels : MakeTunnel(id)
  \/ Start
  \/ \E i \in DOMAIN tunnels, n \in Rooms : AsyncReadSome(i, n)
  \/ \E i \in DOMAIN tunnels, n \in Chunks : AsyncWriteSome(i, n)
  \/ Poll
  \/ ClientSends
  \/ ClientTunnel
  \/ \E error \in BOOLEAN : HandleWrite(error)

Spec == Init /\ [][Next]_vars

-----------------------------------------------------------------------------
TypeOK ==
  /\ {started, readOutstanding, writeOutstanding, anythingToDo} \subseteq BOOLEAN
  /\ \A i \in DOMAIN tunnels :
       tunnels[i].id \in Channels \cup {0} /\ Len(tunnels[i].data) <= TunnelSize
  /\ \A r \in DOMAIN regs : regs[r] \in Nat
  /\ \A k \in DOMAIN stats : stats[k] \in Nat

ActionOf(reg) ==
  IF reg \in DOMAIN WriteActionOf THEN WriteActionOf[reg] ELSE "kUnknownRegister"
RegisterOf(op, k) == op.reg + k - 1
Unknown(op) == {RegisterOf(op, k) : k \in 1..op.n} \ Readable

\* What one register that is written means: the write, and an answer if the
\* application refuses it.
MeaningOfWrite(m, reg, value) ==
  LET errors == [kUnknownRegister |-> 1, kNotWriteable |-> 2] IN
    [m EXCEPT
       !.writes = Append(@, <<reg, value>>),
       !.answers = IF ActionOf(reg) \in DOMAIN errors
                   THEN Append(@, <<reg, errors[ActionOf(reg)]>>) ELSE @,
       !.regs = IF ActionOf(reg) = "kSuccess" THEN [@ EXCEPT ![reg] = value.v] ELSE @,
       !.more = ActionOf(reg) # "kDiscardRemaining"]

\* What a read means: each register that is asked for is named exactly once.
MeaningOfRead(m, op) ==
  [m EXCEPT !.answers = @ \o
     [k \in 1..op.n |-> <<RegisterOf(op, k),
                          [type |-> op.type, v |-> m.regs[RegisterOf(op, k)]]>>]]

\* The exception: a read that fails names the first register that failed and
\* no other, and nothing behind it in the frame is done or named.
MeaningOfFailedRead(m, op) ==
  [m EXCEPT !.answers = Append(@, <<Min(Unknown(op)), 1>>), !.more = FALSE]

\* What the operations of a request mean, without any bytes: the writes in
\* order, and the answers, up to the first read that fails or the first
\* register whose write discards the rest.
MeaningOf(m, op) ==
  CASE ~m.more -> m
    [] m.more /\ op.op = "write" ->
         FoldLeft(LAMBDA w, k : IF w.more THEN MeaningOfWrite(w, RegisterOf(op, k), op.values[k])
                                ELSE w,
                  m, [k \in DOMAIN op.values |-> k])
    [] m.more /\ op.op = "read" ->
         IF Unknown(op) = {} THEN MeaningOfRead(m, op) ELSE MeaningOfFailedRead(m, op)

Meaning ==
  FoldLeft(MeaningOf, [regs |-> last.before, writes |-> <<>>, answers |-> <<>>,
                       more |-> TRUE], last.ops)

\* A request has the effect its operations have, and the reply, read with
\* ParseRegisterReply, has their results: the encodings of the client and
\* the server agree for every sequence of operations, with the lengths in
\* the subframe's id or after it.  format.h:95-98 says that the reply names
\* each register that is read exactly once; it does up to the first read
\* that fails or write that discards, and what was asked behind that is not
\* named (micro_server.cc: ProcessSubframeRead returns true, and the loop
\* over the subframes ends): there the code and format.h disagree.  (If
\* there is no reply to be made although one was asked for, see
\* OnlyAskedWrites.)
AsAsked ==
  \/ ~last.answered /\ \E k \in DOMAIN last.ops : last.ops[k].op = "read"
  \/ ~last.whole
  \/ /\ last.writes = Meaning.writes
     /\ last.answered /\ last.ops # <<>> =>
          ParseRegisterReply(last.out) = Meaning.answers

\* format.h:78-81: a read subframe is its id, the number of registers and
\* the start register.  Nothing of a request is executed as a write that is
\* not one.
OnlyAskedWrites ==
  ToSet(last.writes) \subseteq
    UNION {{<<last.ops[k].reg + j - 1, last.ops[k].values[j]>> :
              j \in DOMAIN last.ops[k].values} :
            k \in {k \in DOMAIN last.ops : last.ops[k].op = "write"}}

\* The bytes of a tunnel reach the reader in order, once, and none is
\* dropped that was stored; and those that its writer is told are written
\* are those that are sent, unless the application discards a frame.
TunnelIntact ==
  \A i \in DOMAIN tunnels :
    /\ tunnels[i].stored = tunnels[i].given \o tunnels[i].data
    /\ stats.discards = 0 => tunnels[i].sent = tunnels[i].written

\* A reader that waits while there is data for it is served by the next
\* Poll: lines 61-63 leave the transfer to "a top level call".
NoLostWakeup ==
  \A i \in DOMAIN tunnels : Transfer(tunnels[i]) > 0 => anythingToDo
=============================================================================
