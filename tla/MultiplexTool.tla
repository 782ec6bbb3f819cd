---------------------------- MODULE MultiplexTool ----------------------------
(***************************************************************************)
(* mjlib/multiplex/multiplex_tool.cc: commands are read from the console,  *)
(* made into register requests, and answered, one after the other.         *)
(*                                                                         *)
(* A command is a sequence of entries, separated by "|" on the line: a     *)
(* request [id, ops], a delay, or blanks.  It ends with a line or with a   *)
(* ";".  External: the console, and the client that transmits.             *)
(***************************************************************************)
EXTENDS Registers, FiniteSets

CONSTANTS
  Commands,    \* what is typed: [entries, end] with end "line" or "semicolon"
  Replies      \* what a request may be answered with

VARIABLES
  mode,        \* options_: "console", "register" or "none"
  ready,       \* which of client_ and stdio_ are there
  typed,       \* commands typed so far
  streambuf,   \* commands in streambuf_
  waiting,     \* what the tool waits for, or how it ended
  taken,       \* history: commands taken from the streambuf
  sent,        \* history: requests that were transmitted
  printed      \* history: what was printed for each

vars == <<mode, ready, typed, streambuf, waiting, taken, sent, printed>>

Init ==
  /\ mode \in {"console", "register", "none"}
  /\ ready = {} /\ typed = 0 /\ streambuf = <<>> /\ waiting = "start"
  /\ taken = 0 /\ sent = <<>> /\ printed = <<>>

-----------------------------------------------------------------------------
GetTypeIndex(letter) == CHOOSE i \in 0..3 : <<"b", "s", "i", "f">>[i + 1] = letter

\* static_cast to the width of the type
ParseValue(v, type) == [type |-> type, v |-> IF SizeOf(type) < 4 THEN v % 256 ^ SizeOf(type) ELSE v]

\* Fault: several values are written to one register.
AddWriteRequestFirst(request, op) ==
  WriteSingle(request, op.reg, ParseValue(op.values[1], GetTypeIndex(op.letter)))

AddWriteRequest(request, op) ==
  LET values == [i \in DOMAIN op.values |-> ParseValue(op.values[i], GetTypeIndex(op.letter))] IN
    IF Len(values) = 1 THEN WriteSingle(request, op.reg, values[1])
    ELSE WriteMultiple(request, op.reg, values)

AddReadRequest(request, op) ==
  IF op.count = 0 THEN ReadSingle(request, op.reg, GetTypeIndex(op.letter))
  ELSE ReadMultiple(request, op.reg, op.count, GetTypeIndex(op.letter))

\* An operation with an unknown name is told and left out.
AddRequest(request, op) ==
  CASE op.name = "w" -> AddWriteRequest(request, op)
    [] op.name = "r" -> AddReadRequest(request, op)
    [] OTHER -> request

MakeRequest(entry) ==
  [id |-> entry.id, request |-> FoldLeft(AddRequest, EmptyRequest, entry.ops)]

\* Why ProcessRegisterCommand stops at an entry: a delay starts, blanks are
\* an exception, and so is a write of no value.
Stops(entry) ==
  \/ entry.kind # "request"
  \/ \E i \in DOMAIN entry.ops : entry.ops[i].name = "w" /\ entry.ops[i].values = <<>>

ProcessRegisterCommand(entries) ==
  LET stops == {i \in DOMAIN entries : Stops(entries[i])}
      before == IF stops = {} THEN entries ELSE SubSeq(entries, 1, Min(stops) - 1)
      requests == [i \in DOMAIN before |-> MakeRequest(before[i])]
  IN IF stops = {} THEN waiting' = "reply" /\ sent' = Append(sent, requests)
     ELSE /\ waiting' = IF entries[Min(stops)].kind = "delay" THEN "delay" ELSE "failed"
          /\ UNCHANGED sent

\* Fault: a line break is waited for although there is a command.
HandleLineReads(buf) ==
  /\ waiting' = "line" /\ streambuf' = buf
  /\ UNCHANGED <<taken, sent>>

\* The command up to the first delimiter that is not empty, and how many are
\* taken from the buffer with it.
GetCommand(buf) ==
  LET full == {i \in DOMAIN buf : buf[i].entries # <<>>} IN
    IF full = {} THEN [entries |-> <<>>, n |-> Len(buf)]
    ELSE [entries |-> buf[Min(full)].entries, n |-> Min(full)]

\* Empty commands are skipped; with no command left the next line is read.
HandleLine(buf) ==
  LET command == GetCommand(buf) IN
    /\ streambuf' = Rest(buf, command.n)
    /\ taken' = taken + command.n
    /\ IF command.entries = <<>> THEN waiting' = "line" /\ UNCHANGED sent
       ELSE ProcessRegisterCommand(command.entries)

\* client_ or stdio_ has come; with both, RunCommand.
MaybeStart(which) ==
  /\ which \notin ready
  /\ ready' = ready \cup {which}
  /\ waiting' = IF Cardinality(ready') < 2 THEN "start"
                ELSE CASE mode = "console" -> "copy"
                       [] mode = "register" -> "line"
                       [] mode = "none" -> "exit"
  /\ UNCHANGED <<mode, typed, streambuf, taken, sent, printed>>

\* async_read_until: it goes on until there is the end of a line.
ReadUntil(n) ==
  LET buf == streambuf \o SubSeq(Commands, typed + 1, typed + n) IN
    /\ waiting = "line" /\ typed + n <= Len(Commands)
    /\ typed' = typed + n
    /\ IF \E i \in DOMAIN buf : buf[i].end = "line" THEN HandleLine(buf)
       ELSE /\ streambuf' = buf
            /\ UNCHANGED <<waiting, taken, sent>>
    /\ UNCHANGED <<mode, ready, printed>>

\* An error of the console, or the end of what it copies, ends the program.
ConsoleEnds ==
  /\ waiting \in {"line", "copy"}
  /\ waiting' \in {"exit", "failed"}
  /\ UNCHANGED <<mode, ready, typed, streambuf, taken, sent, printed>>

HandleDelayTimer ==
  /\ waiting = "delay"
  /\ HandleLine(streambuf)
  /\ UNCHANGED <<mode, ready, typed, printed>>

\* The replies grouped by the device they are from.
Groups(reply) ==
  [id \in {reply[i].id : i \in DOMAIN reply} |-> SelectSeq(reply, LAMBDA r : r.id = id)]

\* A timeout is told; any other error ends the program.
HandleRequest(ec, reply) ==
  /\ waiting = "reply"
  /\ IF ec = "failed" THEN waiting' = "failed" /\ UNCHANGED <<streambuf, taken, sent, printed>>
     ELSE /\ printed' = Append(printed, IF ec = "ok" THEN Groups(reply) ELSE <<>>)
          /\ HandleLine(streambuf)
  /\ UNCHANGED <<mode, ready, typed>>

Next ==
  \/ \E which \in {"client", "stdio"} : MaybeStart(which)
  \/ \E n \in 1..Len(Commands) : ReadUntil(n)
  \/ ConsoleEnds
  \/ HandleDelayTimer
  \/ \E reply \in Replies : HandleRequest("ok", reply)
  \/ \E ec \in {"timeout", "failed"} : HandleRequest(ec, <<>>)

Spec == Init /\ [][Next]_vars

-----------------------------------------------------------------------------
\* The requests of the commands taken so far, in the order they were typed;
\* a command with a delay or an error in it sends nothing.
Asked ==
  LET whole(c) == c.entries # <<>> /\ \A i \in DOMAIN c.entries : ~Stops(c.entries[i])
      commands == SelectSeq(SubSeq(Commands, 1, taken), whole)
  IN [i \in DOMAIN commands |->
        [j \in DOMAIN commands[i].entries |-> commands[i].entries[j]]]

Wanted(entry) ==
  FlattenSeq([i \in DOMAIN entry.ops |->
    LET op == entry.ops[i] IN
      IF op.name # "w" THEN <<>>
      ELSE [k \in DOMAIN op.values |->
              <<op.reg + k - 1, ParseValue(op.values[k], GetTypeIndex(op.letter))>>]])

\* What a device finds in the buffer of a request that only writes.
RECURSIVE Writes(_)
Writes(bytes) ==
  LET n == IF bytes[1] % 4 = 0 THEN bytes[2] ELSE bytes[1] % 4
      start == IF bytes[1] % 4 = 0 THEN 3 ELSE 2
      type == bytes[1] \div 4
      values == ReadValues(Rest(bytes, start), type, n)
  IN IF bytes = <<>> \/ bytes[1] >= kReadBase THEN <<>>
     ELSE [k \in 1..n |-> <<bytes[start] + k - 1, values[k]>>]
            \o Writes(Rest(bytes, start + n * SizeOf(type)))

\* Every command is executed once, in the order in which it was typed, one
\* at a time and whatever became of those before; the writes a device finds
\* in its request are the ones on the line; and no command lies in the
\* buffer while the tool waits for another line.
CommandsInOrder ==
  /\ Len(sent) = Len(Asked)
  /\ \A i \in DOMAIN sent : \A j \in DOMAIN sent[i] :
       LET entry == Asked[i][j] IN
         /\ sent[i][j].id = entry.id
         /\ sent[i][j].request.reply = \E k \in DOMAIN entry.ops : entry.ops[k].name = "r"
         /\ ~sent[i][j].request.reply => Writes(sent[i][j].request.buffer) = Wanted(entry)
  /\ waiting \in {"line", "delay"} => Len(printed) = Len(sent)
  /\ waiting = "reply" => Len(printed) = Len(sent) - 1
  /\ waiting = "line" => \A i \in DOMAIN streambuf : streambuf[i].end # "line"
  /\ taken + Len(streambuf) = typed
=============================================================================
