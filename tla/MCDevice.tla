------------------------------ MODULE MCDevice ------------------------------
(* The parts of a device, and the client that talks to one from Python,    *)
(* each on its own: "which" tells which one a behaviour is about, one of   *)
(* the Parts.                                                              *)
(*                                                                         *)
(* MicroStreamDatagram has bytes 0..7: a varuint byte below 4 is its last; *)
(* the header is 3, 5.  The registers of MicroServer are around 128, whose *)
(* numbers take one and two bytes.                                         *)
EXTENDS MicroStreamDatagram

CONSTANT Parts

VARIABLES
  which,
  started, readOutstanding, writeOutstanding, anythingToDo, tunnels, regs, stats, budget, last,
  typing, st,
  elements, value, flash, position, writing, job, told, sets, saved, fresh,
  lock, phase, have, result, buffered, writeData, toServer, frames, arrived, consumed,
  returned, answers, polls, writes, cut,
  outRead, outWrite, events, batch, using, piped, received,
  callbacks, holds, wanted, made, leaked,
  window, added, config, state, before,
  mode, ready, typed, streambuf, awaits, taken, requested, printed

serverVars == <<started, readOutstanding, writeOutstanding, anythingToDo, tunnels, regs, stats,
                budget, last>>
consoleVars == <<typing, st>>
configVars == <<elements, value, flash, position, writing, job, told, sets, saved, fresh>>
pythonVars == <<lock, phase, have, result, buffered, writeData, toServer, frames, arrived,
                consumed, returned, answers, polls, writes, cut>>
pipeVars == <<outRead, outWrite, events, batch, using, piped, received>>
tableVars == <<callbacks, holds, wanted, made, leaked>>
filterVars == <<window, added, config, state, before>>
toolVars == <<mode, ready, typed, streambuf, awaits, taken, requested, printed>>
allVars == <<which, vars, serverVars, consoleVars, configVars, pythonVars, pipeVars, tableVars,
             filterVars, toolVars>>

-----------------------------------------------------------------------------
\* An empty frame, one whose payload begins like a header, and one whose
\* payload is longer than the user's buffer and whose CRC holds the first
\* byte of the header.
MCMessages ==
  << [source |-> 1, dest |-> 2, payload |-> <<>>, crc |-> <<0, 6>>],
     [source |-> 2, dest |-> 1, payload |-> <<3, 5>>, crc |-> <<3, 1>>],
     [source |-> 1, dest |-> 1, payload |-> <<7, 3, 0>>, crc |-> <<5, 3>>] >>

WriteActions ==
  [r \in 127..129 |-> CASE r = 127 -> "kSuccess"
                        [] r = 128 -> "kNotWriteable"
                        [] r = 129 -> "kDiscardRemaining"]

Server == INSTANCE MicroServer WITH
  Id <- 1, WriteActionOf <- WriteActions, Readable <- 127..130, WriteValues <- {0}, Types <- {1},
  Lengths <- {1, 4}, Channels <- {1, 2}, NumTunnels <- 2, TunnelSize <- 3, Rooms <- {1},
  Chunks <- {2}, BufferSize <- 64, MaxSize <- 64, MaxOps <- 2,
  Budgets <- {[requests |-> 1, tunnel |-> 1, owner |-> 1],
              [requests |-> 0, tunnel |-> 2, owner |-> 4]}

C(op, e, arg) == [op |-> op, e |-> e, arg |-> arg]
ConsoleCommands ==
  {C("get", 1, 0), C("schema", 1, 0), C("list", 0, 0), C("stop", 0, 0), C("text", 0, 0),
   C("fmt", 0, 1), C("bad", 0, 0), C("rate", 0, 3)}
    \cup {C("rate", e, 1) : e \in 0..2}

Console == INSTANCE MicroConsole WITH
  line <- typing, N <- 3, Commands <- ConsoleCommands, Lengths <- {0, 1, 3}, MaxLine <- 3,
  MaxLockers <- 1, KMinRateMs <- 2, MaxLines <- 3, MaxErrors <- 1

\* The types and values of PersistentConfig.
T == INSTANCE PersistentConfig WITH
  Firmwares <- {}, Types <- {}, Bytes <- {}, FlashSize <- 0, MaxSets <- 0
Plain == T!Struct(<<"a">>, <<T!Leaf>>)
Nested == T!Struct(<<"a", "b">>, <<T!Leaf, T!Array(2, T!Leaf)>>)
Deep == T!Struct(<<"x", "y", "z">>,
          <<T!Array(2, Plain), T!Leaf, T!Struct(<<"u", "v">>, <<T!Leaf, T!Array(2, T!Leaf)>>)>>)
G(name, type, crc, enumerate) == [name |-> name, type |-> type, crc |-> crc, enumerate |-> enumerate]

Config == INSTANCE PersistentConfig WITH
  Firmwares <- {<<G(65, Plain, 7, TRUE), G(66, Nested, 9, TRUE), G(67, Plain, 7, FALSE)>>,
                <<G(67, Plain, 7, TRUE), G(66, Plain, 7, TRUE)>>},
  Types <- {Plain, Nested, Deep}, Bytes <- {5}, FlashSize <- 40, MaxSets <- 2

\* A write of two registers and a read of one; a reply with one value.
Python == INSTANCE PythonClient WITH
  got <- returned, ReadSize <- 2, MaxFrames <- 2, MaxPolls <- 2, MaxWrites <- 1,
  Asked <- << [name |-> "w", type |-> 1, reg |-> 3, n |-> 2,
               values |-> <<[type |-> 1, v |-> 300], [type |-> 1, v |-> 7]>>],
              [name |-> "r", type |-> 0, reg |-> 5, n |-> 1, values |-> <<>>] >>,
  Reply <- <<33, 5, 9>>

Pipe == INSTANCE StreamPipe WITH
  wrote <- piped, got <- received, PipeSizes <- {0, 1, 2}, MaxPipeBytes <- 3

Table == INSTANCE CallbackTable WITH Slots <- 1..3, Objects <- {"x", "y", "z"}, MaxMakes <- 5

Filter == INSTANCE Filters WITH
  Capacities <- {[given |-> 2, max |-> 3], [given |-> 5, max |-> 3], [given |-> 1, max |-> 1]},
  Configs <- [kp : {2}, ki : {3}, kd : {1}, iratelimit : {-1, 2}, ilimit : {3},
              kpkdLimit : {-1, 2}, maxDesiredRate : {0, 1}, sign : {-1}],
  Inputs <- {-3, 2}, MaxAdds <- 5

\* What is typed: writes of one and of several values, also of none; reads;
\* an operation that is not known; delays, empty commands and blanks.
Entry(id, operations) == [kind |-> "request", id |-> id, ops |-> operations]
Wr(reg, values) == [name |-> "w", letter |-> "b", reg |-> reg, values |-> values]
Rd(reg, n) == [name |-> "r", reg |-> reg, count |-> n, letter |-> "s"]
Typed(entries, end) == [entries |-> entries, end |-> end]
ToolCommands ==
  << Typed(<<Entry(1, <<Wr(3, <<7, 300>>), Wr(5, <<1>>)>>), Entry(2, <<Rd(4, 0)>>)>>, "semicolon"),
     Typed(<<>>, "line"),
     Typed(<<Entry(1, <<Rd(1, 5), [name |-> "x"]>>), [kind |-> "delay"]>>, "semicolon"),
     Typed(<<[kind |-> "delay"]>>, "line"),
     Typed(<<Entry(2, <<Wr(1, <<1, 2, 3, 4>>)>>)>>, "line"),
     Typed(<<Entry(1, <<Wr(1, <<>>)>>)>>, "semicolon"),
     Typed(<<[kind |-> "blank"]>>, "line") >>

Tool == INSTANCE MultiplexTool WITH
  waiting <- awaits, sent <- requested, Commands <- ToolCommands,
  Replies <- {<<>>, <<[id |-> 2, reg |-> 4], [id |-> 1, reg |-> 1], [id |-> 2, reg |-> 5]>>}

-----------------------------------------------------------------------------
(* The variables of the parts that a behaviour is not about. *)

ServerIdle ==
  /\ started = 0 /\ readOutstanding = 0 /\ writeOutstanding = 0 /\ anythingToDo = 0
  /\ tunnels = 0 /\ regs = 0 /\ stats = 0 /\ budget = 0 /\ last = 0
ConsoleIdle == typing = 0 /\ st = 0
ConfigIdle ==
  /\ elements = 0 /\ value = 0 /\ flash = 0 /\ position = 0 /\ writing = 0 /\ job = 0
  /\ told = 0 /\ sets = 0 /\ saved = 0 /\ fresh = 0
PythonIdle ==
  /\ lock = 0 /\ phase = 0 /\ have = 0 /\ result = 0 /\ buffered = 0 /\ writeData = 0
  /\ toServer = 0 /\ frames = 0 /\ arrived = 0 /\ consumed = 0 /\ returned = 0
  /\ answers = 0 /\ polls = 0 /\ writes = 0 /\ cut = 0
PipeIdle ==
  /\ outRead = 0 /\ outWrite = 0 /\ events = 0 /\ batch = 0 /\ using = 0
  /\ piped = 0 /\ received = 0
TableIdle == callbacks = 0 /\ holds = 0 /\ wanted = 0 /\ made = 0 /\ leaked = 0
FilterIdle == window = 0 /\ added = 0 /\ config = 0 /\ state = 0 /\ before = 0
ToolIdle ==
  /\ mode = 0 /\ ready = 0 /\ typed = 0 /\ streambuf = 0 /\ awaits = 0 /\ taken = 0
  /\ requested = 0 /\ printed = 0

\* What is left of MicroStreamDatagram is its initial state.
AllInit ==
  /\ which \in Parts
  /\ Init
  /\ IF which = "server" THEN Server!Init ELSE ServerIdle
  /\ IF which = "console" THEN Console!Init ELSE ConsoleIdle
  /\ IF which = "config" THEN Config!Init ELSE ConfigIdle
  /\ IF which = "python" THEN Python!Init ELSE PythonIdle
  /\ IF which = "pipe" THEN Pipe!Init ELSE PipeIdle
  /\ IF which = "table" THEN Table!Init ELSE TableIdle
  /\ IF which = "filter" THEN Filter!Init ELSE FilterIdle
  /\ IF which = "tool" THEN Tool!Init ELSE ToolIdle

DatagramStep ==
  /\ which = "datagram" /\ Next
  /\ UNCHANGED <<which, serverVars, consoleVars, configVars, pythonVars, pipeVars, tableVars,
                 filterVars, toolVars>>

ServerStep ==
  /\ which = "server" /\ Server!Next
  /\ UNCHANGED <<which, vars, consoleVars, configVars, pythonVars, pipeVars, tableVars,
                 filterVars, toolVars>>

ConsoleStep ==
  /\ which = "console" /\ Console!Next
  /\ UNCHANGED <<which, vars, serverVars, configVars, pythonVars, pipeVars, tableVars,
                 filterVars, toolVars>>

ConfigStep ==
  /\ which = "config" /\ Config!Next
  /\ UNCHANGED <<which, vars, serverVars, consoleVars, pythonVars, pipeVars, tableVars,
                 filterVars, toolVars>>

PythonStep ==
  /\ which = "python" /\ Python!Next
  /\ UNCHANGED <<which, vars, serverVars, consoleVars, configVars, pipeVars, tableVars,
                 filterVars, toolVars>>

PipeStep ==
  /\ which = "pipe" /\ Pipe!Next
  /\ UNCHANGED <<which, vars, serverVars, consoleVars, configVars, pythonVars, tableVars,
                 filterVars, toolVars>>

TableStep ==
  /\ which = "table" /\ Table!Next
  /\ UNCHANGED <<which, vars, serverVars, consoleVars, configVars, pythonVars, pipeVars,
                 filterVars, toolVars>>

FilterStep ==
  /\ which = "filter" /\ Filter!Next
  /\ UNCHANGED <<which, vars, serverVars, consoleVars, configVars, pythonVars, pipeVars,
                 tableVars, toolVars>>

ToolStep ==
  /\ which = "tool" /\ Tool!Next
  /\ UNCHANGED <<which, vars, serverVars, consoleVars, configVars, pythonVars, pipeVars,
                 tableVars, filterVars>>

AllNext ==
  \/ DatagramStep \/ ServerStep \/ ConsoleStep \/ ConfigStep
  \/ PythonStep \/ PipeStep \/ TableStep \/ FilterStep \/ ToolStep

AllSpec == AllInit /\ [][AllNext]_allVars

-----------------------------------------------------------------------------
\* MicroServer: the registers written and the reply are those of the request,
\* whatever is in one frame.
ServerAsAsked == which = "server" => Server!AsAsked

\* MicroServer: the bytes of a tunnel arrive in order and once, and a poll
\* never leaves work undone that nothing will do.
TunnelServed == which = "server" => Server!TunnelIntact /\ Server!NoLostWakeup

\* CommandManager and TelemetryManager on one AsyncExclusive: one writer at a
\* time, every line answered once, and every channel gets its turn.
ConsoleRight ==
  which = "console" =>
    Console!StreamsRespected /\ Console!LinesAnswered /\ Console!TelemetryFair

\* PersistentConfig: after a restart every group has the value that was
\* saved, or the default; list, enumerate, get, set and size answer what is
\* there; and a key finds the value it names.
ConfigKept ==
  which = "config" =>
    Config!Restored /\ Config!AnswersRight /\ (sets = 0 => Config!KeysFind)

\* multiplex_protocol.py: what the program reads is its device's tunnel.
PythonTunnel == which = "python" => Python!PythonTunnel

\* StreamPipe, CallbackTable, WindowedAverage and PID, and the command line
\* tool that talks to devices.
PartsRight ==
  /\ which = "pipe" => Pipe!PipeExact
  /\ which = "table" => Table!HandlersRight
  /\ which = "filter" => Filter!FiltersBounded
  /\ which = "tool" => Tool!CommandsInOrder

\* format.h:78-81: a read subframe is its id, the number of registers and the
\* start register.  Nothing of it is executed as a write.
OnlyAskedWrites == which = "server" => Server!OnlyAskedWrites
=============================================================================
