---------------------------- MODULE MicroConsole ----------------------------
(***************************************************************************)
(* mjlib/micro: CommandManager, AsyncExclusive, TelemetryManager, and the  *)
(* line reader and writer they use.  Commands come in line by line; each   *)
(* answers, and the telemetry manager emits, through one write stream that *)
(* is passed on by AsyncExclusive, and from one output buffer.             *)
(*                                                                         *)
(* The program has one thread; a callback that runs others is one step, so *)
(* the whole state is one record that the handlers transform.              *)
(***************************************************************************)
EXTENDS Integers, Sequences, SequencesExt, FiniteSets, FiniteSetsExt

CONSTANTS
  N,             \* telemetry elements
  Commands,      \* [op |-> ..., e |-> ..., arg |-> ...]
  Lengths,       \* characters of a line before its end
  MaxLine,       \* options.max_line_length
  MaxLockers,    \* slots of AsyncExclusive
  KMinRateMs,    \* kMinRateMs
  MaxLines,      \* bound: lines sent
  MaxErrors      \* bound: errors of the streams

VARIABLES
  line,          \* what the host is sending: <<>>, or the line with what is left of it
  st             \* state of the device

vars == <<line, st>>

E == 0..(N - 1)
NoWrite == [by |-> "none"]
NoCommand == [op |-> "none", e |-> 0, arg |-> 0]

Element == [rate |-> 0, next |-> 1, to_send |-> FALSE, text |-> FALSE]

StateInit ==
  [read |-> "none", at |-> 0,                        \* AsyncReadUntilContext
   owner |-> "none", slots |-> [i \in 1..MaxLockers |-> "none"],
   write_outstanding |-> FALSE, command |-> NoCommand,   \* CommandManager
   el |-> [e \in E |-> Element], outstanding_write |-> FALSE, last_sent |-> 0, eptr |-> 0,
   current_response |-> "none", list_index |-> 0, field |-> 0,
   buffer |-> <<>>, out |-> NoWrite,
   lines |-> 0, errors |-> 0,
   \* history
   asked |-> 0, fit |-> <<>>, due |-> <<>>, answered |-> <<>>, stop |-> "no", after_stop |-> 0,
   passed |-> [e \in E |-> {}], overtaken |-> FALSE, bad |-> FALSE]

-----------------------------------------------------------------------------
(* Streams *)

\* AsyncWrite of a message that is in the output buffer or is a constant.
AsyncWrite(s, by, message, buffered) ==
  [s EXCEPT !.out = [by |-> by, message |-> message, buffered |-> buffered, left |-> 2],
            !.buffer = IF buffered THEN message ELSE @,
            !.bad = @ \/ s.out # NoWrite]

WriteMessage(s, by, message) == AsyncWrite(s, by, message, FALSE)

\* One read of one character is outstanding.
AsyncReadSome(s, mode, at) ==
  [s EXCEPT !.read = mode, !.at = at, !.bad = @ \/ s.read # "none"]

MaybeStartRead(s) ==
  IF s.write_outstanding THEN s ELSE AsyncReadSome(s, "until", 0)

-----------------------------------------------------------------------------
(* TelemetryManager *)

\* The fields of an element as text, one after the other, then OK.
Enumerate(s, e, by) ==
  AsyncWrite([s EXCEPT !.current_response = by, !.field = 0], by, <<"text", e>>, TRUE)

EmitData(s, e, by) ==
  IF s.el[e].text THEN Enumerate(s, e, by) ELSE AsyncWrite(s, by, <<"emit", e>>, TRUE)

\* The next name, or the end.
ListCallback(s) ==
  IF s.list_index >= N THEN WriteMessage(s, s.current_response, <<"OK">>)
  ELSE AsyncWrite([s EXCEPT !.list_index = @ + 1], s.current_response,
                  <<"name", s.list_index>>, TRUE)

List(s) == ListCallback([s EXCEPT !.current_response = "command", !.list_index = 0])

\* The rate and the next time for what a host asks.
Rate(el, rate) ==
  IF rate = 0 THEN [el EXCEPT !.rate = 0, !.next = 1]
  ELSE IF rate < KMinRateMs THEN [el EXCEPT !.rate = 1, !.next = 1]
  ELSE [el EXCEPT !.rate = rate, !.next = rate]

\* Fault: what is about to be sent is not forgotten.
StopRatesOnly(els) == [e \in E |-> [els[e] EXCEPT !.rate = 0]]

Stop(els) == [e \in E |-> [els[e] EXCEPT !.rate = 0, !.to_send = FALSE]]

Format(el, format) == [el EXCEPT !.text = (format # 0)]
Text(els) == [e \in E |-> [els[e] EXCEPT !.text = TRUE]]

\* The current value, or the schema, in binary, or as text.
Get(s, e) == EmitData(s, e, "command")
Schema(s, e) == AsyncWrite(s, "command", <<"schema", e>>, TRUE)

\* Command and the functions of the subcommands; an unknown one is answered.
Command(s, c) ==
  CASE c.op = "get" -> Get(s, c.e)
    [] c.op = "schema" -> Schema(s, c.e)
    [] c.op = "list" -> List(s)
    [] c.op = "rate" ->
         WriteMessage([s EXCEPT !.el[c.e] = Rate(@, c.arg), !.stop = "no", !.after_stop = 0],
                      "command", <<"OK">>)
    [] c.op = "fmt" -> WriteMessage([s EXCEPT !.el[c.e] = Format(@, c.arg)], "command", <<"OK">>)
    [] c.op = "text" -> WriteMessage([s EXCEPT !.el = Text(@)], "command", <<"OK">>)
    [] c.op = "stop" ->
         WriteMessage([s EXCEPT !.el = Stop(@), !.passed = [e \in E |-> {}],
                                !.stop = IF @ = "no" THEN "asked" ELSE @], "command", <<"OK">>)
    [] OTHER -> WriteMessage(s, "command", <<"ERR">>)

-----------------------------------------------------------------------------
(* AsyncExclusive *)

\* The operation of a client gets the stream.
StartCommand(s) == Command([s EXCEPT !.command = NoCommand], s.command)

StartEmit(s) ==
  EmitData([s EXCEPT !.after_stop = IF s.stop = "done" THEN @ + 1 ELSE @], s.eptr, "telemetry")

Operation(s, by) == IF by = "command" THEN StartCommand(s) ELSE StartEmit(s)

\* Fault: the operation is started in any case.
AsyncStartAnyway(s, by) == Operation([s EXCEPT !.owner = by], by)

AsyncStart(s, by) ==
  LET free == {i \in 1..MaxLockers : s.slots[i] = "none"} IN
    IF s.owner = "none" THEN Operation([s EXCEPT !.owner = by], by)
    ELSE IF free = {} THEN [s EXCEPT !.bad = TRUE]
    ELSE [s EXCEPT !.slots[Min(free)] = by]

\* The release callback, with MaybeStartQueued.
Release(s) ==
  LET waiting == {i \in 1..MaxLockers : s.slots[i] # "none"}
      i == Min(waiting)
      freed == [s EXCEPT !.owner = "none"]
  IN IF waiting = {} THEN freed
     ELSE AsyncStart([freed EXCEPT !.slots[i] = "none"], s.slots[i])

\* Fault: the search always starts at the first element.
NextToSendFirst(s) ==
  LET ready == {i \in E : s.el[i].to_send}
  IN IF ready = {} THEN {} ELSE {Min(ready)}

\* The first element to send after the one that was sent last.
NextToSend(s) ==
  LET at(i) == (i + s.last_sent + 1) % N
      ready == {i \in E : s.el[at(i)].to_send}
  IN IF ready = {} THEN {} ELSE {at(Min(ready))}

MaybeStartSend(s) ==
  IF s.outstanding_write \/ NextToSend(s) = {} THEN s
  ELSE LET e == CHOOSE e \in NextToSend(s) : TRUE
           others == {f \in E \ {e} : s.el[f].to_send}
       IN AsyncStart([s EXCEPT !.el[e].to_send = FALSE, !.outstanding_write = TRUE,
                               !.eptr = e, !.last_sent = e,
                               !.overtaken = @ \/ \E f \in others : e \in s.passed[f],
                               !.passed = [f \in E |-> IF f \in others THEN @[f] \cup {e} ELSE {}]],
                     "telemetry")

-----------------------------------------------------------------------------
(* CommandManager *)

\* A line has been read; one of nothing is ignored.  After an error while
\* ignoring, the end of a line is taken for a line: here, with its command.
HandleCommand(s, l) ==
  IF l.length = 0 THEN s
  ELSE AsyncStart([s EXCEPT !.command = l.command, !.write_outstanding = TRUE,
                            !.asked = l.id, !.due = Append(@, l.id)], "command")

HandleRead(s, l) == MaybeStartRead(HandleCommand(s, l))

HandleReadError(s) == AsyncReadSome(s, "ignore", 0)

\* The callback of a command's response.
Done(s) ==
  MaybeStartRead(Release([s EXCEPT !.write_outstanding = FALSE,
                                   !.answered = Append(@, s.asked),
                                   !.stop = IF @ = "asked" THEN "done" ELSE @]))

\* The callback of an emission.
ActualRelease(s) == Release([s EXCEPT !.outstanding_write = FALSE])

\* What follows the write of a message that was written, or not.
Continue(s, error) ==
  LET w == s.out
      t == [s EXCEPT !.out = NoWrite]
  IN CASE w.message[1] = "name" /\ ~error -> ListCallback(t)
       [] w.message[1] = "text" /\ s.field = 0 /\ ~error ->
            AsyncWrite([t EXCEPT !.field = 1], w.by, w.message, TRUE)
       [] w.message[1] = "text" -> WriteMessage(t, s.current_response, <<"OK">>)
       [] OTHER -> IF w.by = "command" THEN Done(t) ELSE ActualRelease(t)

-----------------------------------------------------------------------------
Init ==
  /\ line = <<>>
  /\ st = MaybeStartRead(StateInit)

\* The host begins a line; the number of its command is its name in due.
SendLine ==
  /\ line = <<>> /\ st.lines < MaxLines
  /\ \E n \in Lengths, c \in Commands :
       /\ line' = <<[left |-> n, length |-> n, command |-> c, id |-> st.lines + 1]>>
       /\ st' = [st EXCEPT !.lines = @ + 1]

\* Fault: a line that fills the buffer is taken as it is.
ReadUntilFull(s, l) ==
  IF l.left = 0 \/ s.at + 1 = MaxLine THEN HandleRead(s, l)
  ELSE AsyncReadSome(s, "until", s.at + 1)

\* The outstanding read gets a character: AsyncReadUntil or AsyncIgnoreUntil.
ReadUntil(s, l) ==
  IF l.left = 0 THEN HandleRead(s, l)
  ELSE IF s.at + 1 = MaxLine THEN HandleReadError(s)
  ELSE AsyncReadSome(s, "until", s.at + 1)

IgnoreUntil(s, l) ==
  IF l.left = 0 THEN MaybeStartRead(s) ELSE AsyncReadSome(s, "ignore", 0)

ReceiveChar ==
  /\ line # <<>> /\ st.read # "none"
  /\ LET l == line[1]
         fits == l.left = 0 /\ l.length \in 1..(MaxLine - 1)
         s == [st EXCEPT !.read = "none", !.fit = IF fits THEN Append(@, l.id) ELSE @]
     IN /\ line' = IF l.left = 0 THEN <<>> ELSE <<[l EXCEPT !.left = @ - 1]>>
        /\ st' = IF st.read = "until" THEN ReadUntil(s, l) ELSE IgnoreUntil(s, l)

ReadError ==
  /\ st.read # "none" /\ st.errors < MaxErrors
  /\ LET s == [st EXCEPT !.read = "none", !.errors = @ + 1]
     IN st' = IF st.read = "until" THEN HandleReadError(s) ELSE MaybeStartRead(s)
  /\ UNCHANGED line

\* AsyncWriteSome takes some of what is left, or fails.
WriteSome ==
  /\ st.out # NoWrite
  /\ \E n \in 1..st.out.left :
       st' = IF n = st.out.left THEN Continue(st, FALSE) ELSE [st EXCEPT !.out.left = @ - n]
  /\ UNCHANGED line

WriteError ==
  /\ st.out # NoWrite /\ st.errors < MaxErrors
  /\ st' = Continue([st EXCEPT !.errors = @ + 1], TRUE)
  /\ UNCHANGED line

Countdown(el) ==
  IF el.rate > 1 /\ el.next > 0
  THEN IF el.next = 1 THEN [el EXCEPT !.to_send = TRUE, !.next = el.rate]
       ELSE [el EXCEPT !.next = @ - 1]
  ELSE el

PollMillisecond ==
  /\ st' = MaybeStartSend([st EXCEPT !.el = [e \in E |-> Countdown(@[e])]])
  /\ UNCHANGED line

UpdateItem(e) ==
  /\ st.el[e].rate = 1
  /\ st' = MaybeStartSend([st EXCEPT !.el[e].to_send = TRUE])
  /\ UNCHANGED line

Next ==
  \/ SendLine \/ ReceiveChar \/ ReadError \/ WriteSome \/ WriteError
  \/ PollMillisecond \/ \E e \in E : UpdateItem(e)

Spec == Init /\ [][Next]_vars

-----------------------------------------------------------------------------
\* No assertion of the managers fails, no second read or write is started on
\* a stream, and what is being written from the output buffer is still what
\* the buffer holds, although commands and telemetry share both.
StreamsRespected ==
  /\ ~st.bad
  /\ (st.out # NoWrite /\ st.out.buffered) => st.buffer = st.out.message
  /\ st.out # NoWrite => st.out.by = st.owner

\* Every line that fits gets its answer, in order and once, and a line that
\* does not fit none (unless a stream fails); nothing that was read stays unanswered while the
\* manager waits for the next line.
LinesAnswered ==
  /\ IsPrefix(st.answered, st.due)
  /\ Len(st.due) <= Len(st.answered) + 1
  /\ st.read # "none" => st.answered = st.due
  /\ st.errors = 0 => st.due = st.fit

\* An element that waits is passed by no other element twice, and after the
\* answer to "tel stop" at most the one emission that was queued goes out.
TelemetryFair == ~st.overtaken /\ st.after_stop <= 1
=============================================================================
