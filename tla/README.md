# A TLA+ model of mjlib

mjlib is a C++ library for robots and embedded controllers: a host side
(`base/`, `io/`, `telemetry/`) built on boost::asio and threads, a
microcontroller side (`micro/`) built on callbacks and interrupts, and
`multiplex/`, a request/response protocol that connects a client on the host
with servers on a bus.  This directory models it, checks the models with TLC
and proves the four most delicate ones with TLAPS.

## Inventory

| Component (under `src/mjlib/`) | State | Operations | What is hard | Module |
| --- | --- | --- | --- | --- |
| `micro/atomic_event_queue.h` | array of (atomic state word, callable), `count_` | `Queue` from any thread or interrupt, `Poll` from one | lock-free ownership of the callable, the scan is not a snapshot, `count_` lags | `AtomicEventQueue` |
| `base/thread_writer.h` | queue of buffers, `flush_`, `done_`, `timer_fired_`, pipe, FILE, offsets | `Write`, `Flush`, destructor; child thread; timer signal | wake-ups that are dropped, drain at destruction, a signal handler in any thread | `ThreadWriter` |
| `io/exclusive_command.h` | the running command, the queue | `Invoke`, `remove`, the completion wrapper | commands complete later, or before they return; removal while others finish | `ExclusiveCommand` |
| `multiplex/stream_asio_client.cc` | the lock, `tx_frame_`/`rx_frame_`, read context, nonces, poll timer | `AsyncTransmit`, tunnel read/write/cancel | cancel against timers and answers, timeouts against late answers | `StreamAsioClient` |
| `multiplex/frame.cc`, `stream.h`, `register.cc` | none | frame layout, varuints, register requests and replies | sizes at their limits, two encodings of a length | `FrameFormat`, `Registers` |
| `multiplex/micro_stream_datagram.cc` | byte buffer, the callback that waits | `AsyncRead`, `AsyncWrite` | resynchronisation, buffer limits | `MicroStreamDatagram` |
| `multiplex/*_frame_stream.cc` | streambuf, the read that waits, timer, owed answers | `AsyncRead` with timeout, writes, `cancel` | a timer handler that is posted when its read ends; lines in pieces | `Rs485FrameStream`, `CanFrameStream`, `FdcanusbFrameStream`, `SocketcanFrameStream` |
| `multiplex/micro_server.cc` | tunnels, read buffer, one response | subframe handlers, `Poll` | one of several registers fails, no response possible, tunnels wait for each other | `MicroServer` |
| `micro/async_exclusive.h`, `command_manager.cc`, `telemetry_manager.cc` | lock with slots, line buffer, channels with rates, one output buffer | lines, commands, emissions | callbacks that call back, one buffer and one stream for all | `MicroConsole` |
| `micro/persistent_config.cc` | registered groups, flash | load, write, enumerate, get, set | power loss between flash operations, other firmware | `PersistentConfig` |
| `micro/stream_pipe.cc`, `event_queue.h` | half-open reads and writes | read/write pairs | callbacks that call back | `StreamPipe` |
| `micro/callback_table.cc` | table of callbacks | make, move, destroy | who owns a slot | `CallbackTable` |
| `telemetry/file_writer.cc`, `file_reader.cc`, `file_reader.py` | blocks, records, index | write, seek, read | back references, files cut short, state that outlives a file | `TelemetryFile`, `TelemetryReader` |
| `telemetry/` schema parser, archives, `reader.py` | none across calls | conversions, schema evolution | nesting, skipping, three readers for one format | `TelemetrySchema` |
| `base/json5_*_archive.h` | none across calls | write, read | escapes, comments, evolution | `Json5` |
| `base/windowed_average.h`, `pid.h` | sums and integrals | `Add`, `Apply` | long runs | `Filters` |
| `io/` sequences, timers, executor, copies, factories | operation chains, timers, half pipes, a socket | start, cancel, copy, reconnect | cancel in the middle, an operation that waits | `AsyncSequence`, `RepeatingTimer`, `RealtimeExecutor`, `StreamCopy`, `TcpServerStream` |
| `multiplex/multiplex_tool.cc` | commands read, request in flight | console commands | several commands on one line, delays, errors | `MultiplexTool` |
| `multiplex/multiplex_protocol.py` | lock, partial frame, tunnel buffer | poll, query, write | a timeout in the middle of a frame | `PythonClient` |

How they interact: a server's `MicroStreamDatagram` delivers frames to
`MicroServer`; the host's `StreamAsioClient` sends them through a
`FrameStream` (RS485 or one of two CAN ones), one at a time because of an
`ExclusiveCommand`; a tunnel is an `AsyncStream` over which a server's
`CommandManager`, `TelemetryManager` and `PersistentConfig` are reached.
Interrupt handlers hand work to the main loop through `AtomicEventQueue`;
`FileWriter` hands its blocks to `ThreadWriter`; their data is described by
schemas.

## Modules

### AtomicEventQueue, EventPool

Each access to a `std::atomic` is one step; the accesses to the plain
`entry.function` are steps at program counters of their own, so that a data
race is a state in which two threads are at such counters for one entry.  `pc`,
`idx`, `event`, `ignore` are the locals of a `Queue` call per producer, `ppc`,
`pidx`, `copy` those of `Poll`.  A failed `MJ_ASSERT` sets `failed`, after which
nothing happens.  `outcome` and `runs` are histories.  `EventPool` is what users
rely on: an event is accepted or dropped once, and an accepted one runs once.

### ThreadWriter, AppendLog

One step per critical section.  `ppc` is the parent, `cpc` the child, `tpc` the
signal handler.  The pipe is a counter bounded by `PipeCapacity`; `stdio` and
`os` are the buffers in the FILE and those given to the kernel, and `fwrite` may
pass on any prefix.  `flush_` and `timer_fired_` are never cleared by the code,
nor here.  The constant `Modes` gives the values of the option `asynchronous`,
which Init chooses and no step changes.  `accepted` and `flushGoal` are
histories.

### ExclusiveCommand, StreamAsioClient

The executor is the sequence `posted`.  A command may call its wrapper before
it returns (`RunInvokeAtOnce`) or later (`Complete`).

In `StreamAsioClient` a job is one use of the lock.  `Lock` is an instance of
`ExclusiveCommand` whose variables are partly this module's own and partly
computed, so that `LockRespected` can check the lock's invariants for this
user.  `fs` is the one operation in progress on the frame stream; starting a
second one is recorded in `failed`.  Servers answer in order, late, or never;
payloads are reduced to the job they answer and the bytes they carry.
`SequenceFilter` has the one helper on sequences that both use.

### FrameFormat, MicroStreamDatagram, Rs485FrameStream

A byte is its value and, for the CRC alone, the message it comes from: the CRC
is taken to accept exactly the frames that were sent.  `Base` stands for 128
and `Width` for 2^32, so that sizes with one and with two bytes, and one that
overflows, all occur with bytes 0..7.  `MicroStreamDatagram` works on a line that
inserts and loses bytes at any moment; `Rs485FrameStream` on a line that begins
with one of several pieces of noise.  None of these pieces ends in a lone first
byte of a header: `ParseFrame` discards two bytes where the second one does not
fit (rs485_frame_stream.cc:156-160), so such a byte right before a frame costs
that frame, and `NoFrameLost` is checked for noise without it.  In all frame streams the handler of the
timer is posted when the timer expires and runs in its turn, which is what
makes it meet the wrong read.

### CanFrameStream, FdcanusbFrameStream, SocketcanFrameStream

`CanFrameStream` has what the two CAN streams share: the identifier, the sizes
CAN-FD has (and the padding with 0x50, which a receiver cannot tell from
data), reads with their timer.  `FdcanusbFrameStream` has the text lines, as
words and hex digits, in pieces, with "OK", "ERR" and "rcv" from the adapter;
`SocketcanFrameStream` writes a batch frame by frame and cancels everything
when a read times out.

### Registers, MicroServer

`Registers` is the codec of the client and of the replies, byte by byte.  In
`MicroServer` a record goes through the subframes of one frame (`more` tells
whether to go on, `respond` whether there is a response buffer) the way
`response` and the read stream do in the code.  Frames are built by the client
from operations (`ops`), so that `AsAsked` can compare the effect with a
meaning that knows no bytes.  The application's answers to reads and writes
are constants; it may also discard a frame (`CompleteFrame`).

### MicroConsole

The device has one thread, and a callback there runs others before it returns:
the state is one record `st` that handlers transform, and a step is what runs
from one event (a character, a write that ends, a millisecond) to the next.

### PersistentConfig

Flash is a sequence of bytes that are erased all at once and programmed one by
one (`ProgramByte`); `Restart` may happen between any two, with any of the
`Firmwares`.  Types are leaves, structures and arrays; keys are sequences of
tokens.  Commands that print one leaf after another are steps of their own,
driven by the completion of each write.

### TelemetryFile, TelemetryReader, TelemetrySchema

A file is a sequence of blocks; a position is the number of a block.  The
reader gets the file closed, or any prefix of it with the last block cut in its
header or body.  `range` is an `ItemRangeContext`; reading, seeking and learning
all records happen in any order.  `TelemetrySchema` walks through every type of
`Wire`, every value and every target type it maps to; nothing else changes.

### Json5

Text is a sequence of characters: the writer and the recursive descent reader
are about nothing else.  `Fill` puts space and comments between the tokens.

### The host's helpers, MultiplexTool, PythonClient, and the small parts

`RepeatingTimer` includes the queue of `DebugDeadlineService`; `StreamCopy`
joins two pipes of the pipe factory; `TcpServerStream` has the creation of every
type of stream and the server's reconnection; `MultiplexTool` keeps the
commands in the buffer and what was sent for each; `PythonClient` splits every
frame into the pieces that `read_frame` reads, a timeout between any of them.
`StreamPipe`, `CallbackTable` and `Filters` are what their names say.

### MC modules

A run of several independent parts has one MC module that extends one of them
and instantiates the others.  Its variable `which` names the part a behaviour is
about (one of the constant `Parts`); the variables of the other parts keep a
fixed value, and each property begins with the part it is about.  The parts do
not interact in such a run; where components do, one module contains both.

## Runs

| Run | Bounds | Shows |
| --- | --- | --- |
| `event_queue` | 2 producers, 2 entries, 3 events | data-race freedom, assertions, exactly once, exact count, refinement of `EventPool`; every accepted event runs in the end |
| `thread_writer` | 3 buffers, block of 2 bytes, capacity 1, pipe of 2, both modes | nothing lost or reordered, fadvise, reclaiming, refinement of `AppendLog`; `Flush`, the destructor and (asynchronous mode) the timer have their effect |
| `asio_client` | one sequence of 2 requests, 2 reads, 1 write, 1 cancel, 2 polls, 3 bytes in answers of up to 2, buffers of 2 | one operation on the frame stream and the lock's invariants, each handler once, data in order and `bytes_read` against the buffer, replies from the server that was asked, a canceled buffer is left alone |
| `asio_client_leak` | 1 cancel | *disagreement*: a leaked lock |
| `frame_streams` | RS485: 5 kinds of noise, 2 messages, 3 reads, 1 cancel; CAN: 2 messages in batches, an error; client: a request with a reply and a block of two without, 2 reads, 2 cancels | one answer per read, frames as they were sent, complete writes; every read with a timeout ends, requests complete unless the lock is leaked, canceled reads are told unless their nonce was lost |
| `rs485_stale` | 2 reads | *disagreement*: a stale timer aborts the next read |
| `device` | datagram: 3 messages, 2 faults, buffer of 16; server: 2 operations on 4 registers around 128, 2 tunnels; console: 3 lines, 3 channels, 1 error; configuration: 2 firmwares, 2 commands, flash of 40 bytes; Python: 2 frames, 2 polls; pipe of 3 bytes, 3 callbacks, 5 samples; 7 console commands of the tool | see the properties of `MCDevice` |
| `stream_datagram_stuck` | the same | *disagreement*: a reader that waits for nothing |
| `micro_server_misread` | the same | *disagreement*: the rest of a read is executed as a write |
| `telemetry` | 2 files, or 3 schemas and 3 data in one; 2 names, 4 times, with and without each option; about 90 types in two levels of nesting; about 50 JSON5 types | links, index, items and seeks are right; three readers agree with the writer; evolution by name; JSON5 read back |
| `seek_omits` | 1 file, 3 schemas, 3 data | *disagreement*: a seek does not find a record whose schema was written again |
| `host_io` | 4 commands; 2 timers, 2 starts, 4 ticks of the clock; 4 operations; 6 handlers; 3 bytes and 1 cancel; 3 clients, 5 operations | one lock holder, order, every command finishes; nothing lost, doubled or out of order; rates are kept |

Why the bounds are enough to be interesting: with two entries and three events
an entry is used again while a producer still scans; a circular buffer of
capacity 1 has to grow twice and a pipe of 2 bytes overflows; the first message
of the frame runs is the shortest frame there is, the second has a payload that
begins like a header; two polls let a late answer meet the next request;
register numbers around 128 take one and two bytes, and four registers do not
fit the length in a subframe's id; the second file of a writer meets the state
of the first; a third schema is one that is written again between data, before
a seek marker; an answer of two bytes after one of one does not fit a buffer of
two; a second read may be made, and canceled, before the job of a canceled first
one runs; a timer is started again while the handler of its first start is
posted.  Every bound is a constant named in its module.

Every property has at least one mutant: an operator marked "Fault" that differs
from the code's by a plausible slip and makes TLC report that property.

`CHECK_DEADLOCK FALSE` is set where the system may stop: a failed assertion, a
destroyed writer, a user that makes no more calls.

### Fairness

Steps of a call in progress are fair (a thread keeps running), the owner of an
event queue polls for ever, the executor runs what is posted, a frame stream
ends what it was given (a read by its timeout if not by a frame), a timer that
is set expires, a command of `ExclusiveCommand` calls its handler, as its
comment demands.  Users are never obliged to call anything.  The servers and the
line are not fair at all: an answer may never come.

## Proofs

Eight modules hold theorems: the seven of the table, and `SequenceFacts`, the
lemmas they share.  Each theorem is about its module's specification (`Spec`, or
`AllSpec` where an MC module puts several parts together) with any value of the
constants that the named `ASSUME`s of its module allow: any sets of producers,
buffers, commands, requests and users, any sizes and bounds.  The bounds that
keep TLC's state space finite (`MaxPolls`, `MaxCancels`, `MaxBytes`) are any
naturals there.

| Module | Theorem | Property of a run |
| --- | --- | --- |
| `AtomicEventQueueProofs` | `TypeCorrect`, `RaceFreedom`, `AssertionsHold`, `RunsExactlyOnce`, `CounterCorrect`, `Refinement` | `TypeOK`, `NoDataRace`, `OnlyFullAborts`, `ExactlyOnce`, `CountAccurate`, `ImplementsPool` |
| `HostIoProofs` | `TypeCorrect`, `LockIsExclusive`, `RunsInOrder`, `QueueNeverIdle`, `CommandsAsAlone`, `StreamsAreKept`, `RatesAreKept` | `OneToken`, `InOrder`, `StreamsKept`, `RatesKept` |
| `ThreadWriterProofs` | `TypeCorrect`, `NothingIsLost`, `FadviseStaysBehind`, `ReclaimedAreFree`, `WriterIsLog` | `NothingLost`, `FadviseBehind`, `ReclaimedIsFree`, `ImplementsLog` |
| `StreamAsioClientProofs` | `TypeCorrect`, `LockIsRespected`, `RepliesFromTheirServers`, `CanceledBuffersUntouched` | `LockRespected`, `ReplyFromItsServer`, `CanceledBufferUntouched` |
| `StreamAsioOutcomeProofs` | `HandlersCalledOnce`, `BytesInOrder`, `TunnelIsInOrder` | `HandlersOnce`, `TunnelInOrder` |
| `MicroStreamDatagramProofs` | `TypeCorrect`, `OwnersGetWhatWasSent`, `NoChecksumFails`, `EveryFrameArrives` | `DeliveredAsSent`, `NothingHeldBack` |
| `FrameStreamsProofs` | `Rs485ReadsAnswered`, `EveryReadAnswered` | `ReadsAnswered` |

None of the properties is inductive; each module has an inductive invariant
(`IInv`, or one for each part), and one lemma per action that keeps it.

`AtomicEventQueueProofs`.  `IInv` adds, for each entry, which thread its state
word belongs to (1: a producer between its claim and its fetch_or(2); 3: nobody,
or the poller about to claim it; 7: the poller), what the function then holds,
and for each event in which one place it is: in a producer's call, in one entry,
in the poller's copy, or run.  Exclusive ownership gives race freedom and the
assertions, the uniqueness of places gives exactly-once and the refinement.
`CountAccurate` is proved from it with the cardinality theorems of the library:
every step changes both sides of the equation alike.

`HostIoProofs`.  One invariant for each of the host's helpers; `HostInv` says that
the helper a behaviour is about has its own.
- `LockInv` (`ExclusiveCommand`).  The lock is in one of four phases: free, or
  held by a command whose `Invoke` is posted, that runs, or whose `ItemDone` is
  posted (`LockPhase`).  A phase names the whole of `posted` and `running`, so
  one token is a matter of looking at it.  The order is kept as one equation
  between the order of `Invoke` and what is finished, held and queued
  (`InOrder`), of commands that are all different (`EachOnce`): `remove` takes
  the same elements out of both sides.  `CommandsAsAlone` carries the results
  from `Spec` to `AllSpec`.
- `SequenceInv` (`AsyncSequence`).  Five phases, in each of which exactly one
  thing is under way, or nothing before the start and after the completion.
- `ServerInv` (`TcpServerStream`).  An operation is in one place: held until a
  client is there, on the socket, or posted to be told; so it is told once,
  through the loss of a client and a cancel.
- `TimerInv` (`RepeatingTimer`).  The service's queue is sorted by time, so that
  `SetTime` takes all that is due; a timer that is started has one wait, or the
  end of one is posted, and its time lies on its rate; of a canceled timer no
  more calls are posted than were left at the cancel.
- `ExecutorInv` (`RealtimeExecutor`).  `work` counts the handlers that wait and
  those that run; while the options stay, the idle timer is on as long as it is
  not zero, and the event timer in a handler until a callback it runs inline ends.
- `CopyInv` (`StreamCopy`), for each direction.  The bytes at the places from the
  writer to the reader are consecutive runs of those written (`Flow`); the
  user's operation is absent, waits in the pipe or has ended; the copy
  reads, has read, writes, has written or failed, and its buffer holds what
  that phase says; an end is told once, and nothing fails without a cancel.
  `NoStandoff` follows: of a read and a write that meet in a pipe one is served
  at once, so that two never wait there together.

`HostIoAssumption` asks for periods, bounds and sizes that are naturals, and for a
copy buffer that is not empty.

`ThreadWriterProofs`.  `IInv` adds what the program counters of the two threads
say of the queue and of the buffer in the child's hand (`Threads`), that the
circular buffer does not exceed its capacity, and what the reclaimer and
`child_offset_` know of the file (`Counted`).  The sum of the sizes is a
recursive function; that it has a value, and what `fwrite` adds to it, is proved
first.  For the refinement the log is the concatenation of what the kernel,
stdio, the child and the queue hold, so a step of the child only moves a
boundary and is a stutter of `AppendLog`.

`StreamAsioClientProofs`.  `IInv` is the conjunction of
- `LockInv`: where the holder of the lock is (six phases: besides those of
  `ExclusiveCommand`, in the frame stream, in a posted wrapper, or nowhere,
  because its wrapper was dropped), and the order of jobs as above;
- `SequenceInv`: request i of a sequence is invoked when those before it are
  finished, a read job when it has a context;
- `ContextInv`, `NonceInv`, `TimerInv`: which context `read_context_` is, which
  job each nonce is, and that a context waits for `poll_timer_` at most once and
  after its job is over;
- `AnswerInv`: `tx_frame_` still has the address of the request whose answer is
  awaited, and every answer comes from the server its job was sent to.

The lock's properties are those of the instance `Lock`, whose `posted` is a
filter of this module's; that a filter commutes with concatenation is proved in
`SequenceFacts`.

`StreamAsioOutcomeProofs`.  An operation is *owed* an answer while one of its
jobs is not finished, one of its polls is live (queued, in the stream or waiting
for the timer), or `write_handler_` is its handler.  `OneAnswerInv` counts the
calls made and the calls posted: one at most, and none while one is owed.  The
rest of `OutcomeInv` says that a read has at most one live poll, that a
transmission is a block or a sequence but never both, and that a call is posted
only for an operation that was started, so that the user's next operation finds
none.  The places where the code could call twice are the steps in which an
operation stops being owed: an answer, a timeout or a cancel takes exactly one
of its places away when it posts the call.  For the bytes, `BytesInv` orders
what was delivered, what the poll in progress has taken and what is on its way;
a poll that is over or canceled has nothing in this order any more.
`CountInv` is about `bytes_read`, which counts the bytes of an answer also when
they do not fit the buffer.  While the job of a poll goes on everything that came
did fit (`Fits`): it reads on only if the answer was smaller than what is left of
the buffer.  The last answer may overflow it, and then the buffer is full while
`bytes_read` is larger (`Counted`).  `TunnelIsInOrder` says both, the order and
the count, for answers and buffers of any size.

`MicroStreamDatagramProofs`.  The messages are any sequence that
`MessagesAssumption` allows (bytes below twice `Base`, a payload whose size takes
at most two bytes), the noise any set of bytes.  Two inductive invariants:
- `OrderInv`, for any line.  A byte of a frame on the line or in the buffer
  carries its message and its place; those of one message are in order, those
  of a later message come later, and every frame that was handed out is before
  all of them.  The CRC accepts a piece only if it is the whole of one
  frame, and the parser always consumes what it hands out; so frames come out
  in order, once, with their own ids and payload (`OwnersGetWhatWasSent`).
- `AlignInv`, while the line has had no fault.  The buffer and the line together
  are the rest of the stream that was sent, and it begins at the first byte of a
  frame.  `TryEmitOneFrame` then finds the header at once, the size it reads is
  the one that was written (`ReadVaruint` inverts the encoder), and the
  checksum matches; so it never resynchronises, and an owner that waits with an
  empty line has been given everything.

`NoChecksumFails` and `EveryFrameArrives` have the hypothesis `AllFit`: every
frame fits the buffer and the limit of 4096 bytes.  It is needed: the
size of a frame that does not fit empties the buffer (micro_stream_datagram.cc:220),
and the rest of that frame is searched for another one.

`FrameStreamsProofs`.  The three streams answer a read in the same few ways: a
frame, a timer, a cancel or an error moves `current` to a posted callback, and
the executor moves that to the user.  The lemmas `MoveAsk`, `MovePost`,
`MoveRun` and `MoveTell` say for one read what such a move does to the number
of its answers; an action of a stream is then a matter of naming its moves.
A stale timer handler makes no difference to the count: it moves whatever read
is current, which is why the theorem holds although `AbortedInTime` does not.
The proof is for any messages, noise, batches and bounds.

`SequenceFacts` has what all need of sequences and of the filter `Keep`.
Induction over naturals and over sequences is stated there for a set instead of
a predicate (`NatSetInduction`, `SeqSetInduction`), derived from the library's
theorems on well-founded relations: in this form the provers can use it.

Only model-checked: all liveness properties (fairness and ENABLED are outside
the prover's reach), and the modules not named above.  The codecs and what
is built on them (`Registers`, `MicroServer`, `MultiplexTool`, `PythonClient`,
`PersistentConfig`, `TelemetryReader`, `TelemetrySchema`, `Json5`) use recursive
operators over their data; a module that reaches one cannot have theorems, so
they stay with TLC.

### What to prove next

1. `CallbackTable.HandlersRight`, whose invariant is close to inductive as it
   stands.
2. `FramesDelivered` of the CAN streams, of which the text lines of the adapter
   are the hard part.

## Disagreements between code and comments

`PROJECT.json` lists them under `findings`, each with the line of the code, the
quoted comment and the run that shows it: the wrapper that a canceled tunnel
read drops, the false start after which a datagram reader waits for nothing,
the timer handler that meets the next read, the read subframe whose bytes are
executed when there is no response, and the record that a seek leaves out after
its schema was written again.

The code disagrees with comments of the repository in these places too.  Here a
property states what the code does, and names the exception where there is one:

- `bytes_read` of a tunnel read exceeds the buffer when a second answer does not
  fit the rest of it (stream_asio_client.cc:438): `BytesCounted`.
- The job of a read canceled before it runs clears the nonce of the read made
  since (stream_asio_client.cc:246), which a cancel then does not find and which
  is never told, against lines 333-336: `CanceledReadIsTold`, `NonceLost`.
- A reply names the registers up to the first read that fails or write that
  discards, where multiplex/format.h:95-98 has "each requested register is named
  exactly once": `AsAsked`, `MeaningOfFailedRead`.
- The previous offset of a data block is 0 after its schema was written again,
  where telemetry/format.h:90-92 has "0 if no such block exists", and a seek block
  leaves such an identifier out: `LinksRight`, `SchemaCameBetween`.
- The event timer is off for the rest of a handler that ran a callback inline,
  where realtime_executor.h:30-34 has "Individual events are timed":
  `TimersMatchWork`.
- The Python client numbers its read subframes 0x18..0x1f and its writes
  0x10..0x17 (multiplex_protocol.py:37-65), where multiplex/format.h:73-81 has
  reads at 0x10..0x1f and writes at 0x00..0x0f: a device takes such a write for a
  read.  `PythonClient` has its own numbers, and no property relates the two.

Other behaviours are known and are not the subject of a run; `hazards` has them
at their lines, and the properties that meet them say what they except:

- A `Poll` that starts after `Queue` returned may spend `count_` on another
  event and return without running the queued one (a later `Poll` runs it); and
  `Queue` may take the entries for full although one was free all the time.
- The late reply of a server to a request that timed out is taken for the reply
  to the next request to that server.
- A datagram with a two-byte size field and the largest payload that is accepted
  does not fit the buffer; a stray first header byte directly before an RS485
  frame makes the parser discard that frame; an RS485 size of 2^32 - 1 wraps.
- A configuration whose write is interrupted is lost from the group on that was
  being written, and that group may be damaged, as its data has no checksum.
  Nothing compares the size that `write` programs with that of the flash
  (persistent_config.cc:396-423).
- A filter of a log reader does not apply to a record whose schema the reader
  learned from someone else after the range was made; a last block that is cut in
  its data and has no checksum may be yielded with whatever it decodes to
  (`TornItem`).
- `EmitJson` prints nothing for a map, and a map is not read across schemas.
- A `Callback` that owns a slot and is assigned another leaks the slot; a
  `RealtimeExecutor` whose options change while there is work leaves a timer
  running; an entry of a tool command before a delay is dropped.

## Not modelled

`base/` conversions and wrappers (inifile, tokenizer, streams, time), containers
of `micro/` without a protocol, `Selector`, the set-up of serial ports, the
console and GUI front ends, vendored code and headers.  They keep no state
across calls or pass every call on.  Completions of writes that only call the
user back (`MicroStreamDatagram`, `Rs485FrameStream`) are left out, as are
failures that throw or abort at once, an accept that fails and an end of file
reported to a write (stream_factory_tcp_server.cc:142-148), and characters that
are not ASCII in JSON5, at which the reader ends the process
(json5_read_archive.h:417-419).  The space and comments of the JSON5 texts stand
where the writer breaks lines, and `MappedBinaryReader` is given arrays of a
fixed size for arrays of the same size only.  Floats appear as the bytes they travel
as.  Memory orders weaker than sequential consistency do not occur in the
modelled code.
