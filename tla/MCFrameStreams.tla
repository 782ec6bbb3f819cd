--------------------------- MODULE MCFrameStreams ---------------------------
(* The client's side of the bus: the three implementations of FrameStream   *)
(* and StreamAsioClient, which uses one, each on its own: "which" tells     *)
(* which one a behaviour is about, one of the Parts.                        *)
(*                                                                          *)
(* Rs485FrameStream with bytes 0..7: a varuint byte below 4 is its last;    *)
(* the header is 3, 5.                                                      *)
EXTENDS Rs485FrameStream

CONSTANTS
  Parts, None,
  CanMessages,         \* Messages of the streams over CAN-FD
  CanBatches,          \* and their Batches
  FdcanusbWrites, SocketcanWrites, SocketcanErrors,   \* bounds
  MaxLineLength

VARIABLES
  which,
  writes, oks, unanswered, writing, onBus, wrote, errors,
  waiting, queued, calls, finished, removed, order, fs, txDest, ctx, readContext,
  readNonce, writeNonce, writeHandler, pollTimer, reply, outcome, bus, inbox,
  tunneled, delivered, aborts, failed

canVars == <<writes, oks, unanswered, writing, onBus, wrote, errors>>
clientVars == <<waiting, queued, calls, finished, removed, order, fs, txDest, ctx,
                readContext, readNonce, writeNonce, writeHandler, pollTimer, reply,
                outcome, bus, inbox, tunneled, delivered, aborts, failed>>
allVars == <<which, vars, canVars, clientVars>>

MCMessages ==
  << [source |-> 1, dest |-> 2, payload |-> <<>>, crc |-> <<0, 6>>],
     [source |-> 2, dest |-> 1, payload |-> <<3, 5>>, crc |-> <<3, 1>>] >>

\* Nothing, bytes that do not start a header, a false start, a header whose
\* frame ends inside the first message, and one whose frame ends in the
\* second.
MCNoises == {<<>>, <<6, 5>>, <<3, 0>>, <<3, 5, 1, 1, 1, 0>>, <<3, 5, 1, 1, 5, 2>>}

\* One that fits a CAN-FD frame exactly, and one that is padded.
MCCanMessages ==
  << [source |-> 1, dest |-> 127, reply |-> TRUE, payload |-> <<7>>],
     [source |-> 127, dest |-> 2, reply |-> FALSE,
      payload |-> <<255, 16, 80, 1, 2, 3, 4, 5, 160>>] >>

Fdcanusb == INSTANCE FdcanusbFrameStream WITH
  Messages <- CanMessages, Batches <- CanBatches, MaxWrites <- FdcanusbWrites
Socketcan == INSTANCE SocketcanFrameStream WITH
  Messages <- CanMessages, Batches <- CanBatches, MaxWrites <- SocketcanWrites,
  MaxErrors <- SocketcanErrors

\* "t1" asks a server, "t2" writes to two without a reply; the tunnel has two
\* reads, the second of which may be started after a cancel of the first.
Client == INSTANCE StreamAsioClient WITH
  posted <- calls, sent <- tunneled, cancels <- aborts,
  Transmits <- {"t1", "t2"}, Reads <- {"r1", "r2"}, Writes <- {}, TunnelId <- 1,
  Rooms <- {2}, MaxPolls <- 2, MaxCancels <- 2, MaxBytes <- 1, MaxChunk <- 1, WriteErrors <- FALSE,
  Requests <- [t1 |-> <<[id |-> 2, reply |-> TRUE]>>,
               t2 |-> <<[id |-> 1, reply |-> FALSE], [id |-> 2, reply |-> FALSE]>>]

\* What is left of a stream while another part runs.
Rs485Idle == cancels = 0 /\ elapsed = {} /\ canceled = {} /\ discarded = {} /\ short = FALSE
FdcanusbIdle == streambuf = <<>> /\ oks = 0 /\ unanswered = <<>>
SocketcanIdle == writing = <<>> /\ onBus = <<>> /\ wrote = <<>> /\ errors = 0

AllInit ==
  /\ which \in Parts
  /\ Client!Init
  /\ \/ which = "rs485" /\ Init /\ SocketcanIdle /\ writes = 0 /\ oks = 0 /\ unanswered = <<>>
     \/ which = "fdcanusb" /\ Fdcanusb!Init /\ Rs485Idle /\ SocketcanIdle
     \/ which \in {"socketcan", "client"} /\ Socketcan!Init /\ Rs485Idle /\ FdcanusbIdle

Rs485Step == which = "rs485" /\ Next /\ UNCHANGED <<which, canVars, clientVars>>

FdcanusbStep ==
  /\ which = "fdcanusb" /\ Fdcanusb!Next
  /\ UNCHANGED <<which, cancels, historyVars, discarded, short, writing, onBus, wrote, errors,
                 clientVars>>

SocketcanStep ==
  /\ which = "socketcan" /\ Socketcan!Next
  /\ UNCHANGED <<which, cancels, historyVars, discarded, short, streambuf, oks, unanswered,
                 clientVars>>

ClientStep == which = "client" /\ Client!Next /\ UNCHANGED <<which, vars, canVars>>

AllNext == Rs485Step \/ FdcanusbStep \/ SocketcanStep \/ ClientStep

RunPosted ==
  \/ /\ which = "rs485" /\ ~short /\ (RunCallback \/ HandleTimer)
     /\ UNCHANGED <<which, canVars, clientVars>>
  \/ /\ which = "fdcanusb"
     /\ Fdcanusb!HandleTimer \/ (Fdcanusb!RunCallback /\ UNCHANGED <<streambuf, oks, unanswered>>)
     /\ UNCHANGED <<which, cancels, historyVars, discarded, short, writing, onBus, wrote, errors,
                    clientVars>>
  \/ /\ which = "socketcan"
     /\ \/ Socketcan!HandleTimer \/ Socketcan!RunWriteCallback
        \/ Socketcan!RunCallback /\ UNCHANGED <<writing, onBus, wrote, errors>>
     /\ UNCHANGED <<which, cancels, historyVars, discarded, short, streambuf, oks, unanswered,
                    clientVars>>
  \/ /\ which = "client" /\ failed = "no" /\ Client!Executor
     /\ UNCHANGED <<which, vars, canVars>>

TimePasses ==
  \/ /\ which = "rs485" /\ ~short /\ TimerExpires
     /\ UNCHANGED <<which, canVars, clientVars>>
  \/ /\ which \in {"fdcanusb", "socketcan"} /\ Fdcanusb!TimerExpires
     /\ UNCHANGED <<which, cancels, historyVars, discarded, short, streambuf, oks,
                    unanswered, writing, onBus, wrote, errors, clientVars>>
  \/ /\ which = "client" /\ failed = "no" /\ Client!FrameStream
     /\ UNCHANGED <<which, vars, canVars>>

\* The executor runs what is posted; time passes, and a frame stream ends
\* what its client asked for, a read by its timeout if not by a frame.
AllFairness == WF_allVars(RunPosted) /\ WF_allVars(TimePasses)

AllSpec == AllInit /\ [][AllNext]_allVars /\ AllFairness

\* Of each stream: a read has one answer, and one that waits has a read of
\* the descriptor outstanding, whether a frame, the timeout, a cancel or an
\* error came first.
ReadsAnswered ==
  /\ which = "rs485" => OneAnswerEach /\ ReaderServed
  /\ which = "fdcanusb" => Fdcanusb!OneAnswerEach
  /\ which = "socketcan" => Socketcan!OneAnswerEach

\* Of each stream: the reads are given the peer's messages, in order, as they
\* were sent but for padding, and the resynchronisation of Rs485FrameStream
\* skips none.  SocketcanFrameStream: a write is answered once, and "ok" only
\* when every frame of the batch is on the bus, in order.
FramesDelivered ==
  /\ which = "rs485" => NoFrameLost
  /\ which = "fdcanusb" => Fdcanusb!FramesAsSent
  /\ which = "socketcan" => Socketcan!FramesAsSent /\ Socketcan!WritesComplete

\* frame_stream.h:42-44: a read is told operation_aborted "after that much
\* time has elapsed", or because of a cancel.
AbortedInTime == which = "rs485" => AbortedForItsOwnReason

\* StreamAsioClient: a request completes, unless a read poll that is canceled
\* between its post and its run keeps the lock, or the process ends.
CompletesUnlessDropped == which = "client" => Client!CompletesUnlessDropped

\* StreamAsioClient: a tunnel read that is canceled has its handler invoked,
\* wherever the cancel finds it, except for a read whose nonce the job of a
\* read canceled before it has cleared (stream_asio_client.cc:246).
CanceledReadIsTold == which = "client" => Client!CanceledReadIsTold
=============================================================================
