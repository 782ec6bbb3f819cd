------------------------------ MODULE MCHostIo ------------------------------
(* The host's asynchronous helpers, each on its own: "which" tells which    *)
(* one a behaviour is about, one of the Parts.                              *)
EXTENDS ExclusiveCommand

CONSTANTS
  Parts,
  Period, MaxTime, MaxStarts,    \* of RepeatingTimer
  MaxItems,                      \* of AsyncSequence
  MaxWork, MaxExecutes,          \* of RealtimeExecutor
  ReadSizes, WriteSizes, CopySize, MaxBytes, MaxCancels,   \* of StreamCopy
  MaxClients, MaxOps             \* of TcpServerStream

ASSUME HostIoAssumption ==
  /\ Period \in [DOMAIN Period -> Nat]
  /\ {MaxTime, MaxStarts, MaxItems, MaxWork, MaxExecutes, MaxBytes, MaxCancels, MaxClients,
      MaxOps} \subseteq Nat
  /\ ReadSizes \subseteq Nat /\ WriteSizes \subseteq Nat
  /\ CopySize \in Nat \ {0}

VARIABLES
  which,
  now, queue, expires, callback, timed, starts, history,
  sequence, added, completion, steps, outstanding, called, results,
  handed, inHandler, work, options, eventTimer, idleTimer, nested, mixed, executes,
  read, write, events, busy, copying, done, wrote, got, cancels, ended,
  type, creating, answered, accepting, started, connected, held, onSocket, handlers,
  told, client, clients, ops

timerVars == <<now, queue, expires, callback, timed, starts, history>>
sequenceVars == <<sequence, added, completion, steps, outstanding, called, results>>
executorVars == <<handed, inHandler, work, options, eventTimer, idleTimer, nested, mixed,
                  executes>>
copyVars == <<read, write, events, busy, copying, done, wrote, got, cancels, ended>>
serverVars == <<type, creating, answered, accepting, started, connected, held, onSocket,
                handlers, told, client, clients, ops>>
allVars == <<which, vars, timerVars, sequenceVars, executorVars, copyVars, serverVars>>

-----------------------------------------------------------------------------
MCPeriod == <<1, 2>>

Timer == INSTANCE RepeatingTimer WITH posted <- timed

Sequence == INSTANCE AsyncSequence WITH posted <- steps, running <- outstanding

Executor == INSTANCE RealtimeExecutor WITH waiting <- handed

Copy == INSTANCE StreamCopy WITH posted <- events

Server == INSTANCE TcpServerStream WITH queued <- held, posted <- told

-----------------------------------------------------------------------------
(* The variables of the parts that a behaviour is not about. *)

TimerIdle ==
  /\ now = 0 /\ queue = 0 /\ expires = 0 /\ callback = 0 /\ timed = 0
  /\ starts = 0 /\ history = 0
SequenceIdle ==
  /\ sequence = 0 /\ added = 0 /\ completion = 0 /\ steps = 0 /\ outstanding = 0
  /\ called = 0 /\ results = 0
ExecutorIdle ==
  /\ handed = 0 /\ inHandler = 0 /\ work = 0 /\ options = 0 /\ eventTimer = 0
  /\ idleTimer = 0 /\ nested = 0 /\ mixed = 0 /\ executes = 0
CopyIdle ==
  /\ read = 0 /\ write = 0 /\ events = 0 /\ busy = 0 /\ copying = 0 /\ done = 0
  /\ wrote = 0 /\ got = 0 /\ cancels = 0 /\ ended = 0
ServerIdle ==
  /\ type = 0 /\ creating = 0 /\ answered = 0 /\ accepting = 0 /\ started = 0
  /\ connected = 0 /\ held = 0 /\ onSocket = 0 /\ handlers = 0 /\ told = 0
  /\ client = 0 /\ clients = 0 /\ ops = 0

\* What is left of ExclusiveCommand is its initial state.
AllInit ==
  /\ which \in Parts
  /\ Init
  /\ IF which = "timer" THEN Timer!Init ELSE TimerIdle
  /\ IF which = "sequence" THEN Sequence!Init ELSE SequenceIdle
  /\ IF which = "executor" THEN Executor!Init ELSE ExecutorIdle
  /\ IF which = "copy" THEN Copy!Init ELSE CopyIdle
  /\ IF which = "server" THEN Server!Init ELSE ServerIdle

OtherVars == <<which, timerVars, sequenceVars, executorVars, copyVars, serverVars>>

CommandStep == which = "command" /\ Next /\ UNCHANGED OtherVars

TimerStep ==
  /\ which = "timer" /\ Timer!Next
  /\ UNCHANGED <<which, vars, sequenceVars, executorVars, copyVars, serverVars>>

SequenceStep ==
  /\ which = "sequence" /\ Sequence!Next
  /\ UNCHANGED <<which, vars, timerVars, executorVars, copyVars, serverVars>>

ExecutorStep ==
  /\ which = "executor" /\ Executor!Next
  /\ UNCHANGED <<which, vars, timerVars, sequenceVars, copyVars, serverVars>>

CopyStep ==
  /\ which = "copy" /\ Copy!Next
  /\ UNCHANGED <<which, vars, timerVars, sequenceVars, executorVars, serverVars>>

ServerStep ==
  /\ which = "server" /\ Server!Next
  /\ UNCHANGED <<which, vars, timerVars, sequenceVars, executorVars, copyVars>>

AllNext ==
  \/ CommandStep \/ TimerStep \/ SequenceStep \/ ExecutorStep \/ CopyStep \/ ServerStep

RunPosted ==
  /\ which = "command" /\ (RunInvoke \/ RunInvokeAtOnce \/ ItemDone)
  /\ UNCHANGED OtherVars

CompleteIt(c) == which = "command" /\ Complete(c) /\ UNCHANGED OtherVars

\* The executor keeps running, and "this handler must be called when the
\* operation is complete".
AllFairness == WF_allVars(RunPosted) /\ \A c \in Commands : WF_allVars(CompleteIt(c))

AllSpec == AllInit /\ [][AllNext]_allVars /\ AllFairness

-----------------------------------------------------------------------------
\* AsyncSequence, StreamCopy and TcpServerStream: operations are done in
\* order, each once, and none is lost when another one fails, is canceled or
\* has to wait.
StreamsKept ==
  /\ which = "sequence" => Sequence!OneAfterAnother
  /\ which = "copy" => Copy!CopiedInOrder /\ Copy!NoStandoff
  /\ which = "server" => Server!OperationsKept

\* RepeatingTimer keeps its rate until it is canceled and is quiet then; the
\* idle timer of RealtimeExecutor runs exactly while there is work, the event
\* timer only in handlers, and throughout those that run no other inline (of
\* the rest of a handler that did, see TimersMatchWork).
RatesKept ==
  /\ which = "timer" => Timer!KeepsRate /\ Timer!QuietAfterCancel
  /\ which = "executor" => Executor!TimersMatchWork
=============================================================================
