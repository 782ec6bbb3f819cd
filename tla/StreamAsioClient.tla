-------------------------- MODULE StreamAsioClient --------------------------
(***************************************************************************)
(* mjlib/multiplex/stream_asio_client.cc: register requests and one tunnel *)
(* of a client share a frame stream (and the members tx_frame_, rx_frame_) *)
(* through an ExclusiveCommand.  Everything runs in the callbacks of one   *)
(* executor; the frame stream, the servers on the bus and the user are     *)
(* external.                                                               *)
(*                                                                         *)
(* A user operation is an AsyncTransmit, a tunnel read or a tunnel write.  *)
(* A job is one use of the lock: a block of requests without replies, one  *)
(* request of a sequence, one poll of the tunnel (an operation that gets   *)
(* no data polls again, with a new context), or one tunnel write.          *)
(***************************************************************************)
EXTENDS Integers, Sequences, FiniteSets, SequencesExt, SequenceFilter

CONSTANTS
  Transmits,    \* AsyncTransmit calls the user makes
  Requests,     \* Requests[c]: a sequence of [id, reply]
  Reads,        \* async_read_some calls the user makes
  Writes,       \* async_write_some calls the user makes
  TunnelId,     \* the id_ of the tunnel
  Rooms,        \* sizes of the buffers given to the tunnel's operations
  MaxPolls,     \* bound: read contexts, i.e. polls of the tunnel
  MaxCancels,   \* bound: cancel() calls
  MaxBytes,     \* bound: bytes the server has for the tunnel
  MaxChunk,     \* bound: bytes in one answer of the tunnel
  WriteErrors,  \* whether writes to the frame stream may fail
  None          \* a null pointer or an empty function

VARIABLES
  waiting, queued,            \* the ExclusiveCommand lock_
  posted,                     \* callbacks posted to the executor
  finished, removed, order,   \* histories of the lock's jobs
  fs,                         \* the frame stream's operation in progress
  txDest,                     \* tx_frame_.dest_id
  ctx,                        \* the ReadContexts
  readContext,                \* read_context_
  readNonce, writeNonce,      \* read_nonce_, write_nonce_
  writeHandler,               \* write_handler_
  pollTimer,                  \* the context that waits for poll_timer_
  reply,                      \* reply[c]: the answers put in *reply
  outcome,                    \* outcome[u]: what the handlers of u were told
  bus,                        \* requests on their way to the servers
  inbox,                      \* answers on their way to the client
  sent,                       \* bytes the server has sent in the tunnel
  delivered,                  \* history: bytes given to the reader
  cancels,                    \* cancel() calls made
  failed                      \* why the process aborted, or "no"

lockVars == <<waiting, queued, finished, removed, order>>
tunnelVars == <<ctx, readContext, readNonce, writeNonce, writeHandler,
                pollTimer>>
wireVars == <<bus, inbox, sent>>
vars == <<lockVars, posted, fs, txDest, tunnelVars, reply, outcome, wireVars,
          delivered, cancels, failed>>

Users == Transmits \cup Reads \cup Writes

BlockJob(c) == <<"block", c, 0>>
RegisterJob(c, i) == <<"register", c, i>>
ReadJob(n) == <<"read", None, n>>
WriteJob(w) == <<"write", w, 0>>

BlockJobs == {BlockJob(c) : c \in Transmits}
RegisterJobs ==
  UNION {{RegisterJob(c, i) : i \in DOMAIN Requests[c]} : c \in Transmits}
ReadJobs == {ReadJob(n) : n \in 1..MaxPolls}
WriteJobs == {WriteJob(w) : w \in Writes}
Jobs == BlockJobs \cup RegisterJobs \cup ReadJobs \cup WriteJobs

ASSUME UsersAssumption ==
  Transmits \cap Reads = {} /\ Transmits \cap Writes = {} /\ Reads \cap Writes = {}
ASSUME RequestsAssumption ==
  \A c \in Transmits :
    /\ Len(Requests[c]) \in Nat /\ DOMAIN Requests[c] = 1..Len(Requests[c])
    /\ \A i \in DOMAIN Requests[c] : Requests[c][i].reply \in BOOLEAN
ASSUME NoneAssumption == None \notin Jobs /\ None \notin Users /\ None \notin Nat
ASSUME BoundsAssumption ==
  /\ Rooms \subseteq Nat /\ WriteErrors \in BOOLEAN
  /\ {MaxPolls, MaxCancels, MaxBytes, MaxChunk} \subseteq Nat

\* The callbacks that ExclusiveCommand posts.
LockCalls ==
  {[op |-> "invoke", command |-> j] : j \in Jobs} \cup {[op |-> "done", command |-> None]}

Lock == INSTANCE ExclusiveCommand
          WITH Commands <- Jobs,
               posted <- Keep(posted, LockCalls),
               running <- IF waiting # None /\ waiting \notin ToSet(finished)
                             /\ \A i \in DOMAIN posted : posted[i].op # "invoke"
                          THEN {waiting} ELSE {},
               failed <- FALSE

\* The other callbacks that are posted: a user's handler, the wrapper of a
\* register job and the handler of poll_timer_.
UserCall(u, ec) == [op |-> "user", who |-> u, ec |-> ec]
WrapCall(job, ec) == [op |-> "wrap", job |-> job, ec |-> ec]
TimerCall(n) == [op |-> "timer", ctx |-> n]

Idle == [op |-> "idle", job |-> None]
Writing(job) == [op |-> "write", job |-> job]
Reading(job) == [op |-> "read", job |-> job]

Init ==
  /\ waiting = None /\ queued = <<>> /\ posted = <<>>
  /\ finished = <<>> /\ removed = {} /\ order = <<>>
  /\ fs = Idle /\ txDest = None
  /\ ctx = <<>> /\ readContext = None /\ readNonce = None
  /\ writeNonce = None /\ writeHandler = None /\ pollTimer = None
  /\ reply = [c \in Transmits |-> <<>>]
  /\ outcome = [u \in Users |-> <<>>]
  /\ bus = <<>> /\ inbox = <<>> /\ sent = 0
  /\ delivered = <<>> /\ cancels = 0 /\ failed = "no"

-----------------------------------------------------------------------------
(* Uses of the lock.  ps is what the handler posts before. *)

LockInvoke(job, ps) ==
  LET next == Lock!StartNext(waiting, Append(queued, job)) IN
    /\ waiting' = next.waiting
    /\ queued' = next.queued
    /\ posted' = ps \o next.post
    /\ order' = Append(order, job)

\* Fault: the wrapper is called twice.
FinishTwice(job, ps) ==
  /\ posted' = ps \o <<Lock!DoneCall, Lock!DoneCall>>
  /\ finished' = Append(finished, job)

\* Fault: the wrapper does not post ItemDone.
FinishSilently(job, ps) ==
  /\ posted' = ps
  /\ finished' = Append(finished, job)

\* HandlerWrapper: ItemDone is posted after the job's handler has run.
Finish(job, ps) ==
  /\ posted' = Append(ps, Lock!DoneCall)
  /\ finished' = Append(finished, job)

ItemDone ==
  /\ posted # <<>> /\ Head(posted) = Lock!DoneCall
  /\ LET next == Lock!StartNext(None, queued) IN
       /\ waiting' = next.waiting
       /\ queued' = next.queued
       /\ posted' = Tail(posted) \o next.post
  /\ UNCHANGED <<finished, removed, order, fs, txDest, tunnelVars, reply,
                 outcome, wireVars, delivered, cancels, failed>>

\* A user's handler is invoked.
Tell(u, ec) == outcome' = [outcome EXCEPT ![u] = Append(@, ec)]

\* The frame stream is given an operation; two at once would share tx_frame_
\* or rx_frame_.
Start(operation) ==
  /\ fs' = operation
  /\ failed' = IF fs = Idle THEN failed ELSE "overlap"

-----------------------------------------------------------------------------
(* Register requests *)

AnyReplies(c) == \E i \in DOMAIN Requests[c] : Requests[c][i].reply

AsyncTransmit(c) ==
  /\ outcome[c] = <<>>
  /\ {BlockJob(c), RegisterJob(c, 1)} \cap ToSet(order) = {}
  /\ LockInvoke(IF AnyReplies(c) THEN RegisterJob(c, 1) ELSE BlockJob(c),
                posted)
  /\ reply' = [reply EXCEPT ![c] = <<>>]
  /\ UNCHANGED <<finished, removed, fs, txDest, tunnelVars, outcome,
                 wireVars, delivered, cancels, failed>>

\* The posted wrapper of a register job: the lambda "next" of
\* SequenceRegister goes on with the remaining requests, or reports.
RunWrap ==
  /\ posted # <<>> /\ Head(posted).op = "wrap"
  /\ LET job == Head(posted).job
         c == job[2]
         i == job[3]
         ec == Head(posted).ec
     IN IF ec = "ok" /\ i < Len(Requests[c])
        THEN /\ queued' = Append(queued, RegisterJob(c, i + 1))
             /\ order' = Append(order, RegisterJob(c, i + 1))
             /\ Finish(job, Tail(posted))
        ELSE /\ Finish(job, Append(Tail(posted), UserCall(c, ec)))
             /\ UNCHANGED <<queued, order>>
  /\ UNCHANGED <<waiting, removed, fs, txDest, tunnelVars, reply, outcome,
                 wireVars, delivered, cancels, failed>>

RunUser ==
  /\ posted # <<>> /\ Head(posted).op = "user"
  /\ Tell(Head(posted).who, Head(posted).ec)
  /\ posted' = Tail(posted)
  /\ UNCHANGED <<lockVars, fs, txDest, tunnelVars, reply, wireVars,
                 delivered, cancels, failed>>

-----------------------------------------------------------------------------
(* The tunnel *)

\* room is what is left of the buffers, size (a history) what the user gave.
NewContext(u, room) ==
  [user |-> u, room |-> room, size |-> room, canceled |-> FALSE, bytes |-> 0,
   data |-> <<>>]

\* async_read_some, called by the user or by the poll timer's handler.
ReadSome(u, room, ps) ==
  LET n == Len(ctx) + 1 IN
    /\ n <= MaxPolls
    /\ ctx' = Append(ctx, NewContext(u, room))
    /\ readContext' = n
    /\ readNonce' = ReadJob(n)
    /\ LockInvoke(ReadJob(n), ps)

\* Whether operation u was started: it is told at most once.
Untouched(u) ==
  /\ outcome[u] = <<>>
  /\ \A n \in DOMAIN ctx : ctx[n].user # u
  /\ WriteJob(u) \notin ToSet(order) \cup removed
  /\ \A i \in DOMAIN posted : posted[i] # UserCall(u, "ok")

TunnelRead(u) ==
  /\ Untouched(u)
  /\ readContext = None
  /\ \E room \in Rooms :
       IF room = 0
       THEN /\ posted' = Append(posted, UserCall(u, "ok"))
            /\ UNCHANGED <<waiting, queued, order, ctx, readContext, readNonce>>
       ELSE ReadSome(u, room, posted)
  /\ UNCHANGED <<finished, removed, fs, txDest, writeNonce, writeHandler,
                 pollTimer, reply, outcome, wireVars, delivered, cancels,
                 failed>>

TunnelWrite(u) ==
  /\ Untouched(u)
  /\ writeHandler = None
  /\ \E room \in Rooms :
       IF room = 0
       THEN /\ posted' = Append(posted, UserCall(u, "ok"))
            /\ UNCHANGED <<waiting, queued, order, writeHandler, writeNonce>>
       ELSE /\ writeHandler' = u
            /\ writeNonce' = WriteJob(u)
            /\ LockInvoke(WriteJob(u), posted)
  /\ UNCHANGED <<finished, removed, fs, txDest, ctx, readContext, readNonce,
                 pollTimer, reply, outcome, wireVars, delivered, cancels,
                 failed>>

\* Fault: the handler is posted wherever the cancel finds the read.
AbortReadAlways ==
  IF readContext # None
  THEN <<UserCall(ctx[readContext].user, "aborted")>> ELSE <<>>

\* The handlers that cancel() posts: of a read the lock had not started...
AbortRead ==
  IF readNonce \in ToSet(queued)
  THEN <<UserCall(ctx[readContext].user, "aborted")>> ELSE <<>>

\* Fault: the wait for poll_timer_ is dropped without its handler.
WakePollForgotten == <<>>

\* ...of the wait for poll_timer_...
WakePoll == IF pollTimer # None THEN <<TimerCall(pollTimer)>> ELSE <<>>

\* ...and of a write the lock had not started.
AbortWrite ==
  IF writeNonce \in ToSet(queued)
  THEN <<UserCall(writeHandler, "aborted")>> ELSE <<>>

Without(seq, jobs) == Keep(seq, Jobs \ jobs)

\* cancel(): jobs still queued are removed and their handlers posted; the
\* context of a read in progress is marked, the wait for poll_timer_ ends.
Cancel ==
  LET gone == {readNonce, writeNonce} \cap ToSet(queued)
  IN /\ cancels < MaxCancels
     /\ cancels' = cancels + 1
     /\ ctx' = IF readContext # None
               THEN [ctx EXCEPT ![readContext].canceled = TRUE] ELSE ctx
     /\ queued' = Without(queued, gone)
     /\ order' = Without(order, gone)
     /\ removed' = removed \cup gone
     /\ posted' = posted \o AbortRead \o WakePoll \o AbortWrite
     /\ pollTimer' = None
     /\ readContext' = None
     /\ writeHandler' = None
     /\ readNonce' = None
     /\ writeNonce' = None
     /\ UNCHANGED <<waiting, finished, fs, txDest, reply, outcome, wireVars,
                    delivered, failed>>

\* MaybeRetry() for context n: report an abort or the data, or wait for the
\* poll timer.  It is the handler of the lock, so ItemDone is posted after.
MaybeRetry(n, newCtx, ps) ==
  LET c == newCtx[n] IN
    /\ ctx' = newCtx
    /\ Finish(ReadJob(n),
              IF c.canceled THEN Append(ps, UserCall(c.user, "aborted"))
              ELSE IF c.bytes > 0 THEN Append(ps, UserCall(c.user, "ok"))
              ELSE ps)
    /\ delivered' = IF c.canceled THEN delivered ELSE delivered \o c.data
    /\ readContext' = IF ~c.canceled /\ c.bytes > 0 THEN None ELSE readContext
    /\ pollTimer' = IF ~c.canceled /\ c.bytes = 0 THEN n ELSE pollTimer

\* poll_timer_ expires: its handler is posted.
PollTimerExpires ==
  /\ pollTimer # None
  /\ Len(ctx) < MaxPolls
  /\ posted' = Append(posted, TimerCall(pollTimer))
  /\ pollTimer' = None
  /\ UNCHANGED <<lockVars, fs, txDest, ctx, readContext, readNonce,
                 writeNonce, writeHandler, reply, outcome, wireVars,
                 delivered, cancels, failed>>

\* The handler of poll_timer_: report an abort, or poll again.
RunTimer ==
  /\ posted # <<>> /\ Head(posted).op = "timer"
  /\ LET c == ctx[Head(posted).ctx] IN
     IF c.canceled
     THEN /\ posted' = Append(Tail(posted), UserCall(c.user, "aborted"))
          /\ UNCHANGED <<waiting, queued, order, ctx, readContext, readNonce>>
     ELSE ReadSome(c.user, c.room, Tail(posted))
  /\ UNCHANGED <<finished, removed, fs, txDest, writeNonce, writeHandler,
                 pollTimer, reply, outcome, wireVars, delivered, cancels,
                 failed>>

-----------------------------------------------------------------------------
(* The executor runs the Invoke of a job, which has the lock now. *)

\* A read poll that was canceled after the lock chose it tells its user and
\* returns: the wrapper it was given is dropped.
InvokeCanceledRead ==
  /\ posted # <<>> /\ Head(posted).op = "invoke"
  /\ LET job == Head(posted).command IN
       /\ job[1] = "read"
       /\ ctx[job[3]].canceled
       /\ Tell(ctx[job[3]].user, "aborted")
  /\ readNonce' = None
  /\ posted' = Tail(posted)
  /\ UNCHANGED <<lockVars, fs, txDest, ctx, readContext, writeNonce,
                 writeHandler, pollTimer, reply, wireVars, delivered,
                 cancels, failed>>

Dest(job) ==
  CASE job[1] = "register" -> Requests[job[2]][job[3]].id
    [] job[1] \in {"read", "write"} -> TunnelId
    [] OTHER -> None

InvokeJob ==
  /\ posted # <<>> /\ Head(posted).op = "invoke"
  /\ LET job == Head(posted).command IN
       /\ job[1] = "read" => ~ctx[job[3]].canceled
       /\ readNonce' = IF job[1] = "read" THEN None ELSE readNonce
       /\ txDest' = IF job[1] = "block" THEN txDest ELSE Dest(job)
       /\ Start(Writing(job))
  /\ posted' = Tail(posted)
  /\ UNCHANGED <<lockVars, ctx, readContext, writeNonce, writeHandler,
                 pollTimer, reply, outcome, wireVars, delivered, cancels>>

\* tx_frame_.request_reply
RequestReply(job) ==
  \/ job[1] = "read"
  \/ job[1] = "register" /\ Requests[job[2]][job[3]].reply

\* The frame stream has written the frame: what each job does then.
WriteDoneForRegister(job, ec) ==
  /\ job[1] = "register"
  /\ IF ~RequestReply(job)
     THEN posted' = Append(posted, WrapCall(job, ec)) /\ fs' = Idle
          /\ UNCHANGED failed
     ELSE IF ec = "ok"
          THEN fs' = Reading(job) /\ UNCHANGED <<posted, failed>>
          ELSE failed' = "throw" /\ fs' = Idle /\ UNCHANGED posted
  /\ UNCHANGED <<finished, writeHandler, writeNonce, outcome>>

WriteDoneForBlock(job, ec) ==
  /\ job[1] = "block"
  /\ Tell(job[2], ec)
  /\ Finish(job, posted)
  /\ fs' = Idle
  /\ UNCHANGED <<failed, writeHandler, writeNonce>>

\* HandleRequestRead: a cancel does not stop the read of the answer.
WriteDoneForRead(job, ec) ==
  /\ job[1] = "read"
  /\ IF ec = "ok" THEN fs' = Reading(job) /\ UNCHANGED failed
     ELSE failed' = "throw" /\ fs' = Idle
  /\ UNCHANGED <<posted, finished, writeHandler, writeNonce, outcome>>

\* The handler moved out of write_handler_ is called, whatever it is now.
WriteDoneForWrite(job, ec) ==
  /\ job[1] = "write"
  /\ fs' = Idle
  /\ writeHandler' = None
  /\ writeNonce' = None
  /\ IF writeHandler = None
     THEN failed' = "empty_handler" /\ UNCHANGED outcome
     ELSE Tell(writeHandler, ec) /\ UNCHANGED failed
  /\ Finish(job, posted)

WriteDone ==
  /\ fs.op = "write"
  /\ \E ec \in {"ok"} \cup (IF WriteErrors THEN {"error"} ELSE {}) :
       /\ \/ WriteDoneForRegister(fs.job, ec)
          \/ WriteDoneForBlock(fs.job, ec)
          \/ WriteDoneForRead(fs.job, ec)
          \/ WriteDoneForWrite(fs.job, ec)
       /\ bus' = IF ec = "ok" /\ RequestReply(fs.job)
                 THEN Append(bus, fs.job) ELSE bus
  /\ UNCHANGED <<waiting, queued, removed, order, txDest, ctx, readContext,
                 readNonce, pollTimer, reply, inbox, sent, delivered, cancels>>

\* Fault: whatever comes in is reported and the read goes on.
ReadDoneForRegisterGoesOn(job, frame) ==
  /\ job[1] = "register"
  /\ posted' = Append(posted, WrapCall(job, "aborted"))
  /\ UNCHANGED <<fs, reply, finished, ctx, readContext, pollTimer, delivered>>

\* Fault: the source of the frame is not looked at.
FromAnyone(frame) == TRUE

\* The frame comes from the server that was asked.
FromExpected(frame) == frame.source = txDest

\* The read of a register job timed out, or got a frame.
ReadDoneForRegister(job, frame) ==
  /\ job[1] = "register"
  /\ IF frame # None /\ ~FromExpected(frame)
     THEN UNCHANGED <<fs, posted, reply>>
     ELSE /\ fs' = Idle
          /\ posted' = Append(posted,
               WrapCall(job, IF frame = None THEN "aborted" ELSE "ok"))
          /\ reply' = IF frame # None /\ frame.job[1] = "register"
                      THEN [reply EXCEPT ![job[2]] = Append(@, <<frame.job, job>>)]
                      ELSE reply
  /\ UNCHANGED <<finished, ctx, readContext, pollTimer, delivered>>

\* buffer_copy: as much as the buffers of the context have room for.
Copied(c, bytes) == SubSeq(bytes, 1, IF Len(bytes) < c.room THEN Len(bytes) ELSE c.room)

\* Fault: the buffers are not moved on after an answer.
FilledFromStart(c, bytes) ==
  Copied(c, bytes) \o SubSeq(c.data, Len(bytes) + 1, Len(c.data))

\* The user's buffer after that: the buffers of c begin behind c.data.
Filled(c, bytes) == c.data \o Copied(c, bytes)

\* Fault: an answer is used although the read was canceled meanwhile.
UsableAnyway(c, frame) ==
  frame # None /\ frame.source = TunnelId /\ frame.job[1] = "read"

\* The frame is an answer of the tunnel, and its reader still waits.
Usable(c, frame) ==
  ~c.canceled /\ frame # None /\ frame.source = TunnelId /\ frame.job[1] = "read"

\* read_data_queued(), which may be true whenever more has come in, and room
\* in the buffers.
RoomForMore(c, bytes) == Len(bytes) < c.room

\* Tunnel::HandleRead.  A canceled context, a timeout or a frame that is not
\* an answer of the tunnel goes to MaybeRetry as it is.
ReadDoneForRead(job, frame) ==
  /\ job[1] = "read"
  /\ LET n == job[3]
         c == ctx[n]
         got == [ctx EXCEPT ![n].data = Filled(c, frame.bytes),
                            ![n].bytes = c.bytes + Len(frame.bytes)]
     IN IF ~Usable(c, frame)
        THEN MaybeRetry(n, ctx, posted) /\ fs' = Idle
        ELSE \/ MaybeRetry(n, got, posted) /\ fs' = Idle
             \/ /\ RoomForMore(c, frame.bytes)
                /\ ctx' = [got EXCEPT ![n].room = c.room - Len(frame.bytes)]
                /\ fs' = Reading(job)
                /\ UNCHANGED <<posted, finished, readContext, pollTimer, delivered>>
  /\ UNCHANGED reply

ReadDone ==
  /\ fs.op = "read"
  /\ \/ /\ ReadDoneForRegister(fs.job, None) \/ ReadDoneForRead(fs.job, None)
        /\ UNCHANGED inbox
     \/ /\ inbox # <<>>
        /\ \/ ReadDoneForRegister(fs.job, Head(inbox))
           \/ ReadDoneForRead(fs.job, Head(inbox))
        /\ inbox' = Tail(inbox)
  /\ UNCHANGED <<waiting, queued, removed, order, txDest, readNonce,
                 writeNonce, writeHandler, outcome, bus, sent, cancels, failed>>

-----------------------------------------------------------------------------
(* The servers: a request is answered, in order and after any delay, or    *)
(* never.                                                                  *)

ServerAnswers ==
  /\ bus # <<>>
  /\ \E n \in (IF Head(bus)[1] = "read" THEN 0..MaxChunk ELSE {0}) :
       /\ sent + n <= MaxBytes
       /\ sent' = sent + n
       /\ inbox' = Append(inbox, [source |-> Dest(Head(bus)), job |-> Head(bus),
                                  bytes |-> [k \in 1..n |-> sent + k]])
  /\ bus' = Tail(bus)
  /\ UNCHANGED <<lockVars, posted, fs, txDest, tunnelVars, reply, outcome,
                 delivered, cancels, failed>>

RequestLost ==
  /\ bus # <<>>
  /\ bus' = Tail(bus)
  /\ UNCHANGED <<lockVars, posted, fs, txDest, tunnelVars, reply, outcome,
                 inbox, sent, delivered, cancels, failed>>

-----------------------------------------------------------------------------
Executor ==
  \/ ItemDone
  \/ RunWrap
  \/ RunUser
  \/ RunTimer
  \/ InvokeCanceledRead
  \/ InvokeJob

FrameStream == WriteDone \/ ReadDone

Next ==
  /\ failed = "no"
  /\ \/ \E c \in Transmits : AsyncTransmit(c)
     \/ \E u \in Reads : TunnelRead(u)
     \/ \E u \in Writes : TunnelWrite(u)
     \/ Cancel
     \/ PollTimerExpires
     \/ Executor
     \/ FrameStream
     \/ ServerAnswers
     \/ RequestLost

Spec == Init /\ [][Next]_vars

\* The executor runs what is posted, and the frame stream ends what it was
\* given: a read by its timeout if not by a frame.
Fairness ==
  /\ WF_vars(failed = "no" /\ Executor)
  /\ WF_vars(failed = "no" /\ FrameStream)

FairSpec == Spec /\ Fairness

-----------------------------------------------------------------------------
Codes == {"ok", "aborted", "error"}
WrapCalls == {WrapCall(j, ec) : j \in RegisterJobs, ec \in Codes}
PostedCalls ==
  LockCalls \cup WrapCalls \cup {UserCall(u, ec) : u \in Users, ec \in Codes}
    \cup {TimerCall(n) : n \in 1..MaxPolls}
Contexts ==
  [user : Reads, room : Nat \ {0}, size : Nat \ {0}, canceled : BOOLEAN, bytes : Nat,
   data : Seq(Nat)]
Frames == [source : {Dest(j) : j \in Jobs}, job : Jobs, bytes : Seq(Nat)]

TypeOK ==
  /\ waiting \in Jobs \cup {None} /\ queued \in Seq(Jobs)
  /\ finished \in Seq(Jobs) /\ order \in Seq(Jobs) /\ removed \subseteq Jobs
  /\ posted \in Seq(PostedCalls)
  /\ fs \in {Idle} \cup {Writing(j) : j \in Jobs} \cup {Reading(j) : j \in Jobs}
  /\ ctx \in Seq(Contexts) /\ Len(ctx) <= MaxPolls
  /\ readContext \in (1..Len(ctx)) \cup {None}
  /\ pollTimer \in (1..Len(ctx)) \cup {None}
  /\ readNonce \in ReadJobs \cup {None} /\ writeNonce \in WriteJobs \cup {None}
  /\ writeHandler \in Writes \cup {None}
  /\ reply \in [Transmits -> Seq(Jobs \X Jobs)]
  /\ outcome \in [Users -> Seq(Codes)]
  /\ bus \in Seq(Jobs) /\ inbox \in Seq(Frames) /\ sent \in Nat
  /\ delivered \in Seq(Nat) /\ cancels \in Nat
  /\ failed \in {"no", "overlap", "throw", "empty_handler"}

\* The frame stream, tx_frame_ and rx_frame_ are used by one job at a time:
\* no operation is started while another is in progress, not even after a
\* timeout or a cancel.
OneFrameOperation ==
  /\ failed # "overlap"
  /\ fs # Idle => fs.job = waiting

\* The jobs use the lock as ExclusiveCommand expects: each wrapper is called
\* at most once, in the order of Invoke, and cancel() removes only jobs
\* that do not have the lock; and the lock protects what it is for.
LockRespected ==
  /\ Lock!OneOutstanding /\ Lock!OneToken /\ Lock!NoIdleQueue /\ Lock!InOrder
  /\ OneFrameOperation

\* No handler of the user is called twice: not when a cancel meets an
\* answer, a timeout or the expiry of the poll timer.
HandlersOnce == \A u \in Users : Len(outcome[u]) <= 1

\* bytes_read of every context, and the bytes of the readers: the buffer
\* holds bytes_read bytes, or is full.
BytesCounted ==
  \A n \in DOMAIN ctx :
    Len(ctx[n].data) = IF ctx[n].bytes < ctx[n].size THEN ctx[n].bytes ELSE ctx[n].size
DeliveredInOrder == \A i, j \in DOMAIN delivered : i < j => delivered[i] < delivered[j]

\* The bytes the server sends in the tunnel reach the reader in order and
\* without duplicates, late answers included, and without a gap in the buffer.
\* bytes_read (line 438) counts the whole of an answer, of which buffer_copy
\* stores what fits: when it does not fit, bytes_read is larger than the
\* buffer, which is then full, and the rest of the answer is lost.
TunnelInOrder == BytesCounted /\ DeliveredInOrder

\* test/stream_asio_client_test.cc:273: what definitely should not happen is
\* for new data to get into the buffer of a read that was canceled.
CanceledBufferUntouched ==
  [][\A n \in DOMAIN ctx : ctx[n].canceled => ctx'[n].data = ctx[n].data]_vars

\* asio_client.h:47: "The handler will always be invoked."
Called(c) == \E i \in DOMAIN order : order[i][2] = c
TransmitCompletes == \A c \in Transmits : Called(c) ~> outcome[c] # <<>>

\* A canceled read poll has the lock and will never give it back.
LockDropped ==
  /\ waiting # None /\ waiting[1] = "read" /\ ctx[waiting[3]].canceled
  /\ waiting \notin ToSet(finished)
  /\ fs = Idle /\ \A i \in DOMAIN posted : posted[i].op # "invoke"

\* The same with the one exception that asio_client_leak shows: only a read
\* poll that is canceled between its post and its run can keep a request
\* from completing, unless the process ends (the empty write_handler_).
CompletesUnlessDropped ==
  \A c \in Transmits :
    Called(c) ~> outcome[c] # <<>> \/ LockDropped \/ failed # "no"

\* The values put in *reply for a request come from the server it was sent
\* to: not from the tunnel, and not from the server of another request whose
\* answer is late.
ReplyFromItsServer ==
  \A c \in Transmits : \A i \in DOMAIN reply[c] :
    Dest(reply[c][i][1]) = Dest(reply[c][i][2])

\* A canceled read that cancel() did not find in the queue: the Invoke of a
\* read canceled before it has cleared its read_nonce_ (line 246) and kept the
\* lock (lines 249-252).
NonceLost(n) == LockDropped /\ ReadJob(n) \in ToSet(queued)

\* Lines 333-336: a read that is canceled has its handler invoked, wherever
\* the cancel finds it: queued, posted, waiting for an answer or for the poll
\* timer.  The exception disagrees with those lines: a second read whose nonce
\* was lost to the first is never told.
CanceledReadIsTold ==
  \A n \in 1..MaxPolls :
    (n \in DOMAIN ctx /\ ctx[n].canceled)
      ~> \/ failed # "no"
         \/ n \in DOMAIN ctx /\ (outcome[ctx[n].user] # <<>> \/ NonceLost(n))
=============================================================================
