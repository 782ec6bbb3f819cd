--------------------------- MODULE CanFrameStream ---------------------------
(***************************************************************************)
(* What the two frame streams over CAN-FD share: the identifier and the    *)
(* data of a frame, one read at a time with a timer, and handlers that run *)
(* in the order in which they were posted.  A read is its number, 0 is     *)
(* none.                                                                   *)
(***************************************************************************)
EXTENDS Naturals, Sequences, FiniteSets, SequencesExt, FiniteSetsExt

CONSTANTS
  Messages,   \* frames the peer sends, in this order
  Batches,    \* batches: how many frames one call writes
  Untimed,    \* the reads without a timeout
  MaxReads,   \* bound: AsyncRead calls
  MaxWrites   \* bound: calls that write

VARIABLES
  sent,         \* messages the peer has sent
  line,         \* what has not been read of what it sent
  outstanding,  \* a read of the stream is in progress
  reads,        \* AsyncRead calls so far
  current,      \* the read current_callback_ belongs to
  timer,        \* the read whose wait for timer_ is pending
  posted,       \* handlers posted to the executor
  told,         \* told[r]: what the callback of read r was given
  writes        \* calls that write so far

NoFrame == [ec |-> "aborted"]
Received(frame) == [ec |-> "ok", frame |-> frame]
Callback(r, result) == [op |-> "callback", read |-> r, result |-> result]
TimerCall == [op |-> "timer"]

StreamInit ==
  /\ sent = 0 /\ line = <<>> /\ outstanding = FALSE
  /\ reads = 0 /\ current = 0 /\ timer = 0 /\ posted = <<>>
  /\ told = [r \in 1..MaxReads |-> <<>>]
  /\ writes = 0

-----------------------------------------------------------------------------
\* Fault: the next size is taken for the one that fits exactly.
RoundUpDlcNext(n) ==
  LET fits == {s \in (0..8) \cup {12, 16, 20, 24, 32, 48, 64} : s > n}
  IN IF fits = {} THEN 0 ELSE Min(fits)

\* The sizes a CAN-FD frame can have; 0 for what fits none.
RoundUpDlc(n) ==
  LET fits == {s \in (0..8) \cup {12, 16, 20, 24, 32, 48, 64} : s >= n}
  IN IF fits = {} THEN 0 ELSE Min(fits)

CanId(frame) ==
  (frame.source + (IF frame.reply THEN 128 ELSE 0)) * 256 + frame.dest

\* The payload, padded with kNop.
CanData(frame) ==
  frame.payload \o
    [i \in 1..(RoundUpDlc(Len(frame.payload)) - Len(frame.payload)) |-> 80]

FrameOf(id, data) ==
  [source |-> (id \div 256) % 128, dest |-> id % 128,
   reply |-> (id \div 32768) % 2 = 1, payload |-> data]

-----------------------------------------------------------------------------
\* expires_from_now() and async_wait(), or cancel() without a timeout: a wait
\* that is pending is dropped, a handler that is posted already is not.
SetTimer(r) == timer' = IF r \in Untimed THEN 0 ELSE r

TimerExpires ==
  /\ timer # 0
  /\ timer' = 0
  /\ posted' = Append(posted, TimerCall)
  /\ UNCHANGED <<sent, line, outstanding, reads, current, told, writes>>

Tell(r, result) == told' = [told EXCEPT ![r] = Append(@, result)]

RunCallback ==
  /\ posted # <<>> /\ Head(posted).op = "callback"
  /\ Tell(Head(posted).read, Head(posted).result)
  /\ posted' = Tail(posted)
  /\ UNCHANGED <<sent, line, outstanding, reads, current, timer, writes>>

-----------------------------------------------------------------------------
Pending(r) == {i \in DOMAIN posted : posted[i].op = "callback" /\ posted[i].read = r}

\* Each AsyncRead has one answer: it waits, its callback is posted or was
\* called, whether a frame or the timeout came first; and one that waits has
\* a read of the stream outstanding.
OneAnswerEach ==
  /\ \A r \in 1..reads :
       Cardinality(Pending(r)) + Len(told[r]) + (IF current = r THEN 1 ELSE 0) = 1
  /\ current # 0 => outstanding

\* What the reads were given, or are about to be.
HandedOut ==
  LET results == FlattenSeq([r \in 1..reads |->
        told[r] \o (IF Pending(r) = {} THEN <<>> ELSE <<posted[Min(Pending(r))].result>>)])
  IN SelectSeq(results, LAMBDA result : result.ec = "ok")

\* A frame reaches the reader as it was sent, but for padding (kNop, which a
\* receiver skips) up to the next size CAN-FD knows, and frames keep their
\* order; none is made up from other lines.
SameButPadded(got, frame) ==
  LET n == Len(frame.payload) IN
    /\ <<got.source, got.dest, got.reply>> = <<frame.source, frame.dest, frame.reply>>
    /\ SubSeq(got.payload, 1, n) = frame.payload
    /\ \A i \in (n + 1)..Len(got.payload) : got.payload[i] = 80
    /\ Len(got.payload) - n < IF n <= 8 THEN 1 ELSE IF n <= 24 THEN 4 ELSE 16

FramesAsSent ==
  /\ Len(HandedOut) <= sent
  /\ \A i \in DOMAIN HandedOut : SameButPadded(HandedOut[i].frame, Messages[i])
=============================================================================
