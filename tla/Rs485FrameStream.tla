-------------------------- MODULE Rs485FrameStream --------------------------
(***************************************************************************)
(* mjlib/multiplex/rs485_frame_stream.cc: the client's side of the frame   *)
(* format, with a timeout for each read.  All handlers run one at a time   *)
(* on one executor; a handler that is posted runs after those posted       *)
(* before it, whatever they did meanwhile.                                 *)
(*                                                                         *)
(* A read is its number, 0 is none.  Writes are handed to the stream as    *)
(* they are and are left to FrameFormat.                                   *)
(***************************************************************************)
EXTENDS FrameFormat, SequencesExt

CONSTANTS
  Noises,      \* sequences of values, one of which is on the line at first
  Untimed,     \* the reads without a timeout
  MaxReads,    \* bound: AsyncRead calls
  MaxCancels   \* bound: cancel() calls

ASSUME ReadsAssumption == MaxReads \in Nat /\ MaxCancels \in Nat

VARIABLES
  sent,         \* messages the peer has sent
  line,         \* bytes on their way
  streambuf,    \* streambuf_
  outstanding,  \* read_outstanding_
  reads,        \* AsyncRead calls so far
  current,      \* the read that current_callback_ belongs to
  timer,        \* the read whose wait for timer_ is pending
  posted,       \* handlers posted to the executor
  told,         \* told[r]: what the callback of read r was given
  cancels,      \* cancel() calls so far
  elapsed,      \* history: reads whose own time was over
  canceled,     \* history: reads that were current in a cancel()
  discarded,    \* history: messages of which ParseFrame discarded a byte
  short         \* history: a frame was taken before all of it was there

wireVars == <<sent, line>>
historyVars == <<elapsed, canceled>>
vars == <<wireVars, streambuf, outstanding, reads, current, timer, posted,
          told, cancels, historyVars, discarded, short>>

\* The handlers that are posted: a callback of the user, with the message
\* it is given (0 if none), and HandleTimer.
Callback(r, ec, k) == [op |-> "callback", read |-> r, ec |-> ec, frame |-> k]
TimerCall == [op |-> "timer"]

Init ==
  /\ sent = 0
  /\ line \in {Noise(values) : values \in Noises}
  /\ streambuf = <<>> /\ outstanding = FALSE
  /\ reads = 0 /\ current = 0 /\ timer = 0 /\ posted = <<>>
  /\ told = [r \in 1..MaxReads |-> <<>>]
  /\ cancels = 0 /\ elapsed = {} /\ canceled = {}
  /\ discarded = {} /\ short = FALSE

-----------------------------------------------------------------------------
(* ParseFrame(), lines 143-208 *)

\* Fault: everything is discarded up to the last byte that may start a header.
DiscardUntilLast(bytes) ==
  LET starts == {i \in DOMAIN bytes : bytes[i].v = Low} IN
    IF starts = {} THEN <<>> ELSE Consume(bytes, Max(starts) - 1)

DiscardUntil(bytes) ==
  LET starts == {i \in DOMAIN bytes : bytes[i].v = Low} IN
    IF starts = {} THEN <<>> ELSE Consume(bytes, Min(starts) - 1)

Result(bytes, k, sh) == [buffer |-> bytes, frame |-> k, short |-> sh]

\* The loop, by the number of bytes that are left: "continue" goes on with
\* fewer.  The sum of line 175 is one of uint32_t.
ParseFrame(bytes) ==
  LET parse[left \in 0..Len(bytes)] ==
        LET rest == DiscardUntil(Consume(bytes, Len(bytes) - left))
            size == ReadVaruint(Consume(rest, 4))
        IN IF Len(rest) < 2 THEN Result(rest, 0, FALSE)
           ELSE IF rest[2].v # High THEN parse[Len(rest) - 2]
           ELSE IF size = <<>> \/ Len(rest) - 4 - size[2] < (size[1] + 2) % Width
           THEN Result(rest, 0, FALSE)
           ELSE IF Len(rest) < FrameLength(size) THEN Result(rest, 0, TRUE)
           ELSE IF ~CrcMatches(SubSeq(rest, 1, FrameLength(size)))
           THEN parse[Len(rest) - 2]
           ELSE Result(Consume(rest, FrameLength(size)), rest[1].frame, FALSE)
  IN parse[Len(bytes)]

\* Messages of which bytes were dropped on the way from bytes to the result.
Dropped(bytes, result) ==
  {bytes[i].frame : i \in 1..(Len(bytes) - Len(result.buffer))}
    \ {0, result.frame}

\* ParseFrame() for read r, and the async_read_some() of MaybeStartRead() if
\* that did not satisfy it.
ParseAndRead(r, bytes) ==
  \E result \in {ParseFrame(bytes)} :
    /\ streambuf' = result.buffer
    /\ discarded' = discarded \cup Dropped(bytes, result)
    /\ short' = (short \/ result.short)
    /\ current' = IF result.frame = 0 THEN r ELSE 0
    /\ outstanding' = (result.frame = 0)
    /\ posted' = IF result.frame = 0 THEN posted
                 ELSE Append(posted, Callback(r, "ok", result.frame))

-----------------------------------------------------------------------------
\* Fault: the timer is set only if a read of the stream is started anew.
SetTimerLate(r, timeout) ==
  timer' = IF timeout /\ ~outstanding THEN r ELSE 0

\* expires_from_now() and async_wait(): a wait that is pending is dropped,
\* a handler that is posted already is not.  A read without a timeout
\* cancels the wait.
SetTimer(r, timeout) == timer' = IF timeout THEN r ELSE 0

AsyncRead ==
  /\ current = 0
  /\ reads < MaxReads
  /\ reads' = reads + 1
  /\ SetTimer(reads', reads' \notin Untimed)
  /\ IF outstanding
     THEN /\ current' = reads'
          /\ UNCHANGED <<streambuf, discarded, short, outstanding, posted>>
     ELSE ParseAndRead(reads', streambuf)
  /\ UNCHANGED <<wireVars, told, cancels, historyVars>>

\* Fault: read_outstanding_ is cleared and no read is started.
HandleReadStops ==
  /\ outstanding
  /\ line # <<>>
  /\ outstanding' = FALSE
  /\ streambuf' = streambuf \o line
  /\ line' = <<>>
  /\ UNCHANGED <<sent, reads, current, timer, posted, told, cancels,
                 historyVars, discarded, short>>

\* The stream hands over some of the bytes.
HandleRead ==
  /\ outstanding
  /\ \E n \in 1..Len(line) :
       /\ line' = Consume(line, n)
       /\ IF current # 0
          THEN ParseAndRead(current, streambuf \o SubSeq(line, 1, n))
          ELSE /\ streambuf' = streambuf \o SubSeq(line, 1, n)
               /\ outstanding' = FALSE
               /\ UNCHANGED <<discarded, short, current, posted>>
  /\ UNCHANGED <<sent, reads, timer, told, cancels, historyVars>>

\* cancel(): the wait for the timer stays as it is.
Cancel ==
  /\ cancels < MaxCancels
  /\ cancels' = cancels + 1
  /\ current # 0
  /\ posted' = Append(posted, Callback(current, "aborted", 0))
  /\ current' = 0
  /\ canceled' = canceled \cup {current}
  /\ UNCHANGED <<wireVars, streambuf, outstanding, reads, timer, told,
                 elapsed, discarded, short>>

\* The timer expires: its handler is posted.
TimerExpires ==
  /\ timer # 0
  /\ timer' = 0
  /\ elapsed' = elapsed \cup {timer}
  /\ posted' = Append(posted, TimerCall)
  /\ UNCHANGED <<wireVars, streambuf, outstanding, reads, current, told,
                 cancels, canceled, discarded, short>>

Tell(r, ec, k) == told' = [told EXCEPT ![r] = Append(@, [ec |-> ec, frame |-> k])]

RunCallback ==
  /\ posted # <<>> /\ Head(posted).op = "callback"
  /\ Tell(Head(posted).read, Head(posted).ec, Head(posted).frame)
  /\ posted' = Tail(posted)
  /\ UNCHANGED <<wireVars, streambuf, outstanding, reads, current, timer,
                 cancels, historyVars, discarded, short>>

\* Fault: the callback is called and kept.
HandleTimerKeeps ==
  /\ posted # <<>> /\ Head(posted) = TimerCall
  /\ posted' = Tail(posted)
  /\ IF current # 0 THEN Tell(current, "aborted", 0) ELSE UNCHANGED told
  /\ UNCHANGED <<wireVars, streambuf, outstanding, reads, current, timer,
                 cancels, historyVars, discarded, short>>

\* HandleTimer(): it aborts whichever read is current now.
HandleTimer ==
  /\ posted # <<>> /\ Head(posted) = TimerCall
  /\ posted' = Tail(posted)
  /\ current' = 0
  /\ IF current # 0 THEN Tell(current, "aborted", 0) ELSE UNCHANGED told
  /\ UNCHANGED <<wireVars, streambuf, outstanding, reads, timer, cancels,
                 historyVars, discarded, short>>

\* The peer's next message (external).
PeerSends ==
  /\ sent < Len(Messages)
  /\ sent' = sent + 1
  /\ line' = line \o Frame(sent')
  /\ UNCHANGED <<streambuf, outstanding, reads, current, timer, posted, told,
                 cancels, historyVars, discarded, short>>

\* A frame taken before it was there is undefined behaviour.
Next ==
  /\ ~short
  /\ \/ AsyncRead
     \/ HandleRead
     \/ Cancel
     \/ TimerExpires
     \/ RunCallback
     \/ HandleTimer
     \/ PeerSends

Spec == Init /\ [][Next]_vars

\* The executor runs what is posted, and time passes.
Fairness ==
  /\ WF_vars(~short /\ (RunCallback \/ HandleTimer))
  /\ WF_vars(~short /\ TimerExpires)

FairSpec == Spec /\ Fairness

-----------------------------------------------------------------------------
TypeOK ==
  /\ sent \in 0..Len(Messages)
  /\ {outstanding, short} \subseteq BOOLEAN
  /\ reads \in 0..MaxReads /\ {current, timer} \subseteq 0..reads
  /\ \A i \in DOMAIN posted :
       posted[i].op = "callback" => posted[i].read \in 1..reads
  /\ elapsed \cup canceled \subseteq 1..reads
  /\ discarded \subseteq 1..Len(Messages)

Pending(r) == {i \in DOMAIN posted : posted[i].op = "callback" /\ posted[i].read = r}

\* Each AsyncRead has one answer: it is waiting, its callback is posted, or
\* the callback was called, and never two of these; whether a frame, the
\* timeout or a cancel came first.
OneAnswerEach ==
  \A r \in 1..reads :
    Cardinality(Pending(r)) + Len(told[r]) + (IF current = r THEN 1 ELSE 0) = 1

\* A read that waits is served: a read of the stream is outstanding, also
\* after a false header, a bad checksum, a timeout or a cancel.
ReaderServed == current # 0 => outstanding

\* The messages handed out so far, in the order of the reads.
HandedOut ==
  LET frame(r) == IF told[r] # <<>> THEN told[r][1].frame
                  ELSE IF Pending(r) = {} THEN 0
                  ELSE posted[Min(Pending(r))].frame
  IN SelectSeq([r \in 1..reads |-> frame(r)], LAMBDA k : k # 0)

\* Lines 147-148: what does not look like a frame is discarded, and only
\* that.  On a line whose noise is at the start and does not end in a first
\* byte of a header (which lines 156-160 would drop together with the first
\* byte of the frame behind it), the reads are given the messages of the
\* peer in order, without a gap.
NoFrameLost ==
  /\ discarded = {}
  /\ \A i \in DOMAIN HandedOut : HandedOut[i] = i

\* frame_stream.h:42-44: a read is told operation_aborted "after that much
\* time has elapsed", or because of a cancel.
AbortedForItsOwnReason ==
  \A r \in 1..reads : \A i \in DOMAIN told[r] :
    told[r][i].ec = "aborted" => r \in elapsed \cup canceled

\* frame_stream.h:42-44: every read with a timeout ends.
EveryReadEnds ==
  \A r \in (1..MaxReads) \ Untimed : reads >= r ~> told[r] # <<>>
=============================================================================
