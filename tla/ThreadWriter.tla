---------------------------- MODULE ThreadWriter ----------------------------
(***************************************************************************)
(* mjlib/base/thread_writer.h: buffers handed to Write() by the parent     *)
(* thread are written to a FILE by a child thread, which is woken by bytes *)
(* of a non-blocking pipe.  Three actors run concurrently: the parent      *)
(* (Write, Flush, the destructor), the child (Run) and the handler of a    *)
(* POSIX timer, which may run in any thread.  A section under a mutex is   *)
(* one step; between two sections the others may run.                      *)
(*                                                                         *)
(* A buffer is its identity; only the sizes matter besides.  stdio and os  *)
(* are the buffers in the FILE's own buffer and those given to the kernel. *)
(***************************************************************************)
EXTENDS Integers, Sequences, SequencesExt

CONSTANTS
  Buffers,          \* the buffers a caller may Write, each once
  BufferSize,       \* BufferSize[b]: what OStream::size() returns
  Modes,            \* values of options.blocking_mode = kAsynchronous
  BlockSize,        \* options.block_size
  InitialCapacity,  \* of the circular buffer data_ (16)
  PipeCapacity      \* bytes the pipe holds before write() says EAGAIN

ASSUME SizesAssumption == BufferSize \in [Buffers -> Nat \ {0}]
ASSUME BoundsAssumption ==
  /\ BlockSize \in Nat \ {0}
  /\ InitialCapacity \in Nat \ {0}
  /\ PipeCapacity \in Nat \ {0, 1}
ASSUME ModesAssumption == Modes \subseteq BOOLEAN

VARIABLES
  asynchronous, \* options_.blocking_mode = kAsynchronous
  ppc,         \* the parent: "ready", or what it does next
  position,    \* position_
  data,        \* data_
  capacity,    \* data_.capacity()
  flush, done, \* flush_ and done_, under command_mutex_
  timerFired,  \* timer_fired_
  pipe,        \* bytes in the pipe
  cpc,         \* the child
  exiting,     \* the child is in the branch of done_
  interrupted, \* the child's read() will return EINTR
  current,     \* the buffer WriteFront has taken, as a sequence
  stdio, os,   \* the file
  childOffset, \* child_offset_
  lastFadvise, \* last_fadvise_
  reclaimed,   \* buffers given to options.reclaimer
  tpc,         \* the timer signal handler
  armed,       \* the timer exists
  accepted,    \* history: the buffers of all Write calls
  flushGoal    \* history: how many there were at the last Flush

parentVars == <<asynchronous, ppc, position, capacity, accepted, flushGoal>>
fileVars == <<stdio, os, childOffset, lastFadvise, reclaimed>>
childVars == <<cpc, exiting, current>>
timerVars == <<tpc, armed, timerFired>>
vars == <<parentVars, data, flush, done, pipe, interrupted, childVars,
          fileVars, timerVars>>

Init ==
  /\ asynchronous \in Modes
  /\ ppc = "ready" /\ position = 0
  /\ data = <<>> /\ capacity = InitialCapacity
  /\ flush = FALSE /\ done = FALSE /\ timerFired = FALSE
  /\ pipe = 0 /\ interrupted = FALSE
  /\ cpc = "start" /\ exiting = FALSE /\ current = <<>>
  /\ stdio = <<>> /\ os = <<>>
  /\ childOffset = 0 /\ lastFadvise = 0 /\ reclaimed = {}
  /\ tpc = "idle" /\ armed = FALSE
  /\ accepted = <<>> /\ flushGoal = 0

-----------------------------------------------------------------------------
\* SignalThread(): one byte, dropped when the pipe is full.
SignalThread == pipe' = IF pipe < PipeCapacity THEN pipe + 1 ELSE pipe

\* boost::circular_buffer: push_back on a full one overwrites the front.
PushBack(seq, b, cap) ==
  IF Len(seq) = cap THEN Append(Tail(seq), b) ELSE Append(seq, b)

\* Fault: data_ keeps its capacity, and push_back overwrites the front.
GrowForgotten(seq, cap) == cap

\* data_.set_capacity(data_.capacity() * 2) when it is full
Grow(seq, cap) == IF Len(seq) = cap THEN cap * 2 ELSE cap

(* The parent thread *)

\* An offset in the file, behind buffer b.
Behind(offset, b) == offset + BufferSize[b]

\* What the buffers of a sequence come to, one behind the other.
Bytes(seq) ==
  LET upTo[n \in 0..Len(seq)] == IF n = 0 THEN 0 ELSE Behind(upTo[n - 1], seq[n])
  IN upTo[Len(seq)]

Write(b) ==
  /\ ppc = "ready"
  /\ ~Contains(accepted, b)
  /\ position' = Behind(position, b)
  /\ capacity' = Grow(data, capacity)
  /\ data' = PushBack(data, b, capacity')
  /\ accepted' = Append(accepted, b)
  /\ ppc' = "signal"
  /\ UNCHANGED <<asynchronous, flush, done, pipe, interrupted, childVars,
                 fileVars, timerVars, flushGoal>>

Flush ==
  /\ ppc = "ready"
  /\ flush' = TRUE
  /\ flushGoal' = Len(accepted)
  /\ ppc' = "signal"
  /\ UNCHANGED <<asynchronous, position, capacity, accepted, data, done, pipe, interrupted,
                 childVars, fileVars, timerVars>>

\* Fault: the destructor does not wake the child.
DestroySilently ==
  /\ ppc = "ready"
  /\ done' = TRUE
  /\ ppc' = "join"
  /\ UNCHANGED <<asynchronous, position, capacity, accepted, flushGoal, data, flush, pipe,
                 interrupted, childVars, fileVars, timerVars>>

Destroy ==
  /\ ppc = "ready"
  /\ done' = TRUE
  /\ ppc' = "signal"
  /\ UNCHANGED <<asynchronous, position, capacity, accepted, flushGoal, data, flush, pipe,
                 interrupted, childVars, fileVars, timerVars>>

\* The SignalThread() that ends each of the three.
ParentSignal ==
  /\ ppc = "signal"
  /\ SignalThread
  /\ ppc' = IF done THEN "join" ELSE "ready"
  /\ UNCHANGED <<asynchronous, position, capacity, accepted, flushGoal, data, flush, done,
                 interrupted, childVars, fileVars, timerVars>>

\* After thread_.join(), WriteAll(), then the members are destroyed: fclose
\* flushes what is left in the FILE.
ParentJoin ==
  /\ ppc = "join"
  /\ cpc = "exited"
  /\ ppc' = "closed"
  /\ data' = <<>>
  /\ os' = os \o stdio \o data
  /\ stdio' = <<>>
  /\ childOffset' = childOffset + Bytes(data)
  /\ reclaimed' = reclaimed \cup ToSet(data)
  /\ UNCHANGED <<asynchronous, position, capacity, accepted, flushGoal, flush, done, pipe,
                 interrupted, childVars, lastFadvise, timerVars>>

-----------------------------------------------------------------------------
(* The child thread *)

\* setvbuf and StartTimer
RunStart ==
  /\ cpc = "start"
  /\ cpc' = "read"
  /\ armed' = asynchronous
  /\ UNCHANGED <<parentVars, data, flush, done, pipe, interrupted, exiting,
                 current, fileVars, tpc, timerFired>>

\* The blocking read() gets a byte, or is interrupted by the timer signal.
RunRead ==
  /\ cpc = "read"
  /\ \/ interrupted /\ UNCHANGED pipe
     \/ ~interrupted /\ pipe > 0 /\ pipe' = pipe - 1
  /\ interrupted' = FALSE
  /\ cpc' = "command"
  /\ UNCHANGED <<parentVars, data, flush, done, exiting, current, fileVars,
                 timerVars>>

\* ::fflush(fd_)
FFlush == os' = os \o stdio /\ stdio' = <<>>

\* Fault: flush_ is reset when it is seen, although the buffers of data_
\* are only written afterwards.
RunCommandResets ==
  /\ cpc = "command"
  /\ exiting' = done
  /\ IF flush /\ ~done THEN FFlush ELSE UNCHANGED <<os, stdio>>
  /\ flush' = FALSE
  /\ cpc' = IF done THEN "check" ELSE "timer"
  /\ UNCHANGED <<parentVars, data, done, pipe, interrupted, current,
                 childOffset, lastFadvise, reclaimed, timerVars>>

RunCommand ==
  /\ cpc = "command"
  /\ exiting' = done
  /\ IF flush /\ ~done THEN FFlush ELSE UNCHANGED <<os, stdio>>
  /\ cpc' = IF done THEN "check" ELSE "timer"
  /\ UNCHANGED <<parentVars, data, flush, done, pipe, interrupted, current,
                 childOffset, lastFadvise, reclaimed, timerVars>>

\* Fault: the timer only wakes the child.
HandleTimerIdle == UNCHANGED <<os, stdio>>

\* timer_fired_ is never cleared: from the first expiry on, every wake-up
\* flushes.
HandleTimer == IF timerFired THEN FFlush ELSE UNCHANGED <<os, stdio>>

RunTimer ==
  /\ cpc = "timer"
  /\ HandleTimer
  /\ cpc' = "check"
  /\ UNCHANGED <<parentVars, data, flush, done, pipe, interrupted, exiting,
                 current, childOffset, lastFadvise, reclaimed, timerVars>>

\* RunWork() finds data_ empty and returns; in the branch of done_ a last
\* HandleFlush and StopTimer follow.
RunWorkDone ==
  /\ cpc = "check"
  /\ data = <<>>
  /\ IF exiting
     THEN FFlush /\ cpc' = "exited" /\ armed' = FALSE
     ELSE cpc' = "read" /\ UNCHANGED <<os, stdio, armed>>
  /\ UNCHANGED <<parentVars, data, flush, done, pipe, interrupted, exiting,
                 current, childOffset, lastFadvise, reclaimed, tpc,
                 timerFired>>

RunWorkCheck ==
  /\ cpc = "check"
  /\ data # <<>>
  /\ cpc' = "pop"
  /\ UNCHANGED <<parentVars, data, flush, done, pipe, interrupted, exiting,
                 current, fileVars, timerVars>>

\* Fault: the front is used but stays in data_.
WriteFrontPeek ==
  /\ cpc = "pop"
  /\ current' = <<Head(data)>>
  /\ cpc' = "fwrite"
  /\ UNCHANGED <<parentVars, data, flush, done, pipe, interrupted, exiting,
                 fileVars, timerVars>>

\* WriteFront(), under data_mutex_
WriteFrontPop ==
  /\ cpc = "pop"
  /\ current' = <<Head(data)>>
  /\ data' = Tail(data)
  /\ cpc' = "fwrite"
  /\ UNCHANGED <<parentVars, flush, done, pipe, interrupted, exiting,
                 fileVars, timerVars>>

\* Fault: the block that holds the offset is counted in.
NextFadviseOffByOne(last, offset) ==
  last + BlockSize * ((offset - last - 1) \div BlockSize + 1)

\* The multiple of BlockSize up to which lines 305-308 advance last_fadvise_.
NextFadvise(last, offset) == last + BlockSize * ((offset - last - 1) \div BlockSize)

\* The rest of WriteFront() and of StartWrite().  fwrite moves to the kernel
\* as much as does not fit the FILE's buffer.
WriteFrontWrite ==
  /\ cpc = "fwrite"
  /\ childOffset' = Behind(childOffset, Head(current))
  /\ reclaimed' = reclaimed \cup {Head(current)}
  /\ LET file == stdio \o current IN
     IF asynchronous /\ childOffset' - lastFadvise > BlockSize
     THEN /\ os' = os \o file
          /\ stdio' = <<>>
          /\ lastFadvise' = NextFadvise(lastFadvise, childOffset')
     ELSE /\ \E n \in 0..Len(file) :
               /\ os' = os \o SubSeq(file, 1, n)
               /\ stdio' = SubSeq(file, n + 1, Len(file))
          /\ UNCHANGED lastFadvise
  /\ current' = <<>>
  /\ cpc' = "check"
  /\ UNCHANGED <<parentVars, data, flush, done, pipe, interrupted, exiting,
                 timerVars>>

ChildStep ==
  \/ RunStart
  \/ RunRead
  \/ RunCommand
  \/ RunTimer
  \/ RunWorkDone
  \/ RunWorkCheck
  \/ WriteFrontPop
  \/ WriteFrontWrite

-----------------------------------------------------------------------------
(* DoTimer(), in the signal handler *)

TimerExpires ==
  /\ armed
  /\ tpc = "idle"
  /\ timerFired' = TRUE
  /\ tpc' = "signal"
  /\ UNCHANGED <<parentVars, data, flush, done, pipe, interrupted, childVars,
                 fileVars, armed>>

\* The handler signals the child; when it ran in the child's thread, its
\* read() returns EINTR.
TimerSignal ==
  /\ tpc = "signal"
  /\ SignalThread
  /\ tpc' = "idle"
  /\ interrupted' \in {interrupted, interrupted \/ cpc = "read"}
  /\ UNCHANGED <<parentVars, data, flush, done, childVars, fileVars, armed,
                 timerFired>>

-----------------------------------------------------------------------------
Next ==
  \/ \E b \in Buffers : Write(b)
  \/ Flush
  \/ Destroy
  \/ ParentSignal
  \/ ParentJoin
  \/ ChildStep
  \/ TimerExpires
  \/ TimerSignal

Spec == Init /\ [][Next]_vars

\* The operating system keeps both threads running, finishes a signal
\* handler it started and, once the timer is armed, makes it expire again
\* and again.  Nothing obliges the owner to call Write, Flush or the
\* destructor.
Fairness ==
  /\ WF_vars(ChildStep)
  /\ WF_vars(ParentSignal \/ ParentJoin)
  /\ WF_vars(TimerExpires)
  /\ WF_vars(TimerSignal)

FairSpec == Spec /\ Fairness

-----------------------------------------------------------------------------
TypeOK ==
  /\ ppc \in {"ready", "signal", "join", "closed"}
  /\ position \in Nat
  /\ data \in Seq(Buffers) /\ capacity \in Nat \ {0}
  /\ asynchronous \in BOOLEAN /\ armed \in BOOLEAN /\ timerFired \in BOOLEAN
  /\ flush \in BOOLEAN /\ done \in BOOLEAN
  /\ interrupted \in BOOLEAN /\ exiting \in BOOLEAN
  /\ pipe \in 0..PipeCapacity
  /\ cpc \in {"start", "read", "command", "timer", "check", "pop", "fwrite",
              "exited"}
  /\ current \in Seq(Buffers) /\ Len(current) <= 1
  /\ stdio \in Seq(Buffers) /\ os \in Seq(Buffers)
  /\ childOffset \in Nat /\ lastFadvise \in Nat
  /\ reclaimed \subseteq Buffers
  /\ tpc \in {"idle", "signal"}
  /\ accepted \in Seq(Buffers) /\ flushGoal \in Nat

\* No buffer is lost, duplicated or overtaken on its way from Write to the
\* file: what was accepted is, in order, in the kernel, in the FILE, in the
\* child's hands and in data_, whatever the capacity of data_ was.
NothingLost == accepted = os \o stdio \o current \o data

\* posix_fadvise(DONTNEED) only ever names bytes that the kernel has, and
\* leaves at most one block behind.
FadviseBehind ==
  /\ lastFadvise <= Bytes(os)
  /\ asynchronous => childOffset - lastFadvise <= BlockSize

\* A buffer given back to the reclaimer, to be filled anew, is no longer in
\* data_ or being written.
ReclaimedIsFree == reclaimed \cap ToSet(current \o data) = {}

\* Every buffer written before a Flush call reaches the kernel, even when
\* the Flush finds the pipe full, or the child handles flush_ before it has
\* taken the buffers from data_.
FlushReachesKernel ==
  \A n \in 1..Len(SetToSeq(Buffers)) : flushGoal = n ~> Len(os) >= n

\* With the periodic timer every buffer reaches the kernel without a Flush.
TimerReachesKernel ==
  \A n \in 1..Len(SetToSeq(Buffers)) :
    asynchronous /\ Len(accepted) = n ~> Len(os) >= n

\* The destructor ends: the child cannot sleep through done_.
DestructorEnds == done ~> ppc = "closed"

\* Nothing the child is asked for through the pipe is missed, although
\* SignalThread drops a wake-up that finds the pipe full: flushes, the
\* timer's signals and the end.
SignalsTakeEffect == FlushReachesKernel /\ TimerReachesKernel /\ DestructorEnds

-----------------------------------------------------------------------------
Log == INSTANCE AppendLog
         WITH durable <- os, closed <- (ppc = "closed")

\* The writer is an append-only log that is complete when it is closed.
ImplementsLog == Log!LogSpec
=============================================================================
