----------------------------- MODULE StreamCopy -----------------------------
(***************************************************************************)
(* mjlib/io/stream_copy.h between two pipes of                             *)
(* mjlib/io/stream_pipe_factory.cc.  Ends 1 and 2 are the first pipe, ends *)
(* 3 and 4 the second; BidirectionalStreamCopy joins 2 and 3, users have 1 *)
(* and 4.  Direction 1 goes up, direction 2 down.  Handlers run in the     *)
(* order in which they were posted.                                        *)
(*                                                                         *)
(* External: the users, and boost::asio::async_write, which writes on      *)
(* until everything is written.                                            *)
(***************************************************************************)
EXTENDS Naturals, Sequences, SequencesExt

CONSTANTS
  ReadSizes, WriteSizes,   \* sizes of the users' reads and writes
  CopySize,    \* sizeof(buffer_)
  MaxBytes,    \* bound: bytes a user writes
  MaxCancels   \* bound: cancel() calls

Ends == 1..4
Directions == 1..2
Other(e) == <<2, 1, 4, 3>>[e]
In(d) == <<2, 3>>[d]     \* where copy d reads
Out(d) == <<3, 2>>[d]    \* where copy d writes
From(d) == <<1, 4>>[d]   \* the user who writes
To(d) == <<4, 1>>[d]     \* the user who reads

VARIABLES
  read,      \* read[e]: size of read_buffers_, 0 if there is no read_handler_
  write,     \* write[e]: write_buffers_, empty if there is no write_handler_
  posted,    \* handlers posted to the executor
  busy,      \* busy[e]: the operations of a user that have not ended
  copying,   \* copying[d]: what StreamCopy still has to write
  done,      \* done_callback_ of each copy, and of the pair (3), is moved
  wrote, got,  \* history: bytes the users wrote, and read, by direction
  cancels, ended   \* calls of cancel(), and of the user's done_callback_

vars == <<read, write, posted, busy, copying, done, wrote, got, cancels, ended>>

\* A handler of end e, with the bytes or the number of them.
ReadDone(e, ec, bytes) == [op |-> "read", end |-> e, ec |-> ec, bytes |-> bytes]
WriteDone(e, ec, n) == [op |-> "write", end |-> e, ec |-> ec, n |-> n]
Done(d) == [op |-> "done", copy |-> d]

-----------------------------------------------------------------------------
(* HalfPipe; p has read, write and posted. *)

Copied(size, bytes) == SubSeq(bytes, 1, IF size < Len(bytes) THEN size ELSE Len(bytes))

AsyncReadSome(p, e, size) ==
  IF size = 0 THEN [p EXCEPT !.posted = Append(@, ReadDone(e, "ok", <<>>))]
  ELSE IF p.write[Other(e)] = <<>> THEN [p EXCEPT !.read[e] = size]
  ELSE LET bytes == Copied(size, p.write[Other(e)]) IN
    [p EXCEPT !.posted = @ \o <<WriteDone(Other(e), "ok", Len(bytes)),
                                ReadDone(e, "ok", bytes)>>,
              !.write[Other(e)] = <<>>]

\* Fault: whoever reads at the other end is not looked at.
AsyncWriteSomeWaits(p, e, bytes) ==
  IF bytes = <<>> THEN [p EXCEPT !.posted = Append(@, WriteDone(e, "ok", 0))]
  ELSE [p EXCEPT !.write[e] = bytes]

AsyncWriteSome(p, e, bytes) ==
  IF bytes = <<>> THEN [p EXCEPT !.posted = Append(@, WriteDone(e, "ok", 0))]
  ELSE IF p.read[Other(e)] = 0 THEN [p EXCEPT !.write[e] = bytes]
  ELSE LET copy == Copied(p.read[Other(e)], bytes) IN
    [p EXCEPT !.posted = @ \o <<ReadDone(Other(e), "ok", copy),
                                WriteDone(e, "ok", Len(copy))>>,
              !.read[Other(e)] = 0]

CancelEnd(p, e) ==
  [read |-> [p.read EXCEPT ![e] = 0], write |-> [p.write EXCEPT ![e] = <<>>],
   posted |-> p.posted
     \o (IF p.read[e] = 0 THEN <<>> ELSE <<ReadDone(e, "aborted", <<>>)>>)
     \o (IF p.write[e] = <<>> THEN <<>> ELSE <<WriteDone(e, "aborted", 0)>>)]

Pipes(rest) == [read |-> read, write |-> write, posted |-> rest]
Becomes(p) == read' = p.read /\ write' = p.write /\ posted' = p.posted

-----------------------------------------------------------------------------
\* Both copies start to read when they are constructed.
Init ==
  /\ read = [e \in Ends |-> IF e \in {2, 3} THEN CopySize ELSE 0]
  /\ write = [e \in Ends |-> <<>>]
  /\ posted = <<>>
  /\ busy = [e \in {1, 4} |-> {}]
  /\ copying = [d \in Directions |-> <<>>]
  /\ done = {}
  /\ wrote = [d \in Directions |-> <<>>] /\ got = [d \in Directions |-> <<>>]
  /\ cancels = 0 /\ ended = 0

\* The first error of copy d: its done_callback_ is posted.
Fail(p, d) ==
  /\ done' = done \cup {d}
  /\ Becomes([p EXCEPT !.posted = IF d \in done THEN @ ELSE Append(@, Done(d))])

HandleRead(d) ==
  LET h == Head(posted) IN
    /\ posted # <<>> /\ h.op = "read" /\ h.end = In(d)
    /\ IF h.ec # "ok" THEN Fail(Pipes(Tail(posted)), d) /\ UNCHANGED copying
       ELSE /\ Becomes(AsyncWriteSome(Pipes(Tail(posted)), Out(d), h.bytes))
            /\ copying' = [copying EXCEPT ![d] = h.bytes]
            /\ UNCHANGED done
    /\ UNCHANGED <<busy, wrote, got, cancels, ended>>

\* Fault: what async_write_some did not take is dropped.
RemainingNone(d, n) == <<>>

\* What async_write has left after n more bytes.
Remaining(d, n) == SubSeq(copying[d], n + 1, Len(copying[d]))

HandleWrite(d) ==
  LET h == Head(posted) IN
    /\ posted # <<>> /\ h.op = "write" /\ h.end = Out(d)
    /\ IF h.ec # "ok" THEN Fail(Pipes(Tail(posted)), d) /\ UNCHANGED copying
       ELSE /\ copying' = [copying EXCEPT ![d] = Remaining(d, h.n)]
            /\ Becomes(IF Remaining(d, h.n) # <<>>
                       THEN AsyncWriteSome(Pipes(Tail(posted)), Out(d), Remaining(d, h.n))
                       ELSE AsyncReadSome(Pipes(Tail(posted)), In(d), CopySize))
            /\ UNCHANGED done
    /\ UNCHANGED <<busy, wrote, got, cancels, ended>>

\* BidirectionalStreamCopy::HandleDone: the user is told once.
HandleDone ==
  /\ posted # <<>> /\ Head(posted).op = "done"
  /\ IF Head(posted).copy = 3
     THEN posted' = Tail(posted) /\ ended' = ended + 1 /\ UNCHANGED done
     ELSE /\ posted' = IF 3 \in done THEN Tail(posted) ELSE Append(Tail(posted), Done(3))
          /\ done' = done \cup {3}
          /\ UNCHANGED ended
  /\ UNCHANGED <<read, write, busy, copying, wrote, got, cancels>>

-----------------------------------------------------------------------------
UserReads(d, size) ==
  /\ "read" \notin busy[To(d)]
  /\ busy' = [busy EXCEPT ![To(d)] = @ \cup {"read"}]
  /\ Becomes(AsyncReadSome(Pipes(posted), To(d), size))
  /\ UNCHANGED <<copying, done, wrote, got, cancels, ended>>

\* The bytes that follow those the user knows were written.
UserWrites(d, size) ==
  /\ "write" \notin busy[From(d)] /\ Len(wrote[d]) + size <= MaxBytes
  /\ busy' = [busy EXCEPT ![From(d)] = @ \cup {"write"}]
  /\ Becomes(AsyncWriteSome(Pipes(posted), From(d),
                            [i \in 1..size |-> Len(wrote[d]) + i]))
  /\ UNCHANGED <<copying, done, wrote, got, cancels, ended>>

UserIsTold(d) ==
  LET h == Head(posted) IN
    /\ posted # <<>> /\ h.op # "done"
    /\ \/ /\ h.op = "read" /\ h.end = To(d)
          /\ got' = [got EXCEPT ![d] = @ \o h.bytes]
          /\ UNCHANGED wrote
       \/ /\ h.op = "write" /\ h.end = From(d)
          /\ wrote' = [wrote EXCEPT ![d] = @ \o [i \in 1..h.n |-> Len(@) + i]]
          /\ UNCHANGED got
    /\ posted' = Tail(posted)
    /\ busy' = [busy EXCEPT ![h.end] = @ \ {h.op}]
    /\ UNCHANGED <<read, write, copying, done, cancels, ended>>

Cancel(e) ==
  /\ cancels < MaxCancels
  /\ cancels' = cancels + 1
  /\ Becomes(CancelEnd(Pipes(posted), e))
  /\ UNCHANGED <<busy, copying, done, wrote, got, ended>>

Next ==
  \/ \E d \in Directions :
       \/ HandleRead(d) \/ HandleWrite(d) \/ UserIsTold(d)
       \/ \E size \in ReadSizes : UserReads(d, size)
       \/ \E size \in WriteSizes : UserWrites(d, size)
  \/ HandleDone
  \/ \E e \in Ends : Cancel(e)

Spec == Init /\ [][Next]_vars

-----------------------------------------------------------------------------
\* In each direction the bytes arrive in order and once, whatever the sizes
\* of the reads and writes and whenever an operation is canceled; and with
\* no cancel none is lost on the way.
CopiedInOrder ==
  \A d \in Directions :
    /\ \A i \in DOMAIN got[d] : got[d][i] = i
    /\ cancels = 0 /\ posted = <<>> =>
         /\ Len(wrote[d]) = Len(got[d]) + Len(copying[d])
         /\ ended = 0

\* In a pipe a reader and a writer never both wait; a copy that has not
\* failed always has an operation under way; the user's done_callback_ is
\* called once.
NoStandoff ==
  /\ \A e \in Ends : ~(read[e] # 0 /\ write[Other(e)] # <<>>)
  /\ \A d \in Directions \ done :
       \/ read[In(d)] # 0
       \/ write[Out(d)] # <<>>
       \/ \E i \in DOMAIN posted :
            \/ posted[i].op = "read" /\ posted[i].end = In(d)
            \/ posted[i].op = "write" /\ posted[i].end = Out(d)
  /\ ended <= 1
=============================================================================
