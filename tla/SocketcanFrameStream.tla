------------------------- MODULE SocketcanFrameStream -------------------------
(***************************************************************************)
(* mjlib/multiplex/socketcan_frame_stream.cc (the Linux implementation):   *)
(* one CAN-FD frame per read and write of a socket.  The timeout of a read *)
(* cancels every operation of the socket.                                  *)
(*                                                                         *)
(* External: the socket and the bus.                                       *)
(***************************************************************************)
EXTENDS CanFrameStream

CONSTANT MaxErrors   \* bound: writes that fail

VARIABLES
  writing,   \* the WriteMultipleContext: frames, index, the call; or <<>>
  onBus,     \* history: what the socket has taken, by call
  wrote,     \* wrote[w]: what the callback of call w was given
  errors     \* writes that failed

canVars == <<sent, line, outstanding, reads, current, timer, posted, told, writes>>
writeVars == <<writing, onBus, wrote, errors>>
vars == <<canVars, writeVars>>

WriteCallback(w, ec) == [op |-> "wrote", call |-> w, ec |-> ec]

Init ==
  /\ StreamInit
  /\ writing = <<>> /\ errors = 0
  /\ onBus = [w \in 1..MaxWrites |-> <<>>]
  /\ wrote = [w \in 1..MaxWrites |-> <<>>]

-----------------------------------------------------------------------------
AsyncRead ==
  /\ current = 0 /\ ~outstanding
  /\ reads < MaxReads
  /\ reads' = reads + 1
  /\ current' = reads'
  /\ SetTimer(reads')
  /\ outstanding' = TRUE
  /\ UNCHANGED <<sent, line, posted, told, writes, writeVars>>

\* The socket hands over a frame.  The timer is left as it is.
HandleRead ==
  /\ outstanding /\ line # <<>>
  /\ outstanding' = FALSE
  /\ line' = Tail(line)
  /\ current' = 0
  /\ posted' = Append(posted,
       Callback(current, Received(FrameOf(Head(line).id, Head(line).data))))
  /\ UNCHANGED <<sent, reads, timer, told, writes, writeVars>>

\* Fault: the error is not passed on.
EndWriteOk(ec) ==
  IF writing = <<>> THEN <<>> ELSE <<WriteCallback(writing[1].call, "ok")>>

\* What a call that ends leaves to be run.
EndWrite(ec) ==
  IF writing = <<>> THEN <<>> ELSE <<WriteCallback(writing[1].call, ec)>>

\* HandleTimer with the HandleRead it causes: stream_.cancel() aborts the
\* read, whichever is current now, and a write.
HandleTimer ==
  /\ posted # <<>> /\ Head(posted) = TimerCall
  /\ IF current # 0
     THEN /\ current' = 0 /\ outstanding' = FALSE
          /\ posted' = Tail(posted) \o <<Callback(current, NoFrame)>>
                         \o EndWrite("aborted")
          /\ writing' = <<>>
     ELSE /\ posted' = Tail(posted)
          /\ UNCHANGED <<current, outstanding, writing>>
  /\ UNCHANGED <<sent, line, reads, timer, told, writes, onBus, wrote, errors>>

-----------------------------------------------------------------------------
CanFrame(frame) == [id |-> CanId(frame), data |-> CanData(frame)]

\* AsyncWrite is a batch of one.
AsyncWriteMultiple(n) ==
  /\ writing = <<>>
  /\ writes < MaxWrites
  /\ writes' = writes + 1
  /\ writing' = <<[call |-> writes', frames |-> SubSeq(Messages, 1, n), index |-> 1]>>
  /\ UNCHANGED <<sent, line, outstanding, reads, current, timer, posted, told,
                 onBus, wrote, errors>>

\* The socket takes the frame at the index: the next is written, or the
\* callback is posted.
StartWriteMultipleContext ==
  /\ writing # <<>>
  /\ LET ctx == writing[1]
         last == ctx.index = Len(ctx.frames) IN
       /\ onBus' = [onBus EXCEPT ![ctx.call] = Append(@, CanFrame(ctx.frames[ctx.index]))]
       /\ writing' = IF last THEN <<>> ELSE <<[ctx EXCEPT !.index = @ + 1]>>
       /\ posted' = IF last THEN posted \o EndWrite("ok") ELSE posted
  /\ UNCHANGED <<sent, line, outstanding, reads, current, timer, told, writes,
                 wrote, errors>>

\* "an error, bail early"
WriteError ==
  /\ writing # <<>> /\ errors < MaxErrors
  /\ errors' = errors + 1
  /\ writing' = <<>>
  /\ posted' = posted \o EndWrite("error")
  /\ UNCHANGED <<sent, line, outstanding, reads, current, timer, told, writes,
                 onBus, wrote>>

RunWriteCallback ==
  /\ posted # <<>> /\ Head(posted).op = "wrote"
  /\ posted' = Tail(posted)
  /\ wrote' = [wrote EXCEPT ![Head(posted).call] = Append(@, Head(posted).ec)]
  /\ UNCHANGED <<sent, line, outstanding, reads, current, timer, told, writes,
                 writing, onBus, errors>>

PeerSends ==
  /\ sent < Len(Messages)
  /\ sent' = sent + 1
  /\ line' = Append(line, CanFrame(Messages[sent']))
  /\ UNCHANGED <<outstanding, reads, current, timer, posted, told, writes, writeVars>>

Next ==
  \/ AsyncRead
  \/ HandleRead
  \/ HandleTimer
  \/ \E n \in Batches : AsyncWriteMultiple(n)
  \/ StartWriteMultipleContext
  \/ WriteError
  \/ RunWriteCallback
  \/ PeerSends
  \/ (TimerExpires \/ RunCallback) /\ UNCHANGED writeVars

Spec == Init /\ [][Next]_vars

-----------------------------------------------------------------------------
\* A write is answered once, and "ok" means that every frame of the batch is
\* on the bus, in order, and what is there could be read back.
WritesComplete ==
  \A w \in 1..writes :
    /\ Len(wrote[w]) <= 1
    /\ wrote[w] = <<"ok">> =>
         \E n \in Batches :
           /\ Len(onBus[w]) = n
           /\ \A i \in 1..n :
                SameButPadded(FrameOf(onBus[w][i].id, onBus[w][i].data), Messages[i])
=============================================================================
