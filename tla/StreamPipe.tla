----------------------------- MODULE StreamPipe -----------------------------
(***************************************************************************)
(* mjlib/micro/stream_pipe.cc over mjlib/micro/event_queue.h: a pipe whose *)
(* two sides are AsyncStreams.  Poll takes the events posted so far and    *)
(* runs them; those they post are for the next round.  The users call from *)
(* any event (external).                                                   *)
(***************************************************************************)
EXTENDS Naturals, Sequences, FiniteSets

CONSTANTS
  PipeSizes,      \* sizes of the users' buffers, 0 among them
  MaxPipeBytes    \* bound: bytes a side writes

Sides == {"a", "b"}
Other(s) == IF s = "a" THEN "b" ELSE "a"

VARIABLES
  outRead,    \* size of outstanding_read_buffer_ of each side
  outWrite,   \* outstanding_write_buffer_
  events,     \* events_
  batch,      \* the copy Poll runs
  using,      \* operations whose callback was not called
  wrote, got  \* history: bytes written and read, by the side that did it

vars == <<outRead, outWrite, events, batch, using, wrote, got>>

Read(s) == <<s, "read">>
Write(s) == <<s, "write">>

Init ==
  /\ outRead = [s \in Sides |-> 0] /\ outWrite = [s \in Sides |-> <<>>]
  /\ events = <<>> /\ batch = <<>> /\ using = {}
  /\ wrote = [s \in Sides |-> 0] /\ got = [s \in Sides |-> <<>>]

\* An event that ends the operations "ends", and what was copied to a reader.
Event(ends, reader, bytes) == [ends |-> ends, reader |-> reader, bytes |-> bytes]

Copied(size, bytes) == SubSeq(bytes, 1, IF size < Len(bytes) THEN size ELSE Len(bytes))

\* Fault: the write it takes from is not ended, and a read of nothing waits.
AsyncReadSomeAlone(s, size) ==
  /\ Read(s) \notin using
  /\ using' = using \cup {Read(s)}
  /\ IF outWrite[Other(s)] # <<>>
     THEN /\ events' = Append(events, Event({Read(s)}, s, Copied(size, outWrite[Other(s)])))
          /\ UNCHANGED outRead
     ELSE /\ outRead' = [outRead EXCEPT ![s] = size]
          /\ UNCHANGED events
  /\ UNCHANGED <<outWrite, batch, wrote, got>>

\* The buffer of the other side's write is copied; the write is outstanding
\* until the event runs.
AsyncReadSome(s, size) ==
  /\ Read(s) \notin using
  /\ using' = using \cup {Read(s)}
  /\ IF outWrite[Other(s)] # <<>>
     THEN /\ events' = Append(events, Event({Read(s), Write(Other(s))}, s,
                                            Copied(size, outWrite[Other(s)])))
          /\ UNCHANGED outRead
     ELSE IF size = 0
     THEN events' = Append(events, Event({Read(s)}, s, <<>>)) /\ UNCHANGED outRead
     ELSE outRead' = [outRead EXCEPT ![s] = size] /\ UNCHANGED events
  /\ UNCHANGED <<outWrite, batch, wrote, got>>

AsyncWriteSome(s, size) ==
  LET bytes == [i \in 1..size |-> wrote[s] + i] IN
    /\ Write(s) \notin using /\ wrote[s] + size <= MaxPipeBytes
    /\ using' = using \cup {Write(s)}
    /\ IF outRead[Other(s)] # 0
       THEN /\ events' = Append(events, Event({Read(Other(s)), Write(s)}, Other(s),
                                              Copied(outRead[Other(s)], bytes)))
            /\ UNCHANGED outWrite
       ELSE IF size = 0
       THEN events' = Append(events, Event({Write(s)}, Other(s), <<>>)) /\ UNCHANGED outWrite
       ELSE outWrite' = [outWrite EXCEPT ![s] = bytes] /\ UNCHANGED events
    /\ UNCHANGED <<outRead, batch, wrote, got>>

\* EventQueue::Poll: the events so far become the batch...
PollStarts ==
  /\ batch = <<>> /\ events # <<>>
  /\ batch' = events /\ events' = <<>>
  /\ UNCHANGED <<outRead, outWrite, using, wrote, got>>

\* ...and are run: what was outstanding is cleared and the callbacks are
\* called.
RunEvent ==
  LET e == Head(batch)
      ended(s, op) == <<s, op>> \in e.ends
      copied == Cardinality(e.ends) = 2
  IN /\ batch # <<>>
     /\ batch' = Tail(batch)
     /\ using' = using \ e.ends
     /\ outRead' = [s \in Sides |-> IF copied /\ ended(s, "read") THEN 0 ELSE outRead[s]]
     /\ outWrite' = [s \in Sides |-> IF copied /\ ended(s, "write") THEN <<>> ELSE outWrite[s]]
     /\ got' = [got EXCEPT ![e.reader] = @ \o e.bytes]
     /\ wrote' = [wrote EXCEPT ![Other(e.reader)] = @ + Len(e.bytes)]
     /\ UNCHANGED events

Next ==
  \/ \E s \in Sides, size \in PipeSizes : AsyncReadSome(s, size) \/ AsyncWriteSome(s, size)
  \/ PollStarts
  \/ RunEvent

Spec == Init /\ [][Next]_vars

-----------------------------------------------------------------------------
\* Every byte a side was told it wrote was read by the other one, in order,
\* and every operation under way has one event to end it or waits where the
\* other side finds it; a reader and a writer never both wait.
PipeExact ==
  LET posted == batch \o events
      ending(op) == {i \in DOMAIN posted : op \in posted[i].ends}
  IN \A s \in Sides :
       /\ got[s] = [i \in 1..wrote[Other(s)] |-> i]
       /\ \A op \in {Read(s), Write(s)} :
            /\ Cardinality(ending(op)) <= 1
            /\ op \notin using => ending(op) = {}
       /\ Read(s) \in using /\ ending(Read(s)) = {} => outRead[s] # 0
       /\ Write(s) \in using /\ ending(Write(s)) = {} => outWrite[s] # <<>>
       /\ ~(Read(s) \in using /\ ending(Read(s)) = {}
            /\ Write(Other(s)) \in using /\ ending(Write(Other(s))) = {})
=============================================================================
