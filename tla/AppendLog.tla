----------------------------- MODULE AppendLog -----------------------------
(***************************************************************************)
(* What base/thread_writer.h promises: the buffers handed to Write reach   *)
(* the operating system in the order of the calls, and all of them have    *)
(* when the writer is destroyed.                                           *)
(***************************************************************************)
EXTENDS Sequences, Integers

CONSTANT Buffers

VARIABLES accepted, durable, closed

logVars == <<accepted, durable, closed>>

LogInit == accepted = <<>> /\ durable = <<>> /\ closed = FALSE

Add(b) ==
  /\ ~closed
  /\ accepted' = Append(accepted, b)
  /\ UNCHANGED <<durable, closed>>

\* More of the accepted buffers become durable.
Persist ==
  /\ ~closed
  /\ \E n \in (Len(durable) + 1)..Len(accepted) :
       durable' = SubSeq(accepted, 1, n)
  /\ UNCHANGED <<accepted, closed>>

Close ==
  /\ ~closed
  /\ closed' = TRUE
  /\ durable' = accepted
  /\ UNCHANGED accepted

LogNext == (\E b \in Buffers : Add(b)) \/ Persist \/ Close

LogSpec == LogInit /\ [][LogNext]_logVars
=============================================================================
