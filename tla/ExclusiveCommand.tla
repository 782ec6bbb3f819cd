-------------------------- MODULE ExclusiveCommand --------------------------
(***************************************************************************)
(* mjlib/io/exclusive_command.h: "a mutex in the asio callback world".     *)
(* Invoke queues a command; one command at a time is started, by a         *)
(* callback posted to the executor; the wrapper passed to the command      *)
(* calls the user's handler and posts ItemDone, which starts the next one. *)
(*                                                                         *)
(* The executor runs one posted callback at a time, in order.  What a      *)
(* command does is external: it calls its wrapper at once, or later from   *)
(* some other callback.                                                    *)
(***************************************************************************)
EXTENDS Integers, Sequences, FiniteSets, SequencesExt

CONSTANTS
  Commands,   \* the commands a user may Invoke, each once
  None        \* the null pointer

ASSUME NoneAssumption == None \notin Commands

VARIABLES
  waiting,    \* waiting_
  queued,     \* queued_
  posted,     \* the callbacks posted to the executor
  running,    \* commands invoked whose wrapper was not called yet
  finished,   \* commands whose handler was called, in order
  removed,    \* commands taken out by remove()
  order,      \* history: the commands not removed, in the order of Invoke
  failed      \* an MJ_ASSERT did not hold

vars == <<waiting, queued, posted, running, finished, removed, order, failed>>

\* The two callbacks that are posted: Invoke of a command and ItemDone.
InvokeCall(c) == [op |-> "invoke", command |-> c]
DoneCall == [op |-> "done", command |-> None]
Calls == {InvokeCall(c) : c \in Commands} \cup {DoneCall}

Init ==
  /\ waiting = None
  /\ queued = <<>>
  /\ posted = <<>>
  /\ running = {}
  /\ finished = <<>>
  /\ removed = {}
  /\ order = <<>>
  /\ failed = FALSE

\* Fault: the lock is not looked at.
StartNextUnguarded(w, q) ==
  IF q # <<>>
  THEN [waiting |-> Head(q), queued |-> Tail(q), post |-> <<InvokeCall(Head(q))>>]
  ELSE [waiting |-> w, queued |-> q, post |-> <<>>]

\* Fault: the command queued last goes first.
StartNextLast(w, q) ==
  IF w = None /\ q # <<>>
  THEN [waiting |-> Last(q), queued |-> Front(q), post |-> <<InvokeCall(Last(q))>>]
  ELSE [waiting |-> w, queued |-> q, post |-> <<>>]

\* What MaybeStart() makes of the lock w and the queue q: when the lock is
\* free, the first command takes it and its Invoke is posted.
StartNext(w, q) ==
  IF w = None /\ q # <<>>
  THEN [waiting |-> Head(q), queued |-> Tail(q), post |-> <<InvokeCall(Head(q))>>]
  ELSE [waiting |-> w, queued |-> q, post |-> <<>>]

MaybeStart(w, q, ps) ==
  LET next == StartNext(w, q) IN
    /\ waiting' = next.waiting
    /\ queued' = next.queued
    /\ posted' = ps \o next.post

Invoke(c) ==
  /\ c \notin ToSet(order) \cup removed
  /\ MaybeStart(waiting, Append(queued, c), posted)
  /\ order' = Append(order, c)
  /\ UNCHANGED <<running, finished, removed, failed>>

\* remove() of a command that is still queued, where it is once; of any other
\* it returns 0.
RemoveCommand(c) ==
  /\ \E i \in DOMAIN queued : queued[i] = c /\ queued' = RemoveAt(queued, i)
  /\ \E i \in DOMAIN order : order[i] = c /\ order' = RemoveAt(order, i)
  /\ removed' = removed \cup {c}
  /\ UNCHANGED <<waiting, posted, running, finished, failed>>

\* Fault: the lock is released when the command starts.
RunInvokeReleases ==
  /\ posted # <<>> /\ Head(posted).op = "invoke"
  /\ posted' = Tail(posted)
  /\ running' = running \cup {Head(posted).command}
  /\ waiting' = None
  /\ UNCHANGED <<queued, finished, removed, order, failed>>

\* The executor runs Invoke of a command, which calls its wrapper later...
RunInvoke ==
  /\ posted # <<>> /\ Head(posted).op = "invoke"
  /\ posted' = Tail(posted)
  /\ running' = running \cup {Head(posted).command}
  /\ UNCHANGED <<waiting, queued, finished, removed, order, failed>>

\* ...or before it returns.
RunInvokeAtOnce ==
  /\ posted # <<>> /\ Head(posted).op = "invoke"
  /\ finished' = Append(finished, Head(posted).command)
  /\ failed' = (failed \/ waiting = None)
  /\ posted' = Append(Tail(posted), DoneCall)
  /\ UNCHANGED <<waiting, queued, running, removed, order>>

\* HandlerWrapper::operator(): the handler, then ItemDone is posted.
Complete(c) ==
  /\ c \in running
  /\ running' = running \ {c}
  /\ finished' = Append(finished, c)
  /\ failed' = (failed \/ waiting = None)
  /\ posted' = Append(posted, DoneCall)
  /\ UNCHANGED <<waiting, queued, removed, order>>

\* Fault: the lock is released and nobody is started.
ItemDoneOnly ==
  /\ posted # <<>> /\ Head(posted).op = "done"
  /\ failed' = (failed \/ waiting = None)
  /\ waiting' = None
  /\ posted' = Tail(posted)
  /\ UNCHANGED <<queued, running, finished, removed, order>>

ItemDone ==
  /\ posted # <<>> /\ Head(posted).op = "done"
  /\ failed' = (failed \/ waiting = None)
  /\ MaybeStart(None, queued, Tail(posted))
  /\ UNCHANGED <<running, finished, removed, order>>

Next ==
  \/ \E c \in Commands : Invoke(c) \/ RemoveCommand(c) \/ Complete(c)
  \/ RunInvoke
  \/ RunInvokeAtOnce
  \/ ItemDone

Spec == Init /\ [][Next]_vars

\* The executor keeps running, and "this handler must be called when the
\* operation is complete".
Fairness ==
  /\ WF_vars(RunInvoke \/ RunInvokeAtOnce \/ ItemDone)
  /\ \A c \in Commands : WF_vars(Complete(c))

FairSpec == Spec /\ Fairness

-----------------------------------------------------------------------------
TypeOK ==
  /\ waiting \in Commands \cup {None}
  /\ queued \in Seq(Commands)
  /\ posted \in Seq(Calls)
  /\ running \subseteq Commands
  /\ finished \in Seq(Commands)
  /\ removed \subseteq Commands
  /\ order \in Seq(Commands)
  /\ failed \in BOOLEAN

\* Line 29: at most one command is outstanding, and it is the one waiting_
\* names; the assertions of lines 71 and 112 hold.
OneOutstanding ==
  /\ \A c, d \in running : c = d
  /\ running \subseteq {waiting}
  /\ ~failed

\* One command at a time is outstanding, and the lock is held exactly while
\* one callback that will release it, or start its command, is on its way:
\* no wake-up is lost and none doubled.
OneToken ==
  /\ OneOutstanding
  /\ Len(posted) + Cardinality(running) = (IF waiting = None THEN 0 ELSE 1)

\* A command waits only behind another one.
NoIdleQueue == queued # <<>> => waiting # None

\* Commands run in the order of Invoke; remove() takes one out without
\* disturbing the others.
InOrder ==
  LET held == IF waiting # None /\ waiting \notin ToSet(finished)
              THEN <<waiting>> ELSE <<>>
  IN order = finished \o held \o queued

\* Every command that is invoked and not removed gets its turn.
EveryCommandFinishes ==
  \A c \in Commands :
    c \in ToSet(order) ~> c \in ToSet(finished) \cup removed
=============================================================================
