---------------------------- MODULE HostIoProofs ----------------------------
(***************************************************************************)
(* Proofs about the host's asynchronous helpers of MCHostIo, for any set   *)
(* of commands, any timers and any sizes and bounds.                       *)
(*                                                                         *)
(* ExclusiveCommand: LockInv says in which of four phases the lock is      *)
(* (LockPhase): free, or held by a command whose Invoke is posted, that    *)
(* runs, or whose ItemDone is posted; and that a command is in one place   *)
(* only (InOrder, EachOnce).                                               *)
(*                                                                         *)
(* The other parts have an inductive invariant each (ExecutorInv,          *)
(* SequenceInv, ServerInv, TimerInv, CopyInv); HostInv is all of them, for *)
(* the part a behaviour is about.                                          *)
(***************************************************************************)
EXTENDS MCHostIo, SequenceFacts, FiniteSetTheorems

-----------------------------------------------------------------------------
(* ExclusiveCommand *)

Free == waiting = None /\ posted = <<>> /\ running = {} /\ queued = <<>>

Invoking ==
  /\ waiting \in Commands /\ waiting \notin ToSet(finished)
  /\ posted = <<InvokeCall(waiting)>> /\ running = {}

Running ==
  /\ waiting \in Commands /\ waiting \notin ToSet(finished)
  /\ posted = <<>> /\ running = {waiting}

Releasing ==
  /\ waiting \in Commands /\ waiting \in ToSet(finished)
  /\ posted = <<DoneCall>> /\ running = {}

\* The command that has the lock is on its way, or its release is.
LockPhase == Free \/ Invoking \/ Running \/ Releasing

EachOnce == Distinct(order) /\ ToSet(order) \cap removed = {}

LockInv == TypeOK /\ LockPhase /\ ~failed /\ InOrder /\ EachOnce

-----------------------------------------------------------------------------
\* What of the lock holder InOrder puts between finished and queued.
HeldSeq ==
  IF waiting # None /\ waiting \notin ToSet(finished) THEN <<waiting>> ELSE <<>>

\* InOrder with its parts named.
LEMMA InOrderDef == InOrder <=> order = (finished \o HeldSeq) \o queued
BY DEF InOrder, HeldSeq

\* The lock holder is a sequence of at most one command.
LEMMA HeldSeqType ==
  ASSUME TypeOK
  PROVE  HeldSeq \in Seq(Commands) /\ finished \o HeldSeq \in Seq(Commands)
<1>1. CASE waiting # None /\ waiting \notin ToSet(finished)
  <2>1. waiting \in Commands
    BY <1>1 DEF TypeOK
  <2>2. HeldSeq = <<waiting>>
    BY <1>1 DEF HeldSeq
  <2>3. HeldSeq \in Seq(Commands)
    BY <2>1, <2>2, SingletonSeq
  <2> QED BY <2>3, ConcatElements DEF TypeOK
<1>2. CASE ~(waiting # None /\ waiting \notin ToSet(finished))
  <2>1. HeldSeq = <<>>
    BY <1>2 DEF HeldSeq
  <2>2. HeldSeq \in Seq(Commands)
    BY <2>1, EmptyIsSeq
  <2> QED BY <2>2, ConcatElements DEF TypeOK
<1> QED BY <1>1, <1>2

\* Whatever is in a part of order is in order, and the parts are disjoint.
LEMMA PartsOfOrder ==
  ASSUME TypeOK, InOrder, EachOnce
  PROVE  /\ ToSet(order) = ToSet(finished) \cup ToSet(HeldSeq) \cup ToSet(queued)
         /\ (ToSet(finished) \cup ToSet(HeldSeq)) \cap ToSet(queued) = {}
<1> DEFINE u == finished \o HeldSeq
<1>1. HeldSeq \in Seq(Commands) /\ u \in Seq(Commands)
  BY HeldSeqType
<1>2. order = u \o queued
  BY InOrderDef
<1>3. ToSet(u) = ToSet(finished) \cup ToSet(HeldSeq)
  BY <1>1, ToSetConcat DEF TypeOK
<1> HIDE DEF u
<1>4. ToSet(u \o queued) = ToSet(u) \cup ToSet(queued)
  BY <1>1, ToSetConcat DEF TypeOK
<1>5. ToSet(u) \cap ToSet(queued) = {}
  BY <1>1, <1>2, DistinctConcat DEF TypeOK, EachOnce
<1> QED BY <1>2, <1>3, <1>4, <1>5

-----------------------------------------------------------------------------
\* The lock is free at first.
LEMMA LockStarts == Init => LockInv
<1> SUFFICES ASSUME Init PROVE LockInv
  OBVIOUS
<1>0. \A S : <<>> \in Seq(S)
  BY EmptyIsSeq
<1>1. TypeOK
  <2>1. failed \in BOOLEAN
    BY DEF Init
  <2>2. waiting \in Commands \cup {None} /\ running \subseteq Commands /\ removed \subseteq Commands
    BY DEF Init
  <2>3. queued \in Seq(Commands) /\ posted \in Seq(Calls)
        /\ finished \in Seq(Commands) /\ order \in Seq(Commands)
    BY <1>0 DEF Init
  <2> QED BY <2>1, <2>2, <2>3 DEF TypeOK
<1>2. LockPhase /\ ~failed
  BY DEF Init, LockPhase, Free
<1>3. HeldSeq = <<>>
  BY DEF Init, HeldSeq
<1>4. InOrder
  <2>1. <<>> \o <<>> = <<>>
    BY <1>0, ConcatEmpty
  <2> QED BY <1>3, <2>1, InOrderDef DEF Init
<1>5. EachOnce
  BY ToSetEmpty DEF Init, EachOnce, Distinct
<1> QED BY <1>1, <1>2, <1>4, <1>5 DEF LockInv

-----------------------------------------------------------------------------
\* What a step has to show of LockInv: HeldSeq' is a state function of its own.
LEMMA LockInvPrime ==
  ASSUME TypeOK', LockPhase', ~failed', EachOnce',
         order' = (finished' \o HeldSeq') \o queued'
  PROVE  LockInv'
BY DEF LockInv, InOrder, HeldSeq

\* MaybeStart with the lock held changes nothing.
LEMMA MaybeStartHeld ==
  ASSUME NEW w \in Commands, NEW q \in Seq(Commands), NEW ps \in Seq(Calls),
         MaybeStart(w, q, ps)
  PROVE  waiting' = w /\ queued' = q /\ posted' = ps
<1>1. StartNext(w, q) = [waiting |-> w, queued |-> q, post |-> <<>>]
  BY NoneAssumption DEF StartNext
<1>2. ps \o <<>> = ps
  BY ConcatEmpty
<1> QED BY <1>1, <1>2 DEF MaybeStart

\* MaybeStart with the lock free and nobody waiting.
LEMMA MaybeStartIdle ==
  ASSUME MaybeStart(None, <<>>, <<>>)
  PROVE  waiting' = None /\ queued' = <<>> /\ posted' = <<>>
<1>1. StartNext(None, <<>>) = [waiting |-> None, queued |-> <<>>, post |-> <<>>]
  BY DEF StartNext
<1>2. <<>> \o <<>> = <<>>
  BY ConcatEmpty, EmptyIsSeq
<1> QED BY <1>1, <1>2 DEF MaybeStart

\* MaybeStart with the lock free gives it to the first command.
LEMMA MaybeStartNext ==
  ASSUME NEW q \in Seq(Commands), q # <<>>, MaybeStart(None, q, <<>>)
  PROVE  /\ waiting' = Head(q) /\ queued' = Tail(q)
         /\ posted' = <<InvokeCall(Head(q))>>
         /\ Head(q) \in Commands /\ Tail(q) \in Seq(Commands)
         /\ posted' \in Seq(Calls)
<1>1. StartNext(None, q)
        = [waiting |-> Head(q), queued |-> Tail(q), post |-> <<InvokeCall(Head(q))>>]
  BY DEF StartNext
<1>2. Head(q) \in Commands /\ Tail(q) \in Seq(Commands)
  BY ConcatHeadTail
<1>3. InvokeCall(Head(q)) \in Calls
  BY <1>2 DEF Calls
<1>4. <<InvokeCall(Head(q))>> \in Seq(Calls)
  BY <1>3, SingletonSeq
<1>5. <<>> \o <<InvokeCall(Head(q))>> = <<InvokeCall(Head(q))>>
  BY <1>4, ConcatEmpty
<1> QED BY <1>1, <1>2, <1>4, <1>5 DEF MaybeStart

-----------------------------------------------------------------------------
\* Invoke, with the lock free or held.
LEMMA InvokeStep ==
  ASSUME LockInv, NEW c \in Commands, Invoke(c)
  PROVE  LockInv'
<1> USE DEF LockInv
<1>1. c \notin ToSet(order) /\ c \notin removed
  BY DEF Invoke
<1>2. c \notin ToSet(finished)
  BY <1>1, PartsOfOrder
<1>3. order' = Append(order, c) /\ UNCHANGED <<running, finished, removed, failed>>
  BY DEF Invoke
<1>4. order' \in Seq(Commands) /\ ToSet(order') = ToSet(order) \cup {c}
  BY <1>3, ToSetAppend DEF TypeOK
<1>5. EachOnce'
  <2>1. Distinct(order')
    BY <1>1, <1>3, AppendDistinct DEF TypeOK, EachOnce
  <2> QED BY <1>1, <1>3, <1>4, <2>1 DEF EachOnce
<1>6. HeldSeq \in Seq(Commands) /\ finished \o HeldSeq \in Seq(Commands)
      /\ order = (finished \o HeldSeq) \o queued
  BY HeldSeqType, InOrderDef
<1>7. CASE Free
  <2>1. Append(<<>>, c) = <<c>> /\ <<c>> \in Seq(Commands)
        /\ Head(<<c>>) = c /\ Tail(<<c>>) = <<>> /\ <<c>> # <<>>
    OBVIOUS
  <2>2. MaybeStart(None, <<c>>, <<>>)
    BY <1>7, <2>1 DEF Free, Invoke
  <2>3. waiting' = c /\ queued' = <<>> /\ posted' = <<InvokeCall(c)>> /\ posted' \in Seq(Calls)
    BY <2>1, <2>2, MaybeStartNext
  <2>4. TypeOK'
    BY <1>3, <1>4, <2>3, EmptyIsSeq DEF TypeOK
  <2>5. Invoking'
    BY <1>2, <1>3, <1>7, <2>3 DEF Free, Invoking
  <2>6. HeldSeq = <<>> /\ HeldSeq' = <<c>>
    BY <1>2, <1>3, <1>7, <2>3, NoneAssumption DEF Free, HeldSeq
  <2>7. order = finished
    BY <1>6, <1>7, <2>6, ConcatEmpty DEF Free, TypeOK
  <2>8. order' = (finished' \o HeldSeq') \o queued'
    <3>1. order' = finished \o <<c>>
      BY <1>3, <2>7, AppendIsConcat DEF TypeOK
    <3>2. order' \o <<>> = order'
      BY <1>4, ConcatEmpty
    <3> QED BY <1>3, <2>3, <2>6, <3>1, <3>2
  <2> QED BY <1>3, <1>5, <2>4, <2>5, <2>8, LockInvPrime DEF LockPhase
<1>8. CASE ~Free
  <2>1. waiting \in Commands
    BY <1>8 DEF LockPhase, Invoking, Running, Releasing
  <2>2. Append(queued, c) \in Seq(Commands)
    BY DEF TypeOK
  <2>3. waiting' = waiting /\ queued' = Append(queued, c) /\ posted' = posted
    BY <2>1, <2>2, MaybeStartHeld DEF Invoke, TypeOK
  <2>4. TypeOK'
    BY <1>3, <1>4, <2>2, <2>3 DEF TypeOK
  <2>5. LockPhase'
    BY <1>3, <1>8, <2>3 DEF LockPhase, Invoking, Running, Releasing
  <2>6. HeldSeq' = HeldSeq
    BY <1>3, <2>3 DEF HeldSeq
  <2>7. order' = (finished' \o HeldSeq') \o queued'
    <3> DEFINE u == finished \o HeldSeq
    <3>1. u \in Seq(Commands) /\ order = u \o queued
      BY <1>6
    <3> HIDE DEF u
    <3>2. Append(u \o queued, c) = u \o Append(queued, c)
      BY SMTT(30), <3>1, AppendConcat DEF TypeOK
    <3> QED BY <1>3, <2>3, <2>6, <3>1, <3>2 DEF u
  <2> QED BY <1>3, <1>5, <2>4, <2>5, <2>7, LockInvPrime
<1> QED BY <1>7, <1>8

-----------------------------------------------------------------------------
\* remove() of a queued command: it has one place in order, behind the
\* finished ones and the lock holder.
LEMMA RemoveCommandStep ==
  ASSUME LockInv, NEW c \in Commands, RemoveCommand(c)
  PROVE  LockInv'
<1> USE DEF LockInv
<1>1. PICK i \in 1..Len(queued) : queued[i] = c /\ queued' = RemoveAt(queued, i)
  BY DEF RemoveCommand, TypeOK
<1>2. PICK j \in 1..Len(order) : order[j] = c /\ order' = RemoveAt(order, j)
  BY DEF RemoveCommand, TypeOK
<1>3. removed' = removed \cup {c} /\ UNCHANGED <<waiting, posted, running, finished, failed>>
  BY DEF RemoveCommand
<1> DEFINE u == finished \o HeldSeq
<1>4. u \in Seq(Commands) /\ order = u \o queued
  BY HeldSeqType, InOrderDef
<1>5. HeldSeq' = HeldSeq
  BY <1>3 DEF HeldSeq
<1> HIDE DEF u
<1>6. Len(order) = Len(u) + Len(queued) /\ order[Len(u) + i] = queued[i]
  BY <1>4, ConcatElements DEF TypeOK
<1>7. Len(u) + i \in 1..Len(order)
  BY <1>4, <1>6 DEF TypeOK
<1>8. j = Len(u) + i
  BY <1>1, <1>2, <1>6, <1>7 DEF EachOnce, Distinct
<1>9. order' = u \o queued'
  BY <1>1, <1>2, <1>4, <1>8, RemoveAtConcat DEF TypeOK
<1>10. queued' \in Seq(Commands)
  BY <1>1, RemoveAtElements DEF TypeOK
<1>11. order' \in Seq(Commands)
  BY <1>2, RemoveAtElements DEF TypeOK
<1>12. TypeOK'
  BY <1>3, <1>10, <1>11 DEF TypeOK
<1>13. queued # <<>>
  BY <1>1 DEF TypeOK
<1>14. LockPhase'
  BY <1>3, <1>13 DEF LockPhase, Free, Invoking, Running, Releasing
<1>15. Distinct(order') /\ ToSet(order') = ToSet(order) \ {c}
  BY <1>2, RemoveAtDistinct DEF TypeOK, EachOnce
<1>16. EachOnce'
  BY <1>3, <1>15 DEF EachOnce
<1> QED BY <1>3, <1>5, <1>9, <1>12, <1>14, <1>16, LockInvPrime DEF u

-----------------------------------------------------------------------------
\* The callback at the front of posted tells the phase.
LEMMA FrontTellsPhase ==
  ASSUME LockPhase, posted # <<>>
  PROVE  /\ Head(posted).op = "invoke" => Invoking /\ Head(posted).command = waiting
         /\ Head(posted).op = "done" => Releasing
         /\ Tail(posted) = <<>>
<1>1. CASE Invoking
  <2>1. Head(posted) = InvokeCall(waiting) /\ Tail(posted) = <<>>
    BY <1>1 DEF Invoking
  <2> QED BY <1>1, <2>1 DEF InvokeCall
<1>2. CASE Releasing
  <2>1. Head(posted) = DoneCall /\ Tail(posted) = <<>>
    BY <1>2 DEF Releasing
  <2> QED BY <1>2, <2>1 DEF DoneCall
<1> QED BY <1>1, <1>2 DEF LockPhase, Free, Running

\* The lock holder's handler is called: the holder goes to the end of
\* finished, where InOrder had it already.
LEMMA HolderFinishes ==
  ASSUME TypeOK, InOrder, waiting \in Commands, waiting \notin ToSet(finished),
         finished' = Append(finished, waiting), UNCHANGED <<waiting, queued, order>>
  PROVE  /\ finished' \in Seq(Commands) /\ waiting' \in ToSet(finished')
         /\ order' = (finished' \o HeldSeq') \o queued'
<1>1. finished' \in Seq(Commands) /\ waiting' \in ToSet(finished')
  BY ToSetAppend DEF TypeOK
<1>2. HeldSeq = <<waiting>> /\ HeldSeq' = <<>>
  BY <1>1, NoneAssumption DEF HeldSeq
<1>3. finished' = finished \o HeldSeq
  BY <1>2, AppendIsConcat DEF TypeOK
<1>4. finished' \o HeldSeq' = finished'
  BY <1>1, <1>2, ConcatEmpty
<1> QED BY <1>1, <1>3, <1>4, InOrderDef

\* The executor invokes the lock holder.
LEMMA RunInvokeStep ==
  ASSUME LockInv, RunInvoke
  PROVE  LockInv'
<1> USE DEF LockInv
<1>1. Invoking /\ Head(posted).command = waiting /\ Tail(posted) = <<>>
  BY FrontTellsPhase DEF RunInvoke
<1>2. posted' = <<>> /\ running' = {waiting}
      /\ UNCHANGED <<waiting, queued, finished, removed, order, failed>>
  BY <1>1 DEF RunInvoke, Invoking
<1>3. Running'
  BY <1>1, <1>2 DEF Invoking, Running
<1>4. TypeOK'
  BY <1>1, <1>2, EmptyIsSeq DEF Invoking, TypeOK
<1>5. HeldSeq' = HeldSeq /\ order' = (finished' \o HeldSeq') \o queued'
  BY <1>2, InOrderDef DEF HeldSeq
<1>6. EachOnce'
  BY <1>2 DEF EachOnce
<1> QED BY <1>2, <1>3, <1>4, <1>5, <1>6, LockInvPrime DEF LockPhase

\* A handler that is called moves its command to finished and posts
\* ItemDone, whether the command ran at once or not.
LEMMA HandlerStep ==
  ASSUME LockInv, Invoking \/ Running,
         finished' = Append(finished, waiting), posted' = <<DoneCall>>, running' = {},
         failed' = (failed \/ waiting = None), UNCHANGED <<waiting, queued, removed, order>>
  PROVE  LockInv'
<1> USE DEF LockInv
<1>1. waiting \in Commands /\ waiting \notin ToSet(finished)
  BY DEF Invoking, Running
<1>2. /\ finished' \in Seq(Commands) /\ waiting' \in ToSet(finished')
      /\ order' = (finished' \o HeldSeq') \o queued'
  BY <1>1, HolderFinishes
<1>3. ~failed'
  BY <1>1, NoneAssumption
<1>4. posted' \in Seq(Calls)
  <2>1. DoneCall \in Calls
    BY DEF Calls
  <2> QED BY <2>1, SingletonSeq
<1>5. TypeOK'
  <2>1. failed' \in BOOLEAN
    BY <1>3
  <2> QED BY <1>2, <1>4, <2>1 DEF TypeOK
<1>6. Releasing'
  BY <1>1, <1>2 DEF Releasing
<1>7. EachOnce'
  BY DEF EachOnce
<1> QED BY <1>2, <1>3, <1>5, <1>6, <1>7, LockInvPrime DEF LockPhase

\* The command calls its wrapper before Invoke returns.
LEMMA RunInvokeAtOnceStep ==
  ASSUME LockInv, RunInvokeAtOnce
  PROVE  LockInv'
<1>1. Invoking /\ Head(posted).command = waiting /\ Tail(posted) = <<>>
  BY FrontTellsPhase DEF LockInv, RunInvokeAtOnce
<1>2. Append(<<>>, DoneCall) = <<DoneCall>>
  OBVIOUS
<1>3. finished' = Append(finished, waiting) /\ posted' = <<DoneCall>> /\ running' = {}
  BY <1>1, <1>2 DEF RunInvokeAtOnce, Invoking
<1>4. failed' = (failed \/ waiting = None) /\ UNCHANGED <<waiting, queued, removed, order>>
  BY DEF RunInvokeAtOnce
<1> QED BY <1>1, <1>3, <1>4, HandlerStep

\* The command calls its wrapper later.
LEMMA CompleteStep ==
  ASSUME LockInv, NEW c \in Commands, Complete(c)
  PROVE  LockInv'
<1>1. Running /\ c = waiting
  BY DEF LockInv, LockPhase, Free, Invoking, Running, Releasing, Complete
<1>2. Append(<<>>, DoneCall) = <<DoneCall>>
  OBVIOUS
<1>3. finished' = Append(finished, waiting) /\ posted' = <<DoneCall>> /\ running' = {}
  BY <1>1, <1>2 DEF Complete, Running
<1>4. failed' = (failed \/ waiting = None) /\ UNCHANGED <<waiting, queued, removed, order>>
  BY DEF Complete
<1> QED BY <1>1, <1>3, <1>4, HandlerStep

\* The lock is released and goes to the first command that waits.
LEMMA ItemDoneStep ==
  ASSUME LockInv, ItemDone
  PROVE  LockInv'
<1> USE DEF LockInv
<1>1. Releasing /\ Tail(posted) = <<>>
  BY FrontTellsPhase DEF ItemDone
<1>2. MaybeStart(None, queued, <<>>)
  BY <1>1 DEF ItemDone
<1>3. UNCHANGED <<running, finished, removed, order>> /\ running = {}
  BY <1>1 DEF ItemDone, Releasing
<1>4. ~failed' /\ failed' \in BOOLEAN
  BY <1>1, NoneAssumption DEF ItemDone, Releasing
<1>5. HeldSeq = <<>>
  BY <1>1 DEF HeldSeq, Releasing
<1>6. order = finished \o queued
  BY <1>5, InOrderDef, ConcatEmpty DEF TypeOK
<1>7. EachOnce'
  BY <1>3 DEF EachOnce
<1>8. CASE queued = <<>>
  <2>1. waiting' = None /\ queued' = <<>> /\ posted' = <<>>
    BY <1>2, <1>8, MaybeStartIdle
  <2>2. Free'
    BY <1>3, <2>1 DEF Free
  <2>3. TypeOK'
    BY <1>3, <1>4, <2>1, EmptyIsSeq DEF TypeOK
  <2>4. HeldSeq' = <<>>
    BY <2>1 DEF HeldSeq
  <2>5. order' = (finished' \o HeldSeq') \o queued'
    BY <1>3, <1>6, <1>8, <2>1, <2>4, ConcatEmpty DEF TypeOK
  <2> QED BY <1>4, <1>7, <2>2, <2>3, <2>5, LockInvPrime DEF LockPhase
<1>9. CASE queued # <<>>
  <2>1. /\ waiting' = Head(queued) /\ queued' = Tail(queued)
        /\ posted' = <<InvokeCall(Head(queued))>>
        /\ Head(queued) \in Commands /\ Tail(queued) \in Seq(Commands)
        /\ posted' \in Seq(Calls)
    BY <1>2, <1>9, MaybeStartNext DEF TypeOK
  <2>2. Head(queued) \notin ToSet(finished)
    BY <1>9, ToSetHeadTail, PartsOfOrder DEF TypeOK
  <2>3. Invoking'
    BY <1>3, <2>1, <2>2 DEF Invoking
  <2>4. TypeOK'
    BY <1>3, <1>4, <2>1 DEF TypeOK
  <2>5. HeldSeq' = <<Head(queued)>> /\ <<Head(queued)>> \in Seq(Commands)
    BY <1>3, <2>1, <2>2, NoneAssumption DEF HeldSeq
  <2>6. order' = (finished' \o HeldSeq') \o queued'
    <3> DEFINE h == <<Head(queued)>>
               t == Tail(queued)
    <3>1. queued = h \o t
      BY <1>9, ConcatHeadTail DEF TypeOK
    <3>2. h \in Seq(Commands) /\ t \in Seq(Commands) /\ HeldSeq' = h /\ queued' = t
      BY <2>1, <2>5
    <3> HIDE DEF h, t
    <3>3. finished \in Seq(Commands)
      BY DEF TypeOK
    <3>4. (finished \o h) \o t = finished \o (h \o t)
      BY <3>2, <3>3, ConcatAssoc
    <3> QED BY <1>3, <1>6, <3>1, <3>2, <3>4
  <2> QED BY <1>4, <1>7, <2>3, <2>4, <2>6, LockInvPrime DEF LockPhase
<1> QED BY <1>8, <1>9

-----------------------------------------------------------------------------
\* LockInv holds in every state.
THEOREM LockInvariant == Spec => []LockInv
<1>1. LockInv /\ [Next]_vars => LockInv'
  <2> SUFFICES ASSUME LockInv, [Next]_vars PROVE LockInv'
    OBVIOUS
  <2>1. CASE \E c \in Commands : Invoke(c) \/ RemoveCommand(c) \/ Complete(c)
    BY <2>1, InvokeStep, RemoveCommandStep, CompleteStep
  <2>2. CASE RunInvoke
    BY <2>2, RunInvokeStep
  <2>3. CASE RunInvokeAtOnce
    BY <2>3, RunInvokeAtOnceStep
  <2>4. CASE ItemDone
    BY <2>4, ItemDoneStep
  <2>5. CASE UNCHANGED vars
    <3>1. HeldSeq' = HeldSeq /\ order' = (finished' \o HeldSeq') \o queued'
      BY <2>5, InOrderDef DEF LockInv, vars, HeldSeq
    <3>2. TypeOK' /\ ~failed' /\ EachOnce'
      BY <2>5 DEF LockInv, vars, TypeOK, EachOnce
    <3>3. LockPhase'
      BY <2>5 DEF LockInv, vars, LockPhase, Free, Invoking, Running, Releasing
    <3> QED BY <3>1, <3>2, <3>3, LockInvPrime
  <2> QED BY <2>1, <2>2, <2>3, <2>4, <2>5 DEF Next
<1> QED BY <1>1, LockStarts, PTL DEF Spec

\* Every variable keeps its type.
THEOREM TypeCorrect == Spec => []TypeOK
<1>1. LockInv => TypeOK
  BY DEF LockInv
<1> QED BY <1>1, LockInvariant, PTL

\* The lock of exclusive_command.h: at most one command is outstanding, the
\* assertions of lines 71 and 112 hold, and the lock is held exactly while
\* one callback, or one running command, will release it.
THEOREM LockIsExclusive == Spec => []OneToken
<1>1. LockInv => OneToken
  <2> SUFFICES ASSUME LockInv PROVE OneToken
    OBVIOUS
  <2> USE DEF LockInv
  <2>1. OneOutstanding
    BY DEF OneOutstanding, LockPhase, Free, Invoking, Running, Releasing
  <2>2. Cardinality({}) = 0 /\ Cardinality({waiting}) = 1
    BY FS_EmptySet, FS_Singleton
  <2>3. CASE Free
    BY <2>1, <2>2, <2>3 DEF Free, OneToken
  <2>4. CASE ~Free
    <3>1. waiting # None
      BY <2>4, NoneAssumption DEF LockPhase, Invoking, Running, Releasing
    <3>2. \/ Len(posted) = 1 /\ running = {}
          \/ Len(posted) = 0 /\ running = {waiting}
      BY <2>4 DEF LockPhase, Invoking, Running, Releasing
    <3> DEFINE p == Len(posted)
               r == Cardinality(running)
    <3>3. (p = 1 /\ r = 0) \/ (p = 0 /\ r = 1)
      BY <2>2, <3>2, Zenon
    <3> HIDE DEF p, r
    <3>4. p + r = 1
      BY <3>3
    <3> QED BY <2>1, <3>1, <3>4 DEF OneToken, p, r
  <2> QED BY <2>3, <2>4
<1> QED BY <1>1, LockInvariant, PTL

\* Commands run in the order of Invoke, whatever remove() takes out of the
\* queue (lines 53-84).
THEOREM RunsInOrder == Spec => []InOrder
<1>1. LockInv => InOrder
  BY DEF LockInv
<1> QED BY <1>1, LockInvariant, PTL

\* MaybeStart never leaves a command waiting for a lock that is free.
THEOREM QueueNeverIdle == Spec => []NoIdleQueue
<1>1. LockInv => NoIdleQueue
  BY NoneAssumption DEF LockInv, NoIdleQueue, LockPhase, Free, Invoking, Running, Releasing
<1> QED BY <1>1, LockInvariant, PTL

-----------------------------------------------------------------------------
(* RealtimeExecutor *)

\* outstanding_work_ counts the handlers that wait and the one that runs; a
\* callback runs inline only in a handler.
ExecutorInv ==
  /\ handed \in Nat /\ work \in Nat /\ inHandler \in BOOLEAN
  /\ options \in [event : BOOLEAN, idle : BOOLEAN]
  /\ eventTimer \in BOOLEAN /\ idleTimer \in BOOLEAN
  /\ nested \in BOOLEAN /\ mixed \in BOOLEAN
  /\ work = handed + (IF inHandler THEN 1 ELSE 0)
  /\ nested => inHandler
  /\ Executor!TimersMatchWork

\* No timer runs at first.
LEMMA ExecutorStarts == ASSUME Executor!Init PROVE ExecutorInv
<1>1. /\ handed = 0 /\ work = 0 /\ ~inHandler /\ inHandler \in BOOLEAN
      /\ ~eventTimer /\ ~idleTimer /\ eventTimer \in BOOLEAN /\ idleTimer \in BOOLEAN
      /\ ~nested /\ nested \in BOOLEAN /\ mixed \in BOOLEAN
      /\ options \in [event : BOOLEAN, idle : BOOLEAN]
  BY DEF Executor!Init
<1>2. Executor!TimersMatchWork
  <2>1. ~(handed > 0 \/ inHandler)
    BY <1>1
  <2> QED BY <1>1, <2>1, Zenon DEF Executor!TimersMatchWork
<1>3. work = handed + (IF inHandler THEN 1 ELSE 0) /\ handed \in Nat /\ work \in Nat
  BY <1>1
<1> QED BY <1>1, <1>2, <1>3 DEF ExecutorInv

\* Every step of the executor keeps its invariant.
LEMMA ExecutorKeeps == ASSUME ExecutorInv, Executor!Next PROVE ExecutorInv'
<1> USE DEF ExecutorInv
<1>1. CASE Executor!Execute
  BY <1>1 DEF Executor!TimersMatchWork, Executor!Execute, Executor!StartWork
<1>2. CASE Executor!ExecuteInline
  BY <1>2 DEF Executor!TimersMatchWork, Executor!ExecuteInline
<1>3. CASE Executor!RunStart
  <2>1. /\ handed' \in Nat /\ work' \in Nat /\ handed = handed' + 1 /\ work' = work /\ handed > 0
        /\ ~inHandler /\ inHandler' \in BOOLEAN /\ inHandler'
    BY <1>3 DEF Executor!RunStart
  <2>2. options' = options /\ idleTimer' = idleTimer /\ nested' = nested /\ mixed' = mixed
    BY <1>3 DEF Executor!RunStart
  <2>3. eventTimer' = (eventTimer \/ options.event) /\ options.event \in BOOLEAN
    BY <1>3 DEF Executor!RunStart
  <2>4. work' = handed' + (IF inHandler' THEN 1 ELSE 0)
    BY <2>1
  <2>5. Executor!TimersMatchWork'
    BY <2>1, <2>2, <2>3, Zenon DEF Executor!TimersMatchWork
  <2>6. eventTimer' \in BOOLEAN
    BY <2>3
  <2> QED BY <2>1, <2>2, <2>4, <2>5, <2>6, Zenon
<1>4. CASE Executor!RunEnd
  <2>0. /\ inHandler /\ ~inHandler' /\ inHandler' \in BOOLEAN /\ ~nested' /\ nested' \in BOOLEAN
        /\ handed' = handed /\ work' = work - 1
    BY <1>4, Zenon DEF Executor!RunEnd, Executor!StopWork
  <2>1. /\ handed' = handed /\ work' = handed' /\ work' \in Nat
        /\ inHandler /\ ~inHandler' /\ inHandler' \in BOOLEAN /\ ~nested' /\ nested' \in BOOLEAN
    <3>1. work = handed + 1
      BY <2>0
    <3> QED BY <2>0, <3>1
  <2>2. options' = options /\ mixed' = mixed /\ options.idle \in BOOLEAN
    BY <1>4 DEF Executor!RunEnd
  <2>3. /\ eventTimer' = (eventTimer /\ ~options.event)
        /\ idleTimer' = (idleTimer /\ ~(work' = 0 /\ options.idle))
    BY <1>4 DEF Executor!RunEnd, Executor!StopWork
  <2>4. work' = 0 <=> ~(handed' > 0)
    BY <2>1
  <2>5. Executor!TimersMatchWork'
    BY <2>1, <2>2, <2>3, <2>4, Zenon DEF Executor!TimersMatchWork
  <2>6. work' = handed' + (IF inHandler' THEN 1 ELSE 0)
    BY <2>1
  <2>7. eventTimer' \in BOOLEAN /\ idleTimer' \in BOOLEAN
    BY <2>3
  <2> QED BY <2>1, <2>2, <2>5, <2>6, <2>7
<1>5. CASE Executor!SetOptions
  BY <1>5 DEF Executor!TimersMatchWork, Executor!SetOptions
<1> QED BY <1>1, <1>2, <1>3, <1>4, <1>5 DEF Executor!Next

-----------------------------------------------------------------------------
(* AsyncSequence *)

\* The operation that was taken out of sequence_ last.
LastTaken == added - Len(sequence)

RunCall(i) == [op |-> "run", item |-> i]
DoneWith(ec) == [op |-> "done", ec |-> ec]

NotStarted ==
  /\ completion = "none" /\ steps = <<>> /\ outstanding = {}
  /\ called = <<>> /\ results = <<>> /\ LastTaken = 0

ItemPosted ==
  /\ completion = "set" /\ steps = <<RunCall(LastTaken)>> /\ outstanding = {}
  /\ Len(called) = LastTaken - 1 /\ results = <<>>

ItemRuns ==
  /\ completion = "set" /\ steps = <<>> /\ outstanding = {LastTaken}
  /\ Len(called) = LastTaken /\ results = <<>>

DonePosted ==
  /\ completion = "moved" /\ outstanding = {} /\ results = <<>>
  /\ \E ec \in {"ok", "error"} :
       steps = <<DoneWith(ec)>> /\ (ec = "ok" => Len(called) = added)

DoneCalled ==
  /\ completion = "moved" /\ outstanding = {} /\ steps = <<>>
  /\ \E ec \in {"ok", "error"} :
       results = <<ec>> /\ (ec = "ok" => Len(called) = added)

\* What is left in sequence_ are the last operations that were added, what
\* was called the first, and one thing is under way after the other.
SequenceInv ==
  /\ added \in Nat /\ sequence \in Seq(Nat) /\ called \in Seq(Nat)
  /\ Len(sequence) <= added
  /\ \A i \in 1..Len(sequence) : sequence[i] = LastTaken + i
  /\ \A i \in 1..Len(called) : called[i] = i
  /\ NotStarted \/ ItemPosted \/ ItemRuns \/ DonePosted \/ DoneCalled

\* Nothing is started at first.
LEMMA SequenceStarts == ASSUME Sequence!Init PROVE SequenceInv
<1>1. Len(<<>>) = 0 /\ <<>> \in Seq(Nat)
  BY EmptyIsSeq
<1>2. /\ sequence = <<>> /\ added = 0 /\ called = <<>> /\ LastTaken = 0
      /\ completion = "none" /\ steps = <<>> /\ outstanding = {} /\ results = <<>>
  <2>1. /\ sequence = <<>> /\ added = 0 /\ called = <<>>
        /\ completion = "none" /\ steps = <<>> /\ outstanding = {} /\ results = <<>>
    BY DEF Sequence!Init
  <2>2. Len(sequence) = 0
    BY <2>1
  <2>3. LastTaken = 0
    <3>1. added = 0
      BY <2>1
    <3> QED BY <2>2, <3>1 DEF LastTaken
  <2> QED BY <2>1, <2>3, Zenon
<1> QED BY <1>1, <1>2 DEF SequenceInv, NotStarted

\* RunNextOperation takes the operation that is next, or tells the end.
LEMMA RunNextKeeps ==
  ASSUME SequenceInv, steps = <<>>, Len(called) = LastTaken, results = <<>>,
         Sequence!RunNextOperation(steps), outstanding' = {},
         UNCHANGED <<added, called, results>>
  PROVE  SequenceInv'
<1>0. /\ added \in Nat /\ sequence \in Seq(Nat) /\ called \in Seq(Nat)
      /\ Len(sequence) <= added /\ Len(sequence) \in Nat
      /\ \A i \in 1..Len(sequence) : sequence[i] = LastTaken + i
      /\ \A i \in 1..Len(called) : called[i] = i
  BY DEF SequenceInv
<1>1. added' = added /\ called' = called /\ results' = <<>>
  OBVIOUS
<1>2. CASE sequence = <<>>
  <2>1. steps' = <<DoneWith("ok")>> /\ completion' = "moved" /\ sequence' = sequence
    BY <1>2 DEF Sequence!RunNextOperation, DoneWith
  <2>2. Len(called) = added
    BY <1>0, <1>2 DEF LastTaken
  <2>3. DonePosted'
    BY <1>1, <2>1, <2>2 DEF DonePosted, DoneWith
  <2> QED BY <1>0, <1>1, <2>1, <2>3 DEF SequenceInv, LastTaken
<1>3. CASE sequence # <<>>
  <2>1. /\ steps' = <<RunCall(Head(sequence))>> /\ completion' = "set"
        /\ sequence' = Tail(sequence)
    BY <1>3 DEF Sequence!RunNextOperation, RunCall
  <2>2. /\ Len(sequence) >= 1 /\ Head(sequence) = LastTaken + 1
        /\ sequence' \in Seq(Nat) /\ Len(sequence') = Len(sequence) - 1
        /\ \A i \in 1..Len(sequence') : sequence'[i] = sequence[i + 1]
    BY <1>0, <1>3, <2>1
  <2>3. LastTaken' = LastTaken + 1 /\ LastTaken \in Nat
    BY <1>0, <1>1, <2>2 DEF LastTaken
  <2>4. ItemPosted'
    BY <1>1, <2>1, <2>2, <2>3 DEF ItemPosted
  <2>5. \A i \in 1..Len(sequence') : sequence'[i] = LastTaken' + i
    BY <1>0, <2>2, <2>3
  <2> QED BY <1>0, <1>1, <2>2, <2>4, <2>5 DEF SequenceInv
<1> QED BY <1>2, <1>3

\* Every step of a sequence keeps its invariant.
LEMMA SequenceKeeps == ASSUME SequenceInv, Sequence!Next PROVE SequenceInv'
<1>0. /\ added \in Nat /\ sequence \in Seq(Nat) /\ called \in Seq(Nat)
      /\ Len(sequence) <= added /\ Len(sequence) \in Nat /\ LastTaken \in Nat
      /\ \A i \in 1..Len(sequence) : sequence[i] = LastTaken + i
      /\ \A i \in 1..Len(called) : called[i] = i
  BY DEF SequenceInv, LastTaken
<1>1. CASE Sequence!Add
  <2>1. /\ added' = added + 1 /\ sequence' = Append(sequence, added + 1)
        /\ completion = "none"
        /\ UNCHANGED <<completion, steps, outstanding, called, results>>
    BY <1>1 DEF Sequence!Add
  <2>2. NotStarted
    BY <2>1 DEF SequenceInv, NotStarted, ItemPosted, ItemRuns, DonePosted, DoneCalled
  <2>3. sequence' \in Seq(Nat) /\ Len(sequence') = Len(sequence) + 1 /\ LastTaken' = LastTaken
    BY <1>0, <2>1 DEF LastTaken
  <2>4. NotStarted'
    BY <2>1, <2>2, <2>3 DEF NotStarted
  <2>5. \A i \in 1..Len(sequence') : sequence'[i] = LastTaken' + i
    BY <1>0, <2>1, <2>3 DEF LastTaken
  <2> QED BY <1>0, <2>1, <2>3, <2>4, <2>5, SMTT(30) DEF SequenceInv
<1>2. CASE Sequence!Start
  <2>1. NotStarted
    BY <1>2 DEF Sequence!Start, SequenceInv, NotStarted, ItemPosted, ItemRuns, DonePosted,
                DoneCalled
  <2>2. /\ steps = <<>> /\ Len(called) = LastTaken /\ results = <<>> /\ outstanding' = {}
        /\ Sequence!RunNextOperation(steps) /\ UNCHANGED <<added, called, results>>
    BY <1>2, <2>1 DEF Sequence!Start, NotStarted
  <2> QED BY <2>2, RunNextKeeps
<1>3. CASE Sequence!RunItem
  <2>1. ItemPosted
    BY <1>3 DEF Sequence!RunItem, SequenceInv, NotStarted, ItemRuns, DonePosted, DoneCalled,
                DoneWith
  <2>2. /\ Head(steps).item = LastTaken /\ Tail(steps) = <<>>
    BY <2>1 DEF ItemPosted, RunCall
  <2>3. /\ steps' = <<>> /\ outstanding' = {LastTaken} /\ called' = Append(called, LastTaken)
        /\ UNCHANGED <<sequence, added, completion, results>>
    BY <1>3, <2>1, <2>2 DEF Sequence!RunItem, ItemPosted
  <2>4. /\ called' \in Seq(Nat) /\ Len(called') = LastTaken
        /\ \A i \in 1..Len(called') : called'[i] = i
    BY <1>0, <2>1, <2>3 DEF ItemPosted
  <2>5. ItemRuns'
    BY <2>1, <2>3, <2>4 DEF ItemRuns, ItemPosted, LastTaken
  <2> QED BY <1>0, <2>3, <2>4, <2>5 DEF SequenceInv, LastTaken
<1>4. ASSUME NEW item \in 1..MaxItems, NEW ec \in {"ok", "error"},
             Sequence!HandleCallback(item, ec)
      PROVE  SequenceInv'
  <2>1. ItemRuns
    BY <1>4 DEF Sequence!HandleCallback, SequenceInv, NotStarted, ItemPosted, DonePosted,
                DoneCalled
  <2>2. item = LastTaken /\ outstanding' = {} /\ UNCHANGED <<added, called, results>>
    BY <1>4, <2>1 DEF Sequence!HandleCallback, ItemRuns
  <2>3. CASE ec = "ok"
    <3>1. Sequence!RunNextOperation(steps)
      BY <1>4, <2>3 DEF Sequence!HandleCallback
    <3> QED BY <2>1, <2>2, <3>1, RunNextKeeps DEF ItemRuns
  <2>4. CASE ec = "error"
    <3>1. steps' = <<DoneWith("error")>> /\ completion' = "moved" /\ sequence' = sequence
      BY <1>4, <2>1, <2>4 DEF Sequence!HandleCallback, DoneWith, ItemRuns
    <3>2. DonePosted'
      BY <2>1, <2>2, <3>1 DEF DonePosted, ItemRuns, DoneWith
    <3> QED BY <1>0, <2>2, <3>1, <3>2 DEF SequenceInv, LastTaken
  <2> QED BY <2>3, <2>4
<1>5. CASE Sequence!RunCompletion
  <2>1. DonePosted
    BY <1>5 DEF Sequence!RunCompletion, SequenceInv, NotStarted, ItemRuns, ItemPosted,
                DoneCalled, RunCall
  <2>2. PICK ec \in {"ok", "error"} :
          steps = <<DoneWith(ec)>> /\ (ec = "ok" => Len(called) = added)
    BY <2>1 DEF DonePosted
  <2>3. Head(steps).ec = ec /\ Tail(steps) = <<>>
    BY <2>2 DEF DoneWith
  <2>4. /\ steps' = <<>> /\ results' = <<ec>>
        /\ UNCHANGED <<sequence, added, completion, outstanding, called>>
    BY <1>5, <2>1, <2>3 DEF Sequence!RunCompletion, DonePosted
  <2>5. DoneCalled'
    BY <2>1, <2>2, <2>4 DEF DoneCalled, DonePosted
  <2> QED BY <1>0, <2>4, <2>5 DEF SequenceInv, LastTaken
<1> QED BY <1>1, <1>2, <1>3, <1>4, <1>5 DEF Sequence!Next

\* The invariant of a sequence says what its users rely on.
LEMMA SequenceInOrder == ASSUME SequenceInv PROVE Sequence!OneAfterAnother
<1>0. /\ added \in Nat /\ called \in Seq(Nat) /\ DOMAIN called = 1..Len(called)
      /\ \A i \in 1..Len(called) : called[i] = i
  BY DEF SequenceInv
<1>1. Sequence!Cardinality({}) = 0 /\ \A x : Sequence!Cardinality({x}) = 1
  <2>1. \A S : Sequence!Cardinality(S) = Cardinality(S)
    BY DEF Sequence!Cardinality, Cardinality
  <2> QED BY <2>1, FS_EmptySet, FS_Singleton
<1>2. CASE NotStarted
  BY <1>0, <1>1, <1>2 DEF Sequence!OneAfterAnother, NotStarted
<1>3. CASE ItemPosted
  BY <1>0, <1>1, <1>3 DEF Sequence!OneAfterAnother, ItemPosted
<1>4. CASE ItemRuns
  <2>1. Len(steps) = 0 /\ Sequence!Cardinality(outstanding) = 1 /\ results = <<>>
    BY <1>1, <1>4 DEF ItemRuns
  <2> QED BY <1>0, <2>1 DEF Sequence!OneAfterAnother
<1>5. CASE DonePosted
  <2>1. PICK ec \in {"ok", "error"} : steps = <<DoneWith(ec)>>
    BY <1>5 DEF DonePosted
  <2>2. Len(steps) = 1 /\ Sequence!Cardinality(outstanding) = 0 /\ results = <<>>
    BY <1>1, <1>5, <2>1 DEF DonePosted
  <2> QED BY <1>0, <2>2 DEF Sequence!OneAfterAnother
<1>6. CASE DoneCalled
  <2>1. PICK ec \in {"ok", "error"} : results = <<ec>> /\ (ec = "ok" => Len(called) = added)
    BY <1>6 DEF DoneCalled
  <2>2. /\ Len(steps) = 0 /\ Sequence!Cardinality(outstanding) = 0 /\ Len(results) = 1
        /\ steps = <<>> /\ outstanding = {}
    BY <1>1, <1>6, <2>1 DEF DoneCalled
  <2>3. results = <<"ok">> => Len(called) = added
    BY <2>1
  <2>4. Len(steps) + Sequence!Cardinality(outstanding) <= 1 /\ Len(results) <= 1
    BY <2>2
  <2> QED BY <1>0, <2>2, <2>3, <2>4, Zenon DEF Sequence!OneAfterAnother
<1> QED BY <1>2, <1>3, <1>4, <1>5, <1>6 DEF SequenceInv

-----------------------------------------------------------------------------
(* TcpServerStream *)

Ops == {"read", "write"}
Told == [op : Ops, ec : {"ok", "error", "aborted"}]
OpsOf(s) == {s[i].op : i \in 1..Len(s)}

\* No operation is told twice.
OnceEach(s) == \A i, j \in 1..Len(s) : s[i].op = s[j].op => i = j

\* How far a stream is: what is queued has an accept to wait for, what is on
\* the socket a client.
CreationInv ==
  /\ creating \in {"no", "posted", "resolving", "connecting", "accepting", "yes"}
  /\ answered = (IF creating = "yes" THEN 1 ELSE 0)
  /\ creating = "no" => ~started /\ ~connected
  /\ accepting /\ ~started => creating = "accepting"
  /\ started => connected \/ accepting
  /\ connected => started
  /\ type = "kTcpServer" => creating \notin {"resolving", "connecting"}
  /\ type = "kTcpServer" /\ creating \in {"posted", "yes"} => started
  /\ accepting => ~connected

PlacesInv ==
  /\ held \subseteq Ops /\ onSocket \subseteq Ops /\ told \in Seq(Told)
  /\ connected => held = {}
  /\ ~connected => onSocket = {}
  /\ held # {} => accepting
  /\ (held \cup onSocket) \cap OpsOf(told) = {}
  /\ handlers = held \cup onSocket \cup OpsOf(told)
  /\ OnceEach(told)

ServerInv ==
  /\ type \in Server!Types
  /\ accepting \in BOOLEAN /\ started \in BOOLEAN /\ connected \in BOOLEAN
  /\ CreationInv /\ PlacesInv

\* Telling more operations, each once and none of those that are posted.
LEMMA ToldConcat ==
  ASSUME NEW s \in Seq(Told), NEW t \in Seq(Told), OnceEach(s), OnceEach(t),
         OpsOf(s) \cap OpsOf(t) = {}
  PROVE  /\ s \o t \in Seq(Told) /\ OpsOf(s \o t) = OpsOf(s) \cup OpsOf(t)
         /\ OnceEach(s \o t)
<1> DEFINE u == s \o t
<1>1. /\ u \in Seq(Told) /\ Len(u) = Len(s) + Len(t) /\ Len(s) \in Nat /\ Len(t) \in Nat
      /\ \A i \in 1..Len(s) : u[i] = s[i]
      /\ \A i \in 1..Len(t) : u[Len(s) + i] = t[i]
  BY ConcatElements
<1> HIDE DEF u
<1>2. ASSUME NEW i \in 1..Len(u)
      PROVE  (i \in 1..Len(s) /\ u[i] = s[i])
             \/ (i - Len(s) \in 1..Len(t) /\ u[i] = t[i - Len(s)])
  <2>1. CASE i <= Len(s)
    BY <1>1, <2>1
  <2>2. CASE i > Len(s)
    <3>1. i - Len(s) \in 1..Len(t) /\ i = Len(s) + (i - Len(s))
      BY <1>1, <2>2
    <3> QED BY <1>1, <3>1
  <2> QED BY <1>1, <2>1, <2>2
<1>3. OpsOf(u) = OpsOf(s) \cup OpsOf(t)
  <2>1. ASSUME NEW i \in 1..Len(u) PROVE u[i].op \in OpsOf(s) \cup OpsOf(t)
    BY <1>2 DEF OpsOf
  <2>2. ASSUME NEW i \in 1..Len(s) PROVE i \in 1..Len(u) /\ u[i] = s[i]
    BY <1>1
  <2>3. ASSUME NEW i \in 1..Len(t) PROVE Len(s) + i \in 1..Len(u) /\ u[Len(s) + i] = t[i]
    BY <1>1
  <2>4. OpsOf(u) \subseteq OpsOf(s) \cup OpsOf(t)
    BY <2>1 DEF OpsOf
  <2>5. OpsOf(s) \subseteq OpsOf(u)
    BY <2>2 DEF OpsOf
  <2>6. OpsOf(t) \subseteq OpsOf(u)
    BY <2>3 DEF OpsOf
  <2> QED BY <2>4, <2>5, <2>6
<1>4. OnceEach(u)
  <2> SUFFICES ASSUME NEW i \in 1..Len(u), NEW j \in 1..Len(u), u[i].op = u[j].op PROVE i = j
    BY DEF OnceEach
  <2>1. CASE i \in 1..Len(s) /\ u[i] = s[i] /\ j \in 1..Len(s) /\ u[j] = s[j]
    BY <2>1 DEF OnceEach
  <2>2. CASE /\ i - Len(s) \in 1..Len(t) /\ u[i] = t[i - Len(s)]
             /\ j - Len(s) \in 1..Len(t) /\ u[j] = t[j - Len(s)]
    <3>1. i - Len(s) = j - Len(s)
      BY <2>2 DEF OnceEach
    <3> QED BY <1>1, <3>1
  <2>3. CASE /\ i \in 1..Len(s) /\ u[i] = s[i]
             /\ j - Len(s) \in 1..Len(t) /\ u[j] = t[j - Len(s)]
    <3>1. s[i].op \in OpsOf(s) /\ t[j - Len(s)].op \in OpsOf(t)
      BY <2>3 DEF OpsOf
    <3> QED BY <2>3, <3>1
  <2>4. CASE /\ j \in 1..Len(s) /\ u[j] = s[j]
             /\ i - Len(s) \in 1..Len(t) /\ u[i] = t[i - Len(s)]
    <3>1. s[j].op \in OpsOf(s) /\ t[i - Len(s)].op \in OpsOf(t)
      BY <2>4 DEF OpsOf
    <3> QED BY <2>4, <3>1
  <2> QED BY <1>2, <2>1, <2>2, <2>3, <2>4
<1> QED BY <1>1, <1>3, <1>4 DEF u

\* One operation, or none.
LEMMA ToldOne ==
  /\ <<>> \in Seq(Told) /\ OpsOf(<<>>) = {} /\ OnceEach(<<>>)
  /\ \A h \in Told : <<h>> \in Seq(Told) /\ OpsOf(<<h>>) = {h.op} /\ OnceEach(<<h>>)
<1>1. <<>> \in Seq(Told) /\ Len(<<>>) = 0
  BY EmptyIsSeq
<1>2. ASSUME NEW h \in Told
      PROVE  <<h>> \in Seq(Told) /\ OpsOf(<<h>>) = {h.op} /\ OnceEach(<<h>>)
  <2>1. <<h>> \in Seq(Told) /\ Len(<<h>>) = 1 /\ <<h>>[1] = h
    BY SingletonSeq
  <2>2. 1..1 = {1}
    OBVIOUS
  <2> QED BY <2>1, <2>2 DEF OpsOf, OnceEach
<1>3. OpsOf(<<>>) = {} /\ OnceEach(<<>>)
  BY <1>1 DEF OpsOf, OnceEach
<1> QED BY <1>1, <1>2, <1>3

\* What Cancel posts are the operations that it takes.
LEMMA AbortedAre ==
  ASSUME NEW these, these \subseteq Ops
  PROVE  /\ Server!Aborted(these) \in Seq(Told) /\ OpsOf(Server!Aborted(these)) = these
         /\ OnceEach(Server!Aborted(these))
<1> DEFINE r == [op |-> "read", ec |-> "aborted"]
           w == [op |-> "write", ec |-> "aborted"]
           a == IF "read" \in these THEN <<r>> ELSE <<>>
           b == IF "write" \in these THEN <<w>> ELSE <<>>
<1>1. r \in Told /\ w \in Told /\ r.op = "read" /\ w.op = "write"
  BY DEF Told, Ops
<1> HIDE DEF r, w
<1>2. a \in Seq(Told) /\ OpsOf(a) = these \cap {"read"} /\ OnceEach(a)
  <2>1. CASE "read" \in these
    BY <1>1, <2>1, ToldOne
  <2>2. CASE "read" \notin these
    BY <2>2, ToldOne
  <2> QED BY <2>1, <2>2
<1>3. b \in Seq(Told) /\ OpsOf(b) = these \cap {"write"} /\ OnceEach(b)
  <2>1. CASE "write" \in these
    BY <1>1, <2>1, ToldOne
  <2>2. CASE "write" \notin these
    BY <2>2, ToldOne
  <2> QED BY <2>1, <2>2
<1>4. Server!Aborted(these) = a \o b
  BY DEF Server!Aborted, r, w
<1> HIDE DEF a, b
<1>5. OpsOf(a) \cap OpsOf(b) = {}
  BY <1>2, <1>3
<1>6. /\ a \o b \in Seq(Told) /\ OpsOf(a \o b) = OpsOf(a) \cup OpsOf(b) /\ OnceEach(a \o b)
  BY <1>2, <1>3, <1>5, ToldConcat
<1>7. OpsOf(a) \cup OpsOf(b) = these
  BY <1>2, <1>3 DEF Ops
<1> QED BY <1>4, <1>6, <1>7
\* Nothing is done at first.
LEMMA ServerStarts == ASSUME Server!Init PROVE ServerInv
<1>1. /\ creating = "no" /\ answered = 0 /\ held = {} /\ onSocket = {} /\ handlers = {}
      /\ told = <<>> /\ type \in Server!Types
  BY DEF Server!Init
<1>2. /\ accepting \in BOOLEAN /\ started \in BOOLEAN /\ connected \in BOOLEAN
      /\ ~accepting /\ ~started /\ ~connected
  BY Zenon DEF Server!Init
<1>3. CreationInv
  BY <1>1, <1>2 DEF CreationInv
<1>4. PlacesInv
  BY <1>1, ToldOne DEF PlacesInv
<1> QED BY <1>1, <1>2, <1>3, <1>4 DEF ServerInv

\* A handler runs: its operation is in no place any more.
LEMMA ToldTail ==
  ASSUME NEW s \in Seq(Told), s # <<>>, OnceEach(s)
  PROVE  /\ Tail(s) \in Seq(Told) /\ OnceEach(Tail(s))
         /\ OpsOf(Tail(s)) = OpsOf(s) \ {Head(s).op} /\ Head(s).op \in OpsOf(s)
<1> DEFINE u == Tail(s)
<1>1. /\ u \in Seq(Told) /\ Len(s) \in Nat /\ Len(s) >= 1 /\ Len(u) = Len(s) - 1 /\ Head(s) = s[1]
      /\ \A i \in 1..Len(u) : u[i] = s[i + 1]
  OBVIOUS
<1> HIDE DEF u
<1>2. ASSUME NEW i \in 1..Len(u) PROVE i + 1 \in 1..Len(s) /\ i + 1 # 1 /\ u[i] = s[i + 1]
  BY <1>1
<1>3. OnceEach(u)
  <2> SUFFICES ASSUME NEW i \in 1..Len(u), NEW j \in 1..Len(u), u[i].op = u[j].op PROVE i = j
    BY DEF OnceEach
  <2>1. i + 1 = j + 1
    BY <1>2 DEF OnceEach
  <2> QED BY <2>1
<1>4. 1 \in 1..Len(s)
  BY <1>1
<1>5. ASSUME NEW i \in 1..Len(u) PROVE u[i].op \in OpsOf(s) \ {Head(s).op}
  <2>1. s[i + 1].op # s[1].op
    BY <1>2, <1>4 DEF OnceEach
  <2>2. s[i + 1].op \in OpsOf(s)
    BY <1>2 DEF OpsOf
  <2> QED BY <1>1, <1>2, <2>1, <2>2
<1>6. ASSUME NEW i \in 1..Len(s), i # 1 PROVE s[i].op \in OpsOf(u)
  <2>1. i - 1 \in 1..Len(u) /\ (i - 1) + 1 = i
    BY <1>1, <1>6
  <2>2. u[i - 1] = s[i]
    BY <1>1, <2>1
  <2> QED BY <2>1, <2>2 DEF OpsOf
<1>7. OpsOf(u) \subseteq OpsOf(s) \ {Head(s).op}
  BY <1>5 DEF OpsOf
<1>8. ASSUME NEW x \in OpsOf(s), x # Head(s).op PROVE x \in OpsOf(u)
  <2>1. PICK i \in 1..Len(s) : x = s[i].op
    BY DEF OpsOf
  <2>2. i # 1
    BY <1>1, <1>8, <2>1
  <2> QED BY <1>6, <2>1, <2>2
<1>9. Head(s).op \in OpsOf(s)
  BY <1>1, <1>4 DEF OpsOf
<1>10. OpsOf(u) = OpsOf(s) \ {Head(s).op}
  BY <1>7, <1>8
<1> QED BY <1>1, <1>3, <1>9, <1>10 DEF u

\* Creating a stream leaves the operations alone.
LEMMA CreateKeeps == ASSUME ServerInv, Server!AsyncCreate PROVE ServerInv'
<1>1. /\ creating = "no"
      /\ UNCHANGED <<type, answered, started, connected, held, onSocket, handlers, told>>
      /\ accepting' = (accepting \/ type = "kTcpServer")
  BY DEF Server!AsyncCreate
<1>2. /\ creating' \in {"posted", "resolving", "accepting"}
      /\ type = "kTcpServer" <=> creating' = "accepting"
  <2>1. CASE type \in {"kStdio", "kPipe", "kSerial"}
    BY <2>1 DEF Server!AsyncCreate
  <2>2. CASE type = "kTcpClient"
    BY <2>2 DEF Server!AsyncCreate
  <2>3. CASE type = "kTcpServer"
    BY <2>3 DEF Server!AsyncCreate
  <2> QED BY <2>1, <2>2, <2>3 DEF ServerInv, Server!Types
<1>3. ~accepting /\ ~started /\ ~connected /\ held = {} /\ accepting' \in BOOLEAN
  BY <1>1 DEF ServerInv, CreationInv, PlacesInv
<1>4. CreationInv'
  BY <1>1, <1>2, <1>3 DEF ServerInv, CreationInv
<1>5. PlacesInv'
  BY <1>1, <1>3 DEF ServerInv, PlacesInv
<1> QED BY <1>1, <1>3, <1>4, <1>5 DEF ServerInv

\* The end of a creation is told once.
LEMMA CreatedKeeps ==
  ASSUME ServerInv,
         \/ Server!RunStreamHandler \/ Server!HandleConnect \/ Server!ClientGoes
         \/ \E ec \in {"ok", "error"} : Server!HandleResolve(ec)
  PROVE  ServerInv'
<1>1. UNCHANGED <<type, accepting, started, connected, held, onSocket, handlers, told>>
  BY DEF Server!RunStreamHandler, Server!HandleConnect, Server!ClientGoes, Server!HandleResolve,
         Server!tcpVars
<1>2. \/ creating = "posted" /\ creating' = "yes" /\ answered' = answered + 1
      \/ creating \in {"resolving", "connecting"} /\ creating' \in {"connecting", "posted"}
         /\ answered' = answered
      \/ creating' = creating /\ answered' = answered
  BY DEF Server!RunStreamHandler, Server!HandleConnect, Server!ClientGoes, Server!HandleResolve,
         Server!tcpVars
<1>3. CreationInv'
  BY <1>1, <1>2 DEF ServerInv, CreationInv
<1>4. PlacesInv'
  BY <1>1 DEF ServerInv, PlacesInv
<1> QED BY <1>1, <1>3, <1>4 DEF ServerInv

\* A new operation is in one place.
LEMMA BeginKeeps == ASSUME NEW op \in Ops, ServerInv, Server!Begin(op) PROVE ServerInv'
<1>1. /\ type = "kTcpServer" /\ creating = "yes" /\ op \notin handlers
      /\ UNCHANGED <<type, creating, answered, accepting, started, connected, told>>
      /\ handlers' = handlers \cup {op}
      /\ IF connected THEN onSocket' = onSocket \cup {op} /\ held' = held
         ELSE held' = held \cup {op} /\ onSocket' = onSocket
  BY DEF Server!Begin
<1>2. connected \/ accepting
  BY <1>1 DEF ServerInv, CreationInv
<1>3. CreationInv'
  BY <1>1 DEF ServerInv, CreationInv
<1>4. PlacesInv'
  <2>1. CASE connected
    BY <1>1, <2>1 DEF ServerInv, PlacesInv
  <2>2. CASE ~connected
    BY <1>1, <1>2, <2>2 DEF ServerInv, PlacesInv
  <2> QED BY <2>1, <2>2
<1> QED BY <1>1, <1>3, <1>4 DEF ServerInv

\* A client comes: what is queued goes to the socket.
LEMMA AcceptKeeps == ASSUME ServerInv, Server!HandleAccept PROVE ServerInv'
<1>1. /\ accepting
      /\ UNCHANGED <<type, answered, handlers, told>>
      /\ creating' = IF started THEN creating ELSE "posted"
      /\ held' = {} /\ onSocket' = onSocket \cup held
  BY DEF Server!HandleAccept
<1>2. /\ ~accepting' /\ started' /\ connected'
      /\ accepting' \in BOOLEAN /\ started' \in BOOLEAN /\ connected' \in BOOLEAN
  BY Zenon DEF Server!HandleAccept
<1>3. CreationInv'
  BY <1>1, <1>2 DEF ServerInv, CreationInv
<1>4. PlacesInv'
  BY <1>1, <1>2 DEF ServerInv, PlacesInv
<1> QED BY <1>1, <1>2, <1>3, <1>4 DEF ServerInv

\* An operation of the socket ends.
LEMMA CompleteKeeps ==
  ASSUME NEW op \in Ops, NEW ec \in {"ok", "error"}, ServerInv, Server!Complete(op, ec)
  PROVE  ServerInv'
<1> DEFINE h == [op |-> op, ec |-> ec]
<1>1. /\ op \in onSocket /\ onSocket' = onSocket \ {op} /\ told' = Append(told, h)
      /\ UNCHANGED <<type, creating, answered, accepting, started, connected, held, handlers>>
  BY DEF Server!Complete
<1>2. h \in Told /\ h.op = op
  BY DEF Told
<1> HIDE DEF h
<1>3. told \in Seq(Told) /\ op \notin OpsOf(told) /\ OnceEach(told)
  BY <1>1 DEF ServerInv, PlacesInv
<1>4. <<h>> \in Seq(Told) /\ OpsOf(<<h>>) = {op} /\ OnceEach(<<h>>)
  BY <1>2, ToldOne
<1>5. told' = told \o <<h>>
  BY <1>1, <1>2, <1>3
<1>6. told' \in Seq(Told) /\ OpsOf(told') = OpsOf(told) \cup {op} /\ OnceEach(told')
  BY <1>3, <1>4, <1>5, ToldConcat
<1>7. CreationInv'
  BY <1>1 DEF ServerInv, CreationInv
<1>8. PlacesInv'
  BY <1>1, <1>3, <1>6 DEF ServerInv, PlacesInv
<1> QED BY <1>1, <1>7, <1>8 DEF ServerInv

\* The client is gone: the read waits for the next one, a write is aborted.
LEMMA EofKeeps == ASSUME ServerInv, Server!HandleEof PROVE ServerInv'
<1> DEFINE these == onSocket \ {"read"}
<1>1. /\ "read" \in onSocket /\ onSocket' = {} /\ held' = held \cup {"read"}
      /\ UNCHANGED <<type, creating, answered, started, handlers>>
      /\ told' = told \o (IF "write" \in onSocket
                          THEN <<[op |-> "write", ec |-> "aborted"]>> ELSE <<>>)
  BY DEF Server!HandleEof
<1>2. /\ ~connected' /\ accepting' /\ accepting' \in BOOLEAN /\ connected' \in BOOLEAN
  BY Zenon DEF Server!HandleEof
<1>3. /\ told \in Seq(Told) /\ OnceEach(told) /\ onSocket \subseteq Ops
      /\ onSocket \cap OpsOf(told) = {} /\ connected /\ held = {}
      /\ handlers = onSocket \cup OpsOf(told)
  BY <1>1 DEF ServerInv, PlacesInv
<1>4. /\ these \subseteq {"write"} /\ onSocket = these \cup {"read"} /\ these \subseteq Ops
      /\ "read" \notin these
  BY <1>1, <1>3 DEF Ops
<1>5. told' = told \o Server!Aborted(these)
  <2>1. "write" \in onSocket <=> "write" \in these
    BY <1>4
  <2> DEFINE b == IF "write" \in these THEN <<[op |-> "write", ec |-> "aborted"]>> ELSE <<>>
  <2>2. told' = told \o b
    BY <1>1, <2>1
  <2>3. Server!Aborted(these) = <<>> \o b
    BY <1>4 DEF Server!Aborted
  <2>4. b \in Seq(Told)
    <3>1. [op |-> "write", ec |-> "aborted"] \in Told
      BY DEF Told, Ops
    <3>2. <<[op |-> "write", ec |-> "aborted"]>> \in Seq(Told) /\ <<>> \in Seq(Told)
      BY <3>1, ToldOne
    <3> QED BY <3>2
  <2> HIDE DEF b
  <2>5. <<>> \o b = b
    BY <2>4, ConcatEmpty
  <2> QED BY <2>2, <2>3, <2>5
<1> HIDE DEF these
<1>6. /\ Server!Aborted(these) \in Seq(Told) /\ OpsOf(Server!Aborted(these)) = these
      /\ OnceEach(Server!Aborted(these))
  BY <1>4, AbortedAre
<1>7. OpsOf(told) \cap these = {}
  BY <1>3, <1>4
<1>8. told' \in Seq(Told) /\ OpsOf(told') = OpsOf(told) \cup these /\ OnceEach(told')
  BY <1>3, <1>5, <1>6, <1>7, ToldConcat
<1>9. CreationInv'
  BY <1>1, <1>2, <1>3 DEF ServerInv, CreationInv
<1>10. PlacesInv'
  BY <1>1, <1>2, <1>3, <1>4, <1>7, <1>8 DEF ServerInv, PlacesInv, Ops
<1> QED BY <1>1, <1>2, <1>9, <1>10 DEF ServerInv

\* cancel() aborts what is on the socket, or what is queued.
LEMMA CancelKeeps == ASSUME ServerInv, Server!Cancel PROVE ServerInv'
<1> DEFINE these == IF connected THEN onSocket ELSE held
<1>1. /\ told' = told \o Server!Aborted(these)
      /\ onSocket' = (IF connected THEN {} ELSE onSocket)
      /\ held' = (IF connected THEN held ELSE {})
      /\ UNCHANGED <<type, creating, answered, accepting, started, connected, handlers>>
  BY DEF Server!Cancel
<1>2. /\ held' = {} /\ onSocket' = {} /\ these = held \cup onSocket /\ these \subseteq Ops
  BY <1>1 DEF ServerInv, PlacesInv
<1>3. /\ told \in Seq(Told) /\ OnceEach(told) /\ handlers = these \cup OpsOf(told)
      /\ OpsOf(told) \cap these = {}
  BY <1>2 DEF ServerInv, PlacesInv
<1> HIDE DEF these
<1>4. /\ Server!Aborted(these) \in Seq(Told) /\ OpsOf(Server!Aborted(these)) = these
      /\ OnceEach(Server!Aborted(these))
  BY <1>2, AbortedAre
<1>5. told' \in Seq(Told) /\ OpsOf(told') = OpsOf(told) \cup these /\ OnceEach(told')
  BY <1>1, <1>3, <1>4, ToldConcat
<1>6. CreationInv'
  BY <1>1 DEF ServerInv, CreationInv
<1>7. PlacesInv'
  BY <1>1, <1>2, <1>3, <1>5 DEF PlacesInv
<1> QED BY <1>1, <1>6, <1>7 DEF ServerInv

\* A handler of the user is called.
LEMMA ToldKeeps == ASSUME ServerInv, Server!RunHandler PROVE ServerInv'
<1>1. /\ told # <<>> /\ told' = Tail(told) /\ handlers' = handlers \ {Head(told).op}
      /\ UNCHANGED <<type, creating, answered, accepting, started, connected, held, onSocket>>
  BY DEF Server!RunHandler
<1>2. /\ told \in Seq(Told) /\ OnceEach(told)
  BY DEF ServerInv, PlacesInv
<1>3. /\ told' \in Seq(Told) /\ OnceEach(told')
      /\ OpsOf(told') = OpsOf(told) \ {Head(told).op} /\ Head(told).op \in OpsOf(told)
  BY <1>1, <1>2, ToldTail
<1>4. CreationInv'
  BY <1>1 DEF ServerInv, CreationInv
<1>5. PlacesInv'
  BY <1>1, <1>3 DEF ServerInv, PlacesInv
<1> QED BY <1>1, <1>4, <1>5 DEF ServerInv

\* Every step of the streams and of their creation keeps the invariant.
LEMMA ServerKeeps == ASSUME ServerInv, Server!Next PROVE ServerInv'
BY CreateKeeps, CreatedKeeps, BeginKeeps, AcceptKeeps, CompleteKeeps, EofKeeps, CancelKeeps,
   ToldKeeps
   DEF Server!Next, Server!Operations, Ops

\* Handlers that are all different are as many as their operations.
LEMMA ToldCount ==
  ASSUME NEW s \in Seq(Told), OnceEach(s)
  PROVE  Len(s) = Cardinality(OpsOf(s))
<1> DEFINE n == Len(s)
           f == [i \in 1..n |-> s[i].op]
<1>1. n \in Nat /\ f \in [1..n -> OpsOf(s)]
  BY DEF OpsOf
<1>2. \A i, j \in 1..n : f[i] = f[j] => i = j
  BY DEF OnceEach
<1>3. \A x \in OpsOf(s) : \E i \in 1..n : f[i] = x
  BY DEF OpsOf
<1> HIDE DEF f, n
<1>4. f \in Bijection(1..n, OpsOf(s))
  BY <1>1, <1>2, <1>3 DEF Bijection, Injection, Surjection, IsInjective
<1>5. ExistsBijection(1..n, OpsOf(s))
  BY <1>4 DEF ExistsBijection
<1>6. Cardinality(OpsOf(s)) = n
  BY <1>1, <1>5, FS_CountingElements
<1> QED BY <1>6 DEF n

\* The invariant of the streams says what their users rely on.
LEMMA ServerOperations == ASSUME ServerInv PROVE Server!OperationsKept
<1>1. \A S : Server!Cardinality(S) = Cardinality(S)
  BY DEF Server!Cardinality, Cardinality
<1>2. told \in Seq(Told) /\ OnceEach(told)
  BY DEF ServerInv, PlacesInv
<1>3. Server!PostedOps = OpsOf(told)
  BY <1>2 DEF Server!PostedOps, OpsOf
<1>4. Len(told) = Server!Cardinality(Server!PostedOps)
  BY <1>1, <1>2, <1>3, ToldCount
<1>5. held \cap onSocket = {}
  BY DEF ServerInv, PlacesInv
<1> QED BY <1>3, <1>4, <1>5 DEF ServerInv, PlacesInv, CreationInv, Server!OperationsKept

-----------------------------------------------------------------------------
(* RepeatingTimer *)

Entry == [time : Nat, timer : DOMAIN Period]
TimerCall == [op : {"HandleTimer", "callback"}, timer : DOMAIN Period, start : Nat,
              ec : {"ok", "aborted"}]

SortedByTime(s) == \A i, j \in 1..Len(s) : i < j => s[i].time <= s[j].time

HasWait(s, t) == \E e \in ToSet(s) : e.timer = t

CallSet(t) == {h \in TimerCall : h.op = "callback" /\ h.timer = t}
CallsOf(s, t) == Keep(s, CallSet(t))

\* The deadline of a timer that was started once and told no skip.
OnRate(t) ==
  starts[t] = 1 /\ history[t].skips = 0 =>
    expires[t] = history[t].at + (history[t].ticks + 1) * Period[t]

TimerTypes ==
  /\ now \in Nat /\ queue \in Seq(Entry) /\ timed \in Seq(TimerCall)
  /\ expires \in [DOMAIN Period -> Nat \cup {-1}]
  /\ callback \in [DOMAIN Period -> Nat] /\ starts \in [DOMAIN Period -> Nat]
  /\ history \in [DOMAIN Period -> [at : Nat, ticks : Nat, skips : Nat, left : Nat]]

\* A timer that was never started has no deadline; one that is started has a
\* wait or its end under way and is on its rate; one that is not has no more
\* calls posted than at its cancel.
TimerRight(t) ==
  /\ starts[t] = 0 => expires[t] = -1 /\ callback[t] = 0
  /\ callback[t] # 0 =>
       OnRate(t) /\ (HasWait(queue, t) \/ Timer!Wait(t, "ok") \in ToSet(timed))
  /\ callback[t] = 0 => Len(CallsOf(timed, t)) <= history[t].left

TimerInv ==
  /\ TimerTypes /\ SortedByTime(queue)
  /\ \A t \in DOMAIN Period : TimerRight(t)

\* The operators of the timers are those of the other modules.
LEMMA TimerOperators ==
  /\ \A s, S : Timer!Keep(s, S) = Keep(s, S)
  /\ \A s : Timer!ToSet(s) = ToSet(s)
  /\ \A S : Timer!Cardinality(S) = Cardinality(S)
<1>1. \A s, S : Timer!Keep(s, S) = Keep(s, S)
  BY DEF Timer!Keep, Keep, Timer!KeepNext, KeepNext
<1>2. \A s : Timer!ToSet(s) = ToSet(s)
  BY DEF Timer!ToSet, ToSet
<1>3. \A S : Timer!Cardinality(S) = Cardinality(S)
  BY DEF Timer!Cardinality, Cardinality
<1> QED BY <1>1, <1>2, <1>3

\* Keep of a sequence with nothing to keep.
LEMMA KeepNone ==
  ASSUME NEW A, NEW S, NEW s \in Seq(A), ToSet(s) \cap S = {}
  PROVE  Keep(s, S) = <<>>
<1>1. Keep(s, S) \in Seq(A) /\ ToSet(Keep(s, S)) = {}
  BY KeepType, KeepToSet
<1>2. Len(Keep(s, S)) = 0
  <2>1. Len(Keep(s, S)) \in Nat
    BY <1>1
  <2>2. \A i \in 1..Len(Keep(s, S)) : Keep(s, S)[i] \in ToSet(Keep(s, S))
    BY <1>1, ToSetElement
  <2> QED BY <1>1, <2>1, <2>2
<1> QED BY <1>1, <1>2

\* What is kept are as many as there are places to keep.
LEMMA KeepCount ==
  ASSUME NEW A, NEW S, NEW s \in Seq(A)
  PROVE  Cardinality({i \in 1..Len(s) : s[i] \in S}) = Len(Keep(s, S))
<1> DEFINE At(r) == {i \in 1..Len(r) : r[i] \in S}
           P == {r \in Seq(A) : IsFiniteSet(At(r)) /\ Cardinality(At(r)) = Len(Keep(r, S))}
<1>1. <<>> \in P
  <2>1. <<>> \in Seq(A) /\ Len(<<>>) = 0 /\ Keep(<<>>, S) = <<>>
    BY EmptyIsSeq, KeepEmpty
  <2>2. At(<<>>) = {}
    BY <2>1
  <2> QED BY <2>1, <2>2, FS_EmptySet
<1>2. ASSUME NEW r \in Seq(A), NEW x \in A, r \in P PROVE Append(r, x) \in P
  <2> DEFINE u == Append(r, x)
             n == Len(r) + 1
  <2>1. /\ u \in Seq(A) /\ Len(u) = n /\ Len(r) \in Nat /\ u[n] = x
        /\ \A i \in 1..Len(r) : u[i] = r[i]
    OBVIOUS
  <2>2. Keep(u, S) = KeepNext(Keep(r, S), x, S) /\ Keep(r, S) \in Seq(A)
    BY KeepAppend, KeepType
  <2>3. IsFiniteSet(At(r)) /\ Cardinality(At(r)) = Len(Keep(r, S))
    BY <1>2
  <2> HIDE DEF u
  <2>4. n \notin At(r)
    BY <2>1
  <2>5. CASE x \in S
    <3>1. At(u) = At(r) \cup {n}
      <4>1. ASSUME NEW i PROVE i \in At(u) <=> i \in At(r) \cup {n}
        <5>1. i \in 1..n <=> i \in 1..Len(r) \/ i = n
          BY <2>1
        <5> QED BY <2>1, <2>5, <5>1
      <4> QED BY <4>1
    <3>2. IsFiniteSet(At(u)) /\ Cardinality(At(u)) = Cardinality(At(r)) + 1
      <4> HIDE DEF At, n
      <4>1. IsFiniteSet(At(r) \cup {n}) /\ Cardinality(At(r) \cup {n}) = Cardinality(At(r)) + 1
        BY <2>3, <2>4, FS_AddElement
      <4> QED BY <3>1, <4>1
    <3>3. Len(Keep(u, S)) = Len(Keep(r, S)) + 1
      BY <2>2, <2>5 DEF KeepNext
    <3> QED BY <2>1, <2>3, <3>2, <3>3 DEF u
  <2>6. CASE x \notin S
    <3>1. At(u) = At(r)
      <4>1. ASSUME NEW i PROVE i \in At(u) <=> i \in At(r)
        <5>1. i \in 1..n <=> i \in 1..Len(r) \/ i = n
          BY <2>1
        <5> QED BY <2>1, <2>6, <5>1
      <4> QED BY <4>1
    <3>2. Keep(u, S) = Keep(r, S)
      BY <2>2, <2>6 DEF KeepNext
    <3> QED BY <2>1, <2>3, <3>1, <3>2 DEF u
  <2> QED BY <2>5, <2>6
<1> HIDE DEF P
<1>3. Seq(A) \subseteq P
  BY <1>1, <1>2, SeqSetInduction
<1> QED BY <1>3 DEF P

\* Keep of a sequence in the order of time is one.
LEMMA KeepSorted ==
  ASSUME NEW S, NEW s \in Seq(Entry), SortedByTime(s)
  PROVE  SortedByTime(Keep(s, S))
<1> DEFINE P == {r \in Seq(Entry) : SortedByTime(r) => SortedByTime(Keep(r, S))}
<1>1. <<>> \in P
  BY EmptyIsSeq, KeepEmpty
<1>2. ASSUME NEW r \in Seq(Entry), NEW x \in Entry, r \in P PROVE Append(r, x) \in P
  <2> DEFINE u == Append(r, x)
             k == Keep(r, S)
             m == Append(k, x)
  <2>1. /\ u \in Seq(Entry) /\ Len(u) = Len(r) + 1 /\ Len(r) \in Nat /\ u[Len(r) + 1] = x
        /\ \A i \in 1..Len(r) : u[i] = r[i]
    OBVIOUS
  <2>2. Keep(u, S) = KeepNext(k, x, S) /\ k \in Seq(Entry)
    BY KeepAppend, KeepType
  <2> SUFFICES ASSUME SortedByTime(u) PROVE SortedByTime(Keep(u, S))
    BY <2>1
  <2> HIDE DEF u
  <2>3. SortedByTime(r)
    <3> SUFFICES ASSUME NEW i \in 1..Len(r), NEW j \in 1..Len(r), i < j
                 PROVE  r[i].time <= r[j].time
      BY DEF SortedByTime
    <3>1. i \in 1..Len(u) /\ j \in 1..Len(u)
      BY <2>1
    <3> QED BY <2>1, <3>1 DEF SortedByTime
  <2>4. SortedByTime(k)
    BY <1>2, <2>3
  <2>5. ASSUME NEW e \in ToSet(k) PROVE e.time <= x.time
    <3>1. e \in ToSet(r)
      BY KeepToSet
    <3>2. PICK i \in 1..Len(r) : r[i] = e
      BY <3>1, ToSetElement
    <3>3. i \in 1..Len(u) /\ Len(r) + 1 \in 1..Len(u) /\ i < Len(r) + 1
      BY <2>1
    <3> QED BY <2>1, <3>2, <3>3 DEF SortedByTime
  <2> HIDE DEF k
  <2>6. SortedByTime(m)
    <3>1. /\ Len(m) = Len(k) + 1 /\ Len(k) \in Nat /\ m[Len(k) + 1] = x
          /\ \A i \in 1..Len(k) : m[i] = k[i]
      BY <2>2
    <3>2. \A i \in 1..Len(k) : k[i] \in ToSet(k)
      BY <2>2, ToSetElement
    <3> HIDE DEF m
    <3> SUFFICES ASSUME NEW i \in 1..Len(m), NEW j \in 1..Len(m), i < j
                 PROVE  m[i].time <= m[j].time
      BY DEF SortedByTime
    <3>3. i \in 1..Len(k) /\ m[i] = k[i]
      BY <3>1
    <3>4. CASE j = Len(k) + 1
      BY <2>5, <3>1, <3>2, <3>3, <3>4
    <3>5. CASE j \in 1..Len(k)
      BY <2>4, <3>1, <3>3, <3>5 DEF SortedByTime
    <3> QED BY <3>1, <3>4, <3>5
  <2> QED BY <2>2, <2>4, <2>6 DEF KeepNext
<1> HIDE DEF P
<1>3. Seq(Entry) \subseteq P
  BY <1>1, <1>2, SeqSetInduction
<1> QED BY <1>3 DEF P

\* A sequence behind one that is earlier.
LEMMA SortedConcat ==
  ASSUME NEW s \in Seq(Entry), NEW u \in Seq(Entry), SortedByTime(s), SortedByTime(u),
         \A e \in ToSet(s), f \in ToSet(u) : e.time <= f.time
  PROVE  SortedByTime(s \o u)
<1> DEFINE v == s \o u
<1>1. /\ v \in Seq(Entry) /\ Len(v) = Len(s) + Len(u) /\ Len(s) \in Nat /\ Len(u) \in Nat
      /\ \A i \in 1..Len(s) : v[i] = s[i]
      /\ \A i \in 1..Len(u) : v[Len(s) + i] = u[i]
  BY ConcatElements
<1> HIDE DEF v
<1>2. /\ \A i \in 1..Len(s) : s[i] \in ToSet(s)
      /\ \A i \in 1..Len(u) : u[i] \in ToSet(u)
  BY ToSetElement
<1> SUFFICES ASSUME NEW i \in 1..Len(v), NEW j \in 1..Len(v), i < j
             PROVE  v[i].time <= v[j].time
  BY DEF SortedByTime, v
<1>3. CASE j <= Len(s)
  <2>1. i \in 1..Len(s) /\ j \in 1..Len(s)
    BY <1>1, <1>3
  <2> QED BY <1>1, <2>1 DEF SortedByTime
<1>4. CASE i > Len(s)
  <2>1. /\ i - Len(s) \in 1..Len(u) /\ i = Len(s) + (i - Len(s))
        /\ j - Len(s) \in 1..Len(u) /\ j = Len(s) + (j - Len(s)) /\ i - Len(s) < j - Len(s)
    BY <1>1, <1>4
  <2>2. v[i] = u[i - Len(s)] /\ v[j] = u[j - Len(s)]
    BY <1>1, <2>1
  <2> QED BY <2>1, <2>2 DEF SortedByTime
<1>5. CASE i <= Len(s) /\ j > Len(s)
  <2>1. i \in 1..Len(s) /\ j - Len(s) \in 1..Len(u) /\ j = Len(s) + (j - Len(s))
    BY <1>1, <1>5
  <2>2. v[i] = s[i] /\ v[j] = u[j - Len(s)]
    BY <1>1, <2>1
  <2> QED BY <1>2, <2>1, <2>2
<1> QED BY <1>1, <1>3, <1>4, <1>5

\* Handlers of one timer.
OnlyFor(s, t) == \A h \in ToSet(s) : h.timer = t

\* Handlers that are posted for one timer change nothing for the others, and
\* take nothing away.
LEMMA PostForTimer ==
  ASSUME NEW s \in Seq(TimerCall), NEW x \in Seq(TimerCall), NEW t,
         OnlyFor(x, t), NEW t2, t2 # t
  PROVE  /\ s \o x \in Seq(TimerCall)
         /\ ToSet(s) \subseteq ToSet(s \o x)
         /\ CallsOf(s \o x, t2) = CallsOf(s, t2)
<1>1. s \o x \in Seq(TimerCall) /\ ToSet(s) \subseteq ToSet(s \o x)
  BY ConcatElements, ToSetConcat
<1>2. CallsOf(s \o x, t2) = CallsOf(s, t2)
  <2>1. ToSet(x) \cap CallSet(t2) = {}
    BY DEF CallSet, OnlyFor
  <2>2. Keep(x, CallSet(t2)) = <<>>
    BY <2>1, KeepNone
  <2>3. Keep(s \o x, CallSet(t2)) = Keep(s, CallSet(t2)) \o Keep(x, CallSet(t2))
    BY KeepConcat
  <2>4. Keep(s, CallSet(t2)) \in Seq(TimerCall)
    BY KeepType
  <2>5. Keep(s, CallSet(t2)) \o <<>> = Keep(s, CallSet(t2))
    BY <2>4, ConcatEmpty
  <2> QED BY <2>2, <2>3, <2>5 DEF CallsOf
<1> QED BY <1>1, <1>2

\* Handlers that are no calls of a user count for no timer.
LEMMA PostNoCalls ==
  ASSUME NEW s \in Seq(TimerCall), NEW x \in Seq(TimerCall),
         \A h \in ToSet(x) : h.op # "callback"
  PROVE  \A t : CallsOf(s \o x, t) = CallsOf(s, t)
<1> SUFFICES ASSUME NEW t PROVE CallsOf(s \o x, t) = CallsOf(s, t)
  OBVIOUS
<1>1. ToSet(x) \cap CallSet(t) = {}
  BY DEF CallSet
<1>2. Keep(x, CallSet(t)) = <<>>
  BY <1>1, KeepNone
<1>3. Keep(s \o x, CallSet(t)) = Keep(s, CallSet(t)) \o Keep(x, CallSet(t))
  BY KeepConcat
<1>4. Keep(s, CallSet(t)) \in Seq(TimerCall)
  BY KeepType
<1>5. Keep(s, CallSet(t)) \o <<>> = Keep(s, CallSet(t))
  BY <1>4, ConcatEmpty
<1> QED BY <1>2, <1>3, <1>5 DEF CallsOf

\* A handler that has run.
LEMMA RunOfTimer ==
  ASSUME NEW s \in Seq(TimerCall), s # <<>>
  PROVE  /\ Tail(s) \in Seq(TimerCall) /\ Head(s) \in TimerCall
         /\ \A h \in ToSet(s) : h = Head(s) \/ h \in ToSet(Tail(s))
         /\ \A t : /\ Len(CallsOf(Tail(s), t)) <= Len(CallsOf(s, t))
                   /\ Len(CallsOf(Tail(s), t)) \in Nat /\ Len(CallsOf(s, t)) \in Nat
<1>1. Tail(s) \in Seq(TimerCall) /\ Head(s) \in TimerCall
  BY ConcatHeadTail
<1>2. \A h \in ToSet(s) : h = Head(s) \/ h \in ToSet(Tail(s))
  BY ToSetHeadTail
<1>3. ASSUME NEW t
      PROVE  /\ Len(CallsOf(Tail(s), t)) <= Len(CallsOf(s, t))
             /\ Len(CallsOf(Tail(s), t)) \in Nat /\ Len(CallsOf(s, t)) \in Nat
  <2> DEFINE k == Keep(Tail(s), CallSet(t))
  <2>1. k \in Seq(TimerCall) /\ Keep(s, CallSet(t)) \in Seq(TimerCall)
    BY <1>1, KeepType
  <2>2. Keep(s, CallSet(t)) = <<Head(s)>> \o k \/ Keep(s, CallSet(t)) = k
    BY KeepTail
  <2>3. <<Head(s)>> \in Seq(TimerCall) /\ Len(<<Head(s)>>) = 1
    BY <1>1, SingletonSeq
  <2> HIDE DEF k
  <2>4. Len(<<Head(s)>> \o k) = 1 + Len(k) /\ Len(k) \in Nat
    BY <2>1, <2>3
  <2>5. CallsOf(s, t) = Keep(s, CallSet(t)) /\ CallsOf(Tail(s), t) = k
    BY DEF CallsOf, k
  <2> QED BY <2>1, <2>2, <2>4, <2>5
<1> QED BY <1>1, <1>2, <1>3

\* async_wait of one timer behind a cancel of its wait: the queue stays in
\* order, and the waits of the others stay.
LEMMA WaitAnew ==
  ASSUME NEW q \in Seq(Entry), NEW t \in DOMAIN Period, NEW time \in Nat, SortedByTime(q),
         NEW p
  PROVE  LET c == Timer!CancelWait([queue |-> q, posted |-> p], t)
             r == Timer!AsyncWait(c, t, time)
         IN /\ r.queue \in Seq(Entry) /\ SortedByTime(r.queue)
            /\ HasWait(r.queue, t)
            /\ \A t2 : t2 # t /\ HasWait(q, t2) => HasWait(r.queue, t2)
            /\ r.posted = c.posted
            /\ c.queue \in Seq(Entry) /\ SortedByTime(c.queue)
            /\ \A t2 : t2 # t /\ HasWait(q, t2) => HasWait(c.queue, t2)
            /\ c.posted = p \/ c.posted = Append(p, Timer!Wait(t, "aborted"))
<1> DEFINE c == Timer!CancelWait([queue |-> q, posted |-> p], t)
           r == Timer!AsyncWait(c, t, time)
           k == Keep(q, {e \in ToSet(q) : e.timer # t})
           a == Keep(k, {e \in ToSet(k) : e.time <= time})
           b == Keep(k, {e \in ToSet(k) : e.time > time})
           n == [time |-> time, timer |-> t]
<1>1. /\ c.queue = k
      /\ c.posted = p \/ c.posted = Append(p, Timer!Wait(t, "aborted"))
  BY TimerOperators DEF Timer!CancelWait
<1>2. r.queue = (a \o <<n>>) \o b /\ r.posted = c.posted
  <2>1. c = [queue |-> c.queue, posted |-> c.posted]
    BY DEF Timer!CancelWait
  <2> HIDE DEF c
  <2> QED BY <1>1, <2>1, TimerOperators DEF Timer!AsyncWait, Timer!Due, Timer!Later
<1> HIDE DEF c, r
<1>3. /\ k \in Seq(Entry) /\ SortedByTime(k)
      /\ ToSet(k) = {e \in ToSet(q) : e.timer # t}
  <2>1. ToSet(k) = ToSet(q) \cap {e \in ToSet(q) : e.timer # t}
    BY KeepToSet
  <2> QED BY <2>1, KeepType, KeepSorted
<1> HIDE DEF k
<1>4. /\ a \in Seq(Entry) /\ SortedByTime(a)
      /\ ToSet(a) = {e \in ToSet(k) : e.time <= time}
  <2>1. ToSet(a) = ToSet(k) \cap {e \in ToSet(k) : e.time <= time}
    BY <1>3, KeepToSet
  <2> QED BY <1>3, <2>1, KeepType, KeepSorted
<1>5. /\ b \in Seq(Entry) /\ SortedByTime(b)
      /\ ToSet(b) = {e \in ToSet(k) : e.time > time}
  <2>1. ToSet(b) = ToSet(k) \cap {e \in ToSet(k) : e.time > time}
    BY <1>3, KeepToSet
  <2> QED BY <1>3, <2>1, KeepType, KeepSorted
<1>6. n \in Entry /\ n.time = time /\ n.timer = t
  BY DEF Entry
<1> HIDE DEF a, b, n
<1>7. <<n>> \in Seq(Entry) /\ ToSet(<<n>>) = {n} /\ SortedByTime(<<n>>)
  <2>1. <<n>> \in Seq(Entry) /\ ToSet(<<n>>) = {n} /\ Len(<<n>>) = 1
    BY <1>6, SingletonSeq
  <2>2. \A i, j \in 1..1 : ~(i < j)
    OBVIOUS
  <2> QED BY <2>1, <2>2 DEF SortedByTime
<1>8. /\ a \o <<n>> \in Seq(Entry) /\ ToSet(a \o <<n>>) = ToSet(a) \cup {n}
      /\ SortedByTime(a \o <<n>>)
  <2>1. \A e \in ToSet(a), f \in ToSet(<<n>>) : e.time <= f.time
    BY <1>4, <1>6, <1>7
  <2>2. a \o <<n>> \in Seq(Entry)
    BY <1>4, <1>7, ConcatElements
  <2>3. ToSet(a \o <<n>>) = ToSet(a) \cup ToSet(<<n>>)
    <3> DEFINE one == <<n>>
    <3>1. a \in Seq(Entry) /\ one \in Seq(Entry)
      BY <1>4, <1>7
    <3> HIDE DEF one
    <3>2. ToSet(a \o one) = ToSet(a) \cup ToSet(one)
      BY <3>1, ToSetConcat
    <3> QED BY <3>2 DEF one
  <2>4. SortedByTime(a \o <<n>>)
    BY <1>4, <1>7, <2>1, SortedConcat
  <2> QED BY <1>7, <2>2, <2>3, <2>4
<1>9. /\ r.queue \in Seq(Entry) /\ ToSet(r.queue) = ToSet(a) \cup {n} \cup ToSet(b)
      /\ SortedByTime(r.queue)
  <2> DEFINE an == a \o <<n>>
  <2>0. an \in Seq(Entry) /\ ToSet(an) = ToSet(a) \cup {n} /\ SortedByTime(an)
    BY <1>8
  <2> HIDE DEF an
  <2>1. ASSUME NEW e \in ToSet(an), NEW f \in ToSet(b) PROVE e.time <= f.time
    <3>1. e \in Entry /\ f \in Entry
      BY <1>5, <2>0, ToSetElement
    <3>2. e.time <= time /\ f.time > time /\ e.time \in Nat /\ f.time \in Nat
      BY <1>4, <1>5, <1>6, <2>0, <3>1 DEF Entry
    <3> QED BY <3>2
  <2>2. an \o b \in Seq(Entry) /\ ToSet(an \o b) = ToSet(an) \cup ToSet(b) /\ SortedByTime(an \o b)
    BY <1>5, <2>0, <2>1, ConcatElements, ToSetConcat, SortedConcat
  <2> QED BY <1>2, <2>0, <2>2 DEF an
<1>10. HasWait(r.queue, t)
  BY <1>6, <1>9 DEF HasWait
<1>11. ASSUME NEW t2, t2 # t, HasWait(q, t2) PROVE HasWait(r.queue, t2) /\ HasWait(k, t2)
  <2>1. PICK e \in ToSet(q) : e.timer = t2
    BY <1>11 DEF HasWait
  <2>2. e \in ToSet(k) /\ e \in Entry
    BY <1>3, <1>11, <2>1, ToSetElement
  <2>3. e \in ToSet(a) \/ e \in ToSet(b)
    <3>1. e.time <= time \/ e.time > time
      BY <2>2 DEF Entry
    <3> QED BY <1>4, <1>5, <2>2, <3>1
  <2> QED BY <1>9, <2>1, <2>2, <2>3 DEF HasWait
<1> QED BY <1>1, <1>2, <1>3, <1>9, <1>10, <1>11 DEF c, r

\* StartInternal: what it does to the queue, the deadline and what is posted.
LEMMA StartInternalDoes ==
  ASSUME TimerTypes, SortedByTime(queue), NEW t \in DOMAIN Period, NEW start \in Nat,
         NEW before \in Seq(TimerCall), NEW after \in Seq(TimerCall),
         OnlyFor(after, t),
         Timer!StartInternal(t, start, before, after)
  PROVE  /\ expires' = [expires EXCEPT ![t] = Timer!NextExpiry(t)]
         /\ Timer!NextExpiry(t) \in Nat
         /\ queue' \in Seq(Entry) /\ SortedByTime(queue') /\ HasWait(queue', t)
         /\ \A t2 : t2 # t /\ HasWait(queue, t2) => HasWait(queue', t2)
         /\ \E x \in Seq(TimerCall) :
              timed' = before \o x /\ OnlyFor(x, t)
<1> DEFINE skip == IF Timer!Skipped(t) THEN <<Timer!Call(t, start, "aborted")>> ELSE <<>>
           p == before \o skip
           c == Timer!CancelWait([queue |-> queue, posted |-> p], t)
           q == Timer!AsyncWait(c, t, Timer!NextExpiry(t))
           w == Timer!Wait(t, "aborted")
<1>1. /\ expires' = [expires EXCEPT ![t] = Timer!NextExpiry(t)]
      /\ queue' = q.queue /\ timed' = q.posted \o after
  BY DEF Timer!StartInternal
<1>2. Timer!NextExpiry(t) \in Nat
  <2>1. now \in Nat /\ Period[t] \in Nat /\ expires[t] \in Nat \cup {-1}
    BY HostIoAssumption DEF TimerTypes
  <2> QED BY <2>1 DEF Timer!NextExpiry, Timer!Special
<1>3. /\ q.queue \in Seq(Entry) /\ SortedByTime(q.queue) /\ HasWait(q.queue, t)
      /\ \A t2 : t2 # t /\ HasWait(queue, t2) => HasWait(q.queue, t2)
      /\ q.posted = p \/ q.posted = Append(p, w)
  <2>1. queue \in Seq(Entry)
    BY DEF TimerTypes
  <2> HIDE DEF p
  <2>2. q.queue \in Seq(Entry) /\ SortedByTime(q.queue)
    BY <1>2, <2>1, WaitAnew
  <2>3. HasWait(q.queue, t)
    BY <1>2, <2>1, WaitAnew
  <2>4. \A t2 : t2 # t /\ HasWait(queue, t2) => HasWait(q.queue, t2)
    BY <1>2, <2>1, WaitAnew
  <2>5. q.posted = c.posted
    BY <1>2, <2>1, WaitAnew
  <2>6. c.posted = p \/ c.posted = Append(p, w)
    BY <1>2, <2>1, WaitAnew
  <2> HIDE DEF q, c, w
  <2> QED BY <2>2, <2>3, <2>4, <2>5, <2>6
<1> HIDE DEF q
<1>4. skip \in Seq(TimerCall) /\ OnlyFor(skip, t)
  <2>1. Timer!Call(t, start, "aborted") \in TimerCall /\ Timer!Call(t, start, "aborted").timer = t
    BY DEF Timer!Call, TimerCall
  <2>2. CASE Timer!Skipped(t)
    BY <2>1, <2>2, SingletonSeq DEF OnlyFor
  <2>3. CASE ~Timer!Skipped(t)
    BY <2>3, EmptyIsSeq, ToSetEmpty DEF OnlyFor
  <2> QED BY <2>2, <2>3
<1> HIDE DEF skip
<1>5. w \in TimerCall /\ w.timer = t
  BY DEF Timer!Wait, TimerCall
<1> HIDE DEF w
<1>6. <<w>> \in Seq(TimerCall) /\ ToSet(<<w>>) = {w}
  BY <1>5, SingletonSeq
<1>7. ASSUME NEW y \in Seq(TimerCall), OnlyFor(y, t),
             NEW z \in Seq(TimerCall), OnlyFor(z, t)
      PROVE  /\ y \o z \in Seq(TimerCall) /\ OnlyFor(y \o z, t)
             /\ (before \o y) \o z = before \o (y \o z)
  <2>1. y \o z \in Seq(TimerCall) /\ ToSet(y \o z) = ToSet(y) \cup ToSet(z)
    BY ConcatElements, ToSetConcat
  <2>2. (before \o y) \o z = before \o (y \o z)
    BY ConcatAssoc, SMTT(30)
  <2> QED BY <1>7, <2>1, <2>2 DEF OnlyFor
<1>8. \E y \in Seq(TimerCall) : q.posted = before \o y /\ OnlyFor(y, t)
  <2>1. CASE q.posted = p
    BY <1>4, <2>1
  <2>2. CASE q.posted = Append(p, w)
    <3> DEFINE one == <<w>>
    <3>1. p \in Seq(TimerCall)
      BY <1>4, ConcatElements
    <3>2. Append(p, w) = p \o one
      <4> HIDE DEF p
      <4> QED BY <1>5, <3>1
    <3>3. one \in Seq(TimerCall) /\ OnlyFor(one, t)
      BY <1>5, <1>6 DEF OnlyFor
    <3> HIDE DEF one
    <3>4. /\ skip \o one \in Seq(TimerCall) /\ OnlyFor(skip \o one, t)
          /\ (before \o skip) \o one = before \o (skip \o one)
      BY <1>4, <1>7, <3>3
    <3> QED BY <2>2, <3>2, <3>4
  <2> QED BY <1>3, <2>1, <2>2
<1>9. PICK y \in Seq(TimerCall) : q.posted = before \o y /\ OnlyFor(y, t)
  BY <1>8
<1>10. /\ y \o after \in Seq(TimerCall) /\ OnlyFor(y \o after, t)
       /\ (before \o y) \o after = before \o (y \o after)
  BY <1>7, <1>9
<1>11. timed' = before \o (y \o after)
  BY <1>1, <1>9, <1>10
<1> QED BY <1>1, <1>2, <1>3, <1>10, <1>11

\* What is done to one timer leaves the others right.
LEMMA OthersRight ==
  ASSUME TimerInv, NEW t, NEW before \in Seq(TimerCall), NEW x \in Seq(TimerCall),
         timed' = before \o x, OnlyFor(x, t),
         \A h \in ToSet(timed) : h.timer # t => h \in ToSet(before) \/ h.op # "HandleTimer",
         \A t2 : Len(CallsOf(before, t2)) <= Len(CallsOf(timed, t2)),
         \A t2 : t2 # t /\ HasWait(queue, t2) => HasWait(queue', t2),
         NEW t2 \in DOMAIN Period, t2 # t,
         starts'[t2] = starts[t2], callback'[t2] = callback[t2], expires'[t2] = expires[t2],
         history'[t2] = history[t2]
  PROVE  TimerRight(t2)'
<1>1. /\ before \o x \in Seq(TimerCall) /\ ToSet(before) \subseteq ToSet(timed')
      /\ CallsOf(timed', t2) = CallsOf(before, t2)
  <2>1. /\ before \o x \in Seq(TimerCall) /\ ToSet(before) \subseteq ToSet(before \o x)
        /\ CallsOf(before \o x, t2) = CallsOf(before, t2)
    BY PostForTimer
  <2> QED BY <2>1
<1>2. TimerRight(t2)
  BY DEF TimerInv
<1>3. OnRate(t2)' <=> OnRate(t2)
  BY DEF OnRate
<1>4. Timer!Wait(t2, "ok") \in ToSet(timed) => Timer!Wait(t2, "ok") \in ToSet(timed')
  <2>1. Timer!Wait(t2, "ok").timer = t2 /\ Timer!Wait(t2, "ok").op = "HandleTimer"
    BY DEF Timer!Wait
  <2> QED BY <1>1, <2>1
<1>5. Timer!Wait(t2, "ok")' = Timer!Wait(t2, "ok")
  BY DEF Timer!Wait
<1>6. callback[t2] = 0 => Len(CallsOf(timed', t2)) <= history[t2].left
  <2>1. Len(CallsOf(before, t2)) <= Len(CallsOf(timed, t2))
    OBVIOUS
  <2>2. /\ Len(CallsOf(before, t2)) \in Nat /\ Len(CallsOf(timed, t2)) \in Nat
        /\ history[t2].left \in Nat
    BY KeepType DEF CallsOf, TimerInv, TimerTypes
  <2> QED BY <1>1, <1>2, <2>1, <2>2 DEF TimerRight
<1> QED BY <1>2, <1>3, <1>4, <1>5, <1>6 DEF TimerRight

\* Nothing waits and nothing is posted at first.
LEMMA TimerStarts == ASSUME Timer!Init PROVE TimerInv
<1>0. Len(<<>>) = 0 /\ (\A S : <<>> \in Seq(S))
  BY EmptyIsSeq
<1>1. /\ now = 0 /\ queue = <<>> /\ timed = <<>>
      /\ expires = [t \in DOMAIN Period |-> -1]
      /\ callback = [t \in DOMAIN Period |-> 0] /\ starts = [t \in DOMAIN Period |-> 0]
      /\ history = [t \in DOMAIN Period |-> [at |-> 0, ticks |-> 0, skips |-> 0, left |-> 0]]
  BY DEF Timer!Init, Timer!Timers, Timer!Special
<1>2. TimerTypes
  BY <1>0, <1>1 DEF TimerTypes
<1>3. SortedByTime(queue)
  BY <1>0, <1>1 DEF SortedByTime
<1>4. ASSUME NEW t \in DOMAIN Period PROVE TimerRight(t)
  <2>1. CallsOf(timed, t) = <<>>
    BY <1>1, KeepEmpty DEF CallsOf
  <2>2. starts[t] = 0 /\ expires[t] = -1 /\ callback[t] = 0 /\ history[t].left = 0
    BY <1>1
  <2> QED BY <1>0, <2>1, <2>2 DEF TimerRight
<1> QED BY <1>2, <1>3, <1>4 DEF TimerInv

\* The clock runs: a wait that is due is posted, one that is not stays.
LEMMA SetTimeKeeps ==
  ASSUME TimerInv, NEW time \in Nat, Timer!SetTime(time)
  PROVE  TimerInv'
<1> DEFINE D == {e \in ToSet(queue) : e.time <= time}
           L == {e \in ToSet(queue) : e.time > time}
           due == Keep(queue, D)
           x == [i \in DOMAIN due |-> Timer!Wait(due[i].timer, "ok")]
<1>0. queue \in Seq(Entry) /\ timed \in Seq(TimerCall) /\ SortedByTime(queue)
  BY DEF TimerInv, TimerTypes
<1>1. /\ now' = time /\ queue' = Keep(queue, L) /\ timed' = timed \o x
      /\ UNCHANGED <<expires, callback, starts, history>>
  BY TimerOperators DEF Timer!SetTime, Timer!Due, Timer!Later
<1>2. due \in Seq(Entry) /\ ToSet(due) = D
  <2>1. ToSet(due) = ToSet(queue) \cap D
    BY <1>0, KeepToSet
  <2> QED BY <1>0, <2>1, KeepType
<1>3. queue' \in Seq(Entry) /\ SortedByTime(queue') /\ ToSet(queue') = L
  <2>1. ToSet(queue') = ToSet(queue) \cap L
    BY <1>0, <1>1, KeepToSet
  <2> HIDE DEF L
  <2>2. queue' \in Seq(Entry) /\ SortedByTime(queue')
    BY <1>0, <1>1, KeepType, KeepSorted
  <2> QED BY <2>1, <2>2 DEF L
<1> HIDE DEF due
<1>4. /\ x \in Seq(TimerCall) /\ Len(x) = Len(due)
      /\ \A i \in 1..Len(due) : x[i] = Timer!Wait(due[i].timer, "ok")
  <2>1. DOMAIN due = 1..Len(due) /\ Len(due) \in Nat
    BY <1>2
  <2>2. ASSUME NEW i \in 1..Len(due) PROVE Timer!Wait(due[i].timer, "ok") \in TimerCall
    <3>1. due[i] \in Entry
      BY <1>2
    <3> QED BY <3>1 DEF Entry, TimerCall, Timer!Wait
  <2> QED BY <2>1, <2>2
<1> HIDE DEF x
<1>5. ASSUME NEW h \in ToSet(x) PROVE h.op # "callback"
  <2>1. PICK i \in 1..Len(x) : x[i] = h
    BY <1>4, ToSetElement
  <2>2. i \in 1..Len(due)
    BY <1>4, <2>1
  <2>3. x[i] = Timer!Wait(due[i].timer, "ok")
    BY <1>4, <2>2
  <2>4. Timer!Wait(due[i].timer, "ok").op = "HandleTimer"
    BY DEF Timer!Wait
  <2> QED BY <2>1, <2>3, <2>4
<1>6. \A t : CallsOf(timed', t) = CallsOf(timed, t)
  BY <1>0, <1>1, <1>4, <1>5, PostNoCalls
<1>7. timed' \in Seq(TimerCall) /\ ToSet(timed') = ToSet(timed) \cup ToSet(x)
  <2>1. timed \o x \in Seq(TimerCall) /\ ToSet(timed \o x) = ToSet(timed) \cup ToSet(x)
    BY <1>0, <1>4, ConcatElements, ToSetConcat
  <2> QED BY <1>1, <2>1
<1>8. TimerTypes'
  BY <1>1, <1>3, <1>7 DEF TimerInv, TimerTypes
<1>9. ASSUME NEW t \in DOMAIN Period, HasWait(queue, t)
      PROVE  HasWait(queue', t) \/ Timer!Wait(t, "ok") \in ToSet(timed')
  <2>1. PICK e \in ToSet(queue) : e.timer = t
    BY <1>9 DEF HasWait
  <2>2. e.time \in Nat
    <3>1. e \in Entry
      BY <1>0, ToSetElement
    <3> QED BY <3>1 DEF Entry
  <2>3. CASE e.time > time
    BY <1>3, <2>1, <2>3 DEF HasWait
  <2>4. CASE e.time <= time
    <3>1. e \in ToSet(due)
      BY <1>2, <2>4
    <3>2. PICK i \in 1..Len(due) : due[i] = e
      BY <1>2, <3>1, ToSetElement
    <3>3. x[i] = Timer!Wait(t, "ok") /\ i \in 1..Len(x)
      BY <1>4, <2>1, <3>2
    <3>4. x[i] \in ToSet(x)
      BY <1>4, <3>3, ToSetElement
    <3> QED BY <1>7, <3>3, <3>4
  <2> QED BY <2>2, <2>3, <2>4
<1>10. ASSUME NEW t \in DOMAIN Period PROVE TimerRight(t)'
  <2>1. TimerRight(t)
    BY DEF TimerInv
  <2>2. OnRate(t)' <=> OnRate(t)
    BY <1>1 DEF OnRate
  <2>3. Timer!Wait(t, "ok")' = Timer!Wait(t, "ok")
    BY DEF Timer!Wait
  <2>4. CallsOf(timed', t) = CallsOf(timed, t)
    BY <1>6
  <2> QED BY <1>1, <1>7, <1>9, <2>1, <2>2, <2>3, <2>4 DEF TimerRight
<1> QED BY <1>3, <1>8, <1>10 DEF TimerInv

\* start(): the first deadline is one period from now.
LEMMA TimerStartKeeps ==
  ASSUME TimerInv, NEW t \in DOMAIN Period, Timer!Start(t)
  PROVE  TimerInv'
<1>0. TimerTypes /\ SortedByTime(queue) /\ timed \in Seq(TimerCall) /\ Period[t] \in Nat
  BY HostIoAssumption DEF TimerInv, TimerTypes
<1>1. /\ starts' = [starts EXCEPT ![t] = @ + 1]
      /\ callback' = [callback EXCEPT ![t] = starts'[t]]
      /\ history' = [history EXCEPT ![t] = [at |-> now, ticks |-> 0, skips |-> 0, left |-> 0]]
      /\ Timer!StartInternal(t, starts'[t], timed, <<>>) /\ now' = now
  BY DEF Timer!Start
<1>2. /\ starts'[t] \in Nat /\ starts'[t] # 0 /\ starts'[t] = starts[t] + 1
      /\ callback'[t] = starts'[t] /\ history'[t] = [at |-> now, ticks |-> 0, skips |-> 0, left |-> 0]
  BY <1>0, <1>1 DEF TimerTypes
<1>3. <<>> \in Seq(TimerCall) /\ OnlyFor(<<>>, t)
  BY EmptyIsSeq, ToSetEmpty DEF OnlyFor
<1>4. /\ expires' = [expires EXCEPT ![t] = Timer!NextExpiry(t)]
      /\ Timer!NextExpiry(t) \in Nat
      /\ queue' \in Seq(Entry) /\ SortedByTime(queue') /\ HasWait(queue', t)
      /\ \A t2 : t2 # t /\ HasWait(queue, t2) => HasWait(queue', t2)
      /\ \E x \in Seq(TimerCall) : timed' = timed \o x /\ OnlyFor(x, t)
  BY <1>0, <1>1, <1>2, <1>3, StartInternalDoes
<1>5. PICK x \in Seq(TimerCall) : timed' = timed \o x /\ OnlyFor(x, t)
  BY <1>4
<1>6. timed' \in Seq(TimerCall)
  BY <1>0, <1>5, ConcatElements
<1>7. TimerTypes'
  BY <1>0, <1>1, <1>2, <1>4, <1>6 DEF TimerTypes
<1>8. TimerRight(t)'
  <2>1. OnRate(t)'
    <3>1. CASE starts'[t] = 1
      <4>1. expires[t] = -1
        BY <1>0, <1>2, <3>1, SMTT(30) DEF TimerInv, TimerRight, TimerTypes
      <4>2. expires'[t] = now + Period[t]
        BY <1>0, <1>4, <4>1 DEF TimerTypes, Timer!NextExpiry, Timer!Special
      <4>3. (0 + 1) * Period[t] = Period[t]
        BY <1>0
      <4> QED BY <1>0, <1>2, <4>2, <4>3 DEF OnRate, TimerTypes
    <3>2. CASE starts'[t] # 1
      BY <3>2 DEF OnRate
    <3> QED BY <3>1, <3>2
  <2> QED BY <1>2, <1>4, <2>1 DEF TimerRight
<1>9. ASSUME NEW t2 \in DOMAIN Period, t2 # t PROVE TimerRight(t2)'
  <2>1. /\ starts'[t2] = starts[t2] /\ callback'[t2] = callback[t2] /\ expires'[t2] = expires[t2]
        /\ history'[t2] = history[t2]
    BY <1>0, <1>1, <1>4, <1>9 DEF TimerTypes
  <2>2. \A u : Len(CallsOf(timed, u)) <= Len(CallsOf(timed, u))
    BY <1>0, KeepType DEF CallsOf
  <2> QED BY <1>0, <1>4, <1>5, <1>9, <2>1, <2>2, OthersRight
<1> QED BY <1>4, <1>7, <1>8, <1>9 DEF TimerInv

\* cancel(): the calls that are posted are those that may still run.
LEMMA TimerCancelKeeps ==
  ASSUME TimerInv, NEW t \in DOMAIN Period, Timer!Cancel(t)
  PROVE  TimerInv'
<1> DEFINE c == Timer!CancelWait([queue |-> queue, posted |-> timed], t)
           w == Timer!Wait(t, "aborted")
<1>0. /\ TimerTypes /\ SortedByTime(queue) /\ timed \in Seq(TimerCall) /\ queue \in Seq(Entry)
  BY DEF TimerInv, TimerTypes
<1>1. /\ callback' = [callback EXCEPT ![t] = 0]
      /\ queue' = c.queue /\ timed' = c.posted
      /\ history' = [history EXCEPT ![t].left = Cardinality(Timer!CallsPosted(t))]
      /\ UNCHANGED <<now, expires, starts>>
  BY TimerOperators DEF Timer!Cancel
<1>2. /\ c.queue \in Seq(Entry) /\ SortedByTime(c.queue)
  BY <1>0, WaitAnew
<1>3. \A t2 : t2 # t /\ HasWait(queue, t2) => HasWait(c.queue, t2)
  BY <1>0, WaitAnew
<1>4. c.posted = timed \/ c.posted = Append(timed, w)
  BY <1>0, WaitAnew
<1> HIDE DEF c
<1>5. w \in TimerCall /\ w.timer = t /\ w.op = "HandleTimer"
  BY DEF Timer!Wait, TimerCall
<1> HIDE DEF w
<1>6. <<w>> \in Seq(TimerCall) /\ ToSet(<<w>>) = {w}
  BY <1>5, SingletonSeq
<1>7. \E x \in Seq(TimerCall) : /\ timed' = timed \o x /\ OnlyFor(x, t)
                                /\ \A h \in ToSet(x) : h.op # "callback"
  <2>1. CASE c.posted = timed
    <3>1. timed = timed \o <<>>
      BY <1>0, ConcatEmpty
    <3> QED BY <1>1, <2>1, <3>1, EmptyIsSeq, ToSetEmpty DEF OnlyFor
  <2>2. CASE c.posted = Append(timed, w)
    <3>1. Append(timed, w) = timed \o <<w>>
      BY <1>0, <1>5
    <3> QED BY <1>1, <1>5, <1>6, <2>2, <3>1 DEF OnlyFor
  <2> QED BY <1>4, <2>1, <2>2
<1>8. PICK x \in Seq(TimerCall) : /\ timed' = timed \o x /\ OnlyFor(x, t)
                                 /\ \A h \in ToSet(x) : h.op # "callback"
  BY <1>7
<1>9. timed' \in Seq(TimerCall)
  BY <1>0, <1>8, ConcatElements
<1>10. CallsOf(timed', t) = CallsOf(timed, t)
  <2>1. \A u : CallsOf(timed \o x, u) = CallsOf(timed, u)
    BY <1>0, <1>8, PostNoCalls
  <2> QED BY <1>8, <2>1
<1>11. Cardinality(Timer!CallsPosted(t)) = Len(CallsOf(timed, t)) /\ Len(CallsOf(timed, t)) \in Nat
  <2>1. Timer!CallsPosted(t) = {i \in 1..Len(timed) : timed[i] \in CallSet(t)}
    <3>1. DOMAIN timed = 1..Len(timed) /\ \A i \in 1..Len(timed) : timed[i] \in TimerCall
      BY <1>0
    <3> QED BY <3>1 DEF Timer!CallsPosted, CallSet
  <2>2. Cardinality({i \in 1..Len(timed) : timed[i] \in CallSet(t)}) = Len(Keep(timed, CallSet(t)))
    BY <1>0, KeepCount
  <2>3. Keep(timed, CallSet(t)) \in Seq(TimerCall)
    BY <1>0, KeepType
  <2> QED BY <2>1, <2>2, <2>3 DEF CallsOf
<1>12. TimerTypes'
  BY <1>0, <1>1, <1>2, <1>9, <1>11 DEF TimerTypes
<1>13. TimerRight(t)'
  <2>1. callback'[t] = 0 /\ history'[t].left = Len(CallsOf(timed', t)) /\ expires'[t] = expires[t]
    BY <1>0, <1>1, <1>10, <1>11 DEF TimerTypes
  <2>2. starts'[t] = 0 => expires[t] = -1
    BY <1>1 DEF TimerInv, TimerRight
  <2> QED BY <1>10, <1>11, <2>1, <2>2 DEF TimerRight
<1>14. ASSUME NEW t2 \in DOMAIN Period, t2 # t PROVE TimerRight(t2)'
  <2>1. /\ starts'[t2] = starts[t2] /\ callback'[t2] = callback[t2] /\ expires'[t2] = expires[t2]
        /\ history'[t2] = history[t2]
    BY <1>0, <1>1, <1>14 DEF TimerTypes
  <2>2. \A u : Len(CallsOf(timed, u)) <= Len(CallsOf(timed, u))
    BY <1>0, KeepType DEF CallsOf
  <2> QED BY <1>0, <1>1, <1>3, <1>8, <1>14, <2>1, <2>2, OthersRight
<1> QED BY <1>1, <1>2, <1>12, <1>13, <1>14 DEF TimerInv

\* A handler that has run leaves the calls of a timer, and its end if that
\* was not it.
LEMMA AfterRun ==
  ASSUME TimerInv, timed # <<>>
  PROVE  /\ Tail(timed) \in Seq(TimerCall) /\ Head(timed) \in TimerCall
         /\ \A h \in ToSet(timed) : h = Head(timed) \/ h \in ToSet(Tail(timed))
         /\ \A t : /\ Len(CallsOf(Tail(timed), t)) <= Len(CallsOf(timed, t))
                   /\ Len(CallsOf(Tail(timed), t)) \in Nat /\ Len(CallsOf(timed, t)) \in Nat
<1>1. timed \in Seq(TimerCall)
  BY DEF TimerInv, TimerTypes
<1> QED BY <1>1, RunOfTimer

\* HandleTimer() of a timer that was canceled, or one whose wait was: nothing
\* but a call is posted.
LEMMA HandleOtherKeeps ==
  ASSUME TimerInv, timed # <<>>, NEW t \in DOMAIN Period, Head(timed).timer = t,
         callback[t] = 0 \/ Head(timed) # Timer!Wait(t, "ok"),
         NEW x \in Seq(TimerCall), OnlyFor(x, t), callback[t] = 0 => x = <<>>,
         timed' = Tail(timed) \o x, UNCHANGED <<now, queue, expires, callback, starts, history>>
  PROVE  TimerInv'
<1> DEFINE b == Tail(timed)
<1>0. /\ TimerTypes /\ SortedByTime(queue) /\ timed \in Seq(TimerCall) /\ queue \in Seq(Entry)
  BY DEF TimerInv, TimerTypes
<1>1. /\ b \in Seq(TimerCall)
      /\ \A h \in ToSet(timed) : h = Head(timed) \/ h \in ToSet(b)
      /\ \A u : Len(CallsOf(b, u)) <= Len(CallsOf(timed, u))
      /\ \A u : Len(CallsOf(b, u)) \in Nat /\ Len(CallsOf(timed, u)) \in Nat
  BY AfterRun
<1> HIDE DEF b
<1>2. timed' = b \o x
  BY DEF b
<1>3. timed' \in Seq(TimerCall) /\ ToSet(b) \subseteq ToSet(timed')
  <2>1. b \o x \in Seq(TimerCall) /\ ToSet(b \o x) = ToSet(b) \cup ToSet(x)
    BY <1>1, ConcatElements, ToSetConcat
  <2> QED BY <1>2, <2>1
<1>4. TimerTypes'
  BY <1>0, <1>3 DEF TimerTypes
<1>5. TimerRight(t)'
  <2>1. TimerRight(t)
    BY DEF TimerInv
  <2>2. OnRate(t)' <=> OnRate(t)
    BY DEF OnRate
  <2>3. Timer!Wait(t, "ok")' = Timer!Wait(t, "ok")
    BY DEF Timer!Wait
  <2>4. CASE callback[t] = 0
    <3>1. timed' = b
      BY <1>1, <1>2, <2>4, ConcatEmpty
    <3>2. Len(CallsOf(b, t)) <= history[t].left
      <4>1. Len(CallsOf(b, t)) <= Len(CallsOf(timed, t))
        BY <1>1
      <4>2. Len(CallsOf(b, t)) \in Nat /\ Len(CallsOf(timed, t)) \in Nat /\ history[t].left \in Nat
        BY <1>0, <1>1 DEF TimerTypes
      <4>3. Len(CallsOf(timed, t)) <= history[t].left
        BY <2>1, <2>4 DEF TimerRight
      <4> QED BY <4>1, <4>2, <4>3
    <3> QED BY <2>1, <2>4, <3>1, <3>2 DEF TimerRight
  <2>5. CASE callback[t] # 0
    <3>1. Timer!Wait(t, "ok") \in ToSet(timed) => Timer!Wait(t, "ok") \in ToSet(timed')
      BY <1>1, <1>3, <2>5
    <3> QED BY <2>1, <2>2, <2>3, <2>5, <3>1 DEF TimerRight
  <2> QED BY <2>4, <2>5
<1>6. ASSUME NEW t2 \in DOMAIN Period, t2 # t PROVE TimerRight(t2)'
  <2>1. \A h \in ToSet(timed) : h.timer # t => h \in ToSet(b) \/ h.op # "HandleTimer"
    BY <1>1
  <2>2. \A u : u # t /\ HasWait(queue, u) => HasWait(queue', u)
    OBVIOUS
  <2> QED BY <1>1, <1>2, <1>6, <2>1, <2>2, OthersRight
<1> QED BY <1>0, <1>4, <1>5, <1>6 DEF TimerInv

\* HandleTimer() at the end of a wait: the next wait is one period on, and the
\* call is posted.
LEMMA HandleOkKeeps ==
  ASSUME TimerInv, timed # <<>>, NEW t \in DOMAIN Period, Head(timed).timer = t,
         callback[t] # 0,
         Timer!StartInternal(t, callback[t], Tail(timed), <<Timer!Call(t, callback[t], "ok")>>),
         history' = [history EXCEPT ![t].ticks = @ + 1,
                       ![t].skips = IF Timer!Skipped(t) THEN @ + 1 ELSE @],
         UNCHANGED <<now, callback, starts>>
  PROVE  TimerInv'
<1> DEFINE b == Tail(timed)
           tick == <<Timer!Call(t, callback[t], "ok")>>
<1>0. /\ TimerTypes /\ SortedByTime(queue) /\ timed \in Seq(TimerCall) /\ queue \in Seq(Entry)
      /\ Period[t] \in Nat /\ callback[t] \in Nat
  BY HostIoAssumption DEF TimerInv, TimerTypes
<1>1. /\ b \in Seq(TimerCall)
      /\ \A h \in ToSet(timed) : h = Head(timed) \/ h \in ToSet(b)
      /\ \A u : Len(CallsOf(b, u)) <= Len(CallsOf(timed, u))
  BY AfterRun
<1>2. tick \in Seq(TimerCall) /\ OnlyFor(tick, t)
  <2>1. Timer!Call(t, callback[t], "ok") \in TimerCall /\ Timer!Call(t, callback[t], "ok").timer = t
    BY <1>0 DEF Timer!Call, TimerCall
  <2> QED BY <2>1, SingletonSeq DEF OnlyFor
<1>3. Timer!StartInternal(t, callback[t], b, tick)
  OBVIOUS
<1> HIDE DEF b, tick
<1>4. /\ expires' = [expires EXCEPT ![t] = Timer!NextExpiry(t)]
      /\ Timer!NextExpiry(t) \in Nat
      /\ queue' \in Seq(Entry) /\ SortedByTime(queue') /\ HasWait(queue', t)
      /\ \A t2 : t2 # t /\ HasWait(queue, t2) => HasWait(queue', t2)
      /\ \E x \in Seq(TimerCall) : timed' = b \o x /\ OnlyFor(x, t)
  BY <1>0, <1>1, <1>2, <1>3, StartInternalDoes
<1>5. PICK x \in Seq(TimerCall) : timed' = b \o x /\ OnlyFor(x, t)
  BY <1>4
<1>6. timed' \in Seq(TimerCall)
  BY <1>1, <1>5, ConcatElements
<1>7. /\ history'[t] = [history[t] EXCEPT !.ticks = @ + 1,
                          !.skips = IF Timer!Skipped(t) THEN @ + 1 ELSE @]
      /\ \A u \in DOMAIN Period : u # t => history'[u] = history[u]
      /\ history[t] \in [at : Nat, ticks : Nat, skips : Nat, left : Nat]
  BY <1>0 DEF TimerTypes
<1>8. /\ history'[t].at = history[t].at /\ history'[t].ticks = history[t].ticks + 1
      /\ Timer!Skipped(t) => history'[t].skips = history[t].skips + 1
      /\ ~Timer!Skipped(t) => history'[t].skips = history[t].skips
      /\ history'[t] \in [at : Nat, ticks : Nat, skips : Nat, left : Nat]
  <2> DEFINE n == IF Timer!Skipped(t) THEN history[t].skips + 1 ELSE history[t].skips
  <2>1. history'[t] = [history[t] EXCEPT !.ticks = @ + 1, !.skips = n]
    BY <1>7
  <2>2. /\ Timer!Skipped(t) => n = history[t].skips + 1
        /\ ~Timer!Skipped(t) => n = history[t].skips
    OBVIOUS
  <2>3. n \in Nat
    BY <1>7, <2>2
  <2> DEFINE o == history[t]
             r == history'[t]
  <2>4. o \in [at : Nat, ticks : Nat, skips : Nat, left : Nat]
    BY <1>7
  <2>5. r = [o EXCEPT !.ticks = @ + 1, !.skips = n]
    BY <2>1
  <2> HIDE DEF n, o, r
  <2>6. r.at = o.at /\ r.ticks = o.ticks + 1 /\ r.skips = n /\ r.left = o.left
    BY <2>4, <2>5
  <2>7. r \in [at : Nat, ticks : Nat, skips : Nat, left : Nat]
    <3>1. o.at \in Nat /\ o.ticks + 1 \in Nat /\ o.left \in Nat
      BY <2>4
    <3>2. r = [at |-> o.at, ticks |-> o.ticks + 1, skips |-> n, left |-> o.left]
      BY <2>4, <2>5
    <3> QED BY <2>3, <3>1, <3>2
  <2> QED BY <2>2, <2>6, <2>7 DEF o, r
<1>9. history' \in [DOMAIN Period -> [at : Nat, ticks : Nat, skips : Nat, left : Nat]]
  <2>1. DOMAIN history' = DOMAIN Period
    BY <1>0 DEF TimerTypes
  <2> QED BY <1>0, <1>7, <1>8, <2>1 DEF TimerTypes
<1>10. TimerTypes'
  BY <1>0, <1>4, <1>6, <1>9 DEF TimerTypes
<1>11. TimerRight(t)'
  <2>1. TimerRight(t)
    BY DEF TimerInv
  <2>2. OnRate(t)'
    <3> SUFFICES ASSUME starts'[t] = 1, history'[t].skips = 0
                 PROVE  expires'[t] = history'[t].at + (history'[t].ticks + 1) * Period[t]
      BY DEF OnRate
    <3>1. history[t].skips = 0 /\ ~Timer!Skipped(t)
      BY <1>7, <1>8
    <3>2. expires[t] = history[t].at + (history[t].ticks + 1) * Period[t]
      BY <2>1, <3>1 DEF TimerRight, OnRate
    <3> DEFINE k == history[t].ticks
               m == (k + 1) * Period[t]
    <3>3. k \in Nat /\ history[t].at \in Nat
      BY <1>7
    <3>4. m \in Nat /\ (k + 2) * Period[t] = m + Period[t]
      <4> HIDE DEF k
      <4> QED BY <1>0, <3>3, SMTT(30)
    <3>5. history'[t].ticks + 1 = k + 2
      BY <1>8, <3>3
    <3> HIDE DEF m
    <3>6. expires[t] # -1 /\ expires[t] = history[t].at + m
      BY <3>2, <3>3, <3>4 DEF m
    <3>7. Timer!NextExpiry(t) = expires[t] + Period[t]
      BY <3>1, <3>6 DEF Timer!NextExpiry, Timer!Special
    <3>8. expires'[t] = expires[t] + Period[t]
      BY <1>0, <1>4, <3>7 DEF TimerTypes
    <3> DEFINE next == (history'[t].ticks + 1) * Period[t]
    <3>9. next = m + Period[t]
      <4> HIDE DEF k
      <4> QED BY <3>4, <3>5
    <3> HIDE DEF k, next
    <3>10. expires'[t] = history'[t].at + next
      <4> DEFINE a == history[t].at
                 p == Period[t]
      <4>1. history'[t].at = a
        BY <1>8
      <4>2. a \in Nat /\ p \in Nat /\ m \in Nat /\ next = m + p
        BY <1>0, <3>3, <3>4, <3>9
      <4>3. expires'[t] = (a + m) + p
        BY <3>6, <3>8
      <4> HIDE DEF a, p
      <4>4. (a + m) + p = a + (m + p)
        BY <4>2
      <4> QED BY <4>1, <4>2, <4>3, <4>4
    <3> QED BY <3>10 DEF next
  <2>3. starts[t] # 0
    BY <2>1 DEF TimerRight
  <2> QED BY <1>4, <2>2, <2>3 DEF TimerRight
<1>12. ASSUME NEW t2 \in DOMAIN Period, t2 # t PROVE TimerRight(t2)'
  <2>1. \A h \in ToSet(timed) : h.timer # t => h \in ToSet(b) \/ h.op # "HandleTimer"
    BY <1>1
  <2>2. expires'[t2] = expires[t2] /\ history'[t2] = history[t2]
    BY <1>0, <1>4, <1>7, <1>12 DEF TimerTypes
  <2> QED BY <1>1, <1>4, <1>5, <1>12, <2>1, <2>2, OthersRight
<1> QED BY <1>4, <1>10, <1>11, <1>12 DEF TimerInv

\* HandleTimer().
LEMMA HandleTimerKeeps ==
  ASSUME TimerInv, Timer!HandleTimer
  PROVE  TimerInv'
<1> DEFINE t == Head(timed).timer
           tick == <<Timer!Call(t, callback[t], Head(timed).ec)>>
<1>1. timed # <<>> /\ Head(timed).op = "HandleTimer" /\ UNCHANGED <<now, callback, starts>>
  BY DEF Timer!HandleTimer
<1>2. Head(timed) \in TimerCall /\ Tail(timed) \in Seq(TimerCall)
  BY <1>1, AfterRun
<1>3. t \in DOMAIN Period /\ Head(timed).ec \in {"ok", "aborted"}
  BY <1>2 DEF TimerCall
<1>4. callback[t] \in Nat
  BY <1>3 DEF TimerInv, TimerTypes
<1>5. CASE callback[t] = 0
  <2>1. timed' = Tail(timed) /\ UNCHANGED <<queue, expires, history>>
    BY <1>5 DEF Timer!HandleTimer
  <2>2. /\ timed' = Tail(timed) \o <<>> /\ <<>> \in Seq(TimerCall) /\ OnlyFor(<<>>, t)
    BY <1>2, <2>1, ConcatEmpty, EmptyIsSeq, ToSetEmpty DEF OnlyFor
  <2> HIDE DEF tick
  <2> QED BY <1>1, <1>3, <1>5, <2>1, <2>2, HandleOtherKeeps
<1>6. CASE callback[t] # 0 /\ Head(timed).ec = "ok"
  <2>1. /\ Timer!StartInternal(t, callback[t], Tail(timed), <<Timer!Call(t, callback[t], "ok")>>)
        /\ history' = [history EXCEPT ![t].ticks = @ + 1,
                         ![t].skips = IF Timer!Skipped(t) THEN @ + 1 ELSE @]
    BY <1>6 DEF Timer!HandleTimer
  <2> QED BY <1>1, <1>3, <1>6, <2>1, HandleOkKeeps
<1>7. CASE callback[t] # 0 /\ Head(timed).ec # "ok"
  <2>1. timed' = Tail(timed) \o tick /\ UNCHANGED <<queue, expires, history>>
    BY <1>7 DEF Timer!HandleTimer
  <2>2. Timer!Call(t, callback[t], Head(timed).ec) \in TimerCall
        /\ Timer!Call(t, callback[t], Head(timed).ec).timer = t
    BY <1>3, <1>4 DEF Timer!Call, TimerCall
  <2>3. tick \in Seq(TimerCall) /\ OnlyFor(tick, t)
    BY <2>2, SingletonSeq DEF OnlyFor
  <2>4. Head(timed) # Timer!Wait(t, "ok")
    BY <1>7 DEF Timer!Wait
  <2> HIDE DEF tick
  <2> QED BY <1>1, <1>3, <1>7, <2>1, <2>3, <2>4, HandleOtherKeeps
<1> QED BY <1>5, <1>6, <1>7

\* A call of the user's callback.
LEMMA RunCallbackKeeps ==
  ASSUME TimerInv, Timer!RunCallback
  PROVE  TimerInv'
<1> DEFINE t == Head(timed).timer
<1>1. /\ timed # <<>> /\ Head(timed).op = "callback" /\ timed' = Tail(timed)
      /\ UNCHANGED <<now, queue, expires, callback, starts, history>>
  BY DEF Timer!RunCallback
<1>2. Head(timed) \in TimerCall /\ Tail(timed) \in Seq(TimerCall)
  BY <1>1, AfterRun
<1>3. t \in DOMAIN Period
  BY <1>2 DEF TimerCall
<1>4. Head(timed) # Timer!Wait(t, "ok")
  BY <1>1 DEF Timer!Wait
<1>5. /\ \A h \in ToSet(timed) : h = Head(timed) \/ h \in ToSet(timed')
      /\ \A u : Len(CallsOf(timed', u)) <= Len(CallsOf(timed, u))
      /\ \A u : Len(CallsOf(timed', u)) \in Nat /\ Len(CallsOf(timed, u)) \in Nat
  BY <1>1, AfterRun
<1>6. TimerTypes'
  BY <1>1, <1>2 DEF TimerInv, TimerTypes
<1>7. ASSUME NEW u \in DOMAIN Period PROVE TimerRight(u)'
  <2>1. TimerRight(u) /\ history[u].left \in Nat
    BY DEF TimerInv, TimerTypes
  <2>2. OnRate(u)' <=> OnRate(u)
    BY <1>1 DEF OnRate
  <2>3. Timer!Wait(u, "ok")' = Timer!Wait(u, "ok") /\ Timer!Wait(u, "ok").op = "HandleTimer"
    BY DEF Timer!Wait
  <2>4. Timer!Wait(u, "ok") \in ToSet(timed) => Timer!Wait(u, "ok") \in ToSet(timed')
    BY <1>1, <1>5, <2>3
  <2>5. callback[u] = 0 => Len(CallsOf(timed', u)) <= history[u].left
    <3>1. Len(CallsOf(timed', u)) <= Len(CallsOf(timed, u))
      BY <1>5
    <3>2. Len(CallsOf(timed', u)) \in Nat /\ Len(CallsOf(timed, u)) \in Nat
      BY <1>5
    <3> QED BY <2>1, <3>1, <3>2 DEF TimerRight
  <2> QED BY <1>1, <2>1, <2>2, <2>3, <2>4, <2>5 DEF TimerRight
<1>8. SortedByTime(queue')
  BY <1>1 DEF TimerInv
<1> QED BY <1>1, <1>6, <1>7, <1>8 DEF TimerInv

\* Every step keeps the timers right.
LEMMA TimerKeeps ==
  ASSUME TimerInv, Timer!Next
  PROVE  TimerInv'
<1>1. ASSUME NEW time \in (now + 1)..MaxTime, Timer!SetTime(time) PROVE TimerInv'
  <2>1. now \in Nat /\ MaxTime \in Nat
    BY HostIoAssumption DEF TimerInv, TimerTypes
  <2>2. time \in Nat
    BY <2>1
  <2> QED BY <1>1, <2>2, SetTimeKeeps
<1>2. ASSUME NEW t \in DOMAIN Period, Timer!Start(t) \/ Timer!Cancel(t) PROVE TimerInv'
  BY <1>2, TimerStartKeeps, TimerCancelKeeps
<1> QED BY <1>1, <1>2, HandleTimerKeeps, RunCallbackKeeps DEF Timer!Next, Timer!Timers

\* What the timers promise follows.
LEMMA TimerPromises == TimerInv => Timer!KeepsRate /\ Timer!QuietAfterCancel
<1> SUFFICES ASSUME TimerInv PROVE Timer!KeepsRate /\ Timer!QuietAfterCancel
  OBVIOUS
<1>0. timed \in Seq(TimerCall) /\ queue \in Seq(Entry)
  BY DEF TimerInv, TimerTypes
<1>1. ASSUME NEW t \in DOMAIN Period PROVE TimerRight(t)
  BY DEF TimerInv
<1>2. Timer!KeepsRate
  <2> SUFFICES ASSUME NEW t \in DOMAIN Period, callback[t] # 0
               PROVE  /\ Timer!Waits([queue |-> queue], t)
                           \/ Timer!Wait(t, "ok") \in Timer!ToSet(timed)
                      /\ starts[t] = 1 /\ history[t].skips = 0 =>
                           expires[t] = history[t].at + (history[t].ticks + 1) * Period[t]
                      /\ \A i, j \in DOMAIN queue : i < j => queue[i].time <= queue[j].time
    BY DEF Timer!KeepsRate, Timer!Timers
  <2>1. Timer!Waits([queue |-> queue], t) <=> HasWait(queue, t)
    BY TimerOperators DEF Timer!Waits, HasWait
  <2>2. DOMAIN queue = 1..Len(queue)
    BY <1>0
  <2>3. \A i, j \in DOMAIN queue : i < j => queue[i].time <= queue[j].time
    BY <2>2 DEF TimerInv, SortedByTime
  <2>4. OnRate(t) /\ (HasWait(queue, t) \/ Timer!Wait(t, "ok") \in ToSet(timed))
    BY <1>1 DEF TimerRight
  <2> QED BY <2>1, <2>3, <2>4, TimerOperators DEF OnRate
<1>3. Timer!QuietAfterCancel
  <2> SUFFICES ASSUME NEW t \in DOMAIN Period, callback[t] = 0
               PROVE  Timer!Cardinality(Timer!CallsPosted(t)) <= history[t].left
    BY DEF Timer!QuietAfterCancel, Timer!Timers
  <2>1. Timer!CallsPosted(t) = {i \in 1..Len(timed) : timed[i] \in CallSet(t)}
    <3>1. DOMAIN timed = 1..Len(timed) /\ \A i \in 1..Len(timed) : timed[i] \in TimerCall
      BY <1>0
    <3> QED BY <3>1 DEF Timer!CallsPosted, CallSet
  <2>2. Cardinality({i \in 1..Len(timed) : timed[i] \in CallSet(t)}) = Len(Keep(timed, CallSet(t)))
    BY <1>0, KeepCount
  <2>3. Len(CallsOf(timed, t)) <= history[t].left
    BY <1>1 DEF TimerRight
  <2> QED BY <2>1, <2>2, <2>3, TimerOperators DEF CallsOf
<1> QED BY <1>2, <1>3

-----------------------------------------------------------------------------
(* StreamCopy: the bytes *)

\* n bytes that follow byte k.
Run(k, n) == [i \in 1..n |-> k + i]

\* A run is a sequence with those values.
LEMMA RunFacts ==
  ASSUME NEW k \in Int, NEW n \in Nat
  PROVE  /\ Run(k, n) \in Seq(Int) /\ Len(Run(k, n)) = n /\ (Run(k, n) = <<>> <=> n = 0)
         /\ \A i \in 1..n : Run(k, n)[i] = k + i
<1>1. Run(k, n) \in Seq(Int) /\ Len(Run(k, n)) = n
  BY DEF Run
<1>2. \A i \in 1..n : Run(k, n)[i] = k + i
  BY DEF Run
<1>3. Run(k, n) = <<>> <=> n = 0
  BY <1>1
<1> QED BY <1>1, <1>2, <1>3

\* A run of no bytes.
LEMMA RunEmpty == ASSUME NEW k \in Int PROVE Run(k, 0) = <<>>
BY RunFacts

\* A sequence with the values of a run is one.
LEMMA IsRun ==
  ASSUME NEW k \in Int, NEW n \in Nat, NEW s \in Seq(Int), Len(s) = n,
         \A i \in 1..n : s[i] = k + i
  PROVE  s = Run(k, n)
<1>1. Run(k, n) \in Seq(Int) /\ Len(Run(k, n)) = n /\ \A i \in 1..n : Run(k, n)[i] = k + i
  BY RunFacts
<1> QED BY <1>1

\* The first m bytes, the bytes behind them, and both in a row.
LEMMA RunSplit ==
  ASSUME NEW k \in Int, NEW n \in Nat, NEW m \in 0..n
  PROVE  /\ SubSeq(Run(k, n), 1, m) = Run(k, m)
         /\ SubSeq(Run(k, n), m + 1, n) = Run(k + m, n - m)
<1> DEFINE s == Run(k, n)
           a == SubSeq(s, 1, m)
           b == SubSeq(s, m + 1, n)
<1>1. s \in Seq(Int) /\ Len(s) = n /\ \A i \in 1..n : s[i] = k + i
  BY RunFacts
<1> HIDE DEF s
<1>2. a \in Seq(Int) /\ Len(a) = m /\ \A i \in 1..m : a[i] = s[i]
  BY <1>1
<1>3. b \in Seq(Int) /\ Len(b) = n - m /\ \A i \in 1..(n - m) : b[i] = s[m + i]
  BY <1>1
<1> HIDE DEF a, b
<1>4. a = Run(k, m)
  <2>1. \A i \in 1..m : a[i] = k + i
    BY <1>1, <1>2
  <2> QED BY <1>2, <2>1, IsRun
<1>5. b = Run(k + m, n - m)
  <2>1. \A i \in 1..(n - m) : b[i] = (k + m) + i
    BY <1>1, <1>3
  <2>2. k + m \in Int /\ n - m \in Nat
    OBVIOUS
  <2> HIDE DEF b
  <2> QED BY <1>3, <2>1, <2>2, IsRun
<1> QED BY <1>4, <1>5 DEF a, b, s

\* A run and the one behind it.
LEMMA RunJoin ==
  ASSUME NEW k \in Int, NEW n \in Nat, NEW m \in Nat
  PROVE  Run(k, n) \o Run(k + n, m) = Run(k, n + m)
<1> DEFINE s == Run(k, n)
           t == Run(k + n, m)
           u == s \o t
<1>1. s \in Seq(Int) /\ Len(s) = n /\ \A i \in 1..n : s[i] = k + i
  BY RunFacts
<1>2. t \in Seq(Int) /\ Len(t) = m /\ \A i \in 1..m : t[i] = (k + n) + i
  BY RunFacts
<1> HIDE DEF s, t
<1>3. /\ u \in Seq(Int) /\ Len(u) = n + m
      /\ \A i \in 1..n : u[i] = s[i]
      /\ \A i \in 1..m : u[n + i] = t[i]
  <2>1. s \in Seq(Int) /\ t \in Seq(Int)
    BY <1>1, <1>2
  <2>2. u \in Seq(Int) /\ Len(u) = Len(s) + Len(t)
    BY <2>1, ConcatElements
  <2>3. \A i \in 1..Len(s) : u[i] = s[i]
    BY <2>1, ConcatElements
  <2>4. \A i \in 1..Len(t) : u[Len(s) + i] = t[i]
    BY <2>1, ConcatElements
  <2> QED BY <1>1, <1>2, <2>2, <2>3, <2>4
<1> HIDE DEF u
<1>4. ASSUME NEW i \in 1..(n + m) PROVE u[i] = k + i
  <2>1. CASE i <= n
    BY <1>1, <1>3, <2>1
  <2>2. CASE i > n
    <3>1. i - n \in 1..m /\ i = n + (i - n)
      BY <2>2
    <3>2. u[i] = t[i - n] /\ t[i - n] = (k + n) + (i - n)
      BY <1>2, <1>3, <3>1
    <3> QED BY <3>2
  <2> QED BY <2>1, <2>2
<1>5. u = Run(k, n + m)
  BY <1>3, <1>4, IsRun
<1> QED BY <1>5 DEF u, s, t

-----------------------------------------------------------------------------
(* StreamCopy: one direction.  g and w are what its users read and wrote,  *)
(* c what the copy has to write, bIn and bTo the bytes of reads that were  *)
(* answered and not yet told, nOut and nFr the numbers of writes that      *)
(* were, wFr and wOut the writes that wait.                                *)

FlowTypes(g, w, c, bIn, bTo, nOut, nFr, wFr, wOut) ==
  /\ g \in Seq(Int) /\ w \in Seq(Int) /\ c \in Seq(Int) /\ bIn \in Seq(Int) /\ bTo \in Seq(Int)
  /\ nOut \in Nat /\ nFr \in Nat /\ wFr \in Seq(Int) /\ wOut \in Seq(Int)

\* The bytes of s follow byte k.
Follows(s, k) == s = Run(k, Len(s))

\* Each place holds the bytes that follow those of the place before it, and
\* none is missing on the way.
Flow(g, w, c, bIn, bTo, nOut, nFr, wFr, wOut) ==
  /\ FlowTypes(g, w, c, bIn, bTo, nOut, nFr, wFr, wOut)
  /\ Follows(g, 0) /\ Follows(w, 0) /\ Follows(bTo, Len(g))
  /\ nOut <= Len(c) /\ Follows(c, Len(g) + Len(bTo) - nOut)
  /\ Follows(bIn, Len(g) + Len(bTo) + Len(c) - nOut)
  /\ Len(g) + Len(bTo) + Len(c) - nOut + Len(bIn) = Len(w) + nFr
  /\ Follows(wFr, Len(w))
  /\ wOut = <<>> \/ wOut = c

\* No byte is on its way at first.
LEMMA FlowStart == Flow(<<>>, <<>>, <<>>, <<>>, <<>>, 0, 0, <<>>, <<>>)
<1>1. <<>> \in Seq(Int) /\ Len(<<>>) = 0 /\ Run(0, 0) = <<>>
  BY RunEmpty
<1> QED BY <1>1 DEF Flow, Follows, FlowTypes

\* The bytes of the reader may be told or not.
LEMMA FlowReader ==
  ASSUME NEW g, NEW w, NEW c, NEW bIn, NEW bTo, NEW nOut, NEW nFr, NEW wFr, NEW wOut,
         Flow(g, w, c, bIn, bTo, nOut, nFr, wFr, wOut),
         NEW u \in Seq(Int), NEW e \in Seq(Int), Follows(u, 0), Follows(e, Len(u)),
         Len(u) + Len(e) = Len(g) + Len(bTo)
  PROVE  Flow(u, w, c, bIn, e, nOut, nFr, wFr, wOut)
<1>1. /\ FlowTypes(g, w, c, bIn, bTo, nOut, nFr, wFr, wOut)
      /\ Follows(c, Len(g) + Len(bTo) - nOut)
      /\ Follows(bIn, Len(g) + Len(bTo) + Len(c) - nOut)
      /\ Len(g) + Len(bTo) + Len(c) - nOut + Len(bIn) = Len(w) + nFr
  BY DEF Flow
<1>2. /\ Follows(c, Len(u) + Len(e) - nOut)
      /\ Follows(bIn, Len(u) + Len(e) + Len(c) - nOut)
      /\ Len(u) + Len(e) + Len(c) - nOut + Len(bIn) = Len(w) + nFr
  <2>1. /\ Len(g) \in Nat /\ Len(bTo) \in Nat /\ Len(c) \in Nat /\ Len(u) \in Nat
        /\ Len(e) \in Nat /\ nOut \in Nat /\ Len(bIn) \in Nat /\ Len(w) \in Nat /\ nFr \in Nat
    BY <1>1, SMTT(30) DEF FlowTypes
  <2>2. Len(u) + Len(e) - nOut = Len(g) + Len(bTo) - nOut
    BY <2>1
  <2>3. Len(u) + Len(e) + Len(c) - nOut = Len(g) + Len(bTo) + Len(c) - nOut
    BY <2>1
  <2>4. Follows(c, Len(u) + Len(e) - nOut)
    BY <1>1, <2>2, Zenon
  <2>5. Follows(bIn, Len(u) + Len(e) + Len(c) - nOut)
    BY <1>1, <2>3, Zenon
  <2> QED BY <1>1, <2>1, <2>3, <2>4, <2>5
<1>3. FlowTypes(u, w, c, bIn, e, nOut, nFr, wFr, wOut)
  BY <1>1 DEF FlowTypes
<1> QED BY <1>2, <1>3 DEF Flow

\* The reader is told of what it read.
LEMMA FlowReadTold ==
  ASSUME NEW g, NEW w, NEW c, NEW bIn, NEW bTo, NEW nOut, NEW nFr, NEW wFr, NEW wOut,
         Flow(g, w, c, bIn, bTo, nOut, nFr, wFr, wOut)
  PROVE  Flow(g \o bTo, w, c, bIn, <<>>, nOut, nFr, wFr, wOut)
<1> DEFINE n == Len(g)
           m == Len(bTo)
           u == g \o bTo
<1>1. g \in Seq(Int) /\ bTo \in Seq(Int) /\ n \in Nat /\ m \in Nat
  BY SMTT(30) DEF Flow, Follows, FlowTypes
<1>2. u = Run(0, n + m)
  <2>1. g = Run(0, n) /\ bTo = Run(0 + n, m)
    BY <1>1 DEF Flow, Follows
  <2> HIDE DEF n, m
  <2>2. Run(0, n) \o Run(0 + n, m) = Run(0, n + m)
    <3>1. 0 \in Int /\ n \in Nat /\ m \in Nat
      BY <1>1
    <3> QED BY <3>1, RunJoin
  <2> QED BY <2>1, <2>2
<1>3. Len(u) = n + m /\ u \in Seq(Int)
  BY <1>1
<1>4. <<>> \in Seq(Int) /\ Len(<<>>) = 0 /\ Run(n + m, 0) = <<>>
  BY <1>1, RunEmpty
<1> HIDE DEF u
<1>5. FlowTypes(u, w, c, bIn, <<>>, nOut, nFr, wFr, wOut)
  BY <1>3, <1>4 DEF Flow, Follows, FlowTypes
<1>6. n + m + 0 = n + m
  BY <1>1
<1> DEFINE e == <<>>
<1>7. /\ Follows(u, 0) /\ Follows(e, Len(u)) /\ Len(u) + Len(e) = Len(g) + Len(bTo)
  BY <1>2, <1>3, <1>4, <1>6 DEF Follows
<1> HIDE DEF n, m, e
<1>8. Flow(u, w, c, bIn, e, nOut, nFr, wFr, wOut)
  <2>1. u \in Seq(Int) /\ e \in Seq(Int)
    BY <1>3, <1>4 DEF e
  <2> QED BY <1>7, <2>1, FlowReader
<1> QED BY <1>8 DEF u, e

\* The writer is told of what was taken of its write.
LEMMA FlowWriteTold ==
  ASSUME NEW g, NEW w, NEW c, NEW bIn, NEW bTo, NEW nOut, NEW nFr, NEW wOut,
         Flow(g, w, c, bIn, bTo, nOut, nFr, <<>>, wOut)
  PROVE  Flow(g, w \o Run(Len(w), nFr), c, bIn, bTo, nOut, 0, <<>>, wOut)
<1> DEFINE n == Len(w)
           t == Run(n, nFr)
           u == w \o t
<1>1. w \in Seq(Int) /\ n \in Nat /\ nFr \in Nat /\ t \in Seq(Int) /\ Len(t) = nFr
  <2>1. w \in Seq(Int) /\ n \in Nat /\ n \in Int /\ nFr \in Nat
    BY DEF Flow, Follows, FlowTypes
  <2> HIDE DEF n
  <2> QED BY <2>1, RunFacts
<1>2. u = Run(0, n + nFr)
  <2>1. w = Run(0, n) /\ t = Run(0 + n, nFr)
    BY <1>1 DEF Flow, Follows
  <2> HIDE DEF n, t
  <2>2. Run(0, n) \o Run(0 + n, nFr) = Run(0, n + nFr)
    <3>1. 0 \in Int /\ n \in Nat /\ nFr \in Nat
      BY <1>1
    <3> QED BY <3>1, RunJoin
  <2> QED BY <2>1, <2>2
<1>3. Len(u) = n + nFr /\ u \in Seq(Int)
  <2> HIDE DEF n, t
  <2> QED BY <1>1, ConcatElements DEF n
<1>4. <<>> \in Seq(Int) /\ Len(<<>>) = 0 /\ Run(n + nFr, 0) = <<>>
  BY <1>1, RunEmpty
<1> HIDE DEF u, t
<1>5. FlowTypes(g, u, c, bIn, bTo, nOut, 0, <<>>, wOut)
  BY <1>3, <1>4 DEF Flow, Follows, FlowTypes
<1>6. n + nFr + 0 = n + nFr
  BY <1>1
<1> QED BY <1>2, <1>3, <1>4, <1>5, <1>6 DEF Flow, Follows, u, t

\* A write of the user that waits.
LEMMA FlowWriteWaits ==
  ASSUME NEW g, NEW w, NEW c, NEW bIn, NEW bTo, NEW nOut, NEW nFr, NEW wOut, NEW wFr, NEW n \in Nat,
         Flow(g, w, c, bIn, bTo, nOut, nFr, wFr, wOut)
  PROVE  Flow(g, w, c, bIn, bTo, nOut, nFr, Run(Len(w), n), wOut)
<1>1. Run(Len(w), n) \in Seq(Int) /\ Len(Run(Len(w), n)) = n
  <2>1. Len(w) \in Int
    BY DEF Flow, Follows, FlowTypes
  <2> QED BY <2>1, RunFacts
<1> QED BY <1>1 DEF Flow, Follows, FlowTypes

\* Bytes of a write of the user's that the copy reads.
LEMMA FlowTaken ==
  ASSUME NEW g, NEW w, NEW c, NEW bTo, NEW wOut, NEW wFr, NEW wFr2, NEW n \in Nat, NEW nOut,
         Flow(g, w, c, <<>>, bTo, nOut, 0, wFr, wOut), wFr2 = wFr \/ wFr2 = <<>>
  PROVE  Flow(g, w, c, Run(Len(w), n), bTo, nOut, n, wFr2, wOut)
<1> DEFINE b == Run(Len(w), n)
<1>1. /\ w \in Seq(Int) /\ Len(w) \in Nat /\ Len(g) \in Nat /\ Len(bTo) \in Nat /\ Len(c) \in Nat
      /\ nOut \in Nat
  <2>1. FlowTypes(g, w, c, <<>>, bTo, nOut, 0, wFr, wOut)
    BY DEF Flow
  <2> QED BY <2>1 DEF FlowTypes
<1>2. b \in Seq(Int) /\ Len(b) = n
  <2>1. Len(w) \in Int
    BY <1>1
  <2> QED BY <2>1, RunFacts
<1>3. Len(<<>>) = 0 /\ <<>> \in Seq(Int) /\ Run(Len(w), 0) = <<>>
  BY <1>1, RunEmpty
<1>4. Len(g) + Len(bTo) + Len(c) - nOut = Len(w)
  BY <1>1, <1>3 DEF Flow, Follows
<1>5. b = Run(Len(g) + Len(bTo) + Len(c) - nOut, Len(b))
  BY <1>2, <1>4
<1> HIDE DEF b
<1>6. FlowTypes(g, w, c, b, bTo, nOut, n, wFr2, wOut)
  BY <1>2, <1>3 DEF Flow, Follows, FlowTypes
<1>7. wFr2 = Run(Len(w), Len(wFr2))
  BY <1>3 DEF Flow, Follows
<1>8. Len(g) + Len(bTo) + Len(c) - nOut + Len(b) = Len(w) + n
  BY <1>1, <1>2, <1>4
<1> QED BY <1>5, <1>6, <1>7, <1>8 DEF Flow, Follows, b

\* The copy has read.
LEMMA FlowRead ==
  ASSUME NEW g, NEW w, NEW bIn, NEW bTo, NEW nFr, NEW wFr, NEW x,
         Flow(g, w, <<>>, bIn, bTo, 0, nFr, wFr, <<>>), x = <<>> \/ x = bIn
  PROVE  Flow(g, w, bIn, <<>>, bTo, 0, nFr, wFr, x)
<1>1. /\ Len(g) \in Nat /\ Len(bTo) \in Nat /\ Len(bIn) \in Nat
      /\ bIn \in Seq(Int)
  BY DEF Flow, Follows, FlowTypes
<1> DEFINE k == Len(g) + Len(bTo) + Len(bIn) - 0
<1>2. Len(<<>>) = 0 /\ <<>> \in Seq(Int) /\ k \in Int /\ Run(k, 0) = <<>>
  <2>1. k \in Int
    BY <1>1
  <2> HIDE DEF k
  <2> QED BY <2>1, RunEmpty
<1>3. /\ Len(g) + Len(bTo) + 0 - 0 = Len(g) + Len(bTo) /\ Len(g) + Len(bTo) - 0 = Len(g) + Len(bTo)
      /\ Len(g) + Len(bTo) + Len(bIn) - 0 + 0 = Len(g) + Len(bTo) + 0 - 0 + Len(bIn)
      /\ 0 <= Len(bIn)
  BY <1>1
<1>4. FlowTypes(g, w, bIn, <<>>, bTo, 0, nFr, wFr, x)
  BY <1>1, <1>2 DEF Flow, Follows, FlowTypes
<1>5. bIn = Run(Len(g) + Len(bTo) - 0, Len(bIn))
  BY <1>2, <1>3 DEF Flow, Follows
<1>6. Len(g) + Len(bTo) + Len(bIn) - 0 + Len(<<>>) = Len(w) + nFr
  BY <1>2, <1>3 DEF Flow, Follows
<1>7. <<>> = Run(Len(g) + Len(bTo) + Len(bIn) - 0, Len(<<>>))
  BY <1>2
<1> QED BY <1>3, <1>4, <1>5, <1>6, <1>7 DEF Flow, Follows

\* What the copy has left after a write.
LEMMA FlowLeft ==
  ASSUME NEW g, NEW w, NEW c, NEW bIn, NEW bTo, NEW nOut, NEW nFr, NEW wFr, NEW wOut, NEW x,
         Flow(g, w, c, bIn, bTo, nOut, nFr, wFr, wOut),
         x = <<>> \/ x = SubSeq(c, nOut + 1, Len(c))
  PROVE  Flow(g, w, SubSeq(c, nOut + 1, Len(c)), bIn, bTo, 0, nFr, wFr, x)
<1> DEFINE k == Len(g) + Len(bTo) - nOut
           n == Len(c)
           r == SubSeq(c, nOut + 1, Len(c))
<1>1. /\ Len(g) \in Nat /\ Len(bTo) \in Nat /\ n \in Nat /\ nOut \in 0..n /\ k \in Int
      /\ Len(bIn) \in Nat
  BY DEF Flow, Follows, FlowTypes
<1>2. r = Run(k + nOut, n - nOut)
  <2>1. c = Run(k, n)
    BY DEF Flow, Follows
  <2> HIDE DEF k, n
  <2>2. SubSeq(Run(k, n), nOut + 1, n) = Run(k + nOut, n - nOut)
    BY <1>1, RunSplit
  <2> QED BY <2>1, <2>2 DEF n
<1>3. k + nOut = Len(g) + Len(bTo) - 0 /\ n - nOut \in Nat /\ k + nOut \in Int
  BY <1>1
<1>4. r \in Seq(Int) /\ Len(r) = n - nOut
  <2> HIDE DEF k, n, r
  <2> QED BY <1>2, <1>3, RunFacts
<1> HIDE DEF r
<1>5. /\ r = Run(Len(g) + Len(bTo) - 0, Len(r)) /\ 0 <= Len(r)
      /\ Len(g) + Len(bTo) + Len(r) - 0 = Len(g) + Len(bTo) + Len(c) - nOut
  <2>1. r = Run(Len(g) + Len(bTo) - 0, Len(r))
    BY <1>2, <1>3, <1>4
  <2> QED BY <1>1, <1>3, <1>4, <2>1
<1>6. FlowTypes(g, w, r, bIn, bTo, 0, nFr, wFr, x)
  BY <1>4, EmptyIsSeq DEF Flow, Follows, FlowTypes, r
<1>7. x = <<>> \/ x = r
  BY DEF r
<1> HIDE DEF k, n
<1>8. Flow(g, w, r, bIn, bTo, 0, nFr, wFr, x)
  BY <1>5, <1>6, <1>7 DEF Flow, Follows
<1> QED BY <1>8 DEF r

\* Bytes of the copy's write that the user reads.
LEMMA FlowGiven ==
  ASSUME NEW g, NEW w, NEW c, NEW bIn, NEW nFr, NEW wFr, NEW wOut, NEW n,
         Flow(g, w, c, bIn, <<>>, 0, nFr, wFr, wOut), n \in 0..Len(c)
  PROVE  Flow(g, w, c, bIn, SubSeq(c, 1, n), n, nFr, wFr, <<>>) /\ Len(SubSeq(c, 1, n)) = n
<1> DEFINE k == Len(g)
           m == Len(c)
           b == SubSeq(c, 1, n)
<1>1. /\ k \in Nat /\ m \in Nat /\ n \in 0..m /\ Len(bIn) \in Nat /\ Len(<<>>) = 0
      /\ <<>> \in Seq(Int) /\ n \in Nat
  BY DEF Flow, Follows, FlowTypes
<1>2. c = Run(k, m)
  BY <1>1 DEF Flow, Follows
<1>3. b = Run(k, n)
  <2> HIDE DEF k, m
  <2>1. SubSeq(Run(k, m), 1, n) = Run(k, n)
    <3>1. k \in Int /\ m \in Nat /\ n \in 0..m
      BY <1>1
    <3> QED BY <3>1, RunSplit
  <2> QED BY <1>2, <2>1
<1>4. b \in Seq(Int) /\ Len(b) = n
  <2> HIDE DEF k, m, b
  <2> QED BY <1>1, <1>3, RunFacts
<1> HIDE DEF b
<1>5. /\ Len(g) + Len(b) - n = k /\ n <= Len(c)
      /\ Len(g) + Len(b) + Len(c) - n = Len(g) + Len(<<>>) + Len(c) - 0
  BY <1>1, <1>4
<1>6. FlowTypes(g, w, c, bIn, b, n, nFr, wFr, <<>>)
  BY <1>1, <1>4 DEF Flow, Follows, FlowTypes
<1>7. b = Run(Len(g), Len(b))
  BY <1>3, <1>4
<1>8. c = Run(Len(g) + Len(b) - n, Len(c))
  BY <1>2, <1>5
<1>9. Flow(g, w, c, bIn, b, n, nFr, wFr, <<>>)
  BY <1>5, <1>6, <1>7, <1>8 DEF Flow, Follows
<1> QED BY <1>4, <1>9 DEF b

\* A write that is canceled.
LEMMA FlowCanceled ==
  ASSUME NEW g, NEW w, NEW c, NEW bIn, NEW bTo, NEW nOut, NEW nFr, NEW wFr, NEW wOut,
         NEW x, NEW y, Flow(g, w, c, bIn, bTo, nOut, nFr, wFr, wOut),
         x = <<>> \/ x = wFr, y = <<>> \/ y = wOut
  PROVE  Flow(g, w, c, bIn, bTo, nOut, nFr, x, y)
<1>1. Len(w) \in Nat /\ Len(<<>>) = 0 /\ <<>> \in Seq(Int)
  BY DEF Flow, Follows, FlowTypes
<1>2. Run(Len(w), 0) = <<>>
  BY <1>1, RunEmpty
<1> QED BY <1>1, <1>2 DEF Flow, Follows, FlowTypes

-----------------------------------------------------------------------------
(* StreamCopy: the handlers that are posted *)

ReadEvent ==
  {h \in [op : {"read"}, end : 1..4, ec : {"ok", "aborted"}, bytes : Seq(Int)] :
     h.ec # "ok" => h.bytes = <<>>}
WriteEvent ==
  {h \in [op : {"write"}, end : 1..4, ec : {"ok", "aborted"}, n : Nat] :
     h.ec # "ok" => h.n = 0}
DoneEvent == [op : {"done"}, copy : 1..3]
CopyEvent == ReadEvent \cup WriteEvent \cup DoneEvent

ReadsOf(e) == {h \in ReadEvent : h.end = e}
WritesOf(e) == {h \in WriteEvent : h.end = e}

\* The ends of a read, of a write, and of the pair that are posted.
Reads(s, e) == Keep(s, ReadsOf(e))
Writes(s, e) == Keep(s, WritesOf(e))
Finals(s) == Keep(s, {Copy!Done(3)})

\* u is s with one more handler.
MoreReads(s, u, e, h) ==
  /\ u \in Seq(CopyEvent) /\ ToSet(u) = ToSet(s) \cup {h} /\ Finals(u) = Finals(s)
  /\ Reads(u, e) = Reads(s, e) \o <<h>>
  /\ \A e2 \in 1..4 : e2 # e => Reads(u, e2) = Reads(s, e2)
  /\ \A e2 \in 1..4 : Writes(u, e2) = Writes(s, e2)
MoreWrites(s, u, e, h) ==
  /\ u \in Seq(CopyEvent) /\ ToSet(u) = ToSet(s) \cup {h} /\ Finals(u) = Finals(s)
  /\ Writes(u, e) = Writes(s, e) \o <<h>>
  /\ \A e2 \in 1..4 : e2 # e => Writes(u, e2) = Writes(s, e2)
  /\ \A e2 \in 1..4 : Reads(u, e2) = Reads(s, e2)
\* u is s with another handler that is neither.
SameOperations(s, u) ==
  /\ \A e \in 1..4 : Reads(u, e) = Reads(s, e)
  /\ \A e \in 1..4 : Writes(u, e) = Writes(s, e)

\* The kinds of handlers are disjoint.
LEMMA KindsApart ==
  /\ \A e \in 1..4 : ReadsOf(e) \subseteq CopyEvent /\ WritesOf(e) \subseteq CopyEvent
  /\ \A e, e2 \in 1..4 : ReadsOf(e) \cap WritesOf(e2) = {}
  /\ \A e, e2 \in 1..4 : e # e2 => ReadsOf(e) \cap ReadsOf(e2) = {}
  /\ \A e, e2 \in 1..4 : e # e2 => WritesOf(e) \cap WritesOf(e2) = {}
  /\ \A e \in 1..4 : DoneEvent \cap ReadsOf(e) = {} /\ DoneEvent \cap WritesOf(e) = {}
  /\ \A k \in 1..3 : Copy!Done(k) \in DoneEvent /\ Copy!Done(k) \in CopyEvent
  /\ Copy!Done(3) # Copy!Done(1) /\ Copy!Done(3) # Copy!Done(2)
<1>1. \A e \in 1..4 : ReadsOf(e) \subseteq CopyEvent /\ WritesOf(e) \subseteq CopyEvent
  BY DEF ReadsOf, WritesOf, CopyEvent
<1>2. \A h \in ReadEvent : h.op = "read"
  BY DEF ReadEvent
<1>3. \A h \in WriteEvent : h.op = "write"
  BY DEF WriteEvent
<1>4. \A h \in DoneEvent : h.op = "done"
  BY DEF DoneEvent
<1>5. \A e, e2 \in 1..4 : ReadsOf(e) \cap WritesOf(e2) = {}
  BY <1>2, <1>3 DEF ReadsOf, WritesOf
<1>6. \A e, e2 \in 1..4 : e # e2 => ReadsOf(e) \cap ReadsOf(e2) = {}
  BY DEF ReadsOf
<1>7. \A e, e2 \in 1..4 : e # e2 => WritesOf(e) \cap WritesOf(e2) = {}
  BY DEF WritesOf
<1>8. \A e \in 1..4 : DoneEvent \cap ReadsOf(e) = {} /\ DoneEvent \cap WritesOf(e) = {}
  BY <1>2, <1>3, <1>4 DEF ReadsOf, WritesOf
<1>9. \A k \in 1..3 : Copy!Done(k) \in DoneEvent /\ Copy!Done(k) \in CopyEvent
  BY DEF Copy!Done, DoneEvent, CopyEvent
<1>10. Copy!Done(3) # Copy!Done(1) /\ Copy!Done(3) # Copy!Done(2)
  BY DEF Copy!Done
<1> QED BY <1>1, <1>5, <1>6, <1>7, <1>8, <1>9, <1>10

\* A handler that is posted, in a set and in a set it is not of.
LEMMA PostOne ==
  ASSUME NEW s \in Seq(CopyEvent), NEW h \in CopyEvent, NEW S
  PROVE  /\ s \o <<h>> \in Seq(CopyEvent) /\ ToSet(s \o <<h>>) = ToSet(s) \cup {h}
         /\ h \in S => Keep(s \o <<h>>, S) = Keep(s, S) \o <<h>>
         /\ h \notin S => Keep(s \o <<h>>, S) = Keep(s, S)
<1> DEFINE one == <<h>>
<1>1. one \in Seq(CopyEvent) /\ ToSet(one) = {h}
  BY SingletonSeq
<1>2. /\ h \in S => Keep(one, S) = one
      /\ h \notin S => Keep(one, S) = <<>>
  BY KeepOne
<1> HIDE DEF one
<1>3. s \o one \in Seq(CopyEvent)
  BY <1>1, ConcatElements
<1>4. ToSet(s \o one) = ToSet(s) \cup ToSet(one)
  BY <1>1, ToSetConcat
<1>5. Keep(s \o one, S) = Keep(s, S) \o Keep(one, S)
  BY <1>1, KeepConcat
<1>6. Keep(s, S) \o <<>> = Keep(s, S)
  <2>1. Keep(s, S) \in Seq(CopyEvent)
    BY KeepType
  <2> QED BY <2>1, ConcatEmpty
<1>7. h \in S => Keep(s \o one, S) = Keep(s, S) \o one
  BY <1>2, <1>5
<1>8. h \notin S => Keep(s \o one, S) = Keep(s, S)
  BY <1>2, <1>5, <1>6
<1> QED BY <1>1, <1>3, <1>4, <1>7, <1>8 DEF one

\* The end of a read is posted.
LEMMA PostRead ==
  ASSUME NEW s \in Seq(CopyEvent), NEW e \in 1..4, NEW h \in ReadsOf(e)
  PROVE  MoreReads(s, s \o <<h>>, e, h)
<1>0. h \in CopyEvent /\ h \notin {Copy!Done(3)}
  BY KindsApart
<1>1. s \o <<h>> \in Seq(CopyEvent) /\ ToSet(s \o <<h>>) = ToSet(s) \cup {h}
  BY <1>0, PostOne
<1>2. Finals(s \o <<h>>) = Finals(s)
  BY <1>0, PostOne DEF Finals
<1>3. Reads(s \o <<h>>, e) = Reads(s, e) \o <<h>>
  BY <1>0, PostOne DEF Reads
<1>4. ASSUME NEW e2 \in 1..4, e2 # e PROVE Reads(s \o <<h>>, e2) = Reads(s, e2)
  <2>1. h \notin ReadsOf(e2)
    BY <1>4, KindsApart
  <2> QED BY <1>0, <2>1, PostOne DEF Reads
<1>5. ASSUME NEW e2 \in 1..4 PROVE Writes(s \o <<h>>, e2) = Writes(s, e2)
  <2>1. h \notin WritesOf(e2)
    BY KindsApart
  <2> QED BY <1>0, <2>1, PostOne DEF Writes
<1> QED BY <1>1, <1>2, <1>3, <1>4, <1>5 DEF MoreReads

\* The end of a write is posted.
LEMMA PostWrite ==
  ASSUME NEW s \in Seq(CopyEvent), NEW e \in 1..4, NEW h \in WritesOf(e)
  PROVE  MoreWrites(s, s \o <<h>>, e, h)
<1>0. h \in CopyEvent /\ h \notin {Copy!Done(3)}
  BY KindsApart
<1>1. s \o <<h>> \in Seq(CopyEvent) /\ ToSet(s \o <<h>>) = ToSet(s) \cup {h}
  BY <1>0, PostOne
<1>2. Finals(s \o <<h>>) = Finals(s)
  BY <1>0, PostOne DEF Finals
<1>3. Writes(s \o <<h>>, e) = Writes(s, e) \o <<h>>
  BY <1>0, PostOne DEF Writes
<1>4. ASSUME NEW e2 \in 1..4, e2 # e PROVE Writes(s \o <<h>>, e2) = Writes(s, e2)
  <2>1. h \notin WritesOf(e2)
    BY <1>4, KindsApart
  <2> QED BY <1>0, <2>1, PostOne DEF Writes
<1>5. ASSUME NEW e2 \in 1..4 PROVE Reads(s \o <<h>>, e2) = Reads(s, e2)
  <2>1. h \notin ReadsOf(e2)
    BY KindsApart
  <2> QED BY <1>0, <2>1, PostOne DEF Reads
<1> QED BY <1>1, <1>2, <1>3, <1>4, <1>5 DEF MoreWrites

\* The done_callback_ of a copy, or of the pair, is posted.
LEMMA PostDone ==
  ASSUME NEW s \in Seq(CopyEvent), NEW k \in 1..3
  PROVE  LET u == s \o <<Copy!Done(k)>> IN
         /\ u \in Seq(CopyEvent) /\ SameOperations(s, u)
         /\ k # 3 => Finals(u) = Finals(s)
         /\ k = 3 => Finals(u) = Finals(s) \o <<Copy!Done(3)>>
         /\ ToSet(u) = ToSet(s) \cup {Copy!Done(k)}
<1> DEFINE h == Copy!Done(k)
           u == s \o <<h>>
<1>0. h \in CopyEvent /\ h \in DoneEvent /\ (h = Copy!Done(3) <=> k = 3)
  BY KindsApart
<1> HIDE DEF h
<1>1. u \in Seq(CopyEvent) /\ ToSet(u) = ToSet(s) \cup {h}
  BY <1>0, PostOne
<1>2. k # 3 => Finals(u) = Finals(s)
  BY <1>0, PostOne DEF Finals
<1>3. k = 3 => Finals(u) = Finals(s) \o <<h>>
  BY <1>0, PostOne DEF Finals
<1>4. ASSUME NEW e \in 1..4 PROVE Reads(u, e) = Reads(s, e)
  <2>1. h \notin ReadsOf(e)
    BY <1>0, KindsApart
  <2> QED BY <1>0, <2>1, PostOne DEF Reads
<1>5. ASSUME NEW e \in 1..4 PROVE Writes(u, e) = Writes(s, e)
  <2>1. h \notin WritesOf(e)
    BY <1>0, KindsApart
  <2> QED BY <1>0, <2>1, PostOne DEF Writes
<1> QED BY <1>0, <1>1, <1>2, <1>3, <1>4, <1>5 DEF SameOperations, h

\* The handler that runs is the first one.
LEMMA RunRead ==
  ASSUME NEW s \in Seq(CopyEvent), s # <<>>, NEW e \in 1..4, Head(s) \in ReadsOf(e)
  PROVE  /\ Tail(s) \in Seq(CopyEvent) /\ ToSet(Tail(s)) \subseteq ToSet(s)
         /\ Head(s) \in ToSet(s) /\ Finals(s) = Finals(Tail(s))
         /\ Reads(s, e) = <<Head(s)>> \o Reads(Tail(s), e)
         /\ \A e2 \in 1..4 : e2 # e => Reads(s, e2) = Reads(Tail(s), e2)
         /\ \A e2 \in 1..4 : Writes(s, e2) = Writes(Tail(s), e2)
<1>0. Tail(s) \in Seq(CopyEvent) /\ ToSet(s) = {Head(s)} \cup ToSet(Tail(s))
  BY ConcatHeadTail, ToSetHeadTail
<1>1. Finals(s) = Finals(Tail(s))
  <2>1. Head(s) \notin {Copy!Done(3)}
    BY KindsApart
  <2> QED BY <2>1, KeepTail DEF Finals
<1>2. Reads(s, e) = <<Head(s)>> \o Reads(Tail(s), e)
  BY KeepTail DEF Reads
<1>3. ASSUME NEW e2 \in 1..4, e2 # e PROVE Reads(s, e2) = Reads(Tail(s), e2)
  <2>1. Head(s) \notin ReadsOf(e2)
    BY <1>3, KindsApart
  <2> QED BY <2>1, KeepTail DEF Reads
<1>4. ASSUME NEW e2 \in 1..4 PROVE Writes(s, e2) = Writes(Tail(s), e2)
  <2>1. Head(s) \notin WritesOf(e2)
    BY KindsApart
  <2> QED BY <2>1, KeepTail DEF Writes
<1> QED BY <1>0, <1>1, <1>2, <1>3, <1>4

\* The same for the end of a write.
LEMMA RunWrite ==
  ASSUME NEW s \in Seq(CopyEvent), s # <<>>, NEW e \in 1..4, Head(s) \in WritesOf(e)
  PROVE  /\ Tail(s) \in Seq(CopyEvent) /\ ToSet(Tail(s)) \subseteq ToSet(s)
         /\ Head(s) \in ToSet(s) /\ Finals(s) = Finals(Tail(s))
         /\ Writes(s, e) = <<Head(s)>> \o Writes(Tail(s), e)
         /\ \A e2 \in 1..4 : e2 # e => Writes(s, e2) = Writes(Tail(s), e2)
         /\ \A e2 \in 1..4 : Reads(s, e2) = Reads(Tail(s), e2)
<1>0. Tail(s) \in Seq(CopyEvent) /\ ToSet(s) = {Head(s)} \cup ToSet(Tail(s))
  BY ConcatHeadTail, ToSetHeadTail
<1>1. Finals(s) = Finals(Tail(s))
  <2>1. Head(s) \notin {Copy!Done(3)}
    BY KindsApart
  <2> QED BY <2>1, KeepTail DEF Finals
<1>2. Writes(s, e) = <<Head(s)>> \o Writes(Tail(s), e)
  BY KeepTail DEF Writes
<1>3. ASSUME NEW e2 \in 1..4, e2 # e PROVE Writes(s, e2) = Writes(Tail(s), e2)
  <2>1. Head(s) \notin WritesOf(e2)
    BY <1>3, KindsApart
  <2> QED BY <2>1, KeepTail DEF Writes
<1>4. ASSUME NEW e2 \in 1..4 PROVE Reads(s, e2) = Reads(Tail(s), e2)
  <2>1. Head(s) \notin ReadsOf(e2)
    BY KindsApart
  <2> QED BY <2>1, KeepTail DEF Reads
<1> QED BY <1>0, <1>1, <1>2, <1>3, <1>4

\* The same for a done_callback_.
LEMMA RunDone ==
  ASSUME NEW s \in Seq(CopyEvent), s # <<>>, Head(s) \in DoneEvent
  PROVE  /\ Tail(s) \in Seq(CopyEvent) /\ ToSet(Tail(s)) \subseteq ToSet(s)
         /\ SameOperations(s, Tail(s))
         /\ Head(s) # Copy!Done(3) => Finals(s) = Finals(Tail(s))
         /\ Head(s) = Copy!Done(3) => Finals(s) = <<Head(s)>> \o Finals(Tail(s))
<1>0. Tail(s) \in Seq(CopyEvent) /\ ToSet(s) = {Head(s)} \cup ToSet(Tail(s))
  BY ConcatHeadTail, ToSetHeadTail
<1>1. /\ Head(s) # Copy!Done(3) => Finals(s) = Finals(Tail(s))
      /\ Head(s) = Copy!Done(3) => Finals(s) = <<Head(s)>> \o Finals(Tail(s))
  BY KeepTail DEF Finals
<1>3. ASSUME NEW e2 \in 1..4 PROVE Reads(s, e2) = Reads(Tail(s), e2)
  <2>1. Head(s) \notin ReadsOf(e2)
    BY KindsApart
  <2> QED BY <2>1, KeepTail DEF Reads
<1>4. ASSUME NEW e2 \in 1..4 PROVE Writes(s, e2) = Writes(Tail(s), e2)
  <2>1. Head(s) \notin WritesOf(e2)
    BY KindsApart
  <2> QED BY <2>1, KeepTail DEF Writes
<1> QED BY <1>0, <1>1, <1>3, <1>4 DEF SameOperations

-----------------------------------------------------------------------------
(* StreamCopy: one direction with its handlers.  r stands for a read that  *)
(* waits, w for a write, q for the end of one that is posted; In and Out   *)
(* are the ends of the copy, Fr and To those of the users; bR and bW tell   *)
(* whether a user's operation is under way, dead whether the copy failed.  *)

Bytes(q) == IF q = <<>> THEN <<>> ELSE q[1].bytes
Count(q) == IF q = <<>> THEN 0 ELSE q[1].n

One(q) == \E h : q = <<h>>

\* A user's operation is not there, waits or has ended.
User(waits, q, b) ==
  \/ ~waits /\ q = <<>> /\ b = 0
  \/ waits /\ q = <<>> /\ b = 1
  \/ ~waits /\ One(q) /\ b = 1

Core(rIn, wFr, qIn, qFr, rTo, wOut, qTo, qOut, c, g, w, bR, bW) ==
  /\ Flow(g, w, c, Bytes(qIn), Bytes(qTo), Count(qOut), Count(qFr), wFr, wOut)
  /\ User(rTo # 0, qTo, bR) /\ User(wFr # <<>>, qFr, bW)
  /\ rIn \in Nat /\ rTo \in Nat
  /\ rIn # 0 => wFr = <<>>
  /\ rTo # 0 => wOut = <<>>

\* The copy reads, has read, writes, has written, or has failed.
Phase(rIn, qIn, wOut, qOut, c, dead) ==
  \/ rIn # 0 /\ qIn = <<>> /\ wOut = <<>> /\ qOut = <<>> /\ dead = 0 /\ c = <<>>
  \/ rIn = 0 /\ One(qIn) /\ wOut = <<>> /\ qOut = <<>> /\ dead = 0 /\ c = <<>>
  \/ rIn = 0 /\ qIn = <<>> /\ wOut # <<>> /\ qOut = <<>> /\ dead = 0
  \/ rIn = 0 /\ qIn = <<>> /\ wOut = <<>> /\ One(qOut) /\ dead = 0
  \/ rIn = 0 /\ qIn = <<>> /\ wOut = <<>> /\ qOut = <<>> /\ dead = 1

\* What the end of one operation carries, and the end of none.
LEMMA OneBytes ==
  /\ Bytes(<<>>) = <<>> /\ Count(<<>>) = 0
  /\ \A h : Bytes(<<h>>) = h.bytes /\ Count(<<h>>) = h.n /\ One(<<h>>) /\ <<h>> # <<>>
<1>1. \A h : <<h>> # <<>> /\ <<h>>[1] = h
  OBVIOUS
<1>2. \A h : One(<<h>>)
  BY DEF One
<1> QED BY <1>1, <1>2 DEF Bytes, Count

\* A user's read of no bytes.
LEMMA UserReadsNothing ==
  ASSUME NEW rIn, NEW wFr, NEW qIn, NEW qFr, NEW rTo, NEW wOut, NEW qTo, NEW qOut,
         NEW c, NEW g, NEW w, NEW bR, NEW bW,
         Core(rIn, wFr, qIn, qFr, rTo, wOut, qTo, qOut, c, g, w, bR, bW),
         bR = 0, NEW h, h.bytes = <<>>
  PROVE  Core(rIn, wFr, qIn, qFr, rTo, wOut, <<h>>, qOut, c, g, w, 1, bW)
<1>0. Flow(g, w, c, Bytes(qIn), Bytes(qTo), Count(qOut), Count(qFr), wFr, wOut)
  BY DEF Core
<1>1. Bytes(qTo) = <<>> /\ Bytes(<<h>>) = <<>>
  BY OneBytes DEF Core, User
<1>2. Flow(g, w, c, Bytes(qIn), Bytes(<<h>>), Count(qOut), Count(qFr), wFr, wOut)
  BY <1>0, <1>1, OneBytes
<1> QED BY <1>2, OneBytes DEF Core, User

\* A user's read that waits.
LEMMA UserReadsLater ==
  ASSUME NEW rIn, NEW wFr, NEW qIn, NEW qFr, NEW rTo, NEW wOut, NEW qTo, NEW qOut,
         NEW c, NEW g, NEW w, NEW bR, NEW bW,
         Core(rIn, wFr, qIn, qFr, rTo, wOut, qTo, qOut, c, g, w, bR, bW),
         bR = 0, wOut = <<>>, NEW size \in Nat \ {0}
  PROVE  Core(rIn, wFr, qIn, qFr, size, wOut, qTo, qOut, c, g, w, 1, bW)
BY DEF Core, User

\* A user's read that meets a write of the copy.
LEMMA UserReadsNow ==
  ASSUME NEW rIn, NEW wFr, NEW qIn, NEW qFr, NEW rTo, NEW wOut, NEW qTo, NEW qOut,
         NEW c, NEW g, NEW w, NEW bR, NEW bW,
         Core(rIn, wFr, qIn, qFr, rTo, wOut, qTo, qOut, c, g, w, bR, bW),
         bR = 0, wOut # <<>>, qOut = <<>>, NEW n \in 0..Len(wOut), NEW hr, NEW hw,
         hr.bytes = SubSeq(wOut, 1, n), hw.n = n
  PROVE  Core(rIn, wFr, qIn, qFr, rTo, <<>>, <<hr>>, <<hw>>, c, g, w, 1, bW)
<1>0. Flow(g, w, c, Bytes(qIn), Bytes(qTo), Count(qOut), Count(qFr), wFr, wOut)
  BY DEF Core
<1>1. /\ Bytes(qTo) = <<>> /\ Count(qOut) = 0 /\ wOut = c /\ Bytes(<<hr>>) = SubSeq(c, 1, n)
      /\ Count(<<hw>>) = n
  BY OneBytes DEF Core, User, Flow
<1>2. Flow(g, w, c, Bytes(qIn), SubSeq(c, 1, n), n, Count(qFr), wFr, <<>>)
  BY <1>0, <1>1, FlowGiven
<1>3. Flow(g, w, c, Bytes(qIn), Bytes(<<hr>>), Count(<<hw>>), Count(qFr), wFr, <<>>)
  BY <1>1, <1>2, OneBytes
<1> QED BY <1>3, OneBytes DEF Core, User

\* A user's write of no bytes.
LEMMA UserWritesNothing ==
  ASSUME NEW rIn, NEW wFr, NEW qIn, NEW qFr, NEW rTo, NEW wOut, NEW qTo, NEW qOut,
         NEW c, NEW g, NEW w, NEW bR, NEW bW,
         Core(rIn, wFr, qIn, qFr, rTo, wOut, qTo, qOut, c, g, w, bR, bW),
         bW = 0, NEW h, h.n = 0
  PROVE  Core(rIn, wFr, qIn, <<h>>, rTo, wOut, qTo, qOut, c, g, w, bR, 1)
<1>0. Flow(g, w, c, Bytes(qIn), Bytes(qTo), Count(qOut), Count(qFr), wFr, wOut)
  BY DEF Core
<1>1. Count(qFr) = 0 /\ Count(<<h>>) = 0
  BY OneBytes DEF Core, User
<1>2. Flow(g, w, c, Bytes(qIn), Bytes(qTo), Count(qOut), Count(<<h>>), wFr, wOut)
  BY <1>0, <1>1, OneBytes
<1> QED BY <1>2, OneBytes DEF Core, User

\* A user's write that waits.
LEMMA UserWritesLater ==
  ASSUME NEW rIn, NEW wFr, NEW qIn, NEW qFr, NEW rTo, NEW wOut, NEW qTo, NEW qOut,
         NEW c, NEW g, NEW w, NEW bR, NEW bW,
         Core(rIn, wFr, qIn, qFr, rTo, wOut, qTo, qOut, c, g, w, bR, bW),
         bW = 0, rIn = 0, NEW n \in Nat \ {0}
  PROVE  Core(rIn, Run(Len(w), n), qIn, qFr, rTo, wOut, qTo, qOut, c, g, w, bR, 1)
<1>0. Flow(g, w, c, Bytes(qIn), Bytes(qTo), Count(qOut), Count(qFr), wFr, wOut)
  BY DEF Core
<1>4. Run(Len(w), n) # <<>>
  <2>1. Len(w) \in Int
    BY <1>0 DEF Flow, FlowTypes
  <2> QED BY <2>1, RunFacts
<1>2. Flow(g, w, c, Bytes(qIn), Bytes(qTo), Count(qOut), Count(qFr), Run(Len(w), n), wOut)
  BY <1>0, FlowWriteWaits
<1> QED BY <1>2, OneBytes, <1>4 DEF Core, User

\* A user's write that meets a read of the copy.
LEMMA UserWritesNow ==
  ASSUME NEW rIn, NEW wFr, NEW qIn, NEW qFr, NEW rTo, NEW wOut, NEW qTo, NEW qOut,
         NEW c, NEW g, NEW w, NEW bR, NEW bW,
         Core(rIn, wFr, qIn, qFr, rTo, wOut, qTo, qOut, c, g, w, bR, bW),
         bW = 0, qIn = <<>>, NEW n \in Nat, NEW hr, NEW hw,
         hr.bytes = Run(Len(w), n), hw.n = n
  PROVE  Core(0, wFr, <<hr>>, <<hw>>, rTo, wOut, qTo, qOut, c, g, w, bR, 1)
<1>0. Flow(g, w, c, Bytes(qIn), Bytes(qTo), Count(qOut), Count(qFr), wFr, wOut)
  BY DEF Core
<1>1. /\ Bytes(qIn) = <<>> /\ Count(qFr) = 0 /\ Bytes(<<hr>>) = Run(Len(w), n)
      /\ Count(<<hw>>) = n
  BY OneBytes DEF Core, User
<1>2. Flow(g, w, c, Run(Len(w), n), Bytes(qTo), Count(qOut), n, wFr, wOut)
  BY <1>0, <1>1, FlowTaken
<1>3. Flow(g, w, c, Bytes(<<hr>>), Bytes(qTo), Count(qOut), Count(<<hw>>), wFr, wOut)
  BY <1>1, <1>2, OneBytes
<1> QED BY <1>3, OneBytes DEF Core, User

\* A user is told of a read.
LEMMA ReadIsTold ==
  ASSUME NEW rIn, NEW wFr, NEW qIn, NEW qFr, NEW rTo, NEW wOut, NEW qTo, NEW qOut,
         NEW c, NEW g, NEW w, NEW bR, NEW bW,
         Core(rIn, wFr, qIn, qFr, rTo, wOut, qTo, qOut, c, g, w, bR, bW),
         NEW h, qTo = <<h>>
  PROVE  Core(rIn, wFr, qIn, qFr, rTo, wOut, <<>>, qOut, c, g \o h.bytes, w, 0, bW)
<1>0. Flow(g, w, c, Bytes(qIn), Bytes(qTo), Count(qOut), Count(qFr), wFr, wOut)
  BY DEF Core
<1>1. Bytes(qTo) = h.bytes
  BY OneBytes DEF Core, User
<1>2. Flow(g \o h.bytes, w, c, Bytes(qIn), <<>>, Count(qOut), Count(qFr), wFr, wOut)
  BY <1>0, <1>1, FlowReadTold
<1>3. Flow(g \o h.bytes, w, c, Bytes(qIn), Bytes(<<>>), Count(qOut), Count(qFr), wFr, wOut)
  BY <1>1, <1>2, OneBytes
<1> QED BY <1>3, OneBytes DEF Core, User

\* A user is told of a write.
LEMMA WriteIsTold ==
  ASSUME NEW rIn, NEW wFr, NEW qIn, NEW qFr, NEW rTo, NEW wOut, NEW qTo, NEW qOut,
         NEW c, NEW g, NEW w, NEW bR, NEW bW,
         Core(rIn, wFr, qIn, qFr, rTo, wOut, qTo, qOut, c, g, w, bR, bW),
         NEW h, qFr = <<h>>
  PROVE  Core(rIn, wFr, qIn, <<>>, rTo, wOut, qTo, qOut, c, g, w \o Run(Len(w), h.n), bR, 0)
<1>0. Flow(g, w, c, Bytes(qIn), Bytes(qTo), Count(qOut), Count(qFr), wFr, wOut)
  BY DEF Core
<1>1. Count(qFr) = h.n /\ wFr = <<>>
  BY OneBytes DEF Core, User
<1>2. Flow(g, w \o Run(Len(w), h.n), c, Bytes(qIn), Bytes(qTo), Count(qOut), 0, wFr, wOut)
  BY <1>0, <1>1, FlowWriteTold
<1>3. Flow(g, w \o Run(Len(w), h.n), c, Bytes(qIn), Bytes(qTo), Count(qOut), Count(<<>>),
           wFr, wOut)
  BY <1>1, <1>2, OneBytes
<1> QED BY <1>3, OneBytes DEF Core, User

\* A read of the copy that failed.
LEMMA ReadFails ==
  ASSUME NEW rIn, NEW wFr, NEW qIn, NEW qFr, NEW rTo, NEW wOut, NEW qTo, NEW qOut,
         NEW c, NEW g, NEW w, NEW bR, NEW bW,
         Core(rIn, wFr, qIn, qFr, rTo, wOut, qTo, qOut, c, g, w, bR, bW),
         NEW h, qIn = <<h>>, h.bytes = <<>>
  PROVE  Core(rIn, wFr, <<>>, qFr, rTo, wOut, qTo, qOut, c, g, w, bR, bW)
<1>0. Flow(g, w, c, Bytes(qIn), Bytes(qTo), Count(qOut), Count(qFr), wFr, wOut)
  BY DEF Core
<1>1. Bytes(qIn) = <<>>
  BY OneBytes DEF Core, User
<1>2. Flow(g, w, c, Bytes(<<>>), Bytes(qTo), Count(qOut), Count(qFr), wFr, wOut)
  BY <1>0, <1>1, OneBytes
<1> QED BY <1>2, OneBytes DEF Core, User

\* A read of the copy that has ended.
LEMMA ReadEnds ==
  ASSUME NEW rIn, NEW wFr, NEW qIn, NEW qFr, NEW rTo, NEW wOut, NEW qTo, NEW qOut,
         NEW c, NEW g, NEW w, NEW bR, NEW bW,
         Core(rIn, wFr, qIn, qFr, rTo, wOut, qTo, qOut, c, g, w, bR, bW),
         NEW h, qIn = <<h>>, c = <<>>, wOut = <<>>, qOut = <<>>
  PROVE  Core(rIn, wFr, <<>>, qFr, rTo, wOut, qTo, qOut, h.bytes, g, w, bR, bW)
<1>0. Flow(g, w, c, Bytes(qIn), Bytes(qTo), Count(qOut), Count(qFr), wFr, wOut)
  BY DEF Core
<1>1. Bytes(qIn) = h.bytes /\ Count(qOut) = 0
  BY OneBytes DEF Core, User
<1>2. Flow(g, w, h.bytes, <<>>, Bytes(qTo), 0, Count(qFr), wFr, <<>>)
  BY <1>0, <1>1, FlowRead
<1>3. Flow(g, w, h.bytes, Bytes(<<>>), Bytes(qTo), Count(qOut), Count(qFr), wFr, wOut)
  BY <1>1, <1>2, OneBytes
<1> QED BY <1>3, OneBytes DEF Core, User

\* A write of the copy that failed.
LEMMA WriteFails ==
  ASSUME NEW rIn, NEW wFr, NEW qIn, NEW qFr, NEW rTo, NEW wOut, NEW qTo, NEW qOut,
         NEW c, NEW g, NEW w, NEW bR, NEW bW,
         Core(rIn, wFr, qIn, qFr, rTo, wOut, qTo, qOut, c, g, w, bR, bW),
         NEW h, qOut = <<h>>, h.n = 0
  PROVE  Core(rIn, wFr, qIn, qFr, rTo, wOut, qTo, <<>>, c, g, w, bR, bW)
<1>0. Flow(g, w, c, Bytes(qIn), Bytes(qTo), Count(qOut), Count(qFr), wFr, wOut)
  BY DEF Core
<1>1. Count(qOut) = 0
  BY OneBytes DEF Core, User
<1>2. Flow(g, w, c, Bytes(qIn), Bytes(qTo), Count(<<>>), Count(qFr), wFr, wOut)
  BY <1>0, <1>1, OneBytes
<1> QED BY <1>2, OneBytes DEF Core, User

\* A write of the copy that has ended.
LEMMA WriteEnds ==
  ASSUME NEW rIn, NEW wFr, NEW qIn, NEW qFr, NEW rTo, NEW wOut, NEW qTo, NEW qOut,
         NEW c, NEW g, NEW w, NEW bR, NEW bW,
         Core(rIn, wFr, qIn, qFr, rTo, wOut, qTo, qOut, c, g, w, bR, bW),
         NEW h, qOut = <<h>>, wOut = <<>>
  PROVE  Core(rIn, wFr, qIn, qFr, rTo, wOut, qTo, <<>>, SubSeq(c, h.n + 1, Len(c)), g, w,
              bR, bW)
<1>0. Flow(g, w, c, Bytes(qIn), Bytes(qTo), Count(qOut), Count(qFr), wFr, wOut)
  BY DEF Core
<1>1. Count(qOut) = h.n
  BY OneBytes DEF Core, User
<1>2. Flow(g, w, SubSeq(c, h.n + 1, Len(c)), Bytes(qIn), Bytes(qTo), 0, Count(qFr), wFr,
           <<>>)
  BY <1>0, <1>1, FlowLeft
<1>3. Flow(g, w, SubSeq(c, h.n + 1, Len(c)), Bytes(qIn), Bytes(qTo), Count(<<>>),
           Count(qFr), wFr, wOut)
  BY <1>1, <1>2, OneBytes
<1> QED BY <1>3, OneBytes DEF Core, User

\* A write of the copy of no bytes.
LEMMA CopyWritesNothing ==
  ASSUME NEW rIn, NEW wFr, NEW qIn, NEW qFr, NEW rTo, NEW wOut, NEW qTo, NEW qOut,
         NEW c, NEW g, NEW w, NEW bR, NEW bW,
         Core(rIn, wFr, qIn, qFr, rTo, wOut, qTo, qOut, c, g, w, bR, bW),
         NEW h, h.n = 0, qOut = <<>>
  PROVE  Core(rIn, wFr, qIn, qFr, rTo, wOut, qTo, <<h>>, c, g, w, bR, bW)
<1>0. Flow(g, w, c, Bytes(qIn), Bytes(qTo), Count(qOut), Count(qFr), wFr, wOut)
  BY DEF Core
<1>1. Count(qOut) = 0 /\ Count(<<h>>) = 0
  BY OneBytes DEF Core, User
<1>2. Flow(g, w, c, Bytes(qIn), Bytes(qTo), Count(<<h>>), Count(qFr), wFr, wOut)
  BY <1>0, <1>1, OneBytes
<1> QED BY <1>2, OneBytes DEF Core, User

\* A write of the copy that meets a read of the user's.
LEMMA CopyWritesNow ==
  ASSUME NEW rIn, NEW wFr, NEW qIn, NEW qFr, NEW rTo, NEW wOut, NEW qTo, NEW qOut,
         NEW c, NEW g, NEW w, NEW bR, NEW bW,
         Core(rIn, wFr, qIn, qFr, rTo, wOut, qTo, qOut, c, g, w, bR, bW),
         wOut = <<>>, qOut = <<>>, rTo # 0, NEW n \in 0..Len(c), NEW hr, NEW hw,
         hr.bytes = SubSeq(c, 1, n), hw.n = n
  PROVE  Core(rIn, wFr, qIn, qFr, 0, wOut, <<hr>>, <<hw>>, c, g, w, bR, bW)
<1>0. Flow(g, w, c, Bytes(qIn), Bytes(qTo), Count(qOut), Count(qFr), wFr, wOut)
  BY DEF Core
<1>1. /\ Bytes(qTo) = <<>> /\ Count(qOut) = 0 /\ Bytes(<<hr>>) = SubSeq(c, 1, n)
      /\ Count(<<hw>>) = n
  BY OneBytes DEF Core, User
<1>2. Flow(g, w, c, Bytes(qIn), SubSeq(c, 1, n), n, Count(qFr), wFr, <<>>)
  BY <1>0, <1>1, FlowGiven
<1>3. Flow(g, w, c, Bytes(qIn), Bytes(<<hr>>), Count(<<hw>>), Count(qFr), wFr, wOut)
  BY <1>1, <1>2, OneBytes
<1> QED BY <1>3, OneBytes DEF Core, User

\* A read of the copy that waits.
LEMMA CopyReadsLater ==
  ASSUME NEW rIn, NEW wFr, NEW qIn, NEW qFr, NEW rTo, NEW wOut, NEW qTo, NEW qOut,
         NEW c, NEW g, NEW w, NEW bR, NEW bW,
         Core(rIn, wFr, qIn, qFr, rTo, wOut, qTo, qOut, c, g, w, bR, bW),
         wFr = <<>>, NEW size \in Nat
  PROVE  Core(size, wFr, qIn, qFr, rTo, wOut, qTo, qOut, c, g, w, bR, bW)
BY DEF Core, User

\* A write of the copy that waits.
LEMMA CopyWritesLater ==
  ASSUME NEW rIn, NEW wFr, NEW qIn, NEW qFr, NEW rTo, NEW wOut, NEW qTo, NEW qOut,
         NEW c, NEW g, NEW w, NEW bR, NEW bW,
         Core(rIn, wFr, qIn, qFr, rTo, wOut, qTo, qOut, c, g, w, bR, bW),
         wOut = <<>>, rTo = 0
  PROVE  Core(rIn, wFr, qIn, qFr, rTo, c, qTo, qOut, c, g, w, bR, bW)
BY DEF Core, User, Flow, FlowTypes

\* A read of the copy that meets a write of the user's.
LEMMA CopyReadsNow ==
  ASSUME NEW rIn, NEW wFr, NEW qIn, NEW qFr, NEW rTo, NEW wOut, NEW qTo, NEW qOut,
         NEW c, NEW g, NEW w, NEW bR, NEW bW,
         Core(rIn, wFr, qIn, qFr, rTo, wOut, qTo, qOut, c, g, w, bR, bW),
         wFr # <<>>, qIn = <<>>, NEW n \in 0..Len(wFr), NEW hr, NEW hw,
         hr.bytes = SubSeq(wFr, 1, n), hw.n = n
  PROVE  Core(rIn, <<>>, <<hr>>, <<hw>>, rTo, wOut, qTo, qOut, c, g, w, bR, bW)
<1>0. Flow(g, w, c, Bytes(qIn), Bytes(qTo), Count(qOut), Count(qFr), wFr, wOut)
  BY DEF Core
<1>1. /\ Bytes(qIn) = <<>> /\ Count(qFr) = 0 /\ Count(<<hw>>) = n
      /\ Bytes(<<hr>>) = SubSeq(wFr, 1, n)
  BY OneBytes DEF Core, User
<1>4. SubSeq(wFr, 1, n) = Run(Len(w), n)
  <2>1. w \in Seq(Int) /\ wFr \in Seq(Int)
    BY <1>0 DEF Flow, FlowTypes
  <2>2. Follows(wFr, Len(w))
    BY <1>0 DEF Flow
  <2> DEFINE k == Len(w)
             m == Len(wFr)
  <2>3. k \in Int /\ m \in Nat /\ n \in 0..m
    BY <2>1
  <2>4. wFr = Run(k, m)
    BY <2>2 DEF Follows
  <2> HIDE DEF k, m
  <2>5. SubSeq(Run(k, m), 1, n) = Run(k, n)
    BY <2>3, RunSplit
  <2> QED BY <2>4, <2>5 DEF k
<1>2. Flow(g, w, c, Run(Len(w), n), Bytes(qTo), Count(qOut), n, <<>>, wOut)
  BY <1>0, <1>1, FlowTaken
<1>3. Flow(g, w, c, Bytes(<<hr>>), Bytes(qTo), Count(qOut), Count(<<hw>>), <<>>, wOut)
  BY <1>1, <1>2, <1>4, OneBytes
<1> QED BY <1>3, OneBytes DEF Core, User

\* A read of the copy that is canceled.
LEMMA ReadInCanceled ==
  ASSUME NEW rIn, NEW wFr, NEW qIn, NEW qFr, NEW rTo, NEW wOut, NEW qTo, NEW qOut,
         NEW c, NEW g, NEW w, NEW bR, NEW bW,
         Core(rIn, wFr, qIn, qFr, rTo, wOut, qTo, qOut, c, g, w, bR, bW),
         qIn = <<>>, NEW h, h.bytes = <<>>
  PROVE  Core(0, wFr, <<h>>, qFr, rTo, wOut, qTo, qOut, c, g, w, bR, bW)
<1>0. Flow(g, w, c, Bytes(qIn), Bytes(qTo), Count(qOut), Count(qFr), wFr, wOut)
  BY DEF Core
<1>1. Bytes(qIn) = <<>> /\ Bytes(<<h>>) = <<>>
  BY OneBytes DEF Core, User
<1>2. Flow(g, w, c, Bytes(<<h>>), Bytes(qTo), Count(qOut), Count(qFr), wFr, wOut)
  BY <1>0, <1>1, OneBytes
<1> QED BY <1>2, OneBytes DEF Core, User

\* A read of the user's that is canceled.
LEMMA ReadToCanceled ==
  ASSUME NEW rIn, NEW wFr, NEW qIn, NEW qFr, NEW rTo, NEW wOut, NEW qTo, NEW qOut,
         NEW c, NEW g, NEW w, NEW bR, NEW bW,
         Core(rIn, wFr, qIn, qFr, rTo, wOut, qTo, qOut, c, g, w, bR, bW),
         rTo # 0, NEW h, h.bytes = <<>>
  PROVE  Core(rIn, wFr, qIn, qFr, 0, wOut, <<h>>, qOut, c, g, w, bR, bW)
<1>0. Flow(g, w, c, Bytes(qIn), Bytes(qTo), Count(qOut), Count(qFr), wFr, wOut)
  BY DEF Core
<1>1. Bytes(qTo) = <<>> /\ Bytes(<<h>>) = <<>>
  BY OneBytes DEF Core, User
<1>2. Flow(g, w, c, Bytes(qIn), Bytes(<<h>>), Count(qOut), Count(qFr), wFr, wOut)
  BY <1>0, <1>1, OneBytes
<1> QED BY <1>2, OneBytes DEF Core, User

\* A write of the user's that is canceled.
LEMMA WriteFromCanceled ==
  ASSUME NEW rIn, NEW wFr, NEW qIn, NEW qFr, NEW rTo, NEW wOut, NEW qTo, NEW qOut,
         NEW c, NEW g, NEW w, NEW bR, NEW bW,
         Core(rIn, wFr, qIn, qFr, rTo, wOut, qTo, qOut, c, g, w, bR, bW),
         wFr # <<>>, NEW h, h.n = 0
  PROVE  Core(rIn, <<>>, qIn, <<h>>, rTo, wOut, qTo, qOut, c, g, w, bR, bW)
<1>0. Flow(g, w, c, Bytes(qIn), Bytes(qTo), Count(qOut), Count(qFr), wFr, wOut)
  BY DEF Core
<1>1. Count(qFr) = 0 /\ Count(<<h>>) = 0
  BY OneBytes DEF Core, User
<1>2. Flow(g, w, c, Bytes(qIn), Bytes(qTo), Count(qOut), 0, <<>>, wOut)
  BY <1>0, <1>1, FlowCanceled
<1>3. Flow(g, w, c, Bytes(qIn), Bytes(qTo), Count(qOut), Count(<<h>>), <<>>, wOut)
  BY <1>1, <1>2, OneBytes
<1> QED BY <1>3, OneBytes DEF Core, User

\* A write of the copy that is canceled.
LEMMA WriteOutCanceled ==
  ASSUME NEW rIn, NEW wFr, NEW qIn, NEW qFr, NEW rTo, NEW wOut, NEW qTo, NEW qOut,
         NEW c, NEW g, NEW w, NEW bR, NEW bW,
         Core(rIn, wFr, qIn, qFr, rTo, wOut, qTo, qOut, c, g, w, bR, bW),
         qOut = <<>>, NEW h, h.n = 0
  PROVE  Core(rIn, wFr, qIn, qFr, rTo, <<>>, qTo, <<h>>, c, g, w, bR, bW)
<1>0. Flow(g, w, c, Bytes(qIn), Bytes(qTo), Count(qOut), Count(qFr), wFr, wOut)
  BY DEF Core
<1>1. Count(qOut) = 0 /\ Count(<<h>>) = 0
  BY OneBytes DEF Core, User
<1>2. Flow(g, w, c, Bytes(qIn), Bytes(qTo), 0, Count(qFr), wFr, <<>>)
  BY <1>0, <1>1, FlowCanceled
<1>3. Flow(g, w, c, Bytes(qIn), Bytes(qTo), Count(<<h>>), Count(qFr), wFr, <<>>)
  BY <1>1, <1>2, OneBytes
<1> QED BY <1>3, OneBytes DEF Core, User

-----------------------------------------------------------------------------
(* StreamCopy: the invariant *)

Under(op, e) == IF op \in busy[e] THEN 1 ELSE 0
Dead(d) == IF d \in done THEN 1 ELSE 0

DirCore(d) ==
  Core(read[Copy!In(d)], write[Copy!From(d)],
       Reads(events, Copy!In(d)), Writes(events, Copy!From(d)),
       read[Copy!To(d)], write[Copy!Out(d)],
       Reads(events, Copy!To(d)), Writes(events, Copy!Out(d)),
       copying[d], got[d], wrote[d],
       Under("read", Copy!To(d)), Under("write", Copy!From(d)))

DirPhase(d) ==
  Phase(read[Copy!In(d)], Reads(events, Copy!In(d)),
        write[Copy!Out(d)], Writes(events, Copy!Out(d)), copying[d], Dead(d))

CopyTypes ==
  /\ read \in [1..4 -> Nat] /\ write \in [1..4 -> Seq(Int)] /\ events \in Seq(CopyEvent)
  /\ busy \in [{1, 4} -> SUBSET {"read", "write"}] /\ copying \in [1..2 -> Seq(Int)]
  /\ done \in SUBSET (1..3) /\ wrote \in [1..2 -> Seq(Int)] /\ got \in [1..2 -> Seq(Int)]
  /\ cancels \in Nat /\ ended \in Nat

\* The user is told once, and not before the pair has ended.
ToldOnce ==
  /\ ended + Len(Finals(events)) <= 1
  /\ 3 \notin done => ended = 0 /\ Finals(events) = <<>>

NoFault(s) == \A h \in ToSet(s) : h.op # "done" /\ h.ec = "ok"

\* Without a cancel nothing fails.
NothingFails == cancels = 0 => done = {} /\ ended = 0 /\ NoFault(events)

CopyInv ==
  /\ CopyTypes /\ ToldOnce /\ NothingFails
  /\ \A d \in 1..2 : DirCore(d) /\ DirPhase(d)

-----------------------------------------------------------------------------
\* The ends of a direction are all four, and those of the other direction are
\* the same ones the other way.
LEMMA EndsOf ==
  ASSUME NEW d \in 1..2, NEW d2 \in 1..2, d2 # d
  PROVE  /\ Copy!In(d) \in 1..4 /\ Copy!Out(d) \in 1..4 /\ Copy!From(d) \in 1..4 /\ Copy!To(d) \in 1..4
         /\ Copy!In(d) # Copy!Out(d) /\ Copy!In(d) # Copy!From(d) /\ Copy!In(d) # Copy!To(d)
         /\ Copy!Out(d) # Copy!From(d) /\ Copy!Out(d) # Copy!To(d) /\ Copy!From(d) # Copy!To(d)
         /\ Copy!Other(Copy!In(d)) = Copy!From(d) /\ Copy!Other(Copy!From(d)) = Copy!In(d)
         /\ Copy!Other(Copy!Out(d)) = Copy!To(d) /\ Copy!Other(Copy!To(d)) = Copy!Out(d)
         /\ Copy!In(d2) = Copy!Out(d) /\ Copy!Out(d2) = Copy!In(d)
         /\ Copy!From(d2) = Copy!To(d) /\ Copy!To(d2) = Copy!From(d)
         /\ Copy!From(d) \in {1, 4} /\ Copy!To(d) \in {1, 4}
         /\ \A e \in 1..4 : e \in {Copy!In(d), Copy!Out(d), Copy!From(d), Copy!To(d)}
<1>1. CASE d = 1
  BY <1>1 DEF Copy!In, Copy!Out, Copy!From, Copy!To, Copy!Other
<1>2. CASE d = 2
  BY <1>2 DEF Copy!In, Copy!Out, Copy!From, Copy!To, Copy!Other
<1> QED BY <1>1, <1>2

\* u is s with the ends of operations that went well.
AddsFine(s, u) ==
  /\ u \in Seq(CopyEvent) /\ Finals(u) = Finals(s)
  /\ \A h \in ToSet(u) : h \in ToSet(s) \/ (h.op # "done" /\ h.ec = "ok")

\* u is s with the ends of a read and of a write.
MoreBoth(s, u, er, hr, ew, hw) ==
  /\ u \in Seq(CopyEvent) /\ ToSet(u) = ToSet(s) \cup {hr, hw} /\ Finals(u) = Finals(s)
  /\ Reads(u, er) = Reads(s, er) \o <<hr>>
  /\ Writes(u, ew) = Writes(s, ew) \o <<hw>>
  /\ \A e \in 1..4 : e # er => Reads(u, e) = Reads(s, e)
  /\ \A e \in 1..4 : e # ew => Writes(u, e) = Writes(s, e)

\* Two handlers posted at once are posted one after the other.
LEMMA TwoMore ==
  ASSUME NEW S, NEW s \in Seq(S), NEW x \in S, NEW y \in S
  PROVE  s \o <<x, y>> = (s \o <<x>>) \o <<y>>
<1> DEFINE a == <<x>>
           b == <<y>>
<1>1. a \in Seq(S) /\ b \in Seq(S) /\ <<x, y>> = a \o b
  <2> DEFINE u == a \o b
             v == <<x, y>>
  <2>1. a \in Seq(S) /\ b \in Seq(S) /\ Len(a) = 1 /\ Len(b) = 1 /\ a[1] = x /\ b[1] = y
    OBVIOUS
  <2>2. v \in Seq(S) /\ Len(v) = 2 /\ v[1] = x /\ v[2] = y
    OBVIOUS
  <2> HIDE DEF a, b, v
  <2>3. u \in Seq(S) /\ Len(u) = 2 /\ u[1] = a[1] /\ u[2] = b[1]
    <3>0. a \in Seq(S) /\ b \in Seq(S)
      BY <2>1
    <3>1. u \in Seq(S) /\ Len(u) = Len(a) + Len(b)
      BY <3>0, ConcatElements
    <3>2. \A i \in 1..Len(a) : u[i] = a[i]
      BY <3>0, ConcatElements
    <3>3. \A i \in 1..Len(b) : u[Len(a) + i] = b[i]
      BY <3>0, ConcatElements
    <3> HIDE DEF u
    <3>4. u[1 + 1] = b[1]
      BY <2>1, <3>3
    <3> QED BY <2>1, <3>1, <3>2, <3>4
  <2> HIDE DEF u
  <2>4. \A i \in 1..2 : u[i] = v[i]
    BY <2>1, <2>2, <2>3
  <2>5. u = v
    BY <2>2, <2>3, <2>4
  <2> QED BY <2>1, <2>5 DEF u, v
<1> HIDE DEF a, b
<1>2. (s \o a) \o b = s \o (a \o b)
  BY <1>1, ConcatAssoc
<1> QED BY <1>1, <1>2 DEF a, b

\* The ends of a read and a write are posted, in either order.
LEMMA PostBoth ==
  ASSUME NEW s \in Seq(CopyEvent), NEW er \in 1..4, NEW ew \in 1..4,
         NEW hr \in ReadsOf(er), NEW hw \in WritesOf(ew)
  PROVE  /\ MoreBoth(s, s \o <<hr, hw>>, er, hr, ew, hw)
         /\ MoreBoth(s, s \o <<hw, hr>>, er, hr, ew, hw)
<1>1. MoreBoth(s, (s \o <<hr>>) \o <<hw>>, er, hr, ew, hw)
  <2> DEFINE u == s \o <<hr>>
             v == u \o <<hw>>
  <2>1. MoreReads(s, u, er, hr)
    BY PostRead
  <2> HIDE DEF u
  <2>2. MoreWrites(u, v, ew, hw)
    <3>1. u \in Seq(CopyEvent)
      BY <2>1 DEF MoreReads
    <3> QED BY <3>1, PostWrite
  <2> HIDE DEF v
  <2>3. MoreBoth(s, v, er, hr, ew, hw)
    BY <2>1, <2>2 DEF MoreReads, MoreWrites, MoreBoth
  <2> QED BY <2>3 DEF u, v
<1>2. MoreBoth(s, (s \o <<hw>>) \o <<hr>>, er, hr, ew, hw)
  <2> DEFINE u == s \o <<hw>>
             v == u \o <<hr>>
  <2>1. MoreWrites(s, u, ew, hw)
    BY PostWrite
  <2> HIDE DEF u
  <2>2. MoreReads(u, v, er, hr)
    <3>1. u \in Seq(CopyEvent)
      BY <2>1 DEF MoreWrites
    <3> QED BY <3>1, PostRead
  <2> HIDE DEF v
  <2>3. MoreBoth(s, v, er, hr, ew, hw)
    BY <2>1, <2>2 DEF MoreReads, MoreWrites, MoreBoth
  <2> QED BY <2>3 DEF u, v
<1>3. hr \in CopyEvent /\ hw \in CopyEvent
  BY KindsApart
<1>4. s \o <<hr, hw>> = (s \o <<hr>>) \o <<hw>>
  BY <1>3, TwoMore
<1>5. s \o <<hw, hr>> = (s \o <<hw>>) \o <<hr>>
  BY <1>3, TwoMore, SMTT(30)
<1> QED BY <1>1, <1>2, <1>4, <1>5

\* The end of a read that went well.
LEMMA ReadEnd ==
  ASSUME NEW e \in 1..4, NEW bytes \in Seq(Int)
  PROVE  /\ Copy!ReadDone(e, "ok", bytes) \in ReadsOf(e)
         /\ Copy!ReadDone(e, "ok", bytes).bytes = bytes /\ Copy!ReadDone(e, "ok", bytes).ec = "ok"
         /\ Copy!ReadDone(e, "ok", bytes).op = "read"
BY DEF Copy!ReadDone, ReadsOf, ReadEvent

\* The end of a write that went well.
LEMMA WriteEnd ==
  ASSUME NEW e \in 1..4, NEW n \in Nat
  PROVE  /\ Copy!WriteDone(e, "ok", n) \in WritesOf(e)
         /\ Copy!WriteDone(e, "ok", n).n = n /\ Copy!WriteDone(e, "ok", n).ec = "ok"
         /\ Copy!WriteDone(e, "ok", n).op = "write"
BY DEF Copy!WriteDone, WritesOf, WriteEvent

\* The ends of operations that are canceled.
LEMMA AbortedEnd ==
  ASSUME NEW e \in 1..4
  PROVE  /\ Copy!ReadDone(e, "aborted", <<>>) \in ReadsOf(e)
         /\ Copy!ReadDone(e, "aborted", <<>>).bytes = <<>>
         /\ Copy!WriteDone(e, "aborted", 0) \in WritesOf(e)
         /\ Copy!WriteDone(e, "aborted", 0).n = 0
<1>1. <<>> \in Seq(Int) /\ 0 \in Nat
  BY EmptyIsSeq
<1> QED BY <1>1 DEF Copy!ReadDone, ReadsOf, ReadEvent, Copy!WriteDone, WritesOf, WriteEvent

\* What a read takes of a write are its first bytes.
LEMMA CopiedPart ==
  ASSUME NEW size \in Nat, NEW bytes \in Seq(Int)
  PROVE  \E n \in 0..Len(bytes) : /\ Copy!Copied(size, bytes) = SubSeq(bytes, 1, n)
                                  /\ Len(SubSeq(bytes, 1, n)) = n
                                  /\ SubSeq(bytes, 1, n) \in Seq(Int)
<1> DEFINE n == IF size < Len(bytes) THEN size ELSE Len(bytes)
<1>1. n \in 0..Len(bytes) /\ Copy!Copied(size, bytes) = SubSeq(bytes, 1, n)
  BY DEF Copy!Copied
<1> HIDE DEF n
<1>2. Len(SubSeq(bytes, 1, n)) = n /\ SubSeq(bytes, 1, n) \in Seq(Int)
  BY <1>1
<1> QED BY <1>1, <1>2

\* The ends of a read of er and of a write of ew, for the first of some bytes.
Meet(s, er, ew, bytes) ==
  \E n \in 0..Len(bytes), hr \in CopyEvent, hw \in CopyEvent :
    /\ hr.bytes = SubSeq(bytes, 1, n) /\ hw.n = n /\ MoreBoth(s, events', er, hr, ew, hw)

NothingRead(s, e) ==
  /\ read' = read /\ write' = write
  /\ \E h \in CopyEvent : h.bytes = <<>> /\ MoreReads(s, events', e, h)

NothingWritten(s, e) ==
  /\ read' = read /\ write' = write
  /\ \E h \in CopyEvent : h.n = 0 /\ MoreWrites(s, events', e, h)

\* What is posted for a read that meets a write.
LEMMA Meeting ==
  ASSUME NEW s \in Seq(CopyEvent), NEW er \in 1..4, NEW ew \in 1..4, NEW size \in Nat,
         NEW bytes \in Seq(Int),
         LET b == Copy!Copied(size, bytes)
             hr == Copy!ReadDone(er, "ok", b)
             hw == Copy!WriteDone(ew, "ok", Len(b))
         IN events' = s \o <<hr, hw>> \/ events' = s \o <<hw, hr>>
  PROVE  Meet(s, er, ew, bytes) /\ AddsFine(s, events')
<1> DEFINE b == Copy!Copied(size, bytes)
           hr == Copy!ReadDone(er, "ok", b)
           hw == Copy!WriteDone(ew, "ok", Len(b))
<1>1. PICK n \in 0..Len(bytes) : b = SubSeq(bytes, 1, n) /\ Len(b) = n /\ b \in Seq(Int)
  BY CopiedPart
<1>2. n \in Nat
  OBVIOUS
<1>3. events' = s \o <<hr, hw>> \/ events' = s \o <<hw, hr>>
  OBVIOUS
<1> HIDE DEF b
<1>4. /\ hr \in ReadsOf(er) /\ hr.bytes = b /\ hr.ec = "ok" /\ hr.op = "read"
      /\ hw \in WritesOf(ew) /\ hw.n = n /\ hw.ec = "ok" /\ hw.op = "write"
  <2>1. /\ hr \in ReadsOf(er) /\ hr.bytes = b /\ hr.ec = "ok" /\ hr.op = "read"
    BY <1>1, ReadEnd
  <2>2. hw \in WritesOf(ew) /\ hw.n = n /\ hw.ec = "ok" /\ hw.op = "write"
    BY <1>1, <1>2, WriteEnd, SMTT(30)
  <2> QED BY <2>1, <2>2
<1> HIDE DEF hr, hw
<1>5. hr \in CopyEvent /\ hw \in CopyEvent
  BY <1>4, KindsApart
<1>7. MoreBoth(s, events', er, hr, ew, hw)
  BY <1>3, <1>4, PostBoth
<1>8. Meet(s, er, ew, bytes)
  BY <1>1, <1>4, <1>5, <1>7 DEF Meet
<1>9. AddsFine(s, events')
  BY <1>4, <1>7 DEF AddsFine, MoreBoth
<1> QED BY <1>8, <1>9

\* A read of no bytes ends at once.
LEMMA OneMoreRead ==
  ASSUME NEW s \in Seq(CopyEvent), NEW e \in 1..4, read' = read, write' = write,
         events' = Append(s, Copy!ReadDone(e, "ok", <<>>))
  PROVE  NothingRead(s, e) /\ AddsFine(s, events')
<1> DEFINE h == Copy!ReadDone(e, "ok", <<>>)
<1>1. h \in ReadsOf(e) /\ h.bytes = <<>> /\ h.ec = "ok" /\ h.op = "read"
  BY EmptyIsSeq, ReadEnd
<1>2. events' = Append(s, h)
  OBVIOUS
<1> HIDE DEF h
<1>3. h \in CopyEvent
  BY <1>1, KindsApart
<1>4. events' = s \o <<h>>
  BY <1>2, <1>3
<1>5. MoreReads(s, events', e, h)
  BY <1>1, <1>4, PostRead
<1>6. AddsFine(s, events')
  BY <1>1, <1>5 DEF AddsFine, MoreReads
<1> QED BY <1>1, <1>3, <1>5, <1>6 DEF NothingRead

\* A write of no bytes ends at once.
LEMMA OneMoreWrite ==
  ASSUME NEW s \in Seq(CopyEvent), NEW e \in 1..4, read' = read, write' = write,
         events' = Append(s, Copy!WriteDone(e, "ok", 0))
  PROVE  NothingWritten(s, e) /\ AddsFine(s, events')
<1> DEFINE h == Copy!WriteDone(e, "ok", 0)
<1>1. h \in WritesOf(e) /\ h.n = 0 /\ h.ec = "ok" /\ h.op = "write"
  BY WriteEnd
<1>2. events' = Append(s, h)
  OBVIOUS
<1> HIDE DEF h
<1>3. h \in CopyEvent
  BY <1>1, KindsApart
<1>4. events' = s \o <<h>>
  BY <1>2, <1>3
<1>5. MoreWrites(s, events', e, h)
  BY <1>1, <1>4, PostWrite
<1>6. AddsFine(s, events')
  BY <1>1, <1>5 DEF AddsFine, MoreWrites
<1> QED BY <1>1, <1>3, <1>5, <1>6 DEF NothingWritten

PipeTypes == read \in [1..4 -> Nat] /\ write \in [1..4 -> Seq(Int)]

\* async_read_some.
LEMMA ReadSome ==
  ASSUME PipeTypes, NEW s \in Seq(CopyEvent), NEW e \in 1..4, NEW o \in 1..4,
         Copy!Other(e) = o, NEW size \in Nat,
         Copy!Becomes(Copy!AsyncReadSome(Copy!Pipes(s), e, size))
  PROVE  /\ AddsFine(s, events')
         /\ \/ size = 0 /\ NothingRead(s, e)
            \/ /\ size # 0 /\ write[o] = <<>> /\ events' = s
               /\ read' = [read EXCEPT ![e] = size] /\ write' = write
            \/ /\ size # 0 /\ write[o] # <<>> /\ Meet(s, e, o, write[o])
               /\ read' = read /\ write' = [write EXCEPT ![o] = <<>>]
<1>0. write[o] \in Seq(Int)
  BY DEF PipeTypes
<1>1. CASE size = 0
  <2>1. /\ read' = read /\ write' = write
        /\ events' = Append(s, Copy!ReadDone(e, "ok", <<>>))
    BY <1>1 DEF Copy!Becomes, Copy!AsyncReadSome, Copy!Pipes
  <2> QED BY <1>1, <2>1, OneMoreRead
<1>2. CASE size # 0 /\ write[o] = <<>>
  <2>1. read' = [read EXCEPT ![e] = size] /\ write' = write /\ events' = s
    BY <1>2 DEF Copy!Becomes, Copy!AsyncReadSome, Copy!Pipes
  <2> QED BY <1>2, <2>1 DEF AddsFine
<1>3. CASE size # 0 /\ write[o] # <<>>
  <2> DEFINE b == Copy!Copied(size, write[o])
  <2>1. /\ read' = read /\ write' = [write EXCEPT ![o] = <<>>]
        /\ events' = s \o <<Copy!WriteDone(o, "ok", Len(b)), Copy!ReadDone(e, "ok", b)>>
    BY <1>3, SMTT(30) DEF Copy!Becomes, Copy!AsyncReadSome, Copy!Pipes
  <2>2. Meet(s, e, o, write[o]) /\ AddsFine(s, events')
    BY <1>0, <2>1, Meeting
  <2> QED BY <1>3, <2>1, <2>2
<1> QED BY <1>1, <1>2, <1>3

\* async_write_some.
LEMMA WriteSome ==
  ASSUME PipeTypes, NEW s \in Seq(CopyEvent), NEW e \in 1..4, NEW o \in 1..4,
         Copy!Other(e) = o, NEW bytes \in Seq(Int),
         Copy!Becomes(Copy!AsyncWriteSome(Copy!Pipes(s), e, bytes))
  PROVE  /\ AddsFine(s, events')
         /\ \/ bytes = <<>> /\ NothingWritten(s, e)
            \/ /\ bytes # <<>> /\ read[o] = 0 /\ events' = s
               /\ read' = read /\ write' = [write EXCEPT ![e] = bytes]
            \/ /\ bytes # <<>> /\ read[o] # 0 /\ Meet(s, o, e, bytes)
               /\ read' = [read EXCEPT ![o] = 0] /\ write' = write
<1>0. read[o] \in Nat
  BY DEF PipeTypes
<1>1. CASE bytes = <<>>
  <2>1. /\ read' = read /\ write' = write
        /\ events' = Append(s, Copy!WriteDone(e, "ok", 0))
    BY <1>1 DEF Copy!Becomes, Copy!AsyncWriteSome, Copy!Pipes
  <2> QED BY <1>1, <2>1, OneMoreWrite
<1>2. CASE bytes # <<>> /\ read[o] = 0
  <2>1. read' = read /\ write' = [write EXCEPT ![e] = bytes] /\ events' = s
    BY <1>2 DEF Copy!Becomes, Copy!AsyncWriteSome, Copy!Pipes
  <2> QED BY <1>2, <2>1 DEF AddsFine
<1>3. CASE bytes # <<>> /\ read[o] # 0
  <2> DEFINE b == Copy!Copied(read[o], bytes)
  <2>1. /\ read' = [read EXCEPT ![o] = 0] /\ write' = write
        /\ events' = s \o <<Copy!ReadDone(o, "ok", b), Copy!WriteDone(e, "ok", Len(b))>>
    BY <1>3, SMTT(30) DEF Copy!Becomes, Copy!AsyncWriteSome, Copy!Pipes
  <2>2. Meet(s, o, e, bytes) /\ AddsFine(s, events')
    BY <1>0, <2>1, Meeting
  <2> QED BY <1>3, <2>1, <2>2
<1> QED BY <1>1, <1>2, <1>3

-----------------------------------------------------------------------------
(* StreamCopy: what a step leaves alone *)

\* The invariant of a direction in the next state.
LEMMA DirPrimed ==
  ASSUME NEW d \in 1..2
  PROVE  /\ Core(read'[Copy!In(d)], write'[Copy!From(d)],
                 Reads(events', Copy!In(d)), Writes(events', Copy!From(d)),
                 read'[Copy!To(d)], write'[Copy!Out(d)],
                 Reads(events', Copy!To(d)), Writes(events', Copy!Out(d)),
                 copying'[d], got'[d], wrote'[d],
                 Under("read", Copy!To(d))', Under("write", Copy!From(d))') => DirCore(d)'
         /\ Phase(read'[Copy!In(d)], Reads(events', Copy!In(d)),
                  write'[Copy!Out(d)], Writes(events', Copy!Out(d)), copying'[d], Dead(d)')
              => DirPhase(d)'
BY DEF DirCore, DirPhase, Copy!In, Copy!Out, Copy!From, Copy!To

\* A step of direction d leaves the other one, d2, alone.
Beside(d, d2) ==
  /\ read'[Copy!Out(d)] = read[Copy!Out(d)] /\ read'[Copy!From(d)] = read[Copy!From(d)]
  /\ write'[Copy!In(d)] = write[Copy!In(d)] /\ write'[Copy!To(d)] = write[Copy!To(d)]
  /\ Reads(events', Copy!Out(d)) = Reads(events, Copy!Out(d))
  /\ Reads(events', Copy!From(d)) = Reads(events, Copy!From(d))
  /\ Writes(events', Copy!In(d)) = Writes(events, Copy!In(d))
  /\ Writes(events', Copy!To(d)) = Writes(events, Copy!To(d))
  /\ copying'[d2] = copying[d2] /\ got'[d2] = got[d2] /\ wrote'[d2] = wrote[d2]
  /\ Under("read", Copy!From(d))' = Under("read", Copy!From(d))
  /\ Under("write", Copy!To(d))' = Under("write", Copy!To(d))
  /\ Dead(d2)' = Dead(d2)

\* Then its invariant is kept, and it is enough to look at direction d.
LEMMA OneDirection ==
  ASSUME CopyInv, NEW d \in 1..2, NEW d2 \in 1..2, d2 # d, Beside(d, d2),
         DirCore(d)', DirPhase(d)', CopyTypes', ToldOnce', NothingFails'
  PROVE  CopyInv'
<1>1. /\ Copy!In(d2) = Copy!Out(d) /\ Copy!Out(d2) = Copy!In(d)
      /\ Copy!From(d2) = Copy!To(d) /\ Copy!To(d2) = Copy!From(d)
  BY EndsOf
<1>2. DirCore(d2) /\ DirPhase(d2)
  BY DEF CopyInv
<1>3. Under("read", Copy!To(d2))' = Under("read", Copy!To(d2))
  BY <1>1 DEF Beside, Under, Copy!To, Copy!From
<1>4. Under("write", Copy!From(d2))' = Under("write", Copy!From(d2))
  BY <1>1 DEF Beside, Under, Copy!To, Copy!From
<1>5. DirCore(d2)'
  <2>1. Core(read'[Copy!In(d2)], write'[Copy!From(d2)],
             Reads(events', Copy!In(d2)), Writes(events', Copy!From(d2)),
             read'[Copy!To(d2)], write'[Copy!Out(d2)],
             Reads(events', Copy!To(d2)), Writes(events', Copy!Out(d2)),
             copying'[d2], got'[d2], wrote'[d2],
             Under("read", Copy!To(d2))', Under("write", Copy!From(d2))')
    BY <1>1, <1>2, <1>3, <1>4 DEF DirCore, Beside
  <2> QED BY <2>1, DirPrimed
<1>6. DirPhase(d2)'
  <2>1. Phase(read'[Copy!In(d2)], Reads(events', Copy!In(d2)),
              write'[Copy!Out(d2)], Writes(events', Copy!Out(d2)), copying'[d2], Dead(d2)')
    BY <1>1, <1>2 DEF DirPhase, Beside
  <2> QED BY <2>1, DirPrimed
<1>7. \A k \in 1..2 : k = d \/ k = d2
  OBVIOUS
<1> QED BY <1>5, <1>6, <1>7 DEF CopyInv

\* The rest of the invariant where no copy fails.
LEMMA RestKept ==
  ASSUME CopyInv, NEW s \in Seq(CopyEvent), ToSet(s) \subseteq ToSet(events),
         Finals(s) = Finals(events), AddsFine(s, events'), UNCHANGED <<done, cancels, ended>>
  PROVE  ToldOnce' /\ NothingFails'
<1>1. Finals(events') = Finals(events)
  BY DEF AddsFine
<1>2. ToldOnce'
  BY <1>1 DEF CopyInv, ToldOnce
<1>3. NoFault(events) => NoFault(events')
  BY DEF AddsFine, NoFault
<1>4. NothingFails'
  BY <1>3 DEF CopyInv, NothingFails
<1> QED BY <1>2, <1>4

\* The user's operations that are under way.
LEMMA UserBusy ==
  ASSUME CopyTypes, NEW e \in {1, 4}, NEW op \in {"read", "write"},
         NEW op2 \in {"read", "write"}, op2 # op, NEW e2 \in {1, 4}, e2 # e
  PROVE  /\ busy' = [busy EXCEPT ![e] = @ \cup {op}] =>
              /\ busy' \in [{1, 4} -> SUBSET {"read", "write"}]
              /\ Under(op, e)' = 1 /\ Under(op2, e)' = Under(op2, e)
              /\ Under(op, e2)' = Under(op, e2) /\ Under(op2, e2)' = Under(op2, e2)
         /\ busy' = [busy EXCEPT ![e] = @ \ {op}] =>
              /\ busy' \in [{1, 4} -> SUBSET {"read", "write"}]
              /\ Under(op, e)' = 0 /\ Under(op2, e)' = Under(op2, e)
              /\ Under(op, e2)' = Under(op, e2) /\ Under(op2, e2)' = Under(op2, e2)
<1>1. busy \in [{1, 4} -> SUBSET {"read", "write"}]
  BY DEF CopyTypes
<1>2. ASSUME busy' = [busy EXCEPT ![e] = @ \cup {op}]
      PROVE  /\ busy' \in [{1, 4} -> SUBSET {"read", "write"}]
             /\ Under(op, e)' = 1 /\ Under(op2, e)' = Under(op2, e)
             /\ Under(op, e2)' = Under(op, e2) /\ Under(op2, e2)' = Under(op2, e2)
  <2>1. busy'[e] = busy[e] \cup {op} /\ busy'[e2] = busy[e2]
    BY <1>1, <1>2
  <2>2. busy' \in [{1, 4} -> SUBSET {"read", "write"}]
    BY <1>1, <1>2
  <2> QED BY <2>1, <2>2 DEF Under
<1>3. ASSUME busy' = [busy EXCEPT ![e] = @ \ {op}]
      PROVE  /\ busy' \in [{1, 4} -> SUBSET {"read", "write"}]
             /\ Under(op, e)' = 0 /\ Under(op2, e)' = Under(op2, e)
             /\ Under(op, e2)' = Under(op, e2) /\ Under(op2, e2)' = Under(op2, e2)
  <2>1. busy'[e] = busy[e] \ {op} /\ busy'[e2] = busy[e2]
    BY <1>1, <1>3
  <2>2. busy' \in [{1, 4} -> SUBSET {"read", "write"}]
    BY <1>1, <1>3
  <2> QED BY <2>1, <2>2 DEF Under
<1> QED BY <1>2, <1>3

-----------------------------------------------------------------------------
(* StreamCopy: the steps *)

\* Nothing was posted where there was nothing.
LEMMA FirstOne ==
  ASSUME NEW q, NEW h, NEW r, q = <<>>, r = q \o <<h>>
  PROVE  r = <<h>>
OBVIOUS

\* A user reads.
LEMMA UserReadsKeeps ==
  ASSUME CopyInv, NEW d \in 1..2, NEW d2 \in 1..2, d2 # d, NEW size \in Nat,
         Copy!UserReads(d, size)
  PROVE  CopyInv'
<1> DEFINE i == Copy!In(d)
           f == Copy!From(d)
           t == Copy!To(d)
           o == Copy!Out(d)
<1>0. /\ CopyTypes /\ PipeTypes /\ events \in Seq(CopyEvent) /\ DirPhase(d)
      /\ write[o] \in Seq(Int) /\ read[t] \in Nat
  BY EndsOf DEF CopyInv, CopyTypes, PipeTypes
<1>1. /\ i \in 1..4 /\ f \in 1..4 /\ t \in 1..4 /\ o \in 1..4 /\ Copy!Other(t) = o
      /\ i # o /\ i # f /\ i # t /\ o # f /\ o # t /\ f # t /\ t \in {1, 4} /\ f \in {1, 4}
  BY EndsOf
<1>2. /\ "read" \notin busy[t] /\ busy' = [busy EXCEPT ![t] = @ \cup {"read"}]
      /\ Copy!Becomes(Copy!AsyncReadSome(Copy!Pipes(events), t, size))
      /\ UNCHANGED <<copying, done, wrote, got, cancels, ended>>
  BY DEF Copy!UserReads
<1>3. Core(read[i], write[f], Reads(events, i), Writes(events, f), read[t], write[o],
           Reads(events, t), Writes(events, o), copying[d], got[d], wrote[d],
           Under("read", t), Under("write", f))
  BY DEF CopyInv, DirCore
<1>4. Phase(read[i], Reads(events, i), write[o], Writes(events, o), copying[d], Dead(d))
  BY <1>0 DEF DirPhase
<1>5. /\ Core(read'[i], write'[f], Reads(events', i), Writes(events', f), read'[t], write'[o],
              Reads(events', t), Writes(events', o), copying'[d], got'[d], wrote'[d],
              Under("read", t)', Under("write", f)') => DirCore(d)'
      /\ Phase(read'[i], Reads(events', i), write'[o], Writes(events', o), copying'[d], Dead(d)')
           => DirPhase(d)'
  BY DirPrimed
<1>6. /\ busy' \in [{1, 4} -> SUBSET {"read", "write"}]
      /\ Under("read", t)' = 1 /\ Under("write", t)' = Under("write", t)
      /\ Under("read", f)' = Under("read", f) /\ Under("write", f)' = Under("write", f)
  BY <1>0, <1>1, <1>2, UserBusy
<1>7. Under("read", t) = 0 /\ Dead(d)' = Dead(d) /\ Dead(d2)' = Dead(d2)
  BY <1>2 DEF Under, Dead
<1>8. /\ AddsFine(events, events')
      /\ \/ size = 0 /\ NothingRead(events, t)
         \/ /\ size # 0 /\ write[o] = <<>> /\ events' = events
            /\ read' = [read EXCEPT ![t] = size] /\ write' = write
         \/ /\ size # 0 /\ write[o] # <<>> /\ Meet(events, t, o, write[o])
            /\ read' = read /\ write' = [write EXCEPT ![o] = <<>>]
  BY <1>0, <1>1, <1>2, ReadSome
<1>9. ToldOnce' /\ NothingFails'
  BY <1>0, <1>2, <1>8, RestKept
<1>10. /\ read' \in [1..4 -> Nat] /\ write' \in [1..4 -> Seq(Int)]
  BY <1>0, <1>8, EmptyIsSeq DEF PipeTypes, NothingRead
<1>11. CopyTypes'
  BY <1>0, <1>2, <1>6, <1>8, <1>10 DEF CopyTypes, AddsFine
<1>12. Reads(events, t) = <<>> /\ read[t] = 0
  BY <1>3, <1>7 DEF Core, User
<1>13. ASSUME Beside(d, d2), DirCore(d)', DirPhase(d)' PROVE CopyInv'
  BY <1>9, <1>11, <1>13, OneDirection
<1> DEFINE beside == /\ read'[o] = read[o] /\ read'[f] = read[f] /\ write'[i] = write[i]
                     /\ write'[t] = write[t]
                     /\ Reads(events', o) = Reads(events, o) /\ Reads(events', f) = Reads(events, f)
                     /\ Writes(events', i) = Writes(events, i) /\ Writes(events', t) = Writes(events, t)
<1>14. beside => Beside(d, d2)
  BY <1>2, <1>6, <1>7 DEF Beside
<1> HIDE DEF i, f, t, o
<1>15. CASE size = 0 /\ NothingRead(events, t)
  <2>1. PICK h : h.bytes = <<>> /\ MoreReads(events, events', t, h)
    BY <1>15 DEF NothingRead
  <2>2. /\ Reads(events', t) = Reads(events, t) \o <<h>> /\ Reads(events', i) = Reads(events, i)
        /\ Writes(events', f) = Writes(events, f) /\ Writes(events', o) = Writes(events, o)
        /\ read' = read /\ write' = write
    BY <1>1, <1>15, <2>1 DEF MoreReads, NothingRead
  <2>3. Reads(events', t) = <<h>>
    BY <1>12, <2>2, FirstOne
  <2>4. Core(read[i], write[f], Reads(events, i), Writes(events, f), read[t], write[o],
             <<h>>, Writes(events, o), copying[d], got[d], wrote[d], 1, Under("write", f))
    BY <1>3, <1>7, <2>1, UserReadsNothing
  <2>5. DirCore(d)'
    BY <1>2, <1>5, <1>6, <2>2, <2>3, <2>4
  <2>6. DirPhase(d)'
    BY <1>2, <1>4, <1>5, <1>7, <2>2
  <2>7. beside
    BY <1>1, <2>1, <2>2 DEF MoreReads
  <2> QED BY <1>13, <1>14, <2>5, <2>6, <2>7
<1>16. CASE /\ size # 0 /\ write[o] = <<>> /\ events' = events
            /\ read' = [read EXCEPT ![t] = size] /\ write' = write
  <2>1. read'[t] = size /\ read'[i] = read[i] /\ read'[o] = read[o] /\ read'[f] = read[f]
    BY <1>0, <1>1, <1>16 DEF PipeTypes
  <2>2. Core(read[i], write[f], Reads(events, i), Writes(events, f), size, write[o],
             Reads(events, t), Writes(events, o), copying[d], got[d], wrote[d], 1,
             Under("write", f))
    BY <1>3, <1>7, <1>16, UserReadsLater
  <2>3. DirCore(d)'
    BY <1>2, <1>5, <1>6, <1>16, <2>1, <2>2
  <2>4. DirPhase(d)'
    BY <1>2, <1>4, <1>5, <1>7, <1>16, <2>1
  <2>5. beside
    BY <1>16, <2>1
  <2> QED BY <1>13, <1>14, <2>3, <2>4, <2>5
<1>17. CASE /\ size # 0 /\ write[o] # <<>> /\ Meet(events, t, o, write[o])
            /\ read' = read /\ write' = [write EXCEPT ![o] = <<>>]
  <2>1. PICK n \in 0..Len(write[o]), hr \in CopyEvent, hw \in CopyEvent :
             /\ hr.bytes = SubSeq(write[o], 1, n) /\ hw.n = n
             /\ MoreBoth(events, events', t, hr, o, hw)
    BY <1>17 DEF Meet
  <2>2. /\ write'[o] = <<>> /\ write'[i] = write[i] /\ write'[f] = write[f] /\ write'[t] = write[t]
    BY <1>0, <1>1, <1>17 DEF PipeTypes
  <2>3. Writes(events, o) = <<>> /\ Dead(d) = 0 /\ read[i] = 0 /\ Reads(events, i) = <<>>
    BY <1>4, <1>17 DEF Phase
  <2>4. /\ Reads(events', t) = Reads(events, t) \o <<hr>> /\ Reads(events', i) = Reads(events, i)
        /\ Writes(events', f) = Writes(events, f) /\ Writes(events', o) = Writes(events, o) \o <<hw>>
    BY <1>1, <2>1 DEF MoreBoth
  <2>5. Reads(events', t) = <<hr>>
    BY <1>12, <2>4, FirstOne
  <2>6. Writes(events', o) = <<hw>>
    BY <2>3, <2>4, FirstOne
  <2>7. Core(read[i], write[f], Reads(events, i), Writes(events, f), read[t], <<>>,
             <<hr>>, <<hw>>, copying[d], got[d], wrote[d], 1, Under("write", f))
    BY <1>3, <1>7, <1>17, <2>1, <2>3, UserReadsNow
  <2>8. DirCore(d)'
    BY <1>2, <1>5, <1>6, <1>17, <2>2, <2>4, <2>5, <2>6, <2>7
  <2>9. DirPhase(d)'
    <3>1. Phase(read[i], Reads(events, i), <<>>, <<hw>>, copying[d], Dead(d))
      BY <2>3, OneBytes DEF Phase
    <3> QED BY <1>2, <1>5, <1>7, <1>17, <2>2, <2>4, <2>6, <3>1
  <2>10. beside
    BY <1>1, <1>17, <2>1, <2>2 DEF MoreBoth
  <2> QED BY <1>13, <1>14, <2>8, <2>9, <2>10
<1> QED BY <1>8, <1>15, <1>16, <1>17

\* A user writes.
LEMMA UserWritesKeeps ==
  ASSUME CopyInv, NEW d \in 1..2, NEW d2 \in 1..2, d2 # d, NEW size \in Nat,
         Copy!UserWrites(d, size)
  PROVE  CopyInv'
<1> DEFINE i == Copy!In(d)
           f == Copy!From(d)
           t == Copy!To(d)
           o == Copy!Out(d)
           k == Len(wrote[d])
           b == Run(k, size)
<1>0. /\ CopyTypes /\ PipeTypes /\ events \in Seq(CopyEvent) /\ DirPhase(d)
      /\ wrote[d] \in Seq(Int) /\ k \in Int
  <2>1. CopyTypes /\ DirPhase(d)
    BY DEF CopyInv
  <2>2. wrote[d] \in Seq(Int) /\ PipeTypes /\ events \in Seq(CopyEvent)
    BY <2>1 DEF CopyTypes, PipeTypes
  <2>3. Len(wrote[d]) \in Int
    BY <2>2
  <2> QED BY <2>1, <2>2, <2>3
<1>1. /\ i \in 1..4 /\ f \in 1..4 /\ t \in 1..4 /\ o \in 1..4 /\ Copy!Other(f) = i
      /\ i # o /\ i # f /\ i # t /\ o # f /\ o # t /\ f # t /\ t \in {1, 4} /\ f \in {1, 4}
  BY EndsOf
<1>2. /\ "write" \notin busy[f] /\ busy' = [busy EXCEPT ![f] = @ \cup {"write"}]
      /\ Copy!Becomes(Copy!AsyncWriteSome(Copy!Pipes(events), f, b))
      /\ UNCHANGED <<copying, done, wrote, got, cancels, ended>>
  BY DEF Copy!UserWrites, Run
<1>3. Core(read[i], write[f], Reads(events, i), Writes(events, f), read[t], write[o],
           Reads(events, t), Writes(events, o), copying[d], got[d], wrote[d],
           Under("read", t), Under("write", f))
  BY DEF CopyInv, DirCore
<1>4. Phase(read[i], Reads(events, i), write[o], Writes(events, o), copying[d], Dead(d))
  BY <1>0 DEF DirPhase
<1>5. /\ Core(read'[i], write'[f], Reads(events', i), Writes(events', f), read'[t], write'[o],
              Reads(events', t), Writes(events', o), copying'[d], got'[d], wrote'[d],
              Under("read", t)', Under("write", f)') => DirCore(d)'
      /\ Phase(read'[i], Reads(events', i), write'[o], Writes(events', o), copying'[d], Dead(d)')
           => DirPhase(d)'
  BY DirPrimed
<1>6. /\ busy' \in [{1, 4} -> SUBSET {"read", "write"}]
      /\ Under("write", f)' = 1 /\ Under("write", t)' = Under("write", t)
      /\ Under("read", f)' = Under("read", f) /\ Under("read", t)' = Under("read", t)
  BY <1>0, <1>1, <1>2, UserBusy
<1>7. Under("write", f) = 0 /\ Dead(d)' = Dead(d) /\ Dead(d2)' = Dead(d2)
  BY <1>2 DEF Under, Dead
<1>18. b \in Seq(Int) /\ Len(b) = size /\ (b = <<>> <=> size = 0)
  BY <1>0, RunFacts
<1>13. ASSUME CopyTypes', ToldOnce', NothingFails', Beside(d, d2), DirCore(d)', DirPhase(d)'
       PROVE  CopyInv'
  BY <1>13, OneDirection
<1> DEFINE beside == /\ read'[o] = read[o] /\ read'[f] = read[f] /\ write'[i] = write[i]
                     /\ write'[t] = write[t]
                     /\ Reads(events', o) = Reads(events, o) /\ Reads(events', f) = Reads(events, f)
                     /\ Writes(events', i) = Writes(events, i) /\ Writes(events', t) = Writes(events, t)
<1>14. beside => Beside(d, d2)
  BY <1>2, <1>6, <1>7 DEF Beside
<1> HIDE DEF i, f, t, o, b
<1>8. /\ AddsFine(events, events')
      /\ \/ b = <<>> /\ NothingWritten(events, f)
         \/ /\ b # <<>> /\ read[i] = 0 /\ events' = events
            /\ read' = read /\ write' = [write EXCEPT ![f] = b]
         \/ /\ b # <<>> /\ read[i] # 0 /\ Meet(events, i, f, b)
            /\ read' = [read EXCEPT ![i] = 0] /\ write' = write
  BY <1>0, <1>1, <1>2, <1>18, WriteSome
<1>9. ToldOnce' /\ NothingFails'
  BY <1>0, <1>2, <1>8, RestKept
<1>10. /\ read' \in [1..4 -> Nat] /\ write' \in [1..4 -> Seq(Int)]
  <2>1. read \in [1..4 -> Nat] /\ write \in [1..4 -> Seq(Int)]
    BY <1>0 DEF PipeTypes
  <2>2. /\ read' = read \/ read' = [read EXCEPT ![i] = 0]
        /\ write' = write \/ write' = [write EXCEPT ![f] = b]
    BY <1>8 DEF NothingWritten
  <2>3. b \in Seq(Int)
    BY <1>18
  <2>4. write' \in [1..4 -> Seq(Int)]
    BY <2>1, <2>2, <2>3
  <2>5. read' \in [1..4 -> Nat]
    BY <2>1, <2>2
  <2> QED BY <2>4, <2>5
<1>11. CopyTypes'
  BY <1>0, <1>2, <1>6, <1>8, <1>10 DEF CopyTypes, AddsFine
<1>12. Writes(events, f) = <<>> /\ write[f] = <<>>
  BY <1>3, <1>7 DEF Core, User
<1>15. CASE b = <<>> /\ NothingWritten(events, f)
  <2>1. PICK h : h.n = 0 /\ MoreWrites(events, events', f, h)
    BY <1>15 DEF NothingWritten
  <2>2. /\ Writes(events', f) = Writes(events, f) \o <<h>> /\ Reads(events', i) = Reads(events, i)
        /\ Reads(events', t) = Reads(events, t) /\ Writes(events', o) = Writes(events, o)
        /\ read' = read /\ write' = write
    BY <1>1, <1>15, <2>1 DEF MoreWrites, NothingWritten
  <2>3. Writes(events', f) = <<h>>
    BY <1>12, <2>2, FirstOne
  <2>4. Core(read[i], write[f], Reads(events, i), <<h>>, read[t], write[o],
             Reads(events, t), Writes(events, o), copying[d], got[d], wrote[d],
             Under("read", t), 1)
    BY <1>3, <1>7, <2>1, UserWritesNothing
  <2>5. DirCore(d)'
    BY <1>2, <1>5, <1>6, <2>2, <2>3, <2>4
  <2>6. DirPhase(d)'
    BY <1>2, <1>4, <1>5, <1>7, <2>2
  <2>7. beside
    BY <1>1, <2>1, <2>2 DEF MoreWrites
  <2> QED BY <1>9, <1>11, <1>13, <1>14, <2>5, <2>6, <2>7
<1>16. CASE /\ b # <<>> /\ read[i] = 0 /\ events' = events
            /\ read' = read /\ write' = [write EXCEPT ![f] = b]
  <2>1. write'[f] = b /\ write'[i] = write[i] /\ write'[o] = write[o] /\ write'[t] = write[t]
    BY <1>0, <1>1, <1>16 DEF PipeTypes
  <2>2. Core(read[i], Run(Len(wrote[d]), size), Reads(events, i), Writes(events, f), read[t],
             write[o], Reads(events, t), Writes(events, o), copying[d], got[d], wrote[d],
             Under("read", t), 1)
    BY <1>3, <1>7, <1>16, <1>18, UserWritesLater
  <2>3. DirCore(d)'
    BY <1>2, <1>5, <1>6, <1>16, <2>1, <2>2 DEF b
  <2>4. DirPhase(d)'
    BY <1>2, <1>4, <1>5, <1>7, <1>16, <2>1
  <2>5. beside
    BY <1>16, <2>1
  <2> QED BY <1>9, <1>11, <1>13, <1>14, <2>3, <2>4, <2>5
<1>17. CASE /\ b # <<>> /\ read[i] # 0 /\ Meet(events, i, f, b)
            /\ read' = [read EXCEPT ![i] = 0] /\ write' = write
  <2>1. PICK n \in 0..Len(b), hr \in CopyEvent, hw \in CopyEvent :
             /\ hr.bytes = SubSeq(b, 1, n) /\ hw.n = n
             /\ MoreBoth(events, events', i, hr, f, hw)
    BY <1>17 DEF Meet
  <2>2. /\ read'[i] = 0 /\ read'[o] = read[o] /\ read'[f] = read[f] /\ read'[t] = read[t]
    BY <1>0, <1>1, <1>17 DEF PipeTypes
  <2>3. /\ Reads(events, i) = <<>> /\ Dead(d) = 0 /\ write[o] = <<>> /\ Writes(events, o) = <<>>
        /\ copying[d] = <<>>
    BY <1>4, <1>17 DEF Phase
  <2>4. /\ Reads(events', i) = Reads(events, i) \o <<hr>> /\ Reads(events', t) = Reads(events, t)
        /\ Writes(events', o) = Writes(events, o) /\ Writes(events', f) = Writes(events, f) \o <<hw>>
    BY <1>1, <2>1 DEF MoreBoth
  <2>5. Reads(events', i) = <<hr>>
    BY <2>3, <2>4, FirstOne
  <2>6. Writes(events', f) = <<hw>>
    BY <1>12, <2>4, FirstOne
  <2>11. hr.bytes = Run(Len(wrote[d]), n) /\ n \in Nat
    <3>1. n \in 0..size /\ n \in Nat
      BY <1>18, <2>1
    <3> HIDE DEF k
    <3>2. SubSeq(Run(k, size), 1, n) = Run(k, n)
      BY <1>0, <3>1, RunSplit
    <3> QED BY <2>1, <3>1, <3>2 DEF b, k
  <2>7. Core(0, write[f], <<hr>>, <<hw>>, read[t], write[o],
             Reads(events, t), Writes(events, o), copying[d], got[d], wrote[d],
             Under("read", t), 1)
    BY <1>3, <1>7, <1>17, <2>1, <2>3, <2>11, UserWritesNow
  <2>8. DirCore(d)'
    BY <1>2, <1>5, <1>6, <1>17, <2>2, <2>4, <2>5, <2>6, <2>7
  <2>9. DirPhase(d)'
    <3>1. Phase(0, <<hr>>, write[o], Writes(events, o), copying[d], Dead(d))
      BY <2>3, OneBytes DEF Phase
    <3> QED BY <1>2, <1>5, <1>7, <1>17, <2>2, <2>4, <2>5, <3>1
  <2>10. beside
    BY <1>1, <1>17, <2>1, <2>2 DEF MoreBoth
  <2> QED BY <1>9, <1>11, <1>13, <1>14, <2>8, <2>9, <2>10
<1> QED BY <1>8, <1>15, <1>16, <1>17

\* The end of an operation that is the only one of its kind.
LEMMA LastOne ==
  ASSUME NEW q \in Seq(CopyEvent), NEW h, NEW r, r = <<h>> \o q, h \in CopyEvent,
         r = <<>> \/ One(r)
  PROVE  q = <<>> /\ r = <<h>>
<1>1. Len(<<h>> \o q) = 1 + Len(q) /\ Len(q) \in Nat
  <2> DEFINE a == <<h>>
  <2>1. a \in Seq(CopyEvent) /\ Len(a) = 1
    OBVIOUS
  <2> HIDE DEF a
  <2>2. Len(a \o q) = Len(a) + Len(q)
    BY <2>1, ConcatElements
  <2> QED BY <2>1, <2>2 DEF a
<1>2. Len(<<>>) = 0
  OBVIOUS
<1>3. One(r)
  BY <1>1, <1>2
<1>4. PICK x : r = <<x>>
  BY <1>3 DEF One
<1>5. Len(<<x>>) = 1
  OBVIOUS
<1>6. Len(q) = 0
  BY <1>1, <1>4, <1>5
<1>7. q = <<>>
  BY <1>6
<1>8. <<h>> \o <<>> = <<h>>
  BY SingletonSeq, ConcatEmpty
<1> QED BY <1>7, <1>8

\* The handler at the head of those posted.
LEMMA HeadKind ==
  ASSUME NEW s \in Seq(CopyEvent), s # <<>>
  PROVE  /\ Head(s).op = "read" => Head(s) \in ReadsOf(Head(s).end) /\ Head(s).end \in 1..4
         /\ Head(s).op = "write" => Head(s) \in WritesOf(Head(s).end) /\ Head(s).end \in 1..4
         /\ Head(s).op = "done" => Head(s) \in DoneEvent
         /\ Head(s) \in CopyEvent
<1>1. Head(s) \in CopyEvent
  BY ConcatHeadTail
<1>2. /\ \A h \in ReadEvent : h.op = "read" /\ h.end \in 1..4
      /\ \A h \in WriteEvent : h.op = "write" /\ h.end \in 1..4
      /\ \A h \in DoneEvent : h.op = "done"
  BY DEF ReadEvent, WriteEvent, DoneEvent
<1> QED BY <1>1, <1>2 DEF CopyEvent, ReadsOf, WritesOf

\* A user is told of a read.
LEMMA UserToldOfRead ==
  ASSUME CopyInv, NEW d \in 1..2, NEW d2 \in 1..2, d2 # d,
         events # <<>>, Head(events).op = "read", Head(events).end = Copy!To(d),
         got' = [got EXCEPT ![d] = @ \o Head(events).bytes], wrote' = wrote,
         events' = Tail(events),
         busy' = [busy EXCEPT ![Copy!To(d)] = @ \ {"read"}],
         UNCHANGED <<read, write, copying, done, cancels, ended>>
  PROVE  CopyInv'
<1> DEFINE i == Copy!In(d)
           f == Copy!From(d)
           t == Copy!To(d)
           o == Copy!Out(d)
           h == Head(events)
<1>0. CopyTypes /\ events \in Seq(CopyEvent) /\ DirPhase(d)
  BY DEF CopyInv, CopyTypes
<1>1. /\ i \in 1..4 /\ f \in 1..4 /\ t \in 1..4 /\ o \in 1..4
      /\ i # o /\ i # f /\ i # t /\ o # f /\ o # t /\ f # t /\ t \in {1, 4} /\ f \in {1, 4}
  BY EndsOf
<1>3. Core(read[i], write[f], Reads(events, i), Writes(events, f), read[t], write[o],
           Reads(events, t), Writes(events, o), copying[d], got[d], wrote[d],
           Under("read", t), Under("write", f))
  BY DEF CopyInv, DirCore
<1>4. Phase(read[i], Reads(events, i), write[o], Writes(events, o), copying[d], Dead(d))
  BY <1>0 DEF DirPhase
<1>5. /\ Core(read'[i], write'[f], Reads(events', i), Writes(events', f), read'[t], write'[o],
              Reads(events', t), Writes(events', o), copying'[d], got'[d], wrote'[d],
              Under("read", t)', Under("write", f)') => DirCore(d)'
      /\ Phase(read'[i], Reads(events', i), write'[o], Writes(events', o), copying'[d], Dead(d)')
           => DirPhase(d)'
  BY DirPrimed
<1>6. /\ busy' \in [{1, 4} -> SUBSET {"read", "write"}]
      /\ Under("read", t)' = 0 /\ Under("write", t)' = Under("write", t)
      /\ Under("read", f)' = Under("read", f) /\ Under("write", f)' = Under("write", f)
  BY <1>0, <1>1, UserBusy
<1>7. Dead(d)' = Dead(d) /\ Dead(d2)' = Dead(d2)
  BY DEF Dead
<1>2. h \in ReadsOf(t) /\ h \in CopyEvent /\ h.bytes \in Seq(Int)
  <2>1. h \in ReadsOf(t) /\ h \in CopyEvent
    BY <1>0, HeadKind
  <2> QED BY <2>1 DEF ReadsOf, ReadEvent
<1>8. /\ events' \in Seq(CopyEvent) /\ ToSet(events') \subseteq ToSet(events)
      /\ Finals(events) = Finals(events') /\ Reads(events, t) = <<h>> \o Reads(events', t)
  BY <1>0, <1>1, <1>2, RunRead
<1>9. /\ \A e2 \in 1..4 : e2 # t => Reads(events, e2) = Reads(events', e2)
      /\ \A e2 \in 1..4 : Writes(events, e2) = Writes(events', e2)
  BY <1>0, <1>1, <1>2, RunRead
<1>10. Reads(events', t) = <<>> /\ Reads(events, t) = <<h>>
  <2>1. Reads(events, t) = <<>> \/ One(Reads(events, t))
    BY <1>3 DEF Core, User
  <2>2. Reads(events', t) \in Seq(CopyEvent)
    BY <1>8, KeepType DEF Reads
  <2> HIDE DEF h
  <2> QED BY <1>2, <1>8, <2>1, <2>2, LastOne
<1>11. ToldOnce' /\ NothingFails'
  <2>1. AddsFine(events', events')
    BY <1>8 DEF AddsFine
  <2> QED BY <1>8, <2>1, RestKept
<1>12. got'[d] = got[d] \o h.bytes /\ got'[d2] = got[d2] /\ got' \in [1..2 -> Seq(Int)]
  <2>1. got \in [1..2 -> Seq(Int)] /\ got[d] \in Seq(Int)
    BY <1>0 DEF CopyTypes
  <2>2. got[d] \o h.bytes \in Seq(Int)
    BY <1>2, <2>1
  <2> HIDE DEF h
  <2> QED BY <2>1, <2>2 DEF h
<1>13. CopyTypes'
  BY <1>0, <1>6, <1>8, <1>12 DEF CopyTypes
<1> DEFINE beside == /\ Reads(events', o) = Reads(events, o) /\ Reads(events', f) = Reads(events, f)
                     /\ Writes(events', i) = Writes(events, i) /\ Writes(events', t) = Writes(events, t)
<1>14. beside => Beside(d, d2)
  BY <1>6, <1>7, <1>12 DEF Beside
<1> HIDE DEF i, f, t, o, h
<1>15. beside
  BY <1>1, <1>9
<1>16. Core(read[i], write[f], Reads(events, i), Writes(events, f), read[t], write[o],
            <<>>, Writes(events, o), copying[d], got[d] \o h.bytes, wrote[d], 0, Under("write", f))
  BY <1>3, <1>10, ReadIsTold
<1>17. DirCore(d)'
  BY <1>1, <1>5, <1>6, <1>9, <1>10, <1>12, <1>16
<1>18. DirPhase(d)'
  BY <1>1, <1>4, <1>5, <1>7, <1>9
<1> QED BY <1>11, <1>13, <1>14, <1>15, <1>17, <1>18, OneDirection

\* A user is told of a write.
LEMMA UserToldOfWrite ==
  ASSUME CopyInv, NEW d \in 1..2, NEW d2 \in 1..2, d2 # d,
         events # <<>>, Head(events).op = "write", Head(events).end = Copy!From(d),
         wrote' = [wrote EXCEPT ![d] = @ \o Run(Len(@), Head(events).n)], got' = got,
         events' = Tail(events),
         busy' = [busy EXCEPT ![Copy!From(d)] = @ \ {"write"}],
         UNCHANGED <<read, write, copying, done, cancels, ended>>
  PROVE  CopyInv'
<1> DEFINE i == Copy!In(d)
           f == Copy!From(d)
           t == Copy!To(d)
           o == Copy!Out(d)
           h == Head(events)
<1>0. CopyTypes /\ events \in Seq(CopyEvent) /\ DirPhase(d)
  BY DEF CopyInv, CopyTypes
<1>1. /\ i \in 1..4 /\ f \in 1..4 /\ t \in 1..4 /\ o \in 1..4
      /\ i # o /\ i # f /\ i # t /\ o # f /\ o # t /\ f # t /\ t \in {1, 4} /\ f \in {1, 4}
  BY EndsOf
<1>3. Core(read[i], write[f], Reads(events, i), Writes(events, f), read[t], write[o],
           Reads(events, t), Writes(events, o), copying[d], got[d], wrote[d],
           Under("read", t), Under("write", f))
  BY DEF CopyInv, DirCore
<1>4. Phase(read[i], Reads(events, i), write[o], Writes(events, o), copying[d], Dead(d))
  BY <1>0 DEF DirPhase
<1>5. /\ Core(read'[i], write'[f], Reads(events', i), Writes(events', f), read'[t], write'[o],
              Reads(events', t), Writes(events', o), copying'[d], got'[d], wrote'[d],
              Under("read", t)', Under("write", f)') => DirCore(d)'
      /\ Phase(read'[i], Reads(events', i), write'[o], Writes(events', o), copying'[d], Dead(d)')
           => DirPhase(d)'
  BY DirPrimed
<1>6. /\ busy' \in [{1, 4} -> SUBSET {"read", "write"}]
      /\ Under("write", f)' = 0 /\ Under("write", t)' = Under("write", t)
      /\ Under("read", f)' = Under("read", f) /\ Under("read", t)' = Under("read", t)
  BY <1>0, <1>1, UserBusy
<1>7. Dead(d)' = Dead(d) /\ Dead(d2)' = Dead(d2)
  BY DEF Dead
<1>2. h \in WritesOf(f) /\ h \in CopyEvent /\ h.n \in Nat
  <2>1. h \in WritesOf(f) /\ h \in CopyEvent
    BY <1>0, HeadKind
  <2> QED BY <2>1 DEF WritesOf, WriteEvent
<1>8. /\ events' \in Seq(CopyEvent) /\ ToSet(events') \subseteq ToSet(events)
      /\ Finals(events) = Finals(events') /\ Writes(events, f) = <<h>> \o Writes(events', f)
  BY <1>0, <1>1, <1>2, RunWrite
<1>9. /\ \A e2 \in 1..4 : e2 # f => Writes(events, e2) = Writes(events', e2)
      /\ \A e2 \in 1..4 : Reads(events, e2) = Reads(events', e2)
  BY <1>0, <1>1, <1>2, RunWrite
<1>10. Writes(events', f) = <<>> /\ Writes(events, f) = <<h>>
  <2>1. Writes(events, f) = <<>> \/ One(Writes(events, f))
    BY <1>3 DEF Core, User
  <2>2. Writes(events', f) \in Seq(CopyEvent)
    BY <1>8, KeepType DEF Writes
  <2> HIDE DEF h
  <2> QED BY <1>2, <1>8, <2>1, <2>2, LastOne
<1>11. ToldOnce' /\ NothingFails'
  <2>1. AddsFine(events', events')
    BY <1>8 DEF AddsFine
  <2> QED BY <1>8, <2>1, RestKept
<1>12. /\ wrote'[d] = wrote[d] \o Run(Len(wrote[d]), h.n) /\ wrote'[d2] = wrote[d2]
       /\ wrote' \in [1..2 -> Seq(Int)]
  <2>1. wrote \in [1..2 -> Seq(Int)] /\ wrote[d] \in Seq(Int)
    BY <1>0 DEF CopyTypes
  <2>2. Len(wrote[d]) \in Int
    BY <2>1
  <2>3. Run(Len(wrote[d]), h.n) \in Seq(Int)
    BY <1>2, <2>2, RunFacts
  <2>4. wrote[d] \o Run(Len(wrote[d]), h.n) \in Seq(Int)
    BY <2>1, <2>3
  <2> HIDE DEF h
  <2> QED BY <2>1, <2>4 DEF h
<1>13. CopyTypes'
  BY <1>0, <1>6, <1>8, <1>12 DEF CopyTypes
<1> DEFINE beside == /\ Reads(events', o) = Reads(events, o) /\ Reads(events', f) = Reads(events, f)
                     /\ Writes(events', i) = Writes(events, i) /\ Writes(events', t) = Writes(events, t)
<1>14. beside => Beside(d, d2)
  BY <1>6, <1>7, <1>12 DEF Beside
<1> HIDE DEF i, f, t, o, h
<1>15. beside
  BY <1>1, <1>9
<1>16. Core(read[i], write[f], Reads(events, i), <<>>, read[t], write[o],
            Reads(events, t), Writes(events, o), copying[d], got[d],
            wrote[d] \o Run(Len(wrote[d]), h.n), Under("read", t), 0)
  BY <1>3, <1>10, WriteIsTold
<1>17. DirCore(d)'
  BY <1>1, <1>5, <1>6, <1>9, <1>10, <1>12, <1>16
<1>18. DirPhase(d)'
  BY <1>1, <1>4, <1>5, <1>7, <1>9
<1> QED BY <1>11, <1>13, <1>14, <1>15, <1>17, <1>18, OneDirection

\* A user is told.
LEMMA UserIsToldKeeps ==
  ASSUME CopyInv, NEW d \in 1..2, NEW d2 \in 1..2, d2 # d, Copy!UserIsTold(d)
  PROVE  CopyInv'
<1> DEFINE h == Head(events)
<1>1. /\ events # <<>> /\ events' = Tail(events)
      /\ busy' = [busy EXCEPT ![h.end] = @ \ {h.op}]
      /\ UNCHANGED <<read, write, copying, done, cancels, ended>>
  BY DEF Copy!UserIsTold
<1>2. CASE /\ h.op = "read" /\ h.end = Copy!To(d)
           /\ got' = [got EXCEPT ![d] = @ \o h.bytes] /\ wrote' = wrote
  BY <1>1, <1>2, UserToldOfRead
<1>3. CASE /\ h.op = "write" /\ h.end = Copy!From(d)
           /\ wrote' = [wrote EXCEPT ![d] = @ \o [j \in 1..h.n |-> Len(@) + j]] /\ got' = got
  <2>1. wrote' = [wrote EXCEPT ![d] = @ \o Run(Len(@), h.n)]
    BY <1>3 DEF Run
  <2> QED BY <1>1, <1>3, <2>1, UserToldOfWrite
<1> QED BY <1>2, <1>3 DEF Copy!UserIsTold

\* A handler of copy d has run and left s; it has c to write, and nothing of
\* it is under way.
Between(d, s, c) ==
  /\ s \in Seq(CopyEvent) /\ ToSet(s) \subseteq ToSet(events) /\ Finals(s) = Finals(events)
  /\ read[Copy!In(d)] = 0 /\ write[Copy!Out(d)] = <<>> /\ Dead(d) = 0 /\ c \in Seq(Int)
  /\ Reads(s, Copy!In(d)) = <<>> /\ Writes(s, Copy!Out(d)) = <<>>
  /\ Core(read[Copy!In(d)], write[Copy!From(d)], <<>>, Writes(s, Copy!From(d)),
          read[Copy!To(d)], write[Copy!Out(d)], Reads(s, Copy!To(d)), <<>>,
          c, got[d], wrote[d], Under("read", Copy!To(d)), Under("write", Copy!From(d)))
  /\ Reads(s, Copy!Out(d)) = Reads(events, Copy!Out(d))
  /\ Reads(s, Copy!From(d)) = Reads(events, Copy!From(d))
  /\ Writes(s, Copy!In(d)) = Writes(events, Copy!In(d))
  /\ Writes(s, Copy!To(d)) = Writes(events, Copy!To(d))

\* Then it writes.
LEMMA CopyWritesKeeps ==
  ASSUME CopyInv, NEW d \in 1..2, NEW d2 \in 1..2, d2 # d, NEW s, NEW c, Between(d, s, c),
         Copy!Becomes(Copy!AsyncWriteSome(Copy!Pipes(s), Copy!Out(d), c)),
         copying' = [copying EXCEPT ![d] = c],
         UNCHANGED <<busy, done, wrote, got, cancels, ended>>
  PROVE  CopyInv'
<1> DEFINE i == Copy!In(d)
           f == Copy!From(d)
           t == Copy!To(d)
           o == Copy!Out(d)
<1>0. CopyTypes /\ PipeTypes /\ s \in Seq(CopyEvent) /\ c \in Seq(Int)
  BY DEF CopyInv, CopyTypes, PipeTypes, Between
<1>1. /\ i \in 1..4 /\ f \in 1..4 /\ t \in 1..4 /\ o \in 1..4 /\ Copy!Other(o) = t
      /\ i # o /\ i # f /\ i # t /\ o # f /\ o # t /\ f # t
  BY EndsOf
<1>2. /\ copying'[d] = c /\ copying'[d2] = copying[d2] /\ copying' \in [1..2 -> Seq(Int)]
  BY <1>0 DEF CopyTypes
<1>3. Core(read[i], write[f], <<>>, Writes(s, f), read[t], write[o],
           Reads(s, t), <<>>, c, got[d], wrote[d], Under("read", t), Under("write", f))
  BY DEF Between
<1>4. /\ read[i] = 0 /\ write[o] = <<>> /\ Dead(d) = 0
      /\ Reads(s, i) = <<>> /\ Writes(s, o) = <<>>
  BY DEF Between
<1>5. /\ Core(read'[i], write'[f], Reads(events', i), Writes(events', f), read'[t], write'[o],
              Reads(events', t), Writes(events', o), copying'[d], got'[d], wrote'[d],
              Under("read", t)', Under("write", f)') => DirCore(d)'
      /\ Phase(read'[i], Reads(events', i), write'[o], Writes(events', o), copying'[d], Dead(d)')
           => DirPhase(d)'
  BY DirPrimed
<1>6. /\ Under("read", t)' = Under("read", t) /\ Under("write", t)' = Under("write", t)
      /\ Under("read", f)' = Under("read", f) /\ Under("write", f)' = Under("write", f)
  BY DEF Under, Copy!To, Copy!From
<1>7. Dead(d)' = Dead(d) /\ Dead(d2)' = Dead(d2)
  BY DEF Dead
<1>8. /\ AddsFine(s, events')
      /\ \/ c = <<>> /\ NothingWritten(s, o)
         \/ /\ c # <<>> /\ read[t] = 0 /\ events' = s
            /\ read' = read /\ write' = [write EXCEPT ![o] = c]
         \/ /\ c # <<>> /\ read[t] # 0 /\ Meet(s, t, o, c)
            /\ read' = [read EXCEPT ![t] = 0] /\ write' = write
  BY <1>0, <1>1, WriteSome
<1>9. ToldOnce' /\ NothingFails'
  <2>1. ToSet(s) \subseteq ToSet(events) /\ Finals(s) = Finals(events)
    BY DEF Between
  <2> QED BY <1>0, <1>8, <2>1, RestKept
<1>10. /\ read' \in [1..4 -> Nat] /\ write' \in [1..4 -> Seq(Int)]
  <2>1. read \in [1..4 -> Nat] /\ write \in [1..4 -> Seq(Int)]
    BY <1>0 DEF PipeTypes
  <2>2. /\ read' = read \/ read' = [read EXCEPT ![t] = 0]
        /\ write' = write \/ write' = [write EXCEPT ![o] = c]
    BY <1>8 DEF NothingWritten
  <2>4. write' \in [1..4 -> Seq(Int)]
    BY <1>0, <2>1, <2>2
  <2>5. read' \in [1..4 -> Nat]
    BY <2>1, <2>2
  <2> QED BY <2>4, <2>5
<1>11. CopyTypes'
  BY <1>0, <1>2, <1>8, <1>10 DEF CopyTypes, AddsFine
<1>12. ASSUME Beside(d, d2), DirCore(d)', DirPhase(d)' PROVE CopyInv'
  BY <1>9, <1>11, <1>12, OneDirection
<1> DEFINE beside == /\ read'[o] = read[o] /\ read'[f] = read[f] /\ write'[i] = write[i]
                     /\ write'[t] = write[t]
                     /\ Reads(events', o) = Reads(s, o) /\ Reads(events', f) = Reads(s, f)
                     /\ Writes(events', i) = Writes(s, i) /\ Writes(events', t) = Writes(s, t)
<1>14. beside => Beside(d, d2)
  BY <1>2, <1>6, <1>7 DEF Beside, Between
<1> HIDE DEF i, f, t, o
<1>15. CASE c = <<>> /\ NothingWritten(s, o)
  <2>1. PICK h : h.n = 0 /\ MoreWrites(s, events', o, h)
    BY <1>15 DEF NothingWritten
  <2>2. /\ Writes(events', o) = Writes(s, o) \o <<h>> /\ Reads(events', i) = Reads(s, i)
        /\ Reads(events', t) = Reads(s, t) /\ Writes(events', f) = Writes(s, f)
        /\ read' = read /\ write' = write
    BY <1>1, <1>15, <2>1 DEF MoreWrites, NothingWritten
  <2>3. Writes(events', o) = <<h>>
    BY <1>4, <2>2, FirstOne
  <2>4. Core(read[i], write[f], <<>>, Writes(s, f), read[t], write[o],
             Reads(s, t), <<h>>, c, got[d], wrote[d], Under("read", t), Under("write", f))
    BY <1>3, <2>1, CopyWritesNothing
  <2>5. DirCore(d)'
    BY <1>2, <1>4, <1>5, <1>6, <2>2, <2>3, <2>4
  <2>6. DirPhase(d)'
    <3>1. Phase(read[i], <<>>, write[o], <<h>>, c, Dead(d))
      BY <1>4, OneBytes DEF Phase
    <3> QED BY <1>2, <1>4, <1>5, <1>7, <2>2, <2>3, <3>1
  <2>7. beside
    BY <1>1, <2>1, <2>2 DEF MoreWrites
  <2> QED BY <1>12, <1>14, <2>5, <2>6, <2>7
<1>16. CASE /\ c # <<>> /\ read[t] = 0 /\ events' = s
            /\ read' = read /\ write' = [write EXCEPT ![o] = c]
  <2>1. write'[o] = c /\ write'[i] = write[i] /\ write'[f] = write[f] /\ write'[t] = write[t]
    BY <1>0, <1>1, <1>16 DEF PipeTypes
  <2>2. Core(read[i], write[f], <<>>, Writes(s, f), read[t], c,
             Reads(s, t), <<>>, c, got[d], wrote[d], Under("read", t), Under("write", f))
    BY <1>3, <1>4, <1>16, CopyWritesLater
  <2>3. DirCore(d)'
    BY <1>2, <1>4, <1>5, <1>6, <1>16, <2>1, <2>2
  <2>4. DirPhase(d)'
    <3>1. Phase(read[i], <<>>, c, <<>>, c, Dead(d))
      BY <1>4, <1>16 DEF Phase
    <3> QED BY <1>2, <1>4, <1>5, <1>7, <1>16, <2>1, <3>1
  <2>5. beside
    BY <1>16, <2>1
  <2> QED BY <1>12, <1>14, <2>3, <2>4, <2>5
<1>17. CASE /\ c # <<>> /\ read[t] # 0 /\ Meet(s, t, o, c)
            /\ read' = [read EXCEPT ![t] = 0] /\ write' = write
  <2>1. PICK n \in 0..Len(c), hr \in CopyEvent, hw \in CopyEvent :
             /\ hr.bytes = SubSeq(c, 1, n) /\ hw.n = n
             /\ MoreBoth(s, events', t, hr, o, hw)
    BY <1>17 DEF Meet
  <2>2. /\ read'[t] = 0 /\ read'[o] = read[o] /\ read'[f] = read[f] /\ read'[i] = read[i]
    BY <1>0, <1>1, <1>17 DEF PipeTypes
  <2>3. Reads(s, t) = <<>>
    BY <1>3, <1>17 DEF Core, User
  <2>4. /\ Reads(events', t) = Reads(s, t) \o <<hr>> /\ Reads(events', i) = Reads(s, i)
        /\ Writes(events', o) = Writes(s, o) \o <<hw>> /\ Writes(events', f) = Writes(s, f)
    BY <1>1, <2>1 DEF MoreBoth
  <2>5. Reads(events', t) = <<hr>>
    BY <2>3, <2>4, FirstOne
  <2>6. Writes(events', o) = <<hw>>
    BY <1>4, <2>4, FirstOne
  <2>7. Core(read[i], write[f], <<>>, Writes(s, f), 0, write[o],
             <<hr>>, <<hw>>, c, got[d], wrote[d], Under("read", t), Under("write", f))
    BY <1>3, <1>4, <1>17, <2>1, CopyWritesNow
  <2>8. DirCore(d)'
    BY <1>2, <1>4, <1>5, <1>6, <1>17, <2>2, <2>4, <2>5, <2>6, <2>7
  <2>9. DirPhase(d)'
    <3>1. Phase(read[i], <<>>, write[o], <<hw>>, c, Dead(d))
      BY <1>4, OneBytes DEF Phase
    <3> QED BY <1>2, <1>4, <1>5, <1>7, <1>17, <2>2, <2>4, <2>6, <3>1
  <2>10. beside
    BY <1>1, <1>17, <2>1, <2>2 DEF MoreBoth
  <2> QED BY <1>12, <1>14, <2>8, <2>9, <2>10
<1> QED BY <1>8, <1>15, <1>16, <1>17

\* Or it reads on, with nothing left to write.
LEMMA CopyReadsKeeps ==
  ASSUME CopyInv, NEW d \in 1..2, NEW d2 \in 1..2, d2 # d, NEW s, Between(d, s, <<>>),
         Copy!Becomes(Copy!AsyncReadSome(Copy!Pipes(s), Copy!In(d), CopySize)),
         copying' = [copying EXCEPT ![d] = <<>>],
         UNCHANGED <<busy, done, wrote, got, cancels, ended>>
  PROVE  CopyInv'
<1> DEFINE i == Copy!In(d)
           f == Copy!From(d)
           t == Copy!To(d)
           o == Copy!Out(d)
           c == <<>>
<1>0. CopyTypes /\ PipeTypes /\ s \in Seq(CopyEvent) /\ c \in Seq(Int)
  BY DEF CopyInv, CopyTypes, PipeTypes, Between
<1>18. CopySize \in Nat /\ CopySize # 0
  BY HostIoAssumption
<1>1. /\ i \in 1..4 /\ f \in 1..4 /\ t \in 1..4 /\ o \in 1..4 /\ Copy!Other(i) = f
      /\ i # o /\ i # f /\ i # t /\ o # f /\ o # t /\ f # t
  BY EndsOf
<1>2. /\ copying'[d] = c /\ copying'[d2] = copying[d2] /\ copying' \in [1..2 -> Seq(Int)]
  BY <1>0 DEF CopyTypes
<1>3. Core(read[i], write[f], <<>>, Writes(s, f), read[t], write[o],
           Reads(s, t), <<>>, c, got[d], wrote[d], Under("read", t), Under("write", f))
  BY DEF Between
<1>4. /\ read[i] = 0 /\ write[o] = <<>> /\ Dead(d) = 0
      /\ Reads(s, i) = <<>> /\ Writes(s, o) = <<>>
  BY DEF Between
<1>5. /\ Core(read'[i], write'[f], Reads(events', i), Writes(events', f), read'[t], write'[o],
              Reads(events', t), Writes(events', o), copying'[d], got'[d], wrote'[d],
              Under("read", t)', Under("write", f)') => DirCore(d)'
      /\ Phase(read'[i], Reads(events', i), write'[o], Writes(events', o), copying'[d], Dead(d)')
           => DirPhase(d)'
  BY DirPrimed
<1>6. /\ Under("read", t)' = Under("read", t) /\ Under("write", t)' = Under("write", t)
      /\ Under("read", f)' = Under("read", f) /\ Under("write", f)' = Under("write", f)
  BY DEF Under, Copy!To, Copy!From
<1>7. Dead(d)' = Dead(d) /\ Dead(d2)' = Dead(d2)
  BY DEF Dead
<1>8. /\ AddsFine(s, events')
      /\ \/ /\ write[f] = <<>> /\ events' = s
            /\ read' = [read EXCEPT ![i] = CopySize] /\ write' = write
         \/ /\ write[f] # <<>> /\ Meet(s, i, f, write[f])
            /\ read' = read /\ write' = [write EXCEPT ![f] = <<>>]
  BY <1>0, <1>1, <1>18, ReadSome
<1>9. ToldOnce' /\ NothingFails'
  <2>1. ToSet(s) \subseteq ToSet(events) /\ Finals(s) = Finals(events)
    BY DEF Between
  <2> QED BY <1>0, <1>8, <2>1, RestKept
<1>10. /\ read' \in [1..4 -> Nat] /\ write' \in [1..4 -> Seq(Int)]
  <2>1. read \in [1..4 -> Nat] /\ write \in [1..4 -> Seq(Int)]
    BY <1>0 DEF PipeTypes
  <2>2. /\ read' = read \/ read' = [read EXCEPT ![i] = CopySize]
        /\ write' = write \/ write' = [write EXCEPT ![f] = <<>>]
    BY <1>8
  <2>4. write' \in [1..4 -> Seq(Int)]
    <3>1. <<>> \in Seq(Int)
      BY EmptyIsSeq
    <3> QED BY <2>1, <2>2, <3>1
  <2>5. read' \in [1..4 -> Nat]
    BY <1>18, <2>1, <2>2
  <2> QED BY <2>4, <2>5
<1>11. CopyTypes'
  BY <1>0, <1>2, <1>8, <1>10 DEF CopyTypes, AddsFine
<1>12. ASSUME Beside(d, d2), DirCore(d)', DirPhase(d)' PROVE CopyInv'
  BY <1>9, <1>11, <1>12, OneDirection
<1> DEFINE beside == /\ read'[o] = read[o] /\ read'[f] = read[f] /\ write'[i] = write[i]
                     /\ write'[t] = write[t]
                     /\ Reads(events', o) = Reads(s, o) /\ Reads(events', f) = Reads(s, f)
                     /\ Writes(events', i) = Writes(s, i) /\ Writes(events', t) = Writes(s, t)
<1>14. beside => Beside(d, d2)
  BY <1>2, <1>6, <1>7 DEF Beside, Between
<1> HIDE DEF i, f, t, o
<1>16. CASE /\ write[f] = <<>> /\ events' = s
            /\ read' = [read EXCEPT ![i] = CopySize] /\ write' = write
  <2>1. read'[i] = CopySize /\ read'[o] = read[o] /\ read'[f] = read[f] /\ read'[t] = read[t]
    BY <1>0, <1>1, <1>16 DEF PipeTypes
  <2>2. Core(CopySize, write[f], <<>>, Writes(s, f), read[t], write[o],
             Reads(s, t), <<>>, c, got[d], wrote[d], Under("read", t), Under("write", f))
    BY <1>3, <1>16, <1>18, CopyReadsLater
  <2>3. DirCore(d)'
    BY <1>2, <1>4, <1>5, <1>6, <1>16, <2>1, <2>2
  <2>4. DirPhase(d)'
    <3>1. Phase(CopySize, <<>>, write[o], <<>>, c, Dead(d))
      BY <1>4, <1>18 DEF Phase
    <3> QED BY <1>2, <1>4, <1>5, <1>7, <1>16, <2>1, <3>1
  <2>5. beside
    BY <1>16, <2>1
  <2> QED BY <1>12, <1>14, <2>3, <2>4, <2>5
<1>17. CASE /\ write[f] # <<>> /\ Meet(s, i, f, write[f])
            /\ read' = read /\ write' = [write EXCEPT ![f] = <<>>]
  <2>1. PICK n \in 0..Len(write[f]), hr \in CopyEvent, hw \in CopyEvent :
             /\ hr.bytes = SubSeq(write[f], 1, n) /\ hw.n = n
             /\ MoreBoth(s, events', i, hr, f, hw)
    BY <1>17 DEF Meet
  <2>2. /\ write'[f] = <<>> /\ write'[o] = write[o] /\ write'[i] = write[i] /\ write'[t] = write[t]
    BY <1>0, <1>1, <1>17 DEF PipeTypes
  <2>3. Writes(s, f) = <<>>
    BY <1>3, <1>17 DEF Core, User
  <2>4. /\ Reads(events', i) = Reads(s, i) \o <<hr>> /\ Reads(events', t) = Reads(s, t)
        /\ Writes(events', f) = Writes(s, f) \o <<hw>> /\ Writes(events', o) = Writes(s, o)
    BY <1>1, <2>1 DEF MoreBoth
  <2>5. Reads(events', i) = <<hr>>
    BY <1>4, <2>4, FirstOne
  <2>6. Writes(events', f) = <<hw>>
    BY <2>3, <2>4, FirstOne
  <2>7. Core(read[i], <<>>, <<hr>>, <<hw>>, read[t], write[o],
             Reads(s, t), <<>>, c, got[d], wrote[d], Under("read", t), Under("write", f))
    BY <1>3, <1>17, <2>1, CopyReadsNow
  <2>8. DirCore(d)'
    BY <1>2, <1>4, <1>5, <1>6, <1>17, <2>2, <2>4, <2>5, <2>6, <2>7
  <2>9. DirPhase(d)'
    <3>1. Phase(read[i], <<hr>>, write[o], <<>>, c, Dead(d))
      BY <1>4, OneBytes DEF Phase
    <3> QED BY <1>2, <1>4, <1>5, <1>7, <1>17, <2>2, <2>4, <2>5, <3>1
  <2>10. beside
    BY <1>1, <1>17, <2>1, <2>2 DEF MoreBoth
  <2> QED BY <1>12, <1>14, <2>8, <2>9, <2>10
<1> QED BY <1>8, <1>16, <1>17

\* Or it fails.
LEMMA FailKeeps ==
  ASSUME CopyInv, NEW d \in 1..2, NEW d2 \in 1..2, d2 # d, NEW s, Between(d, s, copying[d]),
         cancels # 0, Copy!Fail(Copy!Pipes(s), d),
         UNCHANGED <<copying, busy, wrote, got, cancels, ended>>
  PROVE  CopyInv'
<1> DEFINE i == Copy!In(d)
           f == Copy!From(d)
           t == Copy!To(d)
           o == Copy!Out(d)
<1>0. CopyTypes /\ s \in Seq(CopyEvent) /\ ToldOnce
  BY DEF CopyInv, CopyTypes, Between
<1>1. /\ i \in 1..4 /\ f \in 1..4 /\ t \in 1..4 /\ o \in 1..4
  BY EndsOf
<1>2. d \notin done
  BY DEF Between, Dead
<1>3. Core(read[i], write[f], <<>>, Writes(s, f), read[t], write[o],
           Reads(s, t), <<>>, copying[d], got[d], wrote[d], Under("read", t), Under("write", f))
  BY DEF Between
<1>4. /\ read[i] = 0 /\ write[o] = <<>> /\ Reads(s, i) = <<>> /\ Writes(s, o) = <<>>
      /\ Finals(s) = Finals(events)
  BY DEF Between
<1>5. /\ Core(read'[i], write'[f], Reads(events', i), Writes(events', f), read'[t], write'[o],
              Reads(events', t), Writes(events', o), copying'[d], got'[d], wrote'[d],
              Under("read", t)', Under("write", f)') => DirCore(d)'
      /\ Phase(read'[i], Reads(events', i), write'[o], Writes(events', o), copying'[d], Dead(d)')
           => DirPhase(d)'
  BY DirPrimed
<1>6. /\ Under("read", t)' = Under("read", t) /\ Under("write", t)' = Under("write", t)
      /\ Under("read", f)' = Under("read", f) /\ Under("write", f)' = Under("write", f)
  BY DEF Under, Copy!To, Copy!From
<1>7. /\ done' = done \cup {d} /\ read' = read /\ write' = write
      /\ events' = Append(s, Copy!Done(d))
  BY <1>2 DEF Copy!Fail, Copy!Becomes, Copy!Pipes
<1>8. Dead(d)' = 1 /\ Dead(d2)' = Dead(d2)
  BY <1>7 DEF Dead
<1>9. /\ events' \in Seq(CopyEvent) /\ SameOperations(s, events') /\ Finals(events') = Finals(s)
  <2>1. Copy!Done(d) \in CopyEvent
    BY KindsApart
  <2>2. events' = s \o <<Copy!Done(d)>>
    BY <1>0, <1>7, <2>1
  <2>3. d \in 1..3 /\ d # 3
    OBVIOUS
  <2> QED BY <1>0, <2>2, <2>3, PostDone
<1>10. ToldOnce'
  <2>1. 3 \in done' <=> 3 \in done
    BY <1>7
  <2> QED BY <1>0, <1>4, <1>9, <2>1 DEF ToldOnce
<1>11. NothingFails'
  BY DEF NothingFails
<1>12. CopyTypes'
  <2>1. done' \in SUBSET (1..3)
    <3>1. done \in SUBSET (1..3)
      BY <1>0 DEF CopyTypes
    <3>2. d \in 1..3
      OBVIOUS
    <3> QED BY <1>7, <3>1, <3>2
  <2> QED BY <1>0, <1>7, <1>9, <2>1 DEF CopyTypes
<1> DEFINE beside == /\ Reads(events', o) = Reads(s, o) /\ Reads(events', f) = Reads(s, f)
                     /\ Writes(events', i) = Writes(s, i) /\ Writes(events', t) = Writes(s, t)
<1>14. beside => Beside(d, d2)
  BY <1>6, <1>7, <1>8 DEF Beside, Between
<1> HIDE DEF i, f, t, o
<1>15. beside
  BY <1>1, <1>9 DEF SameOperations
<1>16. /\ Reads(events', i) = <<>> /\ Writes(events', f) = Writes(s, f)
       /\ Reads(events', t) = Reads(s, t) /\ Writes(events', o) = <<>>
  BY <1>1, <1>4, <1>9 DEF SameOperations
<1>17. DirCore(d)'
  BY <1>3, <1>5, <1>6, <1>7, <1>16
<1>18. DirPhase(d)'
  <2>1. Phase(read[i], <<>>, write[o], <<>>, copying[d], 1)
    BY <1>4 DEF Phase
  <2> QED BY <1>5, <1>7, <1>8, <1>16, <2>1
<1> QED BY <1>10, <1>11, <1>12, <1>14, <1>15, <1>17, <1>18, OneDirection

\* The handler of a read of the copy is the only thing of it that is under way.
LEMMA AfterRead ==
  ASSUME CopyInv, NEW d \in 1..2, NEW d2 \in 1..2, d2 # d, events # <<>>,
         Head(events).op = "read", Head(events).end = Copy!In(d)
  PROVE  /\ Between(d, Tail(events), Head(events).bytes)
         /\ Head(events).ec # "ok" => Head(events).bytes = copying[d] /\ cancels # 0
<1> DEFINE i == Copy!In(d)
           f == Copy!From(d)
           t == Copy!To(d)
           o == Copy!Out(d)
           h == Head(events)
           s == Tail(events)
<1>0. CopyTypes /\ events \in Seq(CopyEvent) /\ DirPhase(d) /\ NothingFails
  BY DEF CopyInv, CopyTypes
<1>1. /\ i \in 1..4 /\ f \in 1..4 /\ t \in 1..4 /\ o \in 1..4
      /\ i # o /\ i # f /\ i # t /\ o # f /\ o # t /\ f # t
  BY EndsOf
<1>2. /\ h \in ReadsOf(i) /\ h \in CopyEvent /\ h.bytes \in Seq(Int)
      /\ h.ec # "ok" => h.bytes = <<>>
  <2>1. h \in ReadsOf(i) /\ h \in CopyEvent
    BY <1>0, HeadKind
  <2> QED BY <2>1 DEF ReadsOf, ReadEvent
<1>3. Core(read[i], write[f], Reads(events, i), Writes(events, f), read[t], write[o],
           Reads(events, t), Writes(events, o), copying[d], got[d], wrote[d],
           Under("read", t), Under("write", f))
  BY DEF CopyInv, DirCore
<1>4. Phase(read[i], Reads(events, i), write[o], Writes(events, o), copying[d], Dead(d))
  BY <1>0 DEF DirPhase
<1>5. /\ s \in Seq(CopyEvent) /\ ToSet(s) \subseteq ToSet(events) /\ h \in ToSet(events)
      /\ Finals(events) = Finals(s) /\ Reads(events, i) = <<h>> \o Reads(s, i)
  BY <1>0, <1>1, <1>2, RunRead
<1>6. /\ \A e2 \in 1..4 : e2 # i => Reads(events, e2) = Reads(s, e2)
      /\ \A e2 \in 1..4 : Writes(events, e2) = Writes(s, e2)
  BY <1>0, <1>1, <1>2, RunRead
<1>7. h.ec # "ok" => cancels # 0
  BY <1>0, <1>5 DEF NothingFails, NoFault
<1>14. /\ s \in Seq(CopyEvent) /\ ToSet(s) \subseteq ToSet(events) /\ Finals(s) = Finals(events)
       /\ read[i] = 0 /\ write[o] = <<>> /\ Dead(d) = 0 /\ h.bytes \in Seq(Int)
       /\ Reads(s, i) = <<>> /\ Writes(s, o) = <<>>
       /\ Core(read[i], write[f], <<>>, Writes(s, f), read[t], write[o], Reads(s, t), <<>>,
               h.bytes, got[d], wrote[d], Under("read", t), Under("write", f))
       /\ Reads(s, o) = Reads(events, o) /\ Reads(s, f) = Reads(events, f)
       /\ Writes(s, i) = Writes(events, i) /\ Writes(s, t) = Writes(events, t)
       => Between(d, s, h.bytes)
  BY DEF Between
<1> HIDE DEF i, f, t, o, h, s
<1>8. Reads(s, i) = <<>> /\ Reads(events, i) = <<h>>
  <2>1. Reads(events, i) = <<>> \/ One(Reads(events, i))
    BY <1>4 DEF Phase
  <2>2. Reads(s, i) \in Seq(CopyEvent)
    BY <1>5, KeepType DEF Reads
  <2> QED BY <1>2, <1>5, <2>1, <2>2, LastOne
<1>9. Reads(events, i) # <<>>
  BY <1>8, OneBytes
<1>10. /\ read[i] = 0 /\ write[o] = <<>> /\ Writes(events, o) = <<>> /\ Dead(d) = 0
       /\ copying[d] = <<>>
  BY <1>4, <1>9 DEF Phase
<1>11. Core(read[i], write[f], <<>>, Writes(events, f), read[t], write[o],
            Reads(events, t), Writes(events, o), h.bytes, got[d], wrote[d],
            Under("read", t), Under("write", f))
  BY <1>3, <1>8, <1>10, ReadEnds
<1>12. Core(read[i], write[f], <<>>, Writes(s, f), read[t], write[o], Reads(s, t), <<>>,
            h.bytes, got[d], wrote[d], Under("read", t), Under("write", f))
  BY <1>1, <1>6, <1>10, <1>11
<1>13. Between(d, s, h.bytes)
  BY <1>1, <1>2, <1>5, <1>6, <1>8, <1>10, <1>12, <1>14
<1> QED BY <1>2, <1>7, <1>10, <1>13 DEF h, s

\* The same for the handler of a write.
LEMMA AfterWrite ==
  ASSUME CopyInv, NEW d \in 1..2, NEW d2 \in 1..2, d2 # d, events # <<>>,
         Head(events).op = "write", Head(events).end = Copy!Out(d)
  PROVE  /\ Between(d, Tail(events), Copy!Remaining(d, Head(events).n))
         /\ Head(events).ec # "ok" =>
              Copy!Remaining(d, Head(events).n) = copying[d] /\ cancels # 0
<1> DEFINE i == Copy!In(d)
           f == Copy!From(d)
           t == Copy!To(d)
           o == Copy!Out(d)
           h == Head(events)
           s == Tail(events)
           c == SubSeq(copying[d], h.n + 1, Len(copying[d]))
<1>0. CopyTypes /\ events \in Seq(CopyEvent) /\ DirPhase(d) /\ NothingFails
  BY DEF CopyInv, CopyTypes
<1>1. /\ i \in 1..4 /\ f \in 1..4 /\ t \in 1..4 /\ o \in 1..4
      /\ i # o /\ i # f /\ i # t /\ o # f /\ o # t /\ f # t
  BY EndsOf
<1>2. /\ h \in WritesOf(o) /\ h \in CopyEvent /\ h.n \in Nat
      /\ h.ec # "ok" => h.n = 0
  <2>1. h \in WritesOf(o) /\ h \in CopyEvent
    BY <1>0, HeadKind
  <2> QED BY <2>1 DEF WritesOf, WriteEvent
<1>3. Core(read[i], write[f], Reads(events, i), Writes(events, f), read[t], write[o],
           Reads(events, t), Writes(events, o), copying[d], got[d], wrote[d],
           Under("read", t), Under("write", f))
  BY DEF CopyInv, DirCore
<1>4. Phase(read[i], Reads(events, i), write[o], Writes(events, o), copying[d], Dead(d))
  BY <1>0 DEF DirPhase
<1>5. /\ s \in Seq(CopyEvent) /\ ToSet(s) \subseteq ToSet(events) /\ h \in ToSet(events)
      /\ Finals(events) = Finals(s) /\ Writes(events, o) = <<h>> \o Writes(s, o)
  BY <1>0, <1>1, <1>2, RunWrite
<1>6. /\ \A e2 \in 1..4 : e2 # o => Writes(events, e2) = Writes(s, e2)
      /\ \A e2 \in 1..4 : Reads(events, e2) = Reads(s, e2)
  BY <1>0, <1>1, <1>2, RunWrite
<1>7. h.ec # "ok" => cancels # 0
  BY <1>0, <1>5 DEF NothingFails, NoFault
<1>14. /\ s \in Seq(CopyEvent) /\ ToSet(s) \subseteq ToSet(events) /\ Finals(s) = Finals(events)
       /\ read[i] = 0 /\ write[o] = <<>> /\ Dead(d) = 0 /\ c \in Seq(Int)
       /\ Reads(s, i) = <<>> /\ Writes(s, o) = <<>>
       /\ Core(read[i], write[f], <<>>, Writes(s, f), read[t], write[o], Reads(s, t), <<>>,
               c, got[d], wrote[d], Under("read", t), Under("write", f))
       /\ Reads(s, o) = Reads(events, o) /\ Reads(s, f) = Reads(events, f)
       /\ Writes(s, i) = Writes(events, i) /\ Writes(s, t) = Writes(events, t)
       => Between(d, s, c)
  BY DEF Between
<1>15. Copy!Remaining(d, h.n) = c
  BY DEF Copy!Remaining
<1> HIDE DEF i, f, t, o, h, s
<1>8. Writes(s, o) = <<>> /\ Writes(events, o) = <<h>>
  <2>1. Writes(events, o) = <<>> \/ One(Writes(events, o))
    BY <1>4 DEF Phase
  <2>2. Writes(s, o) \in Seq(CopyEvent)
    BY <1>5, KeepType DEF Writes
  <2> QED BY <1>2, <1>5, <2>1, <2>2, LastOne
<1>9. Writes(events, o) # <<>>
  BY <1>8, OneBytes
<1>10. /\ read[i] = 0 /\ write[o] = <<>> /\ Reads(events, i) = <<>> /\ Dead(d) = 0
  BY <1>4, <1>9 DEF Phase
<1>11. Core(read[i], write[f], Reads(events, i), Writes(events, f), read[t], write[o],
            Reads(events, t), <<>>, c, got[d], wrote[d], Under("read", t), Under("write", f))
  BY <1>3, <1>8, <1>10, WriteEnds
<1>12. Core(read[i], write[f], <<>>, Writes(s, f), read[t], write[o], Reads(s, t), <<>>,
            c, got[d], wrote[d], Under("read", t), Under("write", f))
  BY <1>1, <1>6, <1>10, <1>11
<1>16. copying[d] \in Seq(Int)
  BY <1>0 DEF CopyTypes
<1>17. c \in Seq(Int) /\ (h.n = 0 => c = copying[d])
  <2>1. c \in Seq(Int)
    <3>1. Flow(got[d], wrote[d], c, Bytes(<<>>), Bytes(Reads(s, t)), Count(<<>>),
               Count(Writes(s, f)), write[f], write[o])
      BY <1>12 DEF Core
    <3> HIDE DEF c
    <3> QED BY <3>1 DEF Flow, FlowTypes
  <2>2. h.n = 0 => c = copying[d]
    BY <1>16
  <2> QED BY <2>1, <2>2
<1> HIDE DEF c
<1>13. Between(d, s, c)
  BY <1>1, <1>5, <1>6, <1>8, <1>10, <1>12, <1>14, <1>17
<1> QED BY <1>2, <1>7, <1>13, <1>15, <1>17 DEF h, s

\* StreamCopy::HandleRead.
LEMMA HandleReadKeeps ==
  ASSUME CopyInv, NEW d \in 1..2, NEW d2 \in 1..2, d2 # d, Copy!HandleRead(d)
  PROVE  CopyInv'
<1> DEFINE h == Head(events)
<1>1. /\ events # <<>> /\ h.op = "read" /\ h.end = Copy!In(d)
      /\ UNCHANGED <<busy, wrote, got, cancels, ended>>
  BY DEF Copy!HandleRead
<1>2. /\ Between(d, Tail(events), h.bytes)
      /\ h.ec # "ok" => h.bytes = copying[d] /\ cancels # 0
  BY <1>1, AfterRead
<1>3. CASE h.ec # "ok"
  <2>1. Copy!Fail(Copy!Pipes(Tail(events)), d) /\ UNCHANGED copying
    BY <1>3 DEF Copy!HandleRead
  <2> QED BY <1>1, <1>2, <1>3, <2>1, FailKeeps
<1>4. CASE h.ec = "ok"
  <2>1. /\ Copy!Becomes(Copy!AsyncWriteSome(Copy!Pipes(Tail(events)), Copy!Out(d), h.bytes))
        /\ copying' = [copying EXCEPT ![d] = h.bytes] /\ UNCHANGED done
    BY <1>4 DEF Copy!HandleRead
  <2> QED BY <1>1, <1>2, <2>1, CopyWritesKeeps
<1> QED BY <1>3, <1>4

\* StreamCopy::HandleWrite, with boost::asio::async_write.
LEMMA HandleWriteKeeps ==
  ASSUME CopyInv, NEW d \in 1..2, NEW d2 \in 1..2, d2 # d, Copy!HandleWrite(d)
  PROVE  CopyInv'
<1> DEFINE h == Head(events)
           c == Copy!Remaining(d, h.n)
<1>1. /\ events # <<>> /\ h.op = "write" /\ h.end = Copy!Out(d)
      /\ UNCHANGED <<busy, wrote, got, cancels, ended>>
  BY DEF Copy!HandleWrite
<1>2. Between(d, Tail(events), c) /\ (h.ec # "ok" => c = copying[d] /\ cancels # 0)
  BY <1>1, AfterWrite
<1>3. CASE h.ec # "ok"
  <2>1. Copy!Fail(Copy!Pipes(Tail(events)), d) /\ UNCHANGED copying
    BY <1>3 DEF Copy!HandleWrite
  <2> HIDE DEF c
  <2> QED BY <1>1, <1>2, <1>3, <2>1, FailKeeps
<1>4. CASE h.ec = "ok" /\ c # <<>>
  <2>1. /\ Copy!Becomes(Copy!AsyncWriteSome(Copy!Pipes(Tail(events)), Copy!Out(d), c))
        /\ copying' = [copying EXCEPT ![d] = c] /\ UNCHANGED done
    BY <1>4 DEF Copy!HandleWrite
  <2> HIDE DEF c
  <2> QED BY <1>1, <1>2, <2>1, CopyWritesKeeps
<1>5. CASE h.ec = "ok" /\ c = <<>>
  <2>1. /\ Copy!Becomes(Copy!AsyncReadSome(Copy!Pipes(Tail(events)), Copy!In(d), CopySize))
        /\ copying' = [copying EXCEPT ![d] = c] /\ UNCHANGED done
    BY <1>5 DEF Copy!HandleWrite
  <2> HIDE DEF c
  <2> QED BY <1>1, <1>2, <1>5, <2>1, CopyReadsKeeps
<1> QED BY <1>3, <1>4, <1>5

-----------------------------------------------------------------------------
\* A step that changes nothing but the handlers of the copies' own ends.
LEMMA SameOperationsKeep ==
  ASSUME CopyInv, SameOperations(events, events'), 1 \in done' <=> 1 \in done,
         2 \in done' <=> 2 \in done, CopyTypes', ToldOnce', NothingFails',
         UNCHANGED <<read, write, busy, copying, wrote, got>>
  PROVE  CopyInv'
<1>1. ASSUME NEW d \in 1..2, NEW d2 \in 1..2, d2 # d PROVE DirCore(d)' /\ DirPhase(d)'
  <2> DEFINE i == Copy!In(d)
             f == Copy!From(d)
             t == Copy!To(d)
             o == Copy!Out(d)
  <2>1. i \in 1..4 /\ f \in 1..4 /\ t \in 1..4 /\ o \in 1..4
    BY <1>1, EndsOf
  <2>2. Core(read[i], write[f], Reads(events, i), Writes(events, f), read[t], write[o],
             Reads(events, t), Writes(events, o), copying[d], got[d], wrote[d],
             Under("read", t), Under("write", f))
    BY DEF CopyInv, DirCore
  <2>3. Phase(read[i], Reads(events, i), write[o], Writes(events, o), copying[d], Dead(d))
    BY DEF CopyInv, DirPhase
  <2>4. /\ Core(read'[i], write'[f], Reads(events', i), Writes(events', f), read'[t], write'[o],
                Reads(events', t), Writes(events', o), copying'[d], got'[d], wrote'[d],
                Under("read", t)', Under("write", f)') => DirCore(d)'
        /\ Phase(read'[i], Reads(events', i), write'[o], Writes(events', o), copying'[d], Dead(d)')
             => DirPhase(d)'
    BY DirPrimed
  <2>5. /\ Under("read", t)' = Under("read", t) /\ Under("write", f)' = Under("write", f)
    BY DEF Under, Copy!To, Copy!From
  <2>6. Dead(d)' = Dead(d)
    BY DEF Dead
  <2> HIDE DEF i, f, t, o
  <2>7. /\ Reads(events', i) = Reads(events, i) /\ Reads(events', t) = Reads(events, t)
        /\ Writes(events', o) = Writes(events, o) /\ Writes(events', f) = Writes(events, f)
    BY <2>1 DEF SameOperations
  <2> QED BY <2>2, <2>3, <2>4, <2>5, <2>6, <2>7
<1>2. \A d \in 1..2 : \E d2 \in 1..2 : d2 # d
  OBVIOUS
<1>3. \A d \in 1..2 : DirCore(d)' /\ DirPhase(d)'
  BY <1>1, <1>2
<1> QED BY <1>3 DEF CopyInv

\* BidirectionalStreamCopy::HandleDone.
LEMMA HandleDoneKeeps ==
  ASSUME CopyInv, Copy!HandleDone
  PROVE  CopyInv'
<1> DEFINE h == Head(events)
           s == Tail(events)
<1>0. /\ CopyTypes /\ events \in Seq(CopyEvent) /\ NothingFails /\ ToldOnce /\ ended \in Nat
      /\ done \in SUBSET (1..3)
  BY DEF CopyInv, CopyTypes
<1>1. /\ events # <<>> /\ h.op = "done"
      /\ UNCHANGED <<read, write, busy, copying, wrote, got, cancels>>
  BY DEF Copy!HandleDone
<1>2. h \in DoneEvent /\ h.copy \in 1..3 /\ (h = Copy!Done(3) <=> h.copy = 3)
  <2>1. h \in DoneEvent
    BY <1>0, <1>1, HeadKind
  <2> HIDE DEF h
  <2> QED BY <2>1 DEF DoneEvent, Copy!Done
<1>3. /\ s \in Seq(CopyEvent) /\ SameOperations(events, s)
      /\ h # Copy!Done(3) => Finals(events) = Finals(s)
      /\ h = Copy!Done(3) => Finals(events) = <<h>> \o Finals(s)
  BY <1>0, <1>1, <1>2, RunDone
<1>4. cancels # 0
  <2>1. h \in ToSet(events)
    BY <1>0, <1>1, ToSetHeadTail
  <2> QED BY <1>0, <1>1, <2>1 DEF NothingFails, NoFault
<1>5. NothingFails'
  BY <1>1, <1>4 DEF NothingFails
<1>6. CASE h.copy = 3
  <2>1. events' = s /\ ended' = ended + 1 /\ done' = done
    BY <1>6 DEF Copy!HandleDone
  <2> HIDE DEF h, s
  <2>2. Len(Finals(events)) = 1 + Len(Finals(s)) /\ Len(Finals(s)) \in Nat
    <3>1. Finals(s) \in Seq(CopyEvent)
      BY <1>3, KeepType DEF Finals
    <3> DEFINE a == <<h>>
               b == Finals(s)
    <3>2. a \in Seq(CopyEvent) /\ Len(a) = 1 /\ Finals(events) = a \o b
      BY <1>2, <1>3, <1>6 DEF CopyEvent
    <3> HIDE DEF a, b
    <3>3. Len(a \o b) = Len(a) + Len(b) /\ Len(b) \in Nat
      <4>1. a \in Seq(CopyEvent) /\ b \in Seq(CopyEvent)
        BY <3>1, <3>2 DEF b
      <4>2. Len(b) \in Nat
        BY <4>1
      <4> QED BY <4>1, <4>2, ConcatElements
    <3> QED BY <3>2, <3>3 DEF b
  <2>3. 3 \in done
    <3>1. Len(<<>>) = 0
      OBVIOUS
    <3>2. Finals(events) # <<>>
      BY <2>2, <3>1
    <3> QED BY <1>0, <3>2 DEF ToldOnce
  <2>4. ToldOnce'
    <3>1. ended' + Len(Finals(events')) <= 1
      BY <1>0, <2>1, <2>2 DEF ToldOnce
    <3> QED BY <2>1, <2>3, <3>1 DEF ToldOnce
  <2>5. CopyTypes'
    <3>1. ended' \in Nat /\ events' \in Seq(CopyEvent)
      BY <1>0, <1>3, <2>1
    <3> QED BY <1>0, <1>1, <2>1, <3>1 DEF CopyTypes
  <2> QED BY <1>1, <1>3, <1>5, <2>1, <2>4, <2>5, SameOperationsKeep
<1>7. CASE h.copy # 3
  <2>1. /\ events' = IF 3 \in done THEN s ELSE Append(s, Copy!Done(3))
        /\ done' = done \cup {3} /\ ended' = ended
    BY <1>7 DEF Copy!HandleDone
  <2> HIDE DEF h, s
  <2>2. Finals(events) = Finals(s)
    BY <1>2, <1>3, <1>7
  <2>3. /\ (1 \in done' <=> 1 \in done) /\ (2 \in done' <=> 2 \in done) /\ 3 \in done'
        /\ done' \in SUBSET (1..3)
    BY <1>0, <2>1
  <2>4. CASE 3 \in done
    <3>1. events' = s
      BY <2>1, <2>4
    <3>2. ToldOnce'
      BY <1>0, <2>1, <2>2, <2>3, <3>1 DEF ToldOnce
    <3>3. CopyTypes'
      BY <1>0, <1>1, <1>3, <2>1, <2>3, <3>1 DEF CopyTypes
    <3> QED BY <1>1, <1>3, <1>5, <2>3, <3>1, <3>2, <3>3, SameOperationsKeep
  <2>5. CASE 3 \notin done
    <3>0. Copy!Done(3) \in CopyEvent /\ 3 \in 1..3
      BY KindsApart
    <3>1. events' = s \o <<Copy!Done(3)>>
      <4>1. events' = Append(s, Copy!Done(3))
        BY <2>1, <2>5
      <4>2. s \in Seq(CopyEvent)
        BY <1>3
      <4> QED BY <3>0, <4>1, <4>2
    <3>2. /\ events' \in Seq(CopyEvent) /\ SameOperations(s, events')
          /\ Finals(events') = Finals(s) \o <<Copy!Done(3)>>
      BY <1>3, <3>0, <3>1, PostDone
    <3>3. ended = 0 /\ Finals(s) = <<>>
      BY <1>0, <2>2, <2>5 DEF ToldOnce
    <3>4. Finals(events') = <<Copy!Done(3)>>
      BY <3>2, <3>3, FirstOne
    <3>5. Len(<<Copy!Done(3)>>) = 1
      OBVIOUS
    <3>6. ToldOnce'
      <4>1. ended' + Len(Finals(events')) = 1
        BY <2>1, <3>3, <3>4, <3>5
      <4> QED BY <2>3, <4>1 DEF ToldOnce
    <3>7. CopyTypes'
      BY <1>0, <1>1, <2>1, <2>3, <3>2 DEF CopyTypes
    <3>8. SameOperations(events, events')
      BY <1>3, <3>2 DEF SameOperations
    <3> QED BY <1>1, <1>5, <2>3, <3>6, <3>7, <3>8, SameOperationsKeep
  <2> QED BY <2>4, <2>5
<1> QED BY <1>6, <1>7

\* The operations of end e are aborted.
Canceled(e) ==
  /\ read'[e] = 0 /\ write'[e] = <<>>
  /\ \A x \in 1..4 : x # e => read'[x] = read[x] /\ write'[x] = write[x]
  /\ \A x \in 1..4 : x # e => Reads(events', x) = Reads(events, x)
  /\ \A x \in 1..4 : x # e => Writes(events', x) = Writes(events, x)
  /\ read[e] = 0 => Reads(events', e) = Reads(events, e)
  /\ read[e] # 0 => \E h : h.bytes = <<>> /\ Reads(events', e) = Reads(events, e) \o <<h>>
  /\ write[e] = <<>> => Writes(events', e) = Writes(events, e)
  /\ write[e] # <<>> => \E h : h.n = 0 /\ Writes(events', e) = Writes(events, e) \o <<h>>

\* HalfPipe::cancel aborts the operations of one end.
LEMMA CancelView ==
  ASSUME CopyTypes, NEW e \in 1..4, Copy!Becomes(Copy!CancelEnd(Copy!Pipes(events), e))
  PROVE  /\ Canceled(e) /\ events' \in Seq(CopyEvent) /\ Finals(events') = Finals(events)
         /\ read' \in [1..4 -> Nat] /\ write' \in [1..4 -> Seq(Int)]
<1> DEFINE hr == Copy!ReadDone(e, "aborted", <<>>)
           hw == Copy!WriteDone(e, "aborted", 0)
           a == IF read[e] = 0 THEN <<>> ELSE <<hr>>
           b == IF write[e] = <<>> THEN <<>> ELSE <<hw>>
           u == events \o a
<1>0. /\ read \in [1..4 -> Nat] /\ write \in [1..4 -> Seq(Int)] /\ events \in Seq(CopyEvent)
  BY DEF CopyTypes
<1>1. /\ read' = [read EXCEPT ![e] = 0] /\ write' = [write EXCEPT ![e] = <<>>]
      /\ events' = (events \o a) \o b
  BY DEF Copy!Becomes, Copy!CancelEnd, Copy!Pipes
<1>2. hr \in ReadsOf(e) /\ hr.bytes = <<>> /\ hw \in WritesOf(e) /\ hw.n = 0
  BY AbortedEnd
<1>3. /\ read'[e] = 0 /\ write'[e] = <<>>
      /\ \A x \in 1..4 : x # e => read'[x] = read[x] /\ write'[x] = write[x]
  BY <1>0, <1>1
<1>4. read' \in [1..4 -> Nat] /\ write' \in [1..4 -> Seq(Int)]
  <2>1. <<>> \in Seq(Int)
    BY EmptyIsSeq
  <2>2. read' \in [1..4 -> Nat]
    BY <1>0, <1>1
  <2>3. write' \in [1..4 -> Seq(Int)]
    BY <1>0, <1>1, <2>1
  <2> QED BY <2>2, <2>3
<1> HIDE DEF hr, hw
<1>5. /\ read[e] = 0 => u = events
      /\ read[e] # 0 => MoreReads(events, u, e, hr)
  <2>1. read[e] = 0 => u = events
    BY <1>0, ConcatEmpty
  <2>2. read[e] # 0 => MoreReads(events, u, e, hr)
    BY <1>0, <1>2, PostRead
  <2> QED BY <2>1, <2>2
<1> HIDE DEF u, a
<1>6. u \in Seq(CopyEvent)
  BY <1>0, <1>5 DEF MoreReads
<1>7. /\ write[e] = <<>> => events' = u
      /\ write[e] # <<>> => MoreWrites(u, events', e, hw)
  <2>0. events' = u \o b
    BY <1>1 DEF u
  <2>1. write[e] = <<>> => events' = u
    BY <1>6, <2>0, ConcatEmpty
  <2>2. write[e] # <<>> => MoreWrites(u, events', e, hw)
    BY <1>2, <1>6, <2>0, PostWrite
  <2> QED BY <2>1, <2>2
<1>8. events' \in Seq(CopyEvent) /\ Finals(events') = Finals(events)
  BY <1>5, <1>6, <1>7 DEF MoreReads, MoreWrites
<1>9. /\ \A x \in 1..4 : x # e => Reads(events', x) = Reads(events, x)
      /\ read[e] = 0 => Reads(events', e) = Reads(events, e)
      /\ read[e] # 0 => Reads(events', e) = Reads(events, e) \o <<hr>>
  BY <1>5, <1>7 DEF MoreReads, MoreWrites
<1>10. /\ \A x \in 1..4 : x # e => Writes(events', x) = Writes(events, x)
       /\ write[e] = <<>> => Writes(events', e) = Writes(events, e)
       /\ write[e] # <<>> => Writes(events', e) = Writes(events, e) \o <<hw>>
  BY <1>5, <1>7 DEF MoreReads, MoreWrites
<1>11. Canceled(e)
  BY <1>2, <1>3, <1>9, <1>10 DEF Canceled
<1> QED BY <1>4, <1>8, <1>11

\* A cancel of any of its ends keeps the invariant of a direction.
LEMMA CancelDirection ==
  ASSUME CopyInv, NEW d \in 1..2, NEW d2 \in 1..2, d2 # d, NEW e \in 1..4, Canceled(e),
         UNCHANGED <<busy, copying, done, wrote, got>>
  PROVE  DirCore(d)' /\ DirPhase(d)'
<1> DEFINE i == Copy!In(d)
           f == Copy!From(d)
           t == Copy!To(d)
           o == Copy!Out(d)
<1>1. /\ i \in 1..4 /\ f \in 1..4 /\ t \in 1..4 /\ o \in 1..4
      /\ i # o /\ i # f /\ i # t /\ o # f /\ o # t /\ f # t /\ e \in {i, o, f, t}
  BY EndsOf
<1>3. Core(read[i], write[f], Reads(events, i), Writes(events, f), read[t], write[o],
           Reads(events, t), Writes(events, o), copying[d], got[d], wrote[d],
           Under("read", t), Under("write", f))
  BY DEF CopyInv, DirCore
<1>4. Phase(read[i], Reads(events, i), write[o], Writes(events, o), copying[d], Dead(d))
  BY DEF CopyInv, DirPhase
<1>5. /\ Core(read'[i], write'[f], Reads(events', i), Writes(events', f), read'[t], write'[o],
              Reads(events', t), Writes(events', o), copying'[d], got'[d], wrote'[d],
              Under("read", t)', Under("write", f)') => DirCore(d)'
      /\ Phase(read'[i], Reads(events', i), write'[o], Writes(events', o), copying'[d], Dead(d)')
           => DirPhase(d)'
  BY DirPrimed
<1>6. Under("read", t)' = Under("read", t) /\ Under("write", f)' = Under("write", f)
  BY DEF Under, Copy!To, Copy!From
<1>7. Dead(d)' = Dead(d)
  BY DEF Dead
<1> HIDE DEF i, f, t, o
<1>8. CASE e = i
  <2>1. /\ read'[t] = read[t] /\ write'[f] = write[f] /\ write'[o] = write[o]
        /\ Reads(events', t) = Reads(events, t) /\ Writes(events', f) = Writes(events, f)
        /\ Writes(events', o) = Writes(events, o) /\ read'[i] = 0
    BY <1>1, <1>8 DEF Canceled
  <2>2. CASE read[i] = 0
    <3>1. Reads(events', i) = Reads(events, i)
      BY <1>8, <2>2 DEF Canceled
    <3> QED BY <1>3, <1>4, <1>5, <1>6, <1>7, <2>1, <2>2, <3>1
  <2>3. CASE read[i] # 0
    <3>1. PICK h : h.bytes = <<>> /\ Reads(events', i) = Reads(events, i) \o <<h>>
      BY <1>8, <2>3 DEF Canceled
    <3>2. /\ Reads(events, i) = <<>> /\ write[o] = <<>> /\ Writes(events, o) = <<>>
          /\ Dead(d) = 0 /\ copying[d] = <<>>
      BY <1>4, <2>3 DEF Phase
    <3>3. Reads(events', i) = <<h>>
      BY <3>1, <3>2, FirstOne
    <3>4. Core(0, write[f], <<h>>, Writes(events, f), read[t], write[o],
               Reads(events, t), Writes(events, o), copying[d], got[d], wrote[d],
               Under("read", t), Under("write", f))
      BY <1>3, <3>1, <3>2, ReadInCanceled
    <3>5. Phase(0, <<h>>, write[o], Writes(events, o), copying[d], Dead(d))
      BY <3>2, OneBytes DEF Phase
    <3> QED BY <1>5, <1>6, <1>7, <2>1, <3>3, <3>4, <3>5
  <2> QED BY <2>2, <2>3
<1>9. CASE e = f
  <2>1. /\ read'[t] = read[t] /\ read'[i] = read[i] /\ write'[o] = write[o]
        /\ Reads(events', t) = Reads(events, t) /\ Reads(events', i) = Reads(events, i)
        /\ Writes(events', o) = Writes(events, o) /\ write'[f] = <<>>
    BY <1>1, <1>9 DEF Canceled
  <2>4. DirPhase(d)'
    BY <1>4, <1>5, <1>7, <2>1
  <2>2. CASE write[f] = <<>>
    <3>1. Writes(events', f) = Writes(events, f)
      BY <1>9, <2>2 DEF Canceled
    <3> QED BY <1>3, <1>5, <1>6, <2>1, <2>2, <2>4, <3>1
  <2>3. CASE write[f] # <<>>
    <3>1. PICK h : h.n = 0 /\ Writes(events', f) = Writes(events, f) \o <<h>>
      BY <1>9, <2>3 DEF Canceled
    <3>2. Writes(events, f) = <<>>
      BY <1>3, <2>3 DEF Core, User
    <3>3. Writes(events', f) = <<h>>
      BY <3>1, <3>2, FirstOne
    <3>4. Core(read[i], <<>>, Reads(events, i), <<h>>, read[t], write[o],
               Reads(events, t), Writes(events, o), copying[d], got[d], wrote[d],
               Under("read", t), Under("write", f))
      BY <1>3, <2>3, <3>1, WriteFromCanceled
    <3> QED BY <1>5, <1>6, <2>1, <2>4, <3>3, <3>4
  <2> QED BY <2>2, <2>3
<1>10. CASE e = t
  <2>1. /\ write'[f] = write[f] /\ read'[i] = read[i] /\ write'[o] = write[o]
        /\ Writes(events', f) = Writes(events, f) /\ Reads(events', i) = Reads(events, i)
        /\ Writes(events', o) = Writes(events, o) /\ read'[t] = 0
    BY <1>1, <1>10 DEF Canceled
  <2>4. DirPhase(d)'
    BY <1>4, <1>5, <1>7, <2>1
  <2>2. CASE read[t] = 0
    <3>1. Reads(events', t) = Reads(events, t)
      BY <1>10, <2>2 DEF Canceled
    <3> QED BY <1>3, <1>5, <1>6, <2>1, <2>2, <2>4, <3>1
  <2>3. CASE read[t] # 0
    <3>1. PICK h : h.bytes = <<>> /\ Reads(events', t) = Reads(events, t) \o <<h>>
      BY <1>10, <2>3 DEF Canceled
    <3>2. Reads(events, t) = <<>>
      BY <1>3, <2>3 DEF Core, User
    <3>3. Reads(events', t) = <<h>>
      BY <3>1, <3>2, FirstOne
    <3>4. Core(read[i], write[f], Reads(events, i), Writes(events, f), 0, write[o],
               <<h>>, Writes(events, o), copying[d], got[d], wrote[d],
               Under("read", t), Under("write", f))
      BY <1>3, <2>3, <3>1, ReadToCanceled
    <3> QED BY <1>5, <1>6, <2>1, <2>4, <3>3, <3>4
  <2> QED BY <2>2, <2>3
<1>11. CASE e = o
  <2>1. /\ read'[t] = read[t] /\ write'[f] = write[f] /\ read'[i] = read[i]
        /\ Reads(events', t) = Reads(events, t) /\ Writes(events', f) = Writes(events, f)
        /\ Reads(events', i) = Reads(events, i) /\ write'[o] = <<>>
    BY <1>1, <1>11 DEF Canceled
  <2>2. CASE write[o] = <<>>
    <3>1. Writes(events', o) = Writes(events, o)
      BY <1>11, <2>2 DEF Canceled
    <3> QED BY <1>3, <1>4, <1>5, <1>6, <1>7, <2>1, <2>2, <3>1
  <2>3. CASE write[o] # <<>>
    <3>1. PICK h : h.n = 0 /\ Writes(events', o) = Writes(events, o) \o <<h>>
      BY <1>11, <2>3 DEF Canceled
    <3>2. /\ Reads(events, i) = <<>> /\ read[i] = 0 /\ Writes(events, o) = <<>> /\ Dead(d) = 0
      BY <1>4, <2>3 DEF Phase
    <3>3. Writes(events', o) = <<h>>
      BY <3>1, <3>2, FirstOne
    <3>4. Core(read[i], write[f], Reads(events, i), Writes(events, f), read[t], <<>>,
               Reads(events, t), <<h>>, copying[d], got[d], wrote[d],
               Under("read", t), Under("write", f))
      BY <1>3, <3>1, <3>2, WriteOutCanceled
    <3>5. Phase(read[i], Reads(events, i), <<>>, <<h>>, copying[d], Dead(d))
      BY <3>2, OneBytes DEF Phase
    <3> QED BY <1>5, <1>6, <1>7, <2>1, <3>3, <3>4, <3>5
  <2> QED BY <2>2, <2>3
<1> QED BY <1>1, <1>8, <1>9, <1>10, <1>11

\* An end is canceled.
LEMMA CopyCancelKeeps ==
  ASSUME CopyInv, NEW e \in 1..4, Copy!Cancel(e)
  PROVE  CopyInv'
<1>0. CopyTypes /\ ToldOnce /\ cancels \in Nat
  BY DEF CopyInv, CopyTypes
<1>1. /\ cancels' = cancels + 1 /\ UNCHANGED <<busy, copying, done, wrote, got, ended>>
      /\ Copy!Becomes(Copy!CancelEnd(Copy!Pipes(events), e))
  BY DEF Copy!Cancel
<1>2. /\ Canceled(e) /\ events' \in Seq(CopyEvent) /\ Finals(events') = Finals(events)
      /\ read' \in [1..4 -> Nat] /\ write' \in [1..4 -> Seq(Int)]
  BY <1>0, <1>1, CancelView
<1>3. cancels' \in Nat /\ cancels' # 0
  BY <1>0, <1>1
<1>4. CopyTypes'
  BY <1>0, <1>1, <1>2, <1>3 DEF CopyTypes
<1>5. ToldOnce'
  BY <1>0, <1>1, <1>2 DEF ToldOnce
<1>6. NothingFails'
  BY <1>3 DEF NothingFails
<1>7. ASSUME NEW d \in 1..2, NEW d2 \in 1..2, d2 # d PROVE DirCore(d)' /\ DirPhase(d)'
  BY <1>1, <1>2, <1>7, CancelDirection
<1>8. \A d \in 1..2 : \E d2 \in 1..2 : d2 # d
  OBVIOUS
<1> QED BY <1>4, <1>5, <1>6, <1>7, <1>8 DEF CopyInv

\* Both copies read at first.
LEMMA CopyStarts == ASSUME Copy!Init PROVE CopyInv
<1> DEFINE n == <<>>
<1>0. CopySize \in Nat /\ CopySize # 0
  BY HostIoAssumption
<1>1. /\ read = [e \in 1..4 |-> IF e \in {2, 3} THEN CopySize ELSE 0]
      /\ write = [e \in 1..4 |-> <<>>] /\ events = <<>> /\ busy = [e \in {1, 4} |-> {}]
      /\ copying = [d \in 1..2 |-> <<>>] /\ done = {}
      /\ wrote = [d \in 1..2 |-> <<>>] /\ got = [d \in 1..2 |-> <<>>]
      /\ cancels = 0 /\ ended = 0
  BY DEF Copy!Init, Copy!Ends, Copy!Directions
<1>2. n \in Seq(Int) /\ n \in Seq(CopyEvent) /\ Len(n) = 0 /\ ToSet(n) = {}
  BY EmptyIsSeq DEF ToSet
<1>3. Finals(n) = n /\ (\A e \in 1..4 : Reads(n, e) = n) /\ (\A e \in 1..4 : Writes(n, e) = n)
  BY KeepEmpty DEF Finals, Reads, Writes
<1>4. CopyTypes
  <2>1. read \in [1..4 -> Nat]
    BY <1>0, <1>1
  <2>2. /\ write \in [1..4 -> Seq(Int)] /\ copying \in [1..2 -> Seq(Int)]
        /\ wrote \in [1..2 -> Seq(Int)] /\ got \in [1..2 -> Seq(Int)]
    BY <1>1, <1>2
  <2>3. busy \in [{1, 4} -> SUBSET {"read", "write"}] /\ done \in SUBSET (1..3)
    BY <1>1
  <2> QED BY <1>1, <1>2, <2>1, <2>2, <2>3 DEF CopyTypes
<1>5. ToldOnce
  <2>1. Finals(events) = <<>> /\ Len(Finals(events)) = 0
    BY <1>1, <1>2, <1>3
  <2> QED BY <1>1, <2>1 DEF ToldOnce
<1>6. NothingFails
  BY <1>1, <1>2 DEF NothingFails, NoFault
<1>7. ASSUME NEW d \in 1..2, NEW d2 \in 1..2, d2 # d PROVE DirCore(d) /\ DirPhase(d)
  <2> DEFINE i == Copy!In(d)
             f == Copy!From(d)
             t == Copy!To(d)
             o == Copy!Out(d)
  <2>1. i \in {2, 3} /\ o \in {2, 3} /\ f \in {1, 4} /\ t \in {1, 4}
    BY DEF Copy!In, Copy!Out, Copy!From, Copy!To
  <2>2. Core(read[i], write[f], Reads(events, i), Writes(events, f), read[t], write[o],
             Reads(events, t), Writes(events, o), copying[d], got[d], wrote[d],
             Under("read", t), Under("write", f)) => DirCore(d)
    BY DEF DirCore
  <2>3. Phase(read[i], Reads(events, i), write[o], Writes(events, o), copying[d], Dead(d))
           => DirPhase(d)
    BY DEF DirPhase
  <2> HIDE DEF i, f, t, o
  <2>4. /\ read[i] = CopySize /\ write[f] = <<>> /\ read[t] = 0 /\ write[o] = <<>>
        /\ copying[d] = <<>> /\ got[d] = <<>> /\ wrote[d] = <<>>
        /\ Under("read", t) = 0 /\ Under("write", f) = 0 /\ Dead(d) = 0
    BY <1>1, <2>1 DEF Under, Dead
  <2>5. /\ Reads(events, i) = <<>> /\ Writes(events, f) = <<>>
        /\ Reads(events, t) = <<>> /\ Writes(events, o) = <<>>
    BY <1>1, <1>3, <2>1
  <2>6. Core(CopySize, <<>>, <<>>, <<>>, 0, <<>>, <<>>, <<>>, <<>>, <<>>, <<>>, 0, 0)
    <3>1. Flow(<<>>, <<>>, <<>>, Bytes(<<>>), Bytes(<<>>), Count(<<>>), Count(<<>>), <<>>, <<>>)
      BY FlowStart, OneBytes
    <3> QED BY <1>0, <3>1 DEF Core, User
  <2>7. Phase(CopySize, <<>>, <<>>, <<>>, <<>>, 0)
    BY <1>0 DEF Phase
  <2> QED BY <2>2, <2>3, <2>4, <2>5, <2>6, <2>7
<1>8. \A d \in 1..2 : \E d2 \in 1..2 : d2 # d
  OBVIOUS
<1> QED BY <1>4, <1>5, <1>6, <1>7, <1>8 DEF CopyInv

\* Every step of the copies and their users keeps the invariant.
LEMMA CopyKeeps == ASSUME CopyInv, Copy!Next PROVE CopyInv'
<1>1. ASSUME NEW d \in 1..2, NEW d2 \in 1..2, d2 # d, Copy!HandleRead(d) PROVE CopyInv'
  BY <1>1, HandleReadKeeps
<1>2. ASSUME NEW d \in 1..2, NEW d2 \in 1..2, d2 # d, Copy!HandleWrite(d) PROVE CopyInv'
  BY <1>2, HandleWriteKeeps
<1>3. ASSUME NEW d \in 1..2, NEW d2 \in 1..2, d2 # d, Copy!UserIsTold(d) PROVE CopyInv'
  BY <1>3, UserIsToldKeeps
<1>4. ASSUME NEW d \in 1..2, NEW d2 \in 1..2, d2 # d, NEW size \in ReadSizes,
             Copy!UserReads(d, size)
      PROVE  CopyInv'
  <2>1. size \in Nat
    BY HostIoAssumption
  <2> QED BY <1>4, <2>1, UserReadsKeeps
<1>5. ASSUME NEW d \in 1..2, NEW d2 \in 1..2, d2 # d, NEW size \in WriteSizes,
             Copy!UserWrites(d, size)
      PROVE  CopyInv'
  <2>1. size \in Nat
    BY HostIoAssumption
  <2> QED BY <1>5, <2>1, UserWritesKeeps
<1>6. CASE Copy!HandleDone
  BY <1>6, HandleDoneKeeps
<1>7. ASSUME NEW e \in 1..4, Copy!Cancel(e) PROVE CopyInv'
  BY <1>7, CopyCancelKeeps
<1>8. \A d \in 1..2 : \E d2 \in 1..2 : d2 # d
  OBVIOUS
<1> QED BY <1>1, <1>2, <1>3, <1>4, <1>5, <1>6, <1>7, <1>8
        DEF Copy!Next, Copy!Directions, Copy!Ends

\* The operation a copy has under way is waiting or posted.
LEMMA PostedOne ==
  ASSUME NEW s \in Seq(CopyEvent), NEW S, One(Keep(s, S))
  PROVE  \E k \in DOMAIN s : s[k] \in S
<1>1. PICK h : Keep(s, S) = <<h>>
  BY DEF One
<1>2. <<h>>[1] = h /\ Len(<<h>>) = 1
  OBVIOUS
<1>3. Keep(s, S) \in Seq(CopyEvent) /\ ToSet(Keep(s, S)) = ToSet(s) \cap S
  BY KeepType, KeepToSet
<1>4. h \in ToSet(s) \cap S
  <2> DEFINE r == Keep(s, S)
  <2>1. r \in Seq(CopyEvent) /\ Len(r) = 1 /\ r[1] = h
    BY <1>1, <1>2, <1>3
  <2> HIDE DEF r
  <2>2. r[1] \in ToSet(r)
    <3>1. 1 \in 1..Len(r)
      BY <2>1
    <3> QED BY <2>1, <3>1, ToSetElement
  <2> QED BY <1>3, <2>1, <2>2 DEF r
<1>5. \E k \in 1..Len(s) : s[k] = h
  BY <1>4, ToSetElement
<1>6. DOMAIN s = 1..Len(s)
  OBVIOUS
<1> QED BY <1>4, <1>5, <1>6

\* What the users of a copy rely on.
LEMMA CopyPromises == ASSUME CopyInv PROVE Copy!CopiedInOrder /\ Copy!NoStandoff
<1>0. CopyTypes /\ ToldOnce /\ NothingFails /\ events \in Seq(CopyEvent) /\ ended \in Nat
  BY DEF CopyInv, CopyTypes
<1>8. \A d \in 1..2 : \E d2 \in 1..2 : d2 # d
  OBVIOUS
<1>1. ASSUME NEW d \in 1..2
      PROVE  /\ \A k \in DOMAIN got[d] : got[d][k] = k
             /\ events = <<>> => Len(wrote[d]) = Len(got[d]) + Len(copying[d])
  <2> DEFINE qi == Reads(events, Copy!In(d))
             qt == Reads(events, Copy!To(d))
             qo == Writes(events, Copy!Out(d))
             qf == Writes(events, Copy!From(d))
             g == got[d]
             w == wrote[d]
             c == copying[d]
  <2>1. Flow(g, w, c, Bytes(qi), Bytes(qt), Count(qo), Count(qf), write[Copy!From(d)],
             write[Copy!Out(d)])
    BY DEF CopyInv, DirCore, Core
  <2>2. g \in Seq(Int) /\ w \in Seq(Int) /\ c \in Seq(Int)
    BY <2>1 DEF Flow, FlowTypes
  <2>3. \A k \in DOMAIN g : g[k] = k
    <3>1. Follows(g, 0) /\ Len(g) \in Nat /\ DOMAIN g = 1..Len(g)
      BY <2>1, <2>2 DEF Flow
    <3> DEFINE n == Len(g)
    <3>2. g = Run(0, n) /\ n \in Nat
      BY <3>1 DEF Follows
    <3> HIDE DEF n
    <3>3. \A k \in 1..n : Run(0, n)[k] = 0 + k
      <4>1. 0 \in Int /\ n \in Nat
        BY <3>2
      <4> QED BY <4>1, RunFacts
    <3>4. \A k \in 1..n : g[k] = k
      BY <3>2, <3>3
    <3> QED BY <3>1, <3>4 DEF n
  <2>4. ASSUME events = <<>> PROVE Len(w) = Len(g) + Len(c)
    <3>1. qi = <<>> /\ qt = <<>> /\ qo = <<>> /\ qf = <<>>
      BY <2>4, KeepEmpty DEF Reads, Writes
    <3>2. Bytes(qi) = <<>> /\ Bytes(qt) = <<>> /\ Count(qo) = 0 /\ Count(qf) = 0
      BY <3>1, OneBytes
    <3>3. Len(g) + Len(Bytes(qt)) + Len(c) - Count(qo) + Len(Bytes(qi)) = Len(w) + Count(qf)
      BY <2>1 DEF Flow
    <3>4. Len(<<>>) = 0 /\ Len(g) \in Nat /\ Len(w) \in Nat /\ Len(c) \in Nat
      BY <2>2
    <3> HIDE DEF g, w, c, qi, qt, qo, qf
    <3>5. Len(g) + 0 + Len(c) - 0 + 0 = Len(w) + 0
      BY <3>2, <3>3, <3>4
    <3> QED BY <3>4, <3>5
  <2> QED BY <2>3, <2>4
<1>2. cancels = 0 => ended = 0
  BY <1>0 DEF NothingFails
<1>3. Copy!CopiedInOrder
  BY <1>1, <1>2 DEF Copy!CopiedInOrder, Copy!Directions
<1>4. ASSUME NEW e \in 1..4 PROVE ~(read[e] # 0 /\ write[Copy!Other(e)] # <<>>)
  <2>1. \E d \in 1..2 : e \in {Copy!In(d), Copy!To(d)}
    BY DEF Copy!In, Copy!To
  <2>2. PICK d \in 1..2 : e \in {Copy!In(d), Copy!To(d)}
    BY <2>1
  <2>3. /\ read[Copy!In(d)] # 0 => write[Copy!From(d)] = <<>>
        /\ read[Copy!To(d)] # 0 => write[Copy!Out(d)] = <<>>
    BY DEF CopyInv, DirCore, Core
  <2>4. Copy!Other(Copy!In(d)) = Copy!From(d) /\ Copy!Other(Copy!To(d)) = Copy!Out(d)
    BY <1>8, EndsOf
  <2> QED BY <2>2, <2>3, <2>4
<1>5. ASSUME NEW d \in 1..2, d \notin done
      PROVE  \/ read[Copy!In(d)] # 0
             \/ write[Copy!Out(d)] # <<>>
             \/ \E k \in DOMAIN events :
                  \/ events[k].op = "read" /\ events[k].end = Copy!In(d)
                  \/ events[k].op = "write" /\ events[k].end = Copy!Out(d)
  <2> DEFINE i == Copy!In(d)
             o == Copy!Out(d)
  <2>1. Phase(read[i], Reads(events, i), write[o], Writes(events, o), copying[d], Dead(d))
    BY DEF CopyInv, DirPhase
  <2>2. Dead(d) = 0
    BY <1>5 DEF Dead
  <2> HIDE DEF i, o
  <2>3. read[i] # 0 \/ write[o] # <<>> \/ One(Reads(events, i)) \/ One(Writes(events, o))
    BY <2>1, <2>2 DEF Phase
  <2>4. /\ \A h \in ReadsOf(i) : h.op = "read" /\ h.end = i
        /\ \A h \in WritesOf(o) : h.op = "write" /\ h.end = o
    BY DEF ReadsOf, WritesOf, ReadEvent, WriteEvent
  <2>5. CASE One(Reads(events, i))
    <3>1. PICK k \in DOMAIN events : events[k] \in ReadsOf(i)
      BY <1>0, <2>5, PostedOne DEF Reads
    <3>2. events[k].op = "read" /\ events[k].end = i
      BY <2>4, <3>1
    <3> QED BY <3>2 DEF i
  <2>6. CASE One(Writes(events, o))
    <3>1. PICK k \in DOMAIN events : events[k] \in WritesOf(o)
      BY <1>0, <2>6, PostedOne DEF Writes
    <3>2. events[k].op = "write" /\ events[k].end = o
      BY <2>4, <3>1
    <3> QED BY <3>2 DEF o
  <2> QED BY <2>3, <2>5, <2>6 DEF i, o
<1>6. ended <= 1
  <2>1. Finals(events) \in Seq(CopyEvent)
    BY <1>0, KeepType DEF Finals
  <2>2. Len(Finals(events)) \in Nat
    BY <2>1
  <2> QED BY <1>0, <2>2 DEF ToldOnce
<1>7. Copy!NoStandoff
  BY <1>4, <1>5, <1>6 DEF Copy!NoStandoff, Copy!Ends, Copy!Directions
<1> QED BY <1>3, <1>7

-----------------------------------------------------------------------------
(* The parts together *)

HostInv ==
  /\ which = "timer" => TimerInv
  /\ which = "sequence" => SequenceInv
  /\ which = "executor" => ExecutorInv
  /\ which = "copy" => CopyInv
  /\ which = "server" => ServerInv

\* Every part starts in its invariant.
LEMMA HostStarts == ASSUME AllInit PROVE HostInv
<1>1. which = "timer" => TimerInv
  BY TimerStarts DEF AllInit
<1>2. which = "sequence" => SequenceInv
  BY SequenceStarts DEF AllInit
<1>3. which = "executor" => ExecutorInv
  BY ExecutorStarts DEF AllInit
<1>4. which = "copy" => CopyInv
  BY CopyStarts DEF AllInit
<1>5. which = "server" => ServerInv
  BY ServerStarts DEF AllInit
<1> QED BY <1>1, <1>2, <1>3, <1>4, <1>5 DEF HostInv

\* A step of one part.
LEMMA HostKeeps == ASSUME HostInv, AllNext PROVE HostInv'
<1>1. CASE CommandStep
  <2>1. which = "command" /\ which' = which
    BY <1>1 DEF CommandStep, OtherVars
  <2> QED BY <2>1 DEF HostInv
<1>2. CASE TimerStep
  <2>1. which = "timer" /\ which' = which /\ Timer!Next
    BY <1>2 DEF TimerStep
  <2>2. TimerInv'
    BY <2>1, TimerKeeps DEF HostInv
  <2> QED BY <2>1, <2>2 DEF HostInv
<1>3. CASE SequenceStep
  <2>1. which = "sequence" /\ which' = which /\ Sequence!Next
    BY <1>3 DEF SequenceStep
  <2>2. SequenceInv'
    BY <2>1, SequenceKeeps DEF HostInv
  <2> QED BY <2>1, <2>2 DEF HostInv
<1>4. CASE ExecutorStep
  <2>1. which = "executor" /\ which' = which /\ Executor!Next
    BY <1>4 DEF ExecutorStep
  <2>2. ExecutorInv'
    BY <2>1, ExecutorKeeps DEF HostInv
  <2> QED BY <2>1, <2>2 DEF HostInv
<1>5. CASE CopyStep
  <2>1. which = "copy" /\ which' = which /\ Copy!Next
    BY <1>5 DEF CopyStep
  <2>2. CopyInv'
    BY <2>1, CopyKeeps DEF HostInv
  <2> QED BY <2>1, <2>2 DEF HostInv
<1>6. CASE ServerStep
  <2>1. which = "server" /\ which' = which /\ Server!Next
    BY <1>6 DEF ServerStep
  <2>2. ServerInv'
    BY <2>1, ServerKeeps DEF HostInv
  <2> QED BY <2>1, <2>2 DEF HostInv
<1> QED BY <1>1, <1>2, <1>3, <1>4, <1>5, <1>6 DEF AllNext

\* A step that is not of a part leaves its invariant alone.
LEMMA TimerRests == ASSUME TimerInv, UNCHANGED timerVars PROVE TimerInv'
<1>1. TimerTypes' /\ SortedByTime(queue)'
  BY DEF TimerInv, TimerTypes, SortedByTime, timerVars
<1>2. ASSUME NEW t \in DOMAIN Period PROVE TimerRight(t)'
  BY DEF TimerInv, TimerRight, OnRate, HasWait, CallsOf, Timer!Wait, timerVars
<1> QED BY <1>1, <1>2 DEF TimerInv

\* The same for AsyncSequence.
LEMMA SequenceRests == ASSUME SequenceInv, UNCHANGED sequenceVars PROVE SequenceInv'
BY DEF SequenceInv, sequenceVars, LastTaken, NotStarted, ItemPosted, ItemRuns, DonePosted, DoneCalled

\* The same for RealtimeExecutor.
LEMMA ExecutorRests == ASSUME ExecutorInv, UNCHANGED executorVars PROVE ExecutorInv'
BY DEF ExecutorInv, executorVars, Executor!TimersMatchWork

\* The same for StreamCopy.
LEMMA CopyRests == ASSUME CopyInv, UNCHANGED copyVars PROVE CopyInv'
<1>0. /\ UNCHANGED <<read, write, busy, copying, done, wrote, got>>
      /\ UNCHANGED <<events, cancels, ended>>
  BY DEF copyVars
<1>1. CopyTypes' /\ ToldOnce' /\ NothingFails'
  BY <1>0 DEF CopyInv, CopyTypes, ToldOnce, NothingFails
<1>2. SameOperations(events, events')
  BY <1>0 DEF SameOperations
<1> QED BY <1>0, <1>1, <1>2, SameOperationsKeep

\* The same for TcpServerStream.
LEMMA ServerRests == ASSUME ServerInv, UNCHANGED serverVars PROVE ServerInv'
BY DEF ServerInv, CreationInv, PlacesInv, serverVars, Server!Types

\* A step of no part.
LEMMA HostRests == ASSUME HostInv, UNCHANGED allVars PROVE HostInv'
<1>0. /\ which' = which /\ UNCHANGED timerVars /\ UNCHANGED sequenceVars
      /\ UNCHANGED executorVars /\ UNCHANGED copyVars /\ UNCHANGED serverVars
  BY DEF allVars
<1>1. TimerInv => TimerInv'
  BY <1>0, TimerRests
<1>2. SequenceInv => SequenceInv'
  BY <1>0, SequenceRests
<1>3. ExecutorInv => ExecutorInv'
  BY <1>0, ExecutorRests
<1>4. CopyInv => CopyInv'
  BY <1>0, CopyRests
<1>5. ServerInv => ServerInv'
  BY <1>0, ServerRests
<1> QED BY <1>0, <1>1, <1>2, <1>3, <1>4, <1>5 DEF HostInv

\* Every part of the host keeps its invariant.
THEOREM HostInvariant == AllSpec => []HostInv
<1>1. AllInit => HostInv
  BY HostStarts
<1>2. HostInv /\ [AllNext]_allVars => HostInv'
  BY HostKeeps, HostRests
<1> QED BY <1>1, <1>2, PTL DEF AllSpec

\* AsyncSequence, StreamCopy and TcpServerStream do what they are asked in
\* order and once, whatever fails, is canceled or has to wait: a sequence
\* calls its completion once and nothing after it; through a pair of copies
\* bytes arrive in order and once, none is lost without a cancel, and no read
\* and write wait for each other; an operation on a TCP stream is told once,
\* through the loss of a client and a cancel (async_sequence.cc,
\* stream_copy.h, stream_factory_tcp_server.cc).
THEOREM StreamsAreKept == AllSpec => []StreamsKept
<1>1. HostInv => StreamsKept
  <2> SUFFICES ASSUME HostInv PROVE StreamsKept
    OBVIOUS
  <2>1. which = "sequence" => Sequence!OneAfterAnother
    BY SequenceInOrder DEF HostInv
  <2>2. which = "copy" => Copy!CopiedInOrder /\ Copy!NoStandoff
    BY CopyPromises DEF HostInv
  <2>3. which = "server" => Server!OperationsKept
    BY ServerOperations DEF HostInv
  <2> QED BY <2>1, <2>2, <2>3 DEF StreamsKept
<1> QED BY <1>1, HostInvariant, PTL

\* A RepeatingTimer that is started always has a wait or the end of one under
\* way, and keeps its rate however late its handlers run; after cancel() it
\* enqueues no call.  Unless the options change meanwhile, the idle timer of
\* RealtimeExecutor runs exactly while there is work, its event timer only in
\* handlers, and throughout those that run no callback inline
\* (repeating_timer.cc, realtime_executor.h).
THEOREM RatesAreKept == AllSpec => []RatesKept
<1>1. HostInv => RatesKept
  <2> SUFFICES ASSUME HostInv PROVE RatesKept
    OBVIOUS
  <2>1. which = "timer" => Timer!KeepsRate /\ Timer!QuietAfterCancel
    BY TimerPromises DEF HostInv
  <2>2. which = "executor" => Executor!TimersMatchWork
    BY DEF HostInv, ExecutorInv
  <2> QED BY <2>1, <2>2 DEF RatesKept
<1> QED BY <1>1, HostInvariant, PTL

\* Beside the other parts ExclusiveCommand does what it does alone, so that
\* what is proved of its lock holds in AllSpec too.
THEOREM CommandsAsAlone == AllSpec => Spec
<1>1. AllInit => Init
  BY DEF AllInit
<1>2. [AllNext]_allVars => [Next]_vars
  <2>1. UNCHANGED allVars => UNCHANGED vars
    BY DEF allVars
  <2>2. AllNext => Next \/ UNCHANGED vars
    BY DEF AllNext, CommandStep, TimerStep, SequenceStep, ExecutorStep, CopyStep, ServerStep
  <2> QED BY <2>1, <2>2
<1> QED BY <1>1, <1>2, PTL DEF AllSpec, Spec
=============================================================================
