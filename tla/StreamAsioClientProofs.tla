----------------------- MODULE StreamAsioClientProofs -----------------------
(***************************************************************************)
(* Proofs about StreamAsioClient, for any users, requests and bounds.  The *)
(* inductive invariant IInv says where the holder of the lock is (Phase),  *)
(* that the jobs are finished in the order in which they were invoked      *)
(* (Turn), and which contexts of the tunnel can still be completed.        *)
(***************************************************************************)
EXTENDS StreamAsioClient, SequenceFacts, FiniteSetTheorems

TimerCalls == {TimerCall(n) : n \in 1..MaxPolls}
UserCalls == {UserCall(u, ec) : u \in Users, ec \in Codes}

\* The callbacks of the lock, the wrappers of register jobs and the handlers
\* of poll_timer_ among ps.
CallsOf(ps) == Keep(ps, LockCalls)
WrapsOf(ps) == Keep(ps, WrapCalls)
TimersOf(ps) == Keep(ps, TimerCalls)

\* The lock is free, or its holder is in one of five places.
Free ==
  /\ waiting = None /\ queued = <<>> /\ fs = Idle
  /\ CallsOf(posted) = <<>> /\ WrapsOf(posted) = <<>>

Invoking ==
  /\ waiting \in Jobs /\ waiting \notin ToSet(finished) /\ fs = Idle
  /\ CallsOf(posted) = <<Lock!InvokeCall(waiting)>> /\ WrapsOf(posted) = <<>>

Busy ==
  /\ waiting \in Jobs /\ waiting \notin ToSet(finished)
  /\ fs \in {Writing(waiting), Reading(waiting)}
  /\ CallsOf(posted) = <<>> /\ WrapsOf(posted) = <<>>

Wrapping ==
  /\ waiting \in RegisterJobs /\ waiting \notin ToSet(finished) /\ fs = Idle
  /\ CallsOf(posted) = <<>>
  /\ \E ec \in Codes : WrapsOf(posted) = <<WrapCall(waiting, ec)>>

\* The wrapper was dropped, or the process aborts.
Stuck ==
  /\ waiting \in Jobs /\ waiting \notin ToSet(finished) /\ fs = Idle
  /\ CallsOf(posted) = <<>> /\ WrapsOf(posted) = <<>>

Releasing ==
  /\ waiting \in Jobs /\ waiting \in ToSet(finished) /\ fs = Idle
  /\ CallsOf(posted) = <<Lock!DoneCall>> /\ WrapsOf(posted) = <<>>

Phase == Free \/ Invoking \/ Busy \/ Wrapping \/ Stuck \/ Releasing

\* What the holder w of the lock adds between the finished and the queued
\* jobs, and the order of all of them.
HeldBy(w, fin) == IF w # None /\ w \notin ToSet(fin) THEN <<w>> ELSE <<>>
Turn(w, q, fin, ord) == ord = (fin \o HeldBy(w, fin)) \o q /\ Distinct(ord)

LockInv ==
  /\ Phase
  /\ Turn(waiting, queued, finished, order)
  /\ failed # "overlap"

\* A request of a sequence is invoked when all before it are finished, and a
\* read job when it has a context.
InSequence(a) ==
  /\ a[1] = "register" => \A i \in 1..(a[3] - 1) : RegisterJob(a[2], i) \in ToSet(finished)
  /\ a[1] = "read" => a[3] <= Len(ctx)
SequenceInv == \A a \in ToSet(order) : InSequence(a)

\* A context other than read_context_ is canceled or its poll is over.
ContextInv ==
  \A n \in 1..Len(ctx) :
    n = readContext \/ ctx[n].canceled \/ ReadJob(n) \in ToSet(finished)

\* read_nonce_ is that of read_context_, until its job is started; the same
\* for writes, whose nonce stays.
NonceInv ==
  /\ readNonce # None => readContext # None /\ readNonce = ReadJob(readContext)
  /\ fs # Idle => fs.job # readNonce
  /\ writeNonce # None => writeHandler # None /\ writeNonce = WriteJob(writeHandler)

\* The waits for poll_timer_: the handlers posted and the one to come.
Timers == TimersOf(posted) \o WakePoll
Waits(n) ==
  /\ n <= Len(ctx) /\ ReadJob(n) \in ToSet(finished)
  /\ ctx[n].canceled \/ n = readContext
TimerInv ==
  /\ Distinct(Timers)
  /\ \A n \in 1..MaxPolls : TimerCall(n) \in ToSet(Timers) => Waits(n)

\* What of an answer the client relies on.
AnswerInv ==
  /\ \A f \in ToSet(inbox) : f.source = Dest(f.job)
  /\ fs # Idle /\ fs.job \in RegisterJobs => txDest = Dest(fs.job)

IInv ==
  /\ TypeOK /\ LockInv /\ SequenceInv /\ ContextInv /\ NonceInv /\ TimerInv
  /\ AnswerInv /\ ReplyFromItsServer

-----------------------------------------------------------------------------
\* The jobs, by their first component.
LEMMA JobKinds ==
  ASSUME NEW j \in Jobs
  PROVE  /\ j[1] \in {"block", "register", "read", "write"}
         /\ j[1] = "block" => j \in BlockJobs
         /\ j[1] = "register" => j \in RegisterJobs
         /\ j[1] = "read" => j \in ReadJobs
         /\ j[1] = "write" => j \in WriteJobs
BY DEF Jobs, BlockJobs, RegisterJobs, ReadJobs, WriteJobs, BlockJob, RegisterJob,
       ReadJob, WriteJob

\* A block of requests.
LEMMA BlockJobParts ==
  /\ \A c \in Transmits : BlockJob(c) \in Jobs /\ BlockJob(c)[1] = "block" /\ BlockJob(c)[2] = c
  /\ \A j \in BlockJobs : j \in Jobs /\ j[1] = "block" /\ j[2] \in Transmits /\ j = BlockJob(j[2])
BY DEF Jobs, BlockJobs, BlockJob

\* One request.
LEMMA RegisterJobParts ==
  /\ \A c \in Transmits : \A i \in 1..Len(Requests[c]) :
       RegisterJob(c, i) \in RegisterJobs /\ RegisterJob(c, i) \in Jobs
  /\ \A c, i : RegisterJob(c, i)[1] = "register" /\ RegisterJob(c, i)[2] = c
               /\ RegisterJob(c, i)[3] = i
  /\ \A j \in RegisterJobs :
       /\ j \in Jobs /\ j[1] = "register" /\ j[2] \in Transmits
       /\ Len(Requests[j[2]]) \in Nat /\ j[3] \in 1..Len(Requests[j[2]])
       /\ j = RegisterJob(j[2], j[3])
<1>1. \A c \in Transmits : Len(Requests[c]) \in Nat /\ DOMAIN Requests[c] = 1..Len(Requests[c])
  BY RequestsAssumption
<1>2. \A c, i : RegisterJob(c, i)[1] = "register" /\ RegisterJob(c, i)[2] = c
                /\ RegisterJob(c, i)[3] = i
  BY DEF RegisterJob
<1>3. \A j \in RegisterJobs : \E c \in Transmits : \E i \in 1..Len(Requests[c]) : j = RegisterJob(c, i)
  BY <1>1 DEF RegisterJobs
<1>4. \A c \in Transmits : \A i \in 1..Len(Requests[c]) : RegisterJob(c, i) \in RegisterJobs
  BY <1>1 DEF RegisterJobs
<1>5. RegisterJobs \subseteq Jobs
  BY DEF Jobs
<1> QED BY <1>1, <1>2, <1>3, <1>4, <1>5

\* One poll of the tunnel.
LEMMA ReadJobParts ==
  /\ \A n \in 1..MaxPolls : ReadJob(n) \in ReadJobs /\ ReadJob(n) \in Jobs
  /\ \A n : ReadJob(n)[1] = "read" /\ ReadJob(n)[3] = n
  /\ \A j \in ReadJobs : j \in Jobs /\ j[1] = "read" /\ j[3] \in 1..MaxPolls /\ j = ReadJob(j[3])
BY DEF Jobs, ReadJobs, ReadJob

\* One write to the tunnel.
LEMMA WriteJobParts ==
  /\ \A w \in Writes : WriteJob(w) \in WriteJobs /\ WriteJob(w) \in Jobs
  /\ \A w : WriteJob(w)[1] = "write" /\ WriteJob(w)[2] = w
  /\ \A j \in WriteJobs : j \in Jobs /\ j[1] = "write" /\ j[2] \in Writes /\ j = WriteJob(j[2])
BY DEF Jobs, WriteJobs, WriteJob

\* The posted callbacks, by their op.
LEMMA CallKinds ==
  /\ \A p \in LockCalls : p.op \in {"invoke", "done"}
  /\ \A p \in WrapCalls : p.op = "wrap"
  /\ \A p \in UserCalls : p.op = "user"
  /\ \A p \in TimerCalls : p.op = "timer"
  /\ PostedCalls = LockCalls \cup WrapCalls \cup UserCalls \cup TimerCalls
BY DEF LockCalls, WrapCalls, UserCalls, TimerCalls, PostedCalls, WrapCall, UserCall, TimerCall

\* The callback of each kind.
LEMMA CallsInKinds ==
  /\ \A j \in Jobs : Lock!InvokeCall(j) \in LockCalls
  /\ Lock!DoneCall \in LockCalls
  /\ \A j \in RegisterJobs, ec \in Codes : WrapCall(j, ec) \in WrapCalls
  /\ \A u \in Users, ec \in Codes : UserCall(u, ec) \in UserCalls
  /\ \A n \in 1..MaxPolls : TimerCall(n) \in TimerCalls
BY DEF LockCalls, WrapCalls, UserCalls, TimerCalls, Lock!InvokeCall, Lock!DoneCall

\* What the fields of a callback are.
LEMMA CallParts ==
  /\ \A j : Lock!InvokeCall(j).op = "invoke" /\ Lock!InvokeCall(j).command = j
  /\ Lock!DoneCall.op = "done"
  /\ \A j, ec : WrapCall(j, ec).job = j /\ WrapCall(j, ec).ec = ec
  /\ \A u, ec : UserCall(u, ec).who = u /\ UserCall(u, ec).ec = ec
  /\ \A n : TimerCall(n).ctx = n
BY DEF Lock!InvokeCall, Lock!DoneCall, WrapCall, UserCall, TimerCall

-----------------------------------------------------------------------------
\* A user's handler is posted: nothing of the lock or the timer changes.
LEMMA PostUser ==
  ASSUME NEW ps \in Seq(PostedCalls), NEW u \in Users, NEW ec \in Codes
  PROVE  /\ Append(ps, UserCall(u, ec)) \in Seq(PostedCalls)
         /\ CallsOf(Append(ps, UserCall(u, ec))) = CallsOf(ps)
         /\ WrapsOf(Append(ps, UserCall(u, ec))) = WrapsOf(ps)
         /\ TimersOf(Append(ps, UserCall(u, ec))) = TimersOf(ps)
<1> DEFINE x == UserCall(u, ec)
<1>1. x \in PostedCalls /\ x \notin LockCalls /\ x \notin WrapCalls /\ x \notin TimerCalls
  BY CallsInKinds, CallKinds
<1> HIDE DEF x
<1>2. Append(ps, x) \in Seq(PostedCalls)
  BY <1>1
<1>3. \A S : Keep(Append(ps, x), S) = KeepNext(Keep(ps, S), x, S)
  BY <1>1, KeepAppend
<1> QED BY <1>1, <1>2, <1>3 DEF CallsOf, WrapsOf, TimersOf, KeepNext, x

\* ItemDone is posted.
LEMMA PostDone ==
  ASSUME NEW ps \in Seq(PostedCalls)
  PROVE  /\ Append(ps, Lock!DoneCall) \in Seq(PostedCalls)
         /\ CallsOf(Append(ps, Lock!DoneCall)) = Append(CallsOf(ps), Lock!DoneCall)
         /\ WrapsOf(Append(ps, Lock!DoneCall)) = WrapsOf(ps)
         /\ TimersOf(Append(ps, Lock!DoneCall)) = TimersOf(ps)
<1> DEFINE x == Lock!DoneCall
<1>1. x \in PostedCalls /\ x \in LockCalls /\ x \notin WrapCalls /\ x \notin TimerCalls
  BY CallsInKinds, CallKinds
<1> HIDE DEF x
<1>2. Append(ps, x) \in Seq(PostedCalls)
  BY <1>1
<1>3. \A S : Keep(Append(ps, x), S) = KeepNext(Keep(ps, S), x, S)
  BY <1>1, KeepAppend
<1> QED BY <1>1, <1>2, <1>3 DEF CallsOf, WrapsOf, TimersOf, KeepNext, x

\* The Invoke of a job is posted.
LEMMA PostInvoke ==
  ASSUME NEW ps \in Seq(PostedCalls), NEW j \in Jobs
  PROVE  /\ ps \o <<Lock!InvokeCall(j)>> \in Seq(PostedCalls)
         /\ CallsOf(ps \o <<Lock!InvokeCall(j)>>) = Append(CallsOf(ps), Lock!InvokeCall(j))
         /\ WrapsOf(ps \o <<Lock!InvokeCall(j)>>) = WrapsOf(ps)
         /\ TimersOf(ps \o <<Lock!InvokeCall(j)>>) = TimersOf(ps)
<1> DEFINE x == Lock!InvokeCall(j)
<1>1. x \in PostedCalls /\ x \in LockCalls /\ x \notin WrapCalls /\ x \notin TimerCalls
  BY CallsInKinds, CallKinds
<1> HIDE DEF x
<1>2. Append(ps, x) \in Seq(PostedCalls) /\ ps \o <<x>> = Append(ps, x)
  BY <1>1
<1>3. \A S : Keep(Append(ps, x), S) = KeepNext(Keep(ps, S), x, S)
  BY <1>1, KeepAppend
<1> QED BY <1>1, <1>2, <1>3 DEF CallsOf, WrapsOf, TimersOf, KeepNext, x

\* The wrapper of a register job is posted.
LEMMA PostWrap ==
  ASSUME NEW ps \in Seq(PostedCalls), NEW j \in RegisterJobs, NEW ec \in Codes
  PROVE  /\ Append(ps, WrapCall(j, ec)) \in Seq(PostedCalls)
         /\ CallsOf(Append(ps, WrapCall(j, ec))) = CallsOf(ps)
         /\ WrapsOf(Append(ps, WrapCall(j, ec))) = Append(WrapsOf(ps), WrapCall(j, ec))
         /\ TimersOf(Append(ps, WrapCall(j, ec))) = TimersOf(ps)
<1> DEFINE x == WrapCall(j, ec)
<1>1. x \in PostedCalls /\ x \notin LockCalls /\ x \in WrapCalls /\ x \notin TimerCalls
  BY CallsInKinds, CallKinds
<1> HIDE DEF x
<1>2. Append(ps, x) \in Seq(PostedCalls)
  BY <1>1
<1>3. \A S : Keep(Append(ps, x), S) = KeepNext(Keep(ps, S), x, S)
  BY <1>1, KeepAppend
<1> QED BY <1>1, <1>2, <1>3 DEF CallsOf, WrapsOf, TimersOf, KeepNext, x

\* The handler of poll_timer_ is posted.
LEMMA PostTimer ==
  ASSUME NEW ps \in Seq(PostedCalls), NEW n \in 1..MaxPolls
  PROVE  /\ Append(ps, TimerCall(n)) \in Seq(PostedCalls)
         /\ CallsOf(Append(ps, TimerCall(n))) = CallsOf(ps)
         /\ WrapsOf(Append(ps, TimerCall(n))) = WrapsOf(ps)
         /\ TimersOf(Append(ps, TimerCall(n))) = Append(TimersOf(ps), TimerCall(n))
<1> DEFINE x == TimerCall(n)
<1>1. x \in PostedCalls /\ x \notin LockCalls /\ x \notin WrapCalls /\ x \in TimerCalls
  BY CallsInKinds, CallKinds
<1> HIDE DEF x
<1>2. Append(ps, x) \in Seq(PostedCalls)
  BY <1>1
<1>3. \A S : Keep(Append(ps, x), S) = KeepNext(Keep(ps, S), x, S)
  BY <1>1, KeepAppend
<1> QED BY <1>1, <1>2, <1>3 DEF CallsOf, WrapsOf, TimersOf, KeepNext, x

\* The executor takes the first callback: only those of its kind change.
LEMMA TakeCall ==
  ASSUME NEW ps \in Seq(PostedCalls), ps # <<>>
  PROVE  /\ Head(ps) \in PostedCalls /\ Tail(ps) \in Seq(PostedCalls)
         /\ CallsOf(ps) = IF Head(ps).op \in {"invoke", "done"}
                          THEN <<Head(ps)>> \o CallsOf(Tail(ps)) ELSE CallsOf(Tail(ps))
         /\ WrapsOf(ps) = IF Head(ps).op = "wrap"
                          THEN <<Head(ps)>> \o WrapsOf(Tail(ps)) ELSE WrapsOf(Tail(ps))
         /\ TimersOf(ps) = IF Head(ps).op = "timer"
                           THEN <<Head(ps)>> \o TimersOf(Tail(ps)) ELSE TimersOf(Tail(ps))
<1> DEFINE h == Head(ps)
           t == Tail(ps)
<1>1. h \in PostedCalls /\ t \in Seq(PostedCalls)
  BY ConcatHeadTail
<1>2. /\ h \in LockCalls <=> h.op \in {"invoke", "done"}
      /\ h \in WrapCalls <=> h.op = "wrap"
      /\ h \in TimerCalls <=> h.op = "timer"
  BY <1>1, CallKinds
<1>3. \A S : Keep(ps, S) = IF h \in S THEN <<h>> \o Keep(t, S) ELSE Keep(t, S)
  BY KeepTail
<1> HIDE DEF h, t
<1>4. /\ Keep(ps, LockCalls) = IF h \in LockCalls THEN <<h>> \o Keep(t, LockCalls) ELSE Keep(t, LockCalls)
      /\ Keep(ps, WrapCalls) = IF h \in WrapCalls THEN <<h>> \o Keep(t, WrapCalls) ELSE Keep(t, WrapCalls)
      /\ Keep(ps, TimerCalls) = IF h \in TimerCalls THEN <<h>> \o Keep(t, TimerCalls) ELSE Keep(t, TimerCalls)
  BY <1>3
<1> QED BY <1>1, <1>2, <1>4 DEF CallsOf, WrapsOf, TimersOf, h, t

-----------------------------------------------------------------------------
\* The lock holder is a sequence of at most one job.
LEMMA HeldByType ==
  ASSUME NEW w \in Jobs \cup {None}, NEW fin \in Seq(Jobs)
  PROVE  /\ HeldBy(w, fin) \in Seq(Jobs) /\ fin \o HeldBy(w, fin) \in Seq(Jobs)
         /\ w \in Jobs /\ w \notin ToSet(fin) => HeldBy(w, fin) = <<w>>
         /\ w = None \/ w \in ToSet(fin) => HeldBy(w, fin) = <<>>
<1>1. CASE w \in Jobs /\ w \notin ToSet(fin)
  <2>1. HeldBy(w, fin) = <<w>>
    BY <1>1, NoneAssumption DEF HeldBy
  <2>2. HeldBy(w, fin) \in Seq(Jobs)
    BY <1>1, <2>1, SingletonSeq
  <2> QED BY <1>1, <2>1, <2>2, ConcatElements, NoneAssumption
<1>2. CASE ~(w \in Jobs /\ w \notin ToSet(fin))
  <2>1. HeldBy(w, fin) = <<>>
    BY <1>2 DEF HeldBy
  <2>2. HeldBy(w, fin) \in Seq(Jobs)
    BY <2>1, EmptyIsSeq
  <2> QED BY <1>2, <2>1, <2>2, ConcatElements
<1> QED BY <1>1, <1>2

\* A job is finished, has the lock or is queued, and only one of these.
LEMMA TurnParts ==
  ASSUME NEW w \in Jobs \cup {None}, NEW q \in Seq(Jobs), NEW fin \in Seq(Jobs),
         NEW ord \in Seq(Jobs), Turn(w, q, fin, ord)
  PROVE  /\ ToSet(fin) \subseteq ToSet(ord) /\ ToSet(q) \subseteq ToSet(ord)
         /\ w \in Jobs => w \in ToSet(ord)
         /\ ToSet(ord) \subseteq ToSet(fin) \cup {w} \cup ToSet(q)
         /\ ToSet(fin) \cap ToSet(q) = {}
         /\ w \in Jobs => w \notin ToSet(q)
<1> DEFINE h == HeldBy(w, fin)
           u == fin \o h
<1>1. h \in Seq(Jobs) /\ u \in Seq(Jobs)
  BY HeldByType
<1>2. ord = u \o q /\ Distinct(ord)
  BY DEF Turn
<1>3. ToSet(h) = IF w \in Jobs /\ w \notin ToSet(fin) THEN {w} ELSE {}
  BY HeldByType, SingletonSeq, ToSetEmpty
<1> HIDE DEF h
<1>4. ToSet(u) = ToSet(fin) \cup ToSet(h)
  BY <1>1, ToSetConcat
<1> HIDE DEF u
<1>5. ToSet(u \o q) = ToSet(u) \cup ToSet(q)
  BY <1>1, ToSetConcat
<1>6. ToSet(u) \cap ToSet(q) = {}
  BY <1>1, <1>2, DistinctConcat
<1>7. ToSet(ord) = ToSet(fin) \cup ToSet(h) \cup ToSet(q)
  BY <1>2, <1>4, <1>5
<1> QED BY <1>3, <1>4, <1>6, <1>7

\* A new job goes to the end of the queue.
LEMMA TurnEnqueue ==
  ASSUME NEW w \in Jobs, NEW q \in Seq(Jobs), NEW fin \in Seq(Jobs),
         NEW ord \in Seq(Jobs), Turn(w, q, fin, ord), NEW j \in Jobs, j \notin ToSet(ord)
  PROVE  Turn(w, Append(q, j), fin, Append(ord, j))
<1> DEFINE u == fin \o HeldBy(w, fin)
<1>1. u \in Seq(Jobs)
  BY HeldByType
<1>2. ord = u \o q /\ Distinct(ord)
  BY DEF Turn
<1>3. Distinct(Append(ord, j))
  BY <1>2, AppendDistinct
<1> HIDE DEF u
<1>4. Append(u \o q, j) = u \o Append(q, j)
  <2> DEFINE o == <<j>>
  <2>1. o \in Seq(Jobs)
    BY SingletonSeq
  <2>2. Append(ord, j) = ord \o o /\ Append(q, j) = q \o o
    BY AppendIsConcat
  <2> HIDE DEF o
  <2>3. (u \o q) \o o = u \o (q \o o)
    BY <1>1, <2>1, ConcatAssoc, SMTT(60)
  <2> QED BY <1>2, <2>2, <2>3
<1> QED BY <1>2, <1>3, <1>4 DEF Turn, u

\* A new job takes the lock when it is free.
LEMMA TurnStart ==
  ASSUME NEW fin \in Seq(Jobs), NEW ord \in Seq(Jobs), Turn(None, <<>>, fin, ord),
         NEW j \in Jobs, j \notin ToSet(ord)
  PROVE  Turn(j, <<>>, fin, Append(ord, j)) /\ j \notin ToSet(fin)
<1>1. j \notin ToSet(fin)
  <2> DEFINE e == <<>>
             w == None
  <2>1. e \in Seq(Jobs) /\ w \in Jobs \cup {None} /\ Turn(w, e, fin, ord)
    BY EmptyIsSeq
  <2> HIDE DEF e, w
  <2>2. ToSet(fin) \subseteq ToSet(ord)
    BY <2>1, TurnParts
  <2> QED BY <2>2
<1>2. HeldBy(None, fin) = <<>> /\ HeldBy(j, fin) = <<j>>
  BY <1>1, HeldByType
<1>3. ord = fin /\ Distinct(ord)
  BY <1>2, ConcatEmpty DEF Turn
<1>4. Distinct(Append(ord, j))
  BY <1>3, AppendDistinct
<1>5. Append(ord, j) = fin \o <<j>> /\ Append(ord, j) \in Seq(Jobs)
  BY <1>3, AppendIsConcat
<1>6. Append(ord, j) \o <<>> = Append(ord, j)
  BY <1>5, ConcatEmpty
<1> QED BY <1>1, <1>2, <1>4, <1>5, <1>6 DEF Turn

\* The handler of the lock holder is called.
LEMMA TurnFinish ==
  ASSUME NEW w \in Jobs, NEW q \in Seq(Jobs), NEW fin \in Seq(Jobs),
         NEW ord \in Seq(Jobs), Turn(w, q, fin, ord), w \notin ToSet(fin)
  PROVE  /\ Turn(w, q, Append(fin, w), ord) /\ Append(fin, w) \in Seq(Jobs)
         /\ ToSet(Append(fin, w)) = ToSet(fin) \cup {w}
<1> DEFINE g == Append(fin, w)
<1>1. g \in Seq(Jobs) /\ ToSet(g) = ToSet(fin) \cup {w}
  BY ToSetAppend
<1>2. HeldBy(w, fin) = <<w>>
  BY HeldByType
<1>3. g = fin \o <<w>>
  BY AppendIsConcat
<1> HIDE DEF g
<1>4. HeldBy(w, g) = <<>>
  BY <1>1, HeldByType
<1>5. g \o <<>> = g
  BY <1>1, ConcatEmpty
<1>6. Turn(w, q, g, ord)
  BY <1>2, <1>3, <1>4, <1>5 DEF Turn
<1> QED BY <1>1, <1>6 DEF g

\* The lock is released with nobody waiting...
LEMMA TurnIdle ==
  ASSUME NEW w \in Jobs, NEW fin \in Seq(Jobs),
         NEW ord \in Seq(Jobs), Turn(w, <<>>, fin, ord), w \in ToSet(fin)
  PROVE  Turn(None, <<>>, fin, ord)
BY HeldByType DEF Turn

\* ...or goes to the first job that waits.
LEMMA TurnNext ==
  ASSUME NEW w \in Jobs, NEW q \in Seq(Jobs), NEW fin \in Seq(Jobs),
         NEW ord \in Seq(Jobs), Turn(w, q, fin, ord), w \in ToSet(fin), q # <<>>
  PROVE  Turn(Head(q), Tail(q), fin, ord) /\ Head(q) \notin ToSet(fin)
<1> DEFINE h == <<Head(q)>>
           t == Tail(q)
<1>1. Head(q) \in Jobs /\ t \in Seq(Jobs) /\ q = h \o t
  BY ConcatHeadTail
<1>2. h \in Seq(Jobs)
  BY <1>1, SingletonSeq
<1>3. Head(q) \notin ToSet(fin)
  BY TurnParts, ToSetHeadTail
<1>4. HeldBy(Head(q), fin) = h /\ HeldBy(w, fin) = <<>>
  BY <1>1, <1>3, HeldByType
<1>5. ord = fin \o q /\ Distinct(ord)
  BY <1>4, ConcatEmpty DEF Turn
<1> HIDE DEF h, t
<1>6. (fin \o h) \o t = fin \o (h \o t)
  BY SMTT(30), <1>1, <1>2, ConcatAssoc
<1>7. Turn(Head(q), t, fin, ord)
  BY <1>1, <1>4, <1>5, <1>6 DEF Turn
<1> QED BY <1>3, <1>7 DEF t

\* cancel() takes queued jobs out of the queue.
LEMMA TurnRemove ==
  ASSUME NEW w \in Jobs \cup {None}, NEW q \in Seq(Jobs), NEW fin \in Seq(Jobs),
         NEW ord \in Seq(Jobs), Turn(w, q, fin, ord), NEW gone \in SUBSET ToSet(q)
  PROVE  /\ Turn(w, Without(q, gone), fin, Without(ord, gone))
         /\ Without(q, gone) \in Seq(Jobs) /\ Without(ord, gone) \in Seq(Jobs)
         /\ ToSet(Without(q, gone)) = ToSet(q) \ gone
         /\ ToSet(Without(ord, gone)) = ToSet(ord) \ gone
<1> DEFINE S == Jobs \ gone
           u == fin \o HeldBy(w, fin)
<1>1. u \in Seq(Jobs) /\ ToSet(q) \subseteq Jobs /\ ToSet(ord) \subseteq Jobs
  BY HeldByType, ToSetElement
<1>2. ord = u \o q /\ Distinct(ord)
  BY DEF Turn
<1> HIDE DEF u
<1>3. ToSet(u) \cap ToSet(q) = {} /\ ToSet(u) \subseteq Jobs
  BY <1>1, <1>2, DistinctConcat, ToSetElement
<1>4. ToSet(u) \subseteq S
  BY <1>3
<1> HIDE DEF S
<1>5. Keep(u, S) = u
  BY <1>1, <1>4, KeepAll
<1>6. Keep(u \o q, S) = Keep(u, S) \o Keep(q, S)
  BY <1>1, KeepConcat
<1>7. Keep(ord, S) = u \o Keep(q, S) /\ Distinct(Keep(ord, S))
  BY <1>2, <1>5, <1>6, KeepDistinct
<1>8. Keep(q, S) \in Seq(Jobs) /\ Keep(ord, S) \in Seq(Jobs)
  BY KeepType
<1>9. ToSet(Keep(q, S)) = ToSet(q) \cap S /\ ToSet(Keep(ord, S)) = ToSet(ord) \cap S
  BY KeepToSet
<1> QED BY <1>1, <1>7, <1>8, <1>9 DEF Turn, Without, S, u

-----------------------------------------------------------------------------
\* StartNext, by whether the lock is held and somebody waits.
LEMMA StartNextCases ==
  /\ \A w \in Jobs : \A q : Lock!StartNext(w, q) = [waiting |-> w, queued |-> q, post |-> <<>>]
  /\ Lock!StartNext(None, <<>>) = [waiting |-> None, queued |-> <<>>, post |-> <<>>]
  /\ \A q : q # <<>> =>
       Lock!StartNext(None, q)
         = [waiting |-> Head(q), queued |-> Tail(q), post |-> <<Lock!InvokeCall(Head(q))>>]
BY NoneAssumption DEF Lock!StartNext

\* Invoke of a new job: it takes the lock or queues, whatever else ps posts.
LEMMA LockInvokeStep ==
  ASSUME TypeOK, Phase, Turn(waiting, queued, finished, order),
         NEW job \in Jobs, job \notin ToSet(order),
         NEW ps \in Seq(PostedCalls), CallsOf(ps) = CallsOf(posted), WrapsOf(ps) = WrapsOf(posted),
         LockInvoke(job, ps), UNCHANGED <<finished, fs>>
  PROVE  /\ waiting' \in Jobs /\ queued' \in Seq(Jobs) /\ posted' \in Seq(PostedCalls)
         /\ order' \in Seq(Jobs) /\ ToSet(order') = ToSet(order) \cup {job}
         /\ Phase' /\ Turn(waiting', queued', finished', order')
         /\ TimersOf(posted') = TimersOf(ps)
         /\ posted' = ps \/ posted' = ps \o <<Lock!InvokeCall(job)>>
<1>1. /\ waiting \in Jobs \cup {None} /\ queued \in Seq(Jobs) /\ finished \in Seq(Jobs)
      /\ order \in Seq(Jobs)
  BY DEF TypeOK
<1>2. order' = Append(order, job)
  BY DEF LockInvoke
<1>3. order' \in Seq(Jobs) /\ ToSet(order') = ToSet(order) \cup {job}
  BY <1>1, <1>2, ToSetAppend
<1>4. CASE Free
  <2>1. waiting = None /\ queued = <<>> /\ fs = Idle /\ CallsOf(ps) = <<>> /\ WrapsOf(ps) = <<>>
    BY <1>4 DEF Free
  <2>2. Append(<<>>, job) = <<job>> /\ <<job>> # <<>> /\ Head(<<job>>) = job /\ Tail(<<job>>) = <<>>
    OBVIOUS
  <2>3. Lock!StartNext(waiting, Append(queued, job))
          = [waiting |-> job, queued |-> <<>>, post |-> <<Lock!InvokeCall(job)>>]
    BY <2>1, <2>2, StartNextCases
  <2>4. waiting' = job /\ queued' = <<>> /\ posted' = ps \o <<Lock!InvokeCall(job)>>
    BY <2>3 DEF LockInvoke
  <2>5. Turn(job, <<>>, finished, Append(order, job)) /\ job \notin ToSet(finished)
    BY <1>1, <2>1, TurnStart
  <2>6. /\ posted' \in Seq(PostedCalls) /\ WrapsOf(posted') = <<>>
        /\ CallsOf(posted') = Append(<<>>, Lock!InvokeCall(job))
        /\ TimersOf(posted') = TimersOf(ps)
    BY <2>1, <2>4, PostInvoke
  <2>7. Append(<<>>, Lock!InvokeCall(job)) = <<Lock!InvokeCall(job)>>
    OBVIOUS
  <2>8. Invoking'
    BY <2>1, <2>4, <2>5, <2>6, <2>7 DEF Invoking
  <2> QED BY <1>2, <1>3, <2>4, <2>5, <2>6, <2>8, EmptyIsSeq DEF Phase
<1>5. CASE ~Free
  <2>1. waiting \in Jobs
    BY <1>5, RegisterJobParts DEF Phase, Invoking, Busy, Wrapping, Stuck, Releasing
  <2>2. Lock!StartNext(waiting, Append(queued, job))
          = [waiting |-> waiting, queued |-> Append(queued, job), post |-> <<>>]
    BY <2>1, StartNextCases
  <2>3. ps \o <<>> = ps
    BY ConcatEmpty
  <2>4. waiting' = waiting /\ queued' = Append(queued, job) /\ posted' = ps
    BY <2>2, <2>3 DEF LockInvoke
  <2>5. Turn(waiting, Append(queued, job), finished, Append(order, job))
    BY <1>1, <2>1, TurnEnqueue
  <2>6. Phase'
    BY <1>5, <2>4 DEF Phase, Invoking, Busy, Wrapping, Stuck, Releasing
  <2>7. Append(queued, job) \in Seq(Jobs)
    BY <1>1
  <2> QED BY <1>2, <1>3, <2>1, <2>4, <2>5, <2>6, <2>7
<1> QED BY <1>4, <1>5

\* The wrapper of the lock holder is called, and ItemDone posted behind ps.
LEMMA FinishStep ==
  ASSUME TypeOK, Turn(waiting, queued, finished, order),
         waiting \in Jobs, waiting \notin ToSet(finished),
         NEW ps \in Seq(PostedCalls), CallsOf(ps) = <<>>, WrapsOf(ps) = <<>>,
         Finish(waiting, ps), waiting' = waiting, fs' = Idle
  PROVE  /\ Releasing'
         /\ posted' \in Seq(PostedCalls) /\ TimersOf(posted') = TimersOf(ps)
         /\ finished' = Append(finished, waiting)
         /\ finished' \in Seq(Jobs) /\ ToSet(finished') = ToSet(finished) \cup {waiting}
         /\ Turn(waiting, queued, finished', order)
<1>1. queued \in Seq(Jobs) /\ finished \in Seq(Jobs) /\ order \in Seq(Jobs)
  BY DEF TypeOK
<1>2. finished' = Append(finished, waiting) /\ posted' = Append(ps, Lock!DoneCall)
  BY DEF Finish
<1>3. /\ Turn(waiting, queued, finished', order) /\ finished' \in Seq(Jobs)
      /\ ToSet(finished') = ToSet(finished) \cup {waiting}
  BY <1>1, <1>2, TurnFinish
<1>4. /\ posted' \in Seq(PostedCalls) /\ CallsOf(posted') = Append(<<>>, Lock!DoneCall)
      /\ WrapsOf(posted') = <<>> /\ TimersOf(posted') = TimersOf(ps)
  BY <1>2, PostDone
<1>5. Append(<<>>, Lock!DoneCall) = <<Lock!DoneCall>>
  OBVIOUS
<1>6. Releasing'
  BY <1>3, <1>4, <1>5 DEF Releasing
<1> QED BY <1>2, <1>3, <1>4, <1>6

\* A sequence of one that begins with h is that h.
LEMMA ConcatIsOne ==
  ASSUME NEW S, NEW h \in S, NEW x \in Seq(S), NEW y, <<h>> \o x = <<y>>
  PROVE  h = y /\ x = <<>>
<1>1. Len(<<h>> \o x) = 1 + Len(x) /\ (<<h>> \o x)[1] = h
  OBVIOUS
<1>2. Len(<<y>>) = 1 /\ <<y>>[1] = y
  OBVIOUS
<1>3. Len(x) = 0
  BY <1>1, <1>2
<1> QED BY <1>1, <1>2, <1>3

\* What the phase says of a callback of the lock at the front...
LEMMA FrontIsLock ==
  ASSUME TypeOK, Phase, posted # <<>>, Head(posted).op \in {"invoke", "done"}
  PROVE  /\ Tail(posted) \in Seq(PostedCalls) /\ TimersOf(Tail(posted)) = TimersOf(posted)
         /\ CallsOf(Tail(posted)) = <<>> /\ WrapsOf(Tail(posted)) = <<>>
         /\ Head(posted).op = "invoke" => Invoking /\ Head(posted).command = waiting
         /\ Head(posted).op = "done" => Releasing
<1> DEFINE h == Head(posted)
           t == Tail(posted)
<1>0. posted \in Seq(PostedCalls)
  BY DEF TypeOK
<1>1. /\ h \in PostedCalls /\ t \in Seq(PostedCalls)
      /\ CallsOf(posted) = <<h>> \o CallsOf(t) /\ WrapsOf(posted) = WrapsOf(t)
      /\ TimersOf(posted) = TimersOf(t)
  BY <1>0, TakeCall
<1>2. CallsOf(t) \in Seq(PostedCalls)
  BY <1>1, KeepType DEF CallsOf
<1> HIDE DEF h, t
<1>3. <<h>> \o CallsOf(t) # <<>>
  BY <1>1, <1>2
<1>4. Invoking \/ Releasing
  BY <1>1, <1>3 DEF Phase, Free, Busy, Wrapping, Stuck
<1>5. CASE Invoking
  <2>1. h = Lock!InvokeCall(waiting) /\ CallsOf(t) = <<>>
    BY <1>1, <1>2, <1>5, ConcatIsOne DEF Invoking
  <2> QED BY <1>1, <1>5, <2>1, CallParts DEF Invoking, h, t
<1>6. CASE Releasing
  <2>1. h = Lock!DoneCall /\ CallsOf(t) = <<>>
    BY <1>1, <1>2, <1>6, ConcatIsOne DEF Releasing
  <2> QED BY <1>1, <1>6, <2>1, CallParts DEF Releasing, h, t
<1> QED BY <1>4, <1>5, <1>6

\* ...of a wrapper...
LEMMA FrontIsWrap ==
  ASSUME TypeOK, Phase, posted # <<>>, Head(posted).op = "wrap"
  PROVE  /\ Tail(posted) \in Seq(PostedCalls) /\ TimersOf(Tail(posted)) = TimersOf(posted)
         /\ CallsOf(Tail(posted)) = <<>> /\ WrapsOf(Tail(posted)) = <<>>
         /\ Wrapping /\ Head(posted).job = waiting /\ Head(posted).ec \in Codes
<1> DEFINE h == Head(posted)
           t == Tail(posted)
<1>0. posted \in Seq(PostedCalls)
  BY DEF TypeOK
<1>1. /\ h \in PostedCalls /\ t \in Seq(PostedCalls)
      /\ CallsOf(posted) = CallsOf(t) /\ WrapsOf(posted) = <<h>> \o WrapsOf(t)
      /\ TimersOf(posted) = TimersOf(t)
  BY <1>0, TakeCall
<1>2. WrapsOf(t) \in Seq(PostedCalls)
  BY <1>1, KeepType DEF WrapsOf
<1> HIDE DEF h, t
<1>3. <<h>> \o WrapsOf(t) # <<>>
  BY <1>1, <1>2
<1>4. Wrapping
  BY <1>1, <1>3 DEF Phase, Free, Invoking, Releasing, Busy, Stuck
<1>5. PICK ec \in Codes : WrapsOf(posted) = <<WrapCall(waiting, ec)>>
  BY <1>4 DEF Wrapping
<1>6. h = WrapCall(waiting, ec) /\ WrapsOf(t) = <<>>
  BY <1>1, <1>2, <1>5, ConcatIsOne
<1>7. h.job = waiting /\ h.ec = ec
  BY <1>6, CallParts
<1> QED BY <1>1, <1>4, <1>6, <1>7 DEF Wrapping, h, t

\* ...and of the handler of a user or of poll_timer_.
LEMMA FrontIsOther ==
  ASSUME TypeOK, posted # <<>>, Head(posted).op \in {"user", "timer"}
  PROVE  /\ Tail(posted) \in Seq(PostedCalls)
         /\ CallsOf(Tail(posted)) = CallsOf(posted) /\ WrapsOf(Tail(posted)) = WrapsOf(posted)
         /\ Head(posted).op = "user" =>
              /\ TimersOf(Tail(posted)) = TimersOf(posted)
              /\ Head(posted).who \in Users /\ Head(posted).ec \in Codes
              /\ Head(posted) = UserCall(Head(posted).who, Head(posted).ec)
         /\ Head(posted).op = "timer" =>
              /\ TimersOf(posted) = <<Head(posted)>> \o TimersOf(Tail(posted))
              /\ Head(posted).ctx \in 1..MaxPolls /\ Head(posted) = TimerCall(Head(posted).ctx)
<1> DEFINE h == Head(posted)
           t == Tail(posted)
<1>0. posted \in Seq(PostedCalls)
  BY DEF TypeOK
<1>1. /\ h \in PostedCalls /\ t \in Seq(PostedCalls)
      /\ CallsOf(posted) = CallsOf(t) /\ WrapsOf(posted) = WrapsOf(t)
      /\ TimersOf(posted) = IF h.op = "timer" THEN <<h>> \o TimersOf(t) ELSE TimersOf(t)
  BY <1>0, TakeCall
<1> HIDE DEF h, t
<1>2. ASSUME h.op = "user" PROVE h.who \in Users /\ h.ec \in Codes /\ h = UserCall(h.who, h.ec)
  <2>1. h \in UserCalls
    BY <1>1, <1>2, CallKinds
  <2> QED BY <2>1, CallParts DEF UserCalls
<1>3. ASSUME h.op = "timer" PROVE h.ctx \in 1..MaxPolls /\ h = TimerCall(h.ctx)
  <2>1. h \in TimerCalls
    BY <1>1, <1>3, CallKinds
  <2> QED BY <2>1, CallParts DEF TimerCalls
<1> QED BY <1>1, <1>2, <1>3 DEF h, t

-----------------------------------------------------------------------------
\* The operations of the frame stream differ.
LEMMA Operations ==
  /\ Idle.op = "idle"
  /\ \A j : Writing(j).op = "write" /\ Writing(j).job = j /\ Writing(j) # Idle
  /\ \A j : Reading(j).op = "read" /\ Reading(j).job = j /\ Reading(j) # Idle
BY DEF Idle, Writing, Reading

\* What a job has to show of SequenceInv when it is invoked.
LEMMA SequenceKept ==
  ASSUME SequenceInv, NEW job, ToSet(order') \subseteq ToSet(order) \cup {job}, InSequence(job)',
         ToSet(finished) \subseteq ToSet(finished'),
         Len(ctx) \in Nat, Len(ctx') \in Nat, Len(ctx) <= Len(ctx'),
         \A a \in ToSet(order) : a \in Jobs
  PROVE  SequenceInv'
<1> SUFFICES ASSUME NEW a \in ToSet(order), InSequence(a) PROVE InSequence(a)'
  BY DEF SequenceInv
<1>1. a[1] = "read" => a[3] \in Nat
  BY JobKinds, ReadJobParts, BoundsAssumption
<1> QED BY <1>1 DEF InSequence

\* The same when no job is invoked.
LEMMA SequenceFrame ==
  ASSUME SequenceInv, ToSet(order') \subseteq ToSet(order),
         ToSet(finished) \subseteq ToSet(finished'), Len(ctx') = Len(ctx)
  PROVE  SequenceInv'
BY DEF SequenceInv, InSequence

\* Steps that leave the tunnel's members and timers alone.
LEMMA TunnelFrame ==
  ASSUME ContextInv, NonceInv, TimerInv, UNCHANGED tunnelVars,
         ToSet(finished) \subseteq ToSet(finished'), TimersOf(posted') = TimersOf(posted),
         fs' = Idle \/ fs' = fs \/ (fs # Idle /\ fs'.job = fs.job)
  PROVE  ContextInv' /\ NonceInv' /\ TimerInv'
<1>1. ContextInv'
  BY DEF ContextInv, tunnelVars
<1>2. NonceInv'
  BY DEF NonceInv, tunnelVars
<1>3. Timers' = Timers
  BY DEF Timers, tunnelVars, WakePoll
<1>4. TimerInv'
  BY <1>3 DEF TimerInv, Waits, tunnelVars
<1> QED BY <1>1, <1>2, <1>4

\* Steps that leave the answers alone.
LEMMA AnswerFrame ==
  ASSUME AnswerInv, ReplyFromItsServer, UNCHANGED <<inbox, txDest, reply>>,
         fs' = Idle \/ fs' = fs \/ (fs # Idle /\ fs'.job = fs.job)
  PROVE  AnswerInv' /\ ReplyFromItsServer'
<1>1. AnswerInv'
  BY DEF AnswerInv
<1>2. ReplyFromItsServer'
  BY DEF ReplyFromItsServer
<1> QED BY <1>1, <1>2

\* The types that the lemmas below use.
LEMMA Types ==
  ASSUME TypeOK
  PROVE  /\ waiting \in Jobs \cup {None} /\ queued \in Seq(Jobs) /\ finished \in Seq(Jobs)
         /\ order \in Seq(Jobs) /\ posted \in Seq(PostedCalls)
         /\ ctx \in Seq(Contexts) /\ Len(ctx) \in Nat
         /\ \A a \in ToSet(order) : a \in Jobs
         /\ ToSet(queued) \subseteq Jobs
<1>1. /\ waiting \in Jobs \cup {None} /\ queued \in Seq(Jobs) /\ finished \in Seq(Jobs)
      /\ order \in Seq(Jobs) /\ posted \in Seq(PostedCalls) /\ ctx \in Seq(Contexts)
  BY DEF TypeOK
<1>2. Len(ctx) \in Nat
  BY <1>1
<1>3. ToSet(order) \subseteq Jobs /\ ToSet(queued) \subseteq Jobs
  BY <1>1, ToSetElement
<1> QED BY <1>1, <1>2, <1>3

-----------------------------------------------------------------------------
\* AsyncTransmit: its first job is new to the lock.
LEMMA AsyncTransmitStep ==
  ASSUME IInv, NEW c \in Transmits, AsyncTransmit(c)
  PROVE  IInv'
<1> USE DEF IInv, LockInv
<1> DEFINE job == IF AnyReplies(c) THEN RegisterJob(c, 1) ELSE BlockJob(c)
<1>1. /\ LockInvoke(job, posted) /\ job \notin ToSet(order) /\ reply' = [reply EXCEPT ![c] = <<>>]
      /\ UNCHANGED <<finished, removed, fs, txDest, tunnelVars, outcome, wireVars,
                     delivered, cancels, failed>>
  BY DEF AsyncTransmit
<1>2. job \in Jobs
  <2>1. AnyReplies(c) => 1 \in 1..Len(Requests[c])
    BY RequestsAssumption DEF AnyReplies
  <2> QED BY <2>1, RegisterJobParts, BlockJobParts
<1>3. job[1] \in {"register", "block"} /\ (job[1] = "register" => job[3] = 1)
  BY RegisterJobParts, BlockJobParts
<1> HIDE DEF job
<1>4. /\ waiting' \in Jobs /\ queued' \in Seq(Jobs) /\ posted' \in Seq(PostedCalls)
      /\ order' \in Seq(Jobs) /\ ToSet(order') = ToSet(order) \cup {job}
      /\ Phase' /\ Turn(waiting', queued', finished', order')
      /\ TimersOf(posted') = TimersOf(posted)
  BY <1>1, <1>2, Types, LockInvokeStep
<1>5. reply' \in [Transmits -> Seq(Jobs \X Jobs)]
  BY <1>1, EmptyIsSeq DEF TypeOK
<1>6. TypeOK'
  BY <1>1, <1>4, <1>5 DEF TypeOK, tunnelVars, wireVars
<1>7. SequenceInv'
  <2>1. InSequence(job)'
    BY <1>3 DEF InSequence
  <2> QED BY <1>1, <1>4, <2>1, Types, SequenceKept DEF tunnelVars
<1>8. ContextInv' /\ NonceInv' /\ TimerInv'
  BY <1>1, <1>4, TunnelFrame
<1>9. AnswerInv'
  BY <1>1 DEF AnswerInv, wireVars
<1>10. ReplyFromItsServer'
  <2>1. \A d \in Transmits : reply'[d] = reply[d] \/ reply'[d] = <<>>
    BY <1>1 DEF TypeOK
  <2> QED BY <2>1 DEF ReplyFromItsServer
<1> QED BY <1>1, <1>4, <1>6, <1>7, <1>8, <1>9, <1>10

-----------------------------------------------------------------------------
\* The contexts after a new one is made.
LEMMA NewContextStep ==
  ASSUME NEW cs \in Seq(Contexts), NEW u \in Reads, NEW room \in Nat \ {0}
  PROVE  /\ Append(cs, NewContext(u, room)) \in Seq(Contexts)
         /\ Len(Append(cs, NewContext(u, room))) = Len(cs) + 1
         /\ \A n \in 1..Len(cs) : Append(cs, NewContext(u, room))[n] = cs[n]
         /\ Append(cs, NewContext(u, room))[Len(cs) + 1] = NewContext(u, room)
<1>1. NewContext(u, room) \in Contexts
  <2>1. FALSE \in BOOLEAN /\ 0 \in Nat /\ <<>> \in Seq(Nat)
    BY EmptyIsSeq
  <2> QED BY <2>1 DEF NewContext, Contexts
<1> QED BY <1>1

\* async_read_some: a context and a job are new, and no other context waits
\* for the lock or the timer.
LEMMA ReadSomeStep ==
  ASSUME TypeOK, LockInv, SequenceInv, ContextInv, NonceInv,
         NEW u \in Reads, NEW room \in Nat \ {0},
         NEW ps \in Seq(PostedCalls), CallsOf(ps) = CallsOf(posted), WrapsOf(ps) = WrapsOf(posted),
         ReadSome(u, room, ps), UNCHANGED <<finished, fs, writeNonce, writeHandler, pollTimer>>,
         readContext = None \/ ReadJob(readContext) \in ToSet(finished),
         Distinct(TimersOf(ps) \o WakePoll),
         \A n \in 1..MaxPolls : TimerCall(n) \in ToSet(TimersOf(ps) \o WakePoll) =>
           n <= Len(ctx) /\ ReadJob(n) \in ToSet(finished) /\ ctx[n].canceled
  PROVE  /\ waiting' \in Jobs /\ queued' \in Seq(Jobs) /\ posted' \in Seq(PostedCalls)
         /\ order' \in Seq(Jobs) /\ Phase' /\ Turn(waiting', queued', finished', order')
         /\ ctx' \in Seq(Contexts) /\ Len(ctx') = Len(ctx) + 1 /\ Len(ctx') <= MaxPolls
         /\ readContext' = Len(ctx') /\ readNonce' \in ReadJobs
         /\ SequenceInv' /\ ContextInv' /\ NonceInv' /\ TimerInv'
<1>0. PICK n : n = Len(ctx) + 1
  OBVIOUS
<1>1. /\ n <= MaxPolls /\ ctx' = Append(ctx, NewContext(u, room))
      /\ readContext' = n /\ readNonce' = ReadJob(n) /\ LockInvoke(ReadJob(n), ps)
  BY <1>0 DEF ReadSome
<1>2. /\ ctx \in Seq(Contexts) /\ Len(ctx) \in Nat /\ MaxPolls \in Nat
      /\ (\A a \in ToSet(order) : a \in Jobs)
  BY Types, BoundsAssumption
<1>3. n \in 1..MaxPolls /\ n \notin 1..Len(ctx) /\ n # None
  BY <1>0, <1>1, <1>2, NoneAssumption
<1>4. /\ ctx' \in Seq(Contexts) /\ Len(ctx') = n /\ (\A m \in 1..Len(ctx) : ctx'[m] = ctx[m])
  BY <1>0, <1>1, <1>2, NewContextStep
<1>5. ReadJob(n) \in Jobs /\ ReadJob(n) \in ReadJobs /\ ReadJob(n)[1] = "read" /\ ReadJob(n)[3] = n
  BY <1>3, ReadJobParts
<1>6. n \in Nat /\ ~(n <= Len(ctx)) /\ Len(ctx) <= n
  BY <1>0, <1>2
<1>7. ReadJob(n) \notin ToSet(order)
  BY <1>5, <1>6 DEF SequenceInv, InSequence
<1>8. /\ waiting' \in Jobs /\ queued' \in Seq(Jobs) /\ posted' \in Seq(PostedCalls)
      /\ order' \in Seq(Jobs) /\ ToSet(order') = ToSet(order) \cup {ReadJob(n)}
      /\ Phase' /\ Turn(waiting', queued', finished', order')
      /\ TimersOf(posted') = TimersOf(ps)
  BY <1>1, <1>5, <1>7, LockInvokeStep DEF LockInv
<1>9. SequenceInv'
  <2>1. InSequence(ReadJob(n))'
    BY <1>4, <1>5, <1>6 DEF InSequence
  <2> QED BY <1>2, <1>4, <1>6, <1>8, <2>1, SequenceKept
<1>10. ContextInv'
  <2> SUFFICES ASSUME NEW m \in 1..Len(ctx'), m # readContext'
               PROVE  ctx'[m].canceled \/ ReadJob(m) \in ToSet(finished)
    BY DEF ContextInv
  <2>1. m \in 1..Len(ctx) /\ ctx'[m] = ctx[m]
    BY <1>0, <1>1, <1>2, <1>4
  <2>2. m # None
    BY <1>2, <2>1, NoneAssumption
  <2> QED BY <2>1, <2>2 DEF ContextInv
<1>11. NonceInv'
  <2>1. fs # Idle => fs.job # ReadJob(n)
    <3>1. fs # Idle => fs.job = waiting /\ waiting \in Jobs
      BY Operations DEF LockInv, Phase, Free, Invoking, Busy, Wrapping, Stuck, Releasing
    <3>2. waiting \in Jobs => waiting \in ToSet(order)
      BY Types, TurnParts DEF LockInv
    <3> QED BY <1>7, <3>1, <3>2
  <2> QED BY <1>1, <1>3, <2>1 DEF NonceInv
<1>12. TimerInv'
  <2>1. Timers' = TimersOf(ps) \o WakePoll
    BY <1>8 DEF Timers, WakePoll
  <2>2. ASSUME NEW m \in 1..MaxPolls, TimerCall(m) \in ToSet(Timers')
        PROVE  Waits(m)'
    <3>1. m <= Len(ctx) /\ ReadJob(m) \in ToSet(finished) /\ ctx[m].canceled
      BY <2>1, <2>2
    <3>2. ctx'[m] = ctx[m] /\ m <= Len(ctx')
      BY <1>2, <1>4, <1>6, <3>1
    <3> QED BY <3>1, <3>2 DEF Waits
  <2> QED BY <2>1, <2>2 DEF TimerInv
<1> QED BY <1>0, <1>1, <1>4, <1>5, <1>8, <1>9, <1>10, <1>11, <1>12

\* The phase depends on nothing else.
LEMMA PhaseFrame ==
  ASSUME Phase, UNCHANGED <<waiting, finished, fs>>, queued = <<>> => queued' = <<>>,
         CallsOf(posted') = CallsOf(posted), WrapsOf(posted') = WrapsOf(posted)
  PROVE  Phase'
BY DEF Phase, Free, Invoking, Busy, Wrapping, Stuck, Releasing

\* Steps that only post or run the handler of a user.
LEMMA UserFrame ==
  ASSUME IInv, UNCHANGED <<lockVars, fs, txDest, tunnelVars, reply, wireVars, delivered, cancels>>,
         failed' # "overlap", failed' \in {"no", "overlap", "throw", "empty_handler"},
         outcome' \in [Users -> Seq(Codes)], posted' \in Seq(PostedCalls),
         CallsOf(posted') = CallsOf(posted), WrapsOf(posted') = WrapsOf(posted),
         TimersOf(posted') = TimersOf(posted)
  PROVE  IInv'
<1> USE DEF IInv, LockInv, lockVars
<1>1. TypeOK'
  BY DEF TypeOK, tunnelVars, wireVars
<1>2. Phase'
  BY PhaseFrame
<1>3. Turn(waiting', queued', finished', order')
  OBVIOUS
<1>4. SequenceInv'
  BY SequenceFrame DEF tunnelVars
<1>5. ContextInv' /\ NonceInv' /\ TimerInv'
  BY TunnelFrame
<1>6. AnswerInv' /\ ReplyFromItsServer'
  BY AnswerFrame DEF wireVars
<1> QED BY <1>1, <1>2, <1>3, <1>4, <1>5, <1>6

\* A read of the user: with an empty buffer it is told at once.
LEMMA TunnelReadStep ==
  ASSUME IInv, NEW u \in Reads, TunnelRead(u)
  PROVE  IInv'
<1> USE DEF IInv
<1>1. /\ readContext = None
      /\ UNCHANGED <<finished, removed, fs, txDest, writeNonce, writeHandler, pollTimer, reply,
                     outcome, wireVars, delivered, cancels, failed>>
  BY DEF TunnelRead
<1>2. PICK room \in Rooms :
        IF room = 0
        THEN /\ posted' = Append(posted, UserCall(u, "ok"))
             /\ UNCHANGED <<waiting, queued, order, ctx, readContext, readNonce>>
        ELSE ReadSome(u, room, posted)
  BY DEF TunnelRead
<1>3. posted \in Seq(PostedCalls) /\ u \in Users /\ "ok" \in Codes
  BY Types DEF Users, Codes
<1>4. CASE room = 0
  <2>1. posted' = Append(posted, UserCall(u, "ok"))
    BY <1>2, <1>4
  <2>2. /\ posted' \in Seq(PostedCalls)
        /\ CallsOf(posted') = CallsOf(posted) /\ WrapsOf(posted') = WrapsOf(posted)
        /\ TimersOf(posted') = TimersOf(posted)
    BY <1>3, <2>1, PostUser
  <2>3. outcome' \in [Users -> Seq(Codes)] /\ failed' # "overlap"
        /\ failed' \in {"no", "overlap", "throw", "empty_handler"}
    BY <1>1 DEF TypeOK, LockInv
  <2> QED BY <1>1, <1>2, <1>4, <2>2, <2>3, UserFrame DEF lockVars, tunnelVars
<1>5. CASE room # 0
  <2>1. ReadSome(u, room, posted) /\ room \in Nat \ {0}
    BY <1>2, <1>5, BoundsAssumption
  <2>2. Distinct(TimersOf(posted) \o WakePoll)
    BY DEF TimerInv, Timers
  <2>3. ASSUME NEW n \in 1..MaxPolls, TimerCall(n) \in ToSet(TimersOf(posted) \o WakePoll)
        PROVE  n <= Len(ctx) /\ ReadJob(n) \in ToSet(finished) /\ ctx[n].canceled
    <3>1. n # None
      BY NoneAssumption, BoundsAssumption
    <3> QED BY <1>1, <2>3, <3>1 DEF TimerInv, Timers, Waits
  <2>4. /\ waiting' \in Jobs /\ queued' \in Seq(Jobs) /\ posted' \in Seq(PostedCalls)
        /\ order' \in Seq(Jobs) /\ Phase' /\ Turn(waiting', queued', finished', order')
        /\ ctx' \in Seq(Contexts) /\ Len(ctx') = Len(ctx) + 1 /\ Len(ctx') <= MaxPolls
        /\ readContext' = Len(ctx') /\ readNonce' \in ReadJobs
        /\ SequenceInv' /\ ContextInv' /\ NonceInv' /\ TimerInv'
    BY <1>1, <1>3, <2>1, <2>2, <2>3, ReadSomeStep
  <2>5. readContext' \in 1..Len(ctx') /\ pollTimer' \in (1..Len(ctx')) \cup {None}
    BY <1>1, <2>4, Types DEF TypeOK
  <2>6. TypeOK'
    BY <1>1, <2>4, <2>5 DEF TypeOK, wireVars
  <2>7. AnswerInv' /\ ReplyFromItsServer'
    BY <1>1, AnswerFrame DEF wireVars
  <2> QED BY <1>1, <2>4, <2>6, <2>7 DEF LockInv
<1> QED BY <1>4, <1>5

\* A write of the user.
LEMMA TunnelWriteStep ==
  ASSUME IInv, NEW u \in Writes, TunnelWrite(u)
  PROVE  IInv'
<1> USE DEF IInv
<1>1. /\ WriteJob(u) \notin ToSet(order)
      /\ UNCHANGED <<finished, removed, fs, txDest, ctx, readContext, readNonce,
                     pollTimer, reply, outcome, wireVars, delivered, cancels, failed>>
  BY DEF TunnelWrite, Untouched
<1>2. PICK room \in Rooms :
        IF room = 0
        THEN /\ posted' = Append(posted, UserCall(u, "ok"))
             /\ UNCHANGED <<waiting, queued, order, writeHandler, writeNonce>>
        ELSE /\ writeHandler' = u /\ writeNonce' = WriteJob(u)
             /\ LockInvoke(WriteJob(u), posted)
  BY DEF TunnelWrite
<1>3. posted \in Seq(PostedCalls) /\ u \in Users /\ "ok" \in Codes
  BY Types DEF Users, Codes
<1>4. CASE room = 0
  <2>1. posted' = Append(posted, UserCall(u, "ok"))
    BY <1>2, <1>4
  <2>2. /\ posted' \in Seq(PostedCalls)
        /\ CallsOf(posted') = CallsOf(posted) /\ WrapsOf(posted') = WrapsOf(posted)
        /\ TimersOf(posted') = TimersOf(posted)
    BY <1>3, <2>1, PostUser
  <2>3. outcome' \in [Users -> Seq(Codes)] /\ failed' # "overlap"
        /\ failed' \in {"no", "overlap", "throw", "empty_handler"}
    BY <1>1 DEF TypeOK, LockInv
  <2> QED BY <1>1, <1>2, <1>4, <2>2, <2>3, UserFrame DEF lockVars, tunnelVars
<1>5. CASE room # 0
  <2>1. writeHandler' = u /\ writeNonce' = WriteJob(u) /\ LockInvoke(WriteJob(u), posted)
    BY <1>2, <1>5
  <2>2. WriteJob(u) \in Jobs /\ WriteJob(u) \in WriteJobs /\ WriteJob(u)[1] = "write" /\ u # None
    BY <1>3, WriteJobParts, NoneAssumption
  <2>3. /\ waiting' \in Jobs /\ queued' \in Seq(Jobs) /\ posted' \in Seq(PostedCalls)
        /\ order' \in Seq(Jobs) /\ ToSet(order') = ToSet(order) \cup {WriteJob(u)}
        /\ Phase' /\ Turn(waiting', queued', finished', order')
        /\ TimersOf(posted') = TimersOf(posted)
    BY <1>1, <1>3, <2>1, <2>2, LockInvokeStep DEF LockInv
  <2>4. TypeOK'
    BY <1>1, <2>1, <2>2, <2>3 DEF TypeOK, wireVars
  <2>5. SequenceInv'
    <3>1. InSequence(WriteJob(u))'
      BY <2>2 DEF InSequence
    <3> QED BY <1>1, <2>3, <3>1, Types, SequenceKept
  <2>6. ContextInv'
    BY <1>1 DEF ContextInv
  <2>7. NonceInv'
    BY <1>1, <2>1, <2>2 DEF NonceInv
  <2>8. TimerInv'
    <3>1. Timers' = Timers
      BY <1>1, <2>3 DEF Timers, WakePoll
    <3> QED BY <1>1, <3>1 DEF TimerInv, Waits
  <2>9. AnswerInv' /\ ReplyFromItsServer'
    BY <1>1, AnswerFrame DEF wireVars
  <2> QED BY <1>1, <2>3, <2>4, <2>5, <2>6, <2>7, <2>8, <2>9 DEF LockInv
<1> QED BY <1>4, <1>5

-----------------------------------------------------------------------------
\* The timer expires: its handler takes the place of the wait.
LEMMA PollTimerExpiresStep ==
  ASSUME IInv, PollTimerExpires
  PROVE  IInv'
<1> USE DEF IInv
<1>1. /\ pollTimer # None /\ posted' = Append(posted, TimerCall(pollTimer)) /\ pollTimer' = None
      /\ UNCHANGED <<lockVars, fs, txDest, ctx, readContext, readNonce, writeNonce, writeHandler,
                     reply, outcome, wireVars, delivered, cancels, failed>>
  BY DEF PollTimerExpires
<1>2. pollTimer \in 1..MaxPolls /\ posted \in Seq(PostedCalls)
  BY <1>1, Types, BoundsAssumption DEF TypeOK
<1>3. /\ posted' \in Seq(PostedCalls)
      /\ CallsOf(posted') = CallsOf(posted) /\ WrapsOf(posted') = WrapsOf(posted)
      /\ TimersOf(posted') = Append(TimersOf(posted), TimerCall(pollTimer))
  BY <1>1, <1>2, PostTimer
<1>4. TypeOK'
  BY <1>1, <1>3 DEF TypeOK, lockVars, wireVars
<1>5. LockInv'
  BY <1>1, <1>3, PhaseFrame DEF LockInv, lockVars
<1>6. SequenceInv'
  BY <1>1, SequenceFrame DEF lockVars
<1>7. ContextInv' /\ NonceInv'
  BY <1>1 DEF ContextInv, NonceInv, lockVars
<1>8. Timers' = Timers
  <2>1. TimersOf(posted) \in Seq(PostedCalls) /\ TimersOf(posted') \in Seq(PostedCalls)
    BY <1>2, <1>3, KeepType DEF TimersOf
  <2>2. TimerCall(pollTimer) \in PostedCalls
    BY <1>2, CallsInKinds, CallKinds
  <2> DEFINE t == TimersOf(posted)
             x == TimerCall(pollTimer)
  <2>3. Timers = t \o <<x>>
    BY <1>1 DEF Timers, WakePoll
  <2>4. Timers' = Append(t, x) \o <<>>
    BY <1>1, <1>3 DEF Timers, WakePoll
  <2>5. t \in Seq(PostedCalls) /\ x \in PostedCalls
    BY <2>1, <2>2
  <2> HIDE DEF t, x
  <2>6. Append(t, x) \o <<>> = t \o <<x>>
    BY <2>5
  <2> QED BY <2>3, <2>4, <2>6
<1>9. TimerInv'
  BY <1>1, <1>8 DEF TimerInv, Waits, lockVars
<1>10. AnswerInv' /\ ReplyFromItsServer'
  BY <1>1, AnswerFrame DEF wireVars
<1> QED BY <1>4, <1>5, <1>6, <1>7, <1>9, <1>10

\* A handler of the user runs.
LEMMA RunUserStep ==
  ASSUME IInv, RunUser
  PROVE  IInv'
<1> USE DEF IInv
<1>1. /\ posted # <<>> /\ Head(posted).op = "user" /\ posted' = Tail(posted)
      /\ outcome' = [outcome EXCEPT ![Head(posted).who] = Append(@, Head(posted).ec)]
      /\ UNCHANGED <<lockVars, fs, txDest, tunnelVars, reply, wireVars, delivered, cancels, failed>>
  BY DEF RunUser, Tell
<1>2. /\ posted' \in Seq(PostedCalls)
      /\ CallsOf(posted') = CallsOf(posted) /\ WrapsOf(posted') = WrapsOf(posted)
      /\ TimersOf(posted') = TimersOf(posted)
      /\ Head(posted).who \in Users /\ Head(posted).ec \in Codes
  BY <1>1, FrontIsOther
<1>3. outcome' \in [Users -> Seq(Codes)]
  BY <1>1, <1>2 DEF TypeOK
<1>4. failed' # "overlap" /\ failed' \in {"no", "overlap", "throw", "empty_handler"}
  BY <1>1 DEF TypeOK, LockInv
<1> QED BY <1>1, <1>2, <1>3, <1>4, UserFrame

\* The handler of the timer at the front is the only one of its context.
LEMMA FrontTimer ==
  ASSUME TypeOK, TimerInv, posted # <<>>, Head(posted).op = "timer"
  PROVE  /\ Waits(Head(posted).ctx) /\ Head(posted).ctx \in 1..Len(ctx)
         /\ Distinct(TimersOf(Tail(posted)) \o WakePoll)
         /\ \A n \in 1..MaxPolls :
              TimerCall(n) \in ToSet(TimersOf(Tail(posted)) \o WakePoll) =>
                Waits(n) /\ n # Head(posted).ctx
<1> DEFINE h == Head(posted)
           t == TimersOf(Tail(posted))
           r == t \o WakePoll
<1>1. /\ TimersOf(posted) = <<h>> \o t /\ h.ctx \in 1..MaxPolls /\ h = TimerCall(h.ctx)
      /\ Tail(posted) \in Seq(PostedCalls)
  BY FrontIsOther
<1>2. h \in PostedCalls /\ t \in Seq(PostedCalls)
  BY <1>1, KeepType, CallsInKinds, CallKinds DEF TimersOf
<1>3. WakePoll \in Seq(PostedCalls)
  <2>1. CASE pollTimer = None
    BY <2>1, EmptyIsSeq DEF WakePoll
  <2>2. CASE pollTimer # None
    <3>1. pollTimer \in 1..MaxPolls
      BY <2>2, Types, BoundsAssumption DEF TypeOK
    <3>2. TimerCall(pollTimer) \in PostedCalls
      BY <3>1, CallsInKinds, CallKinds
    <3> QED BY <2>2, <3>2, SingletonSeq DEF WakePoll
  <2> QED BY <2>1, <2>2
<1>4. Timers = (<<h>> \o t) \o WakePoll
  BY <1>1 DEF Timers
<1>5. <<h>> \in Seq(PostedCalls) /\ ToSet(<<h>>) = {h}
  BY <1>2, SingletonSeq
<1> DEFINE o == <<h>>
           w == WakePoll
<1> HIDE DEF h, t, o, w
<1>6. (o \o t) \o w = o \o (t \o w)
  BY <1>2, <1>3, <1>5, ConcatAssoc, SMTT(60) DEF o, w
<1>7. r \in Seq(PostedCalls)
  BY <1>2, <1>3, ConcatElements
<1>8. Timers = o \o r
  BY <1>4, <1>6 DEF o, w
<1> HIDE DEF r
<1>9. o \in Seq(PostedCalls) /\ ToSet(o) = {h} /\ Len(o) = 1
  BY <1>2, <1>5 DEF o
<1>10. ToSet(Timers) = {h} \cup ToSet(r)
  BY <1>7, <1>8, <1>9, ToSetConcat
<1>11. Distinct(o \o r)
  BY <1>8 DEF TimerInv
<1>12. h \notin ToSet(r)
  BY <1>7, <1>9, <1>11, DistinctConcat
<1>13. Distinct(r)
  BY <1>7, <1>9, <1>11, DistinctParts
<1>14. Waits(h.ctx)
  BY <1>1, <1>10 DEF TimerInv
<1>15. h.ctx \in 1..Len(ctx)
  BY <1>1, <1>14, Types, BoundsAssumption DEF Waits
<1>16. \A n \in 1..MaxPolls : TimerCall(n) \in ToSet(r) => Waits(n) /\ n # h.ctx
  BY <1>1, <1>10, <1>12 DEF TimerInv
<1> QED BY <1>13, <1>14, <1>15, <1>16 DEF h, r, t

\* The handler of the timer: the user is told of an abort, or the poll is
\* repeated with a new context.
LEMMA RunTimerStep ==
  ASSUME IInv, RunTimer
  PROVE  IInv'
<1> USE DEF IInv
<1> DEFINE n == Head(posted).ctx
           c == ctx[n]
           t == Tail(posted)
<1>1. /\ posted # <<>> /\ Head(posted).op = "timer"
      /\ UNCHANGED <<finished, removed, fs, txDest, writeNonce, writeHandler, pollTimer, reply,
                     outcome, wireVars, delivered, cancels, failed>>
  BY DEF RunTimer
<1>2. /\ Waits(n) /\ n \in 1..Len(ctx) /\ Distinct(TimersOf(t) \o WakePoll)
      /\ \A m \in 1..MaxPolls : TimerCall(m) \in ToSet(TimersOf(t) \o WakePoll) => Waits(m) /\ m # n
  BY <1>1, FrontTimer
<1>3. t \in Seq(PostedCalls) /\ CallsOf(t) = CallsOf(posted) /\ WrapsOf(t) = WrapsOf(posted)
  BY <1>1, FrontIsOther
<1>4. c \in Contexts
  BY <1>2, Types
<1>5. c.user \in Reads /\ c.user \in Users /\ c.room \in Nat \ {0} /\ "aborted" \in Codes
  BY <1>4 DEF Contexts, Users, Codes
<1>6. CASE c.canceled
  <2>1. /\ posted' = Append(t, UserCall(c.user, "aborted"))
        /\ UNCHANGED <<waiting, queued, order, ctx, readContext, readNonce>>
    BY <1>6 DEF RunTimer
  <2>2. /\ posted' \in Seq(PostedCalls) /\ TimersOf(posted') = TimersOf(t)
        /\ CallsOf(posted') = CallsOf(posted) /\ WrapsOf(posted') = WrapsOf(posted)
    BY <1>3, <1>5, <2>1, PostUser
  <2> HIDE DEF n, c, t
  <2>3. TypeOK'
    BY <1>1, <2>1, <2>2 DEF TypeOK, wireVars
  <2>4. LockInv'
    BY <1>1, <2>1, <2>2, PhaseFrame DEF LockInv
  <2>5. SequenceInv'
    BY <1>1, <2>1, SequenceFrame
  <2>6. ContextInv' /\ NonceInv'
    BY <1>1, <2>1 DEF ContextInv, NonceInv
  <2>7. Timers' = TimersOf(t) \o WakePoll
    BY <1>1, <2>2 DEF Timers, WakePoll
  <2>8. TimerInv'
    BY <1>1, <1>2, <2>1, <2>7 DEF TimerInv, Waits
  <2>9. AnswerInv' /\ ReplyFromItsServer'
    BY <1>1, AnswerFrame DEF wireVars
  <2> QED BY <2>3, <2>4, <2>5, <2>6, <2>8, <2>9
<1>7. CASE ~c.canceled
  <2>1. ReadSome(c.user, c.room, t)
    BY <1>7 DEF RunTimer
  <2>2. readContext = n /\ ReadJob(readContext) \in ToSet(finished)
    BY <1>2, <1>7 DEF Waits
  <2>3. PICK u \in Reads, room \in Nat \ {0} : u = c.user /\ room = c.room
    BY <1>5
  <2>4. PICK ps \in Seq(PostedCalls) : ps = t
    BY <1>3
  <2>5. ReadSome(u, room, ps) /\ CallsOf(ps) = CallsOf(posted) /\ WrapsOf(ps) = WrapsOf(posted)
    BY <1>3, <2>1, <2>3, <2>4
  <2>6. Distinct(TimersOf(ps) \o WakePoll)
    BY <1>2, <2>4
  <2>7. ASSUME NEW m \in 1..MaxPolls, TimerCall(m) \in ToSet(TimersOf(ps) \o WakePoll)
        PROVE  m <= Len(ctx) /\ ReadJob(m) \in ToSet(finished) /\ ctx[m].canceled
    BY <1>2, <2>2, <2>4, <2>7 DEF Waits
  <2> HIDE DEF n, c, t
  <2>8. /\ waiting' \in Jobs /\ queued' \in Seq(Jobs) /\ posted' \in Seq(PostedCalls)
        /\ order' \in Seq(Jobs) /\ Phase' /\ Turn(waiting', queued', finished', order')
        /\ ctx' \in Seq(Contexts) /\ Len(ctx') = Len(ctx) + 1 /\ Len(ctx') <= MaxPolls
        /\ readContext' = Len(ctx') /\ readNonce' \in ReadJobs
        /\ SequenceInv' /\ ContextInv' /\ NonceInv' /\ TimerInv'
    BY <1>1, <2>2, <2>5, <2>6, <2>7, ReadSomeStep
  <2>9. readContext' \in 1..Len(ctx') /\ pollTimer' \in (1..Len(ctx')) \cup {None}
    BY SMTT(30), <1>1, <2>8, Types DEF TypeOK
  <2>10. TypeOK'
    BY <1>1, <2>8, <2>9 DEF TypeOK, wireVars
  <2>11. AnswerInv' /\ ReplyFromItsServer'
    BY <1>1, AnswerFrame DEF wireVars
  <2> QED BY <1>1, <2>8, <2>10, <2>11 DEF LockInv
<1> QED BY <1>6, <1>7

-----------------------------------------------------------------------------
\* The lock is released, and the next job is invoked.
LEMMA ItemDoneStep ==
  ASSUME IInv, ItemDone
  PROVE  IInv'
<1> USE DEF IInv
<1> DEFINE next == Lock!StartNext(None, queued)
           t == Tail(posted)
<1>1. /\ posted # <<>> /\ Head(posted) = Lock!DoneCall
      /\ waiting' = next.waiting /\ queued' = next.queued /\ posted' = t \o next.post
      /\ UNCHANGED <<finished, removed, order, fs, txDest, tunnelVars, reply, outcome, wireVars,
                     delivered, cancels, failed>>
  BY DEF ItemDone
<1>2. Releasing /\ t \in Seq(PostedCalls) /\ TimersOf(t) = TimersOf(posted)
      /\ CallsOf(t) = <<>> /\ WrapsOf(t) = <<>>
  BY <1>1, CallParts, FrontIsLock DEF LockInv
<1>3. waiting \in Jobs /\ waiting \in ToSet(finished) /\ fs = Idle
  BY <1>2 DEF Releasing
<1>4. queued \in Seq(Jobs) /\ finished \in Seq(Jobs) /\ order \in Seq(Jobs)
      /\ Turn(waiting, queued, finished, order)
  BY Types DEF LockInv
<1>5. /\ waiting' \in Jobs \cup {None} /\ queued' \in Seq(Jobs) /\ posted' \in Seq(PostedCalls)
      /\ Phase' /\ Turn(waiting', queued', finished, order) /\ TimersOf(posted') = TimersOf(posted)
  <2>1. CASE queued = <<>>
    <3>1. next = [waiting |-> None, queued |-> <<>>, post |-> <<>>]
      BY <2>1, StartNextCases
    <3>2. t \o <<>> = t
      BY <1>2, ConcatEmpty
    <3> HIDE DEF next
    <3>3. waiting' = None /\ queued' = <<>> /\ posted' = t
      BY <1>1, <3>1, <3>2
    <3>4. Turn(None, <<>>, finished, order)
      BY <1>3, <1>4, <2>1, TurnIdle
    <3> HIDE DEF t
    <3>5. Free'
      BY <1>1, <1>2, <1>3, <3>3 DEF Free
    <3> QED BY <1>2, <3>3, <3>4, <3>5, EmptyIsSeq DEF Phase
  <2>2. CASE queued # <<>>
    <3> DEFINE h == Head(queued)
    <3>1. h \in Jobs /\ Tail(queued) \in Seq(Jobs)
      BY <1>4, <2>2, ConcatHeadTail
    <3>2. next = [waiting |-> h, queued |-> Tail(queued), post |-> <<Lock!InvokeCall(h)>>]
      BY <2>2, StartNextCases
    <3> HIDE DEF next
    <3>3. waiting' = h /\ queued' = Tail(queued) /\ posted' = t \o <<Lock!InvokeCall(h)>>
      BY <1>1, <3>2
    <3>4. Turn(h, Tail(queued), finished, order) /\ h \notin ToSet(finished)
      BY <1>3, <1>4, <2>2, TurnNext
    <3> HIDE DEF h, t
    <3>5. /\ posted' \in Seq(PostedCalls) /\ WrapsOf(posted') = <<>>
          /\ CallsOf(posted') = Append(<<>>, Lock!InvokeCall(h)) /\ TimersOf(posted') = TimersOf(t)
      BY <1>2, <3>1, <3>3, PostInvoke
    <3>6. Append(<<>>, Lock!InvokeCall(h)) = <<Lock!InvokeCall(h)>>
      OBVIOUS
    <3>7. Invoking'
      BY <1>1, <1>3, <3>1, <3>3, <3>4, <3>5, <3>6 DEF Invoking
    <3> QED BY <1>2, <3>1, <3>3, <3>4, <3>5, <3>7 DEF Phase
  <2> QED BY <2>1, <2>2
<1> HIDE DEF next, t
<1>6. TypeOK'
  BY <1>1, <1>5 DEF TypeOK, tunnelVars, wireVars
<1>7. SequenceInv'
  BY <1>1, SequenceFrame DEF tunnelVars
<1>8. ContextInv' /\ NonceInv' /\ TimerInv'
  BY <1>1, <1>5, TunnelFrame
<1>9. AnswerInv' /\ ReplyFromItsServer'
  BY <1>1, AnswerFrame DEF wireVars
<1> QED BY <1>1, <1>5, <1>6, <1>7, <1>8, <1>9 DEF LockInv

\* The wrapper of a register job: the next request is new to the lock.
LEMMA RunWrapStep ==
  ASSUME IInv, RunWrap
  PROVE  IInv'
<1> USE DEF IInv
<1>1. /\ posted # <<>> /\ Head(posted).op = "wrap"
      /\ UNCHANGED <<waiting, removed, fs, txDest, tunnelVars, reply, outcome, wireVars,
                     delivered, cancels, failed>>
  BY DEF RunWrap
<1>2. /\ Tail(posted) \in Seq(PostedCalls) /\ TimersOf(Tail(posted)) = TimersOf(posted)
      /\ CallsOf(Tail(posted)) = <<>> /\ WrapsOf(Tail(posted)) = <<>>
      /\ Wrapping /\ Head(posted).job = waiting /\ Head(posted).ec \in Codes
  BY <1>1, FrontIsWrap DEF LockInv
<1>3. waiting \in RegisterJobs /\ waiting \notin ToSet(finished) /\ fs = Idle
  BY <1>2 DEF Wrapping
<1>4. PICK job \in RegisterJobs : job = waiting
  BY <1>3
<1>5. PICK c \in Transmits, i \in 1..Len(Requests[job[2]]), ec \in Codes :
        c = job[2] /\ i = job[3] /\ ec = Head(posted).ec
  BY <1>2, RegisterJobParts
<1>6. /\ job = RegisterJob(c, i) /\ job \in Jobs /\ job[1] = "register"
      /\ Len(Requests[c]) \in Nat /\ i \in 1..Len(Requests[c])
  BY <1>5, RegisterJobParts
<1> DEFINE t == Tail(posted)
<1>7. IF ec = "ok" /\ i < Len(Requests[c])
      THEN /\ queued' = Append(queued, RegisterJob(c, i + 1))
           /\ order' = Append(order, RegisterJob(c, i + 1))
           /\ Finish(job, t)
      ELSE /\ Finish(job, Append(t, UserCall(c, ec)))
           /\ UNCHANGED <<queued, order>>
  BY <1>2, <1>4, <1>5 DEF RunWrap
<1>8. /\ queued \in Seq(Jobs) /\ order \in Seq(Jobs) /\ Turn(job, queued, finished, order)
      /\ finished \in Seq(Jobs) /\ job \in ToSet(order)
  BY <1>4, <1>6, Types, TurnParts DEF LockInv
<1> HIDE DEF t
<1>9. /\ Releasing' /\ posted' \in Seq(PostedCalls) /\ TimersOf(posted') = TimersOf(posted)
      /\ finished' \in Seq(Jobs) /\ ToSet(finished') = ToSet(finished) \cup {job}
      /\ Turn(waiting, queued, finished', order)
  <2>1. CASE ec = "ok" /\ i < Len(Requests[c])
    <3>1. Finish(waiting, t) /\ t \in Seq(PostedCalls) /\ TimersOf(t) = TimersOf(posted)
          /\ CallsOf(t) = <<>> /\ WrapsOf(t) = <<>>
      BY <1>2, <1>4, <1>7, <2>1 DEF t
    <3> QED BY <1>1, <1>3, <1>4, <1>6, <3>1, FinishStep DEF LockInv
  <2>2. CASE ~(ec = "ok" /\ i < Len(Requests[c]))
    <3> DEFINE ps == Append(t, UserCall(c, ec))
    <3>1. c \in Users
      BY DEF Users
    <3>2. ps \in Seq(PostedCalls) /\ TimersOf(ps) = TimersOf(posted)
          /\ CallsOf(ps) = <<>> /\ WrapsOf(ps) = <<>>
      BY <1>2, <3>1, PostUser DEF t
    <3>3. Finish(waiting, ps)
      BY <1>4, <1>7, <2>2
    <3> HIDE DEF ps
    <3> QED BY <1>1, <1>3, <1>4, <1>6, <3>2, <3>3, FinishStep DEF LockInv
  <2> QED BY <2>1, <2>2
<1>10. /\ queued' \in Seq(Jobs) /\ order' \in Seq(Jobs) /\ Turn(waiting, queued', finished', order')
       /\ SequenceInv'
  <2>1. CASE ec = "ok" /\ i < Len(Requests[c])
    <3> DEFINE nj == RegisterJob(c, i + 1)
    <3>1. nj \in Jobs /\ nj[1] = "register" /\ nj[2] = c /\ nj[3] = i + 1
      BY <1>6, <2>1, RegisterJobParts
    <3> HIDE DEF nj
    <3>2. queued' = Append(queued, nj) /\ order' = Append(order, nj)
      BY <1>7, <2>1 DEF nj
    <3>3. nj \notin ToSet(order)
      <4>1. i \in 1..(nj[3] - 1)
        BY <1>6, <3>1
      <4>2. nj \in ToSet(order) => RegisterJob(c, i) \in ToSet(finished)
        BY <3>1, <4>1 DEF SequenceInv, InSequence
      <4> QED BY <1>3, <1>4, <1>6, <4>2
    <3>4. Turn(waiting, Append(queued, nj), finished', Append(order, nj))
      BY <1>4, <1>6, <1>8, <1>9, <3>1, <3>3, TurnEnqueue
    <3>5. order' \in Seq(Jobs) /\ ToSet(order') = ToSet(order) \cup {nj}
      BY <1>8, <3>1, <3>2, ToSetAppend
    <3>6. queued' \in Seq(Jobs)
      BY <1>8, <3>1, <3>2
    <3>7. InSequence(nj)'
      <4> SUFFICES ASSUME NEW k \in 1..((i + 1) - 1)
                   PROVE  RegisterJob(c, k) \in ToSet(finished')
        BY <3>1 DEF InSequence
      <4>1. k = i \/ k \in 1..(i - 1)
        BY <1>6
      <4>2. k \in 1..(i - 1) => RegisterJob(c, k) \in ToSet(finished)
        BY <1>5, <1>6, <1>8 DEF SequenceInv, InSequence
      <4> QED BY <1>6, <1>9, <4>1, <4>2
    <3>8. SequenceInv'
      BY <1>1, <1>9, <3>5, <3>7, Types, SequenceKept DEF tunnelVars
    <3> QED BY <3>2, <3>4, <3>5, <3>6, <3>8
  <2>2. CASE ~(ec = "ok" /\ i < Len(Requests[c]))
    <3>1. queued' = queued /\ order' = order
      BY <1>7, <2>2
    <3>2. SequenceInv'
      BY <1>1, <1>9, <3>1, SequenceFrame DEF tunnelVars
    <3> QED BY <1>8, <1>9, <3>1, <3>2
  <2> QED BY <2>1, <2>2
<1>11. TypeOK'
  BY <1>1, <1>9, <1>10 DEF TypeOK, tunnelVars, wireVars
<1>12. ContextInv' /\ NonceInv' /\ TimerInv'
  BY <1>1, <1>9, TunnelFrame
<1>13. AnswerInv' /\ ReplyFromItsServer'
  BY <1>1, AnswerFrame DEF wireVars
<1> QED BY <1>1, <1>9, <1>10, <1>11, <1>12, <1>13 DEF LockInv, Phase

-----------------------------------------------------------------------------
\* A canceled poll gets the lock and drops its wrapper.
LEMMA InvokeCanceledReadStep ==
  ASSUME IInv, InvokeCanceledRead
  PROVE  IInv'
<1> USE DEF IInv
<1> DEFINE t == Tail(posted)
           job == Head(posted).command
           u == ctx[job[3]].user
<1>1. /\ posted # <<>> /\ Head(posted).op = "invoke" /\ job[1] = "read"
      /\ outcome' = [outcome EXCEPT ![u] = Append(@, "aborted")]
      /\ readNonce' = None /\ posted' = t
      /\ UNCHANGED <<lockVars, fs, txDest, ctx, readContext, writeNonce, writeHandler, pollTimer,
                     reply, wireVars, delivered, cancels, failed>>
  BY SMTT(30) DEF InvokeCanceledRead, Tell
<1>2. /\ t \in Seq(PostedCalls) /\ TimersOf(t) = TimersOf(posted)
      /\ CallsOf(t) = <<>> /\ WrapsOf(t) = <<>> /\ Invoking /\ job = waiting
  BY <1>1, FrontIsLock DEF LockInv
<1>3. waiting \in Jobs /\ waiting \notin ToSet(finished) /\ fs = Idle
  BY <1>2 DEF Invoking
<1>4. u \in Users
  <2>1. waiting \in ToSet(order)
    BY SMTT(30), <1>3, Types, TurnParts DEF LockInv
  <2>2. waiting[3] \in 1..MaxPolls
    BY SMTT(30), <1>1, <1>2, <1>3, JobKinds, ReadJobParts
  <2>3. waiting[3] <= Len(ctx)
    BY <1>1, <1>2, <2>1 DEF SequenceInv, InSequence
  <2>4. ctx[waiting[3]] \in Contexts
    BY <2>2, <2>3, Types, BoundsAssumption
  <2> QED BY <1>2, <2>4 DEF Contexts, Users
<1> HIDE DEF t, u, job
<1>5. outcome' \in [Users -> Seq(Codes)]
  <2>1. "aborted" \in Codes
    BY DEF Codes
  <2> QED BY <1>1, <1>4, <2>1 DEF TypeOK
<1>6. TypeOK'
  BY <1>1, <1>2, <1>5 DEF TypeOK, lockVars, wireVars
<1>7. Stuck'
  BY <1>1, <1>2, <1>3 DEF Stuck, lockVars
<1>8. SequenceInv'
  BY <1>1, SequenceFrame DEF lockVars
<1>9. ContextInv' /\ NonceInv'
  BY <1>1, <1>3 DEF ContextInv, NonceInv, lockVars
<1>10. Timers' = Timers
  BY <1>1, <1>2 DEF Timers, WakePoll
<1>11. TimerInv'
  BY <1>1, <1>10 DEF TimerInv, Waits, lockVars
<1>12. AnswerInv' /\ ReplyFromItsServer'
  BY <1>1, AnswerFrame DEF wireVars
<1> QED BY SMTT(30), <1>1, <1>6, <1>7, <1>8, <1>9, <1>11, <1>12 DEF LockInv, Phase, lockVars

\* A job gets the lock and starts to use the frame stream, which is idle.
LEMMA InvokeJobStep ==
  ASSUME IInv, InvokeJob
  PROVE  IInv'
<1> USE DEF IInv
<1> DEFINE t == Tail(posted)
<1>1. /\ posted # <<>> /\ Head(posted).op = "invoke" /\ posted' = t
      /\ UNCHANGED <<lockVars, ctx, readContext, writeNonce, writeHandler, pollTimer, reply,
                     outcome, wireVars, delivered, cancels>>
  BY DEF InvokeJob
<1>2. /\ t \in Seq(PostedCalls) /\ TimersOf(t) = TimersOf(posted)
      /\ CallsOf(t) = <<>> /\ WrapsOf(t) = <<>> /\ Invoking /\ Head(posted).command = waiting
  BY <1>1, FrontIsLock DEF LockInv
<1>3. waiting \in Jobs /\ waiting \notin ToSet(finished) /\ fs = Idle
  BY <1>2 DEF Invoking
<1>4. /\ readNonce' = IF waiting[1] = "read" THEN None ELSE readNonce
      /\ txDest' = IF waiting[1] = "block" THEN txDest ELSE Dest(waiting)
      /\ fs' = Writing(waiting) /\ failed' = failed
  BY <1>2, <1>3 DEF InvokeJob, Start
<1> HIDE DEF t
<1>5. TypeOK'
  BY <1>1, <1>2, <1>3, <1>4 DEF TypeOK, lockVars, wireVars
<1>6. Busy'
  BY <1>1, <1>2, <1>3, <1>4 DEF Busy, lockVars
<1>7. SequenceInv'
  BY <1>1, SequenceFrame DEF lockVars
<1>8. ContextInv'
  BY <1>1 DEF ContextInv, lockVars
<1>9. NonceInv'
  <2>1. fs' # Idle /\ fs'.job = waiting
    BY <1>4, Operations
  <2>2. readNonce' # waiting
    <3>1. readNonce \in ReadJobs \cup {None} /\ waiting # None
      BY <1>3, NoneAssumption DEF TypeOK
    <3> QED BY <1>4, <3>1, ReadJobParts
  <2> QED BY <1>1, <1>4, <2>1, <2>2 DEF NonceInv
<1>10. Timers' = Timers
  BY <1>1, <1>2 DEF Timers, WakePoll
<1>11. TimerInv'
  BY <1>1, <1>10 DEF TimerInv, Waits, lockVars
<1>12. AnswerInv'
  <2>1. fs'.job = waiting
    BY <1>4, Operations
  <2>2. waiting \in RegisterJobs => txDest' = Dest(waiting)
    BY <1>4, RegisterJobParts
  <2> QED BY <1>1, <2>1, <2>2 DEF AnswerInv, wireVars
<1>13. ReplyFromItsServer'
  BY <1>1 DEF ReplyFromItsServer
<1> QED BY <1>1, <1>4, <1>5, <1>6, <1>7, <1>8, <1>9, <1>11, <1>12, <1>13 DEF LockInv, Phase, lockVars

-----------------------------------------------------------------------------
\* One context is replaced.
LEMMA ReplaceContext ==
  ASSUME NEW cs \in Seq(Contexts), NEW n \in 1..Len(cs), NEW c \in Contexts
  PROVE  /\ [cs EXCEPT ![n] = c] \in Seq(Contexts) /\ Len([cs EXCEPT ![n] = c]) = Len(cs)
         /\ [cs EXCEPT ![n] = c][n] = c
         /\ \A m \in 1..Len(cs) : m # n => [cs EXCEPT ![n] = c][m] = cs[m]
OBVIOUS

\* At most one handler of a user is posted.
LEMMA PostMaybeUser ==
  ASSUME NEW ps \in Seq(PostedCalls), NEW x,
         x = <<>> \/ \E u \in Users, ec \in Codes : x = <<UserCall(u, ec)>>
  PROVE  /\ ps \o x \in Seq(PostedCalls)
         /\ CallsOf(ps \o x) = CallsOf(ps) /\ WrapsOf(ps \o x) = WrapsOf(ps)
         /\ TimersOf(ps \o x) = TimersOf(ps)
<1>1. CASE x = <<>>
  <2>1. ps \o x = ps
    BY <1>1, ConcatEmpty
  <2> QED BY <2>1
<1>2. CASE \E u \in Users, ec \in Codes : x = <<UserCall(u, ec)>>
  <2>1. PICK u \in Users, ec \in Codes : x = <<UserCall(u, ec)>>
    BY <1>2
  <2>2. UserCall(u, ec) \in PostedCalls
    BY CallsInKinds, CallKinds
  <2> DEFINE y == UserCall(u, ec)
  <2> HIDE DEF y
  <2>3. Append(ps, y) = ps \o <<y>>
    BY <2>2 DEF y
  <2>4. ps \o x = Append(ps, UserCall(u, ec))
    BY <2>1, <2>3 DEF y
  <2> QED BY <2>4, PostUser
<1> QED BY <1>1, <1>2

\* The wait for the timer, as a sequence of at most one handler.
LEMMA PostWakePoll ==
  ASSUME TypeOK, NEW ps \in Seq(PostedCalls)
  PROVE  /\ WakePoll \in Seq(PostedCalls) /\ ps \o WakePoll \in Seq(PostedCalls)
         /\ CallsOf(ps \o WakePoll) = CallsOf(ps) /\ WrapsOf(ps \o WakePoll) = WrapsOf(ps)
         /\ TimersOf(ps \o WakePoll) = TimersOf(ps) \o WakePoll
<1>0. TimersOf(ps) \in Seq(PostedCalls)
  BY KeepType DEF TimersOf
<1>1. CASE pollTimer = None
  <2>1. WakePoll = <<>>
    BY <1>1 DEF WakePoll
  <2>2. ps \o WakePoll = ps /\ TimersOf(ps) \o WakePoll = TimersOf(ps)
    BY <1>0, <2>1, ConcatEmpty
  <2> QED BY <2>1, <2>2, EmptyIsSeq
<1>2. CASE pollTimer # None
  <2>1. pollTimer \in 1..MaxPolls
    BY <1>2, Types, BoundsAssumption DEF TypeOK
  <2> DEFINE x == TimerCall(pollTimer)
             k == TimersOf(ps)
  <2>2. x \in PostedCalls /\ WakePoll = <<x>>
    BY <1>2, <2>1, CallsInKinds, CallKinds DEF WakePoll
  <2>3. /\ Append(ps, x) \in Seq(PostedCalls) /\ CallsOf(Append(ps, x)) = CallsOf(ps)
        /\ WrapsOf(Append(ps, x)) = WrapsOf(ps) /\ TimersOf(Append(ps, x)) = Append(k, x)
    BY <2>1, PostTimer
  <2>4. k \in Seq(PostedCalls)
    BY <1>0
  <2> HIDE DEF x, k
  <2>5. Append(ps, x) = ps \o <<x>> /\ Append(k, x) = k \o <<x>> /\ <<x>> \in Seq(PostedCalls)
    BY <2>2, <2>4
  <2> QED BY <2>2, <2>3, <2>5 DEF k
<1> QED BY <1>1, <1>2

\* What cancel() posts.
LEMMA CancelPosts ==
  ASSUME TypeOK, NonceInv
  PROVE  /\ AbortRead = <<>> \/ \E u \in Users, ec \in Codes : AbortRead = <<UserCall(u, ec)>>
         /\ AbortWrite = <<>> \/ \E u \in Users, ec \in Codes : AbortWrite = <<UserCall(u, ec)>>
<1>0. "aborted" \in Codes /\ None \notin ToSet(queued)
  BY Types, NoneAssumption DEF Codes
<1>1. AbortRead = <<>> \/ \E u \in Users, ec \in Codes : AbortRead = <<UserCall(u, ec)>>
  <2>1. CASE readNonce \in ToSet(queued)
    <3>1. readContext \in 1..Len(ctx)
      BY <1>0, <2>1 DEF NonceInv, TypeOK
    <3>2. ctx[readContext] \in Contexts
      BY <3>1, Types
    <3>3. ctx[readContext].user \in Users
      BY <3>2 DEF Contexts, Users
    <3>4. AbortRead = <<UserCall(ctx[readContext].user, "aborted")>>
      BY <2>1 DEF AbortRead
    <3> QED BY <1>0, <3>3, <3>4
  <2>2. readNonce \notin ToSet(queued) => AbortRead = <<>>
    BY DEF AbortRead
  <2> QED BY <2>1, <2>2
<1>2. AbortWrite = <<>> \/ \E u \in Users, ec \in Codes : AbortWrite = <<UserCall(u, ec)>>
  <2>1. CASE writeNonce \in ToSet(queued)
    <3>1. writeHandler \in Users
      BY <1>0, <2>1 DEF NonceInv, TypeOK, Users
    <3>2. AbortWrite = <<UserCall(writeHandler, "aborted")>>
      BY <2>1 DEF AbortWrite
    <3> QED BY <1>0, <3>1, <3>2
  <2>2. writeNonce \notin ToSet(queued) => AbortWrite = <<>>
    BY DEF AbortWrite
  <2> QED BY <2>1, <2>2
<1> QED BY <1>1, <1>2

\* cancel(): queued jobs leave the queue, and the context is marked.
LEMMA CancelStep ==
  ASSUME IInv, Cancel
  PROVE  IInv'
<1> USE DEF IInv
<1> DEFINE gone == {readNonce, writeNonce} \cap ToSet(queued)
<1>1. /\ cancels' = cancels + 1
      /\ ctx' = IF readContext # None THEN [ctx EXCEPT ![readContext].canceled = TRUE] ELSE ctx
      /\ queued' = Without(queued, gone) /\ order' = Without(order, gone)
      /\ removed' = removed \cup gone
      /\ posted' = ((posted \o AbortRead) \o WakePoll) \o AbortWrite
      /\ pollTimer' = None /\ readContext' = None /\ writeHandler' = None
      /\ readNonce' = None /\ writeNonce' = None
      /\ UNCHANGED <<waiting, finished, fs, txDest, reply, outcome, wireVars, delivered, failed>>
  BY DEF Cancel
<1>2. gone \in SUBSET ToSet(queued) /\ ToSet(queued) \subseteq Jobs
  BY Types
<1> HIDE DEF gone
<1>3. /\ waiting \in Jobs \cup {None} /\ queued \in Seq(Jobs) /\ finished \in Seq(Jobs)
      /\ order \in Seq(Jobs) /\ posted \in Seq(PostedCalls) /\ Turn(waiting, queued, finished, order)
  BY Types DEF LockInv
<1>4. /\ Turn(waiting, queued', finished, order') /\ queued' \in Seq(Jobs) /\ order' \in Seq(Jobs)
      /\ ToSet(order') = ToSet(order) \ gone
  <2> DEFINE wq == Without(queued, gone)
             wo == Without(order, gone)
  <2>1. /\ Turn(waiting, wq, finished, wo) /\ wq \in Seq(Jobs) /\ wo \in Seq(Jobs)
        /\ ToSet(wo) = ToSet(order) \ gone
    BY <1>2, <1>3, TurnRemove
  <2>2. queued' = wq /\ order' = wo
    BY <1>1
  <2> HIDE DEF wq, wo
  <2> QED BY <2>1, <2>2
<1>5. ctx' \in Seq(Contexts) /\ Len(ctx') = Len(ctx)
      /\ \A n \in 1..Len(ctx) : (ctx'[n].canceled <=> (ctx[n].canceled \/ n = readContext))
  <2>0. Len(ctx) \in Nat /\ None \notin 1..Len(ctx) /\ ctx \in Seq(Contexts)
    BY Types, NoneAssumption
  <2>1. CASE readContext = None
    BY <1>1, <2>0, <2>1
  <2>2. CASE readContext # None
    <3>1. readContext \in 1..Len(ctx)
      BY <2>2 DEF TypeOK
    <3> DEFINE c == [ctx[readContext] EXCEPT !.canceled = TRUE]
    <3>2. ctx[readContext] \in Contexts
      BY <2>0, <3>1
    <3>3. c \in Contexts /\ c.canceled = TRUE
      BY <3>2 DEF Contexts
    <3>4. ctx' = [ctx EXCEPT ![readContext] = c]
      BY <1>1, <2>2
    <3> HIDE DEF c
    <3>5. /\ ctx' \in Seq(Contexts) /\ Len(ctx') = Len(ctx) /\ ctx'[readContext] = c
          /\ \A m \in 1..Len(ctx) : m # readContext => ctx'[m] = ctx[m]
      BY <2>0, <3>1, <3>3, <3>4, ReplaceContext
    <3> QED BY <3>3, <3>5
  <2> QED BY <2>1, <2>2
<1>6. /\ posted' \in Seq(PostedCalls)
      /\ CallsOf(posted') = CallsOf(posted) /\ WrapsOf(posted') = WrapsOf(posted)
      /\ TimersOf(posted') = Timers
  <2> DEFINE p == posted \o AbortRead
             q == p \o WakePoll
             r == q \o AbortWrite
  <2>1. /\ AbortRead = <<>> \/ \E u \in Users, ec \in Codes : AbortRead = <<UserCall(u, ec)>>
        /\ AbortWrite = <<>> \/ \E u \in Users, ec \in Codes : AbortWrite = <<UserCall(u, ec)>>
    BY CancelPosts
  <2>2. /\ p \in Seq(PostedCalls) /\ CallsOf(p) = CallsOf(posted)
        /\ WrapsOf(p) = WrapsOf(posted) /\ TimersOf(p) = TimersOf(posted)
    BY <1>3, <2>1, PostMaybeUser
  <2> HIDE DEF p
  <2>3. /\ q \in Seq(PostedCalls) /\ CallsOf(q) = CallsOf(p)
        /\ WrapsOf(q) = WrapsOf(p) /\ TimersOf(q) = TimersOf(p) \o WakePoll
    BY <2>2, PostWakePoll
  <2> HIDE DEF q
  <2>4. /\ r \in Seq(PostedCalls) /\ CallsOf(r) = CallsOf(q)
        /\ WrapsOf(r) = WrapsOf(q) /\ TimersOf(r) = TimersOf(q)
    BY <2>1, <2>3, PostMaybeUser
  <2>5. posted' = r
    BY <1>1 DEF q, p
  <2> HIDE DEF r
  <2> QED BY <2>2, <2>3, <2>4, <2>5 DEF Timers
<1>7. TypeOK'
  <2>1. removed' \subseteq Jobs /\ cancels' \in Nat
    BY <1>1, <1>2 DEF TypeOK
  <2> QED BY <1>1, <1>4, <1>5, <1>6, <2>1 DEF TypeOK, wireVars
<1>8. Phase'
  <2>1. queued = <<>> => queued' = <<>>
    BY <1>1, KeepEmpty DEF Without
  <2> QED BY <1>1, <1>6, <2>1, PhaseFrame DEF LockInv
<1>9. SequenceInv'
  BY <1>1, <1>4, <1>5, SequenceFrame
<1>10. ContextInv'
  BY <1>1, <1>5 DEF ContextInv
<1>11. NonceInv'
  <2>1. fs # Idle => fs.job # None
    BY Operations, NoneAssumption
       DEF LockInv, Phase, Free, Invoking, Busy, Wrapping, Stuck, Releasing
  <2> QED BY <1>1, <2>1 DEF NonceInv
<1>12. Timers' = Timers
  <2>1. WakePoll' = <<>>
    BY <1>1 DEF WakePoll
  <2>2. TimersOf(posted') \in Seq(PostedCalls)
    BY <1>6, KeepType DEF TimersOf
  <2>3. TimersOf(posted') \o <<>> = TimersOf(posted')
    BY <2>2, ConcatEmpty
  <2>4. Timers' = TimersOf(posted') \o WakePoll'
    BY DEF Timers
  <2> QED BY <1>6, <2>1, <2>3, <2>4
<1>13. TimerInv'
  <2> SUFFICES ASSUME NEW n \in 1..MaxPolls, TimerCall(n) \in ToSet(Timers) PROVE Waits(n)'
    BY <1>12 DEF TimerInv
  <2>1. Waits(n)
    BY DEF TimerInv
  <2>2. n \in 1..Len(ctx)
    BY <2>1, Types, BoundsAssumption DEF Waits
  <2> QED BY <1>1, <1>5, <2>1, <2>2 DEF Waits
<1>14. AnswerInv' /\ ReplyFromItsServer'
  BY <1>1, AnswerFrame DEF wireVars
<1> QED BY <1>1, <1>4, <1>7, <1>8, <1>9, <1>10, <1>11, <1>13, <1>14 DEF LockInv

-----------------------------------------------------------------------------
\* The end of an operation of the frame stream: what its handler did to the
\* lock, to the user and to the members.
StreamStep ==
  /\ posted' \in Seq(PostedCalls) /\ TimersOf(posted') = TimersOf(posted)
  /\ finished' \in Seq(Jobs) /\ ToSet(finished') \subseteq ToSet(finished) \cup {waiting}
  /\ ToSet(finished) \subseteq ToSet(finished')
  /\ Turn(waiting, queued, finished', order) /\ Phase'
  /\ fs' = Idle \/ fs' = Reading(waiting)
  /\ outcome' \in [Users -> Seq(Codes)]
  /\ failed' # "overlap" /\ failed' \in {"no", "overlap", "throw", "empty_handler"}
  /\ (writeNonce' = None /\ writeHandler' = None) \/ UNCHANGED <<writeNonce, writeHandler>>

\* An operation is in progress: the lock holder's.
LEMMA BusyWith ==
  ASSUME TypeOK, Phase, fs.op \in {"write", "read"}
  PROVE  /\ Busy /\ waiting \in Jobs /\ waiting \notin ToSet(finished) /\ fs.job = waiting
         /\ CallsOf(posted) = <<>> /\ WrapsOf(posted) = <<>> /\ fs # Idle
         /\ fs.op = "write" => fs = Writing(waiting)
         /\ fs.op = "read" => fs = Reading(waiting)
BY Operations DEF Phase, Free, Invoking, Busy, Wrapping, Stuck, Releasing

\* The frame of a job whose answer comes later: the lock holder goes on.
LEMMA StreamGoesOn ==
  ASSUME IInv, Busy, waiting' = waiting, queued' = queued, fs' = Reading(waiting),
         UNCHANGED <<posted, finished, writeHandler, writeNonce, outcome, failed>>
  PROVE  StreamStep
<1> USE DEF IInv, LockInv
<1>1. Phase'
  BY DEF Phase, Busy
<1>2. posted \in Seq(PostedCalls) /\ finished \in Seq(Jobs)
  BY Types
<1>3. outcome' \in [Users -> Seq(Codes)] /\ failed' \in {"no", "overlap", "throw", "empty_handler"}
  BY DEF TypeOK
<1> QED BY <1>1, <1>2, <1>3 DEF StreamStep

\* The process aborts.
LEMMA StreamThrows ==
  ASSUME IInv, Busy, waiting' = waiting, queued' = queued, fs' = Idle, failed' = "throw",
         UNCHANGED <<posted, finished, writeHandler, writeNonce, outcome>>
  PROVE  StreamStep
<1> USE DEF IInv, LockInv
<1>1. Stuck'
  BY DEF Busy, Stuck
<1>2. posted \in Seq(PostedCalls) /\ finished \in Seq(Jobs)
  BY Types
<1>3. outcome' \in [Users -> Seq(Codes)]
  BY DEF TypeOK
<1> QED BY <1>1, <1>2, <1>3 DEF StreamStep, Phase

\* The wrapper of a register job is posted.
LEMMA StreamPostsWrap ==
  ASSUME IInv, Busy, waiting' = waiting, queued' = queued, fs' = Idle,
         waiting \in RegisterJobs, NEW ec \in Codes, posted' = Append(posted, WrapCall(waiting, ec)),
         UNCHANGED <<finished, writeHandler, writeNonce, outcome, failed>>
  PROVE  StreamStep
<1> USE DEF IInv, LockInv
<1>1. posted \in Seq(PostedCalls) /\ finished \in Seq(Jobs)
  BY Types
<1>2. CallsOf(posted) = <<>> /\ WrapsOf(posted) = <<>> /\ waiting \notin ToSet(finished)
  BY DEF Busy
<1>3. /\ posted' \in Seq(PostedCalls) /\ CallsOf(posted') = <<>>
      /\ WrapsOf(posted') = Append(<<>>, WrapCall(waiting, ec))
      /\ TimersOf(posted') = TimersOf(posted)
  BY <1>1, <1>2, PostWrap
<1>4. Append(<<>>, WrapCall(waiting, ec)) = <<WrapCall(waiting, ec)>>
  OBVIOUS
<1>5. Wrapping'
  BY <1>2, <1>3, <1>4 DEF Wrapping
<1>6. outcome' \in [Users -> Seq(Codes)] /\ failed' \in {"no", "overlap", "throw", "empty_handler"}
  BY DEF TypeOK
<1> QED BY <1>1, <1>3, <1>5, <1>6 DEF StreamStep, Phase

\* The wrapper is called, after the handlers of users that are posted.
LEMMA StreamFinishes ==
  ASSUME IInv, Busy, waiting' = waiting, queued' = queued, fs' = Idle,
         NEW ps \in Seq(PostedCalls), CallsOf(ps) = CallsOf(posted), WrapsOf(ps) = WrapsOf(posted),
         TimersOf(ps) = TimersOf(posted), Finish(waiting, ps),
         outcome' \in [Users -> Seq(Codes)],
         failed' # "overlap" /\ failed' \in {"no", "overlap", "throw", "empty_handler"},
         (writeNonce' = None /\ writeHandler' = None) \/ UNCHANGED <<writeNonce, writeHandler>>
  PROVE  StreamStep /\ ToSet(finished') = ToSet(finished) \cup {waiting}
<1> USE DEF IInv, LockInv
<1>1. waiting \in Jobs /\ waiting \notin ToSet(finished) /\ CallsOf(ps) = <<>> /\ WrapsOf(ps) = <<>>
  BY DEF Busy
<1>2. /\ Releasing' /\ posted' \in Seq(PostedCalls) /\ TimersOf(posted') = TimersOf(ps)
      /\ finished' \in Seq(Jobs) /\ ToSet(finished') = ToSet(finished) \cup {waiting}
      /\ Turn(waiting, queued, finished', order)
  BY <1>1, FinishStep
<1> QED BY <1>2 DEF StreamStep, Phase

\* What each of the four handlers does when the frame is written.
LEMMA WriteDoneCases ==
  ASSUME IInv, Busy, fs = Writing(waiting), failed = "no", NEW ec \in {"ok", "error"},
         waiting' = waiting, queued' = queued,
         \/ WriteDoneForRegister(fs.job, ec)
         \/ WriteDoneForBlock(fs.job, ec)
         \/ WriteDoneForRead(fs.job, ec)
         \/ WriteDoneForWrite(fs.job, ec)
  PROVE  StreamStep
<1>1. /\ fs.job = waiting /\ waiting \in Jobs /\ posted \in Seq(PostedCalls) /\ ec \in Codes
      /\ outcome \in [Users -> Seq(Codes)]
  BY Operations, Types DEF IInv, Busy, Codes, TypeOK
<1>2. ASSUME NEW u \in Users, Tell(u, ec) PROVE outcome' \in [Users -> Seq(Codes)]
  BY <1>1, <1>2 DEF Tell
<1>3. CASE WriteDoneForRegister(fs.job, ec)
  <2>1. waiting \in RegisterJobs
    BY <1>1, <1>3, JobKinds DEF WriteDoneForRegister
  <2>2. UNCHANGED <<finished, writeHandler, writeNonce, outcome>>
    BY <1>3 DEF WriteDoneForRegister
  <2>3. \/ posted' = Append(posted, WrapCall(waiting, ec)) /\ fs' = Idle /\ failed' = failed
        \/ fs' = Reading(waiting) /\ UNCHANGED <<posted, failed>>
        \/ failed' = "throw" /\ fs' = Idle /\ posted' = posted
    BY <1>1, <1>3 DEF WriteDoneForRegister
  <2>4. CASE posted' = Append(posted, WrapCall(waiting, ec)) /\ fs' = Idle /\ failed' = failed
    BY <1>1, <2>1, <2>2, <2>4, StreamPostsWrap
  <2>5. CASE fs' = Reading(waiting) /\ UNCHANGED <<posted, failed>>
    BY <2>2, <2>5, StreamGoesOn
  <2>6. CASE failed' = "throw" /\ fs' = Idle /\ posted' = posted
    BY <2>2, <2>6, StreamThrows
  <2> QED BY <2>3, <2>4, <2>5, <2>6
<1>4. CASE WriteDoneForBlock(fs.job, ec)
  <2>1. waiting \in BlockJobs
    BY <1>1, <1>4, JobKinds DEF WriteDoneForBlock
  <2>2. waiting[2] \in Users
    BY <2>1, BlockJobParts DEF Users
  <2>3. Tell(waiting[2], ec) /\ Finish(waiting, posted) /\ fs' = Idle
        /\ UNCHANGED <<failed, writeHandler, writeNonce>>
    BY <1>1, <1>4 DEF WriteDoneForBlock
  <2>4. outcome' \in [Users -> Seq(Codes)]
    BY <1>2, <2>2, <2>3
  <2> QED BY <1>1, <2>3, <2>4, StreamFinishes
<1>5. CASE WriteDoneForRead(fs.job, ec)
  <2>1. UNCHANGED <<posted, finished, writeHandler, writeNonce, outcome>>
    BY <1>5 DEF WriteDoneForRead
  <2>2. (fs' = Reading(waiting) /\ failed' = failed) \/ (failed' = "throw" /\ fs' = Idle)
    BY <1>1, <1>5 DEF WriteDoneForRead
  <2> QED BY <2>1, <2>2, StreamGoesOn, StreamThrows
<1>6. CASE WriteDoneForWrite(fs.job, ec)
  <2>1. Finish(waiting, posted) /\ fs' = Idle /\ writeHandler' = None /\ writeNonce' = None
    BY <1>1, <1>6 DEF WriteDoneForWrite
  <2>2. /\ failed' # "overlap" /\ failed' \in {"no", "overlap", "throw", "empty_handler"}
        /\ outcome' \in [Users -> Seq(Codes)]
    <3>1. CASE writeHandler = None
      BY <1>1, <1>6, <3>1 DEF WriteDoneForWrite
    <3>2. CASE writeHandler # None
      <4>1. writeHandler \in Users
        BY <3>2 DEF IInv, TypeOK, Users
      <4>2. Tell(writeHandler, ec) /\ failed' = failed
        BY <1>6, <3>2 DEF WriteDoneForWrite
      <4> QED BY <1>2, <4>1, <4>2
    <3> QED BY <3>1, <3>2
  <2> QED BY <1>1, <2>1, <2>2, StreamFinishes
<1> QED BY <1>3, <1>4, <1>5, <1>6

\* The lock and the tunnel after such a step, if no context is touched.
LEMMA StreamFrame ==
  ASSUME IInv, Busy, StreamStep, UNCHANGED <<waiting, queued, order, ctx, readContext, readNonce, pollTimer>>
  PROVE  LockInv' /\ SequenceInv' /\ ContextInv' /\ NonceInv' /\ TimerInv'
<1> USE DEF IInv
<1>1. LockInv'
  BY DEF LockInv, StreamStep
<1>2. SequenceInv'
  BY SequenceFrame DEF StreamStep
<1>3. ContextInv'
  BY DEF ContextInv, StreamStep
<1>4. NonceInv'
  <2>1. fs # Idle /\ fs.job = waiting
    BY Operations DEF Busy
  <2>2. fs' # Idle => fs'.job = waiting
    BY Operations DEF StreamStep
  <2>3. fs' # Idle => fs'.job # readNonce'
    BY <2>1, <2>2 DEF NonceInv
  <2>4. writeNonce' # None => writeHandler' # None /\ writeNonce' = WriteJob(writeHandler')
    BY DEF NonceInv, StreamStep
  <2> QED BY <2>3, <2>4 DEF NonceInv
<1>5. Timers' = Timers
  BY DEF Timers, WakePoll, StreamStep
<1>6. TimerInv'
  BY <1>5 DEF TimerInv, Waits, StreamStep
<1> QED BY <1>1, <1>2, <1>3, <1>4, <1>6

\* The frame is written.
LEMMA WriteDoneStep ==
  ASSUME IInv, WriteDone, failed = "no"
  PROVE  IInv'
<1>1. PICK ec \in {"ok", "error"} :
        /\ \/ WriteDoneForRegister(fs.job, ec)
           \/ WriteDoneForBlock(fs.job, ec)
           \/ WriteDoneForRead(fs.job, ec)
           \/ WriteDoneForWrite(fs.job, ec)
        /\ bus' = IF ec = "ok" /\ RequestReply(fs.job) THEN Append(bus, fs.job) ELSE bus
  BY DEF WriteDone
<1>2. /\ fs.op = "write"
      /\ UNCHANGED <<waiting, queued, removed, order, txDest, ctx, readContext,
                     readNonce, pollTimer, reply, inbox, sent, delivered, cancels>>
  BY DEF WriteDone
<1>3. Busy /\ fs = Writing(waiting) /\ waiting \in Jobs /\ fs.job = waiting /\ fs # Idle
  BY <1>2, BusyWith DEF IInv, LockInv
<1>4. StreamStep
  BY <1>1, <1>2, <1>3, WriteDoneCases
<1>5. bus' \in Seq(Jobs)
  <2>1. bus \in Seq(Jobs)
    BY DEF IInv, TypeOK
  <2>2. Append(bus, waiting) \in Seq(Jobs)
    BY <1>3, <2>1
  <2> QED BY <1>1, <1>3, <2>1, <2>2
<1>6. fs' \in {Idle} \cup {Writing(j) : j \in Jobs} \cup {Reading(j) : j \in Jobs}
  BY <1>3, <1>4 DEF StreamStep
<1>7. writeNonce' \in WriteJobs \cup {None} /\ writeHandler' \in Writes \cup {None}
  BY <1>4 DEF IInv, TypeOK, StreamStep
<1>8. TypeOK'
  BY <1>2, <1>4, <1>5, <1>6, <1>7 DEF IInv, TypeOK, StreamStep
<1>9. LockInv' /\ SequenceInv' /\ ContextInv' /\ NonceInv' /\ TimerInv'
  BY <1>2, <1>3, <1>4, StreamFrame
<1>10. fs' = Idle \/ (fs # Idle /\ fs'.job = fs.job)
  BY <1>3, <1>4, Operations DEF StreamStep
<1>11. AnswerInv' /\ ReplyFromItsServer'
  BY <1>2, <1>10, AnswerFrame DEF IInv
<1> QED BY <1>8, <1>9, <1>11 DEF IInv

\* A request is lost.
LEMMA RequestLostStep ==
  ASSUME IInv, RequestLost
  PROVE  IInv'
<1>1. /\ bus # <<>> /\ bus' = Tail(bus)
      /\ UNCHANGED <<lockVars, posted, fs, txDest, tunnelVars, reply, outcome,
                     inbox, sent, delivered, cancels, failed>>
  BY DEF RequestLost
<1>2. bus' \in Seq(Jobs)
  BY <1>1, ConcatHeadTail DEF IInv, TypeOK
<1>3. TypeOK'
  BY <1>1, <1>2 DEF IInv, TypeOK, lockVars, tunnelVars
<1>4. LockInv'
  BY <1>1, PhaseFrame DEF IInv, LockInv, lockVars
<1>5. SequenceInv' /\ ContextInv' /\ NonceInv' /\ TimerInv'
  BY <1>1, SequenceFrame, TunnelFrame DEF IInv, lockVars, tunnelVars
<1>6. AnswerInv' /\ ReplyFromItsServer'
  BY <1>1, AnswerFrame DEF IInv
<1> QED BY <1>3, <1>4, <1>5, <1>6 DEF IInv

\* A request is answered by the server it was sent to.
LEMMA ServerAnswersStep ==
  ASSUME IInv, ServerAnswers
  PROVE  IInv'
<1> DEFINE j == Head(bus)
<1>1. /\ bus # <<>> /\ bus' = Tail(bus)
      /\ UNCHANGED <<lockVars, posted, fs, txDest, tunnelVars, reply, outcome,
                     delivered, cancels, failed>>
  BY DEF ServerAnswers
<1>2. PICK n \in 0..MaxChunk :
        /\ sent' = sent + n
        /\ inbox' = Append(inbox, [source |-> Dest(j), job |-> j, bytes |-> [k \in 1..n |-> sent + k]])
  <2>1. (IF j[1] = "read" THEN 0..MaxChunk ELSE {0}) \subseteq 0..MaxChunk
    BY BoundsAssumption
  <2> QED BY <2>1 DEF ServerAnswers
<1>3. j \in Jobs /\ bus' \in Seq(Jobs)
  BY <1>1, ConcatHeadTail DEF IInv, TypeOK
<1> HIDE DEF j
<1> DEFINE b == [k \in 1..n |-> sent + k]
           f == [source |-> Dest(j), job |-> j, bytes |-> b]
<1>4. sent' \in Nat /\ sent \in Nat /\ n \in Nat
  BY <1>2, BoundsAssumption DEF IInv, TypeOK
<1>5. b \in Seq(Nat)
  <2>1. b \in [1..n -> Nat]
    BY <1>4
  <2> HIDE DEF b
  <2> QED BY <1>4, <2>1
<1> HIDE DEF b
<1>6. f \in Frames
  BY <1>3, <1>5 DEF Frames
<1>7. inbox' = Append(inbox, f) /\ f.source = Dest(f.job)
  BY <1>2 DEF b
<1> HIDE DEF f
<1>8. inbox \in Seq(Frames)
  BY DEF IInv, TypeOK
<1>9. inbox' \in Seq(Frames) /\ ToSet(inbox') = ToSet(inbox) \cup {f}
  BY <1>6, <1>7, <1>8, ToSetAppend
<1>10. TypeOK'
  BY SMTT(30), <1>1, <1>3, <1>4, <1>9 DEF IInv, TypeOK, lockVars, tunnelVars
<1>11. LockInv'
  BY <1>1, PhaseFrame DEF IInv, LockInv, lockVars
<1>12. SequenceInv' /\ ContextInv' /\ NonceInv' /\ TimerInv'
  BY <1>1, SequenceFrame, TunnelFrame DEF IInv, lockVars, tunnelVars
<1>13. AnswerInv'
  BY <1>1, <1>7, <1>9 DEF IInv, AnswerInv
<1>14. ReplyFromItsServer'
  BY <1>1 DEF IInv, ReplyFromItsServer
<1> QED BY <1>10, <1>11, <1>12, <1>13, <1>14 DEF IInv

\* An answer, or a timeout, for a register job.
LEMMA ReadDoneForRegisterStep ==
  ASSUME IInv, fs.op = "read", NEW frame, frame = None \/ frame \in ToSet(inbox),
         ReadDoneForRegister(fs.job, frame), ToSet(inbox') \subseteq ToSet(inbox),
         inbox' \in Seq(Frames),
         UNCHANGED <<waiting, queued, removed, order, txDest, readNonce,
                     writeNonce, writeHandler, outcome, bus, sent, cancels, failed>>
  PROVE  IInv'
<1> USE DEF IInv
<1>1. /\ Busy /\ waiting \in Jobs /\ fs.job = waiting /\ fs # Idle /\ fs = Reading(waiting)
  BY BusyWith DEF LockInv
<1>2. waiting[1] = "register" /\ UNCHANGED <<finished, ctx, readContext, pollTimer, delivered>>
  BY <1>1 DEF ReadDoneForRegister
<1>3. waiting \in RegisterJobs
  BY <1>1, <1>2, JobKinds
<1>4. PICK job \in Jobs : job = waiting
  BY <1>1
<1>5. \/ UNCHANGED <<fs, posted, reply>>
      \/ /\ fs' = Idle
         /\ \E ec \in Codes : posted' = Append(posted, WrapCall(waiting, ec))
         /\ \/ reply' = reply
            \/ /\ frame # None /\ FromExpected(frame)
               /\ reply' = [reply EXCEPT ![job[2]] = Append(@, <<frame.job, job>>)]
  <2>1. "ok" \in Codes /\ "aborted" \in Codes
    BY DEF Codes
  <2>2. CASE frame # None /\ ~FromExpected(frame)
    BY <2>2 DEF ReadDoneForRegister
  <2>3. CASE ~(frame # None /\ ~FromExpected(frame))
    <3>1. fs' = Idle
      BY <2>3 DEF ReadDoneForRegister
    <3>2. posted' = Append(posted, WrapCall(waiting, IF frame = None THEN "aborted" ELSE "ok"))
      BY <1>1, <2>3 DEF ReadDoneForRegister
    <3>3. \E ec \in Codes : posted' = Append(posted, WrapCall(waiting, ec))
      BY <2>1, <3>2
    <3>4. reply' = IF frame # None /\ frame.job[1] = "register"
                   THEN [reply EXCEPT ![job[2]] = Append(@, <<frame.job, job>>)]
                   ELSE reply
      BY <1>1, <1>4, <2>3 DEF ReadDoneForRegister
    <3> QED BY <2>3, <3>1, <3>3, <3>4
  <2> QED BY <2>2, <2>3
<1>6. StreamStep
  <2>1. CASE UNCHANGED <<fs, posted, reply>>
    BY <1>1, <1>2, <2>1, StreamGoesOn
  <2>2. CASE fs' = Idle /\ \E ec \in Codes : posted' = Append(posted, WrapCall(waiting, ec))
    BY <1>1, <1>2, <1>3, <2>2, StreamPostsWrap
  <2> QED BY <1>5, <2>1, <2>2
<1>7. job[2] \in Transmits /\ job \in RegisterJobs
  BY <1>3, <1>4, RegisterJobParts
<1>8. reply' = reply \/ (/\ Dest(frame.job) = Dest(job) /\ frame.job \in Jobs
                         /\ reply' = [reply EXCEPT ![job[2]] = Append(@, <<frame.job, job>>)])
  <2> SUFFICES ASSUME frame # None, FromExpected(frame)
               PROVE  Dest(frame.job) = Dest(job) /\ frame.job \in Jobs
    BY <1>5
  <2>1. frame \in ToSet(inbox) /\ inbox \in Seq(Frames)
    BY DEF TypeOK
  <2>2. frame \in Frames
    BY <2>1, ToSetElement
  <2>3. frame.job \in Jobs
    BY <2>2 DEF Frames
  <2>4. frame.source = Dest(frame.job)
    BY <2>1 DEF AnswerInv
  <2>5. txDest = Dest(job)
    BY <1>1, <1>4, <1>7 DEF AnswerInv
  <2> QED BY <2>3, <2>4, <2>5 DEF FromExpected
<1>9. reply \in [Transmits -> Seq(Jobs \X Jobs)]
  BY DEF TypeOK
<1>10. reply' \in [Transmits -> Seq(Jobs \X Jobs)]
  <2>1. CASE reply' = reply
    BY <1>9, <2>1
  <2>2. CASE frame.job \in Jobs /\ reply' = [reply EXCEPT ![job[2]] = Append(@, <<frame.job, job>>)]
    <3> DEFINE p == <<frame.job, job>>
    <3>1. p \in Jobs \X Jobs
      BY <2>2
    <3> HIDE DEF p
    <3>2. Append(reply[job[2]], p) \in Seq(Jobs \X Jobs)
      BY <1>7, <1>9, <3>1
    <3>3. reply' = [reply EXCEPT ![job[2]] = Append(reply[job[2]], p)]
      BY <2>2 DEF p
    <3> QED BY <1>9, <3>2, <3>3
  <2> QED BY <1>8, <2>1, <2>2
<1>11. ReplyFromItsServer'
  <2>1. CASE reply' = reply
    BY <2>1 DEF ReplyFromItsServer
  <2>2. CASE Dest(frame.job) = Dest(job) /\ frame.job \in Jobs
             /\ reply' = [reply EXCEPT ![job[2]] = Append(@, <<frame.job, job>>)]
    <3> DEFINE p == <<frame.job, job>>
               s == reply[job[2]]
    <3>1. p \in Jobs \X Jobs /\ p[1] = frame.job /\ p[2] = job
      BY <2>2
    <3> HIDE DEF p
    <3>2. s \in Seq(Jobs \X Jobs)
      BY <1>7, <1>9
    <3>3. reply' = [reply EXCEPT ![job[2]] = Append(s, p)]
      BY <2>2 DEF p
    <3>4. \A i \in DOMAIN s : Dest(s[i][1]) = Dest(s[i][2])
      BY <1>7 DEF ReplyFromItsServer
    <3>5. \A c \in Transmits : c # job[2] => reply'[c] = reply[c]
      BY <1>9, <3>3
    <3>6. reply'[job[2]] = Append(s, p)
      BY <1>7, <1>9, <3>3
    <3> HIDE DEF s
    <3>7. \A i \in DOMAIN Append(s, p) : i \in DOMAIN s \/ Append(s, p)[i] = p
      BY <3>1, <3>2
    <3>8. \A i \in DOMAIN s : Append(s, p)[i] = s[i]
      BY <3>1, <3>2
    <3>9. \A i \in DOMAIN Append(s, p) : Dest(Append(s, p)[i][1]) = Dest(Append(s, p)[i][2])
      BY <2>2, <3>1, <3>4, <3>7, <3>8
    <3> QED BY SMTT(30), <3>5, <3>6, <3>9 DEF ReplyFromItsServer
  <2> QED BY <1>8, <2>1, <2>2
<1>12. TypeOK'
  <2>1. fs' \in {Idle} \cup {Writing(j) : j \in Jobs} \cup {Reading(j) : j \in Jobs}
    BY <1>1, <1>6 DEF StreamStep
  <2> QED BY <1>2, <1>6, <1>10, <2>1 DEF TypeOK, StreamStep
<1>13. LockInv' /\ SequenceInv' /\ ContextInv' /\ NonceInv' /\ TimerInv'
  BY <1>1, <1>2, <1>6, StreamFrame
<1>14. AnswerInv'
  <2>1. fs' = Idle \/ fs'.job = fs.job
    BY <1>1, <1>6, Operations DEF StreamStep
  <2> QED BY <1>1, <2>1 DEF AnswerInv
<1> QED BY <1>11, <1>12, <1>13, <1>14

-----------------------------------------------------------------------------
\* What an answer does to the context it is for: only the data, the count
\* and, if the read goes on, the room.
SameContext(c, d) == d.canceled = c.canceled /\ d.user = c.user /\ d.size = c.size
SameContexts(cs, ds) ==
  /\ ds \in Seq(Contexts) /\ Len(ds) = Len(cs)
  /\ \A m \in 1..Len(cs) : SameContext(cs[m], ds[m])

\* The bytes that are copied are bytes.
LEMMA FilledType ==
  ASSUME NEW c \in Contexts, NEW b \in Seq(Nat)
  PROVE  Copied(c, b) \in Seq(Nat) /\ Filled(c, b) \in Seq(Nat) /\ Len(b) \in Nat
<1>1. c.room \in Nat /\ c.data \in Seq(Nat)
  BY DEF Contexts
<1> DEFINE k == IF Len(b) < c.room THEN Len(b) ELSE c.room
<1>2. k \in 0..Len(b) /\ Len(b) \in Nat
  BY <1>1
<1> HIDE DEF k
<1>3. SubSeq(b, 1, k) \in Seq(Nat)
  BY <1>2, SubSeqSplit
<1>4. Copied(c, b) \in Seq(Nat)
  BY <1>3 DEF Copied, k
<1> QED BY <1>1, <1>2, <1>4, ConcatElements DEF Filled

\* The contexts after an answer, and when the read goes on.
Got(cs, n, d, k) == [cs EXCEPT ![n].data = d, ![n].bytes = k]
MovedOn(cs, n, k) == [cs EXCEPT ![n].room = k]

\* The context after an answer...
LEMMA GotContext ==
  ASSUME NEW cs \in Seq(Contexts), NEW n \in 1..Len(cs), NEW d \in Seq(Nat), NEW k \in Nat
  PROVE  /\ SameContexts(cs, Got(cs, n, d, k))
         /\ Got(cs, n, d, k)[n].data = d /\ Got(cs, n, d, k)[n].bytes = k
         /\ Got(cs, n, d, k)[n].room = cs[n].room
         /\ \A m \in 1..Len(cs) : m # n => Got(cs, n, d, k)[m] = cs[m]
<1> DEFINE got == Got(cs, n, d, k)
           c == [cs[n] EXCEPT !.data = d, !.bytes = k]
<1>1. cs[n] \in Contexts
  OBVIOUS
<1>2. /\ c \in Contexts /\ c.data = d /\ c.bytes = k /\ c.room = cs[n].room
      /\ c.canceled = cs[n].canceled /\ c.user = cs[n].user /\ c.size = cs[n].size
  BY <1>1 DEF Contexts
<1>3. got = [cs EXCEPT ![n] = c]
  BY DEF Got
<1> HIDE DEF c, got
<1>4. /\ got \in Seq(Contexts) /\ Len(got) = Len(cs) /\ got[n] = c
      /\ \A m \in 1..Len(cs) : m # n => got[m] = cs[m]
  BY <1>2, <1>3, ReplaceContext
<1>5. SameContexts(cs, got)
  BY <1>2, <1>4 DEF SameContexts, SameContext
<1> QED BY <1>2, <1>4, <1>5 DEF got

\* ...and if the read goes on.
LEMMA GotRoom ==
  ASSUME NEW cs \in Seq(Contexts), NEW n \in 1..Len(cs), NEW k \in Nat \ {0}
  PROVE  /\ SameContexts(cs, MovedOn(cs, n, k)) /\ MovedOn(cs, n, k)[n].data = cs[n].data
         /\ MovedOn(cs, n, k)[n].bytes = cs[n].bytes /\ MovedOn(cs, n, k)[n].room = k
         /\ \A m \in 1..Len(cs) : m # n => MovedOn(cs, n, k)[m] = cs[m]
<1> DEFINE got == MovedOn(cs, n, k)
           c == [cs[n] EXCEPT !.room = k]
<1>1. cs[n] \in Contexts
  OBVIOUS
<1>2. /\ c \in Contexts /\ c.data = cs[n].data /\ c.bytes = cs[n].bytes /\ c.room = k
      /\ c.canceled = cs[n].canceled /\ c.user = cs[n].user /\ c.size = cs[n].size
  BY <1>1 DEF Contexts
<1>3. got = [cs EXCEPT ![n] = c]
  BY DEF MovedOn
<1> HIDE DEF c, got
<1>4. /\ got \in Seq(Contexts) /\ Len(got) = Len(cs) /\ got[n] = c
      /\ \A m \in 1..Len(cs) : m # n => got[m] = cs[m]
  BY <1>2, <1>3, ReplaceContext
<1>5. SameContexts(cs, got)
  BY <1>2, <1>4 DEF SameContexts, SameContext
<1> QED BY <1>2, <1>4, <1>5 DEF got

\* MaybeRetry: the poll is over, whether or not its context waits for the
\* timer now.
LEMMA MaybeRetryStep ==
  ASSUME IInv, fs.op = "read", waiting[1] = "read", NEW n \in 1..Len(ctx), waiting = ReadJob(n),
         NEW cs, SameContexts(ctx, cs), MaybeRetry(n, cs, posted), fs' = Idle,
         inbox' \in Seq(Frames), ToSet(inbox') \subseteq ToSet(inbox),
         UNCHANGED <<waiting, queued, removed, order, txDest, readNonce,
                     writeNonce, writeHandler, outcome, reply, bus, sent, cancels, failed>>
  PROVE  IInv'
<1> USE DEF IInv
<1> DEFINE c == cs[n]
<1>1. /\ Busy /\ waiting \in Jobs /\ fs.job = waiting /\ fs # Idle /\ waiting \notin ToSet(finished)
      /\ CallsOf(posted) = <<>> /\ WrapsOf(posted) = <<>>
  BY BusyWith DEF LockInv
<1>2. c \in Contexts /\ Len(cs) = Len(ctx) /\ c.canceled = ctx[n].canceled
  BY DEF SameContexts, SameContext
<1>3. c.user \in Users /\ c.bytes \in Nat /\ c.data \in Seq(Nat)
  BY <1>2 DEF Contexts, Users
<1> DEFINE ps == IF c.canceled THEN Append(posted, UserCall(c.user, "aborted"))
                 ELSE IF c.bytes > 0 THEN Append(posted, UserCall(c.user, "ok")) ELSE posted
<1>4. /\ ctx' = cs /\ Finish(waiting, ps)
      /\ delivered' = (IF c.canceled THEN delivered ELSE delivered \o c.data)
      /\ readContext' = (IF ~c.canceled /\ c.bytes > 0 THEN None ELSE readContext)
      /\ pollTimer' = (IF ~c.canceled /\ c.bytes = 0 THEN n ELSE pollTimer)
  BY DEF MaybeRetry
<1>5. posted \in Seq(PostedCalls) /\ "ok" \in Codes /\ "aborted" \in Codes /\ Len(ctx) \in Nat
  BY Types DEF Codes
<1>6. /\ ps \in Seq(PostedCalls) /\ TimersOf(ps) = TimersOf(posted)
      /\ CallsOf(ps) = CallsOf(posted) /\ WrapsOf(ps) = WrapsOf(posted)
  BY <1>3, <1>5, PostUser
<1> HIDE DEF ps
<1>7. outcome' \in [Users -> Seq(Codes)] /\ failed' # "overlap"
      /\ failed' \in {"no", "overlap", "throw", "empty_handler"}
  BY DEF TypeOK, LockInv
<1>8. StreamStep /\ ToSet(finished') = ToSet(finished) \cup {ReadJob(n)}
  BY <1>1, <1>4, <1>6, <1>7, StreamFinishes
<1>9. ~c.canceled => readContext = n
  BY <1>1, <1>2 DEF ContextInv
<1> HIDE DEF c
<1>10. n \in 1..MaxPolls
  BY <1>5, BoundsAssumption DEF TypeOK
<1>11. n # None
  BY <1>5, NoneAssumption
<1>12. TypeOK'
  <2>1. delivered' \in Seq(Nat)
    BY <1>3, <1>4, ConcatElements DEF TypeOK
  <2>2. ctx' \in Seq(Contexts) /\ Len(ctx') = Len(ctx)
    BY <1>4 DEF SameContexts
  <2>3. readContext' \in (1..Len(ctx')) \cup {None} /\ pollTimer' \in (1..Len(ctx')) \cup {None}
    BY <1>4, <2>2 DEF TypeOK
  <2>4. fs' \in {Idle} \cup {Writing(j) : j \in Jobs} \cup {Reading(j) : j \in Jobs}
    OBVIOUS
  <2> QED BY <1>8, <2>1, <2>2, <2>3, <2>4 DEF TypeOK, StreamStep
<1>13. LockInv'
  BY <1>8 DEF LockInv, StreamStep
<1>14. SequenceInv'
  BY <1>4, <1>8, SequenceFrame DEF SameContexts
<1>15. ContextInv'
  <2> SUFFICES ASSUME NEW m \in 1..Len(ctx), m # readContext', ~ctx'[m].canceled
               PROVE  ReadJob(m) \in ToSet(finished')
    BY <1>4 DEF ContextInv, SameContexts
  <2>1. ~ctx[m].canceled
    BY <1>4 DEF SameContexts, SameContext
  <2>2. CASE m = readContext
    <3>1. ~c.canceled /\ m = n
      BY <1>4, <1>9, <2>2
    <3> QED BY <1>8, <3>1
  <2>3. CASE m # readContext
    BY <1>8, <2>1, <2>3 DEF ContextInv
  <2> QED BY <2>2, <2>3
<1>16. NonceInv'
  <2>1. readNonce # None => readContext' # None /\ readNonce = ReadJob(readContext')
    <3>1. CASE ~c.canceled /\ c.bytes > 0
      <4>1. readContext = n
        BY <1>9, <3>1
      <4>2. readNonce = None
        BY <1>1, <4>1 DEF NonceInv
      <4> QED BY <4>2
    <3>2. CASE ~(~c.canceled /\ c.bytes > 0)
      BY <1>4, <3>2 DEF NonceInv
    <3> QED BY <3>1, <3>2
  <2> QED BY <2>1 DEF NonceInv
<1>17. TimerInv'
  <2>1. TimerCall(n) \notin ToSet(Timers)
    BY <1>1, <1>10 DEF TimerInv, Waits
  <2>2. ASSUME NEW m \in 1..MaxPolls, TimerCall(m) \in ToSet(Timers) PROVE Waits(m)'
    <3>1. Waits(m) /\ m # n
      BY <2>1, <2>2 DEF TimerInv
    <3>2. m \in 1..Len(ctx)
      BY <1>5, <3>1, BoundsAssumption DEF Waits
    <3>3. m <= Len(ctx') /\ ctx'[m].canceled = ctx[m].canceled
      BY <1>4, <3>1, <3>2 DEF SameContexts, SameContext, Waits
    <3>4. ReadJob(m) \in ToSet(finished')
      BY <1>8, <3>1 DEF Waits
    <3>5. ctx[m].canceled \/ m = readContext'
      BY <1>4, <1>9, <3>1 DEF Waits
    <3> QED BY <3>3, <3>4, <3>5 DEF Waits
  <2>3. TimersOf(posted') = TimersOf(posted)
    BY <1>8 DEF StreamStep
  <2>4. CASE ~c.canceled /\ c.bytes = 0
    <3> DEFINE k == TimersOf(posted)
               x == TimerCall(n)
    <3>1. k \in Seq(PostedCalls) /\ x \in PostedCalls
      BY <1>5, <1>10, KeepType, CallsInKinds, CallKinds DEF TimersOf
    <3>2. WakePoll \in Seq(PostedCalls)
      BY <1>5, PostWakePoll
    <3>3. Timers' = k \o <<x>>
      BY <1>4, <1>11, <2>3, <2>4 DEF Timers, WakePoll
    <3>4. Timers = k \o WakePoll
      BY DEF Timers
    <3> HIDE DEF k, x
    <3>5. ToSet(k) \subseteq ToSet(Timers) /\ Distinct(k)
      BY <3>1, <3>2, <3>4, ToSetConcat, DistinctParts DEF TimerInv
    <3>6. Timers' = Append(k, x)
      BY <3>1, <3>3
    <3>7. ToSet(Append(k, x)) = ToSet(k) \cup {x} /\ Distinct(Append(k, x))
      BY <2>1, <3>1, <3>5, ToSetAppend, AppendDistinct DEF x
    <3>8. Waits(n)'
      <4>1. readContext' = n /\ ctx' = cs
        BY <1>4, <1>9, <2>4
      <4> QED BY <1>8, <4>1, <1>5 DEF Waits, SameContexts
    <3>9. ASSUME NEW m \in 1..MaxPolls, TimerCall(m) \in ToSet(Timers') PROVE Waits(m)'
      <4>1. TimerCall(m) = x => m = n
        BY CallParts DEF x
      <4> QED BY <2>2, <3>5, <3>6, <3>7, <3>8, <3>9, <4>1
    <3> QED BY <3>6, <3>7, <3>9 DEF TimerInv
  <2>5. CASE ~(~c.canceled /\ c.bytes = 0)
    <3>1. Timers' = Timers
      BY <1>4, <2>3, <2>5 DEF Timers, WakePoll
    <3> QED BY <2>2, <3>1 DEF TimerInv
  <2> QED BY <2>4, <2>5
<1>18. AnswerInv' /\ ReplyFromItsServer'
  BY DEF AnswerInv, ReplyFromItsServer
<1> QED BY <1>12, <1>13, <1>14, <1>15, <1>16, <1>17, <1>18

\* An answer adds its bytes to the buffer of a context that is not canceled.
TookAnswer(c, d, frame) ==
  \/ d.data = c.data /\ d.bytes = c.bytes
  \/ /\ ~c.canceled /\ frame # None
     /\ d.data = Filled(c, frame.bytes) /\ d.bytes = c.bytes + Len(frame.bytes)

\* The read goes on only when the answer did not fill the buffers.
ReadsOn(c, d, frame) ==
  /\ frame \in Frames /\ frame # None /\ Len(frame.bytes) < c.room
  /\ d.room = c.room - Len(frame.bytes)
  /\ d.data = Filled(c, frame.bytes) /\ d.bytes = c.bytes + Len(frame.bytes)

\* What becomes of the context of the poll in progress: it is done with, with
\* or without an answer, or it takes an answer and reads on.
LEMMA ReadDoneForReadCases ==
  ASSUME TypeOK, NEW n \in 1..Len(ctx), waiting = ReadJob(n), waiting[1] = "read",
         NEW frame, frame = None \/ frame \in Frames, ReadDoneForRead(waiting, frame)
  PROVE  /\ reply' = reply
         /\ \E cs :
              /\ SameContexts(ctx, cs)
              /\ ctx[n].canceled => cs = ctx
              /\ \A m \in 1..Len(ctx) : m # n => cs[m] = ctx[m]
              /\ TookAnswer(ctx[n], cs[n], frame)
              /\ \/ MaybeRetry(n, cs, posted) /\ fs' = Idle
                 \/ /\ ctx' = cs /\ fs' = Reading(waiting) /\ ReadsOn(ctx[n], cs[n], frame)
                    /\ UNCHANGED <<posted, finished, readContext, pollTimer, delivered>>
<1> DEFINE c == ctx[n]
           b == frame.bytes
           got == [ctx EXCEPT ![n].data = Filled(c, b), ![n].bytes = c.bytes + Len(b)]
           more == [got EXCEPT ![n].room = c.room - Len(b)]
<1>1. waiting[3] = n
  BY ReadJobParts
<1>2. ctx \in Seq(Contexts) /\ Len(ctx) \in Nat /\ c \in Contexts
  BY Types
<1>3. /\ reply' = reply
      /\ IF ~Usable(c, frame)
         THEN MaybeRetry(n, ctx, posted) /\ fs' = Idle
         ELSE \/ MaybeRetry(n, got, posted) /\ fs' = Idle
              \/ /\ RoomForMore(c, b)
                 /\ ctx' = more
                 /\ fs' = Reading(waiting)
                 /\ UNCHANGED <<posted, finished, readContext, pollTimer, delivered>>
  BY <1>1 DEF ReadDoneForRead
<1>4. CASE ~Usable(c, frame)
  <2>1. SameContexts(ctx, ctx) /\ TookAnswer(ctx[n], ctx[n], frame)
    BY <1>2 DEF SameContexts, SameContext, TookAnswer
  <2> QED BY <1>3, <1>4, <2>1
<1>5. CASE Usable(c, frame)
  <2>1. ~c.canceled /\ frame \in Frames /\ frame # None
    BY <1>5 DEF Usable
  <2>2. b \in Seq(Nat)
    BY <2>1 DEF Frames
  <2>3. c.bytes \in Nat /\ c.room \in Nat \ {0}
    BY <1>2 DEF Contexts
  <2>4. Filled(c, b) \in Seq(Nat) /\ Len(b) \in Nat
    BY <1>2, <2>2, FilledType
  <2>5. c.bytes + Len(b) \in Nat
    BY <2>3, <2>4
  <2>6. /\ SameContexts(ctx, got) /\ \A m \in 1..Len(ctx) : m # n => got[m] = ctx[m]
        /\ got[n].data = Filled(c, b) /\ got[n].bytes = c.bytes + Len(b)
        /\ got[n].room = c.room
    <3> DEFINE d == Filled(c, b)
               k == c.bytes + Len(b)
    <3>1. d \in Seq(Nat) /\ k \in Nat /\ got = Got(ctx, n, d, k)
      BY <2>4, <2>5 DEF Got
    <3> HIDE DEF c, b, d, k, got, more
    <3>2. ctx \in Seq(Contexts) /\ d \in Seq(Nat) /\ k \in Nat
      BY <1>2, <3>1
    <3>3. /\ SameContexts(ctx, Got(ctx, n, d, k))
          /\ Got(ctx, n, d, k)[n].data = d /\ Got(ctx, n, d, k)[n].bytes = k
          /\ Got(ctx, n, d, k)[n].room = ctx[n].room
          /\ \A m \in 1..Len(ctx) : m # n => Got(ctx, n, d, k)[m] = ctx[m]
      BY <3>2, GotContext
    <3> QED BY <3>1, <3>3 DEF c, d, k
  <2>7. CASE MaybeRetry(n, got, posted) /\ fs' = Idle
    <3> HIDE DEF got
    <3>1. TookAnswer(ctx[n], got[n], frame)
      BY <2>1, <2>6 DEF TookAnswer
    <3> QED BY <1>3, <2>1, <2>6, <2>7, <3>1
  <2>8. CASE /\ RoomForMore(c, b) /\ ctx' = more /\ fs' = Reading(waiting)
             /\ UNCHANGED <<posted, finished, readContext, pollTimer, delivered>>
    <3>1. c.room - Len(b) \in Nat \ {0}
      BY <2>3, <2>4, <2>8 DEF RoomForMore
    <3> HIDE DEF got
    <3>2. got \in Seq(Contexts) /\ Len(got) = Len(ctx)
      BY <2>6 DEF SameContexts
    <3>3. /\ SameContexts(got, more) /\ \A m \in 1..Len(got) : m # n => more[m] = got[m]
          /\ more[n].data = got[n].data /\ more[n].bytes = got[n].bytes
          /\ more[n].room = c.room - Len(b)
      <4> DEFINE r == c.room - Len(b)
      <4>1. more = MovedOn(got, n, r) /\ r \in Nat \ {0}
        BY <3>1 DEF MovedOn
      <4> HIDE DEF c, b, more, r
      <4>2. /\ SameContexts(got, MovedOn(got, n, r))
            /\ \A m \in 1..Len(got) : m # n => MovedOn(got, n, r)[m] = got[m]
            /\ MovedOn(got, n, r)[n].data = got[n].data /\ MovedOn(got, n, r)[n].bytes = got[n].bytes
            /\ MovedOn(got, n, r)[n].room = r
        BY <3>2, <4>1, GotRoom
      <4> QED BY <4>1, <4>2 DEF r
    <3> HIDE DEF more
    <3>4. SameContexts(ctx, more)
      BY <2>6, <3>3 DEF SameContexts, SameContext
    <3>5. \A m \in 1..Len(ctx) : m # n => more[m] = ctx[m]
      BY <2>6, <3>2, <3>3
    <3>6. TookAnswer(ctx[n], more[n], frame)
      BY <2>1, <2>6, <3>3 DEF TookAnswer
    <3>7. ReadsOn(ctx[n], more[n], frame)
      BY <2>1, <2>6, <2>8, <3>3 DEF ReadsOn, RoomForMore
    <3> QED BY <1>3, <2>1, <2>8, <3>4, <3>5, <3>6, <3>7
  <2> QED BY <1>3, <1>5, <2>7, <2>8
<1> QED BY <1>4, <1>5

\* An answer, or a timeout, for a poll of the tunnel.
LEMMA ReadDoneForReadStep ==
  ASSUME IInv, fs.op = "read", NEW frame, frame = None \/ frame \in Frames,
         ReadDoneForRead(fs.job, frame), ToSet(inbox') \subseteq ToSet(inbox),
         inbox' \in Seq(Frames),
         UNCHANGED <<waiting, queued, removed, order, txDest, readNonce,
                     writeNonce, writeHandler, outcome, bus, sent, cancels, failed>>
  PROVE  IInv'
<1> USE DEF IInv
<1>1. Busy /\ waiting \in Jobs /\ fs.job = waiting /\ fs # Idle /\ fs = Reading(waiting)
  BY BusyWith DEF LockInv
<1>2. waiting[1] = "read" /\ ReadDoneForRead(waiting, frame)
  BY <1>1 DEF ReadDoneForRead
<1>3. waiting[3] \in 1..MaxPolls /\ waiting = ReadJob(waiting[3])
  BY <1>1, <1>2, JobKinds, ReadJobParts
<1>4. waiting[3] <= Len(ctx)
  <2>1. waiting \in ToSet(order)
    BY <1>1, Types, TurnParts DEF LockInv
  <2> QED BY <1>2, <2>1 DEF SequenceInv, InSequence
<1>5. PICK n \in 1..Len(ctx) : waiting = ReadJob(n)
  BY <1>3, <1>4, Types, BoundsAssumption
<1>6. reply' = reply
  BY <1>2, <1>5, ReadDoneForReadCases
<1>7. PICK cs : /\ SameContexts(ctx, cs)
                /\ \/ MaybeRetry(n, cs, posted) /\ fs' = Idle
                   \/ /\ ctx' = cs /\ fs' = Reading(waiting)
                      /\ UNCHANGED <<posted, finished, readContext, pollTimer, delivered>>
  BY <1>2, <1>5, ReadDoneForReadCases
<1>8. CASE MaybeRetry(n, cs, posted) /\ fs' = Idle
  BY <1>2, <1>5, <1>6, <1>7, <1>8, MaybeRetryStep
<1>9. CASE /\ ctx' = cs /\ fs' = Reading(waiting)
           /\ UNCHANGED <<posted, finished, readContext, pollTimer, delivered>>
  <2>1. fs' = fs
    BY <1>1, <1>9
  <2>2. ctx' \in Seq(Contexts) /\ Len(ctx') = Len(ctx)
        /\ \A m \in 1..Len(ctx) : ctx'[m].canceled = ctx[m].canceled
    BY <1>7, <1>9 DEF SameContexts, SameContext
  <2>3. TypeOK'
    BY <1>6, <1>9, <2>1, <2>2 DEF TypeOK
  <2>4. LockInv'
    BY <1>9, <2>1, PhaseFrame DEF LockInv
  <2>5. SequenceInv'
    BY <1>9, <2>2, SequenceFrame
  <2>6. ContextInv' /\ NonceInv'
    BY <1>9, <2>1, <2>2 DEF ContextInv, NonceInv
  <2>7. Timers' = Timers
    BY <1>9 DEF Timers, WakePoll
  <2>8. TimerInv'
    <3> SUFFICES ASSUME NEW m \in 1..MaxPolls, Waits(m) PROVE Waits(m)'
      BY <2>7 DEF TimerInv
    <3>1. m \in 1..Len(ctx)
      BY Types, BoundsAssumption DEF Waits
    <3> QED BY <1>9, <2>2, <3>1 DEF Waits
  <2>9. AnswerInv' /\ ReplyFromItsServer'
    BY <1>6, <2>1 DEF AnswerInv, ReplyFromItsServer
  <2> QED BY <2>3, <2>4, <2>5, <2>6, <2>8, <2>9
<1> QED BY <1>7, <1>8, <1>9

\* A read of the frame stream ends.
LEMMA ReadDoneStep ==
  ASSUME IInv, ReadDone
  PROVE  IInv'
<1>1. fs.op = "read" /\ UNCHANGED <<waiting, queued, removed, order, txDest, readNonce,
                        writeNonce, writeHandler, outcome, bus, sent, cancels, failed>>
  BY DEF ReadDone
<1>2. inbox \in Seq(Frames)
  BY DEF IInv, TypeOK
<1>3. CASE /\ ReadDoneForRegister(fs.job, None) \/ ReadDoneForRead(fs.job, None)
           /\ inbox' = inbox
  BY <1>1, <1>2, <1>3, ReadDoneForRegisterStep, ReadDoneForReadStep
<1>4. CASE /\ inbox # <<>> /\ inbox' = Tail(inbox)
           /\ \/ ReadDoneForRegister(fs.job, Head(inbox))
              \/ ReadDoneForRead(fs.job, Head(inbox))
  <2>1. Head(inbox) \in Frames /\ inbox' \in Seq(Frames)
    BY <1>2, <1>4, ConcatHeadTail
  <2>2. ToSet(inbox) = {Head(inbox)} \cup ToSet(inbox')
    BY <1>2, <1>4, ToSetHeadTail
  <2>3. PICK frame \in Frames : frame = Head(inbox)
    BY <2>1
  <2>4. frame \in ToSet(inbox) /\ ToSet(inbox') \subseteq ToSet(inbox)
    BY <2>2, <2>3
  <2>5. ReadDoneForRegister(fs.job, frame) \/ ReadDoneForRead(fs.job, frame)
    BY <1>4, <2>3
  <2> QED BY <1>1, <2>1, <2>4, <2>5, ReadDoneForRegisterStep, ReadDoneForReadStep
<1> QED BY <1>3, <1>4 DEF ReadDone

-----------------------------------------------------------------------------
\* The client starts idle.
LEMMA InitIInv == Init => IInv
<1> SUFFICES ASSUME Init PROVE IInv
  OBVIOUS
<1> USE DEF Init
<1>1. \A S : <<>> \in Seq(S)
  BY EmptyIsSeq
<1>2. Len(ctx) = 0 /\ 0 \in Nat /\ 0 <= MaxPolls
  BY BoundsAssumption
<1>3. reply \in [Transmits -> Seq(Jobs \X Jobs)] /\ outcome \in [Users -> Seq(Codes)]
  BY <1>1
<1>4. TypeOK
  BY <1>1, <1>2, <1>3 DEF TypeOK
<1>5. ToSet(order) = {} /\ ToSet(inbox) = {} /\ Distinct(<<>>) /\ <<>> \o <<>> = <<>>
  BY <1>1, ToSetEmpty, ConcatEmpty DEF Distinct
<1>6. CallsOf(posted) = <<>> /\ WrapsOf(posted) = <<>> /\ TimersOf(posted) = <<>>
  BY KeepEmpty DEF CallsOf, WrapsOf, TimersOf
<1>7. LockInv
  <2>1. Free
    BY <1>6 DEF Free
  <2>2. HeldBy(waiting, finished) = <<>>
    BY DEF HeldBy
  <2> QED BY <1>5, <2>1, <2>2 DEF LockInv, Phase, Turn
<1>8. SequenceInv /\ ContextInv /\ NonceInv
  BY <1>2, <1>5 DEF SequenceInv, ContextInv, NonceInv
<1>9. Timers = <<>>
  BY <1>5, <1>6 DEF Timers, WakePoll
<1>10. TimerInv
  BY <1>5, <1>9, ToSetEmpty DEF TimerInv
<1>11. AnswerInv
  BY <1>5 DEF AnswerInv
<1>12. ReplyFromItsServer
  BY DEF ReplyFromItsServer
<1> QED BY <1>4, <1>7, <1>8, <1>10, <1>11, <1>12 DEF IInv

\* Nothing happens.
LEMMA StutterStep ==
  ASSUME IInv, UNCHANGED vars
  PROVE  IInv'
<1> USE DEF IInv, vars, lockVars
<1>1. outcome' \in [Users -> Seq(Codes)] /\ posted' \in Seq(PostedCalls)
      /\ failed' # "overlap" /\ failed' \in {"no", "overlap", "throw", "empty_handler"}
  BY DEF TypeOK, LockInv
<1> QED BY <1>1, UserFrame

\* IInv holds in every state of the client.
THEOREM InductiveInvariant == Spec => []IInv
<1>1. IInv /\ [Next]_vars => IInv'
  <2> SUFFICES ASSUME IInv, [Next]_vars PROVE IInv'
    OBVIOUS
  <2>1. CASE UNCHANGED vars
    BY <2>1, StutterStep
  <2>2. CASE Next
    <3>1. failed = "no"
      BY <2>2 DEF Next
    <3>2. CASE \E c \in Transmits : AsyncTransmit(c)
      BY <3>2, AsyncTransmitStep
    <3>3. CASE \E u \in Reads : TunnelRead(u)
      BY <3>3, TunnelReadStep
    <3>4. CASE \E u \in Writes : TunnelWrite(u)
      BY <3>4, TunnelWriteStep
    <3>5. CASE Cancel
      BY <3>5, CancelStep
    <3>6. CASE PollTimerExpires
      BY <3>6, PollTimerExpiresStep
    <3>7. CASE Executor
      BY <3>7, ItemDoneStep, RunWrapStep, RunUserStep, RunTimerStep, InvokeCanceledReadStep,
         InvokeJobStep DEF Executor
    <3>8. CASE FrameStream
      BY <3>1, <3>8, WriteDoneStep, ReadDoneStep DEF FrameStream
    <3>9. CASE ServerAnswers
      BY <3>9, ServerAnswersStep
    <3>10. CASE RequestLost
      BY <3>10, RequestLostStep
    <3> QED BY <2>2, <3>2, <3>3, <3>4, <3>5, <3>6, <3>7, <3>8, <3>9, <3>10 DEF Next
  <2> QED BY <2>1, <2>2
<1> QED BY <1>1, InitIInv, PTL DEF Spec

\* Every variable keeps its type: every use of a context, a job or a callback
\* finds one.
THEOREM TypeCorrect == Spec => []TypeOK
<1>1. IInv => TypeOK
  BY DEF IInv
<1> QED BY <1>1, InductiveInvariant, PTL

\* The jobs of stream_asio_client.cc use ExclusiveCommand as it expects, and
\* the frame stream, tx_frame_ and rx_frame_ by one job at a time.
THEOREM LockIsRespected == Spec => []LockRespected
<1>1. IInv => LockRespected
  <2> SUFFICES ASSUME IInv PROVE LockRespected
    OBVIOUS
  <2> USE DEF IInv, LockInv
  <2> DEFINE calls == Keep(posted, LockCalls)
             quiet == \A i \in DOMAIN posted : posted[i].op # "invoke"
             running == IF waiting # None /\ waiting \notin ToSet(finished) /\ quiet
                        THEN {waiting} ELSE {}
  <2>1. posted \in Seq(PostedCalls) /\ DOMAIN posted = 1..Len(posted)
    BY Types
  <2>2. ToSet(calls) = ToSet(posted) \cap LockCalls
    BY <2>1, KeepToSet
  <2>3. calls = CallsOf(posted)
    BY DEF CallsOf
  <2>4. waiting # None => waiting \in Jobs
    BY DEF TypeOK
  <2>5. waiting \in Jobs => waiting # None
    BY NoneAssumption
  <2>6. CallsOf(posted) = <<>> => quiet
    <3> SUFFICES ASSUME CallsOf(posted) = <<>>, NEW i \in DOMAIN posted PROVE posted[i].op # "invoke"
      OBVIOUS
    <3>1. ToSet(posted) \cap LockCalls = {}
      BY <2>2, <2>3, ToSetEmpty
    <3>2. posted[i] \in ToSet(posted) /\ posted[i] \in PostedCalls
      BY <2>1, ToSetElement
    <3> QED BY <3>1, <3>2, CallKinds
  <2>7. Invoking => ~quiet
    <3> SUFFICES ASSUME Invoking PROVE ~quiet
      OBVIOUS
    <3>1. Lock!InvokeCall(waiting) \in PostedCalls
      BY CallsInKinds, CallKinds DEF Invoking
    <3>2. ToSet(<<Lock!InvokeCall(waiting)>>) = {Lock!InvokeCall(waiting)}
      BY <3>1, SingletonSeq
    <3>3. Lock!InvokeCall(waiting) \in ToSet(posted)
      BY <2>2, <2>3, <3>2 DEF Invoking
    <3>4. \E i \in 1..Len(posted) : posted[i] = Lock!InvokeCall(waiting)
      BY <2>1, <3>3, ToSetElement
    <3> QED BY <2>1, <3>4, CallParts
  <2>8. \/ waiting = None /\ Len(calls) = 0 /\ running = {} /\ queued = <<>>
        \/ waiting # None /\ Len(calls) = 1 /\ running = {}
        \/ waiting # None /\ Len(calls) = 0 /\ running = {waiting}
    <3> HIDE DEF calls, quiet
    <3>1. Len(<<>>) = 0 /\ (\A x : Len(<<x>>) = 1)
      OBVIOUS
    <3>2. CASE Free
      BY <2>3, <3>1, <3>2 DEF Free
    <3>3. CASE Invoking
      BY <2>3, <2>5, <2>7, <3>1, <3>3 DEF Invoking
    <3>4. CASE Busy \/ Stuck
      BY <2>3, <2>5, <2>6, <3>1, <3>4 DEF Busy, Stuck
    <3>5. CASE Wrapping
      BY <2>3, <2>5, <2>6, <3>1, <3>5, RegisterJobParts DEF Wrapping
    <3>6. CASE Releasing
      BY <2>3, <2>5, <3>1, <3>6 DEF Releasing
    <3> QED BY <3>2, <3>3, <3>4, <3>5, <3>6 DEF Phase
  <2>9. Lock!OneOutstanding
    BY DEF Lock!OneOutstanding
  <2>10. Len(calls) + Cardinality(running) = (IF waiting = None THEN 0 ELSE 1)
    <3> HIDE DEF calls, running
    <3>1. Cardinality({}) = 0 /\ Cardinality({waiting}) = 1
      BY FS_EmptySet, FS_Singleton
    <3> DEFINE l == Len(calls)
               k == Cardinality(running)
    <3>2. \/ waiting = None /\ l = 0 /\ k = 0
          \/ waiting # None /\ l = 1 /\ k = 0
          \/ waiting # None /\ l = 0 /\ k = 1
      BY <2>8, <3>1, Zenon
    <3> HIDE DEF l, k
    <3>3. l + k = (IF waiting = None THEN 0 ELSE 1)
      BY <3>2
    <3> QED BY <3>3 DEF l, k
  <2>11. Lock!OneToken
    <3>1. \A S : Lock!Cardinality(S) = Cardinality(S)
      BY DEF Lock!Cardinality, Cardinality
    <3> HIDE DEF calls
    <3>2. Lock!ToSet(finished) = ToSet(finished)
      BY DEF Lock!ToSet, ToSet
    <3> QED BY <2>9, <2>10, <3>1, <3>2 DEF Lock!OneToken, calls
  <2>12. Lock!NoIdleQueue
    BY <2>8 DEF Lock!NoIdleQueue
  <2>13. Lock!InOrder
    <3>1. Lock!ToSet(finished) = ToSet(finished)
      BY DEF Lock!ToSet, ToSet
    <3> QED BY <3>1 DEF Lock!InOrder, Turn, HeldBy
  <2>14. OneFrameOperation
    BY Operations DEF OneFrameOperation, Phase, Free, Invoking, Busy, Wrapping, Stuck, Releasing
  <2> QED BY <2>9, <2>11, <2>12, <2>13, <2>14 DEF LockRespected
<1> QED BY <1>1, InductiveInvariant, PTL

\* What a request gets in *reply comes from the server it was sent to, late
\* answers to earlier requests and to the tunnel notwithstanding.
THEOREM RepliesFromTheirServers == Spec => []ReplyFromItsServer
<1>1. IInv => ReplyFromItsServer
  BY DEF IInv
<1> QED BY <1>1, InductiveInvariant, PTL

\* The data of the contexts, which only an answer changes.
SameData == \A n \in 1..Len(ctx) : ctx[n].canceled => ctx'[n].data = ctx[n].data

\* An answer does not touch the buffer of a canceled context.
LEMMA ReadDoneData ==
  ASSUME IInv, ReadDone
  PROVE  SameData
<1> USE DEF IInv
<1>1. fs.op = "read"
  BY DEF ReadDone
<1>2. Busy /\ waiting \in Jobs /\ fs.job = waiting
  BY <1>1, BusyWith DEF LockInv
<1>3. CASE ctx' = ctx
  BY <1>3 DEF SameData
<1>4. ASSUME NEW frame, frame = None \/ frame \in Frames, ReadDoneForRead(waiting, frame)
      PROVE  SameData
  <2>1. waiting[1] = "read"
    BY <1>4 DEF ReadDoneForRead
  <2>2. waiting[3] \in 1..MaxPolls /\ waiting = ReadJob(waiting[3])
    BY <1>2, <2>1, JobKinds, ReadJobParts
  <2>3. waiting[3] <= Len(ctx)
    <3>1. waiting \in ToSet(order)
      BY <1>2, Types, TurnParts DEF LockInv
    <3> QED BY <2>1, <3>1 DEF SequenceInv, InSequence
  <2>4. PICK n \in 1..Len(ctx) : waiting = ReadJob(n)
    BY <2>2, <2>3, Types, BoundsAssumption
  <2>5. PICK cs : /\ ctx[n].canceled => cs = ctx
                  /\ \A m \in 1..Len(ctx) : m # n => cs[m] = ctx[m]
                  /\ ctx' = cs
    <3>1. \E cs :
              /\ SameContexts(ctx, cs)
              /\ ctx[n].canceled => cs = ctx
              /\ \A m \in 1..Len(ctx) : m # n => cs[m] = ctx[m]
              /\ TookAnswer(ctx[n], cs[n], frame)
              /\ \/ MaybeRetry(n, cs, posted) /\ fs' = Idle
                 \/ /\ ctx' = cs /\ fs' = Reading(waiting)
                    /\ UNCHANGED <<posted, finished, readContext, pollTimer, delivered>>
      BY <1>4, <2>1, <2>4, ReadDoneForReadCases
    <3> QED BY <3>1 DEF MaybeRetry
  <2> QED BY <2>5 DEF SameData
<1>5. ASSUME NEW frame, ReadDoneForRegister(waiting, frame) PROVE SameData
  BY <1>3, <1>5 DEF ReadDoneForRegister
<1>6. inbox # <<>> => Head(inbox) \in Frames
  BY ConcatHeadTail DEF TypeOK
<1> QED BY <1>2, <1>4, <1>5, <1>6 DEF ReadDone

\* Every other step leaves the data of the contexts as it is.
LEMMA OtherData ==
  ASSUME IInv, [Next]_vars, ~ReadDone
  PROVE  SameData
<1> USE DEF IInv
<1>0. ctx \in Seq(Contexts) /\ Len(ctx) \in Nat
  BY Types
<1>1. CASE ctx' = ctx
  BY <1>1 DEF SameData
<1>2. ASSUME NEW u, NEW room, NEW ps, ReadSome(u, room, ps) PROVE SameData
  <2>1. ctx' = Append(ctx, NewContext(u, room))
    BY <1>2 DEF ReadSome
  <2>2. \A n \in 1..Len(ctx) : ctx'[n] = ctx[n]
    BY <1>0, <2>1
  <2> QED BY <2>2 DEF SameData
<1>3. CASE Cancel
  <2>1. \A n \in 1..Len(ctx) : ctx'[n].data = ctx[n].data
    <3>1. CASE readContext = None
      BY <1>3, <3>1 DEF Cancel
    <3>2. CASE readContext # None
      <4>1. readContext \in 1..Len(ctx)
        BY <3>2 DEF TypeOK
      <4> DEFINE c == [ctx[readContext] EXCEPT !.canceled = TRUE]
      <4>2. ctx[readContext] \in Contexts
        BY <1>0, <4>1
      <4>3. c.data = ctx[readContext].data
        BY <4>2 DEF Contexts
      <4>4. ctx' = [ctx EXCEPT ![readContext] = c]
        BY <1>3, <3>2 DEF Cancel
      <4> HIDE DEF c
      <4> QED BY <1>0, <4>1, <4>3, <4>4
    <3> QED BY <3>1, <3>2
  <2> QED BY <2>1 DEF SameData
<1>4. CASE \E u \in Reads : TunnelRead(u)
  BY <1>1, <1>2, <1>4 DEF TunnelRead
<1>5. CASE RunTimer
  BY <1>1, <1>2, <1>5 DEF RunTimer
<1>6. CASE \/ UNCHANGED vars
           \/ \E c \in Transmits : AsyncTransmit(c)
           \/ \E u \in Writes : TunnelWrite(u)
           \/ PollTimerExpires \/ ItemDone \/ RunWrap \/ RunUser \/ InvokeCanceledRead
           \/ InvokeJob \/ WriteDone \/ ServerAnswers \/ RequestLost
  <2>1. ctx' = ctx
    BY <1>6 DEF vars, tunnelVars, AsyncTransmit, TunnelWrite, PollTimerExpires, ItemDone, RunWrap,
                RunUser, InvokeCanceledRead, InvokeJob, WriteDone, ServerAnswers, RequestLost
  <2> QED BY <1>1, <2>1
<1> QED BY <1>3, <1>4, <1>5, <1>6 DEF Next, Executor, FrameStream

\* test/stream_asio_client_test.cc:273: no new data gets into the buffer of a
\* read that was canceled.
THEOREM CanceledBuffersUntouched == Spec => CanceledBufferUntouched
<1>1. IInv /\ [Next]_vars =>
        [\A n \in DOMAIN ctx : ctx[n].canceled => ctx'[n].data = ctx[n].data]_vars
  <2> SUFFICES ASSUME IInv, [Next]_vars
               PROVE  \A n \in DOMAIN ctx : ctx[n].canceled => ctx'[n].data = ctx[n].data
    OBVIOUS
  <2>1. SameData
    BY ReadDoneData, OtherData
  <2>2. DOMAIN ctx = 1..Len(ctx)
    BY Types DEF IInv
  <2> QED BY <2>1, <2>2 DEF SameData
<1> QED BY <1>1, InductiveInvariant, PTL DEF Spec, CanceledBufferUntouched
=============================================================================
