---------------------- MODULE StreamAsioOutcomeProofs ----------------------
(***************************************************************************)
(* What the users of StreamAsioClient get, for any users, requests and     *)
(* bounds: each handler is called at most once, and the bytes of the       *)
(* tunnel come in order.  Both rest on the invariant IInv of               *)
(* StreamAsioClientProofs.                                                 *)
(***************************************************************************)
EXTENDS StreamAsioClientProofs

\* The calls of the handlers of u: those made and those posted.
CallsFor(u) == {UserCall(u, ec) : ec \in Codes}
Coming(u, ps) == Len(Keep(ps, CallsFor(u)))
Answers(u) == Len(outcome[u]) + Coming(u, posted)

\* Whether operation u was given to the lock.
Started(u) ==
  \/ u \in Transmits /\ {BlockJob(u), RegisterJob(u, 1)} \cap ToSet(order) # {}
  \/ u \in Reads /\ \E n \in 1..Len(ctx) : ctx[n].user = u
  \/ u \in Writes /\ WriteJob(u) \in ToSet(order) \cup removed

\* The context of a poll that is going to report or to poll again: its job
\* has not come to its end, or it waits for poll_timer_.
Polling(n) ==
  ReadJob(n) \in ToSet(queued) \/ (waiting = ReadJob(n) /\ (Invoking \/ Busy))
Live(n) == Polling(n) \/ TimerCall(n) \in ToSet(Timers)

\* Somebody is going to call the handler of u.
OwedTransmit(u) ==
  /\ u \in Transmits
  /\ \E j \in ToSet(order) \ ToSet(finished) : j[1] \in {"block", "register"} /\ j[2] = u
OwedRead(u) == u \in Reads /\ \E n \in 1..Len(ctx) : Live(n) /\ ctx[n].user = u
OwedWrite(u) == u \in Writes /\ writeHandler = u
Owed(u) == OwedTransmit(u) \/ OwedRead(u) \/ OwedWrite(u)

\* An operation that is owed an answer had none yet.
OneAnswerInv == \A u \in Users : Answers(u) <= 1 /\ (Owed(u) => Answers(u) = 0)

\* A call that is posted belongs to an operation that was started, except
\* that of a tunnel operation without buffers.
StartedInv ==
  /\ \A p \in ToSet(posted) :
       p \in UserCalls => Started(p.who) \/ (p.ec = "ok" /\ p.who \notin Transmits)
  /\ \A w \in Writes : writeHandler = w => Started(w)

\* A transmission is a block or a sequence, never both.
KindInv ==
  \A j \in ToSet(order) :
    /\ j[1] = "block" => ~AnyReplies(j[2])
    /\ j[1] = "register" => AnyReplies(j[2])

\* A tunnel read has one poll at a time.
LiveInv ==
  \A m, n \in 1..Len(ctx) : Live(m) /\ Live(n) /\ ctx[m].user = ctx[n].user => m = n

OutcomeInv == OneAnswerInv /\ StartedInv /\ KindInv /\ LiveInv

-----------------------------------------------------------------------------
Increasing(s) == \A i, j \in 1..Len(s) : i < j => s[i] < s[j]
Below(s, t) == \A x \in ToSet(s), y \in ToSet(t) : x < y
UpTo(s, k) == \A x \in ToSet(s) : x <= k

\* The answers on their way, behind what was delivered.
ArrivingInv ==
  /\ Increasing(delivered) /\ UpTo(delivered, sent)
  /\ \A i \in 1..Len(inbox) :
       /\ Increasing(inbox[i].bytes) /\ UpTo(inbox[i].bytes, sent)
       /\ Below(delivered, inbox[i].bytes)
  /\ \A i, j \in 1..Len(inbox) : i < j => Below(inbox[i].bytes, inbox[j].bytes)

\* What a poll that is not over has got is between the two, and only the
\* poll in progress has got anything.
Open(n) == ~ctx[n].canceled /\ ReadJob(n) \notin ToSet(finished)
PartialInv ==
  \A n \in 1..Len(ctx) : Open(n) =>
    /\ Increasing(ctx[n].data) /\ UpTo(ctx[n].data, sent)
    /\ Below(delivered, ctx[n].data)
    /\ \A i \in 1..Len(inbox) : Below(ctx[n].data, inbox[i].bytes)
    /\ fs # Reading(ReadJob(n)) => ctx[n].data = <<>>

\* bytes_read of a context: what was stored, or more than a full buffer; and
\* while its poll is not over, every answer has fitted and the buffers that
\* are left are the rest of the user's.
Counted(c) == Len(c.data) = IF c.bytes < c.size THEN c.bytes ELSE c.size
Fits(c) == Len(c.data) = c.bytes /\ c.room + c.bytes = c.size
CountInv ==
  \A n \in 1..Len(ctx) :
    Counted(ctx[n]) /\ (ReadJob(n) \notin ToSet(finished) => Fits(ctx[n]))

-----------------------------------------------------------------------------
\* The calls to one user are of one kind.
LEMMA CallsForParts ==
  ASSUME NEW u \in Users
  PROVE  /\ \A v \in Users, ec \in Codes : UserCall(v, ec) \in CallsFor(u) <=> u = v
         /\ CallsFor(u) \subseteq UserCalls
         /\ \A p \in UserCalls : p \in CallsFor(u) <=> p.who = u
<1>1. \A p \in UserCalls : \E v \in Users, ec \in Codes : p = UserCall(v, ec)
  BY DEF UserCalls
<1>2. \A v \in Users, ec \in Codes : UserCall(v, ec) \in CallsFor(u) <=> u = v
  BY CallParts DEF CallsFor
<1>3. CallsFor(u) \subseteq UserCalls
  BY DEF CallsFor, UserCalls
<1> QED BY <1>1, <1>2, <1>3, CallParts

\* The number of calls to u among callbacks in two parts.
LEMMA ComingConcat ==
  ASSUME NEW u \in Users, NEW s \in Seq(PostedCalls), NEW t \in Seq(PostedCalls)
  PROVE  /\ Coming(u, s) \in Nat /\ Coming(u, t) \in Nat
         /\ Coming(u, s \o t) = Coming(u, s) + Coming(u, t)
<1> DEFINE S == CallsFor(u)
<1>1. Keep(s, S) \in Seq(PostedCalls) /\ Keep(t, S) \in Seq(PostedCalls)
  BY KeepType
<1>2. Keep(s \o t, S) = Keep(s, S) \o Keep(t, S)
  BY KeepConcat
<1> HIDE DEF S
<1>3. Len(Keep(s, S)) \in Nat /\ Len(Keep(t, S)) \in Nat
      /\ Len(Keep(s, S) \o Keep(t, S)) = Len(Keep(s, S)) + Len(Keep(t, S))
  BY <1>1, ConcatElements
<1> QED BY <1>2, <1>3 DEF Coming, S

\* One callback is a call to one user or to none.
LEMMA ComingOne ==
  ASSUME NEW u \in Users
  PROVE  /\ \A v \in Users, ec \in Codes :
              Coming(u, <<UserCall(v, ec)>>) = IF u = v THEN 1 ELSE 0
         /\ \A x \in PostedCalls \ UserCalls : Coming(u, <<x>>) = 0
         /\ Coming(u, <<>>) = 0
<1>1. ASSUME NEW x \in PostedCalls
      PROVE  Coming(u, <<x>>) = IF x \in CallsFor(u) THEN 1 ELSE 0
  <2>1. Keep(<<x>>, CallsFor(u)) = IF x \in CallsFor(u) THEN <<x>> ELSE <<>>
    BY KeepOne
  <2>2. Len(<<x>>) = 1 /\ Len(<<>>) = 0
    BY SingletonSeq
  <2> QED BY <2>1, <2>2 DEF Coming
<1>2. \A v \in Users, ec \in Codes : UserCall(v, ec) \in PostedCalls
  BY CallsInKinds, CallKinds
<1>3. Coming(u, <<>>) = 0
  BY KeepEmpty DEF Coming
<1> QED BY <1>1, <1>2, <1>3, CallsForParts

\* A callback is added.
LEMMA ComingAppend ==
  ASSUME NEW u \in Users, NEW ps \in Seq(PostedCalls)
  PROVE  /\ \A v \in Users, ec \in Codes :
              Coming(u, Append(ps, UserCall(v, ec))) = Coming(u, ps) + (IF u = v THEN 1 ELSE 0)
         /\ \A x \in PostedCalls \ UserCalls : Coming(u, Append(ps, x)) = Coming(u, ps)
<1>1. ASSUME NEW x \in PostedCalls
      PROVE  Coming(u, Append(ps, x)) = Coming(u, ps) + Coming(u, <<x>>)
  <2>1. <<x>> \in Seq(PostedCalls) /\ Append(ps, x) = ps \o <<x>>
    OBVIOUS
  <2> QED BY <2>1, ComingConcat
<1>2. \A v \in Users, ec \in Codes : UserCall(v, ec) \in PostedCalls
  BY CallsInKinds, CallKinds
<1>3. Coming(u, ps) \in Nat
  BY ComingConcat
<1>4. ASSUME NEW v \in Users, NEW ec \in Codes
      PROVE  Coming(u, Append(ps, UserCall(v, ec))) = Coming(u, ps) + (IF u = v THEN 1 ELSE 0)
  <2>1. Coming(u, <<UserCall(v, ec)>>) = IF u = v THEN 1 ELSE 0
    BY ComingOne
  <2> QED BY <1>1, <1>2, <2>1
<1>5. ASSUME NEW x \in PostedCalls \ UserCalls
      PROVE  Coming(u, Append(ps, x)) = Coming(u, ps)
  <2>1. Coming(u, <<x>>) = 0
    BY ComingOne
  <2> QED BY <1>1, <1>3, <2>1
<1> QED BY <1>4, <1>5

\* The first callback is taken.
LEMMA ComingTail ==
  ASSUME NEW u \in Users, NEW ps \in Seq(PostedCalls), ps # <<>>
  PROVE  /\ Tail(ps) \in Seq(PostedCalls) /\ Head(ps) \in PostedCalls
         /\ Coming(u, Tail(ps)) \in Nat
         /\ Head(ps) \in UserCalls =>
              Coming(u, ps) = Coming(u, Tail(ps)) + (IF Head(ps).who = u THEN 1 ELSE 0)
         /\ Head(ps) \notin UserCalls => Coming(u, ps) = Coming(u, Tail(ps))
<1> DEFINE h == Head(ps)
           t == Tail(ps)
<1>1. h \in PostedCalls /\ t \in Seq(PostedCalls) /\ ps = <<h>> \o t
  BY ConcatHeadTail
<1> HIDE DEF h, t
<1>2. <<h>> \in Seq(PostedCalls)
  BY <1>1, SingletonSeq
<1>3. Coming(u, ps) = Coming(u, <<h>>) + Coming(u, t) /\ Coming(u, t) \in Nat
  BY <1>1, <1>2, ComingConcat
<1>4. h \in UserCalls => \E v \in Users, ec \in Codes : h = UserCall(v, ec)
  BY DEF UserCalls
<1>5. h \in UserCalls => Coming(u, <<h>>) = IF h.who = u THEN 1 ELSE 0
  BY <1>4, ComingOne, CallParts
<1>6. h \notin UserCalls => Coming(u, <<h>>) = 0
  BY <1>1, ComingOne
<1> QED BY <1>1, <1>3, <1>5, <1>6 DEF h, t

-----------------------------------------------------------------------------
\* The numbers of calls.
LEMMA AnswersType ==
  ASSUME TypeOK
  PROVE  \A u \in Users :
           /\ Len(outcome[u]) \in Nat /\ Coming(u, posted) \in Nat /\ Answers(u) \in Nat
           /\ Answers(u) = Len(outcome[u]) + Coming(u, posted)
<1>1. ASSUME NEW u \in Users
      PROVE  Len(outcome[u]) \in Nat /\ Coming(u, posted) \in Nat
  <2>1. outcome[u] \in Seq(Codes)
    BY DEF TypeOK
  <2>2. posted \in Seq(PostedCalls)
    BY Types
  <2> QED BY <2>1, <2>2, ComingConcat
<1> QED BY <1>1 DEF Answers

\* A step answers the operations of A, which nobody owes an answer then.
LEMMA AnswersStep ==
  ASSUME TypeOK, OneAnswerInv, NEW A \in SUBSET Users,
         \A u \in Users : Answers(u)' = Answers(u) + (IF u \in A THEN 1 ELSE 0),
         \A u \in A : (Owed(u) \/ Answers(u) = 0) /\ ~Owed(u)',
         \A u \in Users \ A : Owed(u)' => Owed(u) \/ Answers(u) = 0
  PROVE  OneAnswerInv'
<1>1. ASSUME NEW u \in Users
      PROVE  Answers(u)' <= 1 /\ (Owed(u)' => Answers(u)' = 0)
  <2>1. Answers(u) \in Nat /\ Answers(u) <= 1 /\ (Owed(u) => Answers(u) = 0)
    BY AnswersType DEF OneAnswerInv
  <2> QED BY <2>1
<1> QED BY <1>1 DEF OneAnswerInv

\* An operation that was given to the lock stays so.
StartedGrows == \A u \in Users : Started(u) => Started(u)'
SameUsers ==
  /\ Len(ctx) \in Nat /\ Len(ctx') \in Nat /\ Len(ctx) <= Len(ctx')
  /\ \A n \in 1..Len(ctx) : ctx'[n].user = ctx[n].user
LEMMA StartedMono ==
  ASSUME ToSet(order) \subseteq ToSet(order'), removed \subseteq removed', SameUsers
  PROVE  StartedGrows
BY DEF StartedGrows, Started, SameUsers

\* What a step must see to for StartedInv.
LEMMA StartedStep ==
  ASSUME TypeOK, StartedInv, StartedGrows,
         \A p \in ToSet(posted') \cap UserCalls :
           p \in ToSet(posted) \/ Started(p.who)' \/ (p.ec = "ok" /\ p.who \notin Transmits),
         \A w \in Writes : writeHandler' = w => w = writeHandler \/ Started(w)'
  PROVE  StartedInv'
<1>1. \A p \in UserCalls : p.who \in Users
  <2>1. \A p \in UserCalls : \E v \in Users, ec \in Codes : p = UserCall(v, ec)
    BY DEF UserCalls
  <2> QED BY <2>1, CallParts
<1>2. Writes \subseteq Users
  BY DEF Users
<1>3. ASSUME NEW p \in ToSet(posted') \cap UserCalls
      PROVE  Started(p.who)' \/ (p.ec = "ok" /\ p.who \notin Transmits)
  BY <1>1 DEF StartedInv, StartedGrows
<1>4. \A w \in Writes : writeHandler' = w => Started(w)'
  BY <1>2 DEF StartedInv, StartedGrows
<1> QED BY <1>3, <1>4 DEF StartedInv

\* No poll comes to life.
NoNewPolls ==
  /\ SameUsers /\ Len(ctx') = Len(ctx)
  /\ \A n \in 1..Len(ctx) : Live(n)' => Live(n)
LEMMA LiveFrame ==
  ASSUME LiveInv, NoNewPolls
  PROVE  LiveInv' /\ \A u : OwedRead(u)' => OwedRead(u)
BY DEF LiveInv, NoNewPolls, SameUsers, OwedRead

\* No block and no request of a sequence becomes due.
NoNewJobs == ToSet(order') \ ToSet(finished') \subseteq ToSet(order) \ ToSet(finished)
LEMMA JobsFrame ==
  ASSUME NoNewJobs
  PROVE  \A u : OwedTransmit(u)' => OwedTransmit(u)
BY DEF NoNewJobs, OwedTransmit

\* The same jobs are ordered, or fewer.
LEMMA KindFrame ==
  ASSUME KindInv, ToSet(order') \subseteq ToSet(order)
  PROVE  KindInv'
BY DEF KindInv, AnyReplies

-----------------------------------------------------------------------------
\* A user's handlers are not among the callbacks of the lock, the timer and
\* the wrappers.
LEMMA NotUserCalls ==
  /\ \A j \in Jobs : Lock!InvokeCall(j) \in PostedCalls \ UserCalls
  /\ Lock!DoneCall \in PostedCalls \ UserCalls
  /\ \A j \in RegisterJobs, ec \in Codes : WrapCall(j, ec) \in PostedCalls \ UserCalls
  /\ \A n \in 1..MaxPolls : TimerCall(n) \in PostedCalls \ UserCalls
<1>1. \A x \in LockCalls \cup WrapCalls \cup TimerCalls : x \in PostedCalls \ UserCalls
  BY CallKinds
<1> QED BY <1>1, CallsInKinds

\* The calls to users among ps and among qs are the same.
SameCalls(ps, qs) ==
  /\ ToSet(qs) \cap UserCalls = ToSet(ps) \cap UserCalls
  /\ \A u \in Users : Coming(u, qs) = Coming(u, ps)

\* A callback that is not a call to a user is posted.
LEMMA SameCallsAppend ==
  ASSUME NEW ps \in Seq(PostedCalls), NEW x \in PostedCalls \ UserCalls
  PROVE  /\ SameCalls(ps, Append(ps, x)) /\ SameCalls(ps, ps \o <<x>>)
         /\ Append(ps, x) \in Seq(PostedCalls)
<1>1. ToSet(Append(ps, x)) = ToSet(ps) \cup {x} /\ ps \o <<x>> = Append(ps, x)
  BY ToSetAppend
<1>2. \A u \in Users : Coming(u, Append(ps, x)) = Coming(u, ps)
  BY ComingAppend
<1>3. Append(ps, x) \in Seq(PostedCalls)
  OBVIOUS
<1> DEFINE qs == Append(ps, x)
<1> HIDE DEF qs
<1>4. SameCalls(ps, qs)
  BY <1>1, <1>2 DEF SameCalls, qs
<1> QED BY <1>1, <1>3, <1>4 DEF qs

\* A callback that is not a call to a user is taken.
LEMMA SameCallsTail ==
  ASSUME NEW ps \in Seq(PostedCalls), ps # <<>>, Head(ps).op # "user"
  PROVE  SameCalls(ps, Tail(ps)) /\ Tail(ps) \in Seq(PostedCalls) /\ Head(ps) \in PostedCalls
<1>1. Head(ps) \in PostedCalls /\ Tail(ps) \in Seq(PostedCalls)
      /\ ToSet(ps) = {Head(ps)} \cup ToSet(Tail(ps))
  BY ConcatHeadTail, ToSetHeadTail
<1>2. Head(ps) \notin UserCalls
  BY CallKinds
<1>3. \A u \in Users : Coming(u, ps) = Coming(u, Tail(ps))
  BY <1>2, ComingTail
<1> QED BY <1>1, <1>2, <1>3 DEF SameCalls

\* One step after the other.
LEMMA SameCallsTrans ==
  ASSUME NEW ps, NEW qs, NEW rs, SameCalls(ps, qs), SameCalls(qs, rs)
  PROVE  SameCalls(ps, rs)
BY DEF SameCalls

\* What Invoke does when the lock is taken and when it is free.
LEMMA LockInvokeEffect ==
  ASSUME TypeOK, Phase, NEW job \in Jobs, NEW ps \in Seq(PostedCalls), LockInvoke(job, ps)
  PROVE  /\ SameCalls(ps, posted') /\ ToSet(order') = ToSet(order) \cup {job}
         /\ \/ waiting \in Jobs /\ waiting' = waiting /\ posted' = ps
               /\ ToSet(queued') = ToSet(queued) \cup {job}
            \/ waiting' = job /\ queued' = <<>>
<1> DEFINE q == Append(queued, job)
           next == Lock!StartNext(waiting, q)
<1>1. queued \in Seq(Jobs) /\ order \in Seq(Jobs) /\ waiting \in Jobs \cup {None}
  BY Types
<1>2. /\ waiting' = next.waiting /\ queued' = next.queued /\ posted' = ps \o next.post
      /\ order' = Append(order, job)
  BY DEF LockInvoke
<1>3. ToSet(order') = ToSet(order) \cup {job} /\ ToSet(q) = ToSet(queued) \cup {job}
  BY <1>1, <1>2, ToSetAppend
<1>4. CASE waiting \in Jobs
  <2>1. next = [waiting |-> waiting, queued |-> q, post |-> <<>>]
    BY <1>4, StartNextCases
  <2> HIDE DEF q, next
  <2>2. waiting' = waiting /\ queued' = q /\ posted' = ps
    BY <1>2, <2>1, ConcatEmpty
  <2> QED BY <1>3, <1>4, <2>2 DEF SameCalls
<1>5. CASE waiting = None
  <2>1. queued = <<>>
    BY <1>5, NoneAssumption, RegisterJobParts DEF Phase, Free, Invoking, Busy, Wrapping, Stuck, Releasing
  <2>2. q = <<job>> /\ q # <<>> /\ Head(q) = job /\ Tail(q) = <<>>
    BY <2>1
  <2>3. next = [waiting |-> Head(q), queued |-> Tail(q), post |-> <<Lock!InvokeCall(Head(q))>>]
    BY <1>5, <2>2, StartNextCases
  <2> HIDE DEF q, next
  <2>4. waiting' = job /\ queued' = <<>> /\ posted' = ps \o <<Lock!InvokeCall(job)>>
    BY <1>2, <2>2, <2>3
  <2>5. SameCalls(ps, posted')
    BY <2>4, SameCallsAppend, NotUserCalls
  <2> QED BY <1>3, <2>4, <2>5
<1> QED BY <1>1, <1>4, <1>5

\* ... and to the polls.
LEMMA LockInvokePolling ==
  ASSUME TypeOK, Phase, NEW job \in Jobs, NEW ps \in Seq(PostedCalls), LockInvoke(job, ps),
         CallsOf(ps) = CallsOf(posted), WrapsOf(ps) = WrapsOf(posted), UNCHANGED <<finished, fs>>
  PROVE  \A n : Polling(n)' => Polling(n) \/ ReadJob(n) = job
<1> SUFFICES ASSUME NEW n, Polling(n)', ReadJob(n) # job PROVE Polling(n)
  OBVIOUS
<1>1. CASE waiting \in Jobs /\ waiting' = waiting /\ posted' = ps /\ ToSet(queued') = ToSet(queued) \cup {job}
  <2>1. Invoking' => Invoking
    BY <1>1 DEF Invoking
  <2>2. Busy' => Busy
    BY <1>1 DEF Busy
  <2> QED BY <1>1, <2>1, <2>2 DEF Polling
<1>2. CASE waiting' = job /\ queued' = <<>>
  BY <1>2, ToSetEmpty DEF Polling
<1> QED BY <1>1, <1>2, LockInvokeEffect

-----------------------------------------------------------------------------
\* Nobody is answered by a step that makes no call and posts none.
LEMMA QuietStep ==
  ASSUME TypeOK, OneAnswerInv, outcome' = outcome, SameCalls(posted, posted'),
         \A u \in Users : Owed(u)' => Owed(u) \/ Answers(u) = 0
  PROVE  OneAnswerInv'
<1>1. \A u \in Users : Answers(u)' = Answers(u) /\ Answers(u) \in Nat
  BY AnswersType DEF SameCalls, Answers
<1> DEFINE A == {}
<1>2. A \in SUBSET Users /\ \A u : u \notin A
  OBVIOUS
<1> HIDE DEF A
<1>3. \A u \in Users : Answers(u)' = Answers(u) + (IF u \in A THEN 1 ELSE 0)
  BY <1>1, <1>2
<1> QED BY <1>2, <1>3, AnswersStep

\* The handler of v is posted.
LEMMA PostedStep ==
  ASSUME TypeOK, OneAnswerInv, NEW v \in Users, NEW ec \in Codes, NEW ps \in Seq(PostedCalls),
         outcome' = outcome, SameCalls(posted, ps), SameCalls(Append(ps, UserCall(v, ec)), posted'),
         Owed(v) \/ Answers(v) = 0, ~Owed(v)',
         \A u \in Users \ {v} : Owed(u)' => Owed(u) \/ Answers(u) = 0
  PROVE  OneAnswerInv'
<1>1. ASSUME NEW u \in Users
      PROVE  Answers(u)' = Answers(u) + (IF u \in {v} THEN 1 ELSE 0)
  <2>1. Coming(u, Append(ps, UserCall(v, ec))) = Coming(u, ps) + (IF u = v THEN 1 ELSE 0)
    BY ComingAppend
  <2>2. Coming(u, posted') = Coming(u, posted) + (IF u = v THEN 1 ELSE 0)
    BY <2>1 DEF SameCalls
  <2>3. Answers(u)' = Len(outcome[u]) + Coming(u, posted')
    BY DEF Answers
  <2> QED BY <2>2, <2>3, AnswersType
<1>2. {v} \in SUBSET Users
  OBVIOUS
<1> QED BY <1>1, <1>2, AnswersStep

\* The handler of v is called.
LEMMA ToldStep ==
  ASSUME TypeOK, OneAnswerInv, NEW v \in Users, NEW ec \in Codes, Tell(v, ec),
         SameCalls(posted, posted'),
         Owed(v) \/ Answers(v) = 0, ~Owed(v)',
         \A u \in Users \ {v} : Owed(u)' => Owed(u) \/ Answers(u) = 0
  PROVE  OneAnswerInv'
<1>1. ASSUME NEW u \in Users
      PROVE  Answers(u)' = Answers(u) + (IF u \in {v} THEN 1 ELSE 0)
  <2>1. outcome \in [Users -> Seq(Codes)] /\ outcome[u] \in Seq(Codes)
    BY DEF TypeOK
  <2>2. outcome'[u] = IF u = v THEN Append(outcome[u], ec) ELSE outcome[u]
    BY <2>1 DEF Tell
  <2>3. Len(outcome'[u]) = Len(outcome[u]) + (IF u = v THEN 1 ELSE 0)
    BY <2>1, <2>2
  <2>4. Answers(u)' = Len(outcome'[u]) + Coming(u, posted)
    BY DEF Answers, SameCalls
  <2>5. Answers(u) = Len(outcome[u]) + Coming(u, posted)
        /\ Len(outcome[u]) \in Nat /\ Coming(u, posted) \in Nat
    BY AnswersType
  <2>6. CASE u = v
    BY <2>3, <2>4, <2>5, <2>6
  <2>7. CASE u # v
    BY <2>3, <2>4, <2>5, <2>7
  <2> QED BY <2>6, <2>7
<1>2. {v} \in SUBSET Users
  OBVIOUS
<1> QED BY <1>1, <1>2, AnswersStep

\* No call to u is posted.
LEMMA NoneComing ==
  ASSUME NEW u, NEW ps \in Seq(PostedCalls), ToSet(ps) \cap CallsFor(u) = {}
  PROVE  Coming(u, ps) = 0
<1> DEFINE k == Keep(ps, CallsFor(u))
<1>1. ToSet(k) = {} /\ k \in Seq(PostedCalls)
  BY KeepToSet, KeepType
<1> HIDE DEF k
<1>2. \A i \in 1..Len(k) : k[i] \in ToSet(k)
  BY <1>1, ToSetElement
<1>3. Len(k) \in Nat
  BY <1>1
<1>4. Len(k) = 0
  BY <1>1, <1>2, <1>3
<1> QED BY <1>4 DEF Coming, k

\* An operation that the user has not begun had no answer and expects none.
LEMMA UntouchedIsNew ==
  ASSUME IInv, OutcomeInv, NEW u \in Reads \cup Writes, Untouched(u)
  PROVE  Answers(u) = 0 /\ ~Owed(u) /\ ~Started(u) /\ u \in Users
<1>1. posted \in Seq(PostedCalls) /\ ctx \in Seq(Contexts) /\ Len(ctx) \in Nat
  BY Types DEF IInv
<1>2. u \in Users /\ u \notin Transmits
  BY UsersAssumption DEF Users
<1>3. ~Started(u)
  BY <1>1, <1>2 DEF Untouched, Started
<1>4. ToSet(posted) \cap CallsFor(u) = {}
  <2>1. ASSUME NEW p \in ToSet(posted), p \in CallsFor(u) PROVE FALSE
    <3>1. PICK ec \in Codes : p = UserCall(u, ec)
      BY <2>1 DEF CallsFor
    <3>2. p \in UserCalls /\ p.who = u /\ p.ec = ec
      BY <1>2, <3>1, CallsInKinds, CallParts
    <3>3. ec = "ok"
      BY <1>3, <3>2 DEF OutcomeInv, StartedInv
    <3>4. PICK i \in 1..Len(posted) : posted[i] = p
      BY <1>1, ToSetElement
    <3>5. i \in DOMAIN posted
      BY <1>1
    <3> QED BY <3>1, <3>3, <3>4, <3>5 DEF Untouched
  <2> QED BY <2>1
<1>5. Coming(u, posted) = 0
  BY <1>1, <1>4, NoneComing
<1>6. Answers(u) = 0
  BY <1>5 DEF Answers, Untouched
<1>7. ~Owed(u)
  BY <1>2, <1>3 DEF Owed, OwedTransmit, OwedRead, OwedWrite, OutcomeInv, StartedInv, Started
<1> QED BY <1>2, <1>3, <1>6, <1>7

-----------------------------------------------------------------------------
\* The parts of IInv that the lemmas use.
LEMMA Known ==
  ASSUME IInv
  PROVE  /\ TypeOK /\ Phase /\ Turn(waiting, queued, finished, order)
         /\ SequenceInv /\ ContextInv /\ NonceInv /\ TimerInv
         /\ waiting \in Jobs \cup {None} /\ queued \in Seq(Jobs) /\ finished \in Seq(Jobs)
         /\ order \in Seq(Jobs) /\ posted \in Seq(PostedCalls)
         /\ ctx \in Seq(Contexts) /\ Len(ctx) \in Nat
BY Types DEF IInv, LockInv

\* The timers of the next step.
LEMMA TimersKept ==
  ASSUME TimersOf(posted') = TimersOf(posted), pollTimer' = pollTimer
  PROVE  Timers' = Timers
BY DEF Timers, WakePoll

\* The tunnel is as it was.
LEMMA SameUsersFrame ==
  ASSUME IInv, ctx' = ctx
  PROVE  SameUsers
BY Known DEF SameUsers

\* AsyncTransmit: one more transmission is due.
LEMMA AsyncTransmitOutcome ==
  ASSUME IInv, OutcomeInv, NEW c \in Transmits, AsyncTransmit(c)
  PROVE  OutcomeInv'
<1> DEFINE job == IF AnyReplies(c) THEN RegisterJob(c, 1) ELSE BlockJob(c)
<1>0. /\ TypeOK /\ Phase /\ posted \in Seq(PostedCalls) /\ finished \in Seq(Jobs)
      /\ order \in Seq(Jobs) /\ Turn(waiting, queued, finished, order)
  BY Known
<1>1. /\ outcome[c] = <<>> /\ {BlockJob(c), RegisterJob(c, 1)} \cap ToSet(order) = {}
      /\ LockInvoke(job, posted)
      /\ UNCHANGED <<finished, removed, fs, tunnelVars, outcome>>
  BY DEF AsyncTransmit
<1>2. job \in Jobs /\ job[1] \in {"block", "register"} /\ job[2] = c
      /\ (job[1] = "block" => ~AnyReplies(c)) /\ (job[1] = "register" => AnyReplies(c))
  <2>1. CASE AnyReplies(c)
    <3>1. PICK i \in 1..Len(Requests[c]) : TRUE
      BY <2>1, RequestsAssumption DEF AnyReplies
    <3>2. 1 \in 1..Len(Requests[c])
      BY <3>1, RequestsAssumption
    <3> QED BY <2>1, <3>2, RegisterJobParts
  <2>2. CASE ~AnyReplies(c)
    BY <2>2, BlockJobParts
  <2> QED BY <2>1, <2>2
<1>3. job \in {BlockJob(c), RegisterJob(c, 1)}
  OBVIOUS
<1> HIDE DEF job
<1>4. /\ SameCalls(posted, posted') /\ ToSet(order') = ToSet(order) \cup {job}
      /\ \A n : Polling(n)' => Polling(n) \/ ReadJob(n) = job
  BY <1>0, <1>1, <1>2, LockInvokeEffect, LockInvokePolling
<1>5. posted' = posted \/ posted' = posted \o <<Lock!InvokeCall(job)>>
  BY <1>0, <1>1, <1>2, <1>3, LockInvokeStep
<1>6. TimersOf(posted') = TimersOf(posted)
  BY <1>0, <1>2, <1>5, PostInvoke
<1>7. Timers' = Timers
  BY <1>1, <1>6, TimersKept DEF tunnelVars
<1>8. NoNewPolls
  <2>1. SameUsers /\ Len(ctx') = Len(ctx)
    BY <1>1, SameUsersFrame DEF tunnelVars
  <2>2. \A n : ReadJob(n) # job
    BY <1>2, ReadJobParts
  <2> QED BY <1>4, <1>7, <2>1, <2>2 DEF NoNewPolls, Live
<1>9. LiveInv' /\ \A u : OwedRead(u)' => OwedRead(u)
  BY <1>8, LiveFrame DEF OutcomeInv
<1>10. KindInv'
  BY <1>2, <1>4 DEF OutcomeInv, KindInv, AnyReplies
<1>11. StartedGrows
  BY <1>1, <1>4, SameUsersFrame, StartedMono DEF tunnelVars
<1>12. StartedInv'
  BY <1>0, <1>1, <1>4, <1>11, StartedStep DEF OutcomeInv, SameCalls, tunnelVars
<1>13. \A u \in Users : Owed(u)' => Owed(u) \/ u = c
  BY <1>1, <1>2, <1>4, <1>9 DEF Owed, OwedTransmit, OwedWrite, tunnelVars
<1>14. Answers(c) = 0
  <2>1. ~Started(c) /\ c \in Users
    BY <1>1, UsersAssumption DEF Started, Users
  <2>2. ToSet(posted) \cap CallsFor(c) = {}
    BY <2>1, CallsForParts DEF OutcomeInv, StartedInv
  <2>3. Coming(c, posted) = 0
    BY <1>0, <2>2, NoneComing
  <2>4. Len(<<>>) = 0
    OBVIOUS
  <2> QED BY <1>1, <2>3, <2>4 DEF Answers
<1>15. OneAnswerInv'
  BY <1>0, <1>1, <1>4, <1>13, <1>14, QuietStep DEF OutcomeInv
<1> QED BY <1>9, <1>10, <1>12, <1>15 DEF OutcomeInv

\* async_read_some of u, which is owed an answer by no other poll.
LEMMA ReadSomeOutcome ==
  ASSUME IInv, OutcomeInv, NEW u \in Reads, NEW room, NEW ps \in Seq(PostedCalls),
         ReadSome(u, room, ps), ctx' \in Seq(Contexts), CallsOf(ps) = CallsOf(posted),
         WrapsOf(ps) = WrapsOf(posted), SameCalls(posted, ps),
         UNCHANGED <<finished, removed, fs, writeHandler, pollTimer, outcome>>,
         Owed(u) \/ Answers(u) = 0,
         \A n \in 1..MaxPolls : TimerCall(n) \in ToSet(TimersOf(ps) \o WakePoll) =>
           n <= Len(ctx) /\ TimerCall(n) \in ToSet(Timers),
         \A n \in 1..Len(ctx) :
           Polling(n) \/ TimerCall(n) \in ToSet(TimersOf(ps) \o WakePoll) => ctx[n].user # u
  PROVE  OutcomeInv'
<1> DEFINE k == Len(ctx) + 1
           job == ReadJob(k)
<1>0. /\ TypeOK /\ Phase /\ posted \in Seq(PostedCalls) /\ ctx \in Seq(Contexts) /\ Len(ctx) \in Nat
      /\ SequenceInv /\ MaxPolls \in Nat /\ Len(ctx) <= MaxPolls
  BY Known, BoundsAssumption DEF TypeOK
<1>1. /\ k <= MaxPolls /\ ctx' = Append(ctx, NewContext(u, room)) /\ LockInvoke(job, ps)
  BY DEF ReadSome
<1>2. k \in 1..MaxPolls /\ job \in Jobs /\ job[1] = "read"
  BY <1>0, <1>1, ReadJobParts
<1>3. /\ Len(ctx') = k /\ ctx'[k].user = u
      /\ \A n \in 1..Len(ctx) : ctx'[n] = ctx[n]
  BY <1>0, <1>1 DEF NewContext
<1>4. SameUsers /\ 1..Len(ctx') = 1..Len(ctx) \cup {k}
  BY <1>0, <1>3 DEF SameUsers
<1> HIDE DEF k, job
<1>5. /\ SameCalls(ps, posted') /\ ToSet(order') = ToSet(order) \cup {job}
      /\ \A n : Polling(n)' => Polling(n) \/ ReadJob(n) = job
  BY <1>0, <1>1, <1>2, LockInvokeEffect, LockInvokePolling
<1>6. TimersOf(posted') = TimersOf(ps)
  <2>1. ~(k <= Len(ctx)) /\ job[3] = k
    BY <1>0, ReadJobParts DEF k, job
  <2>2. job \notin ToSet(order)
    BY <1>0, <1>2, <2>1 DEF SequenceInv, InSequence
  <2> QED BY <1>1, <1>2, <2>2, Known, LockInvokeStep
<1>7. Timers' = TimersOf(ps) \o WakePoll
  BY <1>6 DEF Timers, WakePoll
<1>8. ASSUME NEW n \in 1..Len(ctx), Live(n)'
      PROVE  Live(n) /\ ctx'[n].user = ctx[n].user /\ ctx[n].user # u
  <2>1. n \in 1..MaxPolls /\ n # k /\ ReadJob(n) # job
    BY <1>0, ReadJobParts DEF k, job
  <2>2. Polling(n) \/ TimerCall(n) \in ToSet(TimersOf(ps) \o WakePoll)
    BY <1>5, <1>7, <1>8, <2>1 DEF Live
  <2> QED BY <1>3, <2>1, <2>2 DEF Live
<1>9. LiveInv'
  BY <1>3, <1>4, <1>8 DEF LiveInv, OutcomeInv
<1>10. \A v : OwedRead(v)' => OwedRead(v) \/ v = u
  BY <1>3, <1>4, <1>8 DEF OwedRead
<1>11. KindInv'
  BY <1>2, <1>5 DEF OutcomeInv, KindInv, AnyReplies
<1>12. StartedGrows
  BY <1>4, <1>5, StartedMono
<1>13. SameCalls(posted, posted')
  BY <1>5, SameCallsTrans
<1>14. StartedInv'
  BY <1>0, <1>12, <1>13, StartedStep DEF OutcomeInv, SameCalls
<1>15. \A v \in Users : Owed(v)' => Owed(v) \/ v = u
  BY <1>2, <1>5, <1>10 DEF Owed, OwedTransmit, OwedWrite
<1>16. OneAnswerInv'
  BY <1>0, <1>13, <1>15, QuietStep DEF OutcomeInv
<1> QED BY <1>9, <1>11, <1>14, <1>16 DEF OutcomeInv

\* The handler of an operation without buffers is posted and nothing else
\* happens.
LEMMA UserPosted ==
  ASSUME IInv, OutcomeInv, NEW v \in Users, NEW ec \in Codes,
         posted' = Append(posted, UserCall(v, ec)),
         UNCHANGED <<waiting, queued, order, finished, removed, fs, ctx, pollTimer, writeHandler,
                     outcome>>,
         Answers(v) = 0, ~Owed(v), Started(v) \/ (ec = "ok" /\ v \notin Transmits)
  PROVE  OutcomeInv'
<1>0. TypeOK /\ posted \in Seq(PostedCalls)
  BY Known
<1>1. /\ CallsOf(posted') = CallsOf(posted) /\ WrapsOf(posted') = WrapsOf(posted)
      /\ TimersOf(posted') = TimersOf(posted)
  BY <1>0, PostUser
<1>2. Timers' = Timers
  BY <1>1, TimersKept
<1>3. \A n : Live(n)' => Live(n)
  BY <1>1, <1>2 DEF Live, Polling, Invoking, Busy
<1>4. NoNewPolls /\ NoNewJobs
  BY <1>3, SameUsersFrame DEF NoNewPolls, NoNewJobs
<1>5. LiveInv' /\ (\A u : Owed(u)' => Owed(u))
  BY <1>4, LiveFrame, JobsFrame DEF OutcomeInv, Owed, OwedWrite
<1>6. KindInv'
  BY KindFrame DEF OutcomeInv
<1>7. StartedGrows
  BY SameUsersFrame, StartedMono
<1>8. ToSet(posted') = ToSet(posted) \cup {UserCall(v, ec)}
  <2>1. UserCall(v, ec) \in PostedCalls
    BY CallsInKinds, CallKinds
  <2> QED BY <1>0, <2>1, ToSetAppend
<1>9. Started(v) => Started(v)'
  BY <1>7 DEF StartedGrows
<1>10. StartedInv'
  BY <1>0, <1>7, <1>8, <1>9, CallParts, StartedStep DEF OutcomeInv
<1>11. SameCalls(posted, posted) /\ SameCalls(Append(posted, UserCall(v, ec)), posted')
  BY DEF SameCalls
<1>12. OneAnswerInv'
  BY <1>0, <1>5, <1>11, PostedStep DEF OutcomeInv
<1> QED BY <1>5, <1>6, <1>10, <1>12 DEF OutcomeInv

\* async_read_some, called by the user.
LEMMA TunnelReadOutcome ==
  ASSUME IInv, IInv', OutcomeInv, NEW u \in Reads, TunnelRead(u)
  PROVE  OutcomeInv'
<1>0. /\ TypeOK /\ posted \in Seq(PostedCalls) /\ TimerInv /\ ctx' \in Seq(Contexts)
      /\ Len(ctx) \in Nat
  BY Known DEF IInv, TypeOK
<1>1. Untouched(u) /\ UNCHANGED <<finished, removed, fs, writeHandler, pollTimer, outcome>>
  BY DEF TunnelRead
<1>2. Answers(u) = 0 /\ ~Owed(u) /\ ~Started(u) /\ u \in Users /\ u \notin Transmits
  BY <1>1, UntouchedIsNew, UsersAssumption
<1>3. PICK room \in Rooms :
        IF room = 0
        THEN /\ posted' = Append(posted, UserCall(u, "ok"))
             /\ UNCHANGED <<waiting, queued, order, ctx, readContext, readNonce>>
        ELSE ReadSome(u, room, posted)
  BY DEF TunnelRead
<1>4. CASE room = 0
  <2>1. /\ posted' = Append(posted, UserCall(u, "ok"))
        /\ UNCHANGED <<waiting, queued, order, ctx>>
    BY <1>3, <1>4
  <2>2. "ok" \in Codes
    BY DEF Codes
  <2> QED BY <1>0, <1>1, <1>2, <2>1, <2>2, UserPosted
<1>5. CASE room # 0
  <2>1. ReadSome(u, room, posted)
    BY <1>3, <1>5
  <2>2. SameCalls(posted, posted)
    BY DEF SameCalls
  <2>3. TimersOf(posted) \o WakePoll = Timers
    BY DEF Timers
  <2>4. \A n \in 1..MaxPolls : TimerCall(n) \in ToSet(Timers) => n <= Len(ctx)
    BY <1>0 DEF TimerInv, Waits
  <2>5. \A n \in 1..Len(ctx) : ctx[n].user # u
    BY <1>2 DEF Started
  <2> QED BY <1>0, <1>1, <1>2, <2>1, <2>2, <2>3, <2>4, <2>5, ReadSomeOutcome
<1> QED BY <1>4, <1>5

\* A step that changes nothing for the users.
LEMMA QuietOutcome ==
  ASSUME IInv, OutcomeInv, NoNewPolls, NoNewJobs, SameCalls(posted, posted'),
         ToSet(order') = ToSet(order), removed' = removed, outcome' = outcome,
         writeHandler' \in {writeHandler, None}
  PROVE  OutcomeInv'
<1>1. TypeOK
  BY Known
<1>2. LiveInv' /\ \A u : Owed(u)' => Owed(u)
  BY LiveFrame, JobsFrame, NoneAssumption DEF OutcomeInv, Owed, OwedWrite, Users
<1>3. KindInv'
  BY KindFrame DEF OutcomeInv
<1>4. StartedGrows
  BY StartedMono DEF NoNewPolls
<1>5. StartedInv'
  BY <1>1, <1>4, NoneAssumption, StartedStep DEF OutcomeInv, SameCalls, Users
<1>6. OneAnswerInv'
  BY <1>1, <1>2, QuietStep DEF OutcomeInv
<1> QED BY <1>2, <1>3, <1>5, <1>6 DEF OutcomeInv

\* async_write_some.
LEMMA TunnelWriteOutcome ==
  ASSUME IInv, OutcomeInv, NEW u \in Writes, TunnelWrite(u)
  PROVE  OutcomeInv'
<1>0. /\ TypeOK /\ Phase /\ posted \in Seq(PostedCalls) /\ finished \in Seq(Jobs)
      /\ order \in Seq(Jobs) /\ Turn(waiting, queued, finished, order)
  BY Known
<1>1. Untouched(u) /\ UNCHANGED <<finished, removed, fs, ctx, pollTimer, outcome>>
  BY DEF TunnelWrite
<1>2. Answers(u) = 0 /\ ~Owed(u) /\ ~Started(u) /\ u \in Users /\ u \notin Transmits
  BY <1>1, UntouchedIsNew, UsersAssumption
<1>3. PICK room \in Rooms :
        IF room = 0
        THEN /\ posted' = Append(posted, UserCall(u, "ok"))
             /\ UNCHANGED <<waiting, queued, order, writeHandler, writeNonce>>
        ELSE /\ writeHandler' = u
             /\ writeNonce' = WriteJob(u)
             /\ LockInvoke(WriteJob(u), posted)
  BY DEF TunnelWrite
<1>4. CASE room = 0
  <2>1. /\ posted' = Append(posted, UserCall(u, "ok"))
        /\ UNCHANGED <<waiting, queued, order, writeHandler>>
    BY <1>3, <1>4
  <2>2. "ok" \in Codes
    BY DEF Codes
  <2> QED BY <1>0, <1>1, <1>2, <2>1, <2>2, UserPosted
<1>5. CASE room # 0
  <2>1. writeHandler' = u /\ LockInvoke(WriteJob(u), posted)
    BY <1>3, <1>5
  <2>2. /\ WriteJob(u) \in Jobs /\ WriteJob(u)[1] = "write" /\ (\A n : ReadJob(n) # WriteJob(u))
        /\ WriteJob(u) \notin ToSet(order)
    BY <1>1, WriteJobParts, ReadJobParts DEF Untouched
  <2>3. /\ SameCalls(posted, posted') /\ ToSet(order') = ToSet(order) \cup {WriteJob(u)}
        /\ \A n : Polling(n)' => Polling(n)
    BY <1>0, <1>1, <2>1, <2>2, LockInvokeEffect, LockInvokePolling
  <2>4. TimersOf(posted') = TimersOf(posted)
    BY <1>0, <1>1, <2>1, <2>2, LockInvokeStep
  <2>5. NoNewPolls
    BY <1>1, <2>3, <2>4, TimersKept, SameUsersFrame DEF NoNewPolls, Live
  <2>6. LiveInv' /\ \A v : OwedRead(v)' => OwedRead(v)
    BY <2>5, LiveFrame DEF OutcomeInv
  <2>7. KindInv'
    BY <2>2, <2>3 DEF OutcomeInv, KindInv, AnyReplies
  <2>8. StartedGrows
    BY <1>1, <2>3, SameUsersFrame, StartedMono
  <2>9. Started(u)'
    BY <2>3 DEF Started
  <2>10. StartedInv'
    BY <1>0, <2>1, <2>3, <2>8, <2>9, StartedStep DEF OutcomeInv, SameCalls
  <2>11. \A v \in Users : Owed(v)' => Owed(v) \/ v = u
    BY <1>1, <2>1, <2>2, <2>3, <2>6 DEF Owed, OwedTransmit, OwedWrite
  <2>12. OneAnswerInv'
    BY <1>0, <1>1, <1>2, <2>3, <2>11, QuietStep DEF OutcomeInv
  <2> QED BY <2>6, <2>7, <2>10, <2>12 DEF OutcomeInv
<1> QED BY <1>4, <1>5

\* The handler of poll_timer_ is posted: its context waited before.
LEMMA PollTimerExpiresOutcome ==
  ASSUME IInv, OutcomeInv, PollTimerExpires
  PROVE  OutcomeInv'
<1>0. TypeOK /\ posted \in Seq(PostedCalls) /\ Len(ctx) \in Nat
  BY Known
<1>1. /\ pollTimer # None /\ posted' = Append(posted, TimerCall(pollTimer)) /\ pollTimer' = None
      /\ UNCHANGED <<waiting, queued, finished, removed, order, fs, ctx, writeHandler, outcome>>
  BY DEF PollTimerExpires, lockVars
<1>2. PICK k : k = pollTimer
  OBVIOUS
<1>3. k \in 1..MaxPolls
  BY <1>0, <1>1, <1>2, BoundsAssumption DEF TypeOK
<1>4. /\ CallsOf(posted') = CallsOf(posted) /\ WrapsOf(posted') = WrapsOf(posted)
      /\ TimersOf(posted') = Append(TimersOf(posted), TimerCall(k))
  BY <1>0, <1>1, <1>2, <1>3, PostTimer
<1>5. TimersOf(posted) \in Seq(PostedCalls) /\ TimerCall(k) \in PostedCalls
  BY <1>0, <1>3, KeepType, NotUserCalls DEF TimersOf
<1>6. Timers' = Append(TimersOf(posted), TimerCall(k)) \o <<>>
      /\ Timers = TimersOf(posted) \o <<TimerCall(k)>>
  BY <1>1, <1>2, <1>4 DEF Timers, WakePoll
<1>7. Timers' = Timers
  BY <1>5, <1>6
<1>8. \A n : Live(n)' => Live(n)
  BY <1>1, <1>4, <1>7 DEF Live, Polling, Invoking, Busy
<1>9. NoNewPolls /\ NoNewJobs
  BY <1>1, <1>8, SameUsersFrame DEF NoNewPolls, NoNewJobs
<1>10. SameCalls(posted, posted')
  BY <1>0, <1>1, <1>2, <1>3, NotUserCalls, SameCallsAppend
<1> QED BY <1>1, <1>9, <1>10, QuietOutcome

\* A posted handler of a user is called: it was counted before.
LEMMA RunUserOutcome ==
  ASSUME IInv, OutcomeInv, RunUser
  PROVE  OutcomeInv'
<1> DEFINE h == Head(posted)
<1>0. TypeOK /\ posted \in Seq(PostedCalls)
  BY Known
<1>1. /\ posted # <<>> /\ h.op = "user" /\ Tell(h.who, h.ec) /\ posted' = Tail(posted)
      /\ UNCHANGED <<waiting, queued, finished, removed, order, fs, ctx, writeHandler, pollTimer>>
  BY DEF RunUser, lockVars, tunnelVars
<1>2. /\ CallsOf(posted') = CallsOf(posted) /\ WrapsOf(posted') = WrapsOf(posted)
      /\ TimersOf(posted') = TimersOf(posted) /\ h.who \in Users /\ h.ec \in Codes
      /\ h = UserCall(h.who, h.ec)
  BY <1>0, <1>1, FrontIsOther
<1>3. PICK v \in Users, ec \in Codes : v = h.who /\ ec = h.ec
  BY <1>2
<1>4. Timers' = Timers
  BY <1>1, <1>2, TimersKept
<1>5. \A n : Live(n)' => Live(n)
  BY <1>1, <1>2, <1>4 DEF Live, Polling, Invoking, Busy
<1>6. NoNewPolls /\ NoNewJobs
  BY <1>1, <1>5, SameUsersFrame DEF NoNewPolls, NoNewJobs
<1>7. LiveInv' /\ (\A u : Owed(u)' => Owed(u))
  BY <1>1, <1>6, LiveFrame, JobsFrame DEF OutcomeInv, Owed, OwedWrite
<1>8. KindInv'
  BY <1>1, KindFrame DEF OutcomeInv
<1>9. StartedInv'
  <2>1. StartedGrows
    BY <1>1, SameUsersFrame, StartedMono
  <2>2. ToSet(posted') \subseteq ToSet(posted)
    BY <1>0, <1>1, ToSetHeadTail
  <2> QED BY <1>0, <1>1, <2>1, <2>2, StartedStep DEF OutcomeInv
<1>10. ASSUME NEW u \in Users
       PROVE  Answers(u)' = Answers(u) /\ Answers(u) \in Nat
  <2>1. h \in UserCalls
    BY <1>2, CallsInKinds
  <2>2. /\ Coming(u, posted) = Coming(u, posted') + (IF v = u THEN 1 ELSE 0)
        /\ Coming(u, posted') \in Nat
    BY <1>0, <1>1, <1>3, <2>1, ComingTail
  <2>3. outcome \in [Users -> Seq(Codes)] /\ outcome[u] \in Seq(Codes)
    BY <1>0 DEF TypeOK
  <2>4. outcome'[u] = IF u = v THEN Append(outcome[u], ec) ELSE outcome[u]
    BY <1>1, <1>3, <2>3 DEF Tell
  <2>5. Len(outcome'[u]) = Len(outcome[u]) + (IF u = v THEN 1 ELSE 0) /\ Len(outcome[u]) \in Nat
    BY <2>3, <2>4
  <2>6. Answers(u)' = Len(outcome'[u]) + Coming(u, posted')
        /\ Answers(u) = Len(outcome[u]) + Coming(u, posted)
    BY DEF Answers
  <2>7. CASE u = v
    BY <2>2, <2>5, <2>6, <2>7
  <2>8. CASE u # v
    BY <2>2, <2>5, <2>6, <2>8
  <2> QED BY <2>7, <2>8
<1>11. OneAnswerInv'
  BY <1>7, <1>10 DEF OneAnswerInv, OutcomeInv
<1> QED BY <1>7, <1>8, <1>9, <1>11 DEF OutcomeInv

\* ItemDone: the next job has the lock.
LEMMA ItemDoneOutcome ==
  ASSUME IInv, OutcomeInv, ItemDone
  PROVE  OutcomeInv'
<1> DEFINE next == Lock!StartNext(None, queued)
<1>0. TypeOK /\ Phase /\ posted \in Seq(PostedCalls) /\ queued \in Seq(Jobs)
      /\ Len(ctx) \in Nat
  BY Known
<1>1. /\ posted # <<>> /\ Head(posted) = Lock!DoneCall
      /\ waiting' = next.waiting /\ queued' = next.queued /\ posted' = Tail(posted) \o next.post
      /\ UNCHANGED <<finished, removed, order, fs, ctx, writeHandler, pollTimer, outcome>>
  BY DEF ItemDone, tunnelVars
<1>2. Head(posted).op = "done"
  BY <1>1, CallParts
<1>3. /\ Tail(posted) \in Seq(PostedCalls) /\ TimersOf(Tail(posted)) = TimersOf(posted)
      /\ CallsOf(Tail(posted)) = <<>> /\ Releasing /\ SameCalls(posted, Tail(posted))
  BY <1>0, <1>1, <1>2, FrontIsLock, SameCallsTail
<1> DEFINE tl == Tail(posted)
<1>4. /\ SameCalls(posted, posted') /\ TimersOf(posted') = TimersOf(posted)
      /\ \A n : ReadJob(n) \in ToSet(queued') => ReadJob(n) \in ToSet(queued)
      /\ \A n \in 1..MaxPolls : waiting' = ReadJob(n) => ReadJob(n) \in ToSet(queued)
  <2>1. CASE queued = <<>>
    <3>1. next = [waiting |-> None, queued |-> <<>>, post |-> <<>>]
      BY <2>1, StartNextCases
    <3> HIDE DEF next, tl
    <3>2. waiting' = None /\ queued' = <<>> /\ posted' = tl
      BY <1>1, <1>3, <3>1, ConcatEmpty DEF tl
    <3>3. \A n \in 1..MaxPolls : waiting' # ReadJob(n)
      BY <3>2, ReadJobParts, NoneAssumption
    <3> QED BY <1>3, <2>1, <3>2, <3>3 DEF tl
  <2>2. CASE queued # <<>>
    <3>1. next = [waiting |-> Head(queued), queued |-> Tail(queued),
                  post |-> <<Lock!InvokeCall(Head(queued))>>]
      BY <2>2, StartNextCases
    <3> HIDE DEF next, tl
    <3>2. /\ waiting' = Head(queued) /\ queued' = Tail(queued)
          /\ posted' = tl \o <<Lock!InvokeCall(Head(queued))>>
      BY <1>1, <3>1 DEF tl
    <3>3. Head(queued) \in Jobs /\ ToSet(queued) = {Head(queued)} \cup ToSet(Tail(queued))
      BY <1>0, <2>2, ConcatHeadTail, ToSetHeadTail
    <3>4. TimersOf(posted') = TimersOf(posted)
      BY <1>3, <3>2, <3>3, PostInvoke DEF tl
    <3>5. SameCalls(tl, posted')
      BY <1>3, <3>2, <3>3, NotUserCalls, SameCallsAppend DEF tl
    <3>6. SameCalls(posted, posted')
      BY <1>3, <3>5, SameCallsTrans DEF tl
    <3> QED BY <3>2, <3>3, <3>4, <3>6
  <2> QED BY <2>1, <2>2
<1>5. Timers' = Timers
  BY <1>1, <1>4, TimersKept
<1>6. \A n \in 1..MaxPolls : Live(n)' => Live(n)
  BY <1>4, <1>5 DEF Live, Polling
<1>7. NoNewPolls /\ NoNewJobs
  BY <1>0, <1>1, <1>6, SameUsersFrame, BoundsAssumption DEF NoNewPolls, NoNewJobs, TypeOK
<1> QED BY <1>1, <1>4, <1>7, QuietOutcome

\* A job that is over is not polling.
LEMMA FinishedNotPolling ==
  ASSUME IInv, NEW n, ReadJob(n) \in ToSet(finished)
  PROVE  ~Polling(n)
<1>1. ToSet(finished) \cap ToSet(queued) = {}
  BY Known, TurnParts
<1> QED BY <1>1 DEF Polling, Invoking, Busy

\* The handler of poll_timer_ reports, or polls again in place of the poll
\* that waited.
LEMMA RunTimerOutcome ==
  ASSUME IInv, IInv', OutcomeInv, RunTimer
  PROVE  OutcomeInv'
<1>0. /\ TypeOK /\ Phase /\ posted \in Seq(PostedCalls) /\ ctx \in Seq(Contexts)
      /\ Len(ctx) \in Nat /\ TimerInv /\ ctx' \in Seq(Contexts) /\ MaxPolls \in Nat
      /\ Len(ctx) <= MaxPolls
  BY Known, BoundsAssumption DEF IInv, TypeOK
<1>1. /\ posted # <<>> /\ Head(posted).op = "timer"
      /\ UNCHANGED <<finished, removed, fs, writeHandler, pollTimer, outcome>>
      /\ LET c == ctx[Head(posted).ctx] IN
           IF c.canceled
           THEN /\ posted' = Append(Tail(posted), UserCall(c.user, "aborted"))
                /\ UNCHANGED <<waiting, queued, order, ctx, readContext, readNonce>>
           ELSE ReadSome(c.user, c.room, Tail(posted))
  BY DEF RunTimer
<1>2. PICK k, tl : k = Head(posted).ctx /\ tl = Tail(posted)
  OBVIOUS
<1>3. /\ tl \in Seq(PostedCalls) /\ CallsOf(tl) = CallsOf(posted) /\ WrapsOf(tl) = WrapsOf(posted)
      /\ TimersOf(posted) = <<Head(posted)>> \o TimersOf(tl) /\ Head(posted) = TimerCall(k)
      /\ SameCalls(posted, tl)
  BY <1>0, <1>1, <1>2, FrontIsOther, SameCallsTail
<1>4. /\ k \in 1..Len(ctx) /\ ReadJob(k) \in ToSet(finished)
      /\ \A n \in 1..MaxPolls : TimerCall(n) \in ToSet(TimersOf(tl) \o WakePoll) =>
           Waits(n) /\ n # k
  BY <1>0, <1>1, <1>2, FrontTimer DEF Waits
<1>5. ToSet(Timers) = {TimerCall(k)} \cup ToSet(TimersOf(tl) \o WakePoll)
  <2>1. TimersOf(tl) \in Seq(PostedCalls) /\ WakePoll \in Seq(PostedCalls)
        /\ <<TimerCall(k)>> \in Seq(PostedCalls) /\ TimerCall(k) \in PostedCalls
    <3>1. TimerCall(k) \in PostedCalls
      BY <1>0, <1>4, NotUserCalls
    <3> QED BY <1>0, <1>3, <3>1, KeepType, PostWakePoll, SingletonSeq DEF TimersOf
  <2>2. Timers = (<<TimerCall(k)>> \o TimersOf(tl)) \o WakePoll
    BY <1>3 DEF Timers
  <2>3. Timers = <<TimerCall(k)>> \o (TimersOf(tl) \o WakePoll)
    BY <2>1, <2>2, ConcatAssoc
  <2>4. TimersOf(tl) \o WakePoll \in Seq(PostedCalls)
    BY <2>1, ConcatElements
  <2>5. ToSet(<<TimerCall(k)>>) = {TimerCall(k)}
    BY <2>1, SingletonSeq
  <2> DEFINE a == <<TimerCall(k)>>
             r == TimersOf(tl) \o WakePoll
  <2>6. a \in Seq(PostedCalls) /\ r \in Seq(PostedCalls) /\ Timers = a \o r
    BY <2>1, <2>3, <2>4
  <2> HIDE DEF a, r
  <2>7. ToSet(a \o r) = ToSet(a) \cup ToSet(r)
    BY <2>6, ToSetConcat
  <2> QED BY <2>5, <2>6, <2>7 DEF a, r
<1>6. PICK v \in Reads : \E room : v = ctx[k].user /\ room = ctx[k].room
  <2>1. ctx[k] \in Contexts
    BY <1>0, <1>4
  <2> QED BY <2>1 DEF Contexts
<1>7. Live(k) /\ v \in Users /\ Owed(v) /\ Started(v)
  BY <1>4, <1>5, <1>6 DEF Live, Owed, OwedRead, Users, Started
<1>8. \A n \in 1..Len(ctx) :
        Polling(n) \/ TimerCall(n) \in ToSet(TimersOf(tl) \o WakePoll) => n # k /\ Live(n)
  <2>1. ~Polling(k)
    BY <1>4, FinishedNotPolling
  <2>2. \A n \in 1..Len(ctx) : n \in 1..MaxPolls
    BY <1>0
  <2> QED BY <1>4, <1>5, <2>1, <2>2 DEF Live
<1>9. \A n \in 1..Len(ctx) :
        Polling(n) \/ TimerCall(n) \in ToSet(TimersOf(tl) \o WakePoll) => ctx[n].user # v
  BY <1>4, <1>6, <1>7, <1>8 DEF OutcomeInv, LiveInv
<1>10. CASE ctx[k].canceled
  <2>1. /\ posted' = Append(tl, UserCall(v, "aborted")) /\ UNCHANGED <<waiting, queued, order, ctx>>
        /\ "aborted" \in Codes
    BY <1>1, <1>2, <1>6, <1>10 DEF Codes
  <2>2. /\ CallsOf(posted') = CallsOf(posted) /\ WrapsOf(posted') = WrapsOf(posted)
        /\ TimersOf(posted') = TimersOf(tl)
    BY <1>3, <1>7, <2>1, PostUser
  <2>3. Timers' = TimersOf(tl) \o WakePoll
    BY <1>1, <2>2 DEF Timers, WakePoll
  <2>4. \A n \in 1..Len(ctx) : Live(n)' => Live(n) /\ ctx[n].user # v
    <3>1. \A n : Polling(n)' => Polling(n)
      BY <1>1, <2>1, <2>2 DEF Polling, Invoking, Busy
    <3> QED BY <1>8, <1>9, <2>3, <3>1 DEF Live
  <2>5. NoNewPolls /\ NoNewJobs
    BY <1>1, <2>1, <2>4, SameUsersFrame DEF NoNewPolls, NoNewJobs
  <2>6. LiveInv' /\ (\A u : Owed(u)' => Owed(u))
    BY <1>1, <2>5, LiveFrame, JobsFrame DEF OutcomeInv, Owed, OwedWrite
  <2>7. ~Owed(v)'
    BY <2>1, <2>4, UsersAssumption DEF Owed, OwedTransmit, OwedRead, OwedWrite
  <2>8. SameCalls(Append(tl, UserCall(v, "aborted")), posted')
    BY <2>1 DEF SameCalls
  <2>9. OneAnswerInv'
    BY <1>0, <1>1, <1>3, <1>7, <2>1, <2>6, <2>7, <2>8, PostedStep DEF OutcomeInv
  <2>10. StartedGrows
    BY <1>1, <2>1, SameUsersFrame, StartedMono
  <2>11. ToSet(posted') \cap UserCalls \subseteq ToSet(posted) \cup {UserCall(v, "aborted")}
    <3>1. UserCall(v, "aborted") \in PostedCalls
      BY <1>7, <2>1, CallsInKinds, CallKinds
    <3>2. ToSet(posted') = ToSet(tl) \cup {UserCall(v, "aborted")}
      BY <1>3, <2>1, <3>1, ToSetAppend
    <3> QED BY <1>3, <3>2 DEF SameCalls
  <2>12. StartedInv'
    <3>1. Started(v)'
      BY <1>7, <2>10 DEF StartedGrows
    <3> QED BY <1>0, <1>1, <2>10, <2>11, <3>1, CallParts, StartedStep DEF OutcomeInv
  <2>13. KindInv'
    BY <2>1, KindFrame DEF OutcomeInv
  <2> QED BY <2>6, <2>9, <2>12, <2>13 DEF OutcomeInv
<1>11. CASE ~ctx[k].canceled
  <2>1. \E room : ReadSome(v, room, tl)
    BY <1>1, <1>2, <1>6, <1>11
  <2>2. \A n \in 1..MaxPolls : TimerCall(n) \in ToSet(TimersOf(tl) \o WakePoll) =>
          n <= Len(ctx) /\ TimerCall(n) \in ToSet(Timers)
    BY <1>4, <1>5 DEF Waits
  <2> QED BY <1>0, <1>1, <1>3, <1>7, <1>9, <2>1, <2>2, ReadSomeOutcome
<1> QED BY <1>10, <1>11

\* The poll that has the lock is in no other place.
LEMMA HolderAlone ==
  ASSUME IInv, waiting \in ReadJobs, waiting \notin ToSet(finished)
  PROVE  /\ waiting[3] \in 1..Len(ctx) /\ waiting = ReadJob(waiting[3]) /\ waiting[1] = "read"
         /\ waiting \notin ToSet(queued) /\ TimerCall(waiting[3]) \notin ToSet(Timers)
<1>1. waiting \in Jobs /\ waiting[1] = "read" /\ waiting[3] \in 1..MaxPolls /\ waiting = ReadJob(waiting[3])
  BY ReadJobParts
<1>2. waiting \in ToSet(order) /\ waiting \notin ToSet(queued)
  BY <1>1, Known, TurnParts
<1>3. waiting[3] <= Len(ctx) /\ Len(ctx) \in Nat
  BY <1>1, <1>2, Known DEF SequenceInv, InSequence
<1>4. TimerCall(waiting[3]) \notin ToSet(Timers)
  BY <1>1, Known DEF TimerInv, Waits
<1> QED BY <1>1, <1>2, <1>3, <1>4, BoundsAssumption

\* The poll that has the lock ends with an answer to its user.
LEMMA HolderAnswered ==
  ASSUME IInv, OutcomeInv, waiting \in ReadJobs, Invoking \/ Busy,
         NEW v, v = ctx[waiting[3]].user, ctx \in Seq(Contexts),
         SameUsers, Len(ctx') = Len(ctx), queued' = queued, ToSet(Timers') \subseteq ToSet(Timers),
         \A n : Polling(n)' => ReadJob(n) \in ToSet(queued)
  PROVE  /\ v \in Reads /\ Owed(v) /\ Started(v) /\ v \in Users
         /\ NoNewPolls /\ ~OwedRead(v)' /\ v \notin Transmits /\ v \notin Writes
<1>0. waiting \notin ToSet(finished)
  BY DEF Invoking, Busy
<1>1. PICK k \in 1..Len(ctx) : k = waiting[3]
  BY <1>0, HolderAlone
<1>2. /\ waiting = ReadJob(k) /\ ReadJob(k) \notin ToSet(queued) /\ TimerCall(k) \notin ToSet(Timers)
  BY <1>0, <1>1, HolderAlone
<1>3. v = ctx[k].user /\ v \in Reads
  <2>1. ctx[k] \in Contexts
    BY <1>1
  <2> QED BY <1>1, <2>1 DEF Contexts
<1>4. Live(k)
  BY <1>2 DEF Live, Polling
<1>5. \A n : Live(n)' => Live(n) /\ n # k
  BY <1>2 DEF Live, Polling
<1>6. v \in Users /\ v \notin Transmits /\ v \notin Writes
  BY <1>3, UsersAssumption DEF Users
<1>7. Owed(v) /\ Started(v)
  BY <1>3, <1>4 DEF Owed, OwedRead, Started
<1>8. NoNewPolls
  BY <1>5 DEF NoNewPolls
<1>9. ~OwedRead(v)'
  BY <1>1, <1>3, <1>4, <1>5 DEF OwedRead, OutcomeInv, LiveInv, SameUsers
<1> QED BY <1>3, <1>6, <1>7, <1>8, <1>9

\* A poll that was canceled before it began calls its handler.
LEMMA InvokeCanceledReadOutcome ==
  ASSUME IInv, OutcomeInv, InvokeCanceledRead
  PROVE  OutcomeInv'
<1>0. /\ TypeOK /\ Phase /\ posted \in Seq(PostedCalls) /\ ctx \in Seq(Contexts)
  BY Known
<1>1. /\ posted # <<>> /\ Head(posted).op = "invoke" /\ posted' = Tail(posted)
      /\ Head(posted).command[1] = "read"
      /\ Tell(ctx[Head(posted).command[3]].user, "aborted")
      /\ UNCHANGED <<waiting, queued, finished, removed, order, fs, ctx, writeHandler, pollTimer>>
  BY DEF InvokeCanceledRead, lockVars
<1>2. /\ Invoking /\ Head(posted).command = waiting /\ SameCalls(posted, posted')
      /\ CallsOf(posted') = <<>> /\ TimersOf(posted') = TimersOf(posted)
  BY <1>0, <1>1, FrontIsLock, SameCallsTail
<1>3. waiting \in ReadJobs /\ fs = Idle
  BY <1>1, <1>2, JobKinds DEF Invoking
<1>4. PICK v : v = ctx[waiting[3]].user
  OBVIOUS
<1>5. Timers' = Timers
  BY <1>1, <1>2, TimersKept
<1>6. \A n : Polling(n)' => ReadJob(n) \in ToSet(queued)
  <2>1. ~Invoking'
    BY <1>2 DEF Invoking
  <2>2. ~Busy'
    BY <1>1, <1>3, Operations DEF Busy
  <2> QED BY <1>1, <2>1, <2>2 DEF Polling
<1>7. SameUsers
  BY <1>1, SameUsersFrame
<1>8. /\ v \in Reads /\ Owed(v) /\ v \in Users
      /\ NoNewPolls /\ ~OwedRead(v)' /\ v \notin Transmits /\ v \notin Writes
  BY <1>0, <1>1, <1>2, <1>3, <1>4, <1>5, <1>6, <1>7, HolderAnswered
<1>9. NoNewJobs
  BY <1>1 DEF NoNewJobs
<1>10. LiveInv' /\ (\A u : Owed(u)' => Owed(u))
  BY <1>1, <1>8, <1>9, LiveFrame, JobsFrame DEF OutcomeInv, Owed, OwedWrite
<1>11. ~Owed(v)'
  BY <1>8 DEF Owed, OwedTransmit, OwedWrite
<1>12. "aborted" \in Codes
  BY DEF Codes
<1>13. OneAnswerInv'
  BY <1>0, <1>1, <1>2, <1>4, <1>8, <1>10, <1>11, <1>12, ToldStep DEF OutcomeInv
<1>14. KindInv'
  BY <1>1, KindFrame DEF OutcomeInv
<1>15. StartedInv'
  <2>1. StartedGrows
    BY <1>1, <1>7, StartedMono
  <2> QED BY <1>0, <1>1, <1>2, <2>1, StartedStep DEF OutcomeInv, SameCalls
<1> QED BY <1>10, <1>13, <1>14, <1>15 DEF OutcomeInv

\* A job gives its frame to the stream.
LEMMA InvokeJobOutcome ==
  ASSUME IInv, OutcomeInv, InvokeJob
  PROVE  OutcomeInv'
<1>0. TypeOK /\ Phase /\ posted \in Seq(PostedCalls)
  BY Known
<1>1. /\ posted # <<>> /\ Head(posted).op = "invoke" /\ posted' = Tail(posted)
      /\ UNCHANGED <<waiting, queued, finished, removed, order, ctx, writeHandler, pollTimer, outcome>>
  BY DEF InvokeJob, lockVars
<1>2. /\ Invoking /\ SameCalls(posted, posted') /\ TimersOf(posted') = TimersOf(posted)
  BY <1>0, <1>1, FrontIsLock, SameCallsTail
<1>3. \A n : Live(n)' => Live(n)
  BY <1>1, <1>2, TimersKept DEF Live, Polling
<1>4. NoNewPolls /\ NoNewJobs
  BY <1>1, <1>3, SameUsersFrame DEF NoNewPolls, NoNewJobs
<1> QED BY <1>1, <1>2, <1>4, QuietOutcome

\* A transmission has one job at a time.
LEMMA OneTransmitJob ==
  ASSUME IInv, OutcomeInv,
         NEW a \in ToSet(order) \ ToSet(finished), NEW j \in ToSet(order) \ ToSet(finished),
         a[1] \in {"block", "register"}, j[1] \in {"block", "register"}, a[2] = j[2]
  PROVE  a = j
<1>1. a \in Jobs /\ j \in Jobs
  BY Known, Types
<1>2. (a[1] = "register" <=> j[1] = "register")
  BY DEF OutcomeInv, KindInv
<1>3. CASE a[1] = "block"
  BY <1>1, <1>2, <1>3, JobKinds, BlockJobParts
<1>4. CASE a[1] = "register"
  <2>1. a \in RegisterJobs /\ j \in RegisterJobs
    BY <1>1, <1>2, <1>4, JobKinds
  <2>2. a[3] \in Nat \ {0} /\ j[3] \in Nat \ {0} /\ a = RegisterJob(a[2], a[3]) /\ j = RegisterJob(j[2], j[3])
    <3>1. ASSUME NEW b \in RegisterJobs PROVE b[3] \in Nat \ {0} /\ b = RegisterJob(b[2], b[3])
      BY RegisterJobParts
    <3> QED BY <2>1, <3>1
  <2>3. /\ \A i \in 1..(a[3] - 1) : RegisterJob(a[2], i) \in ToSet(finished)
        /\ \A i \in 1..(j[3] - 1) : RegisterJob(j[2], i) \in ToSet(finished)
    BY <1>2, <1>4, Known DEF SequenceInv, InSequence
  <2>4. ~(a[3] < j[3]) /\ ~(j[3] < a[3])
    BY <2>2, <2>3
  <2>5. a[3] = j[3]
    BY <2>2, <2>4
  <2> QED BY <2>2, <2>5
<1> QED BY <1>3, <1>4

\* The wrapper of a request: the sequence goes on, or its user is told.
LEMMA RunWrapOutcome ==
  ASSUME IInv, OutcomeInv, RunWrap
  PROVE  OutcomeInv'
<1>0. /\ TypeOK /\ Phase /\ posted \in Seq(PostedCalls) /\ queued \in Seq(Jobs)
      /\ finished \in Seq(Jobs) /\ order \in Seq(Jobs) /\ Turn(waiting, queued, finished, order)
  BY Known
<1>1. /\ posted # <<>> /\ Head(posted).op = "wrap"
      /\ UNCHANGED <<waiting, removed, fs, ctx, writeHandler, pollTimer, outcome>>
  BY DEF RunWrap, tunnelVars
<1>2. PICK tl, ec : tl = Tail(posted) /\ ec = Head(posted).ec
  OBVIOUS
<1>3. /\ tl \in Seq(PostedCalls) /\ TimersOf(tl) = TimersOf(posted) /\ SameCalls(posted, tl)
      /\ Wrapping /\ Head(posted).job = waiting /\ ec \in Codes
  BY <1>0, <1>1, <1>2, FrontIsWrap, SameCallsTail
<1>4. /\ waiting \in RegisterJobs /\ waiting \in Jobs /\ waiting \notin ToSet(finished)
      /\ waiting[1] = "register" /\ waiting[2] \in Transmits
  BY <1>3, RegisterJobParts DEF Wrapping
<1>5. waiting \in ToSet(order) \ ToSet(finished)
  BY <1>0, <1>4, TurnParts
<1>6. PICK c, i : c \in Transmits /\ c = waiting[2] /\ i = waiting[3]
  BY <1>4
<1>7. IF ec = "ok" /\ i < Len(Requests[c])
      THEN /\ queued' = Append(queued, RegisterJob(c, i + 1))
           /\ order' = Append(order, RegisterJob(c, i + 1))
           /\ Finish(waiting, tl)
      ELSE /\ Finish(waiting, Append(tl, UserCall(c, ec)))
           /\ UNCHANGED <<queued, order>>
  BY <1>2, <1>3, <1>6 DEF RunWrap
<1>8. c \in Users /\ Owed(c) /\ Started(c) /\ AnyReplies(c) /\ i \in 1..Len(Requests[c])
      /\ Len(Requests[c]) \in Nat
  <2>1. c \in Users /\ Owed(c)
    BY <1>4, <1>5, <1>6 DEF Users, Owed, OwedTransmit
  <2>2. AnyReplies(c)
    BY <1>4, <1>5, <1>6 DEF OutcomeInv, KindInv
  <2>3. i \in 1..Len(Requests[c]) /\ Len(Requests[c]) \in Nat /\ waiting = RegisterJob(c, i)
    BY <1>4, <1>6, RegisterJobParts
  <2>4. i = 1 \/ 1 \in 1..(i - 1)
    BY <2>3
  <2>5. RegisterJob(c, 1) \in ToSet(order)
    <3>1. \A m \in 1..(i - 1) : RegisterJob(c, m) \in ToSet(finished)
      BY <1>4, <1>5, <1>6, Known DEF SequenceInv, InSequence
    <3>2. ToSet(finished) \subseteq ToSet(order)
      BY <1>0, <1>4, TurnParts
    <3> QED BY <1>5, <2>3, <2>4, <3>1, <3>2
  <2> QED BY <1>6, <2>1, <2>2, <2>3, <2>5 DEF Started
<1>9. finished' = Append(finished, waiting) /\ ToSet(finished') = ToSet(finished) \cup {waiting}
  <2>1. finished' = Append(finished, waiting)
    BY <1>7 DEF Finish
  <2> QED BY <1>0, <1>4, <2>1, ToSetAppend
<1>10. \A n : waiting # ReadJob(n)
  BY <1>4, ReadJobParts
<1>11. CASE ec = "ok" /\ i < Len(Requests[c])
  <2>1. PICK next : next = RegisterJob(c, i + 1)
    OBVIOUS
  <2>2. /\ queued' = Append(queued, next) /\ order' = Append(order, next)
        /\ posted' = Append(tl, Lock!DoneCall)
    BY <1>7, <1>11, <2>1 DEF Finish
  <2>3. next \in Jobs /\ next[1] = "register" /\ next[2] = c /\ \A n : ReadJob(n) # next
    <3>1. i + 1 \in 1..Len(Requests[c])
      BY <1>8, <1>11
    <3> QED BY <1>6, <2>1, <3>1, RegisterJobParts, ReadJobParts
  <2>4. ToSet(queued') = ToSet(queued) \cup {next} /\ ToSet(order') = ToSet(order) \cup {next}
    BY <1>0, <2>2, <2>3, ToSetAppend
  <2>5. SameCalls(posted, posted') /\ TimersOf(posted') = TimersOf(posted)
    <3>1. SameCalls(tl, posted') /\ TimersOf(posted') = TimersOf(tl)
      BY <1>3, <2>2, NotUserCalls, SameCallsAppend, PostDone
    <3> QED BY <1>3, <3>1, SameCallsTrans
  <2>6. \A n : Live(n)' => Live(n)
    BY <1>1, <1>10, <2>3, <2>4, <2>5, TimersKept DEF Live, Polling
  <2>7. NoNewPolls
    BY <1>1, <2>6, SameUsersFrame DEF NoNewPolls
  <2>8. LiveInv' /\ (\A u : OwedRead(u)' => OwedRead(u))
    BY <2>7, LiveFrame DEF OutcomeInv
  <2>9. \A u \in Users : Owed(u)' => Owed(u)
    BY <1>1, <1>8, <1>9, <2>3, <2>4, <2>8 DEF Owed, OwedTransmit, OwedWrite
  <2>10. OneAnswerInv'
    BY <1>0, <1>1, <2>5, <2>9, QuietStep DEF OutcomeInv
  <2>11. KindInv'
    BY <1>8, <2>3, <2>4 DEF OutcomeInv, KindInv, AnyReplies
  <2>12. StartedGrows
    BY <1>1, <2>4, SameUsersFrame, StartedMono
  <2>13. StartedInv'
    BY <1>0, <1>1, <2>5, <2>12, StartedStep DEF OutcomeInv, SameCalls
  <2> QED BY <2>8, <2>10, <2>11, <2>13 DEF OutcomeInv
<1>12. CASE ~(ec = "ok" /\ i < Len(Requests[c]))
  <2>1. PICK ps : ps = Append(tl, UserCall(c, ec))
    OBVIOUS
  <2>2. posted' = Append(ps, Lock!DoneCall) /\ queued' = queued /\ order' = order
    BY <1>7, <1>12, <2>1 DEF Finish
  <2>3. ps \in Seq(PostedCalls) /\ TimersOf(ps) = TimersOf(tl)
    BY <1>3, <1>8, <2>1, PostUser
  <2>4. SameCalls(ps, posted') /\ TimersOf(posted') = TimersOf(posted)
    BY <1>3, <2>2, <2>3, NotUserCalls, SameCallsAppend, PostDone
  <2>5. \A n : Live(n)' => Live(n)
    BY <1>1, <1>10, <2>2, <2>4, TimersKept DEF Live, Polling
  <2>6. NoNewPolls /\ NoNewJobs
    BY <1>1, <1>9, <2>2, <2>5, SameUsersFrame DEF NoNewPolls, NoNewJobs
  <2>7. LiveInv' /\ (\A u : Owed(u)' => Owed(u))
    BY <1>1, <2>6, LiveFrame, JobsFrame DEF OutcomeInv, Owed, OwedWrite
  <2>8. ~Owed(c)'
    <3>1. \A j \in ToSet(order) \ ToSet(finished) :
            j[1] \in {"block", "register"} /\ j[2] = c => j = waiting
      BY <1>4, <1>5, <1>6, OneTransmitJob
    <3> QED BY <1>6, <1>9, <2>2, <3>1, UsersAssumption DEF Owed, OwedTransmit, OwedRead, OwedWrite
  <2>9. OneAnswerInv'
    BY <1>0, <1>1, <1>3, <1>8, <2>1, <2>4, <2>7, <2>8, PostedStep DEF OutcomeInv
  <2>10. KindInv'
    BY <2>2, KindFrame DEF OutcomeInv
  <2>11. StartedGrows
    BY <1>1, <2>2, SameUsersFrame, StartedMono
  <2>12. ToSet(posted') \cap UserCalls \subseteq ToSet(posted) \cup {UserCall(c, ec)}
    <3>1. UserCall(c, ec) \in PostedCalls
      BY <1>3, <1>8, CallsInKinds, CallKinds
    <3>2. ToSet(ps) = ToSet(tl) \cup {UserCall(c, ec)}
      BY <1>3, <2>1, <3>1, ToSetAppend
    <3> QED BY <1>3, <2>4, <3>2 DEF SameCalls
  <2>13. StartedInv'
    <3>1. Started(c)'
      BY <1>8, <2>11 DEF StartedGrows
    <3> QED BY <1>0, <1>1, <2>11, <2>12, <3>1, CallParts, StartedStep DEF OutcomeInv
  <2> QED BY <2>7, <2>9, <2>10, <2>13 DEF OutcomeInv
<1> QED BY <1>11, <1>12

\* While a job uses the stream no step can begin a poll but the lock's.
LEMMA BusyPolls ==
  ASSUME IInv, Busy, UNCHANGED <<waiting, queued>>, SameUsers, Len(ctx') = Len(ctx),
         \A n \in 1..Len(ctx) : TimerCall(n) \in ToSet(Timers') =>
           TimerCall(n) \in ToSet(Timers) \/ waiting = ReadJob(n)
  PROVE  NoNewPolls
BY DEF NoNewPolls, Live, Polling

\* The stream has written the frame of a job.
LEMMA WriteDoneOutcome ==
  ASSUME IInv, OutcomeInv, WriteDone
  PROVE  OutcomeInv'
<1>0. /\ TypeOK /\ Phase /\ posted \in Seq(PostedCalls) /\ finished \in Seq(Jobs)
      /\ order \in Seq(Jobs) /\ queued \in Seq(Jobs) /\ Turn(waiting, queued, finished, order)
  BY Known
<1>1. PICK ec \in {"ok", "error"} :
        /\ \/ WriteDoneForRegister(fs.job, ec) \/ WriteDoneForBlock(fs.job, ec)
           \/ WriteDoneForRead(fs.job, ec) \/ WriteDoneForWrite(fs.job, ec)
        /\ UNCHANGED <<waiting, queued, removed, order, ctx, pollTimer>> /\ fs.op = "write"
  BY DEF WriteDone
<1>2. Busy /\ waiting \in Jobs /\ waiting \notin ToSet(finished) /\ fs.job = waiting
  BY <1>0, <1>1, BusyWith
<1>3. ec \in Codes /\ SameCalls(posted, posted)
  BY DEF Codes, SameCalls
<1>4. SameUsers /\ Len(ctx') = Len(ctx) /\ ToSet(order') = ToSet(order)
  BY <1>1, SameUsersFrame
<1>5. CASE WriteDoneForRegister(waiting, ec)
  <2>1. waiting \in RegisterJobs
    BY <1>2, <1>5, JobKinds DEF WriteDoneForRegister
  <2>2. UNCHANGED <<finished, writeHandler, outcome>>
        /\ (posted' = posted \/ posted' = Append(posted, WrapCall(waiting, ec)))
    BY <1>5 DEF WriteDoneForRegister
  <2>3. SameCalls(posted, posted') /\ TimersOf(posted') = TimersOf(posted)
    <3>1. WrapCall(waiting, ec) \in PostedCalls \ UserCalls
      BY <1>3, <2>1, NotUserCalls
    <3>2. CASE posted' = posted
      BY <1>3, <3>2
    <3>3. CASE posted' = Append(posted, WrapCall(waiting, ec))
      <4>1. SameCalls(posted, posted')
        BY <1>0, <1>3, <3>1, <3>3, SameCallsAppend
      <4>2. TimersOf(posted') = TimersOf(posted)
        BY <1>0, <1>3, <2>1, <3>3, PostWrap
      <4> QED BY <4>1, <4>2
    <3> QED BY <2>2, <3>2, <3>3
  <2>4. NoNewPolls /\ NoNewJobs
    BY <1>1, <1>2, <1>4, <2>2, <2>3, TimersKept, BusyPolls DEF NoNewJobs
  <2> QED BY <1>1, <1>4, <2>2, <2>3, <2>4, QuietOutcome
<1>6. CASE WriteDoneForRead(waiting, ec)
  <2>1. UNCHANGED <<posted, finished, writeHandler, outcome>>
    BY <1>6 DEF WriteDoneForRead
  <2>2. NoNewPolls /\ NoNewJobs
    BY <1>1, <1>2, <1>4, <2>1, TimersKept, BusyPolls DEF NoNewJobs
  <2> QED BY <1>1, <1>3, <1>4, <2>1, <2>2, QuietOutcome
<1>7. ASSUME NEW v \in Users, Tell(v, ec), Finish(waiting, posted), Owed(v),
             writeHandler' \in {writeHandler, None},
             OwedTransmit(v)' => FALSE, OwedWrite(v)' => FALSE, v \notin Reads
      PROVE  OutcomeInv'
  <2>1. posted' = Append(posted, Lock!DoneCall) /\ finished' = Append(finished, waiting)
    BY <1>7 DEF Finish
  <2>2. SameCalls(posted, posted') /\ TimersOf(posted') = TimersOf(posted)
        /\ ToSet(finished') = ToSet(finished) \cup {waiting}
    BY <1>0, <1>2, <2>1, NotUserCalls, SameCallsAppend, PostDone, ToSetAppend
  <2>3. NoNewPolls /\ NoNewJobs
    BY <1>1, <1>2, <1>4, <2>2, TimersKept, BusyPolls DEF NoNewJobs
  <2>4. LiveInv' /\ (\A u : Owed(u)' => Owed(u))
    BY <1>7, <2>3, LiveFrame, JobsFrame, NoneAssumption DEF OutcomeInv, Owed, OwedWrite, Users
  <2>5. ~Owed(v)'
    BY <1>7 DEF Owed, OwedRead
  <2>6. OneAnswerInv'
    BY <1>0, <1>3, <1>7, <2>2, <2>4, <2>5, ToldStep DEF OutcomeInv
  <2>7. KindInv'
    BY <1>4, KindFrame DEF OutcomeInv
  <2>8. StartedGrows
    BY <1>1, <1>4, StartedMono
  <2>9. StartedInv'
    BY <1>0, <1>7, <2>2, <2>8, NoneAssumption, StartedStep DEF OutcomeInv, SameCalls, Users
  <2> QED BY <2>4, <2>6, <2>7, <2>9 DEF OutcomeInv
<1>8. CASE WriteDoneForBlock(waiting, ec)
  <2>1. waiting[1] = "block" /\ Tell(waiting[2], ec) /\ Finish(waiting, posted)
        /\ writeHandler' = writeHandler
    BY <1>8 DEF WriteDoneForBlock
  <2>2. PICK c \in Transmits : c = waiting[2]
    BY <1>2, <2>1, JobKinds, BlockJobParts
  <2>3. waiting \in ToSet(order) \ ToSet(finished)
    BY <1>0, <1>2, TurnParts
  <2>4. c \in Users /\ Owed(c) /\ c \notin Reads /\ c \notin Writes
    BY <2>1, <2>2, <2>3, UsersAssumption DEF Users, Owed, OwedTransmit
  <2>5. OwedTransmit(c)' => FALSE
    <3>1. \A j \in ToSet(order) \ ToSet(finished) :
            j[1] \in {"block", "register"} /\ j[2] = c => j = waiting
      BY <2>1, <2>2, <2>3, OneTransmitJob
    <3>2. ToSet(finished') = ToSet(finished) \cup {waiting}
      <4>1. finished' = Append(finished, waiting)
        BY <2>1 DEF Finish
      <4> QED BY <1>0, <1>2, <4>1, ToSetAppend
    <3> QED BY <1>1, <3>1, <3>2 DEF OwedTransmit
  <2>6. OwedWrite(c)' => FALSE
    BY <2>4 DEF OwedWrite
  <2> QED BY <1>7, <2>1, <2>2, <2>4, <2>5, <2>6
<1>9. CASE WriteDoneForWrite(waiting, ec)
  <2>1. writeHandler' = None /\ Finish(waiting, posted)
        /\ (IF writeHandler = None THEN outcome' = outcome ELSE Tell(writeHandler, ec))
    BY <1>9 DEF WriteDoneForWrite
  <2>2. CASE writeHandler = None
    <3>1. posted' = Append(posted, Lock!DoneCall) /\ finished' = Append(finished, waiting)
          /\ outcome' = outcome
      BY <2>1, <2>2 DEF Finish
    <3>2. SameCalls(posted, posted') /\ TimersOf(posted') = TimersOf(posted)
          /\ ToSet(finished') = ToSet(finished) \cup {waiting}
      BY <1>0, <1>2, <3>1, NotUserCalls, SameCallsAppend, PostDone, ToSetAppend
    <3>3. NoNewPolls /\ NoNewJobs
      BY <1>1, <1>2, <1>4, <3>2, TimersKept, BusyPolls DEF NoNewJobs
    <3> QED BY <1>1, <1>4, <2>1, <3>1, <3>2, <3>3, QuietOutcome
  <2>3. CASE writeHandler # None
    <3>1. PICK v \in Writes : v = writeHandler
      BY <1>0, <2>3 DEF TypeOK
    <3>2. v \in Users /\ Owed(v) /\ v \notin Reads /\ v \notin Transmits /\ v # None
      BY <3>1, UsersAssumption, NoneAssumption DEF Users, Owed, OwedWrite
    <3>3. (OwedTransmit(v)' => FALSE) /\ (OwedWrite(v)' => FALSE)
      BY <2>1, <3>2 DEF OwedTransmit, OwedWrite
    <3> QED BY <1>7, <2>1, <2>3, <3>1, <3>2, <3>3
  <2> QED BY <2>2, <2>3
<1> QED BY <1>1, <1>2, <1>5, <1>6, <1>8, <1>9

\* MaybeRetry ends the poll in progress: with an answer to its user, or with
\* the wait for poll_timer_.
LEMMA MaybeRetryOutcome ==
  ASSUME IInv, OutcomeInv, fs.op = "read", NEW n \in 1..Len(ctx), waiting = ReadJob(n),
         NEW cs, SameContexts(ctx, cs), MaybeRetry(n, cs, posted), fs' = Idle,
         UNCHANGED <<waiting, queued, removed, order, writeHandler, outcome>>
  PROVE  OutcomeInv'
<1>0. /\ TypeOK /\ Phase /\ posted \in Seq(PostedCalls) /\ finished \in Seq(Jobs)
      /\ ctx \in Seq(Contexts) /\ Len(ctx) \in Nat
  BY Known
<1>1. Busy /\ waiting \in Jobs /\ waiting \notin ToSet(finished) /\ fs.job = waiting
  BY <1>0, BusyWith
<1>2. waiting \in ReadJobs /\ waiting[3] = n
  BY <1>1, JobKinds, ReadJobParts
<1>3. PICK c \in Contexts : c = cs[n]
  BY DEF SameContexts
<1>4. PICK v \in Reads : v = c.user /\ v = ctx[n].user
  BY <1>3 DEF SameContexts, SameContext, Contexts
<1>5. c.bytes \in Nat /\ "ok" \in Codes /\ "aborted" \in Codes /\ v \in Users
  BY <1>3, <1>4 DEF Contexts, Codes, Users
<1>6. SameUsers /\ Len(ctx') = Len(ctx)
  BY DEF SameUsers, SameContexts, SameContext, MaybeRetry
<1>7. finished' = Append(finished, waiting)
      /\ pollTimer' = (IF ~c.canceled /\ c.bytes = 0 THEN n ELSE pollTimer)
      /\ posted' = Append(IF c.canceled THEN Append(posted, UserCall(v, "aborted"))
                          ELSE IF c.bytes > 0 THEN Append(posted, UserCall(v, "ok"))
                          ELSE posted, Lock!DoneCall)
  BY <1>3, <1>4 DEF MaybeRetry, Finish
<1>8. NoNewJobs
  <2>1. ToSet(finished') = ToSet(finished) \cup {waiting}
    BY <1>0, <1>1, <1>7, ToSetAppend
  <2> QED BY <2>1 DEF NoNewJobs
<1>9. CASE ~c.canceled /\ c.bytes = 0
  <2>1. pollTimer' = n /\ posted' = Append(posted, Lock!DoneCall)
    BY <1>7, <1>9
  <2>2. SameCalls(posted, posted') /\ TimersOf(posted') = TimersOf(posted)
    BY <1>0, <2>1, NotUserCalls, SameCallsAppend, PostDone
  <2>3. \A m \in 1..Len(ctx) : TimerCall(m) \in ToSet(Timers') =>
          TimerCall(m) \in ToSet(Timers) \/ waiting = ReadJob(m)
    <3>1. n \in 1..MaxPolls /\ n # None
      BY <1>0, BoundsAssumption, NoneAssumption DEF TypeOK
    <3>2. Timers' = TimersOf(posted) \o <<TimerCall(n)>>
      BY <2>1, <2>2, <3>1 DEF Timers, WakePoll
    <3>3. TimersOf(posted) \in Seq(PostedCalls) /\ WakePoll \in Seq(PostedCalls)
          /\ TimerCall(n) \in PostedCalls
      BY <1>0, <3>1, KeepType, PostWakePoll, CallsInKinds, CallKinds DEF TimersOf
    <3>4. <<TimerCall(n)>> \in Seq(PostedCalls) /\ ToSet(<<TimerCall(n)>>) = {TimerCall(n)}
      BY <3>3, SingletonSeq
    <3>5. ToSet(Timers') = ToSet(TimersOf(posted)) \cup {TimerCall(n)}
      <4>1. PICK ts \in Seq(PostedCalls) : ts = TimersOf(posted)
        BY <3>3
      <4>2. PICK t \in Seq(PostedCalls) : t = <<TimerCall(n)>>
        BY <3>4
      <4>3. ToSet(ts \o t) = ToSet(ts) \cup ToSet(t)
        BY ToSetConcat
      <4> QED BY <3>2, <3>4, <4>1, <4>2, <4>3
    <3>6. ToSet(TimersOf(posted)) \subseteq ToSet(Timers)
      BY <3>3, ToSetConcat DEF Timers
    <3>7. \A m : TimerCall(m) = TimerCall(n) => m = n
      BY CallParts
    <3> QED BY <3>5, <3>6, <3>7
  <2>4. NoNewPolls
    BY <1>1, <1>6, <2>3, BusyPolls
  <2> QED BY <1>8, <2>2, <2>4, QuietOutcome
<1>10. CASE c.canceled \/ c.bytes > 0
  <2>1. PICK ec \in Codes : posted' = Append(Append(posted, UserCall(v, ec)), Lock!DoneCall)
    BY <1>5, <1>7, <1>10
  <2>2. pollTimer' = pollTimer
    BY <1>5, <1>7, <1>10
  <2> DEFINE ps == Append(posted, UserCall(v, ec))
  <2>3. ps \in Seq(PostedCalls) /\ TimersOf(ps) = TimersOf(posted)
    BY <1>0, <1>5, PostUser
  <2>4. ToSet(ps) = ToSet(posted) \cup {UserCall(v, ec)}
    <3>1. UserCall(v, ec) \in PostedCalls
      BY <1>5, CallsInKinds, CallKinds
    <3> QED BY <1>0, <3>1, ToSetAppend
  <2>5. posted' = Append(ps, Lock!DoneCall)
    BY <2>1
  <2>6. SameCalls(posted, posted)
    BY DEF SameCalls
  <2>7. OneAnswerInv /\ LiveInv /\ KindInv /\ StartedInv
    BY DEF OutcomeInv
  <2> HIDE DEF ps
  <2>8. SameCalls(ps, posted') /\ Timers' = Timers
    <3>1. SameCalls(ps, posted') /\ TimersOf(posted') = TimersOf(ps)
      BY <2>3, <2>5, NotUserCalls, SameCallsAppend, PostDone
    <3> QED BY <2>2, <2>3, <3>1, TimersKept
  <2>9. \A m : Polling(m)' => ReadJob(m) \in ToSet(queued)
    <3>1. ~Invoking' /\ ~Busy'
      <4>1. waiting' \in ToSet(finished')
        BY <1>0, <1>1, <1>7, ToSetAppend
      <4> QED BY <4>1 DEF Invoking, Busy
    <3> QED BY <3>1 DEF Polling
  <2>10. /\ Owed(v) /\ Started(v) /\ NoNewPolls /\ ~OwedRead(v)' /\ v \notin Transmits /\ v \notin Writes
    BY <1>0, <1>1, <1>2, <1>4, <1>6, <2>8, <2>9, HolderAnswered
  <2>11. LiveInv' /\ (\A u : Owed(u)' => Owed(u))
    BY <1>8, <2>7, <2>10, LiveFrame, JobsFrame DEF Owed, OwedWrite
  <2>12. ~Owed(v)'
    BY <2>10 DEF Owed, OwedTransmit, OwedWrite
  <2>13. OneAnswerInv'
    BY <1>0, <1>5, <2>6, <2>7, <2>8, <2>10, <2>11, <2>12, PostedStep DEF ps
  <2>14. KindInv'
    BY <2>7, KindFrame
  <2>15. StartedInv'
    <3>1. StartedGrows
      BY <1>6, StartedMono
    <3>2. Started(v)'
      BY <1>5, <2>10, <3>1 DEF StartedGrows
    <3>3. \A p \in ToSet(posted') \cap UserCalls : p \in ToSet(posted) \/ p = UserCall(v, ec)
      BY <2>4, <2>8 DEF SameCalls
    <3> QED BY <1>0, <2>7, <3>1, <3>2, <3>3, CallParts, StartedStep
  <2> QED BY <2>11, <2>13, <2>14, <2>15 DEF OutcomeInv
<1> QED BY <1>5, <1>9, <1>10

\* The answer to a request, or its timeout: the wrapper is posted.
LEMMA ReadDoneForRegisterOutcome ==
  ASSUME IInv, OutcomeInv, fs.op = "read", NEW frame, ReadDoneForRegister(waiting, frame),
         UNCHANGED <<waiting, queued, removed, order, writeHandler, outcome>>
  PROVE  OutcomeInv'
<1>0. /\ TypeOK /\ Phase /\ posted \in Seq(PostedCalls)
  BY Known
<1>1. Busy /\ waiting \in Jobs /\ waiting \notin ToSet(finished) /\ fs.job = waiting
  BY <1>0, BusyWith
<1>2. waiting \in RegisterJobs /\ UNCHANGED <<finished, ctx, pollTimer>>
  BY <1>1, JobKinds DEF ReadDoneForRegister
<1>3. "ok" \in Codes /\ "aborted" \in Codes
  BY DEF Codes
<1>4. posted' = posted \/ \E ec \in Codes : posted' = Append(posted, WrapCall(waiting, ec))
  BY <1>3 DEF ReadDoneForRegister
<1>5. SameCalls(posted, posted') /\ TimersOf(posted') = TimersOf(posted)
  <2>1. CASE posted' = posted
    BY <2>1 DEF SameCalls
  <2>2. ASSUME NEW ec \in Codes, posted' = Append(posted, WrapCall(waiting, ec))
        PROVE  SameCalls(posted, posted') /\ TimersOf(posted') = TimersOf(posted)
    <3>1. WrapCall(waiting, ec) \in PostedCalls \ UserCalls
      BY <1>2, NotUserCalls
    <3>2. SameCalls(posted, posted')
      BY <1>0, <2>2, <3>1, SameCallsAppend
    <3>3. TimersOf(posted') = TimersOf(posted)
      BY <1>0, <1>2, <2>2, PostWrap
    <3> QED BY <3>2, <3>3
  <2> QED BY <1>4, <2>1, <2>2
<1>6. SameUsers /\ Len(ctx') = Len(ctx)
  BY <1>2, SameUsersFrame
<1>7. Timers' = Timers
  BY <1>2, <1>5, TimersKept
<1>8. NoNewPolls /\ NoNewJobs
  BY <1>1, <1>2, <1>6, <1>7, BusyPolls DEF NoNewJobs
<1> QED BY <1>5, <1>8, QuietOutcome

\* The answer to a poll, or its timeout.
LEMMA ReadDoneForReadOutcome ==
  ASSUME IInv, OutcomeInv, fs.op = "read", NEW frame, frame = None \/ frame \in Frames,
         ReadDoneForRead(waiting, frame),
         UNCHANGED <<waiting, queued, removed, order, writeHandler, outcome>>
  PROVE  OutcomeInv'
<1>0. /\ TypeOK /\ Phase /\ posted \in Seq(PostedCalls)
  BY Known
<1>1. Busy /\ waiting \in Jobs /\ waiting \notin ToSet(finished) /\ fs.job = waiting
  BY <1>0, BusyWith
<1>2. waiting[1] = "read" /\ waiting \in ReadJobs
  BY <1>1, JobKinds DEF ReadDoneForRead
<1>3. PICK n \in 1..Len(ctx) : waiting = ReadJob(n)
  BY <1>1, <1>2, HolderAlone
<1>4. PICK cs : /\ SameContexts(ctx, cs)
                /\ \/ MaybeRetry(n, cs, posted) /\ fs' = Idle
                   \/ /\ ctx' = cs /\ fs' = Reading(waiting)
                      /\ UNCHANGED <<posted, finished, readContext, pollTimer, delivered>>
  BY <1>0, <1>2, <1>3, ReadDoneForReadCases
<1>5. CASE MaybeRetry(n, cs, posted) /\ fs' = Idle
  BY <1>3, <1>4, <1>5, MaybeRetryOutcome
<1>6. CASE ctx' = cs /\ UNCHANGED <<posted, finished, readContext, pollTimer, delivered>>
  <2>1. SameUsers /\ Len(ctx') = Len(ctx)
    <3>1. Len(ctx) \in Nat
      BY Known
    <3>2. Len(cs) = Len(ctx) /\ \A m \in 1..Len(ctx) : cs[m].user = ctx[m].user
      BY <1>4 DEF SameContexts, SameContext
    <3> QED BY <1>6, <3>1, <3>2 DEF SameUsers
  <2>2. Timers' = Timers /\ SameCalls(posted, posted')
    BY <1>6, TimersKept DEF SameCalls
  <2>3. NoNewPolls /\ NoNewJobs
    BY <1>1, <1>6, <2>1, <2>2, BusyPolls DEF NoNewJobs
  <2> QED BY <1>6, <2>2, <2>3, QuietOutcome
<1> QED BY <1>4, <1>5, <1>6

\* A read of the frame stream ends.
LEMMA ReadDoneOutcome ==
  ASSUME IInv, OutcomeInv, ReadDone
  PROVE  OutcomeInv'
<1>1. fs.op = "read" /\ UNCHANGED <<waiting, queued, removed, order, writeHandler, outcome>>
  BY DEF ReadDone
<1>2. TypeOK /\ Phase /\ inbox \in Seq(Frames)
  BY Known DEF TypeOK
<1>3. fs.job = waiting
  BY <1>1, <1>2, BusyWith
<1>4. PICK frame : /\ frame = None \/ frame \in Frames
                   /\ ReadDoneForRegister(waiting, frame) \/ ReadDoneForRead(waiting, frame)
  <2>1. inbox # <<>> => Head(inbox) \in Frames
    BY <1>2, ConcatHeadTail
  <2> QED BY <1>3, <2>1 DEF ReadDone
<1> QED BY <1>1, <1>4, ReadDoneForRegisterOutcome, ReadDoneForReadOutcome

\* One handler that cancel() posts.
LEMMA AbortCall ==
  ASSUME NEW v \in Users
  PROVE  /\ <<UserCall(v, "aborted")>> \in Seq(PostedCalls)
         /\ ToSet(<<UserCall(v, "aborted")>>) = {UserCall(v, "aborted")}
         /\ UserCall(v, "aborted").who = v
         /\ \A u \in Users : Coming(u, <<UserCall(v, "aborted")>>) = (IF u = v THEN 1 ELSE 0)
<1>0. "aborted" \in Codes
  BY DEF Codes
<1>1. UserCall(v, "aborted") \in PostedCalls
  BY <1>0, CallsInKinds, CallKinds
<1>2. \A u \in Users : Coming(u, <<UserCall(v, "aborted")>>) = (IF u = v THEN 1 ELSE 0)
  BY <1>0, ComingOne
<1> QED BY <1>1, <1>2, SingletonSeq, CallParts

\* The handler of the read that cancel() takes from the queue.
AbortedRead(u) == readNonce \in ToSet(queued) /\ u = ctx[readContext].user
LEMMA AbortReadCalls ==
  ASSUME IInv
  PROVE  /\ \A u : AbortedRead(u) => /\ u \in Reads /\ readContext \in 1..Len(ctx)
                                     /\ readNonce = ReadJob(readContext)
         /\ AbortRead \in Seq(PostedCalls)
         /\ \A u \in Users : Coming(u, AbortRead) = (IF AbortedRead(u) THEN 1 ELSE 0)
         /\ \A p \in ToSet(AbortRead) : AbortedRead(p.who)
<1>0. /\ TypeOK /\ NonceInv /\ None \notin ToSet(queued)
      /\ ctx \in Seq(Contexts) /\ <<>> \in Seq(PostedCalls)
  BY Known, Types, NoneAssumption, EmptyIsSeq
<1>1. CASE readNonce \notin ToSet(queued)
  <2>1. AbortRead = <<>> /\ \A u : ~AbortedRead(u)
    BY <1>1 DEF AbortRead, AbortedRead
  <2>2. \A u \in Users : Coming(u, <<>>) = 0
    BY ComingOne
  <2> QED BY <1>0, <2>1, <2>2, ToSetEmpty
<1>2. CASE readNonce \in ToSet(queued)
  <2>1. readContext \in 1..Len(ctx) /\ readNonce = ReadJob(readContext)
    BY <1>0, <1>2 DEF NonceInv, TypeOK
  <2>2. ctx[readContext] \in Contexts
    BY <1>0, <2>1
  <2>3. PICK v \in Reads : v = ctx[readContext].user
    BY <2>2 DEF Contexts
  <2>4. \A u : AbortedRead(u) <=> u = v
    BY <1>2, <2>3 DEF AbortedRead
  <2>5. AbortRead = <<UserCall(v, "aborted")>> /\ v \in Users
    BY <1>2, <2>3 DEF AbortRead, Users
  <2> QED BY <2>1, <2>4, <2>5, AbortCall
<1> QED BY <1>1, <1>2

\* The handler of the write that cancel() takes from the queue.
AbortedWrite(u) == writeNonce \in ToSet(queued) /\ u = writeHandler
LEMMA AbortWriteCalls ==
  ASSUME IInv
  PROVE  /\ \A u : AbortedWrite(u) => u \in Writes
         /\ AbortWrite \in Seq(PostedCalls)
         /\ \A u \in Users : Coming(u, AbortWrite) = (IF AbortedWrite(u) THEN 1 ELSE 0)
         /\ \A p \in ToSet(AbortWrite) : AbortedWrite(p.who)
<1>0. TypeOK /\ NonceInv /\ None \notin ToSet(queued) /\ <<>> \in Seq(PostedCalls)
  BY Known, Types, NoneAssumption, EmptyIsSeq
<1>1. CASE writeNonce \notin ToSet(queued)
  <2>1. AbortWrite = <<>> /\ \A u : ~AbortedWrite(u)
    BY <1>1 DEF AbortWrite, AbortedWrite
  <2>2. \A u \in Users : Coming(u, <<>>) = 0
    BY ComingOne
  <2> QED BY <1>0, <2>1, <2>2, ToSetEmpty
<1>2. CASE writeNonce \in ToSet(queued)
  <2>1. PICK v \in Writes : v = writeHandler
    BY <1>0, <1>2 DEF NonceInv, TypeOK
  <2>2. \A u : AbortedWrite(u) <=> u = v
    BY <1>2, <2>1 DEF AbortedWrite
  <2>3. AbortWrite = <<UserCall(v, "aborted")>> /\ v \in Users
    BY <1>2, <2>1 DEF AbortWrite, Users
  <2> QED BY <2>1, <2>2, <2>3, AbortCall
<1> QED BY <1>1, <1>2

\* What cancel() posts, user by user.
LEMMA CancelCalls ==
  ASSUME IInv, posted' = ((posted \o AbortRead) \o WakePoll) \o AbortWrite
  PROVE  /\ \A u \in Users :
              Coming(u, posted') = Coming(u, posted) + (IF AbortedRead(u) \/ AbortedWrite(u) THEN 1 ELSE 0)
         /\ \A p \in ToSet(posted') \cap UserCalls :
              p \in ToSet(posted) \/ AbortedRead(p.who) \/ AbortedWrite(p.who)
         /\ CallsOf(posted') = CallsOf(posted) /\ WrapsOf(posted') = WrapsOf(posted)
         /\ TimersOf(posted') = Timers
<1>0. TypeOK /\ NonceInv /\ posted \in Seq(PostedCalls)
  BY Known
<1>1. PICK a \in Seq(PostedCalls) : a = AbortRead
  BY AbortReadCalls
<1>2. PICK w \in Seq(PostedCalls) : w = WakePoll
  BY <1>0, PostWakePoll
<1>3. PICK b \in Seq(PostedCalls) : b = AbortWrite
  BY AbortWriteCalls
<1>4. PICK p \in Seq(PostedCalls) : p = posted \o a
  BY <1>0, ConcatElements
<1>5. PICK q \in Seq(PostedCalls) : q = p \o w
  BY ConcatElements
<1>6. posted' = q \o b
  BY <1>1, <1>2, <1>3, <1>4, <1>5
<1>7. ToSet(posted') = ToSet(posted) \cup ToSet(a) \cup ToSet(w) \cup ToSet(b)
  <2>1. ToSet(p) = ToSet(posted) \cup ToSet(a)
    BY <1>0, <1>4, ToSetConcat
  <2>2. ToSet(q) = ToSet(p) \cup ToSet(w)
    BY <1>5, ToSetConcat
  <2>3. ToSet(posted') = ToSet(q) \cup ToSet(b)
    BY <1>6, ToSetConcat
  <2> QED BY <2>1, <2>2, <2>3
<1>8. ToSet(w) \cap UserCalls = {} /\ \A u \in Users : Coming(u, w) = 0
  <2>1. CASE pollTimer = None
    <3>1. w = <<>>
      BY <1>2, <2>1 DEF WakePoll
    <3> QED BY <3>1, ToSetEmpty, ComingOne
  <2>2. CASE pollTimer # None
    <3>1. pollTimer \in 1..MaxPolls
      <4>1. pollTimer \in 1..Len(ctx) /\ Len(ctx) <= MaxPolls
        BY <1>0, <2>2 DEF TypeOK
      <4>2. Len(ctx) \in Nat /\ MaxPolls \in Nat
        BY Known, BoundsAssumption
      <4> QED BY <4>1, <4>2
    <3>2. TimerCall(pollTimer) \in PostedCalls \ UserCalls
      BY <3>1, NotUserCalls
    <3>3. w = <<TimerCall(pollTimer)>>
      BY <1>2, <2>2 DEF WakePoll
    <3> QED BY <3>2, <3>3, SingletonSeq, ComingOne
  <2> QED BY <2>1, <2>2
<1>9. ASSUME NEW u \in Users
      PROVE  Coming(u, posted') = Coming(u, posted) + (IF AbortedRead(u) \/ AbortedWrite(u) THEN 1 ELSE 0)
  <2>1. Coming(u, p) = Coming(u, posted) + Coming(u, a) /\ Coming(u, posted) \in Nat
    BY <1>0, <1>4, ComingConcat
  <2>2. Coming(u, q) = Coming(u, p) + Coming(u, w)
    BY <1>5, ComingConcat
  <2>3. Coming(u, posted') = Coming(u, q) + Coming(u, b)
    BY <1>6, ComingConcat
  <2>4. Coming(u, a) = (IF AbortedRead(u) THEN 1 ELSE 0)
    BY <1>1, AbortReadCalls
  <2>5. Coming(u, b) = (IF AbortedWrite(u) THEN 1 ELSE 0)
    BY <1>3, AbortWriteCalls
  <2>6. ~(AbortedRead(u) /\ AbortedWrite(u))
    BY AbortReadCalls, AbortWriteCalls, UsersAssumption
  <2>7. Coming(u, w) = 0
    BY <1>8
  <2> QED BY <2>1, <2>2, <2>3, <2>4, <2>5, <2>6, <2>7
<1>10. \A x \in ToSet(posted') \cap UserCalls :
         x \in ToSet(posted) \/ AbortedRead(x.who) \/ AbortedWrite(x.who)
  BY <1>1, <1>3, <1>7, <1>8, AbortReadCalls, AbortWriteCalls
<1>11. /\ CallsOf(posted') = CallsOf(posted) /\ WrapsOf(posted') = WrapsOf(posted)
       /\ TimersOf(posted') = Timers
  <2>1. /\ a = <<>> \/ \E u \in Users, ec \in Codes : a = <<UserCall(u, ec)>>
        /\ b = <<>> \/ \E u \in Users, ec \in Codes : b = <<UserCall(u, ec)>>
    BY <1>0, <1>1, <1>3, CancelPosts
  <2>2. CallsOf(p) = CallsOf(posted) /\ WrapsOf(p) = WrapsOf(posted) /\ TimersOf(p) = TimersOf(posted)
    BY <1>0, <1>4, <2>1, PostMaybeUser
  <2>3. CallsOf(q) = CallsOf(p) /\ WrapsOf(q) = WrapsOf(p) /\ TimersOf(q) = TimersOf(p) \o WakePoll
    BY <1>0, <1>2, <1>5, PostWakePoll
  <2>4. CallsOf(q \o b) = CallsOf(q) /\ WrapsOf(q \o b) = WrapsOf(q) /\ TimersOf(q \o b) = TimersOf(q)
    BY <2>1, PostMaybeUser
  <2> QED BY <1>6, <2>2, <2>3, <2>4 DEF Timers
<1> QED BY <1>9, <1>10, <1>11

\* cancel(): the handlers of the operations whose jobs leave the queue.
LEMMA CancelOutcome ==
  ASSUME IInv, OutcomeInv, Cancel
  PROVE  OutcomeInv'
<1> DEFINE gone == {readNonce, writeNonce} \cap ToSet(queued)
<1>0. /\ TypeOK /\ posted \in Seq(PostedCalls) /\ Turn(waiting, queued, finished, order)
      /\ waiting \in Jobs \cup {None} /\ queued \in Seq(Jobs) /\ finished \in Seq(Jobs)
      /\ order \in Seq(Jobs) /\ TimerInv /\ ctx \in Seq(Contexts) /\ Len(ctx) \in Nat
      /\ Len(ctx) <= MaxPolls /\ MaxPolls \in Nat
  BY Known, BoundsAssumption DEF TypeOK
<1>1. /\ ctx' = IF readContext # None THEN [ctx EXCEPT ![readContext].canceled = TRUE] ELSE ctx
      /\ queued' = Without(queued, gone) /\ order' = Without(order, gone)
      /\ removed' = removed \cup gone
      /\ posted' = ((posted \o AbortRead) \o WakePoll) \o AbortWrite
      /\ pollTimer' = None /\ writeHandler' = None
      /\ UNCHANGED <<waiting, finished, fs, outcome>>
  BY DEF Cancel
<1>2. /\ ToSet(queued') = ToSet(queued) \ gone /\ ToSet(order') = ToSet(order) \ gone
  <2> DEFINE wq == Without(queued, gone)
             wo == Without(order, gone)
  <2>1. gone \in SUBSET ToSet(queued)
    OBVIOUS
  <2> HIDE DEF gone
  <2>2. ToSet(wq) = ToSet(queued) \ gone /\ ToSet(wo) = ToSet(order) \ gone
    <3>1. /\ waiting \in Jobs \cup {None} /\ queued \in Seq(Jobs) /\ finished \in Seq(Jobs)
          /\ order \in Seq(Jobs) /\ Turn(waiting, queued, finished, order)
      BY <1>0
    <3>2. /\ Turn(waiting, wq, finished, wo) /\ wq \in Seq(Jobs) /\ wo \in Seq(Jobs)
          /\ ToSet(wq) = ToSet(queued) \ gone /\ ToSet(wo) = ToSet(order) \ gone
      BY <2>1, <3>1, TurnRemove, SMTT(60)
    <3> QED BY <3>2
  <2>3. queued' = wq /\ order' = wo
    BY <1>1
  <2> HIDE DEF wq, wo
  <2> QED BY <2>2, <2>3
<1>3. \A j \in gone : j[1] \in {"read", "write"} /\ j \in Jobs
  <2>1. ToSet(queued) \subseteq Jobs /\ None \notin ToSet(queued)
    BY <1>0, Types, NoneAssumption
  <2>2. readNonce \in ReadJobs \cup {None} /\ writeNonce \in WriteJobs \cup {None}
    BY <1>0 DEF TypeOK
  <2> QED BY <2>1, <2>2, ReadJobParts, WriteJobParts
<1> HIDE DEF gone
<1>4. /\ \A u \in Users :
           Coming(u, posted') = Coming(u, posted) + (IF AbortedRead(u) \/ AbortedWrite(u) THEN 1 ELSE 0)
      /\ \A p \in ToSet(posted') \cap UserCalls :
           p \in ToSet(posted) \/ AbortedRead(p.who) \/ AbortedWrite(p.who)
      /\ CallsOf(posted') = CallsOf(posted) /\ WrapsOf(posted') = WrapsOf(posted)
      /\ TimersOf(posted') = Timers
  BY <1>1, CancelCalls
<1>5. Timers' = Timers
  <2>1. WakePoll' = <<>>
    BY <1>1 DEF WakePoll
  <2>2. Timers \in Seq(PostedCalls)
    BY <1>0, KeepType, PostWakePoll, ConcatElements DEF Timers, TimersOf
  <2>3. Timers \o <<>> = Timers
    BY <2>2, ConcatEmpty
  <2>4. Timers' = TimersOf(posted') \o WakePoll'
    BY DEF Timers
  <2> QED BY <1>4, <2>1, <2>3, <2>4
<1>6. SameUsers /\ Len(ctx') = Len(ctx)
  <2>1. CASE readContext = None
    BY <1>1, <2>1, SameUsersFrame
  <2>2. CASE readContext # None
    <3>1. readContext \in 1..Len(ctx)
      BY <1>0, <2>2 DEF TypeOK
    <3> DEFINE c == [ctx[readContext] EXCEPT !.canceled = TRUE]
    <3>2. ctx[readContext] \in Contexts
      BY <1>0, <3>1
    <3>3. c \in Contexts /\ c.user = ctx[readContext].user
      BY <3>2 DEF Contexts
    <3>4. ctx' = [ctx EXCEPT ![readContext] = c]
      BY <1>1, <2>2
    <3> HIDE DEF c
    <3>5. /\ Len(ctx') = Len(ctx) /\ ctx'[readContext] = c
          /\ \A m \in 1..Len(ctx) : m # readContext => ctx'[m] = ctx[m]
      BY <1>0, <3>1, <3>3, <3>4, ReplaceContext
    <3>6. \A m \in 1..Len(ctx) : ctx'[m].user = ctx[m].user
      BY <3>3, <3>5
    <3>7. Len(ctx') = Len(ctx) /\ Len(ctx) \in Nat /\ Len(ctx) <= Len(ctx')
      BY <1>0, <3>5
    <3> QED BY <3>6, <3>7 DEF SameUsers
  <2> QED BY <2>1, <2>2
<1>7. \A n : Live(n)' => Live(n)
  <2>1. Invoking' \/ Busy' => Invoking \/ Busy
    BY <1>1, <1>4 DEF Invoking, Busy
  <2> QED BY <1>1, <1>2, <1>5, <2>1 DEF Live, Polling
<1>8. NoNewPolls /\ NoNewJobs
  BY <1>1, <1>2, <1>6, <1>7 DEF NoNewPolls, NoNewJobs
<1>9. LiveInv' /\ (\A u \in Users : Owed(u)' => Owed(u))
  <2>1. \A u \in Users : ~OwedWrite(u)'
    BY <1>1, NoneAssumption DEF OwedWrite
  <2>2. LiveInv
    BY DEF OutcomeInv
  <2> QED BY <1>8, <2>1, <2>2, LiveFrame, JobsFrame DEF Owed
<1>10. ASSUME NEW u \in Users, AbortedRead(u)
       PROVE  Owed(u) /\ ~Owed(u)' /\ Started(u)
  <2>1. PICK k \in 1..Len(ctx) : k = readContext
    BY <1>10, AbortReadCalls
  <2>2. u \in Reads /\ ctx[k].user = u /\ ReadJob(k) = readNonce /\ ReadJob(k) \in ToSet(queued)
    BY <1>10, <2>1, AbortReadCalls DEF AbortedRead
  <2>3. Live(k)
    BY <2>2 DEF Live, Polling
  <2>4. ~Live(k)'
    <3>1. ReadJob(k) \notin ToSet(queued')
      BY <1>2, <2>2 DEF gone
    <3>2. ReadJob(k) # waiting
      <4>1. ReadJob(k) # None
        BY <1>0, <2>2, Types, NoneAssumption
      <4> QED BY <1>0, <2>2, <4>1, TurnParts
    <3>3. TimerCall(k) \notin ToSet(Timers)
      <4>1. ReadJob(k) \notin ToSet(finished)
        BY <1>0, <2>2, TurnParts
      <4>2. k \in 1..MaxPolls
        BY <1>0
      <4> QED BY <1>0, <4>1, <4>2 DEF TimerInv, Waits
    <3> QED BY <1>1, <1>5, <3>1, <3>2, <3>3 DEF Live, Polling
  <2>5. ~OwedRead(u)'
    <3> SUFFICES ASSUME NEW m \in 1..Len(ctx), Live(m)', ctx'[m].user = u PROVE FALSE
      BY <1>6 DEF OwedRead
    <3>1. Live(m) /\ ctx[m].user = ctx[k].user
      BY <1>6, <1>7, <2>2 DEF SameUsers
    <3>2. m = k
      BY <2>3, <3>1 DEF OutcomeInv, LiveInv
    <3> QED BY <2>4, <3>2
  <2>6. u \notin Transmits /\ u \notin Writes
    BY <2>2, UsersAssumption
  <2> QED BY <2>2, <2>3, <2>5, <2>6 DEF Owed, OwedRead, OwedTransmit, OwedWrite, Started
<1>11. ASSUME NEW u \in Users, AbortedWrite(u)
       PROVE  Owed(u) /\ ~Owed(u)' /\ Started(u)
  <2>1. u \in Writes /\ writeHandler = u /\ u # None /\ u \notin Transmits /\ u \notin Reads
    BY <1>11, AbortWriteCalls, UsersAssumption, NoneAssumption DEF AbortedWrite
  <2>2. ~OwedWrite(u)'
    BY <1>1, <2>1 DEF OwedWrite
  <2> QED BY <2>1, <2>2 DEF Owed, OwedRead, OwedTransmit, OwedWrite, OutcomeInv, StartedInv
<1>12. OneAnswerInv'
  <2> DEFINE A == {u \in Users : AbortedRead(u) \/ AbortedWrite(u)}
  <2>1. A \in SUBSET Users
    OBVIOUS
  <2>2. \A u \in A : (Owed(u) \/ Answers(u) = 0) /\ ~Owed(u)'
    BY <1>10, <1>11
  <2>3. \A u \in Users \ A : Owed(u)' => Owed(u) \/ Answers(u) = 0
    BY <1>9
  <2>4. \A u \in Users : Answers(u)' = Answers(u) + (IF u \in A THEN 1 ELSE 0)
    <3> SUFFICES ASSUME NEW u \in Users
                 PROVE  Answers(u)' = Answers(u) + (IF u \in A THEN 1 ELSE 0)
      OBVIOUS
    <3>1. Coming(u, posted') = Coming(u, posted) + (IF u \in A THEN 1 ELSE 0)
      BY <1>4
    <3>2. Len(outcome[u]) \in Nat /\ Coming(u, posted) \in Nat
      BY <1>0, AnswersType
    <3>3. Answers(u)' = Len(outcome[u]) + Coming(u, posted')
      BY <1>1 DEF Answers
    <3>4. Answers(u) = Len(outcome[u]) + Coming(u, posted)
      BY DEF Answers
    <3> HIDE DEF A
    <3> QED BY <3>1, <3>2, <3>3, <3>4
  <2>5. OneAnswerInv
    BY DEF OutcomeInv
  <2> HIDE DEF A
  <2> QED BY <1>0, <2>1, <2>2, <2>3, <2>4, <2>5, AnswersStep
<1>13. KindInv'
  BY <1>2, KindFrame DEF OutcomeInv
<1>14. StartedInv'
  <2>1. StartedGrows
    <3> SUFFICES ASSUME NEW u \in Users, Started(u) PROVE Started(u)'
      BY DEF StartedGrows
    <3>1. CASE u \in Reads /\ \E n \in 1..Len(ctx) : ctx[n].user = u
      BY <1>6, <3>1 DEF Started, SameUsers
    <3>2. CASE u \in Writes /\ WriteJob(u) \in ToSet(order) \cup removed
      BY <1>1, <1>2, <3>2 DEF Started
    <3>3. CASE u \in Transmits /\ {BlockJob(u), RegisterJob(u, 1)} \cap ToSet(order) # {}
      <4>1. BlockJob(u) \notin gone /\ RegisterJob(u, 1) \notin gone
        BY <1>3 DEF BlockJob, RegisterJob
      <4> QED BY <1>2, <3>3, <4>1 DEF Started
    <3> QED BY <3>1, <3>2, <3>3 DEF Started
  <2>2. \A p \in UserCalls : p.who \in Users
    BY CallParts DEF UserCalls
  <2>3. ASSUME NEW p \in ToSet(posted') \cap UserCalls
        PROVE  p \in ToSet(posted) \/ Started(p.who)'
    BY <1>4, <1>10, <1>11, <2>1, <2>2 DEF StartedGrows
  <2>4. \A w \in Writes : writeHandler' # w
    BY <1>1, NoneAssumption DEF Users
  <2>5. StartedInv
    BY DEF OutcomeInv
  <2> QED BY <1>0, <2>1, <2>3, <2>4, <2>5, StartedStep
<1> QED BY <1>9, <1>12, <1>13, <1>14 DEF OutcomeInv

\* Steps that leave the lock, the users and the tunnel's polls alone.
LEMMA UntouchedOutcome ==
  ASSUME IInv, OutcomeInv,
         UNCHANGED <<waiting, queued, finished, removed, order, posted, fs, ctx, pollTimer,
                     writeHandler, outcome>>
  PROVE  OutcomeInv'
<1>1. SameUsers /\ Len(ctx') = Len(ctx)
  BY SameUsersFrame
<1>2. Timers' = Timers /\ SameCalls(posted, posted')
  BY TimersKept DEF SameCalls
<1>3. \A n : Live(n)' => Live(n)
  BY <1>2 DEF Live, Polling, Invoking, Busy
<1>4. NoNewPolls /\ NoNewJobs
  BY <1>1, <1>3 DEF NoNewPolls, NoNewJobs
<1> QED BY <1>2, <1>4, QuietOutcome

\* The client starts with no operation.
LEMMA InitOutcome == Init => OutcomeInv
<1> SUFFICES ASSUME Init PROVE OutcomeInv
  OBVIOUS
<1> USE DEF Init
<1>1. TypeOK
  BY InitIInv DEF IInv
<1>2. ToSet(<<>>) = {} /\ Len(ctx) = 0 /\ <<>> \in Seq(PostedCalls)
  BY ToSetEmpty, EmptyIsSeq
<1>3. LiveInv /\ KindInv
  BY <1>2 DEF LiveInv, KindInv
<1>4. StartedInv
  BY <1>2, NoneAssumption DEF StartedInv, Users
<1>5. \A u \in Users : Answers(u) = 0
  <2> SUFFICES ASSUME NEW u \in Users PROVE Answers(u) = 0
    OBVIOUS
  <2>1. Coming(u, posted) = 0
    BY ComingOne
  <2>2. outcome[u] = <<>>
    OBVIOUS
  <2> QED BY <2>1, <2>2 DEF Answers
<1> QED BY <1>3, <1>4, <1>5 DEF OutcomeInv, OneAnswerInv

\* Every operation is owed one answer or has had it.
THEOREM OutcomeInvariant == Spec => [](IInv /\ OutcomeInv)
<1>1. IInv /\ IInv' /\ OutcomeInv /\ [Next]_vars => OutcomeInv'
  <2> SUFFICES ASSUME IInv, IInv', OutcomeInv, [Next]_vars PROVE OutcomeInv'
    OBVIOUS
  <2>1. CASE UNCHANGED vars
    BY <2>1, UntouchedOutcome DEF vars, lockVars, tunnelVars
  <2>2. CASE \E c \in Transmits : AsyncTransmit(c)
    BY <2>2, AsyncTransmitOutcome
  <2>3. CASE \E u \in Reads : TunnelRead(u)
    BY <2>3, TunnelReadOutcome
  <2>4. CASE \E u \in Writes : TunnelWrite(u)
    BY <2>4, TunnelWriteOutcome
  <2>5. CASE Cancel
    BY <2>5, CancelOutcome
  <2>6. CASE PollTimerExpires
    BY <2>6, PollTimerExpiresOutcome
  <2>7. CASE Executor
    BY <2>7, ItemDoneOutcome, RunWrapOutcome, RunUserOutcome, RunTimerOutcome,
       InvokeCanceledReadOutcome, InvokeJobOutcome DEF Executor
  <2>8. CASE FrameStream
    BY <2>8, WriteDoneOutcome, ReadDoneOutcome DEF FrameStream
  <2>9. CASE ServerAnswers
    BY <2>9, UntouchedOutcome DEF ServerAnswers, lockVars, tunnelVars
  <2>10. CASE RequestLost
    BY <2>10, UntouchedOutcome DEF RequestLost, lockVars, tunnelVars
  <2> QED BY <2>1, <2>2, <2>3, <2>4, <2>5, <2>6, <2>7, <2>8, <2>9, <2>10 DEF Next
<1> QED BY <1>1, InitOutcome, InductiveInvariant, PTL DEF Spec

\* No handler of the user is called twice: a cancel, an answer, a timeout and
\* the expiry of poll_timer_ may meet in any order.
THEOREM HandlersCalledOnce == Spec => []HandlersOnce
<1>1. IInv /\ OutcomeInv => HandlersOnce
  <2> SUFFICES ASSUME IInv, OutcomeInv, NEW u \in Users PROVE Len(outcome[u]) <= 1
    BY DEF HandlersOnce
  <2>1. /\ Len(outcome[u]) \in Nat /\ Coming(u, posted) \in Nat
        /\ Answers(u) = Len(outcome[u]) + Coming(u, posted)
    BY Known, AnswersType
  <2>2. Answers(u) <= 1
    BY DEF OutcomeInv, OneAnswerInv
  <2> QED BY <2>1, <2>2
<1> QED BY <1>1, OutcomeInvariant, PTL

-----------------------------------------------------------------------------
(* The bytes of the tunnel. *)

\* Two increasing sequences, one behind the other.
LEMMA IncreasingConcat ==
  ASSUME NEW s \in Seq(Nat), NEW t \in Seq(Nat), Increasing(s), Increasing(t), Below(s, t)
  PROVE  Increasing(s \o t)
<1> DEFINE u == s \o t
<1>1. /\ Len(u) = Len(s) + Len(t) /\ Len(s) \in Nat /\ Len(t) \in Nat
      /\ \A i \in 1..Len(s) : u[i] = s[i]
      /\ \A i \in 1..Len(t) : u[Len(s) + i] = t[i]
  BY ConcatElements
<1>2. \A i \in 1..Len(s), k \in 1..Len(t) : s[i] < t[k]
  BY ToSetElement DEF Below
<1> HIDE DEF u
<1> SUFFICES ASSUME NEW i \in 1..Len(u), NEW j \in 1..Len(u), i < j PROVE u[i] < u[j]
  BY DEF Increasing, u
<1>3. CASE j <= Len(s)
  <2>1. i \in 1..Len(s) /\ j \in 1..Len(s)
    BY <1>1, <1>3
  <2> QED BY <1>1, <2>1 DEF Increasing
<1>4. CASE i > Len(s)
  <2>1. PICK a \in 1..Len(t) : i = Len(s) + a
    <3>1. i - Len(s) \in 1..Len(t) /\ i = Len(s) + (i - Len(s))
      BY <1>1, <1>4
    <3> QED BY <3>1
  <2>2. PICK b \in 1..Len(t) : j = Len(s) + b
    <3>1. j - Len(s) \in 1..Len(t) /\ j = Len(s) + (j - Len(s))
      BY <1>1, <1>4
    <3> QED BY <3>1
  <2>3. a < b
    BY <1>1, <2>1, <2>2
  <2> QED BY <1>1, <2>1, <2>2, <2>3 DEF Increasing
<1>5. CASE i <= Len(s) /\ j > Len(s)
  <2>1. PICK b \in 1..Len(t) : j = Len(s) + b
    <3>1. j - Len(s) \in 1..Len(t) /\ j = Len(s) + (j - Len(s))
      BY <1>1, <1>5
    <3> QED BY <3>1
  <2>2. i \in 1..Len(s)
    BY <1>1, <1>5
  <2> QED BY <1>1, <1>2, <2>1, <2>2
<1> QED BY <1>1, <1>3, <1>4, <1>5

\* Bounds of two sequences, one behind the other.
LEMMA BoundsConcat ==
  ASSUME NEW s \in Seq(Nat), NEW t \in Seq(Nat)
  PROVE  /\ \A u : Below(s, u) /\ Below(t, u) => Below(s \o t, u)
         /\ \A u : Below(u, s) /\ Below(u, t) => Below(u, s \o t)
         /\ \A k : UpTo(s, k) /\ UpTo(t, k) => UpTo(s \o t, k)
<1>1. ToSet(s \o t) = ToSet(s) \cup ToSet(t)
  BY ToSetConcat
<1> QED BY <1>1 DEF Below, UpTo

\* The first elements of an increasing sequence.
LEMMA IncreasingPrefix ==
  ASSUME NEW s \in Seq(Nat), NEW n \in 0..Len(s), Increasing(s)
  PROVE  /\ SubSeq(s, 1, n) \in Seq(Nat) /\ Increasing(SubSeq(s, 1, n))
         /\ ToSet(SubSeq(s, 1, n)) \subseteq ToSet(s)
<1>1. PICK a \in Seq(Nat) : a = SubSeq(s, 1, n)
  BY SubSeqSplit
<1>2. PICK b \in Seq(Nat) : b = SubSeq(s, n + 1, Len(s))
  BY SubSeqSplit
<1>3. s = a \o b
  BY <1>1, <1>2, SubSeqSplit, ZenonT(60)
<1>4. ToSet(s) = ToSet(a) \cup ToSet(b)
  BY <1>3, ToSetConcat
<1>5. Len(s) = Len(a) + Len(b) /\ \A i \in 1..Len(a) : s[i] = a[i]
  BY <1>3, ConcatElements
<1>6. Len(a) \in Nat /\ Len(b) \in Nat
  OBVIOUS
<1>7. Increasing(a)
  <2> SUFFICES ASSUME NEW i \in 1..Len(a), NEW j \in 1..Len(a), i < j PROVE a[i] < a[j]
    BY DEF Increasing
  <2>1. i \in 1..Len(s) /\ j \in 1..Len(s)
    BY <1>5, <1>6
  <2> QED BY <1>5, <2>1 DEF Increasing
<1> QED BY <1>1, <1>4, <1>7

\* What an answer adds to a buffer that it is behind.
LEMMA FilledInOrder ==
  ASSUME NEW c \in Contexts, NEW b \in Seq(Nat), Increasing(c.data), Increasing(b), Below(c.data, b)
  PROVE  /\ Filled(c, b) \in Seq(Nat) /\ Increasing(Filled(c, b))
         /\ ToSet(Filled(c, b)) \subseteq ToSet(c.data) \cup ToSet(b)
<1> DEFINE n == IF Len(b) < c.room THEN Len(b) ELSE c.room
<1>1. c.data \in Seq(Nat) /\ c.room \in Nat /\ Len(b) \in Nat
  BY DEF Contexts
<1>2. n \in 0..Len(b)
  BY <1>1
<1>3. Copied(c, b) = SubSeq(b, 1, n)
  BY DEF Copied
<1> HIDE DEF n
<1>4. /\ Copied(c, b) \in Seq(Nat) /\ Increasing(Copied(c, b)) /\ ToSet(Copied(c, b)) \subseteq ToSet(b)
  BY <1>2, <1>3, IncreasingPrefix
<1>5. PICK d \in Seq(Nat) : d = Copied(c, b)
  BY <1>4
<1>6. PICK a \in Seq(Nat) : a = c.data
  BY <1>1
<1>7. Increasing(a) /\ Increasing(d) /\ Below(a, d)
  BY <1>4, <1>5, <1>6 DEF Below
<1>8. Increasing(a \o d) /\ ToSet(a \o d) = ToSet(a) \cup ToSet(d) /\ a \o d \in Seq(Nat)
  BY <1>7, IncreasingConcat, ToSetConcat, ConcatElements
<1>9. Filled(c, b) = a \o d
  BY <1>5, <1>6 DEF Filled
<1> QED BY <1>4, <1>5, <1>6, <1>8, <1>9

BytesInv == ArrivingInv /\ PartialInv

\* At most the first of the answers was taken.
Received ==
  \E k \in {0, 1} :
    /\ Len(inbox) \in Nat /\ Len(inbox') \in Nat /\ Len(inbox') = Len(inbox) - k
    /\ \A i \in 1..Len(inbox') : inbox'[i] = inbox[i + k]

\* The answers that are left are as they were.
LEMMA ReceivedParts ==
  ASSUME Received
  PROVE  /\ \A i \in 1..Len(inbox') : \E a \in 1..Len(inbox) : inbox'[i] = inbox[a]
         /\ \A i, j \in 1..Len(inbox') : i < j =>
              \E a, b \in 1..Len(inbox) : a < b /\ inbox'[i] = inbox[a] /\ inbox'[j] = inbox[b]
<1>1. PICK k \in {0, 1} :
        /\ Len(inbox) \in Nat /\ Len(inbox') \in Nat /\ Len(inbox') = Len(inbox) - k
        /\ \A i \in 1..Len(inbox') : inbox'[i] = inbox[i + k]
  BY DEF Received
<1>2. \A i \in 1..Len(inbox') : i + k \in 1..Len(inbox)
  BY <1>1
<1>3. \A i, j \in 1..Len(inbox') : i < j => i + k < j + k
  BY <1>1
<1> QED BY <1>1, <1>2, <1>3

\* The first answer is taken from the inbox.
LEMMA TakeAnswer ==
  ASSUME TypeOK, inbox # <<>>, inbox' = Tail(inbox)
  PROVE  /\ Received /\ Head(inbox) \in Frames /\ Head(inbox) = inbox[1] /\ 1 \in 1..Len(inbox)
         /\ \A i \in 1..Len(inbox') : \E a \in 1..Len(inbox) : 1 < a /\ inbox'[i] = inbox[a]
<1>1. inbox \in Seq(Frames)
  BY DEF TypeOK
<1>2. /\ Len(inbox) \in Nat /\ Len(inbox') = Len(inbox) - 1 /\ Len(inbox') \in Nat
      /\ \A i \in 1..Len(inbox') : inbox'[i] = inbox[i + 1]
      /\ Head(inbox) \in Frames /\ Head(inbox) = inbox[1] /\ 1 \in 1..Len(inbox)
  <2>1. Len(inbox) \in Nat /\ 1 \in 1..Len(inbox) /\ Head(inbox) = inbox[1]
    BY <1>1
  <2>2. Head(inbox) \in Frames
    BY <1>1
  <2>3. Len(inbox') = Len(inbox) - 1 /\ \A i \in 1..Len(inbox') : inbox'[i] = inbox[i + 1]
    BY <1>1
  <2>4. Len(inbox') \in Nat
    BY <2>1, <2>3
  <2> QED BY <2>1, <2>2, <2>3, <2>4
<1>3. Received
  BY <1>2 DEF Received
<1>4. \A i \in 1..Len(inbox') : i + 1 \in 1..Len(inbox) /\ 1 < i + 1
  BY <1>2
<1> QED BY <1>2, <1>3, <1>4

\* No answer is taken.
LEMMA TakeNoAnswer ==
  ASSUME TypeOK, inbox' = inbox
  PROVE  Received
<1>1. Len(inbox) \in Nat
  BY DEF TypeOK
<1> QED BY <1>1 DEF Received

\* Nothing is in an empty buffer.
LEMMA EmptyInOrder ==
  Increasing(<<>>) /\ (\A k : UpTo(<<>>, k)) /\ (\A u : Below(<<>>, u) /\ Below(u, <<>>))
BY ToSetEmpty DEF Increasing, UpTo, Below

\* A context that is open holds nothing, or what it held.
SameOpen ==
  \A n \in 1..Len(ctx') : Open(n)' =>
    \/ ctx'[n].data = <<>>
    \/ /\ n \in 1..Len(ctx) /\ Open(n) /\ ctx'[n].data = ctx[n].data
       /\ fs = Reading(ReadJob(n)) => fs' = fs

\* Steps that deliver nothing and fill no buffer.
LEMMA BytesFrame ==
  ASSUME BytesInv, Received, SameOpen, UNCHANGED <<delivered, sent>>
  PROVE  BytesInv'
<1>1. ArrivingInv /\ PartialInv
  BY DEF BytesInv
<1>2. ArrivingInv'
  <2>1. Increasing(delivered)' /\ UpTo(delivered, sent)'
    BY <1>1 DEF ArrivingInv, Increasing, UpTo
  <2>2. ASSUME NEW i \in 1..Len(inbox')
        PROVE  /\ Increasing(inbox'[i].bytes) /\ UpTo(inbox'[i].bytes, sent')
               /\ Below(delivered', inbox'[i].bytes)
    <3>1. PICK a \in 1..Len(inbox) : inbox'[i] = inbox[a]
      BY ReceivedParts
    <3> QED BY <1>1, <3>1 DEF ArrivingInv
  <2>3. ASSUME NEW i \in 1..Len(inbox'), NEW j \in 1..Len(inbox'), i < j
        PROVE  Below(inbox'[i].bytes, inbox'[j].bytes)
    <3>1. \E a, b \in 1..Len(inbox) : a < b /\ inbox'[i] = inbox[a] /\ inbox'[j] = inbox[b]
      BY <2>3, ReceivedParts
    <3> QED BY <1>1, <3>1 DEF ArrivingInv
  <2> QED BY <2>1, <2>2, <2>3 DEF ArrivingInv
<1>3. PartialInv'
  <2> SUFFICES ASSUME NEW n \in 1..Len(ctx'), Open(n)'
               PROVE  /\ Increasing(ctx'[n].data) /\ UpTo(ctx'[n].data, sent')
                      /\ Below(delivered', ctx'[n].data)
                      /\ \A i \in 1..Len(inbox') : Below(ctx'[n].data, inbox'[i].bytes)
                      /\ fs' # Reading(ReadJob(n)) => ctx'[n].data = <<>>
    BY DEF PartialInv
  <2>1. CASE ctx'[n].data = <<>>
    BY <2>1, EmptyInOrder
  <2>2. CASE /\ n \in 1..Len(ctx) /\ Open(n) /\ ctx'[n].data = ctx[n].data
             /\ fs = Reading(ReadJob(n)) => fs' = fs
    <3>1. \A i \in 1..Len(inbox') : Below(ctx[n].data, inbox'[i].bytes)
      BY <1>1, <2>2, ReceivedParts DEF PartialInv
    <3> QED BY <1>1, <2>2, <3>1 DEF PartialInv
  <2> QED BY <2>1, <2>2 DEF SameOpen
<1> QED BY <1>2, <1>3 DEF BytesInv

\* The bytes d are delivered, behind those before and ahead of those to come.
LEMMA DeliveredFrame ==
  ASSUME BytesInv, Received, delivered \in Seq(Nat), NEW d \in Seq(Nat), delivered' = delivered \o d,
         sent' = sent, Increasing(d), UpTo(d, sent), Below(delivered, d),
         \A i \in 1..Len(inbox') : Below(d, inbox'[i].bytes),
         \A n \in 1..Len(ctx') : Open(n)' => ctx'[n].data = <<>>
  PROVE  BytesInv'
<1>1. ArrivingInv /\ PartialInv
  BY DEF BytesInv
<1>2. Increasing(delivered') /\ UpTo(delivered', sent')
  BY <1>1, IncreasingConcat, BoundsConcat DEF ArrivingInv
<1>3. ASSUME NEW i \in 1..Len(inbox')
      PROVE  /\ Increasing(inbox'[i].bytes) /\ UpTo(inbox'[i].bytes, sent')
             /\ Below(delivered', inbox'[i].bytes)
  <2>1. PICK a \in 1..Len(inbox) : inbox'[i] = inbox[a]
    BY ReceivedParts
  <2>2. Below(delivered, inbox'[i].bytes) /\ Below(d, inbox'[i].bytes)
    BY <1>1, <2>1 DEF ArrivingInv
  <2>3. Below(delivered \o d, inbox'[i].bytes)
    BY <2>2, BoundsConcat
  <2> QED BY <1>1, <2>1, <2>3 DEF ArrivingInv
<1>4. ASSUME NEW i \in 1..Len(inbox'), NEW j \in 1..Len(inbox'), i < j
      PROVE  Below(inbox'[i].bytes, inbox'[j].bytes)
  <2>1. \E a, b \in 1..Len(inbox) : a < b /\ inbox'[i] = inbox[a] /\ inbox'[j] = inbox[b]
    BY <1>4, ReceivedParts
  <2> QED BY <1>1, <2>1 DEF ArrivingInv
<1>5. ArrivingInv'
  BY <1>2, <1>3, <1>4 DEF ArrivingInv
<1>6. PartialInv'
  BY EmptyInOrder DEF PartialInv
<1> QED BY <1>5, <1>6 DEF BytesInv

\* Steps that do not touch the contexts, and do not end a read of the stream.
LEMMA OtherBytes ==
  ASSUME IInv, BytesInv, UNCHANGED <<ctx, delivered, sent, inbox>>,
         ToSet(finished) \subseteq ToSet(finished'), fs.op = "read" => fs' = fs
  PROVE  BytesInv'
<1>1. Received
  BY Known, TakeNoAnswer
<1>2. SameOpen
  BY Operations DEF SameOpen, Open
<1> QED BY <1>1, <1>2, BytesFrame

\* A new context holds nothing.
LEMMA ReadSomeBytes ==
  ASSUME IInv, BytesInv, NEW u, NEW room, NEW ps, ReadSome(u, room, ps),
         UNCHANGED <<finished, fs, delivered, sent, inbox>>
  PROVE  BytesInv'
<1>0. ctx \in Seq(Contexts) /\ Len(ctx) \in Nat
  BY Known
<1>1. ctx' = Append(ctx, NewContext(u, room))
  BY DEF ReadSome
<1>2. Len(ctx') = Len(ctx) + 1 /\ (\A n \in 1..Len(ctx) : ctx'[n] = ctx[n])
      /\ ctx'[Len(ctx) + 1] = NewContext(u, room)
  BY <1>0, <1>1
<1>3. \A n \in 1..Len(ctx') : n \in 1..Len(ctx) \/ n = Len(ctx) + 1
  BY <1>0, <1>2
<1>4. NewContext(u, room).data = <<>>
  BY DEF NewContext
<1>5. SameOpen
  BY <1>2, <1>3, <1>4 DEF SameOpen, Open
<1>6. Received
  BY Known, TakeNoAnswer
<1> QED BY <1>5, <1>6, BytesFrame

\* cancel() leaves what the contexts hold.
LEMMA CancelContexts ==
  ASSUME IInv, Cancel
  PROVE  /\ Len(ctx') = Len(ctx)
         /\ \A n \in 1..Len(ctx) : /\ ctx'[n].data = ctx[n].data /\ ctx'[n].bytes = ctx[n].bytes
                                   /\ ctx'[n].room = ctx[n].room /\ ctx'[n].size = ctx[n].size
                                   /\ ctx[n].canceled => ctx'[n].canceled
<1>0. TypeOK /\ ctx \in Seq(Contexts) /\ Len(ctx) \in Nat
  BY Known
<1>1. ctx' = IF readContext # None THEN [ctx EXCEPT ![readContext].canceled = TRUE] ELSE ctx
  BY DEF Cancel
<1>2. CASE readContext = None
  BY <1>1, <1>2
<1>3. CASE readContext # None
  <2>1. readContext \in 1..Len(ctx)
    BY <1>0, <1>3 DEF TypeOK
  <2> DEFINE c == [ctx[readContext] EXCEPT !.canceled = TRUE]
  <2>2. ctx[readContext] \in Contexts
    BY <1>0, <2>1
  <2>3. /\ c \in Contexts /\ c.data = ctx[readContext].data /\ c.bytes = ctx[readContext].bytes
        /\ c.room = ctx[readContext].room /\ c.size = ctx[readContext].size /\ c.canceled = TRUE
    BY <2>2 DEF Contexts
  <2>4. ctx' = [ctx EXCEPT ![readContext] = c]
    BY <1>1, <1>3
  <2> HIDE DEF c
  <2>5. /\ Len(ctx') = Len(ctx) /\ ctx'[readContext] = c
        /\ \A m \in 1..Len(ctx) : m # readContext => ctx'[m] = ctx[m]
    BY <1>0, <2>1, <2>3, <2>4, ReplaceContext
  <2> QED BY <2>3, <2>5
<1> QED BY <1>2, <1>3

\* cancel() closes contexts.
LEMMA CancelBytes ==
  ASSUME IInv, BytesInv, Cancel
  PROVE  BytesInv'
<1>1. UNCHANGED <<finished, fs, delivered, sent, inbox>>
  BY DEF Cancel, wireVars
<1>2. SameOpen
  BY <1>1, CancelContexts DEF SameOpen, Open
<1>3. Received
  BY <1>1, Known, TakeNoAnswer
<1> QED BY <1>1, <1>2, <1>3, BytesFrame

\* The server sends the next bytes.
LEMMA ServerAnswersBytes ==
  ASSUME IInv, BytesInv, ServerAnswers
  PROVE  BytesInv'
<1>0. TypeOK /\ inbox \in Seq(Frames) /\ sent \in Nat /\ Len(inbox) \in Nat
  BY Known DEF TypeOK
<1>1. PICK n \in Nat :
        /\ sent' = sent + n
        /\ inbox' = Append(inbox, [source |-> Dest(Head(bus)), job |-> Head(bus),
                                   bytes |-> [k \in 1..n |-> sent + k]])
  <2>1. \A n \in 0..MaxChunk : n \in Nat
    BY BoundsAssumption
  <2> QED BY <2>1 DEF ServerAnswers
<1>2. UNCHANGED <<delivered, ctx, finished, fs>>
  BY DEF ServerAnswers, lockVars, tunnelVars
<1> DEFINE b == [k \in 1..n |-> sent + k]
<1>3. /\ Len(inbox') = Len(inbox) + 1 /\ \A i \in 1..Len(inbox) : inbox'[i] = inbox[i]
      /\ inbox'[Len(inbox) + 1].bytes = b
  BY <1>0, <1>1
<1>4. b \in Seq(Nat) /\ Len(b) = n /\ \A k \in 1..n : b[k] = sent + k
  BY <1>0
<1>5. Increasing(b)
  BY <1>0, <1>4 DEF Increasing
<1>6. \A y \in ToSet(b) : y \in Nat /\ sent < y /\ y <= sent + n
  <2>1. \A k \in 1..n : sent + k \in Nat /\ sent < sent + k /\ sent + k <= sent + n
    BY <1>0
  <2> HIDE DEF b
  <2>2. \A y \in ToSet(b) : \E k \in 1..n : b[k] = y
    BY <1>4, ToSetElement
  <2> QED BY <1>4, <2>1, <2>2
<1> HIDE DEF b
<1>7. ASSUME NEW s \in Seq(Nat), UpTo(s, sent) PROVE UpTo(s, sent') /\ Below(s, b)
  <2>1. \A x \in ToSet(s) : x \in Nat /\ x <= sent
    BY <1>7, ToSetElement DEF UpTo
  <2>2. \A x \in Nat : x <= sent => x <= sent + n
    BY <1>0
  <2>3. \A x \in Nat, y \in Nat : x <= sent /\ sent < y => x < y
    BY <1>0
  <2> QED BY <1>1, <1>6, <2>1, <2>2, <2>3 DEF UpTo, Below
<1>8. \A i \in 1..Len(inbox') : i \in 1..Len(inbox) \/ i = Len(inbox) + 1
  BY <1>0, <1>3
<1>9. \A i \in 1..Len(inbox) : inbox[i].bytes \in Seq(Nat)
  <2>1. \A i \in 1..Len(inbox) : inbox[i] \in Frames
    BY <1>0
  <2> QED BY <2>1 DEF Frames
<1>10. delivered \in Seq(Nat) /\ \A m \in 1..Len(ctx) : ctx[m].data \in Seq(Nat)
  <2>1. delivered \in Seq(Nat) /\ ctx \in Seq(Contexts)
    BY <1>0 DEF TypeOK
  <2>2. \A m \in 1..Len(ctx) : ctx[m] \in Contexts
    BY <2>1
  <2> QED BY <2>1, <2>2 DEF Contexts
<1>11. ArrivingInv /\ PartialInv
  BY DEF BytesInv
<1>12. ArrivingInv'
  <2>1. Increasing(delivered') /\ UpTo(delivered', sent')
    BY <1>2, <1>7, <1>10, <1>11 DEF ArrivingInv
  <2>2. ASSUME NEW i \in 1..Len(inbox')
        PROVE  /\ Increasing(inbox'[i].bytes) /\ UpTo(inbox'[i].bytes, sent')
               /\ Below(delivered', inbox'[i].bytes)
    <3>1. CASE i \in 1..Len(inbox)
      BY <1>2, <1>3, <1>7, <1>9, <1>11, <3>1 DEF ArrivingInv
    <3>2. CASE i = Len(inbox) + 1
      <4>1. UpTo(b, sent')
        BY <1>1, <1>6 DEF UpTo
      <4>2. Below(delivered, b)
        BY <1>7, <1>10, <1>11 DEF ArrivingInv
      <4> QED BY <1>2, <1>3, <1>5, <3>2, <4>1, <4>2
    <3> QED BY <1>8, <3>1, <3>2
  <2>3. ASSUME NEW i \in 1..Len(inbox'), NEW j \in 1..Len(inbox'), i < j
        PROVE  Below(inbox'[i].bytes, inbox'[j].bytes)
    <3>1. i \in 1..Len(inbox)
      BY <1>0, <1>3, <2>3
    <3>2. CASE j \in 1..Len(inbox)
      BY <1>3, <1>11, <2>3, <3>1, <3>2 DEF ArrivingInv
    <3>3. CASE j = Len(inbox) + 1
      BY <1>3, <1>7, <1>9, <1>11, <3>1, <3>3 DEF ArrivingInv
    <3> QED BY <1>8, <3>2, <3>3
  <2> QED BY <2>1, <2>2, <2>3 DEF ArrivingInv
<1>13. PartialInv'
  <2> SUFFICES ASSUME NEW m \in 1..Len(ctx), Open(m)
               PROVE  /\ Increasing(ctx[m].data) /\ UpTo(ctx[m].data, sent')
                      /\ Below(delivered, ctx[m].data)
                      /\ \A i \in 1..Len(inbox') : Below(ctx[m].data, inbox'[i].bytes)
                      /\ fs # Reading(ReadJob(m)) => ctx[m].data = <<>>
    BY <1>2 DEF PartialInv, Open
  <2>1. UpTo(ctx[m].data, sent') /\ Below(ctx[m].data, b)
    BY <1>7, <1>10, <1>11 DEF PartialInv
  <2>2. \A i \in 1..Len(inbox') : Below(ctx[m].data, inbox'[i].bytes)
    BY <1>3, <1>8, <1>11, <2>1 DEF PartialInv
  <2> QED BY <1>11, <2>1, <2>2 DEF PartialInv
<1> QED BY <1>12, <1>13 DEF BytesInv

\* The answer to a request, or its timeout, touches no context.
LEMMA ReadDoneForRegisterBytes ==
  ASSUME IInv, BytesInv, fs.op = "read", NEW frame, ReadDoneForRegister(waiting, frame),
         Received, sent' = sent
  PROVE  BytesInv'
<1>1. waiting[1] = "register" /\ UNCHANGED <<finished, ctx, delivered>>
  BY DEF ReadDoneForRegister
<1>2. fs = Reading(waiting)
  BY Known, BusyWith
<1>3. \A n : fs # Reading(ReadJob(n))
  BY <1>1, <1>2, Operations, ReadJobParts
<1>4. SameOpen
  BY <1>1, <1>3 DEF SameOpen, Open
<1> QED BY <1>1, <1>4, BytesFrame

\* The bytes that the poll in progress has after an answer: those it had, and
\* at most those of the answer, which are behind them.
LEMMA AnswerInOrder ==
  ASSUME IInv, BytesInv, NEW n \in 1..Len(ctx), Open(n), NEW frame, NEW d \in Contexts,
         TookAnswer(ctx[n], d, frame), Received,
         frame # None => inbox # <<>> /\ frame = Head(inbox) /\ inbox' = Tail(inbox)
  PROVE  /\ Increasing(d.data) /\ UpTo(d.data, sent) /\ Below(delivered, d.data)
         /\ \A i \in 1..Len(inbox') : Below(d.data, inbox'[i].bytes)
<1>0. TypeOK /\ ctx[n] \in Contexts /\ ArrivingInv /\ PartialInv
  BY Known DEF BytesInv
<1>2. /\ Increasing(ctx[n].data) /\ UpTo(ctx[n].data, sent) /\ Below(delivered, ctx[n].data)
      /\ \A i \in 1..Len(inbox) : Below(ctx[n].data, inbox[i].bytes)
  BY <1>0 DEF PartialInv
<1>3. \A i \in 1..Len(inbox') : Below(ctx[n].data, inbox'[i].bytes)
  BY <1>2, ReceivedParts
<1>4. CASE d.data = ctx[n].data
  BY <1>2, <1>3, <1>4
<1>5. CASE frame # None /\ d.data = Filled(ctx[n], frame.bytes)
  <2>1. /\ frame = inbox[1] /\ 1 \in 1..Len(inbox) /\ frame \in Frames
        /\ \A i \in 1..Len(inbox') : \E a \in 1..Len(inbox) : 1 < a /\ inbox'[i] = inbox[a]
    BY <1>0, <1>5, TakeAnswer
  <2>2. PICK b \in Seq(Nat) : b = frame.bytes
    BY <2>1 DEF Frames
  <2>3. Increasing(b) /\ UpTo(b, sent) /\ Below(delivered, b) /\ Below(ctx[n].data, b)
    BY <1>0, <1>2, <2>1, <2>2 DEF ArrivingInv
  <2>4. \A i \in 1..Len(inbox') : Below(b, inbox'[i].bytes)
    BY <1>0, <2>1, <2>2 DEF ArrivingInv
  <2>5. /\ Increasing(Filled(ctx[n], b))
        /\ ToSet(Filled(ctx[n], b)) \subseteq ToSet(ctx[n].data) \cup ToSet(b)
    BY <1>0, <1>2, <2>3, FilledInOrder
  <2>6. d.data = Filled(ctx[n], b)
    BY <1>5, <2>2
  <2>7. ToSet(d.data) \subseteq ToSet(ctx[n].data) \cup ToSet(b) /\ Increasing(d.data)
    BY <2>5, <2>6
  <2> QED BY <1>2, <1>3, <2>3, <2>4, <2>7 DEF UpTo, Below
<1> QED BY <1>4, <1>5 DEF TookAnswer

\* The answer to a poll, or its timeout.
LEMMA ReadDoneForReadBytes ==
  ASSUME IInv, BytesInv, fs.op = "read", NEW frame, ReadDoneForRead(waiting, frame),
         Received, sent' = sent,
         frame # None => inbox # <<>> /\ frame = Head(inbox) /\ inbox' = Tail(inbox)
  PROVE  BytesInv'
<1>0. /\ TypeOK /\ Phase /\ finished \in Seq(Jobs) /\ ctx \in Seq(Contexts) /\ Len(ctx) \in Nat
      /\ delivered \in Seq(Nat)
  BY Known DEF TypeOK
<1>1. Busy /\ waiting \in Jobs /\ waiting \notin ToSet(finished) /\ fs = Reading(waiting)
  BY <1>0, BusyWith
<1>2. waiting[1] = "read" /\ waiting \in ReadJobs
  BY <1>1, JobKinds DEF ReadDoneForRead
<1>3. PICK n \in 1..Len(ctx) : waiting = ReadJob(n)
  BY <1>1, <1>2, HolderAlone
<1>4. frame = None \/ frame \in Frames
  BY <1>0, TakeAnswer
<1>5. PICK cs : /\ SameContexts(ctx, cs)
                /\ \A m \in 1..Len(ctx) : m # n => cs[m] = ctx[m]
                /\ TookAnswer(ctx[n], cs[n], frame)
                /\ \/ MaybeRetry(n, cs, posted) /\ fs' = Idle
                   \/ /\ ctx' = cs /\ fs' = Reading(waiting)
                      /\ UNCHANGED <<posted, finished, readContext, pollTimer, delivered>>
  BY <1>0, <1>2, <1>3, <1>4, ReadDoneForReadCases
<1>6. Len(cs) = Len(ctx) /\ cs[n] \in Contexts /\ (\A m \in 1..Len(ctx) : cs[m].canceled = ctx[m].canceled)
  BY <1>5 DEF SameContexts, SameContext
<1>7. PICK d \in Seq(Nat) : d = cs[n].data
  BY <1>6 DEF Contexts
<1>8. Open(n) => /\ Increasing(d) /\ UpTo(d, sent) /\ Below(delivered, d)
                 /\ \A i \in 1..Len(inbox') : Below(d, inbox'[i].bytes)
  BY <1>5, <1>6, <1>7, AnswerInOrder
<1>9. \A m \in 1..Len(ctx) : m # n => fs # Reading(ReadJob(m))
  BY <1>1, <1>3, Operations, ReadJobParts
<1>10. \A m \in 1..Len(ctx) : m # n /\ Open(m) => ctx[m].data = <<>>
  BY <1>9 DEF BytesInv, PartialInv
<1>11. CASE MaybeRetry(n, cs, posted) /\ fs' = Idle
  <2>1. /\ ctx' = cs /\ finished' = Append(finished, waiting)
        /\ delivered' = IF cs[n].canceled THEN delivered ELSE delivered \o d
    BY <1>3, <1>7, <1>11 DEF MaybeRetry, Finish
  <2>2. ToSet(finished') = ToSet(finished) \cup {waiting}
    BY <1>0, <1>1, <2>1, ToSetAppend
  <2>3. ASSUME NEW m \in 1..Len(ctx'), Open(m)' PROVE ctx'[m].data = <<>>
    <3>1. m \in 1..Len(ctx) /\ m # n
      BY <1>3, <1>6, <2>1, <2>2, <2>3 DEF Open
    <3>2. Open(m)
      BY <1>6, <2>1, <2>2, <2>3, <3>1 DEF Open
    <3> QED BY <1>5, <1>10, <2>1, <3>1, <3>2
  <2>4. CASE cs[n].canceled
    <3>1. SameOpen
      BY <2>3 DEF SameOpen
    <3> QED BY <1>4, <2>1, <2>4, <3>1, BytesFrame
  <2>5. CASE ~cs[n].canceled
    <3>1. Open(n)
      BY <1>1, <1>3, <1>6, <2>5 DEF Open
    <3> QED BY <1>0, <1>4, <1>8, <2>1, <2>3, <2>5, <3>1, DeliveredFrame
  <2> QED BY <2>4, <2>5
<1>12. CASE /\ ctx' = cs /\ fs' = Reading(waiting) /\ UNCHANGED <<finished, delivered>>
  <2>1. ArrivingInv /\ PartialInv
    BY DEF BytesInv
  <2>2. ArrivingInv'
    <3>1. ASSUME NEW i \in 1..Len(inbox')
          PROVE  /\ Increasing(inbox'[i].bytes) /\ UpTo(inbox'[i].bytes, sent')
                 /\ Below(delivered', inbox'[i].bytes)
      <4>1. PICK a \in 1..Len(inbox) : inbox'[i] = inbox[a]
        BY <1>4, ReceivedParts
      <4> QED BY <1>12, <2>1, <4>1 DEF ArrivingInv
    <3>2. ASSUME NEW i \in 1..Len(inbox'), NEW j \in 1..Len(inbox'), i < j
          PROVE  Below(inbox'[i].bytes, inbox'[j].bytes)
      <4>1. \E a, b \in 1..Len(inbox) : a < b /\ inbox'[i] = inbox[a] /\ inbox'[j] = inbox[b]
        BY <1>4, <3>2, ReceivedParts
      <4> QED BY <2>1, <4>1 DEF ArrivingInv
    <3> QED BY <1>12, <2>1, <3>1, <3>2 DEF ArrivingInv
  <2>3. PartialInv'
    <3> SUFFICES ASSUME NEW m \in 1..Len(ctx'), Open(m)'
                 PROVE  /\ Increasing(ctx'[m].data) /\ UpTo(ctx'[m].data, sent')
                        /\ Below(delivered', ctx'[m].data)
                        /\ \A i \in 1..Len(inbox') : Below(ctx'[m].data, inbox'[i].bytes)
                        /\ fs' # Reading(ReadJob(m)) => ctx'[m].data = <<>>
      BY DEF PartialInv
    <3>1. m \in 1..Len(ctx) /\ Open(m)
      BY <1>6, <1>12 DEF Open
    <3>2. CASE m = n
      <4>1. ctx'[m].data = d /\ fs' = Reading(ReadJob(m))
        BY <1>3, <1>7, <1>12, <3>2
      <4> QED BY <1>8, <1>12, <3>1, <3>2, <4>1
    <3>3. CASE m # n
      <4>1. ctx'[m].data = <<>>
        BY <1>5, <1>10, <1>12, <3>1, <3>3
      <4> QED BY <4>1, EmptyInOrder
    <3> QED BY <3>2, <3>3
  <2> QED BY <2>2, <2>3 DEF BytesInv
<1> QED BY <1>5, <1>11, <1>12

\* A read of the frame stream ends.
LEMMA ReadDoneBytes ==
  ASSUME IInv, BytesInv, ReadDone
  PROVE  BytesInv'
<1>1. fs.op = "read" /\ sent' = sent
  BY DEF ReadDone
<1>2. TypeOK /\ Phase
  BY Known
<1>3. fs.job = waiting
  BY <1>1, <1>2, BusyWith
<1>4. CASE /\ ReadDoneForRegister(waiting, None) \/ ReadDoneForRead(waiting, None)
           /\ inbox' = inbox
  <2>1. Received
    BY <1>2, <1>4, TakeNoAnswer
  <2> QED BY <1>1, <1>4, <2>1, ReadDoneForRegisterBytes, ReadDoneForReadBytes
<1>5. CASE /\ inbox # <<>> /\ inbox' = Tail(inbox)
           /\ \/ ReadDoneForRegister(waiting, Head(inbox))
              \/ ReadDoneForRead(waiting, Head(inbox))
  <2>1. Received
    BY <1>2, <1>5, TakeAnswer
  <2>2. PICK frame : frame = Head(inbox)
    OBVIOUS
  <2> QED BY <1>1, <1>5, <2>1, <2>2, ReadDoneForRegisterBytes, ReadDoneForReadBytes
<1> QED BY <1>3, <1>4, <1>5 DEF ReadDone

\* Nothing was sent or delivered before the start.
LEMMA InitBytes == Init => BytesInv
<1> SUFFICES ASSUME Init PROVE BytesInv
  OBVIOUS
<1> USE DEF Init
<1>1. Len(inbox) = 0 /\ Len(ctx) = 0
  OBVIOUS
<1> QED BY <1>1, EmptyInOrder DEF BytesInv, ArrivingInv, PartialInv

\* The job that is invoked and the one whose frame is written read nothing.
LEMMA NotReading ==
  ASSUME IInv, InvokeJob \/ WriteDone
  PROVE  fs.op # "read" /\ UNCHANGED <<ctx, delivered, sent, inbox>>
         /\ ToSet(finished) \subseteq ToSet(finished')
<1>0. TypeOK /\ Phase /\ finished \in Seq(Jobs)
  BY Known
<1>1. CASE InvokeJob
  <2>1. posted # <<>> /\ Head(posted).op = "invoke"
    BY <1>1 DEF InvokeJob
  <2>2. fs = Idle
    BY <1>0, <2>1, FrontIsLock DEF Invoking
  <2> QED BY <1>1, <2>2, Operations DEF InvokeJob, lockVars, wireVars
<1>2. CASE WriteDone
  <2>1. fs.op = "write" /\ UNCHANGED <<ctx, delivered, sent, inbox>>
    BY <1>2 DEF WriteDone
  <2>2. fs.job \in Jobs
    BY <1>0, <2>1, BusyWith
  <2>3. finished' = finished \/ finished' = Append(finished, fs.job)
    BY <1>2 DEF WriteDone, WriteDoneForRegister, WriteDoneForBlock, WriteDoneForRead,
                WriteDoneForWrite, Finish
  <2>4. ToSet(Append(finished, fs.job)) = ToSet(finished) \cup {fs.job}
    BY <1>0, <2>2, ToSetAppend
  <2> QED BY <2>1, <2>3, <2>4
<1> QED BY <1>1, <1>2

\* The steps that neither read from the stream nor add a context.
QuietBytes ==
  /\ UNCHANGED <<ctx, delivered, sent, inbox>>
  /\ ToSet(finished) \subseteq ToSet(finished')
  /\ fs.op = "read" => fs' = fs
LEMMA QuietBytesSteps ==
  ASSUME IInv,
         \/ UNCHANGED vars
         \/ \E c \in Transmits : AsyncTransmit(c)
         \/ \E u \in Writes : TunnelWrite(u)
         \/ PollTimerExpires \/ ItemDone \/ RunWrap \/ RunUser \/ InvokeCanceledRead
         \/ InvokeJob \/ WriteDone \/ RequestLost
  PROVE  QuietBytes
<1>1. CASE \/ UNCHANGED vars
           \/ \E c \in Transmits : AsyncTransmit(c)
           \/ \E u \in Writes : TunnelWrite(u)
           \/ PollTimerExpires \/ ItemDone \/ RunUser \/ InvokeCanceledRead \/ RequestLost
  BY <1>1 DEF QuietBytes, vars, lockVars, tunnelVars, wireVars, AsyncTransmit, TunnelWrite,
              PollTimerExpires, ItemDone, RunUser, InvokeCanceledRead, RequestLost
<1>2. CASE RunWrap
  <2>1. /\ UNCHANGED <<fs, ctx, delivered, sent, inbox>> /\ posted # <<>> /\ Head(posted).op = "wrap"
        /\ finished' = Append(finished, Head(posted).job)
    BY <1>2 DEF RunWrap, Finish, wireVars, tunnelVars
  <2>2. Head(posted).job \in Jobs /\ finished \in Seq(Jobs)
    BY <2>1, Known, FrontIsWrap, RegisterJobParts DEF Wrapping
  <2>3. ToSet(finished') = ToSet(finished) \cup {Head(posted).job}
    BY <2>1, <2>2, ToSetAppend
  <2> QED BY <2>1, <2>3 DEF QuietBytes
<1>3. CASE InvokeJob \/ WriteDone
  BY <1>3, NotReading DEF QuietBytes
<1> QED BY <1>1, <1>2, <1>3

\* A read that the user or the poll timer's handler starts, or does not.
LEMMA ReadSomeOrQuiet ==
  ASSUME IInv, (\E u \in Reads : TunnelRead(u)) \/ RunTimer
  PROVE  /\ UNCHANGED <<finished, fs, delivered, sent, inbox>>
         /\ ctx' = ctx \/ \E u \in Reads, room \in Nat \ {0} : \E ps : ReadSome(u, room, ps)
<1>1. CASE \E u \in Reads : TunnelRead(u)
  <2>1. PICK u \in Reads, room \in Rooms :
          /\ UNCHANGED <<finished, fs, delivered, wireVars>>
          /\ IF room = 0 THEN ctx' = ctx ELSE ReadSome(u, room, posted)
    BY <1>1 DEF TunnelRead
  <2>2. room \in Nat
    BY BoundsAssumption
  <2> QED BY <2>1, <2>2 DEF wireVars
<1>2. CASE RunTimer
  <2>1. PICK c : c = ctx[Head(posted).ctx]
    OBVIOUS
  <2>2. /\ posted # <<>> /\ Head(posted).op = "timer"
        /\ UNCHANGED <<finished, fs, delivered, wireVars>>
        /\ IF c.canceled THEN ctx' = ctx ELSE ReadSome(c.user, c.room, Tail(posted))
    BY <1>2, <2>1 DEF RunTimer
  <2>3. Head(posted).ctx \in 1..Len(ctx) /\ ctx \in Seq(Contexts)
    BY <2>2, Known, FrontTimer
  <2>4. c \in Contexts
    BY <2>1, <2>3
  <2>5. c.user \in Reads /\ c.room \in Nat \ {0}
    BY <2>4 DEF Contexts
  <2> QED BY <2>2, <2>5 DEF wireVars
<1> QED BY <1>1, <1>2

\* The bytes in the client are in order, wherever they are.
THEOREM BytesInvariant == Spec => [](IInv /\ BytesInv)
<1>1. IInv /\ BytesInv /\ [Next]_vars => BytesInv'
  <2> SUFFICES ASSUME IInv, BytesInv, [Next]_vars PROVE BytesInv'
    OBVIOUS
  <2>1. CASE \/ UNCHANGED vars
             \/ \E c \in Transmits : AsyncTransmit(c)
             \/ \E u \in Writes : TunnelWrite(u)
             \/ PollTimerExpires \/ ItemDone \/ RunWrap \/ RunUser \/ InvokeCanceledRead
             \/ InvokeJob \/ WriteDone \/ RequestLost
    <3>1. QuietBytes
      BY <2>1, QuietBytesSteps
    <3> QED BY <3>1, OtherBytes DEF QuietBytes
  <2>2. CASE (\E u \in Reads : TunnelRead(u)) \/ RunTimer
    BY <2>2, ReadSomeOrQuiet, ReadSomeBytes, OtherBytes
  <2>3. CASE Cancel
    BY <2>3, CancelBytes
  <2>4. CASE ReadDone
    BY <2>4, ReadDoneBytes
  <2>5. CASE ServerAnswers
    BY <2>5, ServerAnswersBytes
  <2> QED BY <2>1, <2>2, <2>3, <2>4, <2>5 DEF Next, Executor, FrameStream
<1> QED BY <1>1, InitBytes, InductiveInvariant, PTL DEF Spec

\* The bytes given to the readers are in the order in which the server sent
\* them and none comes twice, whatever comes late and whatever is canceled.
THEOREM BytesInOrder == Spec => []DeliveredInOrder
<1>1. IInv /\ BytesInv => DeliveredInOrder
  <2> SUFFICES ASSUME IInv, BytesInv PROVE DeliveredInOrder
    OBVIOUS
  <2>1. delivered \in Seq(Nat)
    BY Known DEF TypeOK
  <2>2. DOMAIN delivered = 1..Len(delivered)
    BY <2>1
  <2> QED BY <2>2 DEF DeliveredInOrder, BytesInv, ArrivingInv, Increasing
<1> QED BY <1>1, BytesInvariant, PTL

-----------------------------------------------------------------------------
\* How much of an answer is stored.
LEMMA FilledLength ==
  ASSUME NEW c \in Contexts, NEW b \in Seq(Nat)
  PROVE  Len(Filled(c, b)) = Len(c.data) + (IF Len(b) < c.room THEN Len(b) ELSE c.room)
<1> DEFINE k == IF Len(b) < c.room THEN Len(b) ELSE c.room
<1>1. c.data \in Seq(Nat) /\ c.room \in Nat \ {0} /\ Len(b) \in Nat
  BY DEF Contexts
<1>2. k \in 0..Len(b)
  BY <1>1
<1>3. Copied(c, b) = SubSeq(b, 1, k)
  BY DEF Copied
<1> HIDE DEF k
<1>4. SubSeq(b, 1, k) \in Seq(Nat) /\ Len(SubSeq(b, 1, k)) = k
  BY <1>2
<1>5. PICK a \in Seq(Nat) : a = c.data
  BY <1>1
<1>6. PICK d \in Seq(Nat) : d = SubSeq(b, 1, k)
  BY <1>4
<1>7. Filled(c, b) = a \o d
  BY <1>3, <1>5, <1>6 DEF Filled
<1>8. Len(a \o d) = Len(a) + Len(d)
  BY ConcatElements
<1> QED BY <1>4, <1>5, <1>6, <1>7, <1>8 DEF k

\* What an answer does to a context that all before it have fitted in: it is
\* counted, and fits unless the read is over.
LEMMA AnswerCounted ==
  ASSUME NEW c \in Contexts, NEW d \in Contexts, NEW frame, frame = None \/ frame \in Frames,
         Counted(c), Fits(c), TookAnswer(c, d, frame), d.size = c.size
  PROVE  Counted(d) /\ (ReadsOn(c, d, frame) => Fits(d))
<1>1. c.bytes \in Nat /\ c.room \in Nat \ {0} /\ c.size \in Nat \ {0}
  BY DEF Contexts
<1>2. CASE d.data = c.data /\ d.bytes = c.bytes
  <2>1. Counted(d)
    BY <1>2 DEF Counted
  <2>2. ASSUME ReadsOn(c, d, frame) PROVE Fits(d)
    <3>1. PICK b \in Seq(Nat) : b = frame.bytes
      BY <2>2 DEF ReadsOn, Frames
    <3>2. Len(b) \in Nat /\ c.bytes + Len(b) = c.bytes /\ d.room = c.room - Len(b)
      BY <1>2, <2>2, <3>1 DEF ReadsOn
    <3> QED BY <1>1, <1>2, <3>2 DEF Fits
  <2> QED BY <2>1, <2>2
<1>3. CASE /\ frame # None /\ d.data = Filled(c, frame.bytes)
           /\ d.bytes = c.bytes + Len(frame.bytes)
  <2>1. PICK b \in Seq(Nat) : b = frame.bytes
    BY <1>3 DEF Frames
  <2>2. Len(b) \in Nat
    BY <2>1
  <2>3. Len(d.data) = c.bytes + (IF Len(b) < c.room THEN Len(b) ELSE c.room)
    BY <1>3, <2>1, FilledLength DEF Fits
  <2>4. d.bytes = c.bytes + Len(b) /\ c.room + c.bytes = c.size
    BY <1>3, <2>1 DEF Fits
  <2>5. Counted(d)
    BY <1>1, <2>2, <2>3, <2>4 DEF Counted
  <2>6. ASSUME ReadsOn(c, d, frame) PROVE Fits(d)
    <3>1. Len(b) < c.room /\ d.room = c.room - Len(b)
      BY <2>1, <2>6 DEF ReadsOn
    <3>2. Len(d.data) = d.bytes
      BY <2>3, <2>4, <3>1
    <3>3. \A x, y, z \in Nat : (x - z) + (y + z) = x + y
      OBVIOUS
    <3>4. d.room + d.bytes = c.room + c.bytes
      <4>1. (c.room - Len(b)) + (c.bytes + Len(b)) = c.room + c.bytes
        BY <1>1, <2>2, <3>3, Zenon
      <4> QED BY <2>4, <3>1, <4>1, Zenon
    <3>5. d.room + d.bytes = d.size
      BY <2>4, <3>4
    <3> QED BY <3>2, <3>5, Zenon DEF Fits
  <2> QED BY <2>5, <2>6
<1> QED BY <1>2, <1>3 DEF TookAnswer

\* Steps that fill no buffer: contexts stay or are new.
LEMMA CountFrame ==
  ASSUME CountInv, ToSet(finished) \subseteq ToSet(finished'),
         \A n \in 1..Len(ctx') :
           \/ /\ n \in 1..Len(ctx) /\ ctx'[n].bytes = ctx[n].bytes /\ ctx'[n].data = ctx[n].data
              /\ ctx'[n].room = ctx[n].room /\ ctx'[n].size = ctx[n].size
           \/ Counted(ctx'[n]) /\ (ReadJob(n) \notin ToSet(finished') => Fits(ctx'[n]))
  PROVE  CountInv'
<1>1. \A n \in 1..Len(ctx) : Counted(ctx[n]) /\ (ReadJob(n) \notin ToSet(finished) => Fits(ctx[n]))
  BY DEF CountInv
<1>2. ASSUME NEW n \in 1..Len(ctx')
      PROVE  Counted(ctx'[n]) /\ (ReadJob(n) \notin ToSet(finished') => Fits(ctx'[n]))
  <2>1. CASE /\ n \in 1..Len(ctx) /\ ctx'[n].bytes = ctx[n].bytes /\ ctx'[n].data = ctx[n].data
             /\ ctx'[n].room = ctx[n].room /\ ctx'[n].size = ctx[n].size
    BY <1>1, <2>1 DEF Counted, Fits
  <2> QED BY <1>2, <2>1
<1> QED BY <1>2 DEF CountInv, Counted, Fits

\* The answer to a poll is counted.
LEMMA ReadDoneCount ==
  ASSUME IInv, CountInv, ReadDone
  PROVE  CountInv'
<1>0. /\ TypeOK /\ Phase /\ ctx \in Seq(Contexts) /\ Len(ctx) \in Nat /\ inbox \in Seq(Frames)
      /\ finished \in Seq(Jobs)
  BY Known DEF TypeOK
<1>1. fs.op = "read"
  BY DEF ReadDone
<1>2. Busy /\ waiting \in Jobs /\ waiting \notin ToSet(finished) /\ fs.job = waiting
  BY <1>0, <1>1, BusyWith
<1>3. inbox # <<>> => Head(inbox) \in Frames
  BY <1>0, ConcatHeadTail
<1>4. PICK frame : /\ frame = None \/ frame \in Frames
                   /\ ReadDoneForRegister(waiting, frame) \/ ReadDoneForRead(waiting, frame)
  BY <1>2, <1>3 DEF ReadDone
<1>5. CASE ReadDoneForRegister(waiting, frame)
  <2>1. UNCHANGED <<ctx, finished>>
    BY <1>5 DEF ReadDoneForRegister
  <2> QED BY <2>1, CountFrame
<1>6. CASE ReadDoneForRead(waiting, frame)
  <2>1. waiting[1] = "read" /\ waiting \in ReadJobs
    BY <1>2, <1>6, JobKinds DEF ReadDoneForRead
  <2>2. PICK n \in 1..Len(ctx) : waiting = ReadJob(n)
    BY <1>2, <2>1, HolderAlone
  <2>3. PICK cs : /\ SameContexts(ctx, cs)
                  /\ \A m \in 1..Len(ctx) : m # n => cs[m] = ctx[m]
                  /\ TookAnswer(ctx[n], cs[n], frame)
                  /\ \/ MaybeRetry(n, cs, posted) /\ fs' = Idle
                     \/ /\ ctx' = cs /\ fs' = Reading(waiting) /\ ReadsOn(ctx[n], cs[n], frame)
                        /\ UNCHANGED <<posted, finished, readContext, pollTimer, delivered>>
    BY <1>0, <1>4, <1>6, <2>1, <2>2, ReadDoneForReadCases
  <2>4. /\ ctx' = cs
        /\ \/ finished' = Append(finished, waiting)
           \/ finished' = finished /\ ReadsOn(ctx[n], cs[n], frame)
    BY <2>2, <2>3 DEF MaybeRetry, Finish
  <2>5. ToSet(Append(finished, waiting)) = ToSet(finished) \cup {waiting}
    BY <1>0, <1>2, ToSetAppend
  <2>6. ToSet(finished) \subseteq ToSet(finished')
    BY <2>4, <2>5
  <2>7. Len(cs) = Len(ctx) /\ ctx[n] \in Contexts /\ cs[n] \in Contexts /\ cs[n].size = ctx[n].size
    BY <1>0, <2>3 DEF SameContexts, SameContext
  <2>8. Counted(ctx[n]) /\ Fits(ctx[n])
    BY <1>2, <2>2 DEF CountInv
  <2>9. Counted(cs[n]) /\ (ReadsOn(ctx[n], cs[n], frame) => Fits(cs[n]))
    BY <1>4, <2>3, <2>7, <2>8, AnswerCounted
  <2>10. ReadJob(n) \notin ToSet(finished') => Fits(cs[n])
    BY <2>2, <2>4, <2>5, <2>9
  <2> QED BY <2>3, <2>4, <2>6, <2>7, <2>9, <2>10, CountFrame
<1> QED BY <1>4, <1>5, <1>6

\* The readers get the bytes in order, and bytes_read says how many are in
\* the buffer, or exceeds it when the buffer is full.
THEOREM TunnelIsInOrder == Spec => []TunnelInOrder
<1>1. Init => CountInv
  <2> SUFFICES ASSUME Init PROVE CountInv
    OBVIOUS
  <2>1. Len(ctx) = 0
    BY DEF Init
  <2> QED BY <2>1 DEF CountInv
<1>2. IInv /\ CountInv /\ [Next]_vars => CountInv'
  <2> SUFFICES ASSUME IInv, CountInv, [Next]_vars PROVE CountInv'
    OBVIOUS
  <2>1. CASE \/ UNCHANGED vars
             \/ \E c \in Transmits : AsyncTransmit(c)
             \/ \E u \in Writes : TunnelWrite(u)
             \/ PollTimerExpires \/ ItemDone \/ RunWrap \/ RunUser \/ InvokeCanceledRead
             \/ InvokeJob \/ WriteDone \/ RequestLost
    <3>1. QuietBytes
      BY <2>1, QuietBytesSteps
    <3> QED BY <3>1, CountFrame DEF QuietBytes
  <2>2. CASE (\E u \in Reads : TunnelRead(u)) \/ RunTimer
    <3>1. /\ finished' = finished
          /\ ctx' = ctx \/ \E u \in Reads, room \in Nat \ {0} : \E ps : ReadSome(u, room, ps)
      BY <2>2, ReadSomeOrQuiet
    <3>2. ASSUME NEW u \in Reads, NEW room \in Nat \ {0}, NEW ps, ReadSome(u, room, ps)
          PROVE  CountInv'
      <4>0. ctx \in Seq(Contexts) /\ Len(ctx) \in Nat
        BY Known
      <4>1. ctx' = Append(ctx, NewContext(u, room))
        BY <3>2 DEF ReadSome
      <4>2. Len(ctx') = Len(ctx) + 1 /\ (\A n \in 1..Len(ctx) : ctx'[n] = ctx[n])
            /\ ctx'[Len(ctx) + 1] = NewContext(u, room)
        BY <4>0, <4>1
      <4>3. \A n \in 1..Len(ctx') : n \in 1..Len(ctx) \/ n = Len(ctx) + 1
        BY <4>0, <4>2
      <4>4. PICK c : c = NewContext(u, room)
        OBVIOUS
      <4>5. c.data = <<>> /\ c.bytes = 0 /\ c.room = room /\ c.size = room
        BY <4>4 DEF NewContext
      <4>6. Counted(c) /\ Fits(c)
        BY <4>5 DEF Counted, Fits
      <4> QED BY <3>1, <4>2, <4>3, <4>4, <4>6, CountFrame
    <3> QED BY <3>1, <3>2, CountFrame
  <2>3. CASE Cancel
    <3>1. finished' = finished
      BY <2>3 DEF Cancel
    <3> QED BY <2>3, <3>1, CancelContexts, CountFrame
  <2>4. CASE ReadDone
    BY <2>4, ReadDoneCount
  <2>5. CASE ServerAnswers
    <3>1. UNCHANGED <<ctx, finished>>
      BY <2>5 DEF ServerAnswers, tunnelVars, lockVars
    <3> QED BY <3>1, CountFrame
  <2> QED BY <2>1, <2>2, <2>3, <2>4, <2>5 DEF Next, Executor, FrameStream
<1>3. IInv /\ CountInv => BytesCounted
  <2> SUFFICES ASSUME IInv, CountInv PROVE BytesCounted
    OBVIOUS
  <2>1. ctx \in Seq(Contexts)
    BY Known
  <2>2. DOMAIN ctx = 1..Len(ctx)
    BY <2>1
  <2> QED BY <2>2 DEF BytesCounted, CountInv, Counted
<1>4. Spec => []CountInv
  BY <1>1, <1>2, InductiveInvariant, PTL DEF Spec
<1>5. BytesCounted /\ DeliveredInOrder => TunnelInOrder
  BY DEF TunnelInOrder
<1> QED BY <1>3, <1>4, <1>5, InductiveInvariant, BytesInOrder, PTL
=============================================================================
