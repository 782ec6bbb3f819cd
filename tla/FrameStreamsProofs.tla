------------------------- MODULE FrameStreamsProofs -------------------------
(***************************************************************************)
(* Proofs about the three frame streams of MCFrameStreams: each AsyncRead  *)
(* has one answer, and one that waits has a read of the stream             *)
(* outstanding.  What the three do with the read that is current, with the *)
(* posted callbacks and with what the owners were told is the same few     *)
(* moves, each of which is a lemma.                                        *)
(***************************************************************************)
EXTENDS MCFrameStreams, SequenceFacts, FiniteSetTheorems

-----------------------------------------------------------------------------
(* q are the posted handlers, tl[r] is what read r was told, cur is the    *)
(* read that waits, or 0, and n is the number of reads so far.             *)

\* A handler that calls the callback of read r.
For(h, r) == h.op = "callback" /\ h.read = r

NoneFor(q, r) == \A i \in 1..Len(q) : ~For(q[i], r)
OneFor(q, r) == \E i \in 1..Len(q) : For(q[i], r) /\ \A j \in 1..Len(q) : For(q[j], r) => j = i

\* Read r waits, or its callback is posted, or it was told.
Answered(q, tl, cur, r) ==
  \/ cur = r /\ NoneFor(q, r) /\ tl[r] = <<>>
  \/ cur # r /\ OneFor(q, r) /\ tl[r] = <<>>
  \/ cur # r /\ NoneFor(q, r) /\ Len(tl[r]) = 1

IsSequence(q) == \E S : q \in Seq(S)

AnswerInv(q, tl, cur, n) ==
  /\ IsSequence(q)
  /\ n \in 0..MaxReads /\ cur \in 0..n /\ DOMAIN tl = 1..MaxReads
  /\ \A i \in 1..Len(q) : q[i].op = "callback" => q[i].read \in 1..n
  /\ \A r \in (n + 1)..MaxReads : tl[r] = <<>>
  /\ \A r \in 1..n : Answered(q, tl, cur, r)

\* A handler behind the others.
LEMMA AppendHandler ==
  ASSUME NEW q, IsSequence(q), NEW h
  PROVE  /\ IsSequence(Append(q, h)) /\ Len(q) \in Nat
         /\ Len(Append(q, h)) = Len(q) + 1
         /\ \A i \in 1..Len(q) : Append(q, h)[i] = q[i]
         /\ Append(q, h)[Len(q) + 1] = h
<1>1. PICK S : q \in Seq(S)
  BY DEF IsSequence
<1> DEFINE T == S \cup {h}
<1>2. q \in Seq(T) /\ h \in T
  BY <1>1
<1> HIDE DEF T
<1>3. Append(q, h) \in Seq(T)
  BY <1>2
<1> QED BY <1>2, <1>3 DEF IsSequence

\* The first handler taken off.
LEMMA TailHandler ==
  ASSUME NEW q, IsSequence(q), q # <<>>
  PROVE  /\ IsSequence(Tail(q)) /\ Len(q) \in Nat /\ Len(q) >= 1
         /\ Len(Tail(q)) = Len(q) - 1 /\ Head(q) = q[1]
         /\ \A i \in 1..(Len(q) - 1) : Tail(q)[i] = q[i + 1]
<1>1. PICK S : q \in Seq(S)
  BY DEF IsSequence
<1>2. Tail(q) \in Seq(S)
  BY <1>1
<1> QED BY <1>1, <1>2 DEF IsSequence

\* What a handler behind the others does to the reads.
LEMMA AppendFor ==
  ASSUME NEW q, IsSequence(q), NEW h, NEW r
  PROVE  /\ ~For(h, r) /\ NoneFor(q, r) => NoneFor(Append(q, h), r)
         /\ ~For(h, r) /\ OneFor(q, r) => OneFor(Append(q, h), r)
         /\ For(h, r) /\ NoneFor(q, r) => OneFor(Append(q, h), r)
<1> DEFINE u == Append(q, h)
           m == Len(q)
<1>1. m \in Nat /\ Len(u) = m + 1 /\ u[m + 1] = h
  BY AppendHandler
<1>0. \A i \in 1..m : u[i] = q[i]
  BY AppendHandler
<1> HIDE DEF u, m
<1>2. ASSUME NEW i \in 1..Len(u)
      PROVE  (i \in 1..m /\ u[i] = q[i]) \/ (i = m + 1 /\ u[i] = h)
  <2>1. i \in 1..m \/ i = m + 1
    BY <1>1
  <2>2. CASE i \in 1..m
    BY <1>0, <2>2
  <2>3. CASE i = m + 1
    BY <1>1, <2>3
  <2> QED BY <2>1, <2>2, <2>3
<1>3. m + 1 \in 1..Len(u) /\ \A i \in 1..m : i \in 1..Len(u)
  BY <1>1
<1>4. ASSUME ~For(h, r), NoneFor(q, r) PROVE NoneFor(u, r)
  BY <1>2, <1>4 DEF NoneFor, m
<1>5. ASSUME ~For(h, r), OneFor(q, r) PROVE OneFor(u, r)
  <2>1. PICK i \in 1..m : For(q[i], r) /\ \A j \in 1..m : For(q[j], r) => j = i
    BY <1>5 DEF OneFor, m
  <2>2. i \in 1..Len(u) /\ For(u[i], r)
    BY <1>0, <1>3, <2>1
  <2>3. ASSUME NEW j \in 1..Len(u), For(u[j], r) PROVE j = i
    BY <1>2, <1>5, <2>1, <2>3
  <2> QED BY <2>2, <2>3 DEF OneFor
<1>6. ASSUME For(h, r), NoneFor(q, r) PROVE OneFor(u, r)
  <2>1. m + 1 \in 1..Len(u) /\ For(u[m + 1], r)
    BY <1>1, <1>3, <1>6
  <2>2. ASSUME NEW j \in 1..Len(u), For(u[j], r) PROVE j = m + 1
    BY <1>2, <1>6, <2>2 DEF NoneFor, m
  <2> QED BY <2>1, <2>2 DEF OneFor
<1> QED BY <1>4, <1>5, <1>6 DEF u

\* What the first handler does to the reads when it is taken off.
LEMMA TailFor ==
  ASSUME NEW q, IsSequence(q), q # <<>>, NEW r
  PROVE  /\ NoneFor(q, r) => NoneFor(Tail(q), r) /\ ~For(Head(q), r)
         /\ ~For(Head(q), r) /\ OneFor(q, r) => OneFor(Tail(q), r)
         /\ For(Head(q), r) /\ OneFor(q, r) => NoneFor(Tail(q), r)
<1> DEFINE u == Tail(q)
           m == Len(q)
<1>1. /\ m \in Nat /\ m >= 1 /\ Len(u) = m - 1 /\ Head(q) = q[1]
      /\ \A i \in 1..(m - 1) : u[i] = q[i + 1]
  BY TailHandler
<1> HIDE DEF u
<1>2. ASSUME NEW i \in 1..Len(u) PROVE u[i] = q[i + 1] /\ i + 1 \in 1..m /\ i + 1 # 1
  BY <1>1
<1>3. 1 \in 1..m
  BY <1>1
<1>4. ASSUME NoneFor(q, r) PROVE NoneFor(u, r) /\ ~For(Head(q), r)
  BY <1>1, <1>2, <1>3, <1>4 DEF NoneFor
<1>5. ASSUME OneFor(q, r), ~For(Head(q), r) PROVE OneFor(u, r)
  <2>1. PICK i \in 1..m : For(q[i], r) /\ \A j \in 1..m : For(q[j], r) => j = i
    BY <1>5 DEF OneFor
  <2> DEFINE k == i - 1
  <2>2. i # 1
    BY <1>1, <1>5, <2>1
  <2>3. k \in 1..Len(u) /\ k + 1 = i
    BY <1>1, <2>2
  <2> HIDE DEF k
  <2>4. For(u[k], r)
    BY <1>2, <2>1, <2>3
  <2>5. ASSUME NEW j \in 1..Len(u), For(u[j], r) PROVE j = k
    <3>1. j + 1 = i
      BY <1>2, <2>1, <2>5
    <3> QED BY <1>1, <2>3, <3>1
  <2> QED BY <2>3, <2>4, <2>5 DEF OneFor
<1>6. ASSUME OneFor(q, r), For(Head(q), r) PROVE NoneFor(u, r)
  <2>1. PICK i \in 1..m : \A j \in 1..m : For(q[j], r) => j = i
    BY <1>6 DEF OneFor
  <2>2. i = 1
    BY <1>1, <1>3, <1>6, <2>1
  <2> QED BY <1>2, <2>1, <2>2 DEF NoneFor
<1> QED BY <1>4, <1>5, <1>6 DEF u

-----------------------------------------------------------------------------
(* The moves. *)

\* A new read waits.
LEMMA MoveAsk ==
  ASSUME NEW q, NEW tl, NEW n, AnswerInv(q, tl, 0, n), n < MaxReads
  PROVE  AnswerInv(q, tl, n + 1, n + 1)
<1>1. n \in Nat /\ MaxReads \in Nat /\ n + 1 \in 0..MaxReads /\ n + 1 \in 0..(n + 1)
  BY ReadsAssumption DEF AnswerInv
<1>2. IsSequence(q) /\ DOMAIN tl = 1..MaxReads
  BY DEF AnswerInv
<1>3. ASSUME NEW i \in 1..Len(q), q[i].op = "callback" PROVE q[i].read \in 1..n
  BY <1>3 DEF AnswerInv
<1>4. ASSUME NEW i \in 1..Len(q), q[i].op = "callback" PROVE q[i].read \in 1..(n + 1)
  BY <1>1, <1>3, <1>4
<1>5. \A r \in (n + 1)..MaxReads : tl[r] = <<>>
  BY DEF AnswerInv
<1>6. \A r \in ((n + 1) + 1)..MaxReads : tl[r] = <<>>
  BY <1>1, <1>5
<1>7. NoneFor(q, n + 1)
  <2> SUFFICES ASSUME NEW i \in 1..Len(q), For(q[i], n + 1) PROVE FALSE
    BY DEF NoneFor
  <2> QED BY <1>1, <1>3 DEF For
<1>8. ASSUME NEW r \in 1..(n + 1) PROVE Answered(q, tl, n + 1, r)
  <2>1. CASE r = n + 1
    <3>1. tl[r] = <<>>
      BY <1>1, <1>5, <2>1
    <3> QED BY <1>7, <2>1, <3>1 DEF Answered
  <2>2. CASE r # n + 1
    <3>1. r \in 1..n /\ r # 0
      BY <1>1, <2>2
    <3>2. Answered(q, tl, 0, r)
      BY <3>1 DEF AnswerInv
    <3> QED BY <2>2, <3>1, <3>2 DEF Answered
  <2> QED BY <2>1, <2>2
<1> QED BY <1>1, <1>2, <1>4, <1>6, <1>8 DEF AnswerInv

\* The callback of the read that waits is posted.
LEMMA MovePost ==
  ASSUME NEW q, NEW tl, NEW cur, NEW n, AnswerInv(q, tl, cur, n), cur # 0,
         NEW h, For(h, cur)
  PROVE  AnswerInv(Append(q, h), tl, 0, n)
<1> DEFINE u == Append(q, h)
<1>1. IsSequence(q) /\ n \in Nat /\ n \in 0..MaxReads /\ cur \in 1..n /\ DOMAIN tl = 1..MaxReads
  BY ReadsAssumption DEF AnswerInv
<1>2. /\ IsSequence(u) /\ Len(q) \in Nat /\ Len(u) = Len(q) + 1
      /\ \A i \in 1..Len(q) : u[i] = q[i]
      /\ u[Len(q) + 1] = h
  BY <1>1, AppendHandler
<1> HIDE DEF u
<1>3. ASSUME NEW i \in 1..Len(u), u[i].op = "callback" PROVE u[i].read \in 1..n
  <2>1. i \in 1..Len(q) \/ i = Len(q) + 1
    BY <1>2
  <2>2. CASE i \in 1..Len(q)
    BY <1>2, <1>3, <2>2 DEF AnswerInv
  <2>3. CASE i = Len(q) + 1
    BY <1>1, <1>2, <2>3 DEF For
  <2> QED BY <2>1, <2>2, <2>3
<1>4. ASSUME NEW r \in 1..n PROVE Answered(u, tl, 0, r)
  <2>1. Answered(q, tl, cur, r) /\ r # 0
    BY <1>1 DEF AnswerInv
  <2>2. CASE r = cur
    <3>1. NoneFor(q, r) /\ tl[r] = <<>>
      BY <2>1, <2>2 DEF Answered
    <3>2. OneFor(u, r)
      BY <1>1, <2>2, <3>1, AppendFor DEF u
    <3> QED BY <2>1, <3>1, <3>2 DEF Answered
  <2>3. CASE r # cur
    <3>1. ~For(h, r)
      BY <2>3 DEF For
    <3>2. NoneFor(q, r) => NoneFor(u, r)
      BY <1>1, <3>1, AppendFor DEF u
    <3>3. OneFor(q, r) => OneFor(u, r)
      BY <1>1, <3>1, AppendFor DEF u
    <3> QED BY <2>1, <2>3, <3>2, <3>3 DEF Answered
  <2> QED BY <2>2, <2>3
<1>5. \A r \in (n + 1)..MaxReads : tl[r] = <<>>
  BY DEF AnswerInv
<1>6. AnswerInv(u, tl, 0, n)
  BY <1>1, <1>2, <1>3, <1>4, <1>5 DEF AnswerInv
<1> QED BY <1>6 DEF u

\* Another handler is posted.
LEMMA MovePostOther ==
  ASSUME NEW q, NEW tl, NEW cur, NEW n, AnswerInv(q, tl, cur, n),
         NEW h, h.op # "callback"
  PROVE  AnswerInv(Append(q, h), tl, cur, n)
<1> DEFINE u == Append(q, h)
<1>1. IsSequence(q) /\ n \in 0..MaxReads /\ cur \in 0..n /\ DOMAIN tl = 1..MaxReads
  BY DEF AnswerInv
<1>2. /\ IsSequence(u) /\ Len(q) \in Nat /\ Len(u) = Len(q) + 1
      /\ \A i \in 1..Len(q) : u[i] = q[i]
      /\ u[Len(q) + 1] = h
  BY <1>1, AppendHandler
<1> HIDE DEF u
<1>3. ASSUME NEW i \in 1..Len(u), u[i].op = "callback" PROVE u[i].read \in 1..n
  <2>1. i \in 1..Len(q) \/ i = Len(q) + 1
    BY <1>2
  <2>2. CASE i \in 1..Len(q)
    BY <1>2, <1>3, <2>2 DEF AnswerInv
  <2>3. CASE i = Len(q) + 1
    BY <1>2, <1>3, <2>3
  <2> QED BY <2>1, <2>2, <2>3
<1>4. ASSUME NEW r \in 1..n PROVE Answered(u, tl, cur, r)
  <2>1. Answered(q, tl, cur, r)
    BY DEF AnswerInv
  <2>2. ~For(h, r)
    BY DEF For
  <2>3. NoneFor(q, r) => NoneFor(u, r)
    BY <1>1, <2>2, AppendFor DEF u
  <2>4. OneFor(q, r) => OneFor(u, r)
    BY <1>1, <2>2, AppendFor DEF u
  <2> QED BY <2>1, <2>3, <2>4 DEF Answered
<1>5. \A r \in (n + 1)..MaxReads : tl[r] = <<>>
  BY DEF AnswerInv
<1>6. AnswerInv(u, tl, cur, n)
  BY <1>1, <1>2, <1>3, <1>4, <1>5 DEF AnswerInv
<1> QED BY <1>6 DEF u

\* The handlers that are left still are for reads there have been.
LEMMA TailReads ==
  ASSUME NEW q, NEW tl, NEW cur, NEW n, AnswerInv(q, tl, cur, n), q # <<>>
  PROVE  /\ IsSequence(q) /\ IsSequence(Tail(q))
         /\ \A i \in 1..Len(Tail(q)) : Tail(q)[i].op = "callback" => Tail(q)[i].read \in 1..n
         /\ Head(q).op = "callback" => Head(q).read \in 1..n
<1> DEFINE u == Tail(q)
<1>1. IsSequence(q)
  BY DEF AnswerInv
<1>2. /\ IsSequence(u) /\ Len(q) \in Nat /\ Len(q) >= 1
      /\ Len(u) = Len(q) - 1 /\ Head(q) = q[1]
      /\ \A i \in 1..(Len(q) - 1) : u[i] = q[i + 1]
  BY <1>1, TailHandler
<1> HIDE DEF u
<1>3. ASSUME NEW i \in 1..Len(u), u[i].op = "callback" PROVE u[i].read \in 1..n
  <2>1. i \in 1..(Len(q) - 1) /\ i + 1 \in 1..Len(q)
    BY <1>2
  <2> QED BY <1>2, <1>3, <2>1 DEF AnswerInv
<1>4. Head(q).op = "callback" => Head(q).read \in 1..n
  <2>1. 1 \in 1..Len(q)
    BY <1>2
  <2> QED BY <1>2, <2>1 DEF AnswerInv
<1> QED BY <1>1, <1>2, <1>3, <1>4 DEF u

\* Told once what was not told before.
LEMMA ToldOnce == \A x : Len(Append(<<>>, x)) = 1
<1> SUFFICES ASSUME NEW x PROVE Len(Append(<<>>, x)) = 1
  OBVIOUS
<1>1. <<>> \in Seq({x}) /\ Len(<<>>) = 0 /\ x \in {x}
  BY EmptyIsSeq
<1> QED BY <1>1

\* A posted callback runs.
LEMMA MoveRun ==
  ASSUME NEW q, NEW tl, NEW cur, NEW n, AnswerInv(q, tl, cur, n), q # <<>>,
         Head(q).op = "callback", NEW x
  PROVE  AnswerInv(Tail(q), [tl EXCEPT ![Head(q).read] = Append(@, x)], cur, n)
<1> DEFINE u == Tail(q)
           a == Head(q).read
           v == [tl EXCEPT ![a] = Append(@, x)]
<1>1. /\ IsSequence(q) /\ n \in Nat /\ MaxReads \in Nat /\ n \in 0..MaxReads
      /\ cur \in 0..n /\ DOMAIN tl = 1..MaxReads
  BY ReadsAssumption DEF AnswerInv
<1>2. /\ IsSequence(u) /\ a \in 1..n
      /\ \A i \in 1..Len(u) : u[i].op = "callback" => u[i].read \in 1..n
  BY TailReads
<1>3. For(Head(q), a) /\ \A r : r # a => ~For(Head(q), r)
  BY DEF For
<1> HIDE DEF a, u
<1>4. a \in 1..MaxReads
  BY <1>1, <1>2
<1>5. /\ DOMAIN v = 1..MaxReads /\ v[a] = Append(tl[a], x)
      /\ \A r \in 1..MaxReads : r # a => v[r] = tl[r]
  BY <1>1, <1>4
<1> HIDE DEF v
<1>6. ASSUME NEW r \in 1..n PROVE Answered(u, v, cur, r)
  <2>1. Answered(q, tl, cur, r) /\ r \in 1..MaxReads
    BY <1>1 DEF AnswerInv
  <2>2. CASE r = a
    <3>1. ~NoneFor(q, r)
      BY <1>1, <1>3, <2>2, TailFor
    <3>2. cur # r /\ OneFor(q, r) /\ tl[r] = <<>>
      BY <2>1, <3>1 DEF Answered
    <3>3. NoneFor(u, r)
      BY <1>1, <1>3, <2>2, <3>2, TailFor DEF u
    <3>4. Len(v[r]) = 1
      BY <1>5, <2>2, <3>2, ToldOnce
    <3> QED BY <3>2, <3>3, <3>4 DEF Answered
  <2>3. CASE r # a
    <3>1. v[r] = tl[r] /\ ~For(Head(q), r)
      BY <1>3, <1>5, <2>1, <2>3
    <3>2. NoneFor(q, r) => NoneFor(u, r)
      BY <1>1, TailFor DEF u
    <3>3. OneFor(q, r) => OneFor(u, r)
      BY <1>1, <3>1, TailFor DEF u
    <3> QED BY <2>1, <3>1, <3>2, <3>3 DEF Answered
  <2> QED BY <2>2, <2>3
<1>7. ASSUME NEW r \in (n + 1)..MaxReads PROVE v[r] = <<>>
  <2>1. r # a /\ r \in 1..MaxReads
    BY <1>1, <1>2
  <2>2. tl[r] = <<>>
    BY DEF AnswerInv
  <2> QED BY <1>5, <2>1, <2>2
<1>8. AnswerInv(u, v, cur, n)
  BY <1>1, <1>2, <1>5, <1>6, <1>7 DEF AnswerInv
<1> QED BY <1>8 DEF u, v, a

\* Another handler is taken off.
LEMMA MoveRunOther ==
  ASSUME NEW q, NEW tl, NEW cur, NEW n, AnswerInv(q, tl, cur, n), q # <<>>,
         Head(q).op # "callback"
  PROVE  AnswerInv(Tail(q), tl, cur, n)
<1> DEFINE u == Tail(q)
<1>1. /\ IsSequence(q) /\ n \in 0..MaxReads /\ cur \in 0..n /\ DOMAIN tl = 1..MaxReads
  BY DEF AnswerInv
<1>2. /\ IsSequence(u)
      /\ \A i \in 1..Len(u) : u[i].op = "callback" => u[i].read \in 1..n
  BY TailReads
<1> HIDE DEF u
<1>3. ASSUME NEW r \in 1..n PROVE Answered(u, tl, cur, r)
  <2>1. Answered(q, tl, cur, r)
    BY DEF AnswerInv
  <2>2. ~For(Head(q), r)
    BY DEF For
  <2>3. NoneFor(q, r) => NoneFor(u, r)
    BY <1>1, TailFor DEF u
  <2>4. OneFor(q, r) => OneFor(u, r)
    BY <1>1, <2>2, TailFor DEF u
  <2> QED BY <2>1, <2>3, <2>4 DEF Answered
<1>4. \A r \in (n + 1)..MaxReads : tl[r] = <<>>
  BY DEF AnswerInv
<1>5. AnswerInv(u, tl, cur, n)
  BY <1>1, <1>2, <1>3, <1>4 DEF AnswerInv
<1> QED BY <1>5 DEF u

\* The read that waits is told at once.
LEMMA MoveTell ==
  ASSUME NEW q, NEW tl, NEW cur, NEW n, AnswerInv(q, tl, cur, n), cur # 0, NEW x
  PROVE  AnswerInv(q, [tl EXCEPT ![cur] = Append(@, x)], 0, n)
<1> DEFINE v == [tl EXCEPT ![cur] = Append(@, x)]
<1>1. /\ IsSequence(q) /\ n \in Nat /\ MaxReads \in Nat /\ n \in 0..MaxReads
      /\ cur \in 1..n /\ DOMAIN tl = 1..MaxReads
      /\ \A i \in 1..Len(q) : q[i].op = "callback" => q[i].read \in 1..n
  BY ReadsAssumption DEF AnswerInv
<1>2. cur \in 1..MaxReads /\ 0 \in 0..n
  BY <1>1
<1>3. /\ DOMAIN v = 1..MaxReads /\ v[cur] = Append(tl[cur], x)
      /\ \A r \in 1..MaxReads : r # cur => v[r] = tl[r]
  BY <1>1, <1>2
<1> HIDE DEF v
<1>4. ASSUME NEW r \in 1..n PROVE Answered(q, v, 0, r)
  <2>1. Answered(q, tl, cur, r) /\ r \in 1..MaxReads /\ r # 0
    BY <1>1 DEF AnswerInv
  <2>2. CASE r = cur
    <3>1. NoneFor(q, r) /\ tl[r] = <<>>
      BY <2>1, <2>2 DEF Answered
    <3>2. Len(v[r]) = 1
      BY <1>3, <2>2, <3>1, ToldOnce
    <3> QED BY <2>1, <3>1, <3>2 DEF Answered
  <2>3. CASE r # cur
    <3>1. v[r] = tl[r]
      BY <1>3, <2>1, <2>3
    <3> QED BY <2>1, <2>3, <3>1 DEF Answered
  <2> QED BY <2>2, <2>3
<1>5. ASSUME NEW r \in (n + 1)..MaxReads PROVE v[r] = <<>>
  <2>1. r # cur /\ r \in 1..MaxReads
    BY <1>1
  <2>2. tl[r] = <<>>
    BY DEF AnswerInv
  <2> QED BY <1>3, <2>1, <2>2
<1>6. AnswerInv(q, v, 0, n)
  BY <1>1, <1>2, <1>3, <1>4, <1>5 DEF AnswerInv
<1> QED BY <1>6 DEF v

\* At first there is nothing.
LEMMA MoveInit == AnswerInv(<<>>, [r \in 1..MaxReads |-> <<>>], 0, 0)
<1>1. IsSequence(<<>>)
  BY EmptyIsSeq DEF IsSequence
<1>2. MaxReads \in Nat /\ Len(<<>>) = 0 /\ 1..0 = {}
  BY ReadsAssumption
<1>3. 0 \in 0..MaxReads /\ 0 \in 0..0 /\ (0 + 1)..MaxReads = 1..MaxReads
  BY <1>2
<1> QED BY <1>1, <1>2, <1>3 DEF AnswerInv

\* One answer, counted.
LEMMA AnswersCounted ==
  ASSUME NEW q, NEW tl, NEW cur, NEW n, AnswerInv(q, tl, cur, n), NEW r \in 1..n
  PROVE  Cardinality({i \in DOMAIN q : q[i].op = "callback" /\ q[i].read = r})
           + Len(tl[r]) + (IF cur = r THEN 1 ELSE 0) = 1
<1> DEFINE P == {i \in DOMAIN q : q[i].op = "callback" /\ q[i].read = r}
<1>1. PICK S : q \in Seq(S)
  BY DEF AnswerInv, IsSequence
<1>2. DOMAIN q = 1..Len(q)
  BY <1>1
<1>3. Answered(q, tl, cur, r)
  BY DEF AnswerInv
<1>4. ASSUME NoneFor(q, r) PROVE Cardinality(P) = 0
  <2>1. P = {}
    BY <1>2, <1>4 DEF NoneFor, For
  <2> HIDE DEF P
  <2> QED BY <2>1, FS_EmptySet
<1>5. ASSUME OneFor(q, r) PROVE Cardinality(P) = 1
  <2>1. PICK i \in 1..Len(q) : For(q[i], r) /\ \A j \in 1..Len(q) : For(q[j], r) => j = i
    BY <1>5 DEF OneFor
  <2>2. P = {i}
    BY <1>2, <2>1 DEF For
  <2> HIDE DEF P
  <2> QED BY <2>2, FS_Singleton
<1> HIDE DEF P
<1>6. Len(<<>>) = 0
  OBVIOUS
<1> SUFFICES Cardinality(P) + Len(tl[r]) + (IF cur = r THEN 1 ELSE 0) = 1
  BY DEF P
<1>7. CASE cur = r /\ NoneFor(q, r) /\ tl[r] = <<>>
  BY <1>4, <1>6, <1>7
<1>8. CASE cur # r /\ OneFor(q, r) /\ tl[r] = <<>>
  BY <1>5, <1>6, <1>8
<1>9. CASE cur # r /\ NoneFor(q, r) /\ Len(tl[r]) = 1
  BY <1>4, <1>9
<1> QED BY <1>3, <1>7, <1>8, <1>9 DEF Answered

\* A frame is looked for, for the read that waits: its callback is posted if
\* there is one.
LEMMA MoveLook ==
  ASSUME NEW q, NEW tl, NEW cur, NEW n, AnswerInv(q, tl, cur, n), cur # 0,
         NEW none \in BOOLEAN, NEW h, For(h, cur)
  PROVE  AnswerInv(IF none THEN q ELSE Append(q, h), tl, IF none THEN cur ELSE 0, n)
<1>1. CASE none
  BY <1>1
<1>2. CASE ~none
  BY <1>2, MovePost
<1> QED BY <1>1, <1>2

-----------------------------------------------------------------------------
(* The streams: every step is a move, or does not touch the reads.         *)

\* What holds of Rs485FrameStream and of FdcanusbFrameStream.
ReadInv == AnswerInv(posted, told, current, reads) /\ (current # 0 => outstanding)

\* Rs485FrameStream: ParseFrame() for a read that waits, and MaybeStartRead().
LEMMA ParseAndReadAnswers ==
  ASSUME NEW r, NEW n, AnswerInv(posted, told, r, n), r # 0, NEW bytes,
         ParseAndRead(r, bytes), reads' = n, told' = told
  PROVE  ReadInv'
<1> DEFINE k == ParseFrame(bytes).frame
           h == Callback(r, "ok", k)
           none == k = 0
<1>1. /\ current' = (IF none THEN r ELSE 0) /\ outstanding' = none
      /\ posted' = (IF none THEN posted ELSE Append(posted, h))
  BY DEF ParseAndRead
<1>2. For(h, r)
  BY DEF For, Callback
<1> HIDE DEF k, h
<1>3. none \in BOOLEAN
  OBVIOUS
<1> HIDE DEF none
<1>4. AnswerInv(IF none THEN posted ELSE Append(posted, h), told, IF none THEN r ELSE 0, n)
  BY <1>2, <1>3, MoveLook
<1>5. AnswerInv(posted', told', current', reads')
  BY <1>1, <1>4
<1>6. current' # 0 => outstanding'
  BY <1>1
<1> QED BY <1>5, <1>6 DEF ReadInv

\* Rs485FrameStream keeps the answers.
LEMMA Rs485Keeps ==
  ASSUME ReadInv, [Next]_vars
  PROVE  ReadInv'
<1>1. AnswerInv(posted, told, current, reads) /\ (current # 0 => outstanding)
  BY DEF ReadInv
<1>2. reads \in Nat /\ reads + 1 # 0 /\ current \in Nat
  BY <1>1, ReadsAssumption DEF AnswerInv
<1>3. CASE AsyncRead
  <2>1. /\ current = 0 /\ reads < MaxReads /\ reads' = reads + 1 /\ told' = told
    BY <1>3 DEF AsyncRead
  <2>2. AnswerInv(posted, told, reads + 1, reads + 1)
    BY <1>1, <2>1, MoveAsk
  <2>3. CASE outstanding
    <3>1. current' = reads + 1 /\ outstanding' = outstanding /\ posted' = posted
      BY <1>3, <2>1, <2>3 DEF AsyncRead
    <3> QED BY <2>1, <2>2, <2>3, <3>1 DEF ReadInv
  <2>4. CASE ~outstanding
    <3>1. ParseAndRead(reads + 1, streambuf)
      BY <1>3, <2>1, <2>4 DEF AsyncRead
    <3> QED BY <1>2, <2>1, <2>2, <3>1, ParseAndReadAnswers
  <2> QED BY <2>3, <2>4
<1>4. CASE HandleRead
  <2>1. reads' = reads /\ told' = told
    BY <1>4 DEF HandleRead
  <2>2. PICK n \in 1..Len(line) :
          IF current # 0
          THEN ParseAndRead(current, streambuf \o SubSeq(line, 1, n))
          ELSE UNCHANGED <<current, posted>>
    BY <1>4 DEF HandleRead
  <2>3. CASE current # 0
    BY <1>1, <2>1, <2>2, <2>3, ParseAndReadAnswers
  <2>4. CASE current = 0
    <3>1. current' = current /\ posted' = posted
      BY <2>2, <2>4
    <3> QED BY <1>1, <2>1, <2>4, <3>1 DEF ReadInv
  <2> QED BY <2>3, <2>4
<1>5. CASE Cancel
  <2> DEFINE h == Callback(current, "aborted", 0)
  <2>1. /\ current # 0 /\ current' = 0 /\ posted' = Append(posted, h)
        /\ reads' = reads /\ told' = told
    BY <1>5 DEF Cancel
  <2>2. For(h, current)
    BY DEF For, Callback
  <2> HIDE DEF h
  <2>3. AnswerInv(Append(posted, h), told, 0, reads)
    BY <1>1, <2>1, <2>2, MovePost
  <2> QED BY <2>1, <2>3 DEF ReadInv
<1>6. CASE TimerExpires
  <2>1. /\ posted' = Append(posted, TimerCall) /\ current' = current
        /\ reads' = reads /\ told' = told /\ outstanding' = outstanding
    BY <1>6 DEF TimerExpires
  <2>2. TimerCall.op # "callback"
    BY DEF TimerCall
  <2>3. AnswerInv(Append(posted, TimerCall), told, current, reads)
    BY <1>1, <2>2, MovePostOther
  <2> QED BY <1>1, <2>1, <2>3 DEF ReadInv
<1>7. CASE RunCallback
  <2> DEFINE a == Head(posted).read
             x == [ec |-> Head(posted).ec, frame |-> Head(posted).frame]
  <2>1. /\ posted # <<>> /\ Head(posted).op = "callback" /\ posted' = Tail(posted)
        /\ told' = [told EXCEPT ![a] = Append(@, x)]
        /\ current' = current /\ reads' = reads /\ outstanding' = outstanding
    BY <1>7 DEF RunCallback, Tell
  <2> HIDE DEF x
  <2>2. AnswerInv(Tail(posted), [told EXCEPT ![a] = Append(@, x)], current, reads)
    BY <1>1, <2>1, MoveRun
  <2> QED BY <1>1, <2>1, <2>2 DEF ReadInv
<1>8. CASE HandleTimer
  <2> DEFINE x == [ec |-> "aborted", frame |-> 0]
  <2>1. /\ posted # <<>> /\ Head(posted) = TimerCall /\ posted' = Tail(posted)
        /\ current' = 0 /\ reads' = reads
        /\ told' = IF current # 0 THEN [told EXCEPT ![current] = Append(@, x)] ELSE told
    BY <1>8 DEF HandleTimer, Tell
  <2>2. Head(posted).op # "callback"
    BY <2>1 DEF TimerCall
  <2>3. AnswerInv(Tail(posted), told, current, reads)
    BY <1>1, <2>1, <2>2, MoveRunOther
  <2> HIDE DEF x
  <2>4. AnswerInv(Tail(posted), told', 0, reads)
    <3>1. CASE current # 0
      BY <2>1, <2>3, <3>1, MoveTell
    <3>2. CASE current = 0
      BY <2>1, <2>3, <3>2
    <3> QED BY <3>1, <3>2
  <2> QED BY <2>1, <2>4 DEF ReadInv
<1>9. CASE PeerSends
  BY <1>9 DEF PeerSends, ReadInv
<1>10. CASE UNCHANGED vars
  BY <1>10 DEF vars, ReadInv
<1> QED BY <1>3, <1>4, <1>5, <1>6, <1>7, <1>8, <1>9, <1>10 DEF Next

\* FdcanusbFrameStream: the end of AsyncRead and of HandleRead for a read
\* that waits.
LEMMA FinishAnswers ==
  ASSUME NEW r, NEW n, AnswerInv(posted, told, r, n), r # 0, NEW p, NEW wait,
         Fdcanusb!Finish(r, p, wait), reads' = n, told' = told
  PROVE  ReadInv'
<1> DEFINE h == Fdcanusb!Callback(r, Fdcanusb!Received(p.frame[1]))
           none == p.frame = <<>>
<1>1. /\ current' = (IF none THEN r ELSE 0) /\ outstanding' = none
      /\ posted' = (IF none THEN posted ELSE Append(posted, h))
  BY DEF Fdcanusb!Finish
<1>2. For(h, r)
  BY DEF For, Fdcanusb!Callback
<1> HIDE DEF h
<1>3. none \in BOOLEAN
  OBVIOUS
<1> HIDE DEF none
<1>4. AnswerInv(IF none THEN posted ELSE Append(posted, h), told, IF none THEN r ELSE 0, n)
  BY <1>2, <1>3, MoveLook
<1>5. AnswerInv(posted', told', current', reads')
  BY <1>1, <1>4
<1>6. current' # 0 => outstanding'
  BY <1>1
<1> QED BY <1>5, <1>6 DEF ReadInv

\* What the two CAN streams share.
LEMMA CanKeeps ==
  ASSUME AnswerInv(posted, told, current, reads),
         Fdcanusb!TimerExpires \/ Fdcanusb!RunCallback
  PROVE  /\ AnswerInv(posted', told', current', reads')
         /\ current' = current /\ outstanding' = outstanding
<1>1. CASE Fdcanusb!TimerExpires
  <2> DEFINE h == Fdcanusb!TimerCall
  <2>1. /\ posted' = Append(posted, h) /\ current' = current
        /\ reads' = reads /\ told' = told /\ outstanding' = outstanding
    BY <1>1 DEF Fdcanusb!TimerExpires
  <2>2. h.op # "callback"
    BY DEF Fdcanusb!TimerCall
  <2> HIDE DEF h
  <2>3. AnswerInv(Append(posted, h), told, current, reads)
    BY <2>2, MovePostOther
  <2> QED BY <2>1, <2>3
<1>2. CASE Fdcanusb!RunCallback
  <2> DEFINE a == Head(posted).read
             x == Head(posted).result
  <2>1. /\ posted # <<>> /\ Head(posted).op = "callback" /\ posted' = Tail(posted)
        /\ told' = [told EXCEPT ![a] = Append(@, x)]
        /\ current' = current /\ reads' = reads /\ outstanding' = outstanding
    BY <1>2 DEF Fdcanusb!RunCallback, Fdcanusb!Tell
  <2> HIDE DEF x
  <2>2. AnswerInv(Tail(posted), [told EXCEPT ![a] = Append(@, x)], current, reads)
    BY <2>1, MoveRun
  <2> QED BY <2>1, <2>2
<1> QED BY <1>1, <1>2

\* FdcanusbFrameStream keeps the answers.
LEMMA FdcanusbKeeps ==
  ASSUME ReadInv, Fdcanusb!Next
  PROVE  ReadInv'
<1>1. AnswerInv(posted, told, current, reads) /\ (current # 0 => outstanding)
  BY DEF ReadInv
<1>2. reads \in Nat /\ reads + 1 # 0
  BY <1>1, ReadsAssumption DEF AnswerInv
<1>3. CASE Fdcanusb!AsyncRead
  <2>1. /\ current = 0 /\ reads < MaxReads /\ reads' = reads + 1 /\ told' = told
    BY <1>3 DEF Fdcanusb!AsyncRead
  <2>2. AnswerInv(posted, told, reads + 1, reads + 1)
    BY <1>1, <2>1, MoveAsk
  <2>3. CASE outstanding
    <3>1. current' = reads + 1 /\ outstanding' = outstanding /\ posted' = posted
      BY <1>3, <2>1, <2>3 DEF Fdcanusb!AsyncRead
    <3> QED BY <2>1, <2>2, <2>3, <3>1 DEF ReadInv
  <2>4. CASE ~outstanding
    <3>1. PICK p, wait : Fdcanusb!Finish(reads + 1, p, wait)
      BY <1>3, <2>1, <2>4 DEF Fdcanusb!AsyncRead
    <3> QED BY <1>2, <2>1, <2>2, <3>1, FinishAnswers
  <2> QED BY <2>3, <2>4
<1>4. CASE Fdcanusb!HandleRead
  <2>1. reads' = reads /\ told' = told
    BY <1>4 DEF Fdcanusb!HandleRead
  <2>2. CASE current # 0
    <3>1. PICK p : Fdcanusb!Finish(current, p, timer)
      BY <1>4, <2>2 DEF Fdcanusb!HandleRead
    <3> QED BY <1>1, <2>1, <2>2, <3>1, FinishAnswers
  <2>3. CASE current = 0
    <3>1. current' = current /\ posted' = posted
      BY <1>4, <2>3 DEF Fdcanusb!HandleRead
    <3> QED BY <1>1, <2>1, <2>3, <3>1 DEF ReadInv
  <2> QED BY <2>2, <2>3
<1>5. CASE Fdcanusb!HandleTimer
  <2> DEFINE x == Fdcanusb!NoFrame
  <2>1. /\ posted # <<>> /\ Head(posted) = Fdcanusb!TimerCall /\ posted' = Tail(posted)
        /\ current' = 0 /\ reads' = reads
        /\ told' = IF current # 0 THEN [told EXCEPT ![current] = Append(@, x)] ELSE told
    BY <1>5 DEF Fdcanusb!HandleTimer, Fdcanusb!Tell
  <2>2. Head(posted).op # "callback"
    BY <2>1 DEF Fdcanusb!TimerCall
  <2>3. AnswerInv(Tail(posted), told, current, reads)
    BY <1>1, <2>1, <2>2, MoveRunOther
  <2> HIDE DEF x
  <2>4. AnswerInv(Tail(posted), told', 0, reads)
    <3>1. CASE current # 0
      BY <2>1, <2>3, <3>1, MoveTell
    <3>2. CASE current = 0
      BY <2>1, <2>3, <3>2
    <3> QED BY <3>1, <3>2
  <2> QED BY <2>1, <2>4 DEF ReadInv
<1>6. CASE Fdcanusb!TimerExpires \/ Fdcanusb!RunCallback
  BY <1>1, <1>6, CanKeeps DEF ReadInv
<1>7. ASSUME UNCHANGED <<posted, told, current, reads, outstanding>>
      PROVE  ReadInv'
  BY <1>7 DEF ReadInv
<1>8. ASSUME NEW n \in CanBatches, Fdcanusb!AsyncWrite(n)
      PROVE  ReadInv'
  BY <1>7, <1>8 DEF Fdcanusb!AsyncWrite
<1>9. CASE Fdcanusb!AdapterAnswers
  BY <1>7, <1>9 DEF Fdcanusb!AdapterAnswers
<1>10. CASE Fdcanusb!PeerSends
  BY <1>7, <1>10 DEF Fdcanusb!PeerSends
<1> QED BY <1>3, <1>4, <1>5, <1>6, <1>8, <1>9, <1>10 DEF Fdcanusb!Next

\* SocketcanFrameStream reads from the socket exactly while a read waits.
SocketInv == AnswerInv(posted, told, current, reads) /\ (current # 0 <=> outstanding)

\* What is left of a write behind the handlers: no callback of a read.
LEMMA EndWriteKeeps ==
  ASSUME NEW q, NEW tl, NEW cur, NEW n, AnswerInv(q, tl, cur, n), NEW ec
  PROVE  AnswerInv(q \o Socketcan!EndWrite(ec), tl, cur, n)
<1>1. PICK S : q \in Seq(S)
  BY DEF AnswerInv, IsSequence
<1>2. CASE writing = <<>>
  <2>1. q \o <<>> = q
    BY <1>1, ConcatEmpty
  <2> QED BY <1>2, <2>1 DEF Socketcan!EndWrite
<1>3. CASE writing # <<>>
  <2> DEFINE h == Socketcan!WriteCallback(writing[1].call, ec)
             T == S \cup {h}
  <2>1. h.op # "callback"
    BY DEF Socketcan!WriteCallback
  <2>2. Socketcan!EndWrite(ec) = <<h>>
    BY <1>3 DEF Socketcan!EndWrite
  <2> HIDE DEF h
  <2>3. q \in Seq(T) /\ h \in T
    BY <1>1
  <2> HIDE DEF T
  <2>4. q \o <<h>> = Append(q, h)
    BY <2>3, AppendIsConcat
  <2> QED BY <2>1, <2>2, <2>4, MovePostOther
<1> QED BY <1>2, <1>3

\* SocketcanFrameStream keeps the answers.
LEMMA SocketcanKeeps ==
  ASSUME SocketInv, Socketcan!Next
  PROVE  SocketInv'
<1>1. AnswerInv(posted, told, current, reads) /\ (current # 0 <=> outstanding)
  BY DEF SocketInv
<1>2. reads \in Nat /\ reads + 1 # 0
  BY <1>1, ReadsAssumption DEF AnswerInv
<1>3. CASE Socketcan!AsyncRead
  <2>1. /\ current = 0 /\ reads < MaxReads /\ reads' = reads + 1 /\ told' = told
        /\ current' = reads + 1 /\ outstanding' = TRUE /\ posted' = posted
    BY <1>3 DEF Socketcan!AsyncRead
  <2>2. AnswerInv(posted, told, reads + 1, reads + 1)
    BY <1>1, <2>1, MoveAsk
  <2> QED BY <1>2, <2>1, <2>2 DEF SocketInv
<1>4. CASE Socketcan!HandleRead
  <2> DEFINE h == Socketcan!Callback(current, Socketcan!Received(
                    Socketcan!FrameOf(Head(line).id, Head(line).data)))
  <2>1. /\ outstanding /\ outstanding' = FALSE /\ current' = 0
        /\ posted' = Append(posted, h) /\ reads' = reads /\ told' = told
    BY <1>4 DEF Socketcan!HandleRead
  <2>2. For(h, current)
    BY DEF For, Socketcan!Callback
  <2> HIDE DEF h
  <2>3. AnswerInv(Append(posted, h), told, 0, reads)
    BY <1>1, <2>1, <2>2, MovePost
  <2> QED BY <2>1, <2>3 DEF SocketInv
<1>5. CASE Socketcan!HandleTimer
  <2>1. posted # <<>> /\ Head(posted) = Socketcan!TimerCall /\ reads' = reads /\ told' = told
    BY <1>5 DEF Socketcan!HandleTimer
  <2>2. Head(posted).op # "callback"
    BY <2>1 DEF Socketcan!TimerCall
  <2>3. AnswerInv(Tail(posted), told, current, reads)
    BY <1>1, <2>1, <2>2, MoveRunOther
  <2>4. CASE current = 0
    <3>1. posted' = Tail(posted) /\ current' = current /\ outstanding' = outstanding
      BY <1>5, <2>4 DEF Socketcan!HandleTimer
    <3> QED BY <1>1, <2>1, <2>3, <3>1 DEF SocketInv
  <2>5. CASE current # 0
    <3> DEFINE h == Socketcan!Callback(current, Socketcan!NoFrame)
               q == Tail(posted)
    <3>1. /\ current' = 0 /\ outstanding' = FALSE
          /\ posted' = (q \o <<h>>) \o Socketcan!EndWrite("aborted")
      BY <1>5, <2>5 DEF Socketcan!HandleTimer
    <3>2. For(h, current)
      BY DEF For, Socketcan!Callback
    <3> HIDE DEF h, q
    <3>3. AnswerInv(Append(q, h), told, 0, reads)
      BY <2>3, <2>5, <3>2, MovePost DEF q
    <3>4. q \o <<h>> = Append(q, h)
      <4>1. PICK S : q \in Seq(S)
        BY <2>3 DEF AnswerInv, IsSequence, q
      <4> DEFINE T == S \cup {h}
      <4>2. q \in Seq(T) /\ h \in T
        BY <4>1
      <4> HIDE DEF T
      <4> QED BY <4>2, AppendIsConcat
    <3>5. AnswerInv(posted', told, 0, reads)
      BY <3>1, <3>3, <3>4, EndWriteKeeps
    <3> QED BY <2>1, <3>1, <3>5 DEF SocketInv
  <2> QED BY <2>4, <2>5
<1>6. ASSUME UNCHANGED <<told, current, reads, outstanding>>,
             AnswerInv(posted', told, current, reads)
      PROVE  SocketInv'
  BY <1>1, <1>6 DEF SocketInv
<1>7. ASSUME NEW n \in CanBatches, Socketcan!AsyncWriteMultiple(n)
      PROVE  SocketInv'
  <2>1. UNCHANGED <<posted, told, current, reads, outstanding>>
    BY <1>7 DEF Socketcan!AsyncWriteMultiple
  <2> QED BY <1>1, <1>6, <2>1
<1>8. CASE Socketcan!StartWriteMultipleContext
  <2> DEFINE last == writing[1].index = Len(writing[1].frames)
  <2>1. /\ UNCHANGED <<told, current, reads, outstanding>>
        /\ posted' = IF last THEN posted \o Socketcan!EndWrite("ok") ELSE posted
    BY <1>8 DEF Socketcan!StartWriteMultipleContext
  <2> HIDE DEF last
  <2>2. AnswerInv(posted \o Socketcan!EndWrite("ok"), told, current, reads)
    BY <1>1, EndWriteKeeps
  <2>3. AnswerInv(posted', told, current, reads)
    BY <1>1, <2>1, <2>2
  <2> QED BY <1>6, <2>1, <2>3
<1>9. CASE Socketcan!WriteError
  <2>1. /\ UNCHANGED <<told, current, reads, outstanding>>
        /\ posted' = posted \o Socketcan!EndWrite("error")
    BY <1>9 DEF Socketcan!WriteError
  <2>2. AnswerInv(posted', told, current, reads)
    BY <1>1, <2>1, EndWriteKeeps
  <2> QED BY <1>6, <2>1, <2>2
<1>10. CASE Socketcan!RunWriteCallback
  <2>1. /\ UNCHANGED <<told, current, reads, outstanding>>
        /\ posted # <<>> /\ Head(posted).op # "callback" /\ posted' = Tail(posted)
    BY <1>10 DEF Socketcan!RunWriteCallback
  <2>2. AnswerInv(posted', told, current, reads)
    BY <1>1, <2>1, MoveRunOther
  <2> QED BY <1>6, <2>1, <2>2
<1>11. CASE Socketcan!PeerSends
  <2>1. UNCHANGED <<posted, told, current, reads, outstanding>>
    BY <1>11 DEF Socketcan!PeerSends
  <2> QED BY <1>1, <1>6, <2>1
<1>12. CASE Socketcan!TimerExpires \/ Socketcan!RunCallback
  <2>1. Fdcanusb!TimerExpires \/ Fdcanusb!RunCallback
    BY <1>12 DEF Socketcan!TimerExpires, Socketcan!RunCallback, Fdcanusb!TimerExpires,
                 Fdcanusb!RunCallback, Socketcan!TimerCall, Fdcanusb!TimerCall,
                 Socketcan!Tell, Fdcanusb!Tell
  <2>2. /\ AnswerInv(posted', told', current', reads')
        /\ current' = current /\ outstanding' = outstanding
    BY <1>1, <2>1, CanKeeps
  <2> QED BY <1>1, <2>2 DEF SocketInv
<1> QED BY <1>3, <1>4, <1>5, <1>7, <1>8, <1>9, <1>10, <1>11, <1>12 DEF Socketcan!Next

-----------------------------------------------------------------------------
\* Of the part that a behaviour is about.
AnswersInv ==
  /\ which \in {"rs485", "fdcanusb"} => ReadInv
  /\ which = "socketcan" => SocketInv

\* Nothing has been asked at first.
LEMMA AnswersInit ==
  ASSUME AllInit
  PROVE  AnswersInv
<1> DEFINE Empty == /\ posted = <<>> /\ told = [r \in 1..MaxReads |-> <<>>]
                    /\ current = 0 /\ reads = 0 /\ outstanding = FALSE
<1>1. ASSUME Empty PROVE ReadInv /\ SocketInv
  <2>1. AnswerInv(posted, told, current, reads)
    BY <1>1, MoveInit
  <2> QED BY <1>1, <2>1 DEF ReadInv, SocketInv
<1>2. Init => Empty
  BY DEF Init
<1>3. Fdcanusb!Init => Empty
  BY DEF Fdcanusb!Init, Fdcanusb!StreamInit
<1>4. Socketcan!Init => Empty
  BY DEF Socketcan!Init, Socketcan!StreamInit
<1> HIDE DEF Empty
<1>5. Empty
  BY <1>2, <1>3, <1>4 DEF AllInit
<1> QED BY <1>1, <1>5 DEF AnswersInv

\* The answers are kept by every step.
LEMMA AnswersStep ==
  ASSUME AnswersInv, [AllNext]_allVars
  PROVE  AnswersInv'
<1>1. CASE Rs485Step
  <2>1. which = "rs485" /\ which' = which /\ Next
    BY <1>1 DEF Rs485Step
  <2>2. ReadInv'
    BY <2>1, Rs485Keeps DEF AnswersInv
  <2> QED BY <2>1, <2>2 DEF AnswersInv
<1>2. CASE FdcanusbStep
  <2>1. which = "fdcanusb" /\ which' = which /\ Fdcanusb!Next
    BY <1>2 DEF FdcanusbStep
  <2>2. ReadInv'
    BY <2>1, FdcanusbKeeps DEF AnswersInv
  <2> QED BY <2>1, <2>2 DEF AnswersInv
<1>3. CASE SocketcanStep
  <2>1. which = "socketcan" /\ which' = which /\ Socketcan!Next
    BY <1>3 DEF SocketcanStep
  <2>2. SocketInv'
    BY <2>1, SocketcanKeeps DEF AnswersInv
  <2> QED BY <2>1, <2>2 DEF AnswersInv
<1>4. CASE ClientStep
  <2>1. which = "client" /\ which' = which
    BY <1>4 DEF ClientStep
  <2> QED BY <2>1 DEF AnswersInv
<1>5. CASE UNCHANGED allVars
  BY <1>5 DEF allVars, vars, AnswersInv, ReadInv, SocketInv
<1> QED BY <1>1, <1>2, <1>3, <1>4, <1>5 DEF AllNext

\* Rs485FrameStream on its own, for every noise and every message: each
\* AsyncRead has one answer, whether a frame, the timeout or a cancel comes
\* first, and a read that waits has a read of the stream outstanding.
THEOREM Rs485ReadsAnswered == Spec => [](OneAnswerEach /\ ReaderServed)
<1>1. Init => ReadInv
  BY MoveInit DEF Init, ReadInv
<1>2. ReadInv /\ [Next]_vars => ReadInv'
  BY Rs485Keeps
<1>3. ReadInv => OneAnswerEach /\ ReaderServed
  BY AnswersCounted DEF ReadInv, OneAnswerEach, Pending, ReaderServed
<1> QED BY <1>1, <1>2, <1>3, PTL DEF Spec

\* The three frame streams: an AsyncRead has one answer, and one that waits
\* has a read of the descriptor outstanding, whatever comes first of a frame,
\* the timeout, a cancel and the error of a write, and in whatever order the
\* posted handlers meet the reads that follow.
THEOREM EveryReadAnswered == AllSpec => []ReadsAnswered
<1>1. AllInit => AnswersInv
  BY AnswersInit
<1>2. AnswersInv /\ [AllNext]_allVars => AnswersInv'
  BY AnswersStep
<1>3. AnswersInv => ReadsAnswered
  <2>1. ASSUME ReadInv PROVE OneAnswerEach /\ ReaderServed
    BY <2>1, AnswersCounted DEF ReadInv, OneAnswerEach, Pending, ReaderServed
  <2>2. ASSUME ReadInv PROVE Fdcanusb!OneAnswerEach
    <3>1. AnswerInv(posted, told, current, reads) /\ (current # 0 => outstanding)
      BY <2>2 DEF ReadInv
    <3>2. ASSUME NEW r \in 1..reads
          PROVE  Cardinality(Fdcanusb!Pending(r)) + Len(told[r])
                   + (IF current = r THEN 1 ELSE 0) = 1
      BY <3>1, AnswersCounted DEF Fdcanusb!Pending
    <3>3. \A S : Fdcanusb!Cardinality(S) = Cardinality(S)
      BY DEF Fdcanusb!Cardinality, Cardinality
    <3> QED BY <3>1, <3>2, <3>3 DEF Fdcanusb!OneAnswerEach
  <2>3. ASSUME SocketInv PROVE Socketcan!OneAnswerEach
    <3>1. AnswerInv(posted, told, current, reads) /\ (current # 0 => outstanding)
      BY <2>3 DEF SocketInv
    <3>2. ASSUME NEW r \in 1..reads
          PROVE  Cardinality(Socketcan!Pending(r)) + Len(told[r])
                   + (IF current = r THEN 1 ELSE 0) = 1
      BY <3>1, AnswersCounted DEF Socketcan!Pending
    <3>3. \A S : Socketcan!Cardinality(S) = Cardinality(S)
      BY DEF Socketcan!Cardinality, Cardinality
    <3> QED BY <3>1, <3>2, <3>3 DEF Socketcan!OneAnswerEach
  <2> QED BY <2>1, <2>2, <2>3 DEF AnswersInv, ReadsAnswered
<1> QED BY <1>1, <1>2, <1>3, PTL DEF AllSpec
=============================================================================
