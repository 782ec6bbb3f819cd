------------------------- MODULE ThreadWriterProofs -------------------------
(***************************************************************************)
(* Proofs about ThreadWriter, for any buffers, sizes and capacities: what  *)
(* was accepted is in the file, in the child's hands or in data_, in this  *)
(* order (NothingLost); the advice given to the kernel stays behind what   *)
(* it has (FadviseBehind); a reclaimed buffer is free (ReclaimedIsFree);   *)
(* and the writer is an append-only log (ImplementsLog).                   *)
(*                                                                         *)
(* IInv adds where each thread is (Threads), that data_ never exceeds its  *)
(* capacity, and what the reclaimer and child_offset_ know of the file     *)
(* (Counted).                                                              *)
(***************************************************************************)
EXTENDS ThreadWriter, SequenceFacts

\* What the program counters say of data_, current and done_.
Threads ==
  /\ IF cpc = "fwrite" THEN Len(current) = 1 ELSE current = <<>>
  /\ cpc = "pop" => data # <<>>
  /\ exiting => done
  /\ done => ppc # "ready"
  /\ ppc \in {"join", "closed"} => done
  /\ cpc = "exited" => done /\ data = <<>>
  /\ ppc = "closed" => cpc = "exited"

\* What was given to fwrite.
Filed == os \o stdio

Counted ==
  /\ reclaimed = ToSet(Filed)
  /\ childOffset = Bytes(Filed)

\* What holds of the buffers, wherever they are.
BufferInv == NothingLost /\ Distinct(accepted) /\ Counted /\ FadviseBehind

IInv == TypeOK /\ Threads /\ Len(data) <= capacity /\ BufferInv

-----------------------------------------------------------------------------
(* The sum of the sizes, a recursive function. *)

\* f holds the sums of the first elements of s, up to the n-th.
Sums(f, s, n) ==
  /\ f[0] = 0
  /\ \A k \in 1..n : f[k] = f[k - 1] + BufferSize[s[k]]

\* The recursion of Bytes has a solution.
LEMMA SumsExist ==
  ASSUME NEW s \in Seq(Buffers)
  PROVE  \E f \in [0..Len(s) -> Nat] : Sums(f, s, Len(s))
<1> DEFINE T == {n \in Nat : n <= Len(s) => \E f \in [0..n -> Nat] : Sums(f, s, n)}
<1>1. 0 \in T
  <2> DEFINE f == [k \in 0..0 |-> 0]
  <2>1. Sums(f, s, 0)
    BY DEF Sums
  <2> QED BY <2>1
<1>2. ASSUME NEW n \in Nat, n \in T PROVE n + 1 \in T
  <2> SUFFICES ASSUME n + 1 <= Len(s) 
               PROVE \E f \in [0..(n + 1) -> Nat] : Sums(f, s, n + 1)
    OBVIOUS
  <2>1. PICK f \in [0..n -> Nat] : Sums(f, s, n)
    BY <1>2
  <2> DEFINE g == [k \in 0..(n + 1) |-> IF k = n + 1 THEN f[n] + BufferSize[s[n + 1]] ELSE f[k]]
  <2>2. s[n + 1] \in Buffers
    OBVIOUS
  <2>3. BufferSize[s[n + 1]] \in Nat
    BY <2>2, SizesAssumption
  <2>4. g \in [0..(n + 1) -> Nat] /\ g[0] = 0
    BY <2>1, <2>3 DEF Sums
  <2>5. ASSUME NEW k \in 1..(n + 1) PROVE g[k] = g[k - 1] + BufferSize[s[k]]
    BY <2>1 DEF Sums
  <2> HIDE DEF g
  <2> QED BY <2>4, <2>5 DEF Sums
<1> HIDE DEF T
<1>3. Nat \subseteq T
  BY <1>1, <1>2, NatSetInduction
<1> QED BY <1>3 DEF T

\* Two solutions agree as far as the sequences do.
LEMMA SumsAgree ==
  ASSUME NEW s, NEW t, NEW m \in Nat, NEW n \in Nat, m <= n, NEW f, NEW g,
         Sums(f, s, m), Sums(g, t, n), SameUpTo(s, t, m)
  PROVE  \A k \in 0..m : f[k] = g[k]
<1> DEFINE T == {k \in Nat : k <= m => f[k] = g[k]}
<1>1. 0 \in T
  BY DEF Sums
<1>2. ASSUME NEW k \in Nat, k \in T PROVE k + 1 \in T
  <2> SUFFICES ASSUME k + 1 <= m PROVE f[k + 1] = g[k + 1]
    OBVIOUS
  <2>1. f[k] = g[k]
    BY <1>2
  <2>2. k + 1 \in 1..m /\ k + 1 \in 1..n /\ (k + 1) - 1 = k
    OBVIOUS
  <2>3. f[k + 1] = f[k] + BufferSize[s[k + 1]]
    BY <2>2 DEF Sums
  <2>4. g[k + 1] = g[k] + BufferSize[t[k + 1]]
    BY <2>2 DEF Sums
  <2> QED BY <2>1, <2>2, <2>3, <2>4 DEF SameUpTo
<1> HIDE DEF T
<1>3. Nat \subseteq T
  BY <1>1, <1>2, NatSetInduction
<1> QED BY <1>3 DEF T

\* Bytes is the last of the sums.
LEMMA BytesIsSum ==
  ASSUME NEW s \in Seq(Buffers), NEW f \in [0..Len(s) -> Nat], Sums(f, s, Len(s))
  PROVE  Bytes(s) = f[Len(s)] /\ Bytes(s) \in Nat
<1> DEFINE Body(g) == [n \in 0..Len(s) |-> IF n = 0 THEN 0 ELSE Behind(g[n - 1], s[n])]
           F == CHOOSE g : g = Body(g)
<1>1. Bytes(s) = F[Len(s)]
  BY DEF Bytes
<1>2. f = Body(f)
  <2>2. ASSUME NEW n \in 0..Len(s) PROVE f[n] = Body(f)[n]
    BY DEF Sums, Behind
  <2>3. DOMAIN Body(f) = 0..Len(s) /\ Body(f) = [n \in 0..Len(s) |-> Body(f)[n]]
    OBVIOUS
  <2>4. f = [n \in 0..Len(s) |-> f[n]]
    OBVIOUS
  <2> QED BY <2>2, <2>3, <2>4
<1>3. F = Body(F)
  BY <1>2
<1> HIDE DEF F
<1>4. Sums(F, s, Len(s))
  BY <1>3 DEF Behind, Sums
<1>5. \A k \in 0..Len(s) : f[k] = F[k]
  BY <1>4, SumsAgree DEF SameUpTo
<1> QED BY <1>1, <1>5

\* What Bytes is of nothing, of one buffer more, and of a concatenation.
LEMMA BytesOfConcat ==
  ASSUME NEW s \in Seq(Buffers), NEW t \in Seq(Buffers)
  PROVE  /\ Bytes(s) \in Nat /\ Bytes(t) \in Nat
         /\ Bytes(s \o t) = Bytes(s) + Bytes(t)
<1> DEFINE u == s \o t
<1>1. u \in Seq(Buffers) /\ Len(u) = Len(s) + Len(t)
  OBVIOUS
<1>2. \A k \in 1..Len(s) : u[k] = s[k]
  OBVIOUS
<1>3. \A k \in 1..Len(t) : u[Len(s) + k] = t[k]
  OBVIOUS
<1> HIDE DEF u
<1>4. PICK f \in [0..Len(s) -> Nat] : Sums(f, s, Len(s))
  BY SumsExist
<1>5. PICK g \in [0..Len(t) -> Nat] : Sums(g, t, Len(t))
  BY SumsExist
<1>6. PICK h \in [0..Len(u) -> Nat] : Sums(h, u, Len(u))
  BY <1>1, SumsExist
<1>7. Bytes(s) = f[Len(s)] /\ Bytes(s) \in Nat
  BY <1>4, BytesIsSum
<1>8. Bytes(t) = g[Len(t)] /\ Bytes(t) \in Nat
  BY <1>5, BytesIsSum
<1>9. Bytes(u) = h[Len(u)]
  BY <1>1, <1>6, BytesIsSum
<1>10. f[Len(s)] = h[Len(s)]
  <2>1. Len(s) \in Nat /\ Len(u) \in Nat /\ Len(s) <= Len(u)
    BY <1>1
  <2>3. \A k \in 1..Len(s) : s[k] = u[k]
    BY <1>2
  <2> DEFINE m == Len(s)
             n == Len(u)
  <2>4. m \in Nat /\ n \in Nat /\ m <= n /\ Sums(f, s, m) /\ Sums(h, u, n)
        /\ SameUpTo(s, u, m)
    BY <1>4, <1>6, <2>1, <2>3 DEF SameUpTo
  <2> HIDE DEF m, n
  <2>5. \A k \in 0..m : f[k] = h[k]
    BY SMTT(60), <2>4, SumsAgree
  <2>2. \A k \in 0..Len(s) : f[k] = h[k]
    BY <2>5 DEF m
  <2> QED BY <2>1, <2>2
<1> DEFINE T == {k \in Nat : k <= Len(t) => h[Len(s) + k] = f[Len(s)] + g[k]}
<1>11. 0 \in T
  <2>1. f[Len(s)] \in Nat /\ Len(s) + 0 = Len(s)
    BY <1>7
  <2>2. g[0] = 0
    BY <1>5 DEF Sums
  <2>3. f[Len(s)] + g[0] = f[Len(s)]
    BY <2>1, <2>2
  <2> QED BY <1>10, <2>1, <2>3
<1>12. ASSUME NEW k \in Nat, k \in T PROVE k + 1 \in T
  <2> SUFFICES ASSUME k + 1 <= Len(t) PROVE h[Len(s) + (k + 1)] = f[Len(s)] + g[k + 1]
    OBVIOUS
  <2>1. h[Len(s) + k] = f[Len(s)] + g[k]
    BY <1>12
  <2>2. Len(s) + (k + 1) \in 1..Len(u) /\ (Len(s) + (k + 1)) - 1 = Len(s) + k
    BY <1>1
  <2>3. h[Len(s) + (k + 1)] = h[Len(s) + k] + BufferSize[u[Len(s) + (k + 1)]]
    BY <1>6, <2>2 DEF Sums
  <2>4. k + 1 \in 1..Len(t) /\ (k + 1) - 1 = k
    OBVIOUS
  <2>5. g[k + 1] = g[k] + BufferSize[t[k + 1]]
    BY <1>5, <2>4 DEF Sums
  <2>6. u[Len(s) + (k + 1)] = t[k + 1]
    BY <1>3, <2>4
  <2>7. BufferSize[t[k + 1]] \in Nat /\ g[k] \in Nat /\ f[Len(s)] \in Nat
    <3>1. t[k + 1] \in Buffers /\ k \in 0..Len(t) /\ Len(s) \in 0..Len(s)
      BY <2>4
    <3> QED BY <3>1, SizesAssumption
  <2> QED BY <2>1, <2>3, <2>5, <2>6, <2>7
<1> HIDE DEF T
<1>13. Nat \subseteq T
  BY <1>11, <1>12, NatSetInduction
<1>14. h[Len(s) + Len(t)] = f[Len(s)] + g[Len(t)]
  BY <1>13 DEF T
<1> QED BY <1>1, <1>7, <1>8, <1>9, <1>14 DEF u

\* Bytes of nothing and of one buffer.
LEMMA BytesOfOne ==
  /\ Bytes(<<>>) = 0
  /\ \A b \in Buffers : Bytes(<<b>>) = BufferSize[b]
<1>1. Bytes(<<>>) = 0
  <2>1. <<>> \in Seq(Buffers) /\ Len(<<>>) = 0
    BY EmptyIsSeq
  <2>2. PICK f \in [0..Len(<<>>) -> Nat] : Sums(f, <<>>, Len(<<>>))
    BY <2>1, SumsExist
  <2>3. Bytes(<<>>) = f[Len(<<>>)]
    BY <2>1, <2>2, BytesIsSum
  <2> QED BY <2>1, <2>2, <2>3 DEF Sums
<1>2. ASSUME NEW b \in Buffers PROVE Bytes(<<b>>) = BufferSize[b]
  <2> DEFINE s == <<b>>
  <2>1. s \in Seq(Buffers) /\ Len(s) = 1 /\ s[1] = b
    OBVIOUS
  <2> HIDE DEF s
  <2>2. PICK f \in [0..Len(s) -> Nat] : Sums(f, s, Len(s))
    BY <2>1, SumsExist
  <2>3. Bytes(s) = f[1]
    BY <2>1, <2>2, BytesIsSum
  <2>4. f[1] = f[0] + BufferSize[b] /\ f[0] = 0
    BY <2>1, <2>2 DEF Sums
  <2>5. BufferSize[b] \in Nat
    BY SizesAssumption
  <2> QED BY <2>3, <2>4, <2>5 DEF s
<1> QED BY <1>1, <1>2

-----------------------------------------------------------------------------
(* The buffers. *)

\* The sequences of a state, and those put together from them.
LEMMA SeqTypes ==
  ASSUME TypeOK
  PROVE  /\ os \in Seq(Buffers) /\ stdio \in Seq(Buffers)
         /\ current \in Seq(Buffers) /\ data \in Seq(Buffers)
         /\ accepted \in Seq(Buffers)
         /\ Filed \in Seq(Buffers) /\ Filed \o current \in Seq(Buffers)
<1>1. /\ os \in Seq(Buffers) /\ stdio \in Seq(Buffers) /\ accepted \in Seq(Buffers)
      /\ current \in Seq(Buffers) /\ data \in Seq(Buffers)
  BY DEF TypeOK
<1>2. Filed \in Seq(Buffers)
  BY <1>1, ConcatElements DEF Filed
<1>3. Filed \o current \in Seq(Buffers)
  BY <1>1, <1>2, ConcatElements
<1> QED BY <1>1, <1>2, <1>3

\* NothingLost with its parts named.
LEMMA NothingLostDef == NothingLost <=> accepted = (Filed \o current) \o data
BY DEF NothingLost, Filed

\* Flushing the FILE, as far as the buffers go.
LEMMA FlushKeepsBuffers ==
  ASSUME TypeOK, BufferInv, os' = os \o stdio, stdio' = <<>>,
         UNCHANGED <<asynchronous, data, current, accepted, reclaimed, childOffset, lastFadvise>>
  PROVE  BufferInv' /\ os' \in Seq(Buffers) /\ stdio' \in Seq(Buffers)
<1> USE DEF BufferInv
<1>1. os' \in Seq(Buffers) /\ stdio' \in Seq(Buffers) /\ os' = Filed
  BY SeqTypes, EmptyIsSeq DEF Filed
<1>2. Filed' = Filed
  <2>1. Filed' = os' \o <<>>
    BY DEF Filed
  <2> QED BY <1>1, <2>1, ConcatEmpty
<1>3. NothingLost'
  <2>1. accepted' = (Filed' \o current') \o data'
    BY <1>2, NothingLostDef
  <2> QED BY <2>1 DEF NothingLost, Filed
<1>4. Counted'
  <2>1. reclaimed' = ToSet(Filed') /\ childOffset' = Bytes(Filed')
    BY <1>2 DEF Counted
  <2> QED BY <2>1 DEF Counted, Filed
<1>5. FadviseBehind'
  <2>1. Bytes(os') = Bytes(os) + Bytes(stdio) /\ Bytes(os) \in Nat /\ Bytes(stdio) \in Nat
    BY SeqTypes, BytesOfConcat
  <2>2. lastFadvise' <= Bytes(os')
    BY <2>1 DEF FadviseBehind, TypeOK
  <2>3. asynchronous' => childOffset' - lastFadvise' <= BlockSize
    BY DEF FadviseBehind
  <2> QED BY <2>2, <2>3 DEF FadviseBehind
<1>6. Distinct(accepted)'
  BY DEF Distinct
<1> QED BY <1>1, <1>3, <1>4, <1>5, <1>6

\* A step that leaves the buffers alone.
LEMMA BuffersUnchanged ==
  ASSUME BufferInv,
         UNCHANGED <<asynchronous, data, current, accepted, os, stdio, reclaimed,
                     childOffset, lastFadvise>>
  PROVE  BufferInv'
<1> USE DEF BufferInv
<1>1. NothingLost'
  BY DEF NothingLost
<1>2. Distinct(accepted)'
  BY DEF Distinct
<1>3. Counted'
  BY DEF Counted, Filed
<1>4. FadviseBehind'
  BY DEF FadviseBehind
<1> QED BY <1>1, <1>2, <1>3, <1>4

\* Write: growing data_ first, push_back never overwrites the front.
LEMMA WriteKeepsBuffers ==
  ASSUME IInv, NEW b \in Buffers, Write(b)
  PROVE  /\ BufferInv' /\ data' \in Seq(Buffers) /\ accepted' \in Seq(Buffers)
         /\ capacity' \in Nat \ {0} /\ Len(data') <= capacity' /\ data' # <<>>
<1> USE DEF IInv, BufferInv
<1>1. capacity' \in Nat \ {0} /\ Len(data) < capacity'
  BY DEF Write, Grow, TypeOK
<1>2. data' = Append(data, b)
  BY <1>1 DEF Write, PushBack, TypeOK
<1>3. accepted' = Append(accepted, b) /\ b \notin ToSet(accepted)
  BY ToSetElement DEF Write, Contains, TypeOK
<1>4. UNCHANGED <<asynchronous, current, os, stdio, reclaimed, childOffset, lastFadvise>>
  BY DEF Write, childVars, fileVars
<1>5. data' \in Seq(Buffers) /\ accepted' \in Seq(Buffers) /\ Len(data') <= capacity'
  BY <1>1, <1>2, <1>3 DEF TypeOK
<1>9. data' # <<>>
  BY <1>2 DEF TypeOK
<1>6. NothingLost'
  <2> DEFINE u == Filed \o current
  <2>1. u \in Seq(Buffers) /\ data \in Seq(Buffers) /\ accepted = u \o data /\ u' = u
    BY <1>4, SeqTypes, NothingLostDef DEF Filed
  <2> HIDE DEF u
  <2>2. Append(u \o data, b) = u \o Append(data, b)
    BY <2>1, AppendConcat
  <2>3. accepted' = u' \o data'
    BY <1>2, <1>3, <2>1, <2>2
  <2> QED BY <2>3 DEF NothingLost, Filed, u
<1>7. Distinct(accepted)'
  <2>1. Distinct(accepted')
    BY <1>3, AppendDistinct DEF TypeOK
  <2> QED BY <2>1 DEF Distinct
<1>8. Counted' /\ FadviseBehind'
  BY <1>4 DEF Counted, FadviseBehind, Filed
<1> QED BY <1>1, <1>5, <1>6, <1>7, <1>8, <1>9

\* WriteFront takes the front of data_.
LEMMA PopKeepsBuffers ==
  ASSUME IInv, WriteFrontPop
  PROVE  /\ BufferInv' /\ data' \in Seq(Buffers) /\ Len(data') <= capacity
         /\ current' \in Seq(Buffers) /\ Len(current') = 1
<1> USE DEF IInv, BufferInv
<1>1. data # <<>> /\ current = <<>>
  BY DEF WriteFrontPop, Threads
<1> DEFINE h == <<Head(data)>>
           t == Tail(data)
<1>2. h \in Seq(Buffers) /\ Len(h) = 1 /\ t \in Seq(Buffers) /\ data = h \o t
  <2>1. Head(data) \in Buffers /\ t \in Seq(Buffers) /\ data = h \o t
    BY <1>1, ConcatHeadTail DEF TypeOK
  <2> QED BY <2>1, SingletonSeq
<1>3. current' = h /\ data' = t
      /\ UNCHANGED <<asynchronous, accepted, os, stdio, reclaimed, childOffset, lastFadvise>>
  BY DEF WriteFrontPop, parentVars, fileVars
<1>4. Len(data') <= capacity
  BY <1>1, <1>3 DEF TypeOK
<1> HIDE DEF h, t
<1>5. NothingLost'
  <2>1. accepted = Filed \o data
    BY <1>1, SeqTypes, NothingLostDef, ConcatEmpty
  <2>5. Filed \in Seq(Buffers)
    BY SeqTypes
  <2>2. (Filed \o h) \o t = Filed \o (h \o t)
    BY SMTT(30), <1>2, <2>5, ConcatAssoc
  <2>3. Filed' = Filed
    BY <1>3 DEF Filed
  <2>4. accepted' = (Filed' \o current') \o data'
    BY <1>2, <1>3, <2>1, <2>2, <2>3
  <2> QED BY <2>4 DEF NothingLost, Filed
<1>6. Distinct(accepted)' /\ Counted' /\ FadviseBehind'
  BY <1>3 DEF Distinct, Counted, FadviseBehind, Filed
<1> QED BY <1>2, <1>3, <1>4, <1>5, <1>6

\* fwrite puts current behind what the file has, however much of it stays
\* in the FILE.
LEMMA FwriteFiles ==
  ASSUME IInv, WriteFrontWrite
  PROVE  /\ os' \in Seq(Buffers) /\ stdio' \in Seq(Buffers)
         /\ Filed' = Filed \o current
         /\ \E x \in Seq(Buffers) : os' = os \o x
<1> USE DEF IInv
<1> DEFINE file == stdio \o current
<1>0. os \in Seq(Buffers) /\ stdio \in Seq(Buffers) /\ current \in Seq(Buffers)
  BY SeqTypes
<1>1. file \in Seq(Buffers)
  BY <1>0, ConcatElements
<1>2. os \o file = Filed \o current
  <2>1. (os \o stdio) \o current = os \o (stdio \o current)
    BY SMTT(60), <1>0, ConcatAssoc
  <2> QED BY <2>1 DEF Filed
<1>3. \/ os' = os \o file /\ stdio' = <<>>
      \/ \E n \in 0..Len(file) : /\ os' = os \o SubSeq(file, 1, n)
                                 /\ stdio' = SubSeq(file, n + 1, Len(file))
  BY DEF WriteFrontWrite
<1> HIDE DEF file
<1>4. CASE os' = os \o file /\ stdio' = <<>>
  <2>1. os' \in Seq(Buffers) /\ stdio' \in Seq(Buffers)
    BY <1>1, <1>4, SeqTypes, ConcatElements, EmptyIsSeq
  <2>2. os' \o stdio' = os'
    BY <1>4, <2>1, ConcatEmpty
  <2> QED BY <1>1, <1>2, <1>4, <2>1, <2>2 DEF Filed
<1>5. ASSUME NEW n \in 0..Len(file), os' = os \o SubSeq(file, 1, n),
             stdio' = SubSeq(file, n + 1, Len(file))
      PROVE  /\ os' \in Seq(Buffers) /\ stdio' \in Seq(Buffers)
             /\ Filed' = Filed \o current
             /\ \E x \in Seq(Buffers) : os' = os \o x
  <2> DEFINE x == SubSeq(file, 1, n)
             y == SubSeq(file, n + 1, Len(file))
  <2>1. x \in Seq(Buffers) /\ y \in Seq(Buffers) /\ file = x \o y
    BY <1>1, SubSeqSplit
  <2>2. os' = os \o x /\ stdio' = y
    BY <1>5
  <2> HIDE DEF x, y
  <2>3. os' \in Seq(Buffers)
    BY <1>0, <2>1, <2>2, ConcatElements
  <2>xy. x \in Seq(Buffers) /\ y \in Seq(Buffers) /\ os \in Seq(Buffers)
    BY <1>0, <2>1
  <2>4. (os \o x) \o y = os \o (x \o y)
    BY SMTT(60), <2>xy, ConcatAssoc
  <2>5. os' \o stdio' = Filed \o current
    BY <1>2, <2>1, <2>2, <2>4
  <2> QED BY <2>1, <2>2, <2>3, <2>5 DEF Filed
<1> QED BY <1>3, <1>4, <1>5

\* last_fadvise_ advances by whole blocks to less than the offset, and at
\* most one block is left.
LEMMA NextFadviseRange ==
  ASSUME NEW last \in Nat, NEW offset \in Nat, offset - last > BlockSize
  PROVE  /\ NextFadvise(last, offset) \in Nat
         /\ NextFadvise(last, offset) <= offset
         /\ offset - NextFadvise(last, offset) <= BlockSize
<1> DEFINE d == offset - last - 1
           p == BlockSize * (d \div BlockSize)
<1>1. d \in Nat /\ BlockSize \in Nat \ {0}
  BY BoundsAssumption
<1>2. offset = last + d + 1
  OBVIOUS
<1>3. NextFadvise(last, offset) = last + p
  BY DEF NextFadvise
<1> HIDE DEF d
<1>4. p \in Nat /\ p <= d /\ d < p + BlockSize
  BY <1>1
<1> HIDE DEF p
<1> QED BY <1>1, <1>2, <1>3, <1>4

\* WriteFront and StartWrite: the offset is what the file holds, and
\* last_fadvise_ advances no further than the kernel has the bytes.
LEMMA FwriteKeepsBuffers ==
  ASSUME IInv, WriteFrontWrite
  PROVE  /\ BufferInv' /\ os' \in Seq(Buffers) /\ stdio' \in Seq(Buffers)
         /\ childOffset' \in Nat /\ lastFadvise' \in Nat /\ reclaimed' \subseteq Buffers
<1> USE DEF IInv, BufferInv
<1> DEFINE b == Head(current)
<1>0. Filed \in Seq(Buffers) /\ current \in Seq(Buffers) /\ os \in Seq(Buffers)
  BY SeqTypes
<1>1. b \in Buffers /\ current = <<b>>
  <2>1. Len(current) = 1
    BY DEF WriteFrontWrite, Threads
  <2> QED BY <1>0, <2>1, SeqOfOne
<1>2. childOffset' = childOffset + BufferSize[b] /\ reclaimed' = reclaimed \cup {b}
  BY DEF WriteFrontWrite, Behind
<1>3. current' = <<>> /\ UNCHANGED <<asynchronous, accepted, data>>
  BY DEF WriteFrontWrite, parentVars
<1> HIDE DEF b
<1>4. /\ os' \in Seq(Buffers) /\ stdio' \in Seq(Buffers)
      /\ Filed' = Filed \o current
      /\ \E x \in Seq(Buffers) : os' = os \o x
  BY FwriteFiles
<1>5. Filed' \in Seq(Buffers)
  BY <1>4, SeqTypes
<1>6. NothingLost'
  <2>1. Filed' \o current' = Filed'
    BY <1>3, <1>5, ConcatEmpty
  <2>2. accepted' = (Filed' \o current') \o data'
    BY <1>3, <1>4, <2>1, NothingLostDef
  <2> QED BY <2>2 DEF NothingLost, Filed
<1>7. ToSet(Filed') = ToSet(Filed) \cup {b}
  <2>1. ToSet(Filed \o current) = ToSet(Filed) \cup ToSet(current)
    BY <1>0, ToSetConcat
  <2>2. ToSet(current) = {b}
    BY <1>1, SingletonSeq
  <2> QED BY <1>4, <2>1, <2>2
<1>8. Bytes(Filed') = Bytes(Filed) + BufferSize[b]
  <2>1. Bytes(Filed \o current) = Bytes(Filed) + Bytes(current)
    BY <1>0, BytesOfConcat
  <2>2. Bytes(current) = BufferSize[b]
    BY <1>1, BytesOfOne
  <2> QED BY <1>4, <2>1, <2>2
<1>9. Counted'
  <2>1. reclaimed' = ToSet(Filed') /\ childOffset' = Bytes(Filed')
    BY <1>2, <1>7, <1>8 DEF Counted
  <2> QED BY <2>1 DEF Counted, Filed
<1>10. childOffset' \in Nat \ {0} /\ childOffset \in Nat /\ lastFadvise \in Nat
  <2>1. BufferSize[b] \in Nat \ {0}
    BY <1>1, SizesAssumption
  <2> QED BY SMTT(30), <1>2, <2>1 DEF TypeOK
<1>11. CASE asynchronous /\ childOffset' - lastFadvise > BlockSize
  <2>1. stdio' = <<>> /\ lastFadvise' = NextFadvise(lastFadvise, childOffset')
    BY <1>11 DEF WriteFrontWrite
  <2>2. Filed' = os'
    BY <1>4, <2>1, ConcatEmpty DEF Filed
  <2>3. Bytes(os') = childOffset'
    BY <1>2, <1>8, <2>2 DEF Counted
  <2>8. /\ lastFadvise' \in Nat /\ lastFadvise' <= childOffset'
        /\ childOffset' - lastFadvise' <= BlockSize
    BY <1>10, <1>11, <2>1, NextFadviseRange
  <2>9. lastFadvise' \in Nat /\ FadviseBehind'
    BY <2>3, <2>8 DEF FadviseBehind
  <2> QED BY <1>2, <1>3, <1>4, <1>6, <1>9, <1>10, <2>9, <1>1 DEF TypeOK, Distinct
<1>12. CASE ~(asynchronous /\ childOffset' - lastFadvise > BlockSize)
  <2>1. lastFadvise' = lastFadvise
    BY <1>12 DEF WriteFrontWrite
  <2>2. PICK x \in Seq(Buffers) : os' = os \o x
    BY <1>4
  <2>3. Bytes(os') = Bytes(os) + Bytes(x) /\ Bytes(os) \in Nat /\ Bytes(x) \in Nat
    BY <1>0, <2>2, BytesOfConcat
  <2>4. lastFadvise' <= Bytes(os')
    BY <1>10, <2>1, <2>3 DEF FadviseBehind
  <2>5. asynchronous' => childOffset' - lastFadvise' <= BlockSize
    <3>1. \A n \in Int : n > BlockSize \/ n <= BlockSize
      BY BoundsAssumption
    <3>2. childOffset' - lastFadvise \in Int
      BY <1>10
    <3> QED BY <1>3, <1>12, <2>1, <3>1, <3>2
  <2>6. FadviseBehind'
    BY <2>4, <2>5 DEF FadviseBehind
  <2> QED BY <1>2, <1>3, <1>4, <1>6, <1>9, <1>10, <2>1, <2>6, <1>1 DEF TypeOK, Distinct
<1> QED BY <1>11, <1>12

\* When the thread has been joined nothing is left in data_.
LEMMA JoinKeepsBuffers ==
  ASSUME IInv, ParentJoin
  PROVE  /\ BufferInv' /\ os' \in Seq(Buffers) /\ stdio' \in Seq(Buffers)
         /\ childOffset' \in Nat /\ reclaimed' \subseteq Buffers
         /\ os' = accepted
<1> USE DEF IInv, BufferInv
<1>1. data = <<>> /\ current = <<>>
  BY DEF ParentJoin, Threads
<1>2. accepted = Filed
  BY <1>1, SeqTypes, NothingLostDef, ConcatEmpty
<1>3. os' = os \o stdio /\ stdio' = <<>> /\ data' = data
  <2>1. Filed \o <<>> = Filed
    BY SeqTypes, ConcatEmpty
  <2> QED BY <1>1, <2>1 DEF ParentJoin, Filed
<1>4. childOffset' = childOffset /\ reclaimed' = reclaimed
  BY <1>1, BytesOfOne, ToSetEmpty DEF ParentJoin, TypeOK
<1>5. UNCHANGED <<asynchronous, current, accepted, lastFadvise>>
  BY DEF ParentJoin, childVars
<1>6. BufferInv' /\ os' \in Seq(Buffers) /\ stdio' \in Seq(Buffers)
  BY <1>3, <1>4, <1>5, FlushKeepsBuffers
<1> QED BY <1>2, <1>3, <1>4, <1>6 DEF TypeOK, Filed

-----------------------------------------------------------------------------
(* The steps. *)

\* Nothing was written yet.
LEMMA InitIInv == Init => IInv
<1> SUFFICES ASSUME Init PROVE IInv
  OBVIOUS
<1> USE DEF Init
<1>0. \A S : <<>> \in Seq(S)
  BY EmptyIsSeq
<1>1. TypeOK
  <2>1. /\ data \in Seq(Buffers) /\ current \in Seq(Buffers) /\ Len(current) <= 1
        /\ stdio \in Seq(Buffers) /\ os \in Seq(Buffers) /\ accepted \in Seq(Buffers)
    BY <1>0
  <2>2. /\ asynchronous \in BOOLEAN /\ armed \in BOOLEAN /\ timerFired \in BOOLEAN
        /\ flush \in BOOLEAN /\ done \in BOOLEAN
        /\ interrupted \in BOOLEAN /\ exiting \in BOOLEAN
    BY ModesAssumption
  <2>3. /\ position \in Nat /\ capacity \in Nat \ {0} /\ pipe \in 0..PipeCapacity
        /\ childOffset \in Nat /\ lastFadvise \in Nat /\ flushGoal \in Nat
    BY BoundsAssumption
  <2>4. reclaimed \subseteq Buffers
    OBVIOUS
  <2> QED BY <2>1, <2>2, <2>3, <2>4 DEF TypeOK
<1>2. Threads
  BY DEF Threads
<1>3. Len(data) <= capacity
  BY BoundsAssumption
<1>4. Filed = <<>>
  BY <1>0, ConcatEmpty DEF Filed
<1>5. NothingLost
  BY <1>0, <1>4, ConcatEmpty, NothingLostDef
<1>6. Distinct(accepted) /\ Counted
  BY <1>4, ToSetEmpty, BytesOfOne DEF Distinct, Counted
<1>7. FadviseBehind
  BY BytesOfOne, BoundsAssumption DEF FadviseBehind
<1> QED BY <1>1, <1>2, <1>3, <1>5, <1>6, <1>7 DEF IInv, BufferInv

\* Write.
LEMMA WriteStep ==
  ASSUME IInv, NEW b \in Buffers, Write(b)
  PROVE  IInv'
<1> USE DEF IInv
<1>1. /\ BufferInv' /\ data' \in Seq(Buffers) /\ accepted' \in Seq(Buffers)
      /\ capacity' \in Nat \ {0} /\ Len(data') <= capacity' /\ data' # <<>>
  BY WriteKeepsBuffers
<1>2. position' \in Nat
  <2>1. BufferSize[b] \in Nat
    BY SizesAssumption
  <2> QED BY <2>1 DEF Write, Behind, TypeOK
<1>3. TypeOK'
  BY <1>1, <1>2 DEF TypeOK, Write, childVars, fileVars, timerVars
<1>4. Threads'
  <2>1. ppc = "ready" /\ ppc' = "signal" /\ UNCHANGED <<cpc, current, exiting, done>>
    BY DEF Write, childVars
  <2>2. ~done /\ cpc # "exited"
    BY <2>1 DEF Threads
  <2> QED BY <1>1, <2>1, <2>2 DEF Threads
<1> QED BY <1>1, <1>3, <1>4

\* Flush.
LEMMA FlushStep ==
  ASSUME IInv, Flush
  PROVE  IInv'
<1> USE DEF IInv, Flush, childVars, fileVars, timerVars
<1>1. BufferInv'
  BY BuffersUnchanged
<1>2. TypeOK' /\ Len(data') <= capacity'
  BY DEF TypeOK
<1>3. Threads'
  BY DEF Threads
<1> QED BY <1>1, <1>2, <1>3

\* The destructor sets done_.
LEMMA DestroyStep ==
  ASSUME IInv, Destroy
  PROVE  IInv'
<1> USE DEF IInv, Destroy, childVars, fileVars, timerVars
<1>1. BufferInv'
  BY BuffersUnchanged
<1>2. TypeOK' /\ Len(data') <= capacity'
  BY DEF TypeOK
<1>3. Threads'
  BY DEF Threads
<1> QED BY <1>1, <1>2, <1>3

\* SignalThread by the parent.
LEMMA ParentSignalStep ==
  ASSUME IInv, ParentSignal
  PROVE  IInv'
<1> USE DEF IInv, ParentSignal, childVars, fileVars, timerVars
<1>1. BufferInv'
  BY BuffersUnchanged
<1>2. TypeOK' /\ Len(data') <= capacity'
  <2>1. pipe' \in 0..PipeCapacity
    BY BoundsAssumption DEF SignalThread, TypeOK
  <2> QED BY <2>1 DEF TypeOK
<1>3. Threads'
  BY DEF Threads, TypeOK
<1> QED BY <1>1, <1>2, <1>3

\* The parent has joined the thread and closes the file.
LEMMA ParentJoinStep ==
  ASSUME IInv, ParentJoin
  PROVE  IInv'
<1> USE DEF IInv
<1>1. /\ BufferInv' /\ os' \in Seq(Buffers) /\ stdio' \in Seq(Buffers)
      /\ childOffset' \in Nat /\ reclaimed' \subseteq Buffers
  BY JoinKeepsBuffers
<1> USE DEF ParentJoin, childVars, timerVars
<1>2. TypeOK' /\ Len(data') <= capacity'
  <2>1. data' \in Seq(Buffers) /\ Len(data') = 0
    BY EmptyIsSeq
  <2> QED BY <1>1, <2>1 DEF TypeOK
<1>3. Threads'
  BY DEF Threads
<1> QED BY <1>1, <1>2, <1>3

\* The child starts.
LEMMA RunStartStep ==
  ASSUME IInv, RunStart
  PROVE  IInv'
<1> USE DEF IInv, RunStart, parentVars, fileVars
<1>1. BufferInv'
  BY BuffersUnchanged
<1>2. TypeOK' /\ Len(data') <= capacity'
  BY DEF TypeOK
<1>3. Threads'
  BY DEF Threads
<1> QED BY <1>1, <1>2, <1>3

\* The child wakes up.
LEMMA RunReadStep ==
  ASSUME IInv, RunRead
  PROVE  IInv'
<1> USE DEF IInv, RunRead, parentVars, fileVars, timerVars
<1>1. BufferInv'
  BY BuffersUnchanged
<1>2. TypeOK' /\ Len(data') <= capacity'
  <2>1. pipe' \in 0..PipeCapacity
    BY BoundsAssumption DEF TypeOK
  <2> QED BY <2>1 DEF TypeOK
<1>3. Threads'
  BY DEF Threads
<1> QED BY <1>1, <1>2, <1>3

\* A step that may flush the FILE, as far as the buffers go.
LEMMA MaybeFlush ==
  ASSUME IInv, FFlush \/ UNCHANGED <<os, stdio>>,
         UNCHANGED <<asynchronous, data, current, accepted, reclaimed, childOffset, lastFadvise>>
  PROVE  BufferInv' /\ os' \in Seq(Buffers) /\ stdio' \in Seq(Buffers)
<1> USE DEF IInv
<1>1. CASE FFlush
  BY <1>1, FlushKeepsBuffers DEF FFlush
<1>2. CASE UNCHANGED <<os, stdio>>
  BY <1>2, BuffersUnchanged DEF TypeOK
<1> QED BY <1>1, <1>2

\* The child looks at flush_ and done_.
LEMMA RunCommandStep ==
  ASSUME IInv, RunCommand
  PROVE  IInv'
<1> USE DEF IInv, RunCommand, parentVars, timerVars
<1>1. BufferInv' /\ os' \in Seq(Buffers) /\ stdio' \in Seq(Buffers)
  BY MaybeFlush
<1>2. TypeOK' /\ Len(data') <= capacity'
  BY <1>1 DEF TypeOK
<1>3. Threads'
  BY DEF Threads, TypeOK
<1> QED BY <1>1, <1>2, <1>3

\* The child looks at timer_fired_.
LEMMA RunTimerStep ==
  ASSUME IInv, RunTimer
  PROVE  IInv'
<1> USE DEF IInv, RunTimer, parentVars, timerVars
<1>1. BufferInv' /\ os' \in Seq(Buffers) /\ stdio' \in Seq(Buffers)
  BY MaybeFlush DEF HandleTimer
<1>2. TypeOK' /\ Len(data') <= capacity'
  BY <1>1 DEF TypeOK
<1>3. Threads'
  BY DEF Threads
<1> QED BY <1>1, <1>2, <1>3

\* The child has nothing to write and goes back to sleep, or ends.
LEMMA RunWorkDoneStep ==
  ASSUME IInv, RunWorkDone
  PROVE  IInv'
<1> USE DEF IInv, RunWorkDone, parentVars
<1>1. BufferInv' /\ os' \in Seq(Buffers) /\ stdio' \in Seq(Buffers)
  BY MaybeFlush
<1>2. TypeOK' /\ Len(data') <= capacity'
  <2>1. armed' \in BOOLEAN /\ cpc' \in {"exited", "read"}
    BY DEF TypeOK
  <2> QED BY <1>1, <2>1 DEF TypeOK
<1>3. Threads'
  BY DEF Threads
<1> QED BY <1>1, <1>2, <1>3

\* The child sees something to write.
LEMMA RunWorkCheckStep ==
  ASSUME IInv, RunWorkCheck
  PROVE  IInv'
<1> USE DEF IInv, RunWorkCheck, parentVars, fileVars, timerVars
<1>1. BufferInv'
  BY BuffersUnchanged
<1>2. TypeOK' /\ Len(data') <= capacity'
  BY DEF TypeOK
<1>3. Threads'
  BY DEF Threads
<1> QED BY <1>1, <1>2, <1>3

\* The child takes the front of data_.
LEMMA WriteFrontPopStep ==
  ASSUME IInv, WriteFrontPop
  PROVE  IInv'
<1> USE DEF IInv
<1>1. /\ BufferInv' /\ data' \in Seq(Buffers) /\ Len(data') <= capacity
      /\ current' \in Seq(Buffers) /\ Len(current') = 1
  BY PopKeepsBuffers
<1>2. TypeOK' /\ Len(data') <= capacity'
  BY <1>1 DEF WriteFrontPop, parentVars, fileVars, timerVars, TypeOK
<1>3. Threads'
  BY <1>1 DEF WriteFrontPop, parentVars, Threads
<1> QED BY <1>1, <1>2, <1>3

\* The child writes it.
LEMMA WriteFrontWriteStep ==
  ASSUME IInv, WriteFrontWrite
  PROVE  IInv'
<1> USE DEF IInv
<1>1. /\ BufferInv' /\ os' \in Seq(Buffers) /\ stdio' \in Seq(Buffers)
      /\ childOffset' \in Nat /\ lastFadvise' \in Nat /\ reclaimed' \subseteq Buffers
  BY FwriteKeepsBuffers
<1>2. current' = <<>> /\ cpc = "fwrite" /\ cpc' = "check"
      /\ UNCHANGED <<parentVars, data, flush, done, pipe, interrupted, exiting, timerVars>>
  BY DEF WriteFrontWrite
<1>3. TypeOK' /\ Len(data') <= capacity'
  <2>1. current' \in Seq(Buffers) /\ Len(current') <= 1
    BY <1>2, EmptyIsSeq
  <2> QED BY <1>1, <1>2, <2>1 DEF parentVars, timerVars, TypeOK
<1>4. Threads'
  BY <1>2 DEF parentVars, Threads
<1> QED BY <1>1, <1>3, <1>4

\* The timer's signal handler.
LEMMA TimerSteps ==
  ASSUME IInv, TimerExpires \/ TimerSignal
  PROVE  IInv'
<1> USE DEF IInv, parentVars, childVars, fileVars
<1>1. BufferInv'
  BY BuffersUnchanged DEF TimerExpires, TimerSignal
<1>2. TypeOK' /\ Len(data') <= capacity'
  <2>1. CASE TimerExpires
    BY <2>1 DEF TypeOK, TimerExpires
  <2>2. CASE TimerSignal
    <3>1. pipe' \in 0..PipeCapacity
      BY <2>2, BoundsAssumption DEF TimerSignal, SignalThread, TypeOK
    <3>2. interrupted' \in BOOLEAN
      BY <2>2 DEF TimerSignal, TypeOK
    <3> QED BY <2>2, <3>1, <3>2 DEF TimerSignal, TypeOK
  <2> QED BY <2>1, <2>2
<1>3. Threads'
  BY DEF Threads, TimerExpires, TimerSignal
<1> QED BY <1>1, <1>2, <1>3

\* A stuttering step.
LEMMA StutterStep ==
  ASSUME IInv, UNCHANGED vars
  PROVE  IInv'
<1> USE DEF IInv, vars, parentVars, childVars, fileVars, timerVars
<1>1. BufferInv'
  BY BuffersUnchanged
<1>2. TypeOK' /\ Len(data') <= capacity'
  BY DEF TypeOK
<1>3. Threads'
  BY DEF Threads
<1> QED BY <1>1, <1>2, <1>3

-----------------------------------------------------------------------------
\* IInv holds in every state.
THEOREM InductiveInvariant == Spec => []IInv
<1>1. IInv /\ [Next]_vars => IInv'
  <2> SUFFICES ASSUME IInv, [Next]_vars PROVE IInv'
    OBVIOUS
  <2>1. CASE \E b \in Buffers : Write(b)
    BY <2>1, WriteStep
  <2>2. CASE Flush \/ Destroy \/ ParentSignal \/ ParentJoin
    BY <2>2, FlushStep, DestroyStep, ParentSignalStep, ParentJoinStep
  <2>3. CASE ChildStep
    BY <2>3, RunStartStep, RunReadStep, RunCommandStep, RunTimerStep, RunWorkDoneStep,
       RunWorkCheckStep, WriteFrontPopStep, WriteFrontWriteStep DEF ChildStep
  <2>4. CASE TimerExpires \/ TimerSignal
    BY <2>4, TimerSteps
  <2>5. CASE UNCHANGED vars
    BY <2>5, StutterStep
  <2> QED BY <2>1, <2>2, <2>3, <2>4, <2>5 DEF Next
<1> QED BY <1>1, InitIInv, PTL DEF Spec

\* Every variable keeps its type.
THEOREM TypeCorrect == Spec => []TypeOK
<1>1. IInv => TypeOK
  BY DEF IInv
<1> QED BY <1>1, InductiveInvariant, PTL

\* No buffer is lost, duplicated or overtaken between Write and the file
\* (thread_writer.h lines 122-129 and 330-352).
THEOREM NothingIsLost == Spec => []NothingLost
<1>1. IInv => NothingLost
  BY DEF IInv, BufferInv
<1> QED BY <1>1, InductiveInvariant, PTL

\* posix_fadvise names only bytes that the kernel has (lines 294-316).
THEOREM FadviseStaysBehind == Spec => []FadviseBehind
<1>1. IInv => FadviseBehind
  BY DEF IInv, BufferInv
<1> QED BY <1>1, InductiveInvariant, PTL

\* A buffer that options.reclaimer was given is in nobody's hands.
THEOREM ReclaimedAreFree == Spec => []ReclaimedIsFree
<1>1. IInv => ReclaimedIsFree
  <2> SUFFICES ASSUME IInv PROVE ReclaimedIsFree
    OBVIOUS
  <2> DEFINE rest == current \o data
  <2>1. Filed \in Seq(Buffers) /\ current \in Seq(Buffers) /\ data \in Seq(Buffers)
    BY SeqTypes DEF IInv
  <2>2. rest \in Seq(Buffers)
    BY <2>1, ConcatElements
  <2>3. accepted = Filed \o rest
    <3>1. (Filed \o current) \o data = Filed \o (current \o data)
      BY <2>1, ConcatAssoc
    <3> QED BY <3>1, NothingLostDef DEF IInv, BufferInv
  <2> HIDE DEF rest
  <2>4. Distinct(Filed \o rest)
    BY <2>3 DEF IInv, BufferInv
  <2>5. ToSet(Filed) \cap ToSet(rest) = {}
    BY <2>1, <2>2, <2>4, DistinctConcat
  <2> QED BY <2>5 DEF IInv, BufferInv, Counted, ReclaimedIsFree, rest
<1> QED BY <1>1, InductiveInvariant, PTL

-----------------------------------------------------------------------------
(* The refinement. *)

\* A first part of a concatenation is a prefix of it.
LEMMA PrefixOfConcat ==
  ASSUME NEW s \in Seq(Buffers), NEW t \in Seq(Buffers)
  PROVE  s = SubSeq(s \o t, 1, Len(s)) /\ Len(s) <= Len(s \o t)
<1> DEFINE u == s \o t
           v == SubSeq(u, 1, Len(s))
<1>1. u \in Seq(Buffers) /\ Len(u) = Len(s) + Len(t)
  OBVIOUS
<1>2. \A k \in 1..Len(s) : u[k] = s[k]
  OBVIOUS
<1> HIDE DEF u
<1>3. v \in Seq(Buffers) /\ Len(v) = Len(s) /\ Len(s) <= Len(u)
  BY <1>1
<1>4. \A k \in 1..Len(s) : v[k] = u[k]
  BY <1>1
<1> HIDE DEF v
<1>5. s = v
  BY <1>2, <1>3, <1>4, SeqEqual
<1> QED BY <1>3, <1>5 DEF u, v

KernelPrefix ==
  os = SubSeq(accepted, 1, Len(os)) /\ Len(os) <= Len(accepted) /\ Len(os) \in Nat

\* The kernel has a prefix of what was accepted.
LEMMA KernelHasPrefix == IInv => KernelPrefix
<1> SUFFICES ASSUME IInv PROVE KernelPrefix
  OBVIOUS
<1> DEFINE rest == stdio \o current
           all == rest \o data
<1>1. os \in Seq(Buffers) /\ stdio \in Seq(Buffers) /\ current \in Seq(Buffers) /\ data \in Seq(Buffers)
  BY SeqTypes DEF IInv
<1>2. rest \in Seq(Buffers) /\ (os \o stdio) \o current = os \o rest
  BY <1>1, ConcatElements, ConcatAssoc
<1> HIDE DEF rest
<1>3. all \in Seq(Buffers) /\ (os \o rest) \o data = os \o all
  BY SMTT(60), <1>1, <1>2, ConcatElements, ConcatAssoc
<1>4. accepted = os \o all
  BY <1>2, <1>3 DEF IInv, BufferInv, NothingLost
<1> HIDE DEF all
<1>5. os = SubSeq(os \o all, 1, Len(os)) /\ Len(os) <= Len(os \o all)
  BY <1>1, <1>3, PrefixOfConcat
<1> QED BY <1>1, <1>4, <1>5 DEF KernelPrefix

\* A step of the child that adds to what the kernel has is a step of the
\* log, or changes nothing of it.
LEMMA ChildPersists ==
  ASSUME IInv, IInv', cpc # "exited", UNCHANGED <<ppc, accepted>>,
         NEW x \in Seq(Buffers), os' = os \o x
  PROVE  Log!Persist \/ UNCHANGED <<accepted, os, (ppc = "closed")>>
<1>1. ppc # "closed"
  BY DEF IInv, Threads
<1>2. os \in Seq(Buffers)
  BY DEF IInv, TypeOK
<1>3. os' = SubSeq(accepted', 1, Len(os')) /\ Len(os') <= Len(accepted') /\ Len(os') \in Nat
  <2>1. KernelPrefix'
    BY KernelHasPrefix, PTL
  <2> QED BY <2>1 DEF KernelPrefix
<1>4. CASE x = <<>>
  BY <1>2, <1>4, ConcatEmpty
<1>5. CASE x # <<>>
  <2>1. Len(os') = Len(os) + Len(x)
    BY <1>2
  <2>2. Len(os') >= Len(os) + 1
    BY <1>2, <1>5, <2>1
  <2>3. Len(os') \in (Len(os) + 1)..Len(accepted)
    BY <1>2, <1>3, <2>2
  <2> QED BY <1>1, <1>3, <2>3 DEF Log!Persist
<1> QED BY <1>4, <1>5

\* Flushing, or not, adds to what the kernel has.
LEMMA FlushAdds ==
  ASSUME IInv, FFlush \/ UNCHANGED <<os, stdio>>
  PROVE  \E x \in Seq(Buffers) : os' = os \o x
<1>1. os \in Seq(Buffers) /\ stdio \in Seq(Buffers) /\ <<>> \in Seq(Buffers)
  BY EmptyIsSeq DEF IInv, TypeOK
<1>2. CASE FFlush
  BY <1>1, <1>2 DEF FFlush
<1>3. CASE UNCHANGED <<os, stdio>>
  <2>1. os' = os \o <<>>
    BY <1>1, <1>3, ConcatEmpty
  <2> QED BY <1>1, <2>1
<1> QED BY <1>2, <1>3

\* The detailed writer, with its threads, pipe and stdio, is the append-only
\* log of AppendLog: buffers become durable in the order of Write, and all
\* of them have when the destructor returns.
THEOREM WriterIsLog == Spec => ImplementsLog
<1>1. Init => Log!LogInit
  BY DEF Init, Log!LogInit
<1>2. IInv /\ IInv' /\ [Next]_vars => [Log!LogNext]_(Log!logVars)
  <2> SUFFICES ASSUME IInv, IInv', [Next]_vars
               PROVE  Log!LogNext \/ UNCHANGED <<accepted, os, (ppc = "closed")>>
    BY DEF Log!logVars
  <2>1. CASE \E b \in Buffers : Write(b)
    <3>1. PICK b \in Buffers : Write(b)
      BY <2>1
    <3>2. Log!Add(b)
      BY <3>1 DEF Write, fileVars, Log!Add
    <3> QED BY <3>2 DEF Log!LogNext
  <2>2. CASE Flush \/ Destroy \/ ParentSignal
    BY <2>2 DEF Flush, Destroy, ParentSignal, fileVars
  <2>3. CASE ParentJoin
    <3>1. os' = accepted
      BY <2>3, JoinKeepsBuffers
    <3>2. Log!Close
      BY <2>3, <3>1 DEF ParentJoin, Log!Close
    <3> QED BY <3>2 DEF Log!LogNext
  <2>4. CASE ChildStep
    <3>1. cpc # "exited" /\ UNCHANGED <<ppc, accepted>>
      BY <2>4 DEF ChildStep, RunStart, RunRead, RunCommand, RunTimer, RunWorkDone,
         RunWorkCheck, WriteFrontPop, WriteFrontWrite, parentVars
    <3>2. \E x \in Seq(Buffers) : os' = os \o x
      <4>1. CASE WriteFrontWrite
        BY <4>1, FwriteFiles
      <4>2. CASE ~WriteFrontWrite
        <5>1. FFlush \/ UNCHANGED <<os, stdio>>
          BY <2>4, <4>2 DEF ChildStep, RunStart, RunRead, RunCommand, RunTimer, HandleTimer,
             RunWorkDone, RunWorkCheck, WriteFrontPop, fileVars
        <5> QED BY <5>1, FlushAdds
      <4> QED BY <4>1, <4>2
    <3>3. Log!Persist \/ UNCHANGED <<accepted, os, (ppc = "closed")>>
      BY <3>1, <3>2, ChildPersists
    <3> QED BY <3>3 DEF Log!LogNext
  <2>5. CASE TimerExpires \/ TimerSignal
    BY <2>5 DEF TimerExpires, TimerSignal, parentVars, fileVars
  <2>6. CASE UNCHANGED vars
    BY <2>6 DEF vars, parentVars, fileVars
  <2> QED BY <2>1, <2>2, <2>3, <2>4, <2>5, <2>6 DEF Next
<1> QED BY <1>1, <1>2, InductiveInvariant, PTL DEF Spec, ImplementsLog, Log!LogSpec
=============================================================================
