---------------------------- MODULE SequenceFacts ----------------------------
(***************************************************************************)
(* Facts about sequences that the proofs of several modules need.          *)
(***************************************************************************)
EXTENDS Integers, Sequences, SequencesExt, SequenceFilter, SequenceTheorems,
        WellFoundedInduction, TLAPS

\* The empty sequence is a sequence of anything.
LEMMA EmptyIsSeq == \A S : <<>> \in Seq(S)
OBVIOUS

\* A sequence of one.
LEMMA SingletonSeq ==
  ASSUME NEW S, NEW x \in S
  PROVE  /\ <<x>> \in Seq(S) /\ Len(<<x>>) = 1 /\ <<x>> # <<>>
         /\ Head(<<x>>) = x /\ Tail(<<x>>) = <<>> /\ ToSet(<<x>>) = {x}
<1>1. /\ <<x>> \in Seq(S) /\ Len(<<x>>) = 1 /\ <<x>> # <<>>
      /\ Head(<<x>>) = x /\ Tail(<<x>>) = <<>>
  OBVIOUS
<1>2. ToSet(<<x>>) = {x}
  BY DEF ToSet
<1> QED BY <1>1, <1>2

\* An element of a sequence is at some place of it.
LEMMA ToSetElement ==
  ASSUME NEW S, NEW s \in Seq(S)
  PROVE  /\ \A x : x \in ToSet(s) <=> \E i \in 1..Len(s) : s[i] = x
         /\ ToSet(s) \subseteq S
         /\ \A i \in 1..Len(s) : s[i] \in ToSet(s)
BY DEF ToSet

\* A concatenation, element by element.
LEMMA ConcatElements ==
  ASSUME NEW S, NEW s \in Seq(S), NEW t \in Seq(S)
  PROVE  /\ s \o t \in Seq(S) /\ Len(s \o t) = Len(s) + Len(t)
         /\ \A i \in 1..Len(s) : (s \o t)[i] = s[i]
         /\ \A i \in 1..Len(t) : (s \o t)[Len(s) + i] = t[i]
OBVIOUS

\* A sequence is its head before its tail.
LEMMA ConcatHeadTail ==
  ASSUME NEW S, NEW s \in Seq(S), s # <<>>
  PROVE  Head(s) \in S /\ Tail(s) \in Seq(S) /\ s = <<Head(s)>> \o Tail(s)
<1>1. Head(s) \in S /\ Tail(s) \in Seq(S) /\ Len(Tail(s)) = Len(s) - 1
      /\ \A i \in 1..Len(Tail(s)) : Tail(s)[i] = s[i + 1]
  OBVIOUS
<1>2. <<Head(s)>> \in Seq(S) /\ Len(<<Head(s)>>) = 1 /\ <<Head(s)>>[1] = s[1] /\ Len(s) \in Nat \ {0}
  OBVIOUS
<1> DEFINE u == <<Head(s)>> \o Tail(s)
<1>3. /\ u \in Seq(S) /\ Len(u) = 1 + Len(Tail(s)) /\ u[1] = s[1]
      /\ \A i \in 1..Len(Tail(s)) : u[1 + i] = Tail(s)[i]
  BY <1>1, <1>2, ConcatElements
<1> HIDE DEF u
<1>4. Len(u) = Len(s) /\ \A i \in 1..Len(s) : s[i] = u[i]
  <2> SUFFICES ASSUME NEW i \in 1..Len(s) PROVE s[i] = u[i]
    BY <1>1, <1>2, <1>3
  <2>1. i = 1 \/ i - 1 \in 1..Len(Tail(s))
    BY <1>1, <1>2
  <2>2. ASSUME i - 1 \in 1..Len(Tail(s)) PROVE u[1 + (i - 1)] = s[(i - 1) + 1]
    BY <1>1, <1>3, <2>2
  <2> QED BY <1>3, <2>1, <2>2
<1>5. s = u
  BY <1>3, <1>4, SeqEqual
<1> QED BY <1>1, <1>5 DEF u

\* A sequence of length one is its head.
LEMMA SeqOfOne ==
  ASSUME NEW S, NEW s \in Seq(S), Len(s) = 1
  PROVE  Head(s) \in S /\ s = <<Head(s)>>
<1>1. s # <<>> /\ Head(s) \in S
  OBVIOUS
<1> DEFINE u == <<Head(s)>>
<1>2. u \in Seq(S) /\ Len(u) = 1 /\ u[1] = s[1]
  BY <1>1
<1> HIDE DEF u
<1>3. \A i \in 1..Len(s) : s[i] = u[i]
  BY <1>2
<1>4. s = u
  BY <1>2, <1>3, SeqEqual
<1> QED BY <1>1, <1>4 DEF u

\* A concatenation has the elements of both parts.
LEMMA ToSetConcat ==
  ASSUME NEW S, NEW s \in Seq(S), NEW t \in Seq(S)
  PROVE  ToSet(s \o t) = ToSet(s) \cup ToSet(t)
<1> DEFINE u == s \o t
<1>1. /\ u \in Seq(S) /\ Len(u) = Len(s) + Len(t)
      /\ \A i \in 1..Len(u) : u[i] = IF i <= Len(s) THEN s[i] ELSE t[i - Len(s)]
  BY ConcatProperties
<1> HIDE DEF u
<1>2. ASSUME NEW x \in ToSet(u) PROVE x \in ToSet(s) \cup ToSet(t)
  <2>1. PICK i \in 1..Len(u) : u[i] = x
    BY <1>1, <1>2, ToSetElement
  <2>2. CASE i <= Len(s)
    BY <1>1, <2>1, <2>2, ToSetElement
  <2>3. CASE ~(i <= Len(s))
    <3>1. i - Len(s) \in 1..Len(t) /\ t[i - Len(s)] = x
      BY <1>1, <2>1, <2>3
    <3> QED BY <3>1, ToSetElement
  <2> QED BY <2>2, <2>3
<1>3. ASSUME NEW x \in ToSet(s) PROVE x \in ToSet(u)
  <2>1. PICK i \in 1..Len(s) : s[i] = x
    BY <1>3, ToSetElement
  <2>2. i \in 1..Len(u) /\ u[i] = x
    BY <1>1, <2>1
  <2> QED BY <1>1, <2>2, ToSetElement
<1>4. ASSUME NEW x \in ToSet(t) PROVE x \in ToSet(u)
  <2>1. PICK i \in 1..Len(t) : t[i] = x
    BY <1>4, ToSetElement
  <2>2. Len(s) + i \in 1..Len(u) /\ u[Len(s) + i] = x
    BY <1>1, <2>1
  <2> QED BY <1>1, <2>2, ToSetElement
<1> QED BY <1>2, <1>3, <1>4 DEF u

\* Append adds one element.
LEMMA ToSetAppend ==
  ASSUME NEW S, NEW s \in Seq(S), NEW x \in S
  PROVE  ToSet(Append(s, x)) = ToSet(s) \cup {x}
<1>1. <<x>> \in Seq(S) /\ ToSet(<<x>>) = {x}
  BY SingletonSeq
<1>3. Append(s, x) = s \o <<x>>
  BY AppendIsConcat
<1>2. ToSet(s \o <<x>>) = ToSet(s) \cup ToSet(<<x>>)
  BY ZenonT(30), <1>1, ToSetConcat
<1> QED BY <1>1, <1>2, <1>3

\* The empty sequence has no elements.
LEMMA ToSetEmpty == ToSet(<<>>) = {}
BY DEF ToSet

\* The head and the tail of a sequence have its elements between them.
LEMMA ToSetHeadTail ==
  ASSUME NEW S, NEW s \in Seq(S), s # <<>>
  PROVE  ToSet(s) = {Head(s)} \cup ToSet(Tail(s))
<1>1. s = <<Head(s)>> \o Tail(s) /\ Head(s) \in S /\ Tail(s) \in Seq(S)
  BY ConcatHeadTail
<1> DEFINE h == <<Head(s)>>
           t == Tail(s)
<1>2. h \in Seq(S) /\ t \in Seq(S) /\ ToSet(h) = {Head(s)}
  BY <1>1, SingletonSeq
<1>3. s = h \o t
  BY <1>1
<1> HIDE DEF h, t
<1>4. ToSet(h \o t) = ToSet(h) \cup ToSet(t)
  BY <1>2, ToSetConcat
<1> QED BY <1>2, <1>3, <1>4 DEF t

-----------------------------------------------------------------------------
\* What RemoveAt leaves, element by element.
LEMMA RemoveAtElements ==
  ASSUME NEW S, NEW s \in Seq(S), NEW i \in 1..Len(s)
  PROVE  /\ RemoveAt(s, i) \in Seq(S)
         /\ Len(RemoveAt(s, i)) = Len(s) - 1
         /\ \A k \in 1..(i - 1) : RemoveAt(s, i)[k] = s[k]
         /\ \A k \in i..(Len(s) - 1) : RemoveAt(s, i)[k] = s[k + 1]
<1> DEFINE a == SubSeq(s, 1, i - 1)
           b == SubSeq(s, i + 1, Len(s))
           u == a \o b
<1>1. a \in Seq(S) /\ b \in Seq(S)
  OBVIOUS
<1>2. Len(a) = i - 1 /\ Len(b) = Len(s) - i
  OBVIOUS
<1>3. \A k \in 1..(i - 1) : a[k] = s[k]
  OBVIOUS
<1>4. \A k \in 1..(Len(s) - i) : b[k] = s[i + k]
  OBVIOUS
<1>5. RemoveAt(s, i) = u
  BY DEF RemoveAt
<1> HIDE DEF a, b
<1>6. u \in Seq(S) /\ Len(u) = Len(a) + Len(b)
  BY <1>1
<1>7. \A k \in 1..Len(a) : u[k] = a[k]
  BY <1>1
<1>8. \A k \in 1..Len(b) : u[Len(a) + k] = b[k]
  BY <1>1
<1> HIDE DEF u
<1>9. ASSUME NEW k \in i..(Len(s) - 1) PROVE u[k] = s[k + 1]
  <2>1. k - (i - 1) \in 1..Len(b)
    BY <1>2
  <2>2. u[Len(a) + (k - (i - 1))] = s[i + (k - (i - 1))]
    BY <1>2, <1>4, <1>8, <2>1
  <2> QED BY <1>2, <2>2
<1>10. \A k \in 1..(i - 1) : u[k] = s[k]
  BY <1>2, <1>3, <1>7
<1> QED BY <1>2, <1>5, <1>6, <1>9, <1>10

\* RemoveAt in the second part of a concatenation leaves the first alone.
LEMMA RemoveAtConcat ==
  ASSUME NEW S, NEW s \in Seq(S), NEW t \in Seq(S), NEW i \in 1..Len(t)
  PROVE  RemoveAt(s \o t, Len(s) + i) = s \o RemoveAt(t, i)
<1> DEFINE u == s \o t
           v == RemoveAt(t, i)
           j == Len(s) + i
           l == RemoveAt(u, j)
           r == s \o v
<1>1. u \in Seq(S) /\ Len(u) = Len(s) + Len(t)
  OBVIOUS
<1>2. \A k \in 1..Len(s) : u[k] = s[k]
  OBVIOUS
<1>3. \A k \in 1..Len(t) : u[Len(s) + k] = t[k]
  OBVIOUS
<1> HIDE DEF u
<1>4. j \in 1..Len(u) /\ j = Len(s) + i
  BY <1>1
<1> HIDE DEF j
<1>5. l \in Seq(S) /\ Len(l) = Len(u) - 1
  BY <1>1, <1>4, RemoveAtElements
<1>6. \A k \in 1..(j - 1) : l[k] = u[k]
  BY <1>1, <1>4, RemoveAtElements
<1>7. \A k \in j..(Len(u) - 1) : l[k] = u[k + 1]
  BY <1>1, <1>4, RemoveAtElements
<1>8. v \in Seq(S) /\ Len(v) = Len(t) - 1
  BY RemoveAtElements
<1>9. \A k \in 1..(i - 1) : v[k] = t[k]
  BY RemoveAtElements
<1>10. \A k \in i..(Len(t) - 1) : v[k] = t[k + 1]
  BY RemoveAtElements
<1> HIDE DEF l, v
<1>vSeq. v \in Seq(S)
  BY <1>8
<1>11. r \in Seq(S) /\ Len(r) = Len(s) + Len(v)
  BY <1>vSeq
<1>12. \A k \in 1..Len(s) : r[k] = s[k]
  BY <1>vSeq
<1>13. \A k \in 1..Len(v) : r[Len(s) + k] = v[k]
  BY <1>vSeq
<1> HIDE DEF r
<1>14. ASSUME NEW k \in 1..Len(s) PROVE l[k] = r[k]
  BY <1>2, <1>4, <1>6, <1>12
<1>15. ASSUME NEW m \in 1..Len(v) PROVE l[Len(s) + m] = r[Len(s) + m]
  <2>1. CASE m < i
    <3>0. Len(s) + m \in 1..(j - 1)
      BY <1>4, <1>8, <2>1
    <3>1. l[Len(s) + m] = u[Len(s) + m]
      BY <1>6, <3>0
    <3>2. u[Len(s) + m] = t[m]
      BY <1>3, <1>8
    <3>3. v[m] = t[m]
      BY <1>8, <1>9, <2>1
    <3> QED BY <1>13, <3>1, <3>2, <3>3
  <2>2. CASE ~(m < i)
    <3>0. Len(s) + m \in j..(Len(u) - 1)
      BY <1>1, <1>4, <1>8, <2>2
    <3>1. l[Len(s) + m] = u[Len(s) + m + 1]
      BY <1>7, <3>0
    <3>2. u[Len(s) + (m + 1)] = t[m + 1]
      BY <1>3, <1>8
    <3>3. v[m] = t[m + 1]
      BY <1>8, <1>10, <2>2
    <3> QED BY <1>8, <1>13, <3>1, <3>2, <3>3
  <2> QED BY <2>1, <2>2
<1>16. Len(l) = Len(r)
  BY <1>1, <1>5, <1>8, <1>11
<1>17. ASSUME NEW k \in 1..Len(l) PROVE l[k] = r[k]
  <2>1. CASE k <= Len(s)
    BY <1>5, <1>14, <2>1
  <2>2. CASE ~(k <= Len(s))
    <3>1. k - Len(s) \in 1..Len(v) /\ Len(s) + (k - Len(s)) = k
      BY <1>8, <1>11, <1>16, <2>2
    <3> QED BY <1>15, <3>1
  <2> QED BY <2>1, <2>2
<1>18. l = r
  BY <1>5, <1>11, <1>16, <1>17, SeqEqual
<1> QED BY <1>18 DEF j, l, r, u, v

-----------------------------------------------------------------------------
\* The empty sequence is neutral.
LEMMA ConcatEmpty ==
  ASSUME NEW S, NEW s \in Seq(S)
  PROVE  s \o <<>> = s /\ <<>> \o s = s
BY ConcatEmptySeq

\* Concatenation is associative.
LEMMA ConcatAssoc ==
  ASSUME NEW S, NEW s \in Seq(S), NEW t \in Seq(S), NEW u \in Seq(S)
  PROVE  (s \o t) \o u = s \o (t \o u)
BY ConcatAssociative

\* Append to a concatenation appends to its second part.
LEMMA AppendConcat ==
  ASSUME NEW S, NEW s \in Seq(S), NEW t \in Seq(S), NEW x \in S
  PROVE  Append(s \o t, x) = s \o Append(t, x)
<1>1. <<x>> \in Seq(S) /\ s \o t \in Seq(S)
  BY SingletonSeq, ConcatElements
<1>2. Append(s \o t, x) = (s \o t) \o <<x>>
  BY <1>1, AppendIsConcat
<1>3. Append(t, x) = t \o <<x>>
  BY AppendIsConcat
<1> QED BY <1>1, <1>2, <1>3, ConcatAssoc

\* A sequence cut in two.
LEMMA SubSeqSplit ==
  ASSUME NEW S, NEW s \in Seq(S), NEW n \in 0..Len(s)
  PROVE  /\ SubSeq(s, 1, n) \in Seq(S) /\ SubSeq(s, n + 1, Len(s)) \in Seq(S)
         /\ s = SubSeq(s, 1, n) \o SubSeq(s, n + 1, Len(s))
<1> DEFINE a == SubSeq(s, 1, n)
           b == SubSeq(s, n + 1, Len(s))
           u == a \o b
<1>1. a \in Seq(S) /\ b \in Seq(S)
  OBVIOUS
<1>2. Len(a) = n /\ Len(b) = Len(s) - n
  OBVIOUS
<1>3. \A k \in 1..n : a[k] = s[k]
  OBVIOUS
<1>4. \A k \in 1..(Len(s) - n) : b[k] = s[n + k]
  OBVIOUS
<1> HIDE DEF a, b
<1>6. u \in Seq(S) /\ Len(u) = Len(a) + Len(b)
  BY <1>1
<1>7. \A k \in 1..Len(a) : u[k] = a[k]
  BY <1>1
<1>8. \A k \in 1..Len(b) : u[Len(a) + k] = b[k]
  BY <1>1
<1> HIDE DEF u
<1>9. ASSUME NEW k \in 1..Len(s) PROVE s[k] = u[k]
  <2>1. CASE k <= n
    BY <1>2, <1>3, <1>7, <2>1
  <2>2. CASE ~(k <= n)
    <3>1. k - n \in 1..Len(b) /\ n + (k - n) = k
      BY <1>2, <2>2
    <3> QED BY <1>2, <1>4, <1>8, <3>1
  <2> QED BY <2>1, <2>2
<1>10. Len(u) = Len(s)
  BY <1>2, <1>6
<1>11. s = u
  BY <1>6, <1>9, <1>10, SeqEqual
<1> QED BY <1>1, <1>11 DEF a, b, u

-----------------------------------------------------------------------------
\* No element is there twice.
Distinct(s) == \A i, j \in 1..Len(s) : s[i] = s[j] => i = j

\* RemoveAt from a sequence of distinct elements takes one element out.
LEMMA RemoveAtDistinct ==
  ASSUME NEW S, NEW s \in Seq(S), NEW i \in 1..Len(s), Distinct(s)
  PROVE  /\ Distinct(RemoveAt(s, i))
         /\ ToSet(RemoveAt(s, i)) = ToSet(s) \ {s[i]}
<1> DEFINE v == RemoveAt(s, i)
<1>1. v \in Seq(S) /\ Len(v) = Len(s) - 1
  BY RemoveAtElements
<1>2. \A k \in 1..(i - 1) : v[k] = s[k]
  BY RemoveAtElements
<1>3. \A k \in i..(Len(s) - 1) : v[k] = s[k + 1]
  BY RemoveAtElements
<1> HIDE DEF v
<1> DEFINE Old(k) == IF k < i THEN k ELSE k + 1
<1>4. \A k \in 1..Len(v) : Old(k) \in 1..Len(s) /\ Old(k) # i
  BY <1>1
<1>5. ASSUME NEW k \in 1..Len(v) PROVE v[k] = s[Old(k)]
  <2>1. CASE k < i
    BY <1>1, <1>2, <2>1
  <2>2. CASE ~(k < i)
    BY <1>1, <1>3, <2>2
  <2> QED BY <2>1, <2>2
<1>6. \A k, m \in 1..Len(v) : Old(k) = Old(m) => k = m
  BY <1>1
<1>7. \A k \in 1..Len(s) : k # i => \E m \in 1..Len(v) : Old(m) = k
  <2> TAKE k \in 1..Len(s)
  <2> HAVE k # i
  <2>1. CASE k < i
    <3>1. k \in 1..Len(v)
      BY <1>1, <2>1
    <3> WITNESS k \in 1..Len(v)
    <3> QED BY <2>1
  <2>2. CASE k > i
    <3>1. k - 1 \in 1..Len(v)
      BY <1>1, <2>2
    <3> WITNESS k - 1 \in 1..Len(v)
    <3> QED BY <2>2
  <2> QED BY <2>1, <2>2
<1> HIDE DEF Old
<1>8. Distinct(v)
  BY <1>4, <1>5, <1>6 DEF Distinct
<1>9. ASSUME NEW x \in ToSet(v) PROVE x \in ToSet(s) \ {s[i]}
  <2>1. PICK k \in 1..Len(v) : v[k] = x
    BY <1>1, <1>9, ToSetElement
  <2>2. x = s[Old(k)] /\ Old(k) \in 1..Len(s) /\ Old(k) # i
    BY <1>4, <1>5, <2>1
  <2> QED BY <2>2, ToSetElement DEF Distinct
<1>10. ASSUME NEW x \in ToSet(s), x # s[i] PROVE x \in ToSet(v)
  <2>1. PICK k \in 1..Len(s) : s[k] = x
    BY <1>10, ToSetElement
  <2>2. k # i
    BY <1>10, <2>1
  <2>3. PICK m \in 1..Len(v) : Old(m) = k
    BY <1>7, <2>2
  <2>4. v[m] = x
    BY <1>5, <2>1, <2>3
  <2> QED BY <1>1, <2>4, ToSetElement
<1> QED BY <1>8, <1>9, <1>10 DEF v

\* A new element keeps the elements distinct.
LEMMA AppendDistinct ==
  ASSUME NEW S, NEW s \in Seq(S), NEW x \in S, Distinct(s), x \notin ToSet(s)
  PROVE  Distinct(Append(s, x))
<1> DEFINE u == Append(s, x)
<1>1. Len(u) = Len(s) + 1 /\ u[Len(s) + 1] = x /\ \A k \in 1..Len(s) : u[k] = s[k]
  OBVIOUS
<1> HIDE DEF u
<1>2. \A k \in 1..Len(s) : s[k] # x
  BY ToSetElement
<1>3. ASSUME NEW i \in 1..Len(u), NEW j \in 1..Len(u), u[i] = u[j] PROVE i = j
  <2>1. \A k \in 1..Len(u) : k \in 1..Len(s) \/ k = Len(s) + 1
    BY <1>1
  <2> QED BY <1>1, <1>2, <1>3, <2>1 DEF Distinct
<1> QED BY <1>3 DEF Distinct, u

\* Where the elements are distinct, the parts of a concatenation have none
\* in common.
LEMMA DistinctConcat ==
  ASSUME NEW S, NEW s \in Seq(S), NEW t \in Seq(S), Distinct(s \o t)
  PROVE  ToSet(s) \cap ToSet(t) = {}
<1> DEFINE u == s \o t
<1>1. Len(u) = Len(s) + Len(t)
  OBVIOUS
<1>2. \A k \in 1..Len(s) : u[k] = s[k]
  OBVIOUS
<1>3. \A k \in 1..Len(t) : u[Len(s) + k] = t[k]
  OBVIOUS
<1>4. Distinct(u)
  OBVIOUS
<1> HIDE DEF u
<1> SUFFICES ASSUME NEW x \in ToSet(s), x \in ToSet(t) PROVE FALSE
  OBVIOUS
<1>5. PICK i \in 1..Len(s) : s[i] = x
  BY ToSetElement
<1>6. PICK j \in 1..Len(t) : t[j] = x
  BY ToSetElement
<1>7. i \in 1..Len(u) /\ Len(s) + j \in 1..Len(u) /\ i # Len(s) + j
  BY <1>1
<1>8. u[i] = x /\ u[Len(s) + j] = x
  BY <1>2, <1>3, <1>5, <1>6
<1> QED BY <1>4, <1>7, <1>8 DEF Distinct

-----------------------------------------------------------------------------
\* Induction over the natural numbers, for a set instead of a predicate.
LEMMA NatSetInduction ==
  ASSUME NEW S, 0 \in S, \A n \in Nat : n \in S => n + 1 \in S
  PROVE  Nat \subseteq S
<1> DEFINE R == OpToRel(<, Nat)
           T == Nat \ S
<1>1. IsWellFoundedOn(R, Nat)
  BY NatLessThanWellFounded
<1>2. SUFFICES ASSUME T # {} PROVE FALSE
  OBVIOUS
<1>3. PICK x \in T : \A y \in T : <<y, x>> \notin R
  <2> HIDE DEF R, T
  <2>1. T \subseteq Nat
    BY DEF T
  <2> QED BY <1>1, <1>2, <2>1, WFMin
<1>4. x # 0 /\ x - 1 \in Nat /\ x - 1 \in T
  OBVIOUS
<1>5. <<x - 1, x>> \in R
  BY <1>4 DEF OpToRel
<1> QED BY <1>3, <1>4, <1>5

\* Induction over sequences, for a set instead of a predicate.
LEMMA SeqSetInduction ==
  ASSUME NEW A, NEW P, <<>> \in P,
         \A s \in Seq(A) : \A x \in A : s \in P => Append(s, x) \in P
  PROVE  Seq(A) \subseteq P
<1> DEFINE T == {n \in Nat : \A s \in Seq(A) : Len(s) = n => s \in P}
<1>1. 0 \in T
  <2> SUFFICES ASSUME NEW s \in Seq(A), Len(s) = 0 PROVE s \in P
    OBVIOUS
  <2>1. s = <<>>
    OBVIOUS
  <2> QED BY <2>1
<1>2. ASSUME NEW n \in Nat, n \in T PROVE n + 1 \in T
  <2> SUFFICES ASSUME NEW s \in Seq(A), Len(s) = n + 1 PROVE s \in P
    OBVIOUS
  <2> DEFINE f == SubSeq(s, 1, n)
             x == s[n + 1]
             u == Append(f, x)
  <2>1. f \in Seq(A) /\ Len(f) = n /\ x \in A
    OBVIOUS
  <2>2. \A k \in 1..n : f[k] = s[k]
    OBVIOUS
  <2> HIDE DEF f
  <2>3. u \in Seq(A) /\ Len(u) = n + 1 /\ u[n + 1] = x
    BY <2>1
  <2>4. \A k \in 1..n : u[k] = f[k]
    BY <2>1
  <2> HIDE DEF u
  <2>5. \A k \in 1..Len(s) : s[k] = u[k]
    <3> TAKE k \in 1..Len(s)
    <3>1. k \in 1..n \/ k = n + 1
      OBVIOUS
    <3> QED BY <2>2, <2>3, <2>4, <3>1
  <2>6. s = u
    BY <2>3, <2>5, SeqEqual
  <2>7. f \in P
    BY <1>2, <2>1
  <2> QED BY <2>1, <2>6, <2>7 DEF u
<1> HIDE DEF T
<1>3. Nat \subseteq T
  BY <1>1, <1>2, NatSetInduction
<1> QED BY <1>3 DEF T

-----------------------------------------------------------------------------
(* What Keep computes. *)

\* f holds what is kept of the first elements of s, up to the n-th.
Kept(f, s, S, n) ==
  /\ f[0] = <<>>
  /\ \A k \in 1..n : f[k] = KeepNext(f[k - 1], s[k], S)

\* The recursion of Keep has a solution.
LEMMA KeptExists ==
  ASSUME NEW A, NEW S, NEW s \in Seq(A)
  PROVE  \E f \in [0..Len(s) -> Seq(A)] : Kept(f, s, S, Len(s))
<1> DEFINE T == {n \in Nat : n <= Len(s) => \E f \in [0..n -> Seq(A)] : Kept(f, s, S, n)}
<1>1. 0 \in T
  <2> DEFINE f == [k \in 0..0 |-> <<>>]
  <2>1. f \in [0..0 -> Seq(A)] /\ Kept(f, s, S, 0)
    BY EmptyIsSeq DEF Kept
  <2> QED BY <2>1
<1>2. ASSUME NEW n \in Nat, n \in T PROVE n + 1 \in T
  <2> SUFFICES ASSUME n + 1 <= Len(s)
               PROVE  \E f \in [0..(n + 1) -> Seq(A)] : Kept(f, s, S, n + 1)
    OBVIOUS
  <2>1. PICK f \in [0..n -> Seq(A)] : Kept(f, s, S, n)
    BY <1>2
  <2> DEFINE v == KeepNext(f[n], s[n + 1], S)
             g == [k \in 0..(n + 1) |-> IF k = n + 1 THEN v ELSE f[k]]
  <2>2. v \in Seq(A)
    <3>1. s[n + 1] \in A /\ f[n] \in Seq(A)
      OBVIOUS
    <3> QED BY <3>1 DEF KeepNext
  <2>3. g \in [0..(n + 1) -> Seq(A)] /\ g[0] = <<>>
    <3> HIDE DEF v
    <3> QED BY <2>1, <2>2 DEF Kept
  <2>4. ASSUME NEW k \in 1..(n + 1)
        PROVE  g[k] = KeepNext(g[k - 1], s[k], S)
    <3>1. CASE k = n + 1
      BY <3>1
    <3>2. CASE k \in 1..n
      <4>1. g[k] = f[k] /\ g[k - 1] = f[k - 1]
        BY <3>2
      <4> HIDE DEF g
      <4> QED BY <2>1, <3>2, <4>1 DEF Kept
    <3> QED BY <3>1, <3>2
  <2> HIDE DEF g
  <2> QED BY <2>3, <2>4 DEF Kept
<1> HIDE DEF T
<1>3. Nat \subseteq T
  BY <1>1, <1>2, NatSetInduction
<1> QED BY <1>3 DEF T

\* s and t have the same elements up to the m-th.
SameUpTo(s, t, m) == \A k \in 1..m : s[k] = t[k]

\* f and g have the same values up to the m-th.
SameValues(f, g, m) == \A k \in 0..m : f[k] = g[k]

\* Two solutions agree as far as the sequences do.
LEMMA KeptAgree ==
  ASSUME NEW s, NEW t, NEW S, NEW m \in Nat, NEW f, NEW g,
         Kept(f, s, S, m), Kept(g, t, S, m), SameUpTo(s, t, m)
  PROVE  SameValues(f, g, m)
<1> DEFINE T == {k \in Nat : k <= m => f[k] = g[k]}
<1>1. 0 \in T
  BY DEF Kept
<1>2. ASSUME NEW k \in Nat, k \in T PROVE k + 1 \in T
  <2> SUFFICES ASSUME k + 1 <= m PROVE f[k + 1] = g[k + 1]
    OBVIOUS
  <2>1. f[k] = g[k]
    BY <1>2
  <2>2. k + 1 \in 1..m /\ (k + 1) - 1 = k
    OBVIOUS
  <2>3. f[k + 1] = KeepNext(f[k], s[k + 1], S)
    BY <2>2 DEF Kept
  <2>4. g[k + 1] = KeepNext(g[k], t[k + 1], S)
    BY <2>2 DEF Kept
  <2>5. s[k + 1] = t[k + 1]
    BY <2>2 DEF SameUpTo
  <2> QED BY <2>1, <2>3, <2>4, <2>5
<1> HIDE DEF T
<1>3. Nat \subseteq T
  BY <1>1, <1>2, NatSetInduction
<1> QED BY <1>3 DEF T, SameValues

\* Keep is the last value of the recursion.
LEMMA KeepIsLast ==
  ASSUME NEW A, NEW S, NEW s \in Seq(A), NEW f \in [0..Len(s) -> Seq(A)],
         Kept(f, s, S, Len(s))
  PROVE  Keep(s, S) = f[Len(s)]
<1> DEFINE Body(g) ==
             [n \in 0..Len(s) |-> IF n = 0 THEN <<>> ELSE KeepNext(g[n - 1], s[n], S)]
           F == CHOOSE g : g = Body(g)
<1>1. Keep(s, S) = F[Len(s)]
  BY DEF Keep
<1>2. f = Body(f)
  <2>1. ASSUME NEW n \in 0..Len(s) PROVE f[n] = Body(f)[n]
    BY DEF Kept
  <2>2. DOMAIN Body(f) = 0..Len(s) /\ Body(f) = [n \in 0..Len(s) |-> Body(f)[n]]
    OBVIOUS
  <2>3. f = [n \in 0..Len(s) |-> f[n]]
    OBVIOUS
  <2> QED BY <2>1, <2>2, <2>3
<1>3. F = Body(F)
  BY <1>2
<1> HIDE DEF F
<1>4. Kept(F, s, S, Len(s))
  BY <1>3 DEF Kept
<1>5. SameUpTo(s, s, Len(s)) /\ Len(s) \in Nat
  BY DEF SameUpTo
<1>6. SameValues(f, F, Len(s))
  BY <1>4, <1>5, KeptAgree
<1> QED BY <1>1, <1>5, <1>6 DEF SameValues

\* Keep is a value of the recursion.
LEMMA KeepValue ==
  ASSUME NEW A, NEW S, NEW s \in Seq(A)
  PROVE  \E f \in [0..Len(s) -> Seq(A)] :
           Kept(f, s, S, Len(s)) /\ Keep(s, S) = f[Len(s)]
<1>1. PICK f \in [0..Len(s) -> Seq(A)] : Kept(f, s, S, Len(s))
  BY KeptExists
<1>2. Keep(s, S) = f[Len(s)]
  BY <1>1, KeepIsLast
<1> QED BY <1>1, <1>2

\* Nothing is kept of nothing.
LEMMA KeepEmpty == ASSUME NEW S PROVE Keep(<<>>, S) = <<>>
<1> DEFINE e == <<>>
           A == {}
<1>1. Len(e) = 0
  OBVIOUS
<1>0. e \in Seq(A)
  BY EmptyIsSeq
<1> HIDE DEF e, A
<1>2. PICK f \in [0..Len(e) -> Seq(A)] : Kept(f, e, S, Len(e)) /\ Keep(e, S) = f[Len(e)]
  BY ZenonT(30), <1>0, KeepValue
<1>3. Keep(e, S) = <<>>
  BY <1>1, <1>2 DEF Kept
<1> QED BY <1>3 DEF e

\* What is kept is a sequence.
LEMMA KeepType ==
  ASSUME NEW A, NEW S, NEW s \in Seq(A)
  PROVE  Keep(s, S) \in Seq(A)
<1>1. PICK f \in [0..Len(s) -> Seq(A)] : Keep(s, S) = f[Len(s)]
  BY KeepValue
<1>2. Len(s) \in 0..Len(s)
  OBVIOUS
<1> QED BY <1>1, <1>2

\* Keep, one element at a time.
LEMMA KeepAppend ==
  ASSUME NEW A, NEW S, NEW s \in Seq(A), NEW x \in A
  PROVE  Keep(Append(s, x), S) = KeepNext(Keep(s, S), x, S)
<1> DEFINE u == Append(s, x)
           m == Len(s)
           n == Len(u)
<1>1. u \in Seq(A) /\ n = m + 1 /\ u[n] = x
  OBVIOUS
<1>2. m \in Nat /\ n \in Nat /\ m <= n /\ SameUpTo(s, u, m)
  BY DEF SameUpTo
<1> HIDE DEF u
<1>3. PICK f \in [0..m -> Seq(A)] : Kept(f, s, S, m) /\ Keep(s, S) = f[m]
  BY KeepValue
<1>4. PICK g \in [0..n -> Seq(A)] : Kept(g, u, S, n) /\ Keep(u, S) = g[n]
  BY <1>1, KeepValue
<1> HIDE DEF m, n
<1>5. SameValues(f, g, m)
  <2>1. Kept(g, u, S, m)
    BY <1>2, <1>4 DEF Kept
  <2>2. m \in Nat /\ Kept(f, s, S, m) /\ Kept(g, u, S, m) /\ SameUpTo(s, u, m)
    BY <1>2, <1>3, <2>1
  <2> QED BY <2>2, KeptAgree
<1>6. f[m] = g[m]
  BY <1>2, <1>5 DEF SameValues
<1>7. g[n] = KeepNext(g[m], x, S)
  <2>1. n \in 1..n /\ n - 1 = m
    BY <1>1, <1>2
  <2> QED BY <1>1, <1>4, <2>1 DEF Kept
<1> QED BY <1>3, <1>4, <1>6, <1>7 DEF u

NextConcat(s, t, x, S) == KeepNext(s \o t, x, S) = s \o KeepNext(t, x, S)

\* An element more, behind a concatenation.
LEMMA KeepNextConcat ==
  ASSUME NEW A, NEW S, NEW s \in Seq(A), NEW t \in Seq(A), NEW x \in A
  PROVE  NextConcat(s, t, x, S)
BY DEF KeepNext, NextConcat

\* Keep of a concatenation.
LEMMA KeepConcat ==
  ASSUME NEW A, NEW S, NEW s \in Seq(A), NEW t \in Seq(A)
  PROVE  Keep(s \o t, S) = Keep(s, S) \o Keep(t, S)
<1> DEFINE ks == Keep(s, S)
           P == {r \in Seq(A) : Keep(s \o r, S) = ks \o Keep(r, S)}
<1>0. ks \in Seq(A)
  BY KeepType
<1> HIDE DEF ks
<1>1. <<>> \in P
  <2>1. s \o <<>> = s /\ ks \o <<>> = ks /\ <<>> \in Seq(A)
    BY <1>0, ConcatEmpty, EmptyIsSeq
  <2>2. Keep(<<>>, S) = <<>>
    BY KeepEmpty
  <2> QED BY <2>1, <2>2 DEF ks
<1>2. ASSUME NEW r \in Seq(A), NEW x \in A, r \in P PROVE Append(r, x) \in P
  <2> DEFINE kr == Keep(r, S)
             sr == s \o r
  <2>1. kr \in Seq(A) /\ sr \in Seq(A)
    BY KeepType, ConcatElements
  <2>2. Keep(sr, S) = ks \o kr
    BY <1>2
  <2>3. s \o Append(r, x) = Append(sr, x)
    BY AppendConcat
  <2>4. Keep(Append(r, x), S) = KeepNext(kr, x, S)
    BY KeepAppend
  <2> HIDE DEF kr, sr
  <2>5. Keep(Append(sr, x), S) = KeepNext(ks \o kr, x, S)
    BY <2>1, <2>2, KeepAppend
  <2>6. KeepNext(ks \o kr, x, S) = ks \o KeepNext(kr, x, S)
    <3>1. ks \in Seq(A) /\ kr \in Seq(A)
      BY <1>0, <2>1
    <3>2. NextConcat(ks, kr, x, S)
      BY <3>1, KeepNextConcat
    <3> QED BY <3>2 DEF NextConcat
  <2>7. Append(r, x) \in Seq(A)
    OBVIOUS
  <2> QED BY <2>3, <2>4, <2>5, <2>6, <2>7
<1> HIDE DEF P
<1>3. Seq(A) \subseteq P
  BY <1>1, <1>2, SeqSetInduction
<1> QED BY <1>3 DEF P, ks

\* Keep of a sequence of one.
LEMMA KeepOne ==
  ASSUME NEW A, NEW S, NEW x \in A
  PROVE  /\ x \in S => Keep(<<x>>, S) = <<x>>
         /\ x \notin S => Keep(<<x>>, S) = <<>>
<1>1. <<x>> = Append(<<>>, x) /\ <<>> \in Seq(A)
  BY EmptyIsSeq
<1>2. Keep(Append(<<>>, x), S) = KeepNext(Keep(<<>>, S), x, S)
  BY <1>1, KeepAppend
<1> QED BY <1>1, <1>2, KeepEmpty DEF KeepNext

\* Keep of a sequence whose front is taken off.
LEMMA KeepTail ==
  ASSUME NEW A, NEW S, NEW s \in Seq(A), s # <<>>
  PROVE  /\ Head(s) \in S => Keep(s, S) = <<Head(s)>> \o Keep(Tail(s), S)
         /\ Head(s) \notin S => Keep(s, S) = Keep(Tail(s), S)
<1> DEFINE h == <<Head(s)>>
           t == Tail(s)
<1>1. Head(s) \in A /\ t \in Seq(A) /\ s = h \o t
  BY ConcatHeadTail
<1>2. h \in Seq(A)
  BY <1>1, SingletonSeq
<1>3. /\ Head(s) \in S => Keep(h, S) = h
      /\ Head(s) \notin S => Keep(h, S) = <<>>
  BY <1>1, KeepOne
<1> HIDE DEF h, t
<1>4. Keep(h \o t, S) = Keep(h, S) \o Keep(t, S)
  BY <1>1, <1>2, KeepConcat
<1>5. Keep(t, S) \in Seq(A)
  BY <1>1, KeepType
<1>6. <<>> \o Keep(t, S) = Keep(t, S)
  BY <1>5, ConcatEmpty
<1> QED BY <1>1, <1>3, <1>4, <1>6 DEF h, t

\* What is kept are the elements in the set.
LEMMA KeepToSet ==
  ASSUME NEW A, NEW S, NEW s \in Seq(A)
  PROVE  ToSet(Keep(s, S)) = ToSet(s) \cap S
<1> DEFINE P == {r \in Seq(A) : ToSet(Keep(r, S)) = ToSet(r) \cap S}
<1>1. <<>> \in P
  BY EmptyIsSeq, KeepEmpty, ToSetEmpty
<1>2. ASSUME NEW r \in Seq(A), NEW x \in A, r \in P PROVE Append(r, x) \in P
  <2> DEFINE k == Keep(r, S)
  <2>1. Append(r, x) \in Seq(A) /\ ToSet(Append(r, x)) = ToSet(r) \cup {x}
    BY ToSetAppend
  <2>2. k \in Seq(A) /\ ToSet(k) = ToSet(r) \cap S
    BY <1>2, KeepType
  <2>3. Keep(Append(r, x), S) = KeepNext(k, x, S)
    BY KeepAppend
  <2> HIDE DEF k
  <2>4. ToSet(Append(k, x)) = ToSet(k) \cup {x}
    BY <2>2, ToSetAppend
  <2>5. CASE x \in S
    BY <2>1, <2>2, <2>3, <2>4, <2>5 DEF KeepNext
  <2>6. CASE x \notin S
    BY <2>1, <2>2, <2>3, <2>6 DEF KeepNext
  <2> QED BY <2>5, <2>6
<1> HIDE DEF P
<1>3. Seq(A) \subseteq P
  BY <1>1, <1>2, SeqSetInduction
<1> QED BY <1>3 DEF P

\* Everything is kept of a sequence over the set.
LEMMA KeepAll ==
  ASSUME NEW A, NEW S, NEW s \in Seq(A), ToSet(s) \subseteq S
  PROVE  Keep(s, S) = s
<1> DEFINE P == {r \in Seq(A) : ToSet(r) \subseteq S => Keep(r, S) = r}
<1>1. <<>> \in P
  BY EmptyIsSeq, KeepEmpty
<1>2. ASSUME NEW r \in Seq(A), NEW x \in A, r \in P PROVE Append(r, x) \in P
  <2>1. Append(r, x) \in Seq(A) /\ ToSet(Append(r, x)) = ToSet(r) \cup {x}
    BY ToSetAppend
  <2>2. Keep(Append(r, x), S) = KeepNext(Keep(r, S), x, S)
    BY KeepAppend
  <2> QED BY <1>2, <2>1, <2>2 DEF KeepNext
<1> HIDE DEF P
<1>3. Seq(A) \subseteq P
  BY <1>1, <1>2, SeqSetInduction
<1> QED BY <1>3 DEF P

\* Distinct elements stay distinct.
LEMMA KeepDistinct ==
  ASSUME NEW A, NEW S, NEW s \in Seq(A), Distinct(s)
  PROVE  Distinct(Keep(s, S))
<1> DEFINE P == {r \in Seq(A) : Distinct(r) => Distinct(Keep(r, S))}
<1>1. <<>> \in P
  BY EmptyIsSeq, KeepEmpty
<1>2. ASSUME NEW r \in Seq(A), NEW x \in A, r \in P PROVE Append(r, x) \in P
  <2> DEFINE u == Append(r, x)
             k == Keep(r, S)
  <2>1. u \in Seq(A) /\ Keep(u, S) = KeepNext(k, x, S)
    BY KeepAppend
  <2>2. k \in Seq(A) /\ ToSet(k) = ToSet(r) \cap S
    BY KeepType, KeepToSet
  <2> HIDE DEF k
  <2> SUFFICES ASSUME Distinct(u) PROVE Distinct(Keep(u, S))
    BY <2>1
  <2>3. Len(u) = Len(r) + 1 /\ u[Len(r) + 1] = x /\ \A i \in 1..Len(r) : u[i] = r[i]
    OBVIOUS
  <2> HIDE DEF u
  <2>4. Distinct(r)
    BY <2>3 DEF Distinct
  <2>5. x \notin ToSet(r)
    <3> SUFFICES ASSUME NEW i \in 1..Len(r), r[i] = x PROVE FALSE
      BY ToSetElement
    <3>1. i \in 1..Len(u) /\ Len(r) + 1 \in 1..Len(u) /\ u[i] = u[Len(r) + 1]
      BY <2>3
    <3> QED BY <3>1 DEF Distinct
  <2>6. Distinct(k)
    BY <1>2, <2>4 DEF k
  <2>7. Distinct(Append(k, x))
    BY <2>2, <2>5, <2>6, AppendDistinct
  <2> QED BY <2>1, <2>6, <2>7 DEF KeepNext
<1> HIDE DEF P
<1>3. Seq(A) \subseteq P
  BY <1>1, <1>2, SeqSetInduction
<1> QED BY <1>3 DEF P

\* The parts of a sequence without duplicates have none.
LEMMA DistinctParts ==
  ASSUME NEW S, NEW s \in Seq(S), NEW t \in Seq(S), Distinct(s \o t)
  PROVE  Distinct(s) /\ Distinct(t)
<1> DEFINE u == s \o t
<1>1. Len(u) = Len(s) + Len(t)
  OBVIOUS
<1>2. \A k \in 1..Len(s) : u[k] = s[k]
  OBVIOUS
<1>3. \A k \in 1..Len(t) : u[Len(s) + k] = t[k]
  OBVIOUS
<1>4. Len(s) \in Nat /\ Len(t) \in Nat /\ Distinct(u)
  OBVIOUS
<1> HIDE DEF u
<1>5. Distinct(s)
  BY <1>1, <1>2, <1>4 DEF Distinct
<1>6. Distinct(t)
  <2> SUFFICES ASSUME NEW i \in 1..Len(t), NEW j \in 1..Len(t), t[i] = t[j] PROVE i = j
    BY DEF Distinct
  <2>1. u[Len(s) + i] = u[Len(s) + j]
    BY <1>3
  <2>2. Len(s) + i \in 1..Len(u) /\ Len(s) + j \in 1..Len(u)
    BY <1>1, <1>4
  <2>3. Len(s) + i = Len(s) + j
    BY <1>4, <2>1, <2>2 DEF Distinct
  <2> QED BY <1>4, <2>3
<1> QED BY <1>5, <1>6
=============================================================================
