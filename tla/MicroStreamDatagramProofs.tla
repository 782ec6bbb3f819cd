---------------------- MODULE MicroStreamDatagramProofs ----------------------
(***************************************************************************)
(* Proofs about MicroStreamDatagram: the frames given to the owner are the *)
(* peer's, in order and as they were sent, whatever the line does; and on  *)
(* a line without faults every frame that was sent arrives.                *)
(***************************************************************************)
EXTENDS MicroStreamDatagram, SequenceFacts

-----------------------------------------------------------------------------
(* Sizes and the bytes they are written as. *)

\* Division with rest: what Varuint writes and ReadVaruint puts together.
LEMMA DivisionWithRest ==
  ASSUME NEW n \in Nat, NEW b \in Nat, b > 0
  PROVE  /\ n % b \in 0..(b - 1) /\ n \div b \in Nat
         /\ n = (n % b) + b * (n \div b)
OBVIOUS

\* A remainder of what is small enough.
LEMMA SmallRest ==
  ASSUME NEW n \in Nat, NEW b \in Nat, n < b
  PROVE  n % b = n
OBVIOUS

\* The second byte of a size that takes two is its last.
LEMMA QuotientSmall ==
  ASSUME NEW n \in Nat, NEW b \in Nat, b > 0, n < b * b
  PROVE  n \div b < b
OBVIOUS

\* What is above the base leaves the same rest.
LEMMA RestAboveBase ==
  ASSUME NEW n \in Nat, NEW b \in Nat, b > 0, n < b
  PROVE  (b + n) % b = n
OBVIOUS

\* What a message may be.
Message == [source : Byte, dest : Byte, payload : Seq(Byte), crc : Byte \X Byte]

\* A byte on the line: its value and where it comes from.
LineByte == [v : Byte, frame : Nat, pos : Nat]

\* Bytes one behind the other, in two ways.
LEMMA LineAssoc == \A s, t, u \in Seq(LineByte) : (s \o t) \o u = s \o (t \o u)
BY ConcatAssoc

\* The size of the payload of message k, and the bytes its size field takes.
SizeOf(k) == Len(Messages[k].payload)
FieldOf(k) == IF SizeOf(k) < Base THEN 1 ELSE 2

\* A message is what the assumption says.
LEMMA MessageType ==
  ASSUME NEW k \in DOMAIN Messages
  PROVE  /\ Messages[k] \in Message
         /\ SizeOf(k) \in Nat /\ SizeOf(k) < Base * Base /\ SizeOf(k) < Width
         /\ Messages[k].payload \in Seq(Byte)
         /\ Messages[k].crc \in Byte \X Byte
         /\ Messages[k].source \in Byte /\ Messages[k].dest \in Byte
<1>1. Messages \in Seq(Message)
  BY MessagesAssumption DEF Message
<1>2. Messages[k] \in Message
  BY <1>1
<1>3. /\ Messages[k].payload \in Seq(Byte)
      /\ Messages[k].crc \in Byte \X Byte
      /\ Messages[k].source \in Byte /\ Messages[k].dest \in Byte
  BY <1>2 DEF Message
<1> QED BY <1>2, <1>3, MessagesAssumption DEF SizeOf

\* The size field of message k, byte by byte.
LEMMA VaruintBytes ==
  ASSUME NEW k \in DOMAIN Messages
  PROVE  /\ Varuint(SizeOf(k)) \in Seq(Byte)
         /\ Len(Varuint(SizeOf(k))) = FieldOf(k)
         /\ SizeOf(k) < Base => Varuint(SizeOf(k))[1] = SizeOf(k)
         /\ SizeOf(k) >= Base => /\ Varuint(SizeOf(k))[1] = Base + (SizeOf(k) % Base)
                                 /\ Varuint(SizeOf(k))[2] = SizeOf(k) \div Base
<1> DEFINE n == SizeOf(k)
<1>1. n \in Nat /\ n < Base * Base
  BY MessageType
<1>2. Base \in Nat /\ Base > 0
  BY BytesAssumption
<1> HIDE DEF n
<1>3. CASE n < Base
  <2>1. n \in Byte
    BY <1>1, <1>2, <1>3 DEF Byte
  <2> QED BY <1>1, <1>2, <1>3, <2>1 DEF n, Varuint, FieldOf
<1>4. CASE n >= Base
  <2>1. n % Base \in 0..(Base - 1) /\ n \div Base \in Nat
    BY <1>1, <1>2, DivisionWithRest
  <2>2. n \div Base < Base
    BY <1>1, <1>2, QuotientSmall
  <2>3. Base + (n % Base) \in Byte /\ n \div Base \in Byte
    BY <1>2, <2>1, <2>2 DEF Byte
  <2>4. ~(n < Base)
    BY <1>1, <1>2, <1>4
  <2>5. Varuint(n) = <<Base + (n % Base), n \div Base>>
    BY <2>4 DEF Varuint
  <2> QED BY <2>3, <2>4, <2>5, <1>4 DEF n, FieldOf
<1> QED BY <1>1, <1>2, <1>3, <1>4

\* The values of message k's frame: header, ids, size, payload and CRC.
LEMMA ValuesOf ==
  ASSUME NEW k \in DOMAIN Messages
  PROVE  /\ Values(Messages[k]) \in Seq(Byte)
         /\ Len(Values(Messages[k])) = 6 + FieldOf(k) + SizeOf(k)
         /\ Values(Messages[k])[1] = Low /\ Values(Messages[k])[2] = High
         /\ Values(Messages[k])[3] = Messages[k].source
         /\ Values(Messages[k])[4] = Messages[k].dest
         /\ \A i \in 1..FieldOf(k) :
              Values(Messages[k])[4 + i] = Varuint(SizeOf(k))[i]
         /\ \A i \in 1..SizeOf(k) :
              Values(Messages[k])[4 + FieldOf(k) + i] = Messages[k].payload[i]
<1> DEFINE m == Messages[k]
           a == <<Low, High, m.source, m.dest>>
           b == Varuint(SizeOf(k))
           c == m.payload
           d == m.crc
           ab == a \o b
           abc == ab \o c
           u == abc \o d
<1>1. /\ c \in Seq(Byte) /\ d \in Byte \X Byte /\ m.source \in Byte /\ m.dest \in Byte
      /\ SizeOf(k) \in Nat /\ Len(c) = SizeOf(k)
  BY MessageType DEF SizeOf
<1>2. Low \in Byte /\ High \in Byte
  BY BytesAssumption DEF Byte
<1>3. /\ a \in Seq(Byte) /\ Len(a) = 4
      /\ a[1] = Low /\ a[2] = High /\ a[3] = m.source /\ a[4] = m.dest
  BY <1>1, <1>2
<1>4. d \in Seq(Byte) /\ Len(d) = 2
  <2>1. PICK x \in Byte, y \in Byte : d = <<x, y>>
    BY <1>1
  <2> QED BY <2>1
<1>5. b \in Seq(Byte) /\ Len(b) = FieldOf(k) /\ FieldOf(k) \in 1..2
  BY VaruintBytes DEF FieldOf
<1>6. Values(m) = u
  BY DEF Values, SizeOf
<1> HIDE DEF m, a, b, c, d
<1>7. a \in Seq(Byte) /\ b \in Seq(Byte)
  BY <1>3, <1>5
<1>8. /\ ab \in Seq(Byte) /\ Len(ab) = Len(a) + Len(b)
      /\ \A i \in 1..Len(a) : ab[i] = a[i]
      /\ \A i \in 1..Len(b) : ab[Len(a) + i] = b[i]
  BY <1>7
<1>9. ab \in Seq(Byte) /\ c \in Seq(Byte)
  BY <1>1, <1>8
<1> HIDE DEF ab
<1>10. /\ abc \in Seq(Byte) /\ Len(abc) = Len(ab) + Len(c)
       /\ \A i \in 1..Len(ab) : abc[i] = ab[i]
       /\ \A i \in 1..Len(c) : abc[Len(ab) + i] = c[i]
  BY <1>9
<1>11. abc \in Seq(Byte) /\ d \in Seq(Byte)
  BY <1>4, <1>10
<1> HIDE DEF abc
<1>12. /\ u \in Seq(Byte) /\ Len(u) = Len(abc) + Len(d)
       /\ \A i \in 1..Len(abc) : u[i] = abc[i]
  BY <1>11
<1> HIDE DEF u
<1>13. Len(ab) = 4 + FieldOf(k) /\ Len(abc) = 4 + FieldOf(k) + SizeOf(k)
  BY <1>1, <1>3, <1>5, <1>8, <1>10
<1>14. \A i \in 1..4 : u[i] = a[i]
  <2> SUFFICES ASSUME NEW i \in 1..4 PROVE u[i] = a[i]
    OBVIOUS
  <2>1. i \in 1..Len(a) /\ i \in 1..Len(ab) /\ i \in 1..Len(abc)
    BY <1>1, <1>3, <1>5, <1>13
  <2> QED BY <1>8, <1>10, <1>12, <2>1
<1>15. \A i \in 1..FieldOf(k) : u[4 + i] = b[i]
  <2> SUFFICES ASSUME NEW i \in 1..FieldOf(k) PROVE u[4 + i] = b[i]
    OBVIOUS
  <2>1. i \in 1..Len(b) /\ Len(a) + i \in 1..Len(ab) /\ Len(a) + i \in 1..Len(abc)
    BY <1>1, <1>3, <1>5, <1>13
  <2>2. u[Len(a) + i] = b[i]
    BY <1>8, <1>10, <1>12, <2>1
  <2> QED BY <1>3, <2>2
<1>16. \A i \in 1..SizeOf(k) : u[4 + FieldOf(k) + i] = c[i]
  <2> SUFFICES ASSUME NEW i \in 1..SizeOf(k) PROVE u[4 + FieldOf(k) + i] = c[i]
    OBVIOUS
  <2>1. i \in 1..Len(c) /\ Len(ab) + i \in 1..Len(abc)
    BY <1>1, <1>5, <1>13
  <2>2. u[Len(ab) + i] = c[i]
    BY <1>10, <1>12, <2>1
  <2> QED BY <1>13, <2>2
<1>17. Len(u) = 6 + FieldOf(k) + SizeOf(k)
  <2>1. FieldOf(k) \in Nat /\ SizeOf(k) \in Nat /\ Len(d) = 2
    BY <1>1, <1>4, <1>5
  <2>2. Len(u) = 4 + FieldOf(k) + SizeOf(k) + Len(d)
    BY <1>12, <1>13
  <2> HIDE DEF d
  <2> QED BY <2>1, <2>2
<1>18. u[1] = Low /\ u[2] = High /\ u[3] = m.source /\ u[4] = m.dest
  BY <1>3, <1>14
<1> QED BY <1>6, <1>12, <1>15, <1>16, <1>17, <1>18 DEF m, b, c

\* The frame of message k on the line.
LEMMA FrameOfMessage ==
  ASSUME NEW k \in DOMAIN Messages
  PROVE  /\ Frame(k) \in Seq(LineByte)
         /\ Len(Frame(k)) = 6 + FieldOf(k) + SizeOf(k)
         /\ \A i \in 1..Len(Frame(k)) :
              /\ Frame(k)[i].v = Values(Messages[k])[i]
              /\ Frame(k)[i].frame = k /\ Frame(k)[i].pos = i
<1> DEFINE w == Values(Messages[k])
<1>1. w \in Seq(Byte) /\ Len(w) = 6 + FieldOf(k) + SizeOf(k)
  BY ValuesOf
<1>2. Frame(k) = [i \in DOMAIN w |-> [v |-> w[i], frame |-> k, pos |-> i]]
  BY DEF Frame
<1>3. k \in Nat
  BY MessagesAssumption
<1> HIDE DEF w
<1>4. DOMAIN w = 1..Len(w) /\ Len(w) \in Nat /\ \A i \in 1..Len(w) : w[i] \in Byte /\ i \in Nat
  BY <1>1
<1>5. \A i \in 1..Len(w) : [v |-> w[i], frame |-> k, pos |-> i] \in LineByte
  BY <1>3, <1>4 DEF LineByte
<1>6. Frame(k) = [i \in 1..Len(w) |-> [v |-> w[i], frame |-> k, pos |-> i]]
  BY <1>2, <1>4
<1>7. Frame(k) \in Seq(LineByte) /\ Len(Frame(k)) = Len(w)
  BY <1>4, <1>5, <1>6
<1>8. \A i \in 1..Len(w) : /\ Frame(k)[i].v = w[i]
                           /\ Frame(k)[i].frame = k /\ Frame(k)[i].pos = i
  BY <1>6
<1> QED BY <1>1, <1>7, <1>8 DEF w

-----------------------------------------------------------------------------
(* Reading a size. *)

\* The least element of a set of natural numbers.
LEMMA MinOfNats ==
  ASSUME NEW S \in SUBSET Nat, S # {}
  PROVE  Min(S) \in S /\ \A y \in S : Min(S) <= y
<1> DEFINE R == OpToRel(<, Nat)
<1>1. IsWellFoundedOn(R, Nat)
  BY NatLessThanWellFounded
<1>2. PICK x \in S : \A y \in S : <<y, x>> \notin R
  <2> HIDE DEF R
  <2> QED BY <1>1, WFMin
<1>3. \A y \in S : x <= y
  <2> SUFFICES ASSUME NEW y \in S, ~(x <= y) PROVE FALSE
    OBVIOUS
  <2>1. x \in Nat /\ y \in Nat /\ y < x
    OBVIOUS
  <2>2. <<y, x>> \in R
    BY <2>1 DEF OpToRel
  <2> QED BY <1>2, <2>2
<1> QED BY <1>2, <1>3 DEF Min

\* The bytes at which a varuint may end, its digits and its value.
Ends(bytes) == {i \in DOMAIN bytes : i <= 5 /\ bytes[i].v < Base}
Digit(bytes, n, i) == IF i <= n THEN bytes[i].v % Base ELSE 0
Number(bytes, n) ==
  Digit(bytes, n, 1) + Base * (Digit(bytes, n, 2) + Base * (Digit(bytes, n, 3)
    + Base * (Digit(bytes, n, 4) + Base * Digit(bytes, n, 5))))

\* ReadVaruint by its parts.
LEMMA ReadVaruintParts ==
  ASSUME NEW bytes
  PROVE  ReadVaruint(bytes) =
           IF Ends(bytes) # {} THEN <<Number(bytes, Min(Ends(bytes))) % Width, Min(Ends(bytes))>>
           ELSE IF Len(bytes) >= 5 THEN <<Width - 1, 5>> ELSE <<>>
BY DEF ReadVaruint, Ends, Number, Digit

\* A digit and what is left of the number make a natural number.
LEMMA HornerNat == \A b, x, y \in Nat : b * x \in Nat /\ x + b * y \in Nat
OBVIOUS

\* A size that could be read, and where its field ends.
LEMMA ReadVaruintType ==
  ASSUME NEW bytes \in Seq(LineByte), ReadVaruint(bytes) # <<>>
  PROVE  /\ ReadVaruint(bytes)[1] \in Nat
         /\ ReadVaruint(bytes)[2] \in 1..5 /\ ReadVaruint(bytes)[2] <= Len(bytes)
<1> DEFINE E == Ends(bytes)
           n == Min(E)
<1>1. Base \in Nat /\ Base > 0 /\ Width \in Nat /\ Width > 1
  BY BytesAssumption
<1>2. DOMAIN bytes = 1..Len(bytes) /\ Len(bytes) \in Nat
  OBVIOUS
<1>3. CASE E # {}
  <2>1. E \in SUBSET Nat
    BY <1>2 DEF Ends
  <2>2. n \in E
    BY <1>3, <2>1, MinOfNats
  <2>3. n \in 1..Len(bytes) /\ n <= 5
    BY <1>2, <2>2 DEF Ends
  <2> HIDE DEF E, n
  <2>4. \A i \in 1..5 : Digit(bytes, n, i) \in Nat
    <3> SUFFICES ASSUME NEW i \in 1..5 PROVE Digit(bytes, n, i) \in Nat
      OBVIOUS
    <3>1. CASE i <= n
      <4>1. i \in 1..Len(bytes)
        BY <1>2, <2>3, <3>1
      <4>2. bytes[i] \in LineByte
        BY <4>1
      <4>3. bytes[i].v \in Nat
        BY <1>1, <4>2 DEF LineByte, Byte
      <4> QED BY <1>1, <3>1, <4>3, DivisionWithRest DEF Digit
    <3>2. CASE ~(i <= n)
      BY <3>2 DEF Digit
    <3> QED BY <3>1, <3>2
  <2> DEFINE d(i) == Digit(bytes, n, i)
  <2>5. d(1) \in Nat /\ d(2) \in Nat /\ d(3) \in Nat /\ d(4) \in Nat /\ d(5) \in Nat
    BY <2>4
  <2>6. Number(bytes, n) = d(1) + Base * (d(2) + Base * (d(3) + Base * (d(4) + Base * d(5))))
    BY DEF Number
  <2> HIDE DEF d
  <2>7. d(4) + Base * d(5) \in Nat
    BY <1>1, <2>5, HornerNat
  <2>8. d(3) + Base * (d(4) + Base * d(5)) \in Nat
    BY <1>1, <2>5, <2>7, HornerNat
  <2>9. d(2) + Base * (d(3) + Base * (d(4) + Base * d(5))) \in Nat
    BY <1>1, <2>5, <2>8, HornerNat
  <2>10. d(1) + Base * (d(2) + Base * (d(3) + Base * (d(4) + Base * d(5)))) \in Nat
    BY <1>1, <2>5, <2>9, HornerNat
  <2>11. Number(bytes, n) \in Nat
    BY <2>6, <2>10
  <2>12. Number(bytes, n) % Width \in Nat
    BY <1>1, <2>11, DivisionWithRest
  <2>13. ReadVaruint(bytes) = <<Number(bytes, n) % Width, n>>
    BY <1>3, ReadVaruintParts DEF E, n
  <2> QED BY <1>2, <2>3, <2>12, <2>13
<1>4. CASE E = {}
  <2>1. Len(bytes) >= 5 /\ ReadVaruint(bytes) = <<Width - 1, 5>>
    BY <1>4, ReadVaruintParts
  <2> QED BY <1>1, <1>2, <2>1
<1> QED BY <1>3, <1>4

\* ReadVaruint undoes Varuint: what follows the ids of message k's frame
\* gives the size of its payload and the bytes of its size field.
LEMMA ReadSize ==
  ASSUME NEW bytes \in Seq(LineByte), NEW k \in DOMAIN Messages,
         Len(bytes) >= FieldOf(k),
         \A i \in 1..FieldOf(k) : bytes[i].v = Varuint(SizeOf(k))[i]
  PROVE  ReadVaruint(bytes) = <<SizeOf(k), FieldOf(k)>>
<1> DEFINE E == Ends(bytes)
           n == SizeOf(k)
           f == FieldOf(k)
<1>1. Base \in Nat /\ Base > 0 /\ Width \in Nat /\ Width > 1
  BY BytesAssumption
<1>2. DOMAIN bytes = 1..Len(bytes) /\ Len(bytes) \in Nat
  OBVIOUS
<1>3. n \in Nat /\ n < Base * Base /\ n < Width
  BY MessageType
<1>4. f \in 1..2 /\ Len(bytes) >= f
  BY DEF FieldOf
<1>5. E \in SUBSET Nat
  BY <1>2 DEF Ends
<1>6. f \in E /\ Number(bytes, f) = n /\ \A y \in E : f <= y
  <2>1. CASE n < Base
    <3>1. f = 1
      BY <2>1 DEF FieldOf
    <3>2. bytes[1].v = n
      BY <2>1, <3>1, VaruintBytes
    <3>3. 1 \in E
      BY <1>1, <1>2, <1>4, <2>1, <3>1, <3>2 DEF Ends
    <3>4. n % Base = n
      BY <1>1, <1>3, <2>1, SmallRest
    <3>5. /\ Digit(bytes, 1, 1) = n /\ Digit(bytes, 1, 2) = 0 /\ Digit(bytes, 1, 3) = 0
          /\ Digit(bytes, 1, 4) = 0 /\ Digit(bytes, 1, 5) = 0
      BY <3>2, <3>4 DEF Digit
    <3>6. Base * 0 = 0 /\ 0 + 0 = 0 /\ n + 0 = n
      BY <1>1, <1>3
    <3>7. Number(bytes, 1) = n
      BY <3>5, <3>6 DEF Number
    <3>8. \A y \in E : 1 <= y
      BY <1>2 DEF Ends
    <3> QED BY <3>1, <3>3, <3>7, <3>8
  <2>2. CASE n >= Base
    <3>1. f = 2
      BY <1>1, <1>3, <2>2 DEF FieldOf
    <3>2. bytes[1].v = Base + (n % Base) /\ bytes[2].v = n \div Base
      BY <2>2, <3>1, VaruintBytes
    <3>3. n % Base \in 0..(Base - 1) /\ n \div Base \in Nat /\ n = (n % Base) + Base * (n \div Base)
      BY <1>1, <1>3, DivisionWithRest
    <3>4. n \div Base < Base
      BY <1>1, <1>3, QuotientSmall
    <3> DEFINE q == n \div Base
               d == n % Base
    <3>13. /\ q \in Nat /\ q < Base /\ d \in Nat /\ d < Base
           /\ bytes[1].v = Base + d /\ bytes[2].v = q /\ 2 \in DOMAIN bytes
      BY <1>1, <1>2, <1>4, <3>1, <3>2, <3>3, <3>4
    <3> HIDE DEF q, d
    <3>5. 2 \in E
      BY <3>13 DEF Ends
    <3>6. 1 \notin E
      BY <1>1, <3>13 DEF Ends
    <3>7. \A y \in E : 2 <= y
      <4> SUFFICES ASSUME NEW y \in E PROVE 2 <= y
        OBVIOUS
      <4>1. y \in 1..Len(bytes)
        BY <1>2 DEF Ends
      <4>2. y # 1
        BY <3>6
      <4> QED BY <4>1, <4>2
    <3>8. (Base + (n % Base)) % Base = n % Base
      <4>1. n % Base \in Nat /\ n % Base < Base
        BY <1>1, <3>3
      <4> QED BY <1>1, <4>1, RestAboveBase
    <3>9. (n \div Base) % Base = n \div Base
      BY <1>1, <3>3, <3>4, SmallRest
    <3>10. /\ Digit(bytes, 2, 1) = n % Base /\ Digit(bytes, 2, 2) = n \div Base
           /\ Digit(bytes, 2, 3) = 0 /\ Digit(bytes, 2, 4) = 0 /\ Digit(bytes, 2, 5) = 0
      BY <3>2, <3>8, <3>9 DEF Digit
    <3>11. Base * 0 = 0 /\ 0 + 0 = 0 /\ q + 0 = q
      BY <1>1, <3>13
    <3>12. Number(bytes, 2) = n
      BY <3>3, <3>10, <3>11 DEF Number, q
    <3> QED BY <3>1, <3>5, <3>7, <3>12
  <2> QED BY <1>1, <1>3, <2>1, <2>2
<1>7. Min(E) = f
  <2>1. E # {}
    BY <1>6
  <2> HIDE DEF E, f
  <2>2. Min(E) \in E /\ \A y \in E : Min(E) <= y
    BY <1>5, <2>1, MinOfNats
  <2>3. Min(E) \in Nat
    BY <1>5, <2>2
  <2>4. f \in Nat
    BY <1>4
  <2> QED BY <1>6, <2>2, <2>3, <2>4
<1>8. n % Width = n
  BY <1>1, <1>3, SmallRest
<1> QED BY <1>6, <1>7, <1>8, ReadVaruintParts

-----------------------------------------------------------------------------
(* The buffer without its first bytes. *)

\* Consume, byte by byte.
LEMMA ConsumeBytes ==
  ASSUME NEW S, NEW s \in Seq(S), NEW m \in 0..Len(s)
  PROVE  /\ Consume(s, m) \in Seq(S) /\ Len(Consume(s, m)) = Len(s) - m
         /\ \A i \in 1..(Len(s) - m) : Consume(s, m)[i] = s[m + i]
<1> DEFINE c == SubSeq(s, m + 1, Len(s))
<1>1. m \in Nat /\ m <= Len(s) /\ Len(s) \in Nat
  OBVIOUS
<1>2. c \in Seq(S)
  BY <1>1
<1>3. Len(c) = Len(s) - m
  BY <1>1
<1>4. ASSUME NEW i \in 1..(Len(s) - m) PROVE c[i] = s[m + i]
  BY <1>1
<1> QED BY <1>2, <1>3, <1>4 DEF Consume

\* Nothing consumed.
LEMMA ConsumeNone ==
  ASSUME NEW S, NEW s \in Seq(S)
  PROVE  Consume(s, 0) = s
<1>1. Consume(s, 0) \in Seq(S) /\ Len(Consume(s, 0)) = Len(s) - 0
      /\ \A i \in 1..(Len(s) - 0) : Consume(s, 0)[i] = s[0 + i]
  BY ConsumeBytes
<1>2. Len(s) \in Nat
  OBVIOUS
<1>3. Len(Consume(s, 0)) = Len(s) /\ \A i \in 1..Len(s) : Consume(s, 0)[i] = s[i]
  BY <1>1, <1>2
<1> QED BY <1>1, <1>3, SeqEqual

\* All of it consumed.
LEMMA ConsumeAll ==
  ASSUME NEW S, NEW s \in Seq(S)
  PROVE  Consume(s, Len(s)) = <<>>
<1>1. Len(s) \in Nat /\ Len(s) \in 0..Len(s)
  OBVIOUS
<1>2. Consume(s, Len(s)) \in Seq(S) /\ Len(Consume(s, Len(s))) = Len(s) - Len(s)
  BY <1>1, ConsumeBytes
<1>3. Len(s) - Len(s) = 0
  BY <1>1
<1> QED BY <1>2, <1>3

\* Some consumed after some.
LEMMA ConsumeTwice ==
  ASSUME NEW S, NEW s \in Seq(S), NEW m \in 0..Len(s), NEW n \in 0..(Len(s) - m)
  PROVE  Consume(Consume(s, m), n) = Consume(s, m + n)
<1> DEFINE c == Consume(s, m)
           d == Consume(c, n)
           e == Consume(s, m + n)
<1>1. Len(s) \in Nat /\ m \in Nat /\ n \in Nat /\ m + n \in 0..Len(s)
  OBVIOUS
<1>2. /\ c \in Seq(S) /\ Len(c) = Len(s) - m
      /\ \A i \in 1..(Len(s) - m) : c[i] = s[m + i]
  BY ConsumeBytes
<1>3. n \in 0..Len(c)
  BY <1>2
<1> HIDE DEF c
<1>4. /\ d \in Seq(S) /\ Len(d) = Len(c) - n
      /\ \A i \in 1..(Len(c) - n) : d[i] = c[n + i]
  <2>1. c \in Seq(S) /\ n \in 0..Len(c)
    BY <1>2, <1>3
  <2> QED BY <2>1, ConsumeBytes, Zenon
<1>5. /\ e \in Seq(S) /\ Len(e) = Len(s) - (m + n)
      /\ \A i \in 1..(Len(s) - (m + n)) : e[i] = s[(m + n) + i]
  BY <1>1, ConsumeBytes
<1> HIDE DEF d, e
<1>6. Len(d) = Len(e)
  BY <1>1, <1>2, <1>4, <1>5
<1>7. ASSUME NEW i \in 1..Len(d) PROVE d[i] = e[i]
  <2>1. /\ i \in 1..(Len(c) - n) /\ n + i \in 1..(Len(s) - m) /\ i \in 1..(Len(s) - (m + n))
        /\ m + (n + i) = (m + n) + i
    BY <1>1, <1>2, <1>4
  <2> QED BY <1>2, <1>4, <1>5, <2>1
<1> QED BY <1>4, <1>5, <1>6, <1>7, SeqEqual DEF c, d, e

-----------------------------------------------------------------------------
(* What TryEmitOneFrame makes of the buffer. *)

\* What the owner is given for message k.
Written(k) == IF SizeOf(k) < UserSize THEN SizeOf(k) ELSE UserSize
Given(k) ==
  [source |-> Messages[k].source, dest |-> Messages[k].dest, size |-> SizeOf(k),
   data |-> SubSeq(Messages[k].payload, 1, Written(k)),
   ec |-> IF SizeOf(k) > Written(k) THEN "kPayloadTruncated" ELSE "ok",
   frame |-> k]

\* The bytes begin with n of the bytes of message k's frame.
Begins(bytes, k, n) == \A i \in 1..n : bytes[i] = Frame(k)[i]

\* A whole frame tells the owner what its message is due.
LEMMA EmittedIsGiven ==
  ASSUME NEW bytes \in Seq(LineByte), NEW k \in DOMAIN Messages,
         Len(bytes) >= Len(Frame(k)), Begins(bytes, k, Len(Frame(k)))
  PROVE  Emitted(bytes, FieldOf(k), SizeOf(k)) = Given(k)
<1> DEFINE n == FieldOf(k)
           z == SizeOf(k)
           w == Written(k)
           p == Messages[k].payload
           V == Values(Messages[k])
<1>1. /\ n \in 1..2 /\ z \in Nat /\ w \in Nat /\ w <= z /\ UserSize \in Nat
      /\ p \in Seq(Byte) /\ Len(p) = z
  BY MessageType, BufferAssumption DEF FieldOf, Written, SizeOf
<1>2. \A i \in 1..(6 + n + z) : bytes[i].v = V[i] /\ bytes[i].frame = k
  BY FrameOfMessage DEF Begins
<1>3. /\ V[3] = Messages[k].source /\ V[4] = Messages[k].dest
      /\ \A i \in 1..z : V[4 + n + i] = p[i]
  BY ValuesOf
<1> HIDE DEF n, z, w, p, V
<1>4. 1 \in 1..(6 + n + z) /\ 3 \in 1..(6 + n + z) /\ 4 \in 1..(6 + n + z)
  BY <1>1
<1>5. /\ bytes[3].v = Messages[k].source /\ bytes[4].v = Messages[k].dest
      /\ bytes[1].frame = k
  BY <1>2, <1>3, <1>4
<1>6. [i \in 1..w |-> bytes[4 + n + i].v] = SubSeq(p, 1, w)
  <2>1. ASSUME NEW i \in 1..w PROVE bytes[4 + n + i].v = p[i]
    <3>1. i \in 1..z /\ 4 + n + i \in 1..(6 + n + z)
      BY <1>1
    <3> QED BY <1>2, <1>3, <3>1
  <2>2. SubSeq(p, 1, w) = [i \in 1..w |-> p[i]]
    BY <1>1
  <2> QED BY <2>1, <2>2
<1>7. Written(k) = (IF z < UserSize THEN z ELSE UserSize)
  BY DEF Written, z
<1> QED BY <1>5, <1>6, <1>7 DEF Emitted, Given, n, z, w, p

\* The first bytes of the frame tell its size.
LEMMA SizeOfFrame ==
  ASSUME NEW bytes \in Seq(LineByte), NEW k \in DOMAIN Messages,
         Len(bytes) >= 7, NEW n \in Nat, n >= 4 + FieldOf(k), n <= Len(Frame(k)),
         Begins(bytes, k, n), 4 + FieldOf(k) <= Len(bytes)
  PROVE  ReadVaruint(Consume(bytes, 4)) = <<SizeOf(k), FieldOf(k)>>
<1> DEFINE c == Consume(bytes, 4)
           f == FieldOf(k)
<1>1. f \in 1..2 /\ Len(bytes) \in Nat
  BY DEF FieldOf
<1>2. 4 \in 0..Len(bytes)
  BY <1>1
<1>3. /\ c \in Seq(LineByte) /\ Len(c) = Len(bytes) - 4
      /\ \A i \in 1..(Len(bytes) - 4) : c[i] = bytes[4 + i]
  BY <1>2, ConsumeBytes
<1>4. Len(c) >= f
  BY <1>1, <1>3
<1>5. ASSUME NEW i \in 1..f PROVE c[i].v = Varuint(SizeOf(k))[i]
  <2>1. i \in 1..(Len(bytes) - 4) /\ 4 + i \in 1..n
    BY <1>1
  <2>2. Len(Frame(k)) \in Nat
    BY FrameOfMessage
  <2>3. 4 + i \in 1..Len(Frame(k))
    BY <2>1, <2>2
  <2>4. c[i] = Frame(k)[4 + i]
    BY <1>3, <2>1 DEF Begins
  <2>5. Frame(k)[4 + i].v = Values(Messages[k])[4 + i]
    BY <2>3, FrameOfMessage
  <2>6. Values(Messages[k])[4 + i] = Varuint(SizeOf(k))[i]
    BY ValuesOf
  <2> QED BY <2>4, <2>5, <2>6
<1> HIDE DEF c
<1> QED BY <1>3, <1>4, <1>5, ReadSize DEF c

\* TryFrame keeps the bytes or consumes some of them, and emits only what a
\* message of the peer is due, whose frame it then consumes.
LEMMA TryFrameResult ==
  ASSUME NEW bytes \in Seq(LineByte), Len(bytes) >= 2,
         \A i \in 1..Len(bytes) : bytes[i].frame \in 0..Len(Messages)
  PROVE  \E m \in 0..Len(bytes) :
           /\ TryFrame(bytes).buffer = Consume(bytes, m)
           /\ TryFrame(bytes).bad \in {0, 1}
           /\ TryFrame(bytes).ret \in BOOLEAN
           /\ \/ TryFrame(bytes).emit = <<>>
              \/ \E k \in DOMAIN Messages :
                   /\ m = Len(Frame(k)) /\ Begins(bytes, k, m)
                   /\ TryFrame(bytes).emit = <<Given(k)>>
<1> DEFINE size == ReadVaruint(Consume(bytes, 4))
           length == FrameLength(size)
           r == TryFrame(bytes)
           Goal == \E m \in 0..Len(bytes) :
             /\ r.buffer = Consume(bytes, m)
             /\ r.bad \in {0, 1}
             /\ r.ret \in BOOLEAN
             /\ \/ r.emit = <<>>
                \/ \E k \in DOMAIN Messages :
                     m = Len(Frame(k)) /\ Begins(bytes, k, m) /\ r.emit = <<Given(k)>>
<1>1. /\ Len(bytes) \in Nat /\ 0 \in 0..Len(bytes) /\ Len(bytes) \in 0..Len(bytes)
      /\ 2 \in 0..Len(bytes)
      /\ Consume(bytes, 0) = bytes /\ Consume(bytes, Len(bytes)) = <<>>
  BY ConsumeNone, ConsumeAll
<1>2. ASSUME r = Waits(bytes) PROVE Goal
  <2>1. r.buffer = bytes /\ r.bad = 0 /\ r.ret = FALSE /\ r.emit = <<>>
    BY <1>2 DEF Waits
  <2> HIDE DEF r
  <2> QED BY <1>1, <2>1
<1>3. ASSUME r = Waits(<<>>) PROVE Goal
  <2>1. r.buffer = <<>> /\ r.bad = 0 /\ r.ret = FALSE /\ r.emit = <<>>
    BY <1>3 DEF Waits
  <2> HIDE DEF r
  <2> QED BY <1>1, <2>1
<1>4. ASSUME r = [Waits(Consume(bytes, 2)) EXCEPT !.bad = 1] PROVE Goal
  <2>1. r.buffer = Consume(bytes, 2) /\ r.bad = 1 /\ r.ret = FALSE /\ r.emit = <<>>
    BY <1>4 DEF Waits
  <2> HIDE DEF r
  <2> QED BY <1>1, <2>1
<1>5. ASSUME Len(bytes) >= 7, size # <<>>, ~(Len(bytes) < length),
             CrcMatches(SubSeq(bytes, 1, length)),
             r = [ret |-> TRUE, buffer |-> Consume(bytes, length),
                  emit |-> <<Emitted(bytes, size[2], size[1])>>, bad |-> 0]
      PROVE  Goal
  <2> DEFINE k == bytes[1].frame
             f == SubSeq(bytes, 1, length)
  <2>1. Consume(bytes, 4) \in Seq(LineByte)
    BY <1>1, <1>5, ConsumeBytes
  <2>2. size[1] \in Nat /\ size[2] \in 1..5
    BY <1>5, <2>1, ReadVaruintType
  <2>3. length \in Nat /\ length >= 7 /\ length <= Len(bytes)
    <3> DEFINE x == size[1]
               y == size[2]
    <3>1. length = 4 + y + x + 2
      BY DEF FrameLength
    <3>2. ~(Len(bytes) < length)
      BY <1>5
    <3> HIDE DEF x, y, length
    <3>3. x \in Nat /\ y \in 1..5
      BY <2>2 DEF x, y
    <3> QED BY <1>1, <3>1, <3>2, <3>3
  <2> HIDE DEF size, length
  <2>4. /\ f \in Seq(LineByte) /\ Len(f) = length
        /\ \A i \in 1..length : f[i] = bytes[i]
    BY <2>3
  <2>5. f[1] = bytes[1]
    BY <2>3, <2>4
  <2>6. k # 0 /\ f = Frame(k)
    BY <1>5, <2>5 DEF CrcMatches
  <2>7. k \in DOMAIN Messages
    <3>1. k \in 0..Len(Messages)
      BY <1>5, <1>1
    <3>2. DOMAIN Messages = 1..Len(Messages) /\ Len(Messages) \in Nat
      BY MessagesAssumption
    <3> QED BY <2>6, <3>1, <3>2
  <2> HIDE DEF k, f
  <2>8. Len(Frame(k)) = length /\ Begins(bytes, k, Len(Frame(k)))
    BY <2>4, <2>6 DEF Begins
  <2>9. Len(Frame(k)) = 6 + FieldOf(k) + SizeOf(k) /\ FieldOf(k) \in 1..2 /\ SizeOf(k) \in Nat
    BY <2>7, FrameOfMessage, MessageType DEF FieldOf
  <2>10. 4 + FieldOf(k) <= length
    BY <2>8, <2>9
  <2>11. size = <<SizeOf(k), FieldOf(k)>>
    <3>1. Len(Frame(k)) \in Nat /\ Len(Frame(k)) >= 4 + FieldOf(k) /\ 4 + FieldOf(k) <= Len(bytes)
      BY <1>1, <2>3, <2>8, <2>9, <2>10
    <3> QED BY <1>5, <2>7, <2>8, <3>1, SizeOfFrame DEF size
  <2>12. Emitted(bytes, size[2], size[1]) = Given(k)
    <3>1. Len(bytes) >= Len(Frame(k))
      BY <1>1, <2>3, <2>8
    <3>2. size[1] = SizeOf(k) /\ size[2] = FieldOf(k)
      BY <2>11
    <3> QED BY <2>7, <2>8, <3>1, <3>2, EmittedIsGiven
  <2>13. length \in 0..Len(bytes)
    BY <1>1, <2>3
  <2>14. r.buffer = Consume(bytes, length) /\ r.bad = 0 /\ r.ret = TRUE /\ r.emit = <<Given(k)>>
    BY <1>5, <2>12
  <2> HIDE DEF r
  <2> QED BY <2>7, <2>8, <2>13, <2>14
<1>6. \/ r = Waits(bytes) \/ r = Waits(<<>>)
      \/ r = [Waits(Consume(bytes, 2)) EXCEPT !.bad = 1]
      \/ /\ Len(bytes) >= 7 /\ size # <<>> /\ ~(Len(bytes) < length)
         /\ CrcMatches(SubSeq(bytes, 1, length))
         /\ r = [ret |-> TRUE, buffer |-> Consume(bytes, length),
                 emit |-> <<Emitted(bytes, size[2], size[1])>>, bad |-> 0]
  BY <1>1 DEF TryFrame
<1> QED BY <1>2, <1>3, <1>4, <1>5, <1>6

\* The last byte of the frame of message k.
LastByte(k) == Frame(k)[Len(Frame(k))]

\* TryEmitOneFrame consumes some of the bytes, and emits only what a message
\* of the peer is due; the last byte it consumes is then that of its frame.
LEMMA TryEmitResult ==
  ASSUME NEW bytes \in Seq(LineByte),
         \A i \in 1..Len(bytes) : bytes[i].frame \in 0..Len(Messages)
  PROVE  \E m \in 0..Len(bytes) :
           /\ TryEmitOneFrame(bytes).buffer = Consume(bytes, m)
           /\ TryEmitOneFrame(bytes).bad \in {0, 1}
           /\ TryEmitOneFrame(bytes).ret \in BOOLEAN
           /\ \/ TryEmitOneFrame(bytes).emit = <<>>
              \/ \E k \in DOMAIN Messages :
                   /\ m >= 1 /\ bytes[m] = LastByte(k)
                   /\ TryEmitOneFrame(bytes).emit = <<Given(k)>>
<1> DEFINE starts == {i \in DOMAIN bytes : bytes[i].v = Low}
           n == Min(starts) - 1
           rest == Consume(bytes, n)
           r == TryEmitOneFrame(bytes)
           Goal == \E m \in 0..Len(bytes) :
             /\ r.buffer = Consume(bytes, m)
             /\ r.bad \in {0, 1}
             /\ r.ret \in BOOLEAN
             /\ \/ r.emit = <<>>
                \/ \E k \in DOMAIN Messages :
                     m >= 1 /\ bytes[m] = LastByte(k) /\ r.emit = <<Given(k)>>
<1>1. /\ Len(bytes) \in Nat /\ Len(bytes) \in 0..Len(bytes) /\ DOMAIN bytes = 1..Len(bytes)
      /\ Consume(bytes, Len(bytes)) = <<>>
  BY ConsumeAll
<1>2. ASSUME starts = {} PROVE Goal
  <2>1. r = Waits(<<>>)
    BY <1>2 DEF TryEmitOneFrame
  <2>2. r.buffer = <<>> /\ r.bad = 0 /\ r.ret = FALSE /\ r.emit = <<>>
    BY <2>1 DEF Waits
  <2> HIDE DEF r
  <2> QED BY <1>1, <2>2
<1>3. ASSUME starts # {} PROVE Goal
  <2>1. starts \in SUBSET Nat
    BY <1>1
  <2>2. Min(starts) \in starts
    BY <1>3, <2>1, MinOfNats
  <2>3. n \in Nat /\ n \in 0..Len(bytes) /\ n < Len(bytes)
    BY <1>1, <2>2
  <2>4. r = (IF Len(rest) < 2 THEN Waits(rest)
             ELSE IF rest[2].v # High THEN [Waits(Consume(rest, 2)) EXCEPT !.ret = TRUE]
             ELSE TryFrame(rest))
    BY <1>3 DEF TryEmitOneFrame
  <2> HIDE DEF n, starts
  <2>5. /\ rest \in Seq(LineByte) /\ Len(rest) = Len(bytes) - n
        /\ \A i \in 1..(Len(bytes) - n) : rest[i] = bytes[n + i]
    BY <2>3, ConsumeBytes
  <2>6. ASSUME Len(rest) < 2 PROVE Goal
    <3>1. r.buffer = rest /\ r.bad = 0 /\ r.ret = FALSE /\ r.emit = <<>>
      BY <2>4, <2>6 DEF Waits
    <3> HIDE DEF r
    <3> QED BY <2>3, <3>1
  <2>7. ASSUME ~(Len(rest) < 2) /\ rest[2].v # High PROVE Goal
    <3>1. r.buffer = Consume(rest, 2) /\ r.bad = 0 /\ r.ret = TRUE /\ r.emit = <<>>
      BY <2>4, <2>7 DEF Waits
    <3>2. 2 \in 0..(Len(bytes) - n) /\ n + 2 \in 0..Len(bytes)
      BY <1>1, <2>3, <2>5, <2>7
    <3>3. Consume(rest, 2) = Consume(bytes, n + 2)
      BY <2>3, <3>2, ConsumeTwice
    <3> HIDE DEF r
    <3> QED BY <3>1, <3>2, <3>3
  <2>8. ASSUME ~(Len(rest) < 2) /\ rest[2].v = High PROVE Goal
    <3>1. r = TryFrame(rest)
      BY <2>4, <2>8
    <3> HIDE DEF r, rest
    <3>2. ASSUME NEW i \in 1..Len(rest) PROVE rest[i].frame \in 0..Len(Messages)
      <4>1. i \in 1..(Len(bytes) - n) /\ n + i \in 1..Len(bytes)
        BY <1>1, <2>3, <2>5
      <4> QED BY <2>5, <4>1
    <3>3. Len(rest) \in Nat /\ Len(rest) >= 2
      BY <2>5, <2>8
    <3>4. PICK m \in 0..Len(rest) :
             /\ r.buffer = Consume(rest, m) /\ r.bad \in {0, 1} /\ r.ret \in BOOLEAN
             /\ \/ r.emit = <<>>
                \/ \E k \in DOMAIN Messages :
                     /\ m = Len(Frame(k)) /\ Begins(rest, k, m)
                     /\ r.emit = <<Given(k)>>
      <4>1. \E m \in 0..Len(rest) :
             /\ TryFrame(rest).buffer = Consume(rest, m)
             /\ TryFrame(rest).bad \in {0, 1}
             /\ TryFrame(rest).ret \in BOOLEAN
             /\ \/ TryFrame(rest).emit = <<>>
                \/ \E k \in DOMAIN Messages :
                     /\ m = Len(Frame(k)) /\ Begins(rest, k, m)
                     /\ TryFrame(rest).emit = <<Given(k)>>
        BY <2>5, <3>2, <3>3, TryFrameResult
      <4> QED BY <3>1, <4>1
    <3>5. m \in Nat /\ m \in 0..(Len(bytes) - n) /\ n + m \in 0..Len(bytes)
      BY <1>1, <2>3, <2>5, <3>3
    <3>6. Consume(rest, m) = Consume(bytes, n + m)
      BY <2>3, <3>5, ConsumeTwice DEF rest
    <3>7. ASSUME NEW k \in DOMAIN Messages, m = Len(Frame(k)), Begins(rest, k, m),
                 r.emit = <<Given(k)>>
          PROVE  n + m >= 1 /\ bytes[n + m] = LastByte(k)
      <4>1. m >= 1
        BY <3>5, <3>7, FrameOfMessage, MessageType DEF FieldOf
      <4>2. m \in 1..m /\ m \in 1..(Len(bytes) - n) /\ n + m >= 1
        BY <2>3, <3>5, <4>1
      <4>3. rest[m] = Frame(k)[m] /\ rest[m] = bytes[n + m]
        BY <2>5, <3>7, <4>2 DEF Begins
      <4> QED BY <3>7, <4>2, <4>3 DEF LastByte
    <3> QED BY <3>4, <3>5, <3>6, <3>7
  <2> QED BY <2>6, <2>7, <2>8
<1> QED BY <1>2, <1>3

\* A message that the receiver's buffer can hold.
Fits(k) == Len(Frame(k)) <= BufferSize /\ SizeOf(k) <= 4096

\* A buffer that begins with the frame of a message that fits, or with as
\* much of it as has come, is kept until all of it is there, and then the
\* owner is given the message: what is inside a frame starts no other.
LEMMA TryEmitAligned ==
  ASSUME NEW bytes \in Seq(LineByte), NEW k \in DOMAIN Messages, Fits(k),
         \A i \in 1..Len(bytes) : i <= Len(Frame(k)) => bytes[i] = Frame(k)[i]
  PROVE  /\ Len(bytes) < Len(Frame(k)) => TryEmitOneFrame(bytes) = Waits(bytes)
         /\ Len(bytes) >= Len(Frame(k)) =>
              TryEmitOneFrame(bytes) =
                [ret |-> TRUE, buffer |-> Consume(bytes, Len(Frame(k))),
                 emit |-> <<Given(k)>>, bad |-> 0]
<1> DEFINE starts == {i \in DOMAIN bytes : bytes[i].v = Low}
           n == Min(starts) - 1
           rest == Consume(bytes, n)
           r == TryEmitOneFrame(bytes)
           L == Len(Frame(k))
<1>1. Len(bytes) \in Nat /\ DOMAIN bytes = 1..Len(bytes)
  OBVIOUS
<1>2. /\ Frame(k) \in Seq(LineByte) /\ L = 6 + FieldOf(k) + SizeOf(k)
      /\ \A i \in 1..L : Frame(k)[i].v = Values(Messages[k])[i] /\ Frame(k)[i].frame = k
      /\ FieldOf(k) \in 1..2 /\ SizeOf(k) \in Nat /\ L \in Nat
  BY FrameOfMessage, MessageType DEF FieldOf
<1>3. L >= 7 /\ SizeOf(k) <= BufferSize - 7 /\ SizeOf(k) <= 4096 /\ L <= BufferSize
  BY <1>2, BufferAssumption DEF Fits
<1>4. Values(Messages[k])[1] = Low /\ Values(Messages[k])[2] = High
  BY ValuesOf
<1> HIDE DEF L
<1>5. \A i \in 1..Len(bytes) : i <= L => bytes[i] = Frame(k)[i]
  BY DEF L
<1>6. CASE bytes = <<>>
  <2>1. starts = {} /\ Len(bytes) = 0
    BY <1>6
  <2>2. r = Waits(bytes)
    BY <1>6, <2>1 DEF TryEmitOneFrame
  <2> QED BY <1>2, <1>3, <2>1, <2>2 DEF L
<1>7. CASE bytes # <<>>
  <2>1. Len(bytes) >= 1
    BY <1>1, <1>7
  <2>2. bytes[1].v = Low
    <3>1. 1 \in 1..Len(bytes) /\ 1 \in 1..L
      BY <1>1, <1>2, <1>3, <2>1
    <3>2. bytes[1] = Frame(k)[1]
      BY <1>3, <1>5, <3>1
    <3> QED BY <1>2, <1>4, <3>1, <3>2
  <2>3. 1 \in starts /\ starts \in SUBSET Nat
    BY <1>1, <2>1, <2>2
  <2>4. \A y \in starts : 1 <= y
    BY <1>1
  <2>5. n = 0
    <3> HIDE DEF starts
    <3>1. Min(starts) \in starts /\ Min(starts) <= 1
      BY <2>3, MinOfNats
    <3>2. Min(starts) \in Nat /\ 1 <= Min(starts)
      BY <2>3, <2>4, <3>1
    <3> QED BY <3>1, <3>2
  <2>6. rest = bytes
    <3> HIDE DEF n
    <3> QED BY <2>5, ConsumeNone
  <2>7. starts # {}
    BY <2>3
  <2>8. r = (IF Len(bytes) < 2 THEN Waits(bytes)
             ELSE IF bytes[2].v # High THEN [Waits(Consume(bytes, 2)) EXCEPT !.ret = TRUE]
             ELSE TryFrame(bytes))
    BY <2>6, <2>7 DEF TryEmitOneFrame
  <2> HIDE DEF starts, n, rest, r
  <2>9. CASE Len(bytes) < 2
    BY <1>1, <1>2, <1>3, <2>8, <2>9 DEF r, L
  <2>10. CASE ~(Len(bytes) < 2)
    <3>1. bytes[2].v = High
      <4>1. 2 \in 1..Len(bytes) /\ 2 \in 1..L
        BY <1>1, <1>2, <1>3, <2>10
      <4>2. bytes[2] = Frame(k)[2]
        BY <1>3, <1>5, <4>1
      <4> QED BY <1>2, <1>4, <4>1, <4>2
    <3>2. r = TryFrame(bytes)
      BY <2>8, <2>10, <3>1
    <3>3. CASE Len(bytes) < 7
      <4>1. r = Waits(bytes)
        BY <3>2, <3>3 DEF TryFrame
      <4> QED BY <1>1, <1>2, <1>3, <3>3, <4>1 DEF r, L
    <3>4. CASE ~(Len(bytes) < 7)
      <4> DEFINE size == ReadVaruint(Consume(bytes, 4))
                 f == SubSeq(bytes, 1, L)
      <4>1. size = <<SizeOf(k), FieldOf(k)>>
        <5>1. Begins(bytes, k, 4 + FieldOf(k))
          <6> SUFFICES ASSUME NEW i \in 1..(4 + FieldOf(k)) PROVE bytes[i] = Frame(k)[i]
            BY DEF Begins
          <6>1. i \in 1..Len(bytes) /\ i <= L
            BY <1>1, <1>2, <3>4
          <6> QED BY <1>5, <6>1
        <5>2. /\ 4 + FieldOf(k) \in Nat /\ 4 + FieldOf(k) >= 4 + FieldOf(k)
              /\ 4 + FieldOf(k) <= Len(Frame(k)) /\ 4 + FieldOf(k) <= Len(bytes)
              /\ Len(bytes) >= 7
          BY <1>1, <1>2, <3>4 DEF L
        <5> QED BY <5>1, <5>2, SizeOfFrame
      <4>2. /\ size # <<>> /\ size[1] = SizeOf(k) /\ size[2] = FieldOf(k)
            /\ FrameLength(size) = 4 + FieldOf(k) + SizeOf(k) + 2
        BY <4>1 DEF FrameLength
      <4> HIDE DEF size
      <4>3. FrameLength(size) = L
        BY <1>2, <4>2
      <4>4. ~(size[1] > 4096 \/ size[1] > BufferSize - 7)
        BY <1>2, <1>3, <4>2, BufferAssumption, SMTT(20)
      <4>5. r = (IF Len(bytes) < L THEN Waits(bytes)
                 ELSE IF ~CrcMatches(f) THEN [Waits(Consume(bytes, 2)) EXCEPT !.bad = 1]
                 ELSE [ret |-> TRUE, buffer |-> Consume(bytes, L),
                       emit |-> <<Emitted(bytes, size[2], size[1])>>, bad |-> 0])
        <5>1. r = (IF size = <<>> THEN Waits(bytes)
                   ELSE IF size[1] > 4096 \/ size[1] > BufferSize - 7 THEN Waits(<<>>)
                   ELSE IF Len(bytes) < FrameLength(size) THEN Waits(bytes)
                   ELSE IF ~CrcMatches(SubSeq(bytes, 1, FrameLength(size)))
                   THEN [Waits(Consume(bytes, 2)) EXCEPT !.bad = 1]
                   ELSE [ret |-> TRUE, buffer |-> Consume(bytes, FrameLength(size)),
                         emit |-> <<Emitted(bytes, size[2], size[1])>>, bad |-> 0])
          BY <3>2, <3>4, Zenon DEF TryFrame, size
        <5>2. size # <<>>
          BY <4>2
        <5>3. r = (IF Len(bytes) < FrameLength(size) THEN Waits(bytes)
                   ELSE IF ~CrcMatches(SubSeq(bytes, 1, FrameLength(size)))
                   THEN [Waits(Consume(bytes, 2)) EXCEPT !.bad = 1]
                   ELSE [ret |-> TRUE, buffer |-> Consume(bytes, FrameLength(size)),
                         emit |-> <<Emitted(bytes, size[2], size[1])>>, bad |-> 0])
          BY <4>4, <5>1, <5>2
        <5> QED BY <4>3, <5>3, Zenon
      <4>6. CASE Len(bytes) < L
        <5>1. r = Waits(bytes)
          BY <4>5, <4>6
        <5> QED BY <1>1, <1>2, <4>6, <5>1 DEF r, L
      <4>7. CASE ~(Len(bytes) < L)
        <5>1. L <= Len(bytes) /\ L \in Nat
          BY <1>1, <1>2, <4>7
        <5>2. f \in Seq(LineByte) /\ Len(f) = L /\ \A i \in 1..L : f[i] = bytes[i]
          BY <1>1, <5>1
        <5>3. \A i \in 1..L : bytes[i] = Frame(k)[i]
          <6> SUFFICES ASSUME NEW i \in 1..L PROVE bytes[i] = Frame(k)[i]
            OBVIOUS
          <6>1. i \in 1..Len(bytes) /\ i <= L
            BY <1>1, <5>1
          <6> QED BY <1>5, <6>1
        <5> HIDE DEF f
        <5>4. f = Frame(k)
          <6>1. Len(f) = Len(Frame(k)) /\ \A i \in 1..Len(f) : f[i] = Frame(k)[i]
            BY <5>2, <5>3 DEF L
          <6> QED BY <1>2, <5>2, <6>1, SeqEqual
        <5>5. f[1].frame = k
          <6>1. 1 \in 1..L
            BY <1>3, <5>1
          <6> QED BY <1>2, <5>4, <6>1
        <5>6. k # 0
          BY MessagesAssumption
        <5>7. CrcMatches(f)
          BY <5>4, <5>5, <5>6 DEF CrcMatches
        <5>8. Emitted(bytes, size[2], size[1]) = Given(k)
          <6>1. Len(bytes) >= Len(Frame(k)) /\ Begins(bytes, k, Len(Frame(k)))
            BY <1>1, <5>1, <5>3 DEF L, Begins
          <6> QED BY <4>2, <6>1, EmittedIsGiven
        <5>9. r = [ret |-> TRUE, buffer |-> Consume(bytes, L), emit |-> <<Given(k)>>, bad |-> 0]
          BY <4>5, <4>7, <5>7, <5>8
        <5> QED BY <4>7, <5>9 DEF r, L
      <4> QED BY <4>6, <4>7
    <3> QED BY <3>3, <3>4
  <2> QED BY <2>9, <2>10
<1> QED BY <1>6, <1>7

-----------------------------------------------------------------------------
(* The order of the bytes, whatever the line does to them. *)

\* All that has left the peer and has not been consumed.
Content == buffer \o line

\* The bytes of the first n messages, and noise.
FromPeer(s, n) ==
  \A i \in 1..Len(s) :
    s[i].frame \in 0..n /\ (s[i].frame # 0 => s[i].pos <= Len(Frame(s[i].frame)))

Before(b, c) == b.frame < c.frame \/ (b.frame = c.frame /\ b.pos < c.pos)

\* Bytes do not overtake each other.
Ordered(s) ==
  \A i, j \in 1..Len(s) :
    i < j /\ s[i].frame # 0 /\ s[j].frame # 0 => Before(s[i], s[j])

\* What was delivered is older than all that is to come.
Above(s, g) ==
  \A i \in 1..Len(g), j \in 1..Len(s) :
    g[i].frame # 0 /\ s[j].frame # 0 => g[i].frame < s[j].frame

\* t is what is left of s when bytes are lost and noise comes in.
Thinned(s, t) ==
  \E f \in [1..Len(t) -> Int] :
    /\ \A i \in 1..Len(t) : t[i].frame # 0 => f[i] \in 1..Len(s) /\ t[i] = s[f[i]]
    /\ \A i, j \in 1..Len(t) : i < j /\ t[i].frame # 0 /\ t[j].frame # 0 => f[i] < f[j]

\* What is left of the bytes is as old and as ordered as they were.
LEMMA ThinnedKeeps ==
  ASSUME NEW s \in Seq(LineByte), NEW t \in Seq(LineByte), NEW g, NEW n \in Nat,
         Thinned(s, t), FromPeer(s, n), Ordered(s), Above(s, g)
  PROVE  FromPeer(t, n) /\ Ordered(t) /\ Above(t, g)
<1>1. PICK f \in [1..Len(t) -> Int] :
         /\ \A i \in 1..Len(t) : t[i].frame # 0 => f[i] \in 1..Len(s) /\ t[i] = s[f[i]]
         /\ \A i, j \in 1..Len(t) : i < j /\ t[i].frame # 0 /\ t[j].frame # 0 => f[i] < f[j]
  BY DEF Thinned
<1>2. FromPeer(t, n)
  <2> SUFFICES ASSUME NEW i \in 1..Len(t)
               PROVE  t[i].frame \in 0..n /\ (t[i].frame # 0 => t[i].pos <= Len(Frame(t[i].frame)))
    BY DEF FromPeer
  <2>1. CASE t[i].frame = 0
    BY <2>1
  <2>2. CASE t[i].frame # 0
    BY <1>1, <2>2 DEF FromPeer
  <2> QED BY <2>1, <2>2
<1>3. Ordered(t)
  <2> SUFFICES ASSUME NEW i \in 1..Len(t), NEW j \in 1..Len(t),
                      i < j, t[i].frame # 0, t[j].frame # 0
               PROVE  Before(t[i], t[j])
    BY DEF Ordered
  <2>1. /\ f[i] \in 1..Len(s) /\ t[i] = s[f[i]]
        /\ f[j] \in 1..Len(s) /\ t[j] = s[f[j]] /\ f[i] < f[j]
    BY <1>1
  <2> QED BY <2>1 DEF Ordered
<1>4. Above(t, g)
  <2> SUFFICES ASSUME NEW i \in 1..Len(g), NEW j \in 1..Len(t),
                      g[i].frame # 0, t[j].frame # 0
               PROVE  g[i].frame < t[j].frame
    BY DEF Above
  <2>1. f[j] \in 1..Len(s) /\ t[j] = s[f[j]]
    BY <1>1
  <2> QED BY <2>1 DEF Above
<1> QED BY <1>2, <1>3, <1>4

\* What is consumed is lost from the front.
LEMMA ConsumeThins ==
  ASSUME NEW s \in Seq(LineByte), NEW m \in 0..Len(s)
  PROVE  Thinned(s, Consume(s, m))
<1> DEFINE t == Consume(s, m)
           f == [i \in 1..Len(t) |-> m + i]
<1>1. /\ t \in Seq(LineByte) /\ Len(t) = Len(s) - m
      /\ \A i \in 1..(Len(s) - m) : t[i] = s[m + i]
  BY ConsumeBytes
<1>2. Len(s) \in Nat /\ m \in Nat /\ Len(t) \in Nat
  BY <1>1
<1> HIDE DEF t
<1>3. f \in [1..Len(t) -> Int]
  BY <1>2
<1>4. ASSUME NEW i \in 1..Len(t) PROVE f[i] \in 1..Len(s) /\ t[i] = s[f[i]]
  <2>1. i \in 1..(Len(s) - m) /\ m + i \in 1..Len(s) /\ f[i] = m + i
    BY <1>1, <1>2
  <2> QED BY <1>1, <2>1
<1>5. ASSUME NEW i \in 1..Len(t), NEW j \in 1..Len(t), i < j PROVE f[i] < f[j]
  BY <1>2, <1>5
<1> HIDE DEF f
<1> QED BY <1>3, <1>4, <1>5 DEF Thinned, t

\* Consuming from the first of two parts consumes from the whole.
LEMMA ConsumeConcat ==
  ASSUME NEW S, NEW s \in Seq(S), NEW t \in Seq(S), NEW m \in 0..Len(s)
  PROVE  Consume(s, m) \o t = Consume(s \o t, m) /\ m \in 0..Len(s \o t)
<1> DEFINE c == Consume(s, m)
           u == s \o t
           a == c \o t
           b == Consume(u, m)
<1>1. Len(s) \in Nat /\ Len(t) \in Nat /\ m \in Nat
  OBVIOUS
<1>2. /\ u \in Seq(S) /\ Len(u) = Len(s) + Len(t)
      /\ \A i \in 1..Len(s) : u[i] = s[i]
      /\ \A i \in 1..Len(t) : u[Len(s) + i] = t[i]
  BY ConcatElements
<1>3. /\ c \in Seq(S) /\ Len(c) = Len(s) - m
      /\ \A i \in 1..(Len(s) - m) : c[i] = s[m + i]
  BY ConsumeBytes
<1> HIDE DEF c, u
<1>4. c \in Seq(S)
  BY <1>3
<1>5. /\ a \in Seq(S) /\ Len(a) = Len(c) + Len(t)
      /\ \A i \in 1..Len(c) : a[i] = c[i]
      /\ \A i \in 1..Len(t) : a[Len(c) + i] = t[i]
  BY <1>4, ConcatElements
<1>6. m \in 0..Len(u)
  BY <1>1, <1>2
<1>7. /\ b \in Seq(S) /\ Len(b) = Len(u) - m
      /\ \A i \in 1..(Len(u) - m) : b[i] = u[m + i]
  BY <1>2, <1>6, ConsumeBytes
<1> HIDE DEF a, b
<1>8. Len(a) = Len(b)
  BY <1>1, <1>2, <1>3, <1>5, <1>7
<1>9. ASSUME NEW i \in 1..Len(a) PROVE a[i] = b[i]
  <2>1. i \in 1..(Len(u) - m) /\ b[i] = u[m + i]
    BY <1>7, <1>8
  <2>2. CASE i <= Len(c)
    <3>1. i \in 1..Len(c) /\ i \in 1..(Len(s) - m) /\ m + i \in 1..Len(s)
      BY <1>1, <1>3, <2>2
    <3>2. a[i] = c[i] /\ c[i] = s[m + i] /\ u[m + i] = s[m + i]
      BY <1>2, <1>3, <1>5, <3>1
    <3> QED BY <2>1, <3>2
  <2>3. CASE ~(i <= Len(c))
    <3> DEFINE j == i - Len(c)
    <3>1. j \in 1..Len(t) /\ Len(c) + j = i /\ Len(s) + j = m + i
      BY <1>1, <1>3, <1>5, <2>3
    <3> HIDE DEF j
    <3>2. a[Len(c) + j] = t[j] /\ u[Len(s) + j] = t[j]
      BY <1>2, <1>5, <3>1
    <3> QED BY <2>1, <3>1, <3>2
  <2> QED BY <2>2, <2>3
<1> QED BY <1>5, <1>6, <1>7, <1>8, <1>9, SeqEqual DEF a, b, c, u

\* A byte that is lost.
LEMMA RemoveThins ==
  ASSUME NEW s \in Seq(LineByte), NEW n \in 1..Len(s)
  PROVE  Thinned(s, RemoveAt(s, n))
<1> DEFINE t == RemoveAt(s, n)
           f == [i \in 1..Len(t) |-> IF i < n THEN i ELSE i + 1]
<1>1. /\ t \in Seq(LineByte) /\ Len(t) = Len(s) - 1
      /\ \A i \in 1..(n - 1) : t[i] = s[i]
      /\ \A i \in n..(Len(s) - 1) : t[i] = s[i + 1]
  BY RemoveAtElements
<1>2. Len(s) \in Nat /\ n \in Nat /\ Len(t) \in Nat
  BY <1>1
<1> HIDE DEF t
<1>3. f \in [1..Len(t) -> Int]
  BY <1>2
<1>4. ASSUME NEW i \in 1..Len(t) PROVE f[i] \in 1..Len(s) /\ t[i] = s[f[i]]
  <2>1. CASE i < n
    <3>1. i \in 1..(n - 1) /\ i \in 1..Len(s) /\ f[i] = i
      BY <1>1, <1>2, <2>1
    <3> QED BY <1>1, <3>1
  <2>2. CASE ~(i < n)
    <3>1. i \in n..(Len(s) - 1) /\ i + 1 \in 1..Len(s) /\ f[i] = i + 1
      BY <1>1, <1>2, <2>2
    <3> QED BY <1>1, <3>1
  <2> QED BY <2>1, <2>2
<1>5. ASSUME NEW i \in 1..Len(t), NEW j \in 1..Len(t), i < j PROVE f[i] < f[j]
  BY <1>2, <1>5
<1> HIDE DEF f
<1> QED BY <1>3, <1>4, <1>5 DEF Thinned, t

\* A byte of noise between two parts.
LEMMA NoiseThins ==
  ASSUME NEW a \in Seq(LineByte), NEW b \in Seq(LineByte), NEW x \in LineByte, x.frame = 0
  PROVE  (a \o <<x>>) \o b \in Seq(LineByte) /\ Thinned(a \o b, (a \o <<x>>) \o b)
<1> DEFINE s == a \o b
           d == <<x>>
           c == a \o d
           t == c \o b
           n == Len(a) + 1
           f == [i \in 1..Len(t) |-> IF i < n THEN i ELSE i - 1]
<1>1. d \in Seq(LineByte) /\ Len(d) = 1 /\ d[1] = x
  OBVIOUS
<1> HIDE DEF d
<1>2. d \in Seq(LineByte)
  BY <1>1
<1>3. /\ s \in Seq(LineByte) /\ Len(s) = Len(a) + Len(b)
      /\ \A i \in 1..Len(a) : s[i] = a[i]
      /\ \A i \in 1..Len(b) : s[Len(a) + i] = b[i]
  BY ConcatElements
<1>4. /\ c \in Seq(LineByte) /\ Len(c) = Len(a) + Len(d)
      /\ \A i \in 1..Len(a) : c[i] = a[i]
      /\ \A i \in 1..Len(d) : c[Len(a) + i] = d[i]
  BY <1>2, ConcatElements
<1> HIDE DEF s, c
<1>5. c \in Seq(LineByte)
  BY <1>4
<1>6. /\ t \in Seq(LineByte) /\ Len(t) = Len(c) + Len(b)
      /\ \A i \in 1..Len(c) : t[i] = c[i]
      /\ \A i \in 1..Len(b) : t[Len(c) + i] = b[i]
  BY <1>5, ConcatElements
<1> HIDE DEF t
<1>7. /\ Len(a) \in Nat /\ Len(b) \in Nat /\ n \in Nat /\ Len(t) \in Nat
      /\ Len(c) = n /\ Len(s) = Len(a) + Len(b) /\ Len(t) = n + Len(b)
  BY <1>1, <1>3, <1>4, <1>6
<1>8. t[n] = x
  <2>1. 1 \in 1..Len(d) /\ n \in 1..Len(c)
    BY <1>1, <1>7
  <2>2. c[Len(a) + 1] = d[1]
    BY <1>4, <2>1
  <2> QED BY <1>1, <1>6, <2>1, <2>2
<1>9. f \in [1..Len(t) -> Int]
  BY <1>7
<1>10. ASSUME NEW i \in 1..Len(t), t[i].frame # 0
       PROVE  i # n /\ f[i] \in 1..Len(s) /\ t[i] = s[f[i]]
  <2>1. i # n
    BY <1>8, <1>10
  <2>2. CASE i < n
    <3>1. i \in 1..Len(a) /\ i \in 1..Len(c) /\ i \in 1..Len(s) /\ f[i] = i
      BY <1>7, <2>2
    <3> QED BY <1>3, <1>4, <1>6, <2>1, <3>1
  <2>3. CASE i > n
    <3> DEFINE j == i - n
    <3>1. /\ j \in 1..Len(b) /\ Len(c) + j = i /\ Len(a) + j = i - 1
          /\ i - 1 \in 1..Len(s) /\ f[i] = i - 1
      BY <1>7, <2>3
    <3> HIDE DEF j
    <3>2. t[Len(c) + j] = b[j] /\ s[Len(a) + j] = b[j]
      BY <1>3, <1>6, <3>1
    <3> QED BY <2>1, <3>1, <3>2
  <2> QED BY <1>7, <2>1, <2>2, <2>3
<1>11. ASSUME NEW i \in 1..Len(t), NEW j \in 1..Len(t), i < j, i # n, j # n PROVE f[i] < f[j]
  BY <1>7, <1>11
<1>12. Thinned(s, t)
  <2> HIDE DEF f
  <2> QED BY <1>9, <1>10, <1>11 DEF Thinned
<1> QED BY <1>6, <1>12 DEF s, t, c, d

\* What the owner may be told.
Outcome == {Given(k) : k \in DOMAIN Messages} \cup {[ec |-> "error", frame |-> 0]}

\* What a message that was delivered says of itself.
LEMMA GivenFields ==
  ASSUME NEW k \in DOMAIN Messages
  PROVE  /\ Given(k).frame = k /\ k \in Nat /\ k # 0 /\ Given(k) \in Outcome
         /\ [source |-> Given(k).source, dest |-> Given(k).dest, size |-> Given(k).size,
             data |-> Given(k).data, ec |-> Given(k).ec] = Due(Messages[k])
<1>1. k \in Nat /\ k # 0 /\ k \in 1..Len(Messages)
  BY MessagesAssumption
<1>2. SizeOf(k) \in Nat /\ UserSize \in Nat
  BY MessageType, BufferAssumption
<1>3. (SizeOf(k) > Written(k)) <=> (Written(k) < SizeOf(k))
  BY <1>2 DEF Written
<1>4. Given(k).frame = k
  BY DEF Given
<1>5. [source |-> Given(k).source, dest |-> Given(k).dest, size |-> Given(k).size,
       data |-> Given(k).data, ec |-> Given(k).ec] = Due(Messages[k])
  BY <1>3 DEF Given, Due, SizeOf, Written
<1>6. Given(k) \in Outcome
  BY DEF Outcome
<1> QED BY <1>1, <1>4, <1>5, <1>6

\* The part of the invariant that holds whatever the line does.
OrderInv ==
  /\ sent \in 0..Len(Messages)
  /\ line \in Seq(LineByte) /\ buffer \in Seq(LineByte)
  /\ got \in Seq(Outcome)
  /\ callback \in BOOLEAN /\ reading \in BOOLEAN
  /\ mismatch \in Nat /\ faults \in 0..MaxFaults
  /\ Len(buffer) <= BufferSize
  /\ FromPeer(Content, sent) /\ Ordered(Content) /\ Above(Content, got)
  /\ \A i \in 1..Len(got) : got[i].frame \in 0..sent
  /\ \A i, j \in 1..Len(got) :
       i < j /\ got[i].frame # 0 /\ got[j].frame # 0 => got[i].frame < got[j].frame

\* A byte that bounds the frames of the bytes behind it.
LEMMA AfterLastByte ==
  ASSUME NEW s \in Seq(LineByte), NEW n \in Nat, FromPeer(s, n), Ordered(s),
         NEW m \in 1..Len(s), NEW k \in DOMAIN Messages, s[m] = LastByte(k),
         NEW j \in 1..Len(s), m < j, s[j].frame # 0
  PROVE  k < s[j].frame
<1>1. Len(Frame(k)) \in Nat /\ Len(Frame(k)) >= 1 /\ k \in Nat /\ k # 0
  <2>1. Len(Frame(k)) \in Nat /\ Len(Frame(k)) >= 1
    BY FrameOfMessage, MessageType DEF FieldOf
  <2> QED BY <2>1, GivenFields
<1>2. s[m].frame = k /\ s[m].pos = Len(Frame(k))
  BY <1>1, FrameOfMessage DEF LastByte
<1>3. Before(s[m], s[j])
  BY <1>1, <1>2 DEF Ordered
<1>4. s[j].pos <= Len(Frame(s[j].frame))
  BY DEF FromPeer
<1>5. s[j].frame \in Nat /\ s[j].pos \in Nat
  <2>1. s[j] \in LineByte
    OBVIOUS
  <2> QED BY <2>1 DEF LineByte
<1> QED BY <1>1, <1>2, <1>3, <1>4, <1>5 DEF Before

\* The bytes a step looks at, and those behind them.
LEMMA ProcessKeepsOrder ==
  ASSUME OrderInv, NEW bytes \in Seq(LineByte), NEW rem \in Seq(LineByte),
         bytes \o rem = Content, Len(bytes) <= BufferSize,
         Process(bytes), line' = rem, UNCHANGED <<sent, faults>>
  PROVE  OrderInv'
<1> DEFINE s == Content
           try == TryEmitOneFrame(bytes)
<1>1. /\ buffer' = try.buffer /\ got' = got \o try.emit
      /\ callback' = (try.emit = <<>>) /\ reading' = ~try.ret
      /\ mismatch' = mismatch + try.bad
  BY DEF Process
<1>2. s \in Seq(LineByte) /\ Len(s) = Len(bytes) + Len(rem) /\ \A i \in 1..Len(bytes) : s[i] = bytes[i]
  <2>1. /\ bytes \o rem \in Seq(LineByte) /\ Len(bytes \o rem) = Len(bytes) + Len(rem)
        /\ \A i \in 1..Len(bytes) : (bytes \o rem)[i] = bytes[i]
    BY ConcatElements
  <2> HIDE DEF s
  <2>2. bytes \o rem = s
    BY DEF s
  <2> QED BY <2>1, <2>2
<1>3. sent \in Nat /\ sent <= Len(Messages) /\ Len(Messages) \in Nat
  BY MessagesAssumption DEF OrderInv
<1>4. FromPeer(s, sent) /\ Ordered(s) /\ Above(s, got)
  BY DEF OrderInv
<1>5. Len(bytes) \in Nat /\ Len(rem) \in Nat
  OBVIOUS
<1> HIDE DEF s, try
<1>6. ASSUME NEW i \in 1..Len(bytes) PROVE bytes[i].frame \in 0..Len(Messages)
  <2>1. i \in 1..Len(s)
    BY <1>2, <1>5
  <2>2. bytes[i].frame \in 0..sent
    BY <1>2, <1>4, <2>1 DEF FromPeer
  <2> QED BY <1>3, <2>2
<1>7. PICK m \in 0..Len(bytes) :
        /\ try.buffer = Consume(bytes, m)
        /\ try.bad \in {0, 1} /\ try.ret \in BOOLEAN
        /\ \/ try.emit = <<>>
           \/ \E k \in DOMAIN Messages :
                m >= 1 /\ bytes[m] = LastByte(k) /\ try.emit = <<Given(k)>>
  BY <1>6, TryEmitResult DEF try
<1>8. Consume(bytes, m) \in Seq(LineByte) /\ Len(Consume(bytes, m)) = Len(bytes) - m
  BY ConsumeBytes
<1>9. Content' = Consume(s, m) /\ m \in 0..Len(s)
  <2>1. Consume(bytes, m) \o rem = Consume(bytes \o rem, m) /\ m \in 0..Len(bytes \o rem)
    BY ConsumeConcat
  <2>2. Content' = Consume(bytes, m) \o rem
    BY <1>1, <1>7 DEF Content
  <2>3. bytes \o rem = s
    BY DEF s
  <2> QED BY <2>1, <2>2, <2>3
<1>10. /\ Content' \in Seq(LineByte) /\ Len(Content') = Len(s) - m
       /\ \A i \in 1..(Len(s) - m) : Content'[i] = s[m + i]
  BY <1>2, <1>9, ConsumeBytes
<1>11. FromPeer(Content', sent) /\ Ordered(Content') /\ Above(Content', got)
  <2>1. Thinned(s, Content')
    BY <1>2, <1>9, ConsumeThins
  <2> QED BY <1>2, <1>3, <1>4, <1>10, <2>1, ThinnedKeeps
<1>12. /\ sent' = sent /\ faults' = faults /\ line' \in Seq(LineByte) /\ buffer' \in Seq(LineByte)
       /\ callback' \in BOOLEAN /\ reading' \in BOOLEAN /\ mismatch' \in Nat
       /\ Len(buffer') <= BufferSize
  <2>1. mismatch \in Nat /\ try.bad \in Nat
    BY <1>7 DEF OrderInv
  <2>2. mismatch + try.bad \in Nat
    BY <2>1
  <2>3. Len(buffer') <= BufferSize
    BY <1>1, <1>5, <1>7, <1>8, BufferAssumption
  <2>4. buffer' \in Seq(LineByte)
    BY <1>1, <1>7, <1>8
  <2> QED BY <1>1, <2>2, <2>3, <2>4
<1>13. CASE try.emit = <<>>
  <2>1. got' = got
    BY <1>1, <1>13, ConcatEmpty DEF OrderInv
  <2> QED BY <1>11, <1>12, <2>1 DEF OrderInv
<1>14. ASSUME NEW k \in DOMAIN Messages, m >= 1, bytes[m] = LastByte(k), try.emit = <<Given(k)>>
       PROVE  OrderInv'
  <2>1. got \in Seq(Outcome) /\ Given(k) \in Outcome /\ Given(k).frame = k /\ k \in Nat /\ k # 0
    BY GivenFields DEF OrderInv
  <2>2. m \in 1..Len(bytes) /\ m \in 1..Len(s) /\ s[m] = LastByte(k)
    BY <1>2, <1>5, <1>14
  <2>3. got' = Append(got, Given(k))
    BY <1>1, <1>14, <2>1, AppendIsConcat
  <2>4. /\ got' \in Seq(Outcome) /\ Len(got') = Len(got) + 1 /\ Len(got) \in Nat
        /\ \A i \in 1..Len(got) : got'[i] = got[i]
        /\ got'[Len(got) + 1] = Given(k)
    BY <2>1, <2>3
  <2>5. s[m].frame = k
    <3>1. Len(Frame(k)) \in Nat /\ Len(Frame(k)) >= 1
      BY FrameOfMessage, MessageType DEF FieldOf
    <3> QED BY <2>2, <3>1, FrameOfMessage DEF LastByte
  <2>6. k \in 0..sent
    BY <1>4, <2>2, <2>5 DEF FromPeer
  <2>7. ASSUME NEW i \in 1..Len(got), got[i].frame # 0 PROVE got[i].frame < k
    BY <1>4, <2>1, <2>2, <2>5, <2>7 DEF Above
  <2>8. ASSUME NEW j \in 1..Len(Content'), Content'[j].frame # 0 PROVE k < Content'[j].frame
    <3>1. j \in 1..(Len(s) - m) /\ m + j \in 1..Len(s) /\ m < m + j
      BY <1>2, <1>10, <2>2
    <3>2. Content'[j] = s[m + j]
      BY <1>10, <3>1
    <3>3. s[m + j].frame # 0
      BY <2>8, <3>2
    <3>4. k < s[m + j].frame
      BY <1>2, <1>3, <1>4, <2>2, <3>1, <3>3, AfterLastByte
    <3> QED BY <3>2, <3>4
  <2>9. Above(Content', got')
    <3> SUFFICES ASSUME NEW i \in 1..Len(got'), NEW j \in 1..Len(Content'),
                        got'[i].frame # 0, Content'[j].frame # 0
                 PROVE  got'[i].frame < Content'[j].frame
      BY DEF Above
    <3>1. CASE i \in 1..Len(got)
      BY <1>11, <2>4, <3>1 DEF Above
    <3>2. CASE i = Len(got) + 1
      BY <2>1, <2>4, <2>8, <3>2
    <3>3. i \in 1..Len(got) \/ i = Len(got) + 1
      BY <2>4
    <3> QED BY <3>1, <3>2, <3>3
  <2>10. \A i \in 1..Len(got') : got'[i].frame \in 0..sent
    <3> SUFFICES ASSUME NEW i \in 1..Len(got') PROVE got'[i].frame \in 0..sent
      OBVIOUS
    <3>1. CASE i \in 1..Len(got)
      BY <2>4, <3>1 DEF OrderInv
    <3>2. CASE i = Len(got) + 1
      BY <2>1, <2>4, <2>6, <3>2
    <3>3. i \in 1..Len(got) \/ i = Len(got) + 1
      BY <2>4
    <3> QED BY <3>1, <3>2, <3>3
  <2>11. ASSUME NEW i \in 1..Len(got'), NEW j \in 1..Len(got'),
                i < j, got'[i].frame # 0, got'[j].frame # 0
         PROVE  got'[i].frame < got'[j].frame
    <3>1. i \in 1..Len(got)
      BY <2>4, <2>11
    <3>2. CASE j \in 1..Len(got)
      BY <2>4, <2>11, <3>1, <3>2 DEF OrderInv
    <3>3. CASE j = Len(got) + 1
      BY <2>1, <2>4, <2>7, <2>11, <3>1, <3>3
    <3>4. j \in 1..Len(got) \/ j = Len(got) + 1
      BY <2>4
    <3> QED BY <3>2, <3>3, <3>4
  <2>12. sent \in 0..Len(Messages) /\ faults \in 0..MaxFaults
    BY DEF OrderInv
  <2> QED BY <1>11, <1>12, <2>4, <2>9, <2>10, <2>11, <2>12 DEF OrderInv
<1> QED BY <1>7, <1>13, <1>14

\* The bytes of the peer's next message are younger than all others.
LEMMA WriteKeepsOrder ==
  ASSUME OrderInv, AsyncWrite
  PROVE  OrderInv'
<1> DEFINE s == Content
           k == sent + 1
           t == Frame(k)
           u == s \o t
<1>1. sent \in Nat /\ k \in Nat /\ k \in 1..Len(Messages) /\ k \in DOMAIN Messages
  BY MessagesAssumption DEF OrderInv, AsyncWrite
<1>2. s \in Seq(LineByte) /\ FromPeer(s, sent) /\ Ordered(s) /\ Above(s, got)
  <2>1. buffer \in Seq(LineByte) /\ line \in Seq(LineByte)
    BY DEF OrderInv
  <2> QED BY <2>1, ConcatElements DEF OrderInv, Content
<1>3. /\ t \in Seq(LineByte) /\ Len(t) \in Nat
      /\ \A i \in 1..Len(t) : t[i].frame = k /\ t[i].pos = i
  BY <1>1, FrameOfMessage
<1>4. Content' = u
  <2>1. buffer' = buffer /\ line' = line \o t
    BY DEF AsyncWrite
  <2>2. buffer \in Seq(LineByte) /\ line \in Seq(LineByte)
    BY DEF OrderInv
  <2> HIDE DEF t, k
  <2>4. t \in Seq(LineByte)
    BY <1>3
  <2>3. (buffer \o line) \o t = buffer \o (line \o t)
    BY <2>2, <2>4, LineAssoc
  <2> QED BY <2>1, <2>3 DEF Content
<1> HIDE DEF s, t
<1>5. /\ u \in Seq(LineByte) /\ Len(u) = Len(s) + Len(t)
      /\ \A i \in 1..Len(s) : u[i] = s[i]
      /\ \A i \in 1..Len(t) : u[Len(s) + i] = t[i]
  <2>1. s \in Seq(LineByte) /\ t \in Seq(LineByte)
    BY <1>2, <1>3
  <2> QED BY <2>1, ConcatElements
<1> HIDE DEF u
<1>6. ASSUME NEW i \in 1..Len(u)
      PROVE  \/ i \in 1..Len(s) /\ u[i] = s[i] /\ u[i].frame \in 0..sent
                /\ (u[i].frame # 0 => u[i].pos <= Len(Frame(u[i].frame)))
             \/ i > Len(s) /\ u[i].frame = k /\ u[i].pos = i - Len(s) /\ i - Len(s) \in 1..Len(t)
  <2>1. Len(s) \in Nat
    BY <1>2
  <2>2. CASE i <= Len(s)
    <3>1. i \in 1..Len(s)
      BY <2>1, <2>2
    <3> QED BY <1>2, <1>5, <3>1 DEF FromPeer
  <2>3. CASE ~(i <= Len(s))
    <3> DEFINE j == i - Len(s)
    <3>1. j \in 1..Len(t) /\ Len(s) + j = i /\ i > Len(s)
      BY <1>3, <1>5, <2>1, <2>3
    <3> HIDE DEF j
    <3>2. u[Len(s) + j].frame = k /\ u[Len(s) + j].pos = j
      BY <1>3, <1>5, <3>1
    <3> QED BY <3>1, <3>2 DEF j
  <2> QED BY <2>2, <2>3
<1>7. FromPeer(u, k)
  <2> SUFFICES ASSUME NEW i \in 1..Len(u)
               PROVE  u[i].frame \in 0..k /\ (u[i].frame # 0 => u[i].pos <= Len(Frame(u[i].frame)))
    BY DEF FromPeer
  <2>1. CASE u[i].frame \in 0..sent /\ (u[i].frame # 0 => u[i].pos <= Len(Frame(u[i].frame)))
    BY <1>1, <2>1
  <2>2. CASE u[i].frame = k /\ u[i].pos = i - Len(s) /\ i - Len(s) \in 1..Len(t)
    <3>1. u[i].frame \in 0..k
      BY <1>1, <2>2
    <3>2. u[i].pos \in 1..Len(t)
      BY <2>2
    <3>3. u[i].pos <= Len(t)
      BY <1>3, <3>2
    <3> QED BY <2>2, <3>1, <3>3 DEF t
  <2> QED BY <1>6, <2>1, <2>2
<1>8. Ordered(u)
  <2> SUFFICES ASSUME NEW i \in 1..Len(u), NEW j \in 1..Len(u),
                      i < j, u[i].frame # 0, u[j].frame # 0
               PROVE  Before(u[i], u[j])
    BY DEF Ordered
  <2>0. Len(s) \in Nat
    BY <1>2
  <2>1. CASE i \in 1..Len(s) /\ j \in 1..Len(s)
    BY <1>2, <1>5, <2>1 DEF Ordered
  <2>2. CASE i \in 1..Len(s) /\ j > Len(s)
    <3>1. u[i].frame \in 0..sent /\ u[j].frame = k
      BY <1>6, <2>0, <2>2
    <3> QED BY <1>1, <3>1 DEF Before
  <2>3. CASE i > Len(s) /\ j > Len(s)
    <3>1. /\ u[i].frame = k /\ u[i].pos = i - Len(s)
          /\ u[j].frame = k /\ u[j].pos = j - Len(s)
      BY <1>6, <2>0, <2>3
    <3> QED BY <2>0, <3>1 DEF Before
  <2>4. ~(i > Len(s) /\ j \in 1..Len(s))
    BY <2>0
  <2> QED BY <1>6, <2>1, <2>2, <2>3, <2>4
<1>9. Above(u, got)
  <2> SUFFICES ASSUME NEW i \in 1..Len(got), NEW j \in 1..Len(u),
                      got[i].frame # 0, u[j].frame # 0
               PROVE  got[i].frame < u[j].frame
    BY DEF Above
  <2>1. CASE j \in 1..Len(s)
    BY <1>2, <1>5, <2>1 DEF Above
  <2>2. CASE u[j].frame = k
    <3>1. got[i].frame \in 0..sent
      BY DEF OrderInv
    <3> QED BY <1>1, <2>2, <3>1
  <2> QED BY <1>6, <2>1, <2>2
<1>10. \A i \in 1..Len(got) : got[i].frame \in 0..k
  <2> SUFFICES ASSUME NEW i \in 1..Len(got) PROVE got[i].frame \in 0..k
    OBVIOUS
  <2>1. got[i].frame \in 0..sent
    BY DEF OrderInv
  <2> QED BY <1>1, <2>1
<1>11. line' \in Seq(LineByte)
  <2>1. line \in Seq(LineByte) /\ t \in Seq(LineByte)
    BY <1>3 DEF OrderInv
  <2>2. line \o t \in Seq(LineByte)
    BY <2>1, ConcatElements
  <2> QED BY <2>2 DEF AsyncWrite, t
<1>12. /\ sent' = k /\ buffer' = buffer /\ got' = got /\ callback' = callback
       /\ reading' = reading /\ mismatch' = mismatch /\ faults' = faults
  BY DEF AsyncWrite
<1>13. sent' \in 0..Len(Messages)
  BY <1>1, <1>12
<1> HIDE DEF k
<1> QED BY <1>4, <1>7, <1>8, <1>9, <1>10, <1>11, <1>12, <1>13 DEF OrderInv

\* A step that only thins what is to come keeps the order.
LEMMA ThinningKeepsOrder ==
  ASSUME OrderInv, Content' \in Seq(LineByte), Thinned(Content, Content'),
         line' \in Seq(LineByte), buffer' \in Seq(LineByte), Len(buffer') <= BufferSize,
         callback' \in BOOLEAN, reading' \in BOOLEAN, faults' \in 0..MaxFaults,
         UNCHANGED <<sent, mismatch>>,
         \/ got' = got
         \/ got' = Append(got, [ec |-> "error", frame |-> 0])
  PROVE  OrderInv'
<1>1. Content \in Seq(LineByte)
  <2>1. buffer \in Seq(LineByte) /\ line \in Seq(LineByte)
    BY DEF OrderInv
  <2> QED BY <2>1, ConcatElements DEF Content
<1>2. sent \in Nat
  BY MessagesAssumption DEF OrderInv
<1>3. FromPeer(Content', sent) /\ Ordered(Content') /\ Above(Content', got)
  BY <1>1, <1>2, ThinnedKeeps DEF OrderInv
<1>4. CASE got' = got
  BY <1>3, <1>4 DEF OrderInv
<1>5. CASE got' = Append(got, [ec |-> "error", frame |-> 0])
  <2> DEFINE e == [ec |-> "error", frame |-> 0]
  <2>1. e \in Outcome /\ e.frame = 0 /\ got \in Seq(Outcome)
    BY DEF Outcome, OrderInv
  <2> HIDE DEF e
  <2>2. got' = Append(got, e)
    BY <1>5 DEF e
  <2>3. /\ got' \in Seq(Outcome) /\ Len(got') = Len(got) + 1 /\ Len(got) \in Nat
        /\ \A i \in 1..Len(got) : got'[i] = got[i]
        /\ got'[Len(got) + 1] = e
    BY <2>1, <2>2
  <2>4. ASSUME NEW i \in 1..Len(got')
        PROVE  (i \in 1..Len(got) /\ got'[i] = got[i]) \/ got'[i].frame = 0
    <3>1. i \in 1..Len(got) \/ i = Len(got) + 1
      BY <2>3
    <3> QED BY <2>1, <2>3, <3>1
  <2>5. Above(Content', got')
    BY <1>3, <2>4 DEF Above
  <2>6. \A i \in 1..Len(got') : got'[i].frame \in 0..sent
    <3> SUFFICES ASSUME NEW i \in 1..Len(got') PROVE got'[i].frame \in 0..sent
      OBVIOUS
    <3>1. 0 \in 0..sent
      BY <1>2
    <3>2. \A j \in 1..Len(got) : got[j].frame \in 0..sent
      BY DEF OrderInv
    <3> QED BY <2>4, <3>1, <3>2
  <2>7. \A i, j \in 1..Len(got') :
           i < j /\ got'[i].frame # 0 /\ got'[j].frame # 0 => got'[i].frame < got'[j].frame
    BY <2>4 DEF OrderInv
  <2>8. sent \in 0..Len(Messages) /\ mismatch \in Nat
    BY DEF OrderInv
  <2> QED BY <1>3, <2>3, <2>5, <2>6, <2>7, <2>8 DEF OrderInv
<1> QED BY <1>4, <1>5

\* A byte of noise on the line.
LEMMA NoiseByte ==
  ASSUME NEW v \in Byte
  PROVE  /\ [v |-> v, frame |-> 0, pos |-> 0] \in LineByte
         /\ Noise(<<v>>) = <<[v |-> v, frame |-> 0, pos |-> 0]>>
<1>1. [v |-> v, frame |-> 0, pos |-> 0] \in LineByte
  BY DEF LineByte
<1>2. DOMAIN <<v>> = {1} /\ <<v>>[1] = v
  OBVIOUS
<1>3. Noise(<<v>>) = [i \in {1} |-> [v |-> v, frame |-> 0, pos |-> 0]]
  BY <1>2 DEF Noise
<1>4. 1..1 = {1}
  OBVIOUS
<1> QED BY <1>1, <1>3, <1>4

\* What the line does to the bytes on it.
LEMMA LineKeepsOrder ==
  ASSUME OrderInv, LineInserts \/ LineLoses \/ HandleReadError
  PROVE  OrderInv'
<1>1. buffer \in Seq(LineByte) /\ line \in Seq(LineByte) /\ got \in Seq(Outcome)
  BY DEF OrderInv
<1>2. faults \in Nat /\ MaxFaults \in Nat
  BY BufferAssumption DEF OrderInv
<1>3. CASE LineInserts
  <2>1. PICK v \in NoiseBytes, n \in 0..Len(line) :
          line' = SubSeq(line, 1, n) \o Noise(<<v>>) \o Consume(line, n)
    BY <1>3 DEF LineInserts
  <2> DEFINE p == SubSeq(line, 1, n)
             q == Consume(line, n)
             x == [v |-> v, frame |-> 0, pos |-> 0]
             a == buffer \o p
             px == p \o <<x>>
             ax == a \o <<x>>
  <2>2. v \in Byte
    BY BufferAssumption
  <2>3. x \in LineByte /\ x.frame = 0 /\ Noise(<<v>>) = <<x>>
    BY <2>2, NoiseByte
  <2>4. p \in Seq(LineByte) /\ q \in Seq(LineByte) /\ line = p \o q
    BY <1>1, SubSeqSplit DEF Consume
  <2> HIDE DEF p, q, x
  <2>5. <<x>> \in Seq(LineByte)
    BY <2>3, SingletonSeq
  <2>6. a \in Seq(LineByte) /\ px \in Seq(LineByte) /\ ax \in Seq(LineByte)
    <3>1. a \in Seq(LineByte)
      BY <1>1, <2>4, ConcatElements
    <3>2. px \in Seq(LineByte)
      BY <2>4, <2>5, ConcatElements
    <3> HIDE DEF a
    <3>3. ax \in Seq(LineByte)
      BY <2>5, <3>1, ConcatElements
    <3> QED BY <3>1, <3>2, <3>3
  <2>7. line' = px \o q
    BY <2>1, <2>3 DEF p, q
  <2>8. Content = a \o q
    <3>1. buffer \in Seq(LineByte) /\ p \in Seq(LineByte) /\ q \in Seq(LineByte)
      BY <1>1, <2>4
    <3>2. (buffer \o p) \o q = buffer \o (p \o q)
      BY <3>1, LineAssoc
    <3> QED BY <2>4, <3>2 DEF Content
  <2>9. buffer' = buffer /\ Content' = ax \o q
    <3>1. buffer' = buffer
      BY <1>3 DEF LineInserts
    <3>2. Content' = buffer \o (px \o q)
      BY <2>7, <3>1 DEF Content
    <3>3. buffer \o (px \o q) = (buffer \o px) \o q
      <4>1. buffer \in Seq(LineByte) /\ px \in Seq(LineByte) /\ q \in Seq(LineByte)
        BY <1>1, <2>4, <2>6
      <4> HIDE DEF px
      <4> QED BY <4>1, LineAssoc
    <3>4. buffer \o px = ax
      BY <1>1, <2>4, <2>5, ConcatAssoc
    <3> QED BY <3>1, <3>2, <3>3, <3>4
  <2>10. line' \in Seq(LineByte)
    <3> HIDE DEF px
    <3> QED BY <2>4, <2>6, <2>7, ConcatElements
  <2>11. Content' \in Seq(LineByte) /\ Thinned(Content, Content')
    <3> HIDE DEF a
    <3>1. ax \o q \in Seq(LineByte) /\ Thinned(a \o q, ax \o q)
      BY <2>3, <2>4, <2>6, NoiseThins
    <3> QED BY <2>8, <2>9, <3>1
  <2>12. /\ UNCHANGED <<sent, mismatch>> /\ got' = got /\ callback' = callback
         /\ reading' = reading /\ faults' = faults + 1 /\ faults < MaxFaults
    BY <1>3 DEF LineInserts
  <2>13. faults' \in 0..MaxFaults
    BY <1>2, <2>12
  <2>14. callback' \in BOOLEAN /\ reading' \in BOOLEAN /\ buffer' \in Seq(LineByte)
         /\ Len(buffer') <= BufferSize
    BY <2>9, <2>12 DEF OrderInv
  <2> QED BY <2>10, <2>11, <2>12, <2>13, <2>14, ThinningKeepsOrder
<1>4. CASE LineLoses
  <2>1. PICK n \in DOMAIN line : line' = RemoveAt(line, n)
    BY <1>4 DEF LineLoses
  <2>2. n \in 1..Len(line) /\ Len(line) \in Nat /\ Len(buffer) \in Nat
    BY <1>1
  <2>3. buffer' = buffer
    BY <1>4 DEF LineLoses
  <2>4. Content' = RemoveAt(Content, Len(buffer) + n)
    BY <1>1, <2>1, <2>2, <2>3, RemoveAtConcat DEF Content
  <2>5. Content \in Seq(LineByte) /\ Len(Content) = Len(buffer) + Len(line)
    BY <1>1, ConcatElements DEF Content
  <2>6. Len(buffer) + n \in 1..Len(Content)
    BY <2>2, <2>5
  <2>7. Content' \in Seq(LineByte) /\ Thinned(Content, Content')
    BY <2>4, <2>5, <2>6, RemoveThins, RemoveAtElements
  <2>8. line' \in Seq(LineByte)
    BY <1>1, <2>1, <2>2, RemoveAtElements
  <2>9. /\ UNCHANGED <<sent, mismatch>> /\ got' = got /\ callback' = callback
         /\ reading' = reading /\ faults' = faults + 1 /\ faults < MaxFaults
    BY <1>4 DEF LineLoses
  <2>10. faults' \in 0..MaxFaults
    BY <1>2, <2>9
  <2>11. callback' \in BOOLEAN /\ reading' \in BOOLEAN /\ buffer' \in Seq(LineByte)
         /\ Len(buffer') <= BufferSize
    BY <2>3, <2>9 DEF OrderInv
  <2> QED BY <2>7, <2>8, <2>9, <2>10, <2>11, ThinningKeepsOrder
<1>5. CASE HandleReadError
  <2>1. /\ UNCHANGED <<sent, mismatch>> /\ line' = line /\ buffer' = <<>>
        /\ got' = Append(got, [ec |-> "error", frame |-> 0]) /\ callback' = FALSE
        /\ reading' = FALSE /\ faults' = faults + 1 /\ faults < MaxFaults
    BY <1>5 DEF HandleReadError
  <2>2. faults' \in 0..MaxFaults
    BY <1>2, <2>1
  <2>3. Content' = line
    BY <1>1, <2>1, ConcatEmpty DEF Content
  <2>4. Len(buffer) \in 0..Len(buffer)
    BY <1>1
  <2>5. /\ Consume(buffer, Len(buffer)) \o line = Consume(Content, Len(buffer))
        /\ Len(buffer) \in 0..Len(Content)
    BY <1>1, <2>4, ConsumeConcat DEF Content
  <2>6. Content' = Consume(Content, Len(buffer))
    BY <1>1, <2>3, <2>5, ConsumeAll, ConcatEmpty
  <2>7. Content \in Seq(LineByte)
    BY <1>1, ConcatElements DEF Content
  <2>8. Thinned(Content, Content')
    BY <2>5, <2>6, <2>7, ConsumeThins
  <2>9. Content' \in Seq(LineByte) /\ line' \in Seq(LineByte)
    BY <1>1, <2>1, <2>3
  <2>10. buffer' \in Seq(LineByte) /\ Len(buffer') <= BufferSize
    <3>1. buffer' \in Seq(LineByte) /\ Len(buffer') = 0
      BY <2>1, EmptyIsSeq
    <3> QED BY <3>1, BufferAssumption
  <2>11. callback' \in BOOLEAN /\ reading' \in BOOLEAN
    BY <2>1
  <2> QED BY <2>1, <2>2, <2>8, <2>9, <2>10, <2>11, ThinningKeepsOrder
<1> QED BY <1>3, <1>4, <1>5

\* The bytes that a read of the stream puts behind the others.
LEMMA ReadSplit ==
  ASSUME OrderInv, NEW n \in 1..Len(line), n <= StartReadFrame
  PROVE  LET bytes == buffer \o SubSeq(line, 1, n)
             rem == Consume(line, n)
         IN /\ bytes \in Seq(LineByte) /\ rem \in Seq(LineByte)
            /\ bytes \o rem = Content /\ Len(bytes) <= BufferSize
            /\ Len(bytes) = Len(buffer) + n
<1> DEFINE p == SubSeq(line, 1, n)
           q == Consume(line, n)
           bytes == buffer \o p
<1>1. buffer \in Seq(LineByte) /\ line \in Seq(LineByte)
  BY DEF OrderInv
<1>2. Len(line) \in Nat /\ n \in Nat /\ n \in 0..Len(line) /\ Len(buffer) \in Nat
  BY <1>1
<1>3. p \in Seq(LineByte) /\ q \in Seq(LineByte) /\ line = p \o q
  BY <1>1, <1>2, SubSeqSplit DEF Consume
<1>4. Len(p) = n
  BY <1>1, <1>2
<1> HIDE DEF p, q
<1>5. p \in Seq(LineByte) /\ q \in Seq(LineByte)
  BY <1>3
<1>6. bytes \in Seq(LineByte) /\ Len(bytes) = Len(buffer) + Len(p)
  BY <1>1, <1>5, ConcatElements
<1>7. bytes \o q = buffer \o (p \o q)
  <2>1. buffer \in Seq(LineByte) /\ p \in Seq(LineByte) /\ q \in Seq(LineByte)
    BY <1>1, <1>5
  <2> QED BY <2>1, LineAssoc DEF bytes
<1>8. Len(bytes) <= BufferSize
  BY <1>2, <1>4, <1>6, BufferAssumption DEF StartReadFrame
<1> QED BY <1>3, <1>4, <1>6, <1>7, <1>8 DEF Content, p, q

\* The types and the order are kept by every step.
LEMMA OrderStep ==
  ASSUME OrderInv, [Next]_vars
  PROVE  OrderInv'
<1>1. buffer \in Seq(LineByte) /\ line \in Seq(LineByte) /\ Len(buffer) <= BufferSize
  BY DEF OrderInv
<1>2. CASE AsyncRead
  <2>1. Process(buffer) /\ line' = line /\ UNCHANGED <<sent, faults>>
    BY <1>2 DEF AsyncRead
  <2>2. buffer \o line = Content
    BY DEF Content
  <2> QED BY <1>1, <2>1, <2>2, ProcessKeepsOrder
<1>3. CASE HandleReadFrame
  <2>1. PICK n \in 1..Len(line) :
          /\ n <= StartReadFrame /\ Process(buffer \o SubSeq(line, 1, n))
          /\ line' = Consume(line, n)
    BY <1>3 DEF HandleReadFrame
  <2>2. UNCHANGED <<sent, faults>>
    BY <1>3 DEF HandleReadFrame
  <2> DEFINE bytes == buffer \o SubSeq(line, 1, n)
             rem == Consume(line, n)
  <2>3. /\ bytes \in Seq(LineByte) /\ rem \in Seq(LineByte)
        /\ bytes \o rem = Content /\ Len(bytes) <= BufferSize
    BY <2>1, ReadSplit
  <2>4. Process(bytes) /\ line' = rem
    BY <2>1
  <2> HIDE DEF bytes, rem
  <2> QED BY <2>2, <2>3, <2>4, ProcessKeepsOrder
<1>4. CASE AsyncWrite
  BY <1>4, WriteKeepsOrder
<1>5. CASE LineInserts \/ LineLoses \/ HandleReadError
  BY <1>5, LineKeepsOrder
<1>6. CASE UNCHANGED vars
  BY <1>6 DEF vars, OrderInv, Content
<1> QED BY <1>2, <1>3, <1>4, <1>5, <1>6 DEF Next

\* Nothing is on the line at first.
LEMMA OrderInit ==
  ASSUME Init
  PROVE  OrderInv
<1>1. /\ buffer = <<>> /\ line = <<>> /\ got = <<>> /\ sent = 0
      /\ callback = FALSE /\ reading = FALSE /\ mismatch = 0 /\ faults = 0
  BY DEF Init
<1>2. Content = <<>>
  BY <1>1, EmptyIsSeq, ConcatEmpty DEF Content
<1>3. Len(Content) = 0 /\ Len(got) = 0 /\ Len(buffer) = 0
  BY <1>1, <1>2
<1>4. FromPeer(Content, sent) /\ Ordered(Content) /\ Above(Content, got)
  BY <1>3 DEF FromPeer, Ordered, Above
<1>5. 0 \in 0..Len(Messages) /\ 0 \in 0..MaxFaults /\ 0 <= BufferSize
  BY MessagesAssumption, BufferAssumption
<1>6. buffer \in Seq(LineByte) /\ line \in Seq(LineByte) /\ got \in Seq(Outcome)
  BY <1>1, EmptyIsSeq
<1>7. callback \in BOOLEAN /\ reading \in BOOLEAN /\ mismatch \in Nat
  BY <1>1
<1>8. sent \in 0..Len(Messages) /\ faults \in 0..MaxFaults /\ Len(buffer) <= BufferSize
  BY <1>1, <1>3, <1>5
<1>9. 1..Len(got) = {}
  BY <1>3
<1> QED BY <1>4, <1>6, <1>7, <1>8, <1>9 DEF OrderInv

\* The order is kept in every behaviour, whatever the line does.
THEOREM OrderInvariant == Spec => []OrderInv
<1>1. Init => OrderInv
  BY OrderInit
<1>2. OrderInv /\ [Next]_vars => OrderInv'
  BY OrderStep
<1> QED BY <1>1, <1>2, PTL DEF Spec

\* The types of the receiver's state.
THEOREM TypeCorrect == Spec => []TypeOK
<1>1. OrderInv => TypeOK
  BY DEF OrderInv, TypeOK
<1> QED BY <1>1, OrderInvariant, PTL

\* Whatever bytes the line loses or inserts and whatever errors the stream
\* has, the frames that TryEmitOneFrame gives to the callbacks are messages
\* of the peer, in order, none twice, with the ids, the size and the payload
\* of AsyncWrite.
THEOREM OwnersGetWhatWasSent == Spec => []FramesAsSent
<1>1. OrderInv => FramesAsSent
  <2> SUFFICES ASSUME OrderInv PROVE FramesAsSent
    OBVIOUS
  <2>1. got \in Seq(Outcome) /\ DOMAIN got = 1..Len(got) /\ sent \in Nat
    BY MessagesAssumption DEF OrderInv
  <2>2. ASSUME NEW i \in Delivered, NEW j \in Delivered, i < j
        PROVE  got[i].frame < got[j].frame
    <3>1. /\ i \in 1..Len(got) /\ got[i].frame # 0
          /\ j \in 1..Len(got) /\ got[j].frame # 0
      BY <2>1 DEF Delivered
    <3> QED BY <2>2, <3>1 DEF OrderInv
  <2>3. ASSUME NEW i \in Delivered
        PROVE  /\ got[i].frame \in 1..sent
               /\ [source |-> got[i].source, dest |-> got[i].dest, size |-> got[i].size,
                   data |-> got[i].data, ec |-> got[i].ec] = Due(Messages[got[i].frame])
    <3>1. i \in 1..Len(got) /\ got[i].frame # 0
      BY <2>1 DEF Delivered
    <3>2. got[i] \in Outcome /\ got[i].frame \in 0..sent
      BY <2>1, <3>1 DEF OrderInv
    <3>3. PICK k \in DOMAIN Messages : got[i] = Given(k)
      BY <3>1, <3>2 DEF Outcome
    <3>4. got[i].frame = k
      BY <3>3, GivenFields
    <3>5. got[i].frame \in 1..sent
      BY <2>1, <3>1, <3>2
    <3> QED BY <3>3, <3>4, <3>5, GivenFields
  <2> QED BY <2>2, <2>3 DEF FramesAsSent
<1> QED BY <1>1, OrderInvariant, PTL

-----------------------------------------------------------------------------
(* A line without faults: the bytes that have not been given to the owner  *)
(* are the frames after the last one it was given, whole and one behind    *)
(* the other.                                                              *)

\* A byte of one of the first n frames, at the place it had there.
InPlace(b, n) ==
  /\ b.frame \in 1..n /\ b.pos \in 1..Len(Frame(b.frame))
  /\ b = Frame(b.frame)[b.pos]

\* Byte d was written right after byte b.
Follows(b, d) ==
  IF b.pos < Len(Frame(b.frame)) THEN d.frame = b.frame /\ d.pos = b.pos + 1
  ELSE d.frame = b.frame + 1 /\ d.pos = 1

\* s is the frames after number c, up to number n.
Chain(s, c, n) ==
  /\ c \in 0..n
  /\ Len(s) = 0 => c = n
  /\ Len(s) > 0 => /\ s[1].frame = c + 1 /\ s[1].pos = 1
                   /\ s[Len(s)].frame = n /\ s[Len(s)].pos = Len(Frame(n))
  /\ \A i \in 1..Len(s) : InPlace(s[i], n)
  /\ \A i \in 1..(Len(s) - 1) : Follows(s[i], s[i + 1])

\* A frame is not empty.
LEMMA FrameLong ==
  ASSUME NEW k \in DOMAIN Messages
  PROVE  Len(Frame(k)) \in Nat /\ Len(Frame(k)) >= 1 /\ Frame(k) \in Seq(LineByte)
BY FrameOfMessage, MessageType DEF FieldOf

\* The numbers of messages.
LEMMA MessageNumbers ==
  DOMAIN Messages = 1..Len(Messages) /\ Len(Messages) \in Nat
BY MessagesAssumption

\* A chain that is not empty starts with a whole frame.
LEMMA ChainPrefix ==
  ASSUME NEW s \in Seq(LineByte), NEW c, NEW n \in 0..Len(Messages),
         Chain(s, c, n), Len(s) > 0
  PROVE  /\ c \in Nat /\ c + 1 \in DOMAIN Messages /\ c + 1 <= n
         /\ Len(Frame(c + 1)) <= Len(s)
         /\ \A i \in 1..Len(Frame(c + 1)) : s[i] = Frame(c + 1)[i]
         /\ \A i \in 1..Len(Frame(c + 1)) : s[i].frame = c + 1 /\ s[i].pos = i
<1> DEFINE k == c + 1
           l == Len(Frame(k))
           P == {i \in Nat : i + 1 <= l =>
                               i + 1 <= Len(s) /\ s[i + 1].frame = k /\ s[i + 1].pos = i + 1}
<1>1. Len(s) \in Nat /\ Len(Messages) \in Nat /\ n \in Nat /\ n <= Len(Messages)
  BY MessageNumbers
<1>2. c \in Nat
  BY <1>1 DEF Chain
<1>3. s[1].frame = k /\ s[1].pos = 1 /\ k \in 1..n
  BY <1>1 DEF Chain, InPlace
<1>4. k \in DOMAIN Messages
  BY <1>1, <1>3, MessageNumbers
<1>5. l \in Nat /\ l >= 1
  BY <1>4, FrameLong
<1> HIDE DEF l, k
<1>6. 0 \in P
  BY <1>1, <1>3
<1>7. ASSUME NEW i \in Nat, i \in P PROVE i + 1 \in P
  <2> SUFFICES ASSUME i + 2 <= l
               PROVE  i + 2 <= Len(s) /\ s[i + 2].frame = k /\ s[i + 2].pos = i + 2
    OBVIOUS
  <2>1. i + 1 <= Len(s) /\ s[i + 1].frame = k /\ s[i + 1].pos = i + 1
    BY <1>5, <1>7
  <2>2. s[i + 1].pos < Len(Frame(s[i + 1].frame))
    BY <1>5, <2>1 DEF l
  <2>3. i + 1 # Len(s)
    <3> SUFFICES ASSUME i + 1 = Len(s) PROVE FALSE
      OBVIOUS
    <3>1. k = n /\ i + 1 = Len(Frame(n))
      BY <1>1, <2>1 DEF Chain
    <3> QED BY <1>5, <3>1 DEF l
  <2>4. i + 1 \in 1..(Len(s) - 1)
    BY <1>1, <2>1, <2>3
  <2>5. Follows(s[i + 1], s[(i + 1) + 1])
    BY <2>4 DEF Chain
  <2>6. (i + 1) + 1 = i + 2
    OBVIOUS
  <2>7. s[i + 2].frame = k /\ s[i + 2].pos = (i + 1) + 1
    BY <2>1, <2>2, <2>5, <2>6 DEF Follows
  <2> QED BY <1>1, <2>4, <2>6, <2>7
<1>8. Nat \subseteq P
  <2> HIDE DEF P
  <2> QED BY <1>6, <1>7, NatSetInduction
<1>9. ASSUME NEW i \in 1..l PROVE i \in 1..Len(s) /\ s[i].frame = k /\ s[i].pos = i
  <2> DEFINE j == i - 1
  <2>1. j \in Nat /\ j + 1 = i /\ j + 1 <= l /\ i >= 1
    BY <1>5
  <2> HIDE DEF j
  <2>2. j + 1 <= Len(s) /\ s[j + 1].frame = k /\ s[j + 1].pos = j + 1
    BY <1>8, <2>1
  <2> QED BY <1>1, <2>1, <2>2
<1>10. l <= Len(s)
  BY <1>1, <1>5, <1>9
<1>11. ASSUME NEW i \in 1..l PROVE s[i] = Frame(k)[i]
  <2>1. i \in 1..Len(s) /\ s[i].frame = k /\ s[i].pos = i
    BY <1>9
  <2>2. InPlace(s[i], n)
    BY <2>1 DEF Chain
  <2> QED BY <2>1, <2>2 DEF InPlace
<1>12. k <= n
  BY <1>1, <1>3
<1> QED BY <1>2, <1>4, <1>9, <1>10, <1>11, <1>12 DEF l, k

\* Without its first frame it is a chain that starts with the next.
LEMMA ChainAdvance ==
  ASSUME NEW s \in Seq(LineByte), NEW c, NEW n \in 0..Len(Messages),
         Chain(s, c, n), Len(s) > 0
  PROVE  Chain(Consume(s, Len(Frame(c + 1))), c + 1, n)
<1> DEFINE k == c + 1
           l == Len(Frame(k))
           t == Consume(s, l)
<1>1. Len(s) \in Nat /\ Len(Messages) \in Nat /\ n \in Nat /\ n <= Len(Messages)
  BY MessageNumbers
<1>2. /\ c \in Nat /\ k \in DOMAIN Messages /\ k <= n /\ l <= Len(s)
      /\ \A i \in 1..l : s[i].frame = k /\ s[i].pos = i
  BY ChainPrefix
<1>3. l \in Nat /\ l >= 1 /\ k \in 0..n /\ k \in Nat
  BY <1>1, <1>2, FrameLong
<1>4. l \in 0..Len(s) /\ l \in 1..Len(s) /\ s[l].frame = k /\ s[l].pos = l
  BY <1>1, <1>2, <1>3
<1>5. /\ t \in Seq(LineByte) /\ Len(t) = Len(s) - l
      /\ \A i \in 1..(Len(s) - l) : t[i] = s[l + i]
  BY <1>4, ConsumeBytes
<1> HIDE DEF t
<1>6. Len(t) = 0 => k = n
  <2> SUFFICES ASSUME Len(t) = 0 PROVE k = n
    OBVIOUS
  <2>1. Len(s) = l
    BY <1>1, <1>3, <1>5
  <2> QED BY <1>1, <1>4, <2>1 DEF Chain
<1>7. ASSUME Len(t) > 0
      PROVE  /\ t[1].frame = k + 1 /\ t[1].pos = 1
             /\ t[Len(t)].frame = n /\ t[Len(t)].pos = Len(Frame(n))
  <2>1. l \in 1..(Len(s) - 1) /\ 1 \in 1..(Len(s) - l) /\ Len(t) \in 1..(Len(s) - l)
    BY <1>1, <1>3, <1>5, <1>7
  <2>2. Follows(s[l], s[l + 1])
    BY <2>1 DEF Chain
  <2>3. ~(s[l].pos < Len(Frame(s[l].frame)))
    BY <1>3, <1>4
  <2>4. s[l + 1].frame = k + 1 /\ s[l + 1].pos = 1
    BY <1>4, <2>2, <2>3 DEF Follows
  <2>5. l + Len(t) = Len(s)
    BY <1>1, <1>3, <1>5
  <2>6. s[Len(s)].frame = n /\ s[Len(s)].pos = Len(Frame(n))
    BY <1>1 DEF Chain
  <2>7. t[1] = s[l + 1] /\ t[Len(t)] = s[Len(s)]
    BY <1>5, <2>1, <2>5
  <2> QED BY <2>4, <2>6, <2>7
<1>8. ASSUME NEW i \in 1..Len(t) PROVE InPlace(t[i], n)
  <2>1. i \in 1..(Len(s) - l) /\ l + i \in 1..Len(s)
    BY <1>1, <1>3, <1>5
  <2> QED BY <1>5, <2>1 DEF Chain
<1>9. ASSUME NEW i \in 1..(Len(t) - 1) PROVE Follows(t[i], t[i + 1])
  <2>1. /\ i \in 1..(Len(s) - l) /\ i + 1 \in 1..(Len(s) - l)
        /\ l + i \in 1..(Len(s) - 1) /\ l + (i + 1) = (l + i) + 1
    BY <1>1, <1>3, <1>5
  <2>2. t[i] = s[l + i] /\ t[i + 1] = s[(l + i) + 1]
    BY <1>5, <2>1
  <2> QED BY <2>1, <2>2 DEF Chain
<1>10. Chain(t, k, n)
  BY <1>3, <1>6, <1>7, <1>8, <1>9 DEF Chain
<1> QED BY <1>10 DEF t

\* The next frame behind a chain makes it longer.
LEMMA ChainAppend ==
  ASSUME NEW s \in Seq(LineByte), NEW c, NEW n \in Nat, n + 1 \in DOMAIN Messages,
         Chain(s, c, n), n # 0 => n \in DOMAIN Messages
  PROVE  Chain(s \o Frame(n + 1), c, n + 1)
<1> DEFINE k == n + 1
           f == Frame(k)
           t == s \o f
<1>1. /\ f \in Seq(LineByte) /\ Len(f) \in Nat /\ Len(f) >= 1
      /\ \A i \in 1..Len(f) : f[i].frame = k /\ f[i].pos = i
  BY FrameLong, FrameOfMessage
<1>2. k \in Nat /\ k >= 1 /\ Len(s) \in Nat
  OBVIOUS
<1>3. c \in 0..k /\ c \in Nat
  BY DEF Chain
<1> HIDE DEF k, f
<1>4. f \in Seq(LineByte)
  BY <1>1
<1>5. /\ t \in Seq(LineByte) /\ Len(t) = Len(s) + Len(f)
      /\ \A i \in 1..Len(s) : t[i] = s[i]
      /\ \A i \in 1..Len(f) : t[Len(s) + i] = f[i]
  BY <1>4, ConcatElements
<1> HIDE DEF t
<1>6. Len(t) \in Nat /\ Len(t) > 0 /\ 1 \in 1..Len(f) /\ Len(f) \in 1..Len(f)
  BY <1>1, <1>2, <1>5
<1>7. t[Len(s) + 1].frame = k /\ t[Len(s) + 1].pos = 1
  BY <1>1, <1>5, <1>6
<1>8. t[Len(t)].frame = k /\ t[Len(t)].pos = Len(Frame(k))
  <2>1. t[Len(t)] = f[Len(f)]
    BY <1>5, <1>6
  <2> QED BY <1>1, <1>6, <2>1 DEF f
<1>9. t[1].frame = c + 1 /\ t[1].pos = 1
  <2>1. CASE Len(s) = 0
    <3>1. c = n
      BY <2>1 DEF Chain
    <3> QED BY <1>7, <2>1, <3>1 DEF k
  <2>2. CASE Len(s) # 0
    <3>1. Len(s) > 0 /\ 1 \in 1..Len(s)
      BY <1>2, <2>2
    <3> QED BY <1>5, <3>1 DEF Chain
  <2> QED BY <2>1, <2>2
<1>10. ASSUME NEW i \in 1..Len(t) PROVE InPlace(t[i], k)
  <2>1. CASE i <= Len(s)
    <3>1. i \in 1..Len(s)
      BY <1>2, <2>1
    <3>2. InPlace(s[i], n)
      BY <3>1 DEF Chain
    <3>3. t[i] = s[i] /\ s[i].frame \in 1..n
      BY <1>5, <3>1, <3>2 DEF InPlace
    <3>4. s[i].frame \in 1..k
      BY <3>3 DEF k
    <3> QED BY <3>2, <3>3, <3>4 DEF InPlace
  <2>2. CASE ~(i <= Len(s))
    <3> DEFINE j == i - Len(s)
    <3>1. j \in 1..Len(f) /\ Len(s) + j = i
      BY <1>1, <1>2, <1>5, <2>2
    <3> HIDE DEF j
    <3>2. t[i] = f[j] /\ f[j].frame = k /\ f[j].pos = j
      BY <1>1, <1>5, <3>1
    <3>3. k \in 1..k
      BY <1>2
    <3> QED BY <3>1, <3>2, <3>3 DEF InPlace, f
  <2> QED BY <2>1, <2>2
<1>11. ASSUME NEW i \in 1..(Len(t) - 1) PROVE Follows(t[i], t[i + 1])
  <2>1. i \in Nat /\ i >= 1 /\ i + 1 <= Len(t)
    BY <1>6
  <2>2. CASE i < Len(s)
    <3>1. i \in 1..(Len(s) - 1) /\ i \in 1..Len(s) /\ i + 1 \in 1..Len(s)
      BY <1>2, <2>1, <2>2
    <3>2. t[i] = s[i] /\ t[i + 1] = s[i + 1]
      BY <1>5, <3>1
    <3> QED BY <3>1, <3>2 DEF Chain
  <2>3. CASE i = Len(s)
    <3>1. Len(s) > 0 /\ i \in 1..Len(s)
      BY <1>2, <2>1, <2>3
    <3>2. t[i].frame = n /\ t[i].pos = Len(Frame(n))
      BY <1>5, <2>3, <3>1 DEF Chain
    <3>3. InPlace(s[i], n)
      BY <3>1 DEF Chain
    <3>4. n # 0
      BY <3>3 DEF InPlace
    <3>5. Len(Frame(n)) \in Nat
      BY <3>4, FrameLong
    <3>6. ~(t[i].pos < Len(Frame(t[i].frame)))
      BY <3>2, <3>5
    <3> QED BY <1>7, <2>3, <3>2, <3>6 DEF Follows, k
  <2>4. CASE i > Len(s)
    <3> DEFINE j == i - Len(s)
    <3>1. /\ j \in 1..Len(f) /\ j + 1 \in 1..Len(f) /\ j < Len(f)
          /\ Len(s) + j = i /\ Len(s) + (j + 1) = i + 1
      BY <1>1, <1>2, <1>5, <2>1, <2>4
    <3> HIDE DEF j
    <3>2. t[i] = f[j] /\ t[i + 1] = f[j + 1]
      BY <1>5, <3>1
    <3>3. f[j].frame = k /\ f[j].pos = j /\ f[j + 1].frame = k /\ f[j + 1].pos = j + 1
      BY <1>1, <3>1
    <3> QED BY <3>1, <3>2, <3>3 DEF Follows, f
  <2> QED BY <1>2, <2>1, <2>2, <2>3, <2>4
<1>12. Chain(t, c, k)
  BY <1>3, <1>6, <1>8, <1>9, <1>10, <1>11 DEF Chain
<1> QED BY <1>12 DEF t, f, k

\* On a line without faults the owner has been given the first frames, and a
\* receiver that waits does not have the whole of the next one.
AlignInv ==
  faults = 0 =>
    /\ Chain(Content, Len(got), sent)
    /\ mismatch = 0
    /\ \A i \in 1..Len(got) : got[i] = Given(i)
    /\ callback => Len(buffer) = 0 \/ Len(buffer) < Len(Frame(Len(got) + 1))

\* Every message fits into the buffer of the receiver.
AllFit == \A k \in DOMAIN Messages : Fits(k)

\* Nothing is found in no bytes.
LEMMA TryNothing == TryEmitOneFrame(<<>>) = Waits(<<>>)
<1>1. {i \in DOMAIN <<>> : (<<>>)[i].v = Low} = {}
  OBVIOUS
<1> QED BY <1>1 DEF TryEmitOneFrame

\* The end of AsyncRead and of HandleReadFrame keeps the frames whole: a
\* frame is given to the owner when it is there, and only then.
LEMMA ProcessAligned ==
  ASSUME OrderInv, AlignInv, AllFit, faults = 0,
         NEW bytes \in Seq(LineByte), NEW rem \in Seq(LineByte),
         bytes \o rem = Content, Process(bytes), line' = rem, UNCHANGED <<sent, faults>>
  PROVE  AlignInv'
<1> DEFINE s == Content
           c == Len(got)
           k == c + 1
           l == Len(Frame(k))
           try == TryEmitOneFrame(bytes)
<1>1. /\ buffer' = try.buffer /\ got' = got \o try.emit
      /\ callback' = (try.emit = <<>>) /\ mismatch' = mismatch + try.bad
  BY DEF Process
<1>2. /\ s \in Seq(LineByte) /\ Len(s) = Len(bytes) + Len(rem)
      /\ \A i \in 1..Len(bytes) : s[i] = bytes[i]
  <2>1. /\ bytes \o rem \in Seq(LineByte) /\ Len(bytes \o rem) = Len(bytes) + Len(rem)
        /\ \A i \in 1..Len(bytes) : (bytes \o rem)[i] = bytes[i]
    BY ConcatElements
  <2> HIDE DEF s
  <2>2. bytes \o rem = s
    BY DEF s
  <2> QED BY <2>1, <2>2
<1>3. /\ Chain(s, c, sent) /\ mismatch = 0 /\ \A i \in 1..c : got[i] = Given(i)
  BY DEF AlignInv
<1>4. sent \in 0..Len(Messages) /\ got \in Seq(Outcome)
  BY DEF OrderInv
<1>5. c \in Nat /\ Len(bytes) \in Nat /\ Len(rem) \in Nat
  BY <1>4
<1>6. bytes \o rem = s
  OBVIOUS
<1> HIDE DEF s, c, try
<1>7. ASSUME try = Waits(bytes), Len(bytes) = 0 \/ Len(bytes) < l
      PROVE  AlignInv'
  <2>1. try.buffer = bytes /\ try.emit = <<>> /\ try.bad = 0
    BY <1>7 DEF Waits
  <2>2. got' = got
    BY <1>1, <1>4, <2>1, ConcatEmpty
  <2>3. Content' = s
    BY <1>1, <1>6, <2>1 DEF Content
  <2>4. Len(got') = c /\ mismatch' = 0
    BY <1>1, <1>3, <2>1, <2>2 DEF c
  <2>5. Len(buffer') = 0 \/ Len(buffer') < Len(Frame(Len(got') + 1))
    BY <1>1, <1>7, <2>1, <2>4
  <2> QED BY <1>3, <2>2, <2>3, <2>4, <2>5 DEF AlignInv
<1>8. CASE bytes = <<>>
  <2>1. try = Waits(bytes) /\ Len(bytes) = 0
    BY <1>8, TryNothing DEF try
  <2> QED BY <1>7, <2>1
<1>9. CASE bytes # <<>>
  <2>1. Len(bytes) > 0 /\ Len(s) > 0
    <3>1. Len(bytes) # 0
      BY <1>9
    <3> QED BY <1>2, <1>5, <3>1
  <2>2. /\ k \in DOMAIN Messages /\ l <= Len(s) /\ \A i \in 1..l : s[i] = Frame(k)[i]
    BY <1>2, <1>3, <1>4, <2>1, ChainPrefix
  <2>3. Fits(k) /\ l \in Nat /\ l >= 1
    BY <2>2, FrameLong DEF AllFit
  <2>4. ASSUME NEW i \in 1..Len(bytes), i <= l PROVE bytes[i] = Frame(k)[i]
    <3>1. i \in 1..l
      BY <2>3, <2>4
    <3> QED BY <1>2, <2>2, <3>1
  <2>5. /\ Len(bytes) < l => try = Waits(bytes)
        /\ Len(bytes) >= l => try = [ret |-> TRUE, buffer |-> Consume(bytes, l),
                                     emit |-> <<Given(k)>>, bad |-> 0]
    BY <2>2, <2>3, <2>4, TryEmitAligned DEF try
  <2>6. CASE Len(bytes) < l
    BY <1>7, <2>5, <2>6
  <2>7. CASE ~(Len(bytes) < l)
    <3>1. Len(bytes) >= l /\ l \in 0..Len(bytes)
      BY <1>5, <2>3, <2>7
    <3>2. try.buffer = Consume(bytes, l) /\ try.emit = <<Given(k)>> /\ try.bad = 0
      BY <2>5, <3>1
    <3>3. Content' = Consume(s, l)
      <4>1. Consume(bytes, l) \o rem = Consume(bytes \o rem, l)
        BY <3>1, ConsumeConcat
      <4> QED BY <1>1, <1>6, <3>2, <4>1 DEF Content
    <3>4. Chain(Content', k, sent)
      BY <1>2, <1>3, <1>4, <2>1, <3>3, ChainAdvance
    <3>5. Given(k) \in Outcome
      BY <2>2, GivenFields
    <3>6. got' = Append(got, Given(k))
      BY <1>1, <1>4, <3>2, <3>5, AppendIsConcat
    <3>7. /\ Len(got') = k /\ got'[k] = Given(k)
          /\ \A i \in 1..c : got'[i] = got[i]
      BY <1>4, <3>5, <3>6 DEF c
    <3>8. ASSUME NEW i \in 1..Len(got') PROVE got'[i] = Given(i)
      <4>1. i \in 1..c \/ i = k
        BY <1>5, <3>7
      <4> QED BY <1>3, <3>7, <4>1
    <3>9. mismatch' = 0 /\ ~callback'
      <4>1. <<Given(k)>> # <<>>
        BY <3>5, SingletonSeq
      <4>2. mismatch' = 0
        BY <1>1, <1>3, <3>2
      <4> QED BY <1>1, <3>2, <4>1, <4>2
    <3>10. Chain(Content', Len(got'), sent')
      BY <3>4, <3>7
    <3> QED BY <3>8, <3>9, <3>10 DEF AlignInv
  <2> QED BY <2>6, <2>7
<1> QED BY <1>8, <1>9

\* Every step keeps the frames whole.
LEMMA AlignStep ==
  ASSUME OrderInv, AlignInv, AllFit, [Next]_vars
  PROVE  AlignInv'
<1>1. /\ buffer \in Seq(LineByte) /\ line \in Seq(LineByte) /\ faults \in Nat
      /\ sent \in 0..Len(Messages) /\ sent \in Nat
  BY MessageNumbers, BufferAssumption DEF OrderInv
<1>2. CASE faults' # 0
  BY <1>2 DEF AlignInv
<1>3. CASE faults' = 0
  <2>1. CASE AsyncRead
    <3>1. Process(buffer) /\ line' = line /\ UNCHANGED <<sent, faults>> /\ faults = 0
      BY <1>3, <2>1 DEF AsyncRead
    <3>2. buffer \o line = Content
      BY DEF Content
    <3> QED BY <1>1, <3>1, <3>2, ProcessAligned
  <2>2. CASE HandleReadFrame
    <3>1. PICK n \in 1..Len(line) :
            /\ n <= StartReadFrame /\ Process(buffer \o SubSeq(line, 1, n))
            /\ line' = Consume(line, n)
      BY <2>2 DEF HandleReadFrame
    <3>2. UNCHANGED <<sent, faults>> /\ faults = 0
      BY <1>3, <2>2 DEF HandleReadFrame
    <3> DEFINE bytes == buffer \o SubSeq(line, 1, n)
               rem == Consume(line, n)
    <3>3. bytes \in Seq(LineByte) /\ rem \in Seq(LineByte) /\ bytes \o rem = Content
      BY <3>1, ReadSplit
    <3>4. Process(bytes) /\ line' = rem
      BY <3>1
    <3> HIDE DEF bytes, rem
    <3> QED BY <3>2, <3>3, <3>4, ProcessAligned
  <2>3. CASE AsyncWrite
    <3> DEFINE t == Frame(sent + 1)
    <3>1. /\ sent' = sent + 1 /\ line' = line \o t /\ faults = 0
          /\ buffer' = buffer /\ got' = got /\ mismatch' = mismatch /\ callback' = callback
          /\ sent < Len(Messages)
      BY <1>3, <2>3 DEF AsyncWrite
    <3>2. sent + 1 \in DOMAIN Messages /\ (sent # 0 => sent \in DOMAIN Messages)
      BY <1>1, <3>1, MessageNumbers
    <3>3. t \in Seq(LineByte)
      BY <3>2, FrameLong
    <3> HIDE DEF t
    <3>4. Content' = Content \o t /\ Content \in Seq(LineByte)
      <4>1. (buffer \o line) \o t = buffer \o (line \o t)
        BY <1>1, <3>3, LineAssoc
      <4>2. buffer \o line \in Seq(LineByte)
        BY <1>1, ConcatElements
      <4> QED BY <3>1, <4>1, <4>2 DEF Content
    <3>5. Chain(Content, Len(got), sent)
      BY <3>1 DEF AlignInv
    <3>6. Chain(Content \o t, Len(got), sent + 1)
      BY <1>1, <3>2, <3>4, <3>5, ChainAppend DEF t
    <3>7. Chain(Content', Len(got'), sent')
      BY <3>1, <3>4, <3>6
    <3> QED BY <3>1, <3>7 DEF AlignInv
  <2>4. CASE LineInserts \/ LineLoses \/ HandleReadError
    <3>1. faults' = faults + 1
      BY <2>4 DEF LineInserts, LineLoses, HandleReadError
    <3> QED BY <1>1, <1>3, <3>1
  <2>5. CASE UNCHANGED vars
    BY <2>5 DEF vars, AlignInv, Content
  <2> QED BY <2>1, <2>2, <2>3, <2>4, <2>5 DEF Next
<1> QED BY <1>2, <1>3

\* Nothing has been sent at first.
LEMMA AlignInit ==
  ASSUME Init
  PROVE  AlignInv
<1>1. /\ buffer = <<>> /\ line = <<>> /\ got = <<>> /\ sent = 0
      /\ callback = FALSE /\ mismatch = 0
  BY DEF Init
<1>2. Content = <<>>
  BY <1>1, EmptyIsSeq, ConcatEmpty DEF Content
<1>3. Len(Content) = 0 /\ Len(got) = 0
  BY <1>1, <1>2
<1>4. Chain(Content, Len(got), sent)
  BY <1>1, <1>3 DEF Chain
<1>5. 1..Len(got) = {}
  BY <1>3
<1> QED BY <1>1, <1>4, <1>5 DEF AlignInv

\* Once every message fits into the buffer, the frames stay whole on a line
\* without faults.
THEOREM AlignInvariant ==
  ASSUME AllFit
  PROVE  Spec => []AlignInv
<1>1. Init => AlignInv
  BY AlignInit
<1>2. OrderInv /\ AlignInv /\ [Next]_vars => AlignInv'
  BY AlignStep
<1> QED BY <1>1, <1>2, OrderInvariant, PTL DEF Spec

\* Frames arrive as they were sent, whatever the line does; on a line without
\* faults no checksum ever fails, because bytes of a payload that look like
\* a header never start a frame, however the stream cuts the bytes.
THEOREM NoChecksumFails ==
  ASSUME AllFit
  PROVE  Spec => []DeliveredAsSent
<1>1. OrderInv /\ AlignInv /\ FramesAsSent => DeliveredAsSent
  BY BufferAssumption DEF OrderInv, AlignInv, DeliveredAsSent
<1> QED BY <1>1, OrderInvariant, AlignInvariant, OwnersGetWhatWasSent, PTL

\* On a line without faults nothing is held back: when an owner of AsyncRead
\* waits and the line is empty, it has been given every frame that was sent.
THEOREM EveryFrameArrives ==
  ASSUME AllFit
  PROVE  Spec => []NothingHeldBack
<1>1. OrderInv /\ AlignInv => NothingHeldBack
  <2> SUFFICES ASSUME OrderInv, AlignInv, faults = 0, callback, line = <<>>
               PROVE  {got[i].frame : i \in Delivered} = 1..sent
    BY DEF NothingHeldBack
  <2>1. /\ buffer \in Seq(LineByte) /\ got \in Seq(Outcome) /\ sent \in 0..Len(Messages)
    BY DEF OrderInv
  <2>2. Content = buffer
    BY <2>1, ConcatEmpty DEF Content
  <2>3. /\ Chain(buffer, Len(got), sent) /\ \A i \in 1..Len(got) : got[i] = Given(i)
        /\ Len(buffer) = 0 \/ Len(buffer) < Len(Frame(Len(got) + 1))
    BY <2>2 DEF AlignInv
  <2>4. Len(buffer) = 0
    <3> SUFFICES ASSUME Len(buffer) # 0 PROVE FALSE
      OBVIOUS
    <3>1. Len(buffer) > 0 /\ Len(buffer) \in Nat
      BY <2>1
    <3>2. Len(Frame(Len(got) + 1)) <= Len(buffer) /\ Len(got) + 1 \in DOMAIN Messages
      BY <2>1, <2>3, <3>1, ChainPrefix
    <3>3. Len(Frame(Len(got) + 1)) \in Nat
      BY <3>2, FrameLong
    <3> QED BY <2>3, <3>1, <3>2, <3>3
  <2>5. Len(got) = sent
    BY <2>3, <2>4 DEF Chain
  <2>6. DOMAIN got = 1..sent
    BY <2>1, <2>5
  <2>7. ASSUME NEW i \in 1..sent PROVE got[i].frame = i /\ i # 0
    <3>1. i \in DOMAIN Messages
      BY <2>1, MessageNumbers
    <3>2. got[i] = Given(i)
      BY <2>3, <2>5
    <3> QED BY <3>1, <3>2, GivenFields
  <2>8. Delivered = 1..sent
    BY <2>6, <2>7 DEF Delivered
  <2> QED BY <2>7, <2>8
<1> QED BY <1>1, OrderInvariant, AlignInvariant, PTL
=============================================================================
