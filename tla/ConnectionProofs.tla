---------------------------- MODULE ConnectionProofs ----------------------------
(* Theorems about Connection and Wire for every script of frames, however    *)
(* many bytes and messages wait anywhere.                                    *)
EXTENDS Connection, SequenceTheorems, TLAPS

-----------------------------------------------------------------------------
(* Arithmetic: the remainder of a sum.                                       *)

LEMMA Division ==
  ASSUME NEW n \in Nat \ {0}, NEW a \in Nat
  PROVE  a = n * (a \div n) + (a % n) /\ a % n \in 0 .. n - 1 /\ a \div n \in Nat
OBVIOUS

LEMMA RemainderUnique ==
  ASSUME NEW n \in Nat \ {0}, NEW q \in Int, NEW p \in Int,
         NEW r \in 0 .. n - 1, NEW s \in 0 .. n - 1, n * q + r = n * p + s
  PROVE  r = s
<1>1. ~(q < p)
  <2>1. SUFFICES ASSUME q < p PROVE FALSE
    OBVIOUS
  <2>2. n * (p - q - 1) >= 0
    BY <2>1
  <2>3. n * (p - q - 1) = n * p - n * q - n
    OBVIOUS
  <2>4. QED
    BY <2>2, <2>3
<1>2. ~(p < q)
  <2>1. SUFFICES ASSUME p < q PROVE FALSE
    OBVIOUS
  <2>2. n * (q - p - 1) >= 0
    BY <2>1
  <2>3. n * (q - p - 1) = n * q - n * p - n
    OBVIOUS
  <2>4. QED
    BY <2>2, <2>3
<1>3. QED
  BY <1>1, <1>2

LEMMA RemainderOfSum ==
  ASSUME NEW n \in Nat \ {0}, NEW a \in Nat, NEW j \in Nat
  PROVE  ((a % n) + j) % n = (a + j) % n
<1> DEFINE b == (a % n) + j
<1>1. a = n * (a \div n) + (a % n) /\ a % n \in 0 .. n - 1 /\ a \div n \in Nat
  BY Division
<1>2. b \in Nat /\ a + j \in Nat
  BY <1>1
<1>3. b = n * (b \div n) + (b % n) /\ b % n \in 0 .. n - 1 /\ b \div n \in Nat
  BY <1>2, Division
<1>4. /\ a + j = n * ((a + j) \div n) + ((a + j) % n)
      /\ (a + j) % n \in 0 .. n - 1 /\ (a + j) \div n \in Nat
  BY <1>2, Division
<1>5. n * ((a \div n) + (b \div n)) = n * (a \div n) + n * (b \div n)
  BY <1>1, <1>3
<1>6. n * ((a \div n) + (b \div n)) + (b % n) = n * ((a + j) \div n) + ((a + j) % n)
  BY <1>1, <1>3, <1>4, <1>5
<1>7. (a \div n) + (b \div n) \in Int /\ (a + j) \div n \in Int
  BY <1>1, <1>3, <1>4
<1> HIDE DEF b
<1>8. b % n = (a + j) % n
  BY <1>3, <1>4, <1>6, <1>7, RemainderUnique
<1>9. QED
  BY <1>8 DEF b

-----------------------------------------------------------------------------
(* Sequences put together and cut again.                                     *)

LEMMA RestOfConcat ==
  ASSUME NEW S, NEW s \in Seq(S), NEW t \in Seq(S)
  PROVE  SubSeq(s \o t, Len(s) + 1, Len(s) + Len(t)) = t
<1> DEFINE u == SubSeq(s \o t, Len(s) + 1, Len(s) + Len(t))
<1>1. Len(s) \in Nat /\ Len(t) \in Nat
  BY LenProperties
<1>2. \A i \in 1 .. Len(s) + Len(t) : (s \o t)[i] = IF i <= Len(s) THEN s[i] ELSE t[i - Len(s)]
  BY ConcatProperties
<1>3. \A i \in 1 .. Len(t) : t[i] \in S
  BY ElementOfSeq
<1>4. \A i \in Len(s) + 1 .. Len(s) + Len(t) : (s \o t)[i] = t[i - Len(s)] /\ (s \o t)[i] \in S
  BY <1>1, <1>2, <1>3
<1>5. /\ u \in Seq(S) /\ Len(u) = IF Len(s) + 1 <= Len(s) + Len(t)
                                  THEN Len(s) + Len(t) - (Len(s) + 1) + 1 ELSE 0
      /\ \A i \in 1 .. Len(s) + Len(t) - (Len(s) + 1) + 1 : u[i] = (s \o t)[Len(s) + 1 + i - 1]
  <2>1. Len(s) + 1 \in Int /\ Len(s) + Len(t) \in Int
    BY <1>1
  <2>2. QED
    BY <1>4, <2>1, SubSeqProperties
<1>6. Len(u) = Len(t) /\ \A i \in 1 .. Len(t) : u[i] = t[i]
  <2>1. Len(u) = Len(t)
    BY <1>1, <1>5
  <2>2. ASSUME NEW i \in 1 .. Len(t) PROVE u[i] = t[i]
    <3>1. /\ i \in 1 .. Len(s) + Len(t) - (Len(s) + 1) + 1
          /\ Len(s) + 1 + i - 1 = Len(s) + i /\ Len(s) + i \in Len(s) + 1 .. Len(s) + Len(t)
          /\ Len(s) + i - Len(s) = i
      BY <1>1
    <3>2. QED
      BY <3>1, <1>4, <1>5
  <2>3. QED
    BY <2>1, <2>2
<1> HIDE DEF u
<1>7. u = t
  BY <1>5, <1>6, SeqEqual
<1>8. QED
  BY <1>7 DEF u

LEMMA StartOfConcat ==
  ASSUME NEW S, NEW s \in Seq(S), NEW t \in Seq(S)
  PROVE  SubSeq(s \o t, 1, Len(s)) = s
<1>1. CASE s = <<>>
  BY <1>1, EmptySeq, SubSeqEmpty
<1>2. CASE s # <<>>
  <2>1. Len(s) \in Nat \ {0}
    BY <1>2, EmptySeq
  <2>2. 1 \in 1 .. Len(s) /\ Len(s) \in 1 .. Len(s)
    BY <2>1
  <2>3. QED
    BY <2>2, SubSeqOfConcat1, SubSeqFull
<1>3. QED
  BY <1>1, <1>2

LEMMA OneMore ==
  ASSUME NEW S, NEW x \in S, NEW t \in Seq(S)
  PROVE  /\ <<x>> \o t \in Seq(S) /\ Len(<<x>> \o t) = 1 + Len(t)
         /\ (<<x>> \o t)[1] = x /\ Tail(<<x>> \o t) = t
<1> DEFINE s == <<x>>
<1>1. s \in Seq(S) /\ Len(s) = 1 /\ s[1] = x /\ Len(t) \in Nat
  BY LenProperties
<1> HIDE DEF s
<1>2. /\ s \o t \in Seq(S) /\ Len(s \o t) = Len(s) + Len(t)
      /\ \A k \in 1 .. Len(s) + Len(t) : (s \o t)[k] = IF k <= Len(s) THEN s[k] ELSE t[k - Len(s)]
  BY <1>1, ConcatProperties
<1>3. Len(s \o t) = 1 + Len(t) /\ (s \o t)[1] = x
  BY <1>1, <1>2
<1>4. s \o t # <<>>
  BY <1>1, <1>2, <1>3, EmptySeq
<1>5. Tail(s \o t) = SubSeq(s \o t, 2, 1 + Len(t))
  BY <1>2, <1>3, <1>4, TailIsSubSeq
<1>6. Tail(s \o t) = t
  <2>1. SubSeq(s \o t, Len(s) + 1, Len(s) + Len(t)) = t
    BY <1>1, RestOfConcat
  <2>2. QED
    BY <2>1, <1>1, <1>5
<1>7. QED
  BY <1>2, <1>3, <1>6 DEF s

LEMMA FirstAndTail ==
  ASSUME NEW S, NEW s \in Seq(S), s # <<>>
  PROVE  s = <<s[1]>> \o Tail(s)
<1>1. s[1] \in S /\ Tail(s) \in Seq(S) /\ Len(s) \in Nat \ {0} /\ Len(Tail(s)) = Len(s) - 1
  BY EmptySeq, LenProperties, ElementOfSeq, HeadTailProperties
<1>2. \A i \in 1 .. Len(s) - 1 : Tail(s)[i] = s[i + 1]
  BY HeadTailProperties
<1> DEFINE u == <<s[1]>> \o Tail(s)
<1>3. u \in Seq(S) /\ Len(u) = Len(s) /\ u[1] = s[1] /\ Tail(u) = Tail(s)
  BY <1>1, OneMore
<1>4. \A i \in 1 .. Len(u) - 1 : Tail(u)[i] = u[i + 1]
  <2> HIDE DEF u
  <2>1. u # <<>>
    BY <1>1, <1>3, EmptySeq
  <2>2. QED
    BY <1>3, <2>1, HeadTailProperties
<1> HIDE DEF u
<1>5. ASSUME NEW i \in 1 .. Len(s) PROVE s[i] = u[i]
  <2>1. CASE i = 1
    BY <2>1, <1>3
  <2>2. CASE i # 1
    <3>1. i - 1 \in 1 .. Len(s) - 1 /\ (i - 1) + 1 = i
      BY <1>1, <2>2
    <3>2. Tail(s)[i - 1] = s[i] /\ Tail(u)[i - 1] = u[i]
      BY <3>1, <1>2, <1>3, <1>4
    <3>3. QED
      BY <3>2, <1>3
  <2>3. QED
    BY <2>1, <2>2
<1>6. s = u
  BY <1>3, <1>5, SeqEqual
<1>7. QED
  BY <1>6 DEF u

LEMMA CutInTwo ==
  ASSUME NEW S, NEW s \in Seq(S), NEW k \in Nat, k <= Len(s)
  PROVE  SubSeq(s, 1, k) \o SubSeq(s, k + 1, Len(s)) = s
<1>1. Len(s) \in Nat
  BY LenProperties
<1>2. SubSeq(s, 1, k) \o SubSeq(s, k + 1, Len(s)) = SubSeq(s, 1, Len(s))
  <2>1. /\ 1 \in 1 .. Len(s) + 1 /\ k \in 1 - 1 .. Len(s) /\ Len(s) \in k .. Len(s)
    BY <1>1
  <2>2. QED
    BY <2>1, ConcatAdjacentSubSeq
<1>3. SubSeq(s, 1, Len(s)) = s
  BY SubSeqFull
<1>4. QED
  BY <1>2, <1>3

-----------------------------------------------------------------------------
(* Wire: what encode_message() writes, parse_frame() reads.                  *)

LEMMA Powers == 256 ^ 3 = 16777216 /\ 256 ^ 2 = 65536 /\ 256 ^ 1 = 256 /\ 256 ^ 0 = 1
  BY SMT

LEMMA FromBytesType ==
  ASSUME NEW b \in Seq(Byte), Len(b) >= 4
  PROVE  FromBytes(b) \in Nat
<1>1. b[1] \in Byte /\ b[2] \in Byte /\ b[3] \in Byte /\ b[4] \in Byte
  OBVIOUS
<1>2. FromBytes(b) = b[1] * 16777216 + b[2] * 65536 + b[3] * 256 + b[4]
  BY Powers, SMT DEF FromBytes
<1>3. b[1] \in Nat /\ b[2] \in Nat /\ b[3] \in Nat /\ b[4] \in Nat
  BY <1>1 DEF Byte
<1> HIDE DEF FromBytes
<1>4. PICK m, n, p, q \in Nat : b[1] = m /\ b[2] = n /\ b[3] = p /\ b[4] = q
  BY <1>3
<1>5. FromBytes(b) = m * 16777216 + n * 65536 + p * 256 + q
  BY <1>2, <1>4, SMT
<1>6. m * 16777216 + n * 65536 + p * 256 + q \in Nat
  BY SMT
<1>7. QED
  BY <1>5, <1>6, SMT

U32(n) == n \in Nat /\ n < 4294967296

LEMMA FrameLengthType ==
  ASSUME NEW b \in Seq(Byte), Len(b) >= 4
  PROVE  FrameLength(b) \in Nat
<1>1. \A i \in 1 .. Len(b) : b[i] \in Byte
  BY ElementOfSeq
<1>2. Len(b) \in Nat
  BY LenProperties
<1>3. \A i \in 1 .. 4 : b[i] \in Byte
  BY <1>1, <1>2
<1>4. SubSeq(b, 1, 4) \in Seq(Byte) /\ Len(SubSeq(b, 1, 4)) = 4
  <2>1. Len(SubSeq(b, 1, 4)) = IF 1 <= 4 THEN 4 - 1 + 1 ELSE 0
    BY <1>3, SubSeqProperties
  <2>2. SubSeq(b, 1, 4) \in Seq(Byte)
    BY <1>3, SubSeqProperties
  <2>3. QED
    BY <2>1, <2>2
<1> DEFINE h == SubSeq(b, 1, 4)
<1>5. h \in Seq(Byte) /\ Len(h) >= 4
  BY <1>4
<1> HIDE DEF h
<1>6. FromBytes(h) \in Nat
  BY <1>5, FromBytesType
<1>7. QED
  BY <1>6 DEF FrameLength, h

LEMMA BytesOfNumber ==
  ASSUME NEW n, U32(n)
  PROVE  /\ ToBytes(n) \in Seq(Byte) /\ Len(ToBytes(n)) = 4
         /\ FromBytes(ToBytes(n)) = n
<1>1. /\ 256 ^ (4 - 1) = 16777216 /\ 256 ^ (4 - 2) = 65536
      /\ 256 ^ (4 - 3) = 256 /\ 256 ^ (4 - 4) = 1
  BY SMT
<1>2. /\ ToBytes(n)[1] = (n \div 16777216) % 256 /\ ToBytes(n)[2] = (n \div 65536) % 256
      /\ ToBytes(n)[3] = (n \div 256) % 256 /\ ToBytes(n)[4] = n % 256
  BY <1>1, SMT DEF ToBytes, U32
<1>3. /\ ToBytes(n)[1] \in Byte /\ ToBytes(n)[2] \in Byte
      /\ ToBytes(n)[3] \in Byte /\ ToBytes(n)[4] \in Byte
  BY <1>2, SMT DEF Byte, U32
<1>4. FromBytes(ToBytes(n)) = ToBytes(n)[1] * 16777216 + ToBytes(n)[2] * 65536
                              + ToBytes(n)[3] * 256 + ToBytes(n)[4]
  BY Powers, <1>3, SMT DEF FromBytes
<1>5. FromBytes(ToBytes(n)) = n
  BY <1>2, <1>4, SMT DEF U32
<1>6. ToBytes(n) \in Seq(Byte) /\ Len(ToBytes(n)) = 4
  BY <1>3, SMT DEF ToBytes
<1>7. QED
  BY <1>5, <1>6

(* Message, as encode_message() is given it and parse_frame() returns it *)
Legal(m) ==
    \/ m = KeepAlive
    \/ /\ m \in AnyMessage /\ m.id \in 0 .. 20
       /\ Len(m.numbers) = Numbers(m.id) /\ RestMayBe(m.id, Len(m.rest))
       /\ \A j \in 1 .. Len(m.numbers) : U32(m.numbers[j])

NumberBytes(m) ==
    [k \in 1 .. 4 * Len(m.numbers) |-> ToBytes(m.numbers[(k + 3) \div 4])[((k - 1) % 4) + 1]]

LEMMA NumberBytesType ==
  ASSUME NEW m, Legal(m), m # KeepAlive
  PROVE  /\ NumberBytes(m) \in Seq(Byte) /\ Len(NumberBytes(m)) = 4 * Len(m.numbers)
         /\ \A j \in 1 .. Len(m.numbers), i \in 1 .. 4 :
                /\ 4 * j - 4 + i \in 1 .. 4 * Len(m.numbers)
                /\ NumberBytes(m)[4 * j - 4 + i] = ToBytes(m.numbers[j])[i]
<1> DEFINE n == Len(m.numbers)
<1>1. n \in Nat /\ m.numbers \in Seq(Nat)
  BY DEF Legal, AnyMessage
<1>2. \A j \in 1 .. n : U32(m.numbers[j])
  BY <1>1, SMT DEF Legal
<1>3. \A j \in 1 .. n : ToBytes(m.numbers[j]) \in Seq(Byte) /\ Len(ToBytes(m.numbers[j])) = 4
  BY <1>2, BytesOfNumber, SMT
<1>4. ASSUME NEW k \in 1 .. 4 * n
      PROVE  (k + 3) \div 4 \in 1 .. n /\ ((k - 1) % 4) + 1 \in 1 .. 4
  BY <1>1, SMT
<1>5. ASSUME NEW k \in 1 .. 4 * n PROVE NumberBytes(m)[k] \in Byte
  <2>1. NumberBytes(m)[k] = ToBytes(m.numbers[(k + 3) \div 4])[((k - 1) % 4) + 1]
    BY DEF NumberBytes
  <2>2. QED
    BY <2>1, <1>3, <1>4, SMT
<1>6. NumberBytes(m) \in Seq(Byte) /\ Len(NumberBytes(m)) = 4 * n
  <2>1. 4 * n \in Nat /\ DOMAIN NumberBytes(m) = 1 .. 4 * n
    BY <1>1 DEF NumberBytes
  <2>2. NumberBytes(m) = [k \in 1 .. 4 * n |-> NumberBytes(m)[k]]
    BY <2>1 DEF NumberBytes
  <2>3. NumberBytes(m) \in [1 .. 4 * n -> Byte]
    BY <1>5, <2>2
  <2>4. QED
    BY <2>1, <2>3, SMT
<1>7. ASSUME NEW j \in 1 .. n, NEW i \in 1 .. 4
      PROVE  /\ 4 * j - 4 + i \in 1 .. 4 * n
             /\ NumberBytes(m)[4 * j - 4 + i] = ToBytes(m.numbers[j])[i]
  <2>1. /\ 4 * j - 4 + i \in 1 .. 4 * n
        /\ ((4 * j - 4 + i) + 3) \div 4 = j /\ (((4 * j - 4 + i) - 1) % 4) + 1 = i
    BY <1>1, SMT
  <2>2. QED
    BY <2>1 DEF NumberBytes
<1>8. QED
  BY <1>6, <1>7

LEMMA BodyIs ==
  ASSUME NEW m, Legal(m), m # KeepAlive
  PROVE  /\ Body(m) = <<m.id>> \o NumberBytes(m) \o m.rest
         /\ Body(m) \in Seq(Byte) /\ Len(Body(m)) = 1 + 4 * Len(m.numbers) + Len(m.rest)
         /\ Body(m)[1] = m.id
         /\ Tail(Body(m)) = NumberBytes(m) \o m.rest
<1>1. m.id \in Byte /\ m.rest \in Seq(Byte) /\ Len(m.numbers) \in Nat
  <2>1. m.id \in Nat /\ m.id < 256
    BY DEF Legal
  <2>2. QED
    BY <2>1 DEF Legal, AnyMessage, Byte
<1>2. Body(m) = <<m.id>> \o NumberBytes(m) \o m.rest
  <2> DEFINE field == [j \in 1 .. Len(m.numbers) |-> ToBytes(m.numbers[j])]
  <2>1. ASSUME NEW k \in 1 .. 4 * Len(m.numbers)
        PROVE  field[(k + 3) \div 4][((k - 1) % 4) + 1]
               = ToBytes(m.numbers[(k + 3) \div 4])[((k - 1) % 4) + 1]
    <3>1. (k + 3) \div 4 \in 1 .. Len(m.numbers)
      BY <1>1, SMT
    <3>2. QED
      BY <3>1
  <2>2. NumberBytes(m)
        = [k \in 1 .. 4 * Len(m.numbers) |-> field[(k + 3) \div 4][((k - 1) % 4) + 1]]
    BY <2>1 DEF NumberBytes
  <2>3. QED
    BY <2>2, Zenon DEF Body
<1>3. NumberBytes(m) \in Seq(Byte) /\ Len(NumberBytes(m)) = 4 * Len(m.numbers)
  BY NumberBytesType
<1>4. /\ NumberBytes(m) \o m.rest \in Seq(Byte)
      /\ Len(NumberBytes(m) \o m.rest) = 4 * Len(m.numbers) + Len(m.rest)
  <2>1. /\ NumberBytes(m) \o m.rest \in Seq(Byte)
        /\ Len(NumberBytes(m) \o m.rest) = Len(NumberBytes(m)) + Len(m.rest)
    BY <1>1, <1>3, ConcatProperties
  <2>2. QED
    BY <2>1, <1>3
<1> DEFINE x == m.id
           s == NumberBytes(m)
           t == m.rest
<1>5. x \in Byte /\ s \in Seq(Byte) /\ t \in Seq(Byte) /\ s \o t \in Seq(Byte) /\ Len(t) \in Nat
  BY <1>1, <1>3, <1>4, LenProperties
<1>6. Body(m) = <<x>> \o s \o t
  BY <1>2
<1> HIDE DEF x, s, t
<1>7. <<x>> \in Seq(Byte)
  BY <1>5
<1>8. <<x>> \o s \o t = <<x>> \o (s \o t)
  BY <1>5, <1>7, ConcatAssociative
<1>9. /\ <<x>> \o (s \o t) \in Seq(Byte) /\ Len(<<x>> \o (s \o t)) = 1 + Len(s \o t)
      /\ (<<x>> \o (s \o t))[1] = x /\ Tail(<<x>> \o (s \o t)) = s \o t
  BY <1>5, OneMore
<1>10. /\ Body(m) \in Seq(Byte) /\ Len(Body(m)) = 1 + Len(s \o t)
       /\ Body(m)[1] = x /\ Tail(Body(m)) = s \o t
  BY <1>6, <1>8, <1>9
<1>11. Len(Body(m)) = 1 + 4 * Len(m.numbers) + Len(m.rest)
  <2>1. Len(s \o t) = 4 * Len(m.numbers) + Len(t)
    BY <1>4 DEF s, t
  <2>2. Len(Body(m)) = 1 + 4 * Len(m.numbers) + Len(t)
    BY <2>1, <1>1, <1>5, <1>10
  <2>3. QED
    BY <2>2 DEF t
<1>12. QED
  BY <1>2, <1>10, <1>11 DEF x, s, t

LEMMA NumberIs ==
  ASSUME NEW m, Legal(m), m # KeepAlive, NEW j \in 1 .. Len(m.numbers)
  PROVE  Number(NumberBytes(m) \o m.rest, j, Len(m.numbers)) = m.numbers[j]
<1> DEFINE s == NumberBytes(m)
           t == m.rest
           b == ToBytes(m.numbers[j])
           u == SubSeq(s \o t, 4 * j - 3, 4 * j)
<1>1. m.numbers \in Seq(Nat) /\ m.rest \in Seq(Byte) /\ Len(m.numbers) \in Nat
  BY DEF Legal, AnyMessage
<1>2. U32(m.numbers[j])
  BY <1>1, SMT DEF Legal
<1>3. b \in Seq(Byte) /\ Len(b) = 4 /\ FromBytes(b) = m.numbers[j]
  BY <1>2, BytesOfNumber, SMT
<1>4. /\ s \in Seq(Byte) /\ Len(s) = 4 * Len(m.numbers)
      /\ \A i \in 1 .. 4 : 4 * j - 4 + i \in 1 .. 4 * Len(m.numbers) /\ s[4 * j - 4 + i] = b[i]
  BY NumberBytesType
<1>5. 4 * j - 3 \in 1 .. Len(s) /\ 4 * j \in 1 .. Len(s)
  BY <1>1, <1>4, SMT
<1> HIDE DEF s, t, b
<1>6. u = SubSeq(s, 4 * j - 3, 4 * j)
  <2>1. t \in Seq(Byte)
    BY <1>1 DEF t
  <2>2. QED
    BY <2>1, <1>4, <1>5, SubSeqOfConcat1
<1> HIDE DEF u
<1>7. \A i \in 1 .. 4 : u[i] = s[4 * j - 3 + i - 1]
  <2>1. \A k \in 4 * j - 3 .. 4 * j : s[k] \in Byte
    BY <1>4, <1>5, ElementOfSeq, SMT
  <2>2. 4 * j - 3 \in Int /\ 4 * j \in Int
    OBVIOUS
  <2>3. \A i \in 1 .. 4 * j - (4 * j - 3) + 1 : SubSeq(s, 4 * j - 3, 4 * j)[i] = s[4 * j - 3 + i - 1]
    BY <2>1, <2>2, SubSeqProperties
  <2>4. 4 * j - (4 * j - 3) + 1 = 4
    OBVIOUS
  <2>5. QED
    BY <2>3, <2>4, <1>6
<1>8. u[1] = b[1] /\ u[2] = b[2] /\ u[3] = b[3] /\ u[4] = b[4]
  <2>1. ASSUME NEW i \in 1 .. 4 PROVE u[i] = b[i]
    <3>1. 4 * j - 3 + i - 1 = 4 * j - 4 + i
      OBVIOUS
    <3>2. QED
      BY <3>1, <1>4, <1>7
  <2>2. QED
    BY <2>1
<1>9. FromBytes(u) = FromBytes(b)
  BY <1>8, Zenon DEF FromBytes
<1>10. QED
  BY <1>3, <1>9 DEF Number, u, s, t

LEMMA BodyIsUnderstood ==
  ASSUME NEW m, Legal(m)
  PROVE  Parsed(Body(m)) = m
<1>1. CASE m = KeepAlive
  BY <1>1 DEF Body, Parsed
<1>2. CASE m # KeepAlive
  <2> DEFINE n == Len(m.numbers)
             s == NumberBytes(m)
             t == m.rest
  <2>1. m \in AnyMessage /\ n = Numbers(m.id) /\ RestMayBe(m.id, Len(t))
    BY <1>2 DEF Legal
  <2>2. m.numbers \in Seq(Nat) /\ t \in Seq(Byte) /\ n \in Nat /\ Len(t) \in Nat
    BY <2>1 DEF AnyMessage
  <2>3. /\ Body(m) \in Seq(Byte) /\ Len(Body(m)) = 1 + 4 * n + Len(t)
        /\ Body(m)[1] = m.id /\ Tail(Body(m)) = s \o t
    BY <1>2, BodyIs
  <2>4. s \in Seq(Byte) /\ Len(s) = 4 * n
    BY <1>2, NumberBytesType
  <2>5. [j \in 1 .. n |-> Number(s \o t, j, n)] = m.numbers
    <3>1. \A j \in 1 .. n : Number(s \o t, j, n) = m.numbers[j]
      BY <1>2, NumberIs
    <3>2. m.numbers \in [1 .. n -> Nat]
      BY <2>2, LenProperties
    <3> HIDE DEF s, t, n
    <3>3. m.numbers = [j \in 1 .. n |-> m.numbers[j]]
      BY <3>2
    <3>4. QED
      BY <3>1, <3>3, Zenon
  <2>6. m = Message(m.id, m.numbers, t)
    BY <2>1 DEF AnyMessage, Message
  <2> HIDE DEF n, s, t
  <2>7. Body(m) # <<>>
    BY <2>2, <2>3, EmptySeq
  <2>8. Len(s \o t) = Len(s) + Len(t) /\ SubSeq(s \o t, Len(s) + 1, Len(s) + Len(t)) = t
    <3>1. Len(s \o t) = Len(s) + Len(t)
      BY <2>2, <2>4, ConcatProperties
    <3>2. SubSeq(s \o t, Len(s) + 1, Len(s) + Len(t)) = t
      BY <2>2, <2>4, RestOfConcat
    <3>3. QED
      BY <3>1, <3>2
  <2>9. SubSeq(s \o t, 4 * n + 1, Len(s \o t)) = t
    BY <2>4, <2>8
  <2>10. Len(s \o t) >= 4 * n /\ Len(s \o t) - 4 * n = Len(t)
    BY <2>2, <2>4, <2>8
  <2>11. Parsed(Body(m))
         = Message(m.id, [j \in 1 .. n |-> Number(s \o t, j, n)],
                   SubSeq(s \o t, 4 * n + 1, Len(s \o t)))
    BY <2>1, <2>3, <2>7, <2>10, Zenon DEF Parsed
  <2>12. QED
    BY <2>5, <2>6, <2>9, <2>11
<1>3. QED
  BY <1>1, <1>2

(* What encode_message() writes is read as what it was given: the length is  *)
(* that of the body, and parse_frame() of the body is the message, whichever *)
(* it is and whatever its bytes are; no two messages look alike on the wire. *)
THEOREM FramesAreUnderstood ==
  ASSUME NEW m, Legal(m), U32(Len(Body(m)))
  PROVE  /\ Frame(m) \in Seq(Byte) /\ Len(Frame(m)) = 4 + FrameLength(Frame(m))
         /\ Parsed(SubSeq(Frame(m), 5, Len(Frame(m)))) = m
<1> DEFINE h == ToBytes(Len(Body(m)))
<1>1. Body(m) \in Seq(Byte) /\ Len(Body(m)) \in Nat
  <2>1. CASE m = KeepAlive
    BY <2>1 DEF Body
  <2>2. CASE m # KeepAlive
    BY <2>2, BodyIs, LenProperties
  <2>3. QED
    BY <2>1, <2>2
<1>2. h \in Seq(Byte) /\ Len(h) = 4 /\ FromBytes(h) = Len(Body(m))
  BY BytesOfNumber
<1>3. Frame(m) = h \o Body(m)
  BY DEF Frame
<1> HIDE DEF h
<1>4. Frame(m) \in Seq(Byte) /\ Len(Frame(m)) = 4 + Len(Body(m))
  <2>1. h \o Body(m) \in Seq(Byte) /\ Len(h \o Body(m)) = Len(h) + Len(Body(m))
    BY <1>1, <1>2, ConcatProperties
  <2>2. QED
    BY <2>1, <1>2, <1>3
<1>5. SubSeq(Frame(m), 1, 4) = h
  BY <1>1, <1>2, <1>3, StartOfConcat
<1>6. SubSeq(Frame(m), 5, Len(Frame(m))) = Body(m)
  <2>1. SubSeq(h \o Body(m), Len(h) + 1, Len(h) + Len(Body(m))) = Body(m)
    BY <1>1, <1>2, RestOfConcat
  <2>2. QED
    BY <2>1, <1>1, <1>2, <1>3, <1>4
<1>7. QED
  BY <1>2, <1>4, <1>5, <1>6, BodyIsUnderstood DEF FrameLength

(* The other way round: four bytes are those of the number they make.        *)
LEMMA NumberOfBytes ==
  ASSUME NEW b \in Seq(Byte), Len(b) = 4
  PROVE  U32(FromBytes(b)) /\ \A i \in 1 .. 4 : ToBytes(FromBytes(b))[i] = b[i]
<1>1. b[1] \in Byte /\ b[2] \in Byte /\ b[3] \in Byte /\ b[4] \in Byte
  <2>1. 1 \in 1 .. Len(b) /\ 2 \in 1 .. Len(b) /\ 3 \in 1 .. Len(b) /\ 4 \in 1 .. Len(b)
    OBVIOUS
  <2>2. QED
    BY <2>1, ElementOfSeq
<1>2. PICK m, n, p, q \in Nat : /\ b[1] = m /\ b[2] = n /\ b[3] = p /\ b[4] = q
                                /\ m < 256 /\ n < 256 /\ p < 256 /\ q < 256
  BY <1>1 DEF Byte
<1> DEFINE v == FromBytes(b)
<1>3. v = m * 16777216 + n * 65536 + p * 256 + q
  BY Powers, <1>2, SMT DEF FromBytes
<1> HIDE DEF v
<1>4. U32(v)
  BY <1>2, <1>3, SMT DEF U32
<1>5. /\ (v \div 16777216) % 256 = m /\ (v \div 65536) % 256 = n
      /\ (v \div 256) % 256 = p /\ v % 256 = q
  <2>1. v \div 16777216 = m
    BY <1>2, <1>3, SMT
  <2>2. v \div 65536 = m * 256 + n
    BY <1>2, <1>3, SMT
  <2>3. v \div 256 = (m * 256 + n) * 256 + p
    BY <1>2, <1>3, SMT
  <2>4. v % 256 = q
    BY <1>2, <1>3, SMT
  <2>5. m % 256 = m /\ (m * 256 + n) % 256 = n /\ ((m * 256 + n) * 256 + p) % 256 = p
    <3>1. m * 256 + n \in Nat
      OBVIOUS
    <3>2. QED
      BY <1>2, <3>1, SMT
  <2>6. QED
    BY <2>1, <2>2, <2>3, <2>4, <2>5, SMT
<1>6. /\ 256 ^ (4 - 1) = 16777216 /\ 256 ^ (4 - 2) = 65536
      /\ 256 ^ (4 - 3) = 256 /\ 256 ^ (4 - 4) = 1
  BY SMT
<1>7. /\ ToBytes(v)[1] = (v \div 16777216) % 256 /\ ToBytes(v)[2] = (v \div 65536) % 256
      /\ ToBytes(v)[3] = (v \div 256) % 256 /\ ToBytes(v)[4] = v % 256
  BY <1>4, <1>6, SMT DEF ToBytes, U32
<1>8. /\ ToBytes(v)[1] = b[1] /\ ToBytes(v)[2] = b[2]
      /\ ToBytes(v)[3] = b[3] /\ ToBytes(v)[4] = b[4]
  BY <1>2, <1>5, <1>7, SMT
<1>9. ASSUME NEW i \in 1 .. 4 PROVE ToBytes(v)[i] = b[i]
  BY <1>8, SMT
<1>10. QED
  BY <1>4, <1>9 DEF v

(* Message j of payload: its bytes, and the number they make.                *)
LEMMA NumberInPayload ==
  ASSUME NEW s \in Seq(Byte), NEW n \in Nat, NEW j \in 1 .. n, 4 * n <= Len(s)
  PROVE  /\ U32(Number(s, j, n))
         /\ \A i \in 1 .. 4 : ToBytes(Number(s, j, n))[i] = s[4 * j - 4 + i]
<1> DEFINE u == SubSeq(s, 4 * j - 3, 4 * j)
<1>1. Len(s) \in Nat /\ 4 * j - 3 \in Int /\ 4 * j \in Int /\ j \in Int
  BY LenProperties, SMT
<1>2. 4 * j - 3 >= 1 /\ 4 * j <= Len(s) /\ 4 * j - 3 <= 4 * j
  BY <1>1, SMT
<1>3. \A k \in 4 * j - 3 .. 4 * j : s[k] \in Byte
  BY <1>1, <1>2, ElementOfSeq, SMT
<1>4. /\ u \in Seq(Byte)
      /\ Len(u) = IF 4 * j - 3 <= 4 * j THEN 4 * j - (4 * j - 3) + 1 ELSE 0
      /\ \A i \in 1 .. 4 * j - (4 * j - 3) + 1 : u[i] = s[4 * j - 3 + i - 1]
  BY <1>1, <1>3, SubSeqProperties
<1> HIDE DEF u
<1>5. u \in Seq(Byte) /\ Len(u) = 4
  BY <1>1, <1>4, SMT
<1>6. ASSUME NEW i \in 1 .. 4 PROVE u[i] = s[4 * j - 4 + i]
  <2>1. i \in 1 .. 4 * j - (4 * j - 3) + 1 /\ 4 * j - 3 + i - 1 = 4 * j - 4 + i
    BY <1>1, SMT
  <2>2. QED
    BY <2>1, <1>4
<1>7. Number(s, j, n) = FromBytes(u)
  BY DEF Number, u
<1>8. U32(FromBytes(u)) /\ \A i \in 1 .. 4 : ToBytes(FromBytes(u))[i] = u[i]
  BY <1>5, NumberOfBytes
<1>9. QED
  BY <1>6, <1>7, <1>8

LEMMA MessageType ==
  ASSUME NEW id \in Int, NEW numbers \in Seq(Nat), NEW rest \in Seq(Byte)
  PROVE  Message(id, numbers, rest) \in AnyMessage
BY DEF Message, AnyMessage

(* What parse_frame() accepts it reads to the last byte, and as a message    *)
(* that encode_message() writes as these very bytes: none is skipped, read   *)
(* twice or left over, so no two bodies are taken for one message and what   *)
(* is refused is what nobody of us would send.                               *)
THEOREM NoByteIsIgnored ==
  ASSUME NEW body \in Seq(Byte), Parsed(body) # Bad
  PROVE  Legal(Parsed(body)) /\ Body(Parsed(body)) = body
<1>1. CASE body = <<>>
  <2>1. Parsed(body) = KeepAlive
    BY <1>1 DEF Parsed
  <2>2. QED
    BY <1>1, <2>1 DEF Legal, Body
<1>2. CASE body # <<>>
  <2> DEFINE id == body[1]
             s == Tail(body)
             n == Numbers(id)
             numbers == [j \in 1 .. n |-> Number(s, j, n)]
             rest == SubSeq(s, 4 * n + 1, Len(s))
             m == Message(id, numbers, rest)
  <2>1. /\ Len(s) >= 4 * n /\ RestMayBe(id, Len(s) - 4 * n)
        /\ Parsed(body) = m
    BY <1>2, Zenon DEF Parsed
  <2>2. id \in 0 .. 20 /\ n \in Nat
    BY <2>1, SMT DEF RestMayBe, Numbers
  <2>3. s \in Seq(Byte) /\ Len(s) \in Nat
    BY <1>2, HeadTailProperties, LenProperties
  <2> HIDE DEF s, n, id
  <2>4. rest \in Seq(Byte) /\ Len(rest) = Len(s) - 4 * n
    <3>1. 4 * n + 1 \in Int /\ Len(s) \in Int /\ 4 * n \in Nat
      BY <2>2, <2>3, SMT
    <3>2. \A k \in 4 * n + 1 .. Len(s) : s[k] \in Byte
      BY <2>3, <3>1, ElementOfSeq, SMT
    <3>3. rest \in Seq(Byte) /\ Len(rest) = IF 4 * n + 1 <= Len(s) THEN Len(s) - (4 * n + 1) + 1 ELSE 0
      BY <3>1, <3>2, SubSeqProperties
    <3> HIDE DEF rest
    <3>4. QED
      BY <2>1, <3>1, <3>3, SMT
  <2>5. ASSUME NEW j \in 1 .. n
        PROVE  /\ U32(numbers[j])
               /\ \A i \in 1 .. 4 : ToBytes(numbers[j])[i] = s[4 * j - 4 + i]
    <3>1. 4 * n <= Len(s)
      BY <2>1, <2>2, <2>3, SMT
    <3>2. numbers[j] = Number(s, j, n)
      OBVIOUS
    <3>3. QED
      BY <3>1, <3>2, <2>2, <2>3, NumberInPayload
  <2>6. numbers \in Seq(Nat) /\ Len(numbers) = n
    <3>1. \A j \in 1 .. n : numbers[j] \in Nat
      BY <2>5 DEF U32
    <3>2. numbers = [j \in 1 .. n |-> numbers[j]]
      OBVIOUS
    <3> HIDE DEF numbers
    <3>3. QED
      BY <2>2, <3>1, <3>2, SMT
  <2> HIDE DEF numbers, rest
  <2>7. m.id = id /\ m.numbers = numbers /\ m.rest = rest
    BY DEF Message
  <2>8. m \in AnyMessage
    <3>1. id \in Int /\ numbers \in Seq(Nat) /\ rest \in Seq(Byte)
      BY <2>2, <2>4, <2>6
    <3>2. QED
      BY <3>1, MessageType
  <2>9. m # KeepAlive
    BY <2>2, <2>7 DEF KeepAlive
  <2> HIDE DEF m
  <2>10. Legal(m)
    <3>1. Len(m.numbers) = Numbers(m.id)
      BY <2>6, <2>7 DEF n
    <3>2. RestMayBe(m.id, Len(m.rest))
      BY <2>1, <2>4, <2>7
    <3>3. \A j \in 1 .. Len(m.numbers) : U32(m.numbers[j])
      BY <2>5, <2>6, <2>7
    <3>4. QED
      BY <2>2, <2>7, <2>8, <3>1, <3>2, <3>3 DEF Legal
  <2> DEFINE front == SubSeq(s, 1, 4 * n)
             b == NumberBytes(m)
  <2>11. /\ b \in Seq(Byte) /\ Len(b) = 4 * n
         /\ \A j \in 1 .. n, i \in 1 .. 4 : b[4 * j - 4 + i] = ToBytes(numbers[j])[i]
    <3>1. Len(m.numbers) = n
      BY <2>6, <2>7
    <3>2. b \in Seq(Byte) /\ Len(b) = 4 * Len(m.numbers)
      BY <2>9, <2>10, NumberBytesType
    <3>3. ASSUME NEW j \in 1 .. n, NEW i \in 1 .. 4
          PROVE  b[4 * j - 4 + i] = ToBytes(numbers[j])[i]
      <4>1. \A k \in 1 .. Len(m.numbers), h \in 1 .. 4 :
                /\ 4 * k - 4 + h \in 1 .. 4 * Len(m.numbers)
                /\ b[4 * k - 4 + h] = ToBytes(m.numbers[k])[h]
        BY <2>9, <2>10, NumberBytesType, Zenon
      <4>2. b[4 * j - 4 + i] = ToBytes(m.numbers[j])[i]
        BY <4>1, <3>1, Zenon
      <4>3. QED
        BY <4>2, <2>7
    <3>4. QED
      BY <3>1, <3>2, <3>3
  <2> HIDE DEF b
  <2>12. /\ front \in Seq(Byte) /\ Len(front) = 4 * n
         /\ \A k \in 1 .. 4 * n : front[k] = s[k]
    <3>1. 4 * n \in Nat /\ 4 * n <= Len(s) /\ 1 \in Int /\ 4 * n \in Int
      BY <2>1, <2>2, <2>3, SMT
    <3>2. \A k \in 1 .. 4 * n : s[k] \in Byte
      BY <2>3, <3>1, ElementOfSeq, SMT
    <3>3. /\ front \in Seq(Byte) /\ Len(front) = IF 1 <= 4 * n THEN 4 * n - 1 + 1 ELSE 0
          /\ \A k \in 1 .. 4 * n - 1 + 1 : front[k] = s[1 + k - 1]
      BY <3>1, <3>2, SubSeqProperties
    <3> HIDE DEF front
    <3>4. QED
      BY <3>1, <3>3, SMT
  <2> HIDE DEF front
  <2>13. b = front
    <3>1. ASSUME NEW k \in 1 .. 4 * n PROVE b[k] = front[k]
      <4> DEFINE j == (k + 3) \div 4
                 i == ((k - 1) % 4) + 1
      <4>1. j \in 1 .. n /\ i \in 1 .. 4 /\ 4 * j - 4 + i = k
        BY <2>2, SMT
      <4> HIDE DEF j, i
      <4>2. b[4 * j - 4 + i] = ToBytes(numbers[j])[i]
        BY <4>1, <2>11
      <4>3. ToBytes(numbers[j])[i] = s[4 * j - 4 + i]
        BY <4>1, <2>5
      <4>4. QED
        BY <4>1, <4>2, <4>3, <2>12
    <3>2. QED
      BY <3>1, <2>11, <2>12, SeqEqual
  <2>14. front \o rest = s
    <3>1. 4 * n \in Nat /\ 4 * n <= Len(s)
      BY <2>1, <2>2, <2>3, SMT
    <3>2. SubSeq(s, 1, 4 * n) \o SubSeq(s, 4 * n + 1, Len(s)) = s
      BY <2>3, <3>1, CutInTwo
    <3>3. QED
      BY <3>2 DEF front, rest
  <2>15. body = <<id>> \o s
    BY <1>2, FirstAndTail DEF id, s
  <2>16. Body(m) = <<id>> \o front \o rest
    <3>1. Body(m) = <<m.id>> \o NumberBytes(m) \o m.rest
      BY <2>9, <2>10, BodyIs
    <3>2. NumberBytes(m) = front
      BY <2>13 DEF b
    <3>3. QED
      BY <3>1, <3>2, <2>7, Zenon
  <2>17. <<id>> \in Seq(Byte)
    <3>1. id \in Nat /\ id < 256
      BY <2>2
    <3>2. id \in Byte
      BY <3>1 DEF Byte
    <3>3. QED
      BY <3>2
  <2>18. <<id>> \o front \o rest = <<id>> \o (front \o rest)
    BY <2>4, <2>12, <2>17, ConcatAssociative
  <2>19. QED
    BY <2>1, <2>10, <2>14, <2>15, <2>16, <2>18
<1>3. QED
  BY <1>1, <1>2

-----------------------------------------------------------------------------
(* Connection.  Inputs wait in the channel in this order: the report, if it  *)
(* was not handled; messages of the script, the one after the one heard      *)
(* first, none of them bad; and Died, after which there is no reader.        *)
Inputs == {ConnectedIn, ConnectFailedIn, DiedIn} \cup {MsgIn(m) : m \in AnyMessage}

TypeInv ==
    /\ script \in Scripts
    /\ avail \in Nat /\ off \in Nat
    /\ nth \in 1 .. Len(script) /\ heard \in 0 .. Len(script) - 1
    /\ inbox \in Seq(Inputs)
    /\ reader \in {"connecting", "connected"} => off = 0
    /\ reader = "reading" /\ off > 4 => Announced <= MaxFrame

Live == engine \notin {"ended", "over"}
Ahead == IF engine = "waiting" THEN 1 ELSE 0
Said(j) == script[(j % Len(script)) + 1].means

(* the input at k of n, when so many are ahead of the messages *)
Due(in, k, n, ahead, first, by) ==
    \/ in = ConnectedIn /\ k = ahead
    \/ in = ConnectFailedIn /\ k = ahead /\ n = 1 /\ by = "ended"
    \/ in = DiedIn /\ k > ahead /\ k = n /\ by = "ended"
    \/ /\ k > ahead /\ Said(first + (k - 1 - ahead)) # Bad
       /\ in = MsgIn(Said(first + (k - 1 - ahead)))

InboxInv ==
    \A k \in 1 .. Len(inbox) :
        Due(inbox[k], k, Len(inbox), Ahead, heard, reader)

ReaderInv ==
    /\ reader \in {"connecting", "connected"} =>
        engine = "waiting" /\ inbox = <<>> /\ heard = 0 /\ nth = 1
    /\ reader = "reading" =>
        Ahead <= Len(inbox) /\ nth = ((heard + (Len(inbox) - Ahead)) % Len(script)) + 1
    /\ gone => inbox = <<>> /\ reader = "ended"

IInv == TypeInv /\ (Live => InboxInv /\ ReaderInv)

LEMMA ScriptType ==
  ASSUME TypeInv
  PROVE  /\ script \in Seq([bytes : Seq(Byte), means : AnyMessage \cup {Bad}])
         /\ Len(script) \in Nat \ {0}
         /\ \A k \in 1 .. Len(script) :
                /\ script[k].bytes \in Seq(Byte) /\ Len(script[k].bytes) >= 4
                /\ script[k].means \in AnyMessage \cup {Bad}
                /\ FrameLength(script[k].bytes) \in Nat
                /\ FrameLength(script[k].bytes) <= MaxFrame =>
                      /\ Len(script[k].bytes) = 4 + FrameLength(script[k].bytes)
                      /\ script[k].means = Parsed(SubSeq(script[k].bytes, 5, Len(script[k].bytes)))
<1> DEFINE R == [bytes : Seq(Byte), means : AnyMessage \cup {Bad}]
<1>1. script \in Scripts
  BY DEF TypeInv
<1>2. script \in Seq(R) /\ script # <<>>
  BY <1>1, ScriptsAssumption
<1>3. Len(script) \in Nat \ {0} /\ DOMAIN script = 1 .. Len(script)
  BY <1>2, EmptySeq, LenProperties
<1>4. ASSUME NEW k \in 1 .. Len(script)
      PROVE  /\ script[k].bytes \in Seq(Byte) /\ Len(script[k].bytes) >= 4
             /\ script[k].means \in AnyMessage \cup {Bad}
             /\ FrameLength(script[k].bytes) \in Nat
             /\ FrameLength(script[k].bytes) <= MaxFrame =>
                   /\ Len(script[k].bytes) = 4 + FrameLength(script[k].bytes)
                   /\ script[k].means = Parsed(SubSeq(script[k].bytes, 5, Len(script[k].bytes)))
  <2>1. script[k] \in R
    BY <1>2, ElementOfSeq
  <2>2. script[k].bytes \in Seq(Byte) /\ script[k].means \in AnyMessage \cup {Bad}
    BY <2>1
  <2>3. /\ Len(script[k].bytes) >= 4
        /\ IF FrameLength(script[k].bytes) > MaxFrame THEN script[k].means = Bad
           ELSE /\ Len(script[k].bytes) = 4 + FrameLength(script[k].bytes)
                /\ script[k].means = Parsed(SubSeq(script[k].bytes, 5, Len(script[k].bytes)))
    BY <1>1, <1>3, ScriptsAssumption
  <2>4. FrameLength(script[k].bytes) \in Nat
    BY <2>2, <2>3, FrameLengthType
  <2>5. QED
    BY <2>2, <2>3, <2>4, ScriptsAssumption
<1>5. QED
  BY <1>2, <1>3, <1>4

(* what is forwarded is what the frame means *)
LEMMA FrameIsRead ==
  ASSUME TypeInv, reader = "reading", off >= 4, ~TooLong, Needed = 0
  PROVE  /\ Parsed(SubSeq(Bytes, 5, off)) = script[nth].means
         /\ script[nth].means \in AnyMessage \cup {Bad}
<1>1. nth \in 1 .. Len(script) /\ off \in Nat /\ (off > 4 => Announced <= MaxFrame)
  BY DEF TypeInv
<1>2. Announced \in Nat /\ MaxFrame \in Nat
  BY <1>1, ScriptType, ScriptsAssumption DEF Announced, Bytes
<1>3. Announced <= MaxFrame
  BY <1>1, <1>2 DEF TooLong
<1>4. off = 4 + Announced
  BY <1>1, <1>2 DEF Needed
<1>5. QED
  BY <1>1, <1>3, <1>4, ScriptType DEF Announced, Bytes

LEMMA SentType ==
  ASSUME TypeInv, NEW in \in Inputs, Send(in)
  PROVE  /\ inbox' \in Seq(Inputs)
         /\ Live => inbox' = Append(inbox, in)
<1>1. inbox \in Seq(Inputs)
  BY DEF TypeInv
<1>2. Append(inbox, in) \in Seq(Inputs)
  BY <1>1, AppendProperties
<1>3. inbox' = inbox \/ inbox' = Append(inbox, in)
  BY DEF Send
<1>4. Live => inbox' = Append(inbox, in)
  BY DEF Send, Live
<1>5. QED
  BY <1>1, <1>2, <1>3, <1>4

LEMMA TakenType ==
  ASSUME TypeInv, inbox # <<>>, inbox' = Tail(inbox)
  PROVE  /\ inbox' \in Seq(Inputs) /\ Len(inbox) \in Nat \ {0} /\ Len(inbox') = Len(inbox) - 1
         /\ Head(inbox) = inbox[1] /\ inbox[1] \in Inputs
         /\ \A k \in 1 .. Len(inbox') : inbox'[k] = inbox[k + 1]
<1>1. inbox \in Seq(Inputs)
  BY DEF TypeInv
<1>2. Len(inbox) \in Nat \ {0}
  BY <1>1, EmptySeq
<1>3. /\ Tail(inbox) \in Seq(Inputs) /\ Len(Tail(inbox)) = Len(inbox) - 1
      /\ \A k \in 1 .. Len(Tail(inbox)) : Tail(inbox)[k] = inbox[k + 1]
  BY <1>1, HeadTailProperties
<1>4. Head(inbox) = inbox[1]
  BY <1>1
<1>5. inbox[1] \in Inputs
  BY <1>1, <1>2, ElementOfSeq
<1>6. QED
  BY <1>2, <1>3, <1>4, <1>5

LEMMA ReportTypes ==
  /\ ConnectedIn \in Inputs /\ ConnectFailedIn \in Inputs /\ DiedIn \in Inputs
  /\ \A m \in AnyMessage : MsgIn(m) \in Inputs
BY DEF Inputs

LEMMA TypeInit == Init => TypeInv
<1> SUFFICES ASSUME Init PROVE TypeInv
  OBVIOUS
<1>2. script \in Scripts /\ avail = 0 /\ off = 0 /\ nth = 1 /\ heard = 0 /\ inbox = <<>> /\ reader = "connecting"
  BY DEF Init
<1>3. script # <<>> /\ script \in Seq([bytes : Seq(Byte), means : AnyMessage \cup {Bad}])
  BY <1>2, ScriptsAssumption
<1>4. Len(script) \in Nat \ {0}
  BY <1>3, EmptySeq
<1>5. inbox \in Seq(Inputs)
  BY <1>2, EmptySeq
<1>6. QED
  BY <1>2, <1>4, <1>5 DEF TypeInv

LEMMA TypeNext == TypeInv /\ [Next]_vars => TypeInv'
<1> SUFFICES ASSUME TypeInv, [Next]_vars PROVE TypeInv'
  OBVIOUS
<1>2. /\ script \in Scripts /\ avail \in Nat /\ off \in Nat
      /\ nth \in 1 .. Len(script) /\ heard \in 0 .. Len(script) - 1 /\ inbox \in Seq(Inputs)
      /\ (reader \in {"connecting", "connected"} => off = 0)
      /\ (reader = "reading" /\ off > 4 => Announced <= MaxFrame)
  BY DEF TypeInv
<1>3. Len(script) \in Nat \ {0} /\ Announced \in Nat
  BY <1>2, ScriptType, Zenon DEF Announced, Bytes
<1>4. <<>> \in Seq(Inputs)
  BY EmptySeq
<1>5. ASSUME ConnectFails \/ Reports \/ FrameTooLong \/ ReadFails PROVE TypeInv'
  <2>1. inbox' \in Seq(Inputs)
    BY <1>5, ReportTypes, SentType DEF ConnectFails, Reports, FrameTooLong, ReadFails, Dies
  <2>2. /\ UNCHANGED <<script, avail, nth, off, heard>>
        /\ reader' = "ended" \/ (reader' = "reading" /\ reader = "connected")
    BY <1>5 DEF ConnectFails, Reports, FrameTooLong, ReadFails, Dies, remoteVars, engineVars
  <2>3. QED
    BY <2>1, <2>2, <1>2 DEF TypeInv
<1>6. ASSUME FrameRead PROVE TypeInv'
  <2> DEFINE m == Parsed(SubSeq(Bytes, 5, off))
  <2>1. m \in AnyMessage \cup {Bad}
    <3>1. reader = "reading" /\ off >= 4 /\ ~TooLong /\ Needed = 0
      BY <1>6 DEF FrameRead
    <3>2. QED
      BY <3>1, FrameIsRead
  <2>2. Forwards(m)
    BY <1>6 DEF FrameRead
  <2> HIDE DEF m
  <2>3. CASE m = Bad
    <3>1. inbox' \in Seq(Inputs)
      BY <2>2, <2>3, ReportTypes, SentType DEF Forwards, Dies
    <3>2. UNCHANGED <<script, avail, nth, off, heard>> /\ reader' = "ended"
      BY <2>2, <2>3 DEF Forwards, Dies, remoteVars, engineVars
    <3>3. QED
      BY <3>1, <3>2, <1>2 DEF TypeInv
  <2>4. CASE m # Bad
    <3>1. inbox' \in Seq(Inputs)
      BY <2>1, <2>2, <2>4, ReportTypes, SentType DEF Forwards
    <3>2. /\ UNCHANGED <<script, avail, heard>> /\ off' = 0
          /\ nth' = (nth % Len(script)) + 1
      BY <2>2, <2>4 DEF Forwards, remoteVars, engineVars
    <3>3. nth' \in 1 .. Len(script')
      BY <3>2, <1>2, <1>3
    <3>4. QED
      BY <3>1, <3>2, <3>3, <1>2 DEF TypeInv
  <2>5. QED
    BY <2>3, <2>4
<1>7. ASSUME Reads PROVE TypeInv'
  <2>1. /\ reader = "reading" /\ ~TooLong
        /\ UNCHANGED <<script, reader, nth, inbox, heard>>
    BY <1>7 DEF Reads, remoteVars, engineVars
  <2>2. PICK n \in 1 .. avail : n <= Needed /\ off' = off + n /\ avail' = avail - n
    BY <1>7 DEF Reads
  <2>3. avail' \in Nat /\ off' \in Nat
    BY <2>2, <1>2
  <2>4. off' > 4 => Announced <= MaxFrame
    <3>1. CASE off < 4
      BY <3>1, <2>2, <1>2 DEF Needed
    <3>2. CASE off = 4
      BY <3>2, <2>1, <1>3, ScriptsAssumption DEF TooLong
    <3>3. CASE off > 4
      BY <3>3, <2>1, <1>2
    <3>4. QED
      BY <3>1, <3>2, <3>3, <1>2
  <2>5. Announced' = Announced
    BY <2>1 DEF Announced, Bytes
  <2>6. QED
    BY <2>1, <2>3, <2>4, <2>5, <1>2 DEF TypeInv
<1>8. ASSUME Handles PROVE TypeInv'
  <2>1. inbox # <<>> /\ inbox' = Tail(inbox)
    BY <1>8 DEF Handles, HandlesConnected, HandlesFailed, HandlesMessage, HandlesDied, Takes
  <2>2. inbox' \in Seq(Inputs)
    BY <2>1, TakenType
  <2>3. /\ UNCHANGED <<script, avail, reader, nth, off>>
        /\ heard' = heard \/ heard' = (heard + 1) % Len(script)
    BY <1>8 DEF Handles, HandlesConnected, HandlesFailed, HandlesMessage, HandlesDied,
                remoteVars, readerVars
  <2>4. heard' \in 0 .. Len(script) - 1
    BY <2>3, <1>2, <1>3
  <2>5. Announced' = Announced
    BY <2>3 DEF Announced, Bytes
  <2>6. QED
    BY <2>2, <2>3, <2>4, <2>5, <1>2 DEF TypeInv
<1>9. ASSUME \/ Handshaken \/ Writer \/ Says \/ Removes \/ Replaces \/ Ends \/ Returns
             \/ Arrives \/ RemoteCloses \/ Ended \/ UNCHANGED vars
      PROVE  TypeInv'
  <2>1. /\ UNCHANGED <<script, nth, off, heard>>
        /\ avail' = avail \/ avail' = avail + 1
        /\ inbox' = inbox \/ inbox' = <<>>
        /\ reader' = reader \/ (reader' = "connected" /\ reader = "connecting")
    BY <1>9 DEF Handshaken, Writer, WriterSends, WriterFails, WriterDone, Says, Removes, Replaces,
                Ends, Returns, Arrives, RemoteCloses, Ended, vars, remoteVars, readerVars, engineVars
  <2>2. Announced' = Announced
    BY <2>1 DEF Announced, Bytes
  <2>3. avail' \in Nat /\ inbox' \in Seq(Inputs)
    <3>1. avail' \in Nat
      BY <2>1, <1>2
    <3>2. inbox' \in Seq(Inputs)
      BY <2>1, <1>2, <1>4, Zenon
    <3>3. QED
      BY <3>1, <3>2
  <2>4. QED
    BY <2>1, <2>2, <2>3, <1>2 DEF TypeInv
<1>10. QED
  BY <1>5, <1>6, <1>7, <1>8, <1>9 DEF Next, Reader

LEMMA SaidNext ==
  ASSUME TypeInv, NEW j \in Nat
  PROVE  /\ Said(((heard + 1) % Len(script)) + j) = Said(heard + (j + 1))
         /\ (((heard + 1) % Len(script)) + j) % Len(script) = (heard + (j + 1)) % Len(script)
<1>1. Len(script) \in Nat \ {0} /\ heard + 1 \in Nat
  BY ScriptType DEF TypeInv
<1>2. (((heard + 1) % Len(script)) + j) % Len(script) = ((heard + 1) + j) % Len(script)
  BY <1>1, RemainderOfSum
<1>3. (heard + 1) + j = heard + (j + 1)
  BY <1>1 DEF TypeInv
<1>4. QED
  BY <1>2, <1>3 DEF Said

(* one more input, from a reader that has not ended *)
LEMMA InboxGrows ==
  ASSUME TypeInv, InboxInv, reader # "ended", NEW in \in Inputs, inbox' = Append(inbox, in),
         UNCHANGED <<script, engine, heard>>,
         Due(in, Len(inbox) + 1, Len(inbox) + 1, Ahead, heard, reader')
  PROVE  InboxInv' /\ Len(inbox') = Len(inbox) + 1 /\ Len(inbox) \in Nat
<1>1. /\ Len(inbox') = Len(inbox) + 1 /\ Len(inbox) \in Nat
      /\ \A k \in 1 .. Len(inbox) : inbox'[k] = inbox[k]
      /\ inbox'[Len(inbox) + 1] = in
  <2>1. inbox \in Seq(Inputs)
    BY DEF TypeInv
  <2>2. QED
    BY <2>1, AppendProperties, LenProperties
<1>2. Ahead' = Ahead
  BY DEF Ahead
<1>3. ASSUME NEW k \in 1 .. Len(inbox')
      PROVE  Due(inbox'[k], k, Len(inbox'), Ahead, heard, reader')
  <2>1. CASE k = Len(inbox) + 1
    BY <2>1, <1>1
  <2>2. CASE k \in 1 .. Len(inbox)
    <3>1. Due(inbox[k], k, Len(inbox), Ahead, heard, reader)
      BY <2>2 DEF InboxInv
    <3>2. QED
      BY <3>1, <2>2, <1>1 DEF Due
  <2>3. QED
    BY <2>1, <2>2, <1>1
<1>4. InboxInv'
  BY <1>2, <1>3 DEF InboxInv, Due, Said
<1>5. QED
  BY <1>1, <1>4

(* one input less: what follows moves up *)
LEMMA DueAfterReport ==
  ASSUME NEW in, NEW k \in Nat \ {0}, NEW n \in Nat, NEW first, NEW by,
         Due(in, k + 1, n + 1, 1, first, by)
  PROVE  Due(in, k, n, 0, first, by)
<1>1. /\ k + 1 # 1 /\ k > 0 /\ (k + 1 = n + 1 => k = n) /\ k + 1 - 1 - 1 = k - 1 - 0
  OBVIOUS
<1> DEFINE said == Said(first + (k - 1 - 0))
<1>2. said = Said(first + (k + 1 - 1 - 1))
  BY <1>1, Zenon
<1>3. \/ in = DiedIn /\ k = n /\ by = "ended"
      \/ said # Bad /\ in = MsgIn(said)
  <2> HIDE DEF said
  <2>1. QED
    BY <1>1, <1>2, SMT DEF Due
<1>4. QED
  BY <1>1, <1>3 DEF Due

LEMMA DueAfterMessage ==
  ASSUME NEW in, NEW k \in Nat \ {0}, NEW n \in Nat, NEW first, NEW next, NEW by,
         Said(next + (k - 1)) = Said(first + k),
         Due(in, k + 1, n + 1, 0, first, by)
  PROVE  Due(in, k, n, 0, next, by)
<1>1. /\ k + 1 # 0 /\ k # 0 /\ k > 0 /\ (k + 1 = n + 1 => k = n)
      /\ k + 1 - 1 - 0 = k /\ k - 1 - 0 = k - 1
  OBVIOUS
<1> DEFINE said == Said(next + (k - 1 - 0))
<1>2. said = Said(first + (k + 1 - 1 - 0))
  BY <1>1, Zenon
<1>3. \/ in = DiedIn /\ k = n /\ by = "ended"
      \/ said # Bad /\ in = MsgIn(said)
  <2> HIDE DEF said
  <2>1. QED
    BY <1>1, <1>2, SMT DEF Due
<1>4. QED
  BY <1>1, <1>3 DEF Due

LEMMA InboxShrinks ==
  ASSUME TypeInv, InboxInv, inbox # <<>>, inbox' = Tail(inbox),
         UNCHANGED <<script, reader>>, Ahead' = 0,
         \/ Ahead = 1 /\ heard' = heard
         \/ Ahead = 0 /\ heard' = (heard + 1) % Len(script)
  PROVE  InboxInv'
<1>1. /\ Len(inbox) \in Nat \ {0} /\ Len(inbox') = Len(inbox) - 1
      /\ \A k \in 1 .. Len(inbox') : inbox'[k] = inbox[k + 1]
  BY TakenType
<1>2. ASSUME NEW k \in 1 .. Len(inbox')
      PROVE  Due(inbox'[k], k, Len(inbox'), 0, heard', reader)
  <2> DEFINE n == Len(inbox')
  <2>1. k \in Nat \ {0} /\ n \in Nat /\ k + 1 \in 1 .. Len(inbox) /\ Len(inbox) = n + 1
    BY <1>1
  <2>2. Due(inbox'[k], k + 1, Len(inbox), Ahead, heard, reader)
    BY <2>1, <1>1 DEF InboxInv
  <2>3. Due(inbox'[k], k + 1, n + 1, Ahead, heard, reader)
    BY <2>1, <2>2, Zenon
  <2> HIDE DEF n
  <2>4. CASE Ahead = 1 /\ heard' = heard
    BY <2>1, <2>3, <2>4, DueAfterReport, Zenon DEF n
  <2>5. CASE Ahead = 0 /\ heard' = (heard + 1) % Len(script)
    <3>1. Said(heard' + (k - 1)) = Said(heard + k)
      <4>1. k - 1 \in Nat /\ (k - 1) + 1 = k
        BY <2>1
      <4>2. Said(((heard + 1) % Len(script)) + (k - 1)) = Said(heard + ((k - 1) + 1))
        BY <4>1, SaidNext
      <4>3. QED
        BY <4>1, <4>2, <2>5, Zenon
    <3>2. QED
      BY <3>1, <2>1, <2>3, <2>5, DueAfterMessage, Zenon DEF n
  <2>6. QED
    BY <2>4, <2>5
<1>3. QED
  BY <1>2 DEF InboxInv, Due, Said

(* the inputs tell themselves apart *)
LEMMA DueFirst ==
  ASSUME NEW in, NEW n, NEW ahead \in {0, 1}, NEW first \in Nat, NEW by,
         Due(in, 1, n, ahead, first, by)
  PROVE  /\ in.what = "connected" => ahead = 1
         /\ in.what = "failed" => ahead = 1 /\ n = 1 /\ by = "ended"
         /\ in.what = "died" => ahead = 0 /\ n = 1 /\ by = "ended"
         /\ in.what = "message" =>
                ahead = 0 /\ Said(first) # Bad /\ in.message = Said(first)
<1>1. ahead = 0 => first + (1 - 1 - ahead) = first
  OBVIOUS
<1>2. \/ in = ConnectedIn /\ 1 = ahead
      \/ in = ConnectFailedIn /\ 1 = ahead /\ n = 1 /\ by = "ended"
      \/ in = DiedIn /\ 1 > ahead /\ 1 = n /\ by = "ended"
      \/ /\ 1 > ahead /\ Said(first + (1 - 1 - ahead)) # Bad
         /\ in = MsgIn(Said(first + (1 - 1 - ahead)))
  BY DEF Due
<1> DEFINE said == Said(first)
<1>3. \/ in = ConnectedIn /\ ahead = 1
      \/ in = ConnectFailedIn /\ ahead = 1 /\ n = 1 /\ by = "ended"
      \/ in = DiedIn /\ ahead = 0 /\ n = 1 /\ by = "ended"
      \/ ahead = 0 /\ said # Bad /\ in = MsgIn(said)
  <2>1. CASE ahead = 0
    <3>1. Said(first + (1 - 1 - ahead)) = said
      BY <2>1, <1>1, Zenon
    <3> HIDE DEF said
    <3>2. QED
      BY <2>1, <3>1, <1>2
  <2>2. CASE ahead = 1
    BY <2>2, <1>2
  <2>3. QED
    BY <2>1, <2>2
<1> HIDE DEF said
<1>4. /\ ConnectedIn.what = "connected" /\ ConnectFailedIn.what = "failed" /\ DiedIn.what = "died"
      /\ MsgIn(said).what = "message" /\ MsgIn(said).message = said
  BY DEF ConnectedIn, ConnectFailedIn, DiedIn, MsgIn
<1>5. QED
  BY <1>3, <1>4 DEF said

(* the engine is over for good, and starts no second time *)
LEMMA LiveBefore ==
  ASSUME [Next]_vars, Live'
  PROVE  /\ Live /\ UNCHANGED script
         /\ ~Handles => \/ UNCHANGED <<engine, gone, heard, last>>
                        \/ /\ engine = "peer" /\ engine' \in {"removed", "replaced"}
                           /\ UNCHANGED <<reader, nth, inbox, gone, heard, last>>
BY DEF Live, Next, Reader, Writer, Handles, Takes, ConnectFails, Handshaken, Reports, Reads, FrameRead,
       FrameTooLong, ReadFails, Forwards, Dies, WriterSends, WriterFails, WriterDone, HandlesConnected,
       HandlesFailed, HandlesMessage, HandlesDied, Says, Removes, Replaces, Ends, Returns, Arrives,
       RemoteCloses, Ended, vars, remoteVars, readerVars, engineVars

(* what the engine does with the first input *)
LEMMA FirstInput ==
  ASSUME TypeInv, InboxInv, inbox # <<>>
  PROVE  /\ Head(inbox).what = "connected" => engine = "waiting"
         /\ Head(inbox).what = "failed" => engine = "waiting" /\ Len(inbox) = 1 /\ reader = "ended"
         /\ Head(inbox).what = "died" => engine # "waiting" /\ Len(inbox) = 1 /\ reader = "ended"
         /\ Head(inbox).what = "message" =>
                /\ engine # "waiting"
                /\ Head(inbox).message = Said(heard) /\ Said(heard) # Bad
<1>1. inbox \in Seq(Inputs) /\ heard \in Nat
  BY ScriptType DEF TypeInv
<1>2. Len(inbox) \in Nat \ {0} /\ Head(inbox) = inbox[1]
  BY <1>1, EmptySeq
<1>3. 1 \in 1 .. Len(inbox)
  BY <1>2
<1>4. Due(inbox[1], 1, Len(inbox), Ahead, heard, reader)
  BY <1>3 DEF InboxInv
<1>5. Ahead \in {0, 1} /\ (Ahead = 1 <=> engine = "waiting")
  BY DEF Ahead
<1> DEFINE in == inbox[1]
<1>6. /\ in.what = "connected" => Ahead = 1
      /\ in.what = "failed" => Ahead = 1 /\ Len(inbox) = 1 /\ reader = "ended"
      /\ in.what = "died" => Ahead = 0 /\ Len(inbox) = 1 /\ reader = "ended"
      /\ in.what = "message" =>
             Ahead = 0 /\ Said(heard) # Bad /\ in.message = Said(heard)
  <2>1. Due(in, 1, Len(inbox), Ahead, heard, reader) /\ Ahead \in {0, 1} /\ heard \in Nat
    BY <1>1, <1>4, <1>5
  <2> HIDE DEF in
  <2>2. QED
    BY <2>1, DueFirst
<1>7. Head(inbox) = in
  BY <1>2
<1> HIDE DEF in
<1>8. QED
  BY <1>5, <1>6, <1>7

LEMMA LastTaken ==
  ASSUME TypeInv, inbox # <<>>, inbox' = Tail(inbox), Len(inbox) = 1
  PROVE  inbox' = <<>>
<1>1. inbox' \in Seq(Inputs) /\ Len(inbox') = Len(inbox) - 1
  BY TakenType
<1>2. QED
  BY <1>1, EmptySeq

LEMMA LiveHandles ==
  ASSUME TypeInv, InboxInv, ReaderInv, Live, Handles
  PROVE  InboxInv' /\ ReaderInv'
<1>1. /\ inbox # <<>> /\ inbox' = Tail(inbox) /\ UNCHANGED <<script, reader, nth>>
      /\ reader \notin {"connecting", "connected"} /\ ~gone
  BY DEF Handles, HandlesConnected, HandlesFailed, HandlesMessage, HandlesDied, Takes,
         remoteVars, readerVars, ReaderInv
<1>2. /\ Len(inbox) \in Nat \ {0} /\ Len(inbox') = Len(inbox) - 1
      /\ heard \in Nat /\ Len(script) \in Nat \ {0}
  BY <1>1, TakenType, ScriptType DEF TypeInv
<1>3. CASE HandlesFailed \/ HandlesDied
  <2>1. Len(inbox) = 1 /\ reader = "ended"
    BY <1>1, <1>3, FirstInput DEF HandlesFailed, HandlesDied, Takes
  <2>2. inbox' = <<>> /\ Len(inbox') = 0
    BY <2>1, <1>1, <1>2, LastTaken
  <2>3. InboxInv'
    BY <2>2 DEF InboxInv
  <2>4. QED
    BY <2>1, <2>2, <2>3, <1>1 DEF ReaderInv
<1>4. CASE HandlesConnected
  <2>1. engine = "waiting" /\ engine' = "peer" /\ UNCHANGED <<heard, gone>>
    BY <1>1, <1>4, FirstInput DEF HandlesConnected, Takes
  <2>2. Ahead = 1 /\ Ahead' = 0
    BY <2>1 DEF Ahead
  <2>3. InboxInv'
    BY <2>1, <2>2, <1>1, InboxShrinks
  <2>4. Len(inbox') - 0 = Len(inbox) - 1 /\ 0 <= Len(inbox')
    BY <1>2
  <2>5. QED
    BY <2>1, <2>2, <2>3, <2>4, <1>1 DEF ReaderInv
<1>5. CASE HandlesMessage
  <2>1. engine # "waiting" /\ heard' = (heard + 1) % Len(script) /\ UNCHANGED <<engine, gone>>
    BY <1>1, <1>5, FirstInput DEF HandlesMessage, Takes
  <2>2. Ahead = 0 /\ Ahead' = 0
    BY <2>1 DEF Ahead
  <2>3. InboxInv'
    BY <2>1, <2>2, <1>1, InboxShrinks
  <2>4. ASSUME reader = "reading"
        PROVE  nth = ((heard' + (Len(inbox') - 0)) % Len(script)) + 1
    <3>1. nth = ((heard + (Len(inbox) - 0)) % Len(script)) + 1
      BY <2>2, <2>4 DEF ReaderInv
    <3>2. Len(inbox') \in Nat /\ Len(inbox') - 0 = Len(inbox') /\ Len(inbox') + 1 = Len(inbox) - 0
      BY <1>2
    <3>3. (((heard + 1) % Len(script)) + Len(inbox')) % Len(script)
          = (heard + (Len(inbox') + 1)) % Len(script)
      BY <3>2, SaidNext
    <3>4. QED
      BY <3>1, <3>2, <3>3, <2>1, Zenon
  <2>5. 0 <= Len(inbox')
    BY <1>2
  <2>6. QED
    BY <2>1, <2>2, <2>3, <2>4, <2>5, <1>1 DEF ReaderInv
<1>6. QED
  BY <1>3, <1>4, <1>5 DEF Handles

LEMMA LiveSends ==
  ASSUME TypeInv, InboxInv, ReaderInv, Live, UNCHANGED <<script, engine, gone, heard>>,
         ConnectFails \/ Reports \/ FrameRead \/ FrameTooLong \/ ReadFails
  PROVE  InboxInv' /\ ReaderInv'
<1>1. /\ Len(inbox) \in Nat /\ heard \in Nat /\ Len(script) \in Nat \ {0}
      /\ nth \in 1 .. Len(script) /\ engine # "over"
  BY ScriptType, LenProperties DEF TypeInv, Live
<1>2. Ahead' = Ahead /\ Ahead \in {0, 1}
  BY DEF Ahead
<1>3. reader # "ended" /\ ~gone
  BY DEF ConnectFails, Reports, FrameRead, FrameTooLong, ReadFails, ReaderInv
<1>4. CASE ConnectFails \/ Reports
  <2>1. engine = "waiting" /\ inbox = <<>> /\ heard = 0 /\ nth = 1 /\ Ahead = 1 /\ Len(inbox) = 0
    BY <1>4 DEF ConnectFails, Reports, ReaderInv, Ahead
  <2>2. PICK in \in {ConnectedIn, ConnectFailedIn} :
            /\ inbox' = Append(inbox, in) /\ in \in Inputs
            /\ IF in = ConnectedIn THEN reader' = "reading" ELSE reader' = "ended"
    <3>1. ConnectedIn # ConnectFailedIn
      BY DEF ConnectedIn, ConnectFailedIn
    <3>2. QED
      BY <3>1, <1>1, <1>4, SentType, ReportTypes DEF ConnectFails, Reports
  <2>3. Due(in, Len(inbox) + 1, Len(inbox) + 1, Ahead, heard, reader')
    BY <2>1, <2>2 DEF Due
  <2>4. InboxInv' /\ Len(inbox') = 1
    BY <2>1, <2>2, <2>3, <1>3, InboxGrows
  <2>5. (0 + (1 - 1)) % Len(script) = 0
    BY <1>1
  <2>6. nth' = nth
    BY <1>4 DEF ConnectFails, Reports
  <2>7. reader' = "reading" => Ahead <= Len(inbox') /\ nth' = ((heard + (Len(inbox') - Ahead)) % Len(script)) + 1
    BY <2>1, <2>4, <2>5, <2>6
  <2>8. QED
    BY <2>2, <2>4, <2>7, <1>2, <1>3 DEF ReaderInv
<1>5. CASE FrameTooLong \/ ReadFails \/ FrameRead
  <2>1. /\ reader = "reading" /\ Ahead <= Len(inbox)
        /\ nth = ((heard + (Len(inbox) - Ahead)) % Len(script)) + 1
    BY <1>5 DEF FrameTooLong, ReadFails, FrameRead, ReaderInv
  <2>2. ASSUME Dies PROVE InboxInv' /\ ReaderInv'
    <3>1. inbox' = Append(inbox, DiedIn) /\ DiedIn \in Inputs /\ reader' = "ended"
      BY <2>2, SentType, ReportTypes DEF Dies
    <3>2. Len(inbox) + 1 > Ahead
      BY <2>1, <1>1, <1>2
    <3>3. Due(DiedIn, Len(inbox) + 1, Len(inbox) + 1, Ahead, heard, reader')
      BY <3>1, <3>2 DEF Due
    <3>4. InboxInv'
      BY <3>1, <3>3, <1>3, InboxGrows
    <3>5. QED
      BY <3>1, <3>4, <1>3 DEF ReaderInv
  <2>3. CASE FrameRead
    <3> DEFINE m == Parsed(SubSeq(Bytes, 5, off))
    <3>1. m = script[nth].means /\ m \in AnyMessage \cup {Bad}
      <4>1. reader = "reading" /\ off >= 4 /\ ~TooLong /\ Needed = 0
        BY <2>3 DEF FrameRead
      <4>2. QED
        BY <4>1, FrameIsRead
    <3>2. Forwards(m)
      BY <2>3 DEF FrameRead
    <3> HIDE DEF m
    <3>3. CASE m = Bad
      BY <2>2, <3>2, <3>3 DEF Forwards
    <3>4. CASE m # Bad
      <4>1. /\ inbox' = Append(inbox, MsgIn(m)) /\ MsgIn(m) \in Inputs
            /\ reader' = "reading" /\ nth' = (nth % Len(script)) + 1
        BY <3>1, <3>2, <3>4, <1>1, SentType, ReportTypes DEF Forwards
      <4> DEFINE j == Len(inbox) - Ahead
      <4>2. j \in Nat /\ Len(inbox) + 1 > Ahead /\ Len(inbox) + 1 - 1 - Ahead = j
        BY <2>1, <1>1, <1>2
      <4>3. m = Said(heard + j)
        BY <2>1, <3>1 DEF Said
      <4>4. Due(MsgIn(m), Len(inbox) + 1, Len(inbox) + 1, Ahead, heard, reader')
        <5>1. Said(heard + (Len(inbox) + 1 - 1 - Ahead)) = m
          BY <4>2, <4>3, Zenon
        <5>2. QED
          BY <5>1, <4>2, <3>4 DEF Due
      <4>5. InboxInv' /\ Len(inbox') = Len(inbox) + 1
        BY <4>1, <4>4, <1>3, InboxGrows
      <4>6. nth' = ((heard + (Len(inbox') - Ahead)) % Len(script)) + 1
        <5>1. heard + j \in Nat
          BY <4>2, <1>1
        <5>2. (((heard + j) % Len(script)) + 1) % Len(script) = ((heard + j) + 1) % Len(script)
          BY <5>1, <1>1, RemainderOfSum
        <5>3. (heard + j) + 1 = heard + (Len(inbox') - Ahead)
          BY <4>2, <4>5, <1>1, <1>2
        <5>4. QED
          BY <5>2, <5>3, <4>1, <2>1
      <4>7. Ahead <= Len(inbox')
        BY <4>5, <2>1, <1>1, <1>2
      <4>8. QED
        BY <4>1, <4>5, <4>6, <4>7, <1>2, <1>3 DEF ReaderInv
    <3>5. QED
      BY <3>3, <3>4
  <2>4. QED
    BY <1>5, <2>2, <2>3 DEF FrameTooLong, ReadFails
<1>6. QED
  BY <1>4, <1>5

LEMMA IInvNext == IInv /\ [Next]_vars => IInv'
<1> SUFFICES ASSUME IInv, [Next]_vars PROVE IInv'
  OBVIOUS
<1>1. TypeInv /\ TypeInv'
  BY TypeNext DEF IInv
<1>2. ASSUME Live' PROVE InboxInv' /\ ReaderInv'
  <2>1. Live /\ InboxInv /\ ReaderInv /\ UNCHANGED script
    BY <1>2, LiveBefore DEF IInv
  <2>2. CASE Handles
    BY <2>1, <2>2, <1>1, LiveHandles
  <2>3. CASE ~Handles /\ (ConnectFails \/ Reports \/ FrameRead \/ FrameTooLong \/ ReadFails)
    <3>1. UNCHANGED <<engine, gone, heard>>
      BY <2>3, <1>2 DEF ConnectFails, Reports, FrameRead, FrameTooLong, ReadFails, Forwards, Dies, engineVars
    <3>2. QED
      BY <2>1, <2>3, <3>1, <1>1, LiveSends
  <2>4. CASE ~Handles /\ ~(ConnectFails \/ Reports \/ FrameRead \/ FrameTooLong \/ ReadFails)
    <3>1. UNCHANGED <<nth, inbox, gone, heard>>
      BY <2>4, <1>2 DEF Next, Reader, Writer, Handshaken, Reads, WriterSends, WriterFails, WriterDone, Says,
         Removes, Replaces, Ends, Returns, Arrives, RemoteCloses, Ended, vars, remoteVars, readerVars,
         engineVars, Live
    <3>2. reader' = reader \/ (reader = "connecting" /\ reader' = "connected")
      BY <2>4, <1>2 DEF Next, Reader, Writer, Handshaken, Reads, WriterSends, WriterFails, WriterDone, Says,
         Removes, Replaces, Ends, Returns, Arrives, RemoteCloses, Ended, vars, remoteVars, readerVars,
         engineVars, Live
    <3>3. engine' = engine \/ (engine = "peer" /\ engine' # "waiting" /\ reader' = reader)
      BY <2>4, <1>2, LiveBefore
    <3>4. Ahead' = Ahead
      BY <3>3 DEF Ahead
    <3>5. InboxInv'
      BY <2>1, <3>1, <3>2, <3>4 DEF InboxInv, Due, Said
    <3>6. ReaderInv'
      BY <2>1, <3>1, <3>2, <3>3, <3>4 DEF ReaderInv
    <3>7. QED
      BY <3>5, <3>6
  <2>5. QED
    BY <2>2, <2>3, <2>4
<1>3. QED
  BY <1>1, <1>2 DEF IInv

LEMMA IInvHolds == Init /\ [][Next]_vars => []IInv
<1>1. Init => IInv
  <2>1. SUFFICES ASSUME Init PROVE IInv
    OBVIOUS
  <2>2. inbox = <<>> /\ reader = "connecting" /\ engine = "waiting" /\ heard = 0 /\ nth = 1 /\ gone = FALSE
    BY <2>1 DEF Init
  <2>3. Len(inbox) = 0
    BY <2>2
  <2>4. InboxInv /\ ReaderInv
    BY <2>2, <2>3 DEF InboxInv, ReaderInv
  <2>5. QED
    BY <2>1, <2>4, TypeInit DEF IInv
<1>2. QED
  BY <1>1, IInvNext, PTL

-----------------------------------------------------------------------------
(* Link.                                                                     *)

LEMMA MeaningsType ==
  ASSUME TypeInv
  PROVE  /\ Len(Meanings) = Len(script)
         /\ Meanings[heard + 1] = Said(heard)
<1>1. Len(script) \in Nat \ {0} /\ heard \in 0 .. Len(script) - 1
  BY ScriptType DEF TypeInv
<1>2. Len(Meanings) = Len(script)
  BY <1>1 DEF Meanings
<1>3. heard % Len(script) = heard /\ heard + 1 \in 1 .. Len(script)
  BY <1>1
<1>4. QED
  BY <1>2, <1>3 DEF Meanings, Said

(* what is not the engine at its channel *)
LEMMA OtherSteps ==
  ASSUME [Next]_vars, ~Handles
  PROVE  /\ UNCHANGED <<script, heard, last, gone>>
         /\ \/ engine' \in {"ended", "over"}
            \/ /\ engine' = engine \/ (engine = "peer" /\ engine' \in {"removed", "replaced"})
               /\ socket' = socket \/ socket' = "shut"
BY DEF Next, Reader, Writer, ConnectFails, Handshaken, Reports, Reads, FrameRead, FrameTooLong, ReadFails,
       Forwards, Dies, WriterSends, WriterFails, WriterDone, Says, Removes, Replaces, Ends, Returns, Arrives,
       RemoteCloses, Ended, Shut, vars, remoteVars, readerVars, engineVars

LEMMA StepImplements ==
  ASSUME IInv, [Next]_vars
  PROVE  [Abstract!Next]_<<Meanings, Status, heard, last>>
<1>1. TypeInv /\ UNCHANGED script
  BY DEF IInv, Next, Reader, Writer, Handles, ConnectFails, Handshaken, Reports, Reads, FrameRead,
         FrameTooLong, ReadFails, Forwards, Dies, WriterSends, WriterFails, WriterDone, HandlesConnected,
         HandlesFailed, HandlesMessage, HandlesDied, Says, Removes, Replaces, Ends, Returns, Arrives,
         RemoteCloses, Ended, vars, remoteVars, readerVars, engineVars
<1>2. UNCHANGED Meanings
  BY <1>1 DEF Meanings
<1>3. CASE Handles
  <2>1. Live /\ inbox # <<>> /\ InboxInv /\ ReaderInv /\ ~gone
    BY <1>3 DEF Handles, HandlesConnected, HandlesFailed, HandlesMessage, HandlesDied, Takes, IInv, Live,
                ReaderInv
  <2>2. CASE HandlesConnected
    <3>1. engine = "waiting" /\ engine' = "peer" /\ UNCHANGED <<heard, last>>
      BY <2>1, <2>2, <1>1, FirstInput DEF HandlesConnected, Takes
    <3>2. Status = "connecting" /\ Status' \in {"open", "shut", "gone"}
      BY <3>1 DEF Status
    <3>3. QED
      BY <3>1, <3>2, <1>2 DEF Abstract!Next, Abstract!Report
  <2>3. CASE HandlesFailed
    <3>1. engine = "waiting" /\ engine' = "removed" /\ gone' = TRUE /\ UNCHANGED <<heard, last>>
      BY <2>1, <2>3, <1>1, FirstInput DEF HandlesFailed, Takes
    <3>2. Status = "connecting" /\ Status' = "gone"
      BY <3>1 DEF Status
    <3>3. QED
      BY <3>1, <3>2, <1>2 DEF Abstract!Next, Abstract!Report
  <2>4. CASE HandlesMessage
    <3>1. /\ engine # "waiting" /\ UNCHANGED <<engine, gone, socket>>
          /\ last' = Said(heard) /\ last' # Bad /\ heard' = (heard + 1) % Len(script)
      BY <2>1, <2>4, <1>1, FirstInput DEF HandlesMessage, Takes
    <3>2. Status \in {"open", "shut"} /\ Status' = Status
      BY <2>1, <3>1 DEF Status, Live
    <3>3. QED
      BY <3>1, <3>2, <1>1, <1>2, MeaningsType DEF Abstract!Next, Abstract!Hear
  <2>5. CASE HandlesDied
    <3>1. /\ engine # "waiting" /\ gone' = TRUE /\ UNCHANGED <<heard, last>>
          /\ engine' \in {engine, "removed"}
      BY <2>1, <2>5, <1>1, FirstInput DEF HandlesDied, Takes
    <3>2. Status \in {"open", "shut"} /\ Status' = "gone"
      BY <2>1, <3>1 DEF Status, Live
    <3>3. QED
      BY <3>1, <3>2, <1>2 DEF Abstract!Next, Abstract!Die
  <2>6. QED
    BY <1>3, <2>2, <2>3, <2>4, <2>5 DEF Handles
<1>4. CASE ~Handles
  <2>1. /\ UNCHANGED <<script, heard, last, gone>>
        /\ \/ engine' \in {"ended", "over"}
           \/ /\ engine' = engine \/ (engine = "peer" /\ engine' \in {"removed", "replaced"})
              /\ socket' = socket \/ socket' = "shut"
    BY <1>4, OtherSteps
  <2>2. CASE engine' \in {"ended", "over"}
    <3>1. Status' = "over"
      BY <2>2 DEF Status
    <3>2. QED
      BY <2>1, <3>1, <1>2 DEF Abstract!Next, Abstract!End
  <2>3. CASE engine' \notin {"ended", "over"}
    <3>1. Status' = Status \/ (Status = "open" /\ Status' = "shut")
      BY <2>1, <2>3 DEF Status
    <3>2. QED
      BY <2>1, <3>1, <1>2 DEF Abstract!Next, Abstract!Close
  <2>4. QED
    BY <2>2, <2>3
<1>5. QED
  BY <1>3, <1>4

(* However the bytes are cut, wherever the network, the remote end or the    *)
(* engine ends, and however full the channels are: the engine is given one   *)
(* report, then what the peer sent, whole and in order, nothing from a bad   *)
(* frame on, and Died last (ImplementsLink): spawn_connector() in            *)
(* bt/src/engine.rs is what Swarm takes it for.                              *)
THEOREM ThreadsAreALink == Spec => ImplementsLink
<1>1. Init => Abstract!Init
  BY DEF Init, Abstract!Init, Status
<1>2. IInv /\ [Next]_vars => [Abstract!Next]_<<Meanings, Status, heard, last>>
  BY StepImplements
<1>3. Spec => Init /\ [][Next]_vars
  BY PTL DEF Spec
<1>4. QED
  BY <1>1, <1>2, <1>3, IInvHolds, PTL DEF ImplementsLink, Abstract!Spec
=============================================================================
