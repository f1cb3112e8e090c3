---------------------------- MODULE AppletProofs ----------------------------
(***************************************************************************)
(* Proofs about one command from the request to the value its caller gets,  *)
(* for every request, every content of the key, every size of the pieces    *)
(* and every limit: the key reads what was asked, and nothing else.         *)
(***************************************************************************)
EXTENDS Applet, RawTransmitProofs, WellFoundedInduction

-----------------------------------------------------------------------------
(* Sequences of bytes *)

LEMMA BytesAreNumbers == ASSUME NEW s \in Seq(Byte) PROVE s \in Seq(Nat)
<1>1. Byte \subseteq Nat
  BY DEF Byte
<1> QED  BY <1>1, SeqMonotonic

LEMMA SingletonIs ==
  ASSUME NEW S, NEW e \in S PROVE <<e>> \in Seq(S) /\ Len(<<e>>) = 1 /\ <<e>>[1] = e
OBVIOUS

LEMMA U16Is ==
  ASSUME NEW n \in Nat
  PROVE  /\ U16(n) \in Seq(Nat) /\ Len(U16(n)) = 2
         /\ U16(n)[1] = n \div 256 /\ U16(n)[2] = n % 256
         /\ U16(n)[1] * 256 + U16(n)[2] = n
<1>1. n \div 256 \in Nat /\ n % 256 \in Nat /\ ((n \div 256) * 256) + (n % 256) = n
  BY SMT
<1>2. U16(n) = <<n \div 256, n % 256>>
  BY DEF U16
<1> HIDE DEF U16
<1> QED  BY <1>1, <1>2

LEMMA JoinedIs ==
  ASSUME NEW s \in Seq(Nat), NEW t \in Seq(Nat)
  PROVE  /\ s \o t \in Seq(Nat) /\ Len(s) \in Nat /\ Len(t) \in Nat
         /\ Len(s \o t) = Len(s) + Len(t)
<1>1. s \o t \in Seq(Nat) /\ Len(s \o t) = Len(s) + Len(t)
  BY ConcatProperties, Zenon
<1>2. Len(s) \in Nat /\ Len(t) \in Nat
  BY LenProperties, Zenon
<1> QED  BY <1>1, <1>2, Zenon

LEMMA RejoinedIs ==
  ASSUME NEW s \in Seq(Nat), NEW t \in Seq(Nat), NEW u \in Seq(Nat)
  PROVE  (s \o t) \o u = s \o (t \o u)
BY SMTT(30)

LEMMA LeftOf ==
  ASSUME NEW s \in Seq(Nat), NEW t \in Seq(Nat), NEW i \in 1..Len(s)
  PROVE  (s \o t)[i] = s[i]
<1>1. Len(s) \in Nat /\ Len(t) \in Nat
  BY JoinedIs, Zenon
<1>2. i \in 1..Len(s) + Len(t) /\ i <= Len(s)
  BY <1>1
<1>3. (s \o t)[i] = IF i <= Len(s) THEN s[i] ELSE t[i - Len(s)]
  BY <1>2, ConcatProperties, Zenon
<1> QED  BY <1>2, <1>3, Zenon

LEMMA RightOf ==
  ASSUME NEW s \in Seq(Nat), NEW t \in Seq(Nat), NEW i \in 1..Len(t)
  PROVE  (s \o t)[Len(s) + i] = t[i]
<1>1. Len(s) \in Nat /\ Len(t) \in Nat
  BY JoinedIs, Zenon
<1>2. Len(s) + i \in 1..Len(s) + Len(t) /\ ~(Len(s) + i <= Len(s)) /\ (Len(s) + i) - Len(s) = i
  BY <1>1
<1>3. (s \o t)[Len(s) + i] = IF Len(s) + i <= Len(s) THEN s[Len(s) + i] ELSE t[(Len(s) + i) - Len(s)]
  BY <1>2, ConcatProperties, Zenon
<1> QED  BY <1>2, <1>3, Zenon

LEMMA LeftPart ==
  ASSUME NEW s \in Seq(Nat), NEW t \in Seq(Nat),
         NEW m \in Nat \ {0}, NEW n \in Nat, n <= Len(s)
  PROVE  SubSeq(s \o t, m, n) = SubSeq(s, m, n)
<1>1. Len(s) \in Nat
  BY JoinedIs, Zenon
<1>2. CASE m <= n
  <2>1. m \in 1..Len(s) /\ n \in 1..Len(s)
    BY <1>1, <1>2
  <2> QED  BY <2>1, SubSeqOfConcat1, Zenon
<1>3. CASE ~(m <= n)
  <2>1. n < m /\ m \in Int /\ n \in Int
    BY <1>3
  <2>2. SubSeq(s \o t, m, n) = <<>> /\ SubSeq(s, m, n) = <<>>
    BY <2>1, SubSeqEmpty, Zenon
  <2> QED  BY <2>2, Zenon
<1> QED  BY <1>2, <1>3

LEMMA RightPart ==
  ASSUME NEW s \in Seq(Nat), NEW t \in Seq(Nat)
  PROVE  SubSeq(s \o t, Len(s) + 1, Len(s) + Len(t)) = t
<1>1. Len(s) \in Nat /\ Len(t) \in Nat
  BY JoinedIs, Zenon
<1>2. CASE Len(t) = 0
  <2>1. t = <<>>
    BY <1>2, EmptySeq
  <2>2. Len(s) + Len(t) < Len(s) + 1 /\ Len(s) + 1 \in Int /\ Len(s) + Len(t) \in Int
    BY <1>1, <1>2
  <2>3. SubSeq(s \o t, Len(s) + 1, Len(s) + Len(t)) = <<>>
    BY <2>2, SubSeqEmpty, Zenon
  <2> QED  BY <2>1, <2>3, Zenon
<1>3. CASE Len(t) # 0
  <2>1. /\ Len(s) + 1 \in Len(s) + 1..Len(s) + Len(t)
        /\ Len(s) + Len(t) \in Len(s) + 1..Len(s) + Len(t)
        /\ (Len(s) + 1) - Len(s) = 1 /\ (Len(s) + Len(t)) - Len(s) = Len(t)
    BY <1>1, <1>3
  <2>2. SubSeq(s \o t, Len(s) + 1, Len(s) + Len(t))
          = SubSeq(t, (Len(s) + 1) - Len(s), (Len(s) + Len(t)) - Len(s))
    BY <2>1, SubSeqOfConcat2, Zenon
  <2>3. SubSeq(t, 1, Len(t)) = t
    BY SubSeqFull, Zenon
  <2> QED  BY <2>1, <2>2, <2>3, Zenon
<1> QED  BY <1>2, <1>3

LEMMA Counted8Is ==
  ASSUME NEW t \in Seq(Nat), Len(t) <= 255
  PROVE  /\ <<Len(t)>> \in Seq(Nat) /\ Len(<<Len(t)>>) = 1 /\ <<Len(t)>>[1] = Len(t)
         /\ Counted8(t) = <<Len(t)>> \o t
         /\ Counted8(t) \in Seq(Nat) /\ Len(Counted8(t)) = Len(t) + 1
         /\ Counted8(t)[1] = Len(t)
<1>1. Len(t) \in Nat
  BY LenProperties, Zenon
<1>2. Len(t) % 256 = Len(t)
  BY <1>1, SMT
<1>3. <<Len(t)>> \in Seq(Nat) /\ Len(<<Len(t)>>) = 1 /\ <<Len(t)>>[1] = Len(t)
  BY <1>1, SingletonIs, Zenon
<1>4. Counted8(t) = <<Len(t)>> \o t
  BY <1>2, Zenon DEF Counted8
<1>5. Counted8(t) \in Seq(Nat) /\ Len(Counted8(t)) = 1 + Len(t)
  BY <1>3, <1>4, JoinedIs, Zenon
<1>6. 1 \in 1..1 /\ 1 + Len(t) = Len(t) + 1
  BY <1>1
<1>7. Counted8(t)[1] = Len(t)
  BY <1>3, <1>4, <1>6, LeftOf, Zenon
<1> QED  BY <1>3, <1>4, <1>5, <1>6, <1>7, Zenon

\* A sequence and a counted text; that a text stands at p of a stream, and ends
\* before e.
WithText(s, t) == s \o Counted8(t)
TextIs(stream, p, t, e) ==
  /\ p \in 1..Len(stream) /\ stream[p] = Len(t) /\ p + Len(t) <= Len(stream)
  /\ Text(stream, p) = t /\ TextEnd(stream, p) = e

\* A counted text is read where it was written.
LEMMA TextAt ==
  ASSUME NEW s \in Seq(Nat), NEW t \in Seq(Nat), Len(t) <= 255, NEW u \in Seq(Nat)
  PROVE  /\ WithText(s, t) \in Seq(Nat) /\ Len(WithText(s, t)) = Len(s) + Len(t) + 1
         /\ TextIs(WithText(s, t) \o u, Len(s) + 1, t, Len(WithText(s, t)) + 1)
<1> DEFINE stream == WithText(s, t) \o u
           p == Len(s) + 1
           a == WithText(s, t)
           b == s \o <<Len(t)>>
<1>1. Len(s) \in Nat /\ Len(t) \in Nat
  BY LenProperties, Zenon
<1>2. /\ Counted8(t) \in Seq(Nat) /\ Len(Counted8(t)) = Len(t) + 1 /\ Counted8(t)[1] = Len(t)
      /\ Counted8(t) = <<Len(t)>> \o t /\ <<Len(t)>> \in Seq(Nat) /\ Len(<<Len(t)>>) = 1
  BY Counted8Is, Zenon
<1>3. a \in Seq(Nat) /\ Len(a) = Len(s) + (Len(t) + 1)
  <2>1. a \in Seq(Nat) /\ Len(a) = Len(s) + Len(Counted8(t))
    BY <1>2, JoinedIs, Zenon DEF WithText
  <2> QED  BY <1>2, <2>1, Zenon
<1>4. b \in Seq(Nat) /\ Len(b) = Len(s) + 1
  BY <1>2, JoinedIs, Zenon
<1>5. a = b \o t
  <2>1. (s \o <<Len(t)>>) \o t = s \o (<<Len(t)>> \o t)
    BY <1>2, RejoinedIs, Zenon
  <2> QED  BY <1>2, <2>1, Zenon DEF WithText
<1>6. stream[p] = Len(t)
  <2>1. 1 \in 1..Len(t) + 1 /\ p \in 1..Len(s) + (Len(t) + 1)
    BY <1>1
  <2>2. a[p] = Counted8(t)[1]
    <3>1. 1 \in 1..Len(Counted8(t))
      BY <1>2, <2>1, Zenon
    <3> QED  BY <1>2, <3>1, RightOf, Zenon DEF WithText
  <2> HIDE DEF a
  <2>3. (a \o u)[p] = a[p]
    BY <1>3, <2>1, LeftOf, Zenon
  <2> QED  BY <1>2, <2>2, <2>3, Zenon DEF a
<1>7. SubSeq(stream, p + 1, p + Len(t)) = t
  <2>1. SubSeq(b \o t, Len(b) + 1, Len(b) + Len(t)) = t
    <3> HIDE DEF b
    <3> QED  BY <1>4, RightPart, Zenon
  <2>2. SubSeq(a, p + 1, p + Len(t)) = t
    BY <1>4, <1>5, <2>1, Zenon
  <2>3. p + 1 \in Nat \ {0} /\ p + Len(t) \in Nat /\ p + Len(t) <= Len(a)
    <3> HIDE DEF a
    <3> QED  BY <1>1, <1>3
  <2> HIDE DEF a
  <2>4. SubSeq(a \o u, p + 1, p + Len(t)) = SubSeq(a, p + 1, p + Len(t))
    <3> DEFINE m == p + 1
               n == p + Len(t)
    <3>1. m \in Nat \ {0} /\ n \in Nat /\ n <= Len(a) /\ a \in Seq(Nat)
      BY <1>3, <2>3
    <3> HIDE DEF m, n
    <3>2. SubSeq(a \o u, m, n) = SubSeq(a, m, n)
      BY <3>1, LeftPart, Zenon
    <3> QED  BY <3>2 DEF m, n
  <2> QED  BY <2>2, <2>4, Zenon DEF a
<1>8. Text(stream, p) = t
  BY <1>6, <1>7, Zenon DEF Text
<1>9. TextEnd(stream, p) = Len(a) + 1 /\ Len(a) = Len(s) + Len(t) + 1
  <2>1. p + Len(t) + 1 = Len(a) + 1 /\ Len(a) = Len(s) + Len(t) + 1
    <3> HIDE DEF a
    <3> QED  BY <1>1, <1>3
  <2> QED  BY <1>6, <2>1, Zenon DEF TextEnd
<1>10. p \in 1..Len(stream) /\ p + Len(t) <= Len(stream)
  <2>1. Len(a \o u) = Len(a) + Len(u) /\ Len(u) \in Nat
    <3> HIDE DEF a
    <3> QED  BY <1>3, JoinedIs, Zenon
  <2> HIDE DEF a
  <2>2. p \in 1..Len(a \o u) /\ p + Len(t) <= Len(a \o u)
    BY <1>1, <1>3, <2>1
  <2> QED  BY <2>2 DEF a
<1>11. TextIs(stream, p, t, Len(a) + 1)
  BY <1>6, <1>8, <1>9, <1>10, Zenon DEF TextIs
<1> QED  BY <1>3, <1>9, <1>11, Zenon

\* Two texts one after the other, behind s.
TwoTextsIn(all, s, t, v) ==
  /\ all \in Seq(Nat) /\ \A i \in 1..Len(s) : all[i] = s[i]
  /\ TextIs(all, Len(s) + 1, t, Len(WithText(s, t)) + 1)
  /\ TextIs(all, Len(WithText(s, t)) + 1, v, Len(WithText(WithText(s, t), v)) + 1)

LEMMA TwoTexts ==
  ASSUME NEW s \in Seq(Nat), NEW t \in Seq(Nat), Len(t) <= 255,
         NEW v \in Seq(Nat), Len(v) <= 255, NEW u \in Seq(Nat)
  PROVE  /\ WithText(WithText(s, t), v) \in Seq(Nat)
         /\ TwoTextsIn(WithText(WithText(s, t), v) \o u, s, t, v)
<1> DEFINE a == WithText(s, t)
           b == WithText(a, v)
           all == b \o u
           rest == Counted8(v) \o u
<1>1. a \in Seq(Nat) /\ Len(a) = Len(s) + Len(t) + 1 /\ Counted8(v) \in Seq(Nat)
  BY TextAt, Counted8Is, Zenon
<1>2. rest \in Seq(Nat)
  BY <1>1, JoinedIs, Zenon
<1>3. all = a \o rest
  <2> HIDE DEF a
  <2> DEFINE w == Counted8(v)
  <2> HIDE DEF w
  <2>1. (a \o w) \o u = a \o (w \o u)
    <3>1. w \in Seq(Nat)
      BY <1>1, Zenon DEF w
    <3> QED  BY <1>1, <3>1, SMTT(60)
  <2> QED  BY <2>1, Zenon DEF WithText, w
<1>4. TextIs(a \o rest, Len(s) + 1, t, Len(a) + 1)
  <2> HIDE DEF rest
  <2> QED  BY <1>2, TextAt, Zenon
<1>5. b \in Seq(Nat) /\ TextIs(all, Len(a) + 1, v, Len(b) + 1)
  <2> HIDE DEF a
  <2> QED  BY <1>1, TextAt, Zenon
<1>6. all \in Seq(Nat)
  <2> HIDE DEF b
  <2> QED  BY <1>5, JoinedIs, Zenon
<1>7. ASSUME NEW i \in 1..Len(s) PROVE all[i] = s[i]
  <2>1. Len(s) \in Nat /\ Len(t) \in Nat
    BY LenProperties, Zenon
  <2>2. i \in 1..Len(a)
    <3> HIDE DEF a
    <3> QED  BY <1>1, <2>1
  <2>3. a[i] = s[i]
    <3>1. Counted8(t) \in Seq(Nat)
      BY Counted8Is, Zenon
    <3>2. (s \o Counted8(t))[i] = s[i]
      BY <3>1, LeftOf, Zenon
    <3> QED  BY <3>2, Zenon DEF WithText
  <2>4. (a \o rest)[i] = a[i]
    <3> HIDE DEF a, rest
    <3> QED  BY <1>1, <1>2, <2>2, LeftOf, Zenon
  <2> HIDE DEF a, rest, all
  <2> QED  BY <1>3, <2>3, <2>4, Zenon
<1> HIDE DEF rest
<1>8. TwoTextsIn(all, s, t, v)
  BY <1>3, <1>4, <1>5, <1>6, <1>7, Zenon DEF TwoTextsIn
<1> QED  BY <1>5, <1>8, Zenon

-----------------------------------------------------------------------------
(* Commands *)

LEMMA HeaderOf ==
  ASSUME NEW s \in Seq(Nat), Len(s) >= 4, NEW t \in Seq(Nat)
  PROVE  Header(s \o t) = Header(s)
<1>1. 1 \in Nat \ {0} /\ 4 \in Nat /\ 4 <= Len(s)
  BY LenProperties
<1>2. SubSeq(s \o t, 1, 4) = SubSeq(s, 1, 4)
  BY <1>1, LeftPart, Zenon
<1> QED  BY <1>2, Zenon DEF Header

LEMMA HeaderFull ==
  ASSUME NEW s \in Seq(Nat), Len(s) = 4 PROVE Header(s) = s
<1>1. SubSeq(s, 1, Len(s)) = s
  BY SubSeqFull, Zenon
<1> QED  BY <1>1, Zenon DEF Header

\* Another Le leaves what was there, and the header, as it was.
LEMMA AppendedIs ==
  ASSUME NEW s \in Seq(Nat), NEW le \in Nat
  PROVE  Len(Append(s, le)) = Len(s) + 1 /\ \A i \in 1..Len(s) : Append(s, le)[i] = s[i]
OBVIOUS

LEMMA HeaderKept ==
  ASSUME NEW s \in Seq(Nat), Len(s) >= 4, NEW le \in Nat
  PROVE  Header(Append(s, le)) = Header(s)
<1>1. <<le>> \in Seq(Nat) /\ Append(s, le) = s \o <<le>>
  BY SingletonIs, AppendIsConcat, Zenon
<1> QED  BY <1>1, HeaderOf, Zenon

\* The parts of a header, a zero, two bytes and a body put together.
Parts(header, length, data) == ((header \o <<0>>) \o length) \o data
PartsOf(c, header, length, data) ==
  /\ c \in Seq(Nat) /\ Len(c) = 7 + Len(data) /\ Header(c) = header
  /\ c[5] = 0 /\ c[6] = length[1] /\ c[7] = length[2]
  /\ SubSeq(c, 8, 7 + Len(data)) = data

LEMMA PartsAre ==
  ASSUME NEW header \in Seq(Nat), Len(header) = 4, NEW length \in Seq(Nat), Len(length) = 2,
         NEW data \in Seq(Nat)
  PROVE  PartsOf(Parts(header, length, data), header, length, data)
<1>1. <<0>> \in Seq(Nat) /\ Len(<<0>>) = 1 /\ <<0>>[1] = 0
  OBVIOUS
<1> DEFINE zero == <<0>>
           s == header \o zero
           c == Parts(header, length, data)
<1> HIDE DEF zero
<1>2. zero \in Seq(Nat) /\ Len(zero) = 1 /\ zero[1] = 0
  BY <1>1, Zenon DEF zero
<1>3. s \in Seq(Nat) /\ Len(s) = 5
  <2>1. s \in Seq(Nat) /\ Len(s) = Len(header) + Len(zero)
    BY <1>2, JoinedIs, Zenon
  <2> HIDE DEF s
  <2> QED  BY <1>2, <2>1
<1>4. s[5] = 0
  <2>1. 1 \in 1..1 /\ 4 + 1 = 5
    OBVIOUS
  <2>2. 1 \in 1..Len(zero)
    BY <1>2, <2>1, Zenon
  <2>3. s[Len(header) + 1] = zero[1]
    BY <1>2, <2>2, RightOf, Zenon
  <2> HIDE DEF s
  <2> QED  BY <1>2, <2>1, <2>3, Zenon
<1>5. Header(s) = header
  <2>1. Len(header) >= 4
    OBVIOUS
  <2>2. Header(s) = Header(header) /\ Header(header) = header
    BY <1>2, <2>1, HeaderOf, HeaderFull, Zenon
  <2> QED  BY <2>2, Zenon
<1> HIDE DEF s
<1> DEFINE front == s \o length
<1>6. front \in Seq(Nat) /\ Len(front) = 7
  <2>1. front \in Seq(Nat) /\ Len(front) = Len(s) + Len(length)
    BY <1>3, JoinedIs, Zenon
  <2> HIDE DEF front
  <2> QED  BY <1>3, <2>1
<1>7. front[5] = 0 /\ front[6] = length[1] /\ front[7] = length[2] /\ Header(front) = header
  <2>1. 1 \in 1..2 /\ 2 \in 1..2 /\ 5 \in 1..5 /\ 5 >= 4 /\ 5 + 1 = 6 /\ 5 + 2 = 7
    OBVIOUS
  <2>2. 1 \in 1..Len(length) /\ 2 \in 1..Len(length) /\ 5 \in 1..Len(s) /\ Len(s) >= 4
    BY <1>3, <2>1, Zenon
  <2>3. front[5] = s[5]
    BY <1>3, <2>2, LeftOf, Zenon
  <2>4. front[Len(s) + 1] = length[1] /\ front[Len(s) + 2] = length[2]
    BY <1>3, <2>2, RightOf, Zenon
  <2>5. Header(front) = Header(s)
    BY <1>3, <2>2, HeaderOf, Zenon
  <2> HIDE DEF front
  <2> QED  BY <1>3, <1>4, <1>5, <2>1, <2>3, <2>4, <2>5, Zenon
<1> HIDE DEF front
<1>8. c = front \o data
  BY Zenon DEF front, s, zero, Parts
<1> HIDE DEF c
<1>9. c \in Seq(Nat) /\ Len(c) = 7 + Len(data)
  <2>1. c \in Seq(Nat) /\ Len(c) = Len(front) + Len(data)
    BY <1>6, <1>8, JoinedIs, Zenon
  <2> QED  BY <1>6, <2>1, Zenon
<1>10. c[5] = front[5] /\ c[6] = front[6] /\ c[7] = front[7] /\ Header(c) = Header(front)
  <2>1. 5 \in 1..7 /\ 6 \in 1..7 /\ 7 \in 1..7 /\ 7 >= 4
    OBVIOUS
  <2>2. 5 \in 1..Len(front) /\ 6 \in 1..Len(front) /\ 7 \in 1..Len(front) /\ Len(front) >= 4
    BY <1>6, <2>1, Zenon
  <2>3. (front \o data)[5] = front[5] /\ (front \o data)[6] = front[6] /\ (front \o data)[7] = front[7]
    BY <1>6, <2>2, LeftOf, Zenon
  <2>4. Header(front \o data) = Header(front)
    BY <1>6, <2>2, HeaderOf, Zenon
  <2> QED  BY <1>8, <2>3, <2>4, Zenon
<1>11. SubSeq(c, 8, 7 + Len(data)) = data
  <2>1. SubSeq(front \o data, Len(front) + 1, Len(front) + Len(data)) = data
    BY <1>6, RightPart, Zenon
  <2>2. 7 + 1 = 8
    OBVIOUS
  <2> QED  BY <1>6, <1>8, <2>1, <2>2, Zenon
<1>12. PartsOf(c, header, length, data)
  BY <1>7, <1>9, <1>10, <1>11, Zenon DEF PartsOf
<1> QED  BY <1>12 DEF c

\* A command with a body: where its parts are, and that another Le spoils it.
LEMMA BuiltIs ==
  ASSUME NEW header \in Seq(Nat), Len(header) = 4, NEW data \in Seq(Nat), data # <<>>,
         NEW c, c = BuildApdu(header, data)
  PROVE  /\ c \in Seq(Nat) /\ Len(c) > 7 /\ Header(c) = header /\ Body(c) = data
         /\ \A le \in Nat : ~IsApdu(Append(c, le))
<1> DEFINE n == Len(data)
           length == U16(n)
<1>1. n \in Nat \ {0}
  BY EmptySeq, Zenon
<1>2. c = Parts(header, length, data)
  BY Zenon DEF BuildApdu, Parts
<1> HIDE DEF n
<1>3. length \in Seq(Nat) /\ Len(length) = 2 /\ length[1] * 256 + length[2] = n
  BY <1>1, U16Is
<1> HIDE DEF length
<1>4. /\ c \in Seq(Nat) /\ Len(c) = 7 + n /\ Header(c) = header
      /\ c[5] = 0 /\ c[6] = length[1] /\ c[7] = length[2]
      /\ SubSeq(c, 8, 7 + n) = data
  <2>1. length \in Seq(Nat) /\ Len(length) = 2
    BY <1>3, Zenon
  <2>2. /\ c \in Seq(Nat) /\ Len(c) = 7 + Len(data) /\ Header(c) = header
        /\ c[5] = 0 /\ c[6] = length[1] /\ c[7] = length[2]
        /\ SubSeq(c, 8, 7 + Len(data)) = data
    <3>1. PartsOf(Parts(header, length, data), header, length, data)
      BY <2>1, PartsAre, Zenon
    <3>2. PartsOf(c, header, length, data)
      BY <1>2, <3>1, Zenon
    <3> QED  BY <3>2, Zenon DEF PartsOf
  <2> QED  BY <2>2, Zenon DEF n
<1>5. c[6] * 256 + c[7] = n
  BY <1>3, <1>4, Zenon
<1>6. Body(c) = data /\ Len(c) > 7
  <2>1. Len(c) >= 7 /\ Len(c) > 5 /\ ~(Len(c) <= 5) /\ Len(c) > 7 /\ 8 - 1 + n = 7 + n
    BY <1>1, <1>4
  <2>2. IsExtended(c)
    BY <1>4, <2>1, Zenon DEF IsExtended
  <2>3. BodyStart(c) = 8
    BY <2>2, Zenon DEF BodyStart
  <2>4. BodyLen(c) = n
    BY <1>5, <2>1, <2>2 DEF BodyLen
  <2> QED  BY <1>4, <2>1, <2>3, <2>4, Zenon DEF Body
<1>7. ASSUME NEW le \in Nat PROVE ~IsApdu(Append(c, le))
  <2> DEFINE d == Append(c, le)
  <2>1. Len(d) = Len(c) + 1 /\ \A i \in 1..Len(c) : d[i] = c[i]
    BY <1>4, <1>7, AppendedIs, Zenon
  <2>2. 5 \in 1..Len(c) /\ 6 \in 1..Len(c) /\ 7 \in 1..Len(c) /\ Len(c) \in Nat
    BY <1>1, <1>4
  <2>3. d[5] = 0 /\ d[6] * 256 + d[7] = n
    <3>1. d[5] = c[5] /\ d[6] = c[6] /\ d[7] = c[7]
      BY <2>1, <2>2, Zenon
    <3> QED  BY <1>4, <1>5, <3>1, Zenon
  <2> HIDE DEF d
  <2>4. Len(d) = 8 + n
    BY <1>1, <1>4, <2>1
  <2>5. IsExtended(d) /\ Len(d) > 5 /\ ~(Len(d) <= 5)
    BY <1>1, <2>3, <2>4 DEF IsExtended
  <2>6. BodyStart(d) = 8 /\ BodyLen(d) = n
    BY <2>3, <2>5 DEF BodyStart, BodyLen
  <2>7. Len(d) - (BodyStart(d) - 1 + BodyLen(d)) = 1
    BY <1>1, <2>4, <2>6
  <2>8. ~(Len(d) \in {4, 5}) /\ Len(d) # 7
    BY <1>1, <2>4
  <2>9. ~(1 \in {0, 2})
    OBVIOUS
  <2>10. ~IsApdu(d)
    BY <2>5, <2>7, <2>8, <2>9, Zenon DEF IsApdu
  <2> QED  BY <2>10 DEF d
<1> QED  BY <1>4, <1>6, <1>7, Zenon

\* The headers, and what the key makes of a command by its header and body.
Headers == {SELECT_BY_NAME, READ_SERIAL_INS, READ_CONFIG, GET_ECDH_PUBKEY,
            ENUM_CODES_CONTINUE, WRITE_SEED, ENUM_CODES}

LEMMA HeadersAre == \A header \in Headers : header \in Seq(Nat) /\ Len(header) = 4
<1>1. SELECT_BY_NAME \in Seq(Nat) /\ Len(SELECT_BY_NAME) = 4
  BY DEF SELECT_BY_NAME
<1>2. READ_SERIAL_INS \in Seq(Nat) /\ Len(READ_SERIAL_INS) = 4
  BY DEF READ_SERIAL_INS
<1>3. READ_CONFIG \in Seq(Nat) /\ Len(READ_CONFIG) = 4
  BY DEF READ_CONFIG
<1>4. GET_ECDH_PUBKEY \in Seq(Nat) /\ Len(GET_ECDH_PUBKEY) = 4
  BY DEF GET_ECDH_PUBKEY
<1>5. ENUM_CODES_CONTINUE \in Seq(Nat) /\ Len(ENUM_CODES_CONTINUE) = 4
  BY DEF ENUM_CODES_CONTINUE
<1>6. WRITE_SEED \in Seq(Nat) /\ Len(WRITE_SEED) = 4
  BY DEF WRITE_SEED
<1>7. ENUM_CODES \in Seq(Nat) /\ Len(ENUM_CODES) = 4
  BY DEF ENUM_CODES
<1> QED  BY <1>1, <1>2, <1>3, <1>4, <1>5, <1>6, <1>7, Zenon DEF Headers

LEMMA UnderstoodIs ==
  ASSUME NEW c
  PROVE  /\ Header(c) = SELECT_BY_NAME => Understood(c) = [kind |-> "select"]
         /\ Header(c) = READ_SERIAL_INS => Understood(c) = [kind |-> "serial"]
         /\ Header(c) = READ_CONFIG => Understood(c) = [kind |-> "config"]
         /\ Header(c) = GET_ECDH_PUBKEY => Understood(c) = [kind |-> "pubkey"]
         /\ Header(c) = ENUM_CODES_CONTINUE => Understood(c) = [kind |-> "continue"]
         /\ Header(c) = WRITE_SEED =>
              Understood(c) = IF Body(c) = <<>> THEN [kind |-> "erase"] ELSE ReadClear(Unsealed(Body(c)))
         /\ Header(c) = ENUM_CODES /\ Body(c)[1] = SUB_READ_ALL => Understood(c) = [kind |-> "enum"]
         /\ Header(c) = ENUM_CODES /\ Body(c)[1] = SUB_READ_ONE =>
              Understood(c) =
                [kind |-> "read", app_name |-> Text(Body(c), 10),
                 account_name |-> Text(Body(c), TextEnd(Body(c), 10))]
<1>1. /\ SELECT_BY_NAME # READ_SERIAL_INS /\ SELECT_BY_NAME # READ_CONFIG
      /\ SELECT_BY_NAME # GET_ECDH_PUBKEY /\ SELECT_BY_NAME # ENUM_CODES_CONTINUE
      /\ SELECT_BY_NAME # WRITE_SEED /\ SELECT_BY_NAME # ENUM_CODES
      /\ READ_SERIAL_INS # READ_CONFIG /\ READ_SERIAL_INS # GET_ECDH_PUBKEY
      /\ READ_SERIAL_INS # ENUM_CODES_CONTINUE /\ READ_SERIAL_INS # WRITE_SEED
      /\ READ_SERIAL_INS # ENUM_CODES
      /\ READ_CONFIG # GET_ECDH_PUBKEY /\ READ_CONFIG # ENUM_CODES_CONTINUE
      /\ READ_CONFIG # WRITE_SEED /\ READ_CONFIG # ENUM_CODES
      /\ GET_ECDH_PUBKEY # ENUM_CODES_CONTINUE /\ GET_ECDH_PUBKEY # WRITE_SEED
      /\ GET_ECDH_PUBKEY # ENUM_CODES
      /\ ENUM_CODES_CONTINUE # WRITE_SEED /\ ENUM_CODES_CONTINUE # ENUM_CODES
      /\ WRITE_SEED # ENUM_CODES
  BY DEF SELECT_BY_NAME, READ_SERIAL_INS, READ_CONFIG, GET_ECDH_PUBKEY, ENUM_CODES_CONTINUE,
         WRITE_SEED, ENUM_CODES
<1>2. SUB_READ_ALL # SUB_READ_ONE
  BY DEF SUB_READ_ALL, SUB_READ_ONE
<1> QED  BY <1>1, <1>2 DEF Understood

\* A command, or the command with another Le.
AsSent(c, sent) == sent = c \/ \E le \in Nat : sent = Append(c, le)

LEMMA SentHeader ==
  ASSUME NEW header \in Headers, NEW c \in Seq(Nat), Len(c) >= 4, Header(c) = header,
         NEW sent, AsSent(c, sent)
  PROVE  Header(sent) = header
<1>1. CASE sent = c
  BY <1>1, Zenon
<1>2. ASSUME NEW le \in Nat, sent = Append(c, le) PROVE Header(sent) = header
  <2>1. Header(Append(c, le)) = Header(c)
    BY HeaderKept, Zenon
  <2> QED  BY <1>2, <2>1, Zenon
<1> QED  BY <1>1, <1>2, Zenon DEF AsSent

\* A command of a header and a body is sent as it is, if the card can cut it up.
LEMMA SentWhole ==
  ASSUME NEW header \in Headers, NEW data \in Seq(Nat), data # <<>>,
         NEW sent, AsSent(BuildApdu(header, data), sent), IsApdu(sent)
  PROVE  Header(sent) = header /\ Body(sent) = data
<1> DEFINE c == BuildApdu(header, data)
<1>1. header \in Seq(Nat) /\ Len(header) = 4
  BY HeadersAre, Zenon
<1>2. Header(c) = header /\ Body(c) = data /\ \A le \in Nat : ~IsApdu(Append(c, le))
  BY <1>1, BuiltIs, Zenon
<1> HIDE DEF c
<1>3. AsSent(c, sent)
  BY Zenon DEF c
<1>4. sent = c
  BY <1>2, <1>3, Zenon DEF AsSent
<1> QED  BY <1>2, <1>4, Zenon

\* A command of a header, and of a header and Le.
LEMMA ShortSent ==
  ASSUME NEW header \in Headers, NEW t \in Seq(Nat), NEW sent, AsSent(header \o t, sent)
  PROVE  Header(sent) = header
<1>1. header \in Seq(Nat) /\ Len(header) = 4
  BY HeadersAre, Zenon
<1> DEFINE c == header \o t
<1>2. c \in Seq(Nat) /\ Len(c) = Len(header) + Len(t) /\ Len(t) \in Nat
  BY <1>1, JoinedIs, Zenon
<1>3. Header(c) = header
  <2>1. Len(header) >= 4
    BY <1>1
  <2> QED  BY <1>1, <2>1, HeaderOf, HeaderFull, Zenon
<1> HIDE DEF c
<1>4. Len(c) >= 4
  BY <1>1, <1>2
<1>5. AsSent(c, sent)
  BY Zenon DEF c
<1> QED  BY <1>2, <1>3, <1>4, <1>5, SentHeader, Zenon

-----------------------------------------------------------------------------
(* What the key makes of each kind of request *)

LEMMA RequestIs ==
  ASSUME request \in RequestSet
  PROVE  /\ request.kind \in BareKinds \cup {"read", "delete", "write"}
         /\ request.kind \in BareKinds => request = [kind |-> request.kind]
         /\ request.kind \in {"read", "delete"} =>
              /\ request = [kind |-> request.kind, app_name |-> request.app_name,
                            account_name |-> request.account_name]
              /\ request.app_name \in Seq(Byte) /\ request.account_name \in Seq(Byte)
         /\ request.kind = "write" => request.entry \in EntrySet /\ request.secret \in Seq(Nat)
<1>1. CASE request \in [kind : BareKinds]
  <2>1. request.kind \in BareKinds /\ request = [kind |-> request.kind]
    BY <1>1
  <2>2. request.kind \notin {"read", "delete", "write"}
    BY <2>1 DEF BareKinds
  <2> QED  BY <2>1, <2>2
<1>2. CASE request \in [kind : {"read", "delete"}, app_name : Seq(Byte), account_name : Seq(Byte)]
  <2>1. /\ request.kind \in {"read", "delete"}
        /\ request = [kind |-> request.kind, app_name |-> request.app_name,
                      account_name |-> request.account_name]
        /\ request.app_name \in Seq(Byte) /\ request.account_name \in Seq(Byte)
    BY <1>2
  <2>2. request.kind \notin BareKinds /\ request.kind # "write"
    BY <2>1 DEF BareKinds
  <2> QED  BY <2>1, <2>2
<1>3. CASE request \in [kind : {"write"}, secret : Seq(Nat), entry : EntrySet]
  <2>1. request.kind = "write" /\ request.entry \in EntrySet /\ request.secret \in Seq(Nat)
    BY <1>3
  <2>2. request.kind \notin BareKinds
    BY <2>1 DEF BareKinds
  <2> QED  BY <2>1, <2>2
<1> QED  BY <1>1, <1>2, <1>3 DEF RequestSet

\* A request with a body, what its body is.
LEMMA CommandIs ==
         LET c == CommandOf(request)
         IN /\ request.kind = "select" => c.value = SELECT_BY_NAME \o (<<Len(OTP_APPLET_AID)>> \o OTP_APPLET_AID)
            /\ request.kind = "serial" => c.value = BuildApdu(READ_SERIAL_INS, <<209, 16>> \o [i \in 1..16 |-> 0])
            /\ request.kind = "config" => c.value = READ_CONFIG \o <<64>>
            /\ request.kind = "pubkey" => c.value = GET_ECDH_PUBKEY \o <<0>>
            /\ request.kind = "enum" => c.value = BuildApdu(ENUM_CODES, SerializeEnumAll(Now))
            /\ request.kind = "continue" => c.value = BuildApdu(ENUM_CODES_CONTINUE, U64(Now))
            /\ request.kind = "erase" => c.value = BuildApdu(WRITE_SEED, <<>>)
            /\ request.kind = "read" /\ c.ok =>
                 LET body == SerializeReadEntry(Now, request.app_name, request.account_name)
                 IN body.ok /\ c.value = BuildApdu(ENUM_CODES, body.value)
            /\ request.kind = "delete" => c = WriteSeedOf(SerializeDeleteEntry(request.app_name, request.account_name))
            /\ request.kind = "write" /\ c.ok =>
                 DecodeBase32Seed(request.secret).ok /\ c = WriteSeedOf(SerializeWriteEntry(EntryOf(request)))
<1> DEFINE c == CommandOf(request)
<1>1. request.kind = "select" => c.value = SELECT_BY_NAME \o (<<Len(OTP_APPLET_AID)>> \o OTP_APPLET_AID)
  <2>1. request.kind = "select" => c.value = BuildSelect(OTP_APPLET_AID)
    BY DEF CommandOf, Valid
  <2>2. BuildSelect(OTP_APPLET_AID) = SELECT_BY_NAME \o (<<Len(OTP_APPLET_AID)>> \o OTP_APPLET_AID)
    <3>1. /\ SELECT_BY_NAME \in Seq(Nat) /\ OTP_APPLET_AID \in Seq(Nat)
          /\ <<Len(OTP_APPLET_AID)>> \in Seq(Nat)
      BY DEF SELECT_BY_NAME, OTP_APPLET_AID
    <3> QED  BY <3>1, RejoinedIs, Zenon DEF BuildSelect
  <2> QED  BY <2>1, <2>2, Zenon
<1>2. request.kind = "serial" => c.value = BuildApdu(READ_SERIAL_INS, <<209, 16>> \o [i \in 1..16 |-> 0])
  BY DEF CommandOf, Valid
<1>3. request.kind = "config" => c.value = READ_CONFIG \o <<64>>
  <2>1. ReadConfig(64) = READ_CONFIG \o <<64>>
    BY DEF ReadConfig
  <2>2. request.kind = "config" => c.value = ReadConfig(64)
    BY DEF CommandOf, Valid
  <2> QED  BY <2>1, <2>2, Zenon
<1>4. request.kind = "pubkey" => c.value = GET_ECDH_PUBKEY \o <<0>>
  <2>1. request.kind = "pubkey" => c.value = GetEcdhPubkey
    BY DEF CommandOf, Valid
  <2> QED  BY <2>1, Zenon DEF GetEcdhPubkey
<1>5. request.kind = "enum" => c.value = BuildApdu(ENUM_CODES, SerializeEnumAll(Now))
  BY DEF CommandOf, Valid
<1>6. request.kind = "continue" => c.value = BuildApdu(ENUM_CODES_CONTINUE, U64(Now))
  BY DEF CommandOf, Valid
<1>7. request.kind = "erase" => c.value = BuildApdu(WRITE_SEED, <<>>)
  BY DEF CommandOf, Valid
<1>8. request.kind = "read" /\ c.ok =>
        LET body == SerializeReadEntry(Now, request.app_name, request.account_name)
        IN body.ok /\ c.value = BuildApdu(ENUM_CODES, body.value)
  BY DEF CommandOf, Valid, Invalid
<1>9. request.kind = "delete" => c = WriteSeedOf(SerializeDeleteEntry(request.app_name, request.account_name))
  BY DEF CommandOf
<1>10. request.kind = "write" /\ c.ok =>
         DecodeBase32Seed(request.secret).ok /\ c = WriteSeedOf(SerializeWriteEntry(EntryOf(request)))
  BY DEF CommandOf, Invalid
<1> QED
  BY <1>1, <1>2, <1>3, <1>4, <1>5, <1>6, <1>7, <1>8, <1>9, <1>10, Zenon

LEMMA TimeIs == U64(Now) \in Seq(Nat) /\ Len(U64(Now)) = 8 /\ U64(Now) # <<>>
<1> DEFINE zeros == <<0, 0, 0, 0, 0, 0>>
           low == U16(Now)
<1>1. zeros \in Seq(Nat) /\ Len(zeros) = 6
  OBVIOUS
<1>2. low \in Seq(Nat) /\ Len(low) = 2
  BY U16Is DEF Now
<1> HIDE DEF zeros, low
<1>3. zeros \o low \in Seq(Nat) /\ Len(zeros \o low) = Len(zeros) + Len(low)
  BY <1>1, <1>2, JoinedIs, Zenon
<1>4. zeros \o low = U64(Now)
  BY Zenon DEF U64, zeros, low
<1>5. Len(U64(Now)) = 8
  BY <1>1, <1>2, <1>3, <1>4
<1>6. U64(Now) # <<>>
  BY <1>5, EmptySeq
<1> QED  BY <1>3, <1>4, <1>5, <1>6, Zenon

\* A byte before the time.
LEMMA TimedIs ==
  ASSUME NEW b \in Nat
  PROVE  LET s == <<b>> \o U64(Now)
         IN s \in Seq(Nat) /\ Len(s) = 9 /\ s # <<>> /\ s[1] = b
<1> DEFINE first == <<b>>
           s == first \o U64(Now)
<1>1. first \in Seq(Nat) /\ Len(first) = 1 /\ first[1] = b
  OBVIOUS
<1> HIDE DEF first
<1>2. s \in Seq(Nat) /\ Len(s) = Len(first) + Len(U64(Now))
  BY <1>1, TimeIs, JoinedIs, Zenon
<1>3. 1 \in 1..1
  OBVIOUS
<1>4. s[1] = first[1]
  BY <1>1, <1>3, TimeIs, LeftOf, Zenon
<1> HIDE DEF s
<1>5. Len(s) = 9
  BY <1>1, <1>2, TimeIs
<1>6. s # <<>>
  BY <1>5, EmptySeq
<1>7. s \in Seq(Nat) /\ Len(s) = 9 /\ s # <<>> /\ s[1] = b
  BY <1>1, <1>2, <1>4, <1>5, <1>6, Zenon
<1> QED  BY <1>7, Zenon DEF s, first

\* What may be sent of a request.
Sends(sent) == AsSent(CommandOf(request).value, sent) /\ IsApdu(sent)

LEMMA BareIsRead ==
  ASSUME request \in RequestSet, request.kind \in BareKinds, NEW sent, Sends(sent)
  PROVE  Understood(sent) = request
<1> DEFINE c == CommandOf(request).value
<1>1. AsSent(c, sent) /\ IsApdu(sent)
  BY Zenon DEF Sends
<1>2. request = [kind |-> request.kind]
  BY RequestIs, Zenon
<1> HIDE DEF c
<1>3. CASE request.kind = "select"
  <2> DEFINE t == <<Len(OTP_APPLET_AID)>> \o OTP_APPLET_AID
  <2>1. c = SELECT_BY_NAME \o t
    BY <1>3, CommandIs, Zenon DEF c
  <2>2. t \in Seq(Nat)
    BY DEF OTP_APPLET_AID
  <2> HIDE DEF t
  <2>3. AsSent(SELECT_BY_NAME \o t, sent) /\ SELECT_BY_NAME \in Headers
    BY <1>1, <2>1, Zenon DEF Headers
  <2>4. Header(sent) = SELECT_BY_NAME
    BY <2>2, <2>3, ShortSent, Zenon
  <2> QED  BY <1>2, <1>3, <2>4, UnderstoodIs, Zenon
<1>4. CASE request.kind = "config"
  <2> DEFINE t == <<64>>
  <2>1. c = READ_CONFIG \o t
    BY <1>4, CommandIs, Zenon DEF c
  <2>2. t \in Seq(Nat)
    OBVIOUS
  <2> HIDE DEF t
  <2>3. AsSent(READ_CONFIG \o t, sent) /\ READ_CONFIG \in Headers
    BY <1>1, <2>1, Zenon DEF Headers
  <2>4. Header(sent) = READ_CONFIG
    BY <2>2, <2>3, ShortSent, Zenon
  <2> QED  BY <1>2, <1>4, <2>4, UnderstoodIs, Zenon
<1>5. CASE request.kind = "pubkey"
  <2> DEFINE t == <<0>>
  <2>1. c = GET_ECDH_PUBKEY \o t
    BY <1>5, CommandIs, Zenon DEF c
  <2>2. t \in Seq(Nat)
    OBVIOUS
  <2> HIDE DEF t
  <2>3. AsSent(GET_ECDH_PUBKEY \o t, sent) /\ GET_ECDH_PUBKEY \in Headers
    BY <1>1, <2>1, Zenon DEF Headers
  <2>4. Header(sent) = GET_ECDH_PUBKEY
    BY <2>2, <2>3, ShortSent, Zenon
  <2> QED  BY <1>2, <1>5, <2>4, UnderstoodIs, Zenon
<1>6. CASE request.kind = "serial"
  <2> DEFINE data == <<209, 16>> \o [i \in 1..16 |-> 0]
  <2>1. c = BuildApdu(READ_SERIAL_INS, data)
    BY <1>6, CommandIs, Zenon DEF c
  <2>2. data \in Seq(Nat) /\ data # <<>>
    <3> DEFINE tag == <<209, 16>>
               zeros == [i \in 1..16 |-> 0]
    <3>1. tag \in Seq(Nat) /\ zeros \in Seq(Nat) /\ Len(tag) = 2
      OBVIOUS
    <3> HIDE DEF tag, zeros
    <3>2. /\ tag \o zeros \in Seq(Nat) /\ Len(zeros) \in Nat
          /\ Len(tag \o zeros) = Len(tag) + Len(zeros)
      BY <3>1, JoinedIs, Zenon
    <3>3. Len(tag \o zeros) # 0
      BY <3>1, <3>2
    <3>4. tag \o zeros # <<>>
      BY <3>3, EmptySeq
    <3> QED  BY <3>2, <3>4, Zenon DEF tag, zeros
  <2> HIDE DEF data
  <2>3. AsSent(BuildApdu(READ_SERIAL_INS, data), sent) /\ READ_SERIAL_INS \in Headers
    BY <1>1, <2>1, Zenon DEF Headers
  <2>4. Header(sent) = READ_SERIAL_INS
    BY <1>1, <2>2, <2>3, SentWhole, Zenon
  <2> QED  BY <1>2, <1>6, <2>4, UnderstoodIs, Zenon
<1>7. CASE request.kind = "enum"
  <2> DEFINE data == SerializeEnumAll(Now)
  <2>1. c = BuildApdu(ENUM_CODES, data)
    BY <1>7, CommandIs, Zenon DEF c
  <2>2. data \in Seq(Nat) /\ data # <<>> /\ data[1] = SUB_READ_ALL
    <3>1. SUB_READ_ALL \in Nat
      BY DEF SUB_READ_ALL
    <3> QED  BY <3>1, TimedIs, Zenon DEF SerializeEnumAll
  <2> HIDE DEF data
  <2>3. AsSent(BuildApdu(ENUM_CODES, data), sent) /\ ENUM_CODES \in Headers
    BY <1>1, <2>1, Zenon DEF Headers
  <2>4. Header(sent) = ENUM_CODES /\ Body(sent) = data
    BY <1>1, <2>2, <2>3, SentWhole, Zenon
  <2>5. Body(sent)[1] = SUB_READ_ALL
    BY <2>2, <2>4, Zenon
  <2> QED  BY <1>2, <1>7, <2>4, <2>5, UnderstoodIs, Zenon
<1>8. CASE request.kind = "continue"
  <2> DEFINE data == U64(Now)
  <2>1. c = BuildApdu(ENUM_CODES_CONTINUE, data)
    BY <1>8, CommandIs, Zenon DEF c
  <2>2. data \in Seq(Nat) /\ data # <<>>
    BY TimeIs, Zenon
  <2> HIDE DEF data
  <2>3. AsSent(BuildApdu(ENUM_CODES_CONTINUE, data), sent) /\ ENUM_CODES_CONTINUE \in Headers
    BY <1>1, <2>1, Zenon DEF Headers
  <2>4. Header(sent) = ENUM_CODES_CONTINUE
    BY <1>1, <2>2, <2>3, SentWhole, Zenon
  <2> QED  BY <1>2, <1>8, <2>4, UnderstoodIs, Zenon
<1>9. CASE request.kind = "erase"
  <2>1. c = WRITE_SEED
    <3>1. c = BuildApdu(WRITE_SEED, <<>>)
      BY <1>9, CommandIs, Zenon DEF c
    <3> QED  BY <3>1, Zenon DEF BuildApdu
  <2>2. WRITE_SEED \in Headers /\ WRITE_SEED \in Seq(Nat) /\ Len(WRITE_SEED) = 4
    BY HeadersAre, Zenon DEF Headers
  <2>3. Len(WRITE_SEED) >= 4
    BY <2>2
  <2>4. Header(sent) = WRITE_SEED
    BY <1>1, <2>1, <2>2, <2>3, HeaderFull, SentHeader, Zenon
  <2>5. Len(sent) <= 5
    <3>1. CASE sent = c
      <4>1. sent = WRITE_SEED
        BY <2>1, <3>1, Zenon
      <4> HIDE DEF WRITE_SEED
      <4>2. Len(sent) = 4
        BY <2>2, <4>1, Zenon
      <4> QED  BY <4>2
    <3>2. ASSUME NEW le \in Nat, sent = Append(c, le) PROVE Len(sent) <= 5
      <4>1. Len(Append(WRITE_SEED, le)) = Len(WRITE_SEED) + 1
        BY <2>2, AppendedIs, Zenon
      <4> QED  BY <2>1, <2>2, <3>2, <4>1
    <3> QED  BY <1>1, <3>1, <3>2, Zenon DEF AsSent
  <2>6. Body(sent) = <<>>
    BY <2>5, Zenon DEF Body
  <2> QED  BY <1>2, <1>9, <2>4, <2>6, UnderstoodIs, Zenon
<1> QED  BY <1>3, <1>4, <1>5, <1>6, <1>7, <1>8, <1>9, Zenon DEF BareKinds

LEMMA NamesFit ==
  ASSUME NEW app, NEW account, ValidNames(app, account)
  PROVE  Len(app) <= 255 /\ Len(account) <= 255
<1>1. MaxText \in 1..255
  BY EntriesAssumption, Zenon
<1>2. IsAscii(app) /\ Len(app) <= MaxText /\ IsAscii(account) /\ Len(account) \in 1..MaxText
  BY Zenon DEF ValidNames
<1> QED  BY <1>1, <1>2

\* Two texts at the end.
TwoTextsLastIn(all, s, t, v) ==
  /\ all \in Seq(Nat) /\ all # <<>> /\ \A i \in 1..Len(s) : all[i] = s[i]
  /\ Text(all, Len(s) + 1) = t /\ Text(all, TextEnd(all, Len(s) + 1)) = v

LEMMA TwoTextsLast ==
  ASSUME NEW s \in Seq(Nat), NEW t \in Seq(Nat), Len(t) <= 255, NEW v \in Seq(Nat), Len(v) <= 255
  PROVE  TwoTextsLastIn(WithText(WithText(s, t), v), s, t, v)
<1> DEFINE all == WithText(WithText(s, t), v)
           none == <<>>
<1>1. none \in Seq(Nat)
  OBVIOUS
<1> HIDE DEF none
<1>2. all \in Seq(Nat) /\ TwoTextsIn(all \o none, s, t, v)
  BY <1>1, TwoTexts, Zenon
<1> HIDE DEF all
<1>3. all \o none = all
  BY <1>2, ConcatEmptySeq, Zenon DEF none
<1>4. TwoTextsIn(all, s, t, v)
  BY <1>2, <1>3, Zenon
<1>5. Text(all, Len(s) + 1) = t /\ Text(all, TextEnd(all, Len(s) + 1)) = v
  BY <1>4, Zenon DEF TwoTextsIn, TextIs
<1>6. all # <<>>
  <2>1. Len(s) \in Nat /\ Len(s) + 1 \in 1..Len(all)
    BY <1>4, LenProperties, Zenon DEF TwoTextsIn, TextIs
  <2>2. Len(all) # 0
    BY <2>1
  <2> QED  BY <2>2, EmptySeq
<1>7. TwoTextsLastIn(all, s, t, v)
  BY <1>2, <1>4, <1>5, <1>6, Zenon DEF TwoTextsIn, TwoTextsLastIn
<1> QED  BY <1>7, Zenon DEF all

LEMMA ReadIsRead ==
  ASSUME request \in RequestSet, request.kind = "read", CommandOf(request).ok, NEW sent, Sends(sent)
  PROVE  Understood(sent) = request
<1> DEFINE app == request.app_name
           account == request.account_name
           body == SerializeReadEntry(Now, app, account)
           pre == <<SUB_READ_ONE>> \o U64(Now)
           data == WithText(WithText(pre, app), account)
<1>1. body.ok /\ CommandOf(request).value = BuildApdu(ENUM_CODES, body.value)
  BY CommandIs, Zenon
<1>3. /\ request = [kind |-> "read", app_name |-> app, account_name |-> account]
      /\ app \in Seq(Nat) /\ account \in Seq(Nat)
  <2>1. request.kind \in {"read", "delete"}
    OBVIOUS
  <2> QED  BY <2>1, RequestIs, BytesAreNumbers, Zenon
<1>4. ValidNames(app, account)
  BY <1>1 DEF SerializeReadEntry, Invalid
<1>5. body.value = data
  BY <1>4 DEF SerializeReadEntry, Valid, WithText
<1>6. pre \in Seq(Nat) /\ Len(pre) = 9 /\ pre[1] = SUB_READ_ONE
  <2>1. SUB_READ_ONE \in Nat
    BY DEF SUB_READ_ONE
  <2> QED  BY <2>1, TimedIs, Zenon
<1> HIDE DEF app, account, body, pre
<1>7. /\ data \in Seq(Nat) /\ data # <<>> /\ \A i \in 1..Len(pre) : data[i] = pre[i]
      /\ Text(data, Len(pre) + 1) = app /\ Text(data, TextEnd(data, Len(pre) + 1)) = account
  <2>1. Len(app) <= 255 /\ Len(account) <= 255
    BY <1>4, NamesFit, Zenon
  <2>2. TwoTextsLastIn(data, pre, app, account)
    BY <1>3, <1>6, <2>1, TwoTextsLast, Zenon
  <2> HIDE DEF data
  <2> QED  BY <2>2, Zenon DEF TwoTextsLastIn
<1> HIDE DEF data
<1>8. 1 \in 1..9 /\ 9 + 1 = 10
  OBVIOUS
<1>9. data[1] = SUB_READ_ONE /\ Text(data, 10) = app /\ Text(data, TextEnd(data, 10)) = account
  BY <1>6, <1>7, <1>8, Zenon
<1>11. Header(sent) = ENUM_CODES /\ Body(sent) = data
  <2>1. AsSent(BuildApdu(ENUM_CODES, data), sent) /\ IsApdu(sent) /\ ENUM_CODES \in Headers
    BY <1>1, <1>5, Zenon DEF Headers, Sends
  <2> QED  BY <1>7, <2>1, SentWhole, Zenon
<1> QED  BY <1>3, <1>9, <1>11, UnderstoodIs, Zenon

\* Three texts at the end, as a sealed record has them.
ClearTextIn(all, front, t, v, w) ==
  /\ all \in Seq(Nat) /\ \A i \in 1..6 : all[i] = front[i]
  /\ Text(all, 7) = t /\ Text(all, TextEnd(all, 7)) = v
  /\ Text(all, TextEnd(all, TextEnd(all, 7))) = w

LEMMA ThreeTexts ==
  ASSUME NEW s \in Seq(Nat), Len(s) = 6,
         NEW t \in Seq(Nat), Len(t) <= 255, NEW v \in Seq(Nat), Len(v) <= 255,
         NEW w \in Seq(Nat), Len(w) <= 255
  PROVE  ClearTextIn(WithText(WithText(WithText(s, t), v), w), s, t, v, w)
<1> DEFINE two == WithText(WithText(s, t), v)
           all == WithText(two, w)
           none == <<>>
           last == Counted8(w)
<1>1. none \in Seq(Nat)
  OBVIOUS
<1>2. last \in Seq(Nat)
  BY Counted8Is, Zenon
<1> HIDE DEF none, last
<1>3. two \in Seq(Nat) /\ TwoTextsIn(two \o last, s, t, v)
  BY <1>2, TwoTexts, Zenon
<1> HIDE DEF two
<1>4. TwoTextsIn(all, s, t, v)
  BY <1>3, Zenon DEF WithText, last
<1>5. all \in Seq(Nat) /\ TextIs(all \o none, Len(two) + 1, w, Len(all) + 1)
  BY <1>1, <1>3, TextAt, Zenon
<1> HIDE DEF all
<1>6. TextIs(all, Len(two) + 1, w, Len(all) + 1)
  BY <1>5, ConcatEmptySeq, Zenon DEF none
<1>7. 6 + 1 = 7
  OBVIOUS
<1>8. /\ \A i \in 1..6 : all[i] = s[i]
      /\ TextIs(all, 7, t, Len(WithText(s, t)) + 1)
      /\ TextIs(all, Len(WithText(s, t)) + 1, v, Len(two) + 1)
  BY <1>4, <1>7, Zenon DEF TwoTextsIn, two
<1>9. ClearTextIn(all, s, t, v, w)
  BY <1>5, <1>6, <1>8, Zenon DEF ClearTextIn, TextIs
<1> QED  BY <1>9, Zenon DEF all, two

LEMMA SealedIs ==
  ASSUME NEW clear \in Seq(Nat)
  PROVE  Sealed(clear) \in Seq(Nat) /\ Sealed(clear) # <<>> /\ Unsealed(Sealed(clear)) = clear
<1> DEFINE key == <<4>>
           blob == key \o clear
<1>1. key \in Seq(Nat) /\ Len(key) = 1
  OBVIOUS
<1> HIDE DEF key
<1>2. blob \in Seq(Nat) /\ Len(blob) = Len(key) + Len(clear) /\ Len(clear) \in Nat
  BY <1>1, JoinedIs, Zenon
<1>3. SubSeq(blob, Len(key) + 1, Len(key) + Len(clear)) = clear
  BY <1>1, RightPart, Zenon
<1>4. Sealed(clear) = blob
  BY Zenon DEF Sealed, key
<1> HIDE DEF blob
<1>5. Len(blob) # 0
  BY <1>1, <1>2
<1>6. blob # <<>>
  BY <1>5, EmptySeq
<1>7. Tail(blob) = SubSeq(blob, 2, Len(blob))
  BY <1>2, <1>6, TailIsSubSeq, Zenon
<1>8. 1 + 1 = 2
  OBVIOUS
<1>9. Tail(blob) = clear
  BY <1>1, <1>2, <1>3, <1>7, <1>8, Zenon
<1> QED  BY <1>2, <1>4, <1>6, <1>9, Zenon DEF Unsealed

\* A sealed record is read as what it says.
LEMMA SealedIsRead ==
  ASSUME NEW clear \in Seq(Nat), CommandOf(request) = WriteSeedOf(Valid(clear)),
         NEW sent, Sends(sent)
  PROVE  Understood(sent) = ReadClear(clear)
<1> DEFINE data == Sealed(clear)
<1>1. data \in Seq(Nat) /\ data # <<>> /\ Unsealed(data) = clear
  BY SealedIs, Zenon
<1>2. CommandOf(request).value = BuildApdu(WRITE_SEED, data)
  BY DEF WriteSeedOf, Valid
<1> HIDE DEF data
<1>3. AsSent(BuildApdu(WRITE_SEED, data), sent) /\ IsApdu(sent) /\ WRITE_SEED \in Headers
  BY <1>2, Zenon DEF Sends, Headers
<1>4. Header(sent) = WRITE_SEED /\ Body(sent) = data
  BY <1>1, <1>3, SentWhole, Zenon
<1>5. Understood(sent) = IF Body(sent) = <<>> THEN [kind |-> "erase"] ELSE ReadClear(Unsealed(Body(sent)))
  BY <1>4, UnderstoodIs, Zenon
<1> QED  BY <1>1, <1>4, <1>5, Zenon

LEMMA DeleteIsRead ==
  ASSUME request \in RequestSet, request.kind = "delete", CommandOf(request).ok, NEW sent, Sends(sent)
  PROVE  Understood(sent) = request
<1> DEFINE app == request.app_name
           account == request.account_name
           front == <<0, 0, 0, 0, 0, 0>>
           none == <<>>
           clear == WithText(WithText(WithText(front, app), account), none)
           record == SerializeDeleteEntry(app, account)
<1>1. CommandOf(request) = WriteSeedOf(record)
  BY CommandIs, Zenon
<1>2. /\ request = [kind |-> "delete", app_name |-> app, account_name |-> account]
      /\ app \in Seq(Nat) /\ account \in Seq(Nat)
  <2>1. request.kind \in {"read", "delete"}
    OBVIOUS
  <2> QED  BY <2>1, RequestIs, BytesAreNumbers, Zenon
<1>3. record.ok
  BY <1>1 DEF WriteSeedOf, Invalid
<1>4. ValidNames(app, account)
  BY <1>3 DEF SerializeDeleteEntry, Invalid
<1>5. Counted8(none) = <<0>>
  BY DEF Counted8
<1>6. front \in Seq(Nat) /\ Len(front) = 6 /\ none \in Seq(Nat) /\ Len(none) <= 255
  OBVIOUS
<1>7. record = Valid(clear)
  BY <1>4, <1>5, Zenon DEF SerializeDeleteEntry, WithText
<1> HIDE DEF app, account, front, record
<1>8. ClearTextIn(clear, front, app, account, none)
  <2>1. Len(app) <= 255 /\ Len(account) <= 255
    BY <1>4, NamesFit, Zenon
  <2> HIDE DEF none
  <2> QED  BY <1>2, <1>6, <2>1, ThreeTexts, Zenon
<1> HIDE DEF clear
<1>9. Understood(sent) = ReadClear(clear)
  <2>1. CommandOf(request) = WriteSeedOf(Valid(clear)) /\ clear \in Seq(Nat)
    BY <1>1, <1>7, <1>8, Zenon DEF ClearTextIn
  <2> QED  BY <2>1, SealedIsRead, Zenon
<1>10. ReadClear(clear) = [kind |-> "delete", app_name |-> app, account_name |-> account]
  BY <1>8, Zenon DEF ClearTextIn, ReadClear
<1> QED  BY <1>2, <1>9, <1>10, Zenon

\* The six bytes before the texts.
FrontIs(front, a, b, n, c, d) ==
  /\ front \in Seq(Nat) /\ Len(front) = 6
  /\ front[1] = a /\ front[2] = b /\ front[3] * 256 + front[4] = n /\ front[5] = c /\ front[6] = d

LEMMA FrontHas ==
  ASSUME NEW a \in Nat, NEW b \in Nat, NEW n \in Nat, NEW c \in Nat, NEW d \in Nat
  PROVE  FrontIs((<<a, b>> \o U16(n)) \o <<c, d>>, a, b, n, c, d)
<1> DEFINE s == <<a, b>>
           t == U16(n)
           u == <<c, d>>
           st == s \o t
           front == st \o u
<1>1. s \in Seq(Nat) /\ Len(s) = 2 /\ s[1] = a /\ s[2] = b
  OBVIOUS
<1>2. t \in Seq(Nat) /\ Len(t) = 2 /\ t[1] * 256 + t[2] = n
  BY U16Is, Zenon
<1>3. u \in Seq(Nat) /\ Len(u) = 2 /\ u[1] = c /\ u[2] = d
  OBVIOUS
<1> HIDE DEF s, t, u
<1>4. st \in Seq(Nat) /\ Len(st) = Len(s) + Len(t)
  BY <1>1, <1>2, JoinedIs, Zenon
<1>5. /\ 1 \in 1..2 /\ 2 \in 1..2 /\ 2 + 1 = 3 /\ 2 + 2 = 4 /\ 4 + 1 = 5 /\ 4 + 2 = 6
      /\ 1 \in 1..4 /\ 2 \in 1..4 /\ 3 \in 1..4 /\ 4 \in 1..4
  OBVIOUS
<1>6. /\ 1 \in 1..Len(s) /\ 2 \in 1..Len(s) /\ 1 \in 1..Len(t) /\ 2 \in 1..Len(t)
      /\ 1 \in 1..Len(u) /\ 2 \in 1..Len(u)
  BY <1>1, <1>2, <1>3, <1>5, Zenon
<1>7. st[1] = s[1] /\ st[2] = s[2] /\ st[Len(s) + 1] = t[1] /\ st[Len(s) + 2] = t[2]
  BY <1>1, <1>2, <1>6, LeftOf, RightOf, Zenon
<1> HIDE DEF st
<1>8. st[1] = a /\ st[2] = b /\ st[3] = t[1] /\ st[4] = t[2] /\ Len(st) = 4
  BY <1>1, <1>2, <1>4, <1>5, <1>7, Zenon
<1>9. front \in Seq(Nat) /\ Len(front) = Len(st) + Len(u)
  BY <1>3, <1>4, JoinedIs, Zenon
<1>10. 1 \in 1..Len(st) /\ 2 \in 1..Len(st) /\ 3 \in 1..Len(st) /\ 4 \in 1..Len(st)
  BY <1>5, <1>8, Zenon
<1>11. /\ front[1] = st[1] /\ front[2] = st[2] /\ front[3] = st[3] /\ front[4] = st[4]
       /\ front[Len(st) + 1] = u[1] /\ front[Len(st) + 2] = u[2]
  BY <1>3, <1>4, <1>6, <1>10, LeftOf, RightOf, Zenon
<1> HIDE DEF front
<1>12. Len(front) = 6
  BY <1>3, <1>8, <1>9
<1>13. front[3] * 256 + front[4] = n
  BY <1>2, <1>8, <1>11, Zenon
<1>14. FrontIs(front, a, b, n, c, d)
  BY <1>3, <1>5, <1>8, <1>9, <1>11, <1>12, <1>13, Zenon DEF FrontIs
<1> QED  BY <1>14, Zenon DEF front, st, s, t, u

\* A byte stands for one name.
LEMMA OneName ==
  ASSUME NEW f, \A x, y \in DOMAIN f : f[y] = f[x] => y = x
  PROVE  \A x \in DOMAIN f : Named(f, f[x]) = x
BY Zenon DEF Named

LEMMA NamedIs ==
  /\ \A type \in {"Hotp", "Totp"} : TypeByte[type] \in {0, 1} /\ Named(TypeByte, TypeByte[type]) = type
  /\ \A algorithm \in {"Sha1", "Sha256"} :
       AlgorithmByte[algorithm] \in {193, 194} /\ Named(AlgorithmByte, AlgorithmByte[algorithm]) = algorithm
<1>1. /\ DOMAIN TypeByte = {"Hotp", "Totp"} /\ TypeByte["Hotp"] = 0 /\ TypeByte["Totp"] = 1
      /\ DOMAIN AlgorithmByte = {"Sha1", "Sha256"}
      /\ AlgorithmByte["Sha1"] = 193 /\ AlgorithmByte["Sha256"] = 194
  BY DEF TypeByte, AlgorithmByte
<1>2. \A x, y \in DOMAIN TypeByte : TypeByte[y] = TypeByte[x] => y = x
  BY <1>1
<1>3. \A x, y \in DOMAIN AlgorithmByte : AlgorithmByte[y] = AlgorithmByte[x] => y = x
  BY <1>1
<1>4. \A x \in DOMAIN TypeByte : Named(TypeByte, TypeByte[x]) = x
  BY <1>2, OneName, Zenon
<1>5. \A x \in DOMAIN AlgorithmByte : Named(AlgorithmByte, AlgorithmByte[x]) = x
  BY <1>3, OneName, Zenon
<1>6. \A type \in {"Hotp", "Totp"} : TypeByte[type] \in {0, 1}
  BY <1>1
<1>7. \A algorithm \in {"Sha1", "Sha256"} : AlgorithmByte[algorithm] \in {193, 194}
  BY <1>1
<1>8. \A type \in {"Hotp", "Totp"} : Named(TypeByte, TypeByte[type]) = type
  BY <1>1, <1>4, Zenon
<1>9. \A algorithm \in {"Sha1", "Sha256"} : Named(AlgorithmByte, AlgorithmByte[algorithm]) = algorithm
  BY <1>1, <1>5, Zenon
<1> QED  BY <1>6, <1>7, <1>8, <1>9

LEMMA BoolByteIs == \A b \in BOOLEAN : BoolByte(b) \in {0, 1} /\ (BoolByte(b) = 1) = b
BY DEF BoolByte

LEMMA EntryIs ==
  ASSUME NEW e \in EntrySet
  PROVE  /\ e.otp_type \in {"Hotp", "Totp"} /\ e.algorithm \in {"Sha1", "Sha256"}
         /\ e.timestep \in Nat /\ e.code_length \in Nat /\ e.button_required \in BOOLEAN
         /\ e.app_name \in Seq(Byte) /\ e.account_name \in Seq(Byte)
         /\ DOMAIN e = {"otp_type", "algorithm", "timestep", "code_length", "button_required",
                        "app_name", "account_name"}
<1> DEFINE types == {"Hotp", "Totp"}
           algorithms == {"Sha1", "Sha256"}
           words == Word
           texts == Seq(Byte)
           bools == BOOLEAN
<1>1. EntrySet = [otp_type : types, algorithm : algorithms, timestep : words, code_length : Byte,
                  button_required : bools, app_name : texts, account_name : texts]
  BY Zenon DEF EntrySet
<1>2. (\A n \in words : n \in Nat) /\ (\A n \in Byte : n \in Nat)
  BY DEF Byte, Word
<1> HIDE DEF types, algorithms, words, texts, bools
<1>3. /\ e.otp_type \in types /\ e.algorithm \in algorithms
      /\ e.timestep \in words /\ e.code_length \in Byte /\ e.button_required \in bools
      /\ e.app_name \in texts /\ e.account_name \in texts
      /\ DOMAIN e = {"otp_type", "algorithm", "timestep", "code_length", "button_required",
                     "app_name", "account_name"}
  BY <1>1
<1>4. e.timestep \in Nat /\ e.code_length \in Nat
  BY <1>2, <1>3, Zenon
<1> QED  BY <1>3, <1>4, Zenon DEF types, algorithms, texts, bools

\* An entry with its seed, field by field.
LEMMA WithSeedIs ==
  ASSUME NEW e \in EntrySet, NEW seed
  PROVE  WithSeed(e, seed) =
           [otp_type |-> e.otp_type, algorithm |-> e.algorithm, timestep |-> e.timestep,
            code_length |-> e.code_length, button_required |-> e.button_required,
            app_name |-> e.app_name, account_name |-> e.account_name, seed |-> seed]
<1> DEFINE record == [otp_type |-> e.otp_type, algorithm |-> e.algorithm, timestep |-> e.timestep,
                      code_length |-> e.code_length, button_required |-> e.button_required,
                      app_name |-> e.app_name, account_name |-> e.account_name, seed |-> seed]
           fields == {"otp_type", "algorithm", "timestep", "code_length", "button_required",
                      "app_name", "account_name", "seed"}
<1>1. DOMAIN e \cup {"seed"} = fields
  BY EntryIs
<1>2. WithSeed(e, seed) = [field \in fields |-> IF field = "seed" THEN seed ELSE e[field]]
  BY <1>1, Zenon DEF WithSeed
<1>3. record = [field \in fields |-> record[field]]
  OBVIOUS
<1>4. \A field \in fields : record[field] = IF field = "seed" THEN seed ELSE e[field]
  OBVIOUS
<1> HIDE DEF record, fields
<1>5. WithSeed(e, seed) = record
  BY <1>2, <1>3, <1>4
<1> QED  BY <1>5, Zenon DEF record

\* The secret is decoded as its letters say.
SecretRead ==
  request.kind = "write" /\ DecodeBase32Seed(request.secret).ok =>
    /\ DecodeBase32Seed(request.secret).value = SeedOf(request.secret)
    /\ SeedOf(request.secret) \in Seq(Byte)

LEMMA WriteIsRead ==
  ASSUME request \in RequestSet, request.kind = "write", CommandOf(request).ok, SecretRead,
         NEW sent, Sends(sent)
  PROVE  Understood(sent) = [kind |-> "write", entry |-> WithSeed(request.entry, SeedOf(request.secret))]
<1> DEFINE q == request.entry
           seed == SeedOf(request.secret)
           e == WithSeed(q, seed)
           record == SerializeWriteEntry(e)
           type == TypeByte[q.otp_type]
           algorithm == AlgorithmByte[q.algorithm]
           button == BoolByte(q.button_required)
           front == (<<type, algorithm>> \o U16(q.timestep)) \o <<q.code_length, button>>
           clear == WithText(WithText(WithText(front, q.app_name), q.account_name), seed)
<1>1. /\ DecodeBase32Seed(request.secret).ok /\ CommandOf(request) = WriteSeedOf(SerializeWriteEntry(EntryOf(request)))
      /\ DecodeBase32Seed(request.secret).value = seed /\ seed \in Seq(Byte)
  BY CommandIs, Zenon DEF SecretRead
<1>2. CommandOf(request) = WriteSeedOf(record)
  BY <1>1, Zenon DEF EntryOf
<1>3. q \in EntrySet
  BY RequestIs, Zenon
<1> HIDE DEF q, seed
<1>4. /\ q.otp_type \in {"Hotp", "Totp"} /\ q.algorithm \in {"Sha1", "Sha256"} /\ q.timestep \in Nat
      /\ q.code_length \in Nat /\ q.button_required \in BOOLEAN
      /\ q.app_name \in Seq(Byte) /\ q.account_name \in Seq(Byte)
  BY <1>3, EntryIs, Zenon
<1>5. e = [otp_type |-> q.otp_type, algorithm |-> q.algorithm, timestep |-> q.timestep,
           code_length |-> q.code_length, button_required |-> q.button_required,
           app_name |-> q.app_name, account_name |-> q.account_name, seed |-> seed]
  BY <1>3, WithSeedIs, Zenon
<1>6. /\ e.otp_type = q.otp_type /\ e.algorithm = q.algorithm /\ e.timestep = q.timestep
      /\ e.code_length = q.code_length /\ e.button_required = q.button_required
      /\ e.app_name = q.app_name /\ e.account_name = q.account_name /\ e.seed = seed
  <2> HIDE DEF e
  <2> QED  BY <1>5
<1> HIDE DEF e
<1>7. ValidWrite(e)
  <2>1. record.ok
    BY <1>2 DEF WriteSeedOf, Invalid
  <2> QED  BY <2>1 DEF SerializeWriteEntry, Invalid
<1>8. /\ Len(q.app_name) <= 255 /\ Len(q.account_name) <= 255
      /\ Len(seed) <= 255 /\ Len(seed) # 0
  <2>1. ValidNames(q.app_name, q.account_name) /\ Len(seed) \in 1..MaxSeed
    BY <1>6, <1>7, Zenon DEF ValidWrite
  <2>2. MaxSeed \in 1..255
    BY EntriesAssumption, Zenon
  <2>3. Len(seed) <= 255 /\ Len(seed) # 0
    BY <2>1, <2>2
  <2> QED  BY <2>1, <2>3, NamesFit, Zenon
<1>9. record = Valid(clear)
  BY <1>6, <1>7, Zenon DEF SerializeWriteEntry, WithText
<1>10. type \in Nat /\ algorithm \in Nat /\ button \in Nat
  BY <1>4, NamedIs, BoolByteIs
<1>11. FrontIs(front, type, algorithm, q.timestep, q.code_length, button)
  <2> HIDE DEF type, algorithm, button
  <2> QED  BY <1>4, <1>10, FrontHas, Zenon
<1> HIDE DEF record, front
<1>12. ClearTextIn(clear, front, q.app_name, q.account_name, seed)
  <2>1. q.app_name \in Seq(Nat) /\ q.account_name \in Seq(Nat) /\ seed \in Seq(Nat)
    BY <1>1, <1>4, BytesAreNumbers, Zenon
  <2>2. front \in Seq(Nat) /\ Len(front) = 6
    BY <1>11, Zenon DEF FrontIs
  <2> QED  BY <1>8, <2>1, <2>2, ThreeTexts, Zenon
<1> HIDE DEF clear
<1>13. Understood(sent) = ReadClear(clear)
  <2>1. CommandOf(request) = WriteSeedOf(Valid(clear)) /\ clear \in Seq(Nat)
    BY <1>2, <1>9, <1>12, Zenon DEF ClearTextIn
  <2> QED  BY <2>1, SealedIsRead, Zenon
<1>14. 1 \in 1..6 /\ 2 \in 1..6 /\ 3 \in 1..6 /\ 4 \in 1..6 /\ 5 \in 1..6 /\ 6 \in 1..6
  OBVIOUS
<1>15. /\ clear[1] = type /\ clear[2] = algorithm /\ clear[3] * 256 + clear[4] = q.timestep
       /\ clear[5] = q.code_length /\ clear[6] = button
  BY <1>11, <1>12, <1>14, Zenon DEF ClearTextIn, FrontIs
<1>16. /\ Named(TypeByte, clear[1]) = q.otp_type /\ Named(AlgorithmByte, clear[2]) = q.algorithm
       /\ (clear[6] = 1) = q.button_required
  <2>1. Named(TypeByte, type) = q.otp_type /\ Named(AlgorithmByte, algorithm) = q.algorithm
    BY <1>4, NamedIs, Zenon
  <2>2. (button = 1) = q.button_required
    BY <1>4, BoolByteIs, Zenon
  <2> HIDE DEF type, algorithm, button
  <2> QED  BY <1>15, <2>1, <2>2, Zenon
<1>17. seed # <<>>
  BY <1>8, EmptySeq
<1>18. ReadClear(clear) = [kind |-> "write", entry |-> e]
  <2> DEFINE account == TextEnd(clear, 7)
  <2>1. /\ Text(clear, 7) = q.app_name /\ Text(clear, account) = q.account_name
        /\ Text(clear, TextEnd(clear, account)) = seed
    BY <1>12, Zenon DEF ClearTextIn
  <2>2. ReadClear(clear) =
          [kind |-> "write",
           entry |-> [otp_type |-> Named(TypeByte, clear[1]), algorithm |-> Named(AlgorithmByte, clear[2]),
                      timestep |-> clear[3] * 256 + clear[4], code_length |-> clear[5],
                      button_required |-> clear[6] = 1,
                      app_name |-> Text(clear, 7), account_name |-> Text(clear, account),
                      seed |-> Text(clear, TextEnd(clear, account))]]
    BY <1>17, <2>1, Zenon DEF ReadClear
  <2> HIDE DEF account
  <2> QED  BY <1>5, <1>15, <1>16, <2>1, <2>2, Zenon
<1> QED  BY <1>13, <1>18, Zenon DEF e, q, seed

-----------------------------------------------------------------------------
(* What the host makes of an entry the key wrote down *)

LEMMA KeyTextIs ==
  ASSUME NEW t \in KeyText
  PROVE  t \in Seq(Nat) /\ Len(t) <= 255 /\ IsAscii(t)
<1>1. t \in Seq(0..127) /\ Len(t) <= 255
  BY Zenon DEF KeyText
<1>2. 0..127 \subseteq Nat
  OBVIOUS
<1>3. t \in Seq(Nat)
  BY <1>1, <1>2, SeqMonotonic, Zenon
<1>4. ASSUME NEW i \in DOMAIN t PROVE t[i] < 128
  <2>1. t[i] \in 0..127
    BY <1>1, <1>4, LenProperties, ElementOfSeq, Zenon
  <2> QED  BY <2>1
<1> QED  BY <1>1, <1>3, <1>4, Zenon DEF IsAscii

LEMMA TextFitsIs ==
  ASSUME NEW stream, NEW p, NEW t \in KeyText, NEW e, TextIs(stream, p, t, e), Len(stream) \in Nat
  PROVE  TextFits(stream, p)
<1>1. p \in 1..Len(stream) /\ stream[p] = Len(t) /\ p + Len(t) <= Len(stream) /\ Text(stream, p) = t
  BY Zenon DEF TextIs
<1>2. SubSeq(stream, p + 1, p + stream[p]) = t
  BY <1>1, Zenon DEF Text
<1>3. p <= Len(stream)
  BY <1>1
<1> QED  BY <1>1, <1>2, <1>3, KeyTextIs, Zenon DEF TextFits

LEMMA KeyEntryIs ==
  ASSUME NEW e \in KeyEntry
  PROVE  /\ e.otp_type \in {"Hotp", "Totp"} /\ e.algorithm \in {"Sha1", "Sha256"}
         /\ e.timestep \in Nat /\ e.code_length \in Nat /\ e.button_required \in BOOLEAN
         /\ e.app_name \in KeyText /\ e.account_name \in KeyText /\ e.account_name # <<>>
         /\ e.code # NoCode => e.code[1] \in KeyText /\ e.code = <<e.code[1]>>
         /\ e = [otp_type |-> e.otp_type, algorithm |-> e.algorithm, timestep |-> e.timestep,
                 code_length |-> e.code_length, button_required |-> e.button_required,
                 app_name |-> e.app_name, account_name |-> e.account_name, code |-> e.code]
<1> DEFINE types == {"Hotp", "Totp"}
           algorithms == {"Sha1", "Sha256"}
           bools == BOOLEAN
           accounts == KeyText \ {<<>>}
           codes == {c \in Seq(KeyText) : Len(c) <= 1}
<1>1. KeyEntry = [otp_type : types, algorithm : algorithms, timestep : Word, code_length : Byte,
                  button_required : bools, app_name : KeyText, account_name : accounts, code : codes]
  BY Zenon DEF KeyEntry
<1>2. (\A n \in Word : n \in Nat) /\ (\A n \in Byte : n \in Nat)
  BY DEF Byte, Word
<1>3. \A c \in codes : c # NoCode => c[1] \in KeyText /\ c = <<c[1]>>
  <2> SUFFICES ASSUME NEW c \in Seq(KeyText), Len(c) <= 1, c # <<>>
               PROVE  c[1] \in KeyText /\ c = <<c[1]>>
    BY DEF NoCode
  <2>1. Len(c) \in Nat \ {0}
    BY EmptySeq, Zenon
  <2>2. Len(c) = 1
    <3>1. \A n \in Nat \ {0} : n <= 1 => n = 1
      OBVIOUS
    <3> QED  BY <2>1, <3>1, Zenon
  <2>3. 1 \in 1..Len(c)
    BY <2>2
  <2>4. c[1] \in KeyText
    BY <2>3, ElementOfSeq, Zenon
  <2>5. SubSeq(c, 1, 1) = c
    BY <2>2, SubSeqFull, Zenon
  <2> DEFINE x == c[1]
             d == <<x>>
  <2>6. d \in Seq(KeyText) /\ Len(d) = 1 /\ d[1] = x
    BY <2>4, SingletonIs, Zenon
  <2> HIDE DEF d
  <2>7. \A i \in 1..Len(c) : c[i] = d[i]
    BY <2>2, <2>6
  <2>8. c = d
    BY <2>2, <2>6, <2>7, SeqEqual, Zenon
  <2> QED  BY <2>4, <2>8, Zenon DEF d
<1>4. accounts \subseteq KeyText /\ <<>> \notin accounts
  BY Zenon
<1> HIDE DEF types, algorithms, bools, accounts, codes
<1>5. /\ e.otp_type \in types /\ e.algorithm \in algorithms
      /\ e.timestep \in Word /\ e.code_length \in Byte /\ e.button_required \in bools
      /\ e.app_name \in KeyText /\ e.account_name \in accounts /\ e.code \in codes
      /\ e = [otp_type |-> e.otp_type, algorithm |-> e.algorithm, timestep |-> e.timestep,
              code_length |-> e.code_length, button_required |-> e.button_required,
              app_name |-> e.app_name, account_name |-> e.account_name, code |-> e.code]
  BY <1>1
<1>6. e.timestep \in Nat /\ e.code_length \in Nat
  BY <1>2, <1>5, Zenon
<1>7. e.account_name \in KeyText /\ e.account_name # <<>>
  BY <1>4, <1>5, Zenon
<1> QED  BY <1>3, <1>5, <1>6, <1>7, Zenon DEF types, algorithms, bools

\* An entry that stands at p of a stream, and ends before the byte at end.
EntryIsAt(stream, p, force, e, end) ==
  /\ IsEntry(stream, p, force) /\ ParseOneEntry(stream, p, force) = e
  /\ EntryEnd(stream, p, force) = end

\* The bytes of an entry: those before its texts, two texts, and its code if any.
FrontOf(e) == (<<TypeByte[e.otp_type], AlgorithmByte[e.algorithm]>> \o U16(e.timestep))
              \o <<e.code_length, BoolByte(e.button_required)>>
CodeOf(e)  == IF e.code = NoCode THEN <<>> ELSE Counted8(e.code[1])
NamesOf(s, e) == WithText(WithText(s, e.app_name), e.account_name)

LEMMA EntryBytesIs ==
  ASSUME NEW e \in KeyEntry
  PROVE  /\ EntryBytes(e) = NamesOf(FrontOf(e), e) \o CodeOf(e)
         /\ FrontIs(FrontOf(e), TypeByte[e.otp_type], AlgorithmByte[e.algorithm], e.timestep,
                    e.code_length, BoolByte(e.button_required))
         /\ TypeByte[e.otp_type] \in {0, 1} /\ AlgorithmByte[e.algorithm] \in {193, 194}
         /\ BoolByte(e.button_required) \in {0, 1}
         /\ CodeOf(e) \in Seq(Nat)
<1>1. /\ e.otp_type \in {"Hotp", "Totp"} /\ e.algorithm \in {"Sha1", "Sha256"}
      /\ e.timestep \in Nat /\ e.code_length \in Nat /\ e.button_required \in BOOLEAN
      /\ e.code # NoCode => e.code[1] \in KeyText
  BY KeyEntryIs, Zenon
<1>2. EntryBytes(e) = NamesOf(FrontOf(e), e) \o CodeOf(e)
  BY Zenon DEF EntryBytes, NamesOf, FrontOf, CodeOf, WithText
<1> DEFINE a == TypeByte[e.otp_type]
           b == AlgorithmByte[e.algorithm]
           d == BoolByte(e.button_required)
<1>3. a \in {0, 1} /\ b \in {193, 194} /\ d \in {0, 1}
  BY <1>1, NamedIs, BoolByteIs, Zenon
<1>4. FrontOf(e) = (<<a, b>> \o U16(e.timestep)) \o <<e.code_length, d>>
  BY Zenon DEF FrontOf
<1> HIDE DEF a, b, d
<1>5. a \in Nat /\ b \in Nat /\ d \in Nat
  BY <1>3
<1>6. FrontIs(FrontOf(e), a, b, e.timestep, e.code_length, d)
  BY <1>1, <1>4, <1>5, FrontHas, Zenon
<1>7. CodeOf(e) \in Seq(Nat)
  <2>1. CASE e.code = NoCode
    <3>1. <<>> \in Seq(Nat)
      OBVIOUS
    <3> QED  BY <2>1, <3>1, Zenon DEF CodeOf
  <2>2. CASE e.code # NoCode
    <3>1. e.code[1] \in Seq(Nat) /\ Len(e.code[1]) <= 255
      BY <1>1, <2>2, KeyTextIs, Zenon
    <3>2. Counted8(e.code[1]) \in Seq(Nat)
      BY <3>1, Counted8Is, Zenon
    <3> QED  BY <2>2, <3>2, Zenon DEF CodeOf
  <2> QED  BY <2>1, <2>2, Zenon
<1> QED  BY <1>2, <1>3, <1>6, <1>7, Zenon DEF a, b, d

\* The front and the names, after what stands before them.
LEMMA NamesAfter ==
  ASSUME NEW pre \in Seq(Nat), NEW e \in KeyEntry
  PROVE  /\ pre \o FrontOf(e) \in Seq(Nat) /\ Len(pre \o FrontOf(e)) = Len(pre) + 6
         /\ NamesOf(pre \o FrontOf(e), e) \in Seq(Nat)
         /\ pre \o EntryBytes(e) \in Seq(Nat)
         /\ pre \o EntryBytes(e) = NamesOf(pre \o FrontOf(e), e) \o CodeOf(e)
<1> DEFINE f == FrontOf(e)
           a == Counted8(e.app_name)
           b == Counted8(e.account_name)
           c == CodeOf(e)
           s == pre \o f
<1>1. f \in Seq(Nat) /\ Len(f) = 6 /\ c \in Seq(Nat) /\ EntryBytes(e) = NamesOf(f, e) \o c
  BY EntryBytesIs, Zenon DEF FrontIs
<1>2. a \in Seq(Nat) /\ b \in Seq(Nat)
  <2>1. /\ e.app_name \in Seq(Nat) /\ Len(e.app_name) <= 255
        /\ e.account_name \in Seq(Nat) /\ Len(e.account_name) <= 255
    BY KeyEntryIs, KeyTextIs, Zenon
  <2> QED  BY <2>1, Counted8Is, Zenon
<1>3. NamesOf(f, e) = (f \o a) \o b /\ NamesOf(s, e) = (s \o a) \o b
  BY Zenon DEF NamesOf, WithText
<1> HIDE DEF f, a, b, c
<1>4. s \in Seq(Nat) /\ Len(s) = Len(pre) + Len(f)
  BY <1>1, JoinedIs, Zenon
<1>5. /\ f \o a \in Seq(Nat) /\ (f \o a) \o b \in Seq(Nat)
      /\ s \o a \in Seq(Nat) /\ (s \o a) \o b \in Seq(Nat)
  <2> HIDE DEF s
  <2> QED  BY <1>1, <1>2, <1>4, JoinedIs, Zenon
<1>6. /\ pre \o (((f \o a) \o b) \o c) = (pre \o ((f \o a) \o b)) \o c
      /\ pre \o ((f \o a) \o b) = (pre \o (f \o a)) \o b
      /\ pre \o (f \o a) = (pre \o f) \o a
  <2>1. pre \o (f \o a) = (pre \o f) \o a
    BY <1>1, <1>2, RejoinedIs, Zenon
  <2>2. pre \o ((f \o a) \o b) = (pre \o (f \o a)) \o b
    <3> DEFINE g == f \o a
    <3>1. g \in Seq(Nat)
      BY <1>5, Zenon
    <3> HIDE DEF g
    <3>2. pre \o (g \o b) = (pre \o g) \o b
      BY <1>2, <3>1, RejoinedIs, Zenon
    <3> QED  BY <3>2, Zenon DEF g
  <2>3. pre \o (((f \o a) \o b) \o c) = (pre \o ((f \o a) \o b)) \o c
    <3> DEFINE g == (f \o a) \o b
    <3>1. g \in Seq(Nat)
      BY <1>5, Zenon
    <3> HIDE DEF g
    <3>2. pre \o (g \o c) = (pre \o g) \o c
      BY <1>1, <3>1, RejoinedIs, Zenon
    <3> QED  BY <3>2, Zenon DEF g
  <2> QED  BY <2>1, <2>2, <2>3, Zenon
<1>7. pre \o EntryBytes(e) = NamesOf(s, e) \o c
  BY <1>1, <1>3, <1>6, Zenon
<1>8. NamesOf(s, e) \in Seq(Nat)
  BY <1>3, <1>5, Zenon
<1>9. NamesOf(s, e) \o c \in Seq(Nat)
  BY <1>1, <1>8, JoinedIs, Zenon
<1>10. Len(s) = Len(pre) + 6
  BY <1>1, <1>4, Zenon
<1> QED  BY <1>4, <1>7, <1>8, <1>9, <1>10, Zenon DEF f, c

\* The bytes of a front that begins at p of a stream.
FrontAt(stream, p, a, b, n, c, d) ==
  /\ p \in Nat /\ stream[p] = a /\ stream[p + 1] = b /\ stream[p + 2] * 256 + stream[p + 3] = n
  /\ stream[p + 4] = c /\ stream[p + 5] = d

StartsWith(stream, s) == \A i \in 1..Len(s) : stream[i] = s[i]

LEMMA FrontAfter ==
  ASSUME NEW pre \in Seq(Nat), NEW front, NEW a, NEW b, NEW n, NEW c, NEW d,
         FrontIs(front, a, b, n, c, d),
         NEW stream, StartsWith(stream, pre \o front)
  PROVE  FrontAt(stream, Len(pre) + 1, a, b, n, c, d)
<1> DEFINE s == pre \o front
           k == Len(pre)
<1>1. /\ front \in Seq(Nat) /\ Len(front) = 6 /\ front[1] = a /\ front[2] = b
      /\ front[3] * 256 + front[4] = n /\ front[5] = c /\ front[6] = d
  BY Zenon DEF FrontIs
<1>2. k \in Nat /\ Len(s) = k + Len(front)
  BY <1>1, JoinedIs, Zenon
<1>3. ASSUME NEW i \in 1..6 PROVE stream[k + i] = front[i]
  <2>1. i \in 1..Len(front)
    BY <1>1, <1>3, Zenon
  <2>2. s[k + i] = front[i]
    BY <1>1, <2>1, RightOf, Zenon
  <2>3. k + i \in 1..Len(s)
    <3> HIDE DEF k, s
    <3> QED  BY <1>1, <1>2, <1>3
  <2> QED  BY <2>2, <2>3, Zenon DEF StartsWith
<1>4. 1 \in 1..6 /\ 2 \in 1..6 /\ 3 \in 1..6 /\ 4 \in 1..6 /\ 5 \in 1..6 /\ 6 \in 1..6
  OBVIOUS
<1> HIDE DEF k, s
<1>5. /\ k + 1 \in Nat /\ (k + 1) + 1 = k + 2 /\ (k + 1) + 2 = k + 3 /\ (k + 1) + 3 = k + 4
      /\ (k + 1) + 4 = k + 5 /\ (k + 1) + 5 = k + 6 /\ (k + 1) + 6 = (k + 6) + 1
  BY <1>2
<1>6. /\ stream[k + 1] = front[1] /\ stream[k + 2] = front[2] /\ stream[k + 3] = front[3]
      /\ stream[k + 4] = front[4] /\ stream[k + 5] = front[5] /\ stream[k + 6] = front[6]
  BY <1>3, <1>4, Zenon
<1>7. FrontAt(stream, k + 1, a, b, n, c, d)
  BY <1>1, <1>5, <1>6, Zenon DEF FrontAt
<1> QED  BY <1>7, Zenon DEF k

\* A code follows where it is asked for by force, or where the bytes of the type
\* and of the flag say so.
LEMMA HasCodeIs ==
  ASSUME NEW e \in KeyEntry, NEW force \in BOOLEAN
  PROVE  HasCode(TypeByte[e.otp_type], BoolByte(e.button_required), force) = (force \/ ShowsCode(e))
<1>1. e.otp_type \in {"Hotp", "Totp"} /\ e.button_required \in BOOLEAN
  BY KeyEntryIs, Zenon
<1>2. /\ TypeByte["Hotp"] = 0 /\ TypeByte["Totp"] = 1 /\ TypeByte.Totp = 1
      /\ BoolByte(TRUE) = 1 /\ BoolByte(FALSE) = 0 /\ 1 # 0
  BY DEF TypeByte, BoolByte
<1>3. (TypeByte[e.otp_type] = TypeByte.Totp) = (e.otp_type = "Totp")
  BY <1>1, <1>2
<1>4. (BoolByte(e.button_required) = 0) = ~e.button_required
  BY <1>1, <1>2, Zenon
<1> QED  BY <1>3, <1>4, Zenon DEF HasCode, ShowsCode

\* An entry is read where it was written, whatever stands before and behind it,
\* and it ends where its bytes do.
LEMMA EntryAfter ==
  ASSUME NEW pre \in Seq(Nat), NEW e \in KeyEntry, NEW post \in Seq(Nat), NEW force \in BOOLEAN,
         (e.code # NoCode) = (force \/ ShowsCode(e))
  PROVE  /\ (pre \o EntryBytes(e)) \o post \in Seq(Nat)
         /\ EntryIsAt((pre \o EntryBytes(e)) \o post, Len(pre) + 1, force, e, Len(pre \o EntryBytes(e)) + 1)
<1> DEFINE s == pre \o FrontOf(e)
           app == e.app_name
           account == e.account_name
           names == NamesOf(s, e)
           code == CodeOf(e)
           rest == code \o post
           stream == (pre \o EntryBytes(e)) \o post
           p == Len(pre) + 1
           q == Len(WithText(s, app)) + 1
           r == Len(names) + 1
           end == Len(pre \o EntryBytes(e)) + 1
           type == TypeByte[e.otp_type]
           algorithm == AlgorithmByte[e.algorithm]
           button == BoolByte(e.button_required)
<1>1. /\ s \in Seq(Nat) /\ Len(s) = Len(pre) + 6 /\ names \in Seq(Nat)
      /\ pre \o EntryBytes(e) \in Seq(Nat) /\ pre \o EntryBytes(e) = names \o code
  BY NamesAfter, Zenon
<1>2. code \in Seq(Nat) /\ FrontIs(FrontOf(e), type, algorithm, e.timestep, e.code_length, button)
      /\ type \in {0, 1} /\ algorithm \in {193, 194} /\ button \in {0, 1}
  BY EntryBytesIs, Zenon
<1>3. /\ app \in KeyText /\ app \in Seq(Nat) /\ Len(app) <= 255
      /\ account \in KeyText /\ account \in Seq(Nat) /\ Len(account) <= 255 /\ account # <<>>
  BY KeyEntryIs, KeyTextIs, Zenon
<1>4. rest \in Seq(Nat) /\ stream \in Seq(Nat) /\ stream = names \o rest
  <2>1. stream = (names \o code) \o post
    BY <1>1, Zenon
  <2> HIDE DEF names, code
  <2>2. (names \o code) \o post = names \o (code \o post)
    BY <1>1, <1>2, RejoinedIs, Zenon
  <2>3. rest \in Seq(Nat)
    BY <1>2, JoinedIs, Zenon
  <2>4. stream \in Seq(Nat)
    <3> HIDE DEF rest
    <3> QED  BY <1>1, <2>1, <2>2, <2>3, JoinedIs, Zenon DEF rest
  <2> QED  BY <2>1, <2>2, <2>3, <2>4, Zenon
<1> HIDE DEF s, rest, stream
<1>5. TwoTextsIn(stream, s, app, account)
  <2>1. TwoTextsIn(WithText(WithText(s, app), account) \o rest, s, app, account)
    BY <1>1, <1>3, <1>4, TwoTexts, Zenon
  <2>2. WithText(WithText(s, app), account) \o rest = stream
    BY <1>4, Zenon DEF NamesOf
  <2> QED  BY <2>1, <2>2, Zenon
<1>6. /\ \A i \in 1..Len(s) : stream[i] = s[i]
      /\ TextIs(stream, Len(s) + 1, app, q) /\ TextIs(stream, q, account, r)
  BY <1>5, Zenon DEF TwoTextsIn, NamesOf
<1>7. /\ p \in Nat /\ p + 6 = Len(s) + 1
      /\ stream[p] = type /\ stream[p + 1] = algorithm
      /\ stream[p + 2] * 256 + stream[p + 3] = e.timestep
      /\ stream[p + 4] = e.code_length /\ stream[p + 5] = button
  <2>1. StartsWith(stream, pre \o FrontOf(e))
    BY <1>6, Zenon DEF s, StartsWith
  <2> HIDE DEF type, algorithm, button
  <2>2. FrontIs(FrontOf(e), type, algorithm, e.timestep, e.code_length, button)
    BY <1>2, Zenon
  <2>3. FrontAt(stream, Len(pre) + 1, type, algorithm, e.timestep, e.code_length, button)
    BY <2>1, <2>2, FrontAfter, Zenon
  <2>4. Len(pre) \in Nat
    BY LenProperties, Zenon
  <2>5. (Len(pre) + 1) + 6 = (Len(pre) + 6) + 1
    BY <2>4
  <2> QED  BY <1>1, <2>3, <2>5, Zenon DEF FrontAt
<1>8. AppAt(p) = p + 6 /\ AccountAt(stream, p) = q /\ CodeAt(stream, p) = r
  <2>1. TextEnd(stream, p + 6) = q /\ TextEnd(stream, q) = r
    BY <1>6, <1>7, Zenon DEF TextIs
  <2> QED  BY <2>1, Zenon DEF AppAt, AccountAt, CodeAt
<1> HIDE DEF p, q, r, names, type, algorithm, button
<1>9. HasCode(stream[p], stream[p + 5], force) = (e.code # NoCode)
  <2>1. HasCode(type, button, force) = (force \/ ShowsCode(e))
    BY HasCodeIs, Zenon DEF type, button
  <2> QED  BY <1>7, <2>1, Zenon
<1>10. /\ Text(stream, AppAt(p)) = app /\ Text(stream, AccountAt(stream, p)) = account
       /\ TextFits(stream, AppAt(p)) /\ TextFits(stream, AccountAt(stream, p))
       /\ p + 6 <= Len(stream) /\ stream[AccountAt(stream, p)] # 0
  <2>1. Len(stream) \in Nat
    BY <1>4, LenProperties, Zenon
  <2>2. TextIs(stream, AppAt(p), app, q) /\ TextIs(stream, AccountAt(stream, p), account, r)
    BY <1>6, <1>7, <1>8, Zenon
  <2>3. TextFits(stream, AppAt(p)) /\ TextFits(stream, AccountAt(stream, p))
    BY <1>3, <2>1, <2>2, TextFitsIs, Zenon
  <2>4. Text(stream, AppAt(p)) = app /\ Text(stream, AccountAt(stream, p)) = account
    BY <2>2, Zenon DEF TextIs
  <2>5. p + 6 <= Len(stream)
    <3>1. p + 6 \in 1..Len(stream)
      BY <1>8, <2>2, Zenon DEF TextIs
    <3> QED  BY <3>1, <2>1, <1>7
  <2>6. stream[AccountAt(stream, p)] # 0
    <3>1. Len(account) # 0
      BY <1>3, EmptySeq, Zenon
    <3> QED  BY <2>2, <3>1, Zenon DEF TextIs
  <2> QED  BY <2>3, <2>4, <2>5, <2>6, Zenon
<1>11. ASSUME e.code # NoCode
       PROVE  /\ TextFits(stream, CodeAt(stream, p)) /\ <<Text(stream, CodeAt(stream, p))>> = e.code
              /\ TextEnd(stream, CodeAt(stream, p)) = end
  <2> DEFINE t == e.code[1]
  <2>1. t \in KeyText /\ t \in Seq(Nat) /\ Len(t) <= 255 /\ e.code = <<t>>
    BY <1>11, KeyEntryIs, KeyTextIs, Zenon
  <2>2. NamesOf(s, e) \o code = WithText(NamesOf(s, e), t)
    BY <1>11, Zenon DEF CodeOf, WithText
  <2>3. stream = WithText(names, t) \o post /\ end = Len(WithText(names, t)) + 1
    BY <1>1, <2>2, Zenon DEF stream, names
  <2> HIDE DEF t, end
  <2>4. TextIs(WithText(names, t) \o post, Len(names) + 1, t, Len(WithText(names, t)) + 1)
    BY <1>1, <2>1, TextAt, Zenon DEF names
  <2>5. TextIs(stream, CodeAt(stream, p), t, end)
    BY <1>8, <2>3, <2>4, Zenon DEF r
  <2>6. Len(stream) \in Nat
    BY <1>4, LenProperties, Zenon
  <2>7. TextFits(stream, CodeAt(stream, p))
    BY <2>1, <2>5, <2>6, TextFitsIs, Zenon
  <2>8. Text(stream, CodeAt(stream, p)) = t /\ TextEnd(stream, CodeAt(stream, p)) = end
    BY <2>5, Zenon DEF TextIs
  <2> QED  BY <2>1, <2>7, <2>8, Zenon DEF end
<1>12. ASSUME e.code = NoCode PROVE CodeAt(stream, p) = end
  <2>1. code = <<>>
    BY <1>12, Zenon DEF CodeOf
  <2>2. names \o code = names
    <3>1. NamesOf(s, e) \o <<>> = NamesOf(s, e)
      <4> DEFINE n == NamesOf(s, e)
      <4>1. n \in Seq(Nat)
        BY <1>1, Zenon DEF names
      <4> HIDE DEF n
      <4>2. n \o <<>> = n
        BY <4>1, ConcatEmptySeq, Zenon
      <4> QED  BY <4>2, Zenon DEF n
    <3> QED  BY <2>1, <3>1, Zenon DEF names
  <2> QED  BY <1>1, <1>8, <2>2, Zenon DEF r
<1> HIDE DEF end
<1>13. IsEntry(stream, p, force)
  <2>1. stream[p] \in {0, 1} /\ stream[p + 1] \in {193, 194} /\ stream[p + 5] \in {0, 1}
    BY <1>2, <1>7, Zenon
  <2> QED  BY <1>9, <1>10, <1>11, <2>1, Zenon DEF IsEntry
<1>14. ParseOneEntry(stream, p, force) = e
  <2>1. /\ Named(TypeByte, stream[p]) = e.otp_type /\ Named(AlgorithmByte, stream[p + 1]) = e.algorithm
        /\ (stream[p + 5] = 1) = e.button_required
    <3>1. /\ e.otp_type \in {"Hotp", "Totp"} /\ e.algorithm \in {"Sha1", "Sha256"}
          /\ e.button_required \in BOOLEAN
      BY KeyEntryIs, Zenon
    <3>2. Named(TypeByte, type) = e.otp_type /\ Named(AlgorithmByte, algorithm) = e.algorithm
      BY <3>1, NamedIs, Zenon DEF type, algorithm
    <3>3. (button = 1) = e.button_required
      BY <3>1, BoolByteIs, Zenon DEF button
    <3> QED  BY <1>7, <3>2, <3>3, Zenon
  <2>2. (IF HasCode(stream[p], stream[p + 5], force)
         THEN <<Text(stream, CodeAt(stream, p))>> ELSE NoCode) = e.code
    BY <1>9, <1>11, Zenon
  <2>3. ParseOneEntry(stream, p, force) =
          [otp_type |-> e.otp_type, algorithm |-> e.algorithm, timestep |-> e.timestep,
           code_length |-> e.code_length, button_required |-> e.button_required,
           app_name |-> e.app_name, account_name |-> e.account_name, code |-> e.code]
    BY <1>7, <1>10, <2>1, <2>2, Zenon DEF ParseOneEntry
  <2> QED  BY <2>3, KeyEntryIs, Zenon
<1>15. EntryEnd(stream, p, force) = end
  BY <1>9, <1>11, <1>12, Zenon DEF EntryEnd
<1>16. EntryIsAt(stream, p, force, e, end)
  BY <1>13, <1>14, <1>15, Zenon DEF EntryIsAt
<1> QED  BY <1>4, <1>16, Zenon DEF stream, p, end

-----------------------------------------------------------------------------
(* What the caller gets *)

LEMMA EntryBytesSeq == ASSUME NEW e \in KeyEntry PROVE EntryBytes(e) \in Seq(Nat)
<1>1. FrontOf(e) \in Seq(Nat) /\ EntryBytes(e) = NamesOf(FrontOf(e), e) \o CodeOf(e) /\ CodeOf(e) \in Seq(Nat)
  BY EntryBytesIs, Zenon DEF FrontIs
<1>2. /\ e.app_name \in Seq(Nat) /\ Len(e.app_name) <= 255
      /\ e.account_name \in Seq(Nat) /\ Len(e.account_name) <= 255
  BY KeyEntryIs, KeyTextIs, Zenon
<1> DEFINE none == <<>>
<1>3. none \in Seq(Nat)
  OBVIOUS
<1> HIDE DEF none
<1>4. WithText(FrontOf(e), e.app_name) \in Seq(Nat)
  BY <1>1, <1>2, <1>3, TextAt, Zenon
<1>5. NamesOf(FrontOf(e), e) \in Seq(Nat)
  BY <1>2, <1>3, <1>4, TextAt, Zenon DEF NamesOf
<1> QED  BY <1>1, <1>5, JoinedIs, Zenon

LEMMA ReadAnswer ==
  ASSUME NEW e \in KeyEntry, e.code # NoCode
  PROVE  ParseReadOne(EntryBytes(e)) = Valid(e)
<1> DEFINE none == <<>>
           b == EntryBytes(e)
           stream == (none \o b) \o none
<1>1. none \in Seq(Nat) /\ Len(none) + 1 = 1
  OBVIOUS
<1> HIDE DEF none
<1>2. (e.code # NoCode) = (TRUE \/ ShowsCode(e))
  BY Zenon
<1>3. EntryIsAt(stream, Len(none) + 1, TRUE, e, Len(none \o b) + 1) /\ stream \in Seq(Nat)
  BY <1>1, <1>2, EntryAfter, Zenon
<1>4. stream = b
  <2>1. b \in Seq(Nat)
    BY EntryBytesSeq, Zenon
  <2> HIDE DEF b
  <2>2. none \o b = b /\ b \o none = b
    BY <2>1, ConcatEmptySeq, Zenon DEF none
  <2> QED  BY <2>2, Zenon
<1>5. EntryIsAt(b, 1, TRUE, e, Len(none \o b) + 1)
  BY <1>1, <1>3, <1>4, Zenon
<1> QED  BY <1>5, Zenon DEF EntryIsAt, ParseReadOne

LEMMA HexOf ==
  ASSUME NEW n \in 0..15
  PROVE  HexDigit(n) \in Nat /\ IsHex(HexDigit(n)) /\ HexNibble(HexDigit(n)) = n
<1>1. CASE n < 10
  <2>1. HexDigit(n) = 48 + n /\ 48 + n \in 48..57 /\ (48 + n) - 48 = n
    BY <1>1 DEF HexDigit
  <2> QED  BY <2>1 DEF IsHex, HexNibble
<1>2. CASE ~(n < 10)
  <2>1. HexDigit(n) = 65 + n - 10 /\ 65 + n - 10 \in 65..70 /\ (65 + n - 10) - 65 + 10 = n
        /\ 65 + n - 10 \notin 48..57 /\ 65 + n - 10 \notin 97..102
    BY <1>2 DEF HexDigit
  <2> QED  BY <2>1 DEF IsHex, HexNibble
<1> QED  BY <1>1, <1>2

LEMMA HalvesOf ==
  ASSUME NEW n \in Byte
  PROVE  n \div 16 \in 0..15 /\ n % 16 \in 0..15 /\ (n \div 16) * 16 + (n % 16) = n
<1>1. n \in Nat /\ n <= 255
  BY DEF Byte
<1>2. (n \div 16) * 16 + (n % 16) = n /\ n \div 16 \in Int /\ n % 16 \in 0..15
  BY <1>1
<1>3. n \div 16 \in 0..15
  BY <1>1, <1>2
<1> QED  BY <1>2, <1>3

\* The digits of each byte.
LEMMA HexTextIs ==
  ASSUME NEW number \in Seq(Byte)
  PROVE  /\ HexText(number) \in Seq(Nat) /\ Len(HexText(number)) = 2 * Len(number)
         /\ \A i \in 1..Len(HexText(number)) : IsHex(HexText(number)[i])
         /\ \A i \in 1..Len(number) :
              /\ HexNibble(HexText(number)[2 * i - 1]) = number[i] \div 16
              /\ HexNibble(HexText(number)[2 * i]) = number[i] % 16
<1> DEFINE n == Len(number)
           digit(i) == HexDigit(IF i % 2 = 1 THEN number[(i + 1) \div 2] \div 16 ELSE number[i \div 2] % 16)
           text == [i \in 1..2 * n |-> digit(i)]
<1>1. n \in Nat /\ \A i \in 1..n : number[i] \in Byte
  BY LenProperties, ElementOfSeq, Zenon
<1>2. HexText(number) = text
  BY Zenon DEF HexText
<1> HIDE DEF n
<1>3. ASSUME NEW i \in 1..2 * n PROVE digit(i) \in Nat /\ IsHex(digit(i))
  <2>1. CASE i % 2 = 1
    <3>1. (i + 1) \div 2 \in 1..n
      BY <1>1, <2>1
    <3>2. number[(i + 1) \div 2] \div 16 \in 0..15
      BY <1>1, <3>1, HalvesOf, Zenon
    <3>3. digit(i) = HexDigit(number[(i + 1) \div 2] \div 16)
      BY <2>1, Zenon
    <3> QED  BY <3>2, <3>3, HexOf, Zenon
  <2>2. CASE ~(i % 2 = 1)
    <3>1. i \div 2 \in 1..n
      BY <1>1, <2>2
    <3>2. number[i \div 2] % 16 \in 0..15
      BY <1>1, <3>1, HalvesOf, Zenon
    <3>3. digit(i) = HexDigit(number[i \div 2] % 16)
      BY <2>2, Zenon
    <3> QED  BY <3>2, <3>3, HexOf, Zenon
  <2> QED  BY <2>1, <2>2
<1>4. ASSUME NEW i \in 1..n
      PROVE  HexNibble(digit(2 * i - 1)) = number[i] \div 16 /\ HexNibble(digit(2 * i)) = number[i] % 16
  <2>1. /\ (2 * i - 1) % 2 = 1 /\ ((2 * i - 1) + 1) \div 2 = i
        /\ ~((2 * i) % 2 = 1) /\ (2 * i) \div 2 = i
    BY <1>1
  <2>2. number[i] \div 16 \in 0..15 /\ number[i] % 16 \in 0..15
    BY <1>1, HalvesOf, Zenon
  <2>3. digit(2 * i - 1) = HexDigit(number[i] \div 16) /\ digit(2 * i) = HexDigit(number[i] % 16)
    BY <2>1
  <2> QED  BY <2>2, <2>3, HexOf, Zenon
<1> HIDE DEF digit
<1>5. 2 * n \in Nat
  BY <1>1
<1>6. text \in Seq(Nat) /\ Len(text) = 2 * n /\ \A i \in 1..2 * n : text[i] = digit(i)
  BY <1>3, <1>5
<1>7. \A i \in 1..n : 2 * i - 1 \in 1..2 * n /\ 2 * i \in 1..2 * n
  BY <1>1
<1> HIDE DEF text
<1>8. \A i \in 1..n : HexNibble(text[2 * i - 1]) = number[i] \div 16 /\ HexNibble(text[2 * i]) = number[i] % 16
  BY <1>4, <1>6, <1>7, Zenon
<1>9. \A i \in 1..Len(text) : IsHex(text[i])
  BY <1>3, <1>6, Zenon
<1> QED  BY <1>2, <1>6, <1>8, <1>9, Zenon DEF n

LEMMA SerialAnswer ==
  ASSUME NEW number \in Seq(Byte), Len(number) <= 127
  PROVE  ParseSerial(<<209, 2 * Len(number)>> \o HexText(number)) = Valid(number)
<1> DEFINE n == Len(number)
           digits == HexText(number)
           s == <<209, 2 * n>>
           data == s \o digits
<1>1. n \in Nat /\ 2 * n \in Nat
  BY LenProperties
<1>2. /\ digits \in Seq(Nat) /\ Len(digits) = 2 * n
      /\ \A i \in 1..Len(digits) : IsHex(digits[i])
      /\ \A i \in 1..n : /\ HexNibble(digits[2 * i - 1]) = number[i] \div 16
                         /\ HexNibble(digits[2 * i]) = number[i] % 16
  BY HexTextIs, Zenon
<1>3. s \in Seq(Nat) /\ Len(s) = 2 /\ s[2] = 2 * n
  BY <1>1
<1>11. s[1] = 209
  OBVIOUS
<1> HIDE DEF digits, s
<1>4. data \in Seq(Nat) /\ Len(data) = Len(s) + Len(digits)
  BY <1>2, <1>3, JoinedIs, Zenon
<1>5. data[1] = 209 /\ data[2] = 2 * n
  <2>1. 1 \in 1..Len(s) /\ 2 \in 1..Len(s)
    BY <1>3
  <2>2. data[1] = s[1] /\ data[2] = s[2]
    BY <1>2, <1>3, <2>1, LeftOf, Zenon
  <2> QED  BY <1>3, <1>11, <2>2
<1>6. SubSeq(data, Len(s) + 1, Len(s) + Len(digits)) = digits
  BY <1>2, <1>3, RightPart, Zenon
<1> HIDE DEF data
<1>7. ~(Len(data) < 2) /\ ~(2 + 2 * n > Len(data)) /\ Len(s) + 1 = 3 /\ Len(s) + Len(digits) = 2 + 2 * n
  BY <1>1, <1>2, <1>3, <1>4
<1>8. ParseSerial(data) = DecodeAsciiHex(digits)
  <2>1. SubSeq(data, 3, 2 + 2 * n) = digits
    BY <1>6, <1>7, Zenon
  <2>2. ParseSerial(data) = DecodeAsciiHex(SubSeq(data, 3, 2 + data[2]))
    BY <1>5, <1>7 DEF ParseSerial
  <2> QED  BY <1>5, <2>1, <2>2, Zenon
<1>9. DecodeAsciiHex(digits) = Valid([i \in 1..n |-> HexNibble(digits[2*i - 1]) * 16 + HexNibble(digits[2*i])])
  <2>1. Len(digits) % 2 = 0 /\ Len(digits) \div 2 = n
    BY <1>1, <1>2
  <2>2. DOMAIN digits = 1..Len(digits)
    BY <1>2, LenProperties, Zenon
  <2>3. ~\E i \in DOMAIN digits : ~IsHex(digits[i])
    BY <1>2, <2>2, Zenon
  <2> HIDE DEF n
  <2> QED  BY <2>1, <2>3, Zenon DEF DecodeAsciiHex
<1>10. [i \in 1..n |-> HexNibble(digits[2*i - 1]) * 16 + HexNibble(digits[2*i])] = number
  <2>1. ASSUME NEW i \in 1..n PROVE HexNibble(digits[2*i - 1]) * 16 + HexNibble(digits[2*i]) = number[i]
    <3>1. number[i] \in Byte
      BY ElementOfSeq, Zenon
    <3>2. (number[i] \div 16) * 16 + (number[i] % 16) = number[i]
      BY <3>1, HalvesOf, Zenon
    <3>3. HexNibble(digits[2*i - 1]) = number[i] \div 16 /\ HexNibble(digits[2*i]) = number[i] % 16
      BY <1>2, Zenon
    <3> QED  BY <3>2, <3>3
  <2>2. [i \in 1..n |-> HexNibble(digits[2*i - 1]) * 16 + HexNibble(digits[2*i])] = [i \in 1..n |-> number[i]]
    BY <2>1, Zenon
  <2>3. number = [i \in 1..n |-> number[i]]
    OBVIOUS
  <2> QED  BY <2>2, <2>3, Zenon
<1> QED  BY <1>8, <1>9, <1>10, Zenon DEF data, s, digits

LEMMA ConfigAnswer ==
  ASSUME NEW data \in Seq(Byte)
  PROVE  /\ ParseDeviceInfo(data).ok = (data # <<>>)
         /\ data # <<>> => \A i \in 1..Least(10, Len(data)) : ParseDeviceInfo(data).value.bytes[i] = data[i]
<1>1. CASE data = <<>>
  BY <1>1 DEF ParseDeviceInfo, Invalid
<1>2. CASE data # <<>>
  <2> DEFINE bytes == [i \in 1..10 |-> IF i <= Len(data) THEN data[i] ELSE 0]
             has == Len(data) >= 2
             record == [bytes |-> bytes, has_config_byte |-> has]
  <2>1. ParseDeviceInfo(data) = Valid(record)
    BY <1>2, Zenon DEF ParseDeviceInfo
  <2>2. \A i \in 1..Least(10, Len(data)) : bytes[i] = data[i]
    <3>1. Len(data) \in Nat
      BY LenProperties
    <3> QED  BY <3>1 DEF Least
  <2> HIDE DEF bytes, has
  <2>3. record.bytes = bytes
    OBVIOUS
  <2> HIDE DEF record
  <2>4. Valid(record).ok /\ Valid(record).value = record
    BY DEF Valid
  <2> QED  BY <1>2, <2>1, <2>2, <2>3, <2>4
<1> QED  BY <1>1, <1>2

-----------------------------------------------------------------------------
(* Induction, and the recursive function of FlattenSeq *)

\* Induction over a set.
LEMMA Counting ==
  ASSUME NEW T, 0 \in T, \A k \in Nat : k \in T => k + 1 \in T
  PROVE  \A k \in Nat : k \in T
<1> DEFINE less == OpToRel(<, Nat)
           bad == {k \in Nat : k \notin T}
<1>1. IsWellFoundedOn(less, Nat)
  BY NatLessThanWellFounded, Zenon
<1>2. \A a, b \in Nat : a < b => <<a, b>> \in less
  BY DEF OpToRel
<1> HIDE DEF less
<1>3. SUFFICES ASSUME bad # {} PROVE FALSE
  OBVIOUS
<1>4. bad \subseteq Nat
  OBVIOUS
<1>5. PICK x \in bad : \A y \in bad : ~(<<y, x>> \in less)
  <2> HIDE DEF bad
  <2> QED  BY <1>1, <1>3, <1>4, WFMin, Zenon
<1>6. x \in Nat /\ x \notin T /\ x # 0
  BY <1>5
<1>7. x - 1 \in Nat /\ x - 1 < x /\ (x - 1) + 1 = x
  BY <1>6
<1>8. x - 1 \in T
  <2>1. <<x - 1, x>> \in less
    BY <1>2, <1>6, <1>7, Zenon
  <2> QED  BY <1>5, <1>7, <2>1
<1> QED  BY <1>6, <1>7, <1>8

\* The function that FlattenSeq chooses, over the first k sequences.
FlatStep(seqs, f, i) == IF i = 1 THEN seqs[i] ELSE f[i-1] \o seqs[i]
Flattens(seqs, f, k) == f = [i \in 1..k |-> FlatStep(seqs, f, i)]

LEMMA FlattensOnce ==
  ASSUME NEW seqs, NEW k \in Nat, NEW f, Flattens(seqs, f, k)
  PROVE  \E g : Flattens(seqs, g, k + 1)
<1> DEFINE last == FlatStep(seqs, f, k + 1)
           g == [i \in 1..k + 1 |-> IF i = k + 1 THEN last ELSE f[i]]
<1>1. \A i \in 1..k : f[i] = FlatStep(seqs, f, i)
  <2> DEFINE h == [i \in 1..k |-> FlatStep(seqs, f, i)]
  <2>1. f = h
    BY Zenon DEF Flattens
  <2>2. \A i \in 1..k : h[i] = FlatStep(seqs, f, i)
    OBVIOUS
  <2> HIDE DEF h
  <2> QED  BY <2>1, <2>2, Zenon
<1>2. ASSUME NEW i \in 1..k + 1 PROVE g[i] = FlatStep(seqs, g, i)
  <2>1. FlatStep(seqs, g, i) = FlatStep(seqs, f, i)
    <3>1. CASE i = 1
      BY <3>1, Zenon DEF FlatStep
    <3>2. CASE i # 1
      <4>1. i - 1 \in 1..k + 1 /\ i - 1 # k + 1
        BY <3>2
      <4>2. g[i - 1] = f[i - 1]
        BY <4>1, Zenon
      <4> HIDE DEF g
      <4> QED  BY <4>2, Zenon DEF FlatStep
    <3> QED  BY <3>1, <3>2
  <2>2. CASE i = k + 1
    <3>1. g[i] = last
      BY <2>2, Zenon
    <3> HIDE DEF g
    <3> QED  BY <2>1, <2>2, <3>1, Zenon
  <2>3. CASE i # k + 1
    <3>1. i \in 1..k
      BY <2>3
    <3>2. g[i] = f[i]
      BY <2>3, Zenon
    <3> HIDE DEF g
    <3> QED  BY <1>1, <2>1, <3>1, <3>2, Zenon
  <2> QED  BY <2>2, <2>3
<1>3. g = [i \in 1..k + 1 |-> g[i]]
  BY Zenon
<1> HIDE DEF g
<1>4. g = [i \in 1..k + 1 |-> FlatStep(seqs, g, i)]
  BY <1>2, <1>3, Zenon
<1> QED  BY <1>4, Zenon DEF Flattens

LEMMA FlattenExists ==
  ASSUME NEW seqs PROVE \A n \in Nat : \E f : Flattens(seqs, f, n)
<1> DEFINE T == {n \in Nat : \E f : Flattens(seqs, f, n)}
<1>1. 0 \in T
  <2> DEFINE f == [i \in 1..0 |-> seqs[i]]
  <2>1. f = [i \in 1..0 |-> FlatStep(seqs, f, i)]
    <3> DEFINE g == [i \in 1..0 |-> FlatStep(seqs, f, i)]
    <3>1. \A i : i \notin 1..0
      OBVIOUS
    <3> QED  BY <3>1, Zenon
  <2> HIDE DEF f
  <2> QED  BY <2>1 DEF Flattens
<1>2. ASSUME NEW k \in Nat, k \in T PROVE k + 1 \in T
  <2>1. \E g : Flattens(seqs, g, k + 1)
    BY <1>2, FlattensOnce, Zenon
  <2> QED  BY <2>1
<1>3. \A n \in Nat : n \in T
  <2> HIDE DEF T
  <2> QED  BY <1>1, <1>2, Counting, Zenon
<1> QED  BY <1>3, Zenon

\* What stands before each sequence, and after the last one.
PrefixesOf(seqs, n, f) ==
  /\ f[1] = seqs[1] /\ \A i \in 1..n : f[i] \in Seq(Nat)
  /\ \A i \in 1..n : i # n => f[i + 1] = f[i] \o seqs[i + 1]

LEMMA FlattenIs ==
  ASSUME NEW seqs, NEW n \in Nat \ {0}, Len(seqs) = n, \A i \in 1..n : seqs[i] \in Seq(Nat)
  PROVE  \E f : PrefixesOf(seqs, n, f) /\ FlattenSeq(seqs) = f[n]
<1> DEFINE f == CHOOSE f : Flattens(seqs, f, n)
<1>1. FlattenSeq(seqs) = f[n]
  <2>1. n # 0
    OBVIOUS
  <2> QED  BY <2>1, Zenon DEF FlattenSeq, Flattens, FlatStep
<1>2. Flattens(seqs, f, n)
  <2>1. n \in Nat
    OBVIOUS
  <2>2. \E g : Flattens(seqs, g, n)
    BY <2>1, FlattenExists, Zenon
  <2> QED  BY <2>2, Zenon
<1> HIDE DEF f
<1>3. \A i \in 1..n : f[i] = FlatStep(seqs, f, i)
  <2> DEFINE h == [i \in 1..n |-> FlatStep(seqs, f, i)]
  <2>1. f = h
    BY <1>2, Zenon DEF Flattens
  <2>2. \A i \in 1..n : h[i] = FlatStep(seqs, f, i)
    OBVIOUS
  <2> HIDE DEF h
  <2> QED  BY <2>1, <2>2, Zenon
<1>4. f[1] = seqs[1]
  <2>1. 1 \in 1..n
    OBVIOUS
  <2> QED  BY <1>3, <2>1, Zenon DEF FlatStep
<1>5. ASSUME NEW i \in 1..n, i # n PROVE f[i + 1] = f[i] \o seqs[i + 1]
  <2>1. i + 1 \in 1..n /\ i + 1 # 1 /\ (i + 1) - 1 = i
    BY <1>5
  <2>2. f[i + 1] = f[(i + 1) - 1] \o seqs[i + 1]
    BY <1>3, <2>1, Zenon DEF FlatStep
  <2> QED  BY <2>1, <2>2, Zenon
<1>6. \A i \in 1..n : f[i] \in Seq(Nat)
  <2> DEFINE T == {k \in Nat : k + 1 \in 1..n => f[k + 1] \in Seq(Nat)}
  <2>1. 0 \in T
    <3>1. 1 \in 1..n /\ 0 + 1 = 1
      OBVIOUS
    <3> QED  BY <1>4, <3>1
  <2>2. ASSUME NEW k \in Nat, k \in T PROVE k + 1 \in T
    <3> SUFFICES ASSUME (k + 1) + 1 \in 1..n PROVE f[(k + 1) + 1] \in Seq(Nat)
      OBVIOUS
    <3>1. k + 1 \in 1..n /\ k + 1 # n
      OBVIOUS
    <3>2. f[k + 1] \in Seq(Nat)
      BY <2>2, <3>1
    <3>3. f[(k + 1) + 1] = f[k + 1] \o seqs[(k + 1) + 1]
      BY <1>5, <3>1, Zenon
    <3> QED  BY <3>2, <3>3, JoinedIs, Zenon
  <2>3. \A k \in Nat : k \in T
    <3> HIDE DEF T
    <3> QED  BY <2>1, <2>2, Counting, Zenon
  <2> QED
    <3> SUFFICES ASSUME NEW i \in 1..n PROVE f[i] \in Seq(Nat)
      OBVIOUS
    <3>1. i - 1 \in Nat /\ (i - 1) + 1 = i
      OBVIOUS
    <3> QED  BY <2>3, <3>1, Zenon
<1>7. PrefixesOf(seqs, n, f)
  BY <1>4, <1>5, <1>6, Zenon DEF PrefixesOf
<1> QED  BY <1>1, <1>7, Zenon

LEMMA ValidIs == ~Invalid.ok /\ \A v : Valid(v).ok /\ Valid(v).value = v
BY DEF Invalid, Valid

-----------------------------------------------------------------------------
(* The secret: base32_decode turn by turn, and the eight letters whose bits    *)
(* make five bytes *)

\* The function that FoldLeft chooses for the letters up to k, and its turns.
NoBits == [buffer |-> 0, bits |-> 0, out |-> <<>>]
TurnOf(text, R, s) == IF s = {} THEN NoBits ELSE TakeLetter(R[s \ {Max(s)}], text[Max(s)])
Turns(text, R, k) == R = [s \in SUBSET (1..k) |-> TurnOf(text, R, s)]

LEMMA MaxTo == ASSUME NEW k \in Nat, NEW s \in SUBSET (1..k + 1), k + 1 \in s PROVE Max(s) = k + 1
<1>1. \A y \in s : k + 1 >= y
  OBVIOUS
<1>2. \A x \in s : (\A y \in s : x >= y) => x = k + 1
  BY <1>1
<1>3. Max(s) \in s /\ \A y \in s : Max(s) >= y
  BY <1>1, Zenon DEF Max
<1> QED  BY <1>2, <1>3, Zenon

LEMMA TurnsOnce ==
  ASSUME NEW text, NEW k \in Nat, NEW R, Turns(text, R, k)
  PROVE  \E Q : Turns(text, Q, k + 1)
<1> DEFINE last(s) == TakeLetter(R[s \ {k + 1}], text[k + 1])
           Q == [s \in SUBSET (1..k + 1) |-> IF k + 1 \in s THEN last(s) ELSE R[s]]
<1>1. \A s \in SUBSET (1..k) : R[s] = TurnOf(text, R, s)
  <2> DEFINE h == [s \in SUBSET (1..k) |-> TurnOf(text, R, s)]
  <2>1. R = h
    BY Zenon DEF Turns
  <2>2. \A s \in SUBSET (1..k) : h[s] = TurnOf(text, R, s)
    OBVIOUS
  <2> HIDE DEF h
  <2> QED  BY <2>1, <2>2, Zenon
<1>2. ASSUME NEW s \in SUBSET (1..k) PROVE s \in SUBSET (1..k + 1) /\ k + 1 \notin s
  OBVIOUS
<1>3. \A s \in SUBSET (1..k) : Q[s] = R[s]
  <2> SUFFICES ASSUME NEW s \in SUBSET (1..k) PROVE Q[s] = R[s]
    OBVIOUS
  <2>1. s \in SUBSET (1..k + 1) /\ k + 1 \notin s
    BY <1>2
  <2> HIDE DEF last
  <2> QED  BY <2>1
<1>4. \A s \in SUBSET (1..k + 1) : k + 1 \in s => Q[s] = last(s)
  <2> HIDE DEF last
  <2> QED  OBVIOUS
<1>5. Q = [s \in SUBSET (1..k + 1) |-> Q[s]]
  <2> HIDE DEF last
  <2> QED  OBVIOUS
<1> HIDE DEF Q
<1>6. ASSUME NEW s \in SUBSET (1..k + 1) PROVE Q[s] = TurnOf(text, Q, s)
  <2>1. CASE k + 1 \in s
    <3>1. Max(s) = k + 1 /\ s # {}
      BY <2>1, MaxTo
    <3>2. s \ {k + 1} \in SUBSET (1..k)
      OBVIOUS
    <3>3. Q[s \ {k + 1}] = R[s \ {k + 1}]
      BY <1>3, <3>2, Zenon
    <3> QED  BY <1>4, <2>1, <3>1, <3>3, Zenon DEF TurnOf
  <2>2. CASE k + 1 \notin s
    <3>1. s \in SUBSET (1..k)
      BY <2>2
    <3>2. s \ {Max(s)} \in SUBSET (1..k)
      BY <3>1
    <3>3. Q[s] = TurnOf(text, R, s) /\ Q[s \ {Max(s)}] = R[s \ {Max(s)}]
      BY <1>1, <1>3, <3>1, <3>2, Zenon
    <3> QED  BY <3>3, Zenon DEF TurnOf
  <2> QED  BY <2>1, <2>2
<1>7. Q = [s \in SUBSET (1..k + 1) |-> TurnOf(text, Q, s)]
  BY <1>5, <1>6, Zenon
<1> QED  BY <1>7, Zenon DEF Turns

LEMMA TurnsExist == ASSUME NEW text PROVE \A k \in Nat : \E R : Turns(text, R, k)
<1> DEFINE T == {k \in Nat : \E R : Turns(text, R, k)}
<1>1. 0 \in T
  <2> DEFINE R == [s \in SUBSET (1..0) |-> NoBits]
  <2>1. \A s \in SUBSET (1..0) : s = {}
    OBVIOUS
  <2>2. \A s \in SUBSET (1..0) : TurnOf(text, R, s) = NoBits
    BY <2>1, Zenon DEF TurnOf
  <2>3. R = [s \in SUBSET (1..0) |-> TurnOf(text, R, s)]
    BY <2>2, Zenon
  <2> HIDE DEF R
  <2>4. \E Q : Turns(text, Q, 0)
    BY <2>3, Zenon DEF Turns
  <2> QED  BY <2>4
<1>2. \A k \in Nat : k \in T => k + 1 \in T
  BY TurnsOnce
<1>3. \A k \in Nat : k \in T
  <2> HIDE DEF T
  <2> QED  BY <1>1, <1>2, Counting, Zenon
<1> QED  BY <1>3

\* The states of base32_decode: F[k] is the one after k letters.
LettersTaken(text, F) ==
  /\ F[0] = NoBits
  /\ \A k \in 1..Len(text) : F[k] = TakeLetter(F[k - 1], text[k])
  /\ Base32Decode(text) = F[Len(text)].out

LEMMA DecodeIs == ASSUME NEW text \in Seq(Nat) PROVE \E F : LettersTaken(text, F)
<1> DEFINE n == Len(text)
           R == CHOOSE R : R = [s \in SUBSET (DOMAIN text) |->
                                  IF s = {} THEN NoBits ELSE TakeLetter(R[s \ {Max(s)}], text[Max(s)])]
           F == [k \in 0..n |-> R[1..k]]
<1>1. n \in Nat /\ DOMAIN text = 1..n
  OBVIOUS
<1>2. Base32Decode(text) = R[DOMAIN text].out
  BY Zenon DEF Base32Decode, FoldLeft, MapThenFoldSet, NoBits
<1>3. R = CHOOSE Q : Turns(text, Q, n)
  BY <1>1, Zenon DEF Turns, TurnOf
<1> HIDE DEF R
<1>4. Turns(text, R, n)
  <2>1. \E Q : Turns(text, Q, n)
    BY <1>1, TurnsExist, Zenon
  <2> QED  BY <1>3, <2>1, Zenon
<1>5. \A s \in SUBSET (1..n) : R[s] = TurnOf(text, R, s)
  <2> DEFINE h == [s \in SUBSET (1..n) |-> TurnOf(text, R, s)]
  <2>1. R = h
    BY <1>4, Zenon DEF Turns
  <2>2. \A s \in SUBSET (1..n) : h[s] = TurnOf(text, R, s)
    OBVIOUS
  <2> HIDE DEF h
  <2> QED  BY <2>1, <2>2, Zenon
<1> HIDE DEF n
<1>6. \A k \in 0..n : F[k] = R[1..k]
  OBVIOUS
<1> HIDE DEF F
<1>7. F[0] = NoBits
  <2>1. 1..0 = {} /\ 1..0 \in SUBSET (1..n) /\ 0 \in 0..n
    BY <1>1
  <2>2. R[1..0] = NoBits
    BY <1>5, <2>1, Zenon DEF TurnOf
  <2> QED  BY <1>6, <2>1, <2>2, Zenon
<1>8. ASSUME NEW k \in 1..n PROVE F[k] = TakeLetter(F[k - 1], text[k])
  <2>1. /\ k \in 0..n /\ k - 1 \in 0..n /\ k - 1 \in Nat /\ (k - 1) + 1 = k /\ 1..k \in SUBSET (1..n)
        /\ k \in 1..k /\ 1..k # {} /\ (1..k) \ {k} = 1..k - 1
    <3>1. k \in Nat /\ k >= 1 /\ k <= n
      BY <1>1
    <3>2. k \in 0..n /\ k - 1 \in 0..n /\ k - 1 \in Nat /\ (k - 1) + 1 = k /\ k \in 1..k
      BY <1>1, <3>1
    <3>3. \A i \in 1..k : i \in 1..n
      BY <1>1, <3>1
    <3>4. \A i : i \in (1..k) \ {k} <=> i \in 1..k - 1
      BY <1>1, <3>1
    <3> QED  BY <3>2, <3>3, <3>4, Zenon
  <2>2. Max(1..k) = k
    <3>1. (k - 1) + 1 \in 1..(k - 1) + 1 /\ 1..(k - 1) + 1 \in SUBSET (1..(k - 1) + 1)
      BY <2>1
    <3>2. Max(1..(k - 1) + 1) = (k - 1) + 1
      BY <2>1, <3>1, MaxTo, Zenon
    <3> QED  BY <2>1, <3>2
  <2>3. R[1..k] = TakeLetter(R[(1..k) \ {Max(1..k)}], text[Max(1..k)])
    BY <1>5, <2>1, Zenon DEF TurnOf
  <2>4. R[1..k] = TakeLetter(R[1..k - 1], text[k])
    BY <2>1, <2>2, <2>3, Zenon
  <2> QED  BY <1>6, <2>1, <2>4, Zenon
<1>9. Base32Decode(text) = F[n].out
  <2>1. n \in 0..n
    BY <1>1
  <2> QED  BY <1>1, <1>2, <1>6, <2>1, Zenon
<1> QED  BY <1>7, <1>8, <1>9, Zenon DEF LettersTaken, n

\* The five bits of letter x + 1.
LEMMA BitIs ==
  ASSUME NEW t, NEW x \in Nat
  PROVE  /\ BitOf(t, 5 * x) = (t[x + 1] \div 16) % 2
         /\ BitOf(t, 5 * x + 1) = (t[x + 1] \div 8) % 2
         /\ BitOf(t, 5 * x + 2) = (t[x + 1] \div 4) % 2
         /\ BitOf(t, 5 * x + 3) = (t[x + 1] \div 2) % 2
         /\ BitOf(t, 5 * x + 4) = (t[x + 1] \div 1) % 2
<1>1. /\ 2^(4 - 0) = 16 /\ 2^(4 - 1) = 8 /\ 2^(4 - 2) = 4 /\ 2^(4 - 3) = 2 /\ 2^(4 - 4) = 1
  OBVIOUS
<1>2. \A s \in 0..4 : (5 * x + s) \div 5 + 1 = x + 1 /\ (5 * x + s) % 5 = s
  OBVIOUS
<1>3. ASSUME NEW s \in 0..4 PROVE BitOf(t, 5 * x + s) = (t[x + 1] \div 2^(4 - s)) % 2
  BY <1>2 DEF BitOf
<1>4. 0 \in 0..4 /\ 1 \in 0..4 /\ 2 \in 0..4 /\ 3 \in 0..4 /\ 4 \in 0..4 /\ 5 * x + 0 = 5 * x
  OBVIOUS
<1> QED  BY <1>1, <1>3, <1>4

\* A letter and a byte by their bits, the highest first.
Bits5(p, q, r, s, u) == 16 * p + 8 * q + 4 * r + 2 * s + u
Bits8(a, b, c, d, e, f, g, h) == 128 * a + 64 * b + 32 * c + 16 * d + 8 * e + 4 * f + 2 * g + h
BitsOfLetter(a, p, q, r, s, u) ==
  /\ p \in 0..1 /\ q \in 0..1 /\ r \in 0..1 /\ s \in 0..1 /\ u \in 0..1
  /\ a = Bits5(p, q, r, s, u)

LEMMA LetterBits ==
  ASSUME NEW a \in 0..31
  PROVE  BitsOfLetter(a, (a \div 16) % 2, (a \div 8) % 2, (a \div 4) % 2, (a \div 2) % 2, (a \div 1) % 2)
<1>1. \A n \in Nat : n = 2 * (n \div 2) + (n % 2) /\ n % 2 \in 0..1 /\ n \div 2 \in Nat
  OBVIOUS
<1> DEFINE b == a \div 2  c == b \div 2  d == c \div 2  e == d \div 2
<1>2. a \div 4 = c /\ a \div 8 = d /\ a \div 16 = e /\ a \div 1 = a
  OBVIOUS
<1>3. e % 2 = e /\ e \in 0..1
  OBVIOUS
<1>4. /\ a = 2 * b + (a % 2) /\ b = 2 * c + (b % 2) /\ c = 2 * d + (c % 2) /\ d = 2 * e + (d % 2)
      /\ a % 2 \in 0..1 /\ b % 2 \in 0..1 /\ c % 2 \in 0..1 /\ d % 2 \in 0..1
  OBVIOUS
<1>5. a \div 2 = b
  OBVIOUS
<1> HIDE DEF b, c, d, e
<1>6. a = 16 * e + 8 * (d % 2) + 4 * (c % 2) + 2 * (b % 2) + (a % 2)
  BY <1>3, <1>4
<1> QED  BY <1>2, <1>3, <1>4, <1>5, <1>6 DEF BitsOfLetter, Bits5

\* The buffer after a letter, and the byte taken from it.
Shifted(b, c) == (b * 32 + c) % 4096
Taken(b, c, k) == (Shifted(b, c) \div k) % 256
TakesBits(b, c, k, a0, a1, a2, a3, a4, a5, a6, a7) == Taken(b, c, k) = Bits8(a0, a1, a2, a3, a4, a5, a6, a7)

\* The last letter, or the last two, are the low bits of the buffer.
Buffers == 0..4095
EndsIn(b, c) == b % 32 = c
EndsInTwo(b, c, d) == b % 1024 = c * 32 + d
AfterOne(b, c, d) == \E i \in 0..3 : Shifted(b, d) = 1024 * i + 32 * c + d
AfterTwo(b, c, d, e) == Shifted(b, e) = 1024 * (c % 4) + 32 * d + e

LEMMA ShiftedOne ==
  ASSUME NEW b \in Buffers, NEW c \in 0..31, NEW d \in 0..31, EndsIn(b, c)
  PROVE  AfterOne(b, c, d)
<1> DEFINE k == b \div 32  j == k \div 4  i == k % 4
           w == 1024 * i + 32 * c + d
<1>1. b = 32 * k + c /\ k \in 0..127
  BY DEF Buffers, EndsIn
<1> HIDE DEF k
<1>2. k = 4 * j + i /\ i \in 0..3 /\ j \in 0..31
  BY <1>1
<1> HIDE DEF j, i
<1>3. b * 32 + d = 4096 * j + w
  BY <1>1, <1>2
<1>4. w \in 0..4095 /\ j \in Nat
  BY <1>2
<1>5. w = 1024 * i + 32 * c + d
  OBVIOUS
<1> HIDE DEF w
<1>6. (4096 * j + w) % 4096 = w
  BY <1>4
<1>7. Shifted(b, d) = w
  BY <1>3, <1>6 DEF Shifted
<1> QED  BY <1>2, <1>5, <1>7 DEF AfterOne

LEMMA ShiftedTwo ==
  ASSUME NEW b \in Buffers, NEW c \in 0..31, NEW d \in 0..31, NEW e \in 0..31, EndsInTwo(b, c, d)
  PROVE  AfterTwo(b, c, d, e)
<1> DEFINE k == b \div 1024  i == c % 4  j == c \div 4  m == 8 * k + j  w == 1024 * i + 32 * d + e
<1>1. b = 1024 * k + 32 * c + d /\ k \in 0..3
  BY DEF Buffers, EndsInTwo
<1>2. c = 4 * j + i /\ i \in 0..3 /\ j \in 0..7
  OBVIOUS
<1> HIDE DEF k, j, i
<1>3. b * 32 + e = 4096 * m + w
  BY <1>1, <1>2
<1>4. w \in 0..4095 /\ m \in Nat
  BY <1>1, <1>2
<1> HIDE DEF m, w
<1>5. (4096 * m + w) % 4096 = w
  BY <1>4
<1>6. Shifted(b, e) = w
  BY <1>3, <1>5 DEF Shifted
<1> QED  BY <1>6 DEF AfterTwo, w, i

\* Bytes 1 to 5 of eight letters.
LEMMA FirstByte ==
  ASSUME NEW b \in Buffers, NEW c \in 0..31, NEW d \in 0..31, EndsIn(b, c),
         NEW p, NEW q, NEW r, NEW s, NEW u, BitsOfLetter(c, p, q, r, s, u),
         NEW p2, NEW q2, NEW r2, NEW s2, NEW u2, BitsOfLetter(d, p2, q2, r2, s2, u2)
  PROVE  TakesBits(b, d, 4, p, q, r, s, u, p2, q2, r2)
<1>1. /\ c = Bits5(p, q, r, s, u) /\ d = Bits5(p2, q2, r2, s2, u2)
      /\ p \in 0..1 /\ q \in 0..1 /\ r \in 0..1 /\ s \in 0..1 /\ u \in 0..1
      /\ p2 \in 0..1 /\ q2 \in 0..1 /\ r2 \in 0..1 /\ s2 \in 0..1 /\ u2 \in 0..1
  BY DEF BitsOfLetter
<1>2. PICK i \in 0..3 : Shifted(b, d) = 1024 * i + 32 * c + d
  <2>1. AfterOne(b, c, d)
    BY ShiftedOne, Zenon
  <2> QED  BY <2>1, Zenon DEF AfterOne
<1> DEFINE byte == Bits8(p, q, r, s, u, p2, q2, r2)  above == i  lost == 2 * s2 + u2
           whole == 256 * above + byte
<1>3. i \in 0..3
  BY <1>2
<1>4. Shifted(b, d) = 4 * whole + lost
  BY <1>1, <1>2, <1>3 DEF Bits5, Bits8
<1>5. byte \in 0..255 /\ above \in Nat /\ lost \in 0..3
  BY <1>1, <1>3 DEF Bits8
<1> HIDE DEF byte, above, lost
<1>6. (256 * above + byte) % 256 = byte /\ 256 * above + byte \in Nat
  BY <1>5
<1>7. whole \in Nat /\ whole % 256 = byte
  BY <1>6
<1> HIDE DEF whole
<1>8. Shifted(b, d) \div 4 = whole
  BY <1>4, <1>5, <1>7
<1> QED  BY <1>7, <1>8 DEF byte, Taken, TakesBits

LEMMA SecondByte ==
  ASSUME NEW b \in Buffers, NEW c \in 0..31, NEW d \in 0..31, NEW e \in 0..31, EndsInTwo(b, c, d),
         NEW p, NEW q, NEW r, NEW s, NEW u, BitsOfLetter(c, p, q, r, s, u),
         NEW p2, NEW q2, NEW r2, NEW s2, NEW u2, BitsOfLetter(d, p2, q2, r2, s2, u2),
         NEW p3, NEW q3, NEW r3, NEW s3, NEW u3, BitsOfLetter(e, p3, q3, r3, s3, u3)
  PROVE  TakesBits(b, e, 16, s, u, p2, q2, r2, s2, u2, p3)
<1> DEFINE byte == Bits8(s, u, p2, q2, r2, s2, u2, p3)  above == 0  lost == 8 * q3 + 4 * r3 + 2 * s3 + u3
           whole == 256 * above + byte
<1>1. /\ c = Bits5(p, q, r, s, u) /\ d = Bits5(p2, q2, r2, s2, u2) /\ e = Bits5(p3, q3, r3, s3, u3)
      /\ p \in 0..1 /\ q \in 0..1 /\ r \in 0..1 /\ s \in 0..1 /\ u \in 0..1
      /\ p2 \in 0..1 /\ q2 \in 0..1 /\ r2 \in 0..1 /\ s2 \in 0..1 /\ u2 \in 0..1
      /\ p3 \in 0..1 /\ q3 \in 0..1 /\ r3 \in 0..1 /\ s3 \in 0..1 /\ u3 \in 0..1
  BY DEF BitsOfLetter
<1>2. Shifted(b, e) = 1024 * (c % 4) + 32 * d + e
  <2>1. AfterTwo(b, c, d, e)
    BY ShiftedTwo, Zenon
  <2> QED  BY <2>1, Zenon DEF AfterTwo
<1>3. c % 4 = 2 * s + u
  BY <1>1 DEF Bits5
<1>4. Shifted(b, e) = 16 * whole + lost
  BY <1>1, <1>2, <1>3 DEF Bits5, Bits8
<1>5. byte \in 0..255 /\ above \in Nat /\ lost \in 0..15
  BY <1>1, <1>3 DEF Bits8
<1> HIDE DEF byte, above, lost
<1>6. (256 * above + byte) % 256 = byte /\ 256 * above + byte \in Nat
  BY <1>5
<1>7. whole \in Nat /\ whole % 256 = byte
  BY <1>6
<1> HIDE DEF whole
<1>8. Shifted(b, e) \div 16 = whole
  BY <1>4, <1>5, <1>7
<1> QED  BY <1>7, <1>8 DEF byte, Taken, TakesBits

LEMMA ThirdByte ==
  ASSUME NEW b \in Buffers, NEW c \in 0..31, NEW d \in 0..31, EndsIn(b, c),
         NEW p, NEW q, NEW r, NEW s, NEW u, BitsOfLetter(c, p, q, r, s, u),
         NEW p2, NEW q2, NEW r2, NEW s2, NEW u2, BitsOfLetter(d, p2, q2, r2, s2, u2)
  PROVE  TakesBits(b, d, 2, q, r, s, u, p2, q2, r2, s2)
<1>1. /\ c = Bits5(p, q, r, s, u) /\ d = Bits5(p2, q2, r2, s2, u2)
      /\ p \in 0..1 /\ q \in 0..1 /\ r \in 0..1 /\ s \in 0..1 /\ u \in 0..1
      /\ p2 \in 0..1 /\ q2 \in 0..1 /\ r2 \in 0..1 /\ s2 \in 0..1 /\ u2 \in 0..1
  BY DEF BitsOfLetter
<1>2. PICK i \in 0..3 : Shifted(b, d) = 1024 * i + 32 * c + d
  <2>1. AfterOne(b, c, d)
    BY ShiftedOne, Zenon
  <2> QED  BY <2>1, Zenon DEF AfterOne
<1> DEFINE byte == Bits8(q, r, s, u, p2, q2, r2, s2)  above == 2 * i + p  lost == u2
           whole == 256 * above + byte
<1>3. i \in 0..3
  BY <1>2
<1>4. Shifted(b, d) = 2 * whole + lost
  BY <1>1, <1>2, <1>3 DEF Bits5, Bits8
<1>5. byte \in 0..255 /\ above \in Nat /\ lost \in 0..1
  BY <1>1, <1>3 DEF Bits8
<1> HIDE DEF byte, above, lost
<1>6. (256 * above + byte) % 256 = byte /\ 256 * above + byte \in Nat
  BY <1>5
<1>7. whole \in Nat /\ whole % 256 = byte
  BY <1>6
<1> HIDE DEF whole
<1>8. Shifted(b, d) \div 2 = whole
  BY <1>4, <1>5, <1>7
<1> QED  BY <1>7, <1>8 DEF byte, Taken, TakesBits

LEMMA FourthByte ==
  ASSUME NEW b \in Buffers, NEW c \in 0..31, NEW d \in 0..31, NEW e \in 0..31, EndsInTwo(b, c, d),
         NEW p, NEW q, NEW r, NEW s, NEW u, BitsOfLetter(c, p, q, r, s, u),
         NEW p2, NEW q2, NEW r2, NEW s2, NEW u2, BitsOfLetter(d, p2, q2, r2, s2, u2),
         NEW p3, NEW q3, NEW r3, NEW s3, NEW u3, BitsOfLetter(e, p3, q3, r3, s3, u3)
  PROVE  TakesBits(b, e, 8, u, p2, q2, r2, s2, u2, p3, q3)
<1> DEFINE byte == Bits8(u, p2, q2, r2, s2, u2, p3, q3)  above == s  lost == 4 * r3 + 2 * s3 + u3
           whole == 256 * above + byte
<1>1. /\ c = Bits5(p, q, r, s, u) /\ d = Bits5(p2, q2, r2, s2, u2) /\ e = Bits5(p3, q3, r3, s3, u3)
      /\ p \in 0..1 /\ q \in 0..1 /\ r \in 0..1 /\ s \in 0..1 /\ u \in 0..1
      /\ p2 \in 0..1 /\ q2 \in 0..1 /\ r2 \in 0..1 /\ s2 \in 0..1 /\ u2 \in 0..1
      /\ p3 \in 0..1 /\ q3 \in 0..1 /\ r3 \in 0..1 /\ s3 \in 0..1 /\ u3 \in 0..1
  BY DEF BitsOfLetter
<1>2. Shifted(b, e) = 1024 * (c % 4) + 32 * d + e
  <2>1. AfterTwo(b, c, d, e)
    BY ShiftedTwo, Zenon
  <2> QED  BY <2>1, Zenon DEF AfterTwo
<1>3. c % 4 = 2 * s + u
  BY <1>1 DEF Bits5
<1>4. Shifted(b, e) = 8 * whole + lost
  BY <1>1, <1>2, <1>3 DEF Bits5, Bits8
<1>5. byte \in 0..255 /\ above \in Nat /\ lost \in 0..7
  BY <1>1, <1>3 DEF Bits8
<1> HIDE DEF byte, above, lost
<1>6. (256 * above + byte) % 256 = byte /\ 256 * above + byte \in Nat
  BY <1>5
<1>7. whole \in Nat /\ whole % 256 = byte
  BY <1>6
<1> HIDE DEF whole
<1>8. Shifted(b, e) \div 8 = whole
  BY <1>4, <1>5, <1>7
<1> QED  BY <1>7, <1>8 DEF byte, Taken, TakesBits

LEMMA FifthByte ==
  ASSUME NEW b \in Buffers, NEW c \in 0..31, NEW d \in 0..31, EndsIn(b, c),
         NEW p, NEW q, NEW r, NEW s, NEW u, BitsOfLetter(c, p, q, r, s, u),
         NEW p2, NEW q2, NEW r2, NEW s2, NEW u2, BitsOfLetter(d, p2, q2, r2, s2, u2)
  PROVE  TakesBits(b, d, 1, r, s, u, p2, q2, r2, s2, u2)
<1>1. /\ c = Bits5(p, q, r, s, u) /\ d = Bits5(p2, q2, r2, s2, u2)
      /\ p \in 0..1 /\ q \in 0..1 /\ r \in 0..1 /\ s \in 0..1 /\ u \in 0..1
      /\ p2 \in 0..1 /\ q2 \in 0..1 /\ r2 \in 0..1 /\ s2 \in 0..1 /\ u2 \in 0..1
  BY DEF BitsOfLetter
<1>2. PICK i \in 0..3 : Shifted(b, d) = 1024 * i + 32 * c + d
  <2>1. AfterOne(b, c, d)
    BY ShiftedOne, Zenon
  <2> QED  BY <2>1, Zenon DEF AfterOne
<1> DEFINE byte == Bits8(r, s, u, p2, q2, r2, s2, u2)  above == 4 * i + 2 * p + q  lost == 0
           whole == 256 * above + byte
<1>3. i \in 0..3
  BY <1>2
<1>4. Shifted(b, d) = whole
  BY <1>1, <1>2, <1>3 DEF Bits5, Bits8
<1>5. byte \in 0..255 /\ above \in Nat /\ lost \in 0..0
  BY <1>1, <1>3 DEF Bits8
<1> HIDE DEF byte, above, lost
<1>6. (256 * above + byte) % 256 = byte /\ 256 * above + byte \in Nat
  BY <1>5
<1>7. whole \in Nat /\ whole % 256 = byte
  BY <1>6
<1> HIDE DEF whole
<1>8. Shifted(b, d) \div 1 = whole
  BY <1>4, <1>5, <1>7
<1> QED  BY <1>7, <1>8 DEF byte, Taken, TakesBits

LEMMA ByteOfIs ==
  ASSUME NEW t, NEW k
  PROVE  ByteOf(t, k) = Bits8(BitOf(t, k), BitOf(t, k + 1), BitOf(t, k + 2), BitOf(t, k + 3),
                              BitOf(t, k + 4), BitOf(t, k + 5), BitOf(t, k + 6), BitOf(t, k + 7))
BY Zenon DEF ByteOf, Bits8

\* The buffer ends in the letters before n + 1.
BufferAt(t, b, n) ==
  /\ b \in Buffers
  /\ n >= 1 => EndsIn(b, t[n])
  /\ n >= 2 => EndsInTwo(b, t[n - 1], t[n])
LettersOnly(t) == t \in Seq(Nat) /\ \A i \in 1..Len(t) : t[i] \in 0..31

\* What a turn appends.
TakenByte(t, b, n, k) == Taken(b, t[n + 1], k)

LEMMA TwoLetterByte ==
  ASSUME NEW t, LettersOnly(t), NEW n \in Nat, n + 1 <= Len(t), n >= 1, NEW b, BufferAt(t, b, n),
         NEW x \in Nat, x + 1 = n
  PROVE  /\ TakenByte(t, b, n, 4) = ByteOf(t, 5 * x)
         /\ TakenByte(t, b, n, 2) = ByteOf(t, 5 * x + 1)
         /\ TakenByte(t, b, n, 1) = ByteOf(t, 5 * x + 2)
<1> DEFINE c == t[n]  d == t[n + 1]  y == x + 1
<1>1. Len(t) \in Nat /\ n \in 1..Len(t) /\ n + 1 \in 1..Len(t)
  BY DEF LettersOnly
<1>2. c \in 0..31 /\ d \in 0..31 /\ b \in Buffers /\ EndsIn(b, c)
  BY <1>1, Zenon DEF LettersOnly, BufferAt
<1> HIDE DEF c, d
<1>3. /\ BitOf(t, 5 * x) = (c \div 16) % 2 /\ BitOf(t, 5 * x + 1) = (c \div 8) % 2
      /\ BitOf(t, 5 * x + 2) = (c \div 4) % 2 /\ BitOf(t, 5 * x + 3) = (c \div 2) % 2
      /\ BitOf(t, 5 * x + 4) = (c \div 1) % 2
  <2>1. x \in Nat /\ t[x + 1] = c
    BY DEF c
  <2> QED  BY <2>1, BitIs, Zenon
<1>4. /\ BitOf(t, 5 * y) = (d \div 16) % 2 /\ BitOf(t, 5 * y + 1) = (d \div 8) % 2
      /\ BitOf(t, 5 * y + 2) = (d \div 4) % 2 /\ BitOf(t, 5 * y + 3) = (d \div 2) % 2
      /\ BitOf(t, 5 * y + 4) = (d \div 1) % 2
  <2>1. y \in Nat /\ t[y + 1] = d
    BY DEF d
  <2> HIDE DEF y
  <2> QED  BY <2>1, BitIs, Zenon
<1>5. /\ 5 * y = 5 * x + 5 /\ 5 * y + 1 = 5 * x + 6 /\ 5 * y + 2 = 5 * x + 7
      /\ 5 * y + 3 = 5 * x + 8 /\ 5 * y + 4 = 5 * x + 9
  OBVIOUS
<1>6. /\ BitsOfLetter(c, (c \div 16) % 2, (c \div 8) % 2, (c \div 4) % 2, (c \div 2) % 2, (c \div 1) % 2)
      /\ BitsOfLetter(d, (d \div 16) % 2, (d \div 8) % 2, (d \div 4) % 2, (d \div 2) % 2, (d \div 1) % 2)
  BY <1>2, LetterBits, Zenon
<1>7. /\ BitsOfLetter(c, BitOf(t, 5 * x), BitOf(t, 5 * x + 1), BitOf(t, 5 * x + 2), BitOf(t, 5 * x + 3), BitOf(t, 5 * x + 4))
      /\ BitsOfLetter(d, BitOf(t, 5 * x + 5), BitOf(t, 5 * x + 6), BitOf(t, 5 * x + 7), BitOf(t, 5 * x + 8), BitOf(t, 5 * x + 9))
  BY <1>3, <1>4, <1>5, <1>6
<1>8. TakenByte(t, b, n, 4) = ByteOf(t, 5 * x)
  <2>1. TakesBits(b, d, 4, BitOf(t, 5 * x), BitOf(t, 5 * x + 1), BitOf(t, 5 * x + 2), BitOf(t, 5 * x + 3),
                  BitOf(t, 5 * x + 4), BitOf(t, 5 * x + 5), BitOf(t, 5 * x + 6), BitOf(t, 5 * x + 7))
    BY <1>2, <1>7, FirstByte, Zenon
  <2> QED  BY <2>1, ByteOfIs, Zenon DEF TakenByte, TakesBits, d
<1>9. TakenByte(t, b, n, 2) = ByteOf(t, 5 * x + 1)
  <2>1. TakesBits(b, d, 2, BitOf(t, 5 * x + 1), BitOf(t, 5 * x + 2), BitOf(t, 5 * x + 3), BitOf(t, 5 * x + 4),
                  BitOf(t, 5 * x + 5), BitOf(t, 5 * x + 6), BitOf(t, 5 * x + 7), BitOf(t, 5 * x + 8))
    BY <1>2, <1>7, ThirdByte, Zenon
  <2>2. /\ (5 * x + 1) + 1 = 5 * x + 2 /\ (5 * x + 1) + 2 = 5 * x + 3 /\ (5 * x + 1) + 3 = 5 * x + 4
        /\ (5 * x + 1) + 4 = 5 * x + 5 /\ (5 * x + 1) + 5 = 5 * x + 6 /\ (5 * x + 1) + 6 = 5 * x + 7
        /\ (5 * x + 1) + 7 = 5 * x + 8
    OBVIOUS
  <2> QED  BY <2>1, <2>2, ByteOfIs DEF TakenByte, TakesBits, d
<1>10. TakenByte(t, b, n, 1) = ByteOf(t, 5 * x + 2)
  <2>1. TakesBits(b, d, 1, BitOf(t, 5 * x + 2), BitOf(t, 5 * x + 3), BitOf(t, 5 * x + 4), BitOf(t, 5 * x + 5),
                  BitOf(t, 5 * x + 6), BitOf(t, 5 * x + 7), BitOf(t, 5 * x + 8), BitOf(t, 5 * x + 9))
    BY <1>2, <1>7, FifthByte, Zenon
  <2>2. /\ (5 * x + 2) + 1 = 5 * x + 3 /\ (5 * x + 2) + 2 = 5 * x + 4 /\ (5 * x + 2) + 3 = 5 * x + 5
        /\ (5 * x + 2) + 4 = 5 * x + 6 /\ (5 * x + 2) + 5 = 5 * x + 7 /\ (5 * x + 2) + 6 = 5 * x + 8
        /\ (5 * x + 2) + 7 = 5 * x + 9
    OBVIOUS
  <2> QED  BY <2>1, <2>2, ByteOfIs DEF TakenByte, TakesBits, d
<1> QED  BY <1>8, <1>9, <1>10, Zenon

LEMMA ThreeLetterByte ==
  ASSUME NEW t, LettersOnly(t), NEW n \in Nat, n + 1 <= Len(t), n >= 2, NEW b, BufferAt(t, b, n),
         NEW x \in Nat, x + 2 = n
  PROVE  /\ TakenByte(t, b, n, 16) = ByteOf(t, 5 * x + 3)
         /\ TakenByte(t, b, n, 8) = ByteOf(t, 5 * x + 4)
<1> DEFINE c == t[n - 1]  d == t[n]  e == t[n + 1]  y == x + 1  z == x + 2
<1>1. Len(t) \in Nat /\ n - 1 \in 1..Len(t) /\ n \in 1..Len(t) /\ n + 1 \in 1..Len(t)
  BY DEF LettersOnly
<1>2. c \in 0..31 /\ d \in 0..31 /\ e \in 0..31 /\ b \in Buffers /\ EndsInTwo(b, c, d)
  BY <1>1, Zenon DEF LettersOnly, BufferAt
<1> HIDE DEF c, d, e
<1>3. /\ BitOf(t, 5 * x) = (c \div 16) % 2 /\ BitOf(t, 5 * x + 1) = (c \div 8) % 2
      /\ BitOf(t, 5 * x + 2) = (c \div 4) % 2 /\ BitOf(t, 5 * x + 3) = (c \div 2) % 2
      /\ BitOf(t, 5 * x + 4) = (c \div 1) % 2
  <2>1. x \in Nat /\ t[x + 1] = c
    BY DEF c
  <2> QED  BY <2>1, BitIs, Zenon
<1>4. /\ BitOf(t, 5 * y) = (d \div 16) % 2 /\ BitOf(t, 5 * y + 1) = (d \div 8) % 2
      /\ BitOf(t, 5 * y + 2) = (d \div 4) % 2 /\ BitOf(t, 5 * y + 3) = (d \div 2) % 2
      /\ BitOf(t, 5 * y + 4) = (d \div 1) % 2
  <2>1. y \in Nat /\ t[y + 1] = d
    BY DEF d
  <2> HIDE DEF y
  <2> QED  BY <2>1, BitIs, Zenon
<1>5. /\ BitOf(t, 5 * z) = (e \div 16) % 2 /\ BitOf(t, 5 * z + 1) = (e \div 8) % 2
      /\ BitOf(t, 5 * z + 2) = (e \div 4) % 2 /\ BitOf(t, 5 * z + 3) = (e \div 2) % 2
      /\ BitOf(t, 5 * z + 4) = (e \div 1) % 2
  <2>1. z \in Nat /\ t[z + 1] = e
    BY DEF e
  <2> HIDE DEF z
  <2> QED  BY <2>1, BitIs, Zenon
<1>6. /\ 5 * y = 5 * x + 5 /\ 5 * y + 1 = 5 * x + 6 /\ 5 * y + 2 = 5 * x + 7
      /\ 5 * y + 3 = 5 * x + 8 /\ 5 * y + 4 = 5 * x + 9
      /\ 5 * z = 5 * x + 10 /\ 5 * z + 1 = 5 * x + 11 /\ 5 * z + 2 = 5 * x + 12
      /\ 5 * z + 3 = 5 * x + 13 /\ 5 * z + 4 = 5 * x + 14
  OBVIOUS
<1>7. /\ BitsOfLetter(c, (c \div 16) % 2, (c \div 8) % 2, (c \div 4) % 2, (c \div 2) % 2, (c \div 1) % 2)
      /\ BitsOfLetter(d, (d \div 16) % 2, (d \div 8) % 2, (d \div 4) % 2, (d \div 2) % 2, (d \div 1) % 2)
      /\ BitsOfLetter(e, (e \div 16) % 2, (e \div 8) % 2, (e \div 4) % 2, (e \div 2) % 2, (e \div 1) % 2)
  BY <1>2, LetterBits, Zenon
<1>8. /\ BitsOfLetter(c, BitOf(t, 5 * x), BitOf(t, 5 * x + 1), BitOf(t, 5 * x + 2), BitOf(t, 5 * x + 3), BitOf(t, 5 * x + 4))
      /\ BitsOfLetter(d, BitOf(t, 5 * x + 5), BitOf(t, 5 * x + 6), BitOf(t, 5 * x + 7), BitOf(t, 5 * x + 8), BitOf(t, 5 * x + 9))
      /\ BitsOfLetter(e, BitOf(t, 5 * x + 10), BitOf(t, 5 * x + 11), BitOf(t, 5 * x + 12), BitOf(t, 5 * x + 13), BitOf(t, 5 * x + 14))
  BY <1>3, <1>4, <1>5, <1>6, <1>7
<1>9. TakenByte(t, b, n, 16) = ByteOf(t, 5 * x + 3)
  <2>1. TakesBits(b, e, 16, BitOf(t, 5 * x + 3), BitOf(t, 5 * x + 4), BitOf(t, 5 * x + 5), BitOf(t, 5 * x + 6),
                  BitOf(t, 5 * x + 7), BitOf(t, 5 * x + 8), BitOf(t, 5 * x + 9), BitOf(t, 5 * x + 10))
    BY <1>2, <1>8, SecondByte, Zenon
  <2>2. /\ (5 * x + 3) + 1 = 5 * x + 4 /\ (5 * x + 3) + 2 = 5 * x + 5 /\ (5 * x + 3) + 3 = 5 * x + 6
        /\ (5 * x + 3) + 4 = 5 * x + 7 /\ (5 * x + 3) + 5 = 5 * x + 8 /\ (5 * x + 3) + 6 = 5 * x + 9
        /\ (5 * x + 3) + 7 = 5 * x + 10
    OBVIOUS
  <2> QED  BY <2>1, <2>2, ByteOfIs DEF TakenByte, TakesBits, e
<1>10. TakenByte(t, b, n, 8) = ByteOf(t, 5 * x + 4)
  <2>1. TakesBits(b, e, 8, BitOf(t, 5 * x + 4), BitOf(t, 5 * x + 5), BitOf(t, 5 * x + 6), BitOf(t, 5 * x + 7),
                  BitOf(t, 5 * x + 8), BitOf(t, 5 * x + 9), BitOf(t, 5 * x + 10), BitOf(t, 5 * x + 11))
    BY <1>2, <1>8, FourthByte, Zenon
  <2>2. /\ (5 * x + 4) + 1 = 5 * x + 5 /\ (5 * x + 4) + 2 = 5 * x + 6 /\ (5 * x + 4) + 3 = 5 * x + 7
        /\ (5 * x + 4) + 4 = 5 * x + 8 /\ (5 * x + 4) + 5 = 5 * x + 9 /\ (5 * x + 4) + 6 = 5 * x + 10
        /\ (5 * x + 4) + 7 = 5 * x + 11
    OBVIOUS
  <2> QED  BY <2>1, <2>2, ByteOfIs DEF TakenByte, TakesBits, e
<1> QED  BY <1>9, <1>10, Zenon

\* The byte of a turn that has eight bits, after n letters.
LEMMA TurnByte ==
  ASSUME NEW t, LettersOnly(t), NEW n \in Nat, n + 1 <= Len(t), NEW b, BufferAt(t, b, n),
         ((5 * n) % 8) + 5 >= 8
  PROVE  TakenByte(t, b, n, 2^(((5 * n) % 8) + 5 - 8)) = ByteOf(t, 8 * ((5 * n) \div 8))
<1> DEFINE g == n \div 8  r == n % 8
<1>1. n = 8 * g + r /\ g \in Nat /\ r \in 0..7
  OBVIOUS
<1>2. 2^0 = 1 /\ 2^1 = 2 /\ 2^2 = 4 /\ 2^3 = 8 /\ 2^4 = 16
  OBVIOUS
<1> HIDE DEF g, r
<1>3. CASE r = 1
  <2>1. n - 1 \in Nat /\ n >= 1 /\ (n - 1) + 1 = n
    BY <1>1, <1>3
  <2>2. ((5 * n) % 8) + 5 - 8 = 2 /\ 8 * ((5 * n) \div 8) = 5 * (n - 1)
    BY <1>1, <1>3
  <2>3. TakenByte(t, b, n, 4) = ByteOf(t, 5 * (n - 1))
    BY <2>1, TwoLetterByte
  <2> QED  BY <1>2, <2>2, <2>3
<1>4. CASE r = 3
  <2>1. n - 2 \in Nat /\ n >= 2 /\ (n - 2) + 2 = n
    BY <1>1, <1>4
  <2>2. ((5 * n) % 8) + 5 - 8 = 4 /\ 8 * ((5 * n) \div 8) = 5 * (n - 2) + 3
    BY <1>1, <1>4
  <2>3. TakenByte(t, b, n, 16) = ByteOf(t, 5 * (n - 2) + 3)
    BY <2>1, ThreeLetterByte
  <2> QED  BY <1>2, <2>2, <2>3
<1>5. CASE r = 4
  <2>1. n - 1 \in Nat /\ n >= 1 /\ (n - 1) + 1 = n
    BY <1>1, <1>5
  <2>2. ((5 * n) % 8) + 5 - 8 = 1 /\ 8 * ((5 * n) \div 8) = 5 * (n - 1) + 1
    BY <1>1, <1>5
  <2>3. TakenByte(t, b, n, 2) = ByteOf(t, 5 * (n - 1) + 1)
    BY <2>1, TwoLetterByte
  <2> QED  BY <1>2, <2>2, <2>3
<1>6. CASE r = 6
  <2>1. n - 2 \in Nat /\ n >= 2 /\ (n - 2) + 2 = n
    BY <1>1, <1>6
  <2>2. ((5 * n) % 8) + 5 - 8 = 3 /\ 8 * ((5 * n) \div 8) = 5 * (n - 2) + 4
    BY <1>1, <1>6
  <2>3. TakenByte(t, b, n, 8) = ByteOf(t, 5 * (n - 2) + 4)
    BY <2>1, ThreeLetterByte
  <2> QED  BY <1>2, <2>2, <2>3
<1>7. CASE r = 7
  <2>1. n - 1 \in Nat /\ n >= 1 /\ (n - 1) + 1 = n
    BY <1>1, <1>7
  <2>2. ((5 * n) % 8) + 5 - 8 = 0 /\ 8 * ((5 * n) \div 8) = 5 * (n - 1) + 2
    BY <1>1, <1>7
  <2>3. TakenByte(t, b, n, 1) = ByteOf(t, 5 * (n - 1) + 2)
    BY <2>1, TwoLetterByte
  <2> QED  BY <1>2, <2>2, <2>3
<1>8. r \notin {0, 2, 5}
  <2>1. r # 0
    BY <1>1
  <2>2. r # 2
    BY <1>1
  <2>3. r # 5
    BY <1>1
  <2> QED  BY <2>1, <2>2, <2>3
<1> QED  BY <1>1, <1>3, <1>4, <1>5, <1>6, <1>7, <1>8

\* What base32_decode has after n letters.
DecodedAt(t, s, n) ==
  /\ s \in [buffer : Buffers, bits : 0..7, out : Seq(Byte)]
  /\ BufferAt(t, s.buffer, n)
  /\ s.bits = (5 * n) % 8 /\ Len(s.out) = (5 * n) \div 8
  /\ \A i \in 1..Len(s.out) : s.out[i] = ByteOf(t, 8 * (i - 1))

LEMMA BufferNext ==
  ASSUME NEW t, LettersOnly(t), NEW n \in Nat, n + 1 <= Len(t), NEW b, BufferAt(t, b, n)
  PROVE  BufferAt(t, Shifted(b, t[n + 1]), n + 1)
<1> DEFINE d == t[n + 1]  s == Shifted(b, d)
<1>1. d \in 0..31 /\ b \in Buffers
  BY DEF LettersOnly, BufferAt
<1>2. s \in Buffers /\ EndsIn(s, d)
  <2> HIDE DEF d
  <2> DEFINE w == b * 32 + d  k == w \div 4096
  <2>1. w \in Nat /\ w = 4096 * k + s /\ s \in 0..4095 /\ k \in Nat
    BY <1>1 DEF Buffers, Shifted
  <2>2. w = 32 * b + d /\ b \in Nat
    BY <1>1 DEF Buffers
  <2> HIDE DEF w, k, s
  <2>3. s = 32 * (b - 128 * k) + d
    BY <1>1, <2>1, <2>2
  <2>4. s % 32 = d
    BY <1>1, <2>1, <2>2, <2>3
  <2> QED  BY <2>1, <2>4 DEF Buffers, EndsIn
<1>3. ASSUME n + 1 >= 2 PROVE EndsInTwo(s, t[n], d)
  <2>1. n >= 1 /\ n \in 1..Len(t)
    BY <1>3 DEF LettersOnly
  <2>2. t[n] \in 0..31 /\ EndsIn(b, t[n])
    BY <2>1, Zenon DEF BufferAt, LettersOnly
  <2>3. AfterOne(b, t[n], d)
    BY <1>1, <2>2, ShiftedOne, Zenon
  <2> HIDE DEF d
  <2>4. PICK i \in 0..3 : s = 1024 * i + 32 * t[n] + d
    BY <2>3, Zenon DEF AfterOne
  <2> DEFINE c == t[n]  w == c * 32 + d
  <2> HIDE DEF s
  <2>5. c \in 0..31 /\ s = 1024 * i + 32 * c + d /\ i \in 0..3
    BY <2>2, <2>4
  <2> HIDE DEF c
  <2>6. s = 1024 * i + w /\ w \in 0..1023
    BY <1>1, <2>5
  <2>7. (1024 * i + w) % 1024 = w
    <3> HIDE DEF w
    <3> QED  BY <2>5, <2>6
  <2>8. s % 1024 = c * 32 + d
    BY <2>6, <2>7
  <2> QED  BY <2>8 DEF EndsInTwo, c
<1>4. (n + 1) - 1 = n /\ t[n + 1] = d
  OBVIOUS
<1> HIDE DEF s, d
<1>5. n + 1 >= 2 => EndsInTwo(s, t[(n + 1) - 1], t[n + 1])
  BY <1>3, <1>4
<1> QED  BY <1>2, <1>4, <1>5, Zenon DEF BufferAt, s

LEMMA Eights ==
  ASSUME NEW m \in Nat
  PROVE  /\ (m % 8) + 5 < 8 => (m + 5) % 8 = (m % 8) + 5 /\ (m + 5) \div 8 = m \div 8
         /\ (m % 8) + 5 >= 8 => (m + 5) % 8 = (m % 8) + 5 - 8 /\ (m + 5) \div 8 = (m \div 8) + 1
OBVIOUS

LEMMA TurnNext ==
  ASSUME NEW t, LettersOnly(t), NEW n \in Nat, n + 1 <= Len(t), NEW s, DecodedAt(t, s, n)
  PROVE  DecodedAt(t, TakeLetter(s, t[n + 1]), n + 1)
<1> DEFINE buffer == Shifted(s.buffer, t[n + 1])  bits == s.bits + 5
           next == TakeLetter(s, t[n + 1])
           byte == TakenByte(t, s.buffer, n, 2^(bits - 8))
<1>1. /\ s \in [buffer : Buffers, bits : 0..7, out : Seq(Byte)] /\ BufferAt(t, s.buffer, n)
      /\ s.bits = (5 * n) % 8 /\ Len(s.out) = (5 * n) \div 8
      /\ \A i \in 1..Len(s.out) : s.out[i] = ByteOf(t, 8 * (i - 1))
  BY Zenon DEF DecodedAt
<1>2. BufferAt(t, buffer, n + 1)
  BY <1>1, BufferNext, Zenon
<1>3. buffer \in Buffers
  BY <1>2, Zenon DEF BufferAt
<1>4. next = IF bits < 8 THEN [s EXCEPT !.buffer = buffer, !.bits = bits]
             ELSE [buffer |-> buffer, bits |-> bits - 8, out |-> Append(s.out, byte)]
  BY DEF TakeLetter, TakenByte, Taken, Shifted
<1>5. s.bits \in 0..7 /\ s.out \in Seq(Byte) /\ Len(s.out) \in Nat
  BY <1>1
<1>6. 5 * (n + 1) = 5 * n + 5
  OBVIOUS
<1> HIDE DEF buffer, next, byte
<1>7. CASE bits < 8
  <2>1. (5 * (n + 1)) % 8 = bits /\ (5 * (n + 1)) \div 8 = (5 * n) \div 8
    <3>1. 5 * n \in Nat /\ ((5 * n) % 8) + 5 = bits
      BY <1>1
    <3>2. (5 * n + 5) % 8 = bits /\ (5 * n + 5) \div 8 = (5 * n) \div 8
      BY <1>7, <3>1, Eights
    <3> QED  BY <1>6, <3>2
  <2>2. next = [s EXCEPT !.buffer = buffer, !.bits = bits]
    BY <1>4, <1>7
  <2>3. bits \in 0..7
    BY <1>5, <1>7
  <2>4. /\ next \in [buffer : Buffers, bits : 0..7, out : Seq(Byte)]
        /\ next.buffer = buffer /\ next.bits = bits /\ next.out = s.out
    BY <1>1, <1>3, <2>2, <2>3
  <2> HIDE DEF bits
  <2> QED  BY <1>1, <1>2, <2>1, <2>4, Zenon DEF DecodedAt, next
<1>8. CASE bits >= 8
  <2>1. (5 * (n + 1)) % 8 = bits - 8 /\ (5 * (n + 1)) \div 8 = ((5 * n) \div 8) + 1
    <3>1. 5 * n \in Nat /\ ((5 * n) % 8) + 5 = bits
      BY <1>1
    <3>2. (5 * n + 5) % 8 = bits - 8 /\ (5 * n + 5) \div 8 = ((5 * n) \div 8) + 1
      BY <1>8, <3>1, Eights
    <3> QED  BY <1>6, <3>2
  <2>2. next = [buffer |-> buffer, bits |-> bits - 8, out |-> Append(s.out, byte)]
    BY <1>4, <1>5, <1>8
  <2>3. bits - 8 \in 0..7
    <3> DEFINE v == s.bits
    <3>1. v \in 0..7 /\ v + 5 >= 8
      BY <1>5, <1>8
    <3> HIDE DEF v
    <3>2. (v + 5) - 8 \in 0..7
      BY <3>1
    <3> QED  BY <3>2 DEF v
  <2>4. byte = ByteOf(t, 8 * Len(s.out))
    <3>1. ((5 * n) % 8) + 5 >= 8 /\ ((5 * n) % 8) + 5 - 8 = bits - 8
      BY <1>1, <1>8
    <3>2. TakenByte(t, s.buffer, n, 2^(((5 * n) % 8) + 5 - 8)) = ByteOf(t, 8 * ((5 * n) \div 8))
      BY <1>1, <3>1, TurnByte, Zenon
    <3> QED  BY <1>1, <3>1, <3>2 DEF byte
  <2>5. byte \in Byte
    <3>1. \A m \in Int : m % 256 \in Byte
      BY DEF Byte
    <3>2. \A w \in Nat : \A k \in {1, 2, 4, 8, 16} : w \div k \in Int
      OBVIOUS
    <3>3. buffer \in Nat
      BY <1>3 DEF Buffers
    <3>4. bits - 8 \in 0..4
      BY <1>5, <1>8
    <3>5. 2^(bits - 8) \in {1, 2, 4, 8, 16}
      <4>1. 2^0 = 1 /\ 2^1 = 2 /\ 2^2 = 4 /\ 2^3 = 8 /\ 2^4 = 16
        OBVIOUS
      <4>2. bits - 8 = 0 \/ bits - 8 = 1 \/ bits - 8 = 2 \/ bits - 8 = 3 \/ bits - 8 = 4
        BY <3>4
      <4> HIDE DEF bits
      <4>3. \A v : v = 0 \/ v = 1 \/ v = 2 \/ v = 3 \/ v = 4 => 2^v \in {1, 2, 4, 8, 16}
        BY <4>1
      <4> QED  BY <4>2, <4>3
    <3>6. byte = (buffer \div 2^(bits - 8)) % 256
      BY Zenon DEF byte, buffer, TakenByte, Taken
    <3> DEFINE k == 2^(bits - 8)
    <3> HIDE DEF k
    <3>7. buffer \div k \in Int
      BY <3>2, <3>3, <3>5 DEF k
    <3> QED  BY <3>1, <3>6, <3>7 DEF k
  <2> DEFINE longer == Append(s.out, byte)
  <2>6. /\ longer \in Seq(Byte) /\ Len(longer) = Len(s.out) + 1
        /\ \A i \in 1..Len(s.out) : longer[i] = s.out[i]
        /\ longer[Len(s.out) + 1] = byte
    BY <1>5, <2>5
  <2> HIDE DEF longer
  <2>7. \A i \in 1..Len(longer) : longer[i] = ByteOf(t, 8 * (i - 1))
    <3> SUFFICES ASSUME NEW i \in 1..Len(longer) PROVE longer[i] = ByteOf(t, 8 * (i - 1))
      OBVIOUS
    <3>1. CASE i = Len(s.out) + 1
      <4>1. i - 1 = Len(s.out)
        BY <1>5, <3>1
      <4> QED  BY <2>4, <2>6, <3>1, <4>1
    <3>2. CASE i \in 1..Len(s.out)
      BY <1>1, <2>6, <3>2, Zenon
    <3> QED  BY <1>5, <2>6, <3>1, <3>2
  <2>8. /\ next \in [buffer : Buffers, bits : 0..7, out : Seq(Byte)]
        /\ next.buffer = buffer /\ next.bits = bits - 8 /\ next.out = longer
    BY <1>3, <2>2, <2>3, <2>6 DEF longer
  <2>9. Len(next.out) = (5 * (n + 1)) \div 8
    BY <1>1, <2>1, <2>6, <2>8
  <2> HIDE DEF bits
  <2> QED  BY <1>2, <2>1, <2>7, <2>8, <2>9, Zenon DEF DecodedAt, next
<1> QED  BY <1>5, <1>7, <1>8

LEMMA DecodedIs ==
  ASSUME NEW t, LettersOnly(t)
  PROVE  /\ Base32Decode(t) = [i \in 1..(5 * Len(t)) \div 8 |-> ByteOf(t, 8 * (i - 1))]
         /\ Base32Decode(t) \in Seq(Byte)
<1>1. t \in Seq(Nat) /\ Len(t) \in Nat
  BY DEF LettersOnly
<1>2. PICK F : LettersTaken(t, F)
  BY <1>1, DecodeIs, Zenon
<1> DEFINE T == {n \in Nat : n <= Len(t) => DecodedAt(t, F[n], n)}
<1>3. 0 \in T
  <2>1. NoBits \in [buffer : Buffers, bits : 0..7, out : Seq(Byte)]
    BY DEF NoBits, Buffers
  <2>2. /\ NoBits.buffer \in Buffers /\ NoBits.bits = (5 * 0) % 8 /\ Len(NoBits.out) = (5 * 0) \div 8
        /\ ~(0 >= 1) /\ ~(0 >= 2) /\ \A i \in 1..Len(NoBits.out) : FALSE
    BY DEF NoBits, Buffers
  <2>3. DecodedAt(t, NoBits, 0)
    BY <2>1, <2>2, Zenon DEF DecodedAt, BufferAt
  <2>4. DecodedAt(t, F[0], 0)
    BY <1>2, <2>3, Zenon DEF LettersTaken
  <2> QED  BY <2>4
<1>4. ASSUME NEW n \in Nat, n \in T PROVE n + 1 \in T
  <2> SUFFICES ASSUME n + 1 <= Len(t) PROVE DecodedAt(t, F[n + 1], n + 1)
    OBVIOUS
  <2>1. n <= Len(t) /\ n + 1 \in 1..Len(t) /\ (n + 1) - 1 = n
    BY <1>1
  <2>2. DecodedAt(t, F[n], n)
    BY <1>4, <2>1
  <2>3. F[n + 1] = TakeLetter(F[n], t[n + 1])
    BY <1>2, <2>1 DEF LettersTaken
  <2> QED  BY <2>2, <2>3, TurnNext, Zenon
<1>5. \A n \in Nat : n \in T
  <2> HIDE DEF T
  <2> QED  BY <1>3, <1>4, Counting, Zenon
<1>6. DecodedAt(t, F[Len(t)], Len(t))
  BY <1>1, <1>5
<1> DEFINE out == F[Len(t)].out
<1>7. /\ out \in Seq(Byte) /\ Len(out) = (5 * Len(t)) \div 8
      /\ \A i \in 1..Len(out) : out[i] = ByteOf(t, 8 * (i - 1))
  <2>1. F[Len(t)] \in [buffer : Buffers, bits : 0..7, out : Seq(Byte)]
    BY <1>6, Zenon DEF DecodedAt
  <2>2. out \in Seq(Byte)
    BY <2>1
  <2> QED  BY <1>6, <2>2, Zenon DEF DecodedAt
<1>8. Base32Decode(t) = out
  BY <1>2, Zenon DEF LettersTaken
<1> HIDE DEF out
<1>9. out = [i \in 1..Len(out) |-> ByteOf(t, 8 * (i - 1))]
  <2>1. out = [i \in 1..Len(out) |-> out[i]]
    BY <1>7
  <2> QED  BY <1>7, <2>1, Zenon
<1> QED  BY <1>7, <1>8, <1>9, Zenon

-----------------------------------------------------------------------------
(* What is left of a secret: its letters *)

\* Kept, element by element: f[k] is what is kept of the first k.
KeepsTo(text, S, f) ==
  /\ f[0] = <<>>
  /\ \A k \in 0..Len(text) : f[k] \in Seq(Nat)
  /\ \A k \in 1..Len(text) : f[k] = IF text[k] \in S THEN Append(f[k - 1], text[k]) ELSE f[k - 1]
  /\ Kept(text, S) = f[Len(text)]

LEMMA KeptIs == ASSUME NEW text \in Seq(Nat), NEW S PROVE \E f : KeepsTo(text, S, f)
<1> DEFINE n == Len(text)
           parts == [i \in DOMAIN text |-> IF text[i] \in S THEN <<text[i]>> ELSE <<>>]
<1>1. n \in Nat /\ DOMAIN text = 1..n /\ \A i \in 1..n : text[i] \in Nat
  OBVIOUS
<1>2. Kept(text, S) = FlattenSeq(parts)
  BY Zenon DEF Kept
<1>3. \A i \in 1..n : parts[i] = IF text[i] \in S THEN <<text[i]>> ELSE <<>>
  BY <1>1
<1>4. parts \in Seq(Seq(Nat)) /\ Len(parts) = n
  <2>1. \A i \in 1..n : (IF text[i] \in S THEN <<text[i]>> ELSE <<>>) \in Seq(Nat)
    BY <1>1
  <2>2. parts \in [1..n -> Seq(Nat)]
    BY <1>1, <2>1
  <2> HIDE DEF parts
  <2> QED  BY <1>1, <2>2
<1> HIDE DEF parts
<1>5. CASE n = 0
  <2> DEFINE f == [k \in {0} |-> <<>>]
  <2>1. parts = <<>>
    BY <1>4, <1>5
  <2>2. FlattenSeq(parts) = parts
    BY <1>4, <1>5, Zenon DEF FlattenSeq
  <2>3. f[0] = <<>> /\ f[n] = <<>> /\ 0..n = {0} /\ 1..n = {} /\ <<>> \in Seq(Nat)
    BY <1>5
  <2>4. \A k \in 0..n : f[k] \in Seq(Nat)
    BY <2>3
  <2> HIDE DEF f
  <2>5. KeepsTo(text, S, f)
    BY <1>2, <2>1, <2>2, <2>3, <2>4 DEF KeepsTo
  <2> QED  BY <2>5
<1>6. CASE n # 0
  <2>1. n \in Nat \ {0} /\ 1 \in 1..n
    BY <1>1, <1>6
  <2>2. \A i \in 1..n : parts[i] \in Seq(Nat)
    BY <1>4
  <2>3. PICK g : PrefixesOf(parts, n, g) /\ FlattenSeq(parts) = g[n]
    BY <1>4, <2>1, <2>2, FlattenIs, Zenon
  <2> DEFINE f == [k \in 0..n |-> IF k = 0 THEN <<>> ELSE g[k]]
  <2>4. f[0] = <<>> /\ \A k \in 1..n : f[k] = g[k]
    BY <1>1
  <2>5. /\ g[1] = parts[1] /\ \A i \in 1..n : g[i] \in Seq(Nat)
        /\ \A i \in 1..n : i # n => g[i + 1] = g[i] \o parts[i + 1]
    BY <2>3, Zenon DEF PrefixesOf
  <2> HIDE DEF f
  <2>6. \A k \in 0..n : f[k] \in Seq(Nat)
    <3>1. \A k \in 0..n : k = 0 \/ k \in 1..n
      BY <1>1
    <3>2. <<>> \in Seq(Nat)
      OBVIOUS
    <3> QED  BY <2>4, <2>5, <3>1, <3>2
  <2>7. ASSUME NEW k \in 1..n
        PROVE  f[k] = IF text[k] \in S THEN Append(f[k - 1], text[k]) ELSE f[k - 1]
    <3>1. f[k] = f[k - 1] \o parts[k]
      <4>1. CASE k = 1
        <5>1. f[k] = parts[k] /\ f[k - 1] = <<>> /\ parts[k] \in Seq(Nat)
          BY <2>2, <2>4, <2>5, <4>1
        <5> QED  BY <5>1
      <4>2. CASE k # 1
        <5>1. k - 1 \in 1..n /\ k - 1 # n /\ (k - 1) + 1 = k
          BY <1>1, <4>2
        <5> QED  BY <2>4, <2>5, <5>1
      <4> QED  BY <4>1, <4>2
    <3>2. k - 1 \in 0..n /\ text[k] \in Nat
      BY <1>1
    <3>3. f[k - 1] \in Seq(Nat)
      BY <2>6, <3>2
    <3>4. CASE text[k] \in S
      <4>1. parts[k] = <<text[k]>>
        BY <1>3, <3>4
      <4> QED  BY <3>1, <3>2, <3>3, <3>4, <4>1
    <3>5. CASE text[k] \notin S
      <4>1. parts[k] = <<>>
        BY <1>3, <3>5
      <4> QED  BY <3>1, <3>3, <3>5, <4>1
    <3> QED  BY <3>4, <3>5
  <2>8. Kept(text, S) = f[n]
    <3>1. n \in 1..n
      BY <1>1, <1>6
    <3> QED  BY <1>2, <2>3, <2>4, <3>1
  <2>9. KeepsTo(text, S, f)
    BY <2>4, <2>6, <2>7, <2>8, Zenon DEF KeepsTo
  <2> QED  BY <2>9
<1> QED  BY <1>5, <1>6

\* The pads end the secret: its letters are those before them.
LEMMA LettersAre ==
  ASSUME NEW text \in Seq(Nat), NEW m \in 0..Len(Kept(text, Nat \ {Blank})),
         \A i \in 1..m : Kept(text, Nat \ {Blank})[i] \in Letters,
         \A i \in m + 1..Len(Kept(text, Nat \ {Blank})) : Kept(text, Nat \ {Blank})[i] \notin Letters
  PROVE  Kept(text, Letters) = SubSeq(Kept(text, Nat \ {Blank}), 1, m)
<1> DEFINE n == Len(text)
<1>1. n \in Nat /\ \A i \in 1..n : text[i] \in Nat
  OBVIOUS
<1>2. PICK f : KeepsTo(text, Nat \ {Blank}, f)
  BY KeptIs, Zenon
<1>3. PICK g : KeepsTo(text, Letters, g)
  BY KeptIs, Zenon
<1>4. /\ f[0] = <<>> /\ (\A k \in 0..n : f[k] \in Seq(Nat)) /\ Kept(text, Nat \ {Blank}) = f[n]
      /\ \A k \in 1..n : f[k] = IF text[k] \in Nat \ {Blank} THEN Append(f[k - 1], text[k]) ELSE f[k - 1]
  BY <1>2, Zenon DEF KeepsTo
<1>5. /\ g[0] = <<>> /\ (\A k \in 0..n : g[k] \in Seq(Nat)) /\ Kept(text, Letters) = g[n]
      /\ \A k \in 1..n : g[k] = IF text[k] \in Letters THEN Append(g[k - 1], text[k]) ELSE g[k - 1]
  BY <1>3, Zenon DEF KeepsTo
<1> DEFINE Fits(k) == \A j \in 0..Len(f[k]) :
                        (/\ \A i \in 1..j : f[k][i] \in Letters
                         /\ \A i \in j + 1..Len(f[k]) : f[k][i] \notin Letters)
                        => g[k] = SubSeq(f[k], 1, j)
           T == {k \in Nat : k <= n => Fits(k)}
<1>6. 0 \in T
  <2>1. \A j \in 0..Len(<<>>) : SubSeq(<<>>, 1, j) = <<>>
    OBVIOUS
  <2>2. Fits(0)
    BY <1>4, <1>5, <2>1
  <2> QED  BY <2>2
<1>7. ASSUME NEW k \in Nat, k \in T PROVE k + 1 \in T
  <2> SUFFICES ASSUME k + 1 <= n PROVE Fits(k + 1)
    <3> HIDE DEF Fits
    <3> QED  OBVIOUS
  <2> DEFINE c == text[k + 1]  F == f[k]  H == f[k + 1]
  <2>1. k \in 0..n /\ k <= n /\ k + 1 \in 1..n /\ (k + 1) - 1 = k
    BY <1>1
  <2>2. Fits(k)
    BY <1>7, <2>1
  <2>3. F \in Seq(Nat) /\ c \in Nat /\ Len(F) \in Nat
    BY <1>1, <1>4, <2>1
  <2>4. H = (IF c # Blank THEN Append(F, c) ELSE F) /\ g[k + 1] = IF c \in Letters THEN Append(g[k], c) ELSE g[k]
    BY <1>1, <1>4, <1>5, <2>1
  <2> SUFFICES ASSUME NEW j \in 0..Len(H), \A i \in 1..j : H[i] \in Letters,
                      \A i \in j + 1..Len(H) : H[i] \notin Letters
               PROVE  g[k + 1] = SubSeq(H, 1, j)
    OBVIOUS
  <2>5. CASE c = Blank
    <3>1. H = F /\ g[k + 1] = g[k]
      BY <2>4, <2>5 DEF Blank, Letters
    <3> QED  BY <2>2, <3>1
  <2>6. CASE c # Blank
    <3>1. H = Append(F, c)
      BY <2>4, <2>6
    <3>2. /\ Len(H) = Len(F) + 1 /\ H[Len(F) + 1] = c /\ \A i \in 1..Len(F) : H[i] = F[i]
      BY <2>3, <3>1
    <3> HIDE DEF H, F, c
    <3>3. CASE c \in Letters
      <4>1. j = Len(F) + 1
        <5>1. Len(F) + 1 \notin j + 1..Len(H)
          BY <3>2, <3>3
        <5> QED  BY <2>3, <3>2, <5>1
      <4>2. \A i \in 1..Len(F) : F[i] \in Letters
        BY <2>3, <3>2, <4>1
      <4>3. g[k] = SubSeq(F, 1, Len(F))
        <5>1. Len(F) \in 0..Len(F) /\ \A i \in Len(F) + 1..Len(F) : FALSE
          BY <2>3
        <5> QED  BY <2>2, <4>2, <5>1 DEF F
      <4>4. SubSeq(F, 1, Len(F)) = F /\ SubSeq(H, 1, j) = H
        <5>1. SubSeq(F, 1, Len(F)) = F
          BY <2>3
        <5>2. H \in Seq(Nat) /\ j = Len(H)
          BY <2>3, <3>1, <3>2, <4>1
        <5> QED  BY <5>1, <5>2
      <4> QED  BY <2>4, <3>1, <3>3, <4>3, <4>4
    <3>4. CASE c \notin Letters
      <4>1. j \in 0..Len(F)
        <5>1. Len(F) + 1 \notin 1..j
          BY <3>2, <3>4
        <5> QED  BY <2>3, <3>2, <5>1
      <4>2. (\A i \in 1..j : F[i] \in Letters) /\ \A i \in j + 1..Len(F) : F[i] \notin Letters
        <5>1. \A i \in 1..j : i \in 1..Len(F) /\ H[i] \in Letters
          BY <2>3, <4>1
        <5>2. \A i \in j + 1..Len(F) : i \in 1..Len(F) /\ i \in j + 1..Len(H)
          BY <2>3, <3>2, <4>1
        <5> QED  BY <3>2, <5>1, <5>2, Zenon
      <4>3. g[k] = SubSeq(F, 1, j)
        BY <2>2, <4>1, <4>2 DEF F
      <4>4. SubSeq(H, 1, j) = SubSeq(F, 1, j)
        BY <2>3, <3>1, <3>2, <4>1
      <4> QED  BY <2>4, <3>4, <4>3, <4>4
    <3> QED  BY <3>3, <3>4
  <2> QED  BY <2>5, <2>6
<1>8. n \in T
  <2> HIDE DEF T
  <2> QED  BY <1>1, <1>6, <1>7, Counting, Zenon
<1>9. Fits(n)
  <2> HIDE DEF Fits
  <2>1. n <= n
    BY <1>1
  <2> QED  BY <1>8, <2>1
<1> QED  BY <1>4, <1>5, <1>9

LEMMA TrailingIs ==
  ASSUME NEW text \in Seq(Nat), NEW c
  PROVE  \E m \in 0..Len(text) : /\ WithoutTrailing(text, c) = SubSeq(text, 1, m)
                                 /\ \A i \in m + 1..Len(text) : text[i] = c
<1> DEFINE n == Len(text)
           S == {0} \cup {i \in DOMAIN text : text[i] # c}
<1>1. n \in Nat /\ S \subseteq 0..n /\ 0 \in S
  OBVIOUS
<1>2. \E m \in S : \A y \in S : m >= y
  <2> SUFFICES ASSUME \A m \in S : \E y \in S : ~(m >= y) PROVE FALSE
    OBVIOUS
  <2> DEFINE T == {k \in Nat : \E y \in S : y >= k}
  <2>1. 0 \in T
    BY <1>1
  <2>2. ASSUME NEW k \in Nat, k \in T PROVE k + 1 \in T
    <3>1. PICK m \in S : m >= k
      BY <2>2
    <3>2. PICK y \in S : ~(m >= y)
      OBVIOUS
    <3>3. y >= k + 1
      BY <1>1, <3>1, <3>2
    <3> QED  BY <3>3
  <2>3. n + 1 \in T
    <3>1. n + 1 \in Nat
      BY <1>1
    <3> HIDE DEF T
    <3> QED  BY <2>1, <2>2, <3>1, Counting, Zenon
  <2>4. PICK y \in S : y >= n + 1
    BY <2>3
  <2> QED  BY <1>1, <2>4
<1> DEFINE m == Max(S)
<1>3. m \in S /\ \A y \in S : m >= y
  <2> HIDE DEF S
  <2> QED  BY <1>2, Zenon DEF Max
<1>4. WithoutTrailing(text, c) = SubSeq(text, 1, m)
  BY Zenon DEF WithoutTrailing
<1> HIDE DEF m
<1>5. m \in 0..n
  BY <1>1, <1>3
<1>6. \A i \in m + 1..n : text[i] = c
  <2> SUFFICES ASSUME NEW i \in m + 1..n, text[i] # c PROVE FALSE
    OBVIOUS
  <2>1. i \in S
    BY <1>5
  <2>2. m >= i
    BY <1>3, <2>1
  <2> QED  BY <1>5, <2>2
<1> QED  BY <1>4, <1>5, <1>6

LEMMA SecretIsRead ==
  ASSUME NEW secret \in Seq(Nat), DecodeBase32Seed(secret).ok
  PROVE  DecodeBase32Seed(secret).value = SeedOf(secret) /\ SeedOf(secret) \in Seq(Byte)
<1> DEFINE cleaned == Kept(secret, Nat \ {Blank})
           trimmed == WithoutTrailing(cleaned, Pad)
           seed == Base32Decode(trimmed)
           letters == Kept(secret, Letters)
<1>1. /\ \A i \in DOMAIN trimmed : trimmed[i] \in Letters
      /\ DecodeBase32Seed(secret) = Valid(seed)
  <2>1. DecodeBase32Seed(secret) = IF (\A i \in DOMAIN trimmed : trimmed[i] \in Letters) /\ Len(seed) \in 1..MaxSeed
                                   THEN Valid(seed) ELSE Invalid
    BY Zenon DEF DecodeBase32Seed
  <2> HIDE DEF trimmed, seed
  <2> QED  BY <2>1, ValidIs, Zenon
<1>2. cleaned \in Seq(Nat)
  <2>1. PICK f : KeepsTo(secret, Nat \ {Blank}, f)
    BY KeptIs, Zenon
  <2>2. Len(secret) \in 0..Len(secret)
    OBVIOUS
  <2> QED  BY <2>1, <2>2, Zenon DEF KeepsTo
<1> HIDE DEF cleaned
<1>3. PICK m \in 0..Len(cleaned) : trimmed = SubSeq(cleaned, 1, m) /\ \A i \in m + 1..Len(cleaned) : cleaned[i] = Pad
  BY <1>2, TrailingIs, Zenon
<1> HIDE DEF trimmed
<1>4. /\ trimmed \in Seq(Nat) /\ Len(trimmed) = m /\ DOMAIN trimmed = 1..m
      /\ \A i \in 1..m : trimmed[i] = cleaned[i]
  BY <1>2, <1>3
<1>5. /\ \A i \in 1..m : cleaned[i] \in Letters
      /\ \A i \in m + 1..Len(cleaned) : cleaned[i] \notin Letters
  <2>1. Pad \notin Letters
    BY DEF Pad, Letters
  <2> QED  BY <1>1, <1>3, <1>4, <2>1
<1>6. letters = trimmed
  BY <1>3, <1>5, LettersAre, Zenon DEF cleaned
<1>7. LettersOnly(trimmed)
  BY <1>1, <1>4 DEF LettersOnly, Letters
<1>8. seed = [i \in 1..(5 * Len(trimmed)) \div 8 |-> ByteOf(trimmed, 8 * (i - 1))] /\ seed \in Seq(Byte)
  BY <1>7, DecodedIs, Zenon
<1>9. SeedOf(secret) = [i \in 1..(5 * Len(letters)) \div 8 |-> ByteOf(letters, 8 * (i - 1))]
  BY Zenon DEF SeedOf
<1> HIDE DEF letters, seed
<1>10. SeedOf(secret) = seed
  BY <1>6, <1>8, <1>9, Zenon
<1>11. DecodeBase32Seed(secret).value = seed
  BY <1>1, ValidIs, Zenon
<1> QED  BY <1>8, <1>10, <1>11, Zenon

-----------------------------------------------------------------------------
(* Entries up to the end of a stream *)

\* An entry takes at least a byte, and ends within the stream.
LEMMA EntryEndIs ==
  ASSUME NEW stream \in Seq(Nat), NEW p \in 1..Len(stream), IsEntry(stream, p, FALSE)
  PROVE  EntryEnd(stream, p, FALSE) \in p + 1..Len(stream) + 1
<1> DEFINE n == Len(stream)
           app == AppAt(p)
           account == AccountAt(stream, p)
           code == CodeAt(stream, p)
<1>1. n \in Nat /\ \A i \in 1..n : stream[i] \in Nat
  BY LenProperties, ElementOfSeq, Zenon
<1>2. ASSUME NEW a \in Nat, a >= 1, TextFits(stream, a)
      PROVE  TextEnd(stream, a) \in a + 1..n + 1
  <2>1. a <= n /\ a + stream[a] <= n
    BY <1>2, Zenon DEF TextFits
  <2>2. stream[a] \in Nat
    BY <1>1, <1>2, <2>1
  <2> HIDE DEF n
  <2> QED  BY <1>1, <2>1, <2>2 DEF TextEnd
<1>3. TextFits(stream, app) /\ TextFits(stream, account)
      /\ (HasCode(stream[p], stream[p + 5], FALSE) => TextFits(stream, code))
  BY Zenon DEF IsEntry
<1>4. account = TextEnd(stream, app) /\ code = TextEnd(stream, account) /\ app = p + 6
  BY Zenon DEF AccountAt, CodeAt, AppAt
<1>5. EntryEnd(stream, p, FALSE) =
        IF HasCode(stream[p], stream[p + 5], FALSE) THEN TextEnd(stream, code) ELSE code
  BY Zenon DEF EntryEnd
<1> HIDE DEF app, account, code
<1>6. app \in Nat /\ app >= 1 /\ app >= p + 1
  BY <1>4
<1>7. account \in app + 1..n + 1
  BY <1>2, <1>3, <1>4, <1>6, Zenon
<1> HIDE DEF n
<1>8. account \in Nat /\ account >= 1
  BY <1>1, <1>6, <1>7
<1>9. code \in account + 1..n + 1
  BY <1>2, <1>3, <1>4, <1>8, Zenon
<1>10. code \in Nat /\ code >= 1 /\ code \in p + 1..n + 1
  BY <1>1, <1>6, <1>7, <1>8, <1>9
<1> DEFINE has == HasCode(stream[p], stream[p + 5], FALSE)
           last == TextEnd(stream, code)
<1>11. has => last \in code + 1..n + 1
  BY <1>2, <1>3, <1>10, Zenon
<1> HIDE DEF has, last
<1>12. has => last \in p + 1..n + 1
  BY <1>1, <1>10, <1>11
<1>13. (IF has THEN last ELSE code) \in p + 1..n + 1
  BY <1>10, <1>12, Zenon
<1> QED  BY <1>5, <1>13, Zenon DEF has, last, n

\* The function that EntriesFrom chooses, from q to the end.
RestStep(stream, R, p) ==
  IF p > Len(stream) THEN Valid(<<>>)
  ELSE IF ~IsEntry(stream, p, FALSE) THEN Invalid
  ELSE IF R[EntryEnd(stream, p, FALSE)].ok
       THEN Valid(<<ParseOneEntry(stream, p, FALSE)>> \o R[EntryEnd(stream, p, FALSE)].value)
       ELSE Invalid
ReadsFrom(stream, R, q) == R = [p \in q..Len(stream) + 1 |-> RestStep(stream, R, p)]

\* A step looks at later places only.
LEMMA LaterOnly ==
  ASSUME NEW stream \in Seq(Nat), NEW p \in 1..Len(stream) + 1, NEW R, NEW S,
         \A i \in p + 1..Len(stream) + 1 : S[i] = R[i]
  PROVE  RestStep(stream, S, p) = RestStep(stream, R, p)
<1>1. Len(stream) \in Nat
  BY LenProperties, Zenon
<1>2. CASE p > Len(stream)
  BY <1>2, Zenon DEF RestStep
<1>3. CASE ~(p > Len(stream)) /\ ~IsEntry(stream, p, FALSE)
  BY <1>3, Zenon DEF RestStep
<1>4. CASE ~(p > Len(stream)) /\ IsEntry(stream, p, FALSE)
  <2>1. p \in 1..Len(stream)
    BY <1>1, <1>4
  <2>2. EntryEnd(stream, p, FALSE) \in p + 1..Len(stream) + 1
    BY <1>4, <2>1, EntryEndIs, Zenon
  <2>3. S[EntryEnd(stream, p, FALSE)] = R[EntryEnd(stream, p, FALSE)]
    BY <2>2, Zenon
  <2> QED  BY <1>4, <2>3, Zenon DEF RestStep
<1> QED  BY <1>2, <1>3, <1>4, Zenon

LEMMA ReadsOneMore ==
  ASSUME NEW stream \in Seq(Nat), NEW q \in 1..Len(stream), NEW R, ReadsFrom(stream, R, q + 1)
  PROVE  \E S : ReadsFrom(stream, S, q)
<1> DEFINE n == Len(stream)
           first == RestStep(stream, R, q)
           S == [p \in q..n + 1 |-> IF p = q THEN first ELSE R[p]]
<1>1. n \in Nat
  BY LenProperties, Zenon
<1>2. \A p \in q + 1..n + 1 : R[p] = RestStep(stream, R, p)
  <2> DEFINE h == [p \in q + 1..n + 1 |-> RestStep(stream, R, p)]
  <2>1. R = h
    BY Zenon DEF ReadsFrom
  <2>2. \A p \in q + 1..n + 1 : h[p] = RestStep(stream, R, p)
    OBVIOUS
  <2> HIDE DEF h
  <2> QED  BY <2>1, <2>2, Zenon
<1>3. \A p \in q..n + 1 : S[p] = IF p = q THEN first ELSE R[p]
  OBVIOUS
<1>4. S = [p \in q..n + 1 |-> S[p]]
  OBVIOUS
<1> HIDE DEF S
<1>5. ASSUME NEW p \in q..n + 1 PROVE RestStep(stream, S, p) = RestStep(stream, R, p)
  <2>1. p \in 1..n + 1
    BY <1>1
  <2>2. ASSUME NEW i \in p + 1..n + 1 PROVE S[i] = R[i]
    <3>1. i \in q..n + 1 /\ i # q
      BY <1>1
    <3> QED  BY <1>3, <3>1, Zenon
  <2> QED  BY <2>1, <2>2, LaterOnly, Zenon
<1>6. ASSUME NEW p \in q..n + 1 PROVE S[p] = RestStep(stream, S, p)
  <2>1. CASE p = q
    BY <1>3, <1>5, <1>6, <2>1, Zenon
  <2>2. CASE p # q
    <3>1. p \in q + 1..n + 1
      BY <1>1, <2>2
    <3> QED  BY <1>2, <1>3, <1>5, <1>6, <2>2, <3>1, Zenon
  <2> QED  BY <2>1, <2>2, Zenon
<1>7. S = [p \in q..n + 1 |-> RestStep(stream, S, p)]
  BY <1>4, <1>6, Zenon
<1> QED  BY <1>7, Zenon DEF ReadsFrom

LEMMA EntriesFromIs ==
  ASSUME NEW stream \in Seq(Nat)
  PROVE  \A p \in 1..Len(stream) + 1 :
           EntriesFrom(stream)[p] = RestStep(stream, EntriesFrom(stream), p)
<1> DEFINE n == Len(stream)
           R == CHOOSE R : ReadsFrom(stream, R, 1)
<1>1. n \in Nat
  BY LenProperties, Zenon
<1>2. EntriesFrom(stream) = R
  BY Zenon DEF EntriesFrom, ReadsFrom, RestStep
<1>3. \E S : ReadsFrom(stream, S, 1)
  <2> DEFINE T == {k \in Nat : k <= n => \E S : ReadsFrom(stream, S, (n + 1) - k)}
  <2>1. 0 \in T
    <3> DEFINE none == <<>>
               last == Valid(none)
               S == [p \in n + 1..n + 1 |-> last]
    <3>1. \A p \in n + 1..n + 1 : p > n
      BY <1>1
    <3>2. ASSUME NEW p \in n + 1..n + 1 PROVE RestStep(stream, S, p) = last
      <4> HIDE DEF S
      <4> QED  BY <3>1, Zenon DEF RestStep
    <3>3. S = [p \in n + 1..n + 1 |-> RestStep(stream, S, p)]
      <4>1. S = [p \in n + 1..n + 1 |-> last]
        OBVIOUS
      <4> HIDE DEF S, last
      <4> QED  BY <3>2, <4>1, Zenon
    <3> HIDE DEF S
    <3>4. ReadsFrom(stream, S, n + 1)
      BY <3>3, Zenon DEF ReadsFrom
    <3>5. (n + 1) - 0 = n + 1
      BY <1>1
    <3> HIDE DEF n
    <3>6. \E Q : ReadsFrom(stream, Q, (n + 1) - 0)
      BY <3>4, <3>5, Zenon
    <3> QED  BY <3>6
  <2>2. ASSUME NEW k \in Nat, k \in T PROVE k + 1 \in T
    <3> SUFFICES ASSUME k + 1 <= n PROVE \E S : ReadsFrom(stream, S, (n + 1) - (k + 1))
      OBVIOUS
    <3> DEFINE q == (n + 1) - (k + 1)
    <3>1. q \in 1..n /\ q + 1 = (n + 1) - k /\ k <= n
      BY <1>1
    <3>2. PICK S : ReadsFrom(stream, S, (n + 1) - k)
      BY <2>2, <3>1
    <3> HIDE DEF q
    <3>3. ReadsFrom(stream, S, q + 1)
      BY <3>1, <3>2, Zenon
    <3> QED  BY <3>1, <3>3, ReadsOneMore, Zenon DEF q
  <2>3. n \in T
    <3> HIDE DEF T
    <3> QED  BY <1>1, <2>1, <2>2, Counting, Zenon
  <2>4. (n + 1) - n = 1 /\ n <= n
    BY <1>1
  <2>5. \E S : ReadsFrom(stream, S, (n + 1) - n)
    BY <2>3, <2>4
  <2> HIDE DEF n
  <2> QED  BY <2>4, <2>5, Zenon
<1>4. ReadsFrom(stream, R, 1)
  BY <1>3, Zenon
<1> HIDE DEF R
<1>5. \A p \in 1..n + 1 : R[p] = RestStep(stream, R, p)
  <2> DEFINE h == [p \in 1..n + 1 |-> RestStep(stream, R, p)]
  <2>1. R = h
    BY <1>4, Zenon DEF ReadsFrom
  <2>2. \A p \in 1..n + 1 : h[p] = RestStep(stream, R, p)
    OBVIOUS
  <2> HIDE DEF h
  <2> QED  BY <2>1, <2>2, Zenon
<1> QED  BY <1>2, <1>5, Zenon

-----------------------------------------------------------------------------
(* A page, entry by entry *)

\* The entries es stand one after the other in a stream, the j-th one at at[j].
Laid(es, stream, at) ==
  /\ stream \in Seq(Nat) /\ at[1] = 1 /\ at[Len(es) + 1] = Len(stream) + 1
  /\ \A j \in 1..Len(es) : /\ at[j] \in 1..Len(stream)
                           /\ EntryIsAt(stream, at[j], FALSE, es[j], at[j + 1])

\* Every entry of a page is read, and nothing else.
LEMMA WholeIsRead ==
  ASSUME NEW es \in Seq(KeyEntry), NEW stream, NEW at, Laid(es, stream, at)
  PROVE  EntriesFrom(stream)[1] = Valid(es)
<1> DEFINE n == Len(es)
           R == EntriesFrom(stream)
           left(j) == SubSeq(es, j, n)
           T == {k \in Nat : k <= n => R[at[(n + 1) - k]] = Valid(left((n + 1) - k))}
<1>1. n \in Nat /\ stream \in Seq(Nat) /\ Len(stream) \in Nat
  BY LenProperties, Zenon DEF Laid
<1>2. /\ at[1] = 1 /\ at[n + 1] = Len(stream) + 1
      /\ \A j \in 1..n : at[j] \in 1..Len(stream) /\ EntryIsAt(stream, at[j], FALSE, es[j], at[j + 1])
  BY Zenon DEF Laid
<1>3. \A p \in 1..Len(stream) + 1 : R[p] = RestStep(stream, R, p)
  BY <1>1, EntriesFromIs, Zenon
<1> HIDE DEF R
<1>4. 0 \in T
  <2>1. at[n + 1] > Len(stream) /\ at[n + 1] \in 1..Len(stream) + 1 /\ (n + 1) - 0 = n + 1
    BY <1>1, <1>2
  <2>2. R[at[n + 1]] = Valid(<<>>)
    BY <1>3, <2>1, Zenon DEF RestStep
  <2>3. n + 1 \in Int /\ n \in Int /\ n < n + 1
    BY <1>1
  <2>4. left(n + 1) = <<>>
    BY <2>3, SubSeqEmpty, Zenon
  <2> HIDE DEF left
  <2>5. R[at[(n + 1) - 0]] = Valid(left((n + 1) - 0))
    BY <2>1, <2>2, <2>4, Zenon
  <2> QED  BY <2>5
<1>5. ASSUME NEW k \in Nat, k \in T PROVE k + 1 \in T
  <2> SUFFICES ASSUME k + 1 <= n
               PROVE  R[at[(n + 1) - (k + 1)]] = Valid(left((n + 1) - (k + 1)))
    OBVIOUS
  <2> DEFINE j == (n + 1) - (k + 1)
  <2>1. j \in 1..n /\ j + 1 = (n + 1) - k /\ k <= n /\ n \in j..n
    BY <1>1
  <2>2. R[at[(n + 1) - k]] = Valid(left((n + 1) - k))
    BY <1>5, <2>1, Zenon
  <2>3. left(j) = <<es[j]>> \o left(j + 1)
    <3> HIDE DEF j
    <3> QED  BY <2>1, SubSeqRecursiveFirst, Zenon
  <2> HIDE DEF j, left
  <2>4. R[at[j + 1]] = Valid(left(j + 1))
    BY <2>1, <2>2, Zenon
  <2>5. at[j] \in 1..Len(stream) /\ EntryIsAt(stream, at[j], FALSE, es[j], at[j + 1])
    BY <1>2, <2>1, Zenon
  <2>6. ~(at[j] > Len(stream)) /\ at[j] \in 1..Len(stream) + 1
    BY <1>1, <2>5
  <2>7. R[at[j]] = Valid(<<es[j]>> \o left(j + 1))
    <3>1. RestStep(stream, R, at[j]) = Valid(<<es[j]>> \o R[at[j + 1]].value)
      <4>1. R[at[j + 1]].ok
        BY <2>4, ValidIs, Zenon
      <4> QED  BY <2>5, <2>6, <4>1, Zenon DEF RestStep, EntryIsAt
    <3>2. R[at[j + 1]].value = left(j + 1)
      BY <2>4, ValidIs, Zenon
    <3> QED  BY <1>3, <2>6, <3>1, <3>2, Zenon
  <2>8. R[at[j]] = Valid(left(j))
    BY <2>3, <2>7, Zenon
  <2> QED  BY <2>8, Zenon DEF j
<1>6. n \in T
  <2> HIDE DEF T
  <2> QED  BY <1>1, <1>4, <1>5, Counting, Zenon
<1>7. (n + 1) - n = 1 /\ n <= n
  BY <1>1
<1>8. R[at[(n + 1) - n]] = Valid(left((n + 1) - n))
  BY <1>6, <1>7, Zenon
<1>9. left(1) = es
  BY SubSeqFull, Zenon
<1> HIDE DEF left
<1> QED  BY <1>2, <1>7, <1>8, <1>9, Zenon DEF R

\* What is read of a stream's beginning is read of the stream.
LEMMA CutEntry ==
  ASSUME NEW cut \in Seq(Nat), NEW rest \in Seq(Nat), NEW p \in 1..Len(cut), IsEntry(cut, p, FALSE)
  PROVE  /\ ParseOneEntry(cut \o rest, p, FALSE) = ParseOneEntry(cut, p, FALSE)
         /\ EntryEnd(cut \o rest, p, FALSE) = EntryEnd(cut, p, FALSE)
<1> DEFINE stream == cut \o rest
           m == Len(cut)
           app == AppAt(p)
           account == AccountAt(cut, p)
           code == CodeAt(cut, p)
           has == HasCode(cut[p], cut[p + 5], FALSE)
<1>1. m \in Nat /\ \A i \in 1..m : stream[i] = cut[i] /\ cut[i] \in Nat
  BY LenProperties, ElementOfSeq, LeftOf, Zenon
<1>2. ASSUME NEW a \in Nat, a >= 1, TextFits(cut, a)
      PROVE  /\ Text(stream, a) = Text(cut, a) /\ TextEnd(stream, a) = TextEnd(cut, a)
             /\ TextEnd(cut, a) \in Nat /\ TextEnd(cut, a) >= 1
  <2>1. a <= m /\ a + cut[a] <= m
    BY <1>2, Zenon DEF TextFits
  <2>2. a \in 1..m
    BY <1>2, <2>1
  <2>3. stream[a] = cut[a] /\ cut[a] \in Nat
    BY <1>1, <2>2, Zenon
  <2> DEFINE i == a + 1
             j == a + cut[a]
  <2>4. i \in Nat \ {0} /\ j \in Nat
    BY <2>3
  <2>5. j <= m
    BY <2>1, Zenon
  <2> HIDE DEF i, j
  <2>6. SubSeq(stream, i, j) = SubSeq(cut, i, j)
    BY <2>4, <2>5, LeftPart, Zenon
  <2>7. Text(stream, a) = Text(cut, a) /\ TextEnd(stream, a) = TextEnd(cut, a)
    <3> HIDE DEF stream
    <3> QED  BY <2>3, <2>6, Zenon DEF Text, TextEnd, i, j
  <2>8. TextEnd(cut, a) \in Nat /\ TextEnd(cut, a) >= 1
    BY <2>3 DEF TextEnd
  <2> QED  BY <2>7, <2>8, Zenon
<1> HIDE DEF stream
<1>3. p + 6 <= m /\ TextFits(cut, app) /\ TextFits(cut, account) /\ (has => TextFits(cut, code))
  BY Zenon DEF IsEntry
<1>4. account = TextEnd(cut, app) /\ code = TextEnd(cut, account) /\ app = p + 6
  BY Zenon DEF AccountAt, CodeAt, AppAt
<1>5. /\ stream[p] = cut[p] /\ stream[p + 1] = cut[p + 1] /\ stream[p + 2] = cut[p + 2]
      /\ stream[p + 3] = cut[p + 3] /\ stream[p + 4] = cut[p + 4] /\ stream[p + 5] = cut[p + 5]
  <2>1. /\ p \in 1..m /\ p + 1 \in 1..m /\ p + 2 \in 1..m /\ p + 3 \in 1..m /\ p + 4 \in 1..m
        /\ p + 5 \in 1..m
    BY <1>1, <1>3
  <2> QED  BY <1>1, <2>1, Zenon
<1> DEFINE account2 == AccountAt(stream, p)
           code2 == CodeAt(stream, p)
<1>6. account2 = TextEnd(stream, app) /\ code2 = TextEnd(stream, account2)
  BY Zenon DEF AccountAt, CodeAt
<1>7. app \in Nat /\ app >= 1
  BY <1>4
<1> HIDE DEF app, account, code, account2, code2, m
<1>8. /\ Text(stream, app) = Text(cut, app) /\ account2 = account
      /\ account \in Nat /\ account >= 1
  BY <1>2, <1>3, <1>4, <1>6, <1>7, Zenon
<1>9. /\ Text(stream, account2) = Text(cut, account) /\ code2 = code
      /\ code \in Nat /\ code >= 1
  BY <1>2, <1>3, <1>4, <1>6, <1>8, Zenon
<1>10. has => /\ Text(stream, code2) = Text(cut, code)
              /\ TextEnd(stream, code2) = TextEnd(cut, code)
  BY <1>2, <1>3, <1>9, Zenon
<1>11. EntryEnd(stream, p, FALSE) = EntryEnd(cut, p, FALSE)
  BY <1>5, <1>9, <1>10, Zenon DEF EntryEnd, code, code2
<1>12. (IF has THEN <<Text(stream, code2)>> ELSE NoCode) = IF has THEN <<Text(cut, code)>> ELSE NoCode
  BY <1>10, Zenon
<1> HIDE DEF has
<1>13. ParseOneEntry(stream, p, FALSE) = ParseOneEntry(cut, p, FALSE)
  BY <1>5, <1>8, <1>9, <1>12, Zenon DEF ParseOneEntry, app, account, code, account2, code2, has
<1> QED  BY <1>11, <1>13, Zenon DEF stream

\* What is read of the beginning of a page is its first entries.
LEMMA CutIsRead ==
  ASSUME NEW es \in Seq(KeyEntry), NEW stream, NEW at, Laid(es, stream, at),
         NEW cut \in Seq(Nat), NEW rest \in Seq(Nat), stream = cut \o rest,
         EntriesFrom(cut)[1].ok
  PROVE  \E i \in 0..Len(es) : EntriesFrom(cut)[1].value = SubSeq(es, 1, i)
<1> DEFINE n == Len(es)
           m == Len(cut)
           Q == EntriesFrom(cut)
           Reads(j) == at[j] <= m + 1 /\ Q[at[j]].ok => \E i \in j - 1..n : Q[at[j]].value = SubSeq(es, j, i)
           T == {k \in Nat : k <= n => Reads((n + 1) - k)}
<1>1. n \in Nat /\ m \in Nat /\ Len(rest) \in Nat /\ Len(stream) = m + Len(rest)
  BY LenProperties, JoinedIs, Zenon
<1>2. /\ at[1] = 1 /\ at[n + 1] = Len(stream) + 1
      /\ \A j \in 1..n : at[j] \in 1..Len(stream) /\ EntryIsAt(stream, at[j], FALSE, es[j], at[j + 1])
  BY Zenon DEF Laid
<1>3. \A p \in 1..m + 1 : Q[p] = RestStep(cut, Q, p)
  BY EntriesFromIs, Zenon
<1> HIDE DEF Q
\* where the beginning ends
<1>4. ASSUME NEW j \in 1..n + 1, at[j] = m + 1 PROVE Reads(j)
  <2>1. at[j] \in 1..m + 1 /\ at[j] > m
    BY <1>1, <1>4
  <2>2. Q[at[j]] = Valid(<<>>)
    BY <1>3, <2>1, Zenon DEF RestStep
  <2>3. Q[at[j]].value = <<>>
    BY <2>2, ValidIs, Zenon
  <2>4. j - 1 \in j - 1..n /\ j \in Int /\ j - 1 \in Int /\ j - 1 < j
    BY <1>1
  <2>5. SubSeq(es, j, j - 1) = <<>>
    BY <2>4, SubSeqEmpty, Zenon
  <2> QED  BY <2>3, <2>4, <2>5, Zenon
<1>5. 0 \in T
  <2> SUFFICES Reads((n + 1) - 0)
    BY <1>1
  <2>1. (n + 1) - 0 = n + 1 /\ n + 1 \in 1..n + 1
    BY <1>1
  <2>2. ASSUME at[n + 1] <= m + 1 PROVE at[n + 1] = m + 1
    BY <1>1, <1>2, <2>2
  <2> HIDE DEF n
  <2>3. Reads(n + 1)
    BY <1>4, <2>1, <2>2, Zenon
  <2> QED  BY <2>1, <2>3, Zenon
<1>6. ASSUME NEW k \in Nat, k \in T PROVE k + 1 \in T
  <2> SUFFICES ASSUME k + 1 <= n PROVE Reads((n + 1) - (k + 1))
    OBVIOUS
  <2> DEFINE j == (n + 1) - (k + 1)
  <2>1. j \in 1..n /\ j \in 1..n + 1 /\ j + 1 = (n + 1) - k /\ k <= n /\ (j + 1) - 1 = j
    BY <1>1
  <2>2. Reads((n + 1) - k)
    BY <1>6, <2>1, Zenon
  <2> HIDE DEF j
  <2>3. Reads(j + 1)
    BY <2>1, <2>2, Zenon
  <2>4. at[j] \in 1..Len(stream) /\ EntryIsAt(stream, at[j], FALSE, es[j], at[j + 1])
    BY <1>2, <2>1, Zenon
  <2>5. CASE ~(at[j] <= m)
    <3>1. at[j] <= m + 1 => at[j] = m + 1
      BY <1>1, <2>4, <2>5
    <3>2. Reads(j)
      BY <1>4, <2>1, <3>1, Zenon
    <3> QED  BY <3>2, Zenon DEF j
  <2>6. CASE at[j] <= m
    <3> SUFFICES ASSUME Q[at[j]].ok
                 PROVE  \E i \in j - 1..n : Q[at[j]].value = SubSeq(es, j, i)
      BY Zenon DEF j
    <3>1. at[j] \in 1..m /\ at[j] \in 1..m + 1 /\ ~(at[j] > m)
      BY <1>1, <2>4, <2>6
    <3>2. Q[at[j]] = RestStep(cut, Q, at[j])
      BY <1>3, <3>1, Zenon
    <3>3. IsEntry(cut, at[j], FALSE) /\ Q[EntryEnd(cut, at[j], FALSE)].ok
      BY <3>1, <3>2, ValidIs, Zenon DEF RestStep
    <3>4. /\ ParseOneEntry(cut, at[j], FALSE) = es[j]
          /\ EntryEnd(cut, at[j], FALSE) = at[j + 1]
      BY <2>4, <3>1, <3>3, CutEntry, Zenon DEF EntryIsAt
    <3>5. at[j + 1] <= m + 1
      <4>1. EntryEnd(cut, at[j], FALSE) \in at[j] + 1..m + 1
        BY <3>1, <3>3, EntryEndIs, Zenon
      <4>2. at[j + 1] \in at[j] + 1..m + 1
        BY <3>4, <4>1, Zenon
      <4>3. at[j] \in Nat
        BY <1>1, <3>1
      <4> HIDE DEF m
      <4> QED  BY <1>1, <4>2, <4>3
    <3>6. PICK i \in (j + 1) - 1..n : Q[at[j + 1]].value = SubSeq(es, j + 1, i)
      BY <2>3, <3>3, <3>4, <3>5, Zenon
    <3>7. Q[at[j]].value = <<es[j]>> \o SubSeq(es, j + 1, i)
      <4>1. Q[at[j]] = Valid(<<es[j]>> \o Q[at[j + 1]].value)
        BY <3>1, <3>2, <3>3, <3>4, Zenon DEF RestStep
      <4> QED  BY <3>6, <4>1, ValidIs, Zenon
    <3>8. i \in j..n /\ i \in j - 1..n
      BY <1>1, <2>1
    <3>9. i \in j..Len(es)
      BY <3>8
    <3>10. SubSeq(es, j, i) = <<es[j]>> \o SubSeq(es, j + 1, i)
      BY <2>1, <3>9, SubSeqRecursiveFirst, Zenon
    <3> QED  BY <3>7, <3>8, <3>10, Zenon
  <2> QED  BY <2>5, <2>6
<1>7. n \in T
  <2> HIDE DEF T
  <2> QED  BY <1>1, <1>5, <1>6, Counting, Zenon
<1>8. (n + 1) - n = 1 /\ n <= n /\ 1 - 1 = 0 /\ at[1] <= m + 1
  BY <1>1, <1>2
<1>9. Reads((n + 1) - n)
  BY <1>7, <1>8, Zenon
<1>10. Reads(1)
  BY <1>8, <1>9, Zenon
<1> QED  BY <1>2, <1>8, <1>10, Zenon DEF Q

\* What the key may put on a page.
OnPage(es) == es \in Seq(KeyEntry) /\ \A i \in 1..Len(es) : (es[i].code # NoCode) = ShowsCode(es[i])
BytesOf(es) == FlattenSeq([i \in DOMAIN es |-> EntryBytes(es[i])])

LEMMA PageLaid ==
  ASSUME NEW es, OnPage(es), es # <<>>
  PROVE  \E at : Laid(es, BytesOf(es), at)
<1> DEFINE n == Len(es)
           seqs == [i \in DOMAIN es |-> EntryBytes(es[i])]
           b == BytesOf(es)
<1>1. n \in Nat \ {0} /\ DOMAIN es = 1..n
  <2>1. es \in Seq(KeyEntry)
    BY Zenon DEF OnPage
  <2> QED  BY <2>1, LenProperties, EmptySeq
<1>2. ASSUME NEW i \in 1..n
      PROVE  es[i] \in KeyEntry /\ (es[i].code # NoCode) = (FALSE \/ ShowsCode(es[i]))
  BY <1>2, ElementOfSeq, Zenon DEF OnPage
<1>3. \A i \in 1..n : seqs[i] = EntryBytes(es[i]) /\ seqs[i] \in Seq(Nat)
  <2>1. \A i \in 1..n : seqs[i] = EntryBytes(es[i])
    BY <1>1, Zenon
  <2> HIDE DEF seqs
  <2> QED  BY <1>2, <2>1, EntryBytesSeq, Zenon
<1>4. Len(seqs) = n
  <2>1. seqs = [i \in 1..n |-> EntryBytes(es[i])]
    BY <1>1, Zenon
  <2> DEFINE item(i) == EntryBytes(es[i])
             s == [i \in 1..n |-> item(i)]
  <2>2. \A i \in 1..n : item(i) \in Seq(Nat)
    BY <1>2, EntryBytesSeq, Zenon
  <2> HIDE DEF item, n
  <2>3. Len(s) = n
    BY <1>1, <2>2
  <2> HIDE DEF s
  <2> QED  BY <2>1, <2>3, Zenon DEF s, item
<1>5. b = FlattenSeq(seqs)
  BY Zenon DEF BytesOf
<1> HIDE DEF seqs, b
<1>6. PICK f : PrefixesOf(seqs, n, f) /\ FlattenSeq(seqs) = f[n]
  <2> HIDE DEF n
  <2> QED  BY <1>1, <1>3, <1>4, FlattenIs, Zenon
<1>7. /\ f[1] = seqs[1] /\ \A i \in 1..n : f[i] \in Seq(Nat)
      /\ \A i \in 1..n : i # n => f[i + 1] = f[i] \o seqs[i + 1]
  BY <1>6, Zenon DEF PrefixesOf
<1> DEFINE none == <<>>
           pre(j) == IF j = 1 THEN none ELSE f[j - 1]
           at == [j \in 1..n + 1 |-> Len(pre(j)) + 1]
<1>8. none \in Seq(Nat) /\ Len(none) = 0
  OBVIOUS
<1> HIDE DEF none, n
<1>9. ASSUME NEW j \in 1..n
      PROVE  pre(j) \in Seq(Nat) /\ f[j] = pre(j) \o seqs[j] /\ pre(j + 1) = f[j]
  <2>1. pre(j + 1) = f[j]
    BY <1>1
  <2>2. CASE j = 1
    <3>1. none \o seqs[1] = seqs[1]
      <4>1. 1 \in 1..n
        BY <1>1
      <4> QED  BY <1>3, <4>1, ConcatEmptySeq, Zenon DEF none
    <3>2. pre(1) = none
      BY Zenon
    <3> HIDE DEF pre
    <3> QED  BY <1>7, <1>8, <2>1, <2>2, <3>1, <3>2, Zenon
  <2>3. CASE j # 1
    <3>1. j - 1 \in 1..n /\ j - 1 # n /\ (j - 1) + 1 = j
      BY <1>1, <2>3
    <3>2. pre(j) = f[j - 1]
      BY <2>3, Zenon
    <3> HIDE DEF pre
    <3>3. f[(j - 1) + 1] = f[j - 1] \o seqs[(j - 1) + 1]
      BY <1>7, <3>1, Zenon
    <3> QED  BY <1>7, <2>1, <3>1, <3>2, <3>3, Zenon
  <2> QED  BY <2>2, <2>3
\* what stands behind the j-th entry
<1>10. \A j \in 1..n : \E post \in Seq(Nat) : b = f[j] \o post
  <2> DEFINE Ends(j) == \E post \in Seq(Nat) : b = f[j] \o post
             T == {k \in Nat : k < n => Ends(n - k)}
  <2>1. 0 \in T
    <3>1. n \in 1..n /\ n - 0 = n
      BY <1>1
    <3>2. f[n] \o none = f[n]
      BY <1>7, <3>1, ConcatEmptySeq, Zenon DEF none
    <3>3. Ends(n - 0)
      BY <1>5, <1>6, <1>8, <3>1, <3>2, Zenon
    <3> HIDE DEF Ends
    <3> QED  BY <3>3
  <2>2. ASSUME NEW k \in Nat, k \in T PROVE k + 1 \in T
    <3> SUFFICES ASSUME k + 1 < n PROVE Ends(n - (k + 1))
      OBVIOUS
    <3> DEFINE j == n - (k + 1)
    <3>1. j \in 1..n /\ j # n /\ j + 1 = n - k /\ k < n /\ j + 1 \in 1..n
      BY <1>1
    <3>2. Ends(n - k)
      BY <2>2, <3>1, Zenon
    <3> HIDE DEF j
    <3>3. PICK post \in Seq(Nat) : b = f[j + 1] \o post
      BY <3>1, <3>2, Zenon
    <3> DEFINE s == seqs[j + 1]
               g == f[j]
    <3>4. f[j + 1] = g \o s /\ s \in Seq(Nat) /\ g \in Seq(Nat)
      BY <1>3, <1>7, <3>1, Zenon
    <3> HIDE DEF s, g
    <3>5. (g \o s) \o post = g \o (s \o post) /\ s \o post \in Seq(Nat)
      <4>1. (g \o s) \o post = g \o (s \o post)
        BY <3>4, RejoinedIs, Zenon
      <4>2. s \o post \in Seq(Nat)
        BY <3>4, JoinedIs, Zenon
      <4> QED  BY <4>1, <4>2, Zenon
    <3>6. b = g \o (s \o post)
      BY <3>3, <3>4, <3>5, Zenon
    <3>7. Ends(j)
      BY <3>5, <3>6, Zenon DEF g
    <3> QED  BY <3>7, Zenon DEF j
  <2>3. \A k \in Nat : k \in T
    <3> HIDE DEF T
    <3> QED  BY <2>1, <2>2, Counting, Zenon
  <2>4. \A j \in 1..n : n - j \in Nat /\ n - j < n /\ n - (n - j) = j
    BY <1>1
  <2> QED
    <3> SUFFICES ASSUME NEW j \in 1..n PROVE Ends(j)
      BY Zenon
    <3>1. n - j \in T /\ n - j < n /\ n - (n - j) = j
      BY <2>3, <2>4, Zenon
    <3>2. Ends(n - (n - j))
      BY <3>1, Zenon
    <3> QED  BY <3>1, <3>2, Zenon
<1>11. \A j \in 1..n + 1 : at[j] = Len(pre(j)) + 1
  BY Zenon
<1>12. \A j \in 1..n : j \in 1..n + 1 /\ j + 1 \in 1..n + 1
  BY <1>1
<1> HIDE DEF at
<1>13. ASSUME NEW j \in 1..n
       PROVE  b \in Seq(Nat) /\ at[j] \in 1..Len(b) /\ EntryIsAt(b, at[j], FALSE, es[j], at[j + 1])
  <2>1. PICK post \in Seq(Nat) : b = f[j] \o post
    BY <1>10, Zenon
  <2> DEFINE s == pre(j)
             e == es[j]
  <2>2. s \in Seq(Nat) /\ f[j] = s \o EntryBytes(e) /\ at[j] = Len(s) + 1 /\ at[j + 1] = Len(f[j]) + 1
    <3> HIDE DEF pre
    <3> QED  BY <1>3, <1>9, <1>11, <1>12, Zenon
  <2>3. e \in KeyEntry /\ (e.code # NoCode) = (FALSE \/ ShowsCode(e))
    BY <1>2, Zenon
  <2> HIDE DEF s, e
  <2>4. /\ (s \o EntryBytes(e)) \o post \in Seq(Nat)
        /\ EntryIsAt((s \o EntryBytes(e)) \o post, Len(s) + 1, FALSE, e, Len(s \o EntryBytes(e)) + 1)
    BY <2>2, <2>3, EntryAfter, Zenon
  <2>5. b \in Seq(Nat) /\ EntryIsAt(b, at[j], FALSE, e, at[j + 1])
    BY <2>1, <2>2, <2>4, Zenon
  <2>6. at[j] \in 1..Len(b)
    <3>1. Len(s) \in Nat /\ Len(b) \in Nat
      BY <2>2, <2>5, LenProperties, Zenon
    <3>2. at[j] + 6 <= Len(b)
      BY <2>5, Zenon DEF EntryIsAt, IsEntry
    <3> QED  BY <2>2, <3>1, <3>2
  <2> QED  BY <2>5, <2>6, Zenon DEF e
<1>14. at[1] = 1 /\ at[n + 1] = Len(b) + 1
  <2>1. 1 \in 1..n + 1 /\ n + 1 \in 1..n + 1 /\ n \in 1..n /\ 0 + 1 = 1
    BY <1>1
  <2>2. pre(1) = none
    BY Zenon
  <2> HIDE DEF pre
  <2>3. pre(n + 1) = b
    BY <1>5, <1>6, <1>9, <2>1, Zenon
  <2> QED  BY <1>8, <1>11, <2>1, <2>2, <2>3, Zenon
<1>15. b \in Seq(Nat)
  <2>1. 1 \in 1..n
    BY <1>1
  <2> QED  BY <1>13, <2>1, Zenon
<1>16. Laid(es, b, at)
  BY <1>13, <1>14, <1>15, Zenon DEF Laid, n
<1> QED  BY <1>16, Zenon DEF b

\* A page's bytes with the mark that more pages follow.
Marked(b, more) == [b EXCEPT ![1] = IF more THEN @ + 128 ELSE @]

Plain(b) == b \in Seq(Nat) /\ b # <<>> /\ b[1] < 128
HasMark(data, b, more) ==
  /\ data \in Seq(Nat) /\ Len(data) = Len(b)
  /\ data[1] % 128 = b[1] /\ (data[1] >= 128) = more
  /\ \A i \in 1..Len(b) : i # 1 => data[i] = b[i]
\* The beginning of a page, with its mark taken off.
LosesMark(got, cut, more) ==
  got # <<>> /\ (got[1] >= 128) = more /\ <<got[1] % 128>> \o Tail(got) = cut

LEMMA MarkedIs ==
  ASSUME NEW b, Plain(b), NEW more \in BOOLEAN
  PROVE  HasMark(Marked(b, more), b, more)
<1> DEFINE data == Marked(b, more)
           first == IF more THEN b[1] + 128 ELSE b[1]
<1>1. /\ b \in Seq(Nat) /\ b[1] < 128
      /\ Len(b) \in Nat /\ 1 \in 1..Len(b) /\ DOMAIN b = 1..Len(b)
  BY LenProperties, EmptySeq DEF Plain
<1>2. b[1] \in Nat
  BY <1>1, ElementOfSeq, Zenon
<1>8. \A x \in Nat : x < 128 => (x + 128) % 128 = x /\ x + 128 >= 128 /\ x + 128 \in Nat
  OBVIOUS
<1>9. \A x \in Nat : x < 128 => x % 128 = x /\ ~(x >= 128)
  OBVIOUS
<1>3. first \in Nat /\ first % 128 = b[1] /\ (first >= 128) = more
  <2>1. CASE more
    <3>1. first = b[1] + 128
      BY <2>1, Zenon
    <3>2. (b[1] + 128) % 128 = b[1] /\ b[1] + 128 >= 128 /\ b[1] + 128 \in Nat
      BY <1>1, <1>2, <1>8
    <3> HIDE DEF first
    <3> QED  BY <2>1, <3>1, <3>2
  <2>2. CASE ~more
    <3>1. first = b[1]
      BY <2>2, Zenon
    <3>2. b[1] % 128 = b[1] /\ ~(b[1] >= 128)
      BY <1>1, <1>2, <1>9
    <3> HIDE DEF first
    <3> QED  BY <1>2, <2>2, <3>1, <3>2
  <2> QED  BY <2>1, <2>2
<1>4. data = [b EXCEPT ![1] = first]
  BY DEF Marked
<1> HIDE DEF data, first
<1>5. data \in Seq(Nat) /\ Len(data) = Len(b) /\ data[1] = first
  BY <1>1, <1>3, <1>4
<1>6. \A i \in 1..Len(b) : i # 1 => data[i] = b[i]
  BY <1>1, <1>4
<1>7. data[1] % 128 = b[1] /\ (data[1] >= 128) = more
  BY <1>3, <1>5
<1> QED  BY <1>5, <1>6, <1>7 DEF data, HasMark

LEMMA UnmarkedIs ==
  ASSUME NEW b, Plain(b), NEW more \in BOOLEAN, NEW m \in 1..Len(b)
  PROVE  LosesMark(SubSeq(Marked(b, more), 1, m), SubSeq(b, 1, m), more)
<1> DEFINE data == Marked(b, more)
           got == SubSeq(data, 1, m)
           cut == SubSeq(b, 1, m)
           mark == got[1] % 128
           one == <<mark>>
           x == one \o Tail(got)
<1>0. HasMark(data, b, more)
  BY MarkedIs, Zenon
<1>1. /\ data \in Seq(Nat) /\ Len(data) = Len(b) /\ data[1] % 128 = b[1] /\ (data[1] >= 128) = more
      /\ \A i \in 1..Len(b) : i # 1 => data[i] = b[i]
  <2> HIDE DEF data
  <2> QED  BY <1>0 DEF HasMark
<1>15. b \in Seq(Nat)
  BY Zenon DEF Plain
<1> HIDE DEF data
<1>2. /\ Len(b) \in Nat /\ m \in Nat /\ 1 \in 1..m /\ 1 \in Int /\ m \in Int
      /\ \A i \in 1..m : i \in 1..Len(b) /\ (1 + i) - 1 = i
  BY <1>15, LenProperties
<1>3. \A s \in Seq(Nat) : Len(s) = Len(b) =>
        /\ SubSeq(s, 1, m) \in Seq(Nat) /\ Len(SubSeq(s, 1, m)) = m
        /\ \A i \in 1..m : SubSeq(s, 1, m)[i] = s[i]
  <2> SUFFICES ASSUME NEW s \in Seq(Nat), Len(s) = Len(b)
               PROVE  /\ SubSeq(s, 1, m) \in Seq(Nat) /\ Len(SubSeq(s, 1, m)) = m
                      /\ \A i \in 1..m : SubSeq(s, 1, m)[i] = s[i]
    BY Zenon
  <2>1. \A i \in 1..m : s[i] \in Nat
    BY <1>2, ElementOfSeq, Zenon
  <2>2. /\ SubSeq(s, 1, m) \in Seq(Nat)
        /\ Len(SubSeq(s, 1, m)) = IF 1 <= m THEN (m - 1) + 1 ELSE 0
        /\ \A i \in 1..(m - 1) + 1 : SubSeq(s, 1, m)[i] = s[(1 + i) - 1]
    BY <1>2, <2>1, SubSeqProperties
  <2>3. 1 <= m /\ (m - 1) + 1 = m
    BY <1>2
  <2> QED  BY <1>2, <2>2, <2>3, Zenon
<1>4. /\ got \in Seq(Nat) /\ Len(got) = m /\ \A i \in 1..m : got[i] = data[i]
      /\ cut \in Seq(Nat) /\ Len(cut) = m /\ \A i \in 1..m : cut[i] = b[i]
  BY <1>1, <1>3, <1>15
<1> HIDE DEF got, cut
<1>5. got # <<>>
  BY <1>2, <1>4
<1>6. /\ Tail(got) \in Seq(Nat) /\ Len(Tail(got)) = m - 1
      /\ \A i \in 1..m - 1 : Tail(got)[i] = got[i + 1]
  BY <1>4, <1>5, HeadTailProperties
<1>7. mark = b[1] /\ b[1] = cut[1] /\ mark \in Nat
  <2>1. got[1] = data[1] /\ cut[1] = b[1]
    BY <1>2, <1>4, Zenon
  <2>2. cut[1] \in Nat
    BY <1>2, <1>4, ElementOfSeq, Zenon
  <2> QED  BY <1>1, <2>1, <2>2, Zenon
<1> HIDE DEF mark
<1>8. one \in Seq(Nat) /\ Len(one) = 1 /\ one[1] = mark
  BY <1>7, SingletonIs, Zenon
<1> HIDE DEF one
<1>9. x \in Seq(Nat) /\ Len(x) = Len(one) + Len(Tail(got))
  BY <1>6, <1>8, JoinedIs, Zenon
<1>10. ASSUME NEW i \in 1..m PROVE x[i] = cut[i]
  <2>1. CASE i = 1
    <3>1. 1 \in 1..Len(one)
      BY <1>8
    <3>2. x[1] = one[1]
      BY <1>6, <1>8, <3>1, LeftOf, Zenon
    <3> QED  BY <1>7, <1>8, <2>1, <3>2, Zenon
  <2>2. CASE i # 1
    <3> DEFINE k == i - 1
    <3>1. k \in 1..m - 1 /\ k + 1 = i /\ 1 + k = i /\ i \in 1..Len(b)
      BY <1>2, <2>2
    <3> HIDE DEF k
    <3>2. k \in 1..Len(Tail(got))
      BY <1>6, <3>1, Zenon
    <3>3. x[Len(one) + k] = Tail(got)[k]
      BY <1>6, <1>8, <3>2, RightOf, Zenon
    <3>4. x[i] = Tail(got)[k]
      BY <1>8, <3>1, <3>3, Zenon
    <3>5. Tail(got)[k] = got[i]
      BY <1>6, <3>1, Zenon
    <3>6. got[i] = data[i] /\ data[i] = b[i] /\ cut[i] = b[i]
      BY <1>1, <1>4, <2>2, <3>1, Zenon
    <3> QED  BY <3>4, <3>5, <3>6, Zenon
  <2> QED  BY <2>1, <2>2
<1> HIDE DEF x
<1>11. Len(x) = m
  BY <1>2, <1>6, <1>8, <1>9
<1>12. x = cut
  BY <1>4, <1>9, <1>10, <1>11, SeqEqual, Zenon
<1>13. (got[1] >= 128) = more
  <2>1. got[1] = data[1]
    BY <1>2, <1>4, Zenon
  <2> QED  BY <1>1, <2>1
<1>14. LosesMark(got, cut, more)
  BY <1>5, <1>12, <1>13 DEF x, one, mark, LosesMark
<1> QED  BY <1>14, Zenon DEF got, cut, data

\* A page's bytes without the mark: one byte that is no entry, or the entries.
PageIs(es, b) ==
  /\ Plain(b)
  /\ es = <<>> => b = <<0>>
  /\ es # <<>> => \E at : Laid(es, b, at)

LEMMA PageBytesAre ==
  ASSUME NEW c, OnPage(c.entries), c.more_pages \in BOOLEAN
  PROVE  \E b : PageIs(c.entries, b) /\ PageBytes(c) = Marked(b, c.more_pages)
<1> DEFINE es == c.entries
           bytes == BytesOf(es)
           b == IF bytes = <<>> THEN <<0>> ELSE bytes
<1>1. PageBytes(c) = Marked(b, c.more_pages)
  BY Zenon DEF PageBytes, BytesOf, Marked
<1>2. CASE es = <<>>
  <2>1. bytes = <<>>
    <3> DEFINE none == [i \in DOMAIN es |-> EntryBytes(es[i])]
    <3>1. DOMAIN es = {}
      BY <1>2
    <3>2. none = <<>> /\ Len(none) = 0
      BY <3>1
    <3> HIDE DEF none
    <3>3. FlattenSeq(none) = <<>>
      BY <3>2, Zenon DEF FlattenSeq
    <3> QED  BY <3>3, Zenon DEF BytesOf, none
  <2>2. b = <<0>>
    BY <2>1, Zenon
  <2>3. Plain(<<0>>)
    BY DEF Plain
  <2> HIDE DEF es, b
  <2>4. PageIs(es, b)
    BY <1>2, <2>2, <2>3, Zenon DEF PageIs
  <2> QED  BY <1>1, <2>4, Zenon DEF es
<1>3. CASE es # <<>>
  <2>1. PICK at : Laid(es, bytes, at)
    BY <1>3, PageLaid, Zenon
  <2> HIDE DEF es, bytes
  <2>2. bytes \in Seq(Nat) /\ at[1] = 1
    BY <2>1, Zenon DEF Laid
  <2>3. 1 \in 1..Len(es)
    <3>1. es \in Seq(KeyEntry)
      BY Zenon DEF OnPage, es
    <3> QED  BY <1>3, <3>1, LenProperties, EmptySeq
  <2>4. 1 \in 1..Len(bytes) /\ IsEntry(bytes, 1, FALSE)
    BY <2>1, <2>2, <2>3, Zenon DEF Laid, EntryIsAt
  <2>5. bytes # <<>>
    BY <2>2, <2>4
  <2>6. bytes[1] \in {0, 1}
    BY <2>4, Zenon DEF IsEntry
  <2>7. bytes[1] < 128
    BY <2>6
  <2>8. b = bytes /\ Plain(bytes)
    BY <2>2, <2>5, <2>7 DEF Plain
  <2> HIDE DEF b
  <2>9. PageIs(es, b)
    BY <1>3, <2>1, <2>8, Zenon DEF PageIs
  <2> QED  BY <1>1, <2>9, Zenon DEF es
<1> QED  BY <1>2, <1>3, Zenon

\* The host's parser on the beginning of a page.
ReadingOf(cut, more) ==
  IF EntriesFrom(cut)[1].ok THEN Valid([entries |-> EntriesFrom(cut)[1].value, more_pages |-> more])
  ELSE Invalid

LEMMA ParseCut ==
  ASSUME NEW b, Plain(b), NEW more \in BOOLEAN, NEW m \in 1..Len(b)
  PROVE  ParseEnumPage(SubSeq(Marked(b, more), 1, m)) = ReadingOf(SubSeq(b, 1, m), more)
<1> DEFINE got == SubSeq(Marked(b, more), 1, m)
           cut == SubSeq(b, 1, m)
<1>0. LosesMark(got, cut, more)
  BY UnmarkedIs, Zenon
<1> HIDE DEF got, cut
<1>1. /\ got # <<>> /\ (got[1] >= 128) = more
      /\ <<got[1] % 128>> \o Tail(got) = cut
  BY <1>0 DEF LosesMark
<1>2. ParseEnumPage(got) = IF EntriesFrom(cut)[1].ok
                           THEN Valid([entries |-> EntriesFrom(cut)[1].value, more_pages |-> got[1] >= 128])
                           ELSE Invalid
  BY <1>1 DEF ParseEnumPage
<1>3. ParseEnumPage(got) = ReadingOf(cut, more)
  BY <1>1, <1>2, Zenon DEF ReadingOf
<1> QED  BY <1>3, Zenon DEF got, cut

LEMMA NoEntry == EntriesFrom(<<0>>)[1] = Invalid
<1> DEFINE s == <<0>>
<1>1. s \in Seq(Nat) /\ Len(s) = 1 /\ 1 \in 1..Len(s) + 1 /\ ~(1 > Len(s)) /\ ~(1 + 6 <= Len(s))
  OBVIOUS
<1> HIDE DEF s
<1>2. ~IsEntry(s, 1, FALSE)
  BY <1>1, Zenon DEF IsEntry
<1>3. EntriesFrom(s)[1] = RestStep(s, EntriesFrom(s), 1)
  BY <1>1, EntriesFromIs, Zenon
<1>4. EntriesFrom(s)[1] = Invalid
  BY <1>1, <1>2, <1>3, Zenon DEF RestStep
<1> QED  BY <1>4, Zenon DEF s

LEMMA PageAnswer ==
  ASSUME NEW c, c = [entries |-> c.entries, more_pages |-> c.more_pages],
         OnPage(c.entries), c.more_pages \in BOOLEAN
  PROVE  ParseEnumPage(PageBytes(c)) = IF c.entries = <<>> THEN Invalid ELSE Valid(c)
<1> DEFINE es == c.entries
           more == c.more_pages
<1>1. PICK b : PageIs(es, b) /\ PageBytes(c) = Marked(b, more)
  BY PageBytesAre, Zenon
<1>2. Plain(b) /\ b \in Seq(Nat) /\ b # <<>>
  BY <1>1 DEF PageIs, Plain
<1>3. Len(b) \in 1..Len(b)
  BY <1>2, LenProperties, EmptySeq
<1>4. ParseEnumPage(Marked(b, more)) = ReadingOf(b, more)
  <2>1. ParseEnumPage(SubSeq(Marked(b, more), 1, Len(b))) = ReadingOf(SubSeq(b, 1, Len(b)), more)
    BY <1>2, <1>3, ParseCut, Zenon
  <2>2. SubSeq(b, 1, Len(b)) = b
    BY <1>2, SubSeqFull, Zenon
  <2>3. Marked(b, more) \in Seq(Nat) /\ Len(Marked(b, more)) = Len(b)
    <3>1. HasMark(Marked(b, more), b, more)
      BY <1>2, MarkedIs, Zenon
    <3> QED  BY <3>1, Zenon DEF HasMark
  <2>4. SubSeq(Marked(b, more), 1, Len(b)) = Marked(b, more)
    BY <2>3, SubSeqFull, Zenon
  <2> QED  BY <2>1, <2>2, <2>4, Zenon
<1>5. CASE es = <<>>
  <2>1. EntriesFrom(b)[1] = Invalid
    BY <1>1, <1>5, NoEntry, Zenon DEF PageIs
  <2>2. ReadingOf(b, more) = Invalid
    BY <2>1, ValidIs, Zenon DEF ReadingOf
  <2> QED  BY <1>1, <1>4, <1>5, <2>2, Zenon
<1>6. CASE es # <<>>
  <2>1. PICK at : Laid(es, b, at)
    BY <1>1, <1>6, Zenon DEF PageIs
  <2>2. es \in Seq(KeyEntry)
    BY Zenon DEF OnPage
  <2> HIDE DEF es, more
  <2>3. EntriesFrom(b)[1] = Valid(es)
    BY <2>1, <2>2, WholeIsRead, Zenon
  <2>4. ReadingOf(b, more) = Valid([entries |-> es, more_pages |-> more])
    BY <2>3, ValidIs, Zenon DEF ReadingOf
  <2>5. c = [entries |-> es, more_pages |-> more]
    BY Zenon DEF es, more
  <2> QED  BY <1>1, <1>4, <1>6, <2>4, <2>5, Zenon DEF es
<1> QED  BY <1>5, <1>6, Zenon

LEMMA PrefixIs ==
  ASSUME NEW es \in Seq(KeyEntry), NEW i \in 0..Len(es)
  PROVE  IsPrefix(SubSeq(es, 1, i), es)
<1> DEFINE s == SubSeq(es, 1, i)
<1>1. Len(es) \in Nat /\ i \in Nat /\ 1 \in Int /\ i \in Int /\ i <= Len(es)
  BY LenProperties
<1>2. \A k \in 1..i : es[k] \in KeyEntry
  <2>1. \A k \in 1..i : k \in 1..Len(es)
    BY <1>1
  <2> QED  BY <2>1, ElementOfSeq, Zenon
<1>3. s \in Seq(KeyEntry) /\ Len(s) = IF 1 <= i THEN (i - 1) + 1 ELSE 0
  BY <1>1, <1>2, SubSeqProperties
<1>4. (IF 1 <= i THEN (i - 1) + 1 ELSE 0) = i
  BY <1>1
<1> HIDE DEF s
<1>5. Len(s) = i
  BY <1>3, <1>4
<1>6. SubSeq(s, 1, Len(s)) = s
  BY <1>3, SubSeqFull, Zenon
<1>7. IsPrefix(s, es)
  BY <1>1, <1>5, <1>6, Zenon DEF IsPrefix, s
<1> QED  BY <1>7, Zenon DEF s

LEMMA CutAnswer ==
  ASSUME NEW c, OnPage(c.entries), c.more_pages \in BOOLEAN, NEW m \in 0..Len(PageBytes(c)),
         ParseEnumPage(SubSeq(PageBytes(c), 1, m)).ok
  PROVE  IsPrefix(ParseEnumPage(SubSeq(PageBytes(c), 1, m)).value.entries, c.entries)
<1> DEFINE es == c.entries
           more == c.more_pages
           got == SubSeq(PageBytes(c), 1, m)
<1>1. PICK b : PageIs(es, b) /\ PageBytes(c) = Marked(b, more)
  BY PageBytesAre, Zenon
<1> DEFINE cut == SubSeq(b, 1, m)
           rest == SubSeq(b, m + 1, Len(b))
<1>2. Plain(b) /\ b \in Seq(Nat)
  BY <1>1 DEF PageIs, Plain
<1>3. Len(PageBytes(c)) = Len(b)
  <2>1. HasMark(Marked(b, more), b, more)
    BY <1>2, MarkedIs, Zenon
  <2> QED  BY <1>1, <2>1, Zenon DEF HasMark
<1>4. m # 0
  <2> SUFFICES ASSUME m = 0 PROVE FALSE
    OBVIOUS
  <2>1. 1 \in Int /\ 0 \in Int /\ 0 < 1
    OBVIOUS
  <2>2. got = <<>>
    BY <2>1, SubSeqEmpty, Zenon
  <2>3. ParseEnumPage(got) = Invalid
    BY <2>2, Zenon DEF ParseEnumPage
  <2> QED  BY <2>3, ValidIs, Zenon
<1>5. m \in 1..Len(b)
  BY <1>3, <1>4
<1>6. ParseEnumPage(got) = ReadingOf(cut, more)
  BY <1>1, <1>2, <1>5, ParseCut, Zenon
<1> HIDE DEF got
<1>7. /\ EntriesFrom(cut)[1].ok
      /\ ParseEnumPage(got) = Valid([entries |-> EntriesFrom(cut)[1].value, more_pages |-> more])
  BY <1>6, ValidIs, Zenon DEF ReadingOf, got
<1>8. ParseEnumPage(got).value.entries = EntriesFrom(cut)[1].value
  <2> DEFINE read == EntriesFrom(cut)[1].value
             record == [entries |-> read, more_pages |-> more]
  <2> HIDE DEF read
  <2>1. record.entries = read
    OBVIOUS
  <2> HIDE DEF record
  <2>2. ParseEnumPage(got) = Valid(record)
    BY <1>7, Zenon DEF record, read
  <2> QED  BY <2>1, <2>2, ValidIs, Zenon DEF read
<1>9. Len(b) \in Nat /\ m \in Nat /\ m <= Len(b)
  BY <1>2, <1>5, LenProperties
<1>10. CASE es = <<>>
  <2>1. b = <<0>>
    BY <1>1, <1>10, Zenon DEF PageIs
  <2>2. m = Len(b)
    BY <1>5, <2>1
  <2>3. cut = b
    BY <1>2, <2>2, SubSeqFull, Zenon
  <2>4. EntriesFrom(cut)[1] = Invalid
    BY <2>1, <2>3, NoEntry, Zenon
  <2> QED  BY <1>7, <2>4, ValidIs, Zenon
<1>11. CASE es # <<>>
  <2>1. PICK at : Laid(es, b, at)
    BY <1>1, <1>11, Zenon DEF PageIs
  <2>2. es \in Seq(KeyEntry)
    BY Zenon DEF OnPage
  <2>3. cut \in Seq(Nat) /\ rest \in Seq(Nat)
    <3>1. \A k \in 1..Len(b) : b[k] \in Nat
      BY <1>2, ElementOfSeq, Zenon
    <3>2. (\A k \in 1..m : b[k] \in Nat) /\ (\A k \in m + 1..Len(b) : b[k] \in Nat)
      BY <1>9, <3>1
    <3>3. 1 \in Int /\ m \in Int /\ m + 1 \in Int /\ Len(b) \in Int
      BY <1>9
    <3> QED  BY <3>2, <3>3, SubSeqProperties
  <2>4. b = cut \o rest
    <3>1. 1 \in 1..Len(b) + 1 /\ m \in 1 - 1..Len(b) /\ Len(b) \in m..Len(b)
      BY <1>9
    <3>2. SubSeq(b, 1, m) \o SubSeq(b, m + 1, Len(b)) = SubSeq(b, 1, Len(b))
      BY <1>2, <3>1, ConcatAdjacentSubSeq
    <3>3. SubSeq(b, 1, Len(b)) = b
      BY <1>2, SubSeqFull, Zenon
    <3> QED  BY <3>2, <3>3, Zenon
  <2> HIDE DEF es, cut, rest
  <2>5. PICK i \in 0..Len(es) : EntriesFrom(cut)[1].value = SubSeq(es, 1, i)
    BY <1>7, <2>1, <2>2, <2>3, <2>4, CutIsRead, Zenon
  <2>6. IsPrefix(EntriesFrom(cut)[1].value, es)
    BY <2>2, <2>5, PrefixIs, Zenon
  <2> QED  BY <1>8, <2>6, Zenon DEF es, got
<1> QED  BY <1>10, <1>11, Zenon

-----------------------------------------------------------------------------
(* The reply to each request *)

AsksPage(q) == q.kind \in {"enum", "continue"}

\* What the key may have to say.
LEMMA PageContent ==
  ASSUME NEW q, AsksPage(q), NEW c \in ContentSet(q)
  PROVE  /\ OnPage(c.entries) /\ c.more_pages \in BOOLEAN
         /\ c = [entries |-> c.entries, more_pages |-> c.more_pages]
<1> DEFINE shown == {e \in KeyEntry : (e.code # NoCode) = ShowsCode(e)}
           pages == Seq(shown)
           bools == BOOLEAN
<1>1. ContentSet(q) = [entries : pages, more_pages : bools]
  BY Zenon DEF ContentSet, AsksPage
<1>2. \A es \in pages : OnPage(es)
  <2> SUFFICES ASSUME NEW es \in pages PROVE OnPage(es)
    BY Zenon
  <2>1. shown \subseteq KeyEntry
    BY Zenon
  <2>2. es \in Seq(KeyEntry)
    <3> HIDE DEF shown
    <3> QED  BY <2>1, SeqMonotonic, Zenon
  <2>3. \A i \in 1..Len(es) : es[i] \in shown
    <3> HIDE DEF shown
    <3> QED  BY ElementOfSeq, Zenon
  <2> QED  BY <2>2, <2>3, Zenon DEF OnPage
<1> HIDE DEF pages, bools
<1>3. /\ c.entries \in pages /\ c.more_pages \in bools
      /\ c = [entries |-> c.entries, more_pages |-> c.more_pages]
  BY <1>1
<1> QED  BY <1>2, <1>3, Zenon DEF bools

LEMMA OtherContent ==
  ASSUME NEW q, NEW c \in ContentSet(q)
  PROVE  /\ q.kind = "read" => c \in KeyEntry /\ c.code # NoCode
         /\ q.kind = "serial" => c \in Seq(Byte) /\ Len(c) <= 127
         /\ q.kind = "config" => c \in Seq(Byte)
<1>1. ASSUME q.kind = "read" PROVE c \in KeyEntry /\ c.code # NoCode
  <2>1. ContentSet(q) = {e \in KeyEntry : e.code # NoCode}
    BY <1>1, Zenon DEF ContentSet
  <2> QED  BY <2>1, Zenon
<1>2. ASSUME q.kind = "serial" PROVE c \in Seq(Byte) /\ Len(c) <= 127
  <2>1. ContentSet(q) = {number \in Seq(Byte) : Len(number) <= 127}
    BY <1>2, Zenon DEF ContentSet
  <2> QED  BY <2>1, Zenon
<1>3. ASSUME q.kind = "config" PROVE c \in Seq(Byte)
  <2>1. ContentSet(q) = Seq(Byte)
    BY <1>3, Zenon DEF ContentSet
  <2> QED  BY <2>1, Zenon
<1> QED  BY <1>1, <1>2, <1>3, Zenon

LEMMA StatusesDiffer == OK # ENTRY_NOT_FOUND /\ OK # ENTRY_NOT_FOUND_ALT
BY DEF OK, ENTRY_NOT_FOUND, ENTRY_NOT_FOUND_ALT

\* The reply to a request, and what the caller gets of it.
LEMMA PageReply ==
  ASSUME NEW q, AsksPage(q), NEW c
  PROVE  \/ /\ q.kind = "enum" /\ c.entries = <<>> /\ ~c.more_pages
            /\ ReplyOf(q, c).data = <<>> /\ ReplyOf(q, c).sw = ENTRY_NOT_FOUND
         \/ ReplyOf(q, c).data = PageBytes(c) /\ ReplyOf(q, c).sw = OK
<1> DEFINE empty == <<>>
           none == [data |-> empty, sw |-> ENTRY_NOT_FOUND]
           bytes == PageBytes(c)
           page == [sw |-> OK, data |-> bytes]
<1>1. ReplyOf(q, c) = IF q.kind = "enum" /\ c.entries = <<>> /\ ~c.more_pages THEN none ELSE page
  BY Zenon DEF ReplyOf, AsksPage
<1> HIDE DEF empty, bytes
<1>2. /\ none.data = empty /\ none.sw = ENTRY_NOT_FOUND
      /\ page.sw = OK /\ page.data = bytes
  OBVIOUS
<1> HIDE DEF none, page
<1> QED  BY <1>1, <1>2, Zenon DEF empty, bytes

LEMMA OtherReply ==
  ASSUME NEW q, ~AsksPage(q), NEW c
  PROVE  /\ ReplyOf(q, c).sw = OK
         /\ q.kind = "read" => ReplyOf(q, c).data = EntryBytes(c)
         /\ q.kind = "serial" => ReplyOf(q, c).data = <<209, 2 * Len(c)>> \o HexText(c)
         /\ q.kind \notin {"read", "serial"} => ReplyOf(q, c).data = c
<1> DEFINE entry == EntryBytes(c)
           serial == <<209, 2 * Len(c)>> \o HexText(c)
           page == PageBytes(c)
           data == CASE q.kind \in {"enum", "continue"} -> page
                     [] q.kind = "read"   -> entry
                     [] q.kind = "serial" -> serial
                     [] OTHER             -> c
           r == [sw |-> OK, data |-> data]
<1>1. ReplyOf(q, c) = r
  BY DEF ReplyOf, AsksPage
<1> HIDE DEF entry, serial, page
<1> USE DEF AsksPage
<1>2. /\ q.kind = "read" => data = entry
      /\ q.kind = "serial" => data = serial
      /\ q.kind \notin {"read", "serial"} => data = c
  OBVIOUS
<1> HIDE DEF data
<1>3. r.sw = OK /\ r.data = data
  OBVIOUS
<1> HIDE DEF r
<1> QED  BY <1>1, <1>2, <1>3, Zenon DEF entry, serial

LEMMA ResultIs ==
  ASSUME NEW q, NEW data
  PROVE  /\ q.kind = "enum" =>
              ResultOf(q, data, ENTRY_NOT_FOUND) = Valid([entries |-> <<>>, more_pages |-> FALSE])
         /\ AsksPage(q) => ResultOf(q, data, OK) = ParseEnumPage(data)
         /\ q.kind = "read" => ResultOf(q, data, OK) = ParseReadOne(data)
         /\ q.kind = "serial" => ResultOf(q, data, OK) = ParseSerial(data)
         /\ q.kind = "config" => ResultOf(q, data, OK) = ParseDeviceInfo(data)
         /\ q.kind \notin {"enum", "continue", "read", "serial", "config"} => ResultOf(q, data, OK).ok
<1> DEFINE empty == Valid([entries |-> <<>>, more_pages |-> FALSE])
           page == ParseEnumPage(data)
           read == ParseReadOne(data)
           serial == ParseSerial(data)
           config == ParseDeviceInfo(data)
           none == Valid(<<>>)
<1> DEFINE result == CASE q.kind \in {"enum", "continue"} -> page
                       [] q.kind = "read"   -> read
                       [] q.kind = "serial" -> serial
                       [] q.kind = "config" -> config
                       [] OTHER -> none
<1>1. \A status : ResultOf(q, data, status) =
        IF q.kind = "enum" /\ status \in {ENTRY_NOT_FOUND, ENTRY_NOT_FOUND_ALT} THEN empty
        ELSE IF status # OK THEN Invalid ELSE result
  BY Zenon DEF ResultOf
<1>2. none.ok
  BY ValidIs, Zenon
<1> HIDE DEF empty, page, read, serial, config, none
<1>7. /\ q.kind \in {"enum", "continue"} => result = page
      /\ q.kind = "read" => result = read
      /\ q.kind = "serial" => result = serial
      /\ q.kind = "config" => result = config
      /\ q.kind \notin {"enum", "continue", "read", "serial", "config"} => result = none
  OBVIOUS
<1> HIDE DEF result
<1>3. q.kind = "enum" => ResultOf(q, data, ENTRY_NOT_FOUND) = empty
  BY <1>1, Zenon
<1>4. OK \notin {ENTRY_NOT_FOUND, ENTRY_NOT_FOUND_ALT}
  BY StatusesDiffer, Zenon
<1>5. ResultOf(q, data, OK) = result
  BY <1>1, <1>4, Zenon
<1> QED  BY <1>2, <1>3, <1>5, <1>7, Zenon DEF empty, page, read, serial, config, AsksPage

\* The reply to a request is read as what the key said.
Read(q, c, result, status) ==
  CASE q.kind \in {"enum", "continue"} ->
         IF status = OK /\ c.entries = <<>> THEN ~result.ok ELSE result = Valid(c)
    [] q.kind \in {"read", "serial"} -> result = Valid(c)
    [] q.kind = "config" ->
         /\ result.ok = (c # <<>>)
         /\ result.ok => \A i \in 1..Least(10, Len(c)) : result.value.bytes[i] = c[i]
    [] OTHER -> result.ok

LEMMA ReplyIsRead ==
  ASSUME NEW q, NEW c \in ContentSet(q)
  PROVE  Read(q, c, ResultOf(q, ReplyOf(q, c).data, ReplyOf(q, c).sw), ReplyOf(q, c).sw)
<1> DEFINE data == ReplyOf(q, c).data
           status == ReplyOf(q, c).sw
           result == ResultOf(q, data, status)
<1>1. CASE AsksPage(q)
  <2>1. /\ OnPage(c.entries) /\ c.more_pages \in BOOLEAN
        /\ c = [entries |-> c.entries, more_pages |-> c.more_pages]
    BY <1>1, PageContent, Zenon
  <2>2. IF status = OK /\ c.entries = <<>> THEN ~result.ok ELSE result = Valid(c)
    <3>1. CASE q.kind = "enum" /\ c.entries = <<>> /\ ~c.more_pages /\ status = ENTRY_NOT_FOUND
      <4>1. c = [entries |-> <<>>, more_pages |-> FALSE]
        BY <2>1, <3>1, Zenon
      <4>2. result = Valid([entries |-> <<>>, more_pages |-> FALSE])
        BY <3>1, ResultIs, Zenon
      <4> QED  BY <3>1, <4>1, <4>2, StatusesDiffer, Zenon
    <3>2. CASE data = PageBytes(c) /\ status = OK
      <4>1. result = ParseEnumPage(PageBytes(c))
        BY <1>1, <3>2, ResultIs, Zenon
      <4>2. ParseEnumPage(PageBytes(c)) = IF c.entries = <<>> THEN Invalid ELSE Valid(c)
        BY <2>1, PageAnswer, Zenon
      <4> QED  BY <3>2, <4>1, <4>2, ValidIs, Zenon
    <3>3. \/ q.kind = "enum" /\ c.entries = <<>> /\ ~c.more_pages /\ status = ENTRY_NOT_FOUND
          \/ data = PageBytes(c) /\ status = OK
      BY <1>1, PageReply, Zenon
    <3> QED  BY <3>1, <3>2, <3>3
  <2> HIDE DEF result, status
  <2>3. Read(q, c, result, status)
    BY <1>1, <2>2 DEF Read, AsksPage
  <2> QED  BY <2>3, Zenon DEF result, status
<1>2. CASE ~AsksPage(q)
  <2>1. /\ status = OK
        /\ q.kind = "read" => data = EntryBytes(c)
        /\ q.kind = "serial" => data = <<209, 2 * Len(c)>> \o HexText(c)
        /\ q.kind \notin {"read", "serial"} => data = c
    BY <1>2, OtherReply, Zenon
  <2> HIDE DEF data, status
  <2>2. ASSUME q.kind = "read" PROVE Read(q, c, result, status)
    <3>1. result = ParseReadOne(EntryBytes(c))
      <4>1. result = ParseReadOne(data)
        BY <2>1, <2>2, ResultIs, Zenon
      <4> QED  BY <2>1, <2>2, <4>1, Zenon
    <3>2. result = Valid(c)
      BY <2>2, <3>1, OtherContent, ReadAnswer, Zenon
    <3> HIDE DEF result
    <3> QED  BY <2>2, <3>2 DEF Read
  <2>3. ASSUME q.kind = "serial" PROVE Read(q, c, result, status)
    <3>1. result = ParseSerial(data)
      BY <2>1, <2>3, ResultIs, Zenon
    <3>2. c \in Seq(Byte) /\ Len(c) <= 127
      BY <2>3, OtherContent, Zenon
    <3>3. ParseSerial(data) = Valid(c)
      <4>1. ParseSerial(<<209, 2 * Len(c)>> \o HexText(c)) = Valid(c)
        BY <3>2, SerialAnswer
      <4> QED  BY <2>1, <2>3, <4>1, Zenon
    <3>4. result = Valid(c)
      BY <3>1, <3>3, Zenon
    <3> HIDE DEF result
    <3> QED  BY <2>3, <3>4 DEF Read
  <2>4. ASSUME q.kind = "config" PROVE Read(q, c, result, status)
    <3>1. result = ParseDeviceInfo(c)
      <4>1. q.kind \notin {"read", "serial"}
        BY <2>4
      <4> QED  BY <2>1, <2>4, <4>1, ResultIs, Zenon
    <3>2. c \in Seq(Byte)
      BY <2>4, OtherContent, Zenon
    <3> HIDE DEF result
    <3>3. /\ result.ok = (c # <<>>)
          /\ c # <<>> => \A i \in 1..Least(10, Len(c)) : result.value.bytes[i] = c[i]
      BY <3>1, <3>2, ConfigAnswer
    <3> QED  BY <2>4, <3>3 DEF Read
  <2>5. ASSUME q.kind \notin {"enum", "continue", "read", "serial", "config"}
        PROVE  Read(q, c, result, status)
    <3>1. result.ok
      BY <2>1, <2>5, ResultIs, Zenon
    <3> HIDE DEF result
    <3> QED  BY <2>5, <3>1 DEF Read
  <2>6. Read(q, c, result, status)
    BY <1>2, <2>2, <2>3, <2>4, <2>5 DEF AsksPage
  <2> QED  BY <2>6, Zenon DEF data, status
<1> QED  BY <1>1, <1>2


-----------------------------------------------------------------------------
(* The inductive invariant: raw_transmit's own, that what is sent is the      *)
(* request's command, another Le added or not, or GET RESPONSE, and that what *)
(* was read is the beginning of the reply.                                    *)

Asks ==
  /\ request \in Requests /\ content \in Contents(request)
  /\ CommandOf(request).ok /\ command = CommandOf(request).value
  /\ reply = ReplyOf(request, content)
  /\ IsGetResponse(to_send) \/ AsSent(command, to_send)

\* What was read is the beginning of the reply, whether the loop goes on or not.
Begins == \E m \in 0..Len(reply.data) : acc = SubSeq(reply.data, 1, m)

AppletInv == IInv /\ Asks /\ Begins

LEMMA InitBegins == Init => Begins
<1> SUFFICES ASSUME Init PROVE Begins
  OBVIOUS
<1>1. Len(reply.data) \in Nat
  BY LenProperties DEF Init, Replies
<1>2. 0 \in 0..Len(reply.data) /\ 1 \in Int /\ 0 \in Int /\ 0 < 1
  BY <1>1
<1>3. SubSeq(reply.data, 1, 0) = <<>>
  BY <1>2, SubSeqEmpty, Zenon
<1> QED  BY <1>2, <1>3, Zenon DEF Init, Begins

LEMMA StepBegins ==
  ASSUME IInv, Begins, [Next]_vars PROVE Begins'
<1>1. reply' = reply
  BY Visible, Zenon
<1>2. reply.data \in Seq(Byte) /\ Len(reply.data) \in Nat
  BY LenProperties DEF IInv, TypeOK, Replies
<1>3. ASSUME acc' = acc PROVE Begins'
  BY <1>1, <1>3, Zenon DEF Begins
<1>4. ASSUME acc' = <<>> PROVE Begins'
  <2>1. 0 \in 0..Len(reply.data) /\ 1 \in Int /\ 0 \in Int /\ 0 < 1
    BY <1>2
  <2>2. SubSeq(reply.data, 1, 0) = <<>>
    BY <2>1, SubSeqEmpty, Zenon
  <2> QED  BY <1>1, <1>4, <2>1, <2>2, Zenon DEF Begins
<1>5. acc = <<>> /\ acc' = acc \o <<>> => acc' = <<>>
  <2>1. <<>> \o <<>> = <<>>
    OBVIOUS
  <2> QED  BY <2>1, Zenon
<1>6. CASE Executes \/ LinkFails \/ Returned \/ UNCHANGED vars
  <2>1. acc' = acc
    BY <1>6 DEF Executes, LinkFails, Fail, Returned, vars, hostVars
  <2> QED  BY <1>3, <2>1
<1>7. CASE Answers
  <2>1. PICK n \in 0..Least(CardChunk, Len(reply.data) - given) : Gives(n)
    BY <1>7 DEF Answers
  <2> DEFINE data == SubSeq(reply.data, given + 1, given + n)
             left == Len(reply.data) - (given + n)
  <2>2. /\ pc = "loop" /\ card = "replying"
        /\ Continue(data, left % 256) \/ Finish(data, reply.sw)
    BY <2>1 DEF Gives
  <2>3. acc = SubSeq(reply.data, 1, given)
    BY <2>2 DEF IInv, InLoop
  <2>4. acc' = acc \o data
    BY <2>2 DEF Continue, Finish, Receive, Joined
  <2>5. given \in 0..Len(reply.data) /\ n \in 0..Len(reply.data) - given
    BY <1>2, RawTransmitAssumption DEF IInv, TypeOK, Least
  <2>6. SubSeq(reply.data, 1, given) \o data = SubSeq(reply.data, 1, given + n)
    BY <1>2, <2>5, PieceProperties, Zenon
  <2>7. given + n \in 0..Len(reply.data)
    BY <1>2, <2>5
  <2> QED  BY <1>1, <2>3, <2>4, <2>6, <2>7, Zenon DEF Begins
<1>8. CASE RefusesLe
  <2>1. acc = <<>>
    BY <1>8 DEF RefusesLe, IInv, InLoop
  <2>2. acc' = <<>> \/ acc' = acc \o <<>>
    BY <1>8 DEF RefusesLe, Reissue, Receive, Joined
  <2> QED  BY <1>4, <1>5, <2>1, <2>2, Zenon
<1>9. CASE RefusesLength
  <2>1. acc = <<>>
    BY <1>9 DEF RefusesLength, IInv, InLoop
  <2>2. acc' = acc \o <<>>
    BY <1>9 DEF RefusesLength, Finish, Receive, Joined
  <2> QED  BY <1>4, <1>5, <2>1, <2>2, Zenon
<1> QED  BY <1>6, <1>7, <1>8, <1>9 DEF Next, Transmit


LEMMA AppletInitInv == AppletInit => AppletInv
<1> SUFFICES ASSUME AppletInit PROVE AppletInv
  OBVIOUS
<1>1. IInv
  BY InitInv, Zenon DEF AppletInit
<1>2. Asks
  BY Zenon DEF AppletInit, Init, Asks, AsSent
<1>3. Begins
  BY InitBegins, Zenon DEF AppletInit
<1> QED  BY <1>1, <1>2, <1>3, Zenon DEF AppletInv

LEMMA AppletStepInv ==
  AppletInv /\ [Next /\ UNCHANGED <<request, content>>]_appletVars => AppletInv'
<1> SUFFICES ASSUME AppletInv, [Next /\ UNCHANGED <<request, content>>]_appletVars PROVE AppletInv'
  OBVIOUS
<1>1. [Next]_vars /\ UNCHANGED <<request, content>>
  BY DEF appletVars
<1>2. IInv'
  BY <1>1, StepInv, Zenon DEF AppletInv
<1>3. command' = command /\ reply' = reply /\ request' = request /\ content' = content
  <2>1. reply' = reply
    BY <1>1, Visible, Zenon
  <2>2. command' = command
    BY <1>1 DEF Next, Transmit, Executes, Answers, Gives, Continue, Finish, RefusesLe, Reissue,
                RefusesLength, LinkFails, Fail, Returned, vars, hostVars
  <2> QED  BY <1>1, <2>1, <2>2
<1>4. \/ to_send' = to_send
      \/ \E le \in Nat : to_send' = GetResponse(le)
      \/ \E le \in Nat : to_send' = Append(command, le)
  <2>1. CASE Executes \/ LinkFails \/ UNCHANGED vars
    BY <2>1 DEF Executes, LinkFails, Fail, vars, hostVars
  <2>2. CASE Answers
    <3>1. PICK n \in 0..Least(CardChunk, Len(reply.data) - given) : Gives(n)
      BY <2>2 DEF Answers
    <3> DEFINE left == Len(reply.data) - (given + n)
    <3>2. left > 0 => left % 256 \in Nat
      <4>1. given \in Nat /\ Len(reply.data) \in Nat
        BY LenProperties DEF AppletInv, IInv, TypeOK, Replies
      <4>2. n \in Int
        BY <3>1
      <4>3. left \in Int
        BY <4>1, <4>2
      <4> HIDE DEF left
      <4> QED  BY <4>3
    <3> QED  BY <3>1, <3>2 DEF Gives, Continue, Finish, TooMuch, NextPiece
  <2>3. CASE RefusesLe
    <3>1. Len(reply.data) % 256 \in Nat
      BY LenProperties DEF AppletInv, IInv, TypeOK, Replies
    <3> QED  BY <2>3, <3>1 DEF RefusesLe, Reissue, TooMuch
  <2>4. CASE RefusesLength
    BY <2>4 DEF RefusesLength, Finish, TooMuch
  <2> QED  BY <1>1, <2>1, <2>2, <2>3, <2>4 DEF Next, Transmit, Returned
<1>5. IsGetResponse(to_send') \/ AsSent(command', to_send')
  <2>1. CASE to_send' = to_send
    BY <1>3, <2>1, Zenon DEF AppletInv, Asks
  <2>2. ASSUME NEW le \in Nat, to_send' = GetResponse(le) PROVE IsGetResponse(to_send')
    <3>1. GetResponse(le)[2] = GET_RESPONSE_INS
      BY DEF GetResponse
    <3> QED  BY <2>2, <3>1, Zenon DEF IsGetResponse
  <2>3. ASSUME NEW le \in Nat, to_send' = Append(command, le) PROVE AsSent(command', to_send')
    BY <1>3, <2>3, Zenon DEF AsSent
  <2> QED  BY <1>4, <2>1, <2>2, <2>3, Zenon
<1>6. Asks'
  BY <1>3, <1>5, Zenon DEF AppletInv, Asks
<1>7. Begins'
  BY <1>1, StepBegins, Zenon DEF AppletInv
<1> QED  BY <1>2, <1>6, <1>7, Zenon DEF AppletInv

(* The inductive invariant holds in every reachable state of a request. *)
THEOREM RequestIndInv == AppletSpec => []AppletInv
BY AppletInitInv, AppletStepInv, PTL DEF AppletSpec

(* Whatever the card cuts out of what is sent is the caller's request: every   *)
(* name and seed arrives as it was given, a delete is not a write, and nothing *)
(* but an erase is a WRITE_SEED without a body.                                *)
THEOREM CommandUnderstood == AppletSpec => []CommandIsUnderstood
<1>1. AppletInv => CommandIsUnderstood
  <2> SUFFICES ASSUME AppletInv, pc = "loop", IsCommand PROVE Understood(to_send) = Asked
    BY DEF CommandIsUnderstood
  <2>1. request \in RequestSet /\ CommandOf(request).ok
    BY AppletAssumption, Zenon DEF AppletInv, Asks
  <2>2. Sends(to_send)
    BY Zenon DEF AppletInv, Asks, Sends, IsCommand
  <2>3. CASE request.kind \in BareKinds
    <3>1. request.kind # "write"
      BY <2>3 DEF BareKinds
    <3> QED  BY <2>1, <2>2, <2>3, <3>1, BareIsRead, Zenon DEF Asked
  <2>4. CASE request.kind = "read"
    BY <2>1, <2>2, <2>4, ReadIsRead, Zenon DEF Asked
  <2>5. CASE request.kind = "delete"
    BY <2>1, <2>2, <2>5, DeleteIsRead, Zenon DEF Asked
  <2>6. CASE request.kind = "write"
    <3>1. request.secret \in Seq(Nat)
      BY <2>1, <2>6, RequestIs, Zenon
    <3>2. SecretRead
      BY <3>1, SecretIsRead, Zenon DEF SecretRead
    <3> QED  BY <2>1, <2>2, <2>6, <3>2, WriteIsRead, Zenon DEF Asked
  <2> QED  BY <2>1, <2>3, <2>4, <2>5, <2>6, RequestIs, Zenon
<1> QED  BY <1>1, RequestIndInv, PTL

(* The caller gets what the key said, whatever pieces the reply came in: every *)
(* entry of a page, in order and each to its last byte, with a code exactly   *)
(* where the key gave one and the mark that more follow; the entry asked for  *)
(* by name; the serial number's bytes; the configuration's first ten.         *)
THEOREM AnswerRead == AppletSpec => []AnswerIsRead
<1>1. AppletInv => AnswerIsRead
  <2> SUFFICES ASSUME AppletInv, pc = "ok", executions = 1
               PROVE  Read(request, content, ResultOf(request, acc, sw), reply.sw)
    BY DEF AnswerIsRead, Read
  <2>1. acc = reply.data /\ sw = reply.sw
    BY DEF AppletInv, IInv, ReplyIsWhole
  <2>2. content \in ContentSet(request) /\ reply = ReplyOf(request, content)
    BY AppletAssumption, Zenon DEF AppletInv, Asks
  <2> QED  BY <2>1, <2>2, ReplyIsRead, Zenon
<1> QED  BY <1>1, RequestIndInv, PTL

(* What was received of a page when a link failed or a limit was met is       *)
(* refused, or its entries are the first of the page: an entry cut in two is  *)
(* never read as another one.                                                 *)
THEOREM CutPageRead == AppletSpec => []CutPageAddsNothing
<1>1. AppletInv => CutPageAddsNothing
  <2> SUFFICES ASSUME AppletInv, AsksPage(request), ParseEnumPage(acc).ok
               PROVE  IsPrefix(ParseEnumPage(acc).value.entries, content.entries)
    BY DEF CutPageAddsNothing, AsksPage
  <2>1. content \in ContentSet(request) /\ reply = ReplyOf(request, content)
    BY AppletAssumption, Zenon DEF AppletInv, AppletInv, Asks
  <2>2. OnPage(content.entries) /\ content.more_pages \in BOOLEAN
    BY <2>1, PageContent, Zenon
  <2>3. PICK m \in 0..Len(reply.data) : acc = SubSeq(reply.data, 1, m)
    BY Zenon DEF AppletInv, Begins
  <2>4. reply.data = <<>> \/ reply.data = PageBytes(content)
    BY <2>1, PageReply, Zenon
  <2>5. CASE reply.data = <<>>
    <3>1. acc = <<>>
      BY <2>3, <2>5
    <3>2. ParseEnumPage(acc) = Invalid
      BY <3>1, Zenon DEF ParseEnumPage
    <3> QED  BY <3>2, ValidIs, Zenon
  <2>6. CASE reply.data = PageBytes(content)
    BY <2>2, <2>3, <2>6, CutAnswer, Zenon
  <2> QED  BY <2>4, <2>5, <2>6
<1> QED  BY <1>1, RequestIndInv, PTL

-----------------------------------------------------------------------------
(* What raw_transmit does for any command it does for a request: the reply is  *)
(* returned whole, and over a sound link only the limits make it fail.         *)
THEOREM RequestReplyWhole == AppletSpec => [](ReplyIsWhole /\ FailsBeyondLimits)
<1>1. AppletInv => ReplyIsWhole /\ FailsBeyondLimits
  BY Zenon DEF AppletInv, IInv
<1> QED  BY <1>1, RequestIndInv, PTL

(* Every request is carried by raw_transmit, so it keeps raw_transmit's       *)
(* promise: the card executes the command of one request at most once,        *)
(* and an Ok is the whole of the reply that the request's content makes.      *)
THEOREM RequestIsExchange == AppletSpec => ImplementsExchange
<1>1. AppletInit => E!Init
  BY InitRefines, Zenon DEF AppletInit
<1>2. ASSUME AppletInv, AppletInv', [Next /\ UNCHANGED <<request, content>>]_appletVars
      PROVE  [E!Next]_E!vars
  <2>1. [Next]_vars
    BY <1>2 DEF appletVars
  <2>2. IInv /\ IInv'
    BY <1>2, Zenon DEF AppletInv
  <2> QED  BY <2>1, <2>2, StepRefines, Zenon
<1> QED  BY <1>1, <1>2, RequestIndInv, PTL DEF AppletSpec, ImplementsExchange, E!Spec

=============================================================================
