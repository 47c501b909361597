---------------------------- MODULE FramingProofs ----------------------------
(***************************************************************************)
(* For every list of messages, every buffer and every way TCP cuts the     *)
(* stream: while no send is cut short, the receive loop delivers the       *)
(* messages intact and in order, and it ends only for cause.               *)
(***************************************************************************)
EXTENDS Framing, SequenceTheorems, WellFoundedInduction, TLAPS

USE FramingAssumption

-----------------------------------------------------------------------------
(* Bytes and streams *)

LEMMA LeastNumber ==
    ASSUME NEW T \in SUBSET Nat, T # {}
    PROVE  \E x \in T : \A y \in T : x <= y
<1> DEFINE less == {ss \in Nat \X Nat : ss[1] < ss[2]}
<1>1. IsWellFoundedOn(less, Nat)
  BY NatLessThanWellFounded DEF OpToRel
<1>2. PICK x \in T : \A y \in T : ~ (<<y, x>> \in less)
  <2>1. \E x \in T : \A y \in T : ~ (<<y, x>> \in less)
    BY <1>1, WFMin
  <2> QED
    BY <2>1
<1>3. ASSUME NEW y \in T PROVE x <= y
  <2>1. <<y, x>> \notin less /\ x \in Nat /\ y \in Nat
    BY <1>2
  <2> QED
    BY <2>1
<1> QED
  BY <1>3

LEMMA MessageFacts ==
    ASSUME NEW m \in Messages
    PROVE  /\ m \in Nat /\ m >= 1 /\ m <= Len(Payload) /\ Payload[m] \in Nat
           /\ Size(m) \in Nat /\ Size(m) >= HeaderSize /\ Size(m) >= 1
           /\ Size(m) = HeaderSize + Payload[m]
BY DEF Messages, Size

LEMMA ByteFacts ==
    ASSUME NEW x \in Byte
    PROVE  /\ x[1] \in Messages /\ x[2] \in Nat /\ x[2] < Size(x[1])
           /\ x = <<x[1], x[2]>>
<1>1. PICK m \in Messages : x \in {m} \X (0 .. HeaderSize + Payload[m] - 1)
  BY DEF Byte
<1> DEFINE K == 0 .. HeaderSize + Payload[m] - 1
<1>2. PICK k \in K : x = <<m, k>>
  BY <1>1
<1>3. k \in Nat /\ k < Size(m)
  BY MessageFacts
<1> HIDE DEF K
<1> QED
  BY <1>2, <1>3

LEMMA BytesFacts ==
    ASSUME NEW m \in Messages
    PROVE  /\ Bytes(m) \in Seq(Byte) /\ Len(Bytes(m)) = Size(m)
           /\ \A k \in 1 .. Size(m) : Bytes(m)[k] = <<m, k - 1>>
<1>1. /\ Size(m) \in Nat /\ Size(m) = HeaderSize + Payload[m]
      /\ HeaderSize \in Nat /\ Payload[m] \in Nat
  BY MessageFacts
<1>2. \A k \in 1 .. Size(m) : <<m, k - 1>> \in Byte
  <2> SUFFICES ASSUME NEW k \in 1 .. Size(m) PROVE <<m, k - 1>> \in Byte
    OBVIOUS
  <2>1. k - 1 \in 0 .. HeaderSize + Payload[m] - 1
    BY <1>1
  <2>2. <<m, k - 1>> \in {m} \X (0 .. HeaderSize + Payload[m] - 1)
    BY <2>1
  <2> QED
    BY <2>2 DEF Byte
<1>3. Bytes(m) = [k \in 1 .. Size(m) |-> <<m, k - 1>>]
  BY <1>1 DEF Bytes
<1> HIDE FramingAssumption
<1>4. Bytes(m) \in [1 .. Size(m) -> Byte]
  BY <1>2, <1>3
<1>5. Bytes(m) \in Seq(Byte) /\ Len(Bytes(m)) = Size(m)
  BY <1>1, <1>4
<1> QED
  BY <1>3, <1>5

\* A stream from message a starts with the bytes of a.
LEMMA StreamHead ==
    ASSUME NEW q \in Seq(Byte), NEW a \in Nat, NEW b \in Nat, IsStream(q, a, b),
           q # <<>>
    PROVE  /\ a \in Messages /\ a <= b
           /\ \A k \in 1 .. Len(q) : k <= Size(a) => q[k] = <<a, k - 1>>
<1>1. Len(q) \in Nat /\ 1 \in 1 .. Len(q) /\ q[1] = <<a, 0>> /\ q[1] \in Byte
  BY DEF IsStream
<1>2. a \in Messages /\ Size(a) \in Nat
  <2>1. q[1][1] = a
    BY <1>1
  <2>2. q[1][1] \in Messages
    BY <1>1, ByteFacts
  <2>3. a \in Messages
    BY <2>1, <2>2
  <2> QED
    BY <2>3, MessageFacts
<1> DEFINE T == {k \in 1 .. Len(q) : k <= Size(a) /\ q[k] # <<a, k - 1>>}
<1>3. ASSUME T # {} PROVE FALSE
  <2>1. PICK x \in T : \A y \in T : x <= y
    <3>1. T \in SUBSET Nat
      OBVIOUS
    <3> HIDE DEF T
    <3> QED
      BY <1>3, <3>1, LeastNumber
  <2>2. x \in 1 .. Len(q) /\ x <= Size(a) /\ q[x] # <<a, x - 1>>
    BY <2>1
  <2>3. x # 1
    BY <1>1, <2>2
  <2>4. /\ x - 1 \in 1 .. Len(q) - 1 /\ x - 1 \in 1 .. Len(q) /\ (x - 1) + 1 = x
        /\ x - 1 <= Size(a) /\ ~(x <= x - 1) /\ (x - 1) - 1 + 1 = x - 1 /\ x - 1 < Size(a)
    BY <1>1, <1>2, <2>2, <2>3
  <2>5. q[x - 1] = <<a, (x - 1) - 1>>
    BY <2>1, <2>4
  <2>6. q[(x - 1) + 1] = Following(q[x - 1])
    BY <2>4 DEF IsStream
  <2>7. Following(q[x - 1]) = <<a, x - 1>>
    BY <2>4, <2>5 DEF Following
  <2> QED
    BY <2>2, <2>4, <2>6, <2>7
<1>4. a <= b
  BY DEF IsStream
<1> QED
  BY <1>2, <1>3, <1>4

\* Sending a whole message extends the stream.
LEMMA StreamAppend ==
    ASSUME NEW q \in Seq(Byte), NEW a \in Nat, NEW b \in Nat, IsStream(q, a, b),
           b + 1 \in Messages, a <= b + 1
    PROVE  IsStream(q \o Bytes(b + 1), a, b + 1)
<1> DEFINE m == b + 1
           r == q \o Bytes(m)
           n == Len(q)
<1>1. /\ Size(m) \in Nat /\ Size(m) >= 1 /\ m \in Messages
      /\ Bytes(m) \in Seq(Byte) /\ Len(Bytes(m)) = Size(m)
      /\ \A k \in 1 .. Size(m) : Bytes(m)[k] = <<m, k - 1>>
  BY BytesFacts, MessageFacts
<1> HIDE DEF m
<1>2. /\ n \in Nat /\ r \in Seq(Byte) /\ Len(r) = n + Size(m)
      /\ \A i \in 1 .. n : r[i] = q[i]
      /\ \A i \in n + 1 .. n + Size(m) : r[i] = Bytes(m)[i - n]
  <2>1. /\ r \in Seq(Byte) /\ Len(r) = n + Size(m)
        /\ \A i \in 1 .. n + Size(m) : r[i] = IF i <= n THEN q[i] ELSE Bytes(m)[i - n]
    BY <1>1, ConcatProperties
  <2>2. n \in Nat
    OBVIOUS
  <2> HIDE DEF r, n
  <2> QED
    BY <1>1, <2>1, <2>2
<1>3. ASSUME NEW i \in n + 1 .. n + Size(m) PROVE r[i] = <<m, i - (n + 1)>>
  <2>1. i - n \in 1 .. Size(m) /\ (i - n) - 1 = i - (n + 1)
    BY <1>1, <1>2
  <2> HIDE DEF r, n
  <2> QED
    BY <1>1, <1>2, <2>1
<1> HIDE DEF r, n
<1>4. r # <<>> /\ ~(a > m) /\ m \in Nat
  BY <1>1, <1>2 DEF m
<1>5. r[Len(r)] = <<m, Size(m) - 1>>
  BY <1>1, <1>2, <1>3
<1>6. r[1] = <<a, 0>>
  <2>1. CASE q = <<>>
    <3>1. a > b /\ n = 0
      BY <2>1 DEF IsStream, n
    <3>2. a = m
      BY <3>1 DEF m
    <3> QED
      BY <3>1, <3>2, <1>1, <1>3
  <2>2. CASE q # <<>>
    <3>1. n >= 1 /\ q[1] = <<a, 0>>
      BY <2>2, <1>2 DEF IsStream, n
    <3> QED
      BY <3>1, <1>2
  <2> QED
    BY <2>1, <2>2
<1>7. \A i \in 1 .. Len(r) : r[i][1] \in a .. m
  <2> SUFFICES ASSUME NEW i \in 1 .. Len(r) PROVE r[i][1] \in a .. m
    OBVIOUS
  <2>1. CASE i <= n
    <3>1. i \in 1 .. n
      BY <2>1, <1>2
    <3>2. q[i][1] \in a .. b
      BY <3>1 DEF IsStream, n
    <3> QED
      BY <3>1, <3>2, <1>2 DEF m
  <2>2. CASE i > n
    <3>1. r[i] = <<m, i - (n + 1)>>
      BY <2>2, <1>2, <1>3
    <3> QED
      BY <3>1, <1>4
  <2> QED
    BY <2>1, <2>2, <1>2
<1>8. \A i \in 1 .. Len(r) - 1 : r[i + 1] = Following(r[i])
  <2> SUFFICES ASSUME NEW i \in 1 .. Len(r) - 1 PROVE r[i + 1] = Following(r[i])
    OBVIOUS
  <2>1. CASE i < n
    <3>1. i \in 1 .. n - 1 /\ i \in 1 .. n /\ i + 1 \in 1 .. n
      BY <2>1, <1>2
    <3>2. q[i + 1] = Following(q[i])
      BY <3>1 DEF IsStream, n
    <3> QED
      BY <3>1, <3>2, <1>2
  <2>2. CASE i = n
    <3>1. n \in 1 .. n /\ q # <<>> /\ n + 1 \in n + 1 .. n + Size(m) /\ (n + 1) - (n + 1) = 0
      BY <2>2, <1>1, <1>2 DEF n
    <3>2. r[n] = <<b, Size(b) - 1>> /\ r[n] \in Byte
      <4>1. q[n] = <<b, Size(b) - 1>> /\ q[n] \in Byte
        BY <3>1 DEF IsStream, n
      <4> QED
        BY <3>1, <4>1, <1>2
    <3>3. b \in Messages
      <4>1. r[n][1] \in Messages
        BY <3>2, ByteFacts
      <4> QED
        BY <3>2, <4>1
    <3>4. Size(b) \in Nat
      BY <3>3, MessageFacts
    <3>5. Following(<<b, Size(b) - 1>>) = <<b + 1, 0>>
      BY <3>4 DEF Following
    <3>6. r[n + 1] = <<m, 0>>
      BY <3>1, <1>3
    <3> QED
      BY <2>2, <3>2, <3>5, <3>6 DEF m
  <2>3. CASE i > n
    <3>1. i \in n + 1 .. n + Size(m) /\ i + 1 \in n + 1 .. n + Size(m)
      BY <2>3, <1>2
    <3>2. r[i] = <<m, i - (n + 1)>> /\ r[i + 1] = <<m, (i + 1) - (n + 1)>>
      BY <3>1, <1>3
    <3>3. (i - (n + 1)) + 1 < Size(m) /\ (i - (n + 1)) + 1 = (i + 1) - (n + 1)
      BY <1>1, <1>2, <2>3
    <3> QED
      BY <3>2, <3>3 DEF Following
  <2> QED
    BY <2>1, <2>2, <2>3, <1>2
<1> QED
  BY <1>4, <1>5, <1>6, <1>7, <1>8 DEF IsStream, r, m

\* Without its first message a stream is that of the messages after it.
LEMMA StreamDrop ==
    ASSUME NEW q \in Seq(Byte), NEW a \in Nat, NEW b \in Nat, IsStream(q, a, b),
           q # <<>>, Len(q) >= Size(a),
           NEW r \in Seq(Byte), Len(r) = Len(q) - Size(a),
           \A i \in 1 .. Len(r) : r[i] = q[i + Size(a)]
    PROVE  IsStream(r, a + 1, b)
<1>1. /\ a \in Messages /\ a <= b
      /\ \A k \in 1 .. Len(q) : k <= Size(a) => q[k] = <<a, k - 1>>
  BY StreamHead
<1>2. /\ Size(a) \in Nat /\ Size(a) >= 1
      /\ Len(q) \in Nat /\ Len(r) \in Nat /\ Size(a) \in 1 .. Len(q)
  BY <1>1, MessageFacts
<1>3. q[Size(a)] = <<a, Size(a) - 1>>
  BY <1>1, <1>2
<1>4. ASSUME Len(r) = 0 PROVE a + 1 > b
  <2>1. Size(a) = Len(q)
    BY <1>2, <1>4
  <2>2. q[Len(q)] = <<b, Size(b) - 1>>
    BY DEF IsStream
  <2> QED
    BY <2>1, <2>2, <1>3
<1>5. ASSUME Len(r) # 0 PROVE r[1] = <<a + 1, 0>> /\ r[Len(r)] = <<b, Size(b) - 1>>
  <2>1. /\ Size(a) \in 1 .. Len(q) - 1 /\ 1 \in 1 .. Len(r) /\ Len(r) \in 1 .. Len(r)
        /\ 1 + Size(a) = Size(a) + 1 /\ Len(r) + Size(a) = Len(q)
    BY <1>2, <1>5
  <2>2. r[1] = q[Size(a) + 1] /\ r[Len(r)] = q[Len(q)]
    BY <2>1
  <2>3. q[Size(a) + 1] = Following(<<a, Size(a) - 1>>)
    BY <2>1, <1>3 DEF IsStream
  <2>4. Following(<<a, Size(a) - 1>>) = <<a + 1, 0>>
    BY <1>2 DEF Following
  <2> QED
    BY <2>2, <2>3, <2>4 DEF IsStream
<1>6. ASSUME NEW i \in 1 .. Len(r) - 1 PROVE r[i + 1] = Following(r[i])
  <2>1. /\ i \in 1 .. Len(r) /\ i + 1 \in 1 .. Len(r)
        /\ i + Size(a) \in 1 .. Len(q) - 1 /\ (i + Size(a)) + 1 = (i + 1) + Size(a)
    BY <1>2
  <2>2. q[(i + Size(a)) + 1] = Following(q[i + Size(a)])
    BY <2>1 DEF IsStream
  <2> QED
    BY <2>1, <2>2
<1>7. ASSUME NEW i \in 1 .. Len(r) PROVE r[i][1] \in a + 1 .. b
  <2> DEFINE T == {k \in 1 .. Len(r) : r[k][1] \notin a + 1 .. b}
  <2>1. ASSUME T # {} PROVE FALSE
    <3>1. PICK x \in T : \A y \in T : x <= y
      <4>1. T \in SUBSET Nat
        OBVIOUS
      <4> HIDE DEF T
      <4> QED
        BY <2>1, <4>1, LeastNumber
    <3>2. x \in 1 .. Len(r) /\ r[x][1] \notin a + 1 .. b
      BY <3>1
    <3>3. r[x][1] \in a .. b
      <4>1. x + Size(a) \in 1 .. Len(q)
        BY <3>2, <1>2
      <4>2. q[x + Size(a)][1] \in a .. b
        BY <4>1 DEF IsStream
      <4> QED
        BY <3>2, <4>2
    <3>4. r[x][1] = a
      BY <3>2, <3>3
    <3>5. x # 1
      <4>1. Len(r) # 0 /\ r[1][1] = a + 1
        BY <1>2, <1>5, <3>2
      <4> QED
        BY <3>4, <4>1
    <3>6. /\ x - 1 \in 1 .. Len(r) - 1 /\ x - 1 \in 1 .. Len(r) /\ ~(x <= x - 1)
          /\ (x - 1) + 1 = x
      BY <1>2, <3>2, <3>5
    <3>7. r[x - 1][1] \in a + 1 .. b
      BY <3>1, <3>6
    <3>8. r[x] = Following(r[x - 1])
      BY <1>6, <3>6
    <3>9. r[x][1] \in {r[x - 1][1], r[x - 1][1] + 1}
      BY <3>8 DEF Following
    <3> QED
      BY <3>4, <3>7, <3>9
  <2> QED
    BY <2>1
<1>8. r = <<>> <=> Len(r) = 0
  OBVIOUS
<1>9. ASSUME a + 1 > b PROVE Len(r) = 0
  <2>1. ASSUME Len(r) # 0 PROVE FALSE
    <3>1. 1 \in 1 .. Len(r)
      BY <2>1, <1>2
    <3>2. r[1][1] \in a + 1 .. b
      BY <3>1, <1>7
    <3> QED
      BY <3>2, <1>9
  <2> QED
    BY <2>1
<1> QED
  BY <1>4, <1>5, <1>6, <1>7, <1>8, <1>9 DEF IsStream

-----------------------------------------------------------------------------
(* Types *)

LEMMA FramingTypeInit == Init => TypeOK
BY DEF Init, TypeOK

LEMMA FirstByte ==
    ASSUME TypeOK, pos < Len(buf)
    PROVE  /\ buf[pos + 1] \in Byte /\ buf[pos + 1][1] \in Messages
           /\ buf[pos + 1][1] # Corrupt
<1>1. pos + 1 \in 1 .. Len(buf) /\ buf \in Seq(Byte)
  BY DEF TypeOK
<1>2. buf[pos + 1] \in Byte
  BY <1>1
<1> QED
  BY <1>2, ByteFacts, MessageFacts DEF Corrupt

\* The bytes from offset p of a buffer on and those of the wire, by position.
Rest(b, p, w) == SubSeq(b, p + 1, Len(b)) \o w

LEMMA RestFacts ==
    ASSUME NEW b \in Seq(Byte), NEW w \in Seq(Byte), NEW p \in 0 .. Len(b)
    PROVE  /\ Rest(b, p, w) \in Seq(Byte)
           /\ Len(Rest(b, p, w)) = (Len(b) - p) + Len(w)
           /\ \A i \in 1 .. Len(b) - p : Rest(b, p, w)[i] = b[p + i]
           /\ \A i \in 1 .. Len(w) : Rest(b, p, w)[(Len(b) - p) + i] = w[i]
<1> DEFINE r == SubSeq(b, p + 1, Len(b))
           n == Len(b) - p
           q == Rest(b, p, w)
<1>1. Len(b) \in Nat /\ Len(w) \in Nat /\ n \in Nat
  OBVIOUS
<1>2. r \in Seq(Byte) /\ Len(r) = n /\ \A i \in 1 .. n : r[i] = b[p + i]
  <2>1. \A i \in p + 1 .. Len(b) : b[i] \in Byte
    BY <1>1
  <2>2. p + 1 \in Int /\ Len(b) \in Int
    BY <1>1
  <2>3. /\ r \in Seq(Byte)
        /\ Len(r) = IF p + 1 <= Len(b) THEN Len(b) - (p + 1) + 1 ELSE 0
        /\ \A i \in 1 .. Len(b) - (p + 1) + 1 : r[i] = b[(p + 1) + i - 1]
    BY <2>1, <2>2, SubSeqProperties
  <2> HIDE DEF r
  <2> QED
    BY <1>1, <2>3
<1> HIDE DEF r
<1>3. /\ q \in Seq(Byte) /\ Len(q) = Len(r) + Len(w)
      /\ \A i \in 1 .. Len(r) + Len(w) :
            q[i] = IF i <= Len(r) THEN r[i] ELSE w[i - Len(r)]
  <2> HIDE FramingAssumption
  <2>1. q = r \o w
    BY DEF r, Rest
  <2>2. /\ r \o w \in Seq(Byte) /\ Len(r \o w) = Len(r) + Len(w)
        /\ \A i \in 1 .. Len(r) + Len(w) :
              (r \o w)[i] = IF i <= Len(r) THEN r[i] ELSE w[i - Len(r)]
    BY <1>2, ConcatProperties
  <2> QED
    BY <2>1, <2>2
<1> HIDE DEF q
<1>4. ASSUME NEW i \in 1 .. n PROVE q[i] = b[p + i]
  <2>1. i \in 1 .. n + Len(w) /\ i <= n
    BY <1>1
  <2> HIDE DEF n
  <2> QED
    BY <1>2, <1>3, <2>1
<1>5. ASSUME NEW i \in 1 .. Len(w) PROVE q[n + i] = w[i]
  <2>1. n + i \in 1 .. n + Len(w) /\ ~(n + i <= n) /\ (n + i) - n = i
    BY <1>1
  <2> HIDE DEF n
  <2> QED
    BY <1>2, <1>3, <2>1
<1> QED
  BY <1>2, <1>3, <1>4, <1>5 DEF q

LEMMA UnconsumedFacts ==
    ASSUME TypeOK
    PROVE  /\ unconsumed \in Seq(Byte)
           /\ Len(unconsumed) = (Len(buf) - pos) + Len(wire)
           /\ \A i \in 1 .. Len(buf) - pos : unconsumed[i] = buf[pos + i]
           /\ \A i \in 1 .. Len(wire) : unconsumed[(Len(buf) - pos) + i] = wire[i]
           /\ Len(buf) \in Nat /\ Len(wire) \in Nat /\ pos \in 0 .. Len(buf)
           /\ buf \in Seq(Byte) /\ wire \in Seq(Byte)
<1>1. /\ wire \in Seq(Byte) /\ buf \in Seq(Byte) /\ pos \in 0 .. Len(buf)
      /\ Len(buf) \in Nat /\ Len(wire) \in Nat
  BY DEF TypeOK
<1>2. unconsumed = Rest(buf, pos, wire)
  BY DEF unconsumed, Rest
<1> HIDE FramingAssumption
<1> QED
  BY <1>1, <1>2, RestFacts

LEMMA FramingTypeStep == TypeOK /\ [Next]_vars => TypeOK'
<1> SUFFICES ASSUME TypeOK, [Next]_vars PROVE TypeOK'
  OBVIOUS
<1>0. /\ wire \in Seq(Byte) /\ buf \in Seq(Byte) /\ pos \in 0 .. Len(buf)
      /\ Len(buf) \in Nat /\ Len(wire) \in Nat /\ Len(buf) <= Capacity
      /\ next \in 1 .. Len(Payload) + 1 /\ short \in 0 .. MaxShort
  BY DEF TypeOK
<1>1. CASE notifyHost
  <2>1. next \in Messages /\ next' \in 1 .. Len(Payload) + 1 /\ short' \in 0 .. MaxShort
    <3>1. next \in Messages /\ next' = next + 1
      BY <1>1 DEF notifyHost
    <3>2. next' \in 1 .. Len(Payload) + 1
      BY <3>1, MessageFacts
    <3>3. short' = short \/ (short < MaxShort /\ short' = short + 1)
      BY <1>1 DEF notifyHost
    <3>4. short' \in 0 .. MaxShort
      BY <1>0, <3>3
    <3> QED
      BY <3>1, <3>2, <3>4
  <2>2. wire' \in Seq(Byte)
    <3>1. Bytes(next) \in Seq(Byte) /\ Len(Bytes(next)) = Size(next) /\ Size(next) \in Nat
      BY <2>1, BytesFacts, MessageFacts
    <3>2. CASE wire' = wire \o Bytes(next)
      BY <3>1, <3>2, <1>0
    <3>3. ASSUME NEW n \in 0 .. HeaderSize + Payload[next] - 1,
                 wire' = wire \o SubSeq(Bytes(next), 1, n)
          PROVE  wire' \in Seq(Byte)
      <4>1. n \in Int /\ \A i \in 1 .. n : i \in 1 .. Size(next)
        BY <2>1, <3>3, MessageFacts
      <4>2. \A i \in 1 .. n : Bytes(next)[i] \in Byte
        BY <3>1, <4>1
      <4>3. SubSeq(Bytes(next), 1, n) \in Seq(Byte)
        BY <4>1, <4>2, SubSeqProperties
      <4> QED
        BY <3>3, <4>3, <1>0
    <3> QED
      BY <3>2, <3>3, <1>1 DEF notifyHost
  <2> QED
    BY <1>1, <2>1, <2>2 DEF notifyHost, TypeOK
<1>2. CASE recv
  <2>1. PICK n \in 1 .. Len(wire) : /\ n <= Capacity - Len(buf)
                                    /\ buf' = buf \o SubSeq(wire, 1, n)
                                    /\ wire' = SubSeq(wire, n + 1, Len(wire))
    BY <1>2 DEF recv
  <2>2. SubSeq(wire, 1, n) \in Seq(Byte) /\ Len(SubSeq(wire, 1, n)) = n
    BY <1>0
  <2>3. wire' \in Seq(Byte)
    BY <1>0, <2>1
  <2>4. buf' \in Seq(Byte) /\ Len(buf') = Len(buf) + n
    BY <1>0, <2>1, <2>2, ConcatProperties
  <2>5. Len(buf') <= Capacity /\ pos' \in 0 .. Len(buf')
    BY <1>0, <1>2, <2>1, <2>4 DEF recv
  <2> QED
    BY <1>2, <2>3, <2>4, <2>5 DEF recv, TypeOK
<1>3. CASE Full \/ Disconnect \/ Scan
  BY <1>3 DEF Full, Disconnect, Scan, TypeOK
<1>4. CASE Extract
  <2>1. PICK p \in payload_size :
          /\ p + HeaderSize <= remaining_bytes
          /\ delivered' = IF \/ MessageAt(p + HeaderSize) = Corrupt
                             \/ MessageAt(p + HeaderSize) \in Handled
                          THEN Append(delivered, MessageAt(p + HeaderSize)) ELSE delivered
          /\ pos' = pos + p + HeaderSize
    BY <1>4 DEF Extract
  <2>2. p \in Nat
    <3>1. ASSUME NEW m \in Messages, \A k \in 1 .. HeaderSize : buf[pos + k] = <<m, k - 1>>
          PROVE  Payload[buf[pos + 1][1]] \in Nat
      <4>1. 1 \in 1 .. HeaderSize
        OBVIOUS
      <4>2. buf[pos + 1] = <<m, 0>>
        BY <3>1, <4>1
      <4> QED
        BY <4>2, MessageFacts
    <3> QED
      BY <3>1 DEF payload_size
  <2>3. p + HeaderSize <= Len(buf) - pos /\ pos < Len(buf)
    BY <1>0, <2>1, <2>2 DEF remaining_bytes
  <2>4. MessageAt(p + HeaderSize) \in Messages \cup {Corrupt}
    BY <2>3, FirstByte DEF MessageAt
  <2>5. delivered' \in Seq(Messages \cup {Corrupt})
    BY <2>1, <2>4 DEF TypeOK
  <2>6. pos' \in 0 .. Len(buf)
    BY <1>0, <2>1, <2>2, <2>3
  <2> QED
    BY <1>4, <2>5, <2>6 DEF Extract, TypeOK
<1>5. CASE MoveRest
  <2>1. buf' \in Seq(Byte) /\ Len(buf') = Len(buf) - pos
    <3>1. buf' = SubSeq(buf, pos + 1, Len(buf))
      BY <1>5 DEF MoveRest
    <3>2. \A i \in pos + 1 .. Len(buf) : buf[i] \in Byte
      BY <1>0
    <3>3. /\ buf' \in Seq(Byte)
          /\ Len(buf') = IF pos + 1 <= Len(buf) THEN Len(buf) - (pos + 1) + 1 ELSE 0
      BY <1>0, <3>1, <3>2, SubSeqProperties
    <3> QED
      BY <1>0, <3>3
  <2>2. Len(buf') <= Capacity /\ pos' \in 0 .. Len(buf')
    BY <1>0, <1>5, <2>1 DEF MoveRest
  <2> QED
    BY <1>5, <2>1, <2>2 DEF MoveRest, TypeOK
<1>6. CASE UNCHANGED vars
  BY <1>6 DEF vars, TypeOK
<1> QED
  BY <1>1, <1>2, <1>3, <1>4, <1>5, <1>6 DEF Next

\* Every behaviour is type correct: data_ptr stays within the received bytes
\* and these within the buffer, whatever payload sizes garbage shows.
THEOREM FramingTypeCorrect == Spec => []TypeOK
BY FramingTypeInit, FramingTypeStep, PTL DEF Spec

-----------------------------------------------------------------------------
(* The stream *)

\* The first j messages are consumed and the handled ones of them delivered.
Consumed(j) ==
    /\ {delivered[k] : k \in DOMAIN delivered} = Handled \cap (1 .. j)
    /\ \A i, k \in DOMAIN delivered : i < k => delivered[i] < delivered[k]
    /\ IsStream(unconsumed, j + 1, next - 1)

\* Outside the loop data_ptr is at the start of the buffer, and where the
\* receiver waits, the buffer holds no complete message.
AtStart == pc # "parse" => pos = 0
Incomplete ==
    short = 0 /\ pc = "recv" => buf = <<>> \/ Len(buf) < Size(buf[1][1])

StreamInv == StreamIntact /\ AtStart /\ Incomplete /\ EndsOnlyForCause

LEMMA StreamInit == Init => StreamInv
<1> SUFFICES ASSUME Init PROVE StreamInv
  OBVIOUS
<1>1. TypeOK
  BY FramingTypeInit
<1>2. unconsumed \in Seq(Byte) /\ Len(unconsumed) = 0
  BY <1>1, UnconsumedFacts DEF Init
<1>3. unconsumed = <<>>
  BY <1>2
<1>4. IsStream(unconsumed, 1, 0)
  BY <1>3 DEF IsStream
<1>5. {delivered[k] : k \in DOMAIN delivered} = Handled \cap (1 .. 0)
  BY DEF Init
<1>6. StreamIntact
  <2>1. 0 \in 0 .. next - 1 /\ 0 + 1 = 1 /\ next - 1 = 0
    BY DEF Init
  <2> QED
    BY <1>4, <1>5, <2>1 DEF StreamIntact, Init
<1> QED
  BY <1>6 DEF StreamInv, AtStart, Incomplete, EndsOnlyForCause, Init

\* What the bytes at data_ptr are: the start of the next message.
LEMMA NextMessage ==
    ASSUME TypeOK, NEW j \in 0 .. next - 1, Consumed(j), pos < Len(buf)
    PROVE  /\ j + 1 \in Messages /\ j + 1 <= next - 1 /\ buf[pos + 1][1] = j + 1
           /\ \A k \in 1 .. Len(buf) - pos :
                 k <= Size(j + 1) => buf[pos + k] = <<j + 1, k - 1>>
<1>1. /\ unconsumed \in Seq(Byte)
      /\ Len(unconsumed) = (Len(buf) - pos) + Len(wire)
      /\ \A i \in 1 .. Len(buf) - pos : unconsumed[i] = buf[pos + i]
      /\ Len(buf) \in Nat /\ Len(wire) \in Nat /\ pos \in 0 .. Len(buf)
  BY UnconsumedFacts
<1>2. unconsumed # <<>> /\ 1 \in 1 .. Len(buf) - pos
  BY <1>1
<1>3. j + 1 \in Nat /\ next - 1 \in Nat
  BY DEF TypeOK
<1>4. /\ j + 1 \in Messages /\ j + 1 <= next - 1
      /\ \A k \in 1 .. Len(unconsumed) : k <= Size(j + 1) => unconsumed[k] = <<j + 1, k - 1>>
  BY <1>1, <1>2, <1>3, StreamHead DEF Consumed
<1>5. Size(j + 1) \in Nat /\ Size(j + 1) >= 1
  BY <1>4, MessageFacts
<1>6. ASSUME NEW k \in 1 .. Len(buf) - pos, k <= Size(j + 1)
      PROVE  buf[pos + k] = <<j + 1, k - 1>>
  <2>1. k \in 1 .. Len(unconsumed) /\ unconsumed[k] = buf[pos + k]
    BY <1>1
  <2> QED
    BY <2>1, <1>4, <1>6
<1>7. buf[pos + 1] = <<j + 1, 0>>
  BY <1>2, <1>5, <1>6
<1> QED
  BY <1>4, <1>6, <1>7

\* So the header at data_ptr, once it is there, shows the right size.
LEMMA HeaderRead ==
    ASSUME TypeOK, NEW j \in 0 .. next - 1, Consumed(j), remaining_bytes >= HeaderSize
    PROVE  payload_size = {Payload[j + 1]}
<1>1. pos < Len(buf) /\ pos \in Nat /\ Len(buf) \in Nat
  BY DEF TypeOK, remaining_bytes
<1>2. /\ j + 1 \in Messages /\ buf[pos + 1][1] = j + 1
      /\ \A k \in 1 .. Len(buf) - pos :
            k <= Size(j + 1) => buf[pos + k] = <<j + 1, k - 1>>
  BY <1>1, NextMessage
<1>3. Size(j + 1) \in Nat /\ Size(j + 1) >= HeaderSize
  BY <1>2, MessageFacts
<1>4. \A k \in 1 .. HeaderSize : buf[pos + k] = <<j + 1, k - 1>>
  <2> SUFFICES ASSUME NEW k \in 1 .. HeaderSize PROVE buf[pos + k] = <<j + 1, k - 1>>
    OBVIOUS
  <2>1. k \in 1 .. Len(buf) - pos /\ k <= Size(j + 1)
    BY <1>1, <1>3 DEF remaining_bytes
  <2> QED
    BY <2>1, <1>2
<1> QED
  BY <1>2, <1>4 DEF payload_size

\* Steps that only move bytes between the wire and the buffer.
LEMMA BytesMoved ==
    ASSUME StreamIntact, unconsumed' = unconsumed,
           next' = next, short' = short, delivered' = delivered
    PROVE  StreamIntact'
<1> SUFFICES ASSUME short' = 0
             PROVE  \E j \in 0 .. next - 1 :
                      /\ {delivered[k] : k \in DOMAIN delivered} = Handled \cap (1 .. j)
                      /\ \A i, k \in DOMAIN delivered : i < k => delivered[i] < delivered[k]
                      /\ IsStream(unconsumed', j + 1, next - 1)
  BY DEF StreamIntact
<1> QED
  BY DEF StreamIntact

\* A complete send puts the next message at the end of the stream.
LEMMA SendsNext ==
    ASSUME TypeOK, StreamInv, notifyHost, short' = 0
    PROVE  \E j \in 0 .. next - 1 : j \in 0 .. next' - 1 /\ Consumed(j) /\ Consumed(j)'
<1>1. /\ next \in Messages /\ next' = next + 1 /\ next \in Nat /\ next >= 1
      /\ buf' = buf /\ pos' = pos /\ delivered' = delivered
  BY MessageFacts DEF notifyHost
<1>2. short = 0 /\ wire' = wire \o Bytes(next)
  BY DEF notifyHost, TypeOK
<1>3. PICK j \in 0 .. next - 1 : Consumed(j)
  BY <1>2 DEF StreamInv, StreamIntact, Consumed
<1>4. unconsumed' = unconsumed \o Bytes(next)
  <2>1. /\ wire \in Seq(Byte) /\ Bytes(next) \in Seq(Byte)
        /\ SubSeq(buf, pos + 1, Len(buf)) \in Seq(Byte)
    <3>1. buf \in Seq(Byte) /\ pos \in 0 .. Len(buf) /\ Len(buf) \in Nat /\ wire \in Seq(Byte)
      BY DEF TypeOK
    <3>2. \A i \in pos + 1 .. Len(buf) : buf[i] \in Byte
      BY <3>1
    <3>3. SubSeq(buf, pos + 1, Len(buf)) \in Seq(Byte)
      BY <3>1, <3>2, SubSeqProperties
    <3> QED
      BY <3>1, <3>3, <1>1, BytesFacts
  <2> DEFINE r == SubSeq(buf, pos + 1, Len(buf))
             m == Bytes(next)
  <2>2. unconsumed' = r \o (wire \o m) /\ unconsumed = r \o wire
    BY <1>1, <1>2 DEF unconsumed
  <2>3. r \in Seq(Byte) /\ m \in Seq(Byte)
    BY <2>1
  <2> HIDE DEF r, m
  <2> HIDE FramingAssumption
  <2>4. (r \o wire) \o m = r \o (wire \o m)
    BY <2>1, <2>3, ConcatAssociative
  <2>5. unconsumed' = unconsumed \o m
    BY <2>2, <2>4
  <2> QED
    BY <2>5 DEF m
<1>5. /\ j + 1 \in Nat /\ next - 1 \in Nat /\ (next - 1) + 1 = next
      /\ j + 1 <= (next - 1) + 1
  BY <1>1
<1>6. unconsumed \in Seq(Byte)
  BY UnconsumedFacts
<1>7. IsStream(unconsumed \o Bytes((next - 1) + 1), j + 1, (next - 1) + 1)
  BY <1>1, <1>3, <1>5, <1>6, StreamAppend DEF Consumed
<1>8. IsStream(unconsumed', j + 1, next' - 1) /\ j \in 0 .. next' - 1
  <2>1. next' - 1 = next /\ j \in 0 .. next' - 1
    BY <1>1
  <2> QED
    BY <1>4, <1>5, <1>7, <2>1
<1> QED
  BY <1>1, <1>3, <1>8 DEF Consumed

LEMMA StreamSend == TypeOK /\ StreamInv /\ notifyHost => StreamIntact'
<1> SUFFICES ASSUME TypeOK, StreamInv, notifyHost, short' = 0 PROVE StreamIntact'
  BY DEF StreamIntact
<1> QED
  BY SendsNext DEF StreamIntact, Consumed

LEMMA RecvMoves ==
    ASSUME TypeOK, TypeOK', recv
    PROVE  unconsumed' = unconsumed
<1>1. PICK n \in 1 .. Len(wire) : /\ buf' = buf \o SubSeq(wire, 1, n)
                                  /\ wire' = SubSeq(wire, n + 1, Len(wire))
  BY DEF recv
<1>2. /\ buf \in Seq(Byte) /\ wire \in Seq(Byte) /\ Len(buf) \in Nat /\ Len(wire) \in Nat
      /\ pos \in 0 .. Len(buf) /\ pos' = pos
  BY DEF TypeOK, recv
<1>3. /\ Len(buf') = Len(buf) + n
      /\ \A i \in 1 .. Len(buf) : buf'[i] = buf[i]
      /\ \A i \in 1 .. n : buf'[Len(buf) + i] = wire[i]
  BY <1>1, <1>2
<1>4. /\ Len(wire') = Len(wire) - n
      /\ \A i \in 1 .. Len(wire) - n : wire'[i] = wire[n + i]
  BY <1>1, <1>2
<1>5. /\ unconsumed' \in Seq(Byte)
      /\ Len(unconsumed') = (Len(buf') - pos) + Len(wire')
      /\ \A i \in 1 .. Len(buf') - pos : unconsumed'[i] = buf'[pos + i]
      /\ \A i \in 1 .. Len(wire') : unconsumed'[(Len(buf') - pos) + i] = wire'[i]
  <2>1. buf' \in Seq(Byte) /\ wire' \in Seq(Byte) /\ pos \in 0 .. Len(buf')
    BY <1>2 DEF TypeOK
  <2>2. unconsumed' = Rest(buf', pos, wire')
    BY <1>2 DEF unconsumed, Rest
  <2> HIDE FramingAssumption
  <2> QED
    BY <2>1, <2>2, RestFacts
<1>6. /\ unconsumed \in Seq(Byte)
      /\ Len(unconsumed) = (Len(buf) - pos) + Len(wire)
      /\ \A i \in 1 .. Len(buf) - pos : unconsumed[i] = buf[pos + i]
      /\ \A i \in 1 .. Len(wire) : unconsumed[(Len(buf) - pos) + i] = wire[i]
  BY UnconsumedFacts
<1>7. Len(unconsumed') = Len(unconsumed)
  BY <1>2, <1>3, <1>4, <1>5, <1>6
<1>8. ASSUME NEW i \in 1 .. Len(unconsumed) PROVE unconsumed'[i] = unconsumed[i]
  <2> DEFINE r == Len(buf) - pos
  <2>1. r \in Nat /\ Len(buf') - pos = r + n
    BY <1>2, <1>3
  <2>2. CASE i <= r
    <3>1. i \in 1 .. r /\ i \in 1 .. r + n /\ pos + i \in 1 .. Len(buf)
      BY <2>1, <2>2, <1>2
    <3> QED
      BY <3>1, <2>1, <1>3, <1>5, <1>6
  <2>3. CASE i > r /\ i <= r + n
    <3>1. /\ i \in 1 .. r + n /\ i - r \in 1 .. n /\ i - r \in 1 .. Len(wire)
          /\ pos + i = Len(buf) + (i - r) /\ r + (i - r) = i
      BY <2>1, <2>3, <1>2
    <3>2. unconsumed'[i] = wire[i - r]
      BY <3>1, <2>1, <1>3, <1>5
    <3>3. unconsumed[r + (i - r)] = wire[i - r]
      BY <3>1, <1>6
    <3> QED
      BY <3>1, <3>2, <3>3
  <2>4. CASE i > r + n
    <3> DEFINE k == i - (r + n)
    <3>1. /\ k \in 1 .. Len(wire') /\ k \in 1 .. Len(wire) - n
          /\ n + k \in 1 .. Len(wire) /\ (r + n) + k = i /\ r + (n + k) = i
      BY <2>1, <2>4, <1>2, <1>4, <1>6
    <3> HIDE DEF k, r
    <3>2. unconsumed'[(r + n) + k] = wire[n + k]
      BY <3>1, <2>1, <1>4, <1>5
    <3>3. unconsumed[r + (n + k)] = wire[n + k]
      BY <3>1, <1>6 DEF r
    <3> QED
      BY <3>1, <3>2, <3>3
  <2> QED
    BY <2>1, <2>2, <2>3, <2>4
<1> QED
  BY <1>5, <1>6, <1>7, <1>8, SeqEqual

LEMMA StreamRecv == TypeOK /\ TypeOK' /\ StreamInv /\ recv => StreamIntact'
BY RecvMoves, BytesMoved DEF recv, StreamInv

LEMMA MoveRestMoves ==
    ASSUME TypeOK, TypeOK', MoveRest
    PROVE  unconsumed' = unconsumed
<1>1. buf' = SubSeq(buf, pos + 1, Len(buf)) /\ pos' = 0 /\ wire' = wire
  BY DEF MoveRest
<1>2. buf' \in Seq(Byte)
  BY DEF TypeOK
<1>3. SubSeq(buf', 1, Len(buf')) = buf'
  BY <1>2, SubSeqFull
<1>4. unconsumed' = SubSeq(buf', 1, Len(buf')) \o wire
  BY <1>1 DEF unconsumed
<1> QED
  BY <1>1, <1>3, <1>4 DEF unconsumed

LEMMA StreamMoveRest == TypeOK /\ TypeOK' /\ StreamInv /\ MoveRest => StreamIntact'
BY MoveRestMoves, BytesMoved DEF MoveRest, StreamInv

\* A turn of the loop takes the first message that is left.
LEMMA ExtractsNext ==
    ASSUME TypeOK, TypeOK', StreamInv, Extract, short' = 0
    PROVE  \E j \in 0 .. next - 1 :
             /\ j + 1 \in 0 .. next' - 1 /\ Consumed(j) /\ Consumed(j + 1)'
             /\ delivered' = IF j + 1 \in Handled THEN Append(delivered, j + 1) ELSE delivered
<1>1. PICK p \in payload_size :
        /\ p + HeaderSize <= remaining_bytes
        /\ delivered' = IF \/ MessageAt(p + HeaderSize) = Corrupt
                           \/ MessageAt(p + HeaderSize) \in Handled
                        THEN Append(delivered, MessageAt(p + HeaderSize)) ELSE delivered
        /\ pos' = pos + p + HeaderSize
  BY DEF Extract
<1>2. /\ short = 0 /\ next' = next /\ buf' = buf /\ wire' = wire
  BY DEF Extract
<1>3. PICK j \in 0 .. next - 1 : Consumed(j)
  BY <1>2 DEF StreamInv, StreamIntact, Consumed
<1>4. /\ buf \in Seq(Byte) /\ wire \in Seq(Byte) /\ Len(buf) \in Nat /\ Len(wire) \in Nat
      /\ pos \in 0 .. Len(buf) /\ next \in Nat /\ pos' \in 0 .. Len(buf)
  BY <1>2 DEF TypeOK
<1>5. p \in Nat
  <2>1. CASE remaining_bytes >= HeaderSize
    <3>1. pos < Len(buf) /\ payload_size = {Payload[j + 1]}
      BY <2>1, <1>3, <1>4, HeaderRead DEF remaining_bytes
    <3> QED
      BY <3>1, <1>3, NextMessage, MessageFacts
  <2>2. CASE ~(remaining_bytes >= HeaderSize)
    BY <2>2 DEF payload_size
  <2> QED
    BY <2>1, <2>2
<1>6. remaining_bytes >= HeaderSize /\ pos < Len(buf)
  BY <1>1, <1>4, <1>5 DEF remaining_bytes
<1> DEFINE m == j + 1
<1>7. /\ m \in Messages /\ m <= next - 1 /\ buf[pos + 1][1] = m
      /\ \A k \in 1 .. Len(buf) - pos : k <= Size(m) => buf[pos + k] = <<m, k - 1>>
  BY <1>3, <1>6, NextMessage
<1>8. p + HeaderSize = Size(m) /\ Size(m) \in Nat /\ Size(m) >= 1 /\ m \in Nat /\ m # Corrupt
  <2>1. p = Payload[m]
    BY <1>3, <1>6, HeaderRead
  <2> QED
    BY <2>1, <1>5, <1>7, MessageFacts DEF Corrupt
<1>9. Size(m) <= Len(buf) - pos /\ pos' = pos + Size(m)
  BY <1>1, <1>4, <1>5, <1>8 DEF remaining_bytes
<1> HIDE DEF m
<1>10. MessageAt(Size(m)) = m
  <2> DEFINE t == SubSeq(buf, pos + 1, pos + Size(m))
  <2>1. \A i \in pos + 1 .. pos + Size(m) : buf[i] \in Byte
    BY <1>4, <1>8, <1>9
  <2>2. pos + 1 \in Int /\ pos + Size(m) \in Int
    BY <1>4, <1>8
  <2>3. /\ t \in Seq(Byte)
        /\ Len(t) = IF pos + 1 <= pos + Size(m) THEN (pos + Size(m)) - (pos + 1) + 1 ELSE 0
        /\ \A i \in 1 .. (pos + Size(m)) - (pos + 1) + 1 : t[i] = buf[(pos + 1) + i - 1]
    BY <2>1, <2>2, SubSeqProperties
  <2> HIDE DEF t
  <2>4. /\ Bytes(m) \in Seq(Byte) /\ Len(Bytes(m)) = Size(m)
        /\ \A k \in 1 .. Size(m) : Bytes(m)[k] = <<m, k - 1>>
    BY <1>7, BytesFacts
  <2>5. Len(t) = Len(Bytes(m))
    BY <1>4, <1>8, <2>3, <2>4
  <2>6. ASSUME NEW i \in 1 .. Len(t) PROVE t[i] = Bytes(m)[i]
    <3>1. /\ i \in 1 .. Size(m) /\ i \in 1 .. Len(buf) - pos /\ i <= Size(m)
          /\ (pos + 1) + i - 1 = pos + i
          /\ i \in 1 .. (pos + Size(m)) - (pos + 1) + 1
      BY <1>4, <1>8, <1>9, <2>4, <2>5
    <3>2. t[i] = buf[pos + i]
      BY <2>3, <3>1
    <3> QED
      BY <1>7, <2>4, <3>1, <3>2
  <2>7. t = Bytes(m)
    BY <2>3, <2>4, <2>5, <2>6, SeqEqual
  <2> QED
    BY <1>7, <2>7 DEF MessageAt, t
<1>11. delivered' = IF m \in Handled THEN Append(delivered, m) ELSE delivered
  BY <1>1, <1>8, <1>10
<1>12. IsStream(unconsumed', m + 1, next - 1)
  <2>0. /\ Len(buf) \in Nat /\ Len(wire) \in Nat /\ pos \in Nat
        /\ Size(m) \in Nat /\ Size(m) >= 1 /\ Size(m) <= Len(buf) - pos
        /\ pos' = pos + Size(m)
    BY <1>4, <1>8, <1>9
  <2>1. /\ unconsumed \in Seq(Byte)
        /\ Len(unconsumed) = (Len(buf) - pos) + Len(wire)
        /\ \A i \in 1 .. Len(buf) - pos : unconsumed[i] = buf[pos + i]
        /\ \A i \in 1 .. Len(wire) : unconsumed[(Len(buf) - pos) + i] = wire[i]
    BY UnconsumedFacts
  <2>2. /\ unconsumed' \in Seq(Byte)
        /\ Len(unconsumed') = (Len(buf) - pos') + Len(wire)
        /\ \A i \in 1 .. Len(buf) - pos' : unconsumed'[i] = buf[pos' + i]
        /\ \A i \in 1 .. Len(wire) : unconsumed'[(Len(buf) - pos') + i] = wire[i]
    <3>1. unconsumed' = Rest(buf, pos', wire)
      BY <1>2 DEF unconsumed, Rest
    <3> HIDE FramingAssumption
    <3> QED
      BY <1>4, <3>1, RestFacts
  <2>3. IsStream(unconsumed, m, next - 1) /\ next - 1 \in Nat
    <3>1. next - 1 \in Nat
      BY <1>4, <1>7, <1>8
    <3> QED
      BY <1>3, <3>1 DEF Consumed, m
  <2>4. /\ Len(unconsumed') = Len(unconsumed) - Size(m) /\ Len(unconsumed) >= Size(m)
        /\ unconsumed # <<>>
    <3>1. /\ Len(unconsumed) = (Len(buf) - pos) + Len(wire)
          /\ Len(unconsumed') = (Len(buf) - (pos + Size(m))) + Len(wire)
      BY <1>9, <2>1, <2>2
    <3>2. /\ Len(unconsumed') = Len(unconsumed) - Size(m) /\ Len(unconsumed) >= Size(m)
          /\ Len(unconsumed) # 0
      BY <2>0, <3>1
    <3> QED
      BY <3>2
  <2>5. ASSUME NEW i \in 1 .. Len(unconsumed') PROVE unconsumed'[i] = unconsumed[i + Size(m)]
    <3>1. CASE i <= Len(buf) - pos'
      <4>1. i \in Nat /\ i >= 1
        BY <2>2
      <4>2. /\ i \in 1 .. Len(buf) - pos' /\ i + Size(m) \in 1 .. Len(buf) - pos
            /\ pos' + i = pos + (i + Size(m))
        BY <3>1, <4>1, <1>4, <1>8, <1>9
      <4>3. unconsumed'[i] = buf[pos + (i + Size(m))]
        BY <4>2, <2>2
      <4> QED
        BY <4>2, <4>3, <2>1
    <3>2. CASE i > Len(buf) - pos'
      <4> DEFINE k == i - (Len(buf) - pos')
      <4>0. i \in Nat /\ i <= (Len(buf) - pos') + Len(wire)
        BY <2>2
      <4>1. /\ k \in 1 .. Len(wire) /\ (Len(buf) - pos') + k = i
            /\ (Len(buf) - pos) + k = i + Size(m)
        <5>1. i > Len(buf) - (pos + Size(m)) /\ i <= (Len(buf) - (pos + Size(m))) + Len(wire)
          BY <3>2, <4>0, <2>0
        <5>2. k = i - (Len(buf) - (pos + Size(m)))
          BY <2>0
        <5> HIDE DEF k
        <5>3. i \in Nat
          BY <4>0
        <5>4. k \in Int /\ k >= 1 /\ k <= Len(wire)
          BY <2>0, <5>1, <5>2, <5>3
        <5>5. (Len(buf) - pos) + k = i + Size(m) /\ (Len(buf) - (pos + Size(m))) + k = i
          BY <2>0, <5>2, <5>3, <5>4
        <5> QED
          BY <2>0, <5>4, <5>5
      <4> HIDE DEF k
      <4>2. unconsumed'[(Len(buf) - pos') + k] = wire[k]
        BY <2>2, <4>1
      <4>3. unconsumed[(Len(buf) - pos) + k] = wire[k]
        BY <2>1, <4>1
      <4> QED
        BY <4>1, <4>2, <4>3
    <3> QED
      BY <3>1, <3>2, <1>4
  <2> QED
    BY <1>8, <2>1, <2>2, <2>3, <2>4, <2>5, StreamDrop
<1>13. /\ {delivered'[k] : k \in DOMAIN delivered'} = Handled \cap (1 .. m)
       /\ \A i, k \in DOMAIN delivered' : i < k => delivered'[i] < delivered'[k]
  <2>1. /\ delivered \in Seq(Messages \cup {Corrupt}) /\ Len(delivered) \in Nat
        /\ DOMAIN delivered = 1 .. Len(delivered)
    BY DEF TypeOK
  <2>2. /\ {delivered[k] : k \in DOMAIN delivered} = Handled \cap (1 .. j)
        /\ \A i, k \in DOMAIN delivered : i < k => delivered[i] < delivered[k]
    BY <1>3 DEF Consumed
  <2>3. 1 .. m = (1 .. j) \cup {m} /\ m \notin 1 .. j
    BY <1>8 DEF m
  <2>4. CASE m \notin Handled
    BY <2>2, <2>3, <2>4, <1>11
  <2>5. CASE m \in Handled
    <3> DEFINE n == Len(delivered)
    <3>1. delivered' = Append(delivered, m)
      BY <2>5, <1>11
    <3>2. /\ DOMAIN delivered' = 1 .. n + 1
          /\ \A k \in 1 .. n : delivered'[k] = delivered[k]
          /\ delivered'[n + 1] = m
      BY <1>7, <2>1, <3>1
    <3>3. 1 .. n + 1 = (1 .. n) \cup {n + 1}
      BY <2>1
    <3> HIDE DEF n
    <3>4. {delivered'[k] : k \in DOMAIN delivered'} =
             {delivered[k] : k \in DOMAIN delivered} \cup {m}
      BY <2>1, <3>2, <3>3 DEF n
    <3>5. ASSUME NEW i \in 1 .. n + 1, NEW k \in 1 .. n + 1, i < k
          PROVE  delivered'[i] < delivered'[k]
      <4>1. CASE k \in 1 .. n
        <5>1. i \in 1 .. n
          BY <4>1, <2>1, <3>5 DEF n
        <5> QED
          BY <4>1, <5>1, <2>1, <2>2, <3>2, <3>5 DEF n
      <4>2. CASE k = n + 1
        <5>1. i \in 1 .. n
          BY <4>2, <2>1, <3>5 DEF n
        <5>2. delivered[i] \in 1 .. j
          BY <5>1, <2>1, <2>2 DEF n
        <5>3. delivered[i] < m
          BY <5>2, <1>8 DEF m
        <5> QED
          BY <4>2, <5>1, <5>3, <3>2
      <4> QED
        BY <4>1, <4>2, <3>3
    <3> QED
      BY <2>2, <2>3, <2>5, <3>2, <3>4, <3>5
  <2> QED
    BY <2>4, <2>5
<1>14. m \in 0 .. next' - 1
  BY <1>2, <1>4, <1>7, <1>8
<1>15. Consumed(m)'
  BY <1>2, <1>12, <1>13 DEF Consumed
<1> QED
  BY <1>3, <1>11, <1>14, <1>15 DEF m

LEMMA StreamExtract == TypeOK /\ TypeOK' /\ StreamInv /\ Extract => StreamIntact'
<1> SUFFICES ASSUME TypeOK, TypeOK', StreamInv, Extract, short' = 0 PROVE StreamIntact'
  BY DEF StreamIntact
<1> QED
  BY ExtractsNext DEF StreamIntact, Consumed

\* Where the receiver waits again, what is left is part of one message.
LEMMA IncompleteMoveRest == TypeOK /\ TypeOK' /\ StreamInv /\ MoveRest => Incomplete'
<1> SUFFICES ASSUME TypeOK, TypeOK', StreamInv, MoveRest, short' = 0, buf' # <<>>
             PROVE  Len(buf') < Size(buf'[1][1])
  BY DEF Incomplete
<1>1. PICK p \in payload_size : p + HeaderSize > remaining_bytes
  BY DEF MoveRest
<1>2. /\ buf \in Seq(Byte) /\ Len(buf) \in Nat /\ pos \in 0 .. Len(buf) /\ short = 0
      /\ buf' = SubSeq(buf, pos + 1, Len(buf))
  BY DEF TypeOK, MoveRest
<1>3. /\ Len(buf') = Len(buf) - pos
      /\ \A i \in 1 .. Len(buf) - pos : buf'[i] = buf[pos + i]
  <2>1. \A i \in pos + 1 .. Len(buf) : buf[i] \in Byte
    BY <1>2
  <2>2. pos + 1 \in Int /\ Len(buf) \in Int
    BY <1>2
  <2>3. /\ Len(buf') = IF pos + 1 <= Len(buf) THEN Len(buf) - (pos + 1) + 1 ELSE 0
        /\ \A i \in 1 .. Len(buf) - (pos + 1) + 1 : buf'[i] = buf[(pos + 1) + i - 1]
    BY <1>2, <2>1, <2>2, SubSeqProperties
  <2> QED
    BY <1>2, <2>3
<1>4. pos < Len(buf) /\ buf'[1] = buf[pos + 1]
  <2>1. Len(buf') # 0
    BY DEF TypeOK
  <2> QED
    BY <1>2, <1>3, <2>1
<1>5. PICK j \in 0 .. next - 1 : Consumed(j)
  BY <1>2 DEF StreamInv, StreamIntact, Consumed
<1>6. j + 1 \in Messages /\ buf'[1][1] = j + 1
  BY <1>4, <1>5, NextMessage
<1>7. Size(j + 1) \in Nat /\ Size(j + 1) >= HeaderSize /\ Size(j + 1) = HeaderSize + Payload[j + 1]
  BY <1>6, MessageFacts
<1>8. CASE remaining_bytes >= HeaderSize
  <2>1. p = Payload[j + 1]
    BY <1>5, <1>8, HeaderRead
  <2>2. Payload[j + 1] \in Nat
    BY <1>6, MessageFacts
  <2> QED
    BY <1>1, <1>2, <1>3, <1>6, <1>7, <2>1, <2>2 DEF remaining_bytes
<1>9. CASE ~(remaining_bytes >= HeaderSize)
  BY <1>2, <1>3, <1>6, <1>7, <1>9 DEF remaining_bytes
<1> QED
  BY <1>8, <1>9

LEMMA EndsFull == TypeOK /\ StreamInv /\ Full => EndsOnlyForCause'
<1> SUFFICES ASSUME TypeOK, StreamInv, Full, short = 0
             PROVE  HeaderSize + Payload[buf[1][1]] > Capacity
  BY DEF EndsOnlyForCause, Full
<1>1. buf \in Seq(Byte) /\ Len(buf) >= Capacity /\ Len(buf) \in Nat
  BY DEF TypeOK, Full
<1>2. buf # <<>> /\ 1 \in 1 .. Len(buf)
  BY <1>1
<1>3. Len(buf) < Size(buf[1][1])
  BY <1>2 DEF StreamInv, Incomplete, Full
<1>4. buf[1][1] \in Messages
  BY <1>1, <1>2, ByteFacts
<1> QED
  BY <1>1, <1>3, <1>4, MessageFacts

LEMMA EndsScan == TypeOK /\ StreamInv /\ Scan => EndsOnlyForCause'
<1> SUFFICES ASSUME TypeOK, StreamInv, Scan, short = 0, ~DelimiterAtStart
             PROVE  Len(buf) < DelimSize
  BY DEF EndsOnlyForCause, Scan
<1>1. buf \in Seq(Byte) /\ Len(buf) \in Nat /\ pos = 0
  BY DEF TypeOK, StreamInv, AtStart, Scan
<1>2. PICK j \in 0 .. next - 1 : Consumed(j)
  BY DEF StreamInv, StreamIntact, Consumed
<1>3. SUFFICES ASSUME Len(buf) >= DelimSize PROVE DelimiterAtStart
  BY <1>1
<1>4. pos < Len(buf)
  BY <1>1, <1>3
<1>5. /\ j + 1 \in Messages
      /\ \A k \in 1 .. Len(buf) - pos :
            k <= Size(j + 1) => buf[pos + k] = <<j + 1, k - 1>>
  BY <1>2, <1>4, NextMessage
<1>6. Size(j + 1) \in Nat /\ Size(j + 1) >= HeaderSize
  BY <1>5, MessageFacts
<1>7. ASSUME NEW k \in 1 .. DelimSize PROVE buf[k] = <<j + 1, k - 1>>
  <2>1. k \in 1 .. Len(buf) - pos /\ k <= Size(j + 1) /\ pos + k = k
    BY <1>1, <1>3, <1>6
  <2> QED
    BY <1>5, <2>1
<1> QED
  BY <1>3, <1>5, <1>7 DEF DelimiterAtStart

LEMMA StreamStep == TypeOK /\ TypeOK' /\ StreamInv /\ [Next]_vars => StreamInv'
<1> SUFFICES ASSUME TypeOK, TypeOK', StreamInv, [Next]_vars PROVE StreamInv'
  OBVIOUS
<1>1. CASE notifyHost
  <2>1. /\ buf' = buf /\ pos' = pos /\ pc' = pc
        /\ short' = 0 => short = 0
    BY <1>1 DEF notifyHost, TypeOK
  <2> QED
    BY <1>1, <2>1, StreamSend DEF StreamInv, AtStart, Incomplete, EndsOnlyForCause
<1>2. CASE recv
  <2>1. pc = "recv" /\ pc' = "scan" /\ pos' = pos
    BY <1>2 DEF recv
  <2> QED
    BY <1>2, <2>1, StreamRecv DEF StreamInv, AtStart, Incomplete, EndsOnlyForCause
<1>3. CASE Full \/ Disconnect \/ Scan
  <2>1. UNCHANGED <<next, short, wire, buf, pos, delivered>> /\ pc \in {"recv", "scan"}
        /\ pc' \in {"closed", "ended", "parse", "crashed"}
    BY <1>3 DEF Full, Disconnect, Scan
  <2>2. unconsumed' = unconsumed
    BY <2>1 DEF unconsumed
  <2>3. StreamIntact'
    BY <2>1, <2>2, BytesMoved DEF StreamInv
  <2>4. AtStart' /\ Incomplete'
    BY <2>1 DEF StreamInv, AtStart, Incomplete
  <2>5. EndsOnlyForCause'
    <3>1. CASE Disconnect
      BY <3>1 DEF Disconnect, EndsOnlyForCause
    <3> QED
      BY <1>3, <3>1, EndsFull, EndsScan
  <2> QED
    BY <2>3, <2>4, <2>5 DEF StreamInv
<1>4. CASE Extract
  <2>1. pc = "parse" /\ pc' = pc
    BY <1>4 DEF Extract
  <2> QED
    BY <1>4, <2>1, StreamExtract DEF StreamInv, AtStart, Incomplete, EndsOnlyForCause
<1>5. CASE MoveRest
  <2>1. pc' = "recv" /\ pos' = 0
    BY <1>5 DEF MoveRest
  <2> QED
    BY <1>5, <2>1, StreamMoveRest, IncompleteMoveRest DEF StreamInv, AtStart, EndsOnlyForCause
<1>6. CASE UNCHANGED vars
  <2>1. unconsumed' = unconsumed
    BY <1>6 DEF unconsumed, vars
  <2> QED
    BY <1>6, <2>1, BytesMoved
       DEF vars, StreamInv, AtStart, Incomplete, EndsOnlyForCause
<1> QED
  BY <1>1, <1>2, <1>3, <1>4, <1>5, <1>6 DEF Next

LEMMA StreamAlways == Spec => [](TypeOK /\ StreamInv)
<1>1. Init => TypeOK /\ StreamInv
  BY FramingTypeInit, StreamInit
<1>2. TypeOK /\ StreamInv /\ [Next]_vars => (TypeOK /\ StreamInv)'
  BY FramingTypeStep, StreamStep
<1> QED
  BY <1>1, <1>2, PTL DEF Spec

\* For every list of messages, every size of the buffer and every way TCP cuts
\* the stream: while each send takes its whole message, the callbacks get the
\* handled messages once each and in order, and no byte is lost.
THEOREM StreamIntactHolds == Spec => []StreamIntact
BY StreamAlways, PTL DEF StreamInv

\* While each send takes its whole message, the receive loop gives up only on
\* a message larger than its buffer, and the delimiter search runs off only
\* when less than a delimiter has arrived.
THEOREM EndsOnlyForCauseHolds == Spec => []EndsOnlyForCause
BY StreamAlways, PTL DEF StreamInv

-----------------------------------------------------------------------------
(* The connection is a queue of whole messages *)

\* The messages on their way, from the bytes not consumed and the next message.
Transit(u, n) ==
    LET f == IF u = <<>> THEN n ELSE u[1][1]
    IN  [k \in 1 .. n - f |-> f + k - 1]

\* The messages j + 1 .. n - 1.
Between(j, n) == [k \in 1 .. n - 1 - j |-> j + k]

LEMMA TransitIs ==
    ASSUME NEW u \in Seq(Byte), NEW n \in Nat, NEW j \in 0 .. n - 1, IsStream(u, j + 1, n - 1)
    PROVE  Transit(u, n) = Between(j, n)
<1> DEFINE f == IF u = <<>> THEN n ELSE u[1][1]
<1>1. f = j + 1
  <2>1. CASE u = <<>>
    BY <2>1 DEF IsStream
  <2>2. CASE u # <<>>
    BY <2>2 DEF IsStream
  <2> QED
    BY <2>1, <2>2
<1>2. Transit(u, n) = [k \in 1 .. n - f |-> f + k - 1]
  BY DEF Transit
<1> HIDE DEF f
<1>3. n - f = n - 1 - j /\ \A k \in 1 .. n - f : f + k - 1 = j + k
  BY <1>1
<1> QED
  BY <1>2, <1>3 DEF Between

LEMMA BetweenFacts ==
    ASSUME NEW n \in Nat, NEW j \in 0 .. n - 1
    PROVE  /\ Between(j, n) \in Seq(Nat)
           /\ Between(j, n + 1) = Append(Between(j, n), n)
           /\ j + 1 \in 0 .. n - 1 =>
                /\ Between(j, n) # <<>> /\ Head(Between(j, n)) = j + 1
                /\ Between(j + 1, n) = Tail(Between(j, n))
<1>1. n - 1 - j \in Nat /\ n + 1 - 1 - j \in Nat
  OBVIOUS
<1>2. Between(j, n) \in Seq(Nat) /\ Len(Between(j, n)) = n - 1 - j
  BY <1>1 DEF Between
<1>3. Between(j, n + 1) = Append(Between(j, n), n)
  BY <1>1 DEF Between
<1>4. ASSUME j + 1 \in 0 .. n - 1
      PROVE  /\ Between(j, n) # <<>> /\ Head(Between(j, n)) = j + 1
             /\ Between(j + 1, n) = Tail(Between(j, n))
  <2> DEFINE q == Between(j, n)
             r == Between(j + 1, n)
  <2>1. n - 1 - j >= 1 /\ n - 1 - (j + 1) \in Nat /\ n - 1 - (j + 1) = (n - 1 - j) - 1
    BY <1>1, <1>4
  <2>2. q # <<>> /\ q[1] = j + 1 /\ \A k \in 1 .. n - 1 - j : q[k] = j + k
    BY <1>2, <2>1 DEF Between
  <2>3. /\ r \in Seq(Nat) /\ Len(r) = n - 1 - (j + 1)
        /\ \A k \in 1 .. n - 1 - (j + 1) : r[k] = (j + 1) + k
    BY <2>1 DEF Between
  <2>4. q \in Seq(Nat) /\ Len(q) = n - 1 - j
    BY <1>2
  <2> HIDE DEF q, r
  <2>5. /\ Head(q) = q[1] /\ Tail(q) \in Seq(Nat) /\ Len(Tail(q)) = Len(q) - 1
        /\ \A k \in 1 .. Len(Tail(q)) : Tail(q)[k] = q[k + 1]
    BY <2>2, <2>4
  <2>6. ASSUME NEW k \in 1 .. Len(r) PROVE r[k] = Tail(q)[k]
    BY <2>1, <2>2, <2>3, <2>4, <2>5
  <2>7. r = Tail(q)
    BY <2>1, <2>3, <2>4, <2>5, <2>6, SeqEqual
  <2> QED
    BY <2>2, <2>5, <2>7 DEF q, r
<1> QED
  BY <1>2, <1>3, <1>4

LEMMA ChannelInit == Init => Connection!Init
<1> SUFFICES ASSUME Init PROVE Connection!Init
  OBVIOUS
<1>1. TypeOK
  BY FramingTypeInit
<1>2. unconsumed \in Seq(Byte) /\ Len(unconsumed) = 0
  BY <1>1, UnconsumedFacts DEF Init
<1>3. unconsumed = <<>>
  BY <1>2
<1>4. inTransit = <<>>
  BY <1>3 DEF inTransit, firstUnread, Init
<1> QED
  BY <1>4 DEF Init, Connection!Init

LEMMA ChannelStep ==
    ASSUME TypeOK, TypeOK', StreamInv, short' = 0, [Next]_vars
    PROVE  [Connection!Next]_Connection!channelVars
<1>0. /\ inTransit = Transit(unconsumed, next) /\ inTransit' = Transit(unconsumed', next')
      /\ unconsumed \in Seq(Byte)
  BY UnconsumedFacts DEF inTransit, firstUnread, Transit
<1>1. unconsumed' \in Seq(Byte)
  <2>1. buf' \in Seq(Byte) /\ wire' \in Seq(Byte) /\ pos' \in 0 .. Len(buf')
    BY DEF TypeOK
  <2>2. unconsumed' = Rest(buf', pos', wire')
    BY DEF unconsumed, Rest
  <2> HIDE FramingAssumption
  <2> QED
    BY <2>1, <2>2, RestFacts
<1>2. next \in Nat /\ next >= 1 /\ next' \in Nat
  BY DEF TypeOK
<1>3. CASE notifyHost
  <2>1. PICK j \in 0 .. next - 1 : j \in 0 .. next' - 1 /\ Consumed(j) /\ Consumed(j)'
    BY <1>3, SendsNext
  <2>2. /\ next \in Messages /\ next' = next + 1 /\ delivered' = delivered
    BY <1>3 DEF notifyHost
  <2>3. inTransit = Between(j, next)
    BY <1>0, <1>2, <2>1, TransitIs DEF Consumed
  <2>4. inTransit' = Between(j, next + 1)
    BY <1>0, <1>1, <1>2, <2>1, <2>2, TransitIs DEF Consumed
  <2>5. inTransit' = Append(inTransit, next)
    BY <1>2, <2>3, <2>4, BetweenFacts
  <2>6. next - 1 < Len(Payload) /\ next' - 1 = (next - 1) + 1 /\ (next - 1) + 1 = next
    BY <1>2, <2>2, MessageFacts
  <2>7. Connection!Send
    BY <2>2, <2>5, <2>6 DEF Connection!Send
  <2> QED
    BY <2>7 DEF Connection!Next
<1>4. CASE Extract
  <2>1. PICK j \in 0 .. next - 1 :
          /\ j + 1 \in 0 .. next' - 1 /\ Consumed(j) /\ Consumed(j + 1)'
          /\ delivered' = IF j + 1 \in Handled THEN Append(delivered, j + 1) ELSE delivered
    BY <1>4, ExtractsNext
  <2>2. next' = next
    BY <1>4 DEF Extract
  <2>3. inTransit = Between(j, next)
    BY <1>0, <1>2, <2>1, TransitIs DEF Consumed
  <2>4. inTransit' = Between(j + 1, next)
    BY <1>0, <1>1, <1>2, <2>1, <2>2, TransitIs DEF Consumed
  <2>5. /\ inTransit # <<>> /\ Head(inTransit) = j + 1 /\ inTransit' = Tail(inTransit)
    BY <1>2, <2>1, <2>2, <2>3, <2>4, BetweenFacts
  <2>6. Connection!Receive
    BY <2>1, <2>2, <2>5 DEF Connection!Receive
  <2> QED
    BY <2>6 DEF Connection!Next
<1>5. CASE ~notifyHost /\ ~Extract
  <2>1. unconsumed' = unconsumed /\ next' = next /\ delivered' = delivered
    <3>1. CASE recv
      BY <3>1, RecvMoves DEF recv
    <3>2. CASE MoveRest
      BY <3>2, MoveRestMoves DEF MoveRest
    <3>3. CASE Full \/ Disconnect \/ Scan \/ UNCHANGED vars
      BY <3>3 DEF Full, Disconnect, Scan, vars, unconsumed
    <3> QED
      BY <1>5, <3>1, <3>2, <3>3 DEF Next
  <2>2. inTransit' = inTransit
    BY <1>0, <2>1
  <2> QED
    BY <2>1, <2>2 DEF Connection!channelVars
<1> QED
  BY <1>3, <1>4, <1>5

\* The non-blocking sends, the receive loops and extractItemsModifyBuffer
\* implement a queue of whole messages, in every behaviour in which no send is
\* cut short: each step appends the next message, takes the first one, or
\* changes nothing the two ends can see.
THEOREM ImplementsChannel == Spec /\ [](short = 0) => Connection!Spec
<1>1. Init => Connection!Init
  BY ChannelInit
<1>2. TypeOK /\ TypeOK' /\ StreamInv /\ (short = 0)' /\ [Next]_vars
        => [Connection!Next]_Connection!channelVars
  BY ChannelStep
<1> QED
  BY <1>1, <1>2, StreamAlways, PTL DEF Spec, Connection!Spec

=============================================================================
