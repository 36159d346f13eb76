----------------------------- MODULE WireProofs -----------------------------
(***************************************************************************)
(* What PieceTransfer takes for granted when it puts records on a stream   *)
(* and sets in place of bitfields: what one side serialises is what the    *)
(* other side reads, neither more nor less, a handshake taken for a        *)
(* message is never complete, and SetPiece adds one element.               *)
(***************************************************************************)
EXTENDS Wire, SequenceTheorems, TLAPS

\* A number of 32 bits is put into four bytes and got back from them.
LEMMA PutGet32 ==
    ASSUME NEW v \in Nat, v < Max32
    PROVE  /\ PutUint32(v) \in Seq(Byte) /\ Len(PutUint32(v)) = 4
           /\ Uint32(PutUint32(v), 1) = v
<1> DEFINE a == (v \div 16777216) % 256
           b == (v \div 65536) % 256
           c == (v \div 256) % 256
           d == v % 256
<1>1. a \in Byte /\ b \in Byte /\ c \in Byte /\ d \in Byte
  BY DEF Byte
<1>2. a * 16777216 + b * 65536 + c * 256 + d = v
  BY SMTT(30) DEF Max32
<1>3. PutUint32(v) = <<a, b, c, d>>
  BY SMTT(30) DEF PutUint32
<1> HIDE DEF a, b, c, d
<1> QED
  BY SMTT(30), <1>1, <1>2, <1>3 DEF Uint32

\* A port is put into two bytes and got back from them.
LEMMA PutGet16 ==
    ASSUME NEW v \in Nat, v < Max16
    PROVE  /\ PutUint16(v) \in Seq(Byte) /\ Len(PutUint16(v)) = 2
           /\ Uint16(PutUint16(v), 1) = v
<1>1. (v \div 256) % 256 \in Byte /\ v % 256 \in Byte
  BY DEF Byte
<1>2. ((v \div 256) % 256) * 256 + (v % 256) = v
  BY SMTT(30) DEF Max16
<1> QED
  BY SMTT(30), <1>1, <1>2 DEF PutUint16, Uint16

-----------------------------------------------------------------------------
(* Streams                                                                 *)

\* What a concatenation is made of.
LEMMA Cat ==
    ASSUME NEW a \in Seq(Byte), NEW b \in Seq(Byte)
    PROVE  /\ a \o b \in Seq(Byte) /\ Len(a \o b) = Len(a) + Len(b)
           /\ \A k \in 1 .. Len(a) : (a \o b)[k] = a[k]
           /\ \A k \in 1 .. Len(b) : (a \o b)[Len(a) + k] = b[k]
BY ConcatProperties

\* Concatenation is associative.
LEMMA Assoc ==
    ASSUME NEW a \in Seq(Byte), NEW b \in Seq(Byte), NEW c \in Seq(Byte)
    PROVE  (a \o b) \o c = a \o (b \o c) /\ b \o c \in Seq(Byte)
<1>1. (a \o b) \o c = a \o (b \o c)
  BY ConcatAssociative
<1>2. b \o c \in Seq(Byte)
  BY Cat
<1> QED BY <1>1, <1>2

\* A part of a sequence is known by its elements.
LEMMA Part ==
    ASSUME NEW n \in Nat, NEW b \in Seq(Byte), NEW s, \A k \in 1 .. Len(b) : s[n + k] = b[k]
    PROVE  SubSeq(s, n + 1, n + Len(b)) = b
<1> DEFINE t == SubSeq(s, n + 1, n + Len(b))
<1>1. Len(b) \in Nat /\ \A k \in 1 .. Len(b) : b[k] \in Byte
  OBVIOUS
<1>2. \A k \in n + 1 .. n + Len(b) : s[k] \in Byte
  <2> SUFFICES ASSUME NEW k \in n + 1 .. n + Len(b) PROVE s[k] \in Byte
    OBVIOUS
  <2>1. k - n \in 1 .. Len(b) /\ k = n + (k - n)
    BY <1>1
  <2>2. s[n + (k - n)] = b[k - n]
    BY <2>1
  <2>3. b[k - n] \in Byte
    BY <1>1, <2>1
  <2> QED
    BY <2>1, <2>2, <2>3
<1>3. /\ t \in Seq(Byte) /\ Len(t) = IF n + 1 <= n + Len(b) THEN n + Len(b) - (n + 1) + 1 ELSE 0
      /\ \A i \in 1 .. n + Len(b) - (n + 1) + 1 : t[i] = s[n + 1 + i - 1]
  <2>1. n + 1 \in Int /\ n + Len(b) \in Int
    BY <1>1
  <2> QED
    BY <1>2, <2>1, SubSeqProperties
<1> HIDE DEF t
<1>4. Len(t) = Len(b)
  BY <1>1, <1>3
<1>5. \A k \in 1 .. Len(b) : t[k] = b[k]
  <2> SUFFICES ASSUME NEW k \in 1 .. Len(b) PROVE t[k] = b[k]
    OBVIOUS
  <2>1. k \in 1 .. n + Len(b) - (n + 1) + 1 /\ n + 1 + k - 1 = n + k
    BY <1>1
  <2> QED
    BY <1>3, <2>1
<1>6. t = b
  BY <1>3, <1>4, <1>5, SeqEqual
<1> QED
  BY <1>6 DEF t

\* What is left after the first of two parts.
LEMMA Rest ==
    ASSUME NEW a \in Seq(Byte), NEW b \in Seq(Byte)
    PROVE  Drop(a \o b, Len(a)) = b
<1> DEFINE s == a \o b
<1>1. Len(s) = Len(a) + Len(b) /\ \A k \in 1 .. Len(b) : s[Len(a) + k] = b[k]
  BY Cat
<1>2. Len(a) \in Nat
  OBVIOUS
<1> HIDE DEF s
<1>3. SubSeq(s, Len(a) + 1, Len(a) + Len(b)) = b
  BY <1>1, <1>2, Part
<1>4. Drop(s, Len(a)) = b
  BY <1>1, <1>3 DEF Drop
<1> QED
  BY <1>4 DEF s

\* The middle of three parts.
LEMMA Middle ==
    ASSUME NEW a \in Seq(Byte), NEW b \in Seq(Byte), NEW c \in Seq(Byte)
    PROVE  SubSeq(a \o b \o c, Len(a) + 1, Len(a) + Len(b)) = b
<1> DEFINE ab == a \o b
           s  == ab \o c
<1>1. Len(a) \in Nat /\ Len(b) \in Nat
  OBVIOUS
<1>2. /\ ab \in Seq(Byte) /\ Len(ab) = Len(a) + Len(b)
      /\ \A k \in 1 .. Len(b) : ab[Len(a) + k] = b[k]
  BY Cat
<1> HIDE DEF ab
<1>3. \A k \in 1 .. Len(ab) : s[k] = ab[k]
  BY <1>2, Cat
<1> HIDE DEF s
<1>4. \A k \in 1 .. Len(b) : s[Len(a) + k] = b[k]
  <2> SUFFICES ASSUME NEW k \in 1 .. Len(b) PROVE s[Len(a) + k] = b[k]
    OBVIOUS
  <2>1. Len(a) + k \in 1 .. Len(ab)
    BY <1>1, <1>2
  <2> QED
    BY <1>2, <1>3, <2>1
<1>5. SubSeq(s, Len(a) + 1, Len(a) + Len(b)) = b
  BY <1>1, <1>4, Part
<1> QED
  BY <1>5 DEF s, ab

-----------------------------------------------------------------------------
(* Messages                                                                *)

\* The layout of a serialised message with something behind it.
LEMMA Layout ==
    ASSUME NEW m \in Message, Len(m.Payload) + 1 < Max32, NEW rest \in Seq(Byte)
    PROVE  LET s == Serialize(m) \o rest IN
           /\ Serialize(m) \in Seq(Byte) /\ Len(Serialize(m)) = 5 + Len(m.Payload)
           /\ Len(s) = 5 + Len(m.Payload) + Len(rest)
           /\ Uint32(s, 1) = Len(m.Payload) + 1
           /\ s[5] = m.ID
           /\ SubSeq(s, 6, 5 + Len(m.Payload)) = m.Payload
           /\ Drop(s, 5 + Len(m.Payload)) = rest
<1> DEFINE n == Len(m.Payload) + 1
           p == PutUint32(n)
           i == <<m.ID>>
           y == m.Payload
           h == p \o i
           hy == h \o y
           s == hy \o rest
<1>1. m.ID \in Byte /\ y \in Seq(Byte) /\ Len(y) \in Nat /\ n \in Nat /\ Len(rest) \in Nat
  BY DEF Message
<1>2. p \in Seq(Byte) /\ Len(p) = 4 /\ Uint32(p, 1) = n
  BY <1>1, PutGet32
<1>3. i \in Seq(Byte) /\ Len(i) = 1 /\ i[1] = m.ID
  BY <1>1
<1>4. Serialize(m) = hy
  BY DEF Serialize
<1>5. n = Len(y) + 1
  OBVIOUS
<1> HIDE DEF n, p, i, y
<1>6. /\ h \in Seq(Byte) /\ Len(h) = Len(p) + Len(i)
      /\ \A k \in 1 .. Len(p) : h[k] = p[k]
      /\ \A k \in 1 .. Len(i) : h[Len(p) + k] = i[k]
  BY <1>2, <1>3, Cat
<1>7. /\ Len(h) = 5 /\ h[5] = m.ID
      /\ h[1] = p[1] /\ h[2] = p[2] /\ h[3] = p[3] /\ h[4] = p[4]
  BY <1>2, <1>3, <1>6
<1> HIDE DEF h
<1>8. /\ hy \in Seq(Byte) /\ Len(hy) = Len(h) + Len(y)
      /\ \A k \in 1 .. Len(h) : hy[k] = h[k]
  BY <1>1, <1>6, Cat
<1>9. SubSeq(hy \o rest, Len(h) + 1, Len(h) + Len(y)) = y
  BY <1>1, <1>6, Middle
<1> HIDE DEF hy
<1>10. Len(s) = Len(hy) + Len(rest) /\ \A k \in 1 .. Len(hy) : s[k] = hy[k]
  BY <1>8, Cat
<1>11. Drop(s, Len(hy)) = rest
  BY <1>8, Rest
<1>12. SubSeq(s, Len(h) + 1, Len(h) + Len(y)) = y
  BY <1>9
<1> HIDE DEF s
<1>13. Len(hy) = 5 + Len(y) /\ Len(s) = 5 + Len(y) + Len(rest)
  BY <1>7, <1>8, <1>10
<1>14. \A k \in 1 .. 5 : s[k] = h[k]
  BY <1>1, <1>7, <1>8, <1>10, <1>13
<1>15. s[1] = p[1] /\ s[2] = p[2] /\ s[3] = p[3] /\ s[4] = p[4] /\ s[5] = m.ID
  BY <1>7, <1>14
<1>16. Uint32(s, 1) = Uint32(p, 1)
  BY SMTT(30), <1>15 DEF Uint32
<1>17. SubSeq(s, 6, 5 + Len(y)) = y
  <2>1. Len(h) + 1 = 6 /\ Len(h) + Len(y) = 5 + Len(y)
    BY <1>7
  <2> QED
    BY <1>12, <2>1
<1>18. Drop(s, 5 + Len(y)) = rest
  BY <1>11, <1>13
<1> QED
  BY <1>2, <1>4, <1>5, <1>8, <1>13, <1>15, <1>16, <1>17, <1>18 DEF s, y

\* message.Read on the bytes of Serialize gives the message back and leaves what
\* comes behind it on the stream, whatever that is: messages stay apart.
THEOREM MessageRoundTrip ==
    ASSUME NEW m \in Message, Len(m.Payload) + 1 < Max32, NEW rest \in Seq(Byte)
    PROVE  Read(Serialize(m) \o rest) = Got(m, rest)
<1> DEFINE s == Serialize(m) \o rest
           n == Len(m.Payload)
<1>1. n \in Nat /\ Len(rest) \in Nat
  BY DEF Message
<1>2. m = [ID |-> m.ID, Payload |-> m.Payload]
  BY DEF Message
<1>3. /\ Len(s) = 5 + n + Len(rest) /\ Uint32(s, 1) = n + 1
      /\ s[5] = m.ID /\ SubSeq(s, 6, 5 + n) = m.Payload /\ Drop(s, 5 + n) = rest
  BY Layout
<1> HIDE DEF s, n
<1>4. Len(s) = 5 + n + Len(rest) /\ Uint32(s, 1) = n + 1
  BY <1>3
<1>5. 4 + Uint32(s, 1) = 5 + n /\ Uint32(s, 1) > 0 /\ Len(s) >= 4 /\ Len(s) >= 4 + Uint32(s, 1)
  BY <1>1, <1>4
<1>6. Read(s) = Got([ID |-> s[5], Payload |-> SubSeq(s, 6, 4 + Uint32(s, 1))],
                    Drop(s, 4 + Uint32(s, 1)))
  BY SMTT(30), <1>4, <1>5, <1>1 DEF Read
<1>7. Read(s) = Got([ID |-> m.ID, Payload |-> m.Payload], rest)
  BY <1>3, <1>5, <1>6
<1> QED
  BY <1>2, <1>7 DEF s

\* The length prefix 0 is a keep-alive and nothing else is taken off the stream.
THEOREM KeepAliveRoundTrip ==
    ASSUME NEW rest \in Seq(Byte)
    PROVE  Read(SerializeKeepAlive \o rest) = KeepAlive(rest)
<1> DEFINE k == SerializeKeepAlive
           s == k \o rest
<1>1. k \in Seq(Byte) /\ Len(k) = 4 /\ k[1] = 0 /\ k[2] = 0 /\ k[3] = 0 /\ k[4] = 0
  BY DEF SerializeKeepAlive, Byte
<1> HIDE DEF k
<1>2. Len(s) = 4 + Len(rest) /\ \A i \in 1 .. 4 : s[i] = k[i]
  <2>1. Len(s) = Len(k) + Len(rest) /\ \A i \in 1 .. Len(k) : s[i] = k[i]
    BY <1>1, Cat
  <2> HIDE DEF s
  <2> QED
    BY <1>1, <2>1
<1>3. Drop(s, 4) = rest
  <2>1. Drop(k \o rest, Len(k)) = rest
    BY <1>1, Rest
  <2> QED
    BY <1>1, <2>1
<1> HIDE DEF s
<1>4. s[1] = 0 /\ s[2] = 0 /\ s[3] = 0 /\ s[4] = 0
  BY <1>1, <1>2
<1>5. Uint32(s, 1) = 0
  BY SMTT(30), <1>4 DEF Uint32
<1>6. Len(s) >= 4
  <2>1. Len(rest) \in Nat
    OBVIOUS
  <2> QED
    BY <1>2, <2>1
<1>7. Read(s) = KeepAlive(Drop(s, 4))
  BY SMTT(30), <1>5, <1>6 DEF Read
<1> QED
  BY <1>3, <1>7 DEF s, k

\* A request, a have and a port arrive with the numbers they were sent with, as
\* long as these fit into the fields: 32 bits, and 16 for a port.
THEOREM NumbersArrive ==
    ASSUME NEW i \in Nat, i < Max32, NEW b \in Nat, b < Max32, NEW l \in Nat, l < Max32,
           NEW port \in Nat, port < Max16, NEW rest \in Seq(Byte)
    PROVE  /\ LET r == Read(Serialize(FormatRequest(i, b, l)) \o rest)
              IN  /\ r = Got(FormatRequest(i, b, l), rest)
                  /\ ParseRequest(r.msg) = [kind |-> "request", index |-> i, begin |-> b, length |-> l]
           /\ LET r == Read(Serialize(FormatHave(i)) \o rest)
              IN  r = Got(FormatHave(i), rest) /\ ParseHave(r.msg) = [kind |-> "have", index |-> i]
           /\ LET r == Read(Serialize(FormatPort(port)) \o rest)
              IN  r = Got(FormatPort(port), rest) /\ ParsePort(r.msg) = [kind |-> "port", port |-> port]
<1> DEFINE p == PutUint32(i)
           q == PutUint32(b)
           t == PutUint32(l)
           w == PutUint16(port)
           y == p \o q \o t
<1>1. /\ p \in Seq(Byte) /\ Len(p) = 4 /\ Uint32(p, 1) = i
      /\ q \in Seq(Byte) /\ Len(q) = 4 /\ Uint32(q, 1) = b
      /\ t \in Seq(Byte) /\ Len(t) = 4 /\ Uint32(t, 1) = l
  BY PutGet32
<1>2. w \in Seq(Byte) /\ Len(w) = 2 /\ Uint16(w, 1) = port
  BY PutGet16
<1>3. /\ FormatRequest(i, b, l) = [ID |-> 6, Payload |-> y]
      /\ FormatHave(i) = [ID |-> 4, Payload |-> p] /\ FormatPort(port) = [ID |-> 9, Payload |-> w]
  BY DEF FormatRequest, FormatHave, FormatPort, MsgRequest, MsgHave, MsgPort
<1> HIDE DEF p, q, t, w
<1>4. /\ y \in Seq(Byte) /\ Len(y) = 12
      /\ Uint32(y, 1) = i /\ Uint32(y, 5) = b /\ Uint32(y, 9) = l
  <2> DEFINE pq == p \o q
  <2>1. /\ pq \in Seq(Byte) /\ Len(pq) = Len(p) + Len(q)
        /\ \A k \in 1 .. Len(p) : pq[k] = p[k]
        /\ \A k \in 1 .. Len(q) : pq[Len(p) + k] = q[k]
    BY <1>1, Cat
  <2> HIDE DEF pq
  <2> DEFINE x == pq \o t
  <2>2. /\ x \in Seq(Byte) /\ Len(x) = Len(pq) + Len(t)
        /\ \A k \in 1 .. Len(pq) : x[k] = pq[k]
        /\ \A k \in 1 .. Len(t) : x[Len(pq) + k] = t[k]
    BY <1>1, <2>1, Cat
  <2>3. y = x
    BY DEF pq
  <2> HIDE DEF x, y
  <2>4. Len(p) = 4 /\ Len(q) = 4 /\ Len(t) = 4 /\ Len(pq) = 8 /\ Len(x) = 12
    BY <1>1, <2>1, <2>2
  <2>5. /\ pq[1] = p[1] /\ pq[2] = p[2] /\ pq[3] = p[3] /\ pq[4] = p[4]
        /\ pq[5] = q[1] /\ pq[6] = q[2] /\ pq[7] = q[3] /\ pq[8] = q[4]
    BY <2>1, <2>4
  <2>6. /\ x[1] = pq[1] /\ x[2] = pq[2] /\ x[3] = pq[3] /\ x[4] = pq[4]
        /\ x[5] = pq[5] /\ x[6] = pq[6] /\ x[7] = pq[7] /\ x[8] = pq[8]
        /\ x[9] = t[1] /\ x[10] = t[2] /\ x[11] = t[3] /\ x[12] = t[4]
    BY <2>2, <2>4
  <2>7. Uint32(x, 1) = Uint32(p, 1) /\ Uint32(x, 5) = Uint32(q, 1) /\ Uint32(x, 9) = Uint32(t, 1)
    BY SMTT(30), <2>5, <2>6 DEF Uint32
  <2> QED
    BY <1>1, <2>2, <2>3, <2>4, <2>7
<1> HIDE DEF y
<1>5. ASSUME NEW m \in Message, Len(m.Payload) \in {2, 4, 12}
      PROVE  Read(Serialize(m) \o rest) = Got(m, rest) /\ Read(Serialize(m) \o rest).msg = m
  <2>1. Len(m.Payload) + 1 < Max32
    <3>1. Len(m.Payload) = 2 \/ Len(m.Payload) = 4 \/ Len(m.Payload) = 12
      BY <1>5
    <3> DEFINE n == Len(m.Payload)
    <3>2. n = 2 \/ n = 4 \/ n = 12
      BY <3>1
    <3> HIDE DEF n
    <3>3. n + 1 < Max32
      BY SMTT(30), <3>2 DEF Max32
    <3> QED
      BY <3>3 DEF n
  <2> QED
    BY <2>1, MessageRoundTrip DEF Got
<1>6. /\ [ID |-> 6, Payload |-> y] \in Message /\ [ID |-> 4, Payload |-> p] \in Message
      /\ [ID |-> 9, Payload |-> w] \in Message
  BY <1>1, <1>2, <1>4 DEF Message, Byte
<1>7. ParseRequest([ID |-> 6, Payload |-> y])
         = [kind |-> "request", index |-> i, begin |-> b, length |-> l]
  <2> DEFINE r == [ID |-> 6, Payload |-> y]
  <2>1. r.ID = 6 /\ r.Payload = y
    OBVIOUS
  <2> HIDE DEF r
  <2>2. ~(r.ID # 6 \/ Len(r.Payload) < 12)
    <3>1. Len(r.Payload) = 12
      BY <1>4, <2>1
    <3> QED
      BY <2>1, <3>1
  <2>3. ParseRequest(r) = [kind |-> "request", index |-> Uint32(r.Payload, 1),
                           begin |-> Uint32(r.Payload, 5), length |-> Uint32(r.Payload, 9)]
    BY Zenon, <2>2 DEF ParseRequest, MsgRequest
  <2> QED
    BY <1>4, <2>1, <2>3 DEF r
<1>8. ParseHave([ID |-> 4, Payload |-> p]) = [kind |-> "have", index |-> i]
  BY <1>1 DEF ParseHave, MsgHave
<1>9. ParsePort([ID |-> 9, Payload |-> w]) = [kind |-> "port", port |-> port]
  BY <1>2 DEF ParsePort, MsgPort
<1>10. Read(Serialize([ID |-> 6, Payload |-> y]) \o rest) = Got([ID |-> 6, Payload |-> y], rest)
       /\ Read(Serialize([ID |-> 6, Payload |-> y]) \o rest).msg = [ID |-> 6, Payload |-> y]
  BY <1>4, <1>5, <1>6
<1>11. Read(Serialize([ID |-> 4, Payload |-> p]) \o rest) = Got([ID |-> 4, Payload |-> p], rest)
       /\ Read(Serialize([ID |-> 4, Payload |-> p]) \o rest).msg = [ID |-> 4, Payload |-> p]
  BY <1>1, <1>5, <1>6
<1>12. Read(Serialize([ID |-> 9, Payload |-> w]) \o rest) = Got([ID |-> 9, Payload |-> w], rest)
       /\ Read(Serialize([ID |-> 9, Payload |-> w]) \o rest).msg = [ID |-> 9, Payload |-> w]
  BY <1>2, <1>5, <1>6
<1> QED
  BY <1>3, <1>7, <1>8, <1>9, <1>10, <1>11, <1>12

-----------------------------------------------------------------------------
(* Handshakes                                                              *)

\* The name of the protocol, and how it begins.
LEMMA PstrBytes ==
    Pstr \in Seq(Byte) /\ Len(Pstr) = 19 /\ Pstr[1] = 66 /\ Pstr[2] = 105 /\ Pstr[3] = 116
BY DEF Pstr, Byte

\* The layout of a serialised handshake with something behind it.
LEMMA HandshakeLayout ==
    ASSUME NEW h \in Handshake, NEW rest \in Seq(Byte)
    PROVE  LET s == SerializeHandshake(h) \o rest IN
           /\ Len(s) = 68 + Len(rest)
           /\ s[1] = 19 /\ s[2] = 66 /\ s[3] = 105 /\ s[4] = 116
           /\ SubSeq(s, 2, 20) = h.Pstr
           /\ s[28] = IF h.DhtSupport THEN 1 ELSE 0
           /\ SubSeq(s, 29, 48) = h.InfoHash /\ SubSeq(s, 49, 68) = h.PeerID
           /\ Drop(s, 68) = rest
<1> DEFINE a == <<19>>
           p == h.Pstr
           r == Reserved(h.DhtSupport)
           f == h.InfoHash
           e == h.PeerID
           ap == a \o p
           apr == ap \o r
           aprf == apr \o f
           all == aprf \o e
           s == all \o rest
<1>0. a \in Seq(Byte) /\ p \in Seq(Byte)
  <2>1. a \in Seq(Byte)
    BY DEF Byte
  <2>2. p = Pstr
    BY DEF Handshake
  <2> QED
    BY <2>1, <2>2, PstrBytes
<1>1. /\ Len(a) = 1 /\ a[1] = 19
      /\ Len(p) = 19 /\ p[1] = 66 /\ p[2] = 105 /\ p[3] = 116
  <2>1. Len(a) = 1 /\ a[1] = 19
    OBVIOUS
  <2>2. p = Pstr
    BY DEF Handshake
  <2> QED
    BY <2>1, <2>2, PstrBytes
<1>2. r \in Seq(Byte) /\ Len(r) = 8 /\ r[8] = IF h.DhtSupport THEN 1 ELSE 0
  BY DEF Reserved, Byte
<1>3. f \in Seq(Byte) /\ Len(f) = 20 /\ e \in Seq(Byte) /\ Len(e) = 20
  BY DEF Handshake, Hash
<1>4. SerializeHandshake(h) = all
  BY <1>1 DEF SerializeHandshake
<1> HIDE DEF a, p, r, f, e
<1>5. /\ ap \in Seq(Byte) /\ Len(ap) = Len(a) + Len(p)
      /\ \A k \in 1 .. Len(a) : ap[k] = a[k]
      /\ \A k \in 1 .. Len(p) : ap[Len(a) + k] = p[k]
  BY <1>0, Cat
<1> HIDE DEF ap
<1>6. Len(ap) = 20 /\ ap[1] = 19 /\ ap[2] = 66 /\ ap[3] = 105 /\ ap[4] = 116
  BY <1>1, <1>5
<1>7. /\ apr \in Seq(Byte) /\ Len(apr) = Len(ap) + Len(r)
      /\ \A k \in 1 .. Len(ap) : apr[k] = ap[k]
      /\ \A k \in 1 .. Len(r) : apr[Len(ap) + k] = r[k]
  BY <1>2, <1>5, Cat
<1> HIDE DEF apr
<1>8. Len(apr) = 28 /\ apr[28] = r[8] /\ \A k \in 1 .. 4 : apr[k] = ap[k]
  BY <1>2, <1>6, <1>7
<1>9. /\ aprf \in Seq(Byte) /\ Len(aprf) = Len(apr) + Len(f)
      /\ \A k \in 1 .. Len(apr) : aprf[k] = apr[k]
  BY <1>3, <1>7, Cat
<1> HIDE DEF aprf
<1>10. /\ all \in Seq(Byte) /\ Len(all) = Len(aprf) + Len(e)
       /\ \A k \in 1 .. Len(aprf) : all[k] = aprf[k]
  BY <1>3, <1>9, Cat
<1>11. SubSeq(aprf \o e \o rest, Len(aprf) + 1, Len(aprf) + Len(e)) = e
  BY <1>3, <1>9, Middle
<1>12. SubSeq(s, Len(aprf) + 1, Len(aprf) + Len(e)) = e
  BY <1>11
<1>13. s = aprf \o (e \o rest) /\ e \o rest \in Seq(Byte)
  <2>1. aprf \in Seq(Byte) /\ e \in Seq(Byte)
    BY <1>3, <1>9
  <2> QED BY <2>1, Assoc, ZenonT(30)
<1> HIDE DEF all
<1>14. Len(s) = Len(all) + Len(rest) /\ \A k \in 1 .. Len(all) : s[k] = all[k]
  BY <1>10, Cat
<1>15. Drop(s, Len(all)) = rest
  BY <1>10, Rest
<1> HIDE DEF s
<1>16. Len(aprf) = 48 /\ Len(all) = 68
  BY <1>3, <1>8, <1>9, <1>10
<1>17. Len(s) = 68 + Len(rest) /\ Drop(s, 68) = rest
  BY <1>14, <1>15, <1>16
<1>18. SubSeq(s, 49, 68) = e
  BY <1>3, <1>12, <1>16
<1>19. SubSeq(s, 29, 48) = f
  <2> DEFINE er == e \o rest
  <2>1. er \in Seq(Byte)
    BY <1>13
  <2>2. s = aprf \o er
    BY <1>13
  <2> HIDE DEF er
  <2>3. SubSeq(apr \o f \o er, Len(apr) + 1, Len(apr) + Len(f)) = f
    BY <1>3, <1>7, <2>1, Middle
  <2>4. s = apr \o f \o er
    BY <2>2 DEF aprf
  <2>5. SubSeq(s, Len(apr) + 1, Len(apr) + Len(f)) = f
    BY <2>3, <2>4
  <2> QED
    BY <1>3, <1>8, <2>5
<1>20. SubSeq(s, 2, 20) = p
  <2> DEFINE er  == e \o rest
             fer == f \o er
             g   == r \o fer
  <2>1. er \in Seq(Byte)
    BY <1>13
  <2>2. s = aprf \o er
    BY <1>13
  <2> HIDE DEF er
  <2>3. (apr \o f) \o er = apr \o (f \o er) /\ f \o er \in Seq(Byte)
    <3>1. apr \in Seq(Byte) /\ f \in Seq(Byte)
      BY <1>3, <1>7
    <3> QED BY <2>1, <3>1, Assoc, ZenonT(30)
  <2>4. s = apr \o fer /\ fer \in Seq(Byte)
    BY <2>2, <2>3 DEF aprf
  <2> HIDE DEF fer
  <2>5. (ap \o r) \o fer = ap \o (r \o fer) /\ r \o fer \in Seq(Byte)
    <3>1. ap \in Seq(Byte) /\ r \in Seq(Byte) /\ fer \in Seq(Byte)
      BY <1>2, <1>5, <2>4
    <3> QED BY <3>1, Assoc, ZenonT(30)
  <2>6. s = ap \o g /\ g \in Seq(Byte)
    BY <2>4, <2>5 DEF apr
  <2> HIDE DEF g
  <2>7. SubSeq(a \o p \o g, Len(a) + 1, Len(a) + Len(p)) = p
    BY <1>0, <2>6, Middle
  <2>8. SubSeq(s, Len(a) + 1, Len(a) + Len(p)) = p
    BY <2>6, <2>7 DEF ap
  <2>9. Len(a) + 1 = 2 /\ Len(a) + Len(p) = 20
    BY <1>1
  <2> QED
    BY <2>8, <2>9
<1>21. \A k \in {1, 2, 3, 4, 28} : s[k] = apr[k]
  <2> SUFFICES ASSUME NEW k \in {1, 2, 3, 4, 28} PROVE s[k] = apr[k]
    OBVIOUS
  <2>1. k \in 1 .. 28 /\ k \in 1 .. 48 /\ k \in 1 .. 68
    OBVIOUS
  <2>2. aprf[k] = apr[k]
    BY <1>8, <1>9, <2>1
  <2>3. all[k] = aprf[k]
    BY <1>10, <1>16, <2>1
  <2>4. s[k] = all[k]
    BY <1>14, <1>16, <2>1
  <2> QED
    BY <2>2, <2>3, <2>4
<1>22. s[1] = 19 /\ s[2] = 66 /\ s[3] = 105 /\ s[4] = 116
  BY <1>6, <1>8, <1>21
<1>23. s[28] = IF h.DhtSupport THEN 1 ELSE 0
  BY <1>2, <1>8, <1>21
<1>24. SerializeHandshake(h) \o rest = s
  BY <1>4 DEF s
<1>25. p = h.Pstr /\ f = h.InfoHash /\ e = h.PeerID
  BY DEF p, f, e
<1> QED
  BY <1>17, <1>18, <1>19, <1>20, <1>22, <1>23, <1>24, <1>25, ZenonT(120)

\* handshake.Read on the bytes of Serialize gives the handshake back and leaves
\* the messages behind it on the stream.
THEOREM HandshakeRoundTrip ==
    ASSUME NEW h \in Handshake, NEW rest \in Seq(Byte)
    PROVE  ReadHandshake(SerializeHandshake(h) \o rest) = Got(h, rest)
<1> DEFINE s == SerializeHandshake(h) \o rest
<1>1. /\ Len(s) = 68 + Len(rest) /\ s[1] = 19 /\ SubSeq(s, 2, 20) = h.Pstr
      /\ s[28] = (IF h.DhtSupport THEN 1 ELSE 0)
      /\ SubSeq(s, 29, 48) = h.InfoHash /\ SubSeq(s, 49, 68) = h.PeerID /\ Drop(s, 68) = rest
  BY HandshakeLayout, ZenonT(60)
<1>2. /\ h.DhtSupport \in BOOLEAN
      /\ h = [Pstr |-> h.Pstr, InfoHash |-> h.InfoHash, PeerID |-> h.PeerID,
              DhtSupport |-> h.DhtSupport]
  BY DEF Handshake
<1> HIDE DEF s
<1>3. (s[28] % 2 = 1) = h.DhtSupport
  <2>1. CASE h.DhtSupport = TRUE
    <3>1. s[28] = 1
      BY <1>1, <2>1
    <3>2. s[28] % 2 = 1
      BY <3>1
    <3> QED
      BY <2>1, <3>2
  <2>2. CASE h.DhtSupport = FALSE
    <3>1. s[28] = 0
      BY <1>1, <2>2
    <3>2. ~(s[28] % 2 = 1)
      BY <3>1
    <3> QED
      BY <2>2, <3>2
  <2> QED
    BY <1>2, <2>1, <2>2
<1>4. ReadHandshake(s) = Got([Pstr |-> SubSeq(s, 2, 20), InfoHash |-> SubSeq(s, 29, 48),
                              PeerID |-> SubSeq(s, 49, 68), DhtSupport |-> s[28] % 2 = 1],
                             Drop(s, 68))
  <2>1. Len(rest) \in Nat /\ Len(s) = 68 + Len(rest) /\ s[1] = 19
    BY <1>1
  <2>2. /\ Len(s) # 0 /\ Len(s) > 0 /\ s[1] > 0 /\ s[1] # 0
        /\ Len(s) >= 49 + s[1] /\ ~(Len(s) < 49 + s[1])
    BY <2>1
  <2>3. ReadHandshake(s) =
           Got([Pstr |-> SubSeq(s, 2, s[1] + 1),
                InfoHash |-> SubSeq(s, s[1] + 10, s[1] + 29),
                PeerID |-> SubSeq(s, s[1] + 30, s[1] + 49),
                DhtSupport |-> s[s[1] + 9] % 2 = 1], Drop(s, s[1] + 49))
    BY <2>2 DEF ReadHandshake
  <2>4. /\ s[1] + 1 = 20 /\ s[1] + 10 = 29 /\ s[1] + 29 = 48
        /\ s[1] + 30 = 49 /\ s[1] + 49 = 68 /\ s[1] + 9 = 28
    BY <2>1
  <2> QED
    BY <2>3, <2>4
<1> QED
  BY <1>1, <1>2, <1>3, <1>4 DEF s

\* What the first four bytes of a handshake, 19 and "Bit", are as a length prefix.
PrefixOfHandshake == 323119476

\* A handshake that is read as a message announces 323 million bytes: the read
\* waits for them, and what follows on the stream is never seen.
THEOREM HandshakeIsNoMessage ==
    ASSUME NEW h \in Handshake, NEW rest \in Seq(Byte), 68 + Len(rest) < 4 + PrefixOfHandshake
    PROVE  Read(SerializeHandshake(h) \o rest) = Incomplete
<1> DEFINE s == SerializeHandshake(h) \o rest
<1>1. /\ Len(s) = 68 + Len(rest)
      /\ s[1] = 19 /\ s[2] = 66 /\ s[3] = 105 /\ s[4] = 116
      /\ SubSeq(s, 2, 20) = h.Pstr
      /\ s[28] = IF h.DhtSupport THEN 1 ELSE 0
      /\ SubSeq(s, 29, 48) = h.InfoHash /\ SubSeq(s, 49, 68) = h.PeerID
      /\ Drop(s, 68) = rest
  BY HandshakeLayout
<1> HIDE DEF s
<1>2. /\ s[1] = 19 /\ s[2] = 66 /\ s[3] = 105 /\ s[4] = 116
      /\ Len(s) = 68 + Len(rest) /\ Len(rest) \in Nat
  BY <1>1
<1>3. Uint32(s, 1) = PrefixOfHandshake
  BY SMTT(30), <1>2 DEF Uint32, PrefixOfHandshake
<1>4. PrefixOfHandshake \in Nat /\ PrefixOfHandshake > 0
  BY SMT DEF PrefixOfHandshake
<1> DEFINE n == Uint32(s, 1)
<1>5. Len(s) \in Nat /\ n \in Nat /\ Len(s) >= 4 /\ n > 0 /\ n # 0 /\ Len(s) < 4 + n
  BY SMT, <1>2, <1>3, <1>4
<1>6. Read(s) = Incomplete
  BY SMTT(30), <1>5 DEF Read
<1> QED
  BY <1>6 DEF s

-----------------------------------------------------------------------------
(* Bitfields                                                               *)

\* Two pieces have different bits.
LEMMA BitOfPiece ==
    ASSUME NEW i \in Nat
    PROVE  /\ i \div 8 \in Nat /\ i % 8 \in 0 .. 7
           /\ i = 8 * (i \div 8) + (i % 8)
OBVIOUS

\* SetPiece adds the piece to the set the bitfield stands for, or nothing when
\* the bitfield has no room for it: it disturbs no other piece.  Bitfields can
\* be sets in PieceTransfer.
THEOREM SetPieceAddsOne ==
    ASSUME NEW n \in Nat, NEW bf \in Bitfields(n), NEW i \in Nat
    PROVE  /\ SetPiece(bf, n, i) \in Bitfields(n)
           /\ PieceSet(SetPiece(bf, n, i), n)
                 = PieceSet(bf, n) \cup (IF i < 8 * n THEN {i} ELSE {})
<1>1. SetPiece(bf, n, i) \in Bitfields(n)
  BY BitOfPiece DEF SetPiece, Bitfields, Bits
<1>2. ASSUME NEW j \in Nat
      PROVE  HasPiece(SetPiece(bf, n, i), n, j)
                <=> HasPiece(bf, n, j) \/ (j = i /\ i < 8 * n)
  <2>1. j \div 8 \in Nat /\ j % 8 \in 0 .. 7 /\ j = 8 * (j \div 8) + (j % 8)
    BY BitOfPiece
  <2>2. i \div 8 \in Nat /\ i % 8 \in 0 .. 7 /\ i = 8 * (i \div 8) + (i % 8)
    BY BitOfPiece
  <2>3. i < 8 * n <=> i \div 8 < n
    BY <2>2
  <2>4. j = i <=> j \div 8 = i \div 8 /\ j % 8 = i % 8
    BY <2>1, <2>2
  <2>5. ASSUME NEW a \in 0 .. n - 1, NEW b \in 0 .. n - 1, NEW o \in 0 .. 7, NEW p \in 0 .. 7
        PROVE  [bf EXCEPT ![a][o] = 1][b][p] # 0 <=> bf[b][p] # 0 \/ (a = b /\ o = p)
    BY DEF Bitfields, Bits
  <2>6. CASE i \div 8 < n /\ j \div 8 < n
    <3> DEFINE a == i \div 8
               b == j \div 8
               o == i % 8
               p == j % 8
               new == [bf EXCEPT ![a][o] = 1]
    <3>1. a \in 0 .. n - 1 /\ b \in 0 .. n - 1 /\ o \in 0 .. 7 /\ p \in 0 .. 7
      BY <2>1, <2>2, <2>6
    <3>2. new[b][p] # 0 <=> bf[b][p] # 0 \/ (a = b /\ o = p)
      BY <3>1, <2>5
    <3>3. SetPiece(bf, n, i) = new
      BY <2>6 DEF SetPiece
    <3>4. HasPiece(new, n, j) <=> new[b][p] # 0
      BY <2>6 DEF HasPiece
    <3>5. HasPiece(bf, n, j) <=> bf[b][p] # 0
      BY <2>6 DEF HasPiece
    <3>6. j = i /\ i < 8 * n <=> a = b /\ o = p
      BY <2>3, <2>4, <2>6
    <3> HIDE DEF a, b, o, p, new
    <3> QED
      BY <3>2, <3>3, <3>4, <3>5, <3>6
  <2>7. CASE ~(i \div 8 < n)
    BY <2>3, <2>7 DEF HasPiece, SetPiece
  <2>8. CASE i \div 8 < n /\ ~(j \div 8 < n)
    BY <2>4, <2>8 DEF HasPiece
  <2> QED
    BY <2>6, <2>7, <2>8
<1> QED
  BY <1>1, <1>2 DEF PieceSet
=============================================================================
