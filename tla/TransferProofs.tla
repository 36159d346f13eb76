--------------------------- MODULE TransferProofs ---------------------------
(***************************************************************************)
(* Theorems about PieceTransfer, for every length of the torrents, their   *)
(* pieces and their blocks, and every backlog.                             *)
(***************************************************************************)
EXTENDS PieceTransfer, FiniteSetTheorems, SequenceTheorems, TLAPS

-----------------------------------------------------------------------------
(* The inductive invariant                                                 *)

\* What the leecher sends.  A request never reaches beyond its piece.
RequestMsg ==
    {m \in [kind : {"request"}, index : Piece, begin : Nat, length : Nat \ {0}] :
        m.begin + m.length <= PieceSize(m.index)}
ServerMsg ==
    [kind : {"handshake"}, torrent : {Wanted}, dht : {ClientDht}] \cup [kind : {"port"}]
    \cup RequestMsg \cup [kind : {"have"}, index : Piece]

\* What a seeder of torrent t sends.
PieceMsg == [kind : {"piece"}, index : Piece, begin : Nat, data : Seq(Torrents \X Nat)]
ClientMsg(t) ==
    [kind : {"handshake"}, torrent : {Wanted}, dht : {ClientDht}]
    \cup [kind : {"bitfield"}, pieces : {PiecesOf(t)}]
    \cup [kind : {"port", "choke", "unchoke", "keepalive"}]
    \cup PieceMsg \cup [kind : {"have"}, index : Piece]

Streams == toServer \in Seq(ServerMsg) /\ toClient \in Seq(ClientMsg(served))

Types ==
    /\ late \in BOOLEAN /\ choked \in BOOLEAN /\ served \in Torrents
    /\ cpc \in {"hello", "handshake", "bitfield", "idle", "fetch", "garbled", "check",
                "closed", "fatal"}
    /\ has \subseteq Piece \cup PiecesOf(served)
    /\ work \in Piece /\ DOMAIN results \subseteq Piece
    /\ cpc = "fetch" => DOMAIN buf = 0 .. Length - 1
    /\ requested \in 0 .. Length /\ downloaded \in Nat
    /\ backlog \in Int /\ backlog <= MaxBacklog
    /\ hpc \in {"handshake", "serve", "panic", "gone"}
    /\ noticed \in 0 .. MaxNotices

\* No handshake comes on a stream any more.
Greeted(s) == \A i \in 1 .. Len(s) : s[i].kind # "handshake"

\* The handshake comes first.
HandshakeOrder ==
    /\ cpc = "hello" => hpc = "handshake" /\ toServer = <<>>
    /\ hpc = "handshake" =>
          /\ toClient = <<>>
          /\ cpc # "hello" => toServer # <<>> /\ toServer[1].kind = "handshake"
    /\ cpc = "handshake" /\ hpc = "serve" => toClient # <<>>
    /\ cpc = "handshake" /\ toClient # <<>> =>
          toClient[1].kind = "handshake" /\ Greeted(Tail(toClient))
    /\ cpc = "bitfield" => hpc # "handshake" /\ Greeted(toClient)
    /\ ~late /\ cpc \in {"idle", "fetch", "garbled", "check"} =>
          hpc # "handshake" /\ Greeted(toClient) /\ cpc # "garbled"

TypeInv == Types /\ Streams /\ HandshakeOrder

BlockLen(msg) == IF msg.kind = "request" THEN msg.length ELSE Len(msg.data)

\* The blocks on stream s lie end to end from offset a to offset b of their piece:
\* f[i] is where the first i messages have come to.
Chain(s, a, b) ==
    \E f \in [0 .. Len(s) -> Nat] :
        /\ f[0] = a /\ f[Len(s)] = b
        /\ \A i, j \in 0 .. Len(s) : i <= j => f[i] <= f[j]
        /\ \A i \in 1 .. Len(s) :
              IF Block(s[i]) THEN f[i] > f[i - 1] /\ s[i].begin = f[i - 1]
                                  /\ f[i] = f[i - 1] + BlockLen(s[i])
                             ELSE f[i] = f[i - 1]

\* Requests for piece p, and blocks of it with the bytes of torrent t.
AskedOf(p) == {m \in ServerMsg : m.kind = "request" => m.index = p}
SentOf(t, p) ==
    {m \in ClientMsg(t) :
        m.kind = "piece" =>
            /\ m.index = p
            /\ \A k \in 1 .. Len(m.data) : m.data[k] = Byte(t, Begin(p) + m.begin + k - 1)}

\* The requests and blocks on one stream.
Count(s) == Cardinality({i \in 1 .. Len(s) : Block(s[i])})

\* With ts and tc on the streams, the blocks of piece p that have been received
\* (up to d), are on their way, and have been requested (up to r) follow each
\* other without gap or overlap, and n of them are on their way.
Lined(ts, tc, d, r, n, p, t) ==
    /\ \E mid \in Nat : Chain(tc, d, mid) /\ Chain(ts, mid, r)
    /\ n = Count(ts) + Count(tc)
    /\ ts \in Seq(AskedOf(p)) /\ tc \in Seq(SentOf(t, p))

Flight == Lined(toServer, toClient, downloaded, requested, backlog, work, served)

\* Nothing is on its way but in an attempt.
Quiet == cpc \notin {"fetch", "garbled", "closed"} => downloaded = requested

\* The buffer is filled from its beginning, and full at the end of an attempt.
Filled ==
    /\ cpc = "check" => downloaded >= Length
    /\ cpc \in {"fetch", "check"} =>
          buf = [k \in 0 .. Length - 1 |->
                   IF k < downloaded THEN Byte(served, Begin(work) + k) ELSE Blank]

FetchInv == Flight /\ Quiet /\ Filled /\ ResultIntact /\ cpc # "fatal"
HonestInv == Honest => FetchInv

-----------------------------------------------------------------------------
(* Pieces                                                                  *)

\* A piece starts inside the torrent and ends in it; the first piece is there.
LEMMA PieceBounds ==
  /\ 0 \in Piece
  /\ \A p \in Piece : /\ p \in Nat /\ Begin(p) \in Nat
                      /\ PieceSize(p) \in 1 .. PieceLength
                      /\ Begin(p) + PieceSize(p) <= Size[Wanted]
<1> DEFINE z == Size[Wanted]
           n == (z + PieceLength - 1) \div PieceLength
<1>1. z \in Nat \ {0} /\ PieceLength \in Nat \ {0}
  BY TransferAssumption
<1>2. n \in Int /\ n * PieceLength <= z + PieceLength - 1 /\ z + PieceLength - 1 < (n + 1) * PieceLength
  <2> HIDE DEF z
  <2> QED BY <1>1
<1>3. n > 0
  <2>1. CASE n <= 0
    <3>1. (n + 1) * PieceLength <= PieceLength
      <4> HIDE DEF n
      <4> QED BY <1>1, <1>2, <2>1
    <3> HIDE DEF z, n
    <3> QED BY <1>1, <1>2, <3>1
  <2> HIDE DEF n
  <2> QED BY <1>2, <2>1
<1>4. Piece = 0 .. n - 1
  BY DEF Piece, PiecesOf
<1>5. ASSUME NEW p \in Piece
      PROVE  /\ p \in Nat /\ Begin(p) \in Nat
             /\ PieceSize(p) \in 1 .. PieceLength
             /\ Begin(p) + PieceSize(p) <= z
  <2>1. p \in Nat /\ p <= n - 1
    <3> HIDE DEF n
    <3> QED BY <1>2, <1>4
  <2>2. p * PieceLength \in Nat
    <3> HIDE DEF n, z
    <3> QED BY <1>1, <2>1
  <2>3. p * PieceLength <= (n - 1) * PieceLength
    <3> HIDE DEF n, z
    <3> QED BY <1>1, <1>2, <2>1
  <2>4. (n - 1) * PieceLength = n * PieceLength - PieceLength
    <3> HIDE DEF n, z
    <3> QED BY <1>1, <1>2
  <2>5. p * PieceLength < z
    <3>1. n * PieceLength \in Int
      <4> HIDE DEF n, z
      <4> QED BY <1>1, <1>2
    <3> DEFINE np == n * PieceLength
               pp == p * PieceLength
               n1 == (n - 1) * PieceLength
    <3>2. pp \in Nat /\ np \in Int /\ pp <= n1 /\ n1 = np - PieceLength /\ np <= z + PieceLength - 1
      BY <1>2, <2>2, <2>3, <2>4, <3>1
    <3> SUFFICES pp < z
      OBVIOUS
    <3> HIDE DEF np, pp, n1, z, n
    <3> QED BY <1>1, <3>2
  <2> DEFINE b == p * PieceLength
  <2>6. Begin(p) = b /\ End(p) = Smaller(b + PieceLength, z) /\ PieceSize(p) = Smaller(b + PieceLength, z) - b
    BY DEF Begin, End, PieceSize
  <2>7. b \in Nat /\ b < z
    BY <2>2, <2>5
  <2> HIDE DEF b, z, n
  <2> QED BY <1>1, <2>1, <2>6, <2>7 DEF Smaller
<1>6. 0 \in Piece
  <2> HIDE DEF n
  <2> QED BY <1>2, <1>3, <1>4
<1> QED BY <1>5, <1>6

-----------------------------------------------------------------------------
(* Streams                                                                 *)

\* The requests and blocks on a stream are a number.
LEMMA CountType ==
  ASSUME NEW S, NEW s \in Seq(S)
  PROVE  /\ IsFiniteSet({i \in 1 .. Len(s) : Block(s[i])})
         /\ Count(s) \in Nat
<1>1. IsFiniteSet(1 .. Len(s))
  BY FS_Interval, LenProperties
<1>2. IsFiniteSet({i \in 1 .. Len(s) : Block(s[i])})
  BY <1>1, FS_Subset
<1> QED BY <1>2, FS_CardinalityType DEF Count

\* A message that is sent counts if it is a block.
LEMMA CountAppend ==
  ASSUME NEW S, NEW s \in Seq(S), NEW m \in S
  PROVE  Count(Append(s, m)) = IF Block(m) THEN Count(s) + 1 ELSE Count(s)
<1> DEFINE I == {i \in 1 .. Len(s) : Block(s[i])}
           t == Append(s, m)
           J == {i \in 1 .. Len(t) : Block(t[i])}
<1>1. Len(s) \in Nat /\ Len(t) = Len(s) + 1 /\ t[Len(s) + 1] = m /\ \A i \in 1 .. Len(s) : t[i] = s[i]
  BY AppendProperties, LenProperties
<1>2. IsFiniteSet(I)
  BY CountType
<1>3. Cardinality(J) = IF Block(m) THEN Cardinality(I) + 1 ELSE Cardinality(I)
  <2> HIDE DEF t
  <2>1. CASE Block(m)
    <3>1. J = I \cup {Len(s) + 1} /\ Len(s) + 1 \notin I
      BY <1>1, <2>1
    <3> HIDE DEF I, J
    <3> QED BY <1>2, <2>1, <3>1, FS_AddElement
  <2>2. CASE ~Block(m)
    <3>1. J = I
      BY <1>1, <2>2
    <3> QED BY <2>2, <3>1
  <2> QED BY <2>1, <2>2
<1> QED BY <1>3 DEF Count

\* A message that is received no longer counts.
LEMMA CountTail ==
  ASSUME NEW S, NEW s \in Seq(S), s # <<>>
  PROVE  Count(Tail(s)) = IF Block(Head(s)) THEN Count(s) - 1 ELSE Count(s)
<1> DEFINE I == {i \in 1 .. Len(s) : Block(s[i])}
           t == Tail(s)
           J == {i \in 1 .. Len(t) : Block(t[i])}
<1>1. /\ Len(s) \in Nat \ {0} /\ Len(t) = Len(s) - 1 /\ Head(s) = s[1]
      /\ \A i \in 1 .. Len(t) : t[i] = s[i + 1]
      /\ t \in Seq(S)
  BY HeadTailProperties, EmptySeq, LenProperties
<1>2. IsFiniteSet(I) /\ IsFiniteSet(J)
  BY <1>1, CountType
<1>3. Cardinality(J) = Cardinality(I \ {1})
  <2> DEFINE f == [i \in J |-> i + 1]
  <2>1. f \in Bijection(J, I \ {1})
    <3> HIDE DEF t
    <3>1. f \in [J -> I \ {1}]
      BY <1>1
    <3>2. \A a, b \in J : f[a] = f[b] => a = b
      OBVIOUS
    <3>3. \A k \in I \ {1} : k - 1 \in J /\ f[k - 1] = k
      BY <1>1
    <3> HIDE DEF f, I, J
    <3>4. f \in Injection(J, I \ {1})
      BY <3>1, <3>2 DEF Injection, IsInjective
    <3>5. f \in Surjection(J, I \ {1})
      BY <3>1, <3>3 DEF Surjection
    <3> QED BY <3>4, <3>5 DEF Bijection
  <2>2. ExistsBijection(J, I \ {1})
    <3> HIDE DEF f, I, J
    <3> QED BY <2>1 DEF ExistsBijection
  <2> HIDE DEF I, J
  <2> QED BY <1>2, <2>2, FS_Bijection
<1>4. Cardinality(I \ {1}) = IF 1 \in I THEN Cardinality(I) - 1 ELSE Cardinality(I)
  <2> HIDE DEF I
  <2> QED BY <1>2, FS_RemoveElement
<1>5. 1 \in I <=> Block(Head(s))
  <2> HIDE DEF t
  <2> QED BY <1>1
<1> QED
  <2>1. Count(s) = Cardinality(I) /\ Count(t) = Cardinality(J)
    BY DEF Count
  <2> HIDE DEF I, J
  <2> QED BY <1>3, <1>4, <1>5, <2>1

\* Where no block is on a stream the offset does not advance.
LEMMA ChainNone ==
  ASSUME NEW S, NEW s \in Seq(S), NEW a \in Nat, \A i \in 1 .. Len(s) : ~Block(s[i])
  PROVE  Chain(s, a, a) /\ Count(s) = 0
<1> DEFINE f == [i \in 0 .. Len(s) |-> a]
<1>1. Len(s) \in Nat
  BY LenProperties
<1>2. Chain(s, a, a)
  <2>1. f \in [0 .. Len(s) -> Nat] /\ \A i \in 0 .. Len(s) : f[i] = a
    OBVIOUS
  <2> HIDE DEF f
  <2> QED BY <1>1, <2>1 DEF Chain
<1>3. {i \in 1 .. Len(s) : Block(s[i])} = {}
  OBVIOUS
<1> QED BY <1>2, <1>3, FS_EmptySet DEF Count

\* And where the offset does not advance there is no block.
LEMMA ChainFlat ==
  ASSUME NEW S, NEW s \in Seq(S), NEW a \in Nat, Chain(s, a, a)
  PROVE  (\A i \in 1 .. Len(s) : ~Block(s[i])) /\ Count(s) = 0
<1>1. Len(s) \in Nat
  BY LenProperties
<1>2. \A i \in 1 .. Len(s) : ~Block(s[i])
  BY <1>1 DEF Chain
<1>3. {i \in 1 .. Len(s) : Block(s[i])} = {}
  BY <1>2
<1> QED BY <1>2, <1>3, FS_EmptySet DEF Count

\* The offset only grows.
LEMMA ChainOrder ==
  ASSUME NEW S, NEW s \in Seq(S), NEW a, NEW b, Chain(s, a, b)
  PROVE  a \in Nat /\ b \in Nat /\ a <= b /\ (Len(s) = 0 => a = b)
<1>1. Len(s) \in Nat
  BY LenProperties
<1> QED BY <1>1 DEF Chain

\* A message that is sent goes to the end of the chain.
LEMMA ChainAppend ==
  ASSUME NEW S, NEW s \in Seq(S), NEW m \in S, NEW a, NEW b, Chain(s, a, b)
  PROVE  /\ Block(m) /\ m.begin = b /\ BlockLen(m) \in Nat \ {0}
               => Chain(Append(s, m), a, b + BlockLen(m))
         /\ ~Block(m) => Chain(Append(s, m), a, b)
<1> DEFINE t == Append(s, m)
           n == Len(s)
<1>1. n \in Nat /\ Len(t) = n + 1 /\ t[n + 1] = m /\ \A i \in 1 .. n : t[i] = s[i]
  BY AppendProperties, LenProperties
<1>2. PICK f \in [0 .. n -> Nat] :
        /\ f[0] = a /\ f[n] = b
        /\ \A i, j \in 0 .. n : i <= j => f[i] <= f[j]
        /\ \A i \in 1 .. n :
              IF Block(s[i]) THEN f[i] > f[i - 1] /\ s[i].begin = f[i - 1]
                                  /\ f[i] = f[i - 1] + BlockLen(s[i])
                             ELSE f[i] = f[i - 1]
  BY DEF Chain
<1>3. ASSUME NEW c \in Nat, c >= b,
             IF Block(m) THEN c > b /\ m.begin = b /\ c = b + BlockLen(m) ELSE c = b
      PROVE  Chain(t, a, c)
  <2> DEFINE g == [i \in 0 .. n + 1 |-> IF i = n + 1 THEN c ELSE f[i]]
  <2>1. /\ g \in [0 .. n + 1 -> Nat] /\ g[n + 1] = c /\ \A i \in 0 .. n : g[i] = f[i]
    BY <1>1, <1>3
  <2> HIDE DEF g, t, n
  <2>2. \A i, j \in 0 .. n + 1 : i <= j => g[i] <= g[j]
    <3>1. \A i \in 0 .. n : g[i] <= b
      BY <1>1, <1>2, <2>1
    <3>2. \A i \in 0 .. n + 1 : i \in 0 .. n \/ i = n + 1
      BY <1>1
    <3>3. ASSUME NEW i \in 0 .. n + 1, NEW j \in 0 .. n + 1, i <= j PROVE g[i] <= g[j]
      <4>1. CASE j \in 0 .. n
        <5>1. i \in 0 .. n
          BY <1>1, <3>3, <4>1
        <5> QED BY <1>2, <2>1, <3>3, <4>1, <5>1
      <4>2. CASE j = n + 1
        BY <1>1, <1>2, <1>3, <2>1, <3>1, <3>2, <4>2
      <4> QED BY <3>2, <4>1, <4>2
    <3> QED BY <3>3
  <2>3. ASSUME NEW i \in 1 .. n + 1
        PROVE  IF Block(t[i]) THEN g[i] > g[i - 1] /\ t[i].begin = g[i - 1]
                                   /\ g[i] = g[i - 1] + BlockLen(t[i])
                              ELSE g[i] = g[i - 1]
    <3>1. CASE i \in 1 .. n
      <4>1. i - 1 \in 0 .. n /\ i \in 0 .. n
        BY <1>1, <3>1
      <4>2. t[i] = s[i] /\ g[i] = f[i] /\ g[i - 1] = f[i - 1]
        BY <1>1, <2>1, <3>1, <4>1
      <4> QED BY <1>2, <3>1, <4>2
    <3>2. CASE i = n + 1
      <4>1. t[i] = m /\ g[i] = c /\ g[i - 1] = b
        BY <1>1, <1>2, <2>1, <3>2
      <4> QED BY <1>3, <4>1
    <3> QED BY <1>1, <3>1, <3>2
  <2>4. g[0] = a
    BY <1>1, <1>2, <2>1
  <2> QED BY <1>1, <2>1, <2>2, <2>3, <2>4 DEF Chain
<1>4. b \in Nat
  BY <1>1, <1>2
<1>5. ASSUME Block(m), m.begin = b, BlockLen(m) \in Nat \ {0} PROVE Chain(t, a, b + BlockLen(m))
  <2> DEFINE c == b + BlockLen(m)
  <2>1. c \in Nat /\ c >= b /\ c > b
    BY <1>4, <1>5
  <2> HIDE DEF t
  <2> QED BY <1>3, <1>5, <2>1
<1>6. ASSUME ~Block(m) PROVE Chain(t, a, b)
  <2> HIDE DEF t
  <2> QED BY <1>3, <1>4, <1>6
<1> QED BY <1>5, <1>6

\* The message that is received was the first of the chain.
LEMMA ChainTail ==
  ASSUME NEW S, NEW s \in Seq(S), s # <<>>, NEW a, NEW b, Chain(s, a, b)
  PROVE  /\ Block(Head(s)) => /\ Head(s).begin = a /\ a + BlockLen(Head(s)) \in Nat
                              /\ a + BlockLen(Head(s)) > a
                              /\ Chain(Tail(s), a + BlockLen(Head(s)), b)
         /\ ~Block(Head(s)) => Chain(Tail(s), a, b)
<1> DEFINE t == Tail(s)
           n == Len(t)
<1>1. /\ n \in Nat /\ Len(s) = n + 1 /\ Head(s) = s[1]
      /\ \A i \in 1 .. n : t[i] = s[i + 1]
  BY HeadTailProperties, EmptySeq, LenProperties
<1>2. PICK f \in [0 .. n + 1 -> Nat] :
        /\ f[0] = a /\ f[n + 1] = b
        /\ \A i, j \in 0 .. n + 1 : i <= j => f[i] <= f[j]
        /\ \A i \in 1 .. n + 1 :
              IF Block(s[i]) THEN f[i] > f[i - 1] /\ s[i].begin = f[i - 1]
                                  /\ f[i] = f[i - 1] + BlockLen(s[i])
                             ELSE f[i] = f[i - 1]
  BY <1>1 DEF Chain
<1> HIDE DEF t, n
<1>3. Chain(t, f[1], b)
  <2> DEFINE g == [i \in 0 .. n |-> f[i + 1]]
  <2>1. g \in [0 .. n -> Nat] /\ \A i \in 0 .. n : g[i] = f[i + 1]
    BY <1>1
  <2> HIDE DEF g
  <2>2. \A i, j \in 0 .. n : i <= j => g[i] <= g[j]
    BY <1>1, <1>2, <2>1
  <2>3. ASSUME NEW i \in 1 .. n
        PROVE  IF Block(t[i]) THEN g[i] > g[i - 1] /\ t[i].begin = g[i - 1]
                                   /\ g[i] = g[i - 1] + BlockLen(t[i])
                              ELSE g[i] = g[i - 1]
    <3>1. i + 1 \in 1 .. n + 1 /\ i \in 0 .. n /\ i - 1 \in 0 .. n
      BY <1>1
    <3>2. t[i] = s[i + 1] /\ g[i] = f[i + 1] /\ g[i - 1] = f[i] /\ (i + 1) - 1 = i
      BY <1>1, <2>1, <3>1
    <3> QED BY <1>2, <3>1, <3>2
  <2>4. g[0] = f[1] /\ g[n] = b
    BY <1>1, <1>2, <2>1
  <2>5. n = Len(t)
    BY DEF n
  <2> QED BY <2>1, <2>2, <2>3, <2>4, <2>5 DEF Chain
<1>4. IF Block(Head(s)) THEN f[1] > a /\ Head(s).begin = a /\ f[1] = a + BlockLen(Head(s)) ELSE f[1] = a
  <2>1. 1 \in 1 .. n + 1 /\ 1 - 1 = 0
    BY <1>1
  <2> QED BY <1>1, <1>2, <2>1
<1>5. f[1] \in Nat
  BY <1>1
<1> QED BY <1>3, <1>4, <1>5 DEF t

-----------------------------------------------------------------------------
(* Messages                                                                *)

\* What the leecher sends is a message, and what its fields hold.
LEMMA ServerMsgs ==
  /\ Handshake(Wanted, ClientDht) \in ServerMsg /\ Message("port") \in ServerMsg
  /\ \A p \in Piece : [kind |-> "have", index |-> p] \in ServerMsg
  /\ \A p \in Piece, b \in Nat, l \in Nat \ {0} :
        b + l <= PieceSize(p) =>
           [kind |-> "request", index |-> p, begin |-> b, length |-> l] \in ServerMsg
  /\ \A m \in ServerMsg :
        /\ m.kind \in {"handshake", "port", "request", "have"}
        /\ m.kind = "handshake" => m = Handshake(Wanted, ClientDht)
        /\ m.kind = "request" =>
              /\ m.index \in Piece /\ m.begin \in Nat /\ m.length \in Nat \ {0}
              /\ m.begin + m.length <= PieceSize(m.index)
BY DEF ServerMsg, RequestMsg, Handshake, Message

\* What a seeder sends is a message.
LEMMA ClientMsgs ==
  ASSUME NEW t \in Torrents
  PROVE  /\ Handshake(Wanted, ClientDht) \in ClientMsg(t)
         /\ [kind |-> "bitfield", pieces |-> PiecesOf(t)] \in ClientMsg(t)
         /\ \A k \in {"port", "choke", "unchoke", "keepalive"} : Message(k) \in ClientMsg(t)
         /\ \A p \in Piece : [kind |-> "have", index |-> p] \in ClientMsg(t)
         /\ \A p \in Piece, b \in Nat, d \in Seq(Torrents \X Nat) :
               [kind |-> "piece", index |-> p, begin |-> b, data |-> d] \in ClientMsg(t)
BY DEF ClientMsg, PieceMsg, Handshake, Message

\* And what its fields hold.
LEMMA ClientFields ==
  ASSUME NEW t \in Torrents, NEW m \in ClientMsg(t)
  PROVE  /\ m.kind \in {"handshake", "bitfield", "port", "piece", "have", "choke", "unchoke", "keepalive"}
         /\ m.kind = "handshake" => m = Handshake(Wanted, ClientDht)
         /\ m.kind = "bitfield" => m.pieces = PiecesOf(t)
         /\ m.kind = "have" => m.index \in Piece
         /\ m.kind = "piece" => m.index \in Piece /\ m.begin \in Nat /\ m.data \in Seq(Torrents \X Nat)
BY DEF ClientMsg, PieceMsg, Handshake

\* The data of a block, as the handler cuts it out of its torrent.
LEMMA BlockData ==
  ASSUME NEW t \in Torrents, NEW o \in Nat, NEW n \in Nat
  PROVE  LET d == [k \in 1 .. n |-> Byte(t, o + k - 1)]
         IN  /\ d \in Seq(Torrents \X Nat) /\ Len(d) = n
             /\ \A k \in 1 .. n : d[k] = Byte(t, o + k - 1)
<1> DEFINE d == [k \in 1 .. n |-> Byte(t, o + k - 1)]
<1>1. \A k \in 1 .. n : d[k] = Byte(t, o + k - 1) /\ d[k] \in Torrents \X Nat
  BY DEF Byte
<1>2. d \in [1 .. n -> Torrents \X Nat]
  <2>1. \A k \in 1 .. n : Byte(t, o + k - 1) \in Torrents \X Nat
    BY DEF Byte
  <2> QED BY <2>1
<1> HIDE DEF d
<1>3. d \in Seq(Torrents \X Nat)
  BY <1>2
<1>4. Len(d) = n
  BY <1>2, <1>3, LenProperties
<1> QED BY <1>1, <1>3, <1>4 DEF d

-----------------------------------------------------------------------------
(* Types, and the order of the handshake                                   *)

\* The handshake of the leecher.
LEMMA HandshakeType ==
  ASSUME TypeInv, \/ Hello \/ Welcomed \/ RecvBitfield \/ BitfieldRefused
                  \/ HandshakeExpires \/ BitfieldExpires
  PROVE  TypeInv'
<1> USE DEF given, progress
<1>1. Types /\ Streams /\ HandshakeOrder /\ served \in Torrents
  BY DEF TypeInv, Types
<1>2. CASE Hello
  <2>1. toServer' \in Seq(ServerMsg) /\ toServer'[1] = Handshake(Wanted, ClientDht) /\ toServer' # <<>>
    BY <1>1, <1>2, ServerMsgs DEF Hello, HandshakeOrder, Streams
  <2>2. Types' /\ Streams'
    BY <1>1, <1>2, <2>1 DEF Hello, Types, Streams, Length
  <2>3. HandshakeOrder'
    BY <1>1, <1>2, <2>1 DEF Hello, HandshakeOrder, Handshake
  <2> QED BY <2>2, <2>3 DEF TypeInv
<1>3. CASE Welcomed
  <2>1. toClient' = Tail(toClient) /\ toClient' \in Seq(ClientMsg(served)) /\ Greeted(toClient')
    BY <1>1, <1>3 DEF Welcomed, HandshakeOrder, Streams
  <2>2. toServer' \in Seq(ServerMsg)
    BY <1>1, <1>3, ServerMsgs DEF Welcomed, Streams
  <2>3. Types' /\ Streams'
    BY <1>1, <1>3, <2>1, <2>2 DEF Welcomed, Types, Streams, Length
  <2>4. hpc # "handshake"
    BY <1>1, <1>3 DEF Welcomed, HandshakeOrder
  <2>5. HandshakeOrder'
    BY <1>1, <1>3, <2>1, <2>4 DEF Welcomed, HandshakeOrder
  <2> QED BY <2>3, <2>5 DEF TypeInv
<1>4. CASE RecvBitfield
  <2>1. toClient # <<>> /\ Head(toClient).kind = "bitfield" /\ Greeted(toClient) /\ hpc # "handshake"
    BY <1>1, <1>4 DEF RecvBitfield, HandshakeOrder, Streams
  <2>2. toClient' \in Seq(ClientMsg(served)) /\ Head(toClient) \in ClientMsg(served) /\ Greeted(toClient')
    BY <1>1, <1>4, <2>1 DEF RecvBitfield, Streams, Greeted
  <2>3. has' = PiecesOf(served)
    BY <1>1, <1>4, <2>1, <2>2, ClientFields DEF RecvBitfield
  <2>4. Types' /\ Streams'
    BY <1>1, <1>4, <2>2, <2>3 DEF RecvBitfield, Types, Streams, Length
  <2>5. HandshakeOrder'
    BY <1>1, <1>4, <2>1, <2>2 DEF RecvBitfield, HandshakeOrder
  <2> QED BY <2>4, <2>5 DEF TypeInv
<1>7. CASE BitfieldRefused
  <2>1. toClient # <<>> /\ Greeted(toClient) /\ hpc # "handshake"
    BY <1>1, <1>7 DEF BitfieldRefused, HandshakeOrder
  <2>2. toClient' \in Seq(ClientMsg(served)) /\ Greeted(toClient')
    BY <1>1, <1>7, <2>1 DEF BitfieldRefused, Streams, Greeted
  <2>3. Types' /\ Streams'
    BY <1>1, <1>7, <2>2 DEF BitfieldRefused, AfterFailure, Types, Streams, Length
  <2>4. HandshakeOrder'
    BY <1>1, <1>7, <2>1, <2>2 DEF BitfieldRefused, AfterFailure, HandshakeOrder
  <2> QED BY <2>3, <2>4 DEF TypeInv
<1>5. CASE HandshakeExpires
  <2>1. Types' /\ Streams'
    BY <1>1, <1>5 DEF HandshakeExpires, AfterFailure, Types, Streams, Length
  <2>2. HandshakeOrder'
    BY <1>1, <1>5 DEF HandshakeExpires, AfterFailure, HandshakeOrder
  <2> QED BY <2>1, <2>2 DEF TypeInv
<1>6. CASE BitfieldExpires
  <2>1. Types' /\ Streams'
    BY <1>1, <1>6 DEF BitfieldExpires, AfterFailure, Types, Streams, Length
  <2>2. HandshakeOrder'
    BY <1>1, <1>6 DEF BitfieldExpires, AfterFailure, HandshakeOrder
  <2> QED BY <2>1, <2>2 DEF TypeInv
<1> QED BY <1>2, <1>3, <1>4, <1>5, <1>6, <1>7

\* The size of the next block, which the request and the counter share.
LEMMA NextBlock ==
  ASSUME Types, ~Complete, MayRequest
  PROVE  /\ work \in Piece /\ Length \in 1 .. PieceLength /\ requested \in Nat
         /\ BlockSize \in Nat \ {0} /\ requested + BlockSize <= Length
<1>1. Length \in 1 .. PieceLength /\ work \in Piece
  BY PieceBounds DEF Types, Length
<1>2. requested \in 0 .. Length /\ requested < Length
  BY DEF Types, MayRequest
<1>3. MaxBlock \in Nat \ {0} /\ PieceLength \in Nat \ {0}
  BY TransferAssumption
<1> QED BY <1>1, <1>2, <1>3 DEF BlockSize, Smaller

\* An attempt.
LEMMA AttemptType ==
  ASSUME TypeInv,
         (\E p \in Piece : Attempt(p)) \/ SendRequest \/ AttemptFails \/ AttemptDone \/ Accept \/ Reject
  PROVE  TypeInv'
<1> USE DEF given, progress
<1>1. Types /\ Streams /\ HandshakeOrder
  BY DEF TypeInv
<1>2. ASSUME NEW p \in Piece, Attempt(p) PROVE TypeInv'
  <2>1. DOMAIN Zeroes(PieceSize(p)) = 0 .. PieceSize(p) - 1 /\ PieceSize(p) \in Nat
    BY PieceBounds DEF Zeroes
  <2>2. Types' /\ Streams'
    BY <1>1, <1>2, <2>1, TransferAssumption DEF Attempt, Types, Streams, Length
  <2>3. HandshakeOrder'
    BY <1>1, <1>2 DEF Attempt, HandshakeOrder
  <2> QED BY <2>2, <2>3 DEF TypeInv
<1>3. CASE SendRequest
  <2> DEFINE req == [kind |-> "request", index |-> work, begin |-> NextBegin, length |-> BlockSize]
  <2>1. /\ work \in Piece /\ Length \in 1 .. PieceLength /\ requested \in Nat
        /\ BlockSize \in Nat \ {0} /\ requested + BlockSize <= Length
    BY <1>1, <1>3, NextBlock DEF SendRequest
  <2>2. req \in ServerMsg
    BY <2>1, ServerMsgs DEF NextBegin, Length
  <2>3. toServer' = Append(toServer, req)
    BY <1>3 DEF SendRequest
  <2> HIDE DEF req
  <2>4. Streams'
    BY <1>1, <1>3, <2>2, <2>3 DEF SendRequest, Streams
  <2>5. requested' \in 0 .. Length /\ backlog' \in Int /\ backlog' <= MaxBacklog
    BY <1>1, <1>3, <2>1, TransferAssumption DEF SendRequest, MayRequest, Types
  <2>6. Types'
    BY <1>1, <1>3, <2>5 DEF SendRequest, Types, Length
  <2>7. toServer # <<>> => toServer' # <<>> /\ toServer'[1] = toServer[1]
    BY <1>1, <2>2, <2>3 DEF Streams
  <2>8. HandshakeOrder'
    BY <1>1, <1>3, <2>7 DEF SendRequest, HandshakeOrder
  <2> QED BY <2>4, <2>6, <2>8 DEF TypeInv
<1>4. CASE Accept
  <2> DEFINE msg == [kind |-> "have", index |-> work]
  <2>1. msg \in ServerMsg /\ work \in Piece
    BY <1>1, ServerMsgs DEF Types
  <2>2. toServer' = Append(toServer, msg)
    BY <1>4 DEF Accept
  <2>3. DOMAIN results' \subseteq Piece
    BY <1>1, <1>4, <2>1 DEF Accept, Types
  <2> HIDE DEF msg
  <2>4. Streams'
    BY <1>1, <1>4, <2>1, <2>2 DEF Accept, Streams
  <2>5. Types'
    BY <1>1, <1>4, <2>3 DEF Accept, Types, Length
  <2>6. toServer # <<>> => toServer' # <<>> /\ toServer'[1] = toServer[1]
    BY <1>1, <2>1, <2>2 DEF Streams
  <2>7. HandshakeOrder'
    BY <1>1, <1>4, <2>6 DEF Accept, HandshakeOrder
  <2> QED BY <2>4, <2>5, <2>7 DEF TypeInv
<1>5. CASE AttemptFails \/ AttemptDone \/ Reject
  <2>1. /\ cpc' \in {"closed", "check", "fatal"} /\ (cpc' = "check" => cpc = "fetch")
        /\ UNCHANGED <<given, has, choked, progress, results, hpc, toServer, toClient, noticed>>
        /\ cpc # "hello"
    BY <1>5 DEF AttemptFails, AttemptDone, Reject
  <2>2. Types' /\ Streams'
    BY <1>1, <2>1 DEF Types, Streams, Length
  <2>3. HandshakeOrder'
    BY <1>1, <2>1 DEF HandshakeOrder
  <2> QED BY <2>2, <2>3 DEF TypeInv
<1> QED BY <1>2, <1>3, <1>4, <1>5

\* A message is read.
LEMMA ReadType ==
  ASSUME TypeInv, ReadMessage
  PROVE  TypeInv'
<1> USE DEF given, progress
<1>1. Types /\ Streams /\ HandshakeOrder /\ served \in Torrents
  BY DEF TypeInv, Types
<1> DEFINE msg == Head(toClient)
<1>2. /\ cpc = "fetch" /\ toClient # <<>> /\ toClient' = Tail(toClient)
      /\ UNCHANGED <<late, served, results, hpc, toServer, noticed>>
  BY DEF ReadMessage
<1>3. /\ msg \in ClientMsg(served) /\ toClient' \in Seq(ClientMsg(served))
      /\ Greeted(toClient) => Greeted(toClient') /\ msg.kind # "handshake"
  BY <1>1, <1>2 DEF Streams, Greeted
<1>4. \/ msg.kind = "piece" /\ Fits(msg) /\ ReadPiece(msg)
      \/ msg.kind \in {"choke", "unchoke"} /\ ReadChoke(msg)
      \/ msg.kind = "have" /\ ReadHave(msg)
      \/ msg.kind = "handshake" /\ ReadGarbled
      \/ UNCHANGED <<cpc, has, choked, progress>>
  BY DEF ReadMessage
<1>5. /\ msg.kind = "have" => msg.index \in Piece
      /\ msg.kind = "piece" => msg.index \in Piece /\ msg.begin \in Nat /\ msg.data \in Seq(Torrents \X Nat)
  BY <1>1, <1>3, ClientFields
<1> HIDE DEF msg
<1>6. Streams'
  BY <1>1, <1>2, <1>3 DEF Streams
<1>7. Types'
  <2>1. CASE msg.kind = "piece" /\ Fits(msg) /\ ReadPiece(msg)
    <3>1. Len(msg.data) \in Nat
      BY <1>5, <2>1
    <3>2. DOMAIN buf' = DOMAIN buf /\ downloaded' \in Nat /\ backlog' = backlog - 1
          /\ UNCHANGED <<cpc, has, choked, work, requested>>
      BY <1>1, <2>1, <3>1 DEF ReadPiece, Types
    <3> QED BY <1>1, <1>2, <3>2, TransferAssumption DEF Types, Length
  <2>2. CASE ReadChoke(msg)
    <3>1. choked' \in BOOLEAN
      BY <2>2 DEF ReadChoke
    <3> QED BY <1>1, <1>2, <2>2, <3>1 DEF ReadChoke, Types, Length
  <2>3. CASE msg.kind = "have" /\ ReadHave(msg)
    BY <1>1, <1>2, <1>5, <2>3 DEF ReadHave, Types, Length
  <2>4. CASE ReadGarbled
    BY <1>1, <1>2, <2>4 DEF ReadGarbled, Types, Length
  <2>5. CASE UNCHANGED <<cpc, has, choked, progress>>
    BY <1>1, <1>2, <2>5 DEF Types, Length
  <2> QED BY <1>4, <2>1, <2>2, <2>3, <2>4, <2>5
<1>8. HandshakeOrder'
  <2>1. cpc' = "fetch" \/ (cpc' = "garbled" /\ msg.kind = "handshake")
    BY <1>2, <1>4 DEF ReadPiece, ReadChoke, ReadHave, ReadGarbled
  <2>2. hpc # "handshake"
    BY <1>1, <1>2 DEF HandshakeOrder
  <2> QED BY <1>1, <1>2, <1>3, <2>1, <2>2 DEF HandshakeOrder
<1> QED BY <1>6, <1>7, <1>8 DEF TypeInv

\* Nothing of the client changes in a step of the remote.
LEMMA ClientFrame ==
  ASSUME Types, UNCHANGED <<given, client>>,
         hpc' \in {"handshake", "serve", "panic", "gone"}, noticed' \in 0 .. MaxNotices
  PROVE  Types'
BY DEF Types, Length, given, client, progress

\* The stream after two messages, or three.
LEMMA TwoOrThree ==
  ASSUME NEW S, NEW x \in S, NEW y \in S, NEW z \in S, NEW r, r = <<z>> \/ r = <<>>
  PROVE  LET s == <<>> \o <<x, y>> \o r
         IN  /\ s \in Seq(S) /\ Len(s) \in {2, 3}
             /\ s[1] = x /\ s[2] = y /\ (Len(s) = 3 => s[3] = z)
<1>1. /\ <<x, y>> \in Seq(S) /\ Len(<<x, y>>) = 2 /\ <<x, y>>[1] = x /\ <<x, y>>[2] = y
      /\ r \in Seq(S) /\ (r = <<>> => Len(r) = 0) /\ (r = <<z>> => Len(r) = 1 /\ r[1] = z)
  <2>1. <<x, y>> \in Seq(S)
    OBVIOUS
  <2>2. Len(<<x, y>>) = 2 /\ <<x, y>>[1] = x /\ <<x, y>>[2] = y
    OBVIOUS
  <2>3. r \in Seq(S)
    <3>1. <<z>> \in Seq(S) /\ <<>> \in Seq(S)
      OBVIOUS
    <3> QED BY <3>1
  <2>4. r = <<>> => Len(r) = 0
    OBVIOUS
  <2>5. r = <<z>> => Len(r) = 1 /\ r[1] = z
    OBVIOUS
  <2> QED BY <2>1, <2>2, <2>3, <2>4, <2>5
<1> DEFINE t == <<x, y>>
           s == t \o r
<1>2. <<>> \o t = t
  BY <1>1, ConcatEmptySeq
<1> HIDE DEF t
<1>3. /\ s \in Seq(S) /\ Len(s) = 2 + Len(r)
      /\ \A i \in 1 .. 2 + Len(r) : s[i] = IF i <= 2 THEN t[i] ELSE r[i - 2]
  BY <1>1, ConcatProperties DEF t
<1> HIDE DEF s
<1>4. /\ s \in Seq(S) /\ Len(s) \in {2, 3}
      /\ s[1] = x /\ s[2] = y /\ (Len(s) = 3 => s[3] = z)
  BY <1>1, <1>3 DEF t
<1> QED BY <1>2, <1>4 DEF s, t

\* The handler greets: the handshake, the bitfield and perhaps the port.
LEMMA GreetSends ==
  ASSUME TypeInv, Greet
  PROVE  /\ cpc # "hello" /\ toServer' = Tail(toServer) /\ toServer' \in Seq(ServerMsg)
         /\ ~Block(Head(toServer)) /\ toServer # <<>>
         /\ toClient' \in Seq(ClientMsg(served)) /\ Len(toClient') >= 2
         /\ toClient'[1].kind = "handshake" /\ toClient'[2].kind = "bitfield"
         /\ \A i \in 1 .. Len(toClient') :
               /\ i > 1 => toClient'[i].kind \in {"bitfield", "port"}
               /\ toClient'[i] \in ClientMsg(served)
<1>1. Types /\ Streams /\ HandshakeOrder /\ served \in Torrents
  BY DEF TypeInv, Types
<1> DEFINE hs == Head(toServer)
           bf == [kind |-> "bitfield", pieces |-> PiecesOf(served)]
           pt == Message("port")
           port == IF ServerDht /\ hs.dht THEN <<pt>> ELSE <<>>
<1>2. /\ hpc = "handshake" /\ toServer # <<>> /\ toServer' = Tail(toServer)
      /\ toClient' = toClient \o <<hs, bf>> \o port
  BY DEF Greet
<1>3. toClient = <<>> /\ cpc # "hello"
  BY <1>1, <1>2 DEF HandshakeOrder
<1>4. hs \in ServerMsg /\ hs.kind = "handshake" /\ toServer' \in Seq(ServerMsg)
  BY <1>1, <1>2, <1>3 DEF HandshakeOrder, Streams
<1>5. hs \in ClientMsg(served)
  BY <1>1, <1>4, ServerMsgs, ClientMsgs
<1>6. /\ bf \in ClientMsg(served) /\ bf.kind = "bitfield"
      /\ pt \in ClientMsg(served) /\ pt.kind = "port"
  BY <1>1, ClientMsgs DEF Message
<1>7. port = <<pt>> \/ port = <<>>
  OBVIOUS
<1> HIDE DEF hs, bf, pt, port
<1>8. /\ toClient' \in Seq(ClientMsg(served)) /\ Len(toClient') \in {2, 3}
      /\ toClient'[1] = hs /\ toClient'[2] = bf /\ (Len(toClient') = 3 => toClient'[3] = pt)
  BY <1>2, <1>3, <1>5, <1>6, <1>7, TwoOrThree
<1>9. \A i \in 1 .. Len(toClient') : i = 1 \/ i = 2 \/ (i = 3 /\ Len(toClient') = 3)
  <2> DEFINE n == Len(toClient')
  <2>1. n \in {2, 3}
    BY <1>8
  <2> HIDE DEF n
  <2>2. \A i \in 1 .. n : i = 1 \/ i = 2 \/ (i = 3 /\ n = 3)
    BY <2>1
  <2> QED BY <2>2 DEF n
<1>10. \A i \in 1 .. Len(toClient') :
         /\ i > 1 => toClient'[i].kind \in {"bitfield", "port"}
         /\ toClient'[i] \in ClientMsg(served)
  BY <1>5, <1>6, <1>8, <1>9
<1> QED BY <1>2, <1>3, <1>4, <1>6, <1>8, <1>10 DEF Block, hs

\* Another implementation sends its handshake and no bitfield.
LEMMA BareSends ==
  ASSUME TypeInv, GreetBare
  PROVE  /\ cpc # "hello" /\ toServer' = Tail(toServer) /\ toServer' \in Seq(ServerMsg)
         /\ ~Block(Head(toServer)) /\ toServer # <<>> /\ Len(toClient) = 0
         /\ toClient' \in Seq(ClientMsg(served)) /\ Len(toClient') = 1 /\ toClient' # <<>>
         /\ toClient'[1].kind = "handshake" /\ Greeted(Tail(toClient'))
<1>1. Types /\ Streams /\ HandshakeOrder /\ served \in Torrents
  BY DEF TypeInv, Types
<1> DEFINE hs == Head(toServer)
<1>2. /\ hpc = "handshake" /\ toServer # <<>> /\ toServer' = Tail(toServer)
      /\ toClient' = Append(toClient, hs)
  BY DEF GreetBare
<1>3. toClient = <<>> /\ cpc # "hello"
  BY <1>1, <1>2 DEF HandshakeOrder
<1>4. hs \in ServerMsg /\ hs.kind = "handshake" /\ toServer' \in Seq(ServerMsg)
  BY <1>1, <1>2, <1>3 DEF HandshakeOrder, Streams
<1>5. hs \in ClientMsg(served)
  BY <1>1, <1>4, ServerMsgs, ClientMsgs
<1> HIDE DEF hs
<1>6. toClient' = <<hs>> /\ Len(toClient) = 0
  BY <1>2, <1>3
<1>7. toClient' \in Seq(ClientMsg(served)) /\ Len(toClient') = 1 /\ toClient'[1] = hs
  BY <1>5, <1>6
<1>8. Len(Tail(toClient')) = 0
  BY <1>7, HeadTailProperties
<1> QED BY <1>2, <1>3, <1>4, <1>6, <1>7, <1>8 DEF Block, Greeted, hs

\* Whatever else the remote sends comes after the handshake.
LEMMA SendOrder ==
  ASSUME Streams, HandshakeOrder, hpc = "serve",
         NEW msg \in ClientMsg(served), msg.kind # "handshake",
         toClient' = Append(toClient, msg), UNCHANGED <<late, cpc, hpc>>
  PROVE  HandshakeOrder' /\ toClient' \in Seq(ClientMsg(served))
<1> DEFINE n == Len(toClient)
<1>1. /\ toClient \in Seq(ClientMsg(served)) /\ toClient' \in Seq(ClientMsg(served))
      /\ n \in Nat /\ Len(toClient') = n + 1 /\ toClient' # <<>> /\ toClient'[n + 1] = msg
      /\ \A i \in 1 .. n : toClient'[i] = toClient[i]
      /\ toClient # <<>> => n > 0
  BY DEF Streams
<1> HIDE DEF n
<1>2. Greeted(toClient) => Greeted(toClient')
  <2>1. \A i \in 1 .. n + 1 : i \in 1 .. n \/ i = n + 1
    BY <1>1
  <2> QED BY <1>1, <2>1 DEF Greeted, n
<1>3. cpc # "hello"
  BY DEF HandshakeOrder
<1>4. ASSUME cpc = "handshake"
      PROVE  toClient'[1].kind = "handshake" /\ Greeted(Tail(toClient'))
  <2>1. /\ toClient # <<>> /\ n > 0 /\ toClient[1].kind = "handshake"
        /\ Greeted(Tail(toClient))
    BY <1>1, <1>4 DEF HandshakeOrder
  <2>2. Len(Tail(toClient)) = n - 1 /\ \A i \in 1 .. n - 1 : Tail(toClient)[i] = toClient[i + 1]
    BY <1>1, <2>1, HeadTailProperties DEF n
  <2>3. Len(Tail(toClient')) = n /\ \A i \in 1 .. n : Tail(toClient')[i] = toClient'[i + 1]
    BY <1>1, HeadTailProperties
  <2>4. ASSUME NEW i \in 1 .. n PROVE toClient'[i + 1].kind # "handshake"
    <3>1. CASE i \in 1 .. n - 1
      <4>1. i + 1 \in 1 .. n /\ Tail(toClient)[i].kind # "handshake"
        BY <1>1, <2>1, <2>2, <3>1 DEF Greeted
      <4> QED BY <1>1, <2>2, <3>1, <4>1
    <3>2. CASE i = n
      BY <1>1, <3>2
    <3> QED BY <1>1, <3>1, <3>2
  <2>5. Greeted(Tail(toClient'))
    BY <2>3, <2>4 DEF Greeted
  <2>6. toClient'[1] = toClient[1]
    BY <1>1, <2>1
  <2> QED BY <2>1, <2>5, <2>6
<1> QED BY <1>1, <1>2, <1>3, <1>4 DEF HandshakeOrder

\* The handler of the seeder.
LEMMA ServerType ==
  ASSUME TypeInv, ServerStep
  PROVE  TypeInv'
<1> USE DEF given, client, progress
<1>1. Types /\ Streams /\ HandshakeOrder /\ served \in Torrents /\ noticed \in 0 .. MaxNotices
  BY DEF TypeInv, Types
<1>2. CASE Greet
  <2>1. Types'
    BY <1>1, <1>2, ClientFrame DEF Greet
  <2>2. Streams'
    BY <1>2, GreetSends DEF Greet, Streams
  <2>3. /\ cpc # "hello" /\ toClient' # <<>> /\ Len(toClient') >= 2
        /\ toClient'[1].kind = "handshake" /\ toClient'[2].kind = "bitfield"
        /\ Greeted(Tail(toClient'))
    <3>1. toClient' \in Seq(ClientMsg(served)) /\ Len(toClient') >= 2
          /\ \A i \in 1 .. Len(toClient') : i > 1 => toClient'[i].kind \in {"bitfield", "port"}
      BY <1>2, GreetSends
    <3> QED BY <1>2, <3>1, GreetSends DEF Greeted
  <2>4. HandshakeOrder'
    BY <1>1, <1>2, <2>3 DEF Greet, HandshakeOrder
  <2> QED BY <2>1, <2>2, <2>4 DEF TypeInv
<1>3. CASE ServeRequest
  <2> DEFINE req == Head(toServer)
             msg == [kind |-> "piece", index |-> req.index, begin |-> req.begin,
                     data |-> [k \in 1 .. req.length |-> Byte(served, Offset(req) + k - 1)]]
  <2>1. /\ toServer # <<>> /\ req.kind = "request" /\ toServer' = Tail(toServer)
        /\ toClient' = Append(toClient, msg) /\ hpc = "serve"
    BY <1>3 DEF ServeRequest
  <2>2. req \in ServerMsg
    BY <1>1, <2>1 DEF Streams
  <2>3. req.index \in Piece /\ req.begin \in Nat /\ req.length \in Nat
    BY <2>1, <2>2, ServerMsgs
  <2>4. Offset(req) \in Nat
    <3>1. Begin(req.index) \in Nat
      BY <2>3, PieceBounds
    <3>2. Offset(req) = Begin(req.index) + req.begin
      BY DEF Offset, Begin
    <3> HIDE DEF req
    <3> QED BY <2>3, <3>1, <3>2
  <2>5. [k \in 1 .. req.length |-> Byte(served, Offset(req) + k - 1)] \in Seq(Torrents \X Nat)
    <3> HIDE DEF req
    <3> QED BY <1>1, <2>3, <2>4, BlockData
  <2>6. msg \in ClientMsg(served) /\ msg.kind = "piece"
    <3> HIDE DEF req
    <3> QED BY <1>1, <2>3, <2>5, ClientMsgs
  <2> HIDE DEF req, msg
  <2>7. HandshakeOrder' /\ Streams'
    BY <1>1, <1>3, <2>1, <2>6, SendOrder DEF ServeRequest, Streams
  <2>8. Types'
    BY <1>1, <1>3, ClientFrame DEF ServeRequest
  <2> QED BY <2>7, <2>8 DEF TypeInv
<1>4. CASE ServePanics \/ HandlerEnds
  <2>1. Types' /\ Streams'
    BY <1>1, <1>4, ClientFrame DEF ServePanics, HandlerEnds, Streams
  <2>2. HandshakeOrder'
    BY <1>1, <1>4 DEF ServePanics, HandlerEnds, HandshakeOrder, Open
  <2> QED BY <2>1, <2>2 DEF TypeInv
<1>5. CASE ServeOther
  <2>1. Types' /\ Streams'
    BY <1>1, <1>5, ClientFrame DEF ServeOther, Streams
  <2>2. HandshakeOrder'
    BY <1>1, <1>5 DEF ServeOther, HandshakeOrder
  <2> QED BY <2>1, <2>2 DEF TypeInv
<1> QED BY <1>2, <1>3, <1>4, <1>5 DEF ServerStep

\* A handshake without a bitfield.
LEMMA BareType ==
  ASSUME TypeInv, GreetBare
  PROVE  TypeInv'
<1> USE DEF given, client, progress
<1>1. Types /\ Streams /\ HandshakeOrder /\ noticed \in 0 .. MaxNotices
  BY DEF TypeInv, Types
<1>2. Types'
  <2>1. noticed' \in 0 .. MaxNotices
    BY <1>1, TransferAssumption DEF GreetBare
  <2> QED BY <1>1, <2>1, ClientFrame DEF GreetBare
<1>3. Streams'
  BY BareSends DEF GreetBare, Streams
<1>4. HandshakeOrder'
  BY <1>1, BareSends DEF GreetBare, HandshakeOrder
<1> QED BY <1>2, <1>3, <1>4 DEF TypeInv

\* What the remote sends unasked.
LEMMA NoticeType ==
  ASSUME TypeInv, NEW kind \in Notices, Notice(kind)
  PROVE  TypeInv'
<1> USE DEF given, client, progress
<1>1. Types /\ Streams /\ HandshakeOrder /\ served \in Torrents /\ noticed \in 0 .. MaxNotices
  BY DEF TypeInv, Types
<1>2. PICK msg \in Notification(kind) : toClient' = Append(toClient, msg)
  BY DEF Notice
<1>3. msg \in ClientMsg(served) /\ msg.kind # "handshake"
  <2>1. kind \in {"choke", "unchoke", "keepalive", "have", "stray"}
    BY TransferAssumption
  <2>2. CASE kind = "have"
    BY <1>1, <1>2, <2>2, ClientMsgs DEF Notification
  <2>3. CASE kind = "stray"
    <3> DEFINE d == <<Byte(served, 0)>>
    <3>1. d \in Seq(Torrents \X Nat)
      BY <1>1 DEF Byte
    <3>2. {0, MaxBlock} \subseteq Nat
      BY TransferAssumption
    <3>3. msg \in [kind : {"piece"}, index : Piece, begin : {0, MaxBlock}, data : {d}]
      BY <1>2, <2>3 DEF Notification
    <3> HIDE DEF d
    <3>4. PICK p \in Piece, b \in {0, MaxBlock} : msg = [kind |-> "piece", index |-> p, begin |-> b, data |-> d]
      BY <3>3
    <3> QED BY <1>1, <3>1, <3>2, <3>4, ClientMsgs
  <2>4. CASE kind \in {"choke", "unchoke", "keepalive"}
    <3>1. msg = Message(kind)
      BY <1>2, <2>4 DEF Notification
    <3> QED BY <1>1, <2>4, <3>1, ClientMsgs DEF Message
  <2> QED BY <2>1, <2>2, <2>3, <2>4
<1>4. HandshakeOrder' /\ Streams'
  BY <1>1, <1>2, <1>3, SendOrder DEF Notice, Streams
<1>5. Types'
  <2>1. noticed' \in 0 .. MaxNotices
    BY <1>1, TransferAssumption DEF Notice
  <2> QED BY <1>1, <2>1, ClientFrame DEF Notice, Types
<1> QED BY <1>4, <1>5 DEF TypeInv

\* The invariant of the types and of the handshake is inductive.
LEMMA TypeInduction ==
  /\ Init => TypeInv
  /\ TypeInv /\ [Next]_vars => TypeInv'
<1>1. ASSUME Init PROVE TypeInv
  <2>1. Streams /\ HandshakeOrder
    BY <1>1 DEF Init, Streams, HandshakeOrder
  <2>2. 0 \in 0 .. Length /\ work \in Piece
    BY <1>1, PieceBounds DEF Init, Length
  <2>3. DOMAIN results = {}
    BY <1>1 DEF Init
  <2>4. late \in BOOLEAN /\ choked \in BOOLEAN
    BY <1>1 DEF Init
  <2>5. /\ requested \in 0 .. Length /\ downloaded \in Nat /\ noticed \in 0 .. MaxNotices
        /\ backlog \in Int /\ backlog <= MaxBacklog
    BY <1>1, <2>2, TransferAssumption DEF Init
  <2>6. cpc = "hello" /\ served \in Torrents /\ has = {} /\ hpc = "handshake"
    BY <1>1 DEF Init
  <2>7. Types
    BY <2>2, <2>3, <2>4, <2>5, <2>6 DEF Types
  <2> QED BY <2>1, <2>7 DEF TypeInv
<1>2. ASSUME TypeInv, [Next]_vars PROVE TypeInv'
  <2>1. CASE UNCHANGED vars
    BY <1>2, <2>1 DEF vars, given, client, progress, TypeInv, Types, Streams, HandshakeOrder, Length
  <2> QED
    BY <1>2, <2>1, HandshakeType, AttemptType, ReadType, ServerType, BareType, NoticeType
       DEF Next, ClientStep, Expiry
<1> QED BY <1>1, <1>2

\* No attempt on a connection of the dial starts in the middle of the handshake,
\* in whatever order the two sides send, read and run into deadlines.
THEOREM NeverGarbledOnDial == Spec => []AlignedOnDial
<1>1. TypeInv => AlignedOnDial
  BY DEF TypeInv, Types, HandshakeOrder, AlignedOnDial
<1> QED BY <1>1, TypeInduction, PTL DEF Spec

\* No request of this leecher makes the handler slice beyond its content, if the
\* content is not shorter than the torrent the leecher wants.
THEOREM SeederNeverPanics == Spec => []NoPanic
<1> USE DEF NoPanic, given, client
<1>1. Init => NoPanic
  BY DEF Init
<1>2. ASSUME TypeInv, NoPanic, [Next]_vars PROVE NoPanic'
  <2>1. CASE ServePanics
    <3> DEFINE req == Head(toServer)
    <3>1. /\ req \in ServerMsg /\ req.kind = "request" /\ ~InContent(req)
          /\ served \in Torrents /\ served' = served
      BY <1>2, <2>1 DEF ServePanics, TypeInv, Types, Streams
    <3> HIDE DEF req
    <3>2. /\ req.index \in Piece /\ req.begin \in Nat /\ req.length \in Nat
          /\ req.begin + req.length <= PieceSize(req.index)
      BY <3>1, ServerMsgs
    <3>3. /\ Begin(req.index) \in Nat /\ PieceSize(req.index) \in Nat
          /\ Begin(req.index) + PieceSize(req.index) <= Size[Wanted]
          /\ Size[Wanted] \in Nat /\ Size[served] \in Nat
      BY <3>1, <3>2, PieceBounds, TransferAssumption
    <3>4. Offset(req) = Begin(req.index) + req.begin
      BY DEF Offset, Begin
    <3>5. Size[Wanted] > Size[served]
      BY <3>1, <3>2, <3>3, <3>4 DEF InContent
    <3> QED BY <3>1, <3>3, <3>5
  <2>2. CASE ~ServePanics
    <3>1. (hpc' = "panic" => hpc = "panic") /\ served' = served
      BY <1>2, <2>2 DEF Next, ClientStep, Expiry, ServerStep, Hello, Welcomed, RecvBitfield, BitfieldRefused,
         Attempt, SendRequest, ReadMessage, AttemptDone, Accept, Reject, HandshakeExpires, BitfieldExpires,
         AttemptFails, Greet, GreetBare, ServeRequest, ServeOther, HandlerEnds, Notice, vars
    <3> QED BY <1>2, <3>1
  <2> QED BY <2>1, <2>2
<1> QED BY <1>1, <1>2, TypeInduction, PTL DEF Spec

-----------------------------------------------------------------------------
(* The pipeline of an honest seeder                                        *)

\* A sequence all of whose elements are in T.
LEMMA Narrow ==
  ASSUME NEW S, NEW T, NEW s \in Seq(S), \A i \in 1 .. Len(s) : s[i] \in T
  PROVE  s \in Seq(T)
<1>1. Len(s) \in Nat
  BY LenProperties
<1>2. SubSeq(s, 1, Len(s)) \in Seq(T)
  BY <1>1, SubSeqProperties
<1> QED BY <1>2, SubSeqFull

\* The leecher sends something that is not a request.
LEMMA SendQuiet ==
  ASSUME NEW ts, NEW tc, NEW d, NEW r, NEW n, NEW p, NEW t, Lined(ts, tc, d, r, n, p, t),
         NEW m \in ServerMsg, ~Block(m)
  PROVE  Lined(Append(ts, m), tc, d, r, n, p, t)
<1>1. m \in AskedOf(p) /\ ts \in Seq(AskedOf(p))
  BY DEF AskedOf, Block, Lined
<1>2. Append(ts, m) \in Seq(AskedOf(p)) /\ Count(Append(ts, m)) = Count(ts)
  BY <1>1, CountAppend, AppendProperties
<1>3. \A a : Chain(ts, a, r) => Chain(Append(ts, m), a, r)
  BY <1>1, ChainAppend
<1> QED BY <1>2, <1>3 DEF Lined

\* The remote sends something that is not a block.
LEMMA AnswerQuiet ==
  ASSUME NEW ts, NEW tc, NEW d, NEW r, NEW n, NEW p, NEW t, Lined(ts, tc, d, r, n, p, t),
         NEW m \in ClientMsg(t), ~Block(m)
  PROVE  Lined(ts, Append(tc, m), d, r, n, p, t)
<1>1. m \in SentOf(t, p) /\ tc \in Seq(SentOf(t, p))
  BY DEF SentOf, Block, Lined
<1>2. Append(tc, m) \in Seq(SentOf(t, p)) /\ Count(Append(tc, m)) = Count(tc)
  BY <1>1, CountAppend, AppendProperties
<1>3. \A b : Chain(tc, d, b) => Chain(Append(tc, m), d, b)
  BY <1>1, ChainAppend
<1> QED BY <1>2, <1>3 DEF Lined

\* The handler takes something that is not a request.
LEMMA TakeQuiet ==
  ASSUME NEW ts, NEW tc, NEW d, NEW r, NEW n, NEW p, NEW t, Lined(ts, tc, d, r, n, p, t),
         ts # <<>>, ~Block(Head(ts))
  PROVE  Lined(Tail(ts), tc, d, r, n, p, t)
<1>1. ts \in Seq(AskedOf(p))
  BY DEF Lined
<1>2. Tail(ts) \in Seq(AskedOf(p)) /\ Count(Tail(ts)) = Count(ts)
  BY <1>1, CountTail, HeadTailProperties
<1>3. \A a : Chain(ts, a, r) => Chain(Tail(ts), a, r)
  BY <1>1, ChainTail
<1> QED BY <1>2, <1>3 DEF Lined

\* The leecher reads something that is not a block.
LEMMA ReadQuiet ==
  ASSUME NEW ts, NEW tc, NEW d, NEW r, NEW n, NEW p, NEW t, Lined(ts, tc, d, r, n, p, t),
         tc # <<>>, ~Block(Head(tc))
  PROVE  Lined(ts, Tail(tc), d, r, n, p, t)
<1>1. tc \in Seq(SentOf(t, p))
  BY DEF Lined
<1>2. Tail(tc) \in Seq(SentOf(t, p)) /\ Count(Tail(tc)) = Count(tc)
  BY <1>1, CountTail, HeadTailProperties
<1>3. \A b : Chain(tc, d, b) => Chain(Tail(tc), d, b)
  BY <1>1, ChainTail
<1> QED BY <1>2, <1>3 DEF Lined

\* The leecher requests the next block.
LEMMA RequestBlock ==
  ASSUME NEW ts, NEW tc, NEW d, NEW r, NEW n, NEW p, NEW t, Lined(ts, tc, d, r, n, p, t),
         NEW m \in ServerMsg, m.kind = "request", m.index = p, m.begin = r
  PROVE  Lined(Append(ts, m), tc, d, r + m.length, n + 1, p, t)
<1>1. m \in AskedOf(p) /\ ts \in Seq(AskedOf(p)) /\ Block(m)
  BY DEF AskedOf, Block, Lined
<1>2. tc \in Seq(SentOf(t, p)) /\ Count(tc) \in Nat /\ Count(ts) \in Nat
  BY <1>1, CountType DEF Lined
<1>3. BlockLen(m) = m.length /\ m.length \in Nat \ {0}
  BY ServerMsgs DEF BlockLen
<1>4. Append(ts, m) \in Seq(AskedOf(p)) /\ Count(Append(ts, m)) = Count(ts) + 1
  BY <1>1, CountAppend, AppendProperties
<1>5. \A a : Chain(ts, a, r) => Chain(Append(ts, m), a, r + m.length)
  BY <1>1, <1>3, ChainAppend
<1>6. n + 1 = Count(Append(ts, m)) + Count(tc)
  BY <1>2, <1>4 DEF Lined
<1> QED BY <1>4, <1>5, <1>6 DEF Lined

\* The handler answers a request with its block.
LEMMA ServeBlock ==
  ASSUME NEW ts, NEW tc, NEW d, NEW r, NEW n, NEW p, NEW t, Lined(ts, tc, d, r, n, p, t),
         ts # <<>>, Head(ts).kind = "request",
         NEW m \in SentOf(t, p), m.kind = "piece", m.begin = Head(ts).begin,
         Len(m.data) = Head(ts).length
  PROVE  Lined(Tail(ts), Append(tc, m), d, r, n, p, t)
<1>1. ts \in Seq(AskedOf(p)) /\ tc \in Seq(SentOf(t, p)) /\ Head(ts) \in ServerMsg
  BY DEF Lined, AskedOf
<1>2. Count(ts) \in Nat /\ Count(tc) \in Nat /\ Block(m) /\ Block(Head(ts))
  BY <1>1, CountType DEF Block
<1>3. BlockLen(Head(ts)) = Len(m.data) /\ BlockLen(m) = Len(m.data) /\ Len(m.data) \in Nat \ {0}
  BY <1>1, ServerMsgs DEF BlockLen
<1>4. Tail(ts) \in Seq(AskedOf(p)) /\ Count(Tail(ts)) = Count(ts) - 1
  BY <1>1, <1>2, CountTail, HeadTailProperties
<1>5. Append(tc, m) \in Seq(SentOf(t, p)) /\ Count(Append(tc, m)) = Count(tc) + 1
  BY <1>1, <1>2, CountAppend, AppendProperties
<1>6. PICK mid \in Nat : Chain(tc, d, mid) /\ Chain(ts, mid, r)
  BY DEF Lined
<1>7. /\ Head(ts).begin = mid /\ mid + Len(m.data) \in Nat
      /\ Chain(Tail(ts), mid + Len(m.data), r)
  BY <1>1, <1>2, <1>3, <1>6, ChainTail
<1>8. Chain(Append(tc, m), d, mid + Len(m.data))
  BY <1>1, <1>2, <1>3, <1>6, <1>7, ChainAppend
<1>9. n = Count(Tail(ts)) + Count(Append(tc, m))
  BY <1>2, <1>4, <1>5 DEF Lined
<1> QED BY <1>4, <1>5, <1>7, <1>8, <1>9 DEF Lined

\* The leecher reads the block that it is to have next.
LEMMA ReadBlock ==
  ASSUME NEW ts, NEW tc, NEW d, NEW r, NEW n, NEW p, NEW t, Lined(ts, tc, d, r, n, p, t),
         tc # <<>>, Head(tc).kind = "piece"
  PROVE  /\ Head(tc) \in SentOf(t, p) /\ Head(tc).begin = d
         /\ Lined(ts, Tail(tc), d + Len(Head(tc).data), r, n - 1, p, t)
<1>1. ts \in Seq(AskedOf(p)) /\ tc \in Seq(SentOf(t, p)) /\ Head(tc) \in SentOf(t, p)
  BY DEF Lined
<1>2. Count(ts) \in Nat /\ Count(tc) \in Nat /\ Block(Head(tc))
  BY <1>1, CountType DEF Block
<1>3. BlockLen(Head(tc)) = Len(Head(tc).data)
  BY DEF BlockLen
<1>4. Tail(tc) \in Seq(SentOf(t, p)) /\ Count(Tail(tc)) = Count(tc) - 1
  BY <1>1, <1>2, CountTail, HeadTailProperties
<1>5. PICK mid \in Nat : Chain(tc, d, mid) /\ Chain(ts, mid, r)
  BY DEF Lined
<1>6. Head(tc).begin = d /\ Chain(Tail(tc), d + Len(Head(tc).data), mid)
  BY <1>1, <1>2, <1>3, <1>5, ChainTail
<1>7. n - 1 = Count(ts) + Count(Tail(tc))
  BY <1>2, <1>4 DEF Lined
<1> QED BY <1>1, <1>4, <1>5, <1>6, <1>7 DEF Lined

\* What is received has been requested.
LEMMA LinedOrder ==
  ASSUME NEW ts, NEW tc, NEW d, NEW r, NEW n, NEW p, NEW t, Lined(ts, tc, d, r, n, p, t)
  PROVE  d \in Nat /\ r \in Nat /\ d <= r /\ n \in Nat
<1>1. ts \in Seq(AskedOf(p)) /\ tc \in Seq(SentOf(t, p)) /\ n = Count(ts) + Count(tc)
  BY DEF Lined
<1>2. PICK mid \in Nat : Chain(tc, d, mid) /\ Chain(ts, mid, r)
  BY DEF Lined
<1>3. d \in Nat /\ r \in Nat /\ d <= mid /\ mid <= r
  BY <1>1, <1>2, ChainOrder
<1>4. Count(ts) \in Nat /\ Count(tc) \in Nat
  BY <1>1, CountType
<1> QED BY <1>1, <1>3, <1>4

\* When everything requested has been received nothing is on its way, and the
\* next attempt can start, for any piece.
LEMMA AllReceived ==
  ASSUME NEW ts, NEW tc, NEW d, NEW n, NEW p, NEW t, Lined(ts, tc, d, d, n, p, t), NEW q
  PROVE  n = 0 /\ Lined(ts, tc, 0, 0, 0, q, t)
<1>1. ts \in Seq(AskedOf(p)) /\ tc \in Seq(SentOf(t, p)) /\ n = Count(ts) + Count(tc)
  BY DEF Lined
<1>2. PICK mid \in Nat : Chain(tc, d, mid) /\ Chain(ts, mid, d)
  BY DEF Lined
<1>3. d \in Nat /\ d <= mid /\ mid <= d
  BY <1>1, <1>2, ChainOrder
<1>4. mid = d
  BY <1>3
<1>5. /\ \A i \in 1 .. Len(ts) : ~Block(ts[i])
      /\ \A i \in 1 .. Len(tc) : ~Block(tc[i])
      /\ Count(ts) = 0 /\ Count(tc) = 0
  BY <1>1, <1>2, <1>3, <1>4, ChainFlat
<1>6. Chain(ts, 0, 0) /\ Chain(tc, 0, 0)
  BY <1>1, <1>5, ChainNone
<1>7. \A i \in 1 .. Len(ts) : ts[i] \in AskedOf(q)
  BY <1>1, <1>5, ElementOfSeq DEF AskedOf, Block
<1>8. \A i \in 1 .. Len(tc) : tc[i] \in SentOf(t, q)
  BY <1>1, <1>5, ElementOfSeq DEF SentOf, Block
<1>9. ts \in Seq(AskedOf(q)) /\ tc \in Seq(SentOf(t, q))
  BY <1>1, <1>7, <1>8, Narrow
<1> QED BY <1>1, <1>5, <1>6, <1>9 DEF Lined

\* Then what comes next is no block.
LEMMA NoneOnTheWay ==
  ASSUME NEW ts, NEW tc, NEW d, NEW n, NEW p, NEW t, Lined(ts, tc, d, d, n, p, t), tc # <<>>
  PROVE  ~Block(Head(tc))
<1>1. ts \in Seq(AskedOf(p)) /\ tc \in Seq(SentOf(t, p))
  BY DEF Lined
<1>2. PICK mid \in Nat : Chain(tc, d, mid) /\ Chain(ts, mid, d)
  BY DEF Lined
<1>3. d \in Nat /\ d <= mid /\ mid <= d
  BY <1>1, <1>2, ChainOrder
<1>4. mid = d
  BY <1>3
<1>5. \A i \in 1 .. Len(tc) : ~Block(tc[i])
  BY <1>1, <1>2, <1>3, <1>4, ChainFlat
<1>6. Head(tc) = tc[1] /\ Len(tc) \in Nat \ {0}
  BY <1>1
<1> QED BY <1>5, <1>6

\* The handler greets an empty stream.
LEMMA GreetQuiet ==
  ASSUME NEW ts, NEW e, NEW d, NEW r, NEW n, NEW p, NEW t, Lined(ts, e, d, r, n, p, t),
         Len(e) = 0, ts # <<>>, ~Block(Head(ts)),
         NEW tc \in Seq(ClientMsg(t)), \A i \in 1 .. Len(tc) : ~Block(tc[i])
  PROVE  Lined(Tail(ts), tc, d, r, n, p, t)
<1>1. Lined(Tail(ts), e, d, r, n, p, t)
  BY TakeQuiet
<1> DEFINE us == Tail(ts)
<1> HIDE DEF us
<1>2. us \in Seq(AskedOf(p)) /\ e \in Seq(SentOf(t, p))
  BY <1>1 DEF Lined, us
<1>3. PICK mid \in Nat : Chain(e, d, mid) /\ Chain(us, mid, r)
  BY <1>1 DEF Lined, us
<1>4. mid = d /\ d \in Nat
  <2>1. d \in Nat /\ (Len(e) = 0 => d = mid)
    BY <1>2, <1>3, ChainOrder
  <2> QED BY <2>1
<1>5. Chain(tc, d, d) /\ Count(tc) = 0
  BY <1>4, ChainNone
<1>6. Count(e) = 0
  BY <1>2, <1>3, <1>4, ChainFlat
<1>7. \A i \in 1 .. Len(tc) : tc[i] \in SentOf(t, p)
  BY ElementOfSeq DEF SentOf, Block
<1>8. tc \in Seq(SentOf(t, p))
  BY <1>7, Narrow
<1> QED BY <1>1, <1>2, <1>3, <1>4, <1>5, <1>6, <1>8 DEF Lined, us

\* Steps that leave the attempt, its buffer and the results alone.
LEMMA FetchFrame ==
  ASSUME FetchInv, Flight', UNCHANGED <<served, progress, results>>,
         \/ cpc' = cpc
         \/ cpc' \in {"closed", "garbled"}
         \/ cpc' \in {"handshake", "bitfield", "idle"} /\ cpc \notin {"fetch", "garbled", "closed"}
  PROVE  FetchInv'
<1> USE DEF progress
<1>1. Quiet'
  BY DEF FetchInv, Quiet
<1>2. Filled'
  BY DEF FetchInv, Filled, Length
<1>3. ResultIntact'
  BY DEF FetchInv, ResultIntact, Honest
<1> QED BY <1>1, <1>2, <1>3 DEF FetchInv

\* The handshake, on both sides.
LEMMA HandshakeFetch ==
  ASSUME TypeInv, Honest, FetchInv,
         \/ Hello \/ Welcomed \/ RecvBitfield \/ BitfieldRefused
         \/ HandshakeExpires \/ BitfieldExpires \/ Greet \/ GreetBare
  PROVE  FetchInv'
<1> USE DEF given, client, progress
<1>1. Types /\ Streams /\ HandshakeOrder /\ served \in Torrents /\ Flight
  BY DEF TypeInv, Types, FetchInv
<1>2. CASE Hello
  <2>1. Handshake(Wanted, ClientDht) \in ServerMsg /\ ~Block(Handshake(Wanted, ClientDht))
    BY ServerMsgs DEF Handshake, Block
  <2>2. Flight'
    BY <1>1, <1>2, <2>1, SendQuiet DEF Hello, Flight
  <2> QED BY <1>2, <2>2, <1>1, FetchFrame DEF Hello
<1>3. CASE Welcomed
  <2>1. ~Block(Head(toClient)) /\ toClient # <<>>
    BY <1>1, <1>3 DEF Welcomed, HandshakeOrder, Block, Streams
  <2>2. Lined(toServer, Tail(toClient), downloaded, requested, backlog, work, served)
    BY <1>1, <2>1, ReadQuiet DEF Flight
  <2>3. Message("port") \in ServerMsg /\ ~Block(Message("port"))
    BY ServerMsgs DEF Message, Block
  <2>4. Lined(Append(toServer, Message("port")), Tail(toClient), downloaded, requested, backlog, work, served)
    BY <2>2, <2>3, SendQuiet
  <2>5. Flight'
    BY <1>3, <2>2, <2>4 DEF Welcomed, Flight
  <2> QED BY <1>3, <2>5, <1>1, FetchFrame DEF Welcomed
<1>4. CASE RecvBitfield
  <2>1. ~Block(Head(toClient)) /\ toClient # <<>>
    BY <1>1, <1>4 DEF RecvBitfield, Block
  <2>2. Flight'
    BY <1>1, <1>4, <2>1, ReadQuiet DEF RecvBitfield, Flight
  <2> QED BY <1>4, <2>2, <1>1, FetchFrame DEF RecvBitfield
<1>5. CASE HandshakeExpires \/ BitfieldExpires
  <2>1. Flight'
    BY <1>1, <1>5 DEF HandshakeExpires, BitfieldExpires, Flight
  <2> QED BY <1>1, <1>5, <2>1, FetchFrame DEF HandshakeExpires, BitfieldExpires, AfterFailure
<1>6. CASE Greet
  <2>1. Len(toClient) = 0
    BY <1>1, <1>6 DEF Greet, HandshakeOrder
  <2>2. /\ toServer' = Tail(toServer) /\ ~Block(Head(toServer)) /\ toServer # <<>>
        /\ toClient' \in Seq(ClientMsg(served)) /\ Len(toClient') >= 2
        /\ toClient'[1].kind = "handshake"
        /\ \A i \in 1 .. Len(toClient') : i > 1 => toClient'[i].kind \in {"bitfield", "port"}
    BY <1>6, GreetSends
  <2>3. \A i \in 1 .. Len(toClient') : ~Block(toClient'[i])
    <3>1. ASSUME NEW i \in 1 .. Len(toClient') PROVE ~Block(toClient'[i])
      <4>1. CASE i = 1
        BY <2>2, <4>1 DEF Block
      <4>2. CASE i > 1
        BY <2>2, <4>2 DEF Block
      <4> QED BY <2>2, <4>1, <4>2
    <3> QED BY <3>1
  <2>4. Lined(Tail(toServer), toClient', downloaded, requested, backlog, work, served)
    BY <1>1, <2>1, <2>2, <2>3, GreetQuiet DEF Flight
  <2>5. Flight'
    BY <1>6, <2>2, <2>4 DEF Greet, Flight
  <2> QED BY <1>6, <2>5, FetchFrame DEF Greet
<1>7. CASE GreetBare
  <2>1. /\ toServer' = Tail(toServer) /\ ~Block(Head(toServer)) /\ toServer # <<>>
        /\ toClient' \in Seq(ClientMsg(served)) /\ Len(toClient) = 0 /\ Len(toClient') = 1
        /\ toClient'[1].kind = "handshake"
    BY <1>7, BareSends
  <2>2. \A i \in 1 .. Len(toClient') : ~Block(toClient'[i])
    BY <2>1 DEF Block
  <2>3. Lined(Tail(toServer), toClient', downloaded, requested, backlog, work, served)
    BY <1>1, <2>1, <2>2, GreetQuiet DEF Flight
  <2>4. Flight'
    BY <1>7, <2>1, <2>3 DEF GreetBare, Flight
  <2> QED BY <1>7, <2>4, FetchFrame DEF GreetBare
<1>8. CASE BitfieldRefused
  <2>1. toClient # <<>> /\ downloaded = requested
    BY <1>8 DEF BitfieldRefused, FetchInv, Quiet
  <2>2. ~Block(Head(toClient))
    BY <1>1, <2>1, NoneOnTheWay DEF Flight
  <2>3. Flight'
    BY <1>1, <1>8, <2>1, <2>2, ReadQuiet DEF BitfieldRefused, Flight
  <2> QED BY <1>8, <2>3, FetchFrame DEF BitfieldRefused, AfterFailure
<1> QED BY <1>2, <1>3, <1>4, <1>5, <1>6, <1>7, <1>8

\* The handler of an honest seeder, and what it sends unasked.
LEMMA ServeFetch ==
  ASSUME TypeInv, Honest, FetchInv,
         ServeRequest \/ ServePanics \/ ServeOther \/ HandlerEnds \/ \E kind \in Notices : Notice(kind)
  PROVE  FetchInv'
<1> USE DEF given, client, progress
<1>1. Types /\ Streams /\ served \in Torrents /\ Flight /\ work \in Piece
  BY DEF TypeInv, Types, FetchInv
<1> DEFINE req == Head(toServer)
<1>2. ASSUME toServer # <<>>, req.kind = "request"
      PROVE  /\ req.index = work /\ req.begin \in Nat /\ req.length \in Nat \ {0}
             /\ Offset(req) = Begin(work) + req.begin /\ Offset(req) \in Nat /\ InContent(req)
  <2>1. req \in AskedOf(work)
    BY <1>1, <1>2 DEF Flight, Lined
  <2> HIDE DEF req
  <2>2. req.index = work /\ req \in ServerMsg
    BY <1>2, <2>1 DEF AskedOf
  <2>3. req.begin \in Nat /\ req.length \in Nat \ {0} /\ req.begin + req.length <= PieceSize(work)
    BY <1>2, <2>2, ServerMsgs
  <2>4. Begin(work) \in Nat /\ PieceSize(work) \in Nat /\ Begin(work) + PieceSize(work) <= Size[Wanted]
        /\ Size[Wanted] \in Nat
    BY <1>1, PieceBounds, TransferAssumption
  <2>5. Offset(req) = Begin(work) + req.begin
    BY <2>2 DEF Offset, Begin
  <2>6. Offset(req) + req.length <= Size[Wanted] /\ Offset(req) \in Nat
    BY <2>3, <2>4, <2>5
  <2>7. InContent(req)
    BY <2>6 DEF InContent, Honest
  <2> QED BY <2>2, <2>3, <2>5, <2>6, <2>7
<1>3. CASE ServeRequest
  <2> DEFINE d == [k \in 1 .. req.length |-> Byte(served, Offset(req) + k - 1)]
             msg == [kind |-> "piece", index |-> req.index, begin |-> req.begin, data |-> d]
  <2>1. /\ toServer # <<>> /\ req.kind = "request" /\ toServer' = Tail(toServer)
        /\ toClient' = Append(toClient, msg)
    BY <1>3 DEF ServeRequest
  <2>2. /\ req.index = work /\ req.begin \in Nat /\ req.length \in Nat
        /\ Offset(req) = Begin(work) + req.begin /\ Offset(req) \in Nat
    BY <1>2, <2>1
  <2>3. d \in Seq(Torrents \X Nat) /\ Len(d) = req.length
        /\ \A k \in 1 .. req.length : d[k] = Byte(served, Offset(req) + k - 1)
    <3> HIDE DEF req
    <3> QED BY <1>1, <2>2, BlockData
  <2> HIDE DEF req, d
  <2>4. msg \in ClientMsg(served) /\ msg.kind = "piece" /\ msg.begin = req.begin /\ msg.data = d
        /\ msg.index = work
    BY <1>1, <2>2, <2>3, ClientMsgs
  <2> HIDE DEF msg
  <2>5. msg \in SentOf(served, work)
    BY <2>2, <2>3, <2>4 DEF SentOf
  <2>6. Lined(Tail(toServer), Append(toClient, msg), downloaded, requested, backlog, work, served)
    BY <1>1, <2>1, <2>3, <2>4, <2>5, ServeBlock DEF Flight, req
  <2>7. Flight'
    BY <1>3, <2>1, <2>6 DEF ServeRequest, Flight
  <2> QED BY <1>1, <1>3, <2>7, FetchFrame DEF ServeRequest
<1>4. CASE ServePanics
  <2>1. Flight'
    BY <1>1, <1>4 DEF ServePanics, Flight
  <2> QED BY <1>1, <1>4, <2>1, FetchFrame DEF ServePanics
<1>5. CASE ServeOther
  <2>1. toServer # <<>> /\ ~Block(Head(toServer)) /\ toServer' = Tail(toServer)
    BY <1>5 DEF ServeOther, Block
  <2>2. Flight'
    BY <1>1, <1>5, <2>1, TakeQuiet DEF ServeOther, Flight
  <2> QED BY <1>1, <1>5, <2>2, FetchFrame DEF ServeOther
<1>6. CASE HandlerEnds
  <2>1. Flight'
    BY <1>1, <1>6 DEF HandlerEnds, Flight
  <2> QED BY <1>1, <1>6, <2>1, FetchFrame DEF HandlerEnds
<1>7. ASSUME NEW kind \in Notices, Notice(kind) PROVE FetchInv'
  <2>1. PICK msg \in Notification(kind) : toClient' = Append(toClient, msg)
    BY <1>7 DEF Notice
  <2>2. kind \in {"choke", "unchoke", "keepalive", "have"}
    BY <1>7, TransferAssumption DEF Notice, Honest
  <2>3. msg \in ClientMsg(served) /\ ~Block(msg)
    <3>1. CASE kind = "have"
      BY <1>1, <2>1, <3>1, ClientMsgs DEF Notification, Block
    <3>2. CASE kind \in {"choke", "unchoke", "keepalive"}
      <4>1. msg = Message(kind)
        BY <2>1, <3>2 DEF Notification
      <4> QED BY <1>1, <3>2, <4>1, ClientMsgs DEF Message, Block
    <3> QED BY <2>2, <3>1, <3>2
  <2>4. Flight'
    BY <1>1, <1>7, <2>1, <2>3, AnswerQuiet DEF Notice, Flight
  <2> QED BY <1>1, <1>7, <2>4, FetchFrame DEF Notice
<1> QED BY <1>3, <1>4, <1>5, <1>6, <1>7

\* Where the next attempt starts, the buffer is blank.
LEMMA AttemptFetch ==
  ASSUME TypeInv, Honest, FetchInv, NEW p \in Piece, Attempt(p)
  PROVE  FetchInv'
<1> USE DEF given
<1>1. Flight /\ downloaded = requested /\ ResultIntact /\ cpc # "fatal"
  BY DEF FetchInv, Quiet, Attempt
<1>2. Lined(toServer, toClient, 0, 0, 0, p, served)
  BY <1>1, AllReceived DEF Flight
<1>3. Flight'
  BY <1>2 DEF Attempt, Flight
<1>4. Filled'
  <2>1. buf' = [k \in 0 .. PieceSize(p) - 1 |-> Blank] /\ downloaded' = 0 /\ work' = p /\ cpc' = "fetch"
    BY DEF Attempt, Zeroes
  <2>2. buf' = [k \in 0 .. PieceSize(p) - 1 |-> IF k < 0 THEN Byte(served, Begin(p) + k) ELSE Blank]
    <3>1. \A k \in 0 .. PieceSize(p) - 1 : ~(k < 0)
      BY PieceBounds
    <3> QED BY <2>1, <3>1
  <2> QED BY <2>1, <2>2 DEF Filled, Length, Attempt
<1>5. ResultIntact' /\ Quiet' /\ cpc' # "fatal"
  BY <1>1 DEF Attempt, ResultIntact, Honest, Quiet
<1> QED BY <1>3, <1>4, <1>5 DEF FetchInv

\* The next request.
LEMMA RequestFetch ==
  ASSUME TypeInv, Honest, FetchInv, SendRequest
  PROVE  FetchInv'
<1> USE DEF given
<1>1. Flight /\ ResultIntact /\ cpc # "fatal" /\ Types /\ cpc = "fetch" /\ ~Complete /\ MayRequest
  BY DEF FetchInv, TypeInv, SendRequest
<1> DEFINE m == [kind |-> "request", index |-> work, begin |-> NextBegin, length |-> BlockSize]
<1>2. m \in ServerMsg
  <2>1. /\ work \in Piece /\ requested \in Nat
        /\ BlockSize \in Nat \ {0} /\ requested + BlockSize <= Length
    BY <1>1, NextBlock
  <2> QED BY <2>1, ServerMsgs DEF NextBegin, Length
<1>3. m.kind = "request" /\ m.index = work /\ m.begin = requested /\ m.length = BlockSize
  BY DEF NextBegin
<1>4. toServer' = Append(toServer, m)
  BY DEF SendRequest
<1> HIDE DEF m
<1>5. Lined(Append(toServer, m), toClient, downloaded, requested + BlockSize, backlog + 1, work, served)
  BY <1>1, <1>2, <1>3, RequestBlock DEF Flight
<1>6. Flight'
  BY <1>4, <1>5 DEF SendRequest, Flight
<1>7. Filled'
  BY DEF FetchInv, SendRequest, Filled, Length
<1>8. ResultIntact' /\ Quiet' /\ cpc' # "fatal"
  BY <1>1 DEF SendRequest, ResultIntact, Honest, Quiet
<1> QED BY <1>6, <1>7, <1>8 DEF FetchInv

\* A message is read: a block is the next one, and fills the buffer up.
LEMMA ReadFetch ==
  ASSUME TypeInv, Honest, FetchInv, ReadMessage
  PROVE  FetchInv'
<1> USE DEF given, progress
<1>1. Flight /\ Filled /\ ResultIntact /\ cpc # "fatal" /\ Types /\ cpc = "fetch" /\ toClient # <<>>
      /\ toClient' = Tail(toClient) /\ UNCHANGED <<late, served, results, hpc, toServer, noticed>>
  BY DEF FetchInv, TypeInv, ReadMessage
<1> DEFINE msg == Head(toClient)
<1>2. CASE msg.kind = "piece" /\ Fits(msg) /\ ReadPiece(msg)
  <2>1. /\ msg \in SentOf(served, work) /\ msg.begin = downloaded
        /\ Lined(toServer, Tail(toClient), downloaded + Len(msg.data), requested, backlog - 1, work, served)
    BY <1>1, <1>2, ReadBlock DEF Flight
  <2>2. msg \in ClientMsg(served) /\ served \in Torrents
    BY <1>1, <2>1 DEF SentOf, Types
  <2> HIDE DEF msg
  <2>3. Len(msg.data) \in Nat
    BY <1>2, <2>2, ClientFields
  <2>4. \A k \in 1 .. Len(msg.data) : msg.data[k] = Byte(served, Begin(work) + downloaded + k - 1)
    BY <1>2, <2>1 DEF SentOf
  <2>5. Flight'
    BY <1>1, <1>2, <2>1 DEF ReadPiece, Flight
  <2> DEFINE d == downloaded
             n == Len(msg.data)
             dat == msg.data
             b == Begin(work)
             L == Length
             old == [k \in 0 .. L - 1 |-> IF k < d THEN Byte(served, b + k) ELSE Blank]
  <2>6. buf = old
    BY <1>1 DEF Filled
  <2>7. buf' = [k \in DOMAIN buf |-> IF k - d \in 0 .. n - 1 THEN dat[k - d + 1] ELSE buf[k]]
    BY <1>2, <2>1 DEF ReadPiece
  <2>8. d \in Nat /\ n \in Nat /\ b \in Nat /\ L \in Nat
    BY <1>1, <2>3, PieceBounds DEF Types, Length
  <2>9. \A k \in 1 .. n : dat[k] = Byte(served, b + d + k - 1)
    BY <2>4
  <2> HIDE DEF d, n, dat, b, L
  <2>10. \A k \in 0 .. L - 1 :
           (IF k - d \in 0 .. n - 1 THEN dat[k - d + 1] ELSE old[k])
              = (IF k < d + n THEN Byte(served, b + k) ELSE Blank)
    <3>1. ASSUME NEW k \in 0 .. L - 1
          PROVE  (IF k - d \in 0 .. n - 1 THEN dat[k - d + 1] ELSE old[k])
                    = (IF k < d + n THEN Byte(served, b + k) ELSE Blank)
      <4>1. CASE k - d \in 0 .. n - 1
        <5>1. k - d + 1 \in 1 .. n /\ b + d + (k - d + 1) - 1 = b + k /\ k < d + n
          BY <2>8, <4>1
        <5>2. dat[k - d + 1] = Byte(served, b + d + (k - d + 1) - 1)
          BY <2>9, <5>1
        <5> QED BY <4>1, <5>1, <5>2
      <4>2. CASE k - d \notin 0 .. n - 1
        <5>1. k < d <=> k < d + n
          BY <2>8, <4>2
        <5>2. old[k] = IF k < d THEN Byte(served, b + k) ELSE Blank
          OBVIOUS
        <5> QED BY <4>2, <5>1, <5>2
      <4> QED BY <4>1, <4>2
    <3> QED BY <3>1
  <2>11. DOMAIN buf = 0 .. L - 1
    BY <2>6
  <2> HIDE DEF old
  <2>12. buf' = [k \in 0 .. L - 1 |-> IF k < d + n THEN Byte(served, b + k) ELSE Blank]
    BY <2>6, <2>7, <2>10, <2>11
  <2>13. downloaded' = d + n /\ cpc' = "fetch" /\ work' = work /\ served' = served
    BY <1>1, <1>2 DEF ReadPiece, d, n
  <2>14. Filled'
    BY <2>12, <2>13 DEF Filled, Length, b, L
  <2>15. ResultIntact' /\ Quiet' /\ cpc' # "fatal"
    BY <1>1, <2>13 DEF ResultIntact, Honest, Quiet
  <2> QED BY <2>5, <2>14, <2>15 DEF FetchInv
<1>3. CASE ~Block(msg) /\ cpc' \in {"fetch", "garbled"} /\ UNCHANGED progress
  <2>1. Flight'
    BY <1>1, <1>3, ReadQuiet DEF Flight
  <2> QED BY <1>1, <1>3, <2>1, FetchFrame
<1> QED
  BY <1>1, <1>2, <1>3 DEF ReadMessage, ReadChoke, ReadHave, ReadGarbled, Block

\* An attempt ends.
LEMMA EndFetch ==
  ASSUME TypeInv, Honest, FetchInv, AttemptFails \/ AttemptDone \/ Accept \/ Reject
  PROVE  FetchInv'
<1> USE DEF given, progress
<1>1. Flight /\ Quiet /\ Filled /\ ResultIntact /\ cpc # "fatal" /\ Types
  BY DEF FetchInv, TypeInv
<1>2. downloaded \in Nat /\ requested \in Nat /\ downloaded <= requested /\ requested <= Length
      /\ Length \in Nat /\ work \in Piece
  <2>1. Length \in Nat /\ work \in Piece
    BY <1>1, PieceBounds DEF Types, Length
  <2>2. downloaded \in Nat /\ requested \in Nat /\ downloaded <= requested
    BY <1>1, LinedOrder DEF Flight
  <2> QED BY <1>1, <2>1, <2>2 DEF Types
<1>7. ASSUME cpc = "check" PROVE buf = BytesOf(served, work)
  <2>1. buf = [k \in 0 .. Length - 1 |-> IF k < downloaded THEN Byte(served, Begin(work) + k) ELSE Blank]
        /\ downloaded >= Length
    BY <1>1, <1>7 DEF Filled
  <2>2. \A k \in 0 .. Length - 1 : k < downloaded
    BY <1>2, <2>1
  <2>3. buf = [k \in 0 .. Length - 1 |-> Byte(served, Begin(work) + k)]
    BY <2>1, <2>2
  <2> QED BY <2>3 DEF BytesOf, Length
<1>3. CASE AttemptFails
  <2>1. Flight'
    BY <1>1, <1>3 DEF AttemptFails, Flight
  <2> QED BY <1>1, <1>3, <2>1, FetchFrame DEF AttemptFails
<1>4. CASE AttemptDone
  <2>1. Flight'
    BY <1>1, <1>4 DEF AttemptDone, Flight
  <2>2. downloaded >= Length
    BY <1>4 DEF AttemptDone, Complete
  <2>3. downloaded = requested
    BY <1>2, <2>2
  <2>4. Quiet' /\ Filled'
    BY <1>1, <1>4, <2>2, <2>3 DEF AttemptDone, Quiet, Filled, Length
  <2>5. ResultIntact' /\ cpc' # "fatal"
    BY <1>1, <1>4 DEF AttemptDone, ResultIntact, Honest
  <2> QED BY <2>1, <2>4, <2>5 DEF FetchInv
<1>5. CASE Accept
  <2> DEFINE m == [kind |-> "have", index |-> work]
  <2>1. m \in ServerMsg /\ ~Block(m)
    BY <1>2, ServerMsgs DEF Block
  <2>2. toServer' = Append(toServer, m)
    BY <1>5 DEF Accept
  <2> HIDE DEF m
  <2>3. Flight'
    BY <1>1, <1>5, <2>1, <2>2, SendQuiet DEF Accept, Flight
  <2>4. buf = BytesOf(served, work)
    BY <1>5, <1>7 DEF Accept
  <2>5. ResultIntact'
    BY <1>1, <1>5, <2>4 DEF Accept, ResultIntact, Honest, BytesOf
  <2>6. Quiet' /\ Filled' /\ cpc' # "fatal"
    BY <1>1, <1>5 DEF Accept, Quiet, Filled
  <2> QED BY <2>3, <2>5, <2>6 DEF FetchInv
<1>6. CASE Reject
  BY <1>6, <1>7 DEF Reject, CheckIntegrity, Honest
<1> QED BY <1>3, <1>4, <1>5, <1>6

\* The invariant of the pipeline is inductive, given that of the types.
LEMMA FetchInduction ==
  /\ Init => HonestInv
  /\ TypeInv /\ HonestInv /\ [Next]_vars => HonestInv'
<1>1. ASSUME Init PROVE HonestInv
  <2> DEFINE s == <<>>
  <2>1. s \in Seq(ServerMsg) /\ s \in Seq(ClientMsg(served))
        /\ s \in Seq(AskedOf(work)) /\ s \in Seq(SentOf(served, work)) /\ Len(s) = 0
    BY EmptySeq
  <2>2. toServer = s /\ toClient = s
    BY <1>1 DEF Init
  <2> HIDE DEF s
  <2>3. Chain(s, 0, 0) /\ Count(s) = 0
    <3>1. \A i \in 1 .. Len(s) : ~Block(s[i])
      BY <2>1
    <3> QED BY <2>1, <3>1, ChainNone
  <2>4. Lined(s, s, 0, 0, 0, work, served)
    BY <2>1, <2>3 DEF Lined
  <2>5. Flight
    BY <1>1, <2>2, <2>4 DEF Init, Flight
  <2>6. Quiet /\ Filled /\ ResultIntact /\ cpc # "fatal"
    BY <1>1 DEF Init, Quiet, Filled, ResultIntact
  <2> QED BY <2>5, <2>6 DEF HonestInv, FetchInv
<1>2. ASSUME TypeInv, HonestInv, [Next]_vars PROVE HonestInv'
  <2>1. served' = served
    BY <1>2 DEF Next, ClientStep, Expiry, ServerStep, Hello, Welcomed, RecvBitfield, BitfieldRefused,
       GreetBare, Attempt, SendRequest, ReadMessage, AttemptDone, Accept, Reject, HandshakeExpires, BitfieldExpires,
       AttemptFails, Greet, ServeRequest, ServePanics, ServeOther, HandlerEnds, Notice, vars, given
  <2>2. SUFFICES ASSUME Honest PROVE FetchInv'
    BY <2>1 DEF HonestInv, Honest
  <2>3. FetchInv
    BY <1>2, <2>2 DEF HonestInv
  <2>4. CASE UNCHANGED vars
    BY <2>3, <2>4 DEF vars, given, client, progress, FetchInv, Flight, Quiet, Filled, ResultIntact, Honest, Length
  <2> QED
    BY <1>2, <2>2, <2>3, <2>4, HandshakeFetch, ServeFetch, AttemptFetch, RequestFetch, ReadFetch, EndFetch
       DEF Next, ClientStep, Expiry, ServerStep
<1> QED BY <1>1, <1>2

-----------------------------------------------------------------------------
(* Theorems                                                                *)

\* Both invariants hold throughout.
LEMMA Invariance == Spec => [](TypeInv /\ HonestInv)
BY TypeInduction, FetchInduction, PTL DEF Spec

\* The counters of an attempt stay in their bounds, and only messages of known
\* kinds are on the streams.
THEOREM TypeCorrect == Spec => []TypeOK
<1>1. ASSUME TypeInv, HonestInv PROVE TypeOK
  <2>1. Types /\ Streams
    BY <1>1 DEF TypeInv
  <2>2. requested \in 0 .. PieceLength /\ backlog <= MaxBacklog
    <3>1. Length \in 1 .. PieceLength /\ PieceLength \in Nat
      BY <2>1, PieceBounds, TransferAssumption DEF Types, Length
    <3> QED BY <2>1, <3>1 DEF Types
  <2>3. Honest => downloaded \in 0 .. requested /\ backlog >= 0
    <3>1. ASSUME Honest PROVE downloaded \in 0 .. requested /\ backlog >= 0
      <4>1. Flight
        BY <1>1, <3>1 DEF HonestInv, FetchInv
      <4>2. downloaded \in Nat /\ requested \in Nat /\ downloaded <= requested /\ backlog \in Nat
        BY <4>1, LinedOrder DEF Flight
      <4> QED BY <4>2
    <3> QED BY <3>1
  <2>4. \A i \in 1 .. Len(toServer) : toServer[i].kind \in Kinds
    BY <2>1, ServerMsgs DEF Streams, Kinds
  <2>5. \A i \in 1 .. Len(toClient) : toClient[i].kind \in Kinds
    <3>1. ASSUME NEW i \in 1 .. Len(toClient) PROVE toClient[i].kind \in Kinds
      <4>1. toClient[i] \in ClientMsg(served) /\ served \in Torrents
        BY <2>1 DEF Streams, Types
      <4> QED BY <4>1, ClientFields DEF Kinds
    <3> QED BY <3>1
  <2> QED BY <2>1, <2>2, <2>3, <2>4, <2>5 DEF Types, TypeOK
<1> QED BY <1>1, Invariance, PTL

\* The backlog is the number of requests and blocks on their way, whatever the
\* sizes of pieces and blocks and however full the pipeline.
THEOREM BacklogExact == Spec => []PipelineMatches
<1>1. HonestInv => PipelineMatches
  BY DEF HonestInv, FetchInv, Flight, Lined, Count, PipelineMatches, Outstanding
<1> QED BY <1>1, Invariance, PTL

\* Between two attempts nothing of the first is on its way.
THEOREM CleanBetweenAttempts == Spec => []NothingLeftOver
<1>1. ASSUME HonestInv, Honest, cpc \in {"idle", "check"} PROVE Outstanding = 0
  <2>1. Flight /\ downloaded = requested
    BY <1>1 DEF HonestInv, FetchInv, Quiet
  <2>2. backlog = 0
    BY <2>1, AllReceived DEF Flight
  <2> QED BY <2>1, <2>2 DEF Flight, Lined, Count, Outstanding
<1> QED BY <1>1, Invariance, PTL DEF NothingLeftOver

\* downloaded counts the bytes that have arrived, each once.
THEOREM BytesCountedOnce == Spec => []CountsBytes
<1>1. ASSUME TypeInv, HonestInv, Honest, cpc = "fetch"
      PROVE  downloaded = Cardinality({k \in DOMAIN buf : buf[k] # Blank})
  <2>1. Flight /\ Types
        /\ buf = [k \in 0 .. Length - 1 |-> IF k < downloaded THEN Byte(served, Begin(work) + k) ELSE Blank]
    BY <1>1 DEF TypeInv, HonestInv, FetchInv, Filled
  <2>2. downloaded \in Nat /\ downloaded <= Length /\ Length \in Nat
    <3>1. downloaded \in Nat /\ downloaded <= requested
      BY <2>1, LinedOrder DEF Flight
    <3>2. requested \in 0 .. Length /\ Length \in Nat
      BY <2>1, PieceBounds DEF Types, Length
    <3> QED BY <3>1, <3>2
  <2>3. \A k : Byte(served, Begin(work) + k) # Blank
    BY DEF Byte, Blank
  <2> DEFINE L == Length
             d == downloaded
             old == buf
  <2>4. /\ DOMAIN old = 0 .. L - 1
        /\ \A k \in 0 .. L - 1 : old[k] # Blank <=> k < d
    BY <2>1, <2>3
  <2>5. {k \in DOMAIN old : old[k] # Blank} = 0 .. d - 1
    <3>1. d \in Nat /\ d <= L /\ L \in Nat
      BY <2>2
    <3> HIDE DEF L, d, old
    <3> QED BY <2>4, <3>1
  <2>6. Cardinality(0 .. d - 1) = d
    BY <2>2, FS_Interval
  <2> QED BY <2>5, <2>6
<1> QED BY <1>1, Invariance, PTL DEF CountsBytes

\* What is handed over is the piece, byte by byte, with or without a hash check.
THEOREM PiecesIntact == Spec => []ResultIntact
<1>1. HonestInv => ResultIntact
  BY DEF HonestInv, FetchInv, ResultIntact
<1> QED BY <1>1, Invariance, PTL

\* With a seeder of the wanted torrent the buffer of an attempt that has come to
\* its end always matches its hash: log.Fatalf is never reached.
THEOREM HonestNeverRejected == Spec => []HonestAccepted
<1>1. HonestInv => HonestAccepted
  BY DEF HonestInv, FetchInv, HonestAccepted
<1> QED BY <1>1, Invariance, PTL
=============================================================================
