-------------------------------- MODULE Wire --------------------------------
(***************************************************************************)
(* The formats on a connection: messages (message/message.go), handshakes  *)
(* (handshake/handshake.go) and bitfields (bitfield/bitfield.go), byte by  *)
(* byte.  A stream is the sequence of the bytes that have arrived; a read  *)
(* that wants more of them waits.                                          *)
(***************************************************************************)
EXTENDS Integers, Sequences

Byte == 0 .. 255

Max32 == 4294967296   \* 2^32
Max16 == 65536        \* 2^16

\* binary.BigEndian.  The conversion to uint32 before it drops the higher bits.
PutUint32(v) == <<(v \div 16777216) % 256, (v \div 65536) % 256, (v \div 256) % 256, v % 256>>
PutUint16(v) == <<(v \div 256) % 256, v % 256>>

\* The number whose bytes start at s[i].
Uint32(s, i) == s[i] * 16777216 + s[i + 1] * 65536 + s[i + 2] * 256 + s[i + 3]
Uint16(s, i) == s[i] * 256 + s[i + 1]

-----------------------------------------------------------------------------
(* Messages                                                                *)

MsgHave    == 4
MsgRequest == 6
MsgPort    == 9

Message == [ID : Byte, Payload : Seq(Byte)]

\* The results of a parser and of a read.
Error      == [kind |-> "error"]
Incomplete == [kind |-> "incomplete"]
KeepAlive(rest)  == [kind |-> "keepalive", rest |-> rest]
Got(msg, rest)   == [kind |-> "message", msg |-> msg, rest |-> rest]

FormatRequest(index, begin, length) ==
    [ID |-> MsgRequest, Payload |-> PutUint32(index) \o PutUint32(begin) \o PutUint32(length)]
FormatHave(index) == [ID |-> MsgHave, Payload |-> PutUint32(index)]
FormatPort(port)  == [ID |-> MsgPort, Payload |-> PutUint16(port)]

\* A payload that is too long is accepted for a request, and only there.
ParseRequest(msg) ==
    IF msg.ID # MsgRequest \/ Len(msg.Payload) < 12 THEN Error
    ELSE [kind |-> "request", index |-> Uint32(msg.Payload, 1),
          begin |-> Uint32(msg.Payload, 5), length |-> Uint32(msg.Payload, 9)]
ParseHave(msg) ==
    IF msg.ID # MsgHave \/ Len(msg.Payload) # 4 THEN Error
    ELSE [kind |-> "have", index |-> Uint32(msg.Payload, 1)]
ParsePort(msg) ==
    IF msg.ID # MsgPort \/ Len(msg.Payload) # 2 THEN Error
    ELSE [kind |-> "port", port |-> Uint16(msg.Payload, 1)]

\* <length prefix><message ID><payload>
Serialize(msg)     == PutUint32(Len(msg.Payload) + 1) \o <<msg.ID>> \o msg.Payload
SerializeKeepAlive == <<0, 0, 0, 0>>

\* The rest of a stream whose first n bytes have been read.
Drop(s, n) == SubSeq(s, n + 1, Len(s))

\* What message.Read makes of a stream.
Read(s) ==
    LET length == Uint32(s, 1)
    IN  CASE Len(s) < 4                                     -> Incomplete
          [] Len(s) >= 4 /\ length = 0                      -> KeepAlive(Drop(s, 4))
          [] Len(s) >= 4 /\ length > 0 /\ Len(s) < 4 + length -> Incomplete
          [] Len(s) >= 4 /\ length > 0 /\ Len(s) >= 4 + length ->
               Got([ID |-> s[5], Payload |-> SubSeq(s, 6, 4 + length)], Drop(s, 4 + length))

-----------------------------------------------------------------------------
(* Handshakes                                                              *)

\* "BitTorrent protocol"
Pstr == <<66, 105, 116, 84, 111, 114, 114, 101, 110, 116, 32,
          112, 114, 111, 116, 111, 99, 111, 108>>

Hash == {h \in Seq(Byte) : Len(h) = 20}
Handshake == [Pstr : {Pstr}, InfoHash : Hash, PeerID : Hash, DhtSupport : BOOLEAN]

\* getReservedBytes: the last bit tells of the DHT.
Reserved(dht) == <<0, 0, 0, 0, 0, 0, 0, IF dht THEN 1 ELSE 0>>

SerializeHandshake(h) ==
    <<Len(h.Pstr)>> \o h.Pstr \o Reserved(h.DhtSupport) \o h.InfoHash \o h.PeerID

\* What handshake.Read makes of a stream.
ReadHandshake(s) ==
    LET n == s[1]
    IN  CASE Len(s) = 0                          -> Incomplete
          [] Len(s) > 0 /\ n = 0                 -> Error
          [] Len(s) > 0 /\ n > 0 /\ Len(s) < 49 + n -> Incomplete
          [] Len(s) > 0 /\ n > 0 /\ Len(s) >= 49 + n ->
               Got([Pstr |-> SubSeq(s, 2, n + 1),
                    InfoHash |-> SubSeq(s, n + 10, n + 29), PeerID |-> SubSeq(s, n + 30, n + 49),
                    DhtSupport |-> s[n + 9] % 2 = 1], Drop(s, n + 49))

-----------------------------------------------------------------------------
(* Bitfields: byte k, counted from 0, is bf[k], given by its bits, the     *)
(* highest first.                                                          *)

Bits == [0 .. 7 -> {0, 1}]
Bitfields(n) == [0 .. n - 1 -> Bits]

\* bf[byteIndex]>>uint(7-offset)&1 != 0, if there is such a byte
HasPiece(bf, n, index) == index \div 8 < n /\ bf[index \div 8][index % 8] # 0

\* bf[byteIndex] |= 1 << uint(7 - offset), if there is such a byte
SetPiece(bf, n, index) ==
    IF index \div 8 < n THEN [bf EXCEPT ![index \div 8][index % 8] = 1] ELSE bf

\* The set that a bitfield of n bytes stands for.
PieceSet(bf, n) == {i \in Nat : HasPiece(bf, n, i)}
=============================================================================
