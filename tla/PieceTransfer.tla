--------------------------- MODULE PieceTransfer ---------------------------
(***************************************************************************)
(* One connection between a leecher and a seeder, from the handshake to    *)
(* the last piece: the client side (client/client.go and the attempts of   *)
(* p2p/p2p.go), the handler of server/server.go, and the two FIFO streams  *)
(* between them.  A message on a stream is a record, its bytes are not     *)
(* modelled; the data of a piece are, byte by byte, so that it can be said *)
(* which byte of which torrent ends where.                                 *)
(***************************************************************************)
EXTENDS Integers, Sequences, FiniteSets

CONSTANTS
    Wanted,          \* the torrent of the leecher (its info hash)
    Torrents,        \* the torrents a seeder may have
    Size,            \* Length of each torrent
    PieceLength,     \* PieceLength of both
    MaxBlock,        \* MaxBlockSize
    MaxBacklog,      \* MaxBacklog
    ClientDht,       \* EnableDht of the leecher
    ServerDht,       \* EnableDht of the seeder
    DeadlinesExpire, \* whether a read may run into its deadline
    Notices,         \* what else the remote may send while it serves
    MaxNotices       \* bound: how many of them

ASSUME TransferAssumption ==
    /\ Wanted \in Torrents /\ Size \in [Torrents -> Nat \ {0}]
    /\ PieceLength \in Nat \ {0} /\ MaxBlock \in Nat \ {0} /\ MaxBacklog \in Nat \ {0}
    /\ ClientDht \in BOOLEAN /\ ServerDht \in BOOLEAN /\ DeadlinesExpire \in BOOLEAN
    /\ Notices \subseteq {"choke", "unchoke", "keepalive", "have", "stray"}
    /\ MaxNotices \in Nat

Smaller(a, b) == IF a < b THEN a ELSE b

\* Lengths of the wanted torrent's pieces; the last one may be shorter.
Begin(p)     == p * PieceLength
End(p)       == Smaller(Begin(p) + PieceLength, Size[Wanted])
PieceSize(p) == End(p) - Begin(p)
PiecesOf(t)  == 0 .. (Size[t] + PieceLength - 1) \div PieceLength - 1
Piece        == PiecesOf(Wanted)

\* The bytes of a torrent, told apart by where they come from; make zeroes the rest.
Byte(t, i)     == <<t, i>>
Blank          == <<>>
Zeroes(n)      == [k \in 0 .. n - 1 |-> Blank]
BytesOf(t, p)  == [k \in 0 .. PieceSize(p) - 1 |-> Byte(t, Begin(p) + k)]

VARIABLES
    late,       \* the connection came after the dial
    served,     \* the torrent of the seeder
    cpc,        \* where the worker of the connection stands
    has,        \* Client.Bitfield
    choked,     \* Client.Choked
    work,       \* index of the piece of the current attempt
    buf, downloaded, requested, backlog,   \* its pieceProgress
    results,    \* what the worker has sent to results, piece by piece
    hpc,        \* where the handler of the seeder stands
    toServer, toClient,   \* the streams, oldest message first
    noticed     \* messages the remote sent unasked

given    == <<late, served>>   \* never change
progress == <<work, buf, downloaded, requested, backlog>>
client   == <<cpc, has, choked, progress, results>>
vars == <<given, client, hpc, toServer, toClient, noticed>>

Init ==
    /\ late \in BOOLEAN /\ served \in Torrents
    /\ cpc = "hello" /\ has = {} /\ choked = FALSE
    /\ work = 0 /\ buf = <<>>
    /\ downloaded = 0 /\ requested = 0 /\ backlog = 0
    /\ results = [p \in {} |-> <<>>]
    /\ hpc = "handshake" /\ toServer = <<>> /\ toClient = <<>>
    /\ noticed = 0

-----------------------------------------------------------------------------
(* The handshake of the leecher                                            *)

Message(kind) == [kind |-> kind]
Handshake(t, dht) == [kind |-> "handshake", torrent |-> t, dht |-> dht]

\* completeHandshake writes its handshake.
Hello ==
    /\ cpc = "hello"
    /\ toServer' = Append(toServer, Handshake(Wanted, ClientDht))
    /\ cpc' = "handshake"
    /\ UNCHANGED <<given, has, choked, progress, results, hpc, toClient, noticed>>

\* "Expected infohash %x but got %x"
SameTorrent(res) == res.torrent = Wanted

\* completeHandshake reads the answer and, if both sides do DHT, sends its port.
Welcomed ==
    /\ cpc = "handshake" /\ toClient # <<>>
    /\ SameTorrent(Head(toClient))
    /\ toClient' = Tail(toClient)
    /\ toServer' = IF Head(toClient).dht /\ ClientDht
                   THEN Append(toServer, Message("port")) ELSE toServer
    /\ cpc' = "bitfield"
    /\ UNCHANGED <<given, has, choked, progress, results, hpc, noticed>>

RecvBitfield ==
    /\ cpc = "bitfield" /\ toClient # <<>>
    /\ Head(toClient).kind = "bitfield"
    /\ has' = Head(toClient).pieces
    /\ toClient' = Tail(toClient)
    /\ cpc' = "idle"
    /\ UNCHANGED <<given, choked, progress, results, hpc, toServer, noticed>>

\* Fault: the worker of a dialled connection starts after a failed handshake too.
AfterFailure_Ignored == "idle"

\* A failed handshake ends a dialled connection; Download drops the error of a
\* late one, whose worker starts all the same.
AfterFailure == IF late THEN "idle" ELSE "closed"

\* The answer does not come within 3 seconds: a late client keeps the bitfield
\* it was given from the first connection of its peer.
HandshakeExpires ==
    /\ cpc = "handshake" /\ DeadlinesExpire
    /\ cpc' = AfterFailure
    /\ has' = PiecesOf(served)
    /\ UNCHANGED <<given, choked, progress, results, hpc, toServer, toClient, noticed>>

\* The bitfield does not come within 5 seconds: a late client has none.
BitfieldExpires ==
    /\ cpc = "bitfield" /\ DeadlinesExpire
    /\ cpc' = AfterFailure
    /\ UNCHANGED <<given, has, choked, progress, results, hpc, toServer, toClient, noticed>>

\* "Expected bitfield but got ...": a late client has none then either.
BitfieldRefused ==
    /\ cpc = "bitfield" /\ toClient # <<>>
    /\ Head(toClient).kind # "bitfield"
    /\ toClient' = Tail(toClient)
    /\ cpc' = AfterFailure
    /\ UNCHANGED <<given, has, choked, progress, results, hpc, toServer, noticed>>

-----------------------------------------------------------------------------
(* An attempt: attemptDownloadPiece and readMessage                        *)

Attempt(p) ==
    /\ cpc = "idle" /\ p \in has \ DOMAIN results
    /\ cpc' = "fetch" /\ work' = p
    /\ buf' = Zeroes(PieceSize(p))
    /\ downloaded' = 0 /\ requested' = 0 /\ backlog' = 0
    /\ UNCHANGED <<given, has, choked, results, hpc, toServer, toClient, noticed>>

Length == PieceSize(work)

\* Fault: the attempt ends when everything is requested.
Complete_WhenRequested == requested >= Length

\* The loop of attemptDownloadPiece ends.
Complete == downloaded >= Length

\* Fault: one request too many.
MayRequest_OffByOne == ~choked /\ backlog <= MaxBacklog /\ requested < Length

MayRequest == ~choked /\ backlog < MaxBacklog /\ requested < Length

\* Fault: the last block of a piece is as long as the others.
BlockSize_NoTail == Smaller(MaxBlock, Length)

\* "Last block might be shorter than the typical block"
BlockSize == Smaller(Smaller(MaxBlock, Length), Length - requested)

\* Fault: the next block is the first one not received.
NextBegin_Received == downloaded

NextBegin == requested

SendRequest ==
    /\ cpc = "fetch" /\ ~Complete /\ MayRequest
    /\ toServer' = Append(toServer,
          [kind |-> "request", index |-> work, begin |-> NextBegin, length |-> BlockSize])
    /\ backlog' = backlog + 1
    /\ requested' = requested + BlockSize
    /\ UNCHANGED <<given, cpc, has, choked, work, buf, downloaded, results, hpc, toClient, noticed>>

\* ParsePiece refuses a block of another piece or outside of the buffer.
Fits(msg) ==
    /\ msg.index = work
    /\ msg.begin < Length
    /\ msg.begin + Len(msg.data) <= Length

\* Fault: the block is not taken off the backlog.
ReadPiece_NoBacklog(msg) ==
    /\ buf' = [k \in DOMAIN buf |->
                 IF k - msg.begin \in 0 .. Len(msg.data) - 1
                 THEN msg.data[k - msg.begin + 1] ELSE buf[k]]
    /\ downloaded' = downloaded + Len(msg.data)
    /\ UNCHANGED <<cpc, has, choked, work, requested, backlog>>

\* The block is copied to its offset.
ReadPiece(msg) ==
    /\ buf' = [k \in DOMAIN buf |->
                 IF k - msg.begin \in 0 .. Len(msg.data) - 1
                 THEN msg.data[k - msg.begin + 1] ELSE buf[k]]
    /\ downloaded' = downloaded + Len(msg.data)
    /\ backlog' = backlog - 1
    /\ UNCHANGED <<cpc, has, choked, work, requested>>

\* choke and unchoke
ReadChoke(msg) ==
    /\ choked' = (msg.kind = "choke")
    /\ UNCHANGED <<cpc, has, progress>>

\* SetPiece discards an index the bitfield has no room for.
ReadHave(msg) ==
    /\ has' = IF has = {} THEN {} ELSE has \cup {msg.index}
    /\ UNCHANGED <<cpc, choked, progress>>

\* The first bytes of a handshake are taken for the length of a message so
\* long that it never is complete.
ReadGarbled ==
    /\ cpc' = "garbled"
    /\ UNCHANGED <<has, choked, progress>>

\* readMessage; keep-alives, the port and a late bitfield change nothing.
ReadMessage ==
    /\ cpc = "fetch" /\ ~Complete /\ ~MayRequest /\ toClient # <<>>
    /\ LET msg == Head(toClient) IN
          \/ msg.kind = "piece" /\ Fits(msg) /\ ReadPiece(msg)
          \/ msg.kind \in {"choke", "unchoke"} /\ ReadChoke(msg)
          \/ msg.kind = "have" /\ ReadHave(msg)
          \/ msg.kind = "handshake" /\ ReadGarbled
          \/ /\ msg.kind \in {"keepalive", "port", "bitfield"}
             /\ UNCHANGED <<cpc, has, choked, progress>>
    /\ toClient' = Tail(toClient)
    /\ UNCHANGED <<given, results, hpc, toServer, noticed>>

\* The attempt fails and the connection is closed: its 30 seconds are over, or
\* ParsePiece refuses the block.
AttemptFails ==
    /\ \/ cpc \in {"fetch", "garbled"} /\ DeadlinesExpire
       \/ /\ cpc = "fetch" /\ toClient # <<>>
          /\ Head(toClient).kind = "piece" /\ ~Fits(Head(toClient))
    /\ cpc' = "closed"
    /\ UNCHANGED <<given, has, choked, progress, results, hpc, toServer, toClient, noticed>>

\* The buffer is returned.
AttemptDone ==
    /\ cpc = "fetch" /\ Complete
    /\ cpc' = "check"
    /\ UNCHANGED <<given, has, choked, progress, results, hpc, toServer, toClient, noticed>>

CheckIntegrity == buf = BytesOf(Wanted, work)

\* SendHave, then the result; the workers of late connections do not check it.
Accept ==
    /\ cpc = "check" /\ (late \/ CheckIntegrity)
    /\ toServer' = Append(toServer, [kind |-> "have", index |-> work])
    /\ results' = [p \in DOMAIN results \cup {work} |-> IF p = work THEN buf ELSE results[p]]
    /\ cpc' = "idle"
    /\ UNCHANGED <<given, has, choked, progress, hpc, toClient, noticed>>

\* log.Fatalf
Reject ==
    /\ cpc = "check" /\ ~late /\ ~CheckIntegrity
    /\ cpc' = "fatal"
    /\ UNCHANGED <<given, has, choked, progress, results, hpc, toServer, toClient, noticed>>

-----------------------------------------------------------------------------
(* The handler of the seeder, and what other remotes do                    *)

Notification(kind) ==
    CASE kind = "have"  -> [kind : {"have"}, index : Piece]
      [] kind = "stray" -> [kind : {"piece"}, index : Piece, begin : {0, MaxBlock},
                            data : {<<Byte(served, 0)>>}]
      [] OTHER          -> {Message(kind)}

Open == cpc \notin {"closed", "fatal"}

\* handleIncomingHandshake sends back the handshake it got, whatever torrent it
\* is for, then the bitfield of its own torrent and its port.
Greet ==
    /\ hpc = "handshake" /\ Open /\ toServer # <<>>
    /\ LET hs == Head(toServer)
           port == IF ServerDht /\ hs.dht THEN <<Message("port")>> ELSE <<>>
       IN  toClient' = toClient \o <<hs, [kind |-> "bitfield", pieces |-> PiecesOf(served)]>> \o port
    /\ toServer' = Tail(toServer)
    /\ hpc' = "serve"
    /\ UNCHANGED <<given, client, noticed>>

\* Fault: the offset of the piece is left out.
Offset_InPiece(req) == req.begin

\* Where the requested block starts in Content.
Offset(req) == req.index * PieceLength + req.begin

InContent(req) == Offset(req) + req.length <= Size[served]

ServeRequest ==
    /\ hpc = "serve" /\ Open /\ toServer # <<>>
    /\ LET req == Head(toServer) IN
          /\ req.kind = "request" /\ InContent(req)
          /\ toClient' = Append(toClient,
                [kind |-> "piece", index |-> req.index, begin |-> req.begin,
                 data |-> [k \in 1 .. req.length |-> Byte(served, Offset(req) + k - 1)]])
    /\ toServer' = Tail(toServer)
    /\ UNCHANGED <<given, client, hpc, noticed>>

\* The slice is out of range: the seeder panics.
ServePanics ==
    /\ hpc = "serve" /\ Open /\ toServer # <<>>
    /\ Head(toServer).kind = "request" /\ ~InContent(Head(toServer))
    /\ hpc' = "panic"
    /\ UNCHANGED <<given, client, toServer, toClient, noticed>>

\* The port is pinged elsewhere; the switch has no case for a have.
ServeOther ==
    /\ hpc = "serve" /\ Open /\ toServer # <<>>
    /\ Head(toServer).kind \in {"port", "have"}
    /\ toServer' = Tail(toServer)
    /\ UNCHANGED <<given, client, hpc, toClient, noticed>>

\* The read or the write fails once the leecher has closed the connection.
HandlerEnds ==
    /\ hpc \in {"handshake", "serve"} /\ ~Open
    /\ hpc' = "gone"
    /\ UNCHANGED <<given, client, toServer, toClient, noticed>>

\* Another implementation than this seeder may send no bitfield: the leecher
\* then waits for it, or takes what comes next for it.
GreetBare ==
    /\ hpc = "handshake" /\ Open /\ toServer # <<>> /\ noticed < MaxNotices
    /\ noticed' = noticed + 1
    /\ toClient' = Append(toClient, Head(toServer))
    /\ toServer' = Tail(toServer)
    /\ hpc' = "serve"
    /\ UNCHANGED <<given, client>>

\* Another implementation than this seeder may choke the leecher, announce a
\* piece or keep the connection alive; one that has another torrent may send
\* blocks nobody asked for.
Notice(kind) ==
    /\ hpc = "serve" /\ Open /\ noticed < MaxNotices
    /\ kind = "stray" => served # Wanted
    /\ noticed' = noticed + 1
    /\ \E msg \in Notification(kind) : toClient' = Append(toClient, msg)
    /\ UNCHANGED <<given, client, hpc, toServer>>

-----------------------------------------------------------------------------
ClientStep ==
    \/ Hello \/ Welcomed \/ RecvBitfield \/ BitfieldRefused
    \/ \E p \in Piece : Attempt(p)
    \/ SendRequest \/ ReadMessage \/ AttemptDone \/ Accept \/ Reject
Expiry == HandshakeExpires \/ BitfieldExpires \/ AttemptFails
ServerStep == Greet \/ ServeRequest \/ ServePanics \/ ServeOther \/ HandlerEnds

Next == ClientStep \/ Expiry \/ ServerStep \/ GreetBare \/ \E kind \in Notices : Notice(kind)

Spec == Init /\ [][Next]_vars

\* Both goroutines run, and the network delivers what is sent on a connection.
FairSpec == Spec /\ WF_vars(ClientStep) /\ WF_vars(ServerStep)

-----------------------------------------------------------------------------
(* Properties                                                              *)

Block(msg) == msg.kind \in {"request", "piece"}

\* The requests and blocks on their way.
Outstanding ==
    Cardinality({i \in 1 .. Len(toServer) : Block(toServer[i])})
    + Cardinality({i \in 1 .. Len(toClient) : Block(toClient[i])})

\* The seeder has the torrent it is asked for, and sends only what is asked for.
Honest == served = Wanted

Kinds == {"handshake", "bitfield", "port", "request", "piece", "have", "choke", "unchoke", "keepalive"}

\* The types of the variables; the counters of an attempt stay in their bounds.
TypeOK ==
    /\ late \in BOOLEAN /\ choked \in BOOLEAN /\ served \in Torrents
    /\ cpc \in {"hello", "handshake", "bitfield", "idle", "fetch", "garbled", "check",
                "closed", "fatal"}
    /\ has \subseteq Piece \cup PiecesOf(served)
    /\ work \in Piece /\ DOMAIN results \subseteq Piece
    /\ cpc = "fetch" => DOMAIN buf = 0 .. Length - 1
    /\ requested \in 0 .. PieceLength /\ backlog <= MaxBacklog
    /\ Honest => downloaded \in 0 .. requested /\ backlog >= 0
    /\ hpc \in {"handshake", "serve", "panic", "gone"}
    /\ \A i \in 1 .. Len(toServer) : toServer[i].kind \in Kinds
    /\ \A i \in 1 .. Len(toClient) : toClient[i].kind \in Kinds
    /\ noticed \in 0 .. MaxNotices

\* While a piece is fetched from an honest seeder the backlog is the number of
\* requests and blocks that are really on their way: it can neither leak, which
\* would stop the requests, nor let the pipeline grow.
PipelineMatches == Honest /\ cpc = "fetch" => backlog = Outstanding

\* An attempt leaves nothing behind: between two attempts no block of the old
\* piece is on its way that the next one would refuse as another piece's.
NothingLeftOver == Honest /\ cpc \in {"idle", "check"} => Outstanding = 0

\* downloaded, which only sums up lengths, is the number of bytes of the piece
\* that have really arrived: no two blocks overlap.
CountsBytes ==
    Honest /\ cpc = "fetch" => downloaded = Cardinality({k \in DOMAIN buf : buf[k] # Blank})

\* What a worker hands over as a piece is that piece of an honest seeder's
\* torrent, whether its worker checks the hash or not.
ResultIntact == Honest => \A p \in DOMAIN results : results[p] = BytesOf(served, p)

\* The worker of a dialled connection ends the program when a hash does not
\* match.  With an honest seeder it never comes to that: no order of requests,
\* chokes, announcements and short last blocks ends an attempt with a byte of
\* its piece missing or wrong.
HonestAccepted == Honest => cpc # "fatal"

\* The leecher never asks for bytes beyond the end of its torrent, which would
\* end the seeder: handleConnection does not look at the bounds.  That holds for
\* any seeder whose torrent is not shorter, whatever it sends unasked.
NoPanic == Size[Wanted] <= Size[served] => hpc # "panic"

\* On a connection of the dial no attempt starts in the middle of the handshake.
AlignedOnDial == ~late => cpc # "garbled"

\* An attempt comes to its end without the help of its deadline, which nothing
\* obliges to expire here: unless the remote has choked it, the pipeline never
\* stops with bytes missing.
AttemptEnds == Honest /\ cpc = "fetch" ~> cpc # "fetch" \/ choked

\* The leecher goes on to the bitfield only with a seeder of the same torrent.
TorrentAgreed == cpc \in {"bitfield", "fetch", "check"} /\ ~late => Wanted = served
=============================================================================
