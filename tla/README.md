# BitTorrent over SCION: a TLA+ verification project

The program in `src/` is a BitTorrent client for the SCION network. A *seeder* serves one torrent
from memory; a *leecher* fetches it over several QUIC connections, each on a SCION path of its own.
This directory holds TLA+ modules translated from that code, TLC configurations that check them on
small instances, and theorems about them that TLAPS has checked. `PROJECT.json` ties every definition
to the lines it models and every property to the hazard it is for.

    tlc -workers 2 -config DownloadAll.cfg MCDownload      # one run
    tlapm DownloadProofs.tla                               # the proofs about Download

and likewise for `TransferProofs`, `UploadProofs`, `PathProofs`, `DiscoveryProofs`, `WireProofs` and the two
modules of lemmas, `PathRulesProofs` and `FoldLaws`.

## The system

| component | state | operations | talks to |
|---|---|---|---|
| **download scheduling** (`p2p/p2p.go`) | `workQueue` (buffered, one slot per piece), `results` (unbuffered), the output buffer, `donePieces`, a wait group per peer | `Download`, `startDownloadWorker`, the two kinds of worker goroutines, the new-connection goroutine | peers found by discovery start supervisors; each worker drives one connection |
| **piece transfer, leecher side** (`client/client.go`, `p2p.go:61-166`, `message/message.go`) | `Client` (bitfield, choked), `pieceProgress` (buffer, downloaded, requested, backlog) | `Handshake`, `recvBitfield`, `attemptDownloadPiece`, `readMessage`, `checkIntegrity` | the upload handler, over one connection |
| **upload handler** (`server/server.go:391-509`) | position in the stream, `Content` | `handleIncomingHandshake`, `handleConnection` | the leecher; the DHT node is pinged on `port` |
| **sessions of the seeder** (`server/server.go:60-390`) | `Conns`, `extPeers`, the path store, the metrics file, one mutex | `ListenHandshake`, `updateDisjointPathselection`, `measureConnMetrics` | path store, upload handlers |
| **path distribution** (`pathselection/pathselectionstore.go`) | `Data`: available and used paths per leecher | `AddPeerEntry` and its helpers, `Get`, deletion | called by the sessions |
| **peer discovery** (`dht_node/`, `peers/`, `p2p.go:345-400`, `torrentfile.go:58-130`) | `PeerSet` (a map), the announce loop, one consumer per traversal, the node's routing table | `EnableDht`, `announceLoop`, `consumePeers`, `Add`, `Close` | its callback starts supervisors of a download |
| **wire formats** (`message/`, `handshake/`, `bitfield/`) | none | serialisation and parsing | the two ends of a connection |
| torrent files and tracker, metrics, legacy sockets, command line | none worth a model | straight-line code | |

### What is hard, and what makes each component correct

- **Scheduling.** Workers receive from and send to the *same* channel; supervisors peek at it; late
  connections have workers outside the wait group; the channel is closed by the loop that counts
  results. Correct means: no piece is lost, copied, counted twice; no send meets a full or closed
  channel; retries happen; `Download` returns; only verified bytes are written.
- **Transfer.** Up to `MaxBacklog` requests are in flight, chokes and announcements come between
  blocks, the same stream serves one attempt after the other, and each read has a deadline. Correct
  means: the backlog is the number of blocks in flight, blocks do not overlap, none is left for the
  next attempt, and a piece handed over is the piece of the torrent.
- **Upload handler.** No bounds check on requests, no check of the torrent. Correct means: an honest
  leecher never makes it panic, and it serves only the torrent that was asked for.
- **Paths.** Slices are shortened in place while the selection of a session shares their array,
  candidates come from a map, and sessions add entries without the lock. Correct means: a leecher's
  paths are available to it and do not conflict with each other, a newcomer does not take too many, a
  socket uses what the store says, and nobody who has gone keeps paths.
- **Sessions.** Goroutines share `Conns`, `extPeers` and the store, partly without the lock; a wait
  group is added to after it was waited for; a mutex stays locked on early returns. Correct means: every
  connection that is reported gets one handler, the metrics file is well formed whatever handlers end
  together, and a leecher that has gone is removed.
- **Discovery.** `PeerSet` is tested and then changed, and iterated over while the callback adds to
  it; the node may find a peer before `Download` has made its channels; consumers of two traversals
  overlap; announcements fail. Correct means: every peer gets a worker, no peer gets two, and announcing
  goes on.
- **Formats.** Lengths and numbers have a width, and a handshake and a message follow each other on one
  stream. Correct means: what one side writes is what the other reads, and nothing of what follows.

The full list of hazards, each at its line and with the properties that cover it, is in
`PROJECT.json`. A hazard without properties has a note that says why.

## Modules

| module | role |
|---|---|
| `PieceBuffer` | abstract: what a download promises |
| `Download` | `p2p.go`: `Download`, supervisors, workers, the two channels |
| `DownloadProofs` | theorems about `Download` |
| `PieceTransfer` | one connection: leecher, handler and the two streams |
| `TransferProofs` | theorems about `PieceTransfer` |
| `PathRules` | `pathselectionstore.go`: conflicts, and one round of the loop of `AddPeerEntry` |
| `PathStore` | abstract: the store, with an entry added or deleted in one step |
| `PathSessions` | `server.go` and `pathselectionstore.go`: the store as the session goroutines use it, step by step; implements `PathStore` as long as updates do not overlap |
| `FoldLaws` | induction on numbers, and what a fold over a sequence computes |
| `PathRulesProofs` | lemmas about the operators of `PathRules` |
| `PathProofs` | theorems about `PathSessions` |
| `UploadServer` | `server.go`: the session goroutines, their watchers, `Conns`, the lock, the metrics file |
| `UploadProofs` | theorems about `UploadServer` |
| `PeerDiscovery` | `dht_node.go`, `peers.go`, and what `DownloadToFile` and `Download` do to start workers |
| `DiscoveryProofs` | theorems about `PeerDiscovery` |
| `Wire` | messages, handshakes and bitfields byte by byte; operators only |
| `WireProofs` | theorems about `Wire` |
| `MCDownload`, `MCPieceTransfer`, `MCPathStore`, `MCPathSessions`, `MCUploadServer`, `MCPeerDiscovery` | model values, symmetry and data for TLC |

Operators named `X_Reason` and commented *Fault:* are mutated forms of the definition `X` that
follows them. No action uses them: substituted for `X` each of them must make TLC report the
property it is paired with in `PROJECT.json`.

### Download

One atomic step per channel operation, in the order of the code.

| in the model | in the code |
|---|---|
| `main` | where `Download` stands: before its channels exist (`enable`), filling the queue, collecting, returned; `fatal` is `log.Fatalf` |
| `workQueue`, `closed` | the buffered channel; its capacity is `N` = `len(PieceHashes)` |
| `results` | no variable: a send on the unbuffered channel and its receipt by the collecting loop are the one step `Deliver` |
| `spc`, `listening`, `bare` | each `startDownloadWorker` goroutine, whether its new-connection goroutine runs, and whether one runs whose `clients` is empty |
| `wpc`, `owner`, `extra` | each worker, the supervisor that started it, and whether the new-connection goroutine started it (no wait group, no integrity check) |
| `has` | `Client.Bitfield` |
| `hold`, `payload` | the `pieceWork` in a goroutine's scope and the buffer its attempt returned |

`Counted(s)` is the wait group of `s`; `WaitDone` is `wg.Wait()`. `AfterFetch` tells the two kinds of
workers apart. A handshake answers within its deadline or fails the dial (`DialFails`); on a late
connection its error is dropped, and the worker may then run without a bitfield (`LateHandshake`).
`DialAndWaitForConnectBack` skips the last connection of the socket; when there is no other it returns no
clients and no error (`DialEmpty`): the supervisor goes straight to its look at the queue, and a
connection that comes later makes `clients[0]` panic (`NoFirstClient`).

Between the dial and the workers there are two steps, as in the code: `Dial` starts the new-connection
goroutine, and `RangeClients` starts a worker for each connection in `clients`. A connection that comes in between
(`NewConnShared`) is appended to `clients` and gets *two* workers on its stream: one of the new-connection
goroutine, outside the wait group, and one of the range, inside it. A connection that comes later
(`NewConn`) gets the first only. Both are late connections and are bounded by `MaxExtra`.

Abstractions: an attempt is `Fetched` or `FetchFails` (`PieceTransfer` opens it up); a member of `Conn` is a
worker rather than a connection, and is used again once it has returned; the two workers of a shared stream have a bitfield
each, fixed from the start, where in the code `Handshake` may change it under the second one while it runs, and what they read
of each other's blocks makes their attempts fail or their buffers bad, as `FetchFails` and `Contents` allow of any attempt; `Begin` makes both channels in one step; a
nil channel is `stuck`. A goroutine of `Sup` stands for one call of `startDownloadWorker`; that two of them
may serve the same peer is shown in `PeerDiscovery` and makes no difference here. The ids of connections
(`SetId("TMP")`, by which the new-connection goroutine tells old connections from new ones) are left out:
any connection may be taken for a new one, and none has to be.

### PieceTransfer

`Hello`, `Welcomed`, `RecvBitfield` are `completeHandshake` and `recvBitfield`; `Attempt` to `Accept`
are one pass of a worker's loop; `SendRequest` is the inner loop of `attemptDownloadPiece`,
`ReadMessage` is `readMessage` with one disjunct per case of its switch; `Greet`, `ServeRequest`,
`ServeOther` are the seeder. The streams are reliable and FIFO (QUIC). Data are byte by byte (`Byte(t, i)`
is byte `i` of torrent `t`), so "intact" is an equality, not an assumption, and a hash is equality of bytes.
`Notice` stands for what another implementation of the protocol may send: chokes, announcements,
keep-alives and blocks that were not asked for; `GreetBare` for one that sends no bitfield, so that the leecher waits for
it until its deadline or takes something else for it (`BitfieldRefused`). This seeder does none of that.

Abstractions: a message is a record and is read whole. When a late connection reads the rest of an
unfinished handshake as messages, its first bytes give a length of hundreds of megabytes, so the reader
waits until its deadline: `garbled`. A worker tries any piece of its bitfield next, which is what an
arbitrary queue gives it. A connection has one worker: the stream with two (`NewConnShared` of
`Download`), on which the workers read each other's blocks, is not opened up.

`served` is the torrent of the seeder, any of `Torrents`, so one run covers the right and the wrong one.

### PathStore and PathSessions

In `PathStore`, `AddPeerEntry` is one action: it applies the loop over `AvailablePaths` as a fold of
`TryPath`, one round of it. Candidates with equal numbers of paths come in any order, as from a Go map
(`OrdersOf`). After a removal only candidates with enough paths stay (`Filter`, which is
`filterByMinimumUsedPaths`). Entries made of zero values that `make` puts before the candidates never conflict and are left out.

Two paths conflict (`PathsConflict`) when they share an interface, unless it is the first of both or the last of
both: paths between the same two hosts share those by nature, and the paths of the instance all do. The test
`TestConflictingPeer` (`pathselectionstore_test.go:122`) expects another rule: of two leechers it wants the one to lose a
path whose paths start with the interface that the newcomer's path starts with, and the other one, in whose paths the
newcomer's *last* interface comes first, to lose none. By the code it is the other way round. The modules follow the code
(`pathselectionstore.go:36-53`), and `OwnDisjoint` is stated with its rule; no run checks the test's expectation.

`PathSessions` takes this apart. Each leecher has one session goroutine:

| in the model | in the code |
|---|---|
| `pc` | where it stands: in `AddPeerEntry` (`try`), in the rest of `updateDisjointPathselection` (`get`, `refresh`, `append`), at `Connect`, connected (`up`), waiting for the lock, removing (`filter`, `assign`) |
| `add` | the locals of `AddPeerEntry`: the paths taken so far, the candidates and the lengths they had when they were copied |
| `array`, `Data` | the array behind each `UsedPaths`, and the length the store has for it |
| `selection` | `ServerSelection.usedPaths`: a slice of the same array with a length of its own, so a removal shows in it as moved elements until it is refreshed |
| `extPeers`, `later`, `read` | `Server.extPeers`, the part of it a loop has still to visit, the slice about to be assigned |
| `active` | the paths the socket of a session uses since it last called `CustomPathSelectAlg` |
| `ended` | `panic`: the index -1 of a path the socket does not offer; `fatal`: the Go runtime has noticed concurrent use of a map |

`overlapped` and `before` are history variables: whether two updates ever overlapped, and the store before
the addition that is under way. `StoreView`, the refinement mapping, shows `before` until an addition ends.
The sockets are a library: they call the selection when they connect, when `ForcePathSelection` asks for it
and when they like (`Reselect`), and a path may vanish (`Withdraw`). `NumPaths` is 0, the mode in which
the store decides.

### PeerDiscovery

| in the model | in the code |
|---|---|
| `mpc`, `must`, `visited` | `DownloadToFile` and `Download`; what the `range` over `PeerSet` has to come to and has come to (Go lets it come to peers added meanwhile, or not) |
| `lpc`, `ps`, `traversal` | `announceLoop`, its `ps`, and whether each traversal is open |
| `cpc`, `current`, `known` | `consumePeers` of each traversal and the locals of the callback: `Check` is `hasPeer`, `AddPeer` is `Add` and the start of a worker |
| `started`, `dialling`, `working`, `stuck` | how many workers each source has started for each peer, those still dialling, whether one has found the queue made, and who started those that found it nil |

`MapFault` is the runtime's check for concurrent use of a map; it may notice or not, and when it does not the steps
go on. A closed traversal still delivers what it had found. Left out: the node's statistics and
routing table, the seeder's own node (its callback only fills a set that nobody reads), and `Port()`, which
nobody calls. `Blocked` drops any peer on this node's host, whatever its port, as the code
does (`dht_node.go:180`). A peer is one value: that the DHT's `peer.String()` (`dht_node.go:161`) and the command line
(`torrentfile.go:73`) may spell one address in two ways, which makes it two members of `PeerSet`, is left out. It could only add
workers for one peer, of which `discovery_twice` already shows two.

### Wire

Operators for `Serialize`, `Read`, the formatting and parsing of requests, haves and ports, handshakes with
their reserved bytes, and `HasPiece`/`SetPiece`. A stream is the sequence of bytes that have arrived, and a reader
that needs more returns `Incomplete`. `PutUint32` keeps the width of the field. There is nothing to
explore: `WireProofs` proves what `PieceTransfer` takes for granted by having records on its streams and sets for bitfields.

### UploadServer

| in the model | in the code |
|---|---|
| `spc` | the goroutine `ListenHandshake` starts for a leecher: connecting, starting handlers, `wg.Wait()`, `Disconnect`, removal under the lock |
| `wpc`, `report` | the goroutine that waits for `OnConnectionsChange` (the *watcher*), and what that channel holds |
| `Conns`, `read`, `adding`, `todo` | `Server.Conns`, the slice a goroutine has read and will assign, the connection it appends, the rest of its loop |
| `hpc` | the `measureConnMetrics` goroutines; `<<c, n>>` is the `n`-th handler of connection `c` |
| `Running(s)` | the wait group of session `s` |
| `holder` | the server's mutex |
| `file` | the CSV file: header and lines |

`append` to `Conns` and the watcher's filtering are each a step that reads and a step that assigns, so the
steps of another session fall in between; that is the data race of the code, with the outcomes of
word-sized reads and writes (a slice header torn by the race is not modelled). The sockets are a library: they
open connections, see them closed and report all they have open. `FileFails` stands for each early return
between `Lock` and `Unlock`; the lock stays held, as in the code. A failed `WriteString` is not, since
the code ignores it. With `Csv` FALSE the handler takes no lock and does not close its connection, as in
the HTTP export. A keep-alive ends a handler (`KeepAlive`): `handleConnection` returns nil for it.

Abstractions: what a handler does until its connection ends is `PieceTransfer`; each connection is used once;
`updateDisjointPathselection`, which runs in the same goroutine before `Connect`, and what the removal does
to the store are `PathSessions`.

## What the runs show

Passing runs:

| run | question | bounds |
|---|---|---|
| `download_all` | Is a piece ever lost, copied, counted or written twice; can a send block or panic; unless dials fail or connections come late, is a supervisor left while pieces are left and are only verified bytes written; is `PieceBuffer` implemented? | 2 pieces, 3 workers at a time, one peer known and one found by the DHT at any time, one remote with all and one with some pieces, 2 failed attempts, 1 failed dial, 1 late connection, good and bad bytes |
| `download_live` | Is every queued piece taken up again, and does `Download` return? | 2 pieces, 2 peers that have them all, 2 workers at a time, 3 failed attempts, dials without clients, `FairSpec` |
| `transfer_all` | Is the pipeline accounted for, are pieces of an honest seeder intact and never refused for their hash, on dialled and on late connections? Does an attempt that is not choked end although no deadline is obliged to expire? Is a seeder never asked beyond its end, also when it has another torrent that is not shorter and sends unasked blocks? | torrents of 7 + 5, 7 + 2 and 7 + 7 + 1 bytes, blocks of 2, backlog 2, two notices (or one and no bitfield), deadlines |
| `paths_all` | Do sockets use what the store says, is the store right about who is there, when can the program panic, do the sessions implement `PathStore`, are a leecher's own paths free of conflicts, and is half of them, rounded down, left by a newcomer? | 3 leechers with 2, 3 and 1 paths in conflict, arriving and leaving in every order and interleaving, 1 failed `Connect`, 1 withdrawn path |
| `upload_all` | Is the metrics file written by one handler at a time, with one header; is the lock kept only after a failure; has each connection of a leecher that is alone one handler; does every reported connection get one, and is a leecher that has gone removed? | 2 leechers, 2 connections, 2 reports, 1 failing file operation, `FairSpec` |
| `discovery_all` | Does every peer get a worker, at most one from each source; is a peer of `PeerSet` ever forgotten by the loop of `Download`; do the workers of `Download` find its queue; is at most one traversal open, and is there one again after a failure? | a peer of the command line, another peer, one on the node's own host; 2 traversals with 2 peers each, 1 failed announcement, `FairSpec` |

Runs that find a disagreement, each with one property and one finding:

| run | what TLC shows |
|---|---|
| `download_lost_retry` | The supervisor looks at the queue while a late connection holds the last piece, returns, and the connection fails: the piece put back for "a new connection" is never taken and `Download` does not return. |
| `download_unverified` | The worker of a late connection writes bytes whose hash it never compared. |
| `transfer_wrong_torrent` | The seeder echoes the handshake, so "Expected infohash" can never be reported and the leecher goes on with a seeder of any torrent. |
| `store_order` | Candidates are asked in ascending order of their number of paths; the comment says descending. |
| `upload_twice` | Two sessions append to `Conns` at once, one connection is lost from it, the next report finds it missing and a second handler reads from its stream. |
| `discovery_twice` | The callback finds a peer unknown and adds it, `Download`'s loop comes to it, and both start a worker: "dont start two worker for same peer" does not hold. |

### Bounds

`MaxFails`, `MaxRefused`, `MaxExtra` count failed attempts, failed dials and late connections;
`MaxNotices` counts unasked messages, `MaxReports` changes of connections that sockets report, `MaxErrors`
file operations or `Connect`s that fail, `MaxWithdrawn` paths that vanish, `MaxAnnounces`, `MaxReceived` and
`MaxFailures` announcements, the peers each of them brings and announcements that fail. They bound how often something happens, never how it interleaves.
Two failed attempts are what it takes for two workers of a dial to fail together or for a retry to fail
again, and the three of `download_live` let a retry of a retry fail; one late connection is enough for it to outlive its
supervisor or to get two workers; three workers let two dials and a late connection overlap. In `download_live`, without late
connections, two let the two peers compete for the pieces, or one peer have two connections. Two reports let a watcher find a connection again that was lost from `Conns`; two
connections can belong to one session or to two. Three leechers let one be robbed by two others, one of them
while it leaves; two traversals are what it takes for consumers to overlap, and two peers each for one to be found twice. Seven-byte pieces in blocks of two give four blocks, the last one shorter, so the backlog of two is
filled, drained and filled again; the second piece is shorter than the first. Symmetry permutes
connections, in `download_all` only: not in runs with liveness.

Deadlock is not checked in the runs where the program really stops: `Download` has returned, `log.Fatalf`
has ended the process, the connection is closed, all leechers have gone. That it stops *too early* is what `DownloadReturns`,
`NotAbandoned`, `AttemptEnds`, `LeecherRemoved`, `PeerTried` and `AnnouncedAgain` are about.

### Fairness

`FairSpec` of `Download` has weak fairness for `Download`, for each supervisor and for each worker: Go
schedules runnable goroutines, and an attempt ends at the latest with its 30-second deadline
(`p2p.go:119`). `Take` has strong fairness: goroutines that wait to receive from a channel are served in the
order they came, so a worker that keeps putting back pieces its remote lacks cannot starve another one.
A dial with connections has strong fairness: a remote that opens none (`DialEmpty`) is dialled again at once, and one
that never opens any keeps the supervisor dialling for ever; the liveness run asks what happens when a remote
opens connections at some time.
No fairness obliges the DHT to find a peer or a connection to arrive. The liveness run assumes
that dials succeed (`MaxRefused = 0`) and that there is no late connection: with a failed dial of the only peer, or
with the schedule of `download_lost_retry`, `Download` really does not return.
`FairSpec` of `PieceTransfer` has weak fairness for both ends, that is, a connection delivers what is sent.
Deadlines may expire there but need not: with an obligation to expire, a stalled attempt would be ended by its
deadline and the stall not be seen. Chokes excuse an attempt, since only a deadline ends a choked one.
`FairSpec` of `UploadServer` has weak fairness for the steps of each session, watcher and handler. Nothing obliges
a leecher to come or go, a socket to report, a keep-alive to be sent or an operation to fail.
`FairSpec` of `PeerDiscovery` has weak fairness for `DownloadToFile` and `Download`, for `announceLoop` (the ticker ticks)
and for a callback that has begun. Nothing obliges the DHT to find a peer, or a dial to end. `PathSessions` has
no fairness: its properties are safety properties.

## What is proved

### Scheduling

`DownloadProofs` holds for every number of pieces, peers and connections, for every set of bitfields and
contents and every value of the bounds that satisfy `DownloadAssumption`, finite or not for peers and
connections:

| theorem | statement |
|---|---|
| `TypeCorrect` | `Spec => []TypeOK` |
| `TokensKept` | `Spec => []OneTokenPerPiece`: every piece is unfilled, queued once, in one pair of hands, or written |
| `CountCorrect` | `Spec => []CountedOnce`: `donePieces` is the number of pieces written |
| `SendsNeverBlock` | `Spec => []SendsProceed`: whoever has a piece to send meets an open channel with room |
| `Implements` | `Spec => FillsTheBuffer`: `Download` refines `PieceBuffer` with `returned <- closed` |
| `DialledVerified` | `Spec => []VerifiedUnlessLate`: without late connections only verified bytes are written |
| `NeverAbandoned` | `Spec => []NotAbandoned`: without failed dials and late connections a supervisor is left while pieces are left |

The argument is the inductive invariant

    IInv == TypeOK /\ OneTokenPerPiece /\ CountedOnce /\ ClosedAtEnd

- `TypeOK` says which program points own a piece. Without that, `hold` could be set at a point whose exit
  forgets it.
- `OneTokenPerPiece` is the heart of it. Pieces only *move* between the four places, and the lemmas say so
  once for each kind of move: `HandGains` and `HandLoses` for goroutines, `AppendElems` and `TailElems` for
  the queue, `MovingKeepsTokens` for the partition.
- `CountedOnce` needs it: a delivered piece comes from a hand, hence was not written before, hence the
  cardinality grows by one with the counter.
- `ClosedAtEnd` (the channel is closed only when all results are in) needs `CountedOnce`: then all pieces
  are written and, by `OneTokenPerPiece`, no goroutine holds one. That is why no send can meet the closed
  channel.
- `RoomForMissing` is the pigeonhole step: if some piece is not in the queue and no piece is there twice,
  the queue is shorter than its capacity `N`. That is why no send blocks.

`InitBuffer` and `NextBuffer` are the two halves of the refinement: `Deliver` is a `Write` because its piece is
in hand, `Finish` is a `Return` because all are written, everything else stutters.

`DialledVerified` adds the invariant `Checked`: at the point where a worker outside a late connection
delivers, its payload is good. `NeverAbandoned` adds `Attended`: while no dial has failed and no connection came late, each worker has a
supervisor that still waits for it, and `Download` collects only once the queue was filled. The only step at
which a supervisor gives up sees an empty queue; a piece that is missing then is, by `OneTokenPerPiece`, in the
hands of a goroutine whose supervisor is another one still at work (`MissingHeld`). Both proofs use that the
counters of bounded events only grow (`BoundsGrow`).

### One connection

`TransferProofs` holds for every length of the torrents, of their pieces and of blocks, every backlog, every torrent of
the seeder, with and without deadlines and notices, on dialled and late connections, under `TransferAssumption`:

| theorem | statement |
|---|---|
| `TypeCorrect` | `Spec => []TypeOK`: the counters of an attempt stay in their bounds |
| `NeverGarbledOnDial` | `Spec => []AlignedOnDial`: on a dialled connection no attempt reads from the middle of a handshake |
| `HonestNeverRejected` | `Spec => []HonestAccepted`: with a seeder of the wanted torrent the hash of an attempt always matches |
| `BacklogExact` | `Spec => []PipelineMatches`: `backlog` is the number of requests and blocks on their way |
| `CleanBetweenAttempts` | `Spec => []NothingLeftOver`: nothing of one attempt is on its way in the next |
| `BytesCountedOnce` | `Spec => []CountsBytes`: `downloaded` is the number of bytes in the buffer |
| `PiecesIntact` | `Spec => []ResultIntact`: a piece arrives byte by byte, with or without a hash check |
| `SeederNeverPanics` | `Spec => []NoPanic`: no request makes the handler slice beyond its content, if that is not shorter than the wanted torrent |

The argument has two inductive invariants. `TypeInv` types the messages on both streams (a request never reaches
beyond its piece) and says that nothing comes before the handshake; it needs no assumption about the seeder, and gives
`SeederNeverPanics`.
`HonestInv` is about a seeder of the wanted torrent that sends no unasked blocks; that its leecher never ends with `log.Fatalf` (`HonestAccepted`) is one of its parts. Its heart is `Flight`: the
blocks received, the blocks on the one stream, the requests on the other and what is still to be requested lie end to end
in the piece (`Chain`), and the backlog counts those on their way. A chain is a function that says where the first
`i` messages have come to, so sending extends it at its end, receiving takes its beginning away, and serving a
request moves a link from one stream to the other; each is a lemma. When the last byte is in, the chain from
`downloaded` to `requested` has no room for a block, whence nothing is left over. `Filled` says that the buffer is filled
from its beginning, whence the bytes are counted once and the piece is intact.

The proof corrected a property: `TypeOK` used to say that the bitfield has only pieces of the wanted torrent. A seeder of a longer
torrent has others, so `TypeOK` now names them, and the longer torrent of `transfer_all` has TLC look at that case.

### Sessions

`UploadProofs` holds for every set of leechers and connections, finite or not, with and without the
CSV file, for every bound, under `UploadAssumption` (session and handler identities differ, and `None` is
neither):

| theorem | statement |
|---|---|
| `TypeCorrect` | `Spec => []TypeOK`, with the part that says a session only looks at connections of its own |
| `LockExcludes` | `Spec => []LockHeld`: one goroutine at a time between `Lock` and `Unlock`; a lock held without a failure belongs to one that will release it |
| `FileWellFormed` | `Spec => []OneHeader`: the metrics file starts with its only header |
| `ServedOnceAlone` | `Spec => []OneHandlerAlone`: no open connection of a leecher that is alone is served by two handlers |

Two facts make the properties inductive. `WatcherLater` says that a watcher runs only once its session has
started all handlers, so that the two never share `read` and `adding`; `TypeOK` needs it. `FileKnown` says
that what a handler found out about the file under the lock stays true until it writes: the file is
empty while it is about to write the header and not empty otherwise; that needs `LockHeld`, and `OneHeader`
needs it. `ServedOnceAlone` needs two more. `Opened` says that the server only knows connections that some session has
opened. `Sole` says, for a leecher that is alone, that `Conns` has every connection that a handler serves, that nobody
changes it between a goroutine's read of it and its assignment, and that what is about to be appended nobody serves.
Alone is what makes it true: with a second session an assignment may lose a connection (`upload_twice`).

### Paths

`PathProofs` holds for every finite set of leechers and all their available paths, of any number and length and with any
conflicts, under `PathRulesAssumption` (a socket offers a path once) and `PathSessionsAssumption`:

| theorem | statement |
|---|---|
| `TypeCorrect` | `Spec => []TypeOK`: arrays, selections and sockets hold only paths of their leecher; an entry's paths stay in their order, none twice |
| `NoStrangePath` | `Spec => []PanicOnlyIfWithdrawn`: the index -1 panics only when the socket has lost a path |
| `StoreHasTheLive` | `Spec => []StoreIsLive`: the store has who is connected, and nobody who has gone |
| `SocketsUseTheStore` | `Spec => []StoreEnforced`: after an update each socket uses what the store says |
| `PathsDisjoint` | `Spec => []OwnDisjoint`: two paths of a leecher share no interface but the first of both or the last of both, as long as updates do not overlap |
| `HalfIsLeft` | `Spec => HalfKept`: a newcomer leaves every other leecher half of its paths rounded down, of three one and of one none, as long as updates do not overlap |
| `ImplementsPathStore` | `Spec => RefinesStore`: without overlaps the sessions implement `PathStore`, step by step |

- `TypeInv` says whose paths an array holds and that every slice is within it. It holds whatever updates overlap, and gives
  `NoStrangePath`.
- `LiveInv` says that one update is under way at a time unless updates have overlapped, and what the slices hold that its
  session has copied or read. Its first part needs no such condition: a connected leecher is in the store.
- `SyncInv` says of each selection that it is what the store says or that the update under way has still to come to it
  (`Pending`). While paths are taken away neither holds, but then a loop over all of `extPeers` is still to begin.
- `NeatInv` says that every entry is a part of its leecher's available paths, in their order, and free of conflicts;
  taking away a path keeps that (`PartRemove`, `DisjointRemove`), and what is stored went through `ConflictFree`
  (`ConflictFreeFacts`).
- `HalfInv` says that a leecher has lost at most as many paths as the newcomer has taken, and that it had more than
  that at each loss: `before <= Data + own` and `before <= 2 * Data + 1`. Half is what follows; a third leecher's losses
  only make `own` larger.
- `RunInv` makes the refinement. The sessions go through the available paths one step at a time, the abstract store folds
  over them in one. `RunInv` says that the rounds so far are those that some order of the candidates leads to, each of
  them `TryPath` of the one before (`NextPathFacts`); when the entry is stored they are all the values the fold goes
  through, and `RunGivesFold` says that the fold ends with the last of them.

What a fold computes for sequences of every length needs induction, and the library's induction theorems cannot be used by
the installed provers. `FoldLaws` does it with sets in the place of predicates: a set of numbers with 0 and with the
successors of its members has all numbers, since otherwise what it lacks would have a least element (`WFMin`). From this it
proves that the fold of the community modules runs through the values one expects (`FoldRuns`, `RunGivesFold`), for
an operation that is a constant of the module; `PathRulesProofs` and `PathProofs` instantiate it for `Filter`,
`ConflictFree` and `TryPath`.

### Discovery

`DiscoveryProofs` holds for every set of peers and every number of announcements, under `DiscoveryAssumption`:

| theorem | statement |
|---|---|
| `TypeCorrect` | `Spec => []TypeOK`: a consumer has a peer at hand exactly while it is in the callback |
| `NoSourceTwice` | `Spec => []OncePerSource`: no traversal, and not the loop of `Download`, starts two workers for a peer |
| `NobodyForgotten` | `Spec => []NoneForgotten`: a peer of `PeerSet` has a worker, or the loop of `Download` is still to come to it |
| `WorkersFindQueue` | `Spec => []NotStuck`: the workers that `Download` starts find the queue made |
| `OneAtATime` | `Spec => []OneTraversal`: one traversal is open at a time |

The invariant `WorkerInv` adds two facts: whom a traversal has started a worker for is in `PeerSet`, and whom
the loop has started one for is what it has visited (`Remembered`), and what a callback has looked up as known stays known, since `PeerSet` only grows
(`KnownIsMember`). That two *different* sources may start a worker each is not excluded, and happens
(`discovery_twice`).

### Formats

`WireProofs` holds for all messages, handshakes, bitfields and streams:

| theorem | statement |
|---|---|
| `MessageRoundTrip` | `Read` of a serialised message and what follows gives the message and what follows, if its length fits into 32 bits |
| `KeepAliveRoundTrip` | the same for a keep-alive |
| `NumbersArrive` | requests, haves and ports whose numbers fit into their fields are parsed as they were formatted |
| `HandshakeRoundTrip` | `ReadHandshake` of a serialised handshake and what follows gives the handshake, its DHT bit included, and what follows |
| `HandshakeIsNoMessage` | `Read` of a handshake waits until more than 300 million bytes have come: the `garbled` reader of `PieceTransfer` |
| `SetPieceAddsOne` | `SetPiece` is set union on the pieces a bitfield stands for, and nothing beyond its last byte |

The argument is about layouts: `PutGet32` and `PutGet16` for the fields, `Cat`, `Part`, `Rest` and `Middle` for parts of
concatenations, whence `Layout` and `HandshakeLayout` give each byte's place.

## What is only model-checked

Every invariant and action property that a passing run checks is also a theorem. What stays with TLC is liveness, which is out
of the prover's reach: `DownloadReturns`, `QueuedIsTaken`, `AttemptEnds`, `ReportedIsServed`, `LeecherRemoved`, `PeerTried`
and `AnnouncedAgain`; and the disagreements, each of them a counterexample. No property was
weakened for its proof.

## What is not modelled

- *Path selection with `NumPaths` > 0*, where the library chooses the paths and the store is only written.
- *The ids of connections* (`SetId("TMP")`): see `Download` above.
- *The DHT library*: its routing table, its statistics and their output; `Port()` of the node, which nobody calls.
- *Torrent files and tracker*: bencoding is a library's; nothing calls the tracker client. `DownloadToFile` is in
  `PeerDiscovery`.
- *Legacy sockets* (`socket/`): nothing uses them.
- *Command line, environment lookup, the formatting of metrics and their HTTP export*: straight-line code.
- Of `Client`, `SendInterested`, `SendNotInterested` and `SendUnchoke` are never called; of the seeder's
  handler the answers to `interested` and keep-alive are left out since this leecher sends neither.

## Plan

The modules are written, and every safety property has its theorem. What could be added:

1. That `PathStore` by itself keeps `TypeOK` and `OwnDisjoint`: so far they are proved of the store that the sessions make,
   where the refinement needs them.
2. How many paths a newcomer gets: that its entry is the conflict-free part of what it took, and not empty when it has
   an available path that conflicts with nobody's.
3. What may happen to a download with failed dials and late connections, as a weaker form of `NotAbandoned`.
