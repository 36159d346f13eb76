------------------------------ MODULE Download ------------------------------
(***************************************************************************)
(* The download of one torrent (p2p/p2p.go): Torrent.Download, one         *)
(* startDownloadWorker goroutine per peer (a supervisor, below), one       *)
(* download goroutine per connection (a worker), and the goroutine of      *)
(* every supervisor that starts a worker for each new connection.  They    *)
(* meet in two channels: workQueue, buffered with room for every piece,    *)
(* and results, unbuffered, so that a send on it is a rendezvous with the  *)
(* collecting loop of Download.                                            *)
(***************************************************************************)
EXTENDS Integers, Sequences, FiniteSets

CONSTANTS
    N,           \* len(PieceHashes)
    Sup,         \* the startDownloadWorker goroutines there may be
    Known,       \* those Download starts, one per peer already in PeerSet
    Conn,        \* the workers there may be at the same time
    None,        \* no piece, no supervisor
    Bitfields,   \* the sets of pieces a remote may announce
    Contents,    \* what a completed attempt may have put into its buffer
    MaxFails,    \* bound: failed attempts
    MaxRefused,  \* bound: failed dials
    MaxExtra     \* bound: connections that arrive after the dial

Piece == 0 .. N - 1

\* Bytes that pass and bytes that fail checkIntegrity; Download starts from zeroes.
Good == "good"
Blank == "blank"

ASSUME DownloadAssumption ==
    /\ N \in Nat
    /\ Known \subseteq Sup
    /\ Sup \cap Conn = {}
    /\ None \notin Piece \cup Sup
    /\ Bitfields \subseteq SUBSET Piece
    /\ Good \in Contents /\ Blank \notin Contents
    /\ MaxFails \in Nat /\ MaxRefused \in Nat /\ MaxExtra \in Nat

VARIABLES
    main,        \* where Download stands
    filled,      \* pieces already put into the queue by Download
    workQueue,   \* the buffered channel of pieces to download
    closed,      \* close(workQueue) has run
    donePieces,  \* results received by Download
    buf,         \* the output buffer, piece by piece
    spc,         \* where each supervisor stands
    listening,   \* supervisors whose new-connection goroutine runs
    bare,        \* supervisors with such a goroutine whose clients is empty
    wpc,         \* where each worker stands
    owner,       \* the supervisor that started it
    extra,       \* workers that the new-connection goroutine started
    has,         \* Client.Bitfield of the connection of each worker
    hold,        \* the piece a goroutine took from the queue and still owns
    payload,     \* what the attempt of a worker downloaded
    fails, refused, extras   \* how often each bounded event happened

mainVars == <<main, filled, donePieces, buf>>
chanVars == <<workQueue, closed>>
supVars  == <<spc, listening, bare>>
connVars == <<owner, extra, has>>
bounds   == <<fails, refused, extras>>
vars == <<mainVars, chanVars, supVars, wpc, connVars, hold, payload, bounds>>

Init ==
    /\ main = "enable" /\ filled = 0 /\ donePieces = 0
    /\ buf = [p \in Piece |-> Blank]
    /\ workQueue = <<>> /\ closed = FALSE
    /\ spc = [s \in Sup |-> "off"] /\ listening = {} /\ bare = {}
    /\ wpc = [c \in Conn |-> "free"]
    /\ owner = [c \in Conn |-> None] /\ extra = {}
    /\ has = [c \in Conn |-> {}]
    /\ hold = [x \in Sup \cup Conn |-> None]
    /\ payload = [c \in Conn |-> Blank]
    /\ fails = 0 /\ refused = 0 /\ extras = 0

-----------------------------------------------------------------------------
(* The channel.  A send blocks while the buffer is full; on a closed       *)
(* channel it panics, which SendsProceed below excludes.                   *)

Send(p) ==
    /\ ~closed
    /\ Len(workQueue) < N
    /\ workQueue' = Append(workQueue, p)
    /\ UNCHANGED closed

\* A goroutine takes the piece at the head of the queue.
Receive(x) ==
    /\ workQueue # <<>>
    /\ hold' = [hold EXCEPT ![x] = Head(workQueue)]
    /\ workQueue' = Tail(workQueue)
    /\ UNCHANGED closed

\* "Put piece back on the queue"
PutBack(x) ==
    /\ Send(hold[x])
    /\ hold' = [hold EXCEPT ![x] = None]

-----------------------------------------------------------------------------
(* Download                                                                *)

\* workQueue and results are made; before that both are nil.
Begin ==
    /\ main = "enable"
    /\ main' = "fill"
    /\ UNCHANGED <<filled, donePieces, buf, chanVars, supVars, wpc, connVars, hold, payload, bounds>>

\* Fault: the loop runs once too often.
MoreToFill_OffByOne == filled <= N

MoreToFill == filled < N

Fill ==
    /\ main = "fill" /\ MoreToFill
    /\ Send(filled)
    /\ filled' = filled + 1
    /\ UNCHANGED <<main, donePieces, buf, supVars, wpc, connVars, hold, payload, bounds>>

\* One goroutine per peer of PeerSet, then the collecting loop.
StartWorkers ==
    /\ main = "fill" /\ ~MoreToFill
    /\ main' = "collect"
    /\ spc' = [s \in Sup |-> IF s \in Known THEN "dial" ELSE spc[s]]
    /\ UNCHANGED <<filled, donePieces, buf, chanVars, listening, bare, wpc, connVars, hold, payload, bounds>>

\* Fault: the loop ends one result too early.
AllCollected_OffByOne == donePieces >= N - 1

AllCollected == donePieces >= N

\* close(workQueue), then the buffer is returned to the caller.
Finish ==
    /\ main = "collect" /\ AllCollected
    /\ main' = "returned"
    /\ closed' = TRUE
    /\ UNCHANGED <<filled, donePieces, buf, workQueue, supVars, wpc, connVars, hold, payload, bounds>>

\* The callback of EnableDht starts a supervisor for a peer the DHT found; the
\* DHT node runs before Download makes its channels.
DhtPeer(s) ==
    /\ s \notin Known /\ spc[s] = "off"
    /\ spc' = [spc EXCEPT ![s] = "dial"]
    /\ UNCHANGED <<mainVars, chanVars, listening, bare, wpc, connVars, hold, payload, bounds>>

-----------------------------------------------------------------------------
(* A supervisor: startDownloadWorker                                       *)

Free == {c \in Conn : wpc[c] = "free"}

\* DialAndWaitForConnectBack: handshake and bitfield are done on every
\* connection the remote opened back, and each is in the slice clients.
ConnectBack(s, cs) ==
    /\ \E b \in [cs -> Bitfields] :
           has' = [c \in Conn |-> IF c \in cs THEN b[c] ELSE has[c]]
    /\ wpc' = [c \in Conn |-> IF c \in cs THEN "dialled" ELSE wpc[c]]
    /\ owner' = [c \in Conn |-> IF c \in cs THEN s ELSE owner[c]]

\* The new-connection goroutine starts before the workers do.
Dial(s, cs) ==
    /\ spc[s] = "dial" /\ cs # {}
    /\ ConnectBack(s, cs)
    /\ spc' = [spc EXCEPT ![s] = "spawn"]
    /\ listening' = listening \cup {s}
    /\ UNCHANGED <<mainVars, chanVars, bare, extra, hold, payload, bounds>>

\* range clients: one worker for each of them, counted by the wait group of s.
RangeClients(s) ==
    /\ spc[s] = "spawn"
    /\ spc' = [spc EXCEPT ![s] = "wait"]
    /\ wpc' = [c \in Conn |-> IF wpc[c] = "dialled" /\ owner[c] = s THEN "start" ELSE wpc[c]]
    /\ UNCHANGED <<mainVars, chanVars, listening, bare, connVars, hold, payload, bounds>>

\* The remote opened no connection but the last one, which is skipped: clients
\* is empty, and wg.Wait() has nothing to wait for.
DialEmpty(s) ==
    /\ spc[s] = "dial"
    /\ spc' = [spc EXCEPT ![s] = "wait"]
    /\ bare' = bare \cup {s}
    /\ UNCHANGED <<mainVars, chanVars, listening, wpc, connVars, hold, payload, bounds>>

\* "Could not handshake with ...  Disconnecting": the goroutine returns.
DialFails(s) ==
    /\ spc[s] = "dial" /\ refused < MaxRefused
    /\ refused' = refused + 1
    /\ spc' = [spc EXCEPT ![s] = "gone"]
    /\ UNCHANGED <<mainVars, chanVars, listening, bare, wpc, connVars, hold, payload, fails, extras>>

\* Fault: wg.Done() before the piece of a failed worker is back in the queue.
Counted_DoneFirst(s) ==
    {c \in Conn \ extra : wpc[c] \notin {"free", "failed"} /\ owner[c] = s}

\* The workers the wait group of s counts.
Counted(s) == {c \in Conn \ extra : wpc[c] # "free" /\ owner[c] = s}

\* Fault: the supervisor returns without looking at the queue.
WaitDone_NoRetry(s) ==
    /\ spc[s] = "wait" /\ Counted(s) = {}
    /\ spc' = [spc EXCEPT ![s] = "gone"]
    /\ UNCHANGED <<mainVars, chanVars, listening, bare, wpc, connVars, hold, payload, bounds>>

\* wg.Wait() returns.
WaitDone(s) ==
    /\ spc[s] = "wait" /\ Counted(s) = {}
    /\ spc' = [spc EXCEPT ![s] = "poll"]
    /\ UNCHANGED <<mainVars, chanVars, listening, bare, wpc, connVars, hold, payload, bounds>>

\* The select finds a piece: it goes back and the peer is dialled again.
PollFinds(s) ==
    /\ spc[s] = "poll"
    /\ Receive(s)
    /\ spc' = [spc EXCEPT ![s] = "requeue"]
    /\ UNCHANGED <<mainVars, listening, bare, wpc, connVars, payload, bounds>>

\* The queue is empty, closed or not: "No further pieces, done".
PollEmpty(s) ==
    /\ spc[s] = "poll" /\ workQueue = <<>>
    /\ spc' = [spc EXCEPT ![s] = "gone"]
    /\ UNCHANGED <<mainVars, chanVars, listening, bare, wpc, connVars, hold, payload, bounds>>

\* Fault: the piece found by the select is not put back.
Requeue_Dropped(s) ==
    /\ spc[s] = "requeue"
    /\ hold' = [hold EXCEPT ![s] = None]
    /\ spc' = [spc EXCEPT ![s] = "dial"]
    /\ UNCHANGED <<mainVars, chanVars, listening, bare, wpc, connVars, payload, bounds>>

\* Fault: the piece goes back but the peer is not dialled again.
Requeue_NoRedial(s) ==
    /\ spc[s] = "requeue"
    /\ PutBack(s)
    /\ spc' = [spc EXCEPT ![s] = "gone"]
    /\ UNCHANGED <<mainVars, listening, bare, wpc, connVars, payload, bounds>>

Requeue(s) ==
    /\ spc[s] = "requeue"
    /\ PutBack(s)
    /\ spc' = [spc EXCEPT ![s] = "dial"]
    /\ UNCHANGED <<mainVars, listening, bare, wpc, connVars, payload, bounds>>

\* Client.Handshake on a late connection.  Its error is dropped: the worker then
\* runs with the bitfield of the first client, or with none at all.
LateHandshake(c) ==
    \E b \in Bitfields \cup {{}} : has' = [has EXCEPT ![c] = b]

\* The new-connection goroutine of s starts a worker outside the wait group; it
\* appends the connection to clients, which nobody reads once the range is over.
NewConn(s, c) ==
    /\ s \in listening /\ wpc[c] = "free" /\ extras < MaxExtra
    /\ extras' = extras + 1
    /\ extra' = extra \cup {c}
    /\ wpc' = [wpc EXCEPT ![c] = "start"]
    /\ owner' = [owner EXCEPT ![c] = s]
    /\ LateHandshake(c)
    /\ UNCHANGED <<mainVars, chanVars, supVars, hold, payload, fails, refused>>

\* The same before the range has begun: clients then has the connection, which
\* gets a second worker d on the same stream, inside the wait group.  Handshake
\* may change the bitfield before d looks at it or not.
NewConnShared(s, c, d) ==
    /\ spc[s] = "spawn"
    /\ wpc[c] = "free" /\ wpc[d] = "free" /\ c # d /\ extras < MaxExtra
    /\ extras' = extras + 1
    /\ extra' = extra \cup {c}
    /\ wpc' = [wpc EXCEPT ![c] = "start", ![d] = "dialled"]
    /\ owner' = [owner EXCEPT ![c] = s, ![d] = s]
    /\ \E b, e \in Bitfields \cup {{}} : has' = [has EXCEPT ![c] = b, ![d] = e]
    /\ UNCHANGED <<mainVars, chanVars, supVars, hold, payload, fails, refused>>

\* For the first connection after a dial without clients, clients[0] panics.
NoFirstClient(s) ==
    /\ s \in bare /\ extras < MaxExtra
    /\ extras' = extras + 1
    /\ main' = "fatal"
    /\ UNCHANGED <<filled, donePieces, buf, chanVars, supVars, wpc, connVars, hold, payload, fails, refused>>

-----------------------------------------------------------------------------
(* A worker                                                                *)

Goto(c, pc) == wpc' = [wpc EXCEPT ![c] = pc]

\* The goroutine returns; its place in Conn may be used again.
Exit(c) ==
    /\ Goto(c, "free")
    /\ owner' = [owner EXCEPT ![c] = None]
    /\ extra' = extra \ {c}
    /\ has' = [has EXCEPT ![c] = {}]

\* range t.workQueue reads the channel variable once; a nil channel blocks forever.
Enter(c) ==
    /\ wpc[c] = "start"
    /\ Goto(c, IF main = "enable" THEN "stuck" ELSE "ready")
    /\ UNCHANGED <<mainVars, chanVars, supVars, connVars, hold, payload, bounds>>

Take(c) ==
    /\ wpc[c] = "ready"
    /\ Receive(c)
    /\ Goto(c, IF Head(workQueue) \in has[c] THEN "fetch" ELSE "return")
    /\ UNCHANGED <<mainVars, supVars, connVars, payload, bounds>>

\* The remote lacks the piece.
Return(c) ==
    /\ wpc[c] = "return"
    /\ PutBack(c)
    /\ Goto(c, "ready")
    /\ UNCHANGED <<mainVars, supVars, connVars, payload, bounds>>

\* range ends: the channel is closed and drained.
Drained(c) ==
    /\ wpc[c] = "ready" /\ closed /\ workQueue = <<>>
    /\ Exit(c)
    /\ UNCHANGED <<mainVars, chanVars, supVars, hold, payload, bounds>>

\* Fault: no worker checks the hash.
AfterFetch_Unchecked(c) == "deliver"

\* attemptDownloadPiece returns a buffer; only the workers of the dial check it.
AfterFetch(c) == IF c \in extra THEN "deliver" ELSE "verify"

Fetched(c, d) ==
    /\ wpc[c] = "fetch"
    /\ payload' = [payload EXCEPT ![c] = d]
    /\ Goto(c, AfterFetch(c))
    /\ UNCHANGED <<mainVars, chanVars, supVars, connVars, hold, bounds>>

\* attemptDownloadPiece returns an error (30s deadline, closed connection,
\* unexpected message); the connection is closed and its id set to "TMP".
FetchFails(c) ==
    /\ wpc[c] = "fetch" /\ fails < MaxFails
    /\ fails' = fails + 1
    /\ Goto(c, "failed")
    /\ UNCHANGED <<mainVars, chanVars, supVars, connVars, hold, payload, refused, extras>>

\* The piece goes back first, then wg.Done() or the return.
GiveUp(c) ==
    /\ wpc[c] = "failed"
    /\ PutBack(c)
    /\ Goto(c, "leaving")
    /\ UNCHANGED <<mainVars, supVars, connVars, payload, bounds>>

Leave(c) ==
    /\ wpc[c] = "leaving"
    /\ Exit(c)
    /\ UNCHANGED <<mainVars, chanVars, supVars, hold, payload, bounds>>

\* checkIntegrity passes.
Verified(c) ==
    /\ wpc[c] = "verify" /\ payload[c] = Good
    /\ Goto(c, "deliver")
    /\ UNCHANGED <<mainVars, chanVars, supVars, connVars, hold, payload, bounds>>

\* checkIntegrity fails: log.Fatalf ends the process.
Fatal(c) ==
    /\ wpc[c] = "verify" /\ payload[c] # Good
    /\ main' = "fatal"
    /\ UNCHANGED <<filled, donePieces, buf, chanVars, supVars, wpc, connVars, hold, payload, bounds>>

\* Fault: an error after the result was sent is handled like a failed attempt.
Deliver_ThenFails(c) ==
    /\ wpc[c] = "deliver" /\ main = "collect" /\ ~AllCollected
    /\ buf' = [buf EXCEPT ![hold[c]] = payload[c]]
    /\ donePieces' = donePieces + 1
    /\ Goto(c, "failed")
    /\ UNCHANGED <<main, filled, chanVars, supVars, connVars, hold, payload, bounds>>

\* The result is handed to the collecting loop, which copies it into the buffer.
Deliver(c) ==
    /\ wpc[c] = "deliver" /\ main = "collect" /\ ~AllCollected
    /\ buf' = [buf EXCEPT ![hold[c]] = payload[c]]
    /\ donePieces' = donePieces + 1
    /\ hold' = [hold EXCEPT ![c] = None]
    /\ payload' = [payload EXCEPT ![c] = Blank]
    /\ Goto(c, "ready")
    /\ UNCHANGED <<main, filled, chanVars, supVars, connVars, bounds>>

-----------------------------------------------------------------------------
MainStep == Begin \/ Fill \/ StartWorkers \/ Finish

SupStep(s) ==
    \/ \E cs \in SUBSET Free : Dial(s, cs)
    \/ DialEmpty(s) \/ DialFails(s) \/ RangeClients(s)
    \/ WaitDone(s) \/ PollFinds(s) \/ PollEmpty(s) \/ Requeue(s)

LateConn(s) == \E c \in Conn : NewConn(s, c) \/ \E d \in Conn : NewConnShared(s, c, d)

WorkerStep(c) ==
    \/ Enter(c) \/ Take(c) \/ Return(c) \/ Drained(c)
    \/ \E d \in Contents : Fetched(c, d)
    \/ FetchFails(c) \/ GiveUp(c) \/ Leave(c)
    \/ Verified(c) \/ Fatal(c) \/ Deliver(c)

Next ==
    /\ main # "fatal"
    /\ \/ MainStep
       \/ \E s \in Sup : DhtPeer(s) \/ SupStep(s) \/ NoFirstClient(s) \/ LateConn(s)
       \/ \E c \in Conn : WorkerStep(c)

Spec == Init /\ [][Next]_vars

(***************************************************************************)
(* Every goroutine is scheduled again and again, and an attempt ends       *)
(* because its deadline does.  A goroutine waiting to receive from a       *)
(* channel is served in the order it came, so a worker that only ever puts *)
(* pieces back cannot keep another one waiting forever: strong fairness on *)
(* Take.  A remote that is dialled again and again opens connections at    *)
(* some time.  Nothing obliges the DHT to find a peer or a new connection  *)
(* to arrive.                                                              *)
(***************************************************************************)
Fairness ==
    /\ WF_vars(main # "fatal" /\ MainStep)
    /\ \A s \in Sup : WF_vars(main # "fatal" /\ SupStep(s))
    /\ \A s \in Sup : SF_vars(main # "fatal" /\ \E cs \in SUBSET Free : Dial(s, cs))
    /\ \A c \in Conn : WF_vars(main # "fatal" /\ WorkerStep(c))
    /\ \A c \in Conn : SF_vars(main # "fatal" /\ Take(c))

FairSpec == Spec /\ Fairness

-----------------------------------------------------------------------------
(* Where the pieces are                                                    *)

Unfilled == {p \in Piece : p >= filled}
Queued   == {workQueue[i] : i \in 1 .. Len(workQueue)}
InHand   == {hold[x] : x \in Sup \cup Conn} \ {None}
Written  == {p \in Piece : buf[p] # Blank}

Holding == {"return", "fetch", "failed", "verify", "deliver"}

\* The types of the variables; a goroutine owns a piece exactly at the points
\* of its code where a pieceWork is in scope, and Download starts its workers
\* only after it has filled the queue.
TypeOK ==
    /\ main \in {"enable", "fill", "collect", "returned", "fatal"}
    /\ filled \in 0 .. N /\ donePieces \in 0 .. N
    /\ buf \in [Piece -> Contents \cup {Blank}]
    /\ workQueue \in Seq(Piece) /\ closed \in BOOLEAN
    /\ spc \in [Sup -> {"off", "dial", "spawn", "wait", "poll", "requeue", "gone"}]
    /\ listening \subseteq Sup /\ bare \subseteq Sup
    /\ wpc \in [Conn -> Holding \cup {"free", "dialled", "start", "stuck", "ready", "leaving"}]
    /\ owner \in [Conn -> Sup \cup {None}]
    /\ extra \subseteq Conn
    /\ has \in [Conn -> SUBSET Piece]
    /\ hold \in [Sup \cup Conn -> Piece \cup {None}]
    /\ main \in {"enable", "fill"} => \A s \in Known : spc[s] = "off"
    /\ \A s \in Sup : hold[s] # None <=> spc[s] = "requeue"
    /\ \A c \in Conn : hold[c] # None <=> wpc[c] \in Holding
    /\ payload \in [Conn -> Contents \cup {Blank}]
    /\ \A c \in Conn : wpc[c] \in {"verify", "deliver"} => payload[c] # Blank
    /\ fails \in 0 .. MaxFails /\ refused \in 0 .. MaxRefused /\ extras \in 0 .. MaxExtra

\* Whatever the workers, the retries and the late connections do, every piece
\* is in exactly one place: not queued yet, queued once, in the hands of one
\* goroutine, or in the buffer.  No failure path loses or copies a pieceWork.
OneTokenPerPiece ==
    /\ Piece = Unfilled \cup Queued \cup InHand \cup Written
    /\ Unfilled \cap (Queued \cup InHand \cup Written) = {}
    /\ Queued \cap (InHand \cup Written) = {}
    /\ InHand \cap Written = {}
    /\ \A i, j \in 1 .. Len(workQueue) : workQueue[i] = workQueue[j] => i = j
    /\ \A x, y \in Sup \cup Conn : hold[x] = hold[y] /\ hold[x] # None => x = y

\* Download counts results, not pieces, and stops at len(PieceHashes): the
\* count is right because no two results are for the same piece.
CountedOnce == donePieces = Cardinality(Written)

\* Every goroutine that owns a piece may have to put it back.  It never meets
\* the closed channel (a panic) nor a full one (all workers blocked on
\* sending, none left to receive); nor does Download while it fills the queue.
SendsProceed ==
    (InHand # {} \/ (main = "fill" /\ MoreToFill)) => ~closed /\ Len(workQueue) < N

\* As long as no dial failed and no late connection came, a download with
\* pieces left has a supervisor that has not returned, however often remotes
\* open no connections: the wait group is released only after the piece of a
\* failed worker is back in the queue.  The one that is left may be a supervisor
\* the DHT started whose workers are stuck on the nil channel.
NotAbandoned ==
    (/\ main = "collect" /\ donePieces < N
     /\ Known # {} /\ refused = 0 /\ extras = 0)
        => \E s \in Sup : spc[s] \in {"dial", "spawn", "wait", "poll", "requeue"}

\* Only bytes that match the hash of their piece reach the output buffer.
OutputVerified == \A p \in Piece : buf[p] \in {Blank, Good}

\* That is so as long as no connection comes late: a connection identity that
\* passes from a worker to the next carries no unchecked buffer along.
VerifiedUnlessLate == extras = 0 => OutputVerified

\* Download fills its buffer the way PieceBuffer promises.
Buffer == INSTANCE PieceBuffer WITH
    Pieces <- Piece, returned <- closed
FillsTheBuffer == Buffer!Spec

\* Download returns.
DownloadReturns == <>(main = "returned")

\* A piece in the queue, and so every piece put back "on the queue", is taken
\* up by some worker, unless the program ends.
QueuedIsTaken == \A p \in Piece : p \in Queued ~> p \notin Queued \/ main = "fatal"
=============================================================================
