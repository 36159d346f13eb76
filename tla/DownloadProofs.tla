--------------------------- MODULE DownloadProofs ---------------------------
(***************************************************************************)
(* Theorems about Download, for every number of pieces, peers and          *)
(* connections: the inductive invariant IInv, the safety properties that   *)
(* follow from it, and the refinement of PieceBuffer.                      *)
(***************************************************************************)
EXTENDS Download, FiniteSetTheorems, TLAPS

USE DownloadAssumption DEF DownloadAssumption

(* Type correctness *)

\* Init establishes the type invariant.
LEMMA InitType == Init => TypeOK
<1> SUFFICES ASSUME Init PROVE TypeOK
  OBVIOUS
<1>0. workQueue \in Seq(Piece)
  BY DEF Init
<1>1. /\ main = "enable" /\ filled \in 0 .. N /\ donePieces \in 0 .. N /\ closed = FALSE
      /\ fails \in 0 .. MaxFails /\ refused \in 0 .. MaxRefused /\ extras \in 0 .. MaxExtra
  BY DEF Init
<1>2. /\ buf \in [Piece -> Contents \cup {Blank}]
      /\ payload \in [Conn -> Contents \cup {Blank}]
      /\ owner \in [Conn -> Sup \cup {None}]
      /\ has \in [Conn -> SUBSET Piece]
      /\ hold \in [Sup \cup Conn -> Piece \cup {None}]
      /\ listening \subseteq Sup /\ bare \subseteq Sup /\ extra \subseteq Conn
  BY DEF Init
<1>3. /\ spc \in [Sup -> {"off"}] /\ wpc \in [Conn -> {"free"}]
      /\ \A s \in Sup : spc[s] = "off" /\ hold[s] = None
      /\ \A c \in Conn : wpc[c] = "free" /\ hold[c] = None
  BY DEF Init
<1>4. /\ spc \in [Sup -> {"off", "dial", "spawn", "wait", "poll", "requeue", "gone"}]
      /\ wpc \in [Conn -> Holding \cup {"free", "dialled", "start", "stuck", "ready", "leaving"}]
  BY <1>3
<1> QED BY <1>0, <1>1, <1>2, <1>3, <1>4 DEF TypeOK, Holding

\* The steps of Download and of the DHT callback.
LEMMA MainType ==
  ASSUME TypeOK, MainStep \/ \E s \in Sup : DhtPeer(s)
  PROVE  TypeOK'
<1> USE DEF TypeOK, Holding, Piece
<1>1. CASE Begin
  BY <1>1 DEF Begin, chanVars, supVars, connVars, bounds
<1>2. CASE Fill
  BY <1>2 DEF Fill, Send, MoreToFill, supVars, connVars, bounds
<1>3. CASE StartWorkers
  BY <1>3 DEF StartWorkers, MoreToFill, chanVars, connVars, bounds
<1>4. CASE Finish
  BY <1>4 DEF Finish, supVars, connVars, bounds
<1>5. ASSUME NEW s \in Sup, DhtPeer(s) PROVE TypeOK'
  BY <1>5 DEF DhtPeer, mainVars, chanVars, connVars, bounds
<1> QED BY <1>1, <1>2, <1>3, <1>4, <1>5 DEF MainStep

\* The steps of a supervisor and of its new-connection goroutine.
LEMMA SupType ==
  ASSUME TypeOK, NEW s \in Sup,
         SupStep(s) \/ NoFirstClient(s) \/ LateConn(s)
  PROVE  TypeOK'
<1> USE DEF TypeOK, Holding, mainVars, connVars, bounds
<1>1. ASSUME NEW cs \in SUBSET Free, Dial(s, cs) PROVE TypeOK'
  BY <1>1 DEF Dial, ConnectBack, Free, chanVars
<1>2. CASE DialFails(s)
  BY <1>2 DEF DialFails, chanVars
<1>3. CASE WaitDone(s)
  BY <1>3 DEF WaitDone, chanVars
<1>4. CASE PollFinds(s)
  BY <1>4 DEF PollFinds, Receive, Piece
<1>5. CASE PollEmpty(s)
  BY <1>5 DEF PollEmpty, chanVars
<1>6. CASE Requeue(s)
  BY <1>6 DEF Requeue, PutBack, Send
<1>7. ASSUME NEW c \in Conn, NewConn(s, c) PROVE TypeOK'
  BY <1>7 DEF NewConn, LateHandshake, chanVars, supVars
<1>8. CASE NoFirstClient(s)
  BY <1>8 DEF NoFirstClient, chanVars, supVars
<1>9. CASE DialEmpty(s)
  BY <1>9 DEF DialEmpty, chanVars
<1>10. CASE RangeClients(s)
  BY <1>10 DEF RangeClients, chanVars
<1>11. ASSUME NEW c \in Conn, NEW d \in Conn, NewConnShared(s, c, d) PROVE TypeOK'
  BY <1>11 DEF NewConnShared, chanVars, supVars
<1> QED BY <1>1, <1>2, <1>3, <1>4, <1>5, <1>6, <1>7, <1>8, <1>9, <1>10, <1>11 DEF SupStep, LateConn

\* The steps of a worker.
LEMMA WorkerType ==
  ASSUME TypeOK, NEW c \in Conn, WorkerStep(c)
  PROVE  TypeOK'
<1> USE DEF TypeOK, Holding, mainVars, supVars, connVars, bounds, Goto
<1>1. CASE Enter(c)
  BY <1>1 DEF Enter, chanVars
<1>2. CASE Take(c)
  BY <1>2 DEF Take, Receive
<1>3. CASE Return(c)
  BY <1>3 DEF Return, PutBack, Send
<1>4. CASE Drained(c)
  BY <1>4 DEF Drained, Exit, chanVars
<1>5. ASSUME NEW d \in Contents, Fetched(c, d) PROVE TypeOK'
  BY <1>5 DEF Fetched, AfterFetch, chanVars
<1>6. CASE FetchFails(c)
  BY <1>6 DEF FetchFails, chanVars
<1>7. CASE GiveUp(c)
  BY <1>7 DEF GiveUp, PutBack, Send
<1>8. CASE Leave(c)
  BY <1>8 DEF Leave, Exit, chanVars
<1>9. CASE Verified(c)
  BY <1>9 DEF Verified, chanVars
<1>10. CASE Fatal(c)
  BY <1>10 DEF Fatal, chanVars
<1>11. CASE Deliver(c)
  BY <1>11 DEF Deliver, AllCollected, chanVars
<1> QED BY <1>1, <1>2, <1>3, <1>4, <1>5, <1>6, <1>7, <1>8, <1>9, <1>10, <1>11 DEF WorkerStep

\* Every step of the program keeps the type invariant.
LEMMA NextType == TypeOK /\ [Next]_vars => TypeOK'
<1> SUFFICES ASSUME TypeOK, [Next]_vars PROVE TypeOK'
  OBVIOUS
<1>1. CASE Next
  BY <1>1, MainType, SupType, WorkerType DEF Next
<1>2. CASE UNCHANGED vars
  BY <1>2 DEF TypeOK, vars, mainVars, chanVars, supVars, connVars, bounds
<1> QED BY <1>1, <1>2

\* The variables keep their types, and a goroutine owns a piece exactly where
\* a pieceWork is in scope.
THEOREM TypeCorrect == Spec => []TypeOK
BY InitType, NextType, PTL DEF Spec

-----------------------------------------------------------------------------
(* Every piece is in one place *)

Goroutine == Sup \cup Conn

\* The elements of a queue, and that none occurs twice.
Elems(q)    == {q[i] : i \in 1 .. Len(q)}
Distinct(q) == \A i, j \in 1 .. Len(q) : q[i] = q[j] => i = j

\* A send of a new piece.
LEMMA AppendElems ==
  ASSUME NEW q \in Seq(Piece), NEW p \in Piece, Distinct(q), p \notin Elems(q)
  PROVE  Elems(Append(q, p)) = Elems(q) \cup {p} /\ Distinct(Append(q, p))
<1> DEFINE r == Append(q, p)
<1>1. /\ Len(q) \in Nat /\ Len(r) = Len(q) + 1 /\ r[Len(q) + 1] = p
      /\ \A i \in 1 .. Len(q) : r[i] = q[i]
  OBVIOUS
<1>2. \A i \in 1 .. Len(r) : i \in 1 .. Len(q) \/ i = Len(q) + 1
  BY <1>1
<1> HIDE DEF r
<1>3. Elems(r) \subseteq Elems(q) \cup {p}
  BY <1>1, <1>2 DEF Elems
<1>4. Elems(q) \cup {p} \subseteq Elems(r)
  BY <1>1 DEF Elems
<1>5. Distinct(r)
  BY <1>1, <1>2 DEF Distinct, Elems
<1> QED BY <1>3, <1>4, <1>5 DEF r

\* A receive.
LEMMA TailElems ==
  ASSUME NEW q \in Seq(Piece), q # <<>>, Distinct(q)
  PROVE  /\ Head(q) \in Elems(q)
         /\ Elems(Tail(q)) = Elems(q) \ {Head(q)} /\ Distinct(Tail(q))
<1> DEFINE t == Tail(q)
<1>1. /\ Len(q) \in Nat \ {0} /\ Len(t) = Len(q) - 1 /\ Head(q) = q[1]
      /\ \A i \in 1 .. Len(t) : t[i] = q[i + 1]
  OBVIOUS
<1> HIDE DEF t
<1>2. Elems(t) \subseteq Elems(q) \ {Head(q)}
  BY <1>1 DEF Elems, Distinct
<1>3. Elems(q) \ {Head(q)} \subseteq Elems(t)
  <2> SUFFICES ASSUME NEW i \in 1 .. Len(q), q[i] # Head(q) PROVE q[i] \in Elems(t)
    BY DEF Elems
  <2>1. i - 1 \in 1 .. Len(t) /\ t[i - 1] = q[i]
    BY <1>1
  <2> QED BY <2>1 DEF Elems
<1>4. Distinct(t)
  BY <1>1 DEF Distinct
<1>5. Head(q) \in Elems(q)
  BY <1>1 DEF Elems
<1> QED BY <1>2, <1>3, <1>4, <1>5 DEF t

\* No two goroutines own the same piece.
OneOwner == \A x, y \in Goroutine : hold[x] = hold[y] /\ hold[x] # None => x = y

\* A goroutine takes a piece nobody owns.
LEMMA HandGains ==
  ASSUME hold \in [Goroutine -> Piece \cup {None}], OneOwner,
         NEW x \in Goroutine, NEW p \in Piece \ InHand, hold[x] = None,
         hold' = [hold EXCEPT ![x] = p]
  PROVE  InHand' = InHand \cup {p} /\ OneOwner'
<1>1. p # None /\ hold'[x] = p /\ \A y \in Goroutine \ {x} : hold'[y] = hold[y]
  OBVIOUS
<1>2. InHand' = InHand \cup {p}
  BY <1>1 DEF InHand, Goroutine
<1>3. OneOwner'
  BY <1>1 DEF OneOwner, InHand, Goroutine
<1> QED BY <1>2, <1>3

\* A goroutine lets go of its piece.
LEMMA HandLoses ==
  ASSUME hold \in [Goroutine -> Piece \cup {None}], OneOwner,
         NEW x \in Goroutine, hold[x] # None,
         hold' = [hold EXCEPT ![x] = None]
  PROVE  /\ hold[x] \in InHand \cap Piece
         /\ InHand' = InHand \ {hold[x]} /\ OneOwner'
<1>1. hold'[x] = None /\ \A y \in Goroutine \ {x} : hold'[y] = hold[y]
  OBVIOUS
<1>2. InHand' = InHand \ {hold[x]}
  BY <1>1 DEF InHand, Goroutine, OneOwner
<1>3. OneOwner'
  BY <1>1 DEF OneOwner
<1> QED BY <1>2, <1>3 DEF InHand, Goroutine

\* What a step can do to the places of the pieces.
Filling == /\ filled \in Piece /\ filled' = filled + 1
           /\ workQueue' = Append(workQueue, filled)
           /\ UNCHANGED <<hold, buf, donePieces>>

Receiving(x) == /\ hold[x] = None /\ workQueue # <<>>
                /\ workQueue' = Tail(workQueue)
                /\ hold' = [hold EXCEPT ![x] = Head(workQueue)]
                /\ UNCHANGED <<filled, buf, donePieces>>

Returning(x) == /\ hold[x] # None
                /\ workQueue' = Append(workQueue, hold[x])
                /\ hold' = [hold EXCEPT ![x] = None]
                /\ UNCHANGED <<filled, buf, donePieces>>

Delivering(x) == /\ hold[x] # None /\ ~closed /\ donePieces < N
                 /\ hold' = [hold EXCEPT ![x] = None]
                 /\ \E d \in Contents : buf' = [buf EXCEPT ![hold[x]] = d]
                 /\ donePieces' = donePieces + 1
                 /\ UNCHANGED <<filled, workQueue>>

\* No piece moves.
Still == UNCHANGED <<filled, workQueue, hold, buf, donePieces>>

Moving == \/ Still \/ Filling
          \/ \E x \in Goroutine : Receiving(x) \/ Returning(x) \/ Delivering(x)

\* Once the queue is closed the collecting loop has counted every piece and
\* has ended.
ClosedAtEnd == closed => donePieces = N /\ main \in {"returned", "fatal"}

\* Supervisors move pieces between the queue and themselves.
LEMMA SupMoves ==
  ASSUME TypeOK, NEW s \in Sup,
         SupStep(s) \/ DhtPeer(s) \/ LateConn(s)
  PROVE  Moving /\ UNCHANGED <<main, closed>>
<1> USE DEF Moving, Still, Goroutine, mainVars, connVars, bounds, chanVars, supVars
<1>1. ASSUME NEW cs \in SUBSET Free, Dial(s, cs) PROVE Still /\ UNCHANGED <<main, closed>>
  BY <1>1 DEF Dial
<1>2. ASSUME \/ DialFails(s) \/ DialEmpty(s) \/ RangeClients(s)
             \/ WaitDone(s) \/ PollEmpty(s) \/ DhtPeer(s)
      PROVE  Still /\ UNCHANGED <<main, closed>>
  BY <1>2 DEF DialFails, DialEmpty, RangeClients, WaitDone, PollEmpty, DhtPeer
<1>3. ASSUME PollFinds(s) PROVE Receiving(s) /\ UNCHANGED <<main, closed>>
  BY <1>3 DEF PollFinds, Receive, Receiving, TypeOK
<1>4. ASSUME Requeue(s) PROVE Returning(s) /\ UNCHANGED <<main, closed>>
  BY <1>4 DEF Requeue, PutBack, Send, Returning, TypeOK
<1>5. ASSUME LateConn(s) PROVE Still /\ UNCHANGED <<main, closed>>
  BY <1>5 DEF LateConn, NewConn, NewConnShared
<1> QED BY <1>1, <1>2, <1>3, <1>4, <1>5 DEF SupStep

\* Workers do the same, and deliver results.
LEMMA WorkerMoves ==
  ASSUME TypeOK, ClosedAtEnd, NEW c \in Conn, WorkerStep(c)
  PROVE  Moving /\ UNCHANGED closed /\ main' \in {main, "fatal"}
<1> USE DEF Moving, Still, Goroutine, mainVars, connVars, bounds, chanVars, supVars
<1>1. ASSUME \/ Enter(c) \/ Drained(c) \/ FetchFails(c) \/ Leave(c) \/ Verified(c)
             \/ \E d \in Contents : Fetched(c, d)
      PROVE  Still /\ UNCHANGED <<main, closed>>
  BY <1>1 DEF Enter, Drained, FetchFails, Leave, Verified, Fetched
<1>2. ASSUME Fatal(c) PROVE Still /\ UNCHANGED closed /\ main' = "fatal"
  BY <1>2 DEF Fatal
<1>3. ASSUME Take(c) PROVE Receiving(c) /\ UNCHANGED <<main, closed>>
  BY <1>3 DEF Take, Receive, Receiving, TypeOK, Holding
<1>4. ASSUME Return(c) \/ GiveUp(c) PROVE Returning(c) /\ UNCHANGED <<main, closed>>
  BY <1>4 DEF Return, GiveUp, PutBack, Send, Returning, TypeOK, Holding
<1>5. ASSUME Deliver(c) PROVE Delivering(c) /\ UNCHANGED <<main, closed>>
  <2>1. main = "collect" /\ ~AllCollected /\ wpc[c] = "deliver" /\ UNCHANGED <<main, closed>>
    BY <1>5 DEF Deliver
  <2>2. ~closed
    BY <2>1 DEF ClosedAtEnd
  <2>3. hold[c] # None /\ payload[c] \in Contents /\ donePieces < N
    BY <2>1 DEF TypeOK, Holding, AllCollected
  <2>4. buf' = [buf EXCEPT ![hold[c]] = payload[c]]
    BY <1>5 DEF Deliver
  <2>5. donePieces' = donePieces + 1 /\ hold' = [hold EXCEPT ![c] = None]
        /\ UNCHANGED <<filled, workQueue>>
    BY <1>5 DEF Deliver
  <2> QED BY <2>1, <2>2, <2>3, <2>4, <2>5 DEF Delivering
<1> QED BY <1>1, <1>2, <1>3, <1>4, <1>5 DEF WorkerStep

\* Every step of the program.
LEMMA NextMoves ==
  ASSUME TypeOK, ClosedAtEnd, [Next]_vars
  PROVE  Moving /\ ClosedAtEnd'
<1>1. CASE MainStep
  <2>1. CASE Begin
    BY <2>1 DEF Begin, Moving, Still, chanVars, ClosedAtEnd
  <2>2. CASE Fill
    BY <2>2 DEF Fill, Send, MoreToFill, Moving, Filling, ClosedAtEnd, TypeOK, Piece
  <2>3. CASE StartWorkers
    BY <2>3 DEF StartWorkers, Moving, Still, chanVars, ClosedAtEnd
  <2>4. CASE Finish
    <3>1. main' = "returned" /\ Still
      BY <2>4 DEF Finish, Still
    <3>2. donePieces = N
      BY <2>4 DEF Finish, AllCollected, TypeOK
    <3> QED BY <3>1, <3>2 DEF Moving, Still, ClosedAtEnd
  <2> QED BY <1>1, <2>1, <2>2, <2>3, <2>4 DEF MainStep
<1>2. ASSUME NEW s \in Sup, SupStep(s) \/ DhtPeer(s) \/ LateConn(s)
      PROVE  Moving /\ ClosedAtEnd'
  <2>1. Moving /\ UNCHANGED <<main, closed>>
    BY <1>2, SupMoves
  <2>2. UNCHANGED donePieces \/ ~closed
    BY <2>1 DEF Moving, Still, Filling, Receiving, Returning, Delivering
  <2> QED BY <2>1, <2>2 DEF ClosedAtEnd
<1>3. ASSUME NEW c \in Conn, WorkerStep(c)
      PROVE  Moving /\ ClosedAtEnd'
  <2>1. Moving /\ UNCHANGED closed /\ main' \in {main, "fatal"}
    BY <1>3, WorkerMoves
  <2>2. UNCHANGED donePieces \/ ~closed
    BY <2>1 DEF Moving, Still, Filling, Receiving, Returning, Delivering
  <2> QED BY <2>1, <2>2 DEF ClosedAtEnd
<1>4. CASE UNCHANGED vars
  BY <1>4 DEF vars, mainVars, chanVars, Moving, Still, ClosedAtEnd
<1>5. ASSUME NEW s \in Sup, NoFirstClient(s) PROVE Moving /\ ClosedAtEnd'
  BY <1>5 DEF NoFirstClient, chanVars, Moving, Still, ClosedAtEnd
<1> QED BY <1>1, <1>2, <1>3, <1>4, <1>5 DEF Next

\* OneTokenPerPiece in the terms of the lemmas above.
Placed ==
  /\ Piece = Unfilled \cup Queued \cup InHand \cup Written
  /\ Unfilled \cap (Queued \cup InHand \cup Written) = {}
  /\ Queued \cap (InHand \cup Written) = {}
  /\ InHand \cap Written = {}
  /\ Queued = Elems(workQueue) /\ Distinct(workQueue) /\ OneOwner

\* Before and after a step.
LEMMA TokenParts == (OneTokenPerPiece <=> Placed) /\ (OneTokenPerPiece' <=> Placed')
BY DEF Placed, OneTokenPerPiece, Queued, Elems, Distinct, OneOwner, Goroutine

\* A delivered piece joins the written ones.
LEMMA WrittenGains ==
  ASSUME TypeOK, NEW x \in Goroutine, Delivering(x)
  PROVE  hold[x] \in Piece /\ Written' = Written \cup {hold[x]}
<1>1. hold[x] \in Piece
  BY DEF Delivering, TypeOK, Goroutine
<1>2. PICK d \in Contents : buf' = [buf EXCEPT ![hold[x]] = d]
  BY DEF Delivering
<1> QED BY <1>1, <1>2 DEF Written, TypeOK

\* However a piece moves, each stays in exactly one place.
LEMMA MovingKeepsTokens ==
  ASSUME TypeOK, OneTokenPerPiece, Moving
  PROVE  OneTokenPerPiece'
<1>0. /\ Queued = Elems(workQueue) /\ Queued' = Elems(workQueue')
      /\ Distinct(workQueue) /\ OneOwner
      /\ workQueue \in Seq(Piece) /\ hold \in [Goroutine -> Piece \cup {None}]
      /\ filled \in 0 .. N
  BY TokenParts DEF Placed, TypeOK, Goroutine, Queued, Elems
<1>1. CASE Still
  BY <1>1 DEF Still, OneTokenPerPiece, Unfilled, Queued, InHand, Written
<1>2. CASE Filling
  <2>1. /\ filled \in Unfilled /\ filled \notin Queued
        /\ Unfilled' = Unfilled \ {filled}
    BY <1>0, <1>2, TokenParts DEF Placed, Filling, Unfilled, Piece
  <2>2. Queued' = Queued \cup {filled} /\ Distinct(workQueue')
    BY <1>0, <1>2, <2>1, AppendElems DEF Filling
  <2>3. InHand' = InHand /\ Written' = Written /\ OneOwner'
    BY <1>0, <1>2 DEF Filling, InHand, Written, OneOwner
  <2> QED BY <1>0, <2>1, <2>2, <2>3, TokenParts DEF Placed
<1>3. ASSUME NEW x \in Goroutine, Receiving(x) PROVE OneTokenPerPiece'
  <2> DEFINE p == Head(workQueue)
  <2>1. /\ p \in Queued
        /\ Queued' = Queued \ {p} /\ Distinct(workQueue')
    BY <1>0, <1>3, TailElems DEF Receiving
  <2>2. p \in Piece \ InHand
    BY <2>1, TokenParts DEF Placed
  <2>3. InHand' = InHand \cup {p} /\ OneOwner'
    BY <1>0, <1>3, <2>2, HandGains DEF Receiving
  <2>4. Unfilled' = Unfilled /\ Written' = Written
    BY <1>3 DEF Receiving, Unfilled, Written
  <2> HIDE DEF p
  <2> QED BY <1>0, <2>1, <2>2, <2>3, <2>4, TokenParts DEF Placed
<1>4. ASSUME NEW x \in Goroutine, Returning(x) PROVE OneTokenPerPiece'
  <2>1. /\ hold[x] \in InHand \cap Piece
        /\ InHand' = InHand \ {hold[x]} /\ OneOwner'
    BY <1>0, <1>4, HandLoses DEF Returning
  <2>2. Queued' = Queued \cup {hold[x]} /\ Distinct(workQueue')
    <3>1. hold[x] \notin Elems(workQueue)
      BY <1>0, <2>1, TokenParts DEF Placed
    <3> QED BY <1>0, <1>4, <2>1, <3>1, AppendElems DEF Returning
  <2>3. Unfilled' = Unfilled /\ Written' = Written
    BY <1>4 DEF Returning, Unfilled, Written
  <2> QED BY <1>0, <2>1, <2>2, <2>3, TokenParts DEF Placed
<1>5. ASSUME NEW x \in Goroutine, Delivering(x) PROVE OneTokenPerPiece'
  <2>1. /\ hold[x] \in InHand \cap Piece
        /\ InHand' = InHand \ {hold[x]} /\ OneOwner'
    BY <1>0, <1>5, HandLoses DEF Delivering
  <2>2. Written' = Written \cup {hold[x]}
    BY <1>5, WrittenGains
  <2>3. Unfilled' = Unfilled /\ Queued' = Queued /\ Distinct(workQueue')
    BY <1>0, <1>5 DEF Delivering, Unfilled, Queued
  <2> QED BY <1>0, <2>1, <2>2, <2>3, TokenParts DEF Placed
<1> QED BY <1>1, <1>2, <1>3, <1>4, <1>5 DEF Moving

\* Counting: a result is counted when its piece is written for the first time.
LEMMA MovingKeepsCount ==
  ASSUME TypeOK, OneTokenPerPiece, CountedOnce, Moving
  PROVE  CountedOnce'
<1>1. ASSUME UNCHANGED <<buf, donePieces>> PROVE CountedOnce'
  BY <1>1 DEF CountedOnce, Written
<1>2. ASSUME NEW x \in Goroutine, Delivering(x) PROVE CountedOnce'
  <2>1. hold[x] \in Piece /\ Written' = Written \cup {hold[x]}
    BY <1>2, WrittenGains
  <2>2. hold[x] \notin Written
    BY <1>2, TokenParts DEF Placed, InHand, Delivering, Goroutine
  <2>3. IsFiniteSet(Written)
    <3>1. IsFiniteSet(Piece)
      BY FS_Interval DEF Piece
    <3> QED BY <3>1, FS_Subset DEF Written
  <2>4. Cardinality(Written') = Cardinality(Written) + 1
    BY <2>1, <2>2, <2>3, FS_AddElement
  <2> QED BY <1>2, <2>4 DEF CountedOnce, Delivering
<1> QED BY <1>1, <1>2 DEF Moving, Still, Filling, Receiving, Returning

\* The inductive invariant.  ClosedAtEnd is what ties close(workQueue) to the
\* count, and without OneTokenPerPiece the count says nothing of the pieces.
IInv == TypeOK /\ OneTokenPerPiece /\ CountedOnce /\ ClosedAtEnd

\* Init establishes IInv.
LEMMA InitIInv == Init => IInv
<1> SUFFICES ASSUME Init PROVE IInv
  OBVIOUS
<1>1. TypeOK
  BY InitType
<1>2. Unfilled = Piece /\ Queued = {} /\ InHand = {} /\ Written = {}
  BY DEF Init, Unfilled, Queued, InHand, Written, Piece
<1>3. Distinct(workQueue) /\ OneOwner
  BY DEF Init, Distinct, OneOwner, Goroutine
<1>4. OneTokenPerPiece
  BY <1>2, <1>3, TokenParts DEF Placed, Queued, Elems
<1>5. CountedOnce
  BY <1>2, FS_EmptySet DEF CountedOnce, Init
<1>6. ClosedAtEnd
  BY DEF Init, ClosedAtEnd
<1> QED BY <1>1, <1>4, <1>5, <1>6 DEF IInv

\* Every step keeps IInv.
LEMMA NextIInv == IInv /\ [Next]_vars => IInv'
BY NextType, NextMoves, MovingKeepsTokens, MovingKeepsCount DEF IInv

LEMMA Invariance == Spec => []IInv
BY InitIInv, NextIInv, PTL DEF Spec

\* No failure path, retry or late connection loses or duplicates a piece.
THEOREM TokensKept == Spec => []OneTokenPerPiece
BY Invariance, PTL DEF IInv

\* donePieces is the number of pieces in the output buffer.
THEOREM CountCorrect == Spec => []CountedOnce
BY Invariance, PTL DEF IInv

-----------------------------------------------------------------------------
(* No send blocks or panics *)

LEMMA PieceSize == IsFiniteSet(Piece) /\ Cardinality(Piece) = N
BY FS_Interval DEF Piece

\* A queue without repetition that lacks a piece has room.
LEMMA RoomForMissing ==
  ASSUME NEW q \in Seq(Piece), Distinct(q), NEW p \in Piece \ Elems(q)
  PROVE  Len(q) < N
<1>1. q \in [1 .. Len(q) -> Piece \ {p}] /\ Len(q) \in Nat
  BY DEF Elems
<1>2. q \in Injection(1 .. Len(q), Piece \ {p})
  BY <1>1 DEF Distinct, Injection, IsInjective
<1>3. IsFiniteSet(Piece \ {p}) /\ Cardinality(Piece \ {p}) = N - 1
  BY PieceSize, FS_RemoveElement
<1>4. Cardinality(1 .. Len(q)) <= N - 1
  BY <1>2, <1>3, FS_Injection
<1>5. Cardinality(1 .. Len(q)) = Len(q)
  <2>1. \A n \in Nat : Cardinality(1 .. n) = n
    BY FS_Interval
  <2> QED BY <1>1, <2>1
<1> QED BY <1>1, <1>4, <1>5

\* When the queue is closed every piece is written.
LEMMA ClosedComplete == IInv /\ closed => Written = Piece
<1> SUFFICES ASSUME IInv, closed PROVE Written = Piece
  OBVIOUS
<1>1. Cardinality(Written) = N
  BY DEF IInv, CountedOnce, ClosedAtEnd
<1> QED BY <1>1, PieceSize, FS_Subset DEF Written

\* What IInv says of a send.
LEMMA SendsFromIInv == IInv => SendsProceed
<1> SUFFICES ASSUME IInv PROVE SendsProceed
  OBVIOUS
<1>1. Placed /\ TypeOK
  BY TokenParts DEF IInv
<1>2. ASSUME NEW p \in Piece \ Queued PROVE Len(workQueue) < N
  BY <1>1, <1>2, RoomForMissing DEF Placed, TypeOK
<1>3. ASSUME InHand # {} PROVE ~closed /\ Len(workQueue) < N
  <2>1. PICK p : p \in InHand
    BY <1>3
  <2>2. p \in Piece /\ p \notin Queued /\ p \notin Written
    BY <1>1, <2>1 DEF Placed
  <2>3. ~closed
    BY <2>2, ClosedComplete
  <2> QED BY <1>2, <2>2, <2>3
<1>4. ASSUME main = "fill", MoreToFill PROVE ~closed /\ Len(workQueue) < N
  <2>1. filled \in Piece /\ filled \in Unfilled
    BY <1>1, <1>4 DEF MoreToFill, Unfilled, Piece, TypeOK
  <2>2. filled \notin Queued
    BY <1>1, <2>1 DEF Placed
  <2>3. ~closed
    BY <1>4 DEF IInv, ClosedAtEnd
  <2> QED BY <1>2, <2>1, <2>2, <2>3
<1> QED BY <1>3, <1>4 DEF SendsProceed

\* A goroutine that has to put its piece back never meets a full queue nor the
\* closed one, and Download never blocks while it fills the queue.
THEOREM SendsNeverBlock == Spec => []SendsProceed
BY Invariance, SendsFromIInv, PTL

-----------------------------------------------------------------------------
(* Download implements PieceBuffer *)

\* The initial state of the buffer.
LEMMA InitBuffer == Init => Buffer!Init
BY DEF Init, Buffer!Init, Blank, Buffer!Blank

\* A step that leaves the buffer and the queue's state alone is a stutter, a
\* result is a Write of a blank piece, and the end of the loop is a Return.
LEMMA NextBuffer == IInv /\ [Next]_vars => [Buffer!Next]_<<buf, closed>>
<1> SUFFICES ASSUME IInv, [Next]_vars PROVE [Buffer!Next]_<<buf, closed>>
  OBVIOUS
<1>0. TypeOK /\ ClosedAtEnd /\ Placed
  BY TokenParts DEF IInv
<1>1. ASSUME Still \/ Filling \/ \E x \in Goroutine : Receiving(x) \/ Returning(x)
      PROVE  UNCHANGED buf
  BY <1>1 DEF Still, Filling, Receiving, Returning
<1>2. ASSUME NEW x \in Goroutine, Delivering(x), UNCHANGED closed
      PROVE  Buffer!Next
  <2>1. PICK d \in Contents : buf' = [buf EXCEPT ![hold[x]] = d]
    BY <1>2 DEF Delivering
  <2>2. hold[x] \in Piece /\ hold[x] \in InHand
    BY <1>0, <1>2 DEF TypeOK, Delivering, Goroutine, InHand
  <2>3. buf[hold[x]] = Buffer!Blank
    BY <1>0, <2>2 DEF Placed, Written, Blank, Buffer!Blank
  <2>4. Buffer!Write(hold[x], d)
    BY <1>2, <2>1, <2>3 DEF Buffer!Write, Delivering
  <2> QED BY <2>1, <2>2, <2>4 DEF Buffer!Next
<1>3. ASSUME Finish PROVE Buffer!Return
  <2>1. main = "collect" /\ AllCollected /\ closed' = TRUE /\ UNCHANGED buf
    BY <1>3 DEF Finish
  <2>2. ~closed
    BY <1>0, <2>1 DEF ClosedAtEnd
  <2>3. Written = Piece
    <3>1. Cardinality(Written) = N
      BY <1>0, <2>1 DEF AllCollected, IInv, CountedOnce, TypeOK
    <3> QED BY <3>1, PieceSize, FS_Subset DEF Written
  <2>4. \A p \in Piece : buf[p] # Buffer!Blank
    BY <2>3 DEF Written, Blank, Buffer!Blank
  <2> QED BY <2>1, <2>2, <2>4 DEF Buffer!Return
<1>4. UNCHANGED closed \/ Finish
  <2>1. ASSUME NEW s \in Sup, SupStep(s) \/ DhtPeer(s) \/ LateConn(s)
        PROVE  UNCHANGED closed
    BY <1>0, <2>1, SupMoves
  <2>2. ASSUME NEW c \in Conn, WorkerStep(c) PROVE UNCHANGED closed
    BY <1>0, <2>2, WorkerMoves
  <2>3. ASSUME \/ Begin \/ Fill \/ StartWorkers \/ UNCHANGED vars
               \/ \E s \in Sup : NoFirstClient(s)
        PROVE  UNCHANGED closed
    BY <2>3 DEF Begin, Fill, StartWorkers, NoFirstClient, Send, vars, chanVars
  <2> QED BY <2>1, <2>2, <2>3 DEF Next, MainStep
<1>5. Moving
  BY <1>0, NextMoves
<1>6. CASE Finish
  BY <1>3, <1>6 DEF Buffer!Next
<1>7. CASE UNCHANGED closed
  BY <1>1, <1>2, <1>5, <1>7 DEF Moving
<1> QED BY <1>4, <1>6, <1>7

\* Every behaviour of the download fills the buffer piece by piece, writes no
\* piece twice and returns only with every piece written.
THEOREM Implements == Spec => FillsTheBuffer
BY InitBuffer, NextBuffer, Invariance, PTL DEF Spec, FillsTheBuffer, Buffer!Spec, Buffer!vars

-----------------------------------------------------------------------------
(* Without late connections and failed dials *)

\* extras and refused only grow.
LEMMA BoundsGrow ==
  ASSUME TypeOK, [Next]_vars
  PROVE  (extras' = 0 => extras = 0) /\ (refused' = 0 => refused = 0)
<1>1. ASSUME NEW s \in Sup,
             SupStep(s) \/ DhtPeer(s) \/ NoFirstClient(s) \/ LateConn(s)
      PROVE  (extras' = 0 => extras = 0) /\ (refused' = 0 => refused = 0)
  BY <1>1 DEF SupStep, DhtPeer, LateConn, NewConn, NewConnShared, NoFirstClient, Dial, DialEmpty, DialFails,
              RangeClients, WaitDone, PollFinds, PollEmpty, Requeue, TypeOK, bounds
<1>2. ASSUME NEW c \in Conn, WorkerStep(c) PROVE UNCHANGED <<extras, refused>>
  BY <1>2 DEF WorkerStep, Enter, Take, Return, Drained, Fetched, FetchFails, GiveUp, Leave,
              Verified, Fatal, Deliver, bounds
<1>3. ASSUME MainStep \/ UNCHANGED vars PROVE UNCHANGED <<extras, refused>>
  BY <1>3 DEF MainStep, Begin, Fill, StartWorkers, Finish, vars, bounds
<1> QED BY <1>1, <1>2, <1>3 DEF Next

\* As long as no connection came late every worker checks the hash: what it is
\* about to deliver and what has been written is good.
Checked ==
    extras = 0 =>
        /\ extra = {}
        /\ \A c \in Conn : wpc[c] = "deliver" => payload[c] = Good
        /\ OutputVerified

\* Every step keeps that.
LEMMA NextChecked == TypeOK /\ Checked /\ [Next]_vars => Checked'
<1> SUFFICES ASSUME TypeOK, Checked, [Next]_vars, extras' = 0
             PROVE  /\ extra' = {}
                    /\ \A c \in Conn : wpc'[c] = "deliver" => payload'[c] = Good
                    /\ OutputVerified'
  BY DEF Checked
<1>0. /\ extras = 0 /\ extra = {}
      /\ \A c \in Conn : wpc[c] = "deliver" => payload[c] = Good
      /\ OutputVerified
  BY BoundsGrow DEF Checked
<1> USE DEF OutputVerified, TypeOK
<1>1. CASE MainStep \/ UNCHANGED vars \/ \E s \in Sup : DhtPeer(s)
  <2>1. UNCHANGED <<extra, wpc, payload, buf>>
    BY <1>1 DEF MainStep, Begin, Fill, StartWorkers, Finish, DhtPeer, vars, mainVars, connVars
  <2> QED BY <1>0, <2>1
<1>2. ASSUME NEW s \in Sup, SupStep(s) PROVE Checked'
  <2>1. UNCHANGED <<extra, payload, buf>>
        /\ \A c \in Conn : wpc'[c] = "deliver" => wpc[c] = "deliver"
    BY <1>2 DEF SupStep, Dial, ConnectBack, DialEmpty, DialFails, RangeClients, WaitDone, PollFinds,
                PollEmpty, Requeue, mainVars, connVars
  <2> QED BY <1>0, <2>1 DEF Checked
<1>3. ASSUME NEW s \in Sup, NoFirstClient(s) \/ LateConn(s) PROVE FALSE
  BY <1>0, <1>3 DEF LateConn, NewConn, NewConnShared, NoFirstClient
<1>4. ASSUME NEW c \in Conn, WorkerStep(c) PROVE Checked'
  <2> USE DEF Goto
  <2>1. CASE Fetched(c, payload'[c]) \/ \E d \in Contents : Fetched(c, d)
    BY <1>0, <2>1 DEF Fetched, AfterFetch, connVars, mainVars, Checked
  <2>2. CASE Verified(c)
    BY <1>0, <2>2 DEF Verified, connVars, mainVars, Checked
  <2>3. CASE Deliver(c)
    <3>1. payload[c] = Good /\ hold[c] \in Piece
      BY <1>0, <2>3 DEF Deliver, Holding
    <3> QED BY <1>0, <2>3, <3>1 DEF Deliver, connVars, Checked
  <2>4. CASE Enter(c) \/ Take(c) \/ Return(c) \/ FetchFails(c) \/ GiveUp(c) \/ Fatal(c)
    BY <1>0, <2>4 DEF Enter, Take, Return, FetchFails, GiveUp, Fatal, connVars, mainVars, Checked
  <2>5. CASE Drained(c) \/ Leave(c)
    BY <1>0, <2>5 DEF Drained, Leave, Exit, mainVars, Checked
  <2> QED BY <1>4, <2>1, <2>2, <2>3, <2>4, <2>5 DEF WorkerStep
<1> QED BY <1>1, <1>2, <1>3, <1>4 DEF Next, Checked

\* Until a connection comes late only bytes that match their hash are written.
THEOREM DialledVerified == Spec => []VerifiedUnlessLate
<1>1. Init => Checked
  BY DEF Init, Checked, OutputVerified
<1>2. Checked => VerifiedUnlessLate
  BY DEF Checked, VerifiedUnlessLate
<1> QED BY <1>1, <1>2, NextChecked, TypeCorrect, PTL DEF Spec

Active == {"dial", "spawn", "wait", "poll", "requeue"}

\* As long as every dial succeeds and no connection comes late each worker has
\* a supervisor that waits for it; Download collects once the queue was filled.
Attended ==
    /\ main = "collect" => filled = N
    /\ refused = 0 /\ extras = 0 =>
          /\ extra = {}
          /\ \A c \in Conn : wpc[c] # "free" => owner[c] \in Sup /\ spc[owner[c]] \in {"spawn", "wait"}
    /\ NotAbandoned

\* A piece that is missing while Download collects is in the queue, or in the
\* hands of a goroutine with a supervisor.
LEMMA MissingHeld ==
  ASSUME IInv, Attended, main = "collect", donePieces < N, refused = 0, extras = 0,
         workQueue = <<>>
  PROVE  \E t \in Sup : spc[t] \in {"spawn", "wait", "requeue"}
<1>1. Placed /\ TypeOK
  BY TokenParts DEF IInv
<1>2. Written # Piece
  BY PieceSize DEF IInv, CountedOnce, TypeOK
<1>3. Queued = {} /\ Unfilled = {}
  BY <1>1 DEF Queued, Unfilled, Attended, Piece, TypeOK
<1>4. PICK p \in Piece : p \in InHand
  BY <1>1, <1>2, <1>3 DEF Placed, Written
<1>5. PICK x \in Sup \cup Conn : hold[x] = p
  BY <1>4 DEF InHand
<1>6. p # None
  OBVIOUS
<1>7. CASE x \in Sup
  BY <1>1, <1>5, <1>6, <1>7 DEF TypeOK
<1>8. CASE x \in Conn
  <2>1. wpc[x] # "free"
    BY <1>1, <1>5, <1>6, <1>8 DEF TypeOK, Holding
  <2> QED BY <1>8, <2>1 DEF Attended
<1> QED BY <1>7, <1>8

\* The steps of one goroutine.
LEMMA SupAttended ==
  ASSUME IInv, Attended, NEW s \in Sup,
         SupStep(s) \/ DhtPeer(s) \/ LateConn(s),
         (extras' = 0 => extras = 0) /\ (refused' = 0 => refused = 0)
  PROVE  Attended'
<1> USE DEF Attended, NotAbandoned, mainVars, connVars, chanVars
<1>0. TypeOK
  BY DEF IInv
<1>1. CASE \E cs \in SUBSET Free : Dial(s, cs)
  BY <1>0, <1>1 DEF Dial, ConnectBack, Free, bounds, TypeOK
<1>2. CASE DialFails(s) \/ LateConn(s)
  BY <1>0, <1>2 DEF DialFails, LateConn, NewConn, NewConnShared, TypeOK
<1>9. CASE RangeClients(s)
  BY <1>0, <1>9 DEF RangeClients, bounds, TypeOK
<1>8. CASE DialEmpty(s)
  BY <1>0, <1>8 DEF DialEmpty, bounds, TypeOK
<1>3. CASE WaitDone(s)
  <2>1. refused = 0 /\ extras = 0 => \A c \in Conn : wpc[c] # "free" => owner[c] # s
    BY <1>3 DEF WaitDone, Counted
  <2> QED BY <1>0, <1>3, <2>1 DEF WaitDone, bounds, TypeOK
<1>4. CASE PollFinds(s)
  BY <1>0, <1>4 DEF PollFinds, bounds, TypeOK
<1>5. CASE PollEmpty(s)
  <2>1. /\ spc' = [spc EXCEPT ![s] = "gone"] /\ spc[s] = "poll"
        /\ UNCHANGED <<mainVars, wpc, connVars, bounds>>
    BY <1>5 DEF PollEmpty
  <2>2. ASSUME main = "collect", donePieces < N, refused = 0, extras = 0
        PROVE  \E t \in Sup : spc'[t] \in Active
    <3>1. PICK t \in Sup : spc[t] \in {"spawn", "wait", "requeue"}
      BY <1>5, <2>2, MissingHeld DEF PollEmpty
    <3>2. t # s
      BY <2>1, <3>1
    <3> QED BY <1>0, <2>1, <3>1, <3>2 DEF Active, TypeOK
  <2> QED BY <1>0, <2>1, <2>2 DEF Active, bounds, TypeOK
<1>6. CASE Requeue(s)
  BY <1>0, <1>6 DEF Requeue, bounds, TypeOK
<1>7. CASE DhtPeer(s)
  BY <1>0, <1>7 DEF DhtPeer, bounds, TypeOK
<1> QED BY <1>1, <1>2, <1>3, <1>4, <1>5, <1>6, <1>7, <1>8, <1>9 DEF SupStep

LEMMA WorkerAttended ==
  ASSUME IInv, Attended, NEW c \in Conn, WorkerStep(c) PROVE Attended'
<1>0. TypeOK
  BY DEF IInv
<1>1. /\ UNCHANGED <<spc, filled, refused, extras>>
      /\ main' = main \/ main' = "fatal"
      /\ donePieces' = donePieces \/ donePieces' = donePieces + 1
  BY DEF WorkerStep, Enter, Take, Return, Drained, Fetched, FetchFails, GiveUp, Leave,
         Verified, Fatal, Deliver, mainVars, supVars, bounds
<1>2. \/ Drained(c) \/ Leave(c)
      \/ UNCHANGED connVars /\ wpc[c] # "free" /\ \A d \in Conn \ {c} : wpc'[d] = wpc[d]
  BY <1>0 DEF WorkerStep, Enter, Take, Return, Fetched, FetchFails, GiveUp,
         Verified, Fatal, Deliver, Goto, TypeOK
<1>3. CASE Drained(c) \/ Leave(c)
  <2>1. /\ wpc'[c] = "free" /\ extra' = extra \ {c}
        /\ \A d \in Conn \ {c} : wpc'[d] = wpc[d] /\ owner'[d] = owner[d]
    BY <1>0, <1>3 DEF Drained, Leave, Exit, Goto, TypeOK
  <2>2. NotAbandoned'
    BY <1>0, <1>1 DEF Attended, NotAbandoned, TypeOK
  <2> QED BY <1>1, <2>1, <2>2 DEF Attended
<1>4. CASE UNCHANGED connVars /\ wpc[c] # "free" /\ \A d \in Conn \ {c} : wpc'[d] = wpc[d]
  BY <1>0, <1>1, <1>4 DEF Attended, NotAbandoned, TypeOK, connVars
<1> QED BY <1>2, <1>3, <1>4

\* Every step keeps it.
LEMMA NextAttended == IInv /\ Attended /\ [Next]_vars => Attended'
<1> SUFFICES ASSUME IInv, Attended, [Next]_vars PROVE Attended'
  OBVIOUS
<1>0. TypeOK /\ (extras' = 0 => extras = 0) /\ (refused' = 0 => refused = 0)
  BY BoundsGrow DEF IInv
<1>1. CASE Begin \/ Fill \/ Finish \/ UNCHANGED vars
  BY <1>0, <1>1 DEF Begin, Fill, Finish, vars, mainVars, supVars, connVars, bounds,
                    Attended, NotAbandoned
<1>2. CASE StartWorkers
  <2>1. /\ filled = N /\ filled' = filled /\ main = "fill"
        /\ spc' = [t \in Sup |-> IF t \in Known THEN "dial" ELSE spc[t]]
        /\ UNCHANGED <<wpc, connVars, bounds>>
    BY <1>0, <1>2 DEF StartWorkers, MoreToFill, TypeOK
  <2>2. \A t \in Known : spc[t] = "off" /\ spc'[t] = "dial"
    BY <1>0, <2>1 DEF TypeOK
  <2> QED BY <1>0, <2>1, <2>2 DEF Attended, NotAbandoned, connVars, bounds, TypeOK
<1>3. ASSUME NEW s \in Sup, NoFirstClient(s) PROVE Attended'
  BY <1>0, <1>3 DEF NoFirstClient, Attended, NotAbandoned, TypeOK
<1> QED BY <1>0, <1>1, <1>2, <1>3, SupAttended, WorkerAttended DEF Next, MainStep

\* Until a dial fails or a connection comes late, a download with pieces left
\* has a supervisor that will look at the queue again.
THEOREM NeverAbandoned == Spec => []NotAbandoned
<1>1. Init => Attended
  BY DEF Init, Attended, NotAbandoned
<1>2. Attended => NotAbandoned
  BY DEF Attended
<1> QED BY <1>1, <1>2, NextAttended, Invariance, PTL DEF Spec
=============================================================================
