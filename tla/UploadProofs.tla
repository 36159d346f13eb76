---------------------------- MODULE UploadProofs ----------------------------
(***************************************************************************)
(* Theorems about UploadServer, for any number of leechers, connections    *)
(* and reports: the lock excludes, and the metrics file is well formed.    *)
(***************************************************************************)
EXTENDS UploadServer, FiniteSetTheorems, TLAPS

USE UploadAssumption DEF UploadAssumption

\* A watcher runs only once the loop over the first connections is over: the
\* two never look at a connection at the same time.
WatcherLater ==
    \A s \in Session : spc[s] \in {"off", "failed", "start", "add"} => wpc[s] = "off"

\* What a handler about to write knows of the file: LockFile has looked at it,
\* and nobody else has written since.
FileKnown ==
    \A h \in Handler : /\ hpc[h] = "header" => file = <<>>
                       /\ hpc[h] \in {"open", "line"} => file # <<>>

-----------------------------------------------------------------------------
(* Types                                                                   *)

Typed == TypeOK /\ WatcherLater

\* Init establishes the types.
LEMMA InitTyped == Init => Typed
<1> SUFFICES ASSUME Init PROVE Typed
  OBVIOUS
<1>1. file \in Seq({Header, Line})
  <2>1. <<>> \in Seq({Header, Line}) /\ <<Header>> \in Seq({Header, Line})
    OBVIOUS
  <2> QED BY <2>1 DEF Init
<1> QED BY <1>1 DEF Init, Typed, TypeOK, WatcherLater, Own

\* The sockets.
LEMMA SocketTyped == Typed /\ SocketStep => Typed'
<1> SUFFICES ASSUME Typed, SocketStep PROVE Typed'
  OBVIOUS
<1> USE DEF Typed, TypeOK, WatcherLater, Own
<1>1. ASSUME NEW s \in Session, Report(s) PROVE Typed'
  BY <1>1 DEF Report, OpenOf, connsVars, fileVars
<1>2. ASSUME NEW s \in Session, NEW c \in Conn, OpenLate(s, c) PROVE Typed'
  BY <1>2 DEF OpenLate, NewOpen, connsVars, fileVars
<1>3. ASSUME NEW c \in Conn, RemoteCloses(c) PROVE Typed'
  BY <1>3 DEF RemoteCloses, connsVars, fileVars
<1> QED BY <1>1, <1>2, <1>3 DEF SocketStep

\* Reading and assigning Conns, and starting a handler.
LEMMA ReadTyped ==
  ASSUME Typed, NEW s \in Session, NEW c \in Conn, ReadConns(s, c)
  PROVE  /\ read' \in [Session -> SUBSET Conn]
         /\ adding' = [adding EXCEPT ![s] = c] /\ c \in Own(s)
         /\ todo' \in [Session -> SUBSET Conn]
         /\ \A t \in Session : todo'[t] \subseteq todo[t]
BY DEF Typed, TypeOK, ReadConns

LEMMA AppendTyped ==
  ASSUME Typed, NEW s \in Session, AppendConn(s), adding[s] \in Own(s)
  PROVE  /\ Conns' \subseteq Conn /\ read' \in [Session -> SUBSET Conn]
         /\ adding' = [adding EXCEPT ![s] = None] /\ todo' = todo
         /\ hpc' \in [Handler -> Writing \cup {"none", "serve", "lock", "done"}]
BY DEF Typed, TypeOK, AppendConn, StartHandler, Own

\* The goroutine of a session.
LEMMA SessionTyped ==
  ASSUME Typed, NEW s \in Session,
         SessionStep(s) \/ ConnectFails(s) \/ \E cs \in SUBSET Conn : Connect(s, cs)
  PROVE  Typed'
<1> USE DEF Typed, TypeOK, WatcherLater, Own
<1>1. ASSUME NEW cs \in SUBSET Conn, Connect(s, cs) PROVE Typed'
  BY <1>1 DEF Connect, NewOpen, MainConns, fileVars
<1>2. CASE ConnectFails(s)
  BY <1>2 DEF ConnectFails, socketVars, connsVars
<1>3. CASE NextConn(s)
  <2>1. PICK c \in todo[s] : ReadConns(s, c)
    BY <1>3 DEF NextConn
  <2> QED BY <1>3, <2>1, ReadTyped DEF NextConn, socketVars, fileVars
<1>4. CASE StartUpload(s)
  BY <1>4, AppendTyped DEF StartUpload, socketVars, fileVars
<1>5. CASE Watch(s)
  BY <1>5 DEF Watch, socketVars, connsVars, fileVars
<1>6. CASE WaitDone(s)
  BY <1>6 DEF WaitDone, socketVars, connsVars, fileVars
<1>7. CASE Disconnect(s)
  BY <1>7 DEF Disconnect, connsVars, fileVars
<1>8. CASE LockToRemove(s)
  BY <1>8 DEF LockToRemove, socketVars, connsVars, fileVars
<1>9. CASE Remove(s)
  BY <1>9 DEF Remove, socketVars, connsVars, fileVars
<1> QED BY <1>1, <1>2, <1>3, <1>4, <1>5, <1>6, <1>7, <1>8, <1>9 DEF SessionStep

\* Its watcher.
LEMMA WatcherTyped ==
  ASSUME Typed, NEW s \in Session, WatcherStep(s) PROVE Typed'
<1> USE DEF Typed, TypeOK, WatcherLater, Own
<1>1. CASE Receive(s)
  BY <1>1 DEF Receive, fileVars
<1>2. CASE Prune(s)
  BY <1>2 DEF Prune, socketVars, fileVars
<1>3. CASE Skip(s)
  BY <1>3 DEF Skip, socketVars, fileVars
<1>4. CASE FindNew(s)
  <2>1. PICK c \in todo[s] : ReadConns(s, c)
    BY <1>4 DEF FindNew
  <2> QED BY <1>4, <2>1, ReadTyped DEF FindNew, socketVars, fileVars
<1>5. CASE StartLate(s)
  BY <1>5, AppendTyped DEF StartLate, socketVars, fileVars
<1>6. CASE Scanned(s)
  BY <1>6 DEF Scanned, socketVars, connsVars, fileVars
<1> QED BY <1>1, <1>2, <1>3, <1>4, <1>5, <1>6 DEF WatcherStep

\* A handler.
LEMMA HandlerTyped ==
  ASSUME Typed, NEW h \in Handler, HandlerStep(h) \/ KeepAlive(h) \/ FileFails(h)
  PROVE  Typed'
<1> USE DEF Typed, TypeOK, WatcherLater, Own, Goto, Writing
<1>0. h[1] \in Conn
  BY DEF Handler
<1>1. CASE ServeFails(h) \/ KeepAlive(h)
  BY <1>1 DEF ServeFails, KeepAlive, AfterServe, socketVars, connsVars, fileVars
<1>2. CASE LockFile(h)
  BY <1>2 DEF LockFile, socketVars, connsVars, fileVars
<1>3. CASE WriteHeader(h)
  <2>1. file' \in Seq({Header, Line})
    BY <1>3 DEF WriteHeader
  <2> QED BY <1>3, <2>1 DEF WriteHeader, socketVars, connsVars
<1>4. CASE WriteLine(h)
  <2>1. file' \in Seq({Header, Line})
    BY <1>4 DEF WriteLine
  <2> QED BY <1>4, <2>1 DEF WriteLine, socketVars, connsVars
<1>5. CASE CloseConn(h)
  BY <1>0, <1>5 DEF CloseConn, connsVars, fileVars
<1>6. CASE FileFails(h)
  BY <1>6 DEF FileFails, socketVars, connsVars
<1> QED BY <1>1, <1>2, <1>3, <1>4, <1>5, <1>6 DEF HandlerStep

\* Every step keeps the types.
LEMMA NextTyped == Typed /\ [Next]_vars => Typed'
<1> SUFFICES ASSUME Typed, [Next]_vars PROVE Typed'
  OBVIOUS
<1>1. CASE UNCHANGED vars
  BY <1>1 DEF vars, socketVars, connsVars, fileVars, Typed, TypeOK, WatcherLater, Own
<1>2. CASE Next
  BY <1>2, SocketTyped, SessionTyped, WatcherTyped, HandlerTyped DEF Next
<1> QED BY <1>1, <1>2

-----------------------------------------------------------------------------
(* The lock and the file                                                   *)

Guarded == LockHeld /\ FileKnown /\ OneHeader

\* Init establishes the rest of the invariant.
LEMMA InitGuarded == Init => Guarded
<1> SUFFICES ASSUME Init PROVE Guarded
  OBVIOUS
<1>1. LockHeld /\ FileKnown
  BY DEF Init, LockHeld, FileKnown, Inside, Writing
<1>2. OneHeader
  BY DEF Init, OneHeader
<1> QED BY <1>1, <1>2 DEF Guarded

\* A step that touches neither the lock nor the file, brings nobody into the
\* section of the lock and nobody out of it, changes nothing of this.
LEMMA OutsideGuarded ==
  ASSUME Guarded, UNCHANGED <<holder, file>>, errors' = errors,
         \A x \in Session \cup Handler : Inside(x)' <=> Inside(x),
         \A h \in Handler : hpc'[h] = hpc[h] \/ hpc'[h] \notin Writing
  PROVE  Guarded'
<1>1. LockHeld'
  BY DEF Guarded, LockHeld, Inside
<1>2. FileKnown'
  BY DEF Guarded, FileKnown, Writing
<1>3. OneHeader'
  BY DEF Guarded, OneHeader
<1> QED BY <1>1, <1>2, <1>3 DEF Guarded

\* Starting a handler puts none into the section of the lock.
LEMMA StartOutside ==
  ASSUME Typed, NEW c \in Conn, StartHandler(c)
  PROVE  \A h \in Handler : /\ hpc'[h] = hpc[h] \/ hpc'[h] \notin Writing
                            /\ hpc'[h] \in Writing <=> hpc[h] \in Writing
BY DEF Typed, TypeOK, StartHandler, Writing

\* The steps of the sockets, of the watchers, and of the sessions up to the lock.
LEMMA SocketGuarded == Typed /\ Guarded /\ SocketStep => Guarded'
<1> SUFFICES ASSUME Typed, Guarded, SocketStep PROVE Guarded'
  OBVIOUS
<1>1. UNCHANGED <<spc, hpc, holder, file, errors>>
  BY DEF SocketStep, Report, OpenLate, RemoteCloses, fileVars
<1> QED BY <1>1, OutsideGuarded DEF Inside

LEMMA WatcherGuarded ==
  ASSUME Typed, Guarded, NEW s \in Session, WatcherStep(s) PROVE Guarded'
<1>1. CASE StartLate(s)
  <2>1. UNCHANGED <<spc, holder, file, errors>>
    BY <1>1 DEF StartLate, fileVars
  <2>2. adding[s] \in Conn /\ StartHandler(adding[s])
    BY <1>1 DEF StartLate, AppendConn, Typed, TypeOK, Own
  <2> QED BY <2>1, <2>2, StartOutside, OutsideGuarded DEF Inside
<1>2. CASE ~StartLate(s)
  <2>1. UNCHANGED <<spc, hpc, holder, file, errors>>
    BY <1>2 DEF WatcherStep, Receive, Prune, Skip, FindNew, Scanned, fileVars
  <2> QED BY <2>1, OutsideGuarded DEF Inside
<1> QED BY <1>1, <1>2

\* The steps of a session: it holds the lock in "remove" only.
LEMMA SessionGuarded ==
  ASSUME Typed, Guarded, NEW s \in Session,
         SessionStep(s) \/ ConnectFails(s) \/ \E cs \in SUBSET Conn : Connect(s, cs)
  PROVE  Guarded'
<1> USE DEF Typed, TypeOK
<1>1. ASSUME NEW cs \in SUBSET Conn, Connect(s, cs) PROVE Guarded'
  BY <1>1, OutsideGuarded DEF Connect, Inside, fileVars
<1>2. CASE ConnectFails(s)
  <2>1. /\ UNCHANGED <<hpc, holder, file>> /\ errors' # 0
        /\ \A x \in Session \cup Handler : Inside(x)' <=> Inside(x)
    BY <1>2 DEF ConnectFails, Inside
  <2>2. LockHeld'
    BY <2>1 DEF Guarded, LockHeld
  <2> QED BY <2>1, <2>2 DEF Guarded, FileKnown, OneHeader
<1>3. CASE NextConn(s) \/ Watch(s) \/ WaitDone(s) \/ Disconnect(s)
  <2>1. /\ UNCHANGED <<hpc, holder, file, errors>>
        /\ \A t \in Session : spc'[t] = "remove" <=> spc[t] = "remove"
    BY <1>3 DEF NextConn, Watch, WaitDone, Disconnect, fileVars
  <2> QED BY <2>1, OutsideGuarded DEF Inside
<1>4. CASE StartUpload(s)
  <2>1. /\ UNCHANGED <<holder, file, errors>>
        /\ \A t \in Session : spc'[t] = "remove" <=> spc[t] = "remove"
    BY <1>4 DEF StartUpload, fileVars
  <2>2. adding[s] \in Conn /\ StartHandler(adding[s])
    BY <1>4 DEF StartUpload, AppendConn, Own
  <2> QED BY <2>1, <2>2, StartOutside, OutsideGuarded DEF Inside
<1>5. CASE LockToRemove(s)
  <2>1. /\ UNCHANGED <<hpc, file, errors>> /\ holder = None /\ holder' = s
        /\ \A x \in Session \cup Handler : Inside(x)' <=> Inside(x) \/ x = s
    BY <1>5 DEF LockToRemove, Inside, fileVars
  <2>2. LockHeld'
    BY <2>1 DEF Guarded, LockHeld
  <2> QED BY <2>1, <2>2 DEF Guarded, FileKnown, OneHeader
<1>6. CASE Remove(s)
  <2>1. /\ UNCHANGED <<hpc, file, errors>> /\ holder' = None
        /\ \A x \in Session \cup Handler : Inside(x)' <=> Inside(x) /\ x # s
    BY <1>6 DEF Remove, Inside, fileVars
  <2>2. Inside(s)
    BY <1>6 DEF Remove, Inside
  <2>3. LockHeld'
    BY <2>1, <2>2 DEF Guarded, LockHeld
  <2> QED BY <2>1, <2>3 DEF Guarded, FileKnown, OneHeader
<1> QED BY <1>1, <1>2, <1>3, <1>4, <1>5, <1>6 DEF SessionStep

\* The steps of a handler.  While it writes no other one does, so what it
\* knows of the file stays true until its own next write.
LEMMA HandlerGuarded ==
  ASSUME Typed, Guarded, NEW h \in Handler, HandlerStep(h) \/ KeepAlive(h) \/ FileFails(h)
  PROVE  Guarded'
<1> USE DEF Typed, TypeOK, Goto
<1>a. \A g \in Handler : hpc[h] \in Writing /\ hpc[g] \in Writing => g = h
  BY DEF Guarded, LockHeld, Inside
<1>b. \A g \in Handler : holder = None => hpc[g] \notin Writing
  BY DEF Guarded, LockHeld, Inside
<1>1. CASE ServeFails(h) \/ KeepAlive(h)
  BY <1>1, OutsideGuarded DEF ServeFails, KeepAlive, AfterServe, Inside, Writing, fileVars
<1>2. CASE LockFile(h)
  <2>1. /\ UNCHANGED <<file, errors>> /\ holder = None /\ holder' = h
        /\ \A x \in Session \cup Handler : Inside(x)' <=> Inside(x) \/ x = h
    BY <1>2 DEF LockFile, Free, Inside, Writing, fileVars
  <2>2. LockHeld'
    BY <2>1 DEF Guarded, LockHeld
  <2>3. FileKnown'
    BY <1>2 DEF LockFile, Guarded, FileKnown, fileVars
  <2> QED BY <2>1, <2>2, <2>3 DEF Guarded, OneHeader
<1>3. CASE WriteHeader(h)
  <2>1. /\ UNCHANGED <<spc, holder, errors>> /\ hpc[h] = "header"
        /\ hpc' = [hpc EXCEPT ![h] = "line"] /\ file' = Append(file, Header)
    BY <1>3 DEF WriteHeader
  <2>2. file = <<>>
    BY <2>1 DEF Guarded, FileKnown
  <2>3. file' = <<Header>>
    BY <2>1, <2>2
  <2>4. LockHeld'
    BY <2>1 DEF Guarded, LockHeld, Inside, Writing
  <2>5. FileKnown'
    BY <2>1, <2>3, <1>a DEF FileKnown, Writing
  <2>6. OneHeader'
    BY <2>3 DEF OneHeader
  <2> QED BY <2>4, <2>5, <2>6 DEF Guarded
<1>4. CASE WriteLine(h)
  <2>1. /\ UNCHANGED <<spc, holder, errors>> /\ hpc[h] \in {"open", "line"}
        /\ hpc' = [hpc EXCEPT ![h] = "close"] /\ file' = Append(file, Line)
    BY <1>4 DEF WriteLine
  <2>2. file # <<>>
    BY <2>1 DEF Guarded, FileKnown
  <2>3. LockHeld'
    BY <2>1 DEF Guarded, LockHeld, Inside, Writing
  <2>4. FileKnown'
    BY <2>1, <1>a DEF FileKnown, Writing
  <2>5. OneHeader'
    <3>1. Len(file) >= 1 /\ Len(file') = Len(file) + 1
      BY <2>1, <2>2
    <3>2. \A i \in 1 .. Len(file) : file'[i] = file[i]
      BY <2>1
    <3>3. file'[Len(file) + 1] = Line /\ Line # Header
      BY <2>1 DEF Line, Header
    <3> QED BY <3>1, <3>2, <3>3 DEF Guarded, OneHeader
  <2> QED BY <2>3, <2>4, <2>5 DEF Guarded
<1>5. CASE CloseConn(h)
  <2>1. /\ UNCHANGED <<spc, file, errors>> /\ holder' = None /\ hpc[h] = "close"
        /\ hpc' = [hpc EXCEPT ![h] = "done"]
    BY <1>5 DEF CloseConn, fileVars
  <2>2. Inside(h) /\ \A x \in Session \cup Handler : Inside(x)' <=> Inside(x) /\ x # h
    BY <2>1 DEF Inside, Writing
  <2>3. LockHeld'
    BY <2>1, <2>2 DEF Guarded, LockHeld
  <2>4. FileKnown'
    BY <2>1 DEF Guarded, FileKnown
  <2> QED BY <2>1, <2>3, <2>4 DEF Guarded, OneHeader
<1>6. CASE FileFails(h)
  <2>1. /\ UNCHANGED <<spc, file, holder>> /\ errors' # 0
        /\ hpc' = [hpc EXCEPT ![h] = "done"]
    BY <1>6 DEF FileFails
  <2>2. LockHeld'
    BY <2>1 DEF Guarded, LockHeld, Inside, Writing
  <2>3. FileKnown'
    BY <2>1 DEF Guarded, FileKnown
  <2> QED BY <2>1, <2>2, <2>3 DEF Guarded, OneHeader
<1> QED BY <1>1, <1>2, <1>3, <1>4, <1>5, <1>6 DEF HandlerStep

-----------------------------------------------------------------------------
(* The theorems                                                            *)

\* The variables of UploadServer keep their types in every behaviour.
THEOREM TypeCorrect == Spec => []TypeOK
<1>1. Init => Typed
  BY InitTyped
<1>2. Typed /\ [Next]_vars => Typed'
  BY NextTyped
<1>3. Typed => TypeOK
  BY DEF Typed
<1> QED BY <1>1, <1>2, <1>3, PTL DEF Spec

\* The lock and the file, together with the types, are inductive.
LEMMA Invariance == Spec => [](Typed /\ Guarded)
<1> DEFINE IInv == Typed /\ Guarded
<1>1. Init => IInv
  BY InitTyped, InitGuarded
<1>2. IInv /\ [Next]_vars => IInv'
  <2> SUFFICES ASSUME IInv, [Next]_vars PROVE IInv'
    OBVIOUS
  <2>1. Typed'
    BY NextTyped
  <2>2. CASE UNCHANGED vars
    <3>1. UNCHANGED <<spc, hpc, holder, file, errors>>
      BY <2>2 DEF vars, fileVars
    <3> QED BY <2>1, <3>1, OutsideGuarded DEF Inside
  <2>3. CASE Next
    BY <2>1, <2>3, SocketGuarded, SessionGuarded, WatcherGuarded, HandlerGuarded DEF Next
  <2> QED BY <2>2, <2>3
<1> QED BY <1>1, <1>2, PTL DEF Spec

\* At most one goroutine is between Lock and Unlock, and without failures the
\* lock is held by one that will release it.
THEOREM LockExcludes == Spec => []LockHeld
<1>1. Typed /\ Guarded => LockHeld
  BY DEF Guarded
<1> QED BY <1>1, Invariance, PTL

\* Whatever handlers end at the same time, the metrics file starts with its one
\* header.
THEOREM FileWellFormed == Spec => []OneHeader
<1>1. Typed /\ Guarded => OneHeader
  BY DEF Guarded
<1> QED BY <1>1, Invariance, PTL

-----------------------------------------------------------------------------
(* One handler per connection, as long as there is one leecher             *)

Alone == \A s, t \in Session : spc[s] # "off" /\ spc[t] # "off" => s = t

\* h serves a connection that is open.
Serves(h) == hpc[h] = "serve" /\ state[h[1]] = "open"

\* Only connections that a session has opened have handlers or are in Conns.
Opened ==
    /\ \A h \in Handler : hpc[h] # "none" => owner[h[1]] # None
    /\ \A c \in Conns : owner[c] # None
    /\ \A s \in Session : \A c \in read[s] : owner[c] # None

\* What keeps a lone session from serving a connection twice.  All of its open
\* connections with a handler are in Conns, which nobody else assigns between
\* its read and its write; what it has still to look at when it has connected,
\* and what it is about to append, nobody serves.
Sole ==
    /\ \A g, h \in Handler : g[1] = h[1] /\ Serves(g) /\ Serves(h) => g = h
    /\ \A h \in Handler : Serves(h) => h[1] \in Conns
    /\ \A s \in Session : spc[s] = "add" \/ wpc[s] = "add" =>
          read[s] = Conns /\ \A h \in Handler : Serves(h) => h[1] # adding[s]
    /\ \A s \in Session : wpc[s] = "prune" => \A c \in Conns : state[c] = "open" => c \in read[s]
    /\ \A s \in Session : spc[s] \in {"start", "add"} =>
          \A h \in Handler : Serves(h) => h[1] \notin todo[s]
    /\ \A s \in Session : spc[s] = "add" => adding[s] \notin todo[s]

AloneInv == Opened /\ (Alone => Sole)

\* A session that has begun does not become one that has not.
LEMMA AloneStays ==
  ASSUME \A s \in Session : spc[s] # "off" => spc'[s] # "off", Alone'
  PROVE  Alone
BY DEF Alone

\* Steps that start no handler, open no connection and leave Conns and what has
\* been read of it alone.
LEMMA SoleFrame ==
  ASSUME Typed, AloneInv, UNCHANGED <<Conns, read, adding>>,
         \A h \in Handler : hpc'[h] = hpc[h] \/ (hpc[h] # "none" /\ hpc'[h] # "serve"),
         \A c \in Conn : owner'[c] = owner[c] /\ (state'[c] = state[c] \/ state'[c] = "closed"),
         \A s \in Session : /\ todo'[s] \subseteq todo[s]
                            /\ spc[s] # "off" => spc'[s] # "off"
                            /\ spc'[s] = spc[s] \/ spc'[s] \notin {"start", "add"}
                            /\ wpc'[s] = wpc[s] \/ wpc'[s] \notin {"prune", "add"}
  PROVE  AloneInv'
<1>1. \A h \in Handler : h[1] \in Conn
  BY DEF Handler
<1>2. \A h \in Handler : Serves(h)' => Serves(h)
  BY <1>1 DEF Serves
<1>3. \A c \in Conn : state'[c] = "open" => state[c] = "open"
  OBVIOUS
<1>4. Opened'
  <2>1. Conns \subseteq Conn /\ \A s \in Session : read[s] \subseteq Conn
    BY DEF Typed, TypeOK
  <2> QED BY <1>1, <2>1 DEF AloneInv, Opened
<1>5. ASSUME Alone' PROVE Sole'
  <2>1. Sole
    BY <1>5, AloneStays DEF AloneInv
  <2>2. Conns \subseteq Conn
    BY DEF Typed, TypeOK
  <2>3. /\ \A g, h \in Handler : g[1] = h[1] /\ Serves(g)' /\ Serves(h)' => g = h
        /\ \A h \in Handler : Serves(h)' => h[1] \in Conns'
    BY <1>2, <2>1 DEF Sole
  <2>4. \A s \in Session : spc'[s] = "add" \/ wpc'[s] = "add" =>
          read'[s] = Conns' /\ \A h \in Handler : Serves(h)' => h[1] # adding'[s]
    BY <1>2, <2>1 DEF Sole
  <2>5. \A s \in Session : wpc'[s] = "prune" => \A c \in Conns' : state'[c] = "open" => c \in read'[s]
    BY <1>3, <2>1, <2>2 DEF Sole
  <2>6. /\ \A s \in Session : spc'[s] \in {"start", "add"} =>
             \A h \in Handler : Serves(h)' => h[1] \notin todo'[s]
        /\ \A s \in Session : spc'[s] = "add" => adding'[s] \notin todo'[s]
    BY <1>2, <2>1 DEF Sole
  <2> QED BY <2>3, <2>4, <2>5, <2>6 DEF Sole
<1> QED BY <1>4, <1>5 DEF AloneInv

\* A session that is alone is the only one whose goroutines have begun.
LEMMA OnlyOne ==
  ASSUME Typed, NEW s \in Session, Alone, spc[s] # "off"
  PROVE  \A t \in Session : t # s => spc[t] = "off" /\ wpc[t] = "off"
BY DEF Alone, Typed, WatcherLater

\* Connections are opened.
LEMMA OpenAlone ==
  ASSUME Typed, AloneInv, NEW s \in Session, NEW cs \in SUBSET Conn,
         \A c \in cs : owner[c] = None, NewOpen(s, cs),
         UNCHANGED <<Conns, read, adding, hpc, wpc>>,
         \A t \in Session : spc[t] # "off" => spc'[t] # "off",
         \/ spc' = spc /\ todo' = todo
         \/ /\ spc[s] = "off" /\ spc'[s] = "start" /\ todo'[s] \subseteq cs
            /\ \A t \in Session \ {s} : spc'[t] = spc[t] /\ todo'[t] = todo[t]
  PROVE  AloneInv'
<1>1. \A h \in Handler : h[1] \in Conn
  BY DEF Handler
<1>2. /\ \A c \in Conn \ cs : owner'[c] = owner[c] /\ state'[c] = state[c]
      /\ \A c \in cs : owner'[c] = s
  BY DEF NewOpen
<1>3. \A h \in Handler : h[1] \in cs => hpc[h] = "none"
  BY DEF AloneInv, Opened
<1>4. \A h \in Handler : Serves(h)' => Serves(h) /\ h[1] \notin cs
  BY <1>1, <1>2, <1>3 DEF Serves
<1>5. Opened'
  <2>1. Conns \subseteq Conn /\ \A t \in Session : read[t] \subseteq Conn
    BY DEF Typed, TypeOK
  <2>2. \A c \in Conn : owner[c] # None => owner'[c] # None
    BY <1>2
  <2> QED BY <1>1, <2>1, <2>2 DEF AloneInv, Opened
<1>6. ASSUME Alone' PROVE Sole'
  <2>1. Sole /\ Alone
    BY <1>6, AloneStays DEF AloneInv
  <2>2. /\ \A g, h \in Handler : g[1] = h[1] /\ Serves(g)' /\ Serves(h)' => g = h
        /\ \A h \in Handler : Serves(h)' => h[1] \in Conns'
    BY <1>4, <2>1 DEF Sole
  <2>3. \A t \in Session : spc'[t] = "add" => spc[t] = "add" /\ todo'[t] = todo[t]
    OBVIOUS
  <2>4. \A t \in Session : spc'[t] = "add" \/ wpc'[t] = "add" =>
          read'[t] = Conns' /\ \A h \in Handler : Serves(h)' => h[1] # adding'[t]
    BY <1>4, <2>1, <2>3 DEF Sole
  <2>5. \A t \in Session : wpc'[t] = "prune" => \A c \in Conns' : state'[c] = "open" => c \in read'[t]
    <3>1. Conns \subseteq Conn \ cs
      BY DEF Typed, TypeOK, AloneInv, Opened
    <3> QED BY <1>2, <2>1, <3>1 DEF Sole
  <2>6. \A t \in Session : spc'[t] \in {"start", "add"} =>
          \A h \in Handler : Serves(h)' => h[1] \notin todo'[t]
    BY <1>4, <2>1 DEF Sole
  <2>7. \A t \in Session : spc'[t] = "add" => adding'[t] \notin todo'[t]
    BY <2>1, <2>3 DEF Sole
  <2> QED BY <2>2, <2>4, <2>5, <2>6, <2>7 DEF Sole
<1> QED BY <1>5, <1>6 DEF AloneInv

\* A handler is started for what has been read and found to have none.
LEMMA AppendAlone ==
  ASSUME Typed, AloneInv, NEW s \in Session, AppendConn(s), spc[s] = "add" \/ wpc[s] = "add",
         UNCHANGED <<owner, state>>, spc[s] # "off", spc'[s] # "off",
         wpc'[s] \notin {"prune", "add"}, spc'[s] # "add",
         spc'[s] = "start" => spc[s] = "add",
         \A t \in Session \ {s} : spc'[t] = spc[t] /\ wpc'[t] = wpc[t]
  PROVE  AloneInv'
<1> DEFINE a == adding[s]
<1>1. \A h \in Handler : h[1] \in Conn
  BY DEF Handler
<1>2. /\ Conns' = read[s] \cup {a} /\ todo' = todo
      /\ \A t \in Session : read'[t] \subseteq read[t]
  BY DEF AppendConn, Typed, TypeOK
<1>3. a \in Conn /\ owner[a] = s
  BY DEF Typed, TypeOK, Own
<1>4. PICK k \in Handler : k[1] = a /\ hpc[k] = "none" /\ hpc' = [hpc EXCEPT ![k] = "serve"]
  BY DEF AppendConn, StartHandler
<1>5. hpc'[k] = "serve" /\ \A h \in Handler \ {k} : hpc'[h] = hpc[h]
  BY <1>4 DEF Typed, TypeOK
<1>6. \A h \in Handler : Serves(h)' => h = k \/ Serves(h)
  BY <1>5 DEF Serves
<1>7. Opened'
  <2>1. \A h \in Handler : hpc'[h] # "none" => owner'[h[1]] # None
    BY <1>3, <1>4, <1>5 DEF AloneInv, Opened
  <2> QED BY <1>2, <1>3, <2>1 DEF AloneInv, Opened
<1>8. ASSUME Alone' PROVE Sole'
  <2>1. Alone /\ Sole
    BY <1>8, AloneStays DEF AloneInv
  <2>2. \A t \in Session \ {s} : spc'[t] = "off" /\ wpc'[t] = "off"
    BY <2>1, OnlyOne
  <2>3. Conns' = Conns \cup {a} /\ \A h \in Handler : Serves(h) => h[1] # a
    BY <1>2, <2>1 DEF Sole
  <2>4. \A g, h \in Handler : g[1] = h[1] /\ Serves(g)' /\ Serves(h)' => g = h
    <3>1. SUFFICES ASSUME NEW g \in Handler, NEW h \in Handler, g[1] = h[1], Serves(g)', Serves(h)'
                   PROVE  g = h
      OBVIOUS
    <3>2. CASE g = k \/ h = k
      BY <1>4, <1>6, <2>3, <3>1, <3>2
    <3>3. CASE g # k /\ h # k
      BY <1>6, <2>1, <3>1, <3>3 DEF Sole
    <3> QED BY <3>2, <3>3
  <2>5. \A h \in Handler : Serves(h)' => h[1] \in Conns'
    BY <1>4, <1>6, <2>1, <2>3 DEF Sole
  <2>6. \A t \in Session : spc'[t] # "add" /\ wpc'[t] \notin {"add", "prune"}
    BY <2>2
  <2>7. \A t \in Session : spc'[t] \in {"start", "add"} =>
          \A h \in Handler : Serves(h)' => h[1] \notin todo'[t]
    <3>1. SUFFICES ASSUME spc'[s] = "start", NEW h \in Handler, Serves(h)' PROVE h[1] \notin todo[s]
      BY <1>2, <2>2, <2>6
    <3>2. spc[s] = "add"
      BY <3>1
    <3> QED BY <1>4, <1>6, <2>1, <3>1, <3>2 DEF Sole
  <2> QED BY <2>4, <2>5, <2>6, <2>7 DEF Sole
<1> QED BY <1>7, <1>8 DEF AloneInv

\* A session turns to a connection nobody serves.
LEMMA ReadAlone ==
  ASSUME Typed, AloneInv, NEW s \in Session, NEW c \in todo[s], ReadConns(s, c),
         UNCHANGED <<owner, state, Conns, hpc>>,
         \/ spc[s] = "start" /\ spc' = [spc EXCEPT ![s] = "add"] /\ wpc' = wpc
         \/ /\ wpc[s] = "scan" /\ wpc' = [wpc EXCEPT ![s] = "add"] /\ spc' = spc
            /\ c \notin Conns
  PROVE  AloneInv'
<1>1. /\ read'[s] = Conns /\ \A t \in Session \ {s} : read'[t] = read[t]
      /\ adding'[s] = c /\ \A t \in Session \ {s} : adding'[t] = adding[t]
      /\ todo'[s] = todo[s] \ {c} /\ \A t \in Session : todo'[t] \subseteq todo[t]
  BY DEF ReadConns, Typed, TypeOK
<1>2. \A h \in Handler : Serves(h)' = Serves(h)
  BY DEF Serves
<1>3. Opened'
  BY <1>1 DEF AloneInv, Opened
<1>4. \A t \in Session : spc[t] # "off" => spc'[t] # "off"
  BY DEF Typed, TypeOK
<1>5. spc[s] # "off"
  BY DEF Typed, TypeOK, WatcherLater
<1>6. ASSUME Alone' PROVE Sole'
  <2>1. Alone /\ Sole
    BY <1>4, <1>6, AloneStays DEF AloneInv
  <2>2. \A t \in Session \ {s} : spc[t] = "off" /\ wpc[t] = "off" /\ spc'[t] = "off" /\ wpc'[t] = "off"
    BY <1>5, <2>1, OnlyOne DEF Typed, TypeOK
  <2>3. \A h \in Handler : Serves(h) => h[1] # c
    BY <2>1 DEF Sole
  <2>4. wpc'[s] # "prune"
    BY DEF Typed, TypeOK, WatcherLater
  <2>5. spc'[s] \in {"start", "add"} => spc[s] \in {"start", "add"}
    BY DEF Typed, TypeOK
  <2>6. \A t \in Session : spc'[t] \in {"start", "add"} =>
          \A h \in Handler : Serves(h)' => h[1] \notin todo'[t]
    BY <1>1, <1>2, <2>1, <2>2, <2>5 DEF Sole
  <2>7. \A t \in Session : spc'[t] = "add" \/ wpc'[t] = "add" =>
          read'[t] = Conns' /\ \A h \in Handler : Serves(h)' => h[1] # adding'[t]
    BY <1>1, <1>2, <2>2, <2>3
  <2>8. \A t \in Session : spc'[t] = "add" => adding'[t] \notin todo'[t]
    BY <1>1, <2>2
  <2>9. \A t \in Session : wpc'[t] # "prune"
    BY <2>2, <2>4
  <2> QED BY <1>2, <2>1, <2>6, <2>7, <2>8, <2>9 DEF Sole
<1> QED BY <1>3, <1>6 DEF AloneInv

\* A goroutine moves, and no other with it.
LEMMA Moves ==
  ASSUME Typed, NEW s \in Session, NEW pc
  PROVE  /\ spc' = [spc EXCEPT ![s] = pc] =>
              spc'[s] = pc /\ \A t \in Session \ {s} : spc'[t] = spc[t]
         /\ wpc' = [wpc EXCEPT ![s] = pc] =>
              wpc'[s] = pc /\ \A t \in Session \ {s} : wpc'[t] = wpc[t]
BY DEF Typed, TypeOK

\* SoleFrame for a step of a session or of its watcher.
LEMMA SessionFrame ==
  ASSUME Typed, AloneInv, NEW s \in Session, UNCHANGED <<Conns, read, adding, hpc, owner>>,
         \A c \in Conn : state'[c] = state[c] \/ state'[c] = "closed",
         \A t \in Session : todo'[t] \subseteq todo[t],
         \A t \in Session \ {s} : spc'[t] = spc[t] /\ wpc'[t] = wpc[t],
         spc'[s] = spc[s] \/ spc'[s] \notin {"off", "start", "add"},
         wpc'[s] = wpc[s] \/ wpc'[s] \notin {"prune", "add"}
  PROVE  AloneInv'
<1>1. \A h \in Handler : hpc'[h] = hpc[h] \/ (hpc[h] # "none" /\ hpc'[h] # "serve")
  OBVIOUS
<1>2. \A c \in Conn : owner'[c] = owner[c] /\ (state'[c] = state[c] \/ state'[c] = "closed")
  OBVIOUS
<1>3. \A t \in Session : /\ todo'[t] \subseteq todo[t]
                         /\ spc[t] # "off" => spc'[t] # "off"
                         /\ spc'[t] = spc[t] \/ spc'[t] \notin {"start", "add"}
                         /\ wpc'[t] = wpc[t] \/ wpc'[t] \notin {"prune", "add"}
  OBVIOUS
<1> QED BY <1>1, <1>2, <1>3, SoleFrame

\* The sockets.
LEMMA SocketAlone == Typed /\ AloneInv /\ SocketStep => AloneInv'
<1> SUFFICES ASSUME Typed, AloneInv, SocketStep PROVE AloneInv'
  OBVIOUS
<1>1. ASSUME NEW s \in Session, Report(s) PROVE AloneInv'
  <2>1. UNCHANGED <<spc, wpc, Conns, read, adding, hpc, owner, state, todo>>
    BY <1>1 DEF Report, connsVars
  <2> QED BY <2>1, SessionFrame
<1>2. ASSUME NEW s \in Session, NEW c \in Conn, OpenLate(s, c) PROVE AloneInv'
  <2>1. {c} \in SUBSET Conn /\ \A d \in {c} : owner[d] = None
    BY <1>2 DEF OpenLate
  <2>2. NewOpen(s, {c}) /\ UNCHANGED <<spc, todo, Conns, read, adding, hpc, wpc>>
    BY <1>2 DEF OpenLate, connsVars
  <2> HIDE DEF NewOpen
  <2> QED BY <2>1, <2>2, OpenAlone
<1>3. ASSUME NEW c \in Conn, RemoteCloses(c) PROVE AloneInv'
  <2>1. \A d \in Conn : state'[d] = state[d] \/ state'[d] = "closed"
    BY <1>3 DEF RemoteCloses, Typed, TypeOK
  <2>2. UNCHANGED <<spc, wpc, Conns, read, adding, hpc, owner, todo>>
    BY <1>3 DEF RemoteCloses, connsVars
  <2> QED BY <2>1, <2>2, SoleFrame
<1> QED BY <1>1, <1>2, <1>3 DEF SocketStep

\* The goroutine of a session.
LEMMA SessionAlone ==
  ASSUME Typed, AloneInv, NEW s \in Session,
         SessionStep(s) \/ ConnectFails(s) \/ \E cs \in SUBSET Conn : Connect(s, cs)
  PROVE  AloneInv'
<1>1. ASSUME NEW cs \in SUBSET Conn, Connect(s, cs) PROVE AloneInv'
  <2>1. /\ spc[s] = "off" /\ spc'[s] = "start"
        /\ \A t \in Session \ {s} : spc'[t] = spc[t]
    BY <1>1, Moves DEF Connect
  <2>2. todo'[s] \subseteq cs /\ \A t \in Session \ {s} : todo'[t] = todo[t]
    BY <1>1 DEF Connect, MainConns, Typed, TypeOK
  <2>3. /\ \A c \in cs : owner[c] = None
        /\ NewOpen(s, cs) /\ UNCHANGED <<Conns, read, adding, hpc, wpc>>
    BY <1>1 DEF Connect
  <2> QED BY <2>1, <2>2, <2>3, OpenAlone
<1>2. CASE ConnectFails(s)
  <2>1. spc'[s] = "failed" /\ \A t \in Session \ {s} : spc'[t] = spc[t]
    BY <1>2, Moves DEF ConnectFails
  <2>2. UNCHANGED <<wpc, Conns, read, adding, hpc, owner, state, todo>>
    BY <1>2 DEF ConnectFails, socketVars, connsVars
  <2> QED BY <2>1, <2>2, SessionFrame
<1>3. CASE NextConn(s)
  <2>1. PICK c \in todo[s] : ReadConns(s, c)
    BY <1>3 DEF NextConn
  <2>2. UNCHANGED <<owner, state, Conns, hpc, wpc>>
    BY <1>3 DEF NextConn, socketVars
  <2>3. spc[s] = "start" /\ spc' = [spc EXCEPT ![s] = "add"]
    BY <1>3 DEF NextConn
  <2> QED BY <2>1, <2>2, <2>3, ReadAlone
<1>4. CASE StartUpload(s)
  <2>1. AppendConn(s) /\ spc[s] = "add" /\ UNCHANGED <<owner, state, wpc>>
    BY <1>4 DEF StartUpload, socketVars
  <2>2. spc'[s] = "start" /\ \A t \in Session \ {s} : spc'[t] = spc[t]
    BY <1>4, Moves DEF StartUpload
  <2>3. wpc[s] = "off"
    BY <2>1 DEF Typed, WatcherLater
  <2> QED BY <2>1, <2>2, <2>3, AppendAlone
<1>5. CASE Watch(s)
  <2>1. /\ spc'[s] = "wait" /\ \A t \in Session \ {s} : spc'[t] = spc[t]
        /\ wpc'[s] = "idle" /\ \A t \in Session \ {s} : wpc'[t] = wpc[t]
    BY <1>5, Moves DEF Watch
  <2>2. UNCHANGED <<Conns, read, adding, hpc, owner, state, todo>>
    BY <1>5 DEF Watch, socketVars, connsVars
  <2> QED BY <2>1, <2>2, SessionFrame
<1>6. CASE WaitDone(s)
  <2>1. spc'[s] = "disconnect" /\ \A t \in Session \ {s} : spc'[t] = spc[t]
    BY <1>6, Moves DEF WaitDone
  <2>2. UNCHANGED <<wpc, Conns, read, adding, hpc, owner, state, todo>>
    BY <1>6 DEF WaitDone, socketVars, connsVars
  <2> QED BY <2>1, <2>2, SessionFrame
<1>7. CASE Disconnect(s)
  <2>1. spc'[s] = "lock" /\ \A t \in Session \ {s} : spc'[t] = spc[t]
    BY <1>7, Moves DEF Disconnect
  <2>2. UNCHANGED <<wpc, Conns, read, adding, hpc, owner, todo>>
    BY <1>7 DEF Disconnect, connsVars
  <2>3. \A c \in Conn : state'[c] = state[c] \/ state'[c] = "closed"
    BY <1>7 DEF Disconnect
  <2> QED BY <2>1, <2>2, <2>3, SessionFrame
<1>8. CASE LockToRemove(s)
  <2>1. spc'[s] = "remove" /\ \A t \in Session \ {s} : spc'[t] = spc[t]
    BY <1>8, Moves DEF LockToRemove
  <2>2. UNCHANGED <<wpc, Conns, read, adding, hpc, owner, state, todo>>
    BY <1>8 DEF LockToRemove, socketVars, connsVars
  <2> QED BY <2>1, <2>2, SessionFrame
<1>9. CASE Remove(s)
  <2>1. spc'[s] = "gone" /\ \A t \in Session \ {s} : spc'[t] = spc[t]
    BY <1>9, Moves DEF Remove
  <2>2. UNCHANGED <<wpc, Conns, read, adding, hpc, owner, state, todo>>
    BY <1>9 DEF Remove, socketVars, connsVars
  <2> QED BY <2>1, <2>2, SessionFrame
<1> QED BY <1>1, <1>2, <1>3, <1>4, <1>5, <1>6, <1>7, <1>8, <1>9
       DEF SessionStep

\* What the watcher keeps of Conns holds every connection that is open.
LEMMA ReceiveAlone ==
  ASSUME Typed, AloneInv, NEW s \in Session, Receive(s)
  PROVE  AloneInv'
<1>0. spc[s] \notin {"off", "start", "add"} /\ wpc[s] = "idle"
  BY DEF Receive, Typed, TypeOK, WatcherLater
<1>1. /\ UNCHANGED <<spc, owner, state, Conns, adding, hpc>>
      /\ wpc'[s] = "prune" /\ \A t \in Session \ {s} : wpc'[t] = wpc[t] /\ todo'[t] = todo[t]
      /\ read'[s] = {c \in Conns : state[c] # "closed"}
      /\ \A t \in Session \ {s} : read'[t] = read[t]
  BY DEF Receive, Typed, TypeOK
<1>2. \A h \in Handler : Serves(h)' = Serves(h)
  BY <1>1 DEF Serves
<1>3. Opened'
  BY <1>1 DEF AloneInv, Opened
<1>4. ASSUME Alone' PROVE Sole'
  <2>1. Sole
    BY <1>1, <1>4, AloneStays DEF AloneInv
  <2> QED BY <1>0, <1>1, <1>2, <2>1 DEF Sole
<1> QED BY <1>3, <1>4 DEF AloneInv

\* No connection with a handler is lost when Conns is pruned.
LEMMA PruneAlone ==
  ASSUME Typed, AloneInv, NEW s \in Session, Prune(s)
  PROVE  AloneInv'
<1>0. spc[s] \notin {"off", "start", "add"} /\ wpc[s] = "prune"
  BY DEF Prune, Typed, TypeOK, WatcherLater
<1>1. /\ UNCHANGED <<spc, owner, state, adding, todo, hpc>> /\ Conns' = read[s]
      /\ wpc'[s] = "scan" /\ \A t \in Session : read'[t] \subseteq read[t]
  BY DEF Prune, socketVars, Typed, TypeOK
<1>2. \A h \in Handler : Serves(h)' = Serves(h)
  BY <1>1 DEF Serves
<1>3. Opened'
  BY <1>1 DEF AloneInv, Opened
<1>4. ASSUME Alone' PROVE Sole'
  <2>1. Alone /\ Sole
    BY <1>1, <1>4, AloneStays DEF AloneInv
  <2>2. \A t \in Session \ {s} : spc'[t] = "off" /\ wpc'[t] = "off"
    <3>1. \A t \in Session \ {s} : wpc'[t] = wpc[t]
      BY DEF Prune, Typed, TypeOK
    <3> QED BY <1>0, <1>1, <2>1, <3>1, OnlyOne
  <2>3. \A h \in Handler : Serves(h)' => h[1] \in Conns'
    BY <1>0, <1>1, <1>2, <2>1 DEF Sole, Serves
  <2> QED BY <1>0, <1>1, <1>2, <2>1, <2>2, <2>3 DEF Sole
<1> QED BY <1>3, <1>4 DEF AloneInv

\* The watcher of a session.
LEMMA WatcherAlone ==
  ASSUME Typed, AloneInv, NEW s \in Session, WatcherStep(s)
  PROVE  AloneInv'
<1>1. CASE Skip(s)
  <2>1. \A t \in Session : todo'[t] \subseteq todo[t]
    BY <1>1 DEF Skip, Typed, TypeOK
  <2>2. UNCHANGED <<spc, wpc, Conns, read, adding, hpc, owner, state>>
    BY <1>1 DEF Skip, socketVars
  <2> QED BY <2>1, <2>2, SessionFrame
<1>2. CASE FindNew(s)
  <2>1. PICK c \in todo[s] : c \notin Conns /\ ReadConns(s, c)
    BY <1>2 DEF FindNew, AlreadyOpen
  <2>2. UNCHANGED <<owner, state, Conns, hpc, spc>>
    BY <1>2 DEF FindNew, socketVars
  <2>3. wpc[s] = "scan" /\ wpc' = [wpc EXCEPT ![s] = "add"]
    BY <1>2 DEF FindNew
  <2> QED BY <2>1, <2>2, <2>3, ReadAlone
<1>3. CASE StartLate(s)
  <2>1. AppendConn(s) /\ wpc[s] = "add" /\ UNCHANGED <<owner, state, spc>>
    BY <1>3 DEF StartLate, socketVars
  <2>2. wpc'[s] = "scan" /\ \A t \in Session \ {s} : wpc'[t] = wpc[t]
    BY <1>3, Moves DEF StartLate
  <2>3. spc[s] \notin {"off", "start", "add"}
    BY <2>1 DEF Typed, WatcherLater
  <2> QED BY <2>1, <2>2, <2>3, AppendAlone
<1>4. CASE Scanned(s)
  <2>1. wpc'[s] = "idle" /\ \A t \in Session \ {s} : wpc'[t] = wpc[t]
    BY <1>4, Moves DEF Scanned
  <2>2. UNCHANGED <<spc, Conns, read, adding, hpc, owner, state, todo>>
    BY <1>4 DEF Scanned, socketVars, connsVars
  <2> QED BY <2>1, <2>2, SessionFrame
<1> QED BY <1>1, <1>2, <1>3, <1>4, ReceiveAlone, PruneAlone DEF WatcherStep

\* A handler.
LEMMA HandlerAlone ==
  ASSUME Typed, AloneInv, NEW h \in Handler, HandlerStep(h) \/ KeepAlive(h) \/ FileFails(h)
  PROVE  AloneInv'
<1>1. h[1] \in Conn
  BY DEF Handler
<1>2. UNCHANGED <<spc, wpc, owner, Conns, read, adding, todo>>
  BY DEF HandlerStep, ServeFails, KeepAlive, LockFile, WriteHeader, WriteLine, CloseConn,
         FileFails, socketVars, connsVars
<1>3. \A c \in Conn : state'[c] = state[c] \/ state'[c] = "closed"
  BY <1>1 DEF HandlerStep, ServeFails, KeepAlive, LockFile, WriteHeader, WriteLine, CloseConn,
         FileFails, socketVars, Typed, TypeOK
<1>4. hpc[h] # "none" /\ \E pc \in Writing \cup {"lock", "done"} : Goto(h, pc)
  BY DEF HandlerStep, ServeFails, KeepAlive, LockFile, WriteHeader, WriteLine, CloseConn,
         FileFails, AfterServe, Writing
<1>5. \A g \in Handler : hpc'[g] = hpc[g] \/ (hpc[g] # "none" /\ hpc'[g] # "serve")
  <2>1. PICK pc \in Writing \cup {"lock", "done"} : hpc' = [hpc EXCEPT ![h] = pc]
    BY <1>4 DEF Goto
  <2>2. pc # "serve"
    BY DEF Writing
  <2> QED BY <1>4, <2>1, <2>2 DEF Typed, TypeOK
<1> QED BY <1>2, <1>3, <1>5, SoleFrame

\* Only so many sessions have begun.
LEMMA FiniteBegun ==
  ASSUME Typed, Next, IsFiniteSet({s \in Session : spc[s] # "off"})
  PROVE  IsFiniteSet({s \in Session : spc'[s] # "off"})
<1> DEFINE B == {s \in Session : spc[s] # "off"}
           C == {s \in Session : spc'[s] # "off"}
<1>1. SUFFICES \E t : C \in SUBSET (B \cup {t})
  <2>1. PICK t : C \in SUBSET (B \cup {t})
    BY <1>1
  <2>2. IsFiniteSet(B \cup {t})
    BY FS_AddElement
  <2> HIDE DEF B, C
  <2>3. IsFiniteSet(C)
    BY <2>1, <2>2, FS_Subset
  <2> QED BY <2>3 DEF C
<1>2. C = B \/ \E t \in Session : \A s \in Session \ {t} : spc'[s] = spc[s]
  <2>1. CASE SocketStep
    BY <2>1 DEF SocketStep, Report, OpenLate, RemoteCloses
  <2>2. ASSUME NEW s \in Session,
               SessionStep(s) \/ ConnectFails(s) \/ \E cs \in SUBSET Conn : Connect(s, cs)
        PROVE  \A t \in Session \ {s} : spc'[t] = spc[t]
    BY <2>2 DEF SessionStep, ConnectFails, Connect, NextConn, StartUpload, Watch, WaitDone,
                Disconnect, LockToRemove, Remove, Typed, TypeOK
  <2>3. ASSUME NEW s \in Session, WatcherStep(s) PROVE spc' = spc
    BY <2>3 DEF WatcherStep, Receive, Prune, Skip, FindNew, StartLate, Scanned
  <2>4. ASSUME NEW h \in Handler, HandlerStep(h) \/ KeepAlive(h) \/ FileFails(h)
        PROVE  spc' = spc
    BY <2>4 DEF HandlerStep, ServeFails, KeepAlive, LockFile, WriteHeader, WriteLine,
                CloseConn, FileFails
  <2> QED BY <2>1, <2>2, <2>3, <2>4 DEF Next
<1>3. CASE \E t \in Session : \A s \in Session \ {t} : spc'[s] = spc[s]
  BY <1>3
<1>4. CASE C = B
  BY <1>4
<1> QED BY <1>2, <1>3, <1>4

\* With the types, what a lone session relies on is inductive.
LEMMA InvarianceAlone ==
  Spec => [](Typed /\ AloneInv /\ IsFiniteSet({s \in Session : spc[s] # "off"}))
<1> DEFINE Begun == IsFiniteSet({s \in Session : spc[s] # "off"})
           IInv == Typed /\ AloneInv /\ Begun
<1>1. Init => IInv
  <2> SUFFICES ASSUME Init PROVE AloneInv /\ Begun
    BY InitTyped
  <2>1. {s \in Session : spc[s] # "off"} = {}
    BY DEF Init
  <2>2. Begun
    BY <2>1, FS_EmptySet
  <2>3. \A h \in Handler : hpc[h] = "none" /\ ~Serves(h)
    BY DEF Init, Serves
  <2>4. AloneInv
    BY <2>3 DEF Init, AloneInv, Opened, Sole
  <2> QED BY <2>2, <2>4
<1>2. IInv /\ [Next]_vars => IInv'
  <2> SUFFICES ASSUME IInv, [Next]_vars PROVE AloneInv' /\ Begun'
    BY NextTyped
  <2>1. CASE UNCHANGED vars
    <3>1. UNCHANGED <<spc, wpc, owner, state, todo, Conns, read, adding, hpc>>
      BY <2>1 DEF vars, socketVars, connsVars
    <3>2. \A h \in Handler : Serves(h)' = Serves(h)
      BY <3>1 DEF Serves
    <3>3. AloneInv'
      BY <3>1, <3>2 DEF AloneInv, Opened, Alone, Sole
    <3> QED BY <3>1, <3>3
  <2>2. CASE Next
    <3>1. AloneInv'
      BY <2>2, SocketAlone, SessionAlone, WatcherAlone, HandlerAlone DEF Next
    <3> QED BY <2>2, <3>1, FiniteBegun
  <2> QED BY <2>1, <2>2
<1> QED BY <1>1, <1>2, PTL DEF Spec

\* Of a finite set with at most one member all members are equal; and a set
\* whose members are all equal is one.
LEMMA AtMostOne ==
  /\ \A S : IsFiniteSet(S) /\ Cardinality(S) <= 1 => \A x, y \in S : x = y
  /\ \A S : (\A x, y \in S : x = y) => Cardinality(S) <= 1
<1>1. ASSUME NEW S, IsFiniteSet(S), Cardinality(S) <= 1 PROVE \A x, y \in S : x = y
  <2>1. Cardinality(S) \in Nat
    BY <1>1, FS_CardinalityType
  <2>2. CASE Cardinality(S) = 0
    BY <1>1, <2>2, FS_EmptySet
  <2>3. CASE Cardinality(S) = 1
    BY <1>1, <2>3, FS_Singleton
  <2> QED BY <1>1, <2>1, <2>2, <2>3
<1>2. ASSUME NEW S, \A x, y \in S : x = y PROVE Cardinality(S) <= 1
  <2>1. CASE S = {}
    BY <2>1, FS_EmptySet
  <2>2. ASSUME NEW x \in S PROVE Cardinality(S) <= 1
    <3>1. S = {x}
      BY <1>2, <2>2
    <3>2. Cardinality({x}) = 1
      BY FS_Singleton
    <3> QED BY <3>1, <3>2
  <2> QED BY <2>1, <2>2
<1> QED BY <1>1, <1>2

\* As long as one leecher only has come, its goroutine and its watcher start one
\* handler per open connection, however often the connections are reported,
\* closed and pruned.
THEOREM ServedOnceAlone == Spec => []OneHandlerAlone
<1> DEFINE B == {s \in Session : spc[s] # "off"}
           Begun == IsFiniteSet({s \in Session : spc[s] # "off"})
<1>1. Typed /\ AloneInv /\ Begun => OneHandlerAlone
  <2> SUFFICES ASSUME Typed, AloneInv, Begun, Cardinality(B) <= 1,
                      NEW c \in Conn, state[c] = "open"
               PROVE  Cardinality({h \in Started(c) : hpc[h] = "serve"}) <= 1
    BY DEF OneHandlerAlone
  <2>1. \A s, t \in B : s = t
    BY AtMostOne
  <2>2. Sole
    BY <2>1 DEF AloneInv, Alone
  <2> DEFINE H == {h \in Started(c) : hpc[h] = "serve"}
  <2>3. \A g, h \in H : g = h
    BY <2>2 DEF Sole, Started, Serves
  <2> HIDE DEF H
  <2>4. Cardinality(H) <= 1
    BY <2>3, AtMostOne
  <2> QED BY <2>4 DEF H
<1> QED BY <1>1, InvarianceAlone, PTL
=============================================================================
