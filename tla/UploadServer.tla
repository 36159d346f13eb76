---------------------------- MODULE UploadServer ----------------------------
(***************************************************************************)
(* The sessions of the seeder (server/server.go): ListenHandshake starts a *)
(* goroutine per leecher, which connects back, starts a handler for each   *)
(* connection and waits for them in a wait group, and a second one (the    *)
(* watcher) that starts handlers for the connections its socket reports    *)
(* later.  All of them read and write Server.Conns without the lock; the   *)
(* lock guards the metrics file and the removal of a leecher.  What a      *)
(* handler does with its connection is the subject of PieceTransfer, which *)
(* paths a session gets that of PathStore.                                 *)
(***************************************************************************)
EXTENDS Integers, Sequences, FiniteSets

CONSTANTS
    Session,     \* the leechers that may connect
    Conn,        \* the connections there may be, each used once
    None,        \* no session, no holder of the lock
    Csv,         \* CsvPath names a CSV file, not a web server
    MaxReports,  \* bound: changes of connections the sockets report
    MaxErrors    \* bound: file operations and closes that fail

Handler == Conn \X (1 .. MaxReports + 1)

ASSUME UploadAssumption ==
    /\ Session \cap Handler = {} /\ None \notin Session \cup Handler
    /\ Csv \in BOOLEAN /\ MaxReports \in Nat /\ MaxErrors \in Nat

VARIABLES
    spc,       \* where the goroutine of each session stands
    wpc,       \* where its watcher stands
    owner,     \* the session of each connection
    state,     \* GetState of each connection
    todo,      \* the connections a session still has to look at
    report,    \* what OnConnectionsChange holds
    Conns,     \* Server.Conns
    read,      \* what a session has read of Conns and not written back yet
    adding,    \* the connection it is about to append
    hpc,       \* where each handler stands
    holder,    \* who holds the lock of the server
    file,      \* the metrics file, line by line; empty when it does not exist
    reports, errors   \* how often each bounded event happened

socketVars == <<owner, state, report, reports>>
connsVars  == <<Conns, read, adding, todo>>
fileVars   == <<file, errors>>
vars == <<spc, wpc, socketVars, connsVars, hpc, holder, fileVars>>

Header == "header"
Line   == "line"

Init ==
    /\ spc = [s \in Session |-> "off"] /\ wpc = [s \in Session |-> "off"]
    /\ owner = [c \in Conn |-> None] /\ state = [c \in Conn |-> "none"]
    /\ todo = [s \in Session |-> {}] /\ report = [s \in Session |-> {}]
    /\ Conns = {} /\ read = [s \in Session |-> {}]
    /\ adding = [s \in Session |-> None]
    /\ hpc = [h \in Handler |-> "none"]
    /\ holder = None
    /\ file \in {<<>>, <<Header>>}
    /\ reports = 0 /\ errors = 0

Own(s)     == {c \in Conn : owner[c] = s}
OpenOf(s)  == {c \in Own(s) : state[c] = "open"}
Started(c) == {h \in Handler : h[1] = c /\ hpc[h] # "none"}

-----------------------------------------------------------------------------
(* The sockets.  mpSock is a library; what is known of it here is that it  *)
(* opens connections, sees them closed, and reports all it has.            *)

NewOpen(s, cs) ==
    /\ owner' = [c \in Conn |-> IF c \in cs THEN s ELSE owner[c]]
    /\ state' = [c \in Conn |-> IF c \in cs THEN "open" ELSE state[c]]

\* A change of paths opens a connection.
OpenLate(s, c) ==
    /\ spc[s] \in {"start", "add", "wait", "disconnect"} /\ owner[c] = None
    /\ NewOpen(s, {c})
    /\ UNCHANGED <<spc, wpc, report, reports, connsVars, hpc, holder, fileVars>>

RemoteCloses(c) ==
    /\ state[c] = "open"
    /\ state' = [state EXCEPT ![c] = "closed"]
    /\ UNCHANGED <<spc, wpc, owner, report, reports, connsVars, hpc, holder, fileVars>>

Report(s) ==
    /\ OpenOf(s) # {} /\ report[s] = {} /\ reports < MaxReports
    /\ report' = [report EXCEPT ![s] = OpenOf(s)]
    /\ reports' = reports + 1
    /\ UNCHANGED <<spc, wpc, owner, state, connsVars, hpc, holder, fileVars>>

-----------------------------------------------------------------------------
(* Server.Conns.  append reads the slice and assigns it; between the two    *)
(* another goroutine may have assigned it too.                             *)

\* s turns to c and reads Conns.
ReadConns(s, c) ==
    /\ c \in todo[s]
    /\ read' = [read EXCEPT ![s] = Conns]
    /\ adding' = [adding EXCEPT ![s] = c]
    /\ todo' = [todo EXCEPT ![s] = @ \ {c}]

\* A handler more, counted by the wait group from now on.
StartHandler(c) ==
    \E h \in Handler :
        /\ h[1] = c /\ hpc[h] = "none"
        /\ \A n \in 1 .. h[2] - 1 : hpc[<<c, n>>] # "none"
        /\ hpc' = [hpc EXCEPT ![h] = "serve"]

\* Conns is assigned, the wait group counts one more, the handler starts.
AppendConn(s) ==
    /\ Conns' = read[s] \cup {adding[s]}
    /\ StartHandler(adding[s])
    /\ adding' = [adding EXCEPT ![s] = None]
    /\ read' = [read EXCEPT ![s] = {}]
    /\ UNCHANGED todo

-----------------------------------------------------------------------------
(* The goroutine of a session                                              *)

\* "if i == 0 continue"
MainConns(cs, first) == cs \ {first}

\* Connect, and GetConnections.
Connect(s, cs) ==
    /\ spc[s] = "off" /\ cs # {} /\ \A c \in cs : owner[c] = None
    /\ NewOpen(s, cs)
    /\ \E first \in cs : todo' = [todo EXCEPT ![s] = MainConns(cs, first)]
    /\ spc' = [spc EXCEPT ![s] = "start"]
    /\ UNCHANGED <<wpc, report, reports, Conns, read, adding, hpc, holder, fileVars>>

\* Listen or Connect fails; the goroutine returns.
ConnectFails(s) ==
    /\ spc[s] = "off" /\ errors < MaxErrors
    /\ spc' = [spc EXCEPT ![s] = "failed"]
    /\ errors' = errors + 1
    /\ UNCHANGED <<wpc, socketVars, connsVars, hpc, holder, file>>

\* The loop over the connections of Connect turns to the next one.
NextConn(s) ==
    /\ spc[s] = "start"
    /\ \E c \in todo[s] : ReadConns(s, c)
    /\ spc' = [spc EXCEPT ![s] = "add"]
    /\ UNCHANGED <<wpc, socketVars, Conns, hpc, holder, fileVars>>

StartUpload(s) ==
    /\ spc[s] = "add"
    /\ AppendConn(s)
    /\ spc' = [spc EXCEPT ![s] = "start"]
    /\ UNCHANGED <<wpc, socketVars, holder, fileVars>>

\* All have their handler: the watcher is started.
Watch(s) ==
    /\ spc[s] = "start" /\ todo[s] = {}
    /\ spc' = [spc EXCEPT ![s] = "wait"]
    /\ wpc' = [wpc EXCEPT ![s] = "idle"]
    /\ UNCHANGED <<socketVars, connsVars, hpc, holder, fileVars>>

\* The handlers the wait group of s counts.
Running(s) == {h \in Handler : owner[h[1]] = s /\ hpc[h] \notin {"none", "done"}}

\* wg.Wait() returns.
WaitDone(s) ==
    /\ spc[s] = "wait" /\ Running(s) = {}
    /\ spc' = [spc EXCEPT ![s] = "disconnect"]
    /\ UNCHANGED <<wpc, socketVars, connsVars, hpc, holder, fileVars>>

Disconnect(s) ==
    /\ spc[s] = "disconnect"
    /\ state' = [c \in Conn |-> IF c \in Own(s) THEN "closed" ELSE state[c]]
    /\ spc' = [spc EXCEPT ![s] = "lock"]
    /\ UNCHANGED <<wpc, owner, report, reports, connsVars, hpc, holder, fileVars>>

\* The leecher is removed from pathStore and extPeers under the lock.
LockToRemove(s) ==
    /\ spc[s] = "lock" /\ holder = None
    /\ holder' = s
    /\ spc' = [spc EXCEPT ![s] = "remove"]
    /\ UNCHANGED <<wpc, socketVars, connsVars, hpc, fileVars>>

Remove(s) ==
    /\ spc[s] = "remove"
    /\ holder' = None
    /\ spc' = [spc EXCEPT ![s] = "gone"]
    /\ UNCHANGED <<wpc, socketVars, connsVars, hpc, fileVars>>

-----------------------------------------------------------------------------
(* The watcher of a session.  It never ends.                               *)

\* Fault: the watchers of all sessions share one variable mpSock.
Receive_SharedSocket(s) ==
    \E other \in Session :
        /\ wpc[s] = "idle" /\ report[other] # {}
        /\ todo' = [todo EXCEPT ![s] = report[other]]
        /\ report' = [report EXCEPT ![other] = {}]
        /\ read' = [read EXCEPT ![s] = {c \in Conns : state[c] # "closed"}]
        /\ wpc' = [wpc EXCEPT ![s] = "prune"]
        /\ UNCHANGED <<spc, owner, state, reports, Conns, adding, hpc, holder, fileVars>>

\* "Filter for new connections": the closed ones are taken out of what is read.
Receive(s) ==
    /\ wpc[s] = "idle" /\ report[s] # {}
    /\ todo' = [todo EXCEPT ![s] = report[s]]
    /\ report' = [report EXCEPT ![s] = {}]
    /\ read' = [read EXCEPT ![s] = {c \in Conns : state[c] # "closed"}]
    /\ wpc' = [wpc EXCEPT ![s] = "prune"]
    /\ UNCHANGED <<spc, owner, state, reports, Conns, adding, hpc, holder, fileVars>>

\* "s.Conns = newConns"
Prune(s) ==
    /\ wpc[s] = "prune"
    /\ Conns' = read[s]
    /\ read' = [read EXCEPT ![s] = {}]
    /\ wpc' = [wpc EXCEPT ![s] = "scan"]
    /\ UNCHANGED <<spc, socketVars, adding, todo, hpc, holder, fileVars>>

\* Fault: the ids are not set yet, so that all are equal.
AlreadyOpen_AnyId(c) == Conns # {}

\* Fault: the result of the comparison is dropped.
AlreadyOpen_Never(c) == FALSE

AlreadyOpen(c) == c \in Conns

Skip(s) ==
    /\ wpc[s] = "scan"
    /\ \E c \in todo[s] : AlreadyOpen(c) /\ todo' = [todo EXCEPT ![s] = @ \ {c}]
    /\ UNCHANGED <<spc, wpc, socketVars, Conns, read, adding, hpc, holder, fileVars>>

FindNew(s) ==
    /\ wpc[s] = "scan"
    /\ \E c \in todo[s] : ~AlreadyOpen(c) /\ ReadConns(s, c)
    /\ wpc' = [wpc EXCEPT ![s] = "add"]
    /\ UNCHANGED <<spc, socketVars, Conns, hpc, holder, fileVars>>

StartLate(s) ==
    /\ wpc[s] = "add"
    /\ AppendConn(s)
    /\ wpc' = [wpc EXCEPT ![s] = "scan"]
    /\ UNCHANGED <<spc, socketVars, holder, fileVars>>

Scanned(s) ==
    /\ wpc[s] = "scan" /\ todo[s] = {}
    /\ wpc' = [wpc EXCEPT ![s] = "idle"]
    /\ UNCHANGED <<spc, socketVars, connsVars, hpc, holder, fileVars>>

-----------------------------------------------------------------------------
(* A handler: measureConnMetrics                                           *)

Goto(h, pc) == hpc' = [hpc EXCEPT ![h] = pc]

\* Only the export to a CSV file takes the lock, and only it closes the connection.
AfterServe == IF Csv THEN "lock" ELSE "done"

\* handleConnection returns the error of a read or a write ...
ServeFails(h) ==
    /\ hpc[h] = "serve" /\ state[h[1]] = "closed"
    /\ Goto(h, AfterServe)
    /\ UNCHANGED <<spc, wpc, socketVars, connsVars, holder, fileVars>>

\* ... or, for a keep-alive, none.
KeepAlive(h) ==
    /\ hpc[h] = "serve" /\ state[h[1]] = "open"
    /\ Goto(h, AfterServe)
    /\ UNCHANGED <<spc, wpc, socketVars, connsVars, holder, fileVars>>

\* Fault: the lock is not taken.
Free_Ignored == TRUE

Free == holder = None

\* s.Lock(), then os.Stat tells whether the file exists.
LockFile(h) ==
    /\ hpc[h] = "lock" /\ Free
    /\ holder' = h
    /\ Goto(h, IF file = <<>> THEN "header" ELSE "open")
    /\ UNCHANGED <<spc, wpc, socketVars, connsVars, fileVars>>

WriteHeader(h) ==
    /\ hpc[h] = "header"
    /\ file' = Append(file, Header)
    /\ Goto(h, "line")
    /\ UNCHANGED <<spc, wpc, socketVars, connsVars, holder, errors>>

WriteLine(h) ==
    /\ hpc[h] \in {"open", "line"}
    /\ file' = Append(file, Line)
    /\ Goto(h, "close")
    /\ UNCHANGED <<spc, wpc, socketVars, connsVars, holder, errors>>

\* Fault: no s.Unlock() at the end.
CloseConn_KeepsLock(h) ==
    /\ hpc[h] = "close"
    /\ state' = [state EXCEPT ![h[1]] = "closed"]
    /\ Goto(h, "done")
    /\ UNCHANGED <<spc, wpc, owner, report, reports, connsVars, holder, fileVars>>

CloseConn(h) ==
    /\ hpc[h] = "close"
    /\ state' = [state EXCEPT ![h[1]] = "closed"]
    /\ holder' = None
    /\ Goto(h, "done")
    /\ UNCHANGED <<spc, wpc, owner, report, reports, connsVars, fileVars>>

\* The file cannot be opened or closed, or the connection not closed: the
\* handler returns with the lock held.
FileFails(h) ==
    /\ hpc[h] \in {"header", "open", "close"} /\ errors < MaxErrors
    /\ errors' = errors + 1
    /\ Goto(h, "done")
    /\ UNCHANGED <<spc, wpc, socketVars, connsVars, holder, file>>

-----------------------------------------------------------------------------
SocketStep ==
    \/ \E s \in Session : Report(s) \/ \E c \in Conn : OpenLate(s, c)
    \/ \E c \in Conn : RemoteCloses(c)

SessionStep(s) ==
    \/ NextConn(s) \/ StartUpload(s) \/ Watch(s)
    \/ WaitDone(s) \/ Disconnect(s) \/ LockToRemove(s) \/ Remove(s)

WatcherStep(s) ==
    Receive(s) \/ Prune(s) \/ Skip(s) \/ FindNew(s) \/ StartLate(s) \/ Scanned(s)

HandlerStep(h) ==
    \/ ServeFails(h) \/ LockFile(h) \/ WriteHeader(h) \/ WriteLine(h) \/ CloseConn(h)

Next ==
    \/ SocketStep
    \/ \E s \in Session : ConnectFails(s) \/ \E cs \in SUBSET Conn : Connect(s, cs)
    \/ \E s \in Session : SessionStep(s) \/ WatcherStep(s)
    \/ \E h \in Handler : HandlerStep(h) \/ KeepAlive(h) \/ FileFails(h)

Spec == Init /\ [][Next]_vars

\* Goroutines are scheduled again and again.  Nothing obliges a leecher to come
\* or to go, a socket to report or a file operation to fail.
FairSpec ==
    /\ Spec
    /\ \A s \in Session : WF_vars(SessionStep(s)) /\ WF_vars(WatcherStep(s))
    /\ \A h \in Handler : WF_vars(HandlerStep(h))

-----------------------------------------------------------------------------
(* Properties                                                              *)

Writing == {"header", "open", "line", "close"}

\* Those that are between Lock and Unlock.
Inside(x) ==
    \/ x \in Session /\ spc[x] = "remove"
    \/ x \in Handler /\ hpc[x] \in Writing

\* The types of the variables; connections belong to the session that looks at them.
TypeOK ==
    /\ spc \in [Session -> {"off", "failed", "start", "add", "wait", "disconnect",
                            "lock", "remove", "gone"}]
    /\ wpc \in [Session -> {"off", "idle", "prune", "scan", "add"}]
    /\ owner \in [Conn -> Session \cup {None}]
    /\ state \in [Conn -> {"none", "open", "closed"}]
    /\ todo \in [Session -> SUBSET Conn] /\ report \in [Session -> SUBSET Conn]
    /\ \A s \in Session : todo[s] \cup report[s] \subseteq Own(s)
    /\ Conns \subseteq Conn /\ read \in [Session -> SUBSET Conn]
    /\ adding \in [Session -> Conn \cup {None}]
    /\ \A s \in Session : IF spc[s] = "add" \/ wpc[s] = "add"
                          THEN adding[s] \in Own(s) ELSE adding[s] = None
    /\ hpc \in [Handler -> Writing \cup {"none", "serve", "lock", "done"}]
    /\ holder \in Session \cup Handler \cup {None}
    /\ file \in Seq({Header, Line})
    /\ reports \in 0 .. MaxReports /\ errors \in 0 .. MaxErrors

\* At most one goroutine is between Lock and Unlock, and as long as nothing
\* failed a lock that is held belongs to a goroutine that will release it.
LockHeld ==
    /\ \A x \in Session \cup Handler : Inside(x) => holder = x
    /\ errors = 0 /\ holder # None => Inside(holder)

\* The metrics file starts with its header and has no other, whatever handlers
\* of whatever sessions end at the same time.
OneHeader ==
    \A i \in 1 .. Len(file) : file[i] = Header <=> i = 1

\* As long as there has been one leecher only, no connection has two handlers:
\* they would share its stream and answer each other's requests.
OneHandlerAlone ==
    Cardinality({s \in Session : spc[s] # "off"}) <= 1 =>
        \A c \in Conn : state[c] = "open" =>
            Cardinality({h \in Started(c) : hpc[h] = "serve"}) <= 1

\* Every connection a socket reports gets a handler: an entry of Conns that
\* makes the watcher skip it is there because a handler was started for it.
ReportedIsServed ==
    \A s \in Session, c \in Conn : c \in report[s] ~> Started(c) # {}

\* A leecher whose connections are closed for good is removed, unless a file
\* operation has failed: no goroutine keeps the lock or the wait group.
LeecherRemoved ==
    \A s \in Session :
        <>[](spc[s] # "off" /\ spc[s] # "failed" /\ OpenOf(s) = {})
            => <>(spc[s] = "gone" \/ errors > 0)

\* The watchers "filter for new connections": only for a new one a handler is
\* started, so no open connection has two.
OneHandler ==
    \A c \in Conn : state[c] = "open" =>
        Cardinality({h \in Started(c) : hpc[h] = "serve"}) <= 1
=============================================================================
