--------------------------- MODULE PeerDiscovery ---------------------------
(***************************************************************************)
(* How a leecher comes to the peers it downloads from: DownloadToFile      *)
(* (torrentfile.go) puts the peer of the command line into PeerSet and     *)
(* enables the DHT, Download (p2p.go) starts a worker for each peer of the *)
(* set, and at the same time announceLoop and consumePeers (dht_node.go)   *)
(* add the peers that the DHT finds and start workers for them.  PeerSet   *)
(* is a map without a lock.  What a worker does once it has work is the    *)
(* subject of Download.  A peer is written in one way: that the address of *)
(* the command line may be spelled unlike peer.String() of the DHT, which  *)
(* would make it two members of the set, is left out.                      *)
(***************************************************************************)
EXTENDS Integers, FiniteSets

CONSTANTS
    Peer,           \* the peers there are, by address
    None,           \* no peer
    FlagPeer,       \* those that may be given on the command line
    Portless,       \* peers that the DHT knows with port 0
    SameHost,       \* peers with the IP and IA of this node, itself included
    MaxAnnounces,   \* bound: announcements that succeed
    MaxReceived,    \* bound: peers received from one of them
    MaxFailures     \* bound: announcements that fail

ASSUME DiscoveryAssumption ==
    /\ None \notin Peer
    /\ FlagPeer \subseteq Peer /\ Portless \subseteq Peer /\ SameHost \subseteq Peer
    /\ MaxAnnounces \in Nat \ {0} /\ MaxReceived \in Nat /\ MaxFailures \in Nat

Traversal == 1 .. MaxAnnounces
Main      == 0
Source    == Traversal \cup {Main}   \* who starts workers

VARIABLES
    mpc,        \* where DownloadToFile and Download stand
    PeerSet,    \* Torrent.PeerSet
    must,       \* the peers in the set when the loop over it began
    visited,    \* those the loop has come to
    queue,      \* has Download made its channels?
    lpc,        \* where announceLoop stands
    ps,         \* its current traversal, 0 for nil
    traversal,  \* the state of each traversal
    failures,   \* announcements that failed
    cpc,        \* where the consumer of each traversal stands
    current,    \* the peer it handles
    known,      \* peerKnown of its callback
    received,   \* how many peers it has received
    started,    \* how many workers each source has started for each peer
    dialling,   \* the workers that have not reached the queue
    working,    \* has one of them got work?
    stuck       \* the sources of those that never will

mainVars     == <<mpc, must, visited, queue>>
loopVars     == <<lpc, ps, failures>>
consumerVars == <<cpc, current, known, received>>
workerVars   == <<started, dialling, working, stuck>>
vars == <<mainVars, PeerSet, loopVars, traversal, consumerVars, workerVars>>

Init ==
    /\ mpc = "config"
    /\ PeerSet \in {{}} \cup {{p} : p \in FlagPeer}
    /\ must = {} /\ visited = {} /\ queue = FALSE
    /\ lpc = "off" /\ ps = 0 /\ failures = 0
    /\ traversal = [t \in Traversal |-> "none"]
    /\ cpc = [t \in Traversal |-> "off"]
    /\ current = [t \in Traversal |-> None]
    /\ known = [t \in Traversal |-> FALSE] /\ received = [t \in Traversal |-> 0]
    /\ started = [s \in Source |-> [p \in Peer |-> 0]]
    /\ dialling = {} /\ working = FALSE /\ stuck = {}

\* go t.startDownloadWorker(p)
StartWorker(s, p) ==
    /\ started' = [started EXCEPT ![s][p] = @ + 1]
    /\ dialling' = dialling \cup {<<s, p>>}
    /\ UNCHANGED <<working, stuck>>

-----------------------------------------------------------------------------
(* DownloadToFile and Download                                             *)

\* EnableDht succeeds, and announceLoop runs.
EnableDht ==
    /\ mpc = "config"
    /\ mpc' = "make" /\ lpc' = "announce"
    /\ UNCHANGED <<must, visited, queue, PeerSet, ps, failures, traversal, consumerVars, workerVars>>

\* The DHT is off, or "could not enable dht", which is only logged.
NoDht ==
    /\ mpc = "config"
    /\ mpc' = "make"
    /\ UNCHANGED <<must, visited, queue, PeerSet, loopVars, traversal, consumerVars, workerVars>>

\* The local address is not valid: its error is not looked at.
BadLocalAddress ==
    /\ mpc = "config"
    /\ mpc' = "panic"
    /\ UNCHANGED <<must, visited, queue, PeerSet, loopVars, traversal, consumerVars, workerVars>>

\* Fault: the channels are made after the workers are started.
MakeQueue_Late ==
    /\ mpc = "make"
    /\ mpc' = "range" /\ must' = PeerSet
    /\ UNCHANGED <<visited, queue, PeerSet, loopVars, traversal, consumerVars, workerVars>>

\* Download makes the channels and fills the queue; the loop over PeerSet begins.
MakeQueue ==
    /\ mpc = "make"
    /\ mpc' = "range" /\ queue' = TRUE /\ must' = PeerSet
    /\ UNCHANGED <<visited, PeerSet, loopVars, traversal, consumerVars, workerVars>>

\* The loop comes to each peer that was there when it began, and may come to one
\* that has been added since.
Visit(p) ==
    /\ mpc = "range" /\ p \in PeerSet \ visited
    /\ visited' = visited \cup {p}
    /\ StartWorker(Main, p)
    /\ UNCHANGED <<mpc, must, queue, PeerSet, loopVars, traversal, consumerVars>>

RangeDone ==
    /\ mpc = "range" /\ must \subseteq visited
    /\ mpc' = "collect" /\ must' = {} /\ visited' = {}
    /\ UNCHANGED <<queue, PeerSet, loopVars, traversal, consumerVars, workerVars>>

\* All pieces have come from workers: Download returns, the file is written or
\* not, the node closed, and the program ends.
Return ==
    /\ mpc = "collect" /\ working
    /\ mpc' = "exit"
    /\ UNCHANGED <<must, visited, queue, PeerSet, loopVars, traversal, consumerVars, workerVars>>

Ended == mpc \in {"exit", "panic", "fatal"}

-----------------------------------------------------------------------------
(* announceLoop                                                            *)

\* announceAndGetPeers: a traversal, with a consumer of its own.
Announce(t) ==
    /\ lpc = "announce" /\ traversal[t] = "none" /\ \A u \in 1 .. t - 1 : traversal[u] # "none"
    /\ traversal' = [traversal EXCEPT ![t] = "open"]
    /\ cpc' = [cpc EXCEPT ![t] = "idle"]
    /\ ps' = t /\ lpc' = "wait"
    /\ UNCHANGED <<mainVars, PeerSet, failures, current, known, received, workerVars>>

\* Fault: the loop is left when an announcement fails.
AfterFailure_Leave == "off"

AfterFailure == "wait"

\* The error is logged; ps is nil.
AnnounceFails ==
    /\ lpc = "announce" /\ failures < MaxFailures
    /\ failures' = failures + 1
    /\ ps' = 0 /\ lpc' = AfterFailure
    /\ UNCHANGED <<mainVars, PeerSet, traversal, consumerVars, workerVars>>

\* Fault: the last traversal is not closed.
Tick_Unclosed ==
    /\ lpc = "wait" /\ \E t \in Traversal : traversal[t] = "none"
    /\ lpc' = "announce"
    /\ UNCHANGED <<mainVars, PeerSet, ps, failures, traversal, consumerVars, workerVars>>

\* 15 minutes are over: the last traversal, if any, is closed.
Tick ==
    /\ lpc = "wait" /\ \E t \in Traversal : traversal[t] = "none"
    /\ traversal' = [t \in Traversal |-> IF t = ps THEN "closed" ELSE traversal[t]]
    /\ lpc' = "announce"
    /\ UNCHANGED <<mainVars, PeerSet, ps, failures, consumerVars, workerVars>>

-----------------------------------------------------------------------------
(* consumePeers and the callback of EnableDht.  What a traversal has found *)
(* before it was closed is still received.                                 *)

\* A peer of port 0, and this node itself, are skipped.
Blocked(p) == p \in Portless \cup SameHost

Receive(t, p) ==
    /\ cpc[t] = "idle" /\ received[t] < MaxReceived
    /\ received' = [received EXCEPT ![t] = @ + 1]
    /\ \/ Blocked(p) /\ UNCHANGED <<cpc, current>>
       \/ /\ ~Blocked(p)
          /\ cpc' = [cpc EXCEPT ![t] = "check"]
          /\ current' = [current EXCEPT ![t] = p]
    /\ UNCHANGED <<mainVars, PeerSet, loopVars, traversal, known, workerVars>>

\* Fault: the peer is looked up after it has been added.
HasPeer_AfterAdd(p) == p \in PeerSet \cup {p}

\* Fault: the result is not used.
HasPeer_Unused(p) == FALSE

HasPeer(p) == p \in PeerSet

Check(t) ==
    /\ cpc[t] = "check"
    /\ known' = [known EXCEPT ![t] = HasPeer(current[t])]
    /\ cpc' = [cpc EXCEPT ![t] = "add"]
    /\ UNCHANGED <<mainVars, PeerSet, loopVars, traversal, current, received, workerVars>>

\* PeerSet.Add, and a worker if the peer was not known.
AddPeer(t) ==
    /\ cpc[t] = "add"
    /\ PeerSet' = PeerSet \cup {current[t]}
    /\ \/ known[t] /\ UNCHANGED workerVars
       \/ ~known[t] /\ StartWorker(t, current[t])
    /\ cpc' = [cpc EXCEPT ![t] = "idle"]
    /\ current' = [current EXCEPT ![t] = None] /\ known' = [known EXCEPT ![t] = FALSE]
    /\ UNCHANGED <<mainVars, loopVars, traversal, received>>

\* The stream of peers is closed: "done consuming peers".
ConsumerDone(t) ==
    /\ cpc[t] = "idle" /\ traversal[t] = "closed"
    /\ cpc' = [cpc EXCEPT ![t] = "done"]
    /\ UNCHANGED <<mainVars, PeerSet, loopVars, traversal, current, known, received, workerVars>>

\* The runtime may notice that PeerSet is written while another goroutine reads
\* it, and ends the program.
MapFault ==
    /\ \E t \in Traversal :
          /\ cpc[t] = "add"
          /\ mpc = "range" \/ \E u \in Traversal \ {t} : cpc[u] \in {"check", "add"}
    /\ mpc' = "fatal"
    /\ UNCHANGED <<must, visited, queue, PeerSet, loopVars, traversal, consumerVars, workerVars>>

-----------------------------------------------------------------------------
(* startDownloadWorker, up to its first read of the queue                  *)

\* The worker returns, and nobody tries this peer again.
DialFails(s, p) ==
    /\ <<s, p>> \in dialling
    /\ dialling' = dialling \ {<<s, p>>}
    /\ UNCHANGED <<mainVars, PeerSet, loopVars, traversal, consumerVars, started, working, stuck>>

\* A channel that has not been made yet is nil, and a range over it never ends.
DialDone(s, p) ==
    /\ <<s, p>> \in dialling
    /\ dialling' = dialling \ {<<s, p>>}
    /\ working' = (working \/ queue)
    /\ stuck' = IF queue THEN stuck ELSE stuck \cup {s}
    /\ UNCHANGED <<mainVars, PeerSet, loopVars, traversal, consumerVars, started>>

-----------------------------------------------------------------------------
MainStep ==
    EnableDht \/ NoDht \/ BadLocalAddress \/ MakeQueue \/ (\E p \in Peer : Visit(p)) \/ RangeDone
LoopStep == AnnounceFails \/ Tick \/ \E t \in Traversal : Announce(t)
CallbackStep(t) == Check(t) \/ AddPeer(t)
WorkerStep(s, p) == DialFails(s, p) \/ DialDone(s, p)

Next ==
    /\ ~Ended
    /\ \/ MainStep \/ Return \/ LoopStep \/ MapFault
       \/ \E t \in Traversal :
             CallbackStep(t) \/ ConsumerDone(t) \/ \E p \in Peer : Receive(t, p)
       \/ \E s \in Source, p \in Peer : WorkerStep(s, p)

Spec == Init /\ [][Next]_vars

\* Goroutines are scheduled again and again, and the ticker ticks.  Nothing
\* obliges the DHT to find a peer, or a dial to end.
FairSpec ==
    /\ Spec
    /\ WF_vars(~Ended /\ MainStep) /\ WF_vars(~Ended /\ LoopStep)
    /\ \A t \in Traversal : WF_vars(~Ended /\ CallbackStep(t))

-----------------------------------------------------------------------------
(* Properties                                                              *)

\* The types of the variables; announceLoop never ends once it runs, and a
\* consumer has a peer at hand exactly while it is in the callback.
TypeOK ==
    /\ mpc \in {"config", "make", "range", "collect", "exit", "panic", "fatal"}
    /\ PeerSet \cup must \cup visited \subseteq Peer /\ queue \in BOOLEAN
    /\ lpc \in {"off", "announce", "wait"} /\ ps \in 0 .. MaxAnnounces
    /\ failures \in 0 .. MaxFailures /\ (lpc = "off" => failures = 0 /\ ps = 0)
    /\ traversal \in [Traversal -> {"none", "open", "closed"}]
    /\ cpc \in [Traversal -> {"off", "idle", "check", "add", "done"}]
    /\ current \in [Traversal -> Peer \cup {None}] /\ known \in [Traversal -> BOOLEAN]
    /\ \A t \in Traversal : current[t] # None <=> cpc[t] \in {"check", "add"}
    /\ received \in [Traversal -> 0 .. MaxReceived]
    /\ started \in [Source -> [Peer -> Nat]]
    /\ dialling \subseteq Source \X Peer /\ working \in BOOLEAN /\ stuck \subseteq Source

\* Every peer that gets into PeerSet gets a worker, from the loop of Download or
\* from the callback that added it: none falls between the two.
PeerTried ==
    \A p \in Peer : p \in PeerSet ~> Ended \/ \E s \in Source : started[s][p] > 0

\* No peer is forgotten on the way there: a peer of PeerSet has been given a
\* worker, or Download has not begun its loop, or the loop has still to come to
\* it.  A callback that finds its peer known relies on that.
NoneForgotten ==
    \A p \in PeerSet :
        \/ \E s \in Source : started[s][p] > 0
        \/ mpc \in {"config", "make"}
        \/ mpc = "range" /\ p \in must \ visited
        \/ Ended

\* However often the DHT finds a peer, one traversal starts at most one worker
\* for it, and so does the loop of Download: what overlaps can start two, what
\* repeats cannot.
OncePerSource == \A s \in Source, p \in Peer : started[s][p] <= 1

\* The workers that Download starts find the queue made; only one that the DHT
\* has started while the DHT was being enabled can find it nil and wait forever.
NotStuck == Main \notin stuck

\* Two traversals are never open together, failed announcements in between or not.
OneTraversal == \A t, u \in Traversal : traversal[t] = "open" /\ traversal[u] = "open" => t = u

\* A failed announcement is made good: as long as the program runs with its DHT,
\* there will be an open traversal again.
AnnouncedAgain == lpc # "off" ~> Ended \/ \E t \in Traversal : traversal[t] = "open"

\* "dont start two worker for same peer"
OneWorkerPerPeer ==
    \A p \in Peer : \A s, u \in Source : started[s][p] > 0 /\ started[u][p] > 0 => s = u
=============================================================================
