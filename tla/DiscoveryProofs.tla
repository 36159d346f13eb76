-------------------------- MODULE DiscoveryProofs --------------------------
(***************************************************************************)
(* Theorems about PeerDiscovery, for every number of peers, announcements  *)
(* and failures.                                                           *)
(***************************************************************************)
EXTENDS PeerDiscovery, TLAPS

-----------------------------------------------------------------------------
(* Types                                                                   *)

\* A consumer runs only once its traversal has been started; TypeOK needs that
\* where a traversal starts.
NotYet == \A t \in Traversal : traversal[t] = "none" => cpc[t] = "off"

TypeInv == TypeOK /\ NotYet

\* A worker that is started is one more in started, and is dialling.
LEMMA StartType ==
  ASSUME TypeOK, NEW s \in Source, NEW p \in Peer, StartWorker(s, p)
  PROVE  /\ started' \in [Source -> [Peer -> Nat]]
         /\ dialling' \subseteq Source \X Peer
         /\ working' = working /\ stuck' = stuck
BY DEF StartWorker, TypeOK

\* The steps of DownloadToFile and Download.
LEMMA MainType ==
  ASSUME TypeInv, MainStep \/ Return
  PROVE  TypeInv'
<1> USE DiscoveryAssumption DEF TypeInv, TypeOK, NotYet, loopVars, consumerVars, workerVars
<1>1. CASE EnableDht
  BY <1>1 DEF EnableDht
<1>2. CASE NoDht \/ BadLocalAddress
  BY <1>2 DEF NoDht, BadLocalAddress
<1>3. CASE MakeQueue
  BY <1>3 DEF MakeQueue
<1>4. ASSUME NEW p \in Peer, Visit(p) PROVE TypeInv'
  <2>1. Main \in Source
    BY DEF Source
  <2> QED BY <1>4, <2>1, StartType DEF Visit
<1>5. CASE RangeDone \/ Return
  BY <1>5 DEF RangeDone, Return
<1> QED BY <1>1, <1>2, <1>3, <1>4, <1>5 DEF MainStep

\* The steps of announceLoop.
LEMMA LoopType ==
  ASSUME TypeInv, LoopStep
  PROVE  TypeInv'
<1> USE DiscoveryAssumption DEF TypeInv, TypeOK, NotYet, mainVars, consumerVars, workerVars
<1>1. CASE AnnounceFails
  BY <1>1 DEF AnnounceFails, AfterFailure
<1>2. CASE Tick
  BY <1>2 DEF Tick
<1>3. ASSUME NEW t \in Traversal, Announce(t) PROVE TypeInv'
  <2>1. t \in 0 .. MaxAnnounces
    BY DEF Traversal
  <2> QED BY <1>3, <2>1 DEF Announce
<1> QED BY <1>1, <1>2, <1>3 DEF LoopStep

\* The steps of a consumer and its callback.
LEMMA ConsumerType ==
  ASSUME TypeInv, NEW t \in Traversal,
         CallbackStep(t) \/ ConsumerDone(t) \/ \E p \in Peer : Receive(t, p)
  PROVE  TypeInv'
<1> USE DiscoveryAssumption DEF TypeInv, TypeOK, NotYet, mainVars, loopVars
<1>1. CASE Check(t)
  BY <1>1 DEF Check, HasPeer, workerVars
<1>2. CASE AddPeer(t)
  <2>1. current[t] \in Peer /\ t \in Source
    BY <1>2 DEF AddPeer, Source
  <2>2. /\ started' \in [Source -> [Peer -> Nat]]
        /\ dialling' \subseteq Source \X Peer
        /\ working' = working /\ stuck' = stuck
    BY <1>2, <2>1, StartType DEF AddPeer, workerVars
  <2> QED BY <1>2, <2>1, <2>2 DEF AddPeer
<1>3. CASE ConsumerDone(t)
  BY <1>3 DEF ConsumerDone, workerVars
<1>4. ASSUME NEW p \in Peer, Receive(t, p) PROVE TypeInv'
  <2>1. received' \in [Traversal -> 0 .. MaxReceived]
    BY <1>4 DEF Receive
  <2>2. CASE UNCHANGED <<cpc, current>>
    BY <1>4, <2>1, <2>2 DEF Receive, workerVars
  <2>3. CASE /\ cpc' = [cpc EXCEPT ![t] = "check"]
             /\ current' = [current EXCEPT ![t] = p]
    BY <1>4, <2>1, <2>3 DEF Receive, workerVars
  <2> QED BY <1>4, <2>2, <2>3 DEF Receive
<1> QED BY <1>1, <1>2, <1>3, <1>4 DEF CallbackStep

\* The steps of a worker, and the end of the program by a fault.
LEMMA WorkerType ==
  ASSUME TypeInv, MapFault \/ \E s \in Source, p \in Peer : WorkerStep(s, p)
  PROVE  TypeInv'
<1> USE DEF TypeInv, TypeOK, NotYet, mainVars, loopVars, consumerVars
<1>1. CASE MapFault
  BY <1>1 DEF MapFault, workerVars
<1>2. ASSUME NEW s \in Source, NEW p \in Peer, DialFails(s, p) PROVE TypeInv'
  BY <1>2 DEF DialFails
<1>3. ASSUME NEW s \in Source, NEW p \in Peer, DialDone(s, p) PROVE TypeInv'
  <2>1. working' \in BOOLEAN /\ stuck' \subseteq Source
    BY <1>3 DEF DialDone
  <2> QED BY <1>3, <2>1 DEF DialDone
<1> QED BY <1>1, <1>2, <1>3 DEF WorkerStep

\* The invariant of the types is inductive.
LEMMA TypeInduction ==
  /\ Init => TypeInv
  /\ TypeInv /\ [Next]_vars => TypeInv'
<1>1. Init => TypeInv
  <2> SUFFICES ASSUME Init PROVE TypeInv
    OBVIOUS
  <2>1. PeerSet \subseteq Peer
    BY DiscoveryAssumption DEF Init
  <2>2. started \in [Source -> [Peer -> Nat]]
    BY DEF Init
  <2>3. /\ PeerSet \cup must \cup visited \subseteq Peer
        /\ ps \in 0 .. MaxAnnounces /\ failures \in 0 .. MaxFailures
        /\ received \in [Traversal -> 0 .. MaxReceived]
    BY <2>1, DiscoveryAssumption DEF Init
  <2>4. /\ known \in [Traversal -> BOOLEAN] /\ working \in BOOLEAN /\ queue \in BOOLEAN
        /\ dialling \subseteq Source \X Peer /\ stuck \subseteq Source
    BY DEF Init
  <2>5. TypeOK
    BY <2>2, <2>3, <2>4 DEF Init, TypeOK
  <2> QED BY <2>5 DEF Init, TypeInv, NotYet
<1>2. ASSUME TypeInv, [Next]_vars PROVE TypeInv'
  <2>1. CASE UNCHANGED vars
    BY <1>2, <2>1 DEF vars, mainVars, loopVars, consumerVars, workerVars, TypeInv, TypeOK, NotYet
  <2> QED BY <1>2, <2>1, MainType, LoopType, ConsumerType, WorkerType DEF Next
<1> QED BY <1>1, <1>2

\* The variables of the discovery keep their types; a consumer has a peer at
\* hand exactly while it is in the callback, and announceLoop goes on after a
\* failed announcement.
THEOREM TypeCorrect == Spec => []TypeOK
<1>1. TypeInv => TypeOK
  BY DEF TypeInv
<1> QED BY <1>1, TypeInduction, PTL DEF Spec

-----------------------------------------------------------------------------
(* Workers                                                                 *)

\* What keeps a source from starting a second worker for a peer: the loop marks
\* what it has visited, a callback looks into PeerSet, to which everything it
\* starts a worker for has been added.
Remembered ==
    /\ mpc \in {"config", "make"} => visited = {} /\ \A p \in Peer : started[Main][p] = 0
    /\ mpc = "range" => \A p \in Peer : started[Main][p] > 0 <=> p \in visited
    /\ \A t \in Traversal, p \in Peer : started[t][p] > 0 => p \in PeerSet
    /\ \A t \in Traversal : cpc[t] = "add" /\ ~known[t] => started[t][current[t]] = 0

\* What a callback has looked up stays true: PeerSet only grows.
KnownIsMember == \A t \in Traversal : cpc[t] = "add" /\ known[t] => current[t] \in PeerSet

WorkerInv == Remembered /\ OncePerSource /\ KnownIsMember /\ NoneForgotten

\* A traversal is not the main goroutine.
LEMMA MainIsNoTraversal == Main \notin Traversal /\ Main \in Source /\ Traversal \subseteq Source
BY DiscoveryAssumption DEF Main, Traversal, Source

\* Starting a worker adds one for that source and that peer, and no other.
LEMMA StartCounts ==
  ASSUME TypeOK, NEW s \in Source, NEW p \in Peer, StartWorker(s, p)
  PROVE  /\ started'[s][p] = started[s][p] + 1
         /\ \A r \in Source, q \in Peer : <<r, q>> # <<s, p>> => started'[r][q] = started[r][q]
         /\ \A r \in Source, q \in Peer : started[r][q] > 0 => started'[r][q] > 0
BY DEF StartWorker, TypeOK

\* Steps that start no worker and leave what has been looked up alone.
LEMMA WorkerFrame ==
  ASSUME TypeOK, WorkerInv, UNCHANGED <<PeerSet, cpc, current, known, started>>,
         \/ UNCHANGED <<mpc, must, visited>>
         \/ mpc = "config" /\ mpc' \in {"make", "panic"} /\ UNCHANGED <<must, visited>>
         \/ mpc' \in {"exit", "fatal"}
  PROVE  WorkerInv'
BY DEF WorkerInv, Remembered, OncePerSource, KnownIsMember, NoneForgotten, Ended, TypeOK

\* Every step keeps the invariant.
LEMMA WorkerStepInv ==
  ASSUME TypeOK, WorkerInv, [Next]_vars
  PROVE  WorkerInv'
<1> USE DEF mainVars, loopVars, consumerVars, workerVars
<1>1. CASE EnableDht \/ NoDht \/ BadLocalAddress \/ Return \/ MapFault \/ UNCHANGED vars
  BY <1>1, WorkerFrame DEF EnableDht, NoDht, BadLocalAddress, Return, MapFault, vars
<1>2. ASSUME NEW s \in Source, NEW p \in Peer, WorkerStep(s, p) PROVE WorkerInv'
  BY <1>2, WorkerFrame DEF WorkerStep, DialFails, DialDone
<1>3. CASE AnnounceFails \/ Tick
  BY <1>3, WorkerFrame DEF AnnounceFails, Tick
<1>4. ASSUME NEW t \in Traversal, Announce(t) PROVE WorkerInv'
  BY <1>4 DEF Announce, WorkerInv, Remembered, OncePerSource, KnownIsMember, NoneForgotten, Ended, TypeOK
<1>5. ASSUME NEW t \in Traversal, NEW p \in Peer, Receive(t, p) PROVE WorkerInv'
  BY <1>5 DEF Receive, WorkerInv, Remembered, OncePerSource, KnownIsMember, NoneForgotten, Ended, TypeOK
<1>6. ASSUME NEW t \in Traversal, ConsumerDone(t) PROVE WorkerInv'
  BY <1>6 DEF ConsumerDone, WorkerInv, Remembered, OncePerSource, KnownIsMember, NoneForgotten, Ended, TypeOK
<1>7. CASE MakeQueue
  BY <1>7 DEF MakeQueue, WorkerInv, Remembered, OncePerSource, KnownIsMember, NoneForgotten, Ended, TypeOK
<1>8. CASE RangeDone
  BY <1>8, MainIsNoTraversal
     DEF RangeDone, WorkerInv, Remembered, OncePerSource, KnownIsMember, NoneForgotten, Ended, TypeOK
<1>9. ASSUME NEW p \in Peer, Visit(p) PROVE WorkerInv'
  <2>1. /\ started'[Main][p] = started[Main][p] + 1
        /\ \A r \in Source, q \in Peer : <<r, q>> # <<Main, p>> => started'[r][q] = started[r][q]
        /\ \A r \in Source, q \in Peer : started[r][q] > 0 => started'[r][q] > 0
    BY <1>9, MainIsNoTraversal, StartCounts DEF Visit
  <2>2. started[Main][p] = 0
    BY <1>9, MainIsNoTraversal DEF Visit, WorkerInv, Remembered, TypeOK
  <2>3. \A t \in Traversal, q \in Peer : started'[t][q] = started[t][q]
    BY <2>1, MainIsNoTraversal
  <2>4. \A q \in Peer : q # p => started'[Main][q] = started[Main][q]
    BY <2>1, MainIsNoTraversal
  <2>5. \A q \in Peer : started'[Main][q] > 0 <=> q \in visited'
    BY <1>9, <2>1, <2>2, <2>4 DEF Visit, WorkerInv, Remembered
  <2>6. \A t \in Traversal : cpc[t] = "add" => current[t] \in Peer
    BY DEF TypeOK
  <2>7. Remembered'
    BY <1>9, <2>3, <2>5, <2>6 DEF Visit, WorkerInv, Remembered
  <2>8. OncePerSource'
    BY <2>1, <2>2 DEF WorkerInv, OncePerSource
  <2>9. KnownIsMember'
    BY <1>9 DEF Visit, WorkerInv, KnownIsMember
  <2>10. NoneForgotten'
    BY <1>9, <2>1, <2>2, MainIsNoTraversal DEF Visit, WorkerInv, NoneForgotten, Ended, TypeOK
  <2> QED BY <2>7, <2>8, <2>9, <2>10 DEF WorkerInv
<1>10. ASSUME NEW t \in Traversal, Check(t) PROVE WorkerInv'
  <2>1. current[t] \in Peer
    BY <1>10 DEF Check, TypeOK
  <2>2. /\ known'[t] <=> current[t] \in PeerSet
        /\ \A u \in Traversal : u # t => cpc'[u] = cpc[u] /\ (known'[u] <=> known[u])
    BY <1>10 DEF Check, HasPeer, TypeOK
  <2>3. started[t][current[t]] > 0 => current[t] \in PeerSet
    BY <2>1 DEF WorkerInv, Remembered
  <2>4. started[t][current[t]] \in Nat
    BY <2>1, MainIsNoTraversal DEF TypeOK
  <2>5. ~known'[t] => started[t][current[t]] = 0
    <3>1. CASE current[t] \in PeerSet
      BY <2>2, <3>1
    <3>2. CASE current[t] \notin PeerSet
      BY <2>3, <2>4, <3>2
    <3> QED BY <3>1, <3>2
  <2>6. \A u \in Traversal : cpc'[u] = "add" /\ ~known'[u] => started[u][current[u]] = 0
    BY <2>2, <2>5 DEF WorkerInv, Remembered
  <2>7. KnownIsMember'
    BY <1>10, <2>2 DEF Check, WorkerInv, KnownIsMember
  <2>8. Remembered'
    BY <1>10, <2>6 DEF Check, WorkerInv, Remembered
  <2> QED BY <1>10, <2>7, <2>8 DEF Check, WorkerInv, OncePerSource, NoneForgotten, Ended
<1>11. ASSUME NEW t \in Traversal, AddPeer(t), known[t] PROVE WorkerInv'
  <2>1. PeerSet' = PeerSet
    BY <1>11 DEF AddPeer, WorkerInv, KnownIsMember
  <2> QED
    BY <1>11, <2>1 DEF AddPeer, WorkerInv, Remembered, OncePerSource, KnownIsMember, NoneForgotten, Ended, TypeOK
<1>12. ASSUME NEW t \in Traversal, AddPeer(t), ~known[t] PROVE WorkerInv'
  <2> DEFINE p == current[t]
  <2>1. p \in Peer
    BY <1>12 DEF AddPeer, TypeOK
  <2>2. /\ started'[t][p] = started[t][p] + 1
        /\ \A r \in Source, q \in Peer : <<r, q>> # <<t, p>> => started'[r][q] = started[r][q]
        /\ \A r \in Source, q \in Peer : started[r][q] > 0 => started'[r][q] > 0
    BY <1>12, <2>1, MainIsNoTraversal, StartCounts DEF AddPeer
  <2>3. started[t][p] = 0
    BY <1>12 DEF AddPeer, WorkerInv, Remembered
  <2>4. \A q \in Peer : started'[Main][q] = started[Main][q]
    BY <2>2, MainIsNoTraversal
  <2>5. \A u \in Traversal, q \in Peer : started'[u][q] > 0 => q \in PeerSet'
    BY <1>12, <2>2, MainIsNoTraversal DEF AddPeer, WorkerInv, Remembered
  <2>6. \A u \in Traversal : cpc'[u] = "add" => u # t /\ cpc[u] = "add" /\ current[u] \in Peer
    BY <1>12 DEF AddPeer, TypeOK
  <2>7. \A u \in Traversal : u # t => current'[u] = current[u] /\ (known'[u] <=> known[u])
    BY <1>12 DEF AddPeer, TypeOK
  <2>8. \A u \in Traversal : u # t => \A q \in Peer : started'[u][q] = started[u][q]
    BY <2>2, MainIsNoTraversal
  <2>9. \A u \in Traversal : cpc'[u] = "add" /\ ~known'[u] => started'[u][current'[u]] = 0
    BY <2>6, <2>7, <2>8 DEF WorkerInv, Remembered
  <2>10. Remembered'
    BY <1>12, <2>4, <2>5, <2>9 DEF AddPeer, WorkerInv, Remembered
  <2>11. OncePerSource'
    BY <2>2, <2>3 DEF WorkerInv, OncePerSource
  <2>12. KnownIsMember'
    BY <1>12, <2>6, <2>7 DEF AddPeer, WorkerInv, KnownIsMember
  <2>13. NoneForgotten'
    BY <1>12, <2>1, <2>2, <2>3, MainIsNoTraversal
       DEF AddPeer, WorkerInv, NoneForgotten, Ended, TypeOK
  <2> QED BY <2>10, <2>11, <2>12, <2>13 DEF WorkerInv
<1> QED
  BY <1>1, <1>2, <1>3, <1>4, <1>5, <1>6, <1>7, <1>8, <1>9, <1>10, <1>11, <1>12
     DEF Next, MainStep, LoopStep, CallbackStep

\* However the loop of Download, the consumers of old and new traversals and the
\* announcements interleave, no source starts two workers for one peer.
THEOREM NoSourceTwice == Spec => []OncePerSource
<1>1. Init => WorkerInv
  BY MainIsNoTraversal DEF Init, WorkerInv, Remembered, OncePerSource, KnownIsMember, NoneForgotten
<1>2. TypeInv /\ WorkerInv /\ [Next]_vars => WorkerInv'
  BY WorkerStepInv DEF TypeInv
<1>3. WorkerInv => OncePerSource
  BY DEF WorkerInv
<1> QED BY <1>1, <1>2, <1>3, TypeInduction, PTL DEF Spec

\* Every peer in PeerSet has a worker or will be come to by the loop of Download:
\* a callback that finds its peer known never relies on nobody.
THEOREM NobodyForgotten == Spec => []NoneForgotten
<1>1. Init => WorkerInv
  BY MainIsNoTraversal DEF Init, WorkerInv, Remembered, OncePerSource, KnownIsMember, NoneForgotten
<1>2. TypeInv /\ WorkerInv /\ [Next]_vars => WorkerInv'
  BY WorkerStepInv DEF TypeInv
<1>3. WorkerInv => NoneForgotten
  BY DEF WorkerInv
<1> QED BY <1>1, <1>2, <1>3, TypeInduction, PTL DEF Spec

-----------------------------------------------------------------------------
(* The queue                                                               *)

\* Download starts its workers after it has made the queue, which stays.
QueueFirst ==
    /\ mpc = "range" => queue
    /\ \A p \in Peer : <<Main, p>> \in dialling => queue
    /\ NotStuck

\* No worker that Download has started waits on a channel that was never made.
THEOREM WorkersFindQueue == Spec => []NotStuck
<1> USE DEF QueueFirst, NotStuck, mainVars, loopVars, consumerVars, workerVars
<1>1. Init => QueueFirst
  BY DEF Init
<1>2. ASSUME TypeOK, QueueFirst, [Next]_vars PROVE QueueFirst'
  <2>1. CASE EnableDht \/ NoDht \/ BadLocalAddress \/ MakeQueue \/ RangeDone \/ Return \/ MapFault \/ UNCHANGED vars
    BY <1>2, <2>1 DEF EnableDht, NoDht, BadLocalAddress, MakeQueue, RangeDone, Return, MapFault, vars
  <2>2. ASSUME NEW p \in Peer, Visit(p) PROVE QueueFirst'
    BY <1>2, <2>2 DEF Visit, StartWorker
  <2>3. CASE AnnounceFails \/ Tick \/ \E t \in Traversal : Announce(t)
    BY <1>2, <2>3 DEF AnnounceFails, Tick, Announce
  <2>4. ASSUME NEW t \in Traversal, Check(t) \/ ConsumerDone(t) \/ \E p \in Peer : Receive(t, p)
        PROVE  QueueFirst'
    BY <1>2, <2>4 DEF Check, ConsumerDone, Receive
  <2>5. ASSUME NEW t \in Traversal, AddPeer(t) PROVE QueueFirst'
    <3>1. t # Main
      BY MainIsNoTraversal
    <3> QED BY <1>2, <2>5, <3>1 DEF AddPeer, StartWorker
  <2>6. ASSUME NEW s \in Source, NEW p \in Peer, DialFails(s, p) PROVE QueueFirst'
    BY <1>2, <2>6 DEF DialFails
  <2>7. ASSUME NEW s \in Source, NEW p \in Peer, DialDone(s, p) PROVE QueueFirst'
    BY <1>2, <2>7 DEF DialDone
  <2> QED
    BY <1>2, <2>1, <2>2, <2>3, <2>4, <2>5, <2>6, <2>7
       DEF Next, MainStep, LoopStep, CallbackStep, WorkerStep
<1>3. TypeInv => TypeOK
  BY DEF TypeInv
<1>4. QueueFirst => NotStuck
  OBVIOUS
<1> QED BY <1>1, <1>2, <1>3, <1>4, TypeInduction, PTL DEF Spec

-----------------------------------------------------------------------------
(* Traversals                                                              *)

\* The open traversal is the one announceLoop will close.
OpenIsCurrent ==
    /\ mpc = "config" => lpc = "off"
    /\ \A t \in Traversal : traversal[t] = "open" => t = ps /\ lpc = "wait"

\* announceLoop closes a traversal before it starts the next, also when
\* announcements have failed in between and ps was nil.
THEOREM OneAtATime == Spec => []OneTraversal
<1> USE DEF OpenIsCurrent, mainVars, loopVars, consumerVars, workerVars
<1>1. Init => OpenIsCurrent
  BY DEF Init
<1>2. ASSUME TypeOK, OpenIsCurrent, [Next]_vars PROVE OpenIsCurrent'
  <2>1. CASE MainStep \/ Return \/ MapFault \/ UNCHANGED vars
    <3>1. CASE EnableDht
      BY <1>2, <2>1, <3>1 DEF EnableDht, TypeOK
    <3> QED
      BY <1>2, <2>1, <3>1 DEF MainStep, NoDht, BadLocalAddress, MakeQueue, Visit, RangeDone, Return, MapFault, vars
  <2>2. CASE AnnounceFails
    BY <1>2, <2>2 DEF AnnounceFails
  <2>3. CASE Tick
    BY <1>2, <2>3 DEF Tick, TypeOK
  <2>4. ASSUME NEW t \in Traversal, Announce(t) PROVE OpenIsCurrent'
    BY <1>2, <2>4 DEF Announce, TypeOK
  <2>5. ASSUME NEW t \in Traversal, CallbackStep(t) \/ ConsumerDone(t) \/ \E p \in Peer : Receive(t, p)
        PROVE  OpenIsCurrent'
    BY <1>2, <2>5 DEF CallbackStep, Check, AddPeer, ConsumerDone, Receive
  <2>6. ASSUME NEW s \in Source, NEW p \in Peer, WorkerStep(s, p) PROVE OpenIsCurrent'
    BY <1>2, <2>6 DEF WorkerStep, DialFails, DialDone
  <2> QED BY <1>2, <2>1, <2>2, <2>3, <2>4, <2>5, <2>6 DEF Next, LoopStep
<1>3. OpenIsCurrent => OneTraversal
  BY DEF OneTraversal
<1>4. TypeInv => TypeOK
  BY DEF TypeInv
<1> QED BY <1>1, <1>2, <1>3, <1>4, TypeInduction, PTL DEF Spec
=============================================================================
