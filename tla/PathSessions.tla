---------------------------- MODULE PathSessions ----------------------------
(***************************************************************************)
(* The sessions of the seeder that share the path store (server.go,        *)
(* pathselectionstore.go).  The goroutine of each leecher runs             *)
(* updateDisjointPathselection without the lock, connects, and at its end  *)
(* removes the leecher with the lock held.  The paths of an entry are a    *)
(* slice: removePathFromEntry moves the elements of its array up, and the  *)
(* selection of the session, which has the same array, keeps its own       *)
(* length until it is refreshed.  NumPaths is 0 here, the mode in which    *)
(* the store decides.                                                      *)
(***************************************************************************)
EXTENDS PathRules

CONSTANTS
    MaxErrors,      \* bound: Connects that fail
    MaxWithdrawn    \* bound: paths that a socket no longer offers

ASSUME PathSessionsAssumption == MaxErrors \in Nat /\ MaxWithdrawn \in Nat

VARIABLES
    pc,          \* where the goroutine of each leecher's session stands
    add,         \* the local variables of its AddPeerEntry
    array,       \* the array behind the UsedPaths of each leecher
    Data,        \* pathStore.Data: the length of UsedPaths of each entry
    selection,   \* ServerSelection.usedPaths: whose array, and its length
    extPeers,    \* Server.extPeers
    later,       \* what the loop over extPeers has still to visit
    read,        \* extPeers as a session is about to assign it
    active,      \* the paths the socket of each session uses
    withdrawn,   \* the paths a socket no longer offers
    ended,       \* "no", or why the program has ended
    errors,      \* how many Connects have failed
    overlapped,  \* history: did the updates of two sessions ever overlap?
    before       \* history: the store before the AddPeerEntry that runs alone

storeVars   == <<add, array, Data, before>>
peersVars   == <<extPeers, later, read>>
sockVars    == <<selection, active, ended>>
vars == <<pc, storeVars, peersVars, sockVars, withdrawn, errors, overlapped>>

\* A slice with the first n elements of the array of p.
Slice(p, n) == SubSeq(array[p], 1, n)

Stored == [p \in DOMAIN Data |-> Slice(p, Data[p])]

Selected(p) == Slice(selection[p].of, selection[p].len)

NoAdd == [own |-> <<>>, asked |-> <<>>, length |-> <<>>, done |-> 0]

Init ==
    /\ pc = [p \in Peers |-> "off"]
    /\ add = [p \in Peers |-> NoAdd]
    /\ array = [p \in Peers |-> <<>>] /\ Data = <<>>
    /\ selection = [p \in Peers |-> [of |-> p, len |-> 0]]
    /\ extPeers = <<>> /\ later = [p \in Peers |-> <<>>] /\ read = [p \in Peers |-> <<>>]
    /\ active = [p \in Peers |-> <<>>]
    /\ withdrawn = {} /\ ended = "no" /\ errors = 0
    /\ overlapped = FALSE /\ before = <<>>

\* The sessions inside updateDisjointPathselection or the removal.
Updating == {p \in Peers : pc[p] \in {"try", "get", "refresh", "append", "filter", "assign"}}

Goto(p, where) == pc' = [pc EXCEPT ![p] = where]

\* p starts an update; it overlaps with those that are not at their end.
Enter == overlapped' = (overlapped \/ Updating # {})

-----------------------------------------------------------------------------
(* The sockets, a library.  It calls the selection of a session when it    *)
(* connects, when ForcePathSelection asks for it, and when it likes.       *)

\* FindIndexByPathString is -1 for a path that is not offered.
Missing(p, paths) == \E path \in Range(paths) :
                        path \notin Range(Available[p]) \/ <<p, path>> \in withdrawn

\* CustomPathSelectAlg for the socket of p, with the paths given to it.
CustomPathSelectAlg(p, paths) ==
    IF Missing(p, paths)
    THEN ended' = "panic" /\ UNCHANGED active
    ELSE active' = [active EXCEPT ![p] = paths] /\ UNCHANGED ended

Reselect(p) ==
    /\ pc[p] = "up"
    /\ CustomPathSelectAlg(p, Selected(p))
    /\ UNCHANGED <<pc, storeVars, peersVars, selection, withdrawn, errors, overlapped>>

Withdraw(p, path) ==
    /\ pc[p] \notin {"off", "failed", "gone"} /\ <<p, path>> \notin withdrawn
    /\ Cardinality(withdrawn) < MaxWithdrawn
    /\ withdrawn' = withdrawn \cup {<<p, path>>}
    /\ UNCHANGED <<pc, storeVars, peersVars, sockVars, errors, overlapped>>

-----------------------------------------------------------------------------
(* updateDisjointPathselection                                             *)

\* AddPeerEntry copies the entries of Data, with the lengths they have now.
CopyEntries(p) ==
    /\ pc[p] = "off"
    /\ \E order \in OrdersOf(Data) :
          add' = [add EXCEPT ![p] = [own |-> <<>>, asked |-> order, length |-> Data, done |-> 0]]
    /\ Enter
    /\ before' = IF overlapped' THEN <<>> ELSE Stored
    /\ Goto(p, "try")
    /\ UNCHANGED <<array, Data, peersVars, sockVars, withdrawn, errors>>

\* The next path of AvailablePaths: if it is taken from another leecher, the
\* elements of that one's array move up and its entry gets the new length,
\* whether it has been deleted meanwhile or not.
NextPath(p) ==
    LET a      == add[p]
        data   == [q \in DOMAIN a.length |-> Slice(q, a.length[q])]
        round  == TryPath([own |-> a.own, data |-> data, asked |-> a.asked],
                          Available[p][a.done + 1])
        robbed == {q \in DOMAIN data : round.data[q] # data[q]}
        lens   == [q \in DOMAIN data |-> Len(round.data[q])]
    IN  /\ pc[p] = "try" /\ a.done < Len(Available[p])
        /\ add' = [add EXCEPT ![p] = [own |-> round.own, asked |-> round.asked,
                                      length |-> lens, done |-> a.done + 1]]
        /\ array' = [q \in Peers |->
              IF q \in robbed
              THEN round.data[q] \o SubSeq(array[q], lens[q] + 1, Len(array[q]))
              ELSE array[q]]
        /\ Data' = [q \in DOMAIN Data \cup robbed |->
                       IF q \in robbed THEN lens[q] ELSE Data[q]]
        /\ UNCHANGED <<pc, before, peersVars, sockVars, withdrawn, errors, overlapped>>

\* The own entry is stored, with the paths that do not conflict.
StoreOwn(p) ==
    LET paths == ConflictFree(add[p].own)
    IN  /\ pc[p] = "try" /\ add[p].done = Len(Available[p])
        /\ array' = [array EXCEPT ![p] = paths]
        /\ Data' = [q \in DOMAIN Data \cup {p} |-> IF q = p THEN Len(paths) ELSE Data[q]]
        /\ add' = [add EXCEPT ![p] = NoAdd]
        /\ before' = <<>>
        /\ Goto(p, "get")
        /\ UNCHANGED <<peersVars, sockVars, withdrawn, errors, overlapped>>

\* Get: the empty entry when there is none.
Get(p) == [of |-> p, len |-> IF p \in DOMAIN Data THEN Data[p] ELSE 0]

\* The own selection is set, and the loop over extPeers starts.
GetOwn(p) ==
    /\ pc[p] = "get"
    /\ selection' = [selection EXCEPT ![p] = Get(p)]
    /\ later' = [later EXCEPT ![p] = extPeers]
    /\ Goto(p, "refresh")
    /\ UNCHANGED <<storeVars, extPeers, read, active, ended, withdrawn, errors, overlapped>>

\* Fault: the loop uses the entry of the new leecher for all.
Refresh_Own(p) ==
    LET q == Head(later[p])
    IN  /\ pc[p] = "refresh" /\ later[p] # <<>>
        /\ selection' = [selection EXCEPT ![q] = Get(p)]
        /\ IF pc[q] = "up" THEN CustomPathSelectAlg(q, Slice(p, Get(p).len))
                           ELSE UNCHANGED <<active, ended>>
        /\ later' = [later EXCEPT ![p] = Tail(@)]
        /\ UNCHANGED <<pc, storeVars, extPeers, read, withdrawn, errors, overlapped>>

\* Fault: ForcePathSelection is not called.
Refresh_Unforced(p) ==
    /\ pc[p] = "refresh" /\ later[p] # <<>>
    /\ selection' = [selection EXCEPT ![Head(later[p])] = Get(Head(later[p]))]
    /\ later' = [later EXCEPT ![p] = Tail(@)]
    /\ UNCHANGED <<pc, storeVars, extPeers, read, active, ended, withdrawn, errors, overlapped>>

\* Another leecher gets its selection from the store, and ForcePathSelection
\* puts it into effect if its socket is connected.
Refresh(p) ==
    LET q == Head(later[p])
    IN  /\ pc[p] = "refresh" /\ later[p] # <<>>
        /\ selection' = [selection EXCEPT ![q] = Get(q)]
        /\ IF pc[q] = "up" THEN CustomPathSelectAlg(q, Slice(q, Get(q).len))
                           ELSE UNCHANGED <<active, ended>>
        /\ later' = [later EXCEPT ![p] = Tail(@)]
        /\ UNCHANGED <<pc, storeVars, extPeers, read, withdrawn, errors, overlapped>>

\* append(s.extPeers, p) reads the slice ...
ReadPeers(p) ==
    /\ pc[p] = "refresh" /\ later[p] = <<>>
    /\ read' = [read EXCEPT ![p] = Append(extPeers, p)]
    /\ Goto(p, "append")
    /\ UNCHANGED <<storeVars, extPeers, later, sockVars, withdrawn, errors, overlapped>>

\* ... and it is assigned.
AppendPeer(p) ==
    /\ pc[p] = "append"
    /\ extPeers' = read[p]
    /\ read' = [read EXCEPT ![p] = <<>>]
    /\ Goto(p, "connect")
    /\ UNCHANGED <<storeVars, later, sockVars, withdrawn, errors, overlapped>>

-----------------------------------------------------------------------------
(* The rest of the session                                                 *)

Connect(p) ==
    /\ pc[p] = "connect"
    /\ CustomPathSelectAlg(p, Selected(p))
    /\ Goto(p, "up")
    /\ UNCHANGED <<storeVars, peersVars, selection, withdrawn, errors, overlapped>>

\* The goroutine returns; the leecher stays in pathStore and extPeers.
ConnectFails(p) ==
    /\ pc[p] = "connect" /\ errors < MaxErrors
    /\ errors' = errors + 1
    /\ Goto(p, "failed")
    /\ UNCHANGED <<storeVars, peersVars, sockVars, withdrawn, overlapped>>

\* The handlers of all connections have returned: Disconnect.
Disconnect(p) ==
    /\ pc[p] = "up"
    /\ active' = [active EXCEPT ![p] = <<>>]
    /\ Goto(p, "lock")
    /\ UNCHANGED <<storeVars, peersVars, selection, ended, withdrawn, errors, overlapped>>

\* Fault: the paths are taken from the entry, but it is not deleted.
Delete_Emptied(p) ==
    /\ pc[p] = "lock" /\ \A q \in Peers : pc[q] \notin {"filter", "assign"}
    /\ Data' = [q \in DOMAIN Data |-> IF q = p THEN 0 ELSE Data[q]]
    /\ Enter
    /\ Goto(p, "filter")
    /\ UNCHANGED <<add, array, before, peersVars, sockVars, withdrawn, errors>>

\* Lock, and delete(s.pathStore.Data, remote).
Delete(p) ==
    /\ pc[p] = "lock" /\ \A q \in Peers : pc[q] \notin {"filter", "assign"}
    /\ Data' = [q \in DOMAIN Data \ {p} |-> Data[q]]
    /\ Enter
    /\ Goto(p, "filter")
    /\ UNCHANGED <<add, array, before, peersVars, sockVars, withdrawn, errors>>

\* Fault: the peers are filtered by the wrong comparison.
FilterPeers_Kept(p) ==
    /\ pc[p] = "filter"
    /\ read' = [read EXCEPT ![p] = extPeers]
    /\ Goto(p, "assign")
    /\ UNCHANGED <<storeVars, extPeers, later, sockVars, withdrawn, errors, overlapped>>

FilterPeers(p) ==
    /\ pc[p] = "filter"
    /\ read' = [read EXCEPT ![p] = Filter(extPeers, Peers \ {p})]
    /\ Goto(p, "assign")
    /\ UNCHANGED <<storeVars, extPeers, later, sockVars, withdrawn, errors, overlapped>>

\* s.extPeers = newPeers, and Unlock.
AssignPeers(p) ==
    /\ pc[p] = "assign"
    /\ extPeers' = read[p]
    /\ read' = [read EXCEPT ![p] = <<>>]
    /\ Goto(p, "gone")
    /\ UNCHANGED <<storeVars, later, sockVars, withdrawn, errors, overlapped>>

\* The runtime may notice that one goroutine writes a map while another one
\* uses it, and ends the program.
MapFault ==
    /\ \E p \in Peers : /\ pc[p] \in {"try", "lock"}
                        /\ \E q \in Peers \ {p} : pc[q] \in {"try", "get", "refresh", "lock"}
    /\ ended' = "fatal"
    /\ UNCHANGED <<pc, storeVars, peersVars, selection, active, withdrawn, errors, overlapped>>

-----------------------------------------------------------------------------
Update(p) ==
    \/ CopyEntries(p) \/ NextPath(p) \/ StoreOwn(p) \/ GetOwn(p) \/ Refresh(p)
    \/ ReadPeers(p) \/ AppendPeer(p)

Next ==
    /\ ended = "no"
    /\ \/ \E p \in Peers : Update(p) \/ Connect(p) \/ ConnectFails(p) \/ Disconnect(p)
       \/ \E p \in Peers : Delete(p) \/ FilterPeers(p) \/ AssignPeers(p)
       \/ \E p \in Peers : Reselect(p) \/ \E path \in Range(Available[p]) : Withdraw(p, path)
       \/ MapFault

Spec == Init /\ [][Next]_vars

-----------------------------------------------------------------------------
(* Properties                                                              *)

\* While the entry of p is being added, the others see a store in between.
StoreView == IF \E p \in Peers : pc[p] = "try" THEN before ELSE Stored

\* The store whose entries are added and deleted in one step.
Atomic == INSTANCE PathStore WITH used <- StoreView

\* The types of the variables.  An array never holds a path of another leecher,
\* and every header is within it, whatever updates overlap; the elements that
\* move up leave the paths of an entry in their order, and none twice.
TypeOK ==
    /\ pc \in [Peers -> {"off", "try", "get", "refresh", "append", "connect", "up", "lock",
                         "filter", "assign", "gone", "failed"}]
    /\ \A p \in Peers : Range(array[p]) \subseteq Range(Available[p])
    /\ DOMAIN Data \subseteq Peers /\ \A p \in DOMAIN Data : Data[p] \in 0 .. Len(array[p])
    /\ \A p \in Peers : selection[p].len \in 0 .. Len(array[selection[p].of])
    /\ Range(extPeers) \subseteq Peers
    /\ \A p \in Peers : Range(later[p]) \cup Range(read[p]) \subseteq Peers
    /\ \A p \in Peers : active[p] \in Seq(Range(Available[p]))
    /\ ~overlapped => Atomic!TypeOK
    /\ ended \in {"no", "panic", "fatal"} /\ errors \in 0 .. MaxErrors

\* A path that a newcomer takes is no longer used by the leecher that had it:
\* when no update is under way, each connected socket uses the paths that the
\* store has for its leecher, neither more nor fewer and none twice.
StoreEnforced ==
    ended = "no" /\ ~overlapped /\ Updating = {} =>
        \A p \in Peers : pc[p] = "up" => /\ active[p] = Stored[p]
                                         /\ Selected(p) = Stored[p]

\* The selection of a session has only paths that its own socket knows, however
\* the updates interleave: only a path that is no longer offered makes the
\* index of CustomPathSelectAlg -1.
PanicOnlyIfWithdrawn == ended = "panic" => withdrawn # {}

\* A leecher is in the store as long as its session is connected, and, unless
\* updates overlapped or a Connect failed, nobody else is, in extPeers neither:
\* no paths are left to a leecher that has gone.
StoreIsLive ==
    LET members == {p \in Peers : pc[p] \in {"connect", "up", "lock"}}
    IN  /\ members \subseteq DOMAIN Data
        /\ ~overlapped /\ errors = 0 /\ Updating = {} =>
              DOMAIN Data = members /\ Range(extPeers) = members

\* As long as updates do not overlap, the steps of a session are the steps of
\* the atomic store: adding or deleting one entry.
RefinesStore == [][overlapped' \/ Atomic!Next]_StoreView

\* As long as updates do not overlap, two paths of a leecher share no interface
\* but the first of both or the last of both.
OwnDisjoint == ~overlapped => Atomic!OwnDisjoint

\* As long as updates do not overlap, a newcomer leaves every other leecher
\* half of its paths rounded down: of three one, of two one, and of one none.
HalfKept ==
    [][~overlapped' => \A p \in DOMAIN StoreView \cap DOMAIN StoreView' :
                          Len(StoreView'[p]) >= Len(StoreView[p]) \div 2]_StoreView
=============================================================================
