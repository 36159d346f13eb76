----------------------------- MODULE PathRules -----------------------------
(***************************************************************************)
(* When two paths conflict, and what a leecher that connects takes from    *)
(* the others (pathselection/pathselectionstore.go).                       *)
(***************************************************************************)
EXTENDS Integers, Sequences, FiniteSets, SequencesExt

CONSTANTS
    Peers,      \* the leechers, by PeerAddrStr
    Available   \* AvailablePaths of each: a sequence of paths

ASSUME PathRulesAssumption ==
    /\ IsFiniteSet(Peers)
    /\ \A p \in Peers : /\ Available[p] \in Seq(Range(Available[p]))
                        /\ \A i, j \in DOMAIN Available[p] :
                              Available[p][i] = Available[p][j] => i = j

\* The elements of seq that are in set, in their order.
Filter(seq, set) ==
    FoldLeft(LAMBDA kept, x : IF x \in set THEN Append(kept, x) ELSE kept, <<>>, seq)

-----------------------------------------------------------------------------
(* Conflicts.  A path is the sequence of its interfaces.                   *)

\* Two paths conflict when they share an interface, unless it is the first of
\* both or the last of both.  (TestConflictingPeer, pathselectionstore_test.go:122,
\* takes two paths with the same first interface to be in conflict.)
PathsConflict(path1, path2) ==
    \E i \in DOMAIN path1, j \in DOMAIN path2 :
        /\ path1[i] = path2[j]
        /\ ~(i = 1 /\ j = 1)
        /\ ~(i = Len(path1) /\ j = Len(path2))

\* getPeerConflictPaths, with 0 for none.
FirstConflict(path, paths) == SelectInSeq(paths, LAMBDA q : PathsConflict(path, q))

\* Fault: conflicting paths of one leecher are all kept.
ConflictFree_Unfiltered(paths) == paths

\* getConflictFreePaths: each path that fits to those kept before it.
ConflictFree(paths) ==
    FoldLeft(LAMBDA kept, path :
                IF FirstConflict(path, kept) = 0 THEN Append(kept, path) ELSE kept,
             <<>>, paths)

-----------------------------------------------------------------------------
(* The loop of AddPeerEntry                                                *)

\* Fault: the elements move up but the slice keeps its length.
RemovePath_Aliased(paths, i) ==
    [k \in DOMAIN paths |-> IF k < i \/ k = Len(paths) THEN paths[k] ELSE paths[k + 1]]

\* removePathFromEntry
RemovePath(paths, i) == RemoveAt(paths, i)

\* Fault: a leecher with as many paths as the new one is robbed too.
CanSpare_Equal(theirs, own) == Len(theirs) >= Len(own)

CanSpare(theirs, own) == Len(theirs) > Len(own)

\* The candidates in the order they are asked: fewest used paths first, those
\* with the same number in any order (they come from a map).  The empty entries
\* make() puts before them never conflict and are left out.
OrdersOf(lengths) ==
    {o \in SetToSeqs(DOMAIN lengths) :
        \A i, j \in DOMAIN o : i < j => lengths[o[i]] <= lengths[o[j]]}

\* One round of the loop over AvailablePaths: own are the paths taken so far,
\* data the store, asked the candidates that are left.
TryPath(round, path) ==
    LET i      == SelectInSeq(round.asked, LAMBDA q : FirstConflict(path, round.data[q]) # 0)
        q      == round.asked[i]
        theirs == round.data[q]
        own    == Append(round.own, path)
        data   == [round.data EXCEPT ![q] = RemovePath(theirs, FirstConflict(path, theirs))]
    IN  CASE i = 0                        -> [round EXCEPT !.own = own]
          [] i # 0 /\ ~CanSpare(theirs, round.own) -> round
          [] i # 0 /\ CanSpare(theirs, round.own)  ->
               [own |-> own, data |-> data,
                asked |-> Filter(round.asked, {r \in DOMAIN data : Len(data[r]) >= Len(own)})]
=============================================================================
