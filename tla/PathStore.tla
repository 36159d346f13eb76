----------------------------- MODULE PathStore -----------------------------
(***************************************************************************)
(* Which paths the seeder uses to which leecher                            *)
(* (pathselection/pathselectionstore.go): a leecher that connects takes    *)
(* its available paths, and when one of them conflicts with a path of      *)
(* another leecher it takes that path away, unless the other has no more   *)
(* paths than itself.  Entries are added and deleted in one step   *)
(* here; PathSessions takes these apart.                                   *)
(***************************************************************************)
EXTENDS PathRules

VARIABLE used   \* Data: UsedPaths of the leechers in the store

Init == used = [p \in {} |-> <<>>]

AddPeerEntry(p) ==
    /\ p \notin DOMAIN used
    /\ \E order \in OrdersOf([q \in DOMAIN used |-> Len(used[q])]) :
          LET last == FoldLeft(TryPath, [own |-> <<>>, data |-> used, asked |-> order],
                               Available[p])
          IN  used' = [q \in DOMAIN used \cup {p} |->
                          IF q = p THEN ConflictFree(last.own) ELSE last.data[q]]

\* delete(s.pathStore.Data, remote) when the leecher has disconnected; nobody
\* gets the paths it leaves.
DeletePeer(p) ==
    /\ p \in DOMAIN used
    /\ used' = [q \in DOMAIN used \ {p} |-> used[q]]

Next == \E p \in Peers : AddPeerEntry(p) \/ DeletePeer(p)

Spec == Init /\ [][Next]_used

-----------------------------------------------------------------------------
(* Properties                                                              *)

\* Every leecher uses some of its available paths, in their order, none twice:
\* removing from a slice in place does not disturb what is left of it.
TypeOK ==
    /\ DOMAIN used \subseteq Peers
    /\ \A p \in DOMAIN used : \E keep \in SUBSET Range(Available[p]) :
          used[p] = Filter(Available[p], keep)

\* Two paths of one leecher have an interface in common only where they cannot
\* but have one, at the seeder or at the leecher: the first of both, or the last
\* of both.  Inside the network its connections share nothing.
OwnDisjoint ==
    \A p \in DOMAIN used : \A i, j \in DOMAIN used[p] : i # j =>
        \A k \in DOMAIN used[p][i], l \in DOMAIN used[p][j] :
            used[p][i][k] = used[p][j][l] =>
                \/ k = 1 /\ l = 1
                \/ k = Len(used[p][i]) /\ l = Len(used[p][j])

\* The candidates are asked by descending number of paths used: a newcomer with
\* one path takes it from a leecher that has the most of those it conflicts with.
RichestRobbed ==
    [][\A p \in DOMAIN used' \ DOMAIN used : Len(Available[p]) = 1 =>
          \A q, r \in DOMAIN used :
              Len(used'[q]) < Len(used[q]) /\ FirstConflict(Available[p][1], used[r]) # 0
                  => Len(used[r]) <= Len(used[q])]_used
=============================================================================
