----------------------------- MODULE PathProofs -----------------------------
(***************************************************************************)
(* Theorems about PathSessions, for any leechers and available paths: the  *)
(* store is right about who is there, sockets use what it says, the paths  *)
(* of a leecher do not conflict, and as long as updates do not overlap the *)
(* sessions implement PathStore.                                           *)
(***************************************************************************)
EXTENDS PathSessions, PathRulesProofs

USE PathRulesAssumption, PathSessionsAssumption DEF PathSessionsAssumption

-----------------------------------------------------------------------------
(* Types                                                                   *)

Of(p)    == Range(Available[p])
AllPaths == UNION {Of(p) : p \in Peers}

PCs == {"off", "try", "get", "refresh", "append", "connect", "up", "lock",
        "filter", "assign", "gone", "failed"}

\* L holds lengths of slices, of leechers that have been stored.
Fits(L, arrays, at) ==
    /\ DOMAIN L \subseteq Peers /\ L \in [DOMAIN L -> Nat]
    /\ \A q \in DOMAIN L : L[q] <= Len(arrays[q]) /\ at[q] \notin {"off", "try"}

Lengths(L) == Fits(L, array, pc)

ArraysTyped ==
    /\ array \in [Peers -> Seq(AllPaths)]
    /\ \A p \in Peers : array[p] \in Seq(Of(p))

AddTyped ==
    /\ DOMAIN add = Peers
    /\ \A p \in Peers : /\ add[p].own \in Seq(Of(p)) /\ Lengths(add[p].length)
                        /\ add[p].asked \in Seq(DOMAIN add[p].length)
                        /\ add[p].done \in 0 .. Len(Available[p])

\* The selection of a leecher that has not been stored is still empty.
SelectionTyped ==
    /\ DOMAIN selection = Peers
    /\ \A p \in Peers : /\ selection[p].of = p /\ selection[p].len \in 0 .. Len(array[p])
                        /\ pc[p] \in {"off", "try"} => selection[p].len = 0

PeersTyped ==
    extPeers \in Seq(Peers) /\ later \in [Peers -> Seq(Peers)] /\ read \in [Peers -> Seq(Peers)]

SocketsTyped ==
    /\ DOMAIN active = Peers
    /\ \A p \in Peers : active[p] \in Seq(Of(p))

TypeInv ==
    /\ pc \in [Peers -> PCs] /\ ArraysTyped /\ Lengths(Data) /\ AddTyped /\ SelectionTyped
    /\ PeersTyped /\ SocketsTyped
    /\ ended \in {"no", "panic", "fatal"} /\ errors \in 0 .. MaxErrors /\ overlapped \in BOOLEAN
    /\ PanicOnlyIfWithdrawn

\* Available is made of sequences without repetitions.
LEMMA AvailableFacts ==
  \A p \in Peers : /\ Available[p] \in Seq(Of(p)) /\ Of(p) \subseteq AllPaths
                   /\ Len(Available[p]) \in Nat
                   /\ \A i \in 1 .. Len(Available[p]) : Available[p][i] \in Of(p)
<1> SUFFICES ASSUME NEW p \in Peers
             PROVE  /\ Available[p] \in Seq(Of(p)) /\ Of(p) \subseteq AllPaths
                    /\ Len(Available[p]) \in Nat
                    /\ \A i \in 1 .. Len(Available[p]) : Available[p][i] \in Of(p)
  OBVIOUS
<1>1. Available[p] \in Seq(Of(p))
  BY DEF PathRulesAssumption, Of
<1>2. Of(p) \subseteq AllPaths
  BY DEF AllPaths
<1> QED BY <1>1, <1>2

\* A sequence of paths of a leecher is one of paths.
LEMMA Paths ==
  ASSUME NEW p \in Peers, NEW s \in Seq(Of(p))
  PROVE  s \in Seq(AllPaths)
BY AvailableFacts, SeqMonotonic

\* The first elements of an array.
LEMMA SliceFacts ==
  ASSUME ArraysTyped, NEW p \in Peers, NEW n \in 0 .. Len(array[p])
  PROVE  /\ Slice(p, n) \in Seq(Of(p)) /\ Len(Slice(p, n)) = n
         /\ \A i \in 1 .. n : Slice(p, n)[i] = array[p][i]
BY DEF ArraysTyped, Slice

\* Orders of the candidates.
LEMMA OrdersFacts ==
  ASSUME NEW L, DOMAIN L \subseteq Peers
  PROVE  OrdersOf(L) \subseteq Seq(DOMAIN L)
<1>1. IsFiniteSet(DOMAIN L)
  BY FS_Subset DEF PathRulesAssumption
<1>2. Cardinality(DOMAIN L) \in Nat
  BY <1>1, FS_CardinalityType
<1>3. SetToSeqs(DOMAIN L) \subseteq [1 .. Cardinality(DOMAIN L) -> DOMAIN L]
  BY DEF SetToSeqs
<1>4. [1 .. Cardinality(DOMAIN L) -> DOMAIN L] \subseteq Seq(DOMAIN L)
  BY <1>2
<1> QED BY <1>3, <1>4 DEF OrdersOf

-----------------------------------------------------------------------------
(* One round of AddPeerEntry                                               *)

\* What the loop of p works on.
Round(p) ==
    [own |-> add[p].own, asked |-> add[p].asked,
     data |-> [q \in DOMAIN add[p].length |-> Slice(q, add[p].length[q])]]

\* The array of q when element i of its first n is removed.
Moved(q, n, i) == RemovePath(Slice(q, n), i) \o SubSeq(array[q], n, Len(array[q]))

\* Nobody loses a path.
Spares(p) ==
    /\ array' = array /\ Data' = Data /\ add'[p].length = add[p].length

\* q loses one, having more than p has taken.
Loses(p, q) ==
    LET n == add[p].length[q]
    IN  /\ n > Len(add[p].own)
        /\ add'[p].own = Append(add[p].own, Available[p][add[p].done + 1])
        /\ add'[p].length = [add[p].length EXCEPT ![q] = n - 1]
        /\ \E i \in 1 .. n : array' = [array EXCEPT ![q] = Moved(q, n, i)]
        /\ Data' = [r \in DOMAIN Data \cup {q} |-> IF r = q THEN n - 1 ELSE Data[r]]

\* p has gone on to the next path.
Goes(p) ==
    /\ pc[p] = "try" /\ add[p].done < Len(Available[p])
    /\ DOMAIN add' = Peers /\ \A q \in Peers : q # p => add'[q] = add[q]
    /\ add'[p].own \in {add[p].own, Append(add[p].own, Available[p][add[p].done + 1])}
    /\ add'[p].asked \in Seq(DOMAIN add[p].length)
    /\ add'[p].done = add[p].done + 1
    /\ Spares(p) \/ \E q \in DOMAIN add[p].length : Loses(p, q)

\* The beginning of a sequence.
LEMMA BeginningOf ==
  ASSUME NEW P, NEW s \in Seq(P), NEW t \in Seq(P)
  PROVE  s \o t \in Seq(P) /\ Len(s \o t) = Len(s) + Len(t) /\ SubSeq(s \o t, 1, Len(s)) = s
<1> DEFINE u == s \o t
<1>1. u \in Seq(P) /\ Len(u) = Len(s) + Len(t) /\ \A k \in 1 .. Len(s) : u[k] = s[k]
  OBVIOUS
<1> HIDE DEF u
<1>2. /\ SubSeq(u, 1, Len(s)) \in Seq(P) /\ Len(SubSeq(u, 1, Len(s))) = Len(s)
      /\ \A k \in 1 .. Len(s) : SubSeq(u, 1, Len(s))[k] = u[k]
  BY <1>1
<1>3. SubSeq(u, 1, Len(s)) = s
  BY <1>1, <1>2, SeqEqual
<1> QED BY <1>1, <1>3 DEF u

\* What is left of the slice of q, and that the array keeps its length.
LEMMA MovedFacts ==
  ASSUME ArraysTyped, NEW q \in Peers, NEW n \in 1 .. Len(array[q]), NEW i \in 1 .. n
  PROVE  /\ Moved(q, n, i) \in Seq(Of(q)) /\ Len(Moved(q, n, i)) = Len(array[q])
         /\ SubSeq(Moved(q, n, i), 1, n - 1) = RemovePath(Slice(q, n), i)
<1> DEFINE s == RemovePath(Slice(q, n), i)
           t == SubSeq(array[q], n, Len(array[q]))
<1>1. array[q] \in Seq(Of(q))
  BY DEF ArraysTyped
<1>2. Slice(q, n) \in Seq(Of(q)) /\ Len(Slice(q, n)) = n
  BY SliceFacts
<1>3. s \in Seq(Of(q)) /\ Len(s) = n - 1
  BY <1>2, RemoveFacts
<1>4. t \in Seq(Of(q)) /\ Len(t) = Len(array[q]) - n + 1
  BY <1>1
<1> HIDE DEF s, t
<1>5. /\ s \o t \in Seq(Of(q)) /\ Len(s \o t) = Len(s) + Len(t)
      /\ SubSeq(s \o t, 1, Len(s)) = s
  BY <1>3, <1>4, BeginningOf
<1>6. Len(s) + Len(t) = Len(array[q])
  BY <1>1, <1>3, <1>4
<1>7. Moved(q, n, i) = s \o t
  BY DEF Moved, s, t
<1> QED BY <1>3, <1>5, <1>6, <1>7 DEF s

LEMMA RoundTyped ==
  ASSUME TypeInv, NEW p \in Peers
  PROVE  /\ add[p].own \in Seq(AllPaths)
         /\ Round(p).data \in [DOMAIN add[p].length -> Seq(AllPaths)]
         /\ \A q \in DOMAIN add[p].length :
               q \in Peers /\ add[p].length[q] \in 0 .. Len(array[q])
<1>1. add[p].own \in Seq(Of(p)) /\ Lengths(add[p].length)
  BY DEF TypeInv, AddTyped
<1>2. \A q \in DOMAIN add[p].length : q \in Peers /\ add[p].length[q] \in 0 .. Len(array[q])
  <2> SUFFICES ASSUME NEW q \in DOMAIN add[p].length
               PROVE  q \in Peers /\ add[p].length[q] \in 0 .. Len(array[q])
    OBVIOUS
  <2>1. q \in Peers /\ add[p].length[q] \in Nat /\ add[p].length[q] <= Len(array[q])
    BY <1>1 DEF Lengths, Fits
  <2>2. Len(array[q]) \in Nat
    BY <2>1 DEF TypeInv, ArraysTyped
  <2> QED BY <2>1, <2>2
<1>3. \A q \in DOMAIN add[p].length : Slice(q, add[p].length[q]) \in Seq(AllPaths)
  <2> SUFFICES ASSUME NEW q \in DOMAIN add[p].length
               PROVE  Slice(q, add[p].length[q]) \in Seq(AllPaths)
    OBVIOUS
  <2>1. q \in Peers /\ add[p].length[q] \in 0 .. Len(array[q]) /\ ArraysTyped
    BY <1>2 DEF TypeInv
  <2>2. Slice(q, add[p].length[q]) \in Seq(Of(q))
    BY <2>1, SliceFacts
  <2> QED BY <2>1, <2>2, Paths
<1> QED BY <1>1, <1>2, <1>3, Paths DEF Round

\* Each round is one of TryPath, and does to the store what that does.
LEMMA NextPathFacts ==
  ASSUME TypeInv, NEW p \in Peers, NextPath(p)
  PROVE  Goes(p) /\ Round(p)' = TryPath(Round(p), Available[p][add[p].done + 1])
<1> DEFINE a == add[p]
           D == DOMAIN a.length
           data == [q \in D |-> Slice(q, a.length[q])]
           round == [own |-> a.own, data |-> data, asked |-> a.asked]
           path == Available[p][a.done + 1]
           r == TryPath(round, path)
           robbed == {q \in D : r.data[q] # data[q]}
           lens == [q \in D |-> Len(r.data[q])]
           own == Append(a.own, path)
<1>1. /\ pc[p] = "try" /\ a.done < Len(Available[p])
      /\ add' = [add EXCEPT ![p] = [own |-> r.own, asked |-> r.asked, length |-> lens,
                                    done |-> a.done + 1]]
      /\ array' = [q \in Peers |-> IF q \in robbed
                     THEN r.data[q] \o SubSeq(array[q], lens[q] + 1, Len(array[q])) ELSE array[q]]
      /\ Data' = [q \in DOMAIN Data \cup robbed |-> IF q \in robbed THEN lens[q] ELSE Data[q]]
  BY DEF NextPath
<1>2. /\ a.own \in Seq(AllPaths) /\ data \in [D -> Seq(AllPaths)]
      /\ \A q \in D : q \in Peers /\ a.length[q] \in 0 .. Len(array[q])
  BY RoundTyped DEF Round
<1>3. a.asked \in Seq(D) /\ a.done \in Nat /\ DOMAIN add = Peers /\ DOMAIN array = Peers
  BY DEF TypeInv, AddTyped, ArraysTyped
<1>4. path \in AllPaths
  <2>1. a.done + 1 \in 1 .. Len(Available[p])
    <3>1. Len(Available[p]) \in Nat /\ a.done < Len(Available[p])
      BY <1>1, AvailableFacts
    <3> HIDE DEF a
    <3> QED BY <1>3, <3>1
  <2> QED BY <2>1, AvailableFacts
<1>5. round = Round(p)
  BY DEF Round
<1>6. \A q \in D : Len(data[q]) = a.length[q]
  BY <1>2, SliceFacts DEF TypeInv
<1> HIDE DEF data, path
<1>7. \/ Taken(round, path, r) \/ r = round
      \/ /\ \E q \in D : \E i \in 1 .. Len(data[q]) : Robbed(round, path, r, q, i)
         /\ r.asked \in Seq(D)
  <2> HIDE DEF D
  <2>1. round \in [own : Seq(AllPaths), data : [D -> Seq(AllPaths)], asked : Seq(D)]
    BY <1>2, <1>3
  <2>2. round.data = data
    OBVIOUS
  <2> HIDE DEF round
  <2> QED BY <1>4, <2>1, <2>2, TryPathCases
<1> HIDE DEF r
<1>8. /\ DOMAIN add' = Peers /\ \A q \in Peers : q # p => add'[q] = add[q]
      /\ add'[p] = [own |-> r.own, asked |-> r.asked, length |-> lens, done |-> a.done + 1]
  BY <1>1, <1>3
<1> HIDE DEF lens, robbed
<1>9. add'[p].own = r.own /\ add'[p].asked = r.asked /\ add'[p].done = a.done + 1 /\ add'[p].length = lens
  BY <1>8
<1>11. CASE r = round \/ Taken(round, path, r)
  <2>1. r.data = data /\ r.asked = a.asked /\ r.own \in {a.own, own}
    BY <1>11 DEF Taken
  <2>2. robbed = {}
    BY <2>1 DEF robbed
  <2>3. lens = a.length
    <3>1. a.length \in [D -> Nat]
      BY DEF TypeInv, AddTyped, Lengths, Fits
    <3> QED BY <1>6, <2>1, <3>1 DEF lens
  <2>4. array' = array /\ Data' = Data
    <3>1. Data \in [DOMAIN Data -> Nat]
      BY DEF TypeInv, Lengths, Fits
    <3>2. array' = [q \in Peers |-> array[q]] /\ Data' = [q \in DOMAIN Data |-> Data[q]]
      BY <1>1, <2>2
    <3>3. array \in [Peers -> Seq(AllPaths)]
      BY DEF TypeInv, ArraysTyped
    <3> QED BY <3>1, <3>2, <3>3
  <2>5. Goes(p)
    BY <1>1, <1>3, <1>8, <1>9, <2>1, <2>3, <2>4 DEF Goes, Spares, path
  <2>6. Round(p)' = [own |-> r.own, asked |-> r.asked, data |-> data]
    BY <1>9, <2>3, <2>4 DEF Round, Slice, data
  <2>7. r = [own |-> r.own, asked |-> r.asked, data |-> data]
    BY <1>11 DEF Taken
  <2>8. TryPath(Round(p), path) = r
    BY <1>5 DEF r
  <2> QED BY <2>5, <2>6, <2>7, <2>8 DEF path
<1>12. ASSUME NEW q \in D, NEW i \in 1 .. Len(data[q]), Robbed(round, path, r, q, i), r.asked \in Seq(D)
       PROVE  Goes(p) /\ Round(p)' = r
  <2> DEFINE n == a.length[q]
  <2>1. q \in Peers /\ n \in 1 .. Len(array[q]) /\ i \in 1 .. n /\ n > Len(a.own) /\ data[q] = Slice(q, n)
    <3>1. Len(data[q]) > Len(a.own)
      <4> HIDE DEF a
      <4> QED BY <1>12 DEF Robbed
    <3>2. Len(data[q]) = n /\ n \in 0 .. Len(array[q]) /\ q \in Peers /\ data[q] = Slice(q, n)
      BY <1>2, <1>6 DEF data
    <3>3. Len(a.own) \in Nat /\ Len(array[q]) \in Nat
      BY <1>2, <3>2 DEF TypeInv, ArraysTyped
    <3> HIDE DEF n, a
    <3> QED BY <3>1, <3>2, <3>3
  <2>2. /\ r = [own |-> own, data |-> [data EXCEPT ![q] = RemovePath(data[q], i)], asked |-> r.asked]
        /\ r.own = own /\ r.data = [data EXCEPT ![q] = RemovePath(data[q], i)]
    BY <1>12 DEF Robbed
  <2>3. Len(RemovePath(data[q], i)) = n - 1
    <3>1. data[q] \in Seq(AllPaths) /\ Len(data[q]) = n
      BY <1>2, <1>6
    <3> HIDE DEF n
    <3> QED BY <3>1, RemoveFacts
  <2>4. /\ r.data[q] = RemovePath(data[q], i) /\ DOMAIN r.data = D
        /\ \A s \in D : s # q => r.data[s] = data[s]
    BY <1>2, <2>2
  <2> HIDE DEF n
  <2>5. robbed = {q}
    <3>1. r.data[q] # data[q]
      BY <1>6, <2>1, <2>3, <2>4 DEF n
    <3> QED BY <2>4, <3>1 DEF robbed
  <2>6. lens = [a.length EXCEPT ![q] = n - 1] /\ lens[q] = n - 1
    <3>1. a.length \in [D -> Nat]
      BY DEF TypeInv, AddTyped, Lengths, Fits
    <3>2. \A s \in D : lens[s] = IF s = q THEN n - 1 ELSE a.length[s]
      BY <1>6, <2>3, <2>4 DEF lens
    <3> QED BY <3>1, <3>2 DEF lens
  <2>7. array' = [array EXCEPT ![q] = Moved(q, n, i)]
    <3>1. (n - 1) + 1 = n
      BY <2>1
    <3>2. array' = [s \in Peers |-> IF s = q THEN Moved(q, n, i) ELSE array[s]]
      BY <1>1, <2>1, <2>4, <2>5, <2>6, <3>1 DEF Moved
    <3> QED BY <1>3, <3>2
  <2>8. Data' = [s \in DOMAIN Data \cup {q} |-> IF s = q THEN n - 1 ELSE Data[s]]
    BY <1>1, <2>5, <2>6
  <2>9. Loses(p, q)
    BY <1>9, <2>1, <2>2, <2>6, <2>7, <2>8 DEF Loses, n, path
  <2>10. Goes(p)
    BY <1>1, <1>8, <1>9, <1>12, <2>2, <2>9 DEF Goes, path
  <2>11. ASSUME NEW s \in D PROVE SubSeq(array'[s], 1, lens[s]) = r.data[s]
    <3>1. CASE s = q
      <4>1. array'[q] = Moved(q, n, i)
        BY <1>3, <2>1, <2>7
      <4> QED BY <2>1, <2>4, <2>6, <3>1, <4>1, MovedFacts DEF TypeInv
    <3>2. CASE s # q
      <4>1. array'[s] = array[s] /\ lens[s] = a.length[s]
        BY <1>2, <1>3, <2>6, <2>7, <3>2 DEF TypeInv, AddTyped, Lengths, Fits
      <4> QED BY <2>4, <3>2, <4>1 DEF data, Slice
    <3> QED BY <3>1, <3>2
  <2>12. DOMAIN lens = D
    BY DEF lens
  <2>13. Round(p)' = [own |-> r.own, asked |-> r.asked, data |-> [s \in D |-> SubSeq(array'[s], 1, lens[s])]]
    BY <1>9, <2>12 DEF Round, Slice
  <2>14. [s \in D |-> SubSeq(array'[s], 1, lens[s])] = r.data
    <3>1. r.data = [s \in D |-> r.data[s]]
      BY <1>2, <2>2, <2>4
    <3> QED BY <2>11, <3>1
  <2>15. r = [own |-> r.own, asked |-> r.asked, data |-> r.data]
    BY <2>2
  <2> QED BY <2>10, <2>13, <2>14, <2>15
<1>13. TryPath(Round(p), path) = r
  BY <1>5 DEF r
<1> QED BY <1>7, <1>11, <1>12, <1>13 DEF path

-----------------------------------------------------------------------------
(* The types stay                                                          *)

\* The array of a leecher that has been stored keeps its length.
Steady ==
    \A q \in Peers : pc[q] \notin {"off", "try"} =>
        pc'[q] \notin {"off", "try"} /\ Len(array'[q]) = Len(array[q])

LEMMA FitsStay ==
  ASSUME Steady, NEW L, Lengths(L)
  PROVE  Fits(L, array', pc')
BY DEF Steady, Lengths, Fits

LEMMA StoreStays ==
  ASSUME TypeInv, Steady, UNCHANGED <<array, Data, add>>
  PROVE  ArraysTyped' /\ Lengths(Data)' /\ AddTyped'
<1>1. ArraysTyped'
  BY DEF TypeInv, ArraysTyped
<1>2. Lengths(Data)'
  BY FitsStay DEF TypeInv, Lengths
<1>3. AddTyped'
  <2>1. \A p \in Peers : Fits(add[p].length, array', pc')
    BY FitsStay DEF TypeInv, AddTyped
  <2> QED BY <2>1 DEF TypeInv, AddTyped, Lengths
<1> QED BY <1>1, <1>2, <1>3

LEMMA SelectionStays ==
  ASSUME TypeInv, Steady, ArraysTyped', UNCHANGED selection,
         \A q \in Peers : pc'[q] \in {"off", "try"} => pc[q] \in {"off", "try"}
  PROVE  SelectionTyped'
<1> SUFFICES ASSUME NEW q \in Peers
             PROVE  /\ selection[q].of = q /\ selection[q].len \in 0 .. Len(array'[q])
                    /\ pc'[q] \in {"off", "try"} => selection[q].len = 0
  BY DEF SelectionTyped, TypeInv
<1>1. /\ selection[q].of = q /\ selection[q].len \in 0 .. Len(array[q])
      /\ pc[q] \in {"off", "try"} => selection[q].len = 0
  BY DEF TypeInv, SelectionTyped
<1>2. Len(array'[q]) \in Nat
  BY DEF ArraysTyped
<1>3. CASE pc[q] \in {"off", "try"}
  BY <1>1, <1>2, <1>3
<1>4. CASE pc[q] \notin {"off", "try"}
  BY <1>1, <1>4 DEF Steady
<1> QED BY <1>3, <1>4

\* A session goes from one of these places to another.
LEMMA GotoFacts ==
  ASSUME pc \in [Peers -> PCs], NEW p \in Peers, NEW w \in PCs, Goto(p, w)
  PROVE  pc' \in [Peers -> PCs] /\ pc'[p] = w /\ \A q \in Peers : q # p => pc'[q] = pc[q]
BY DEF Goto

\* The selection of a session has only paths that its socket knows.
LEMMA SelectedFacts ==
  ASSUME TypeInv, NEW p \in Peers
  PROVE  Selected(p) \in Seq(Of(p)) /\ Selected(p) = Slice(p, selection[p].len)
<1>1. selection[p].of = p /\ selection[p].len \in 0 .. Len(array[p])
  BY DEF TypeInv, SelectionTyped
<1> QED BY <1>1, SliceFacts DEF Selected, TypeInv

LEMMA GetFacts ==
  ASSUME TypeInv, NEW p \in Peers
  PROVE  /\ Get(p).of = p /\ Get(p).len \in 0 .. Len(array[p])
         /\ Slice(p, Get(p).len) \in Seq(Of(p))
<1>1. Get(p).of = p
  BY DEF Get
<1>2. Len(array[p]) \in Nat
  BY DEF TypeInv, ArraysTyped
<1>3. Get(p).len \in 0 .. Len(array[p])
  BY <1>2 DEF Get, TypeInv, Lengths, Fits
<1> QED BY <1>1, <1>3, SliceFacts DEF TypeInv

LEMMA SelectTyped ==
  ASSUME TypeInv, ended = "no", NEW p \in Peers, NEW paths \in Seq(Of(p)),
         CustomPathSelectAlg(p, paths), UNCHANGED withdrawn
  PROVE  SocketsTyped' /\ ended' \in {"no", "panic", "fatal"} /\ PanicOnlyIfWithdrawn'
<1>1. CASE Missing(p, paths)
  <2>1. ended' = "panic" /\ active' = active
    BY <1>1 DEF CustomPathSelectAlg
  <2>2. PICK path \in Range(paths) : path \notin Range(Available[p]) \/ <<p, path>> \in withdrawn
    BY <1>1 DEF Missing
  <2>3. path \in Range(Available[p])
    BY <2>2, SeqElements DEF Of
  <2>4. withdrawn # {}
    BY <2>2, <2>3
  <2> QED BY <2>1, <2>4 DEF SocketsTyped, TypeInv, PanicOnlyIfWithdrawn
<1>2. CASE ~Missing(p, paths)
  BY <1>2 DEF CustomPathSelectAlg, SocketsTyped, TypeInv, PanicOnlyIfWithdrawn
<1> QED BY <1>1, <1>2

\* The steps that leave the store alone.
LEMMA TypeSession ==
  ASSUME TypeInv, ended = "no", NEW p \in Peers,
         \/ Connect(p) \/ ConnectFails(p) \/ Disconnect(p) \/ Reselect(p)
         \/ \E path \in Of(p) : Withdraw(p, path)
  PROVE  TypeInv'
<1>1. /\ UNCHANGED <<array, Data, add, extPeers, later, read, selection, overlapped>>
      /\ pc' \in [Peers -> PCs] /\ \A q \in Peers : pc'[q] \in {"off", "try"} <=> pc[q] \in {"off", "try"}
  <2>1. UNCHANGED <<array, Data, add, extPeers, later, read, selection, overlapped>>
    BY DEF Connect, ConnectFails, Disconnect, Reselect, Withdraw, storeVars, peersVars, sockVars
  <2>2. UNCHANGED pc \/ (pc[p] \in {"connect", "up"} /\ \E w \in {"up", "failed", "lock"} : Goto(p, w))
    BY DEF Connect, ConnectFails, Disconnect, Reselect, Withdraw
  <2> QED BY <2>1, <2>2, GotoFacts DEF TypeInv, PCs
<1>2. Steady
  BY <1>1 DEF Steady
<1>3. ArraysTyped' /\ Lengths(Data)' /\ AddTyped'
  BY <1>1, <1>2, StoreStays
<1>4. SelectionTyped'
  BY <1>1, <1>2, <1>3, SelectionStays
<1>5. PeersTyped'
  BY <1>1 DEF TypeInv, PeersTyped
<1>6. SocketsTyped' /\ ended' \in {"no", "panic", "fatal"} /\ PanicOnlyIfWithdrawn'
  <2>1. CASE Connect(p) \/ Reselect(p)
    BY <2>1, SelectedFacts, SelectTyped DEF Connect, Reselect
  <2>2. CASE ConnectFails(p) \/ \E path \in Of(p) : Withdraw(p, path)
    BY <2>2 DEF ConnectFails, Withdraw, sockVars, TypeInv, SocketsTyped, PanicOnlyIfWithdrawn
  <2>3. CASE Disconnect(p)
    BY <2>3 DEF Disconnect, TypeInv, SocketsTyped, PanicOnlyIfWithdrawn
  <2> QED BY <2>1, <2>2, <2>3
<1>7. errors' \in 0 .. MaxErrors
  <2>1. errors' = errors \/ (errors < MaxErrors /\ errors' = errors + 1)
    BY DEF Connect, ConnectFails, Disconnect, Reselect, Withdraw
  <2> QED BY <2>1 DEF TypeInv
<1> QED BY <1>1, <1>3, <1>4, <1>5, <1>6, <1>7 DEF TypeInv

\* The steps on extPeers, and the fault of the runtime.
LEMMA TypePeers ==
  ASSUME TypeInv, ended = "no", NEW p \in Peers,
         ReadPeers(p) \/ AppendPeer(p) \/ FilterPeers(p) \/ AssignPeers(p) \/ MapFault
  PROVE  TypeInv'
<1>1. /\ UNCHANGED <<array, Data, add, selection, active, errors, withdrawn, overlapped>>
      /\ pc' \in [Peers -> PCs] /\ \A q \in Peers : pc'[q] \in {"off", "try"} <=> pc[q] \in {"off", "try"}
  <2>1. UNCHANGED <<array, Data, add, selection, active, errors, withdrawn, overlapped>>
    BY DEF ReadPeers, AppendPeer, FilterPeers, AssignPeers, MapFault, storeVars, sockVars
  <2>2. \/ UNCHANGED pc
        \/ /\ pc[p] \in {"refresh", "append", "filter", "assign"}
           /\ \E w \in {"append", "connect", "assign", "gone"} : Goto(p, w)
    BY DEF ReadPeers, AppendPeer, FilterPeers, AssignPeers, MapFault
  <2> QED BY <2>1, <2>2, GotoFacts DEF TypeInv, PCs
<1>2. Steady
  BY <1>1 DEF Steady
<1>3. ArraysTyped' /\ Lengths(Data)' /\ AddTyped'
  BY <1>1, <1>2, StoreStays
<1>4. SelectionTyped'
  BY <1>1, <1>2, <1>3, SelectionStays
<1>5. SocketsTyped' /\ ended' \in {"no", "panic", "fatal"} /\ PanicOnlyIfWithdrawn'
  BY <1>1 DEF ReadPeers, AppendPeer, FilterPeers, AssignPeers, MapFault, sockVars, TypeInv,
              SocketsTyped, PanicOnlyIfWithdrawn
<1>6. PeersTyped'
  <2>1. /\ extPeers \in Seq(Peers) /\ later \in [Peers -> Seq(Peers)] /\ read \in [Peers -> Seq(Peers)]
        /\ <<>> \in Seq(Peers)
    BY DEF TypeInv, PeersTyped
  <2>2. Append(extPeers, p) \in Seq(Peers) /\ Filter(extPeers, Peers \ {p}) \in Seq(Peers)
    BY <2>1, FilterFacts
  <2>3. later' = later /\ extPeers' \in {extPeers, read[p]}
    BY DEF ReadPeers, AppendPeer, FilterPeers, AssignPeers, MapFault, peersVars
  <2>4. \/ read' = read
        \/ \E s \in {<<>>, Append(extPeers, p), Filter(extPeers, Peers \ {p})} :
              read' = [read EXCEPT ![p] = s]
    BY DEF ReadPeers, AppendPeer, FilterPeers, AssignPeers, MapFault, peersVars
  <2>5. read' \in [Peers -> Seq(Peers)]
    <3>1. CASE read' = read
      BY <2>1, <3>1
    <3>2. ASSUME NEW s \in {<<>>, Append(extPeers, p), Filter(extPeers, Peers \ {p})},
                 read' = [read EXCEPT ![p] = s]
          PROVE  read' \in [Peers -> Seq(Peers)]
      <4>1. s \in Seq(Peers)
        BY <2>1, <2>2
      <4> QED BY <2>1, <3>2, <4>1
    <3> QED BY <2>4, <3>1, <3>2
  <2> QED BY <2>1, <2>3, <2>5 DEF PeersTyped
<1> QED BY <1>1, <1>3, <1>4, <1>5, <1>6 DEF TypeInv

\* The selections are refreshed.
LEMMA TypeRefresh ==
  ASSUME TypeInv, ended = "no", NEW p \in Peers, GetOwn(p) \/ Refresh(p)
  PROVE  TypeInv'
<1>1. /\ UNCHANGED <<array, Data, add, extPeers, read, errors, withdrawn, overlapped>>
      /\ pc' \in [Peers -> PCs] /\ \A q \in Peers : pc'[q] \in {"off", "try"} <=> pc[q] \in {"off", "try"}
  <2>1. UNCHANGED <<array, Data, add, extPeers, read, errors, withdrawn, overlapped>>
    BY DEF GetOwn, Refresh, storeVars
  <2>2. UNCHANGED pc \/ (pc[p] = "get" /\ Goto(p, "refresh"))
    BY DEF GetOwn, Refresh
  <2> QED BY <2>1, <2>2, GotoFacts DEF TypeInv, PCs
<1>2. Steady
  BY <1>1 DEF Steady
<1>3. ArraysTyped' /\ Lengths(Data)' /\ AddTyped'
  BY <1>1, <1>2, StoreStays
<1>4. /\ extPeers \in Seq(Peers) /\ later \in [Peers -> Seq(Peers)]
      /\ DOMAIN selection = Peers
  BY DEF TypeInv, PeersTyped, SelectionTyped
<1>5. PICK q \in Peers : selection' = [selection EXCEPT ![q] = Get(q)]
  BY <1>4 DEF GetOwn, Refresh
<1>6. SelectionTyped'
  <2> SUFFICES ASSUME NEW s \in Peers
               PROVE  /\ selection'[s].of = s /\ selection'[s].len \in 0 .. Len(array[s])
                      /\ pc[s] \in {"off", "try"} => selection'[s].len = 0
    BY <1>1, <1>4, <1>5 DEF SelectionTyped
  <2>1. CASE s # q
    BY <1>4, <1>5, <2>1 DEF TypeInv, SelectionTyped
  <2>2. CASE s = q
    <3>1. selection'[s] = Get(s)
      BY <1>4, <1>5, <2>2
    <3>2. pc[s] \in {"off", "try"} => Get(s).len = 0
      BY DEF Get, TypeInv, Lengths, Fits
    <3> QED BY <3>1, <3>2, GetFacts
  <2> QED BY <2>1, <2>2
<1>7. PeersTyped'
  <2>1. later' \in [Peers -> Seq(Peers)]
    <3>1. \/ later' = [later EXCEPT ![p] = extPeers]
          \/ later[p] # <<>> /\ later' = [later EXCEPT ![p] = Tail(later[p])]
      BY DEF GetOwn, Refresh
    <3>2. later[p] \in Seq(Peers) /\ (later[p] # <<>> => Tail(later[p]) \in Seq(Peers))
      BY <1>4
    <3> QED BY <1>4, <3>1, <3>2
  <2> QED BY <1>1, <2>1 DEF TypeInv, PeersTyped
<1>8. SocketsTyped' /\ ended' \in {"no", "panic", "fatal"} /\ PanicOnlyIfWithdrawn'
  <2>1. CASE UNCHANGED <<active, ended>>
    BY <1>1, <2>1 DEF TypeInv, SocketsTyped, PanicOnlyIfWithdrawn
  <2>2. CASE Refresh(p) /\ ~UNCHANGED <<active, ended>>
    <3> DEFINE r == Head(later[p])
    <3>1. r \in Peers /\ CustomPathSelectAlg(r, Slice(r, Get(r).len))
      BY <1>4, <2>2 DEF Refresh
    <3> HIDE DEF r
    <3> QED BY <1>1, <3>1, GetFacts, SelectTyped
  <2>3. CASE GetOwn(p)
    BY <2>1, <2>3 DEF GetOwn
  <2> QED BY <2>1, <2>2, <2>3
<1> QED BY <1>1, <1>3, <1>6, <1>7, <1>8 DEF TypeInv

\* AddPeerEntry begins; an entry is deleted.
LEMMA TypeEntries ==
  ASSUME TypeInv, ended = "no", NEW p \in Peers, CopyEntries(p) \/ Delete(p)
  PROVE  TypeInv'
<1>1. /\ UNCHANGED <<array, extPeers, later, read, selection, active, ended, errors, withdrawn>>
      /\ overlapped' \in BOOLEAN
  BY DEF CopyEntries, Delete, Enter, peersVars, sockVars, TypeInv
<1>2. /\ pc' \in [Peers -> PCs]
      /\ \A q \in Peers : pc'[q] \in {"off", "try"} <=> pc[q] \in {"off", "try"}
  <2>1. \/ pc[p] = "off" /\ Goto(p, "try")
        \/ pc[p] = "lock" /\ Goto(p, "filter")
    BY DEF CopyEntries, Delete
  <2> QED BY <2>1, GotoFacts DEF TypeInv, PCs
<1>3. Steady
  BY <1>1, <1>2 DEF Steady
<1>4. ArraysTyped'
  BY <1>1 DEF TypeInv, ArraysTyped
<1>5. Fits(Data, array', pc')
  BY <1>3, FitsStay DEF TypeInv
<1>6. Lengths(Data)'
  <2>1. \/ Data' = Data
        \/ Data' = [q \in DOMAIN Data \ {p} |-> Data[q]]
    BY DEF CopyEntries, Delete
  <2> QED BY <1>5, <2>1 DEF Lengths, Fits
<1>7. AddTyped'
  <2>1. \A q \in Peers : Fits(add[q].length, array', pc')
    BY <1>3, FitsStay DEF TypeInv, AddTyped
  <2>2. CASE add' = add
    BY <2>1, <2>2 DEF TypeInv, AddTyped, Lengths
  <2>3. CASE CopyEntries(p)
    <3>1. PICK order \in OrdersOf(Data) :
             add' = [add EXCEPT ![p] = [own |-> <<>>, asked |-> order, length |-> Data, done |-> 0]]
      BY <2>3 DEF CopyEntries
    <3>2. order \in Seq(DOMAIN Data)
      BY OrdersFacts DEF TypeInv, Lengths, Fits
    <3>3. /\ DOMAIN add' = Peers /\ \A q \in Peers : q # p => add'[q] = add[q]
          /\ add'[p] = [own |-> <<>>, asked |-> order, length |-> Data, done |-> 0]
      BY <3>1 DEF TypeInv, AddTyped
    <3>4. 0 \in 0 .. Len(Available[p]) /\ <<>> \in Seq(Of(p))
      BY AvailableFacts
    <3>5. /\ add'[p].own \in Seq(Of(p)) /\ Fits(add'[p].length, array', pc')
          /\ add'[p].asked \in Seq(DOMAIN add'[p].length) /\ add'[p].done \in 0 .. Len(Available[p])
      BY <1>5, <3>2, <3>3, <3>4
    <3>6. ASSUME NEW q \in Peers, q # p
          PROVE  /\ add'[q].own \in Seq(Of(q)) /\ Fits(add'[q].length, array', pc')
                 /\ add'[q].asked \in Seq(DOMAIN add'[q].length) /\ add'[q].done \in 0 .. Len(Available[q])
      BY <2>1, <3>3, <3>6 DEF TypeInv, AddTyped
    <3> QED BY <3>3, <3>5, <3>6 DEF AddTyped, Lengths
  <2> QED BY <2>2, <2>3 DEF Delete
<1>8. SelectionTyped'
  BY <1>1, <1>2, <1>3, <1>4, SelectionStays
<1> QED BY <1>1, <1>2, <1>4, <1>6, <1>7, <1>8 DEF TypeInv, PeersTyped, SocketsTyped, PanicOnlyIfWithdrawn

\* The own entry is stored.
LEMMA TypeStoreOwn ==
  ASSUME TypeInv, ended = "no", NEW p \in Peers, StoreOwn(p)
  PROVE  TypeInv'
<1> DEFINE paths == ConflictFree(add[p].own)
<1>1. /\ UNCHANGED <<extPeers, later, read, selection, active, ended, errors, withdrawn, overlapped>>
      /\ pc[p] = "try" /\ Goto(p, "get")
      /\ array' = [array EXCEPT ![p] = paths] /\ add' = [add EXCEPT ![p] = NoAdd]
      /\ Data' = [q \in DOMAIN Data \cup {p} |-> IF q = p THEN Len(paths) ELSE Data[q]]
  BY DEF StoreOwn, peersVars, sockVars
<1>2. paths \in Seq(Of(p))
  BY ConflictFreeFacts DEF TypeInv, AddTyped
<1> HIDE DEF paths
<1>3. pc' \in [Peers -> PCs] /\ pc'[p] = "get" /\ \A q \in Peers : q # p => pc'[q] = pc[q]
  BY <1>1, GotoFacts DEF TypeInv, PCs
<1>4. array'[p] = paths /\ \A q \in Peers : q # p => array'[q] = array[q]
  BY <1>1 DEF TypeInv, ArraysTyped
<1>5. Steady
  BY <1>1, <1>3, <1>4 DEF Steady
<1>6. ArraysTyped'
  BY <1>1, <1>2, <1>4, Paths DEF TypeInv, ArraysTyped
<1>7. Lengths(Data)'
  <2>1. Fits(Data, array', pc')
    BY <1>5, FitsStay DEF TypeInv
  <2>2. Len(paths) \in Nat /\ Len(paths) <= Len(array'[p])
    BY <1>2, <1>4
  <2>3. DOMAIN Data' = DOMAIN Data \cup {p} /\ \A q \in DOMAIN Data' : Data'[q] = IF q = p THEN Len(paths) ELSE Data[q]
    BY <1>1
  <2>4. DOMAIN Data' \subseteq Peers /\ Data' \in [DOMAIN Data' -> Nat]
    BY <1>1, <2>1, <2>2 DEF Fits
  <2>5. \A q \in DOMAIN Data' : Data'[q] <= Len(array'[q]) /\ pc'[q] \notin {"off", "try"}
    BY <1>3, <2>1, <2>2, <2>3 DEF Fits
  <2> QED BY <2>4, <2>5 DEF Lengths, Fits
<1>8. AddTyped'
  <2>1. \A q \in Peers : Fits(add[q].length, array', pc')
    BY <1>5, FitsStay DEF TypeInv, AddTyped
  <2>2. DOMAIN add' = Peers /\ add'[p] = NoAdd /\ \A q \in Peers : q # p => add'[q] = add[q]
    BY <1>1 DEF TypeInv, AddTyped
  <2>3. /\ NoAdd.own = <<>> /\ NoAdd.asked = <<>> /\ NoAdd.length = <<>> /\ NoAdd.done = 0
        /\ Fits(<<>>, array', pc') /\ <<>> \in Seq(DOMAIN <<>>) /\ <<>> \in Seq(Of(p))
        /\ 0 \in 0 .. Len(Available[p])
    BY AvailableFacts DEF NoAdd, Fits
  <2> QED BY <2>1, <2>2, <2>3 DEF TypeInv, AddTyped, Lengths
<1>9. SelectionTyped'
  <2>1. \A q \in Peers : pc'[q] \in {"off", "try"} => pc[q] \in {"off", "try"}
    BY <1>3
  <2> QED BY <1>1, <1>5, <1>6, <2>1, SelectionStays
<1> QED BY <1>1, <1>3, <1>6, <1>7, <1>8, <1>9 DEF TypeInv, PeersTyped, SocketsTyped, PanicOnlyIfWithdrawn

\* A round of the loop.
LEMMA TypeNextPath ==
  ASSUME TypeInv, ended = "no", NEW p \in Peers, NextPath(p)
  PROVE  TypeInv'
<1>1. UNCHANGED <<pc, extPeers, later, read, selection, active, ended, errors, withdrawn, overlapped>>
  BY DEF NextPath, peersVars, sockVars
<1>2. Goes(p)
  BY NextPathFacts
<1>3. ArraysTyped' /\ Steady
  <2>1. CASE Spares(p)
    BY <1>1, <2>1 DEF TypeInv, ArraysTyped, Steady, Spares
  <2>2. ASSUME NEW q \in DOMAIN add[p].length, Loses(p, q)
        PROVE  ArraysTyped' /\ Steady
    <3> DEFINE n == add[p].length[q]
    <3>1. n > Len(add[p].own) /\ \E i \in 1 .. n : array' = [array EXCEPT ![q] = Moved(q, n, i)]
      BY <2>2 DEF Loses
    <3>2. q \in Peers /\ n \in 0 .. Len(array[q])
      BY RoundTyped
    <3>3. Len(add[p].own) \in Nat /\ Len(array[q]) \in Nat
      BY <3>2, RoundTyped DEF TypeInv, ArraysTyped
    <3> HIDE DEF n
    <3>4. n \in 1 .. Len(array[q])
      BY <3>1, <3>2, <3>3
    <3>5. PICK i \in 1 .. n : array' = [array EXCEPT ![q] = Moved(q, n, i)]
      BY <3>1
    <3>6. Moved(q, n, i) \in Seq(Of(q)) /\ Len(Moved(q, n, i)) = Len(array[q])
      BY <3>2, <3>4, MovedFacts DEF TypeInv
    <3> QED BY <1>1, <3>2, <3>5, <3>6, Paths DEF TypeInv, ArraysTyped, Steady
  <2> QED BY <1>2, <2>1, <2>2 DEF Goes
<1>4. Lengths(Data)'
  <2>1. Fits(Data, array', pc')
    BY <1>3, FitsStay DEF TypeInv
  <2>2. CASE Spares(p)
    BY <2>1, <2>2 DEF Spares, Lengths
  <2>3. ASSUME NEW q \in DOMAIN add[p].length, Loses(p, q)
        PROVE  Lengths(Data)'
    <3>1. Fits(add[p].length, array', pc')
      BY <1>3, FitsStay DEF TypeInv, AddTyped
    <3>2. add[p].length[q] > Len(add[p].own) /\ Len(add[p].own) \in Nat
      BY <2>3, RoundTyped DEF Loses
    <3>3. Data' = [r \in DOMAIN Data \cup {q} |-> IF r = q THEN add[p].length[q] - 1 ELSE Data[r]]
      BY <2>3 DEF Loses
    <3> DEFINE m == add[p].length[q]
    <3>4. q \in Peers /\ m - 1 \in Nat /\ m - 1 <= Len(array'[q]) /\ pc'[q] \notin {"off", "try"}
      <4>1. q \in Peers /\ m \in Nat /\ m <= Len(array'[q]) /\ pc'[q] \notin {"off", "try"}
        BY <3>1 DEF Fits
      <4>2. m > 0 /\ Len(array'[q]) \in Nat
        BY <1>3, <3>2, <4>1 DEF ArraysTyped
      <4> HIDE DEF m
      <4> QED BY <4>1, <4>2
    <3> HIDE DEF m
    <3>5. DOMAIN Data' = DOMAIN Data \cup {q} /\ \A r \in DOMAIN Data' : Data'[r] = IF r = q THEN m - 1 ELSE Data[r]
      BY <3>3 DEF m
    <3>6. DOMAIN Data' \subseteq Peers /\ Data' \in [DOMAIN Data' -> Nat]
      BY <2>1, <3>3, <3>4, <3>5 DEF Fits, m
    <3>7. \A r \in DOMAIN Data' : Data'[r] <= Len(array'[r]) /\ pc'[r] \notin {"off", "try"}
      BY <2>1, <3>4, <3>5 DEF Fits
    <3> QED BY <3>6, <3>7 DEF Lengths, Fits
  <2> QED BY <1>2, <2>2, <2>3 DEF Goes
<1>5. AddTyped'
  <2>1. \A q \in Peers : Fits(add[q].length, array', pc')
    BY <1>3, FitsStay DEF TypeInv, AddTyped
  <2>2. Fits(add'[p].length, array', pc') /\ DOMAIN add'[p].length = DOMAIN add[p].length
    <3>1. CASE Spares(p)
      BY <2>1, <3>1 DEF Spares
    <3>2. ASSUME NEW q \in DOMAIN add[p].length, Loses(p, q)
          PROVE  Fits(add'[p].length, array', pc') /\ DOMAIN add'[p].length = DOMAIN add[p].length
      <4> DEFINE L == add[p].length
      <4>1. L[q] > Len(add[p].own) /\ Len(add[p].own) \in Nat /\ add'[p].length = [L EXCEPT ![q] = L[q] - 1]
        BY <3>2, RoundTyped DEF Loses
      <4>2. Fits(L, array', pc')
        BY <2>1
      <4>3. \A r \in DOMAIN L : L[r] \in Nat /\ Len(array'[r]) \in Nat
        BY <1>3, <4>2 DEF Fits, ArraysTyped
      <4> HIDE DEF L
      <4> QED BY <4>1, <4>2, <4>3 DEF Fits, L
    <3> QED BY <1>2, <3>1, <3>2 DEF Goes
  <2>3. add'[p].own \in Seq(Of(p)) /\ add'[p].done \in 0 .. Len(Available[p])
    <3>1. add[p].done \in Nat /\ add[p].done < Len(Available[p]) /\ Len(Available[p]) \in Nat
      BY <1>2, AvailableFacts DEF TypeInv, AddTyped, Goes
    <3>2. add[p].done + 1 \in 1 .. Len(Available[p])
      BY <3>1
    <3>3. Available[p][add[p].done + 1] \in Of(p)
      BY <3>2, AvailableFacts
    <3>4. add[p].own \in Seq(Of(p))
      BY DEF TypeInv, AddTyped
    <3>5. Append(add[p].own, Available[p][add[p].done + 1]) \in Seq(Of(p))
      BY <3>3, <3>4
    <3>6. add[p].done + 1 \in 0 .. Len(Available[p])
      BY <3>1, <3>2
    <3> QED BY <1>2, <3>4, <3>5, <3>6 DEF Goes
  <2>4. /\ DOMAIN add' = Peers /\ add'[p].asked \in Seq(DOMAIN add'[p].length)
        /\ \A q \in Peers : q # p => add'[q] = add[q]
    BY <1>2, <2>2 DEF Goes
  <2> QED BY <2>1, <2>2, <2>3, <2>4 DEF TypeInv, AddTyped, Lengths
<1>6. SelectionTyped'
  BY <1>1, <1>3, SelectionStays
<1> QED BY <1>1, <1>3, <1>4, <1>5, <1>6 DEF TypeInv, PeersTyped, SocketsTyped, PanicOnlyIfWithdrawn

LEMMA TypeInit == Init => TypeInv
<1> SUFFICES ASSUME Init PROVE TypeInv
  OBVIOUS
<1>1. ArraysTyped
  BY DEF Init, ArraysTyped
<1>2. /\ NoAdd.own = <<>> /\ NoAdd.asked = <<>> /\ NoAdd.length = <<>> /\ NoAdd.done = 0
      /\ Fits(<<>>, array, pc) /\ <<>> \in Seq(DOMAIN <<>>)
  BY DEF NoAdd, Fits
<1>3. AddTyped /\ Lengths(Data)
  <2>1. DOMAIN add = Peers /\ \A p \in Peers : add[p] = NoAdd
    BY DEF Init
  <2>2. \A p \in Peers : 0 \in 0 .. Len(Available[p]) /\ <<>> \in Seq(Of(p))
    BY AvailableFacts
  <2>3. Data = <<>>
    BY DEF Init
  <2> QED BY <1>2, <2>1, <2>2, <2>3 DEF AddTyped, Lengths
<1>4. SelectionTyped
  BY DEF Init, SelectionTyped
<1>5. PeersTyped /\ SocketsTyped
  BY DEF Init, PeersTyped, SocketsTyped
<1>6. pc \in [Peers -> PCs]
  BY DEF Init, PCs
<1>7. ended \in {"no", "panic", "fatal"} /\ PanicOnlyIfWithdrawn
  BY DEF Init, PanicOnlyIfWithdrawn
<1>8. errors \in 0 .. MaxErrors
  <2>1. errors = 0
    BY DEF Init
  <2> QED BY <2>1, PathSessionsAssumption DEF PathSessionsAssumption
<1>9. overlapped \in BOOLEAN
  BY DEF Init
<1> QED BY <1>1, <1>3, <1>4, <1>5, <1>6, <1>7, <1>8, <1>9 DEF TypeInv

LEMMA TypeNext == TypeInv /\ [Next]_vars => TypeInv'
<1> SUFFICES ASSUME TypeInv, [Next]_vars PROVE TypeInv'
  OBVIOUS
<1>1. CASE UNCHANGED vars
  BY <1>1 DEF vars, storeVars, peersVars, sockVars, TypeInv, ArraysTyped, AddTyped, Lengths, Fits,
              SelectionTyped, PeersTyped, SocketsTyped, PanicOnlyIfWithdrawn
<1>2. ASSUME Next PROVE TypeInv'
  <2>1. ended = "no"
    BY <1>2 DEF Next
  <2>2. ASSUME NEW p \in Peers, Update(p) PROVE TypeInv'
    BY <2>1, <2>2, TypeEntries, TypeNextPath, TypeStoreOwn, TypeRefresh, TypePeers DEF Update
  <2>3. ASSUME NEW p \in Peers,
               \/ Connect(p) \/ ConnectFails(p) \/ Disconnect(p) \/ Reselect(p)
               \/ \E path \in Range(Available[p]) : Withdraw(p, path)
        PROVE  TypeInv'
    BY <2>1, <2>3, TypeSession DEF Of
  <2>4. ASSUME NEW p \in Peers, Delete(p) \/ FilterPeers(p) \/ AssignPeers(p) PROVE TypeInv'
    BY <2>1, <2>4, TypeEntries, TypePeers
  <2>5. CASE MapFault
    <3>1. PICK p \in Peers : TRUE
      BY <2>5 DEF MapFault
    <3> QED BY <2>1, <2>5, <3>1, TypePeers
  <2> QED BY <1>2, <2>2, <2>3, <2>4, <2>5 DEF Next
<1> QED BY <1>1, <1>2

LEMMA Typed == Spec => []TypeInv
BY TypeInit, TypeNext, PTL DEF Spec

\* A path that a session has selected is one its own socket knows, however the
\* updates of sessions interleave: CustomPathSelectAlg panics only over a path
\* that is no longer offered.
THEOREM NoStrangePath == Spec => []PanicOnlyIfWithdrawn
<1>1. TypeInv => PanicOnlyIfWithdrawn
  BY DEF TypeInv
<1> QED BY <1>1, Typed, PTL

-----------------------------------------------------------------------------
(* Who is in the store and in extPeers                                     *)

Kept   == {"get", "refresh", "append", "connect", "up", "lock"}
Listed == {"connect", "up", "lock", "filter", "assign", "failed"}
Busy   == {"try", "get", "refresh", "append", "filter", "assign"}

\* What holds as long as no updates have overlapped: only one runs, its copy of
\* the lengths is what the store has, and the store, extPeers and what is about
\* to be assigned to it have the leechers whose sessions are at these places.
OneBusy == \A p, q \in Peers : pc[p] \in Busy /\ pc[q] \in Busy => p = q

AsCopied == \A p \in Peers : pc[p] = "try" => add[p].length = Data

InStore == \A q \in Peers : q \in DOMAIN Data => pc[q] \in Kept \cup {"failed"}

InList == \A q \in Peers : q \in Range(extPeers) <=> pc[q] \in Listed

AsRead ==
    \A p, q \in Peers :
       /\ pc[p] = "append" => (q \in Range(read[p]) <=> (q \in Range(extPeers) \/ q = p))
       /\ pc[p] = "assign" => (q \in Range(read[p]) <=> (q \in Range(extPeers) /\ q # p))

LiveInv ==
    /\ \A q \in Peers : pc[q] \in Kept => q \in DOMAIN Data
    /\ errors = 0 => \A q \in Peers : pc[q] # "failed"
    /\ ~overlapped => OneBusy /\ AsCopied /\ InStore /\ InList /\ AsRead

\* An update that begins and does not overlap is alone.
LEMMA EnterFacts ==
  ASSUME Enter, ~overlapped'
  PROVE  ~overlapped /\ \A q \in Peers : pc[q] \notin Busy
BY DEF Enter, Updating, Busy

LEMMA LiveCopyEntries ==
  ASSUME TypeInv, LiveInv, NEW p \in Peers, CopyEntries(p)
  PROVE  LiveInv'
<1>1. /\ pc[p] = "off" /\ UNCHANGED <<Data, extPeers, read, errors>> /\ Enter
      /\ add'[p].length = Data
  BY DEF CopyEntries, peersVars, TypeInv, AddTyped
<1>2. pc'[p] = "try" /\ \A q \in Peers : q # p => pc'[q] = pc[q]
  BY GotoFacts DEF CopyEntries, TypeInv, PCs
<1>3. ASSUME ~overlapped' PROVE (OneBusy /\ AsCopied /\ InStore /\ InList /\ AsRead)'
  <2>1. ~overlapped /\ \A q \in Peers : pc[q] \notin Busy
    BY <1>1, <1>3, EnterFacts
  <2>2. OneBusy /\ AsCopied /\ InStore /\ InList /\ AsRead
    BY <2>1 DEF LiveInv
  <2>3. OneBusy' /\ AsCopied' /\ AsRead'
    BY <1>1, <1>2, <2>1 DEF OneBusy, AsCopied, AsRead, Busy
  <2>4. InStore' /\ InList'
    BY <1>1, <1>2, <2>2 DEF InStore, InList, Kept, Listed
  <2> QED BY <2>3, <2>4
<1> QED BY <1>1, <1>2, <1>3 DEF LiveInv, Kept

LEMMA LiveNextPath ==
  ASSUME TypeInv, LiveInv, NEW p \in Peers, NextPath(p)
  PROVE  LiveInv'
<1>1. UNCHANGED <<pc, extPeers, read, errors, overlapped>> /\ Goes(p)
  BY NextPathFacts DEF NextPath, peersVars
<1>2. pc[p] = "try" /\ \A q \in Peers : q # p => add'[q] = add[q]
  BY <1>1 DEF Goes
<1>3. DOMAIN Data \subseteq DOMAIN Data'
  BY <1>1 DEF Goes, Spares, Loses
<1>4. ASSUME ~overlapped PROVE (OneBusy /\ AsCopied /\ InStore /\ InList /\ AsRead)'
  <2>1. OneBusy /\ AsCopied /\ InStore /\ InList /\ AsRead
    BY <1>4 DEF LiveInv
  <2>2. OneBusy' /\ InList' /\ AsRead'
    BY <1>1, <2>1 DEF OneBusy, InList, AsRead
  <2>3. add[p].length = Data /\ Data \in [DOMAIN Data -> Nat]
    BY <1>2, <2>1 DEF AsCopied, TypeInv, Lengths, Fits
  <2>4. add'[p].length = Data' /\ DOMAIN Data' = DOMAIN Data
    <3>1. CASE Spares(p)
      BY <2>3, <3>1 DEF Spares
    <3>2. ASSUME NEW q \in DOMAIN add[p].length, Loses(p, q)
          PROVE  add'[p].length = Data' /\ DOMAIN Data' = DOMAIN Data
      <4>1. /\ add'[p].length = [Data EXCEPT ![q] = Data[q] - 1] /\ q \in DOMAIN Data
            /\ Data' = [r \in DOMAIN Data \cup {q} |-> IF r = q THEN Data[q] - 1 ELSE Data[r]]
        BY <2>3, <3>2 DEF Loses
      <4> QED BY <2>3, <4>1
    <3> QED BY <1>1, <3>1, <3>2 DEF Goes
  <2>5. AsCopied' /\ InStore'
    BY <1>1, <1>2, <2>1, <2>4 DEF AsCopied, InStore, OneBusy, Busy
  <2> QED BY <2>2, <2>5
<1> QED BY <1>1, <1>3, <1>4 DEF LiveInv

LEMMA LiveStoreOwn ==
  ASSUME TypeInv, LiveInv, NEW p \in Peers, StoreOwn(p)
  PROVE  LiveInv'
<1>1. /\ pc[p] = "try" /\ UNCHANGED <<extPeers, read, errors, overlapped>>
      /\ DOMAIN Data' = DOMAIN Data \cup {p}
  BY DEF StoreOwn, peersVars
<1>2. pc'[p] = "get" /\ \A q \in Peers : q # p => pc'[q] = pc[q]
  BY GotoFacts DEF StoreOwn, TypeInv, PCs
<1>3. ASSUME ~overlapped PROVE (OneBusy /\ AsCopied /\ InStore /\ InList /\ AsRead)'
  <2>1. OneBusy /\ InStore /\ InList /\ AsRead
    BY <1>3 DEF LiveInv
  <2>2. OneBusy' /\ AsCopied'
    BY <1>1, <1>2, <2>1 DEF OneBusy, AsCopied, Busy
  <2>3. InStore' /\ InList'
    BY <1>1, <1>2, <2>1 DEF InStore, InList, Kept, Listed
  <2>4. AsRead'
    BY <1>1, <1>2, <2>1 DEF AsRead
  <2> QED BY <2>2, <2>3, <2>4
<1> QED BY <1>1, <1>2, <1>3 DEF LiveInv, Kept

LEMMA LiveDelete ==
  ASSUME TypeInv, LiveInv, NEW p \in Peers, Delete(p)
  PROVE  LiveInv'
<1>1. /\ pc[p] = "lock" /\ UNCHANGED <<add, extPeers, read, errors>> /\ Enter
      /\ DOMAIN Data' = DOMAIN Data \ {p}
  BY DEF Delete, peersVars
<1>2. pc'[p] = "filter" /\ \A q \in Peers : q # p => pc'[q] = pc[q]
  BY GotoFacts DEF Delete, TypeInv, PCs
<1>3. ASSUME ~overlapped' PROVE (OneBusy /\ AsCopied /\ InStore /\ InList /\ AsRead)'
  <2>1. ~overlapped /\ \A q \in Peers : pc[q] \notin Busy
    BY <1>1, <1>3, EnterFacts
  <2>2. InStore /\ InList
    BY <2>1 DEF LiveInv
  <2>3. OneBusy' /\ AsCopied' /\ AsRead'
    BY <1>1, <1>2, <2>1 DEF OneBusy, AsCopied, AsRead, Busy
  <2>4. InStore' /\ InList'
    BY <1>1, <1>2, <2>2 DEF InStore, InList, Kept, Listed
  <2> QED BY <2>3, <2>4
<1> QED BY <1>1, <1>2, <1>3 DEF LiveInv, Kept

\* extPeers is read, with the change that is to be assigned ...
LEMMA LiveRead ==
  ASSUME TypeInv, LiveInv, NEW p \in Peers, ReadPeers(p) \/ FilterPeers(p)
  PROVE  LiveInv'
<1>1. UNCHANGED <<Data, add, extPeers, errors, overlapped>>
  BY DEF ReadPeers, FilterPeers, storeVars
<1>2. /\ \A q \in Peers : q # p => pc'[q] = pc[q]
      /\ \/ pc[p] = "refresh" /\ pc'[p] = "append"
         \/ pc[p] = "filter" /\ pc'[p] = "assign"
  BY GotoFacts DEF ReadPeers, FilterPeers, TypeInv, PCs
<1>3. /\ ReadPeers(p) => pc'[p] = "append" /\ Range(read'[p]) = Range(extPeers) \cup {p}
      /\ FilterPeers(p) => pc'[p] = "assign" /\ Range(read'[p]) = Range(extPeers) \cap (Peers \ {p})
  <2>1. extPeers \in Seq(Peers) /\ read \in [Peers -> Seq(Peers)]
    BY DEF TypeInv, PeersTyped
  <2>2. ReadPeers(p) => read'[p] = Append(extPeers, p) /\ pc'[p] = "append"
    BY <2>1, GotoFacts DEF ReadPeers, TypeInv, PCs
  <2>3. FilterPeers(p) => read'[p] = Filter(extPeers, Peers \ {p}) /\ pc'[p] = "assign"
    BY <2>1, GotoFacts DEF FilterPeers, TypeInv, PCs
  <2> QED BY <2>1, <2>2, <2>3, RangeOfAppend, FilterFacts
<1>4. ASSUME ~overlapped PROVE (OneBusy /\ AsCopied /\ InStore /\ InList /\ AsRead)'
  <2>1. OneBusy /\ AsCopied /\ InStore /\ InList
    BY <1>4 DEF LiveInv
  <2>2. OneBusy' /\ AsCopied'
    BY <1>1, <1>2, <2>1 DEF OneBusy, AsCopied, Busy
  <2>3. InStore' /\ InList'
    BY <1>1, <1>2, <2>1 DEF InStore, InList, Kept, Listed
  <2>4. \A q \in Peers : pc'[q] \in {"append", "assign"} => q = p
    BY <1>2, <2>2 DEF OneBusy, Busy
  <2>5. AsRead'
    <3>1. Range(extPeers)' = Range(extPeers)
      BY <1>1
    <3> QED BY <1>2, <1>3, <2>4, <3>1 DEF AsRead
  <2> QED BY <2>2, <2>3, <2>5
<1> QED BY <1>1, <1>2, <1>4 DEF LiveInv, Kept

\* ... and assigned.
LEMMA LiveAssign ==
  ASSUME TypeInv, LiveInv, NEW p \in Peers, AppendPeer(p) \/ AssignPeers(p)
  PROVE  LiveInv'
<1>1. UNCHANGED <<Data, add, errors, overlapped>> /\ extPeers' = read[p]
  BY DEF AppendPeer, AssignPeers, storeVars
<1>2. /\ \A q \in Peers : q # p => pc'[q] = pc[q]
      /\ \/ pc[p] = "append" /\ pc'[p] = "connect"
         \/ pc[p] = "assign" /\ pc'[p] = "gone"
  BY GotoFacts DEF AppendPeer, AssignPeers, TypeInv, PCs
<1>3. ASSUME ~overlapped PROVE (OneBusy /\ AsCopied /\ InStore /\ InList /\ AsRead)'
  <2>1. OneBusy /\ AsCopied /\ InStore /\ InList /\ AsRead
    BY <1>3 DEF LiveInv
  <2>2. OneBusy' /\ AsCopied'
    BY <1>1, <1>2, <2>1 DEF OneBusy, AsCopied, Busy
  <2>3. InStore'
    BY <1>1, <1>2, <2>1 DEF InStore, Kept
  <2>4. InList'
    <3>1. Range(extPeers)' = Range(read[p])
      BY <1>1
    <3>2. CASE pc[p] = "append"
      BY <1>2, <2>1, <3>1, <3>2 DEF InList, AsRead, Listed
    <3>3. CASE pc[p] = "assign"
      BY <1>2, <2>1, <3>1, <3>3 DEF InList, AsRead, Listed
    <3> QED BY <1>2, <3>2, <3>3
  <2>5. AsRead'
    BY <1>2, <2>1 DEF AsRead, OneBusy, Busy
  <2> QED BY <2>2, <2>3, <2>4, <2>5
<1> QED BY <1>1, <1>2, <1>3 DEF LiveInv, Kept

\* The steps that leave the store and extPeers alone.
LEMMA LiveSession ==
  ASSUME TypeInv, LiveInv, NEW p \in Peers,
         \/ GetOwn(p) \/ Connect(p) \/ ConnectFails(p) \/ Disconnect(p)
         \/ Refresh(p) \/ Reselect(p) \/ MapFault
         \/ \E path \in Of(p) : Withdraw(p, path)
  PROVE  LiveInv'
<1>1. UNCHANGED <<Data, add, extPeers, read, overlapped>>
  BY DEF GetOwn, Connect, ConnectFails, Disconnect, Refresh, Reselect, MapFault, Withdraw,
         storeVars, peersVars
<1>2. \/ UNCHANGED <<pc, errors>>
      \/ /\ \A q \in Peers : q # p => pc'[q] = pc[q]
         /\ \/ pc[p] = "get" /\ pc'[p] = "refresh" /\ UNCHANGED errors
            \/ pc[p] = "connect" /\ pc'[p] = "up" /\ UNCHANGED errors
            \/ pc[p] = "connect" /\ pc'[p] = "failed" /\ errors' = errors + 1
            \/ pc[p] = "up" /\ pc'[p] = "lock" /\ UNCHANGED errors
  <2>1. "refresh" \in PCs /\ "up" \in PCs /\ "failed" \in PCs /\ "lock" \in PCs /\ pc \in [Peers -> PCs]
    BY DEF TypeInv, PCs
  <2>2. CASE Refresh(p) \/ Reselect(p) \/ MapFault \/ \E path \in Of(p) : Withdraw(p, path)
    BY <2>2 DEF Refresh, Reselect, MapFault, Withdraw
  <2>3. CASE GetOwn(p)
    BY <2>1, <2>3, GotoFacts DEF GetOwn
  <2>4. CASE Connect(p)
    BY <2>1, <2>4, GotoFacts DEF Connect
  <2>5. CASE ConnectFails(p)
    BY <2>1, <2>5, GotoFacts DEF ConnectFails
  <2>6. CASE Disconnect(p)
    BY <2>1, <2>6, GotoFacts DEF Disconnect
  <2> QED BY <2>2, <2>3, <2>4, <2>5, <2>6
<1>3. CASE UNCHANGED <<pc, errors>>
  BY <1>1, <1>3 DEF LiveInv, OneBusy, AsCopied, InStore, InList, AsRead
<1>4. CASE ~UNCHANGED <<pc, errors>>
  <2>1. ASSUME ~overlapped PROVE (OneBusy /\ AsCopied /\ InStore /\ InList /\ AsRead)'
    <3>1. OneBusy /\ AsCopied /\ InStore /\ InList /\ AsRead
      BY <2>1 DEF LiveInv
    <3>2. OneBusy' /\ AsCopied'
      BY <1>1, <1>2, <1>4, <3>1 DEF OneBusy, AsCopied, Busy
    <3>3. InStore' /\ InList'
      BY <1>1, <1>2, <1>4, <3>1 DEF InStore, InList, Kept, Listed
    <3>4. AsRead'
      BY <1>1, <1>2, <1>4, <3>1 DEF AsRead
    <3> QED BY <3>2, <3>3, <3>4
  <2>2. errors' = 0 => \A q \in Peers : pc'[q] # "failed"
    <3>1. errors \in Nat
      BY DEF TypeInv
    <3> QED BY <1>2, <1>4, <3>1 DEF LiveInv
  <2>3. \A q \in Peers : pc'[q] \in Kept => q \in DOMAIN Data
    BY <1>2, <1>4 DEF LiveInv, Kept
  <2> QED BY <1>1, <2>1, <2>2, <2>3 DEF LiveInv
<1> QED BY <1>3, <1>4

LEMMA LiveInit == Init => LiveInv
<1> SUFFICES ASSUME Init PROVE LiveInv
  OBVIOUS
<1>1. \A q \in Peers : pc[q] = "off"
  BY DEF Init
<1>2. DOMAIN Data = {} /\ Range(extPeers) = {}
  BY DEF Init, Range
<1> QED BY <1>1, <1>2 DEF LiveInv, OneBusy, AsCopied, InStore, InList, AsRead, Kept, Listed, Busy

LEMMA LiveNext == TypeInv /\ LiveInv /\ [Next]_vars => LiveInv'
<1> SUFFICES ASSUME TypeInv, LiveInv, [Next]_vars PROVE LiveInv'
  OBVIOUS
<1>1. CASE UNCHANGED vars
  BY <1>1 DEF vars, storeVars, peersVars, LiveInv, OneBusy, AsCopied, InStore, InList, AsRead
<1>2. ASSUME Next PROVE LiveInv'
  <2>1. ASSUME NEW p \in Peers, Update(p) PROVE LiveInv'
    BY <2>1, LiveCopyEntries, LiveNextPath, LiveStoreOwn, LiveSession, LiveRead, LiveAssign DEF Update
  <2>2. ASSUME NEW p \in Peers,
               \/ Connect(p) \/ ConnectFails(p) \/ Disconnect(p) \/ Reselect(p)
               \/ \E path \in Range(Available[p]) : Withdraw(p, path)
        PROVE  LiveInv'
    BY <2>2, LiveSession DEF Of
  <2>3. ASSUME NEW p \in Peers, Delete(p) \/ FilterPeers(p) \/ AssignPeers(p) PROVE LiveInv'
    BY <2>3, LiveDelete, LiveRead, LiveAssign
  <2>4. CASE MapFault
    <3>1. PICK p \in Peers : TRUE
      BY <2>4 DEF MapFault
    <3> QED BY <2>4, <3>1, LiveSession
  <2> QED BY <1>2, <2>1, <2>2, <2>3, <2>4 DEF Next
<1> QED BY <1>1, <1>2

LEMMA Live == Spec => []LiveInv
BY LiveInit, LiveNext, Typed, PTL DEF Spec

\* A session that is connected has an entry in the store; and unless updates
\* overlapped or a Connect failed, nobody else has, in extPeers neither.
THEOREM StoreHasTheLive == Spec => []StoreIsLive
<1>1. TypeInv /\ LiveInv => StoreIsLive
  <2> SUFFICES ASSUME TypeInv, LiveInv PROVE StoreIsLive
    OBVIOUS
  <2> DEFINE members == {p \in Peers : pc[p] \in {"connect", "up", "lock"}}
  <2>1. members \subseteq DOMAIN Data
    BY DEF LiveInv, Kept
  <2>2. ASSUME ~overlapped, errors = 0, Updating = {}
        PROVE  DOMAIN Data = members /\ Range(extPeers) = members
    <3>1. InStore /\ InList /\ \A q \in Peers : pc[q] # "failed"
      BY <2>2 DEF LiveInv
    <3>2. \A q \in Peers : pc[q] \notin {"get", "refresh", "append", "filter", "assign"}
      BY <2>2 DEF Updating
    <3>3. DOMAIN Data \subseteq Peers
      BY DEF TypeInv, Lengths, Fits
    <3>4. Range(extPeers) \subseteq Peers
      BY SeqElements DEF TypeInv, PeersTyped
    <3>5. DOMAIN Data \subseteq members
      BY <3>1, <3>2, <3>3 DEF InStore, Kept
    <3>6. Range(extPeers) = members
      BY <3>1, <3>2, <3>4 DEF InList, Listed
    <3> QED BY <2>1, <3>5, <3>6
  <2> QED BY <2>1, <2>2 DEF StoreIsLive
<1> QED BY <1>1, Typed, Live, PTL

-----------------------------------------------------------------------------
(* Sockets use what the store says                                         *)

\* The selection of q, and its socket, are as the store has it.
InSync(q) ==
    /\ selection[q].len = Data[q]
    /\ pc[q] = "up" /\ ended = "no" => active[q] = Slice(q, Data[q])

\* The update that runs has still to come to q.
Pending(q) == \E u \in Peers : pc[u] = "refresh" /\ q \in Range(later[u])

Settled == \A u \in Peers : pc[u] \notin {"try", "get"}

SyncInv ==
    ~overlapped /\ Settled =>
        \A q \in Peers : pc[q] \in {"refresh", "append", "connect", "up"} => InSync(q) \/ Pending(q)

\* The own selection is set, and the others are pending.
LEMMA SyncGetOwn ==
  ASSUME TypeInv, LiveInv, NEW p \in Peers, GetOwn(p)
  PROVE  SyncInv'
<1>1. /\ pc[p] = "get" /\ UNCHANGED <<array, Data, extPeers, overlapped>>
      /\ selection' = [selection EXCEPT ![p] = Get(p)] /\ later' = [later EXCEPT ![p] = extPeers]
  BY DEF GetOwn, storeVars
<1>2. pc'[p] = "refresh" /\ \A q \in Peers : q # p => pc'[q] = pc[q]
  BY GotoFacts DEF GetOwn, TypeInv, PCs
<1>3. selection'[p] = Get(p) /\ later'[p] = extPeers
  BY <1>1 DEF TypeInv, SelectionTyped, PeersTyped
<1>4. Get(p).len = Data[p]
  BY <1>1 DEF Get, LiveInv, Kept
<1> SUFFICES ASSUME ~overlapped, NEW q \in Peers, pc'[q] \in {"refresh", "append", "connect", "up"}
             PROVE  InSync(q)' \/ Pending(q)'
  BY <1>1 DEF SyncInv
<1>5. OneBusy /\ InList
  BY DEF LiveInv
<1>6. CASE q = p
  BY <1>1, <1>2, <1>3, <1>4, <1>6 DEF InSync
<1>7. CASE q # p
  <2>1. pc[q] \in {"connect", "up"}
    BY <1>1, <1>2, <1>5, <1>7 DEF OneBusy, Busy
  <2>2. q \in Range(later'[p])
    BY <1>3, <1>5, <2>1 DEF InList, Listed
  <2> QED BY <1>2, <2>2 DEF Pending
<1> QED BY <1>6, <1>7

\* One of them is refreshed.
LEMMA SyncRefresh ==
  ASSUME TypeInv, LiveInv, SyncInv, ended = "no", NEW p \in Peers, Refresh(p)
  PROVE  SyncInv'
<1> DEFINE h == Head(later[p])
<1>1. /\ pc[p] = "refresh" /\ UNCHANGED <<pc, array, Data, overlapped>> /\ later[p] # <<>>
      /\ selection' = [selection EXCEPT ![h] = Get(h)] /\ later' = [later EXCEPT ![p] = Tail(later[p])]
      /\ pc[h] = "up" => CustomPathSelectAlg(h, Slice(h, Get(h).len))
      /\ pc[h] # "up" => UNCHANGED <<active, ended>>
  BY DEF Refresh, storeVars
<1>2. later \in [Peers -> Seq(Peers)] /\ DOMAIN selection = Peers /\ DOMAIN active = Peers
  BY DEF TypeInv, PeersTyped, SelectionTyped, SocketsTyped
<1>3. h \in Peers /\ Range(later[p]) \subseteq {h} \cup Range(Tail(later[p]))
  <2>1. later[p] \in Seq(Peers) /\ later[p] # <<>>
    BY <1>1, <1>2
  <2>2. ASSUME NEW t \in Seq(Peers), t # <<>>
        PROVE  Head(t) \in Peers /\ Range(t) \subseteq {Head(t)} \cup Range(Tail(t))
    <3>1. /\ Head(t) = t[1] /\ t[1] \in Peers /\ Tail(t) \in Seq(Peers) /\ Len(Tail(t)) = Len(t) - 1
          /\ \A i \in 1 .. Len(t) - 1 : Tail(t)[i] = t[i + 1]
      BY <2>2
    <3>2. ASSUME NEW x \in Range(t), x # Head(t) PROVE x \in Range(Tail(t))
      <4>1. PICK i \in 1 .. Len(t) : t[i] = x
        BY SeqElements
      <4>2. i - 1 \in 1 .. Len(Tail(t)) /\ Tail(t)[i - 1] = x
        BY <3>1, <3>2, <4>1
      <4> QED BY <3>1, <4>2, SeqElements
    <3> QED BY <3>1, <3>2
  <2> QED BY <2>1, <2>2
<1> HIDE DEF h
<1>4. /\ selection'[h] = Get(h) /\ \A q \in Peers : q # h => selection'[q] = selection[q]
      /\ later'[p] = Tail(later[p]) /\ \A q \in Peers : q # p => later'[q] = later[q]
  BY <1>1, <1>2, <1>3
<1>5. \A q \in Peers : q # h => active'[q] = active[q]
  BY <1>1, <1>2 DEF CustomPathSelectAlg
<1> SUFFICES ASSUME ~overlapped, Settled, NEW q \in Peers,
                    pc[q] \in {"refresh", "append", "connect", "up"}
             PROVE  InSync(q)' \/ Pending(q)'
  BY <1>1 DEF SyncInv, Settled
<1>6. CASE q = h
  <2>1. Get(q).len = Data[q]
    BY DEF Get, LiveInv, Kept
  <2>2. pc[q] = "up" /\ ended' = "no" => active'[q] = Slice(q, Data[q])
    <3>1. Slice(q, Get(q).len) = Slice(q, Data[q])
      BY <2>1
    <3> QED BY <1>1, <1>2, <1>6, <3>1 DEF CustomPathSelectAlg
  <2>3. Slice(q, Data[q])' = Slice(q, Data[q])
    BY <1>1 DEF Slice
  <2> QED BY <1>1, <1>4, <1>6, <2>1, <2>2, <2>3 DEF InSync
<1>7. CASE q # h
  <2>1. CASE InSync(q)
    <3>1. Slice(q, Data[q])' = Slice(q, Data[q])
      BY <1>1 DEF Slice
    <3> QED BY <1>1, <1>4, <1>5, <1>7, <2>1, <3>1 DEF InSync
  <2>2. CASE Pending(q)
    <3>1. PICK u \in Peers : pc[u] = "refresh" /\ q \in Range(later[u])
      BY <2>2 DEF Pending
    <3>2. q \in Range(later'[u])
      BY <1>3, <1>4, <1>7, <3>1
    <3> QED BY <1>1, <3>1, <3>2 DEF Pending
  <2> QED BY <2>1, <2>2 DEF SyncInv
<1> QED BY <1>6, <1>7

\* A socket takes the selection of its session.
LEMMA SyncSelect ==
  ASSUME TypeInv, LiveInv, SyncInv, ended = "no", NEW p \in Peers, Connect(p) \/ Reselect(p)
  PROVE  SyncInv'
<1>1. /\ UNCHANGED <<array, Data, later, selection, overlapped>> /\ pc[p] \in {"connect", "up"}
      /\ CustomPathSelectAlg(p, Selected(p))
  BY DEF Connect, Reselect, storeVars, peersVars
<1>2. pc'[p] = "up" /\ \A q \in Peers : q # p => pc'[q] = pc[q]
  BY GotoFacts DEF Connect, Reselect, TypeInv, PCs
<1>3. /\ ended' = "no" => active'[p] = Slice(p, selection[p].len)
      /\ \A q \in Peers : q # p => active'[q] = active[q]
  <2>1. DOMAIN active = Peers
    BY DEF TypeInv, SocketsTyped
  <2> QED BY <1>1, <2>1, SelectedFacts DEF CustomPathSelectAlg
<1> SUFFICES ASSUME ~overlapped, Settled, NEW q \in Peers,
                    pc'[q] \in {"refresh", "append", "connect", "up"}
             PROVE  InSync(q)' \/ Pending(q)'
  <2>1. Settled' => Settled
    BY <1>1, <1>2 DEF Settled
  <2> QED BY <1>1, <2>1 DEF SyncInv
<1>4. Slice(q, Data[q])' = Slice(q, Data[q])
  BY <1>1 DEF Slice
<1>5. Pending(q) => Pending(q)'
  <2> SUFFICES ASSUME NEW u \in Peers, pc[u] = "refresh", q \in Range(later[u]) PROVE Pending(q)'
    BY DEF Pending
  <2>1. pc'[u] = "refresh"
    BY <1>1, <1>2
  <2> QED BY <1>1, <2>1 DEF Pending
<1>6. InSync(q) => InSync(q)'
  BY <1>1, <1>2, <1>3, <1>4 DEF InSync
<1>7. pc[q] \in {"refresh", "append", "connect", "up"}
  BY <1>1, <1>2
<1> QED BY <1>5, <1>6, <1>7 DEF SyncInv

\* While an entry is being added nothing is asked.
LEMMA SyncAdding ==
  ASSUME TypeInv, NEW p \in Peers, CopyEntries(p) \/ NextPath(p) \/ StoreOwn(p)
  PROVE  SyncInv'
<1>1. pc'[p] \in {"try", "get"}
  BY GotoFacts DEF CopyEntries, NextPath, StoreOwn, TypeInv, PCs
<1> QED BY <1>1 DEF SyncInv, Settled

\* The other steps: the session of p goes on, or ends.
LEMMA SyncRest ==
  ASSUME TypeInv, LiveInv, SyncInv, ended = "no", NEW p \in Peers,
         \/ ReadPeers(p) \/ AppendPeer(p) \/ FilterPeers(p) \/ AssignPeers(p) \/ Delete(p)
         \/ ConnectFails(p) \/ Disconnect(p) \/ MapFault
         \/ \E path \in Of(p) : Withdraw(p, path)
  PROVE  SyncInv'
<1>1. UNCHANGED <<array, later, selection>> /\ (~overlapped' => ~overlapped)
  <2>1. CASE Delete(p)
    BY <2>1 DEF Delete, Enter, peersVars, sockVars
  <2>2. CASE ~Delete(p)
    <3>1. UNCHANGED <<array, later, selection, overlapped>>
      BY <2>2 DEF ReadPeers, AppendPeer, FilterPeers, AssignPeers, ConnectFails, Disconnect, MapFault,
                  Withdraw, storeVars, peersVars, sockVars
    <3> QED BY <3>1
  <2> QED BY <2>1, <2>2
<1>2. \/ UNCHANGED <<pc, Data, active>>
      \/ /\ \A q \in Peers : q # p => pc'[q] = pc[q]
         /\ \/ /\ pc[p] = "refresh" /\ later[p] = <<>> /\ pc'[p] = "append"
               /\ UNCHANGED <<Data, active, ended>>
            \/ pc[p] = "append" /\ pc'[p] = "connect" /\ UNCHANGED <<Data, active, ended>>
            \/ /\ pc[p] \in {"filter", "assign", "lock", "connect", "up"}
               /\ pc'[p] \in {"assign", "gone", "filter", "failed", "lock"}
               /\ UNCHANGED ended
  <2>1. pc \in [Peers -> PCs] /\ {"append", "connect", "assign", "gone", "filter", "failed", "lock"} \subseteq PCs
    BY DEF TypeInv, PCs
  <2>2. CASE MapFault \/ \E path \in Of(p) : Withdraw(p, path)
    BY <2>2 DEF MapFault, Withdraw, storeVars, sockVars
  <2>3. CASE ReadPeers(p) \/ AppendPeer(p)
    BY <2>1, <2>3, GotoFacts DEF ReadPeers, AppendPeer, storeVars, sockVars
  <2>4. CASE FilterPeers(p) \/ AssignPeers(p) \/ Delete(p)
    BY <2>1, <2>4, GotoFacts DEF FilterPeers, AssignPeers, Delete, sockVars
  <2>5. CASE ConnectFails(p) \/ Disconnect(p)
    BY <2>1, <2>5, GotoFacts DEF ConnectFails, Disconnect, sockVars
  <2> QED BY <2>2, <2>3, <2>4, <2>5
<1>3. \A q \in Peers : q # p => active'[q] = active[q]
  <2>1. DOMAIN active = Peers
    BY DEF TypeInv, SocketsTyped
  <2> QED BY <2>1 DEF ReadPeers, AppendPeer, FilterPeers, AssignPeers, Delete, ConnectFails, Disconnect,
                      MapFault, Withdraw, sockVars
<1>4. \A q \in DOMAIN Data : q # p => Data'[q] = Data[q]
  BY DEF ReadPeers, AppendPeer, FilterPeers, AssignPeers, Delete, ConnectFails, Disconnect,
         MapFault, Withdraw, storeVars
<1> SUFFICES ASSUME ~overlapped, Settled, NEW q \in Peers,
                    pc'[q] \in {"refresh", "append", "connect", "up"}
             PROVE  InSync(q)' \/ Pending(q)'
  <2>1. Settled' => Settled
    BY <1>2 DEF Settled
  <2> QED BY <1>1, <2>1 DEF SyncInv
<1>5. pc[q] \in {"refresh", "append", "connect", "up"}
  BY <1>2
<1>6. Pending(q) => Pending(q)'
  <2> SUFFICES ASSUME NEW u \in Peers, pc[u] = "refresh", q \in Range(later[u]) PROVE Pending(q)'
    BY DEF Pending
  <2>1. Range(<<>>) = {}
    BY DEF Range
  <2>2. pc'[u] = "refresh"
    BY <1>2, <2>1
  <2> QED BY <1>1, <2>2 DEF Pending
<1>7. InSync(q) => InSync(q)'
  <2> SUFFICES ASSUME InSync(q) PROVE InSync(q)'
    OBVIOUS
  <2>1. Data'[q] = Data[q] /\ active'[q] = active[q]
    BY <1>2, <1>3, <1>4, <1>5 DEF LiveInv, Kept
  <2>2. pc'[q] = "up" => pc[q] = "up"
    BY <1>2
  <2>3. Slice(q, Data[q])' = Slice(q, Data[q])
    BY <1>1, <2>1 DEF Slice
  <2> QED BY <1>1, <2>1, <2>2, <2>3 DEF InSync
<1> QED BY <1>5, <1>6, <1>7 DEF SyncInv

LEMMA SyncNext == TypeInv /\ LiveInv /\ SyncInv /\ [Next]_vars => SyncInv'
<1> SUFFICES ASSUME TypeInv, LiveInv, SyncInv, [Next]_vars PROVE SyncInv'
  OBVIOUS
<1>1. CASE UNCHANGED vars
  BY <1>1 DEF vars, storeVars, peersVars, sockVars, SyncInv, Settled, InSync, Pending, Slice
<1>2. ASSUME Next PROVE SyncInv'
  <2>1. ended = "no"
    BY <1>2 DEF Next
  <2>2. ASSUME NEW p \in Peers, Update(p) PROVE SyncInv'
    BY <2>1, <2>2, SyncAdding, SyncGetOwn, SyncRefresh, SyncRest DEF Update
  <2>3. ASSUME NEW p \in Peers,
               \/ Connect(p) \/ ConnectFails(p) \/ Disconnect(p) \/ Reselect(p)
               \/ \E path \in Range(Available[p]) : Withdraw(p, path)
        PROVE  SyncInv'
    BY <2>1, <2>3, SyncSelect, SyncRest DEF Of
  <2>4. ASSUME NEW p \in Peers, Delete(p) \/ FilterPeers(p) \/ AssignPeers(p) PROVE SyncInv'
    BY <2>1, <2>4, SyncRest
  <2>5. CASE MapFault
    <3>1. PICK p \in Peers : TRUE
      BY <2>5 DEF MapFault
    <3> QED BY <2>1, <2>5, <3>1, SyncRest
  <2> QED BY <1>2, <2>2, <2>3, <2>4, <2>5 DEF Next
<1> QED BY <1>1, <1>2

\* When no update is under way, and none has overlapped with another, each
\* connected socket uses the paths that the store has for its leecher.
THEOREM SocketsUseTheStore == Spec => []StoreEnforced
<1>1. Init => SyncInv
  BY DEF Init, SyncInv
<1>2. TypeInv /\ LiveInv /\ SyncInv => StoreEnforced
  <2> SUFFICES ASSUME TypeInv, LiveInv, SyncInv, ended = "no", ~overlapped, Updating = {},
                      NEW p \in Peers, pc[p] = "up"
               PROVE  active[p] = Stored[p] /\ Selected(p) = Stored[p]
    BY DEF StoreEnforced
  <2>1. Settled /\ ~Pending(p)
    BY DEF Updating, Settled, Pending
  <2>2. InSync(p)
    BY <2>1 DEF SyncInv
  <2>3. Stored[p] = Slice(p, Data[p])
    BY DEF LiveInv, Kept, Stored
  <2> QED BY <2>2, <2>3, SelectedFacts DEF InSync
<1> QED BY <1>1, <1>2, SyncNext, Typed, Live, PTL DEF Spec

-----------------------------------------------------------------------------
(* The rules that PathStore goes by are the ones of PathSessions           *)

LEMMA SameFilter == ASSUME NEW seq, NEW set PROVE Atomic!Filter(seq, set) = Filter(seq, set)
BY DEF Atomic!Filter, Filter, FoldLeft, Atomic!FoldLeft, MapThenFoldSet, Atomic!MapThenFoldSet,
       Max, Atomic!Max

LEMMA SameConflict ==
  ASSUME NEW path, NEW other PROVE Atomic!PathsConflict(path, other) <=> PathsConflict(path, other)
BY DEF Atomic!PathsConflict, PathsConflict

LEMMA SameFirstConflict ==
  ASSUME NEW path, NEW paths PROVE Atomic!FirstConflict(path, paths) = FirstConflict(path, paths)
BY DEF Atomic!FirstConflict, FirstConflict, SelectInSeq, Atomic!SelectInSeq, Min, Atomic!Min,
       Atomic!PathsConflict, PathsConflict

LEMMA SameConflictFree == ASSUME NEW paths PROVE Atomic!ConflictFree(paths) = ConflictFree(paths)
BY DEF Atomic!ConflictFree, ConflictFree, FoldLeft, Atomic!FoldLeft, MapThenFoldSet,
       Atomic!MapThenFoldSet, Max, Atomic!Max, Atomic!FirstConflict, FirstConflict, SelectInSeq,
       Atomic!SelectInSeq, Min, Atomic!Min, Atomic!PathsConflict, PathsConflict

LEMMA SameRemove == ASSUME NEW paths, NEW i PROVE Atomic!RemovePath(paths, i) = RemovePath(paths, i)
BY DEF Atomic!RemovePath, RemovePath, RemoveAt, Atomic!RemoveAt

LEMMA SameOrders == ASSUME NEW lengths PROVE Atomic!OrdersOf(lengths) = OrdersOf(lengths)
BY DEF Atomic!OrdersOf, OrdersOf, SetToSeqs, Atomic!SetToSeqs, Cardinality, Atomic!Cardinality

\* TryPath, when i is the candidate that has a conflict.
Try(round, path, i) ==
    LET q      == round.asked[i]
        theirs == round.data[q]
        own    == Append(round.own, path)
        data   == [round.data EXCEPT ![q] = RemovePath(theirs, FirstConflict(path, theirs))]
    IN  CASE i = 0                                 -> [round EXCEPT !.own = own]
          [] i # 0 /\ ~CanSpare(theirs, round.own) -> round
          [] i # 0 /\ CanSpare(theirs, round.own)  ->
               [own |-> own, data |-> data,
                asked |-> Filter(round.asked, {r \in DOMAIN data : Len(data[r]) >= Len(own)})]

LEMMA SameTryPath ==
  ASSUME NEW round, NEW path PROVE Atomic!TryPath(round, path) = TryPath(round, path)
<1> DEFINE i == SelectInSeq(round.asked, LAMBDA q : FirstConflict(path, round.data[q]) # 0)
           j == Atomic!SelectInSeq(round.asked, LAMBDA q : Atomic!FirstConflict(path, round.data[q]) # 0)
<1>1. i = j
  <2> DEFINE I == {k \in 1 .. Len(round.asked) : FirstConflict(path, round.data[round.asked[k]]) # 0}
             J == {k \in 1 .. Len(round.asked) : Atomic!FirstConflict(path, round.data[round.asked[k]]) # 0}
  <2>1. I = J
    BY SameFirstConflict
  <2>2. i = IF I # {} THEN Min(I) ELSE 0
    BY DEF SelectInSeq
  <2>3. j = IF J # {} THEN Atomic!Min(J) ELSE 0
    BY DEF Atomic!SelectInSeq
  <2>4. Min(I) = Atomic!Min(I)
    BY DEF Min, Atomic!Min
  <2> HIDE DEF I, J, i, j
  <2> QED BY <2>1, <2>2, <2>3, <2>4
<1>2. TryPath(round, path) = Try(round, path, i)
  BY DEF TryPath, Try
<1>3. Atomic!TryPath(round, path) = Try(round, path, j)
  <2> HIDE DEF j
  <2>1. Atomic!TryPath(round, path) =
           LET q      == round.asked[j]
               theirs == round.data[q]
               own    == Append(round.own, path)
               data   == [round.data EXCEPT ![q] =
                            Atomic!RemovePath(theirs, Atomic!FirstConflict(path, theirs))]
           IN  CASE j = 0 -> [round EXCEPT !.own = own]
                 [] j # 0 /\ ~Atomic!CanSpare(theirs, round.own) -> round
                 [] j # 0 /\ Atomic!CanSpare(theirs, round.own)  ->
                      [own |-> own, data |-> data,
                       asked |-> Atomic!Filter(round.asked, {r \in DOMAIN data : Len(data[r]) >= Len(own)})]
    BY DEF Atomic!TryPath, j
  <2> QED BY <2>1, SameFilter, SameFirstConflict, SameRemove DEF Try, CanSpare, Atomic!CanSpare
<1> QED BY <1>1, <1>2, <1>3

TryStep(par, round, path) == TryPath(round, path)

TryFold == INSTANCE FoldLaws WITH Op <- TryStep

LEMMA SameFold ==
  ASSUME NEW base, NEW paths
  PROVE  Atomic!FoldLeft(Atomic!TryPath, base, paths) = TryFold!Value(0, base, paths)
BY SameTryPath, ZenonT(60) DEF Atomic!FoldLeft, Atomic!MapThenFoldSet, Atomic!Max, TryFold!Value, TryFold!Body,
                   TryFold!Greatest, TryStep

-----------------------------------------------------------------------------
(* The store, as long as updates do not overlap                            *)

\* A store whose leechers use some of their available paths, in their order,
\* that do not conflict with each other.
Neat(store) ==
    \A q \in DOMAIN store :
        /\ q \in Peers /\ store[q] \in Seq(Of(q))
        /\ Part(store[q], Available[q], Len(Available[q])) /\ Disjoint(store[q])

Adding == \E p \in Peers : pc[p] = "try"

\* The paths taken so far are some of those looked at.
OwnNeat == \A p \in Peers : Part(add[p].own, Available[p], add[p].done)

NeatInv == OwnNeat /\ (~overlapped => Neat(Stored) /\ (Adding => Neat(before)))

LEMMA StoredFacts ==
  ASSUME TypeInv
  PROVE  /\ DOMAIN Stored = DOMAIN Data /\ DOMAIN Data \subseteq Peers
         /\ \A q \in DOMAIN Data : /\ Stored[q] = Slice(q, Data[q]) /\ Data[q] \in 0 .. Len(array[q])
                                   /\ Stored[q] \in Seq(Of(q)) /\ Len(Stored[q]) = Data[q]
<1>1. DOMAIN Stored = DOMAIN Data /\ \A q \in DOMAIN Data : Stored[q] = Slice(q, Data[q])
  BY DEF Stored
<1>2. DOMAIN Data \subseteq Peers
  BY DEF TypeInv, Lengths, Fits
<1>3. \A q \in DOMAIN Data : Data[q] \in 0 .. Len(array[q])
  <2> SUFFICES ASSUME NEW q \in DOMAIN Data PROVE Data[q] \in 0 .. Len(array[q])
    OBVIOUS
  <2>1. Data[q] \in Nat /\ Data[q] <= Len(array[q])
    BY DEF TypeInv, Lengths, Fits
  <2>2. Len(array[q]) \in Nat
    BY <1>2 DEF TypeInv, ArraysTyped
  <2> QED BY <2>1, <2>2
<1> QED BY <1>1, <1>2, <1>3, SliceFacts DEF TypeInv

\* When q loses path i, this is what the store has after it.
LEMMA LosesStored ==
  ASSUME TypeInv, NEW p \in Peers, pc[p] = "try", add[p].length = Data,
         NEW q \in DOMAIN add[p].length, Loses(p, q)
  PROVE  /\ Data[q] > Len(add[p].own) /\ DOMAIN Stored' = DOMAIN Stored
         /\ \E i \in 1 .. Len(Stored[q]) : Stored'[q] = RemovePath(Stored[q], i)
         /\ \A r \in DOMAIN Stored : r # q => Stored'[r] = Stored[r]
<1>1. q \in DOMAIN Data /\ q \in Peers /\ Data[q] \in 0 .. Len(array[q]) /\ Len(array[q]) \in Nat
  BY StoredFacts DEF TypeInv, ArraysTyped
<1> DEFINE n == Data[q]
<1>2. /\ n > Len(add[p].own) /\ \E i \in 1 .. n : array' = [array EXCEPT ![q] = Moved(q, n, i)]
      /\ Data' = [r \in DOMAIN Data \cup {q} |-> IF r = q THEN n - 1 ELSE Data[r]]
  BY DEF Loses
<1>3. Len(add[p].own) \in Nat
  BY RoundTyped
<1>4. n \in 1 .. Len(array[q])
  <2> HIDE DEF n
  <2> QED BY <1>1, <1>2, <1>3 DEF n
<1>5. PICK i \in 1 .. n : array' = [array EXCEPT ![q] = Moved(q, n, i)]
  BY <1>2
<1>6. SubSeq(Moved(q, n, i), 1, n - 1) = RemovePath(Slice(q, n), i)
  BY <1>1, <1>4, MovedFacts DEF TypeInv
<1>7. array'[q] = Moved(q, n, i) /\ \A r \in Peers : r # q => array'[r] = array[r]
  BY <1>1, <1>5 DEF TypeInv, ArraysTyped
<1>8. /\ DOMAIN Data' = DOMAIN Data /\ Data'[q] = n - 1
      /\ \A r \in DOMAIN Data : r # q => Data'[r] = Data[r]
  BY <1>1, <1>2
<1> HIDE DEF n
<1>9. Stored'[q] = SubSeq(array'[q], 1, n - 1) /\ DOMAIN Stored' = DOMAIN Data
  BY <1>1, <1>8 DEF Stored, Slice
<1>10. \A r \in DOMAIN Data : r # q => Stored'[r] = Stored[r]
  BY <1>7, <1>8, StoredFacts DEF Stored, Slice
<1>11. Stored[q] = Slice(q, n) /\ Len(Stored[q]) = n /\ DOMAIN Stored = DOMAIN Data
  BY <1>1, StoredFacts DEF n
<1> QED BY <1>2, <1>6, <1>7, <1>9, <1>10, <1>11 DEF n

LEMMA NeatCopyEntries ==
  ASSUME TypeInv, LiveInv, NeatInv, NEW p \in Peers, CopyEntries(p)
  PROVE  NeatInv'
<1>1. /\ UNCHANGED <<array, Data>> /\ Enter /\ before' = IF overlapped' THEN <<>> ELSE Stored
      /\ \E order : add' = [add EXCEPT ![p] = [own |-> <<>>, asked |-> order, length |-> Data, done |-> 0]]
  BY DEF CopyEntries
<1>2. Stored' = Stored
  BY <1>1 DEF Stored, Slice
<1>3. OwnNeat'
  <2>1. DOMAIN add = Peers
    BY DEF TypeInv, AddTyped
  <2>2. add'[p].own = <<>> /\ add'[p].done = 0 /\ \A q \in Peers : q # p => add'[q] = add[q]
    BY <1>1, <2>1
  <2>3. Part(<<>>, Available[p], 0)
    BY PartEmpty
  <2> QED BY <2>2, <2>3 DEF NeatInv, OwnNeat
<1>4. ASSUME ~overlapped' PROVE Neat(Stored)' /\ Neat(before)'
  <2>1. ~overlapped
    BY <1>1, <1>4, EnterFacts
  <2>2. Neat(Stored)
    BY <2>1 DEF NeatInv
  <2>3. before' = Stored
    BY <1>1, <1>4
  <2> QED BY <1>2, <2>2, <2>3 DEF Neat
<1> QED BY <1>3, <1>4 DEF NeatInv

LEMMA NeatNextPath ==
  ASSUME TypeInv, LiveInv, NeatInv, NEW p \in Peers, NextPath(p)
  PROVE  NeatInv'
<1>1. UNCHANGED <<pc, before, overlapped>> /\ Goes(p)
  BY NextPathFacts DEF NextPath
<1>2. OwnNeat'
  <2>1. /\ add[p].done \in Nat /\ add[p].own \in Seq(Of(p)) /\ Part(add[p].own, Available[p], add[p].done)
    BY DEF TypeInv, AddTyped, NeatInv, OwnNeat
  <2>2. Available[p][add[p].done + 1] \in Of(p)
    <3>1. add[p].done < Len(Available[p]) /\ Len(Available[p]) \in Nat
      BY <1>1, AvailableFacts DEF Goes
    <3>2. add[p].done + 1 \in 1 .. Len(Available[p])
      BY <2>1, <3>1
    <3> QED BY <3>2, AvailableFacts
  <2>3. /\ Part(Append(add[p].own, Available[p][add[p].done + 1]), Available[p], add[p].done + 1)
        /\ Part(add[p].own, Available[p], add[p].done + 1)
    BY <2>1, <2>2, PartAppend, PartMore
  <2>4. Part(add'[p].own, Available[p], add'[p].done)
    BY <1>1, <2>3 DEF Goes
  <2> QED BY <1>1, <2>4 DEF NeatInv, OwnNeat, Goes
<1>3. ASSUME ~overlapped PROVE Neat(Stored)' /\ Neat(before)'
  <2>1. pc[p] = "try" /\ add[p].length = Data /\ Neat(Stored) /\ Neat(before)
    BY <1>1, <1>3 DEF Goes, LiveInv, AsCopied, NeatInv, Adding
  <2>2. Neat(Stored)'
    <3>1. CASE Spares(p)
      <4>1. Stored' = Stored
        BY <3>1 DEF Spares, Stored, Slice
      <4> QED BY <2>1, <4>1 DEF Neat
    <3>2. ASSUME NEW q \in DOMAIN add[p].length, Loses(p, q)
          PROVE  Neat(Stored)'
      <4>1. PICK i \in 1 .. Len(Stored[q]) : Stored'[q] = RemovePath(Stored[q], i)
        BY <2>1, <3>2, LosesStored
      <4>2. DOMAIN Stored' = DOMAIN Stored /\ \A r \in DOMAIN Stored : r # q => Stored'[r] = Stored[r]
        BY <2>1, <3>2, LosesStored
      <4>3. q \in DOMAIN Stored
        BY <2>1, StoredFacts
      <4>4. /\ q \in Peers /\ Stored[q] \in Seq(Of(q)) /\ Part(Stored[q], Available[q], Len(Available[q]))
            /\ Disjoint(Stored[q]) /\ Len(Available[q]) \in Nat
        BY <2>1, <4>3, AvailableFacts DEF Neat
      <4>5. /\ Stored'[q] \in Seq(Of(q)) /\ Part(Stored'[q], Available[q], Len(Available[q]))
            /\ Disjoint(Stored'[q])
        BY <4>1, <4>4, RemoveFacts, PartRemove, DisjointRemove
      <4> QED BY <2>1, <4>2, <4>4, <4>5 DEF Neat
    <3> QED BY <1>1, <3>1, <3>2 DEF Goes
  <2> QED BY <1>1, <2>1, <2>2 DEF Neat
<1> QED BY <1>1, <1>2, <1>3 DEF NeatInv

LEMMA NeatStoreOwn ==
  ASSUME TypeInv, LiveInv, NeatInv, NEW p \in Peers, StoreOwn(p)
  PROVE  NeatInv'
<1> DEFINE own == add[p].own
           paths == ConflictFree(own)
<1>1. /\ pc[p] = "try" /\ add[p].done = Len(Available[p]) /\ UNCHANGED overlapped
      /\ array' = [array EXCEPT ![p] = paths] /\ add' = [add EXCEPT ![p] = NoAdd]
      /\ Data' = [q \in DOMAIN Data \cup {p} |-> IF q = p THEN Len(paths) ELSE Data[q]]
  BY DEF StoreOwn
<1>2. own \in Seq(Of(p)) /\ Part(own, Available[p], Len(Available[p])) /\ Len(Available[p]) \in Nat
  BY <1>1, AvailableFacts DEF TypeInv, AddTyped, NeatInv, OwnNeat
<1>3. paths \in Seq(Of(p)) /\ Part(paths, own, Len(own)) /\ Disjoint(paths)
  BY <1>2, ConflictFreeFacts
<1> HIDE DEF own, paths
<1>4. Part(paths, Available[p], Len(Available[p]))
  BY <1>2, <1>3, PartOfPart
<1>5. OwnNeat'
  <2>1. DOMAIN add = Peers
    BY DEF TypeInv, AddTyped
  <2>2. add'[p].own = <<>> /\ add'[p].done = 0 /\ \A q \in Peers : q # p => add'[q] = add[q]
    BY <1>1, <2>1 DEF NoAdd
  <2>3. Part(<<>>, Available[p], 0)
    BY PartEmpty
  <2> QED BY <2>2, <2>3 DEF NeatInv, OwnNeat
<1>6. array'[p] = paths /\ \A q \in Peers : q # p => array'[q] = array[q]
  BY <1>1 DEF TypeInv, ArraysTyped
<1>7. ASSUME ~overlapped PROVE Neat(Stored)' /\ ~Adding'
  <2>1. DOMAIN Stored' = DOMAIN Data \cup {p}
    BY <1>1 DEF Stored
  <2>2. Stored'[p] = paths
    <3>1. Stored'[p] = SubSeq(paths, 1, Len(paths))
      BY <1>1, <1>6 DEF Stored, Slice
    <3>2. /\ SubSeq(paths, 1, Len(paths)) \in Seq(Of(p)) /\ Len(SubSeq(paths, 1, Len(paths))) = Len(paths)
          /\ \A i \in 1 .. Len(paths) : SubSeq(paths, 1, Len(paths))[i] = paths[i]
      BY <1>3
    <3> QED BY <1>3, <3>1, <3>2, SeqEqual
  <2>3. \A q \in DOMAIN Data : q # p => Stored'[q] = Stored[q]
    BY <1>1, <1>6, StoredFacts DEF Stored, Slice
  <2>4. Neat(Stored)'
    BY <1>3, <1>4, <1>7, <2>1, <2>2, <2>3, StoredFacts DEF NeatInv, Neat
  <2>5. ~Adding'
    <3>1. pc'[p] = "get" /\ \A q \in Peers : q # p => pc'[q] = pc[q]
      BY GotoFacts DEF StoreOwn, TypeInv, PCs
    <3> QED BY <1>1, <1>7, <3>1 DEF Adding, LiveInv, OneBusy, Busy
  <2> QED BY <2>4, <2>5
<1> QED BY <1>1, <1>5, <1>7 DEF NeatInv

LEMMA NeatDelete ==
  ASSUME TypeInv, LiveInv, NeatInv, NEW p \in Peers, Delete(p)
  PROVE  NeatInv'
<1>1. UNCHANGED <<add, array, before>> /\ Enter /\ Data' = [q \in DOMAIN Data \ {p} |-> Data[q]]
  BY DEF Delete
<1>2. DOMAIN Stored' = DOMAIN Data \ {p} /\ \A q \in DOMAIN Stored' : Stored'[q] = Stored[q]
  BY <1>1 DEF Stored, Slice
<1>3. OwnNeat'
  BY <1>1 DEF NeatInv, OwnNeat
<1>4. ASSUME ~overlapped' PROVE Neat(Stored)' /\ ~Adding'
  <2>1. ~overlapped /\ \A q \in Peers : pc[q] \notin Busy
    BY <1>1, <1>4, EnterFacts
  <2>2. pc'[p] = "filter" /\ \A q \in Peers : q # p => pc'[q] = pc[q]
    BY GotoFacts DEF Delete, TypeInv, PCs
  <2>3. Neat(Stored)'
    BY <1>2, <2>1, StoredFacts DEF NeatInv, Neat
  <2> QED BY <2>1, <2>2, <2>3 DEF Adding, Busy
<1> QED BY <1>3, <1>4 DEF NeatInv

\* The steps that leave the store, and AddPeerEntry, alone.
Aside(p) ==
    \/ GetOwn(p) \/ Connect(p) \/ ConnectFails(p) \/ Disconnect(p) \/ Refresh(p) \/ Reselect(p)
    \/ ReadPeers(p) \/ AppendPeer(p) \/ FilterPeers(p) \/ AssignPeers(p) \/ MapFault
    \/ \E path \in Range(Available[p]) : Withdraw(p, path)

LEMMA AsideFacts ==
  ASSUME TypeInv, NEW p \in Peers, Aside(p)
  PROVE  /\ UNCHANGED <<add, array, Data, before, overlapped>>
         /\ \A q \in Peers : pc'[q] = "try" <=> pc[q] = "try"
<1>1. UNCHANGED <<add, array, Data, before, overlapped>>
  BY DEF Aside, GetOwn, Connect, ConnectFails, Disconnect, Refresh, Reselect, ReadPeers, AppendPeer,
         FilterPeers, AssignPeers, MapFault, Withdraw, storeVars
<1>2. \/ UNCHANGED pc
      \/ /\ pc[p] # "try"
         /\ \E w \in {"refresh", "up", "failed", "lock", "append", "connect", "assign", "gone"} : Goto(p, w)
  BY DEF Aside, GetOwn, Connect, ConnectFails, Disconnect, Refresh, Reselect, ReadPeers, AppendPeer,
         FilterPeers, AssignPeers, MapFault, Withdraw
<1>3. \A q \in Peers : pc'[q] = "try" <=> pc[q] = "try"
  BY <1>2, GotoFacts DEF TypeInv, PCs
<1> QED BY <1>1, <1>3

\* Which steps there are.
LEMMA Steps ==
  ASSUME Next
  PROVE  \E p \in Peers : CopyEntries(p) \/ NextPath(p) \/ StoreOwn(p) \/ Delete(p) \/ Aside(p)
<1>1. MapFault => \E p \in Peers : Aside(p)
  BY DEF MapFault, Aside
<1> QED BY <1>1 DEF Next, Update, Aside

LEMMA NeatNext == TypeInv /\ LiveInv /\ NeatInv /\ [Next]_vars => NeatInv'
<1> SUFFICES ASSUME TypeInv, LiveInv, NeatInv, [Next]_vars PROVE NeatInv'
  OBVIOUS
<1>1. ASSUME UNCHANGED <<add, array, Data, before, overlapped>>,
             \A q \in Peers : pc'[q] = "try" <=> pc[q] = "try"
      PROVE  NeatInv'
  <2>1. Stored' = Stored /\ (Adding' <=> Adding)
    BY <1>1 DEF Stored, Slice, Adding
  <2> QED BY <1>1, <2>1 DEF NeatInv, OwnNeat, Neat
<1>2. CASE UNCHANGED vars
  BY <1>1, <1>2 DEF vars, storeVars
<1>3. CASE Next
  BY <1>1, <1>3, Steps, AsideFacts, NeatCopyEntries, NeatNextPath, NeatStoreOwn, NeatDelete
<1> QED BY <1>2, <1>3

LEMMA NeatInit == Init => NeatInv
<1> SUFFICES ASSUME Init PROVE NeatInv
  OBVIOUS
<1>1. \A p \in Peers : add[p].own = <<>> /\ add[p].done = 0 /\ pc[p] = "off"
  BY DEF Init, NoAdd
<1>2. \A p \in Peers : Part(<<>>, Available[p], 0)
  BY PartEmpty
<1>3. DOMAIN Stored = {}
  BY DEF Init, Stored
<1> QED BY <1>1, <1>2, <1>3 DEF NeatInv, OwnNeat, Neat, Adding

LEMMA AlwaysNeat == Spec => []NeatInv
BY NeatInit, NeatNext, Typed, Live, PTL DEF Spec

LEMMA ViewNeat == NeatInv => (~overlapped => Neat(StoreView))
BY DEF NeatInv, StoreView, Adding

\* As long as updates do not overlap, two paths of a leecher share no interface
\* but the first of both or the last of both.
THEOREM PathsDisjoint == Spec => []OwnDisjoint
<1>1. NeatInv => OwnDisjoint
  <2> SUFFICES ASSUME NeatInv, ~overlapped, NEW p \in DOMAIN StoreView,
                      NEW i \in DOMAIN StoreView[p], NEW j \in DOMAIN StoreView[p], i # j,
                      NEW k \in DOMAIN StoreView[p][i], NEW l \in DOMAIN StoreView[p][j],
                      StoreView[p][i][k] = StoreView[p][j][l]
               PROVE  \/ k = 1 /\ l = 1
                      \/ k = Len(StoreView[p][i]) /\ l = Len(StoreView[p][j])
    BY DEF OwnDisjoint, Atomic!OwnDisjoint
  <2>1. StoreView[p] \in Seq(Of(p)) /\ Disjoint(StoreView[p])
    BY ViewNeat DEF Neat
  <2>2. DOMAIN StoreView[p] = 1 .. Len(StoreView[p])
    BY <2>1
  <2> DEFINE a == StoreView[p][i]
             b == StoreView[p][j]
  <2>3. i < j \/ j < i
    BY <2>2
  <2>4. ~PathsConflict(a, b) \/ ~PathsConflict(b, a)
    BY <2>1, <2>2, <2>3 DEF Disjoint
  <2>5. k \in DOMAIN a /\ l \in DOMAIN b /\ a[k] = b[l]
    OBVIOUS
  <2> HIDE DEF a, b
  <2>6. (k = 1 /\ l = 1) \/ (k = Len(a) /\ l = Len(b))
    BY <2>4, <2>5 DEF PathsConflict
  <2> QED BY <2>6 DEF a, b
<1> QED BY <1>1, AlwaysNeat, PTL

\* The types, whatever updates overlap; and as long as none do, the elements that
\* move up leave the paths of an entry in their order, and none twice.
THEOREM TypeCorrect == Spec => []TypeOK
<1>1. TypeInv /\ NeatInv => TypeOK
  <2> SUFFICES ASSUME TypeInv, NeatInv PROVE TypeOK
    OBVIOUS
  <2>1. \A p \in Peers : Range(array[p]) \subseteq Range(Available[p])
    BY SeqElements DEF TypeInv, ArraysTyped, Of
  <2>2. DOMAIN Data \subseteq Peers /\ \A p \in DOMAIN Data : Data[p] \in 0 .. Len(array[p])
    BY StoredFacts
  <2>3. \A p \in Peers : selection[p].len \in 0 .. Len(array[selection[p].of])
    BY DEF TypeInv, SelectionTyped
  <2>4. Range(extPeers) \subseteq Peers /\ \A p \in Peers : Range(later[p]) \cup Range(read[p]) \subseteq Peers
    <3>1. extPeers \in Seq(Peers) /\ \A p \in Peers : later[p] \in Seq(Peers) /\ read[p] \in Seq(Peers)
      BY DEF TypeInv, PeersTyped
    <3> QED BY <3>1, SeqElements
  <2>5. \A p \in Peers : active[p] \in Seq(Range(Available[p]))
    BY DEF TypeInv, SocketsTyped, Of
  <2>6. ASSUME ~overlapped PROVE Atomic!TypeOK
    <3>1. Neat(StoreView)
      BY <2>6, ViewNeat
    <3>2. ASSUME NEW p \in DOMAIN StoreView
          PROVE  \E keep \in SUBSET Atomic!Range(Available[p]) :
                    StoreView[p] = Atomic!Filter(Available[p], keep)
      <4> DEFINE s == StoreView[p]
      <4>1. /\ p \in Peers /\ s \in Seq(Of(p)) /\ Part(s, Available[p], Len(Available[p]))
            /\ Available[p] \in Seq(Of(p))
        BY <3>1, AvailableFacts DEF Neat
      <4>2. \A i, j \in DOMAIN Available[p] : Available[p][i] = Available[p][j] => i = j
        BY <4>1 DEF PathRulesAssumption
      <4> HIDE DEF s
      <4>3. s = Filter(Available[p], Range(s))
        BY <4>1, <4>2, PartIsFilter
      <4>4. Range(s) \subseteq Of(p)
        BY <4>1, SeqElements
      <4>5. Atomic!Range(Available[p]) = Of(p)
        BY DEF Atomic!Range, Range, Of
      <4>6. s = Atomic!Filter(Available[p], Range(s))
        BY <4>3, SameFilter
      <4> QED BY <4>4, <4>5, <4>6 DEF s
    <3>3. DOMAIN StoreView \subseteq Peers
      BY <3>1 DEF Neat
    <3> QED BY <3>2, <3>3 DEF Atomic!TypeOK
  <2>7. pc \in [Peers -> PCs] /\ ended \in {"no", "panic", "fatal"} /\ errors \in 0 .. MaxErrors
    BY DEF TypeInv
  <2> QED BY <2>1, <2>2, <2>3, <2>4, <2>5, <2>6, <2>7 DEF TypeOK, PCs
<1> QED BY <1>1, Typed, AlwaysNeat, PTL

-----------------------------------------------------------------------------
(* A newcomer leaves the others half of their paths, rounded down          *)

\* Whoever has lost paths has lost no more than the newcomer has taken, and had
\* more than that at each loss.
HalfInv ==
    ~overlapped => \A p \in Peers : pc[p] = "try" =>
        /\ DOMAIN before = DOMAIN Data
        /\ \A q \in DOMAIN Data : /\ Len(before[q]) \in Nat
                                  /\ Len(before[q]) <= Data[q] + Len(add[p].own)
                                  /\ Len(before[q]) <= 2 * Data[q] + 1

LEMMA HalfCopyEntries ==
  ASSUME TypeInv, LiveInv, NEW p \in Peers, CopyEntries(p)
  PROVE  HalfInv'
<1>1. /\ UNCHANGED <<array, Data>> /\ Enter /\ before' = IF overlapped' THEN <<>> ELSE Stored
      /\ \E order : add' = [add EXCEPT ![p] = [own |-> <<>>, asked |-> order, length |-> Data, done |-> 0]]
  BY DEF CopyEntries
<1>2. pc'[p] = "try" /\ \A q \in Peers : q # p => pc'[q] = pc[q]
  BY GotoFacts DEF CopyEntries, TypeInv, PCs
<1>3. add'[p].own = <<>>
  BY <1>1 DEF TypeInv, AddTyped
<1> SUFFICES ASSUME ~overlapped', NEW u \in Peers, pc'[u] = "try"
             PROVE  /\ DOMAIN before' = DOMAIN Data'
                    /\ \A q \in DOMAIN Data' : /\ Len(before'[q]) \in Nat
                                               /\ Len(before'[q]) <= Data'[q] + Len(add'[u].own)
                                               /\ Len(before'[q]) <= 2 * Data'[q] + 1
  BY DEF HalfInv
<1>4. u = p
  BY <1>1, <1>2, EnterFacts DEF Busy
<1>5. before' = Stored
  BY <1>1
<1>6. ASSUME NEW q \in DOMAIN Data
      PROVE  Len(Stored[q]) = Data[q] /\ Data[q] \in Nat
  BY StoredFacts
<1>7. DOMAIN Stored = DOMAIN Data
  BY StoredFacts
<1>8. Len(<<>>) = 0
  OBVIOUS
<1> QED BY <1>1, <1>3, <1>4, <1>5, <1>6, <1>7, <1>8

LEMMA HalfNextPath ==
  ASSUME TypeInv, LiveInv, HalfInv, NEW p \in Peers, NextPath(p)
  PROVE  HalfInv'
<1>1. UNCHANGED <<pc, before, overlapped>> /\ Goes(p)
  BY NextPathFacts DEF NextPath
<1> SUFFICES ASSUME ~overlapped, NEW u \in Peers, pc[u] = "try"
             PROVE  /\ DOMAIN before = DOMAIN Data'
                    /\ \A q \in DOMAIN Data' : /\ Len(before[q]) \in Nat
                                               /\ Len(before[q]) <= Data'[q] + Len(add'[u].own)
                                               /\ Len(before[q]) <= 2 * Data'[q] + 1
  BY <1>1 DEF HalfInv
<1>2. u = p /\ pc[p] = "try" /\ add[p].length = Data
  BY <1>1 DEF Goes, LiveInv, OneBusy, Busy, AsCopied
<1> DEFINE c == Len(add[p].own)
           d == Len(add'[p].own)
<1>3. c \in Nat /\ d \in {c, c + 1}
  <2>1. add[p].own \in Seq(Of(p))
    BY DEF TypeInv, AddTyped
  <2>2. add'[p].own \in {add[p].own, Append(add[p].own, Available[p][add[p].done + 1])}
    BY <1>1 DEF Goes
  <2>3. Len(Append(add[p].own, Available[p][add[p].done + 1])) = Len(add[p].own) + 1
    BY <2>1
  <2> QED BY <2>1, <2>2, <2>3
<1>4. /\ DOMAIN before = DOMAIN Data
      /\ \A q \in DOMAIN Data : /\ Len(before[q]) \in Nat /\ Data[q] \in Nat
                                /\ Len(before[q]) <= Data[q] + c /\ Len(before[q]) <= 2 * Data[q] + 1
  <2>1. Data \in [DOMAIN Data -> Nat]
    BY DEF TypeInv, Lengths, Fits
  <2> QED BY <1>2, <2>1 DEF HalfInv
<1>5. CASE Spares(p)
  <2>1. Data' = Data
    BY <1>5 DEF Spares
  <2> HIDE DEF c, d
  <2> QED BY <1>2, <1>3, <1>4, <2>1 DEF d
<1>6. ASSUME NEW r \in DOMAIN add[p].length, Loses(p, r)
      PROVE  /\ DOMAIN before = DOMAIN Data'
             /\ \A q \in DOMAIN Data' : /\ Len(before[q]) \in Nat
                                        /\ Len(before[q]) <= Data'[q] + d
                                        /\ Len(before[q]) <= 2 * Data'[q] + 1
  <2>1. /\ Data[r] > c /\ r \in DOMAIN Data
        /\ Data' = [s \in DOMAIN Data \cup {r} |-> IF s = r THEN Data[r] - 1 ELSE Data[s]]
    BY <1>2, <1>6 DEF Loses
  <2>2. d = c + 1
    <3>1. add'[p].own = Append(add[p].own, Available[p][add[p].done + 1])
      BY <1>6 DEF Loses
    <3>2. add[p].own \in Seq(Of(p))
      BY DEF TypeInv, AddTyped
    <3> QED BY <3>1, <3>2
  <2> HIDE DEF c, d
  <2>3. DOMAIN Data' = DOMAIN Data /\ Data'[r] = Data[r] - 1 /\ \A q \in DOMAIN Data : q # r => Data'[q] = Data[q]
    BY <2>1, ZenonT(60)
  <2>4. Len(before[r]) <= (Data[r] - 1) + d /\ Len(before[r]) <= 2 * (Data[r] - 1) + 1
    <3>1. Len(before[r]) \in Nat /\ Data[r] \in Nat /\ Len(before[r]) <= Data[r] + c
      BY <1>4, <2>1
    <3> QED BY <1>3, <2>1, <2>2, <3>1
  <2>5. ASSUME NEW q \in DOMAIN Data, q # r
        PROVE  Len(before[q]) <= Data[q] + d /\ Len(before[q]) <= 2 * Data[q] + 1
    <3>1. Len(before[q]) \in Nat /\ Data[q] \in Nat /\ Len(before[q]) <= Data[q] + c /\ Len(before[q]) <= 2 * Data[q] + 1
      BY <1>4
    <3> QED BY <1>3, <2>2, <3>1
  <2> QED BY <1>4, <2>3, <2>4, <2>5
<1> QED BY <1>1, <1>2, <1>5, <1>6 DEF Goes

LEMMA HalfNext == TypeInv /\ LiveInv /\ HalfInv /\ [Next]_vars => HalfInv'
<1> SUFFICES ASSUME TypeInv, LiveInv, HalfInv, [Next]_vars PROVE HalfInv'
  OBVIOUS
<1>1. ASSUME UNCHANGED <<add, array, Data, before, overlapped>>,
             \A q \in Peers : pc'[q] = "try" <=> pc[q] = "try"
      PROVE  HalfInv'
  BY <1>1 DEF HalfInv
<1>2. CASE UNCHANGED vars
  BY <1>1, <1>2 DEF vars, storeVars
<1>3. ASSUME NEW p \in Peers, StoreOwn(p) \/ Delete(p) PROVE HalfInv'
  <2> SUFFICES ASSUME ~overlapped' PROVE \A q \in Peers : pc'[q] # "try"
    BY DEF HalfInv
  <2>1. CASE StoreOwn(p)
    <3>1. pc[p] = "try" /\ ~overlapped
      BY <2>1 DEF StoreOwn
    <3>2. pc'[p] = "get" /\ \A q \in Peers : q # p => pc'[q] = pc[q]
      BY <2>1, GotoFacts DEF StoreOwn, TypeInv, PCs
    <3> QED BY <3>1, <3>2 DEF LiveInv, OneBusy, Busy
  <2>2. CASE Delete(p)
    <3>1. \A q \in Peers : pc[q] \notin Busy
      BY <2>2, EnterFacts DEF Delete
    <3>2. pc'[p] = "filter" /\ \A q \in Peers : q # p => pc'[q] = pc[q]
      BY <2>2, GotoFacts DEF Delete, TypeInv, PCs
    <3> QED BY <3>1, <3>2 DEF Busy
  <2> QED BY <1>3, <2>1, <2>2
<1>4. CASE Next
  BY <1>1, <1>3, <1>4, Steps, AsideFacts, HalfCopyEntries, HalfNextPath
<1> QED BY <1>2, <1>4

LEMMA AlwaysHalf == Spec => []HalfInv
<1>1. Init => HalfInv
  BY DEF Init, HalfInv
<1> QED BY <1>1, HalfNext, Typed, Live, PTL DEF Spec

-----------------------------------------------------------------------------
(* The sessions implement PathStore                                        *)

LEMMA ViewOf == StoreView = IF Adding THEN before ELSE Stored
BY DEF StoreView, Adding

\* The steps that the atomic store does not see.
LEMMA Unseen ==
  ASSUME TypeInv, LiveInv, NEW p \in Peers, ~overlapped', CopyEntries(p) \/ NextPath(p) \/ Aside(p)
  PROVE  StoreView' = StoreView
<1>1. CASE CopyEntries(p)
  <2>1. \A q \in Peers : pc[q] \notin Busy
    BY <1>1, EnterFacts DEF CopyEntries
  <2>2. before' = Stored
    BY <1>1 DEF CopyEntries
  <2>3. pc'[p] = "try"
    BY <1>1, GotoFacts DEF CopyEntries, TypeInv, PCs
  <2>4. Adding' /\ ~Adding
    BY <2>1, <2>3 DEF Adding, Busy
  <2>5. StoreView' = before'
    BY <2>4 DEF StoreView, Adding
  <2> QED BY <2>2, <2>4, <2>5, ViewOf
<1>2. CASE NextPath(p)
  <2>1. pc[p] = "try" /\ UNCHANGED <<pc, before>>
    BY <1>2 DEF NextPath
  <2> QED BY <2>1 DEF StoreView
<1>3. CASE Aside(p)
  <2>1. UNCHANGED <<array, Data, before>> /\ \A q \in Peers : pc'[q] = "try" <=> pc[q] = "try"
    BY <1>3, AsideFacts
  <2>2. Stored' = Stored
    BY <2>1 DEF Stored, Slice
  <2> QED BY <2>1, <2>2 DEF StoreView
<1> QED BY <1>1, <1>2, <1>3

\* Between the beginning and the end of AddPeerEntry its store is that before it.
LEMMA SeenStoreOwn ==
  ASSUME TypeInv, LiveInv, NEW p \in Peers, ~overlapped', StoreOwn(p)
  PROVE  /\ ~overlapped /\ pc[p] = "try" /\ add[p].length = Data /\ p \notin DOMAIN Data
         /\ StoreView = before
         /\ StoreView' = [q \in DOMAIN Data \cup {p} |->
                             IF q = p THEN ConflictFree(add[p].own) ELSE Stored[q]]
<1> DEFINE paths == ConflictFree(add[p].own)
<1>1. /\ pc[p] = "try" /\ UNCHANGED overlapped /\ array' = [array EXCEPT ![p] = paths]
      /\ Data' = [q \in DOMAIN Data \cup {p} |-> IF q = p THEN Len(paths) ELSE Data[q]]
  BY DEF StoreOwn
<1>2. pc'[p] = "get" /\ \A q \in Peers : q # p => pc'[q] = pc[q]
  BY GotoFacts DEF StoreOwn, TypeInv, PCs
<1>3. ~overlapped /\ add[p].length = Data /\ p \notin DOMAIN Data
  BY <1>1 DEF LiveInv, AsCopied, TypeInv, Lengths, Fits
<1>4. paths \in Seq(Of(p))
  BY ConflictFreeFacts DEF TypeInv, AddTyped
<1> HIDE DEF paths
<1>5. ~\E q \in Peers : pc'[q] = "try"
  BY <1>1, <1>2, <1>3 DEF LiveInv, OneBusy, Busy
<1>6. StoreView' = Stored' /\ StoreView = before
  BY <1>1, <1>5 DEF StoreView
<1>7. array'[p] = paths /\ \A q \in Peers : q # p => array'[q] = array[q]
  BY <1>1 DEF TypeInv, ArraysTyped
<1>8. SubSeq(paths, 1, Len(paths)) = paths
  <2>1. /\ SubSeq(paths, 1, Len(paths)) \in Seq(Of(p)) /\ Len(SubSeq(paths, 1, Len(paths))) = Len(paths)
        /\ \A i \in 1 .. Len(paths) : SubSeq(paths, 1, Len(paths))[i] = paths[i]
    BY <1>4
  <2> QED BY <1>4, <2>1, SeqEqual
<1>9. Stored' = [q \in DOMAIN Data \cup {p} |-> SubSeq(array'[q], 1, Data'[q])]
  BY <1>1 DEF Stored, Slice
<1>10. \A q \in DOMAIN Data \cup {p} :
          SubSeq(array'[q], 1, Data'[q]) = IF q = p THEN paths ELSE Stored[q]
  BY <1>1, <1>7, <1>8, StoredFacts DEF Slice
<1>11. Stored' = [q \in DOMAIN Data \cup {p} |-> IF q = p THEN paths ELSE Stored[q]]
  BY <1>9, <1>10
<1> QED BY <1>1, <1>3, <1>6, <1>11 DEF paths

LEMMA SeenDelete ==
  ASSUME TypeInv, LiveInv, NEW p \in Peers, ~overlapped', Delete(p)
  PROVE  /\ p \in DOMAIN Data /\ StoreView = Stored
         /\ StoreView' = [q \in DOMAIN Stored \ {p} |-> Stored[q]]
<1>1. /\ pc[p] = "lock" /\ UNCHANGED array /\ Enter /\ Data' = [q \in DOMAIN Data \ {p} |-> Data[q]]
  BY DEF Delete
<1>2. pc'[p] = "filter" /\ \A q \in Peers : q # p => pc'[q] = pc[q]
  BY GotoFacts DEF Delete, TypeInv, PCs
<1>3. \A q \in Peers : pc[q] # "try" /\ pc'[q] # "try"
  BY <1>1, <1>2, EnterFacts DEF Busy
<1>4. StoreView = Stored /\ StoreView' = Stored'
  BY <1>3 DEF StoreView
<1>5. Stored' = [q \in DOMAIN Data \ {p} |-> Slice(q, Data[q])]
  BY <1>1 DEF Stored, Slice
<1>6. DOMAIN Stored = DOMAIN Data /\ \A q \in DOMAIN Data : Stored[q] = Slice(q, Data[q])
  BY StoredFacts
<1>7. p \in DOMAIN Data
  BY <1>1 DEF LiveInv, Kept
<1> QED BY <1>4, <1>5, <1>6, <1>7

LEMMA HalfOf == ASSUME NEW a \in Nat, NEW b \in Nat, a <= 2 * b + 1 PROVE b >= a \div 2
OBVIOUS

\* As long as updates do not overlap, a newcomer leaves every other leecher half
\* of its paths, rounded down.
THEOREM HalfIsLeft == Spec => HalfKept
<1>1. TypeInv /\ LiveInv /\ HalfInv /\ [Next]_vars =>
         [~overlapped' => \A p \in DOMAIN StoreView \cap DOMAIN StoreView' :
                             Len(StoreView'[p]) >= Len(StoreView[p]) \div 2]_StoreView
  <2> SUFFICES ASSUME TypeInv, LiveInv, HalfInv, [Next]_vars, ~overlapped', StoreView' # StoreView,
                      NEW q \in DOMAIN StoreView \cap DOMAIN StoreView'
               PROVE  Len(StoreView'[q]) >= Len(StoreView[q]) \div 2
    OBVIOUS
  <2>1. CASE UNCHANGED vars
    BY <2>1 DEF vars, storeVars, StoreView, Stored, Slice
  <2>2. CASE Next
    <3>1. PICK p \in Peers : StoreOwn(p) \/ Delete(p)
      BY <2>2, Steps, Unseen
    <3>2. CASE StoreOwn(p)
      <4>1. /\ ~overlapped /\ pc[p] = "try" /\ p \notin DOMAIN Data /\ StoreView = before
            /\ StoreView' = [s \in DOMAIN Data \cup {p} |->
                                IF s = p THEN ConflictFree(add[p].own) ELSE Stored[s]]
        BY <3>2, SeenStoreOwn
      <4>2. DOMAIN before = DOMAIN Data
        BY <4>1 DEF HalfInv
      <4>3. q \in DOMAIN Data /\ StoreView'[q] = Stored[q]
        BY <4>1, <4>2
      <4>4. Len(before[q]) \in Nat /\ Len(before[q]) <= 2 * Data[q] + 1
        BY <4>1, <4>3 DEF HalfInv
      <4>5. Len(Stored[q]) = Data[q] /\ Data[q] \in Nat
        BY <4>3, StoredFacts
      <4>6. Data[q] >= Len(before[q]) \div 2
        BY <4>4, <4>5, HalfOf
      <4> QED BY <4>1, <4>3, <4>4, <4>5, <4>6
    <3>3. CASE Delete(p)
      <4>1. StoreView = Stored /\ StoreView' = [s \in DOMAIN Stored \ {p} |-> Stored[s]]
        BY <3>3, SeenDelete
      <4>2. StoreView'[q] = Stored[q] /\ q \in DOMAIN Data
        BY <4>1, StoredFacts
      <4>3. Len(Stored[q]) \in Nat
        BY <4>2, StoredFacts
      <4>4. Len(Stored[q]) >= Len(Stored[q]) \div 2
        <5>1. \A n \in Nat : n <= 2 * n + 1
          OBVIOUS
        <5> QED BY <4>3, <5>1, HalfOf
      <4> QED BY <4>1, <4>2, <4>4
    <3> QED BY <3>1, <3>2, <3>3
  <2> QED BY <2>1, <2>2
<1> QED BY <1>1, Typed, Live, AlwaysHalf, PTL DEF Spec, HalfKept

\* The rounds so far of the AddPeerEntry of p are the values f that the fold of
\* the atomic one goes through, for an order in which it may ask the others.
Begins(order, f) ==
    /\ order \in OrdersOf([q \in DOMAIN before |-> Len(before[q])])
    /\ f[0] = [own |-> <<>>, data |-> before, asked |-> order]

Rounds(p, f) ==
    /\ \A n \in Nat : n < add[p].done => f[n + 1] = TryPath(f[n], Available[p][n + 1])
    /\ f[add[p].done] = Round(p)

RunInv ==
    ~overlapped => \A p \in Peers : pc[p] = "try" =>
        DOMAIN before = DOMAIN Data /\ \E order, f : Begins(order, f) /\ Rounds(p, f)

LEMMA RunCopyEntries ==
  ASSUME TypeInv, LiveInv, NEW p \in Peers, CopyEntries(p)
  PROVE  RunInv'
<1>1. /\ UNCHANGED <<array, Data>> /\ Enter /\ before' = IF overlapped' THEN <<>> ELSE Stored
  BY DEF CopyEntries
<1>2. PICK order \in OrdersOf(Data) :
         add' = [add EXCEPT ![p] = [own |-> <<>>, asked |-> order, length |-> Data, done |-> 0]]
  BY DEF CopyEntries
<1>3. pc'[p] = "try" /\ \A q \in Peers : q # p => pc'[q] = pc[q]
  BY GotoFacts DEF CopyEntries, TypeInv, PCs
<1>4. add'[p] = [own |-> <<>>, asked |-> order, length |-> Data, done |-> 0]
  BY <1>2 DEF TypeInv, AddTyped
<1> SUFFICES ASSUME ~overlapped', NEW u \in Peers, pc'[u] = "try"
             PROVE  /\ DOMAIN before' = DOMAIN Data'
                    /\ \E o, f : Begins(o, f)' /\ Rounds(u, f)'
  BY DEF RunInv
<1>5. u = p
  BY <1>1, <1>3, EnterFacts DEF Busy
<1>6. before' = Stored
  BY <1>1
<1>7. DOMAIN Stored = DOMAIN Data /\ Data = [q \in DOMAIN Stored |-> Len(Stored[q])]
  <2>1. Data \in [DOMAIN Data -> Nat]
    BY DEF TypeInv, Lengths, Fits
  <2>2. DOMAIN Stored = DOMAIN Data /\ \A q \in DOMAIN Data : Len(Stored[q]) = Data[q]
    BY StoredFacts
  <2> QED BY <2>1, <2>2
<1> PICK f : f = [n \in {0} |-> [own |-> <<>>, data |-> Stored, asked |-> order]]
  OBVIOUS
<1>8. Begins(order, f)'
  <2>1. f[0] = [own |-> <<>>, data |-> Stored, asked |-> order]
    OBVIOUS
  <2> QED BY <1>2, <1>6, <1>7, <2>1 DEF Begins
<1>9. Rounds(p, f)'
  <2>1. Round(p)' = [own |-> <<>>, asked |-> order, data |-> Stored]
    BY <1>1, <1>4 DEF Round, Stored, Slice
  <2>2. f[0] = [own |-> <<>>, data |-> Stored, asked |-> order] /\ add'[p].done = 0
    BY <1>4
  <2> QED BY <2>1, <2>2 DEF Rounds
<1> QED BY <1>1, <1>5, <1>6, <1>7, <1>8, <1>9

LEMMA RunNextPath ==
  ASSUME TypeInv, LiveInv, RunInv, HalfInv', NEW p \in Peers, NextPath(p)
  PROVE  RunInv'
<1>1. UNCHANGED <<pc, before, overlapped>> /\ Goes(p)
  BY NextPathFacts DEF NextPath
<1>2. Round(p)' = TryPath(Round(p), Available[p][add[p].done + 1])
  BY NextPathFacts
<1> SUFFICES ASSUME ~overlapped, NEW u \in Peers, pc[u] = "try"
             PROVE  /\ DOMAIN before' = DOMAIN Data'
                    /\ \E o, f : Begins(o, f)' /\ Rounds(u, f)'
  BY <1>1 DEF RunInv
<1>3. u = p /\ pc[p] = "try" /\ DOMAIN before' = DOMAIN Data'
  BY <1>1 DEF Goes, LiveInv, OneBusy, Busy, HalfInv
<1>4. PICK order, f : Begins(order, f) /\ Rounds(p, f)
  BY <1>3 DEF RunInv
<1> PICK k : k = add[p].done
  OBVIOUS
<1>5. k \in Nat /\ add'[p].done = k + 1
  BY <1>1 DEF TypeInv, AddTyped, Goes
<1>6. PICK g : g[k + 1] = Round(p)' /\ \A n \in Nat : n <= k => g[n] = f[n]
  <2> DEFINE h == [n \in Nat |-> IF n <= k THEN f[n] ELSE Round(p)']
  <2>1. h[k + 1] = Round(p)' /\ \A n \in Nat : n <= k => h[n] = f[n]
    BY <1>5
  <2> QED BY <2>1
<1>7. Begins(order, g)'
  BY <1>1, <1>4, <1>5, <1>6 DEF Begins
<1>8. Rounds(p, g)'
  <2>1. ASSUME NEW n \in Nat, n < k + 1
        PROVE  g[n + 1] = TryPath(g[n], Available[p][n + 1])
    <3>1. CASE n < k
      <4>1. f[n + 1] = TryPath(f[n], Available[p][n + 1])
        BY <1>4, <3>1 DEF Rounds
      <4>2. n <= k /\ n + 1 <= k
        BY <1>5, <3>1
      <4> QED BY <1>6, <4>1, <4>2
    <3>2. CASE n = k
      <4>1. f[k] = Round(p)
        BY <1>4 DEF Rounds
      <4>2. g[k] = f[k]
        BY <1>5, <1>6
      <4> QED BY <1>2, <1>6, <3>2, <4>1, <4>2
    <3> QED BY <1>5, <2>1, <3>1, <3>2
  <2> QED BY <1>5, <1>6, <2>1 DEF Rounds
<1> QED BY <1>3, <1>7, <1>8

LEMMA RunNext == TypeInv /\ LiveInv /\ RunInv /\ HalfInv' /\ [Next]_vars => RunInv'
<1> SUFFICES ASSUME TypeInv, LiveInv, RunInv, HalfInv', [Next]_vars PROVE RunInv'
  OBVIOUS
<1>1. ASSUME UNCHANGED <<add, array, Data, before, overlapped>>,
             \A q \in Peers : pc'[q] = "try" <=> pc[q] = "try"
      PROVE  RunInv'
  <2>1. \A p \in Peers : Round(p)' = Round(p)
    BY <1>1 DEF Round, Slice
  <2>2. ASSUME NEW p \in Peers, NEW order, NEW f
        PROVE  (Begins(order, f) /\ Rounds(p, f)) => (Begins(order, f)' /\ Rounds(p, f)')
    BY <1>1, <2>1 DEF Begins, Rounds
  <2> QED BY <1>1, <2>2 DEF RunInv
<1>2. CASE UNCHANGED vars
  BY <1>1, <1>2 DEF vars, storeVars
<1>3. ASSUME NEW p \in Peers, StoreOwn(p) \/ Delete(p) PROVE RunInv'
  <2> SUFFICES ASSUME ~overlapped' PROVE \A q \in Peers : pc'[q] # "try"
    BY DEF RunInv
  <2>1. CASE StoreOwn(p)
    <3>1. pc[p] = "try" /\ ~overlapped
      BY <2>1 DEF StoreOwn
    <3>2. pc'[p] = "get" /\ \A q \in Peers : q # p => pc'[q] = pc[q]
      BY <2>1, GotoFacts DEF StoreOwn, TypeInv, PCs
    <3> QED BY <3>1, <3>2 DEF LiveInv, OneBusy, Busy
  <2>2. CASE Delete(p)
    <3>1. \A q \in Peers : pc[q] \notin Busy
      BY <2>2, EnterFacts DEF Delete
    <3>2. pc'[p] = "filter" /\ \A q \in Peers : q # p => pc'[q] = pc[q]
      BY <2>2, GotoFacts DEF Delete, TypeInv, PCs
    <3> QED BY <3>1, <3>2 DEF Busy
  <2> QED BY <1>3, <2>1, <2>2
<1>4. CASE Next
  BY <1>1, <1>3, <1>4, Steps, AsideFacts, RunCopyEntries, RunNextPath
<1> QED BY <1>2, <1>4

LEMMA AlwaysRun == Spec => []RunInv
<1>1. Init => RunInv
  BY DEF Init, RunInv
<1> QED BY <1>1, RunNext, Typed, Live, AlwaysHalf, PTL DEF Spec

\* As long as updates do not overlap, the steps of the sessions are those of the
\* atomic store: the rounds of AddPeerEntry and the end of it add one entry, the
\* removal deletes one, and nothing else changes the store.
THEOREM ImplementsPathStore == Spec => RefinesStore
<1>1. TypeInv /\ LiveInv /\ RunInv /\ [Next]_vars => [overlapped' \/ Atomic!Next]_StoreView
  <2> SUFFICES ASSUME TypeInv, LiveInv, RunInv, [Next]_vars, ~overlapped', StoreView' # StoreView
               PROVE  Atomic!Next
    OBVIOUS
  <2>1. CASE UNCHANGED vars
    BY <2>1 DEF vars, storeVars, StoreView, Stored, Slice
  <2>2. CASE Next
    <3>1. PICK p \in Peers : StoreOwn(p) \/ Delete(p)
      BY <2>2, Steps, Unseen
    <3>2. CASE StoreOwn(p)
      <4>1. /\ ~overlapped /\ pc[p] = "try" /\ add[p].length = Data /\ p \notin DOMAIN Data
            /\ StoreView = before
            /\ StoreView' = [s \in DOMAIN Data \cup {p} |->
                                IF s = p THEN ConflictFree(add[p].own) ELSE Stored[s]]
        BY <3>2, SeenStoreOwn
      <4>2. PICK order, f : Begins(order, f) /\ Rounds(p, f)
        BY <4>1 DEF RunInv
      <4>3. DOMAIN before = DOMAIN Data
        BY <4>1 DEF RunInv
      <4> DEFINE base == [own |-> <<>>, data |-> before, asked |-> order]
                 last == Atomic!FoldLeft(Atomic!TryPath, base, Available[p])
      <4>4. last = Round(p)
        <5>1. add[p].done = Len(Available[p]) /\ Available[p] \in Seq(Of(p)) /\ Len(Available[p]) \in Nat
          BY <3>2, AvailableFacts DEF StoreOwn
        <5>2. TryFold!Run(0, base, Available[p], f)
          <6>1. f[0] = base
            BY <4>2 DEF Begins
          <6>2. ASSUME NEW n \in 0 .. Len(Available[p]) - 1
                PROVE  f[n + 1] = TryPath(f[n], Available[p][n + 1])
            <7>1. n \in Nat /\ n < Len(Available[p])
              BY <5>1
            <7> QED BY <4>2, <5>1, <7>1 DEF Rounds
          <6> HIDE DEF base
          <6> QED BY <6>1, <6>2 DEF TryFold!Run, TryStep
        <5> HIDE DEF base
        <5>3. TryFold!Value(0, base, Available[p]) = f[Len(Available[p])]
          BY <5>1, <5>2, TryFold!RunGivesFold
        <5>4. last = TryFold!Value(0, base, Available[p])
          BY SameFold
        <5> QED BY <4>2, <5>1, <5>3, <5>4 DEF Rounds
      <4> HIDE DEF last
      <4>5. last.own = add[p].own /\ \A q \in DOMAIN Data : last.data[q] = Stored[q]
        BY <4>1, <4>4, StoredFacts DEF Round
      <4>6. order \in Atomic!OrdersOf([q \in DOMAIN StoreView |-> Len(StoreView[q])])
        BY <4>1, <4>2, SameOrders DEF Begins
      <4>7. StoreView' = [q \in DOMAIN StoreView \cup {p} |->
                             IF q = p THEN Atomic!ConflictFree(last.own) ELSE last.data[q]]
        BY <4>1, <4>3, <4>5, SameConflictFree
      <4>8. p \notin DOMAIN StoreView
        BY <4>1, <4>3
      <4>9. last = Atomic!FoldLeft(Atomic!TryPath, [own |-> <<>>, data |-> StoreView, asked |-> order], Available[p])
        BY <4>1 DEF last
      <4>10. Atomic!AddPeerEntry(p)
        BY <4>6, <4>7, <4>8, <4>9 DEF Atomic!AddPeerEntry
      <4> QED BY <4>10 DEF Atomic!Next
    <3>3. CASE Delete(p)
      <4>1. /\ p \in DOMAIN Data /\ StoreView = Stored
            /\ StoreView' = [s \in DOMAIN Stored \ {p} |-> Stored[s]]
        BY <3>3, SeenDelete
      <4>2. Atomic!DeletePeer(p)
        BY <4>1, StoredFacts DEF Atomic!DeletePeer
      <4> QED BY <4>2 DEF Atomic!Next
    <3> QED BY <3>1, <3>2, <3>3
  <2> QED BY <2>1, <2>2
<1> QED BY <1>1, Typed, Live, AlwaysRun, PTL DEF Spec, RefinesStore
=============================================================================
