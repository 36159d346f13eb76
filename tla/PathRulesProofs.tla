-------------------------- MODULE PathRulesProofs --------------------------
(***************************************************************************)
(* What the operators of PathRules compute, for paths and sequences of any *)
(* length: by induction on the length, with the laws of FoldLaws.          *)
(***************************************************************************)
EXTENDS PathRules, SequenceTheorems, FiniteSetTheorems, TLAPS

-----------------------------------------------------------------------------
(* Sequences                                                               *)

\* The elements of a longer sequence, and of a shorter one.
LEMMA RangeOfAppend ==
  ASSUME NEW P, NEW s \in Seq(P), NEW x
  PROVE  Range(Append(s, x)) = Range(s) \cup {x}
<1>1. /\ DOMAIN Append(s, x) = 1 .. Len(s) + 1 /\ DOMAIN s = 1 .. Len(s)
      /\ \A i \in 1 .. Len(s) : Append(s, x)[i] = s[i]
      /\ Append(s, x)[Len(s) + 1] = x
  OBVIOUS
<1>2. Range(Append(s, x)) = {Append(s, x)[i] : i \in 1 .. Len(s) + 1}
  BY <1>1 DEF Range
<1>3. Range(s) = {s[i] : i \in 1 .. Len(s)}
  BY <1>1 DEF Range
<1>4. \A i \in 1 .. Len(s) + 1 : i \in 1 .. Len(s) \/ i = Len(s) + 1
  OBVIOUS
<1>5. 1 .. Len(s) \subseteq 1 .. Len(s) + 1 /\ Len(s) + 1 \in 1 .. Len(s) + 1
  OBVIOUS
<1> QED BY <1>1, <1>2, <1>3, <1>4, <1>5

LEMMA SeqElements ==
  ASSUME NEW P, NEW s \in Seq(P)
  PROVE  /\ Range(s) \subseteq P /\ s \in Seq(Range(s))
         /\ \A i \in 1 .. Len(s) : s[i] \in Range(s)
         /\ \A x \in Range(s) : \E i \in 1 .. Len(s) : s[i] = x
<1>1. Range(s) = {s[i] : i \in 1 .. Len(s)}
  BY DEF Range
<1>2. \A i \in 1 .. Len(s) : s[i] \in Range(s)
  BY <1>1
<1>3. s \in Seq(Range(s))
  BY <1>2
<1> QED BY <1>1, <1>2, <1>3

-----------------------------------------------------------------------------
(* Filter                                                                  *)

FilterStep(set, kept, x) == IF x \in set THEN Append(kept, x) ELSE kept

FilterFold == INSTANCE FoldLaws WITH Op <- FilterStep

LEMMA FilterIsFold ==
  ASSUME NEW seq, NEW set
  PROVE  Filter(seq, set) = FilterFold!Value(set, <<>>, seq)
BY DEF Filter, FoldLeft, MapThenFoldSet, Max, FilterFold!Value, FilterFold!Body,
       FilterFold!Greatest, FilterStep

\* Filter keeps what is in the set.
LEMMA FilterFacts ==
  ASSUME NEW P, NEW seq \in Seq(P), NEW set
  PROVE  /\ Filter(seq, set) \in Seq(P)
         /\ Range(Filter(seq, set)) = Range(seq) \cap set
<1>1. PICK f : /\ FilterFold!Run(set, <<>>, seq, f)
               /\ Filter(seq, set) = f[Len(seq)]
  BY FilterIsFold, FilterFold!FoldRuns
<1> DEFINE S == {n \in Nat : n <= Len(seq) =>
                    /\ f[n] \in Seq(P)
                    /\ Range(f[n]) = {seq[i] : i \in 1 .. n} \cap set}
<1>2. 0 \in S
  <2>1. f[0] = <<>>
    BY <1>1 DEF FilterFold!Run
  <2>2. Range(<<>>) = {} /\ {seq[i] : i \in 1 .. 0} = {}
    BY DEF Range
  <2>3. <<>> \in Seq(P)
    OBVIOUS
  <2>4. f[0] \in Seq(P) /\ Range(f[0]) = {seq[i] : i \in 1 .. 0} \cap set
    BY <2>1, <2>2, <2>3
  <2> QED BY <2>4
<1>3. ASSUME NEW n \in Nat, n \in S PROVE n + 1 \in S
  <2> SUFFICES ASSUME n + 1 <= Len(seq)
               PROVE  /\ f[n + 1] \in Seq(P)
                      /\ Range(f[n + 1]) = {seq[i] : i \in 1 .. n + 1} \cap set
    OBVIOUS
  <2> DEFINE x == seq[n + 1]
  <2>1. f[n + 1] = FilterStep(set, f[n], x)
    BY <1>1 DEF FilterFold!Run
  <2>2. f[n] \in Seq(P) /\ Range(f[n]) = {seq[i] : i \in 1 .. n} \cap set /\ x \in P
    BY <1>3
  <2>3. {seq[i] : i \in 1 .. n + 1} = {seq[i] : i \in 1 .. n} \cup {x}
    OBVIOUS
  <2> HIDE DEF x
  <2>4. CASE x \in set
    <3>1. f[n + 1] = Append(f[n], x)
      BY <2>1, <2>4 DEF FilterStep
    <3>2. Range(Append(f[n], x)) = Range(f[n]) \cup {x}
      BY <2>2, RangeOfAppend
    <3> QED BY <2>2, <2>3, <2>4, <3>1, <3>2
  <2>5. CASE x \notin set
    BY <2>1, <2>2, <2>3, <2>5 DEF FilterStep
  <2> QED BY <2>4, <2>5
<1> HIDE DEF S
<1>4. Nat \subseteq S
  BY <1>2, <1>3, FilterFold!Induction
<1>5. Range(seq) = {seq[i] : i \in 1 .. Len(seq)}
  BY DEF Range
<1>6. Len(seq) \in S
  BY <1>4
<1> QED BY <1>1, <1>5, <1>6 DEF S

-----------------------------------------------------------------------------
(* Parts of a sequence: some of its elements, in their order               *)

\* e tells where in seq the elements of s are.
Places(s, seq, e) ==
    /\ \A i, j \in 1 .. Len(s) : i < j => e[i] < e[j]
    /\ \A i \in 1 .. Len(s) : s[i] = seq[e[i]]

\* s is a part of the first n elements of seq.
Part(s, seq, n) == \E e \in [1 .. Len(s) -> 1 .. n] : Places(s, seq, e)

\* Removing one element.
LEMMA RemoveFacts ==
  ASSUME NEW P, NEW s \in Seq(P), NEW i \in 1 .. Len(s)
  PROVE  /\ RemovePath(s, i) \in Seq(P) /\ Len(RemovePath(s, i)) = Len(s) - 1
         /\ \A j \in 1 .. Len(s) - 1 : RemovePath(s, i)[j] = IF j < i THEN s[j] ELSE s[j + 1]
<1> DEFINE a == SubSeq(s, 1, i - 1)
           b == SubSeq(s, i + 1, Len(s))
<1>1. /\ a \in Seq(P) /\ Len(a) = i - 1 /\ \A j \in 1 .. i - 1 : a[j] = s[j]
      /\ b \in Seq(P) /\ Len(b) = Len(s) - i /\ \A j \in 1 .. Len(s) - i : b[j] = s[i + j]
  OBVIOUS
<1>2. RemovePath(s, i) = a \o b
  BY DEF RemovePath, RemoveAt
<1> HIDE DEF a, b
<1>3. a \o b \in Seq(P) /\ Len(a \o b) = Len(s) - 1
  <2>1. a \o b \in Seq(P) /\ Len(a \o b) = Len(a) + Len(b)
    BY <1>1, ConcatProperties
  <2> QED BY <1>1, <2>1
<1>4. ASSUME NEW j \in 1 .. Len(s) - 1 PROVE (a \o b)[j] = IF j < i THEN s[j] ELSE s[j + 1]
  <2>1. CASE j < i
    <3>1. j \in 1 .. Len(a)
      BY <1>1, <2>1
    <3> QED BY <1>1, <2>1, <3>1
  <2>2. CASE ~(j < i)
    <3>1. j - Len(a) \in 1 .. Len(s) - i /\ j \in Len(a) + 1 .. Len(a) + Len(b)
      BY <1>1, <2>2
    <3>2. (a \o b)[j] = b[j - Len(a)]
      BY <1>1, <3>1
    <3>3. b[j - Len(a)] = s[i + (j - Len(a))] /\ i + (j - Len(a)) = j + 1
      BY <1>1, <3>1
    <3> QED BY <2>2, <3>2, <3>3
  <2> QED BY <2>1, <2>2
<1> QED BY <1>2, <1>3, <1>4

\* Nothing is a part of everything.
LEMMA PartEmpty == ASSUME NEW seq, NEW n \in Nat PROVE Part(<<>>, seq, n)
<1>1. Len(<<>>) = 0 /\ 1 .. 0 = {}
  OBVIOUS
<1> DEFINE e == [i \in 1 .. 0 |-> 1]
<1>2. e \in [1 .. 0 -> 1 .. n]
  BY <1>1
<1> QED BY <1>1, <1>2 DEF Part, Places

\* A part of the first elements is a part of more of them.
LEMMA PartMore ==
  ASSUME NEW s, NEW seq, NEW n \in Nat, NEW m \in Nat, n <= m, Part(s, seq, n)
  PROVE  Part(s, seq, m)
<1>1. PICK e \in [1 .. Len(s) -> 1 .. n] : Places(s, seq, e)
  BY DEF Part
<1>2. e \in [1 .. Len(s) -> 1 .. m]
  OBVIOUS
<1> QED BY <1>1, <1>2 DEF Part

\* A part can be extended with the element after it.
LEMMA PartAppend ==
  ASSUME NEW P, NEW s \in Seq(P), NEW seq, NEW n \in Nat, seq[n + 1] \in P, Part(s, seq, n)
  PROVE  Part(Append(s, seq[n + 1]), seq, n + 1)
<1>1. PICK e \in [1 .. Len(s) -> 1 .. n] : Places(s, seq, e)
  BY DEF Part
<1> DEFINE t == Append(s, seq[n + 1])
           g == [i \in 1 .. Len(s) + 1 |-> IF i = Len(s) + 1 THEN n + 1 ELSE e[i]]
<1>2. /\ Len(t) = Len(s) + 1 /\ t[Len(s) + 1] = seq[n + 1]
      /\ \A i \in 1 .. Len(s) : t[i] = s[i]
  OBVIOUS
<1>3. \A i \in 1 .. Len(s) : e[i] \in 1 .. n
  OBVIOUS
<1>4. \A i \in 1 .. Len(s) + 1 : g[i] \in 1 .. n + 1
  BY <1>3
<1>5. g \in [1 .. Len(t) -> 1 .. n + 1]
  BY <1>2, <1>4
<1>6. \A i, j \in 1 .. Len(s) + 1 : i < j => g[i] < g[j]
  BY <1>1, <1>3 DEF Places
<1>7. \A i \in 1 .. Len(s) + 1 : t[i] = seq[g[i]]
  BY <1>1, <1>2 DEF Places
<1> HIDE DEF g, t
<1>8. Part(t, seq, n + 1)
  BY <1>2, <1>5, <1>6, <1>7 DEF Part, Places
<1> QED BY <1>8 DEF t

\* A part from which an element is removed is a part.
LEMMA PartRemove ==
  ASSUME NEW P, NEW s \in Seq(P), NEW seq, NEW n \in Nat, Part(s, seq, n), NEW i \in 1 .. Len(s)
  PROVE  Part(RemovePath(s, i), seq, n)
<1>1. PICK e \in [1 .. Len(s) -> 1 .. n] : Places(s, seq, e)
  BY DEF Part
<1> DEFINE t == RemovePath(s, i)
           g == [j \in 1 .. Len(s) - 1 |-> IF j < i THEN e[j] ELSE e[j + 1]]
<1>2. Len(t) = Len(s) - 1 /\ \A j \in 1 .. Len(s) - 1 : t[j] = IF j < i THEN s[j] ELSE s[j + 1]
  BY RemoveFacts
<1>3. \A j \in 1 .. Len(s) - 1 : j \in 1 .. Len(s) /\ j + 1 \in 1 .. Len(s)
  OBVIOUS
<1> HIDE DEF t
<1>4. g \in [1 .. Len(t) -> 1 .. n]
  BY <1>2, <1>3
<1>5. \A j, k \in 1 .. Len(s) - 1 : j < k => g[j] < g[k]
  BY <1>1, <1>3 DEF Places
<1>6. \A j \in 1 .. Len(s) - 1 : t[j] = seq[g[j]]
  BY <1>1, <1>2, <1>3 DEF Places
<1> HIDE DEF g
<1>7. Part(t, seq, n)
  BY <1>2, <1>4, <1>5, <1>6 DEF Part, Places
<1> QED BY <1>7 DEF t

\* A part of a part is a part.
LEMMA PartOfPart ==
  ASSUME NEW P, NEW s \in Seq(P), NEW t \in Seq(P), NEW seq, NEW n \in Nat,
         Part(t, s, Len(s)), Part(s, seq, n)
  PROVE  Part(t, seq, n)
<1>1. PICK d \in [1 .. Len(t) -> 1 .. Len(s)] : Places(t, s, d)
  BY DEF Part
<1>2. PICK e \in [1 .. Len(s) -> 1 .. n] : Places(s, seq, e)
  BY DEF Part
<1> DEFINE g == [i \in 1 .. Len(t) |-> e[d[i]]]
<1>3. \A i \in 1 .. Len(t) : d[i] \in 1 .. Len(s) /\ e[d[i]] \in 1 .. n
  BY <1>1, <1>2
<1>4. g \in [1 .. Len(t) -> 1 .. n]
  BY <1>3
<1>5. Places(t, seq, g)
  BY <1>1, <1>2, <1>3 DEF Places
<1> QED BY <1>4, <1>5 DEF Part

\* The elements of a part are elements of the whole.
LEMMA PartElements ==
  ASSUME NEW P, NEW s \in Seq(P), NEW Q, NEW seq \in Seq(Q), NEW n \in 0 .. Len(seq), Part(s, seq, n)
  PROVE  s \in Seq(Range(seq))
<1>1. PICK e \in [1 .. Len(s) -> 1 .. n] : Places(s, seq, e)
  BY DEF Part
<1>2. \A i \in 1 .. Len(s) : e[i] \in 1 .. Len(seq)
  BY <1>1
<1>3. \A i \in 1 .. Len(s) : s[i] \in Range(seq)
  BY <1>1, <1>2, SeqElements DEF Places
<1> QED BY <1>3

\* A part of a sequence without repetitions is what a set filters from it.
LEMMA PartIsFilter ==
  ASSUME NEW P, NEW s \in Seq(P), NEW seq \in Seq(P), Part(s, seq, Len(seq)),
         \A i, j \in DOMAIN seq : seq[i] = seq[j] => i = j
  PROVE  s = Filter(seq, Range(s))
<1>1. PICK e \in [1 .. Len(s) -> 1 .. Len(seq)] : Places(s, seq, e)
  BY DEF Part
<1>2. PICK f : /\ FilterFold!Run(Range(s), <<>>, seq, f)
               /\ Filter(seq, Range(s)) = f[Len(seq)]
  BY FilterIsFold, FilterFold!FoldRuns
<1>3. /\ \A i \in 1 .. Len(s) : e[i] \in 1 .. Len(seq) /\ s[i] = seq[e[i]]
      /\ \A i, j \in 1 .. Len(s) : i < j => e[i] < e[j]
  BY <1>1 DEF Places
<1> DEFINE Upto(n, m) == /\ f[n] = SubSeq(s, 1, m)
                         /\ \A i \in 1 .. Len(s) : e[i] <= n <=> i <= m
           S == {n \in Nat : n <= Len(seq) => \E m \in 0 .. Len(s) : Upto(n, m)}
<1>4. 0 \in S
  <2>1. f[0] = <<>> /\ SubSeq(s, 1, 0) = <<>>
    BY <1>2 DEF FilterFold!Run
  <2>2. \A i \in 1 .. Len(s) : ~(e[i] <= 0) /\ ~(i <= 0)
    BY <1>3
  <2>3. 0 \in 0 .. Len(s) /\ Upto(0, 0)
    BY <2>1, <2>2
  <2> QED BY <2>3
<1>5. ASSUME NEW n \in Nat, n \in S PROVE n + 1 \in S
  <2> SUFFICES ASSUME n + 1 <= Len(seq) PROVE \E m \in 0 .. Len(s) : Upto(n + 1, m)
    OBVIOUS
  <2>1. PICK m \in 0 .. Len(s) : Upto(n, m)
    BY <1>5
  <2> DEFINE x == seq[n + 1]
  <2>2. f[n + 1] = FilterStep(Range(s), f[n], x)
    BY <1>2 DEF FilterFold!Run
  <2>3. CASE x \in Range(s)
    <3>1. PICK i \in 1 .. Len(s) : s[i] = x
      BY <2>3, SeqElements
    <3>2. e[i] = n + 1
      BY <1>3, <3>1
    <3>3. ~(i <= m)
      BY <2>1, <3>2
    <3>4. i = m + 1
      <4> SUFFICES ASSUME i # m + 1 PROVE FALSE
        OBVIOUS
      <4>1. m + 1 \in 1 .. Len(s) /\ m + 1 < i
        BY <3>3
      <4>2. e[m + 1] < n + 1 /\ e[m + 1] \in Nat
        BY <1>3, <3>2, <4>1
      <4>3. e[m + 1] <= n
        BY <4>2
      <4> QED BY <2>1, <4>1, <4>3
    <3>5. f[n + 1] = SubSeq(s, 1, m + 1)
      <4>1. f[n + 1] = Append(SubSeq(s, 1, m), s[m + 1])
        BY <2>1, <2>2, <2>3, <3>1, <3>4 DEF FilterStep
      <4> QED BY <3>4, <4>1
    <3>6. ASSUME NEW j \in 1 .. Len(s) PROVE e[j] <= n + 1 <=> j <= m + 1
      <4>0. e[j] \in Nat /\ j \in Nat /\ m \in Nat
        BY <1>3
      <4>1. CASE j <= m
        BY <2>1, <4>0, <4>1
      <4>2. CASE j = m + 1
        BY <3>2, <3>4, <4>2
      <4>3. CASE j > m + 1
        BY <1>3, <3>2, <3>4, <4>0, <4>3
      <4> QED BY <4>0, <4>1, <4>2, <4>3
    <3>7. m + 1 \in 0 .. Len(s) /\ Upto(n + 1, m + 1)
      BY <3>4, <3>5, <3>6
    <3> QED BY <3>7
  <2>4. CASE x \notin Range(s)
    <3>1. f[n + 1] = SubSeq(s, 1, m)
      BY <2>1, <2>2, <2>4 DEF FilterStep
    <3>2. \A i \in 1 .. Len(s) : e[i] # n + 1
      <4>1. \A i \in 1 .. Len(s) : s[i] \in Range(s)
        BY SeqElements
      <4> QED BY <1>3, <2>4, <4>1
    <3>3. ASSUME NEW i \in 1 .. Len(s) PROVE e[i] <= n + 1 <=> i <= m
      <4>1. e[i] \in Nat
        BY <1>3
      <4>2. e[i] <= n + 1 <=> e[i] <= n
        BY <3>2, <4>1
      <4> QED BY <2>1, <4>2
    <3> QED BY <3>1, <3>3
  <2> QED BY <2>3, <2>4
<1> HIDE DEF S
<1>6. Nat \subseteq S
  BY <1>4, <1>5, FilterFold!Induction
<1>7. PICK m \in 0 .. Len(s) : Upto(Len(seq), m)
  BY <1>6 DEF S
<1>8. m = Len(s)
  <2> SUFFICES ASSUME m # Len(s) PROVE FALSE
    OBVIOUS
  <2>1. Len(s) \in 1 .. Len(s) /\ ~(Len(s) <= m)
    OBVIOUS
  <2> QED BY <1>3, <1>7, <2>1
<1> QED BY <1>2, <1>7, <1>8

-----------------------------------------------------------------------------
(* Conflicts                                                               *)

\* No path conflicts with one before it.
Disjoint(paths) ==
    \A i, j \in 1 .. Len(paths) : i < j => ~PathsConflict(paths[j], paths[i])

\* getPeerConflictPaths finds a conflict when there is one.
LEMMA FirstConflictFacts ==
  ASSUME NEW P, NEW paths \in Seq(P), NEW path
  PROVE  /\ FirstConflict(path, paths) \in 0 .. Len(paths)
         /\ FirstConflict(path, paths) = 0 => \A i \in 1 .. Len(paths) : ~PathsConflict(path, paths[i])
<1> DEFINE I == {i \in 1 .. Len(paths) : PathsConflict(path, paths[i])}
<1>1. FirstConflict(path, paths) = IF I # {} THEN Min(I) ELSE 0
  BY DEF FirstConflict, SelectInSeq
<1>2. I \in SUBSET Nat /\ I \subseteq 1 .. Len(paths)
  OBVIOUS
<1>3. CASE I = {}
  BY <1>1, <1>3
<1>4. CASE I # {}
  <2> HIDE DEF I
  <2>1. \E x \in I : \A y \in I : x <= y
    BY <1>2, <1>4, FilterFold!Least
  <2>2. Min(I) \in I
    BY <2>1 DEF Min
  <2>3. Min(I) \in 1 .. Len(paths)
    BY <1>2, <2>2
  <2> QED BY <1>1, <1>4, <2>3
<1> QED BY <1>3, <1>4

\* Paths stay free of conflicts when one is removed.
LEMMA DisjointRemove ==
  ASSUME NEW P, NEW paths \in Seq(P), Disjoint(paths), NEW i \in 1 .. Len(paths)
  PROVE  Disjoint(RemovePath(paths, i))
<1> DEFINE t == RemovePath(paths, i)
<1>1. /\ Len(t) = Len(paths) - 1
      /\ \A j \in 1 .. Len(paths) - 1 : t[j] = IF j < i THEN paths[j] ELSE paths[j + 1]
  BY RemoveFacts
<1> HIDE DEF t
<1>2. ASSUME NEW j \in 1 .. Len(t), NEW k \in 1 .. Len(t), j < k PROVE ~PathsConflict(t[k], t[j])
  <2>1. PICK a \in 1 .. Len(paths) : t[j] = paths[a] /\ a = IF j < i THEN j ELSE j + 1
    BY <1>1
  <2>2. PICK b \in 1 .. Len(paths) : t[k] = paths[b] /\ b = IF k < i THEN k ELSE k + 1
    BY <1>1
  <2>3. a < b
    BY <1>1, <1>2, <2>1, <2>2
  <2> QED BY <2>1, <2>2, <2>3 DEF Disjoint
<1> QED BY <1>2 DEF Disjoint, t

KeepStep(par, kept, path) == IF FirstConflict(path, kept) = 0 THEN Append(kept, path) ELSE kept

KeepFold == INSTANCE FoldLaws WITH Op <- KeepStep

LEMMA KeepIsFold ==
  ASSUME NEW paths
  PROVE  ConflictFree(paths) = KeepFold!Value(0, <<>>, paths)
BY DEF ConflictFree, FoldLeft, MapThenFoldSet, Max, KeepFold!Value, KeepFold!Body,
       KeepFold!Greatest, KeepStep

\* getConflictFreePaths keeps some of the paths, in their order, without conflicts.
LEMMA ConflictFreeFacts ==
  ASSUME NEW P, NEW paths \in Seq(P)
  PROVE  /\ ConflictFree(paths) \in Seq(P)
         /\ Part(ConflictFree(paths), paths, Len(paths))
         /\ Disjoint(ConflictFree(paths))
<1>1. PICK f : KeepFold!Run(0, <<>>, paths, f) /\ ConflictFree(paths) = f[Len(paths)]
  BY KeepIsFold, KeepFold!FoldRuns
<1> DEFINE Ok(n) == f[n] \in Seq(P) /\ Part(f[n], paths, n) /\ Disjoint(f[n])
           S == {n \in Nat : n <= Len(paths) => Ok(n)}
<1>2. 0 \in S
  <2>1. f[0] = <<>>
    BY <1>1 DEF KeepFold!Run
  <2>2. Disjoint(<<>>) /\ <<>> \in Seq(P)
    BY DEF Disjoint
  <2>3. Part(<<>>, paths, 0)
    BY PartEmpty
  <2>4. Ok(0)
    BY <2>1, <2>2, <2>3
  <2> QED BY <2>4
<1>3. ASSUME NEW n \in Nat, n \in S PROVE n + 1 \in S
  <2> SUFFICES ASSUME n + 1 <= Len(paths) PROVE Ok(n + 1)
    OBVIOUS
  <2> DEFINE x == paths[n + 1]
  <2>1. Ok(n) /\ x \in P
    BY <1>3
  <2>2. f[n + 1] = KeepStep(0, f[n], x)
    BY <1>1 DEF KeepFold!Run
  <2>3. CASE FirstConflict(x, f[n]) = 0
    <3>1. f[n + 1] = Append(f[n], x)
      BY <2>2, <2>3 DEF KeepStep
    <3>2. Part(Append(f[n], x), paths, n + 1)
      BY <2>1, PartAppend
    <3>3. \A i \in 1 .. Len(f[n]) : ~PathsConflict(x, f[n][i])
      BY <2>1, <2>3, FirstConflictFacts
    <3> HIDE DEF x
    <3>4. Disjoint(Append(f[n], x))
      <4>1. /\ Len(Append(f[n], x)) = Len(f[n]) + 1
            /\ \A i \in 1 .. Len(f[n]) : Append(f[n], x)[i] = f[n][i]
            /\ Append(f[n], x)[Len(f[n]) + 1] = x
        BY <2>1
      <4>2. Len(f[n]) \in Nat
        BY <2>1
      <4>3. ASSUME NEW i \in 1 .. Len(f[n]) + 1, NEW j \in 1 .. Len(f[n]) + 1, i < j
            PROVE  ~PathsConflict(Append(f[n], x)[j], Append(f[n], x)[i])
        <5>1. i \in 1 .. Len(f[n])
          BY <4>2, <4>3
        <5>2. CASE j = Len(f[n]) + 1
          BY <3>3, <4>1, <5>1, <5>2
        <5>3. CASE j \in 1 .. Len(f[n])
          BY <2>1, <4>1, <4>3, <5>1, <5>3 DEF Disjoint
        <5> QED BY <4>2, <5>2, <5>3
      <4> QED BY <4>1, <4>3 DEF Disjoint
    <3>5. Append(f[n], x) \in Seq(P)
      BY <2>1
    <3> QED BY <3>1, <3>2, <3>4, <3>5
  <2>4. CASE FirstConflict(x, f[n]) # 0
    <3>1. f[n + 1] = f[n]
      BY <2>2, <2>4 DEF KeepStep
    <3>2. Part(f[n], paths, n + 1)
      BY <2>1, PartMore
    <3> QED BY <2>1, <3>1, <3>2
  <2> QED BY <2>3, <2>4
<1> HIDE DEF S
<1>4. Nat \subseteq S
  BY <1>2, <1>3, KeepFold!Induction
<1>5. Len(paths) \in S
  BY <1>4
<1> QED BY <1>1, <1>5 DEF S

-----------------------------------------------------------------------------
(* One round of the loop of AddPeerEntry                                   *)

\* What a path that is looked at comes to: it is taken, since nobody asked has a
\* conflict; it is left; or it is taken, and somebody who has more paths loses one.
Taken(round, path, r) ==
    r = [own |-> Append(round.own, path), data |-> round.data, asked |-> round.asked]

Robbed(round, path, r, q, i) ==
    /\ Len(round.data[q]) > Len(round.own)
    /\ r = [own |-> Append(round.own, path),
            data |-> [round.data EXCEPT ![q] = RemovePath(round.data[q], i)],
            asked |-> r.asked]

LEMMA TryPathCases ==
  ASSUME NEW D, NEW P, NEW round \in [own : Seq(P), data : [D -> Seq(P)], asked : Seq(D)],
         NEW path \in P
  PROVE  LET r == TryPath(round, path)
         IN  \/ Taken(round, path, r)
             \/ r = round
             \/ /\ \E q \in D : \E i \in 1 .. Len(round.data[q]) : Robbed(round, path, r, q, i)
                /\ r.asked \in Seq(D)
<1> PICK own \in Seq(P), data \in [D -> Seq(P)], asked \in Seq(D) :
           round = [own |-> own, data |-> data, asked |-> asked]
  OBVIOUS
<1> DEFINE r == TryPath(round, path)
<1> r = TryPath(round, path)
  OBVIOUS
<1> HIDE DEF r
<1> DEFINE I == {k \in 1 .. Len(asked) : FirstConflict(path, data[asked[k]]) # 0}
           i == SelectInSeq(asked, LAMBDA q : FirstConflict(path, data[q]) # 0)
           q == asked[i]
           c == FirstConflict(path, data[q])
           more == Append(own, path)
           lost == [data EXCEPT ![q] = RemovePath(data[q], c)]
           left == Filter(asked, {s \in DOMAIN lost : Len(lost[s]) >= Len(more)})
<1>1. i = IF I # {} THEN Min(I) ELSE 0
  BY DEF SelectInSeq
<1>2. round.own = own /\ round.data = data /\ round.asked = asked
  OBVIOUS
<1>3. r = CASE i = 0 -> [round EXCEPT !.own = more]
            [] i # 0 /\ ~CanSpare(data[q], own) -> round
            [] i # 0 /\ CanSpare(data[q], own) -> [own |-> more, data |-> lost, asked |-> left]
  BY <1>2 DEF TryPath
<1>4. I \in SUBSET Nat /\ I \subseteq 1 .. Len(asked)
  OBVIOUS
<1>5. i # 0 => i \in I
  <2> HIDE DEF I, i
  <2>1. CASE I # {}
    <3>1. \E x \in I : \A y \in I : x <= y
      BY <1>4, <2>1, FilterFold!Least
    <3>2. Min(I) \in I
      BY <3>1 DEF Min
    <3> QED BY <1>1, <2>1, <3>2
  <2> QED BY <1>1, <2>1
<1>6. CASE i = 0
  <2>1. r = [round EXCEPT !.own = more]
    <3> HIDE DEF i, more, lost, left, q
    <3> QED BY <1>3, <1>6
  <2>2. Taken(round, path, r)
    BY <1>2, <2>1 DEF Taken
  <2> QED BY <2>2
<1>7. CASE i # 0 /\ ~CanSpare(data[q], own)
  <2> HIDE DEF i, more, lost, left, q
  <2> QED BY <1>3, <1>7
<1>8. CASE i # 0 /\ CanSpare(data[q], own)
  <2>1. r = [own |-> more, data |-> lost, asked |-> left]
    <3> HIDE DEF i, more, lost, left, q
    <3> QED BY <1>3, <1>8
  <2>2. q \in D /\ c # 0
    <3>1. i \in 1 .. Len(asked) /\ FirstConflict(path, data[asked[i]]) # 0
      <4> HIDE DEF i
      <4> QED BY <1>5, <1>8
    <3> HIDE DEF i
    <3> QED BY <3>1
  <2> HIDE DEF i, q
  <2>3. c \in 1 .. Len(data[q])
    <3>1. data[q] \in Seq(P)
      BY <2>2
    <3>2. c \in 0 .. Len(data[q])
      BY <3>1, FirstConflictFacts
    <3> HIDE DEF c
    <3> QED BY <2>2, <3>1, <3>2
  <2>4. left \in Seq(D)
    BY FilterFacts
  <2> HIDE DEF left, c
  <2>5. Len(data[q]) > Len(own)
    BY <1>8 DEF CanSpare
  <2>6. Robbed(round, path, r, q, c)
    <3>1. r.asked = left /\ r = [own |-> more, data |-> lost, asked |-> r.asked]
      <4> HIDE DEF more, lost
      <4> QED BY <2>1
    <3> QED BY <1>2, <2>5, <3>1, Zenon DEF Robbed
  <2>7. r.asked \in Seq(D)
    <3> HIDE DEF more, lost
    <3> QED BY <2>1, <2>4
  <2> QED BY <2>2, <2>3, <2>6, <2>7
<1> QED BY <1>2, <1>6, <1>7, <1>8 DEF r
=============================================================================
