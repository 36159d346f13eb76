------------------------------ MODULE FoldLaws ------------------------------
(***************************************************************************)
(* Induction on the natural numbers, and what a fold over a sequence       *)
(* computes: the last of the values it goes through.  Op is the operation, *)
(* with a parameter; modules that fold take the laws with INSTANCE.        *)
(***************************************************************************)
EXTENDS Integers, Sequences, WellFoundedInduction, TLAPS

CONSTANT Op(_, _, _)

\* A set of numbers that has 0, and with a number its successor, has them all.
THEOREM Induction ==
  ASSUME NEW S, 0 \in S, \A n \in Nat : n \in S => n + 1 \in S
  PROVE  Nat \subseteq S
<1> SUFFICES ASSUME Nat \ S # {} PROVE FALSE
  OBVIOUS
<1> DEFINE T == Nat \ S
<1>1. T \subseteq Nat /\ T # {}
  OBVIOUS
<1> HIDE DEF T
<1>2. PICK x \in T : \A y \in T : ~(<<y, x>> \in OpToRel(<, Nat))
  BY <1>1, WFMin, NatLessThanWellFounded
<1>3. \A y \in T : ~(y < x)
  BY <1>1, <1>2 DEF OpToRel
<1>4. x \in Nat /\ x \notin S /\ x # 0
  BY DEF T
<1>5. x - 1 \in Nat /\ x - 1 \in S
  BY <1>3, <1>4 DEF T
<1>6. (x - 1) + 1 \in S
  BY <1>5
<1> QED BY <1>4, <1>6

\* The least element of a set of numbers.
THEOREM Least ==
  ASSUME NEW S \in SUBSET Nat, S # {}
  PROVE  \E x \in S : \A y \in S : x <= y
<1>1. PICK x \in S : \A y \in S : ~(<<y, x>> \in OpToRel(<, Nat))
  BY WFMin, NatLessThanWellFounded
<1>2. \A y \in S : ~(y < x)
  BY <1>1 DEF OpToRel
<1>3. \A y \in S : x \in Nat /\ y \in Nat
  OBVIOUS
<1> QED BY <1>2, <1>3

-----------------------------------------------------------------------------
(* The fold, as SequencesExt defines it                                    *)

Greatest(s) == CHOOSE x \in s : \A y \in s : x >= y

\* The greatest element, when it is known.
LEMMA GreatestOf ==
  ASSUME NEW n \in Nat, NEW S \in SUBSET (1 .. n), n \in S
  PROVE  Greatest(S) = n
<1>1. \A y \in S : y \in Int /\ n >= y
  OBVIOUS
<1>2. Greatest(S) \in S /\ \A y \in S : Greatest(S) >= y
  BY <1>1 DEF Greatest
<1>3. Greatest(S) \in Int /\ n >= Greatest(S) /\ Greatest(S) >= n
  BY <1>1, <1>2
<1> QED BY <1>3

\* The recursion, on the set of the indices that are left.
Body(par, base, seq, iter, s) ==
    IF s = {} THEN base ELSE Op(par, iter[s \ {Greatest(s)}], seq[Greatest(s)])

Value(par, base, seq) ==
    (CHOOSE f : f = [s \in SUBSET (DOMAIN seq) |-> Body(par, base, seq, f, s)])[DOMAIN seq]

\* f is the sequence of values the fold goes through.
Run(par, base, seq, f) ==
    /\ f[0] = base
    /\ \A n \in 0 .. Len(seq) - 1 : f[n + 1] = Op(par, f[n], seq[n + 1])

\* There is a function that the recursion defines.
Defined(par, base, seq, n) ==
    \E f : f = [s \in SUBSET (1 .. n) |-> Body(par, base, seq, f, s)]

LEMMA BodyDefines ==
  ASSUME NEW par, NEW base, NEW seq, NEW n \in Nat
  PROVE  Defined(par, base, seq, n)
<1> DEFINE S == {k \in Nat : Defined(par, base, seq, k)}
<1>1. 0 \in S
  <2> DEFINE f == [s \in SUBSET (1 .. 0) |-> base]
  <2>1. \A s \in SUBSET (1 .. 0) : s = {}
    OBVIOUS
  <2>2. f = [s \in SUBSET (1 .. 0) |-> Body(par, base, seq, f, s)]
    BY <2>1 DEF Body
  <2> HIDE DEF f
  <2> QED BY <2>2 DEF Defined
<1>2. ASSUME NEW k \in Nat, k \in S PROVE k + 1 \in S
  <2>1. PICK f : f = [s \in SUBSET (1 .. k) |-> Body(par, base, seq, f, s)]
    BY <1>2 DEF Defined
  <2> DEFINE g == [s \in SUBSET (1 .. k + 1) |-> Body(par, base, seq, f, s)]
  <2>2. \A s \in SUBSET (1 .. k) : g[s] = f[s]
    <3>1. \A s \in SUBSET (1 .. k) : s \in SUBSET (1 .. k + 1)
      OBVIOUS
    <3>2. \A s \in SUBSET (1 .. k) : f[s] = Body(par, base, seq, f, s)
      BY <2>1
    <3> QED BY <3>1, <3>2
  <2>3. \A s \in SUBSET (1 .. k + 1) : s # {} => s \ {Greatest(s)} \in SUBSET (1 .. k)
    <3> SUFFICES ASSUME NEW s \in SUBSET (1 .. k + 1), s # {}
                 PROVE  s \ {Greatest(s)} \in SUBSET (1 .. k)
      OBVIOUS
    <3>1. s \ {k + 1} \subseteq 1 .. k
      OBVIOUS
    <3>2. CASE k + 1 \in s
      <4>1. k + 1 \in Nat
        OBVIOUS
      <4>2. Greatest(s) = k + 1
        BY <3>2, <4>1, GreatestOf
      <4> QED BY <3>1, <4>2
    <3>3. CASE k + 1 \notin s
      BY <3>1, <3>3
    <3> QED BY <3>2, <3>3
  <2>4. \A s \in SUBSET (1 .. k + 1) : Body(par, base, seq, g, s) = Body(par, base, seq, f, s)
    <3> HIDE DEF g
    <3> QED BY <2>2, <2>3 DEF Body
  <2>5. g = [s \in SUBSET (1 .. k + 1) |-> Body(par, base, seq, g, s)]
    BY <2>4
  <2> HIDE DEF g
  <2>6. Defined(par, base, seq, k + 1)
    BY <2>5 DEF Defined
  <2> QED BY <2>6
<1> HIDE DEF S
<1>3. Nat \subseteq S
  BY <1>1, <1>2, Induction
<1> QED BY <1>3 DEF S

\* The fold runs through values, and gives the last of them.
THEOREM FoldRuns ==
  ASSUME NEW P, NEW seq \in Seq(P), NEW par, NEW base
  PROVE  \E f : Run(par, base, seq, f) /\ Value(par, base, seq) = f[Len(seq)]
<1> DEFINE L == Len(seq)
           iter == CHOOSE f : f = [s \in SUBSET (1 .. L) |-> Body(par, base, seq, f, s)]
<1>1. L \in Nat /\ DOMAIN seq = 1 .. L
  OBVIOUS
<1>2. \E f : f = [s \in SUBSET (1 .. L) |-> Body(par, base, seq, f, s)]
  <2>1. Defined(par, base, seq, L)
    BY <1>1, BodyDefines
  <2> QED BY <2>1, Zenon DEF Defined
<1>3. iter = [s \in SUBSET (1 .. L) |-> Body(par, base, seq, iter, s)]
  BY <1>2, Zenon
<1>4. Value(par, base, seq) = iter[1 .. L]
  BY <1>1, Zenon DEF Value
<1> HIDE DEF iter
<1> DEFINE f == [n \in 0 .. L |-> iter[1 .. n]]
<1>5. \A n \in 0 .. L : f[n] = Body(par, base, seq, iter, 1 .. n)
  <2>1. \A n \in 0 .. L : 1 .. n \in SUBSET (1 .. L)
    BY <1>1
  <2> QED BY <1>3, <2>1
<1>6. f[0] = base
  <2>1. 0 \in 0 .. L /\ 1 .. 0 = {}
    BY <1>1
  <2>2. Body(par, base, seq, iter, {}) = base
    BY DEF Body
  <2> QED BY <1>5, <2>1, <2>2
<1>7. ASSUME NEW n \in 0 .. L - 1 PROVE f[n + 1] = Op(par, f[n], seq[n + 1])
  <2>1. /\ n \in Nat /\ n + 1 \in 0 .. L /\ 1 .. n + 1 # {} /\ n + 1 \in 1 .. n + 1
        /\ (1 .. n + 1) \ {n + 1} = 1 .. n
    BY <1>1
  <2>2. Greatest(1 .. n + 1) = n + 1
    BY <2>1, GreatestOf
  <2>3. Body(par, base, seq, iter, 1 .. n + 1) = Op(par, iter[1 .. n], seq[n + 1])
    BY <2>1, <2>2 DEF Body
  <2> QED BY <1>1, <1>5, <2>1, <2>3
<1>8. f[L] = iter[1 .. L]
  BY <1>1
<1> HIDE DEF f
<1> QED BY <1>4, <1>6, <1>7, <1>8 DEF Run

\* Whatever runs through the same values ends with the value of the fold.
THEOREM RunGivesFold ==
  ASSUME NEW P, NEW seq \in Seq(P), NEW par, NEW base, NEW g, Run(par, base, seq, g)
  PROVE  Value(par, base, seq) = g[Len(seq)]
<1>1. PICK f : Run(par, base, seq, f) /\ Value(par, base, seq) = f[Len(seq)]
  BY FoldRuns
<1> DEFINE S == {n \in Nat : n <= Len(seq) => f[n] = g[n]}
<1>2. 0 \in S
  BY <1>1 DEF Run
<1>3. ASSUME NEW n \in Nat, n \in S PROVE n + 1 \in S
  <2> SUFFICES ASSUME n + 1 <= Len(seq) PROVE f[n + 1] = g[n + 1]
    OBVIOUS
  <2>1. n \in 0 .. Len(seq) - 1 /\ f[n] = g[n]
    BY <1>3
  <2> QED BY <1>1, <2>1 DEF Run
<1> HIDE DEF S
<1>4. Nat \subseteq S
  BY <1>2, <1>3, Induction
<1>5. Len(seq) \in S
  BY <1>4
<1> QED BY <1>1, <1>5 DEF S
=============================================================================
