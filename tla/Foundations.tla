---------------------------- MODULE Foundations ----------------------------
(***************************************************************************)
(* Facts about numbers, sequences and folds that the proofs of the other   *)
(* modules rest on: induction, least and greatest elements, and that the   *)
(* recursive functions inside the folds satisfy their equations.           *)
(*                                                                         *)
(* Induction is stated for sets of numbers, not for operators, so that the *)
(* provers can use it.                                                     *)
(***************************************************************************)
EXTENDS Integers, FiniteSets, SequencesExt, FiniteSetTheorems, SequenceTheorems,
        WellFoundedInduction, TLAPS

Below == {p \in Nat \X Nat : p[1] < p[2]}

LEMMA BelowWellFounded == IsWellFoundedOn(Below, Nat)
  BY NatLessThanWellFounded DEF OpToRel, Below

\* Every nonempty set of natural numbers has a least element ...
LEMMA LeastExists ==
  ASSUME NEW T, T \subseteq Nat, T # {}
  PROVE  \E m \in T : \A k \in T : m <= k
<1>1. PICK m \in T : \A k \in T : <<k, m>> \notin Below
  BY BelowWellFounded, WFMin
<1>2. ASSUME NEW k \in T, k < m PROVE FALSE
  <2>1. k \in Nat /\ m \in Nat
    OBVIOUS
  <2>2. <<k, m>> \in Below
    BY <1>2, <2>1 DEF Below
  <2> QED BY <1>1, <2>2
<1>3. \A k \in T : k \in Nat /\ m \in Nat
  OBVIOUS
<1> QED BY <1>2, <1>3

\* ... which is its Min.
LEMMA MinIsLeast ==
  ASSUME NEW T, T \subseteq Nat, T # {}
  PROVE  Min(T) \in T /\ \A k \in T : Min(T) <= k
<1>1. \E m \in T : \A k \in T : m <= k
  BY LeastExists
<1> QED BY <1>1 DEF Min

\* A bounded one has a greatest element too, its Max.
LEMMA MaxIsGreatest ==
  ASSUME NEW n \in Nat, NEW T, T \subseteq 0 .. n, T # {}
  PROVE  Max(T) \in T /\ \A k \in T : Max(T) >= k
<1> DEFINE U == {n - k : k \in T}
<1>1. U \subseteq Nat /\ U # {}
  <2>1. \A k \in T : n - k \in Nat
    OBVIOUS
  <2>2. U \subseteq Nat
    BY <2>1
  <2>3. PICK k \in T : TRUE
    OBVIOUS
  <2>4. n - k \in U
    OBVIOUS
  <2> QED BY <2>2, <2>4
<1>2. PICK u \in U : \A v \in U : u <= v
  BY <1>1, LeastExists
<1>3. PICK m \in T : u = n - m
  OBVIOUS
<1>4. \A k \in T : m >= k
  <2> TAKE k \in T
  <2>1. n - k \in U
    OBVIOUS
  <2>2. m \in Nat /\ k \in Nat /\ n - m <= n - k
    BY <1>2, <1>3, <2>1
  <2> QED BY <2>2
<1> QED BY <1>4 DEF Max

\* Induction: a set that has 0, and with every number the next, has them all.
LEMMA InductionOnNat ==
  ASSUME NEW S, 0 \in S, \A n \in Nat : n \in S => n + 1 \in S
  PROVE  Nat \subseteq S
<1> SUFFICES ASSUME Nat \ S # {} PROVE FALSE
  OBVIOUS
<1>1. PICK m \in Nat \ S : \A k \in Nat \ S : m <= k
  BY LeastExists
<1>2. m - 1 \in Nat /\ m - 1 \in S
  BY <1>1
<1> QED BY <1>1, <1>2

\* The same up to a bound.
LEMMA InductionUpTo ==
  ASSUME NEW n \in Nat, NEW S, 0 \in S, \A k \in 0 .. (n - 1) : k \in S => k + 1 \in S
  PROVE  0 .. n \subseteq S
<1> DEFINE T == {k \in Nat : k <= n => k \in S}
<1>1. 0 \in T /\ \A k \in Nat : k \in T => k + 1 \in T
  OBVIOUS
<1>2. Nat \subseteq T
  <2> HIDE DEF T
  <2> QED BY <1>1, InductionOnNat
<1> QED BY <1>2

\* Downwards.
LEMMA InductionDown ==
  ASSUME NEW n \in Nat, NEW S, n \in S, \A k \in 1 .. n : k \in S => k - 1 \in S
  PROVE  0 .. n \subseteq S
<1> DEFINE T == {k \in Nat : k <= n => n - k \in S}
<1>1. 0 \in T /\ \A k \in Nat : k \in T => k + 1 \in T
  <2>1. 0 \in T
    OBVIOUS
  <2>2. ASSUME NEW k \in Nat, k \in T, k + 1 <= n PROVE n - (k + 1) \in S
    <3>1. n - k \in 1 .. n /\ n - k \in S
      BY <2>2
    <3>2. (n - k) - 1 \in S
      BY <3>1
    <3> QED BY <3>2
  <2> QED BY <2>1, <2>2
<1>2. Nat \subseteq T
  <2> HIDE DEF T
  <2> QED BY <1>1, InductionOnNat
<1>3. ASSUME NEW k \in 0 .. n PROVE k \in S
  <2>1. n - k \in T /\ n - (n - k) = k
    BY <1>2
  <2> QED BY <2>1
<1> QED BY <1>3

-----------------------------------------------------------------------------
\* What is put together is found again by its place.
LEMMA ConcatSplits ==
  ASSUME NEW S, NEW s \in Seq(S), NEW t \in Seq(S)
  PROVE  /\ SubSeq(s \o t, 1, Len(s)) = s
         /\ SubSeq(s \o t, Len(s) + 1, Len(s \o t)) = t
<1> DEFINE u == s \o t
<1>1. /\ Len(s) \in Nat /\ Len(t) \in Nat
      /\ u \in Seq(S) /\ Len(u) = Len(s) + Len(t)
      /\ \A i \in 1 .. Len(s) + Len(t) : u[i] = IF i <= Len(s) THEN s[i] ELSE t[i - Len(s)]
  BY ConcatProperties, LenProperties
<1> HIDE DEF u
<1>2. SubSeq(u, 1, Len(s)) = s
  <2>1. \A i \in 1 .. Len(u) : u[i] \in S
    BY <1>1, ElementOfSeq
  <2>2. /\ SubSeq(u, 1, Len(s)) \in Seq(S) /\ Len(SubSeq(u, 1, Len(s))) = Len(s)
        /\ \A i \in 1 .. Len(s) : SubSeq(u, 1, Len(s))[i] = u[i]
    BY <1>1, <2>1, SubSeqProperties
  <2> QED BY <1>1, <2>2, SeqEqual
<1>3. SubSeq(u, Len(s) + 1, Len(u)) = t
  <2>1. \A i \in 1 .. Len(u) : u[i] \in S
    BY <1>1, ElementOfSeq
  <2>2. /\ SubSeq(u, Len(s) + 1, Len(u)) \in Seq(S)
        /\ Len(SubSeq(u, Len(s) + 1, Len(u))) = Len(t)
        /\ \A i \in 1 .. Len(t) : SubSeq(u, Len(s) + 1, Len(u))[i] = u[Len(s) + i]
    BY <1>1, <2>1, SubSeqProperties
  <2>3. \A i \in 1 .. Len(t) : u[Len(s) + i] = t[i]
    BY <1>1
  <2> QED BY <1>1, <2>2, <2>3, SeqEqual
<1> QED BY <1>2, <1>3 DEF u

\* What is cut in two is put together again.
LEMMA SplitJoins ==
  ASSUME NEW S, NEW s \in Seq(S), NEW n \in 0 .. Len(s)
  PROVE  /\ SubSeq(s, 1, n) \in Seq(S) /\ Len(SubSeq(s, 1, n)) = n
         /\ SubSeq(s, n + 1, Len(s)) \in Seq(S) /\ Len(SubSeq(s, n + 1, Len(s))) = Len(s) - n
         /\ \A i \in 1 .. n : SubSeq(s, 1, n)[i] = s[i]
         /\ \A i \in 1 .. (Len(s) - n) : SubSeq(s, n + 1, Len(s))[i] = s[n + i]
         /\ SubSeq(s, 1, n) \o SubSeq(s, n + 1, Len(s)) = s
<1>1. Len(s) \in Nat
  BY LenProperties
<1>2. \A i \in 1 .. Len(s) : s[i] \in S
  BY ElementOfSeq
<1>3. /\ SubSeq(s, 1, n) \in Seq(S) /\ Len(SubSeq(s, 1, n)) = n
      /\ \A i \in 1 .. n : SubSeq(s, 1, n)[i] = s[i]
  BY <1>1, <1>2, SubSeqProperties
<1>4. /\ SubSeq(s, n + 1, Len(s)) \in Seq(S) /\ Len(SubSeq(s, n + 1, Len(s))) = Len(s) - n
      /\ \A i \in 1 .. (Len(s) - n) : SubSeq(s, n + 1, Len(s))[i] = s[n + i]
  BY <1>1, <1>2, SubSeqProperties
<1>5. SubSeq(s, 1, n) \o SubSeq(s, n + 1, Len(s)) = SubSeq(s, 1, Len(s))
  <2>1. 1 \in 1 .. Len(s) + 1 /\ n \in (1 - 1) .. Len(s) /\ Len(s) \in n .. Len(s)
    BY <1>1
  <2> QED BY <2>1, ConcatAdjacentSubSeq
<1> QED BY <1>3, <1>4, <1>5, SubSeqFull

-----------------------------------------------------------------------------
\* A fold over the subsets of a finite set: the equation that defines it has a
\* solution, whatever element it picks and whatever a step of it makes of that.
Foldable(S, T, base, pick, step) ==
  /\ IsFiniteSet(S) /\ base \in T
  /\ \A s \in SUBSET S : s # {} => pick[s] \in s
  /\ \A x \in S : \A t \in T : step[x][t] \in T

IsFold(g, S, base, pick, step) ==
  \A s \in SUBSET S :
    g[s] = IF s = {} THEN base ELSE step[pick[s]][g[s \ {pick[s]}]]

LEMMA FoldExists ==
  ASSUME NEW S, NEW T, NEW base, NEW pick, NEW step, Foldable(S, T, base, pick, step)
  PROVE  \E g \in [SUBSET S -> T] : IsFold(g, S, base, pick, step)
<1> USE DEF Foldable, IsFold
<1> DEFINE Small(n) == {s \in SUBSET S : Cardinality(s) <= n}
           Solves(g, n) ==
             \A s \in Small(n) :
               g[s] = IF s = {} THEN base ELSE step[pick[s]][g[s \ {pick[s]}]]
           Good == {n \in Nat : \E g \in [Small(n) -> T] : Solves(g, n)}
<1>0. \A s \in SUBSET S : /\ IsFiniteSet(s) /\ Cardinality(s) \in Nat
                          /\ Cardinality(s) = 0 <=> s = {}
  BY FS_Subset, FS_CardinalityType, FS_EmptySet
<1>1. 0 \in Good
  <2> DEFINE g == [s \in Small(0) |-> base]
  <2>1. \A s \in Small(0) : s = {}
    BY <1>0
  <2>2. g \in [Small(0) -> T] /\ Solves(g, 0)
    BY <2>1
  <2> QED BY <2>2
<1>2. ASSUME NEW n \in Nat, n \in Good PROVE n + 1 \in Good
  <2>1. PICK g \in [Small(n) -> T] : Solves(g, n)
    BY <1>2
  <2> DEFINE h == [s \in Small(n + 1) |->
                     IF Cardinality(s) <= n THEN g[s]
                     ELSE step[pick[s]][g[s \ {pick[s]}]]]
  <2>2. ASSUME NEW s \in Small(n + 1), s # {}
        PROVE  pick[s] \in S /\ s \ {pick[s]} \in Small(n)
               /\ (s \in Small(n) => s \ {pick[s]} \in Small(n))
    <3>1. pick[s] \in s /\ IsFiniteSet(s) /\ Cardinality(s) \in Nat
      BY <2>2, <1>0
    <3>2. Cardinality(s \ {pick[s]}) = Cardinality(s) - 1
      BY <3>1, FS_RemoveElement
    <3> QED BY <3>1, <3>2
  <2>3. \A s \in Small(n + 1) : ~(Cardinality(s) <= n) => s # {}
    BY <1>0
  <2>4. h \in [Small(n + 1) -> T]
    <3> SUFFICES ASSUME NEW s \in Small(n + 1) PROVE h[s] \in T
      OBVIOUS
    <3>1. CASE Cardinality(s) <= n
      BY <3>1
    <3>2. CASE ~(Cardinality(s) <= n)
      BY <3>2, <2>2, <2>3
    <3> QED BY <3>1, <3>2
  <2>5. \A s \in Small(n) : s \in Small(n + 1) /\ h[s] = g[s]
    BY <1>0
  <2>6. Solves(h, n + 1)
    <3> SUFFICES ASSUME NEW s \in Small(n + 1)
                 PROVE h[s] = IF s = {} THEN base ELSE step[pick[s]][h[s \ {pick[s]}]]
      OBVIOUS
    <3>1. CASE Cardinality(s) <= n
      <4>1. s \in Small(n) /\ h[s] = g[s]
        BY <3>1
      <4>2. s # {} => h[s \ {pick[s]}] = g[s \ {pick[s]}]
        BY <2>2, <2>5
      <4> QED BY <4>1, <4>2, <2>1
    <3>2. CASE ~(Cardinality(s) <= n)
      <4>1. s # {} /\ h[s] = step[pick[s]][g[s \ {pick[s]}]]
        BY <3>2, <2>3
      <4>2. h[s \ {pick[s]}] = g[s \ {pick[s]}]
        BY <4>1, <2>2, <2>5
      <4> QED BY <4>1, <4>2
    <3> QED BY <3>1, <3>2
  <2>7. \E f \in [Small(n + 1) -> T] : Solves(f, n + 1)
    <3> HIDE DEF h, Solves, Small
    <3> QED BY <2>4, <2>6
  <2>8. n + 1 \in Nat
    OBVIOUS
  <2> HIDE DEF h, Solves, Small
  <2> QED BY <2>7, <2>8
<1>3. Nat \subseteq Good
  <2> HIDE DEF Good
  <2> QED BY <1>1, <1>2, InductionOnNat
<1>4. Cardinality(S) \in Nat /\ Small(Cardinality(S)) = SUBSET S
  BY FS_CardinalityType, FS_Subset, <1>0
<1>5. \E g \in [Small(Cardinality(S)) -> T] : Solves(g, Cardinality(S))
  <2> HIDE DEF Small, Solves
  <2> QED BY <1>3, <1>4
<1> QED BY <1>4, <1>5

\* What a function on the subsets of a finite set gives the whole of it is in T,
\* if what it gives the empty one is, and every other one inherits that from a
\* smaller one.
LEMMA FoldTyped ==
  ASSUME NEW S, IsFiniteSet(S), NEW T, NEW g, g[{}] \in T,
         \A s \in SUBSET S : s # {} => \E x \in s : g[s \ {x}] \in T => g[s] \in T
  PROVE  g[S] \in T
<1> DEFINE Good == {n \in Nat : \A s \in SUBSET S : Cardinality(s) = n => g[s] \in T}
<1>0. \A s \in SUBSET S : /\ IsFiniteSet(s) /\ Cardinality(s) \in Nat
                          /\ Cardinality(s) = 0 <=> s = {}
  BY FS_Subset, FS_CardinalityType, FS_EmptySet
<1>1. 0 \in Good
  BY <1>0
<1>2. ASSUME NEW n \in Nat, n \in Good PROVE n + 1 \in Good
  <2> SUFFICES ASSUME NEW s \in SUBSET S, Cardinality(s) = n + 1 PROVE g[s] \in T
    OBVIOUS
  <2>1. s # {}
    BY <1>0
  <2>2. PICK x \in s : g[s \ {x}] \in T => g[s] \in T
    BY <2>1
  <2>3. s \ {x} \in SUBSET S /\ Cardinality(s \ {x}) = Cardinality(s) - 1
    BY <1>0, FS_RemoveElement
  <2> QED BY <2>2, <2>3, <1>2
<1>3. Nat \subseteq Good
  <2> HIDE DEF Good
  <2> QED BY <1>1, <1>2, InductionOnNat
<1>4. Cardinality(S) \in Nat
  BY FS_CardinalityType
<1> QED BY <1>3, <1>4

-----------------------------------------------------------------------------
\* A sum of integers is an integer.
LEMMA SumType ==
  ASSUME NEW w \in Seq(Int)
  PROVE  FoldSeq(LAMBDA x, y : x + y, 0, w) \in Int
<1> DEFINE S == DOMAIN w
           One(s) == CHOOSE x \in s : TRUE
           Eq(g) == g = [s \in SUBSET S |-> IF s = {} THEN 0
                                            ELSE w[One(s)] + g[s \ {One(s)}]]
           iter == CHOOSE g : Eq(g)
<1>1. S = 1 .. Len(w) /\ IsFiniteSet(S) /\ \A i \in S : w[i] \in Int
  BY FS_Interval
<1>2. \A s \in SUBSET S : s # {} => One(s) \in s /\ One(s) \in S
  OBVIOUS
<1> HIDE DEF S, One
<1>3. \E g : Eq(g)
  <2> DEFINE pick == [s \in SUBSET S |-> One(s)]
             step == [x \in S |-> [t \in Int |-> w[x] + t]]
  <2>1. \A s \in SUBSET S : pick[s] = One(s)
    OBVIOUS
  <2>2. \A x \in S : \A t \in Int : step[x][t] = w[x] + t
    OBVIOUS
  <2> HIDE DEF pick, step
  <2>3. PICK g \in [SUBSET S -> Int] : IsFold(g, S, 0, pick, step)
    <3>1. \A s \in SUBSET S : s # {} => pick[s] \in s
      BY <1>2, <2>1
    <3>2. ASSUME NEW x \in S, NEW t \in Int PROVE step[x][t] \in Int
      <4>1. w[x] \in Int /\ step[x][t] = w[x] + t
        BY <1>1, <2>2
      <4> QED BY <4>1
    <3>3. Foldable(S, Int, 0, pick, step)
      BY <1>1, <3>1, <3>2 DEF Foldable
    <3> QED BY <3>3, FoldExists
  <2>4. ASSUME NEW s \in SUBSET S, s # {}
        PROVE step[pick[s]][g[s \ {pick[s]}]] = w[One(s)] + g[s \ {One(s)}]
     <3>1. s \ {One(s)} \in SUBSET S
       OBVIOUS
     <3>2. g[s \ {One(s)}] \in Int
       BY <3>1
     <3> QED BY <1>2, <2>1, <2>2, <2>4, <3>2
  <2>5. \A s \in SUBSET S : g[s] = IF s = {} THEN 0 ELSE w[One(s)] + g[s \ {One(s)}]
    <3> HIDE DEF Eq, iter
    <3> QED BY <2>3, <2>4, <2>1 DEF IsFold
  <2>6. Eq(g)
    BY <2>5
  <2> QED BY <2>6
<1>4. Eq(iter)
  <2> HIDE DEF Eq
  <2> QED BY <1>3
<1>5. \A s \in SUBSET S : iter[s] = IF s = {} THEN 0 ELSE w[One(s)] + iter[s \ {One(s)}]
  <2> HIDE DEF iter
  <2> QED BY <1>4
<1>6. iter[S] \in Int
  <2> HIDE DEF iter
  <2>1. iter[{}] \in Int
    <3>1. {} \in SUBSET S
      OBVIOUS
    <3>2. iter[{}] = 0
      BY <3>1, <1>5
    <3> QED BY <3>2
  <2>2. ASSUME NEW s \in SUBSET S, s # {}
        PROVE \E x \in s : iter[s \ {x}] \in Int => iter[s] \in Int
    <3>0. iter[s] = w[One(s)] + iter[s \ {One(s)}] /\ w[One(s)] \in Int
      BY <1>1, <1>2, <1>5, <2>2
    <3>1. iter[s \ {One(s)}] \in Int => iter[s] \in Int
      BY <3>0
    <3> QED BY <3>1, <1>2, <2>2
  <2> QED BY <2>1, <2>2, <1>1, FoldTyped
<1>7. FoldSeq(LAMBDA x, y : x + y, 0, w) = iter[S]
  BY Zenon DEF FoldSeq, FoldFunction, FoldFunctionOnSet, MapThenFoldSet, S, One
<1> QED BY <1>6, <1>7
=============================================================================
