------------------------- MODULE UriGeneratorProofs -------------------------
(***************************************************************************)
(* The odometer emits the Cartesian product, for every template.           *)
(*                                                                         *)
(* Counting and turning are two descriptions of the same order.  First,    *)
(* numbers written in the radices of a list of domains: what the next      *)
(* number's digits are, and that no two numbers share theirs.  Then what   *)
(* the ranges of an accepted template have for texts, and the checked size *)
(* of them.  Then the invariant: after m candidates every range stands at  *)
(* its digit of m, and increment_ranges takes the ranges to m + 1.         *)
(***************************************************************************)
EXTENDS UriGenerator, Foundations

\* A value that is carried from step to step.
Traceable(n, T, base, step) ==
  n \in Nat /\ base \in T /\ \A k \in 1 .. n : \A t \in T : step[k][t] \in T

IsTrace(g, n, base, step) == g[0] = base /\ \A k \in 1 .. n : g[k] = step[k][g[k - 1]]

\* Such a value has a trace: the values it has after each step.
LEMMA TraceExists ==
  ASSUME NEW n, NEW T, NEW base, NEW step, Traceable(n, T, base, step)
  PROVE  \E g \in [0 .. n -> T] : IsTrace(g, n, base, step)
<1> USE DEF Traceable, IsTrace
<1> DEFINE Traces(g, m) == g[0] = base /\ \A k \in 1 .. m : g[k] = step[k][g[k - 1]]
           Good == {m \in Nat : m <= n => \E g \in [0 .. m -> T] : Traces(g, m)}
<1>1. 0 \in Good
  <2> DEFINE g == [k \in 0 .. 0 |-> base]
  <2>1. g \in [0 .. 0 -> T] /\ Traces(g, 0)
    OBVIOUS
  <2> QED BY <2>1
<1>2. ASSUME NEW m \in Nat, m \in Good PROVE m + 1 \in Good
  <2> SUFFICES ASSUME m + 1 <= n PROVE \E g \in [0 .. (m + 1) -> T] : Traces(g, m + 1)
    OBVIOUS
  <2>1. PICK g \in [0 .. m -> T] : Traces(g, m)
    BY <1>2
  <2> DEFINE h == [k \in 0 .. (m + 1) |-> IF k = m + 1 THEN step[m + 1][g[m]] ELSE g[k]]
  <2>2. h \in [0 .. (m + 1) -> T]
    <3>1. m + 1 \in 1 .. n /\ g[m] \in T
      OBVIOUS
    <3>2. step[m + 1][g[m]] \in T
      BY <3>1
    <3> QED BY <3>2
  <2>3. Traces(h, m + 1)
    <3>1. h[0] = base
      BY <2>1
    <3>2. ASSUME NEW k \in 1 .. (m + 1) PROVE h[k] = step[k][h[k - 1]]
      <4>1. CASE k = m + 1
        BY <4>1
      <4>2. CASE k # m + 1
        BY <2>1, <4>2
      <4> QED BY <4>1, <4>2
    <3> QED BY <3>1, <3>2
  <2> HIDE DEF h, Traces
  <2> QED BY <2>2, <2>3
<1>3. n \in Good
  <2> HIDE DEF Good
  <2> QED BY <1>1, <1>2, InductionOnNat
<1> QED BY <1>3

\* A fold from the left picks the largest place first, so what it computes of a
\* sequence it computes of one beginning after another.
LEMMA Beginnings ==
  ASSUME NEW n \in Nat, NEW k \in 1 .. n
  PROVE  /\ 1 .. k \in SUBSET (1 .. n) /\ 1 .. k # {}
         /\ Max(1 .. k) = k /\ (1 .. k) \ {k} = 1 .. (k - 1)
<1>1. k \in Nat /\ k \in 1 .. k /\ 1 .. k \subseteq 0 .. k
  OBVIOUS
<1>2. Max(1 .. k) \in 1 .. k /\ \A j \in 1 .. k : Max(1 .. k) >= j
  BY <1>1, MaxIsGreatest
<1>3. \A m \in 1 .. k : m >= k => m = k
  BY <1>1
<1>4. Max(1 .. k) = k
  BY <1>1, <1>2, <1>3
<1> QED BY <1>4

\* The largest of some places is one of them.
LEMMA MaxOfPlaces ==
  ASSUME NEW n \in Nat, NEW t \in SUBSET (1 .. n), t # {}
  PROVE  Max(t) \in 1 .. n /\ Max(t) \in t /\ t \ {Max(t)} \in SUBSET (1 .. n)
<1>1. t \subseteq 0 .. n
  OBVIOUS
<1> QED BY <1>1, MaxIsGreatest

IsLeftFold(g, n, base, step) ==
  \A s \in SUBSET (1 .. n) : g[s] = IF s = {} THEN base ELSE step[Max(s)][g[s \ {Max(s)}]]

\* The recursive function inside such a fold exists.
LEMMA LeftFoldExists ==
  ASSUME NEW n, NEW T, NEW base, NEW step, Traceable(n, T, base, step)
  PROVE  \E g \in [SUBSET (1 .. n) -> T] : IsLeftFold(g, n, base, step)
<1> DEFINE pick == [s \in SUBSET (1 .. n) |-> Max(s)]
<1>1. \A s \in SUBSET (1 .. n) : s # {} => pick[s] \in s /\ pick[s] = Max(s)
  BY MaxOfPlaces DEF Traceable
<1>2. Foldable(1 .. n, T, base, pick, step)
  <2>1. IsFiniteSet(1 .. n)
    BY FS_Interval DEF Traceable
  <2> HIDE DEF pick
  <2> QED BY <1>1, <2>1 DEF Foldable, Traceable
<1> HIDE DEF pick
<1>3. PICK g \in [SUBSET (1 .. n) -> T] : IsFold(g, 1 .. n, base, pick, step)
  BY <1>2, FoldExists
<1>4. ASSUME NEW s \in SUBSET (1 .. n)
      PROVE  g[s] = IF s = {} THEN base ELSE step[Max(s)][g[s \ {Max(s)}]]
  BY <1>1, <1>3 DEF IsFold
<1> QED BY <1>3, <1>4 DEF IsLeftFold

\* A product ...
LEMMA ProductTrace ==
  ASSUME NEW s, NEW n \in Nat, DOMAIN s = 1 .. n, \A k \in 1 .. n : s[k] \in Nat
  PROVE  \E h : /\ h[0] = 1 /\ \A k \in 1 .. n : h[k] = h[k - 1] * s[k]
                /\ Product(s) = h[n]
<1> DEFINE D == DOMAIN s
           Eq(g) == g = [t \in SUBSET D |-> IF t = {} THEN 1
                                            ELSE g[t \ {Max(t)}] * s[Max(t)]]
           iter == CHOOSE g : Eq(g)
<1>1. \E g : Eq(g)
  <2> DEFINE step == [k \in 1 .. n |-> [t \in Nat |-> t * s[k]]]
  <2>1. \A k \in 1 .. n : \A t \in Nat : step[k][t] = t * s[k]
    OBVIOUS
  <2>2. \A k \in 1 .. n : \A t \in Nat : t * s[k] \in Nat
    OBVIOUS
  <2> HIDE DEF step
  <2>3. Traceable(n, Nat, 1, step)
    BY <2>1, <2>2 DEF Traceable
  <2>4. PICK g \in [SUBSET (1 .. n) -> Nat] : IsLeftFold(g, n, 1, step)
    BY <2>3, LeftFoldExists
  <2>5. \A t \in SUBSET (1 .. n) : t # {} => Max(t) \in 1 .. n /\ t \ {Max(t)} \in SUBSET (1 .. n)
    BY MaxOfPlaces
  <2>6. \A t \in SUBSET (1 .. n) :
          g[t] = IF t = {} THEN 1 ELSE g[t \ {Max(t)}] * s[Max(t)]
    BY <2>1, <2>4, <2>5 DEF IsLeftFold
  <2>7. Eq(g)
    BY <2>6
  <2> QED BY <2>7
<1>2. Eq(iter)
  <2> HIDE DEF Eq
  <2> QED BY <1>1
<1>3. \A t \in SUBSET (1 .. n) :
        iter[t] = IF t = {} THEN 1 ELSE iter[t \ {Max(t)}] * s[Max(t)]
  <2> HIDE DEF iter
  <2> QED BY <1>2
<1>4. Product(s) = iter[D]
  BY Zenon DEF Product, FoldLeft, MapThenFoldSet
<1> DEFINE h == [k \in 0 .. n |-> iter[1 .. k]]
<1> HIDE DEF iter
<1>5. h[0] = 1
  <2>1. 1 .. 0 = {} /\ {} \in SUBSET (1 .. n)
    OBVIOUS
  <2>2. iter[{}] = 1
    BY <1>3, <2>1
  <2> QED BY <2>1, <2>2
<1>6. ASSUME NEW k \in 1 .. n PROVE h[k] = h[k - 1] * s[k]
  <2>1. h[k] = iter[1 .. k] /\ h[k - 1] = iter[1 .. (k - 1)]
    OBVIOUS
  <2>2. iter[1 .. k] = iter[(1 .. k) \ {k}] * s[k]
    BY <1>3, Beginnings
  <2> QED BY <2>1, <2>2, Beginnings
<1>7. Product(s) = h[n]
  BY <1>4
<1> HIDE DEF h
<1> QED BY <1>5, <1>6, <1>7

\* What a checked operation returns.
Sizes == Nat \cup {Overflow}

\* ... a checked one ...
LEMMA CheckedProductTrace ==
  ASSUME NEW s, NEW n \in Nat, DOMAIN s = 1 .. n, \A k \in 1 .. n : s[k] \in Sizes
  PROVE  \E h : /\ h[0] = 1 /\ \A k \in 1 .. n : h[k] = CheckedMultiply(h[k - 1], s[k])
                /\ FoldLeft(CheckedMultiply, 1, s) = h[n]
<1> DEFINE D == DOMAIN s
           Eq(g) == g = [t \in SUBSET D |-> IF t = {} THEN 1
                                            ELSE CheckedMultiply(g[t \ {Max(t)}], s[Max(t)])]
           iter == CHOOSE g : Eq(g)
<1>1. \E g : Eq(g)
  <2> DEFINE step == [k \in 1 .. n |-> [t \in Sizes |-> CheckedMultiply(t, s[k])]]
  <2>1. \A k \in 1 .. n : \A t \in Sizes : step[k][t] = CheckedMultiply(t, s[k])
    OBVIOUS
  <2>2. \A k \in 1 .. n : \A t \in Sizes : CheckedMultiply(t, s[k]) \in Sizes
    BY DEF CheckedMultiply, Checked, Sizes, Overflow
  <2> HIDE DEF step
  <2>3. Traceable(n, Sizes, 1, step)
    BY <2>1, <2>2 DEF Traceable, Sizes
  <2>4. PICK g \in [SUBSET (1 .. n) -> Sizes] : IsLeftFold(g, n, 1, step)
    BY <2>3, LeftFoldExists
  <2>5. \A t \in SUBSET (1 .. n) : t # {} => Max(t) \in 1 .. n /\ t \ {Max(t)} \in SUBSET (1 .. n)
    BY MaxOfPlaces
  <2>6. \A t \in SUBSET (1 .. n) :
          g[t] = IF t = {} THEN 1 ELSE CheckedMultiply(g[t \ {Max(t)}], s[Max(t)])
    BY <2>1, <2>4, <2>5 DEF IsLeftFold
  <2>7. Eq(g)
    BY <2>6
  <2> QED BY <2>7
<1>2. Eq(iter)
  <2> HIDE DEF Eq
  <2> QED BY <1>1
<1>3. \A t \in SUBSET (1 .. n) :
        iter[t] = IF t = {} THEN 1 ELSE CheckedMultiply(iter[t \ {Max(t)}], s[Max(t)])
  <2> HIDE DEF iter
  <2> QED BY <1>2
<1>4. FoldLeft(CheckedMultiply, 1, s) = iter[D]
  BY Zenon DEF FoldLeft, MapThenFoldSet
<1> DEFINE h == [k \in 0 .. n |-> iter[1 .. k]]
<1> HIDE DEF iter
<1>5. h[0] = 1
  <2>1. 1 .. 0 = {} /\ {} \in SUBSET (1 .. n)
    OBVIOUS
  <2>2. iter[{}] = 1
    BY <1>3, <2>1
  <2> QED BY <2>1, <2>2
<1>6. ASSUME NEW k \in 1 .. n PROVE h[k] = CheckedMultiply(h[k - 1], s[k])
  <2>1. h[k] = iter[1 .. k] /\ h[k - 1] = iter[1 .. (k - 1)]
    OBVIOUS
  <2>2. iter[1 .. k] = CheckedMultiply(iter[(1 .. k) \ {k}], s[k])
    BY <1>3, Beginnings
  <2> QED BY <2>1, <2>2, Beginnings
<1>7. FoldLeft(CheckedMultiply, 1, s) = h[n]
  BY <1>4
<1> HIDE DEF h
<1> QED BY <1>5, <1>6, <1>7

\* ... and a checked sum.
LEMMA CheckedSumTrace ==
  ASSUME NEW s, NEW n \in Nat, DOMAIN s = 1 .. n, \A k \in 1 .. n : s[k] \in Sizes
  PROVE  \E h : /\ h[0] = 0 /\ \A k \in 1 .. n : h[k] = CheckedAdd(h[k - 1], s[k])
                /\ FoldLeft(CheckedAdd, 0, s) = h[n]
<1> DEFINE D == DOMAIN s
           Eq(g) == g = [t \in SUBSET D |-> IF t = {} THEN 0
                                            ELSE CheckedAdd(g[t \ {Max(t)}], s[Max(t)])]
           iter == CHOOSE g : Eq(g)
<1>1. \E g : Eq(g)
  <2> DEFINE step == [k \in 1 .. n |-> [t \in Sizes |-> CheckedAdd(t, s[k])]]
  <2>1. \A k \in 1 .. n : \A t \in Sizes : step[k][t] = CheckedAdd(t, s[k])
    OBVIOUS
  <2>2. \A k \in 1 .. n : \A t \in Sizes : CheckedAdd(t, s[k]) \in Sizes
    BY DEF CheckedAdd, Checked, Sizes, Overflow
  <2> HIDE DEF step
  <2>3. Traceable(n, Sizes, 0, step)
    BY <2>1, <2>2 DEF Traceable, Sizes
  <2>4. PICK g \in [SUBSET (1 .. n) -> Sizes] : IsLeftFold(g, n, 0, step)
    BY <2>3, LeftFoldExists
  <2>5. \A t \in SUBSET (1 .. n) : t # {} => Max(t) \in 1 .. n /\ t \ {Max(t)} \in SUBSET (1 .. n)
    BY MaxOfPlaces
  <2>6. \A t \in SUBSET (1 .. n) :
          g[t] = IF t = {} THEN 0 ELSE CheckedAdd(g[t \ {Max(t)}], s[Max(t)])
    BY <2>1, <2>4, <2>5 DEF IsLeftFold
  <2>7. Eq(g)
    BY <2>6
  <2> QED BY <2>7
<1>2. Eq(iter)
  <2> HIDE DEF Eq
  <2> QED BY <1>1
<1>3. \A t \in SUBSET (1 .. n) :
        iter[t] = IF t = {} THEN 0 ELSE CheckedAdd(iter[t \ {Max(t)}], s[Max(t)])
  <2> HIDE DEF iter
  <2> QED BY <1>2
<1>4. FoldLeft(CheckedAdd, 0, s) = iter[D]
  BY Zenon DEF FoldLeft, MapThenFoldSet
<1> DEFINE h == [k \in 0 .. n |-> iter[1 .. k]]
<1> HIDE DEF iter
<1>5. h[0] = 0
  <2>1. 1 .. 0 = {} /\ {} \in SUBSET (1 .. n)
    OBVIOUS
  <2>2. iter[{}] = 0
    BY <1>3, <2>1
  <2> QED BY <2>1, <2>2
<1>6. ASSUME NEW k \in 1 .. n PROVE h[k] = CheckedAdd(h[k - 1], s[k])
  <2>1. h[k] = iter[1 .. k] /\ h[k - 1] = iter[1 .. (k - 1)]
    OBVIOUS
  <2>2. iter[1 .. k] = CheckedAdd(iter[(1 .. k) \ {k}], s[k])
    BY <1>3, Beginnings
  <2> QED BY <2>1, <2>2, Beginnings
<1>7. FoldLeft(CheckedAdd, 0, s) = h[n]
  BY <1>4
<1> HIDE DEF h
<1> QED BY <1>5, <1>6, <1>7

-----------------------------------------------------------------------------
Radixes == Seq(Nat \ {0})

\* Every quotient is the one to its right divided by the domain there.
LEMMA QuotientsDivide ==
  ASSUME NEW r \in Radixes, NEW m \in Nat
  PROVE  /\ Quotients(r, m) \in [0 .. Len(r) -> Nat]
         /\ Quotients(r, m)[Len(r)] = m
         /\ \A p \in 1 .. Len(r) : Quotients(r, m)[p - 1] = Quotients(r, m)[p] \div r[p]
<1> DEFINE n == Len(r)
           Eq(q) == q = [p \in 0 .. n |-> IF p = n THEN m ELSE q[p + 1] \div r[p + 1]]
<1>0. n \in Nat /\ \A p \in 1 .. n : r[p] \in Nat \ {0}
  BY DEF Radixes
<1>1. \E q : Eq(q)
  <2> DEFINE step == [k \in 1 .. n |-> [t \in Nat |-> t \div r[n - k + 1]]]
  <2>1. ASSUME NEW k \in 1 .. n, NEW t \in Nat
        PROVE  n - k + 1 \in 1 .. n /\ step[k][t] = t \div r[n - k + 1]
    BY <1>0
  <2> HIDE DEF n
  <2>2. \A k \in 1 .. n : \A t \in Nat : step[k][t] \in Nat
    BY <1>0, <2>1
  <2>3. n \in Nat
    BY <1>0
  <2> HIDE DEF step
  <2>4. PICK g \in [0 .. n -> Nat] : g[0] = m /\ \A k \in 1 .. n : g[k] = step[k][g[k - 1]]
    <3> HIDE DEF Eq
    <3>1. Traceable(n, Nat, m, step)
      BY <2>3, <2>2 DEF Traceable
    <3> QED BY <3>1, TraceExists DEF IsTrace
  <2> DEFINE q == [p \in 0 .. n |-> g[n - p]]
  <2>5. ASSUME NEW p \in 0 .. n, p # n PROVE q[p] = q[p + 1] \div r[p + 1]
    <3>1. n - p \in 1 .. n /\ n - p - 1 = n - (p + 1) /\ n - (n - p) + 1 = p + 1
      BY <1>0, <2>5
    <3>2. g[n - p] = g[n - p - 1] \div r[n - (n - p) + 1]
      BY <1>0, <2>1, <2>4, <3>1
    <3>3. p \in 0 .. n /\ p + 1 \in 0 .. n
      BY <1>0, <2>5
    <3>4. q[p] = g[n - p] /\ q[p + 1] = g[n - (p + 1)]
      BY <3>3
    <3> QED BY <3>1, <3>2, <3>4
  <2>6. q[n] = m
    BY <1>0, <2>4
  <2>7. Eq(q)
    BY <2>5, <2>6
  <2> QED BY <2>7
<1>2. Eq(Quotients(r, m))
  <2> DEFINE q == CHOOSE q : Eq(q)
  <2>1. Eq(q)
    BY <1>1
  <2> QED BY <2>1 DEF Quotients
<1> DEFINE q == Quotients(r, m)
<1> HIDE DEF n, q
<1>3. q[n] = m /\ \A p \in 0 .. n : q[p] = IF p = n THEN m ELSE q[p + 1] \div r[p + 1]
  BY <1>0, <1>2 DEF q
<1>4. ASSUME NEW p \in 1 .. n PROVE q[p - 1] = q[p] \div r[p]
  <2>1. p - 1 \in 0 .. n /\ p - 1 # n /\ (p - 1) + 1 = p
    BY <1>0
  <2> QED BY <1>3, <2>1
<1>5. \A p \in 0 .. n : q[p] \in Nat
  <2> DEFINE S == {p \in 0 .. n : q[p] \in Nat}
  <2>1. n \in S
    BY <1>0, <1>3
  <2>2. \A k \in 1 .. n : k \in S => k - 1 \in S
    BY <1>0, <1>4
  <2>3. 0 .. n \subseteq S
    <3> HIDE DEF S
    <3> QED BY <1>0, <2>1, <2>2, InductionDown
  <2> QED BY <2>3
<1>6. q \in [0 .. n -> Nat]
  BY <1>2, <1>5 DEF q
<1> QED BY <1>3, <1>4, <1>6 DEF n, q

\* Dividing the next number.
LEMMA NextDivided ==
  ASSUME NEW a \in Nat, NEW b \in Nat \ {0}
  PROVE  /\ (a + 1) \div b = IF (a % b) + 1 = b THEN a \div b + 1 ELSE a \div b
         /\ (a + 1) % b = IF (a % b) + 1 = b THEN 0 ELSE (a % b) + 1
<1>1. a \div b \in Nat /\ a % b \in 0 .. (b - 1) /\ a = b * (a \div b) + (a % b)
  OBVIOUS
<1>2. \A q \in Nat : \A m \in 0 .. (b - 1) :
        a + 1 = b * q + m => q = (a + 1) \div b /\ m = (a + 1) % b
  OBVIOUS
<1>3. CASE (a % b) + 1 = b
  <2>1. b * (a \div b + 1) = b * (a \div b) + b
    BY <1>1
  <2>2. a + 1 = b * (a \div b + 1) + 0
    BY <1>1, <1>3, <2>1
  <2>3. a \div b + 1 \in Nat /\ 0 \in 0 .. (b - 1)
    BY <1>1
  <2> QED BY <1>2, <1>3, <2>2, <2>3
<1>4. CASE (a % b) + 1 # b
  <2>1. a + 1 = b * (a \div b) + ((a % b) + 1) /\ (a % b) + 1 \in 0 .. (b - 1)
    BY <1>1, <1>4
  <2> QED BY <1>1, <1>2, <1>4, <2>1
<1> QED BY <1>3, <1>4

\* The digits are below their radices, and what is left of a number is its digit
\* and what is left further to the left.
LEMMA WordDigits ==
  ASSUME NEW r \in Radixes, NEW m \in Nat
  PROVE  /\ DOMAIN Word(r, m) = 1 .. Len(r)
         /\ \A p \in 1 .. Len(r) :
              /\ r[p] \in Nat \ {0}
              /\ Quotients(r, m)[p] \in Nat /\ Quotients(r, m)[p - 1] \in Nat
              /\ Word(r, m)[p] = Quotients(r, m)[p] % r[p]
              /\ Word(r, m)[p] \in 0 .. (r[p] - 1)
              /\ Quotients(r, m)[p] = r[p] * Quotients(r, m)[p - 1] + Word(r, m)[p]
<1> DEFINE q == Quotients(r, m)
           w == Word(r, m)
<1>1. Len(r) \in Nat /\ DOMAIN r = 1 .. Len(r) /\ \A p \in 1 .. Len(r) : r[p] \in Nat \ {0}
  BY DEF Radixes
<1>2. q \in [0 .. Len(r) -> Nat] /\ \A p \in 1 .. Len(r) : q[p - 1] = q[p] \div r[p]
  BY QuotientsDivide
<1>3. DOMAIN w = 1 .. Len(r) /\ \A p \in 1 .. Len(r) : w[p] = q[p] % r[p]
  BY <1>1 DEF Word
<1> HIDE DEF q, w
<1>4. ASSUME NEW p \in 1 .. Len(r)
      PROVE  q[p] \in Nat /\ q[p - 1] \in Nat /\ w[p] \in 0 .. (r[p] - 1)
             /\ q[p] = r[p] * q[p - 1] + w[p]
  <2>1. p \in 0 .. Len(r) /\ p - 1 \in 0 .. Len(r)
    BY <1>1
  <2>2. q[p] \in Nat /\ q[p - 1] \in Nat /\ r[p] \in Nat \ {0}
    BY <1>1, <1>2, <2>1
  <2>3. q[p - 1] = q[p] \div r[p] /\ w[p] = q[p] % r[p]
    BY <1>2, <1>3
  <2>4. \A a \in Nat : \A b \in Nat \ {0} : a % b \in 0 .. (b - 1) /\ a = b * (a \div b) + (a % b)
    OBVIOUS
  <2> QED BY <2>2, <2>3, <2>4
<1> QED BY <1>1, <1>3, <1>4 DEF q, w

\* The products of the beginnings.
IsProducts(h, r) ==
  /\ h[0] = 1 /\ \A k \in 1 .. Len(r) : h[k] = h[k - 1] * r[k]
  /\ \A k \in 0 .. Len(r) : h[k] \in Nat \ {0}

\* A list of domains has them, and its product is the last.
LEMMA ProductsExist ==
  ASSUME NEW r \in Radixes
  PROVE  \E h : IsProducts(h, r) /\ Product(r) = h[Len(r)]
<1>1. Len(r) \in Nat /\ DOMAIN r = 1 .. Len(r) /\ \A p \in 1 .. Len(r) : r[p] \in Nat \ {0}
  BY DEF Radixes
<1>2. PICK h : h[0] = 1 /\ (\A k \in 1 .. Len(r) : h[k] = h[k - 1] * r[k]) /\ Product(r) = h[Len(r)]
  BY <1>1, ProductTrace
<1> DEFINE S == {k \in 0 .. Len(r) : h[k] \in Nat \ {0}}
<1>3. 0 \in S
  BY <1>1, <1>2
<1>4. ASSUME NEW k \in 0 .. (Len(r) - 1), k \in S PROVE k + 1 \in S
  <2>1. k + 1 \in 1 .. Len(r) /\ (k + 1) - 1 = k /\ k + 1 \in 0 .. Len(r)
    BY <1>1
  <2>2. h[k + 1] = h[k] * r[k + 1] /\ r[k + 1] \in Nat \ {0} /\ h[k] \in Nat \ {0}
    BY <1>1, <1>2, <1>4, <2>1
  <2>3. \A a, b \in Nat \ {0} : a * b \in Nat \ {0}
    OBVIOUS
  <2> QED BY <2>1, <2>2, <2>3
<1>5. 0 .. Len(r) \subseteq S
  <2> HIDE DEF S
  <2> QED BY <1>1, <1>3, <1>4, InductionUpTo
<1> QED BY <1>2, <1>5 DEF IsProducts

\* Below the product of the radices nothing is left on the left, and at it one.
LEMMA NothingLeft ==
  ASSUME NEW r \in Radixes, NEW m \in Nat
  PROVE  /\ Product(r) \in Nat \ {0}
         /\ m < Product(r) => Quotients(r, m)[0] = 0
         /\ m = Product(r) => Quotients(r, m)[0] = 1
<1> DEFINE q == Quotients(r, m)
           n == Len(r)
<1>1. PICK h : IsProducts(h, r) /\ Product(r) = h[n]
  BY ProductsExist
<1>2. n \in Nat
  BY DEF Radixes
<1>3. q[n] = m /\ (\A p \in 1 .. n : q[p - 1] = q[p] \div r[p]) /\ \A p \in 0 .. n : q[p] \in Nat
  BY QuotientsDivide
<1>4. /\ h[0] = 1 /\ \A p \in 1 .. n : h[p] = h[p - 1] * r[p]
      /\ \A p \in 0 .. n : h[p] \in Nat \ {0}
  BY <1>1 DEF IsProducts
<1>5. \A p \in 1 .. n : r[p] \in Nat \ {0}
  BY DEF Radixes
<1> HIDE DEF q, n
<1>6. ASSUME NEW p \in 1 .. n
      PROVE  (q[p] < h[p] => q[p - 1] < h[p - 1]) /\ (q[p] = h[p] => q[p - 1] = h[p - 1])
  <2>1. p \in 0 .. n /\ p - 1 \in 0 .. n
    BY <1>2
  <2>2. /\ q[p] \in Nat /\ h[p - 1] \in Nat \ {0} /\ r[p] \in Nat \ {0}
        /\ h[p] = h[p - 1] * r[p] /\ q[p - 1] = q[p] \div r[p]
    BY <1>3, <1>4, <1>5, <2>1
  <2>3. \A a \in Nat : \A b, c \in Nat \ {0} :
          (a < c * b => a \div b < c) /\ (a = c * b => a \div b = c)
    OBVIOUS
  <2> QED BY <2>2, <2>3
<1>7. m < h[n] => q[0] < h[0]
  <2> SUFFICES ASSUME m < h[n] PROVE q[0] < h[0]
    OBVIOUS
  <2> DEFINE S == {p \in 0 .. n : q[p] < h[p]}
  <2>1. n \in S
    BY <1>2, <1>3
  <2>2. \A p \in 1 .. n : p \in S => p - 1 \in S
    BY <1>2, <1>6
  <2>3. 0 .. n \subseteq S
    <3> HIDE DEF S
    <3> QED BY <1>2, <2>1, <2>2, InductionDown
  <2> QED BY <1>2, <2>3
<1>8. m = h[n] => q[0] = h[0]
  <2> SUFFICES ASSUME m = h[n] PROVE q[0] = h[0]
    OBVIOUS
  <2> DEFINE S == {p \in 0 .. n : q[p] = h[p]}
  <2>1. n \in S
    BY <1>2, <1>3
  <2>2. \A p \in 1 .. n : p \in S => p - 1 \in S
    BY <1>2, <1>6
  <2>3. 0 .. n \subseteq S
    <3> HIDE DEF S
    <3> QED BY <1>2, <2>1, <2>2, InductionDown
  <2> QED BY <1>2, <2>3
<1>9. q[0] \in Nat /\ h[0] = 1 /\ h[n] \in Nat \ {0}
  BY <1>2, <1>3, <1>4
<1> QED BY <1>1, <1>7, <1>8, <1>9 DEF q

\* Counting on, what is left at a place grows if all digits behind it are full.
Full(r, m, p) == \A j \in (p + 1) .. Len(r) : Word(r, m)[j] + 1 = r[j]

\* If so it grows by one, and otherwise not at all.
LEMMA CarryReaches ==
  ASSUME NEW r \in Radixes, NEW m \in Nat, NEW p \in 0 .. Len(r)
  PROVE  Quotients(r, m + 1)[p]
         = IF Full(r, m, p) THEN Quotients(r, m)[p] + 1 ELSE Quotients(r, m)[p]
<1> DEFINE q == Quotients(r, m)
           q1 == Quotients(r, m + 1)
           w == Word(r, m)
           n == Len(r)
           S == {k \in 0 .. n : q1[k] = IF Full(r, m, k) THEN q[k] + 1 ELSE q[k]}
<1>1. n \in Nat
  BY DEF Radixes
<1>2. q[n] = m /\ q1[n] = m + 1 /\ \A k \in 1 .. n : q1[k - 1] = q1[k] \div r[k]
  BY QuotientsDivide
<1>3. \A k \in 1 .. n : /\ r[k] \in Nat \ {0} /\ q[k] \in Nat /\ q[k - 1] = q[k] \div r[k]
                        /\ w[k] = q[k] % r[k]
  BY QuotientsDivide, WordDigits
<1>4. Full(r, m, n)
  BY <1>1 DEF Full
<1>5. ASSUME NEW k \in 1 .. n PROVE Full(r, m, k - 1) <=> Full(r, m, k) /\ w[k] + 1 = r[k]
  <2>1. (k - 1) + 1 = k /\ k .. n = {k} \cup ((k + 1) .. n)
    BY <1>1
  <2> QED BY <2>1 DEF Full
<1> HIDE DEF q, q1, w, n
<1>6. n \in S
  BY <1>1, <1>2, <1>4
<1>7. ASSUME NEW k \in 1 .. n, k \in S PROVE k - 1 \in S
  <2>1. k - 1 \in 0 .. n
    BY <1>1
  <2>2. q1[k] = IF Full(r, m, k) THEN q[k] + 1 ELSE q[k]
    BY <1>7
  <2>3. /\ r[k] \in Nat \ {0} /\ q[k] \in Nat /\ q[k - 1] = q[k] \div r[k]
        /\ w[k] = q[k] % r[k] /\ q1[k - 1] = q1[k] \div r[k]
    BY <1>2, <1>3
  <2>4. \A a \in Nat : \A b \in Nat \ {0} :
          (a + 1) \div b = IF (a % b) + 1 = b THEN a \div b + 1 ELSE a \div b
    BY NextDivided
  <2>5. (q[k] + 1) \div r[k]
        = IF (q[k] % r[k]) + 1 = r[k] THEN q[k] \div r[k] + 1 ELSE q[k] \div r[k]
    BY <2>3, <2>4
  <2>6. (q[k] + 1) \div r[k] = IF w[k] + 1 = r[k] THEN q[k - 1] + 1 ELSE q[k - 1]
    BY <2>3, <2>5
  <2>7. q1[k - 1] = IF Full(r, m, k - 1) THEN q[k - 1] + 1 ELSE q[k - 1]
    BY <1>5, <2>2, <2>3, <2>6
  <2> QED BY <2>1, <2>7
<1>8. 0 .. n \subseteq S
  <2> HIDE DEF S
  <2> QED BY <1>1, <1>6, <1>7, InductionDown
<1> QED BY <1>8 DEF q, q1, n

\* The odometer: the last digit that is not full moves, and those behind it roll
\* over; there is none such only at the last word.
LastToMove(r, m) == Max({p \in 1 .. Len(r) : Word(r, m)[p] + 1 # r[p]} \cup {0})

\* The word after a word, and which word is the last.
LEMMA NextWord ==
  ASSUME NEW r \in Radixes, NEW m \in Nat, m < Product(r)
  PROVE  /\ LastToMove(r, m) \in 0 .. Len(r)
         /\ LastToMove(r, m) = 0 <=> m + 1 = Product(r)
         /\ \A p \in (LastToMove(r, m) + 1) .. Len(r) : Word(r, m)[p] + 1 = r[p]
         /\ LastToMove(r, m) # 0 =>
              /\ Word(r, m)[LastToMove(r, m)] + 1 # r[LastToMove(r, m)]
              /\ \A p \in 1 .. Len(r) :
                   Word(r, m + 1)[p] = IF p < LastToMove(r, m) THEN Word(r, m)[p]
                                       ELSE IF p = LastToMove(r, m) THEN Word(r, m)[p] + 1
                                       ELSE 0
<1> DEFINE q == Quotients(r, m)
           q1 == Quotients(r, m + 1)
           w == Word(r, m)
           w1 == Word(r, m + 1)
           n == Len(r)
           T == {p \in 1 .. n : w[p] + 1 # r[p]} \cup {0}
           last == LastToMove(r, m)
<1>1. n \in Nat /\ m + 1 \in Nat
  BY DEF Radixes
<1>2. last = Max(T)
  BY DEF LastToMove
<1>3. \A p \in 1 .. n : /\ r[p] \in Nat \ {0} /\ q[p] \in Nat /\ w[p] = q[p] % r[p]
                        /\ w1[p] = q1[p] % r[p] /\ w[p] \in 0 .. (r[p] - 1)
  BY <1>1, WordDigits
<1>4. \A p \in 0 .. n : q1[p] = IF Full(r, m, p) THEN q[p] + 1 ELSE q[p]
  BY CarryReaches
<1>5. /\ q[0] = 0 /\ Product(r) \in Nat
      /\ m + 1 < Product(r) => q1[0] = 0
      /\ m + 1 = Product(r) => q1[0] = 1
  BY <1>1, NothingLeft
<1>6. \A p \in 0 .. n : Full(r, m, p) <=> \A j \in (p + 1) .. n : w[j] + 1 = r[j]
  BY DEF Full
<1> HIDE DEF q, q1, w, w1, n, last
<1>7. last \in T /\ last \in 0 .. n /\ \A p \in T : last >= p
  <2>1. T \subseteq 0 .. n /\ T # {}
    BY <1>1
  <2> HIDE DEF T
  <2> QED BY <1>1, <1>2, <2>1, MaxIsGreatest
<1>8. \A p \in (last + 1) .. n : w[p] + 1 = r[p]
  BY <1>1, <1>7
<1>9. last = 0 <=> Full(r, m, 0)
  BY <1>1, <1>6, <1>7, <1>8
<1>10. last = 0 <=> m + 1 = Product(r)
  <2>1. 0 \in 0 .. n
    BY <1>1
  <2>2. q1[0] = IF Full(r, m, 0) THEN 1 ELSE 0
    BY <1>4, <1>5, <2>1
  <2>3. ~(m + 1 < Product(r)) => m + 1 = Product(r)
    BY <1>5
  <2> QED BY <1>5, <1>9, <2>2, <2>3
<1>11. ASSUME last # 0, NEW p \in 1 .. n
       PROVE  w1[p] = IF p < last THEN w[p] ELSE IF p = last THEN w[p] + 1 ELSE 0
  <2>1. w[last] + 1 # r[last] /\ last \in 1 .. n
    BY <1>7, <1>11
  <2>2. p \in 0 .. n /\ q1[p] = IF Full(r, m, p) THEN q[p] + 1 ELSE q[p]
    BY <1>4
  <2>3. /\ r[p] \in Nat \ {0} /\ q[p] \in Nat /\ w[p] = q[p] % r[p] /\ w1[p] = q1[p] % r[p]
    BY <1>3
  <2>4. (q[p] + 1) % r[p] = IF w[p] + 1 = r[p] THEN 0 ELSE w[p] + 1
    BY <2>3, NextDivided
  <2>5. CASE p < last
    <3>1. last \in (p + 1) .. n
      BY <1>1, <2>1, <2>5
    <3>2. ~Full(r, m, p)
      BY <1>6, <2>1, <2>2, <3>1
    <3> QED BY <2>2, <2>3, <2>5, <3>2
  <2>6. CASE p >= last
    <3>1. \A j \in (p + 1) .. n : j \in (last + 1) .. n
      BY <1>1, <2>1, <2>6
    <3>2. Full(r, m, p)
      BY <1>6, <1>8, <2>2, <3>1
    <3>3. p # last => w[p] + 1 = r[p]
      BY <1>1, <1>8, <2>1, <2>6
    <3> QED BY <2>1, <2>2, <2>3, <2>4, <2>6, <3>2, <3>3
  <2> QED BY <2>1, <2>5, <2>6
<1> QED BY <1>7, <1>8, <1>10, <1>11 DEF q, w, w1, n, last

\* The first word.
LEMMA FirstWord ==
  ASSUME NEW r \in Radixes
  PROVE  Word(r, 0) = Zeros(r)
<1> DEFINE q == Quotients(r, 0)
           n == Len(r)
           S == {p \in 0 .. n : q[p] = 0}
<1>1. n \in Nat /\ DOMAIN r = 1 .. n /\ \A p \in 1 .. n : r[p] \in Nat \ {0}
  BY DEF Radixes
<1>2. q[n] = 0 /\ \A p \in 1 .. n : q[p - 1] = q[p] \div r[p]
  BY QuotientsDivide
<1>3. \A b \in Nat \ {0} : 0 \div b = 0 /\ 0 % b = 0
  OBVIOUS
<1>4. \A p \in 1 .. n : q[p] = 0
  <2> HIDE DEF q, n
  <2>1. n \in S
    BY <1>1, <1>2
  <2>2. \A p \in 1 .. n : p \in S => p - 1 \in S
    BY <1>1, <1>2, <1>3
  <2>3. 0 .. n \subseteq S
    <3> HIDE DEF S
    <3> QED BY <1>1, <2>1, <2>2, InductionDown
  <2> QED BY <1>1, <2>3
<1>5. \A p \in DOMAIN r : q[p] % r[p] = 0
  BY <1>1, <1>3, <1>4
<1> QED BY <1>5 DEF Word, Zeros

\* No two numbers below the product have the same word.
LEMMA WordsDiffer ==
  ASSUME NEW r \in Radixes, NEW a \in Nat, NEW b \in Nat,
         a < Product(r), b < Product(r), Word(r, a) = Word(r, b)
  PROVE  a = b
<1> DEFINE n == Len(r)
           qa == Quotients(r, a)
           qb == Quotients(r, b)
           S == {p \in 0 .. n : qa[p] = qb[p]}
<1>1. n \in Nat
  BY DEF Radixes
<1>2. qa[n] = a /\ qb[n] = b /\ qa[0] = 0 /\ qb[0] = 0
  BY QuotientsDivide, NothingLeft
<1>3. \A p \in 1 .. n : qa[p] = r[p] * qa[p - 1] + Word(r, a)[p]
  BY WordDigits
<1>4. \A p \in 1 .. n : qb[p] = r[p] * qb[p - 1] + Word(r, b)[p]
  BY WordDigits
<1> HIDE DEF n, qa, qb
<1>5. 0 \in S
  BY <1>1, <1>2
<1>6. ASSUME NEW p \in 0 .. (n - 1), p \in S PROVE p + 1 \in S
  <2>1. p + 1 \in 1 .. n /\ (p + 1) - 1 = p /\ p + 1 \in 0 .. n
    BY <1>1
  <2>2. qa[p + 1] = r[p + 1] * qa[p] + Word(r, a)[p + 1]
    BY <1>3, <2>1
  <2>3. qb[p + 1] = r[p + 1] * qb[p] + Word(r, b)[p + 1]
    BY <1>4, <2>1
  <2> QED BY <1>6, <2>1, <2>2, <2>3
<1>7. 0 .. n \subseteq S
  <2> HIDE DEF S
  <2> QED BY <1>1, <1>5, <1>6, InductionUpTo
<1> QED BY <1>1, <1>2, <1>7

-----------------------------------------------------------------------------
\* Lists put behind one another: where each begins, and what stands there.
IsOffsets(o, ss) ==
  /\ o[0] = 0 /\ \A k \in 1 .. Len(ss) : o[k] = o[k - 1] + Len(ss[k])
  /\ \A k \in 0 .. Len(ss) : o[k] \in Nat

Offsets(ss) == CHOOSE o : IsOffsets(o, ss)

\* There are such offsets.
LEMMA OffsetsExist ==
  ASSUME NEW T, NEW ss \in Seq(Seq(T))
  PROVE  IsOffsets(Offsets(ss), ss)
<1> DEFINE n == Len(ss)
           step == [k \in 1 .. n |-> [t \in Nat |-> t + Len(ss[k])]]
<1>1. n \in Nat /\ \A k \in 1 .. n : Len(ss[k]) \in Nat
  <2>1. n \in Nat /\ \A k \in 1 .. n : ss[k] \in Seq(T)
    BY ElementOfSeq
  <2> QED BY <2>1, LenProperties
<1>2. \A k \in 1 .. n : \A t \in Nat : step[k][t] = t + Len(ss[k]) /\ t + Len(ss[k]) \in Nat
  BY <1>1
<1> HIDE DEF n, step
<1>3. Traceable(n, Nat, 0, step)
  BY <1>1, <1>2 DEF Traceable
<1>4. PICK o \in [0 .. n -> Nat] : IsTrace(o, n, 0, step)
  BY <1>3, TraceExists
<1>5. o[0] = 0
  BY <1>4 DEF IsTrace
<1>6. ASSUME NEW k \in 1 .. n PROVE o[k] = o[k - 1] + Len(ss[k])
  <2>1. k - 1 \in 0 .. n
    BY <1>1
  <2> QED BY <1>2, <1>4, <2>1 DEF IsTrace
<1>7. IsOffsets(o, ss)
  BY <1>4, <1>5, <1>6 DEF IsOffsets, n
<1> QED BY <1>7 DEF Offsets

\* They grow, and every place belongs to one of the lists.
LEMMA OffsetsGrow ==
  ASSUME NEW T, NEW ss \in Seq(Seq(T)), \A k \in 1 .. Len(ss) : ss[k] # <<>>
  PROVE  /\ \A k \in 0 .. Len(ss) : Offsets(ss)[k] \in Nat
         /\ \A k \in 1 .. Len(ss) : /\ Offsets(ss)[k] <= Offsets(ss)[Len(ss)]
                                    /\ k # Len(ss) => Offsets(ss)[k] < Offsets(ss)[Len(ss)]
         /\ \A a \in 1 .. Offsets(ss)[Len(ss)] : \E k \in 1 .. Len(ss) :
              \E x \in 1 .. Len(ss[k]) : a = Offsets(ss)[k - 1] + x
<1> DEFINE n == Len(ss)
           o == Offsets(ss)
           D == {k \in 0 .. n : o[k] <= o[n] /\ (k # n => o[k] < o[n])}
           Found(k) ==
             \A a \in 1 .. o[k] : \E j \in 1 .. n : \E x \in 1 .. Len(ss[j]) : a = o[j - 1] + x
           S == {k \in 0 .. n : Found(k)}
<1>1. n \in Nat /\ \A k \in 1 .. n : Len(ss[k]) \in Nat \ {0}
  <2>1. n \in Nat /\ \A k \in 1 .. n : ss[k] \in Seq(T) /\ ss[k] # <<>>
    BY ElementOfSeq
  <2> QED BY <2>1, LenProperties, EmptySeq
<1>2. /\ o[0] = 0 /\ \A k \in 1 .. n : o[k] = o[k - 1] + Len(ss[k])
      /\ \A k \in 0 .. n : o[k] \in Nat
  BY OffsetsExist DEF IsOffsets
<1> HIDE DEF n, o
<1>3. n \in D
  BY <1>1, <1>2
<1>4. ASSUME NEW k \in 1 .. n, k \in D PROVE k - 1 \in D
  <2>1. k - 1 \in 0 .. n /\ k \in 0 .. n
    BY <1>1
  <2>2. o[k - 1] \in Nat /\ o[k] \in Nat /\ o[n] \in Nat
    BY <1>1, <1>2, <2>1
  <2>3. o[k] = o[k - 1] + Len(ss[k]) /\ Len(ss[k]) \in Nat \ {0}
    BY <1>1, <1>2
  <2>4. o[k - 1] < o[k]
    BY <2>2, <2>3
  <2> QED BY <1>4, <2>1, <2>2, <2>4
<1>5. 0 .. n \subseteq D
  <2> HIDE DEF D
  <2> QED BY <1>1, <1>3, <1>4, InductionDown
<1>6. 0 \in S
  BY <1>1, <1>2
<1>7. ASSUME NEW k \in 0 .. (n - 1), k \in S PROVE k + 1 \in S
  <2>1. k + 1 \in 1 .. n /\ (k + 1) - 1 = k /\ k \in 0 .. n /\ k + 1 \in 0 .. n
    BY <1>1
  <2>2. o[k] \in Nat /\ Len(ss[k + 1]) \in Nat /\ o[k + 1] = o[k] + Len(ss[k + 1])
    BY <1>1, <1>2, <2>1
  <2>3. ASSUME NEW a \in 1 .. o[k + 1]
        PROVE  \E j \in 1 .. n : \E x \in 1 .. Len(ss[j]) : a = o[j - 1] + x
    <3>1. CASE a <= o[k]
      <4>1. a \in 1 .. o[k]
        BY <2>2, <3>1
      <4> QED BY <1>7, <4>1
    <3>2. CASE a > o[k]
      <4>1. a - o[k] \in 1 .. Len(ss[k + 1]) /\ a = o[(k + 1) - 1] + (a - o[k])
        BY <2>1, <2>2, <3>2
      <4> QED BY <2>1, <4>1
    <3> QED BY <2>2, <3>1, <3>2
  <2> QED BY <2>1, <2>3
<1>8. 0 .. n \subseteq S
  <2> HIDE DEF S
  <2> QED BY <1>1, <1>6, <1>7, InductionUpTo
<1>9. n \in 0 .. n
  BY <1>1
<1>10. Found(n)
  BY <1>8, <1>9
<1>11. \A k \in 1 .. n : o[k] <= o[n] /\ (k # n => o[k] < o[n])
  BY <1>1, <1>5
<1> QED BY <1>2, <1>10, <1>11 DEF n, o

\* FlattenSeq puts every element of every list at its offset.
LEMMA Flattened ==
  ASSUME NEW T, NEW ss \in Seq(Seq(T)), ss # <<>>
  PROVE  /\ FlattenSeq(ss) \in Seq(T)
         /\ Len(FlattenSeq(ss)) = Offsets(ss)[Len(ss)]
         /\ \A k \in 1 .. Len(ss) : \A x \in 1 .. Len(ss[k]) :
              FlattenSeq(ss)[Offsets(ss)[k - 1] + x] = ss[k][x]
<1> DEFINE n == Len(ss)
           o == Offsets(ss)
           Eq(f) == f = [i \in 1 .. n |-> IF i = 1 THEN ss[i] ELSE f[i - 1] \o ss[i]]
           flatten == CHOOSE f : Eq(f)
<1>1. n \in Nat \ {0} /\ \A k \in 1 .. n : ss[k] \in Seq(T) /\ Len(ss[k]) \in Nat
  <2>1. n \in Nat /\ n # 0 /\ \A k \in 1 .. n : ss[k] \in Seq(T)
    BY ElementOfSeq, EmptySeq, LenProperties
  <2> QED BY <2>1, LenProperties
<1>2. /\ o[0] = 0 /\ \A k \in 1 .. n : o[k] = o[k - 1] + Len(ss[k])
      /\ \A k \in 0 .. n : o[k] \in Nat
  BY OffsetsExist DEF IsOffsets
<1>3. \E f : Eq(f)
  <2> DEFINE step == [k \in 1 .. (n - 1) |-> [t \in Seq(T) |-> t \o ss[k + 1]]]
  <2> HIDE DEF n
  <2>1. ASSUME NEW k \in 1 .. (n - 1), NEW t \in Seq(T)
        PROVE  step[k][t] = t \o ss[k + 1] /\ t \o ss[k + 1] \in Seq(T)
    <3>1. k + 1 \in 1 .. n
      BY <1>1
    <3> QED BY <1>1, <3>1, ConcatProperties
  <2> HIDE DEF step
  <2>2. n - 1 \in Nat /\ 1 \in 1 .. n /\ ss[1] \in Seq(T)
    BY <1>1
  <2>3. Traceable(n - 1, Seq(T), ss[1], step)
    BY <2>2, <2>1 DEF Traceable
  <2>4. PICK g \in [0 .. (n - 1) -> Seq(T)] : IsTrace(g, n - 1, ss[1], step)
    BY <2>3, TraceExists
  <2> DEFINE f == [i \in 1 .. n |-> g[i - 1]]
  <2>5. ASSUME NEW i \in 1 .. n, i # 1 PROVE f[i] = f[i - 1] \o ss[i]
    <3>1. /\ i - 1 \in 1 .. (n - 1) /\ (i - 1) + 1 = i /\ (i - 1) - 1 \in 0 .. (n - 1)
          /\ i - 1 \in 1 .. n
      BY <1>1, <2>5
    <3>2. f[i] = g[i - 1] /\ f[i - 1] = g[(i - 1) - 1]
      BY <3>1
    <3>3. g[i - 1] = step[i - 1][g[(i - 1) - 1]]
      BY <2>4, <3>1 DEF IsTrace
    <3> QED BY <2>1, <3>1, <3>2, <3>3
  <2>6. f[1] = ss[1]
    BY <1>1, <2>4 DEF IsTrace
  <2>7. Eq(f)
    BY <2>5, <2>6
  <2> QED BY <2>7
<1>4. Eq(flatten)
  <2> HIDE DEF Eq
  <2> QED BY <1>3
<1>5. FlattenSeq(ss) = flatten[n]
  BY <1>1, Zenon DEF FlattenSeq
<1>6. \A i \in 1 .. n : flatten[i] = IF i = 1 THEN ss[i] ELSE flatten[i - 1] \o ss[i]
  <2> HIDE DEF flatten
  <2> QED BY <1>4
<1> HIDE DEF flatten, n, o
<1> DEFINE Holds(i) == /\ flatten[i] \in Seq(T) /\ Len(flatten[i]) = o[i]
                       /\ \A k \in 1 .. i : \A x \in 1 .. Len(ss[k]) :
                            /\ o[k - 1] + x \in 1 .. o[i]
                            /\ flatten[i][o[k - 1] + x] = ss[k][x]
           S == {i \in 0 .. n : i # 0 => Holds(i)}
<1>7. 0 \in S
  BY <1>1
<1>8. ASSUME NEW i \in 0 .. (n - 1), i \in S PROVE i + 1 \in S
  <2>1. i + 1 \in 1 .. n /\ i + 1 \in 0 .. n /\ (i + 1) - 1 = i /\ i \in 0 .. n
    BY <1>1
  <2>2. /\ o[i] \in Nat /\ o[i + 1] = o[i] + Len(ss[i + 1]) /\ ss[i + 1] \in Seq(T)
        /\ Len(ss[i + 1]) \in Nat
    BY <1>1, <1>2, <2>1
  <2>3. CASE i = 0
    <3>1. flatten[i + 1] = ss[i + 1]
      BY <1>6, <2>1, <2>3
    <3>2. o[i] = 0 /\ o[i + 1] = Len(ss[i + 1])
      BY <1>2, <2>2, <2>3
    <3>3. ASSUME NEW k \in 1 .. (i + 1), NEW x \in 1 .. Len(ss[k])
          PROVE  /\ o[k - 1] + x \in 1 .. o[i + 1]
                 /\ flatten[i + 1][o[k - 1] + x] = ss[k][x]
      <4>1. k = i + 1 /\ k - 1 = i
        BY <2>3
      <4>2. o[k - 1] + x = x /\ x \in 1 .. Len(ss[i + 1])
        BY <3>2, <4>1
      <4> QED BY <3>1, <3>2, <4>1, <4>2
    <3>4. Holds(i + 1)
      BY <2>2, <3>1, <3>2, <3>3
    <3> QED BY <2>1, <3>4
  <2>4. CASE i # 0
    <3>1. i \in 1 .. n /\ flatten[i + 1] = flatten[i] \o ss[i + 1]
      <4> HIDE DEF Holds, S
      <4>1. i \in 1 .. n /\ i + 1 # 1
        BY <1>1, <2>4
      <4>2. flatten[i + 1] = flatten[(i + 1) - 1] \o ss[i + 1]
        BY <1>6, <2>1, <4>1
      <4> QED BY <2>1, <4>1, <4>2
    <3>2. Holds(i)
      <4> HIDE DEF Holds
      <4> QED BY <1>8, <2>4
    <3>3. flatten[i] \in Seq(T) /\ Len(flatten[i]) = o[i]
      BY <3>2
    <3>4. /\ flatten[i + 1] \in Seq(T) /\ Len(flatten[i + 1]) = o[i + 1]
          /\ \A a \in 1 .. (o[i] + Len(ss[i + 1])) :
               flatten[i + 1][a] = IF a <= o[i] THEN flatten[i][a] ELSE ss[i + 1][a - o[i]]
      <4> HIDE DEF Holds, S
      <4>2. PICK u, v \in Seq(T) : u = flatten[i] /\ v = ss[i + 1]
        BY <2>2, <3>3
      <4>3. u \o v = flatten[i + 1] /\ Len(u) = o[i] /\ o[i + 1] = o[i] + Len(v)
        BY <2>2, <3>1, <3>3, <4>2
      <4>4. /\ u \o v \in Seq(T) /\ Len(u \o v) = Len(u) + Len(v)
            /\ \A a \in 1 .. Len(u) + Len(v) :
                 (u \o v)[a] = IF a <= Len(u) THEN u[a] ELSE v[a - Len(u)]
        BY ConcatProperties
      <4>5. \A a \in 1 .. o[i] + Len(v) :
              flatten[i + 1][a] = IF a <= o[i] THEN u[a] ELSE v[a - o[i]]
        BY <4>3, <4>4
      <4> QED BY <4>2, <4>3, <4>4, <4>5
    <3>5. ASSUME NEW k \in 1 .. (i + 1), NEW x \in 1 .. Len(ss[k])
          PROVE  /\ o[k - 1] + x \in 1 .. o[i + 1]
                 /\ flatten[i + 1][o[k - 1] + x] = ss[k][x]
      <4>1. CASE k = i + 1
        <5>1. x \in 1 .. Len(ss[i + 1]) /\ k - 1 = i
          BY <2>1, <4>1
        <5>2. /\ o[i] + x \in 1 .. (o[i] + Len(ss[i + 1])) /\ ~(o[i] + x <= o[i])
              /\ (o[i] + x) - o[i] = x
          BY <2>2, <5>1
        <5> QED BY <2>2, <3>4, <4>1, <5>1, <5>2
      <4>2. CASE k # i + 1
        <5>1. k \in 1 .. i
          BY <1>1, <4>2
        <5>2. o[k - 1] + x \in 1 .. o[i] /\ flatten[i][o[k - 1] + x] = ss[k][x]
          BY <3>2, <5>1
        <5>3. o[k - 1] + x \in 1 .. (o[i] + Len(ss[i + 1])) /\ o[k - 1] + x <= o[i]
          BY <2>2, <5>2
        <5> QED BY <2>2, <3>4, <5>2, <5>3
      <4> QED BY <4>1, <4>2
    <3>6. Holds(i + 1)
      BY <3>4, <3>5
    <3> QED BY <2>1, <3>6
  <2> QED BY <2>3, <2>4
<1>9. 0 .. n \subseteq S
  <2> HIDE DEF S
  <2> QED BY <1>1, <1>7, <1>8, InductionUpTo
<1>10. n \in 0 .. n /\ n # 0
  BY <1>1
<1>11. Holds(n)
  BY <1>9, <1>10
<1> QED BY <1>5, <1>11 DEF n, o

-----------------------------------------------------------------------------
\* A checked operation on numbers that are checked is the operation, checked.
LEMMA CheckedTimes ==
  ASSUME NEW a \in Nat \ {0}, NEW b \in Nat \ {0}, NEW c \in {b, Checked(b)}
  PROVE  CheckedMultiply(Checked(a), c) = Checked(a * b)
<1>1. SizeMax \in Nat
  BY TemplatesAssumption
<1>2. a * b \in Nat \ {0} /\ a <= a * b /\ b <= a * b
  OBVIOUS
<1>3. CASE a > SizeMax
  <2>1. Checked(a) = Overflow /\ Checked(a * b) = Overflow
    BY <1>1, <1>2, <1>3 DEF Checked
  <2> QED BY <2>1 DEF CheckedMultiply
<1>4. CASE ~(a > SizeMax) /\ b > SizeMax
  <2>1. /\ Checked(a) = a /\ Checked(b) = Overflow /\ Checked(a * b) = Overflow
        /\ a # Overflow /\ b # Overflow
    BY <1>1, <1>2, <1>4 DEF Checked, Overflow
  <2>2. CASE c = b
    BY <2>1, <2>2 DEF CheckedMultiply
  <2>3. CASE c = Checked(b)
    BY <2>1, <2>3 DEF CheckedMultiply
  <2> QED BY <2>2, <2>3
<1>5. CASE ~(a > SizeMax) /\ ~(b > SizeMax)
  <2>1. Checked(a) = a /\ c = b /\ a # Overflow /\ b # Overflow
    BY <1>5 DEF Checked, Overflow
  <2> QED BY <2>1 DEF CheckedMultiply
<1> QED BY <1>3, <1>4, <1>5

\* So is a checked sum.
LEMMA CheckedPlus ==
  ASSUME NEW a \in Nat, NEW b \in Nat
  PROVE  CheckedAdd(Checked(a), Checked(b)) = Checked(a + b)
<1>1. SizeMax \in Nat /\ a + b \in Nat /\ a <= a + b /\ b <= a + b /\ a # Overflow /\ b # Overflow
  BY TemplatesAssumption DEF Overflow
<1>2. CASE a > SizeMax \/ b > SizeMax
  <2>1. (Checked(a) = Overflow \/ Checked(b) = Overflow) /\ Checked(a + b) = Overflow
    BY <1>1, <1>2 DEF Checked
  <2> QED BY <2>1 DEF CheckedAdd
<1>3. CASE ~(a > SizeMax) /\ ~(b > SizeMax)
  <2>1. Checked(a) = a /\ Checked(b) = b
    BY <1>3 DEF Checked
  <2> QED BY <1>1, <2>1 DEF CheckedAdd
<1> QED BY <1>2, <1>3

\* A checked number is a size or the overflow.
LEMMA CheckedTypes ==
  ASSUME NEW a \in Nat
  PROVE  Checked(a) \in Sizes /\ a \in Sizes
  BY DEF Checked, Sizes

\* A checked product is the product, checked once.
LEMMA CheckedProduct ==
  ASSUME NEW r \in Radixes, NEW s, DOMAIN s = 1 .. Len(r),
         \A k \in 1 .. Len(r) : s[k] \in {r[k], Checked(r[k])}
  PROVE  FoldLeft(CheckedMultiply, 1, s) = Checked(Product(r))
<1> DEFINE n == Len(r)
<1>1. n \in Nat /\ \A k \in 1 .. n : r[k] \in Nat \ {0}
  BY DEF Radixes
<1>2. \A k \in 1 .. n : s[k] \in Sizes
  BY <1>1, CheckedTypes
<1>3. PICK h : /\ h[0] = 1 /\ \A k \in 1 .. n : h[k] = CheckedMultiply(h[k - 1], s[k])
               /\ FoldLeft(CheckedMultiply, 1, s) = h[n]
  <2> HIDE DEF n
  <2> QED BY <1>1, <1>2, CheckedProductTrace DEF n
<1>4. PICK p : IsProducts(p, r) /\ Product(r) = p[n]
  BY ProductsExist
<1>5. /\ p[0] = 1 /\ \A k \in 1 .. n : p[k] = p[k - 1] * r[k]
      /\ \A k \in 0 .. n : p[k] \in Nat \ {0}
  BY <1>4 DEF IsProducts
<1> DEFINE S == {k \in 0 .. n : h[k] = Checked(p[k])}
<1> HIDE DEF n
<1>6. 0 \in S
  <2>1. ~(1 > SizeMax)
    BY TemplatesAssumption
  <2> QED BY <1>1, <1>3, <1>5, <2>1 DEF Checked
<1>7. ASSUME NEW k \in 0 .. (n - 1), k \in S PROVE k + 1 \in S
  <2>1. k + 1 \in 1 .. n /\ (k + 1) - 1 = k /\ k + 1 \in 0 .. n /\ k \in 0 .. n
    BY <1>1
  <2>2. h[k + 1] = CheckedMultiply(h[k], s[k + 1]) /\ p[k + 1] = p[k] * r[k + 1]
    BY <1>3, <1>5, <2>1
  <2>3. /\ p[k] \in Nat \ {0} /\ r[k + 1] \in Nat \ {0} /\ h[k] = Checked(p[k])
        /\ s[k + 1] \in {r[k + 1], Checked(r[k + 1])}
    BY <1>1, <1>5, <1>7, <2>1 DEF n
  <2>4. CheckedMultiply(Checked(p[k]), s[k + 1]) = Checked(p[k] * r[k + 1])
    BY <2>3, CheckedTimes
  <2> QED BY <2>1, <2>2, <2>3, <2>4
<1>8. 0 .. n \subseteq S
  <2> HIDE DEF S
  <2> QED BY <1>1, <1>6, <1>7, InductionUpTo
<1> QED BY <1>1, <1>3, <1>4, <1>8

\* A checked sum of lengths is the length of the whole, checked once.
LEMMA CheckedSum ==
  ASSUME NEW T, NEW ss \in Seq(Seq(T)), NEW s, DOMAIN s = 1 .. Len(ss),
         \A k \in 1 .. Len(ss) : s[k] = Checked(Len(ss[k]))
  PROVE  FoldLeft(CheckedAdd, 0, s) = Checked(Offsets(ss)[Len(ss)])
<1> DEFINE n == Len(ss)
           o == Offsets(ss)
<1>1. n \in Nat /\ \A k \in 1 .. n : Len(ss[k]) \in Nat
  <2>1. n \in Nat /\ \A k \in 1 .. n : ss[k] \in Seq(T)
    BY ElementOfSeq
  <2> QED BY <2>1, LenProperties
<1>2. \A k \in 1 .. n : s[k] \in Sizes
  BY <1>1, CheckedTypes
<1>3. PICK h : /\ h[0] = 0 /\ \A k \in 1 .. n : h[k] = CheckedAdd(h[k - 1], s[k])
               /\ FoldLeft(CheckedAdd, 0, s) = h[n]
  <2> HIDE DEF n
  <2> QED BY <1>1, <1>2, CheckedSumTrace DEF n
<1>4. /\ o[0] = 0 /\ \A k \in 1 .. n : o[k] = o[k - 1] + Len(ss[k])
      /\ \A k \in 0 .. n : o[k] \in Nat
  BY OffsetsExist DEF IsOffsets
<1> DEFINE S == {k \in 0 .. n : h[k] = Checked(o[k])}
<1> HIDE DEF n, o
<1>6. 0 \in S
  <2>1. ~(0 > SizeMax)
    BY TemplatesAssumption
  <2> QED BY <1>1, <1>3, <1>4, <2>1 DEF Checked
<1>7. ASSUME NEW k \in 0 .. (n - 1), k \in S PROVE k + 1 \in S
  <2>1. k + 1 \in 1 .. n /\ (k + 1) - 1 = k /\ k + 1 \in 0 .. n /\ k \in 0 .. n
    BY <1>1
  <2>2. h[k + 1] = CheckedAdd(h[k], s[k + 1]) /\ o[k + 1] = o[k] + Len(ss[k + 1])
    BY <1>3, <1>4, <2>1
  <2>3. /\ o[k] \in Nat /\ Len(ss[k + 1]) \in Nat /\ h[k] = Checked(o[k])
        /\ s[k + 1] = Checked(Len(ss[k + 1]))
    BY <1>1, <1>4, <1>7, <2>1 DEF n
  <2>4. CheckedAdd(Checked(o[k]), Checked(Len(ss[k + 1]))) = Checked(o[k] + Len(ss[k + 1]))
    BY <2>3, CheckedPlus
  <2> QED BY <2>1, <2>2, <2>3, <2>4
<1>8. 0 .. n \subseteq S
  <2> HIDE DEF S
  <2> QED BY <1>1, <1>6, <1>7, InductionUpTo
<1> QED BY <1>1, <1>3, <1>8 DEF n, o

-----------------------------------------------------------------------------
\* What the ranges of a template are made of, once it has been accepted.
Accepted == /\ template \in Templates /\ lead_zero \in BOOLEAN /\ telescoping \in BOOLEAN
            /\ ~Rejected

\* The types of its tokens, and what the constructor has ruled out.
LEMMA TokenTypes ==
  ASSUME Accepted
  PROVE  /\ Len(template) \in Nat /\ Ranges = 1 .. Len(template)
         /\ \A i \in Ranges :
              /\ template[i].first \in 0 .. SizeMax /\ template[i].last \in 0 .. SizeMax
              /\ template[i].domains \in Seq(Seq(Nat)) /\ template[i].before \in Seq(Nat)
              /\ IsA(i, "explicit") \/ IsA(i, "implicit") \/ IsA(i, "continuation")
              /\ IsA(i, "explicit") => template[i].first <= template[i].last
              /\ IsA(i, "implicit") => template[i].domains # <<>>
              /\ IsA(i, "continuation") => i # 1
              /\ \A p \in DOMAIN template[i].domains :
                   /\ template[i].domains[p] # <<>>
                   /\ IsInjective(template[i].domains[p])
<1>1. template \in Seq(Token)
  BY TemplatesAssumption DEF Accepted
<1>2. /\ Len(template) \in Nat /\ Ranges = 1 .. Len(template)
      /\ \A i \in Ranges : template[i] \in Token
  BY <1>1, LenProperties, ElementOfSeq DEF Ranges
<1>3. ASSUME NEW i \in Ranges
      PROVE  /\ template[i].first \in 0 .. SizeMax /\ template[i].last \in 0 .. SizeMax
             /\ template[i].domains \in Seq(Seq(Nat)) /\ template[i].before \in Seq(Nat)
             /\ IsA(i, "explicit") \/ IsA(i, "implicit") \/ IsA(i, "continuation")
  <2>1. template[i] \in Token /\ ~IsA(i, "malformed")
    BY <1>2 DEF Accepted, Rejected
  <2> QED BY <2>1 DEF Token, IsA
<1>4. ASSUME NEW i \in Ranges, IsA(i, "explicit") PROVE template[i].first <= template[i].last
  <2>1. ~(template[i].last < template[i].first)
    BY <1>4 DEF Accepted, Rejected
  <2>2. SizeMax \in Nat
    BY TemplatesAssumption
  <2> QED BY <1>3, <2>1, <2>2
<1>5. ASSUME NEW i \in Ranges, IsA(i, "implicit") PROVE template[i].domains # <<>>
  BY <1>5, TemplatesAssumption DEF Accepted, IsA, Ranges
<1>6. ASSUME NEW i \in Ranges, IsA(i, "continuation") PROVE i # 1
  <2>1. template # <<>>
    BY <1>2, EmptySeq
  <2> QED BY <1>6, <2>1 DEF Accepted, Rejected
<1>7. ASSUME NEW i \in Ranges, NEW p \in DOMAIN template[i].domains
      PROVE  template[i].domains[p] # <<>> /\ IsInjective(template[i].domains[p])
  BY TemplatesAssumption DEF Accepted, Ranges
<1> QED BY <1>2, <1>3, <1>4, <1>5, <1>6, <1>7

\* The sizes of its domains are radices.
LEMMA SizesTyped ==
  ASSUME Accepted, NEW i \in Ranges
  PROVE  /\ SizesOf(template[i].domains) \in Radixes
         /\ Len(SizesOf(template[i].domains)) = Len(template[i].domains)
         /\ Len(template[i].domains) \in Nat
         /\ DOMAIN template[i].domains = 1 .. Len(template[i].domains)
         /\ \A p \in 1 .. Len(template[i].domains) :
              /\ template[i].domains[p] \in Seq(Nat)
              /\ Len(template[i].domains[p]) \in Nat \ {0}
              /\ SizesOf(template[i].domains)[p] = Len(template[i].domains[p])
<1> DEFINE d == template[i].domains
           n == Len(d)
<1>1. d \in Seq(Seq(Nat)) /\ \A p \in DOMAIN d : d[p] # <<>>
  BY TokenTypes
<1> HIDE DEF d
<1>2. n \in Nat /\ DOMAIN d = 1 .. n
  BY <1>1, LenProperties
<1>3. ASSUME NEW p \in 1 .. n PROVE d[p] \in Seq(Nat) /\ Len(d[p]) \in Nat \ {0}
  <2>1. d[p] \in Seq(Nat) /\ d[p] # <<>>
    BY <1>1, <1>2, ElementOfSeq
  <2> QED BY <2>1, EmptySeq, LenProperties
<1>4. SizesOf(d) = [p \in 1 .. n |-> Len(d[p])]
  BY <1>2 DEF SizesOf
<1>5. SizesOf(d) \in [1 .. n -> Nat \ {0}]
  BY <1>3, <1>4
<1>6. SizesOf(d) \in Seq(Nat \ {0})
  BY <1>2, <1>5, SeqDef
<1>7. Len(SizesOf(d)) = n
  BY <1>2, <1>5, <1>6, LenProperties
<1> QED BY <1>2, <1>3, <1>4, <1>6, <1>7 DEF d, n, Radixes

\* A continuation has a range before it that is none.
LEMMA TargetIs ==
  ASSUME Accepted, NEW i \in Ranges
  PROVE  /\ Target(i) \in Ranges /\ ~IsA(Target(i), "continuation")
         /\ ~IsA(i, "continuation") => Target(i) = i
<1> DEFINE T == {j \in 1 .. i : ~IsA(j, "continuation")}
<1>1. Len(template) \in Nat /\ Ranges = 1 .. Len(template) /\ 1 \in Ranges
  BY TokenTypes
<1>2. 1 \in T /\ T \subseteq 0 .. i /\ i \in Nat
  BY <1>1, TokenTypes
<1>3. Target(i) = Max(T)
  BY DEF Target
<1>4. Max(T) \in T /\ \A k \in T : Max(T) >= k
  <2> HIDE DEF T
  <2> QED BY <1>2, MaxIsGreatest
<1>5. Max(T) \in Ranges /\ ~IsA(Max(T), "continuation")
  BY <1>1, <1>2, <1>4
<1>6. ASSUME ~IsA(i, "continuation") PROVE Max(T) = i
  <2>1. i \in T
    BY <1>2, <1>6
  <2>2. Max(T) \in 1 .. i /\ Max(T) >= i
    BY <1>4, <2>1
  <2> QED BY <1>2, <2>2
<1> QED BY <1>3, <1>5, <1>6

\* An implicit token has at least one subrange, no two of the same length.
LEMMA SubRangesTyped ==
  ASSUME Accepted, NEW i \in Ranges, IsA(i, "implicit")
  PROVE  /\ SubRanges(i) \in Seq(Radixes) /\ Len(SubRanges(i)) \in Nat \ {0}
         /\ DOMAIN SubRanges(i) = 1 .. Len(SubRanges(i))
         /\ \A k \in 1 .. Len(SubRanges(i)) :
              SubRanges(i)[k] \in Radixes /\ Len(SubRanges(i)[k]) \in Nat \ {0}
         /\ \A j, k \in 1 .. Len(SubRanges(i)) :
              Len(SubRanges(i)[j]) = Len(SubRanges(i)[k]) => j = k
<1> DEFINE d == SizesOf(template[i].domains)
           n == Len(d)
<1>1. d \in Radixes /\ d # <<>>
  <2>1. d \in Radixes /\ n = Len(template[i].domains) /\ template[i].domains # <<>>
    BY SizesTyped, TokenTypes
  <2>2. template[i].domains \in Seq(Seq(Nat))
    BY TokenTypes
  <2> HIDE DEF d
  <2>3. n # 0
    BY <2>1, <2>2, EmptySeq
  <2> QED BY <2>1, <2>3, EmptySeq DEF Radixes
<1>2. n \in Nat \ {0} /\ DOMAIN d = 1 .. n /\ \A p \in 1 .. n : d[p] \in Nat \ {0}
  BY <1>1, EmptySeq, LenProperties, ElementOfSeq DEF Radixes
<1>3. SubRanges(i) = IF telescoping THEN [k \in DOMAIN d |-> SubSeq(d, n - k + 1, n)] ELSE <<d>>
  BY DEF SubRanges
<1> HIDE DEF d
<1>4. CASE telescoping
  <2> DEFINE s == [k \in 1 .. n |-> SubSeq(d, n - k + 1, n)]
  <2>1. SubRanges(i) = s
    BY <1>2, <1>3, <1>4
  <2>2. ASSUME NEW k \in 1 .. n PROVE s[k] \in Radixes /\ Len(s[k]) = k
    <3>1. n - k \in 0 .. n
      BY <1>2
    <3>2. /\ SubSeq(d, (n - k) + 1, n) \in Seq(Nat \ {0})
          /\ Len(SubSeq(d, (n - k) + 1, n)) = n - (n - k)
      BY <1>1, <3>1, SplitJoins DEF Radixes
    <3> QED BY <1>2, <3>2 DEF Radixes
  <2>3. s \in Seq(Radixes) /\ Len(s) = n /\ DOMAIN s = 1 .. n
    <3>1. s \in [1 .. n -> Radixes]
      BY <2>2
    <3> HIDE DEF s
    <3>2. s \in Seq(Radixes)
      BY <1>2, <3>1, SeqDef
    <3> QED BY <1>2, <3>1, <3>2, LenProperties
  <2> HIDE DEF s
  <2> QED BY <1>2, <2>1, <2>2, <2>3
<1>5. CASE ~telescoping
  <2>1. SubRanges(i) = <<d>>
    BY <1>3, <1>5
  <2>2. /\ <<d>> \in Seq(Radixes) /\ Len(<<d>>) = 1 /\ <<d>>[1] = d
        /\ DOMAIN <<d>> = 1 .. 1
    BY <1>1
  <2> QED BY <1>1, <1>2, <2>1, <2>2
<1> QED BY <1>4, <1>5

\* A word without its leading zeros is still a sequence of digits.
LEMMA ShownTyped ==
  ASSUME NEW w \in Seq(Nat), w # <<>>
  PROVE  Shown(w) \in Seq(Nat) /\ (lead_zero => Shown(w) = w)
<1> DEFINE T == {p \in DOMAIN w : lead_zero \/ w[p] # 0 \/ p = Len(w)}
<1>1. Len(w) \in Nat \ {0} /\ DOMAIN w = 1 .. Len(w)
  BY EmptySeq, LenProperties
<1>2. T \subseteq Nat /\ Len(w) \in T
  BY <1>1
<1>3. Shown(w) = SubSeq(w, Min(T), Len(w))
  BY DEF Shown
<1>4. Min(T) \in T /\ \A k \in T : Min(T) <= k
  <2> HIDE DEF T
  <2> QED BY <1>2, MinIsLeast
<1>5. Min(T) \in 1 .. Len(w)
  BY <1>1, <1>4
<1>6. SubSeq(w, (Min(T) - 1) + 1, Len(w)) \in Seq(Nat)
  <2> HIDE DEF T
  <2>1. Min(T) - 1 \in 0 .. Len(w)
    BY <1>1, <1>5
  <2> QED BY <2>1, SplitJoins
<1>7. (Min(T) - 1) + 1 = Min(T)
  <2> HIDE DEF T
  <2> QED BY <1>1, <1>5
<1>8. ASSUME lead_zero PROVE Min(T) = 1
  <2>1. 1 \in T
    BY <1>1, <1>8
  <2>2. Min(T) <= 1
    BY <1>4, <2>1
  <2> HIDE DEF T
  <2> QED BY <1>1, <1>5, <2>2
<1>9. SubSeq(w, 1, Len(w)) = w
  BY SubSeqFull
<1> HIDE DEF T
<1> QED BY <1>3, <1>6, <1>7, <1>8, <1>9

\* A word has a digit for every domain.
LEMMA WordTyped ==
  ASSUME NEW r \in Radixes, NEW m \in Nat
  PROVE  Word(r, m) \in Seq(Nat) /\ Len(Word(r, m)) = Len(r)
<1>1. Len(r) \in Nat /\ DOMAIN r = 1 .. Len(r)
  BY DEF Radixes
<1>2. \A p \in 1 .. Len(r) : Word(r, m)[p] \in Nat
  <2>1. \A p \in 1 .. Len(r) : r[p] \in Nat \ {0} /\ Word(r, m)[p] \in 0 .. (r[p] - 1)
    BY WordDigits
  <2> QED BY <2>1
<1>3. Word(r, m) = [p \in 1 .. Len(r) |-> Word(r, m)[p]]
  BY <1>1 DEF Word
<1>4. Word(r, m) \in [1 .. Len(r) -> Nat]
  BY <1>2, <1>3
<1>5. Word(r, m) \in Seq(Nat)
  BY <1>1, <1>4, SeqDef
<1> QED BY <1>1, <1>4, <1>5, LenProperties

\* There are as many words over some domains as the product of these.
LEMMA WordsTyped ==
  ASSUME NEW r \in Radixes, Len(r) # 0
  PROVE  /\ Words(r) \in Seq(Seq(Nat)) /\ Len(Words(r)) = Product(r)
         /\ Product(r) \in Nat \ {0} /\ Words(r) # <<>>
         /\ \A x \in Nat : x < Product(r) => Words(r)[x + 1] = Shown(Word(r, x))
<1>1. Product(r) \in Nat \ {0}
  BY NothingLeft
<1>2. Words(r) = [x \in 1 .. Product(r) |-> Shown(Word(r, x - 1))]
  BY DEF Words
<1>3. ASSUME NEW x \in 1 .. Product(r) PROVE Shown(Word(r, x - 1)) \in Seq(Nat)
  <2>1. x - 1 \in Nat
    BY <1>1
  <2>2. Word(r, x - 1) \in Seq(Nat) /\ Word(r, x - 1) # <<>>
    BY <2>1, WordTyped, EmptySeq
  <2> QED BY <2>2, ShownTyped
<1>4. Words(r) \in [1 .. Product(r) -> Seq(Nat)]
  BY <1>2, <1>3
<1>5. Words(r) \in Seq(Seq(Nat))
  BY <1>1, <1>4, SeqDef
<1>6. Len(Words(r)) = Product(r)
  BY <1>1, <1>4, <1>5, LenProperties
<1>7. ASSUME NEW x \in Nat, x < Product(r) PROVE Words(r)[x + 1] = Shown(Word(r, x))
  <2>1. x + 1 \in 1 .. Product(r) /\ (x + 1) - 1 = x
    BY <1>1, <1>7
  <2> QED BY <1>2, <2>1
<1>8. Words(r) # <<>>
  BY <1>1, <1>6, EmptySeq
<1> QED BY <1>1, <1>5, <1>6, <1>7, <1>8

\* The texts of an implicit range are those of its subranges, one after another.
WordLists(i) == [k \in DOMAIN SubRanges(i) |-> Words(SubRanges(i)[k])]

\* None of them is empty, and each is as long as the product of its domains.
LEMMA WordListsTyped ==
  ASSUME Accepted, NEW i \in Ranges, IsA(i, "implicit")
  PROVE  /\ WordLists(i) \in Seq(Seq(Seq(Nat))) /\ WordLists(i) # <<>>
         /\ Len(WordLists(i)) = Len(SubRanges(i))
         /\ \A k \in 1 .. Len(SubRanges(i)) :
              /\ WordLists(i)[k] = Words(SubRanges(i)[k]) /\ WordLists(i)[k] # <<>>
              /\ Len(WordLists(i)[k]) = Product(SubRanges(i)[k])
              /\ Product(SubRanges(i)[k]) \in Nat \ {0}
<1> DEFINE n == Len(SubRanges(i))
           ss == WordLists(i)
<1>1. /\ n \in Nat \ {0} /\ DOMAIN SubRanges(i) = 1 .. n
      /\ \A k \in 1 .. n : SubRanges(i)[k] \in Radixes /\ Len(SubRanges(i)[k]) # 0
  BY SubRangesTyped
<1>2. ss = [k \in 1 .. n |-> Words(SubRanges(i)[k])]
  BY <1>1 DEF WordLists
<1> HIDE DEF ss, n
<1>3. ASSUME NEW k \in 1 .. n
      PROVE  /\ ss[k] = Words(SubRanges(i)[k]) /\ ss[k] # <<>>
             /\ ss[k] \in Seq(Seq(Nat)) /\ Len(ss[k]) = Product(SubRanges(i)[k])
             /\ Product(SubRanges(i)[k]) \in Nat \ {0}
  BY <1>1, <1>2, WordsTyped
<1>4. ss \in [1 .. n -> Seq(Seq(Nat))]
  BY <1>2, <1>3
<1>5. ss \in Seq(Seq(Seq(Nat)))
  BY <1>1, <1>4, SeqDef
<1>6. Len(ss) = n
  BY <1>1, <1>4, <1>5, LenProperties
<1>7. ss # <<>>
  BY <1>1, <1>6, EmptySeq
<1> QED BY <1>3, <1>5, <1>6, <1>7 DEF ss, n

\* The x-th word of the k-th subrange stands x places after the offset of k.
LEMMA ImplicitTexts ==
  ASSUME Accepted, NEW i \in Ranges, IsA(i, "implicit")
  PROVE  /\ Texts(i) = FlattenSeq(WordLists(i))
         /\ Texts(i) \in Seq(Seq(Nat))
         /\ Len(Texts(i)) = Offsets(WordLists(i))[Len(SubRanges(i))]
         /\ Len(Texts(i)) \in Nat \ {0}
         /\ \A k \in 1 .. Len(SubRanges(i)) : \A x \in Nat :
              x < Product(SubRanges(i)[k]) =>
                /\ Offsets(WordLists(i))[k - 1] + x + 1 \in 1 .. Len(Texts(i))
                /\ Texts(i)[Offsets(WordLists(i))[k - 1] + x + 1]
                   = Shown(Word(SubRanges(i)[k], x))
<1> DEFINE ss == WordLists(i)
           n == Len(SubRanges(i))
           o == Offsets(ss)
<1>1. /\ ss \in Seq(Seq(Seq(Nat))) /\ ss # <<>> /\ Len(ss) = n
      /\ \A k \in 1 .. n : /\ ss[k] = Words(SubRanges(i)[k]) /\ ss[k] # <<>>
                           /\ Len(ss[k]) = Product(SubRanges(i)[k])
                           /\ Product(SubRanges(i)[k]) \in Nat \ {0}
  BY WordListsTyped
<1>2. Texts(i) = FlattenSeq(ss)
  BY DEF Texts, WordLists, IsA
<1>3. n \in Nat \ {0} /\ \A k \in 1 .. n : SubRanges(i)[k] \in Radixes /\ Len(SubRanges(i)[k]) # 0
  BY SubRangesTyped
<1> HIDE DEF ss, n
<1>4. /\ FlattenSeq(ss) \in Seq(Seq(Nat)) /\ Len(FlattenSeq(ss)) = o[n]
      /\ \A k \in 1 .. n : \A x \in 1 .. Len(ss[k]) : FlattenSeq(ss)[o[k - 1] + x] = ss[k][x]
  <2>1. /\ FlattenSeq(ss) \in Seq(Seq(Nat)) /\ Len(FlattenSeq(ss)) = o[Len(ss)]
        /\ \A k \in 1 .. Len(ss) : \A x \in 1 .. Len(ss[k]) :
             FlattenSeq(ss)[o[k - 1] + x] = ss[k][x]
    <3>1. ss \in Seq(Seq(Seq(Nat))) /\ ss # <<>>
      BY <1>1
    <3> QED BY <3>1, Flattened, Zenon
  <2> HIDE DEF o
  <2> QED BY <1>1, <2>1
<1>5. /\ o[0] = 0 /\ \A k \in 1 .. n : o[k] = o[k - 1] + Len(ss[k])
      /\ \A k \in 0 .. n : o[k] \in Nat
  BY <1>1, OffsetsExist DEF IsOffsets
<1>6. \A k \in 1 .. n : o[k] <= o[n]
  BY <1>1, OffsetsGrow
<1> HIDE DEF o
<1>7. o[n] \in Nat \ {0}
  <2>1. 1 \in 1 .. n /\ 1 - 1 = 0 /\ n \in 0 .. n /\ 1 \in 0 .. n
    BY <1>3
  <2>2. o[1] = o[0] + Len(ss[1]) /\ Len(ss[1]) \in Nat \ {0}
    BY <1>1, <1>5, <2>1
  <2>3. o[1] <= o[n] /\ o[n] \in Nat /\ o[1] \in Nat
    BY <1>5, <1>6, <2>1
  <2> QED BY <1>5, <2>2, <2>3
<1>8. ASSUME NEW k \in 1 .. n, NEW x \in Nat, x < Product(SubRanges(i)[k])
      PROVE  /\ o[k - 1] + x + 1 \in 1 .. o[n]
             /\ FlattenSeq(ss)[o[k - 1] + x + 1] = Shown(Word(SubRanges(i)[k], x))
  <2>1. k - 1 \in 0 .. n /\ k \in 0 .. n
    BY <1>3
  <2>2. /\ o[k - 1] \in Nat /\ o[k] = o[k - 1] + Product(SubRanges(i)[k]) /\ o[k] <= o[n]
        /\ Product(SubRanges(i)[k]) \in Nat
    BY <1>1, <1>5, <1>6, <2>1
  <2>3. o[k - 1] + x + 1 \in 1 .. o[n]
    BY <1>7, <1>8, <2>2
  <2>4. x + 1 \in 1 .. Len(ss[k]) /\ o[k - 1] + (x + 1) = o[k - 1] + x + 1
    BY <1>1, <1>8, <2>2
  <2>5. FlattenSeq(ss)[o[k - 1] + (x + 1)] = ss[k][x + 1]
    BY <1>4, <2>4
  <2>6. ss[k][x + 1] = Shown(Word(SubRanges(i)[k], x))
    BY <1>1, <1>3, <1>8, WordsTyped
  <2> QED BY <2>3, <2>4, <2>5, <2>6
<1> QED BY <1>2, <1>4, <1>7, <1>8 DEF ss, n, o

\* The texts of an explicit range are its numbers.
LEMMA ExplicitTexts ==
  ASSUME Accepted, NEW i \in Ranges, IsA(i, "explicit")
  PROVE  /\ Texts(i) \in Seq(Seq(Nat))
         /\ Len(Texts(i)) = template[i].last - template[i].first + 1
         /\ Len(Texts(i)) \in Nat \ {0}
         /\ \A x \in Nat : x < Len(Texts(i)) => Texts(i)[x + 1] = <<template[i].first + x>>
<1> DEFINE a == template[i].first
           n == template[i].last - template[i].first + 1
           s == [x \in 1 .. n |-> <<a + x - 1>>]
<1>1. a \in Nat /\ n \in Nat \ {0}
  BY TokenTypes, TemplatesAssumption
<1>2. Texts(i) = s
  <2>1. template[i].type = "explicit"
    BY DEF IsA
  <2> QED BY <2>1 DEF Texts, IsA
<1> HIDE DEF a, n
<1>3. \A x \in 1 .. n : a + x - 1 \in Nat
  BY <1>1
<1>4. s \in [1 .. n -> Seq(Nat)]
  BY <1>3
<1>5. \A x \in Nat : x < n => s[x + 1] = <<a + x>>
  <2> TAKE x \in Nat
  <2> HAVE x < n
  <2>1. x + 1 \in 1 .. n /\ a + (x + 1) - 1 = a + x
    BY <1>1
  <2> QED BY <2>1
<1> HIDE DEF s
<1>6. s \in Seq(Seq(Nat))
  BY <1>1, <1>4, SeqDef
<1>7. Len(s) = n
  BY <1>1, <1>4, <1>6, LenProperties
<1> QED BY <1>1, <1>2, <1>5, <1>6, <1>7 DEF a, n

\* Every range has a text, a continuation exactly one.
LEMMA RadicesTyped ==
  ASSUME Accepted
  PROVE  /\ Radices \in Radixes /\ Len(Radices) = Len(template)
         /\ Count \in Nat \ {0}
         /\ \A i \in Ranges : /\ Radices[i] = Len(Texts(i)) /\ Radices[i] \in Nat \ {0}
                              /\ IsA(i, "continuation") => Radices[i] = 1
<1>1. Len(template) \in Nat /\ Ranges = 1 .. Len(template)
  BY TokenTypes
<1>2. ASSUME NEW i \in Ranges
      PROVE  /\ Len(Texts(i)) \in Nat \ {0}
             /\ IsA(i, "continuation") => Len(Texts(i)) = 1
  <2>1. CASE IsA(i, "explicit")
    <3>1. ~IsA(i, "continuation")
      BY <2>1 DEF IsA
    <3> QED BY <2>1, <3>1, ExplicitTexts
  <2>2. CASE IsA(i, "implicit")
    <3>1. ~IsA(i, "continuation")
      BY <2>2 DEF IsA
    <3> QED BY <2>2, <3>1, ImplicitTexts
  <2>3. CASE IsA(i, "continuation")
    <3>1. Texts(i) = << <<>> >>
      BY <2>3 DEF Texts, IsA
    <3> QED BY <3>1
  <2> QED BY <2>1, <2>2, <2>3, TokenTypes
<1>3. Radices = [i \in 1 .. Len(template) |-> Len(Texts(i))]
  BY <1>1 DEF Radices
<1>4. Radices \in [1 .. Len(template) -> Nat \ {0}]
  BY <1>1, <1>2, <1>3
<1>5. Radices \in Radixes
  BY <1>1, <1>4, SeqDef DEF Radixes
<1>6. Len(Radices) = Len(template)
  BY <1>1, <1>4, <1>5, LenProperties DEF Radixes
<1>7. Count \in Nat \ {0}
  BY <1>5, NothingLeft DEF Count
<1> QED BY <1>1, <1>2, <1>3, <1>5, <1>6, <1>7

\* The size of a range is the number of its texts, unless that is too large ...
LEMMA SizeIs ==
  ASSUME Accepted, NEW i \in Ranges
  PROVE  SizeOf(i) = Checked(Radices[i])
<1>1. Radices[i] = Len(Texts(i)) /\ SizeMax \in Nat \ {0}
  BY RadicesTyped, TemplatesAssumption
<1>2. CASE IsA(i, "explicit")
  <2> DEFINE a == template[i].last - template[i].first
  <2>1. template[i].type = "explicit"
    BY <1>2 DEF IsA
  <2>2. SizeOf(i) = CheckedAdd(a, 1)
    BY <2>1 DEF SizeOf, IsA
  <2>3. Radices[i] = a + 1
    BY <1>1, <1>2, ExplicitTexts
  <2>4. a \in Nat /\ ~(a > SizeMax) /\ ~(1 > SizeMax)
    BY <1>1, <1>2, TokenTypes
  <2> HIDE DEF a
  <2>5. Checked(a) = a /\ Checked(1) = 1
    BY <2>4 DEF Checked
  <2>6. CheckedAdd(Checked(a), Checked(1)) = Checked(a + 1)
    BY <2>4, CheckedPlus
  <2> QED BY <2>2, <2>3, <2>5, <2>6
<1>3. CASE IsA(i, "continuation")
  <2>1. SizeOf(i) = 1
    BY <1>3 DEF SizeOf, IsA
  <2>2. Radices[i] = 1
    BY <1>3, RadicesTyped
  <2> QED BY <1>1, <2>1, <2>2 DEF Checked
<1>4. CASE IsA(i, "implicit")
  <2> DEFINE n == Len(SubRanges(i))
             ss == WordLists(i)
             s == [k \in DOMAIN SubRanges(i) |-> FoldLeft(CheckedMultiply, 1, SubRanges(i)[k])]
  <2>1. template[i].type = "implicit"
    BY <1>4 DEF IsA
  <2>2. SizeOf(i) = FoldLeft(CheckedAdd, 0, s)
    BY <2>1 DEF SizeOf, IsA
  <2>3. ss \in Seq(Seq(Seq(Nat))) /\ Len(ss) = n
    BY <1>4, WordListsTyped
  <2>4. DOMAIN s = 1 .. n
    BY <1>4, SubRangesTyped
  <2>5. ASSUME NEW k \in 1 .. n PROVE s[k] = Checked(Len(ss[k]))
    <3> DEFINE r == SubRanges(i)[k]
    <3>1. r \in Radixes /\ Len(ss[k]) = Product(r) /\ k \in DOMAIN SubRanges(i)
      BY <1>4, SubRangesTyped, WordListsTyped
    <3>2. DOMAIN r = 1 .. Len(r)
      BY <3>1 DEF Radixes
    <3>3. s[k] = FoldLeft(CheckedMultiply, 1, r)
      BY <3>1
    <3> HIDE DEF r, s
    <3>4. FoldLeft(CheckedMultiply, 1, r) = Checked(Product(r))
      BY <3>1, <3>2, CheckedProduct
    <3> QED BY <3>1, <3>3, <3>4
  <2>6. Len(Texts(i)) = Offsets(ss)[n]
    BY <1>4, ImplicitTexts
  <2> HIDE DEF s, ss, n
  <2>7. \A k \in 1 .. Len(ss) : s[k] = Checked(Len(ss[k]))
    BY <2>3, <2>5
  <2>8. FoldLeft(CheckedAdd, 0, s) = Checked(Offsets(ss)[Len(ss)])
    BY <2>3, <2>4, <2>7, CheckedSum
  <2> QED BY <1>1, <2>2, <2>3, <2>6, <2>8
<1> QED BY <1>2, <1>3, <1>4, TokenTypes

\* ... and get_range_size that of the candidates.
LEMMA RangeSizeIsCount ==
  ASSUME Accepted
  PROVE  get_range_size = Checked(Count)
<1> DEFINE s == [i \in Ranges |-> SizeOf(i)]
<1>1. Radices \in Radixes /\ Len(Radices) = Len(template) /\ Ranges = 1 .. Len(template)
  BY RadicesTyped, TokenTypes
<1>2. DOMAIN s = 1 .. Len(Radices) /\ \A i \in 1 .. Len(Radices) : s[i] = Checked(Radices[i])
  BY <1>1, SizeIs
<1>3. get_range_size = FoldLeft(CheckedMultiply, 1, s)
  BY DEF get_range_size
<1> HIDE DEF s
<1>4. FoldLeft(CheckedMultiply, 1, s) = Checked(Product(Radices))
  BY <1>1, <1>2, CheckedProduct
<1> QED BY <1>3, <1>4 DEF Count

-----------------------------------------------------------------------------
\* The places of a subrange are the last of its token, all of them if it is the
\* only one.
LEMMA SubRangeSizes ==
  ASSUME Accepted, NEW i \in Ranges, IsA(i, "implicit"), NEW k \in 1 .. Len(SubRanges(i))
  PROVE  LET d == template[i].domains
             r == SubRanges(i)[k]
         IN  /\ Len(r) \in 1 .. Len(d) /\ (~telescoping => Len(r) = Len(d))
             /\ \A p \in 1 .. Len(r) :
                  /\ Len(d) - Len(r) + p \in 1 .. Len(d)
                  /\ r[p] = Len(d[Len(d) - Len(r) + p])
<1> DEFINE d == template[i].domains
           s == SizesOf(d)
           n == Len(d)
           r == SubRanges(i)[k]
<1>1. /\ s \in Radixes /\ Len(s) = n /\ n \in Nat
      /\ \A p \in 1 .. n : s[p] = Len(d[p])
  BY SizesTyped
<1>2. r \in Radixes /\ Len(r) \in Nat \ {0}
  BY SubRangesTyped
<1>3. SubRanges(i) = IF telescoping THEN [j \in DOMAIN s |-> SubSeq(s, Len(s) - j + 1, Len(s))]
                     ELSE <<s>>
  BY DEF SubRanges
<1>4. k \in 1 .. Len(SubRanges(i)) /\ DOMAIN SubRanges(i) = 1 .. Len(SubRanges(i))
  BY SubRangesTyped
<1>5. CASE telescoping
  <2> HIDE DEF d
  <2>1. DOMAIN s = 1 .. n
    BY <1>1 DEF Radixes
  <2> HIDE DEF s, n
  <2>2. k \in 1 .. n /\ SubRanges(i)[k] = SubSeq(s, n - k + 1, n)
    BY <1>1, <1>3, <1>4, <1>5, <2>1
  <2>3. n - k \in 0 .. n /\ (n - k) + 1 = n - k + 1 /\ n - (n - k) = k
    BY <1>1, <2>2
  <2>4. /\ Len(SubSeq(s, (n - k) + 1, n)) = n - (n - k)
        /\ \A p \in 1 .. (n - (n - k)) : SubSeq(s, (n - k) + 1, n)[p] = s[(n - k) + p]
    BY <1>1, <2>3, SplitJoins DEF Radixes
  <2>5. Len(r) = k /\ \A p \in 1 .. k : r[p] = s[n - k + p]
    BY <2>2, <2>3, <2>4
  <2> HIDE DEF r
  <2>6. \A p \in 1 .. k : n - k + p \in 1 .. n
    BY <1>1, <2>2
  <2> QED BY <1>1, <1>5, <2>2, <2>5, <2>6 DEF d, s, n, r
<1>6. CASE ~telescoping
  <2>1. SubRanges(i) = <<s>>
    BY <1>3, <1>6
  <2>2. k = 1 /\ r = s
    <3> HIDE DEF s
    <3>1. Len(<<s>>) = 1 /\ <<s>>[1] = s
      OBVIOUS
    <3>2. k = 1
      BY <1>4, <2>1, <3>1
    <3> QED BY <2>1, <3>1, <3>2
  <2> HIDE DEF d, s, n, r
  <2>3. n \in 1 .. n /\ \A p \in 1 .. n : n - n + p = p
    BY <1>1, <1>2, <2>2
  <2> QED BY <1>1, <2>2, <2>3 DEF d, s, n, r
<1> QED BY <1>5, <1>6

\* With leading zeros an implicit range's texts are the words of its subranges.
LEMMA TextIsWord ==
  ASSUME Accepted, lead_zero, NEW i \in Ranges, IsA(i, "implicit"),
         NEW c \in 1 .. Len(Texts(i))
  PROVE  \E k \in 1 .. Len(SubRanges(i)) : \E x \in Nat :
           /\ x < Product(SubRanges(i)[k]) /\ c = Offsets(WordLists(i))[k - 1] + x + 1
           /\ Texts(i)[c] = Word(SubRanges(i)[k], x)
<1> DEFINE n == Len(SubRanges(i))
           ss == WordLists(i)
           o == Offsets(ss)
<1>1. /\ ss \in Seq(Seq(Seq(Nat))) /\ Len(ss) = n
      /\ \A k \in 1 .. n : /\ ss[k] # <<>> /\ Len(ss[k]) = Product(SubRanges(i)[k])
                           /\ Product(SubRanges(i)[k]) \in Nat
  BY WordListsTyped
<1>2. Len(Texts(i)) = o[n]
  BY ImplicitTexts
<1>3. n \in Nat /\ \A k \in 1 .. n : SubRanges(i)[k] \in Radixes /\ Len(SubRanges(i)[k]) # 0
  BY SubRangesTyped
<1>4. \A k \in 1 .. n : \A x \in Nat : x < Product(SubRanges(i)[k]) =>
        Texts(i)[o[k - 1] + x + 1] = Shown(Word(SubRanges(i)[k], x))
  BY ImplicitTexts
<1> HIDE DEF n, ss
<1>5. /\ \A k \in 0 .. Len(ss) : o[k] \in Nat
      /\ \A a \in 1 .. o[Len(ss)] :
           \E k \in 1 .. Len(ss) : \E x \in 1 .. Len(ss[k]) : a = o[k - 1] + x
  BY <1>1, OffsetsGrow
<1> HIDE DEF o
<1>6. PICK k \in 1 .. n : \E x \in 1 .. Len(ss[k]) : c = o[k - 1] + x
  BY <1>1, <1>2, <1>5
<1>7. PICK x \in 1 .. Len(ss[k]) : c = o[k - 1] + x
  BY <1>6
<1>8. k - 1 \in 0 .. Len(ss)
  BY <1>1, <1>3
<1>9. x - 1 \in Nat /\ x - 1 < Product(SubRanges(i)[k]) /\ c = o[k - 1] + (x - 1) + 1
  <2>1. Len(ss[k]) = Product(SubRanges(i)[k]) /\ Product(SubRanges(i)[k]) \in Nat
    BY <1>1
  <2>2. o[k - 1] \in Nat
    BY <1>5, <1>8
  <2>3. \A l, p \in Nat : l = p => \A z \in 1 .. l :
          z - 1 \in Nat /\ z - 1 < p /\ \A d \in Nat : d + z = d + (z - 1) + 1
    OBVIOUS
  <2> QED BY <1>7, <2>1, <2>2, <2>3, Zenon
<1>10. Texts(i)[c] = Shown(Word(SubRanges(i)[k], x - 1))
  BY <1>4, <1>9
<1>11. SubRanges(i)[k] \in Radixes /\ Len(SubRanges(i)[k]) # 0
  BY <1>3
<1>12. Word(SubRanges(i)[k], x - 1) \in Seq(Nat) /\ Word(SubRanges(i)[k], x - 1) # <<>>
  BY <1>9, <1>11, WordTyped, EmptySeq
<1>13. Shown(Word(SubRanges(i)[k], x - 1)) = Word(SubRanges(i)[k], x - 1)
  BY <1>12, ShownTyped
<1> QED BY <1>9, <1>10, <1>13 DEF n, ss, o

\* So its texts differ: those of different subranges in their lengths.
LEMMA TextsDiffer ==
  ASSUME Accepted, lead_zero, NEW i \in Ranges, IsA(i, "implicit"),
         NEW a \in 1 .. Len(Texts(i)), NEW b \in 1 .. Len(Texts(i)), Texts(i)[a] = Texts(i)[b]
  PROVE  a = b
<1> DEFINE n == Len(SubRanges(i))
           o == Offsets(WordLists(i))
<1>1. /\ n \in Nat /\ \A k \in 1 .. n : SubRanges(i)[k] \in Radixes /\ Len(SubRanges(i)[k]) # 0
      /\ \A j, k \in 1 .. n : Len(SubRanges(i)[j]) = Len(SubRanges(i)[k]) => j = k
  BY SubRangesTyped
<1>2. PICK j \in 1 .. n, x \in Nat : /\ x < Product(SubRanges(i)[j]) /\ a = o[j - 1] + x + 1
                                     /\ Texts(i)[a] = Word(SubRanges(i)[j], x)
  BY TextIsWord
<1>3. PICK k \in 1 .. n, y \in Nat : /\ y < Product(SubRanges(i)[k]) /\ b = o[k - 1] + y + 1
                                     /\ Texts(i)[b] = Word(SubRanges(i)[k], y)
  BY TextIsWord
<1> HIDE DEF n, o
<1>4. Len(SubRanges(i)[j]) = Len(SubRanges(i)[k])
  <2>1. Len(Word(SubRanges(i)[j], x)) = Len(SubRanges(i)[j])
    BY <1>1, WordTyped
  <2>2. Len(Word(SubRanges(i)[k], y)) = Len(SubRanges(i)[k])
    BY <1>1, WordTyped
  <2> QED BY <1>2, <1>3, <2>1, <2>2
<1>5. j = k
  BY <1>1, <1>4
<1>6. x = y
  BY <1>1, <1>2, <1>3, <1>5, WordsDiffer
<1> QED BY <1>2, <1>3, <1>5, <1>6

-----------------------------------------------------------------------------
\* Strings.  The decimal numerals: a number of w digits is below the w-th power.
LEMMA TensTyped ==
  ASSUME NEW w \in Nat
  PROVE  Tens(w) \in Radixes /\ Len(Tens(w)) = w
<1>1. Tens(w) \in [1 .. w -> Nat \ {0}]
  BY DEF Tens
<1>2. Tens(w) \in Seq(Nat \ {0})
  BY <1>1, SeqDef
<1> QED BY <1>1, <1>2, LenProperties DEF Radixes

\* The width of a size_t is the least number of digits that will do.
LEMMA WidthIs ==
  ASSUME NEW n \in 0 .. SizeMax
  PROVE  /\ Width(n) \in Nat /\ n < Product(Tens(Width(n)))
         /\ \A m \in 0 .. n : Width(m) <= Width(n)
<1>1. /\ SizeMax \in Nat /\ Digits \in Nat \ {0}
      /\ SizeMax < Product(Tens(Digits))
  BY TemplatesAssumption
<1>2. \A w \in 1 .. Digits : Product(Tens(w)) \in Nat
  <2> TAKE w \in 1 .. Digits
  <2>1. w \in Nat
    BY <1>1
  <2> QED BY <2>1, TensTyped, NothingLeft
<1>3. ASSUME NEW m \in 0 .. SizeMax
      PROVE  /\ Width(m) \in 1 .. Digits /\ m < Product(Tens(Width(m)))
             /\ \A w \in 1 .. Digits : m < Product(Tens(w)) => Width(m) <= w
  <2> DEFINE T == {w \in 1 .. Digits : m < Product(Tens(w))}
  <2>1. Digits \in T /\ T \subseteq Nat
    <3>1. Digits \in 1 .. Digits /\ m \in Nat
      BY <1>1
    <3>2. Product(Tens(Digits)) \in Nat
      BY <1>2, <3>1
    <3>3. m < Product(Tens(Digits))
      <4>1. \A p \in Nat : SizeMax < p => m < p
        BY <1>1
      <4> QED BY <1>1, <3>2, <4>1
    <3> QED BY <3>1, <3>3
  <2>2. Width(m) = Min(T)
    BY DEF Width
  <2>3. Min(T) \in T /\ \A w \in T : Min(T) <= w
    <3> HIDE DEF T
    <3> QED BY <2>1, MinIsLeast
  <2> QED BY <2>2, <2>3
<1>4. ASSUME NEW m \in 0 .. n PROVE Width(m) <= Width(n)
  <2>1. m \in 0 .. SizeMax /\ m <= n /\ m \in Nat /\ n \in Nat
    BY <1>1
  <2>2. Width(n) \in 1 .. Digits /\ n < Product(Tens(Width(n)))
    BY <1>3
  <2>3. Product(Tens(Width(n))) \in Nat
    BY <1>2, <2>2
  <2>4. m < Product(Tens(Width(n)))
    BY <2>1, <2>2, <2>3
  <2> QED BY <1>3, <2>1, <2>2, <2>4
<1>5. Width(n) \in 1 .. Digits /\ n < Product(Tens(Width(n)))
  BY <1>3
<1> QED BY <1>1, <1>4, <1>5

\* std::to_string gives different numbers different numerals.
LEMMA DecimalsDiffer ==
  ASSUME NEW m \in 0 .. SizeMax, NEW n \in 0 .. SizeMax
  PROVE  /\ Decimal(n) \in Seq(Nat) /\ Len(Decimal(n)) = Width(n)
         /\ Decimal(m) = Decimal(n) => m = n
<1>1. SizeMax \in Nat
  BY TemplatesAssumption
<1>2. m \in Nat /\ n \in Nat
  BY <1>1
<1>3. ASSUME NEW k \in {m, n}
      PROVE  /\ Width(k) \in Nat /\ k < Product(Tens(Width(k)))
             /\ Tens(Width(k)) \in Radixes
             /\ Decimal(k) = Word(Tens(Width(k)), k)
             /\ Decimal(k) \in Seq(Nat) /\ Len(Decimal(k)) = Width(k)
  <2>1. Width(k) \in Nat /\ k < Product(Tens(Width(k)))
    BY WidthIs
  <2>2. Tens(Width(k)) \in Radixes /\ Len(Tens(Width(k))) = Width(k)
    BY <2>1, TensTyped
  <2>3. Decimal(k) = Word(Tens(Width(k)), k)
    BY DEF Decimal
  <2>4. k \in Nat
    BY <1>2
  <2>5. Word(Tens(Width(k)), k) \in Seq(Nat) /\ Len(Word(Tens(Width(k)), k)) = Width(k)
    BY <2>2, <2>4, WordTyped
  <2> QED BY <2>1, <2>2, <2>3, <2>5
<1>4. ASSUME Decimal(m) = Decimal(n) PROVE m = n
  <2>1. Width(m) = Width(n)
    BY <1>3, <1>4
  <2>2. Word(Tens(Width(n)), m) = Word(Tens(Width(n)), n)
    BY <1>3, <1>4, <2>1
  <2>3. m < Product(Tens(Width(n))) /\ n < Product(Tens(Width(n)))
    BY <1>3, <2>1
  <2> QED BY <1>2, <1>3, <2>2, <2>3, WordsDiffer
<1> QED BY <1>3, <1>4

\* A text of an implicit range is spelt place by place.
LEMMA ImplicitSpelt ==
  ASSUME Accepted, lead_zero, NEW i \in Ranges, IsA(i, "implicit"),
         NEW a \in 1 .. Len(Texts(i))
  PROVE  LET d == template[i].domains
             t == Texts(i)[a]
         IN  /\ t \in Seq(Nat) /\ Len(t) \in 1 .. Len(d)
             /\ ~telescoping => Len(t) = Len(d)
             /\ Spelt(i, t) \in Seq(Nat) /\ Len(Spelt(i, t)) = Len(t)
             /\ \A p \in 1 .. Len(t) :
                  /\ Len(d) - Len(t) + p \in DOMAIN d
                  /\ t[p] \in Nat /\ t[p] + 1 \in DOMAIN d[Len(d) - Len(t) + p]
                  /\ Spelt(i, t)[p] = d[Len(d) - Len(t) + p][t[p] + 1]
<1> DEFINE d == template[i].domains
           t == Texts(i)[a]
           at(p) == Len(d) - Len(t) + p
<1>1. PICK k \in 1 .. Len(SubRanges(i)) : \E x \in Nat :
             x < Product(SubRanges(i)[k]) /\ t = Word(SubRanges(i)[k], x)
  BY TextIsWord
<1>2. PICK x \in Nat : t = Word(SubRanges(i)[k], x)
  BY <1>1
<1> DEFINE r == SubRanges(i)[k]
<1>3. r \in Radixes
  BY SubRangesTyped
<1>4. /\ Len(r) \in 1 .. Len(d) /\ (~telescoping => Len(r) = Len(d))
      /\ \A p \in 1 .. Len(r) : /\ Len(d) - Len(r) + p \in 1 .. Len(d)
                                /\ r[p] = Len(d[Len(d) - Len(r) + p])
  BY SubRangeSizes
<1>5. /\ DOMAIN d = 1 .. Len(d) /\ Len(d) \in Nat
      /\ \A p \in 1 .. Len(d) : d[p] \in Seq(Nat) /\ Len(d[p]) \in Nat
  BY SizesTyped
<1>6. Spelt(i, t) = [p \in DOMAIN t |-> d[Len(d) - Len(t) + p][t[p] + 1]]
  <2>1. ~IsA(i, "explicit")
    BY DEF IsA
  <2> QED BY <2>1, Zenon DEF Spelt
<1> HIDE DEF d, t, r
<1>7. t \in Seq(Nat) /\ Len(t) = Len(r)
  BY <1>2, <1>3, WordTyped DEF r
<1>8. \A p \in 1 .. Len(r) : t[p] \in 0 .. (r[p] - 1) /\ r[p] \in Nat \ {0}
  BY <1>2, <1>3, WordDigits DEF r
<1>9. ASSUME NEW p \in 1 .. Len(t)
      PROVE  at(p) \in DOMAIN d /\ t[p] \in Nat /\ t[p] + 1 \in DOMAIN d[at(p)]
             /\ d[at(p)] \in Seq(Nat)
  <2>1. at(p) \in 1 .. Len(d) /\ r[p] = Len(d[at(p)])
    BY <1>4, <1>7
  <2>2. t[p] \in 0 .. (r[p] - 1) /\ r[p] \in Nat
    BY <1>7, <1>8
  <2>3. d[at(p)] \in Seq(Nat)
    BY <1>5, <2>1
  <2>4. DOMAIN d[at(p)] = 1 .. r[p]
    BY <2>1, <2>3, LenProperties
  <2>5. t[p] \in Nat /\ t[p] + 1 \in 1 .. r[p]
    BY <2>2
  <2> QED BY <1>5, <2>1, <2>3, <2>4, <2>5
<1>10. DOMAIN t = 1 .. Len(t) /\ Len(t) \in Nat
  BY <1>7, LenProperties
<1>11. ASSUME NEW p \in 1 .. Len(t) PROVE d[at(p)][t[p] + 1] \in Nat
  <2> HIDE DEF at
  <2>1. d[at(p)] \in Seq(Nat) /\ t[p] + 1 \in DOMAIN d[at(p)]
    BY <1>9
  <2>2. DOMAIN d[at(p)] = 1 .. Len(d[at(p)])
    BY <2>1, LenProperties
  <2> QED BY <2>1, <2>2, ElementOfSeq
<1> DEFINE s == [p \in 1 .. Len(t) |-> d[at(p)][t[p] + 1]]
<1>12. Spelt(i, t) = s
  BY <1>6, <1>10
<1>13. s \in [1 .. Len(t) -> Nat]
  BY <1>11
<1>14. \A p \in 1 .. Len(t) : s[p] = d[at(p)][t[p] + 1]
  OBVIOUS
<1> HIDE DEF s
<1>15. s \in Seq(Nat)
  BY <1>10, <1>13, SeqDef
<1>16. Len(s) = Len(t)
  BY <1>10, <1>13, <1>15, LenProperties
<1> QED BY <1>4, <1>7, <1>9, <1>12, <1>14, <1>15, <1>16 DEF d, t

\* An explicit range's texts are numerals.
LEMMA ExplicitSpelt ==
  ASSUME Accepted, NEW i \in Ranges, IsA(i, "explicit"), NEW a \in 1 .. Len(Texts(i))
  PROVE  LET n == template[i].first + (a - 1)
         IN  /\ n \in 0 .. SizeMax /\ template[i].first <= n /\ n <= template[i].last
             /\ Spelt(i, Texts(i)[a]) = Decimal(n)
<1> DEFINE first == template[i].first
           last == template[i].last
           n == first + (a - 1)
<1>1. first \in Nat /\ last \in Nat /\ last <= SizeMax /\ first <= last /\ SizeMax \in Nat
  BY TokenTypes, TemplatesAssumption
<1>2. /\ Len(Texts(i)) = last - first + 1
      /\ \A x \in Nat : x < Len(Texts(i)) => Texts(i)[x + 1] = <<first + x>>
  BY ExplicitTexts
<1>3. Spelt(i, Texts(i)[a]) = Decimal(Texts(i)[a][1])
  BY DEF Spelt
<1> HIDE DEF first, last
<1>4. a - 1 \in Nat /\ a - 1 < Len(Texts(i)) /\ (a - 1) + 1 = a
  BY <1>1, <1>2
<1>5. Texts(i)[a] = <<n>>
  BY <1>2, <1>4
<1>6. n \in 0 .. SizeMax /\ first <= n /\ n <= last
  BY <1>1, <1>2, <1>4
<1> HIDE DEF n
<1>7. Texts(i)[a][1] = n
  BY <1>5
<1> QED BY <1>3, <1>6, <1>7 DEF n, first, last

\* Different texts of a range are spelt differently.
LEMMA SpeltDiffer ==
  ASSUME Accepted, lead_zero, NEW i \in Ranges, ~IsA(i, "continuation"),
         NEW a \in 1 .. Len(Texts(i)), NEW b \in 1 .. Len(Texts(i)),
         Spelt(i, Texts(i)[a]) = Spelt(i, Texts(i)[b])
  PROVE  a = b
<1>1. CASE IsA(i, "explicit")
  <2> DEFINE m == template[i].first + (a - 1)
             n == template[i].first + (b - 1)
  <2>1. m \in 0 .. SizeMax /\ Spelt(i, Texts(i)[a]) = Decimal(m)
    BY <1>1, ExplicitSpelt
  <2>2. n \in 0 .. SizeMax /\ Spelt(i, Texts(i)[b]) = Decimal(n)
    BY <1>1, ExplicitSpelt
  <2> HIDE DEF m, n
  <2>3. m = n
    BY <2>1, <2>2, DecimalsDiffer
  <2>4. template[i].first \in Int
    BY TokenTypes
  <2> QED BY <2>3, <2>4 DEF m, n
<1>2. CASE IsA(i, "implicit")
  <2> DEFINE d == template[i].domains
             s == Texts(i)[a]
             t == Texts(i)[b]
  <2>1. /\ s \in Seq(Nat) /\ Len(Spelt(i, s)) = Len(s)
        /\ \A p \in 1 .. Len(s) :
             /\ Len(d) - Len(s) + p \in DOMAIN d
             /\ s[p] \in Nat /\ s[p] + 1 \in DOMAIN d[Len(d) - Len(s) + p]
             /\ Spelt(i, s)[p] = d[Len(d) - Len(s) + p][s[p] + 1]
    BY <1>2, ImplicitSpelt
  <2>2. /\ t \in Seq(Nat) /\ Len(Spelt(i, t)) = Len(t)
        /\ \A p \in 1 .. Len(t) :
             /\ t[p] \in Nat /\ t[p] + 1 \in DOMAIN d[Len(d) - Len(t) + p]
             /\ Spelt(i, t)[p] = d[Len(d) - Len(t) + p][t[p] + 1]
    BY <1>2, ImplicitSpelt
  <2>3. \A p \in DOMAIN d : IsInjective(d[p])
    BY TokenTypes
  <2>4. Spelt(i, s) = Spelt(i, t)
    OBVIOUS
  <2> HIDE DEF d, s, t
  <2>5. Len(s) = Len(t)
    BY <2>1, <2>2, <2>4
  <2>6. ASSUME NEW p \in 1 .. Len(s) PROVE s[p] = t[p]
    <3> DEFINE q == Len(d) - Len(s) + p
    <3>1. /\ q \in DOMAIN d /\ s[p] + 1 \in DOMAIN d[q] /\ s[p] \in Nat
          /\ Spelt(i, s)[p] = d[q][s[p] + 1]
      BY <2>1
    <3>2. t[p] + 1 \in DOMAIN d[q] /\ t[p] \in Nat /\ Spelt(i, t)[p] = d[q][t[p] + 1]
      BY <2>2, <2>5
    <3> HIDE DEF q
    <3>3. \A x, y \in DOMAIN d[q] : d[q][x] = d[q][y] => x = y
      BY <2>3, <3>1 DEF IsInjective
    <3>4. s[p] + 1 = t[p] + 1
      BY <2>4, <3>1, <3>2, <3>3
    <3> QED BY <3>1, <3>2, <3>4
  <2>7. s = t
    BY <2>1, <2>2, <2>5, <2>6, SeqEqual
  <2> QED BY <1>2, <2>7, TextsDiffer DEF s, t
<1> QED BY <1>1, <1>2, TokenTypes

\* A text is spelt in a string, of the same length as any other of its range unless
\* the range's width is variable.
LEMMA SpeltTyped ==
  ASSUME Accepted, lead_zero, NEW i \in Ranges, ~IsA(i, "continuation"),
         NEW a \in 1 .. Len(Texts(i)), NEW b \in 1 .. Len(Texts(i))
  PROVE  /\ Spelt(i, Texts(i)[a]) \in Seq(Nat)
         /\ i \notin VariableWidth => Len(Spelt(i, Texts(i)[a])) = Len(Spelt(i, Texts(i)[b]))
<1>1. CASE IsA(i, "explicit")
  <2> DEFINE m == template[i].first + (a - 1)
             n == template[i].first + (b - 1)
             first == template[i].first
             last == template[i].last
  <2>1. /\ m \in 0 .. SizeMax /\ first <= m /\ m <= last
        /\ Spelt(i, Texts(i)[a]) = Decimal(m)
    BY <1>1, ExplicitSpelt
  <2>2. /\ n \in 0 .. SizeMax /\ first <= n /\ n <= last
        /\ Spelt(i, Texts(i)[b]) = Decimal(n)
    BY <1>1, ExplicitSpelt
  <2>3. first \in 0 .. SizeMax /\ last \in 0 .. SizeMax /\ SizeMax \in Nat
    BY TokenTypes, TemplatesAssumption
  <2>4. i \notin VariableWidth => Width(first) = Width(last)
    BY <1>1 DEF VariableWidth
  <2> HIDE DEF m, n, first, last
  <2>5. Decimal(m) \in Seq(Nat) /\ Len(Decimal(m)) = Width(m) /\ Len(Decimal(n)) = Width(n)
    BY <2>1, <2>2, DecimalsDiffer
  <2>6. ASSUME NEW k \in 0 .. SizeMax, first <= k, k <= last, Width(first) = Width(last)
        PROVE  Width(k) = Width(first)
    <3>1. first \in 0 .. k /\ k \in 0 .. last
      BY <2>3, <2>6
    <3>2. Width(first) <= Width(k) /\ Width(k) <= Width(last)
      BY <2>3, <3>1, WidthIs
    <3>3. Width(first) \in Nat /\ Width(k) \in Nat
      BY <2>3, WidthIs
    <3> QED BY <2>6, <3>2, <3>3
  <2>7. Width(first) = Width(last) => Width(m) = Width(n)
    BY <2>1, <2>2, <2>6
  <2> QED BY <2>1, <2>2, <2>4, <2>5, <2>7
<1>2. CASE IsA(i, "implicit")
  <2> DEFINE d == template[i].domains
             s == Texts(i)[a]
             t == Texts(i)[b]
  <2>1. /\ Spelt(i, s) \in Seq(Nat) /\ Len(Spelt(i, s)) = Len(s)
        /\ Len(s) \in 1 .. Len(d) /\ (~telescoping => Len(s) = Len(d))
    BY <1>2, ImplicitSpelt
  <2>2. /\ Len(Spelt(i, t)) = Len(t)
        /\ Len(t) \in 1 .. Len(d) /\ (~telescoping => Len(t) = Len(d))
    BY <1>2, ImplicitSpelt
  <2>3. i \notin VariableWidth => ~telescoping \/ ~(Len(d) > 1)
    BY <1>2 DEF VariableWidth
  <2>4. Len(d) \in Nat
    BY SizesTyped
  <2> HIDE DEF d, s, t
  <2>5. i \notin VariableWidth => Len(s) = Len(t)
    BY <2>1, <2>2, <2>3, <2>4
  <2> QED BY <2>1, <2>2, <2>5 DEF s, t
<1> QED BY <1>1, <1>2, TokenTypes

\* At most one range of variable width is one such range.
LEMMA OneVariable ==
  ASSUME Accepted, Cardinality(VariableWidth) <= 1,
         NEW i \in VariableWidth, NEW j \in VariableWidth
  PROVE  i = j
<1> SUFFICES ASSUME i # j PROVE FALSE
  OBVIOUS
<1>1. Ranges = 1 .. Len(template) /\ Len(template) \in Nat
  BY TokenTypes
<1>2. IsFiniteSet(Ranges)
  BY <1>1, FS_Interval
<1>3. IsFiniteSet(VariableWidth)
  <2>1. VariableWidth \in SUBSET Ranges
    BY DEF VariableWidth
  <2> QED BY <1>2, <2>1, FS_Subset
<1>4. Cardinality({i} \cup {j}) = 2 /\ Cardinality({i} \cup {j}) \in Nat
  <2>1. IsFiniteSet({i}) /\ Cardinality({i}) = 1
    BY FS_Singleton
  <2>2. Cardinality({i} \cup {j}) = IF j \in {i} THEN Cardinality({i}) ELSE Cardinality({i}) + 1
    BY <2>1, FS_AddElement
  <2>3. j \notin {i}
    OBVIOUS
  <2> QED BY <2>1, <2>2, <2>3
<1>5. Cardinality({i} \cup {j}) <= Cardinality(VariableWidth)
  <2>1. {i} \cup {j} \in SUBSET VariableWidth
    OBVIOUS
  <2> QED BY <1>3, <2>1, FS_Subset
<1>6. Cardinality(VariableWidth) \in Nat
  BY <1>3, FS_CardinalityType
<1> QED BY <1>4, <1>5, <1>6

-----------------------------------------------------------------------------
\* Strings put behind one another are told apart by their lengths: lists of strings
\* of the same lengths are the same if they flatten to the same ...
LEMMA SameLengthsFlatten ==
  ASSUME NEW T, NEW ss \in Seq(Seq(T)), NEW tt \in Seq(Seq(T)), Len(ss) = Len(tt),
         \A k \in 1 .. Len(ss) : Len(ss[k]) = Len(tt[k]), FlattenSeq(ss) = FlattenSeq(tt)
  PROVE  \A k \in 1 .. Len(ss) : ss[k] = tt[k]
<1> DEFINE n == Len(ss)
           o == Offsets(ss)
           u == Offsets(tt)
<1>1. /\ n \in Nat
      /\ \A k \in 1 .. n : /\ ss[k] \in Seq(T) /\ Len(ss[k]) \in Nat
                           /\ tt[k] \in Seq(T) /\ Len(tt[k]) \in Nat
  <2>1. n \in Nat /\ \A k \in 1 .. n : ss[k] \in Seq(T) /\ tt[k] \in Seq(T)
    BY ElementOfSeq, LenProperties
  <2> QED BY <2>1, LenProperties
<1>2. o[0] = 0 /\ \A k \in 1 .. n : o[k] = o[k - 1] + Len(ss[k])
  BY OffsetsExist DEF IsOffsets
<1>3. u[0] = 0 /\ \A k \in 1 .. n : u[k] = u[k - 1] + Len(tt[k])
  BY OffsetsExist DEF IsOffsets
<1>4. \A k \in 1 .. n : Len(ss[k]) = Len(tt[k])
  OBVIOUS
<1>5. ss # <<>> /\ tt # <<>> =>
        \A k \in 1 .. n : \A x \in 1 .. Len(ss[k]) :
          FlattenSeq(ss)[o[k - 1] + x] = ss[k][x] /\ FlattenSeq(tt)[u[k - 1] + x] = tt[k][x]
  <2> SUFFICES ASSUME ss # <<>>, tt # <<>>, NEW k \in 1 .. n, NEW x \in 1 .. Len(ss[k])
               PROVE  /\ FlattenSeq(ss)[o[k - 1] + x] = ss[k][x]
                      /\ FlattenSeq(tt)[u[k - 1] + x] = tt[k][x]
    OBVIOUS
  <2>1. FlattenSeq(ss)[o[k - 1] + x] = ss[k][x]
    BY Flattened
  <2>2. k \in 1 .. Len(tt) /\ x \in 1 .. Len(tt[k])
    BY <1>4
  <2>3. FlattenSeq(tt)[u[k - 1] + x] = tt[k][x]
    BY <2>2, Flattened
  <2> QED BY <2>1, <2>3
<1>6. n # 0 => ss # <<>> /\ tt # <<>>
  BY EmptySeq
<1> HIDE DEF n, o, u
<1> DEFINE S == {k \in 0 .. n : o[k] = u[k]}
<1>7. 0 \in S
  BY <1>1, <1>2, <1>3
<1>8. ASSUME NEW k \in 0 .. (n - 1), k \in S PROVE k + 1 \in S
  <2>1. k + 1 \in 1 .. n /\ (k + 1) - 1 = k /\ k + 1 \in 0 .. n
    BY <1>1
  <2>2. o[k + 1] = o[k] + Len(ss[k + 1]) /\ u[k + 1] = u[k] + Len(tt[k + 1])
    BY <1>2, <1>3, <2>1
  <2>3. Len(ss[k + 1]) = Len(tt[k + 1]) /\ o[k] = u[k]
    BY <1>4, <1>8, <2>1
  <2>4. o[k + 1] = u[k + 1]
    BY <2>2, <2>3
  <2> QED BY <2>1, <2>4
<1>9. 0 .. n \subseteq S
  <2> HIDE DEF S
  <2> QED BY <1>1, <1>7, <1>8, InductionUpTo
<1>10. ASSUME NEW k \in 1 .. n PROVE ss[k] = tt[k]
  <2>1. k - 1 \in 0 .. n /\ n # 0
    BY <1>1
  <2>2. o[k - 1] = u[k - 1]
    BY <1>9, <2>1
  <2>3. \A x \in 1 .. Len(ss[k]) : ss[k][x] = tt[k][x]
    BY <1>5, <1>6, <2>1, <2>2
  <2> QED BY <1>1, <1>4, <2>3, SeqEqual
<1> QED BY <1>10 DEF n

\* ... and lists of strings of which some are shorter and none is longer flatten to
\* a shorter string.
LEMMA ShorterFlatten ==
  ASSUME NEW T, NEW ss \in Seq(Seq(T)), NEW tt \in Seq(Seq(T)), Len(ss) = Len(tt),
         \A k \in 1 .. Len(ss) : Len(ss[k]) <= Len(tt[k]),
         NEW i \in 1 .. Len(ss), Len(ss[i]) < Len(tt[i])
  PROVE  FlattenSeq(ss) # FlattenSeq(tt)
<1> DEFINE n == Len(ss)
           o == Offsets(ss)
           u == Offsets(tt)
<1>1. n \in Nat /\ \A k \in 1 .. n : Len(ss[k]) \in Nat /\ Len(tt[k]) \in Nat
  <2>1. n \in Nat /\ \A k \in 1 .. n : ss[k] \in Seq(T) /\ tt[k] \in Seq(T)
    BY ElementOfSeq, LenProperties
  <2> QED BY <2>1, LenProperties
<1>2. /\ o[0] = 0 /\ \A k \in 1 .. n : o[k] = o[k - 1] + Len(ss[k])
      /\ \A k \in 0 .. n : o[k] \in Nat
  BY OffsetsExist DEF IsOffsets
<1>3. /\ u[0] = 0 /\ \A k \in 1 .. n : u[k] = u[k - 1] + Len(tt[k])
      /\ \A k \in 0 .. n : u[k] \in Nat
  BY OffsetsExist DEF IsOffsets
<1>4. \A k \in 1 .. n : Len(ss[k]) <= Len(tt[k])
  OBVIOUS
<1>5. Len(FlattenSeq(ss)) = o[n] /\ Len(FlattenSeq(tt)) = u[n]
  <2>1. ss # <<>> /\ tt # <<>>
    BY EmptySeq
  <2> QED BY <2>1, Flattened
<1>6. i \in 1 .. n /\ Len(ss[i]) < Len(tt[i])
  OBVIOUS
<1> HIDE DEF n, o, u
<1> DEFINE S == {k \in 0 .. n : o[k] <= u[k] /\ (i <= k => o[k] < u[k])}
<1>7. 0 \in S
  BY <1>1, <1>2, <1>3, <1>6
<1>8. ASSUME NEW k \in 0 .. (n - 1), k \in S PROVE k + 1 \in S
  <2>1. k + 1 \in 1 .. n /\ (k + 1) - 1 = k /\ k + 1 \in 0 .. n /\ k \in 0 .. n
    BY <1>1
  <2>2. o[k + 1] = o[k] + Len(ss[k + 1]) /\ u[k + 1] = u[k] + Len(tt[k + 1])
    BY <1>2, <1>3, <2>1
  <2>3. /\ o[k] \in Nat /\ u[k] \in Nat /\ Len(ss[k + 1]) \in Nat /\ Len(tt[k + 1]) \in Nat
        /\ Len(ss[k + 1]) <= Len(tt[k + 1]) /\ o[k] <= u[k] /\ (i <= k => o[k] < u[k])
    BY <1>1, <1>2, <1>3, <1>4, <1>8, <2>1
  <2>4. \A p, q, x, y \in Nat : p <= q /\ x <= y =>
          p + x <= q + y /\ (p < q \/ x < y => p + x < q + y)
    OBVIOUS
  <2>5. o[k + 1] <= u[k + 1]
    BY <2>2, <2>3, <2>4, Zenon
  <2>6. ASSUME i <= k + 1 PROVE o[k + 1] < u[k + 1]
    <3>1. CASE i = k + 1
      BY <1>6, <2>2, <2>3, <2>4, <3>1, Zenon
    <3>2. CASE i # k + 1
      <4>1. i <= k
        BY <1>1, <1>6, <2>6, <3>2
      <4> QED BY <2>2, <2>3, <2>4, <4>1, Zenon
    <3> QED BY <3>1, <3>2
  <2> QED BY <2>1, <2>5, <2>6
<1>9. 0 .. n \subseteq S
  <2> HIDE DEF S
  <2> QED BY <1>1, <1>7, <1>8, InductionUpTo
<1>10. n \in 0 .. n /\ i <= n
  BY <1>1, <1>6
<1>11. o[n] < u[n] /\ o[n] \in Nat /\ u[n] \in Nat
  BY <1>2, <1>3, <1>9, <1>10
<1> QED BY <1>5, <1>11

\* Each digit is the number of one of its range's texts.
LEMMA PlacesTyped ==
  ASSUME Accepted, NEW m \in Nat, NEW i \in Ranges
  PROVE  Word(Radices, m)[i] \in Nat /\ Word(Radices, m)[i] < Radices[i]
<1>1. /\ Radices \in Radixes /\ i \in 1 .. Len(Radices) /\ Radices[i] \in Nat
  BY RadicesTyped, TokenTypes
<1>2. Word(Radices, m)[i] \in 0 .. (Radices[i] - 1)
  BY <1>1, WordDigits
<1> QED BY <1>1, <1>2

\* A candidate flattened: a range's literal and how its text is spelt.
Part(i, m) == template[i].before
              \o Spelt(Target(i), Texts(Target(i))[Word(Radices, m)[Target(i)] + 1])
Parts(m) == [i \in Ranges |-> Part(i, m)]

\* Which text of its target a range shows, and how long its part is.
LEMMA PartTyped ==
  ASSUME Accepted, lead_zero, NEW m \in Nat, NEW i \in Ranges
  PROVE  LET j == Target(i)
             x == Word(Radices, m)[j] + 1
         IN  /\ j \in Ranges /\ ~IsA(j, "continuation") /\ x \in 1 .. Len(Texts(j))
             /\ template[i].before \in Seq(Nat) /\ Spelt(j, Texts(j)[x]) \in Seq(Nat)
             /\ Part(i, m) = template[i].before \o Spelt(j, Texts(j)[x])
             /\ Part(i, m) \in Seq(Nat)
             /\ Len(Part(i, m)) = Len(template[i].before) + Len(Spelt(j, Texts(j)[x]))
             /\ Len(template[i].before) \in Nat /\ Len(Spelt(j, Texts(j)[x])) \in Nat
<1> DEFINE j == Target(i)
           x == Word(Radices, m)[j] + 1
           b == template[i].before
           s == Spelt(j, Texts(j)[x])
<1>1. j \in Ranges /\ ~IsA(j, "continuation")
  BY TargetIs
<1>2. x \in 1 .. Len(Texts(j))
  <2>1. /\ Word(Radices, m)[j] \in Nat /\ Word(Radices, m)[j] < Radices[j]
        /\ Radices[j] = Len(Texts(j)) /\ Radices[j] \in Nat
    BY <1>1, PlacesTyped, RadicesTyped
  <2> QED BY <2>1
<1>3. b \in Seq(Nat)
  BY TokenTypes
<1>4. Part(i, m) = b \o s
  BY DEF Part
<1> HIDE DEF x, j
<1>5. s \in Seq(Nat)
  BY <1>1, <1>2, SpeltTyped
<1> HIDE DEF b, s
<1>6. b \o s \in Seq(Nat) /\ Len(b \o s) = Len(b) + Len(s) /\ Len(b) \in Nat /\ Len(s) \in Nat
  BY <1>3, <1>5, ConcatProperties, LenProperties
<1> QED BY <1>1, <1>2, <1>3, <1>4, <1>5, <1>6 DEF b, s, x, j

\* A candidate's parts are a list of strings.
LEMMA PartsTyped ==
  ASSUME Accepted, lead_zero, NEW m \in Nat
  PROVE  /\ Parts(m) \in Seq(Seq(Nat)) /\ Len(Parts(m)) = Len(template)
         /\ \A i \in Ranges : Parts(m)[i] = Part(i, m)
         /\ Expected(m) = FlattenSeq(Parts(m))
<1>1. Ranges = 1 .. Len(template) /\ Len(template) \in Nat
  BY TokenTypes
<1>2. \A i \in Ranges : Part(i, m) \in Seq(Nat)
  BY PartTyped
<1>3. Parts(m) = [i \in 1 .. Len(template) |-> Part(i, m)]
  BY <1>1 DEF Parts
<1>4. Parts(m) \in [1 .. Len(template) -> Seq(Nat)]
  BY <1>1, <1>2, <1>3
<1>5. Parts(m) \in Seq(Seq(Nat))
  BY <1>1, <1>4, SeqDef
<1>6. Len(Parts(m)) = Len(template)
  BY <1>1, <1>4, <1>5, LenProperties
<1>7. \A i \in Ranges : Parts(m)[i] = Part(i, m)
  BY <1>1, <1>3
<1>8. Expected(m) = FlattenSeq(Parts(m))
  <2> DEFINE texts == [i \in Ranges |-> Texts(Target(i))[Word(Radices, m)[Target(i)] + 1]]
  <2>1. Expected(m) = Spelling(texts)
    BY Zenon DEF Expected
  <2>2. \A i \in Ranges : template[i].before \o Spelt(Target(i), texts[i]) = Part(i, m)
    BY DEF Part
  <2> HIDE DEF texts
  <2>3. [i \in Ranges |-> template[i].before \o Spelt(Target(i), texts[i])]
        = [i \in Ranges |-> Part(i, m)]
    BY <2>2
  <2> QED BY <2>1, <2>3, Zenon DEF Spelling, Parts
<1> QED BY <1>5, <1>6, <1>7, <1>8

\* If a part of one candidate is shorter than the same part of another, so is the
\* candidate: every part that differs in length shows the same range.
LEMMA ShorterPart ==
  ASSUME Accepted, lead_zero, Cardinality(VariableWidth) <= 1, NEW a \in Nat, NEW b \in Nat,
         NEW i \in Ranges, Len(Part(i, a)) < Len(Part(i, b))
  PROVE  Expected(a) # Expected(b)
<1> DEFINE v == Target(i)
           wa(j) == Word(Radices, a)[j] + 1
           wb(j) == Word(Radices, b)[j] + 1
           la(j) == Len(Spelt(j, Texts(j)[wa(j)]))
           lb(j) == Len(Spelt(j, Texts(j)[wb(j)]))
<1>1. ASSUME NEW k \in Ranges
      PROVE  /\ Target(k) \in Ranges /\ ~IsA(Target(k), "continuation")
             /\ wa(Target(k)) \in 1 .. Len(Texts(Target(k)))
             /\ wb(Target(k)) \in 1 .. Len(Texts(Target(k)))
             /\ Len(Part(k, a)) = Len(template[k].before) + la(Target(k))
             /\ Len(Part(k, b)) = Len(template[k].before) + lb(Target(k))
             /\ Len(template[k].before) \in Nat
             /\ la(Target(k)) \in Nat /\ lb(Target(k)) \in Nat
  BY PartTyped
<1>2. \A j \in Ranges :
        ~IsA(j, "continuation") /\ wa(j) \in 1 .. Len(Texts(j)) /\ wb(j) \in 1 .. Len(Texts(j))
        /\ j \notin VariableWidth => la(j) = lb(j)
  BY SpeltTyped
<1> HIDE DEF la, lb, wa, wb
<1>3. la(v) < lb(v)
  <2>1. \A x, y, z \in Nat : z + x < z + y => x < y
    OBVIOUS
  <2>2. /\ Len(Part(i, a)) = Len(template[i].before) + la(v)
        /\ Len(Part(i, b)) = Len(template[i].before) + lb(v)
        /\ Len(template[i].before) \in Nat /\ la(v) \in Nat /\ lb(v) \in Nat
    BY <1>1
  <2>3. Len(Part(i, a)) < Len(Part(i, b))
    OBVIOUS
  <2> HIDE DEF v
  <2> QED BY <2>1, <2>2, <2>3, Zenon
<1>4. v \in VariableWidth
  <2>1. v \in Ranges /\ la(v) \in Nat /\ lb(v) \in Nat
    BY <1>1
  <2>2. v \notin VariableWidth => la(v) = lb(v)
    BY <1>1, <1>2
  <2> QED BY <1>3, <2>1, <2>2
<1>5. ASSUME NEW k \in Ranges PROVE Len(Part(k, a)) <= Len(Part(k, b))
  <2> DEFINE j == Target(k)
  <2>1. j # v => la(j) = lb(j)
    <3> SUFFICES ASSUME j # v PROVE la(j) = lb(j)
      OBVIOUS
    <3>1. j \notin VariableWidth
      BY <1>4, OneVariable
    <3> QED BY <1>1, <1>2, <3>1
  <2>2. la(j) \in Nat /\ lb(j) \in Nat /\ Len(template[k].before) \in Nat
        /\ Len(Part(k, a)) = Len(template[k].before) + la(j)
        /\ Len(Part(k, b)) = Len(template[k].before) + lb(j)
    BY <1>1
  <2> HIDE DEF j, v
  <2>3. la(j) <= lb(j)
    BY <1>3, <2>1, <2>2
  <2> QED BY <2>2, <2>3
<1>6. /\ Parts(a) \in Seq(Seq(Nat)) /\ Len(Parts(a)) = Len(template)
      /\ \A k \in Ranges : Parts(a)[k] = Part(k, a)
      /\ Expected(a) = FlattenSeq(Parts(a))
  BY PartsTyped
<1>7. /\ Parts(b) \in Seq(Seq(Nat)) /\ Len(Parts(b)) = Len(template)
      /\ \A k \in Ranges : Parts(b)[k] = Part(k, b)
      /\ Expected(b) = FlattenSeq(Parts(b))
  BY PartsTyped
<1>8. Ranges = 1 .. Len(template)
  BY TokenTypes
<1>9. /\ \A k \in 1 .. Len(Parts(a)) : Len(Parts(a)[k]) <= Len(Parts(b)[k])
      /\ i \in 1 .. Len(Parts(a)) /\ Len(Parts(a)[i]) < Len(Parts(b)[i])
  BY <1>5, <1>6, <1>7, <1>8
<1>10. FlattenSeq(Parts(a)) # FlattenSeq(Parts(b))
  BY <1>6, <1>7, <1>9, ShorterFlatten
<1> QED BY <1>6, <1>7, <1>10

\* So with leading zeros, and at most one range of variable width, candidates differ.
LEMMA CandidatesDiffer ==
  ASSUME Accepted, lead_zero, Cardinality(VariableWidth) <= 1,
         NEW a \in Nat, NEW b \in Nat, a < Count, b < Count, Expected(a) = Expected(b)
  PROVE  a = b
<1> DEFINE wa == Word(Radices, a)
           wb == Word(Radices, b)
<1>1. /\ Radices \in Radixes /\ Len(Radices) = Len(template) /\ Ranges = 1 .. Len(template)
      /\ \A i \in Ranges : /\ Radices[i] = Len(Texts(i)) /\ Radices[i] \in Nat
                           /\ IsA(i, "continuation") => Radices[i] = 1
  BY RadicesTyped, TokenTypes
<1>2. \A i \in Ranges : wa[i] \in 0 .. (Radices[i] - 1) /\ wb[i] \in 0 .. (Radices[i] - 1)
  BY <1>1, WordDigits
<1>3. wa \in Seq(Nat) /\ wb \in Seq(Nat) /\ Len(wa) = Len(Radices) /\ Len(wb) = Len(Radices)
  BY <1>1, WordTyped
<1>4. ASSUME NEW i \in Ranges PROVE Len(Part(i, a)) = Len(Part(i, b))
  <2>1. ~(Len(Part(i, a)) < Len(Part(i, b))) /\ ~(Len(Part(i, b)) < Len(Part(i, a)))
    BY ShorterPart
  <2>2. Len(Part(i, a)) \in Nat /\ Len(Part(i, b)) \in Nat
    <3>1. Part(i, a) \in Seq(Nat) /\ Part(i, b) \in Seq(Nat)
      BY PartTyped
    <3> QED BY <3>1, LenProperties
  <2> QED BY <2>1, <2>2
<1>5. ASSUME NEW i \in Ranges PROVE Part(i, a) = Part(i, b)
  <2>1. /\ Parts(a) \in Seq(Seq(Nat)) /\ Len(Parts(a)) = Len(template)
        /\ \A k \in Ranges : Parts(a)[k] = Part(k, a)
        /\ Expected(a) = FlattenSeq(Parts(a))
    BY PartsTyped
  <2>2. /\ Parts(b) \in Seq(Seq(Nat)) /\ Len(Parts(b)) = Len(template)
        /\ \A k \in Ranges : Parts(b)[k] = Part(k, b)
        /\ Expected(b) = FlattenSeq(Parts(b))
    BY PartsTyped
  <2>3. \A k \in 1 .. Len(Parts(a)) : Len(Parts(a)[k]) = Len(Parts(b)[k])
    BY <1>1, <1>4, <2>1, <2>2
  <2>4. FlattenSeq(Parts(a)) = FlattenSeq(Parts(b)) /\ Len(Parts(a)) = Len(Parts(b))
    BY <2>1, <2>2
  <2>5. \A k \in 1 .. Len(Parts(a)) : Parts(a)[k] = Parts(b)[k]
    BY <2>1, <2>2, <2>3, <2>4, SameLengthsFlatten
  <2> QED BY <1>1, <2>1, <2>2, <2>5
<1>6. ASSUME NEW i \in Ranges PROVE wa[i] = wb[i]
  <2>1. CASE IsA(i, "continuation")
    <3>1. Radices[i] = 1
      BY <1>1, <2>1
    <3>2. wa[i] \in 0 .. (Radices[i] - 1) /\ wb[i] \in 0 .. (Radices[i] - 1)
      BY <1>2
    <3> HIDE DEF wa, wb
    <3> QED BY <3>1, <3>2
  <2>2. CASE ~IsA(i, "continuation")
    <3> DEFINE before == template[i].before
               s == Spelt(i, Texts(i)[wa[i] + 1])
               t == Spelt(i, Texts(i)[wb[i] + 1])
    <3>1. Target(i) = i
      BY <2>2, TargetIs
    <3>2. /\ wa[i] + 1 \in 1 .. Len(Texts(i)) /\ before \in Seq(Nat)
          /\ s \in Seq(Nat) /\ Part(i, a) = before \o s
      BY <3>1, PartTyped
    <3>3. /\ wb[i] + 1 \in 1 .. Len(Texts(i))
          /\ t \in Seq(Nat) /\ Part(i, b) = before \o t
      BY <3>1, PartTyped
    <3>4. s = t
      <4> HIDE DEF s, t, before, wa, wb
      <4>1. before \o s = before \o t
        BY <1>5, <3>2, <3>3
      <4>2. SubSeq(before \o s, Len(before) + 1, Len(before \o s)) = s
        BY <3>2, ConcatSplits
      <4>3. SubSeq(before \o t, Len(before) + 1, Len(before \o t)) = t
        BY <3>2, <3>3, ConcatSplits
      <4> QED BY <4>1, <4>2, <4>3
    <3> HIDE DEF before, wa, wb
    <3>5. wa[i] + 1 = wb[i] + 1
      BY <2>2, <3>2, <3>3, <3>4, SpeltDiffer
    <3>6. wa[i] \in Int /\ wb[i] \in Int
      BY <1>2
    <3> QED BY <3>5, <3>6
  <2> QED BY <2>1, <2>2
<1> HIDE DEF wa, wb
<1>7. wa = wb
  BY <1>1, <1>3, <1>6, SeqEqual
<1>8. a < Product(Radices) /\ b < Product(Radices)
  BY DEF Count
<1> QED BY <1>1, <1>7, <1>8, WordsDiffer DEF wa, wb

-----------------------------------------------------------------------------
\* An implicit range turns from one word to the next, and from the last to zeros.
LEMMA TurnedIs ==
  ASSUME NEW r \in Radixes, NEW x \in Nat, x < Product(r)
  PROVE  /\ Movable(Word(r, x), r) = {} <=> x + 1 = Product(r)
         /\ x + 1 # Product(r) =>
              x + 1 < Product(r) /\ Turned(Word(r, x), r) = Word(r, x + 1)
         /\ x + 1 = Product(r) => Turned(Word(r, x), r) = Zeros(r)
<1> DEFINE w == Word(r, x)
           w1 == Word(r, x + 1)
           n == Len(r)
           last == LastToMove(r, x)
           M == {p \in 1 .. n : w[p] + 1 # r[p]}
<1>1. n \in Nat /\ DOMAIN r = 1 .. n /\ x + 1 \in Nat /\ Product(r) \in Nat
  BY NothingLeft DEF Radixes
<1>2. /\ DOMAIN w = 1 .. n /\ w \in Seq(Nat) /\ Len(w) = n
      /\ DOMAIN w1 = 1 .. n /\ w1 \in Seq(Nat) /\ Len(w1) = n
      /\ \A p \in 1 .. n : r[p] \in Nat \ {0} /\ w[p] \in 0 .. (r[p] - 1)
  BY <1>1, WordDigits, WordTyped
<1>3. /\ last \in 0 .. n
      /\ last = 0 <=> x + 1 = Product(r)
      /\ \A p \in (last + 1) .. n : w[p] + 1 = r[p]
      /\ last # 0 => /\ w[last] + 1 # r[last]
                     /\ \A p \in 1 .. n : w1[p] = IF p < last THEN w[p]
                                                  ELSE IF p = last THEN w[p] + 1 ELSE 0
  BY NextWord
<1>4. last = Max(M \cup {0})
  BY DEF LastToMove
<1>5. Movable(w, r) = M
  BY <1>2 DEF Movable
<1>6. Turned(w, r) = [p \in 1 .. n |-> IF p < last THEN w[p]
                                       ELSE IF p = last THEN w[p] + 1 ELSE 0]
  BY <1>2, <1>4, <1>5 DEF Turned
<1>7. w1 = [p \in 1 .. n |-> w1[p]]
  BY <1>2 DEF Word
<1> HIDE DEF w, w1, n, last
<1>8. M = {} <=> last = 0
  <2>1. ASSUME last = 0 PROVE M = {}
    BY <1>1, <1>3, <2>1
  <2>2. ASSUME last # 0 PROVE last \in M
    BY <1>1, <1>3, <2>2
  <2> QED BY <2>1, <2>2
<1>9. ASSUME last # 0 PROVE Turned(w, r) = w1
  BY <1>3, <1>6, <1>7, <1>9
<1>10. ASSUME last = 0 PROVE Turned(w, r) = Zeros(r)
  BY <1>1, <1>6, <1>10 DEF Zeros
<1>11. x + 1 # Product(r) => x + 1 < Product(r)
  BY <1>1
<1> QED BY <1>3, <1>5, <1>8, <1>9, <1>10, <1>11 DEF w, w1

-----------------------------------------------------------------------------
\* The counters of an implicit range at the x-th word of its k-th subrange.
DigitsAt(ss, k, x) == [j \in DOMAIN ss |-> IF j = k THEN Word(ss[k], x) ELSE Zeros(ss[j])]

\* That current[i] = c, index[i] = k and digits[i] = d put range i at its text n,
\* from 0.
Position(i, c, k, d, n) ==
  /\ IsA(i, "explicit") => c = template[i].first + n
  /\ IsA(i, "implicit") =>
       /\ k \in 1 .. Len(SubRanges(i))
       /\ \E x \in Nat : /\ x < Product(SubRanges(i)[k])
                         /\ n = Offsets(WordLists(i))[k - 1] + x
                         /\ d = DigitsAt(SubRanges(i), k, x)

\* What an implicit range is at, and where its texts stand.
LEMMA ImplicitPosition ==
  ASSUME Accepted, NEW i \in Ranges, IsA(i, "implicit"), NEW c, NEW k, NEW d, NEW n \in Nat,
         Position(i, c, k, d, n)
  PROVE  /\ Len(SubRanges(i)) \in Nat /\ k \in 1 .. Len(SubRanges(i))
         /\ DOMAIN SubRanges(i) = 1 .. Len(SubRanges(i))
         /\ SubRanges(i)[k] \in Radixes /\ Len(SubRanges(i)[k]) # 0
         /\ \E x \in Nat :
              /\ x < Product(SubRanges(i)[k])
              /\ n = Offsets(WordLists(i))[k - 1] + x
              /\ d = DigitsAt(SubRanges(i), k, x) /\ d[k] = Word(SubRanges(i)[k], x)
<1>1. PICK x \in Nat : /\ x < Product(SubRanges(i)[k])
                       /\ n = Offsets(WordLists(i))[k - 1] + x
                       /\ d = DigitsAt(SubRanges(i), k, x)
  BY DEF Position
<1>2. k \in 1 .. Len(SubRanges(i))
  BY DEF Position
<1>3. /\ Len(SubRanges(i)) \in Nat /\ DOMAIN SubRanges(i) = 1 .. Len(SubRanges(i))
      /\ SubRanges(i)[k] \in Radixes /\ Len(SubRanges(i)[k]) # 0
  BY <1>2, SubRangesTyped
<1>4. d[k] = Word(SubRanges(i)[k], x)
  BY <1>1, <1>2, <1>3 DEF DigitsAt
<1> QED BY <1>1, <1>2, <1>3, <1>4

\* Where the subranges' texts begin and end among the texts of the range.
LEMMA Boundaries ==
  ASSUME Accepted, NEW i \in Ranges, IsA(i, "implicit"), NEW k \in 1 .. Len(SubRanges(i))
  PROVE  LET o == Offsets(WordLists(i))
         IN  /\ o[0] = 0 /\ o[k - 1] \in Nat /\ o[k] \in Nat
             /\ o[k] = o[k - 1] + Product(SubRanges(i)[k])
             /\ Product(SubRanges(i)[k]) \in Nat \ {0}
             /\ o[Len(SubRanges(i))] = Radices[i] /\ o[k] <= Radices[i]
             /\ k # Len(SubRanges(i)) => o[k] < Radices[i]
<1> DEFINE ss == WordLists(i)
           o == Offsets(ss)
           n == Len(SubRanges(i))
<1>1. /\ ss \in Seq(Seq(Seq(Nat))) /\ Len(ss) = n /\ n \in Nat
      /\ \A j \in 1 .. n : /\ ss[j] # <<>> /\ Len(ss[j]) = Product(SubRanges(i)[j])
                           /\ Product(SubRanges(i)[j]) \in Nat \ {0}
  BY WordListsTyped, SubRangesTyped
<1>2. o[n] = Radices[i]
  BY ImplicitTexts, RadicesTyped
<1> HIDE DEF ss, n
<1>3. /\ o[0] = 0 /\ \A j \in 1 .. n : o[j] = o[j - 1] + Len(ss[j])
      /\ \A j \in 0 .. n : o[j] \in Nat
  BY <1>1, OffsetsExist DEF IsOffsets
<1>4. \A j \in 1 .. n : o[j] <= o[n] /\ (j # n => o[j] < o[n])
  BY <1>1, OffsetsGrow
<1> HIDE DEF o
<1>5. k \in 1 .. n /\ k - 1 \in 0 .. n /\ k \in 0 .. n
  BY <1>1 DEF n
<1>6. /\ o[0] = 0 /\ o[k - 1] \in Nat /\ o[k] \in Nat
      /\ o[k] = o[k - 1] + Product(SubRanges(i)[k])
      /\ Product(SubRanges(i)[k]) \in Nat \ {0}
      /\ o[n] = Radices[i] /\ o[k] <= Radices[i]
      /\ k # n => o[k] < Radices[i]
  BY <1>1, <1>2, <1>3, <1>4, <1>5
<1> QED BY <1>6 DEF o, ss, n

\* A range shows the text it is at.
LEMMA RangeText ==
  ASSUME Accepted, NEW i \in Ranges, ~IsA(i, "continuation"), NEW c, NEW k, NEW d,
         NEW n \in Nat, n < Radices[i], Position(i, c, k, d, n)
  PROVE  (IF IsA(i, "explicit") THEN <<c>> ELSE Shown(d[k])) = Texts(i)[n + 1]
<1>1. CASE IsA(i, "explicit")
  <2>1. c = template[i].first + n
    BY <1>1 DEF Position
  <2>2. n < Len(Texts(i))
    BY RadicesTyped
  <2>3. Texts(i)[n + 1] = <<template[i].first + n>>
    BY <1>1, <2>2, ExplicitTexts
  <2> QED BY <1>1, <2>1, <2>3
<1>2. CASE IsA(i, "implicit")
  <2>1. k \in 1 .. Len(SubRanges(i))
    BY <1>2, ImplicitPosition
  <2>2. PICK x \in Nat : /\ x < Product(SubRanges(i)[k])
                         /\ n = Offsets(WordLists(i))[k - 1] + x
                         /\ d[k] = Word(SubRanges(i)[k], x)
    BY <1>2, ImplicitPosition
  <2>3. Texts(i)[Offsets(WordLists(i))[k - 1] + x + 1] = Shown(Word(SubRanges(i)[k], x))
    BY <1>2, <2>1, <2>2, ImplicitTexts
  <2>4. ~IsA(i, "explicit")
    BY <1>2 DEF IsA
  <2> QED BY <2>2, <2>3, <2>4
<1> QED BY <1>1, <1>2, TokenTypes

\* It carries at its last text.
LEMMA RangeCarries ==
  ASSUME Accepted, NEW i \in Ranges, NEW n \in Nat, n < Radices[i],
         Position(i, current[i], index[i], digits[i], n)
  PROVE  Carries(i) <=> n + 1 = Radices[i]
<1>1. CASE IsA(i, "explicit")
  <2>1. current[i] = template[i].first + n
    BY <1>1 DEF Position
  <2>2. Radices[i] = template[i].last - template[i].first + 1
    BY <1>1, RadicesTyped, ExplicitTexts
  <2>3. Carries(i) <=> current[i] = template[i].last
    BY <1>1 DEF Carries, IsA
  <2>4. template[i].first \in Int /\ template[i].last \in Int
    BY TokenTypes
  <2>5. \A a, b \in Int : a + n = b <=> n + 1 = b - a + 1
    OBVIOUS
  <2>6. template[i].first + n = template[i].last
        <=> n + 1 = template[i].last - template[i].first + 1
    BY <2>4, <2>5, Zenon
  <2> QED BY <2>1, <2>2, <2>3, <2>6, Zenon
<1>2. CASE IsA(i, "continuation")
  <2>1. Carries(i)
    BY <1>2 DEF Carries, IsA
  <2>2. Radices[i] = 1
    BY <1>2, RadicesTyped
  <2> QED BY <2>1, <2>2
<1>3. CASE IsA(i, "implicit")
  <2> DEFINE k == index[i]
             o == Offsets(WordLists(i))
             r == SubRanges(i)[k]
  <2>1. k \in 1 .. Len(SubRanges(i)) /\ r \in Radixes
    BY <1>3, ImplicitPosition
  <2>2. PICK x \in Nat : x < Product(r) /\ n = o[k - 1] + x /\ digits[i][k] = Word(r, x)
    BY <1>3, ImplicitPosition
  <2>3. Carries(i) <=> k = Len(SubRanges(i)) /\ Movable(digits[i][k], r) = {}
    <3>1. ~IsA(i, "explicit") /\ ~IsA(i, "continuation")
      BY <1>3 DEF IsA
    <3> QED BY <3>1 DEF Carries
  <2>4. /\ o[k - 1] \in Nat /\ o[k] \in Nat /\ o[k] = o[k - 1] + Product(r)
        /\ Product(r) \in Nat /\ o[Len(SubRanges(i))] = Radices[i] /\ o[k] <= Radices[i]
        /\ k # Len(SubRanges(i)) => o[k] < Radices[i]
    BY <1>3, <2>1, Boundaries
  <2>5. Movable(Word(r, x), r) = {} <=> x + 1 = Product(r)
    BY <2>1, <2>2, TurnedIs
  <2>6. Radices[i] \in Nat
    BY RadicesTyped
  <2> HIDE DEF k, o, r
  <2>7. ASSUME k = Len(SubRanges(i)), x + 1 = Product(r) PROVE n + 1 = Radices[i]
    BY <2>2, <2>4, <2>7
  <2>8. ASSUME n + 1 = Radices[i] PROVE k = Len(SubRanges(i)) /\ x + 1 = Product(r)
    <3>1. n + 1 <= o[k]
      BY <2>2, <2>4
    <3>2. k = Len(SubRanges(i))
      BY <2>4, <2>6, <2>8, <3>1
    <3> QED BY <2>2, <2>4, <2>8, <3>2
  <2> QED BY <2>2, <2>3, <2>5, <2>7, <2>8
<1> QED BY <1>1, <1>2, <1>3, TokenTypes

\* When an implicit range turns, the counters of the other subranges stay at zero.
LEMMA DigitsTurn ==
  ASSUME NEW ss, NEW k \in DOMAIN ss, NEW x \in Nat
  PROVE  [DigitsAt(ss, k, x) EXCEPT ![k] = Word(ss[k], x + 1)] = DigitsAt(ss, k, x + 1)
  BY DEF DigitsAt

\* When one rolls over, all are, which is the first word of any of them.
LEMMA DigitsRollOver ==
  ASSUME NEW ss, NEW k \in DOMAIN ss, NEW x \in Nat,
         NEW j \in DOMAIN ss, Word(ss[j], 0) = Zeros(ss[j])
  PROVE  [DigitsAt(ss, k, x) EXCEPT ![k] = Zeros(ss[k])] = DigitsAt(ss, j, 0)
  BY DEF DigitsAt

\* A range that does not carry moves to its next text.
LEMMA RangeMoves ==
  ASSUME Accepted, NEW i \in Ranges, NEW n \in Nat, n < Radices[i], n + 1 # Radices[i],
         Position(i, current[i], index[i], digits[i], n)
  PROVE  Position(i, CurrentAfter(i, FALSE), IndexAfter(i, FALSE), DigitsAfter(i), n + 1)
<1>1. ASSUME IsA(i, "explicit") PROVE CurrentAfter(i, FALSE) = template[i].first + (n + 1)
  <2>1. current[i] = template[i].first + n
    BY <1>1 DEF Position
  <2>2. Radices[i] = template[i].last - template[i].first + 1
    BY <1>1, RadicesTyped, ExplicitTexts
  <2>3. /\ template[i].first \in 0 .. SizeMax /\ template[i].last \in 0 .. SizeMax
        /\ SizeMax \in Nat
    BY TokenTypes, TemplatesAssumption
  <2>4. current[i] + 1 = template[i].first + (n + 1) /\ current[i] + 1 \in 0 .. SizeMax
    BY <2>1, <2>2, <2>3
  <2>5. \A y \in 0 .. SizeMax : y % (SizeMax + 1) = y
    BY <2>3
  <2>6. CurrentAfter(i, FALSE) = (current[i] + 1) % (SizeMax + 1)
    BY <1>1 DEF CurrentAfter
  <2> QED BY <2>4, <2>5, <2>6
<1>2. ASSUME IsA(i, "implicit")
      PROVE  /\ IndexAfter(i, FALSE) \in 1 .. Len(SubRanges(i))
             /\ \E x \in Nat :
                  /\ x < Product(SubRanges(i)[IndexAfter(i, FALSE)])
                  /\ n + 1 = Offsets(WordLists(i))[IndexAfter(i, FALSE) - 1] + x
                  /\ DigitsAfter(i) = DigitsAt(SubRanges(i), IndexAfter(i, FALSE), x)
  <2> DEFINE k == index[i]
             o == Offsets(WordLists(i))
             ss == SubRanges(i)
             r == ss[k]
  <2>1. Len(ss) \in Nat /\ k \in 1 .. Len(ss) /\ r \in Radixes /\ DOMAIN ss = 1 .. Len(ss)
    BY <1>2, ImplicitPosition
  <2>2. PICK x \in Nat : /\ x < Product(r) /\ n = o[k - 1] + x
                         /\ digits[i] = DigitsAt(ss, k, x) /\ digits[i][k] = Word(r, x)
    BY <1>2, ImplicitPosition
  <2>3. /\ o[k - 1] \in Nat /\ o[k] = o[k - 1] + Product(r) /\ o[k] \in Nat
        /\ Product(r) \in Nat /\ o[Len(ss)] = Radices[i]
    BY <1>2, <2>1, Boundaries
  <2>4. /\ Movable(Word(r, x), r) = {} <=> x + 1 = Product(r)
        /\ x + 1 # Product(r) => x + 1 < Product(r) /\ Turned(Word(r, x), r) = Word(r, x + 1)
        /\ x + 1 = Product(r) => Turned(Word(r, x), r) = Zeros(r)
    BY <2>1, <2>2, TurnedIs
  <2>5. IndexAfter(i, FALSE) = IF x + 1 = Product(r) THEN k + 1 ELSE k
    BY <1>2, <2>2, <2>4 DEF IndexAfter
  <2>6. DigitsAfter(i) = [DigitsAt(ss, k, x) EXCEPT ![k] = Turned(Word(r, x), r)]
    <3>1. DigitsAfter(i) = [digits[i] EXCEPT ![k] = Turned(digits[i][k], r)]
      BY <1>2 DEF DigitsAfter
    <3> QED BY <2>2, <3>1
  <2>7. \A j \in 1 .. Len(ss) : Product(ss[j]) \in Nat \ {0} /\ Word(ss[j], 0) = Zeros(ss[j])
    BY <1>2, SubRangesTyped, NothingLeft, FirstWord
  <2> HIDE DEF k, o, ss
  <2>8. CASE x + 1 # Product(r)
    <3>1. DigitsAfter(i) = DigitsAt(ss, k, x + 1)
      <4>1. Turned(Word(r, x), r) = Word(ss[k], x + 1) /\ k \in DOMAIN ss
        BY <2>1, <2>4, <2>8
      <4>2. [DigitsAt(ss, k, x) EXCEPT ![k] = Word(ss[k], x + 1)] = DigitsAt(ss, k, x + 1)
        BY <4>1, DigitsTurn
      <4> QED BY <2>6, <4>1, <4>2
    <3>2. n + 1 = o[k - 1] + (x + 1) /\ x + 1 \in Nat
      <4>1. \A p, q \in Nat : (p + q) + 1 = p + (q + 1) /\ q + 1 \in Nat
        OBVIOUS
      <4> QED BY <2>2, <2>3, <4>1, Zenon
    <3> QED BY <2>1, <2>4, <2>5, <2>8, <3>1, <3>2 DEF ss, o
  <2>9. CASE x + 1 = Product(r)
    <3>1. n + 1 = o[k]
      BY <2>2, <2>3, <2>9
    <3>2. k # Len(ss)
      BY <2>3, <3>1
    <3>3. k + 1 \in 1 .. Len(ss) /\ (k + 1) - 1 = k
      <4>1. \A l \in Nat : \A j \in 1 .. l : j # l => j + 1 \in 1 .. l /\ (j + 1) - 1 = j
        OBVIOUS
      <4> QED BY <2>1, <3>2, <4>1
    <3>4. DigitsAfter(i) = DigitsAt(ss, k + 1, 0)
      <4>1. Turned(Word(r, x), r) = Zeros(ss[k]) /\ k \in DOMAIN ss
        BY <2>1, <2>4, <2>9
      <4>2. k + 1 \in DOMAIN ss /\ Word(ss[k + 1], 0) = Zeros(ss[k + 1])
        BY <2>1, <2>7, <3>3
      <4>3. [DigitsAt(ss, k, x) EXCEPT ![k] = Zeros(ss[k])] = DigitsAt(ss, k + 1, 0)
        BY <4>1, <4>2, DigitsRollOver
      <4> QED BY <2>6, <4>1, <4>3
    <3>5. 0 < Product(ss[k + 1]) /\ n + 1 = o[(k + 1) - 1] + 0
      BY <2>3, <2>7, <3>1, <3>3
    <3> QED BY <2>5, <2>9, <3>3, <3>4, <3>5 DEF ss, o
  <2> QED BY <2>8, <2>9
<1> QED BY <1>1, <1>2 DEF Position

\* One that carries is reset to its first.
LEMMA RangeRollsOver ==
  ASSUME Accepted, NEW i \in Ranges, NEW n \in Nat, n < Radices[i], n + 1 = Radices[i],
         Position(i, current[i], index[i], digits[i], n)
  PROVE  Position(i, CurrentAfter(i, TRUE), IndexAfter(i, TRUE), DigitsAfter(i), 0)
<1>1. ASSUME IsA(i, "explicit") PROVE CurrentAfter(i, TRUE) = template[i].first + 0
  <2>1. CurrentAfter(i, TRUE) = template[i].first
    BY <1>1 DEF CurrentAfter
  <2>2. template[i].first \in Int
    BY TokenTypes
  <2>3. template[i].first + 0 = template[i].first
    BY <2>2
  <2> QED BY <2>1, <2>3, Zenon
<1>2. ASSUME IsA(i, "implicit")
      PROVE  /\ IndexAfter(i, TRUE) \in 1 .. Len(SubRanges(i))
             /\ \E x \in Nat :
                  /\ x < Product(SubRanges(i)[IndexAfter(i, TRUE)])
                  /\ 0 = Offsets(WordLists(i))[IndexAfter(i, TRUE) - 1] + x
                  /\ DigitsAfter(i) = DigitsAt(SubRanges(i), IndexAfter(i, TRUE), x)
  <2> DEFINE k == index[i]
             o == Offsets(WordLists(i))
             ss == SubRanges(i)
             r == ss[k]
  <2>1. Len(ss) \in Nat /\ k \in 1 .. Len(ss) /\ r \in Radixes /\ DOMAIN ss = 1 .. Len(ss)
    BY <1>2, ImplicitPosition
  <2>2. PICK x \in Nat : /\ x < Product(r) /\ n = o[k - 1] + x
                         /\ digits[i] = DigitsAt(ss, k, x) /\ digits[i][k] = Word(r, x)
    BY <1>2, ImplicitPosition
  <2>3. /\ o[0] = 0 /\ o[k - 1] \in Nat /\ o[k] = o[k - 1] + Product(r) /\ o[k] \in Nat
        /\ Product(r) \in Nat /\ o[k] <= Radices[i]
    BY <1>2, <2>1, Boundaries
  <2>4. x + 1 = Product(r) => Turned(Word(r, x), r) = Zeros(r)
    BY <2>1, <2>2, TurnedIs
  <2>5. IndexAfter(i, TRUE) = 1
    BY <1>2 DEF IndexAfter
  <2>6. DigitsAfter(i) = [DigitsAt(ss, k, x) EXCEPT ![k] = Turned(Word(r, x), r)]
    <3>1. DigitsAfter(i) = [digits[i] EXCEPT ![k] = Turned(digits[i][k], r)]
      BY <1>2 DEF DigitsAfter
    <3> QED BY <2>2, <3>1
  <2>7. \A j \in 1 .. Len(ss) : Product(ss[j]) \in Nat \ {0} /\ Word(ss[j], 0) = Zeros(ss[j])
    BY <1>2, SubRangesTyped, NothingLeft, FirstWord
  <2> HIDE DEF k, o, ss
  <2>8. 1 \in 1 .. Len(ss)
    BY <2>1
  <2>9. x + 1 = Product(r)
    BY <2>2, <2>3
  <2>10. DigitsAfter(i) = DigitsAt(ss, 1, 0)
    <3>1. Turned(Word(r, x), r) = Zeros(ss[k]) /\ k \in DOMAIN ss
      BY <2>1, <2>4, <2>9
    <3>2. 1 \in DOMAIN ss /\ Word(ss[1], 0) = Zeros(ss[1])
      BY <2>1, <2>7, <2>8
    <3>3. [DigitsAt(ss, k, x) EXCEPT ![k] = Zeros(ss[k])] = DigitsAt(ss, 1, 0)
      BY <3>1, <3>2, DigitsRollOver
    <3> QED BY <2>6, <3>1, <3>3
  <2>11. 0 < Product(ss[1]) /\ 0 = o[1 - 1] + 0
    BY <2>3, <2>7, <2>8
  <2> QED BY <2>5, <2>8, <2>10, <2>11 DEF ss, o
<1> QED BY <1>1, <1>2 DEF Position

-----------------------------------------------------------------------------
\* The ranges are at the digits of m.
StandAt(m) ==
  \A i \in Ranges : Position(i, current[i], index[i], digits[i], Word(Radices, m)[i])

\* There next() reads off the m-th candidate ...
LEMMA CandidateIsExpected ==
  ASSUME Accepted, NEW m \in Nat, StandAt(m)
  PROVE  Candidate = Expected(m)
<1>1. ASSUME NEW i \in Ranges
      PROVE  Text(i) = Texts(Target(i))[Word(Radices, m)[Target(i)] + 1]
  <2> DEFINE j == Target(i)
             n == Word(Radices, m)[j]
  <2>1. j \in Ranges /\ ~IsA(j, "continuation")
    BY TargetIs
  <2>2. n \in Nat /\ n < Radices[j]
    BY <2>1, PlacesTyped
  <2>3. Position(j, current[j], index[j], digits[j], n)
    BY <2>1 DEF StandAt
  <2>4. Text(i) = IF IsA(j, "explicit") THEN <<current[j]>> ELSE Shown(digits[j][index[j]])
    BY DEF Text
  <2> HIDE DEF j, n
  <2>5. (IF IsA(j, "explicit") THEN <<current[j]>> ELSE Shown(digits[j][index[j]]))
        = Texts(j)[n + 1]
    BY <2>1, <2>2, <2>3, RangeText
  <2> QED BY <2>4, <2>5 DEF j, n
<1>2. [i \in Ranges |-> Text(i)]
      = [i \in Ranges |-> Texts(Target(i))[Word(Radices, m)[Target(i)] + 1]]
  BY <1>1
<1> QED BY <1>2, Zenon DEF Candidate, Expected

\* ... and the last range that does not carry is the last digit of m to move.
LEMMA PivotIsLastToMove ==
  ASSUME Accepted, NEW m \in Nat, StandAt(m)
  PROVE  /\ Pivot = LastToMove(Radices, m)
         /\ \A i \in Ranges : Carries(i) <=> Word(Radices, m)[i] + 1 = Radices[i]
<1>1. ASSUME NEW i \in Ranges PROVE Carries(i) <=> Word(Radices, m)[i] + 1 = Radices[i]
  <2>1. Word(Radices, m)[i] \in Nat /\ Word(Radices, m)[i] < Radices[i]
    BY PlacesTyped
  <2>2. Position(i, current[i], index[i], digits[i], Word(Radices, m)[i])
    BY DEF StandAt
  <2> QED BY <2>1, <2>2, RangeCarries
<1>2. Ranges = 1 .. Len(Radices)
  BY RadicesTyped, TokenTypes
<1>3. {i \in Ranges : ~Carries(i)}
      = {p \in 1 .. Len(Radices) : Word(Radices, m)[p] + 1 # Radices[p]}
  BY <1>1, <1>2
<1>4. Pivot = LastToMove(Radices, m)
  BY <1>3 DEF Pivot, LastToMove
<1> QED BY <1>1, <1>4

\* increment_ranges puts the ranges at the digits of m + 1, and says when there is none.
LEMMA IncrementCounts ==
  ASSUME Accepted, NEW m \in Nat, m < Count, StandAt(m)
  PROVE  /\ Pivot = 0 <=> m + 1 = Count
         /\ Pivot # 0 => \A i \in Ranges :
              IF i < Pivot
              THEN Position(i, current[i], index[i], digits[i], Word(Radices, m + 1)[i])
              ELSE Position(i, CurrentAfter(i, i > Pivot), IndexAfter(i, i > Pivot),
                            DigitsAfter(i), Word(Radices, m + 1)[i])
<1> DEFINE w == Word(Radices, m)
           w1 == Word(Radices, m + 1)
<1>1. /\ Radices \in Radixes /\ Len(Radices) \in Nat /\ Ranges = 1 .. Len(Radices)
  BY RadicesTyped, TokenTypes
<1>2. /\ Pivot \in 0 .. Len(Radices)
      /\ Pivot = 0 <=> m + 1 = Count
      /\ \A p \in (Pivot + 1) .. Len(Radices) : w[p] + 1 = Radices[p]
      /\ Pivot # 0 => /\ w[Pivot] + 1 # Radices[Pivot]
                      /\ \A p \in 1 .. Len(Radices) :
                           w1[p] = IF p < Pivot THEN w[p] ELSE IF p = Pivot THEN w[p] + 1 ELSE 0
  <2>1. m < Product(Radices)
    BY DEF Count
  <2>2. Pivot = LastToMove(Radices, m)
    BY PivotIsLastToMove
  <2> QED BY <1>1, <2>1, <2>2, NextWord DEF Count
<1> SUFFICES ASSUME Pivot # 0, NEW i \in Ranges
             PROVE  IF i < Pivot
                    THEN Position(i, current[i], index[i], digits[i], w1[i])
                    ELSE Position(i, CurrentAfter(i, i > Pivot), IndexAfter(i, i > Pivot),
                                  DigitsAfter(i), w1[i])
  BY <1>2
<1>3. w[i] \in Nat /\ w[i] < Radices[i] /\ Position(i, current[i], index[i], digits[i], w[i])
  BY PlacesTyped DEF StandAt
<1> HIDE DEF w, w1
<1>4. CASE i < Pivot
  <2>1. w1[i] = w[i]
    BY <1>1, <1>2, <1>4
  <2> QED BY <1>3, <1>4, <2>1
<1>5. CASE i = Pivot
  <2>1. w1[i] = w[i] + 1 /\ w[i] + 1 # Radices[i] /\ ~(i < Pivot) /\ ~(i > Pivot)
    BY <1>1, <1>2, <1>5
  <2>2. Position(i, CurrentAfter(i, FALSE), IndexAfter(i, FALSE), DigitsAfter(i), w[i] + 1)
    BY <1>3, <2>1, RangeMoves
  <2>3. (i > Pivot) = FALSE
    BY <2>1
  <2> QED BY <2>1, <2>2, <2>3
<1>6. CASE i > Pivot
  <2>1. w1[i] = 0 /\ w[i] + 1 = Radices[i] /\ ~(i < Pivot)
    BY <1>1, <1>2, <1>6
  <2>2. Position(i, CurrentAfter(i, TRUE), IndexAfter(i, TRUE), DigitsAfter(i), 0)
    BY <1>3, <2>1, RangeRollsOver
  <2>3. (i > Pivot) = TRUE
    BY <1>6
  <2> QED BY <2>1, <2>2, <2>3
<1> QED BY <1>1, <1>2, <1>4, <1>5, <1>6

-----------------------------------------------------------------------------
\* What holds of every reachable state: the candidates emitted are the first of the
\* product, and the ranges stand at the digits of their number.
Counted ==
  \E m \in 0 .. Count :
    /\ emitted = [n \in 1 .. m |-> Expected(n - 1)]
    /\ is_complete <=> m = Count
    /\ ~is_complete => StandAt(m)

Inv ==
  /\ template \in Templates /\ lead_zero \in BOOLEAN /\ telescoping \in BOOLEAN
  /\ status = "ready" => ~Rejected
  /\ status # "ready" => emitted = <<>> /\ ~is_complete
  /\ ~Rejected => Counted

\* The arguments never change, and what is built from them alone does not either.
LEMMA SameRanges ==
  ASSUME UNCHANGED arguments
  PROVE  /\ Ranges' = Ranges /\ Radices' = Radices /\ Count' = Count
         /\ Rejected' <=> Rejected
         /\ \A n : Expected(n)' = Expected(n)
         /\ \A i : SubRanges(i)' = SubRanges(i) /\ WordLists(i)' = WordLists(i)
<1> USE DEF arguments
<1>1. Ranges' = Ranges
  BY DEF Ranges
<1>2. Radices' = Radices
  BY DEF SubRanges, SizesOf, Words, Shown, Texts, IsA, Radices, Ranges
<1>3. ASSUME NEW n PROVE Expected(n)' = Expected(n)
  BY DEF SubRanges, SizesOf, Words, Shown, Texts, IsA, Radices, Ranges, Expected, Target,
         Spelling, Spelt
<1>4. Rejected' <=> Rejected
  BY DEF IsA, Rejected, Ranges
<1>5. ASSUME NEW i PROVE SubRanges(i)' = SubRanges(i) /\ WordLists(i)' = WordLists(i)
  BY DEF SubRanges, SizesOf, WordLists, Words, Shown
<1> QED BY <1>1, <1>2, <1>3, <1>4, <1>5 DEF Count

\* The invariant holds at first: no candidate yet, and every range at its first text.
LEMMA InitCounts == Init => Inv
<1> SUFFICES ASSUME Init, ~Rejected PROVE Counted
  BY DEF Init, Inv
<1>1. Accepted
  BY DEF Init, Accepted
<1>2. Count \in Nat \ {0} /\ Radices \in Radixes /\ Ranges = 1 .. Len(Radices)
  BY <1>1, RadicesTyped, TokenTypes
<1>3. emitted = [n \in 1 .. 0 |-> Expected(n - 1)]
  <2>1. 1 .. 0 = {}
    OBVIOUS
  <2>2. emitted = <<>>
    BY DEF Init
  <2> QED BY <2>1, <2>2
<1>4. Word(Radices, 0) = Zeros(Radices)
  BY <1>2, FirstWord
<1>5. ASSUME NEW i \in Ranges PROVE Position(i, current[i], index[i], digits[i], 0)
  <2>1. ASSUME IsA(i, "explicit") PROVE current[i] = template[i].first + 0
    <3>1. current[i] = template[i].first
      BY DEF Init
    <3>2. template[i].first \in Int
      BY <1>1, TokenTypes
    <3>3. template[i].first + 0 = template[i].first
      BY <3>2
    <3> QED BY <3>1, <3>3, Zenon
  <2>2. ASSUME IsA(i, "implicit")
        PROVE  /\ index[i] \in 1 .. Len(SubRanges(i))
               /\ 0 < Product(SubRanges(i)[index[i]])
               /\ 0 = Offsets(WordLists(i))[index[i] - 1] + 0
               /\ digits[i] = DigitsAt(SubRanges(i), index[i], 0)
    <3>1. index[i] = 1 /\ digits[i] = [k \in DOMAIN SubRanges(i) |-> Zeros(SubRanges(i)[k])]
      BY DEF Init
    <3>2. /\ Len(SubRanges(i)) \in Nat \ {0} /\ SubRanges(i)[1] \in Radixes
          /\ 1 \in 1 .. Len(SubRanges(i))
      BY <1>1, <2>2, SubRangesTyped
    <3>3. Word(SubRanges(i)[1], 0) = Zeros(SubRanges(i)[1])
      BY <3>2, FirstWord
    <3>4. digits[i] = DigitsAt(SubRanges(i), 1, 0)
      BY <3>1, <3>3 DEF DigitsAt
    <3>5. Offsets(WordLists(i))[0] = 0 /\ Product(SubRanges(i)[1]) \in Nat \ {0}
      BY <1>1, <2>2, <3>2, Boundaries
    <3> QED BY <3>1, <3>2, <3>4, <3>5
  <2> QED BY <2>1, <2>2 DEF Position
<1>6. StandAt(0)
  BY <1>2, <1>4, <1>5 DEF StandAt, Zeros
<1>7. ~is_complete
  BY DEF Init
<1> QED BY <1>2, <1>3, <1>6, <1>7 DEF Counted

\* The constructor moves no range.
LEMMA ConstructCounts == Inv /\ Construct => Inv'
<1> SUFFICES ASSUME Inv, Construct PROVE Inv'
  OBVIOUS
<1>1. UNCHANGED <<arguments, current, index, digits, is_complete, emitted>>
  BY DEF Construct
<1>2. /\ Ranges' = Ranges /\ Radices' = Radices /\ Count' = Count
      /\ Rejected' <=> Rejected
      /\ \A n : Expected(n)' = Expected(n)
      /\ \A i : SubRanges(i)' = SubRanges(i) /\ WordLists(i)' = WordLists(i)
  BY <1>1, SameRanges
<1>3. ASSUME NEW m \in Nat, StandAt(m) PROVE StandAt(m)'
  <2> SUFFICES ASSUME NEW i \in Ranges
               PROVE  Position(i, current[i], index[i], digits[i], Word(Radices, m)[i])'
    BY <1>2 DEF StandAt
  <2>1. Position(i, current[i], index[i], digits[i], Word(Radices, m)[i])
    BY <1>3 DEF StandAt
  <2> QED BY <1>1, <1>2, <2>1 DEF Position, IsA, arguments
<1> QED BY <1>1, <1>2, <1>3 DEF Inv, Counted, Construct, arguments

\* The sequence of the first m candidates.
LEMMA FirstCandidates ==
  ASSUME NEW m \in Nat, NEW s, s = [n \in 1 .. m |-> Expected(n - 1)]
  PROVE  /\ Len(s) = m /\ DOMAIN s = 1 .. m
         /\ Append(s, Expected(m)) = [n \in 1 .. m + 1 |-> Expected(n - 1)]
<1> DEFINE T == {Expected(n) : n \in Nat}
           t == [n \in 1 .. m + 1 |-> Expected(n - 1)]
<1>1. \A n \in Nat : Expected(n) \in T
  OBVIOUS
<1>2. /\ \A n \in 1 .. m : n - 1 \in Nat
      /\ \A n \in 1 .. m + 1 : n - 1 \in Nat
      /\ m + 1 \in Nat
  OBVIOUS
<1> HIDE DEF T
<1>3. s \in [1 .. m -> T] /\ t \in [1 .. m + 1 -> T]
  BY <1>1, <1>2
<1>4. \A n \in 1 .. m + 1 : t[n] = Expected(n - 1)
  OBVIOUS
<1> HIDE DEF t
<1>5. s \in Seq(T) /\ t \in Seq(T)
  BY <1>2, <1>3, SeqDef
<1>6. Len(s) = m /\ Len(t) = m + 1
  BY <1>2, <1>3, <1>5, LenProperties
<1>7. /\ Append(s, Expected(m)) \in Seq(T)
      /\ Len(Append(s, Expected(m))) = m + 1
      /\ \A n \in 1 .. m : Append(s, Expected(m))[n] = s[n]
      /\ Append(s, Expected(m))[m + 1] = Expected(m)
  BY <1>1, <1>5, <1>6, AppendProperties
<1>8. ASSUME NEW n \in 1 .. m + 1 PROVE Append(s, Expected(m))[n] = t[n]
  <2>1. CASE n = m + 1
    BY <1>4, <1>7, <2>1
  <2>2. CASE n # m + 1
    <3>1. n \in 1 .. m
      BY <2>2
    <3> QED BY <1>4, <1>7, <3>1
  <2> QED BY <2>1, <2>2
<1>9. Append(s, Expected(m)) = t
  BY <1>5, <1>6, <1>7, <1>8, SeqEqual
<1> QED BY <1>3, <1>6, <1>9 DEF t

\* next() emits one more candidate and counts one on.
LEMMA NextCounts == Inv /\ next => Inv'
<1> SUFFICES ASSUME Inv, next PROVE Inv'
  OBVIOUS
<1>1. /\ status = "ready" /\ ~is_complete /\ UNCHANGED arguments /\ status' = status
      /\ emitted' = Append(emitted, Candidate)
  BY DEF next
<1>2. /\ current' = [i \in Ranges |-> IF i < Pivot THEN current[i] ELSE CurrentAfter(i, i > Pivot)]
      /\ index' = [i \in Ranges |-> IF i < Pivot THEN index[i] ELSE IndexAfter(i, i > Pivot)]
      /\ digits' = [i \in Ranges |-> IF i < Pivot THEN digits[i] ELSE DigitsAfter(i)]
      /\ is_complete' = (Pivot = 0)
  BY DEF next, increment_ranges
<1>3. Accepted /\ Counted
  BY <1>1 DEF Inv, Accepted
<1>4. PICK m \in 0 .. Count : /\ emitted = [n \in 1 .. m |-> Expected(n - 1)]
                              /\ is_complete <=> m = Count
                              /\ ~is_complete => StandAt(m)
  BY <1>3 DEF Counted
<1>5. m \in Nat /\ m < Count /\ m + 1 \in 0 .. Count /\ StandAt(m)
  BY <1>1, <1>3, <1>4, RadicesTyped
<1>6. /\ Ranges' = Ranges /\ Radices' = Radices /\ Count' = Count
      /\ Rejected' <=> Rejected
      /\ \A n : Expected(n)' = Expected(n)
      /\ \A i : SubRanges(i)' = SubRanges(i) /\ WordLists(i)' = WordLists(i)
  BY <1>1, SameRanges
<1>7. emitted' = [n \in 1 .. m + 1 |-> Expected(n - 1)']
  <2>1. Candidate = Expected(m)
    BY <1>3, <1>5, CandidateIsExpected
  <2>2. Append(emitted, Expected(m)) = [n \in 1 .. m + 1 |-> Expected(n - 1)]
    BY <1>4, <1>5, FirstCandidates
  <2> QED BY <1>1, <1>6, <2>1, <2>2
<1>8. /\ Pivot = 0 <=> m + 1 = Count
      /\ Pivot # 0 => \A i \in Ranges :
           IF i < Pivot
           THEN Position(i, current[i], index[i], digits[i], Word(Radices, m + 1)[i])
           ELSE Position(i, CurrentAfter(i, i > Pivot), IndexAfter(i, i > Pivot),
                         DigitsAfter(i), Word(Radices, m + 1)[i])
  BY <1>3, <1>5, IncrementCounts
<1>9. is_complete' <=> m + 1 = Count'
  BY <1>2, <1>6, <1>8
<1>10. ASSUME ~is_complete' PROVE StandAt(m + 1)'
  <2> SUFFICES ASSUME NEW i \in Ranges
               PROVE  Position(i, current[i], index[i], digits[i], Word(Radices, m + 1)[i])'
    BY <1>6 DEF StandAt
  <2>1. Pivot # 0
    BY <1>2, <1>10
  <2>2. Position(i, current'[i], index'[i], digits'[i], Word(Radices, m + 1)[i])
    <3>1. CASE i < Pivot
      <4>1. current'[i] = current[i] /\ index'[i] = index[i] /\ digits'[i] = digits[i]
        BY <1>2, <3>1
      <4> QED BY <1>8, <2>1, <3>1, <4>1
    <3>2. CASE ~(i < Pivot)
      <4>1. /\ current'[i] = CurrentAfter(i, i > Pivot)
            /\ index'[i] = IndexAfter(i, i > Pivot)
            /\ digits'[i] = DigitsAfter(i)
        BY <1>2, <3>2
      <4> QED BY <1>8, <2>1, <3>2, <4>1
    <3> QED BY <3>1, <3>2
  <2> QED BY <1>1, <1>6, <2>2 DEF Position, IsA, arguments
<1>11. Counted'
  BY <1>5, <1>6, <1>7, <1>9, <1>10 DEF Counted
<1> QED BY <1>1, <1>6, <1>11 DEF Inv, arguments

\* Nothing else changes anything.
LEMMA StutterCounts == Inv /\ UNCHANGED vars => Inv'
<1> SUFFICES ASSUME Inv, UNCHANGED vars PROVE Inv'
  OBVIOUS
<1>1. UNCHANGED <<arguments, status, current, index, digits, is_complete, emitted>>
  BY DEF vars
<1>2. /\ Ranges' = Ranges /\ Radices' = Radices /\ Count' = Count
      /\ Rejected' <=> Rejected
      /\ \A n : Expected(n)' = Expected(n)
      /\ \A i : SubRanges(i)' = SubRanges(i) /\ WordLists(i)' = WordLists(i)
  BY <1>1, SameRanges
<1>3. ASSUME NEW m \in Nat, StandAt(m) PROVE StandAt(m)'
  BY <1>1, <1>2, <1>3 DEF StandAt, Position, IsA, arguments
<1> QED BY <1>1, <1>2, <1>3 DEF Inv, Counted, arguments

\* So it holds of every behaviour.
LEMMA Counting == Spec => []Inv
<1>1. Inv /\ [Next]_vars => Inv'
  BY ConstructCounts, NextCounts, StutterCounts DEF Next
<1> QED BY InitCounts, <1>1, PTL DEF Spec

-----------------------------------------------------------------------------
\* What the invariant says of what has been emitted.
LEMMA EmittedIs ==
  ASSUME Inv, status = "ready"
  PROVE  /\ Accepted /\ Len(emitted) \in 0 .. Count
         /\ emitted = [n \in 1 .. Len(emitted) |-> Expected(n - 1)]
         /\ is_complete <=> Len(emitted) = Count
<1>1. Accepted /\ Counted
  BY DEF Inv, Accepted
<1>2. PICK m \in 0 .. Count : /\ emitted = [n \in 1 .. m |-> Expected(n - 1)]
                              /\ is_complete <=> m = Count
  BY <1>1 DEF Counted
<1>3. m \in Nat
  OBVIOUS
<1>4. Len(emitted) = m
  BY <1>2, <1>3, FirstCandidates
<1> QED BY <1>1, <1>2, <1>4

\* For every template: the generator emits the Cartesian product of its ranges in
\* order, each candidate once reached being the one that counting names, and is
\* complete exactly after the last (UriGenerator::next, increment_ranges).
THEOREM OdometerEmitsTheProduct == Spec => []EmitsTheProduct
<1>1. Inv => EmitsTheProduct
  <2> SUFFICES ASSUME Inv, status = "ready"
               PROVE  /\ Len(emitted) <= Count
                      /\ emitted # <<>> => Last(emitted) = Expected(Len(emitted) - 1)
                      /\ is_complete <=> Len(emitted) = Count
    BY DEF EmitsTheProduct
  <2>1. /\ Accepted /\ Len(emitted) \in 0 .. Count
        /\ emitted = [n \in 1 .. Len(emitted) |-> Expected(n - 1)]
        /\ is_complete <=> Len(emitted) = Count
    BY EmittedIs
  <2>2. Count \in Nat
    BY <2>1, RadicesTyped
  <2>3. ASSUME emitted # <<>> PROVE Last(emitted) = Expected(Len(emitted) - 1)
    <3>1. Len(emitted) # 0
      <4>1. ASSUME Len(emitted) = 0 PROVE FALSE
        <5>1. 1 .. 0 = {}
          OBVIOUS
        <5>2. emitted = [n \in 1 .. 0 |-> Expected(n - 1)]
          BY <2>1, <4>1
        <5> QED BY <2>3, <5>1, <5>2
      <4> QED BY <4>1
    <3>2. Len(emitted) \in 1 .. Len(emitted)
      BY <2>1, <3>1
    <3>3. emitted[Len(emitted)] = Expected(Len(emitted) - 1)
      BY <2>1, <3>2
    <3> QED BY <3>3 DEF Last
  <2>4. Len(emitted) <= Count
    <3>1. Len(emitted) \in 0 .. Count
      BY <2>1, Zenon
    <3> QED BY <2>2, <3>1
  <2> QED BY <2>1, <2>3, <2>4, Zenon
<1> QED BY <1>1, Counting, PTL

\* For every template: the cardinality get_range_size computes is the number of
\* candidates a run to the end emits, and it is refused exactly when that number
\* exceeds a size_t.
THEOREM PrintedCardinality == Spec => []CardinalityIsCount
<1>1. Inv => CardinalityIsCount
  <2> SUFFICES ASSUME Inv, is_complete
               PROVE  get_range_size = IF Len(emitted) > SizeMax THEN Overflow ELSE Len(emitted)
    BY DEF CardinalityIsCount
  <2>1. status = "ready"
    BY DEF Inv
  <2>2. Accepted /\ Len(emitted) = Count
    BY <2>1, EmittedIs
  <2>3. get_range_size = Checked(Count)
    BY <2>2, RangeSizeIsCount
  <2> QED BY <2>2, <2>3 DEF Checked
<1> QED BY <1>1, Counting, PTL

\* For every template with at most one range of variable width: with --leadzero
\* next() never returns the same string twice, whatever its literals are and however
\* its ranges stand beside one another.
THEOREM NoneTwiceWithLeadZero == Spec => []OnceWithLeadZero
<1>1. Inv => OnceWithLeadZero
  <2> SUFFICES ASSUME Inv, lead_zero, Cardinality(VariableWidth) <= 1,
                      NEW a \in DOMAIN emitted, NEW b \in DOMAIN emitted,
                      emitted[a] = emitted[b]
               PROVE  a = b
    BY DEF OnceWithLeadZero, IsInjective
  <2>1. status = "ready"
    <3>1. ASSUME emitted = <<>> PROVE FALSE
      BY <3>1
    <3> QED BY <3>1 DEF Inv
  <2>2. /\ Accepted /\ Len(emitted) \in 0 .. Count
        /\ emitted = [n \in 1 .. Len(emitted) |-> Expected(n - 1)]
    BY <2>1, EmittedIs
  <2>3. Count \in Nat
    BY <2>2, RadicesTyped
  <2>4. a \in 1 .. Len(emitted) /\ b \in 1 .. Len(emitted)
    BY <2>2
  <2>5. emitted[a] = Expected(a - 1) /\ emitted[b] = Expected(b - 1)
    BY <2>2, <2>4
  <2>6. /\ a - 1 \in Nat /\ a - 1 < Count /\ a \in Int
        /\ b - 1 \in Nat /\ b - 1 < Count /\ b \in Int
    BY <2>2, <2>3, <2>4
  <2>7. a - 1 = b - 1
    BY <2>2, <2>5, <2>6, CandidatesDiffer
  <2> QED BY <2>6, <2>7
<1> QED BY <1>1, Counting, PTL

=============================================================================
