-------------------------- MODULE ControllerProofs --------------------------
(***************************************************************************)
(* Theorems about AdaptiveController, for every window, every interval and *)
(* every velocity, infinite ones included.                                 *)
(***************************************************************************)
EXTENDS AdaptiveController, SequenceTheorems, Foundations

\* Whatever the regression says, the answer is one of three.
LEMMA OneStep ==
  ASSUME NEW cs, NEW vs
  PROVE  \/ Fitted(cs, vs) = recommended
         \/ recommended < MaxRec /\ Fitted(cs, vs) = recommended + 1
         \/ recommended > MinRec /\ Fitted(cs, vs) = recommended - 1
  BY DEF Fitted, Increased

\* The controller implements what the scraper relies on.
THEOREM ControllerImplementsRecommendation == Spec => ImplementsRecommendation
<1>1. Init => R!Init
  BY DEF Init, R!Init
<1>2. [Next]_vars => [R!Raise \/ R!Lower]_recommended
  <2>1. CASE Count \/ UNCHANGED vars
    BY <2>1 DEF Count, vars
  <2>2. ASSUME NEW current \in 1 .. Cap, NEW velocity \in Velocities,
               Sample(current, velocity)
        PROVE  [R!Raise \/ R!Lower]_recommended
    <3>1. recommended' = Fitted(coroutines', velocities')
      BY <2>2 DEF Sample
    <3> QED
      BY <3>1, OneStep DEF R!Raise, R!Lower
  <2> QED
    BY <2>1, <2>2 DEF Next
<1> QED
  BY <1>1, <1>2, PTL DEF Spec, ImplementsRecommendation, R!Spec

\* If --init is within --min and --max, so is every later recommendation.
THEOREM StaysWithinMinMax == InitRec \in MinRec .. MaxRec => (Spec => []WithinMinMax)
<1> SUFFICES ASSUME InitRec \in MinRec .. MaxRec PROVE Spec => []WithinMinMax
  OBVIOUS
<1> DEFINE Inv == recommended \in MinRec .. MaxRec
<1>1. Init => Inv
  BY DEF Init
<1>2. Inv /\ [Next]_vars => Inv'
  <2> SUFFICES ASSUME Inv, [Next]_vars PROVE Inv'
    OBVIOUS
  <2>1. CASE Count \/ UNCHANGED vars
    BY <2>1 DEF Count, vars
  <2>2. ASSUME NEW current \in 1 .. Cap, NEW velocity \in Velocities,
               Sample(current, velocity)
        PROVE  Inv'
    <3>1. recommended' = Fitted(coroutines', velocities')
      BY <2>2 DEF Sample
    <3> QED
      BY <3>1, OneStep, ControllerAssumption
  <2> QED
    BY <2>1, <2>2 DEF Next
<1>3. Inv => WithinMinMax
  BY ControllerAssumption DEF WithinMinMax
<1> QED
  BY <1>1, <1>2, <1>3, PTL DEF Spec

-----------------------------------------------------------------------------
\* The regression works on two windows of the same length.
Windows == /\ coroutines \in Seq(Int) /\ velocities \in Seq(Int)
           /\ Len(coroutines) = Len(velocities)
           /\ completed \in Nat

\* A sum of products of integers is an integer.
LEMMA SumOfSquaresType ==
  ASSUME NEW xs \in Seq(Int), NEW ys \in Seq(Int), Len(xs) = Len(ys)
  PROVE  SumOfSquares(xs, ys) \in Int
<1>1. Products(xs, ys) \in Seq(Int)
  <2>1. \A i \in 1 .. Len(xs) : xs[i] * ys[i] \in Int
    OBVIOUS
  <2>2. Products(xs, ys) \in [1 .. Len(xs) -> Int] /\ Len(xs) \in Nat
    BY <2>1 DEF Products
  <2> QED BY <2>2, SeqDef
<1>2. Total(xs) \in Int /\ Total(ys) \in Int /\ Total(Products(xs, ys)) \in Int
  BY Zenon, <1>1, SumType DEF Total
<1> HIDE DEF Total
<1>3. Len(xs) \in Int
  OBVIOUS
<1> QED BY <1>2, <1>3 DEF SumOfSquares

\* The branch that lowers the recommendation is dead: what falls is too flat.
LEMMA FallingIsTooFlat ==
  ASSUME NEW cs \in Seq(Int), NEW vs \in Seq(Int), Len(cs) = Len(vs)
  PROVE  /\ Falling(cs, vs) => TooFlat(cs, vs)
         /\ Infinite \notin ToSet(vs) => TooFlat(cs, vs) \/ Rising(cs, vs)
  BY SumOfSquaresType DEF Falling, TooFlat, Rising

\* The windows of samples stay windows.
LEMMA StepWindows == Windows /\ [Next]_vars => Windows'
<1> SUFFICES ASSUME Windows, [Next]_vars PROVE Windows'
  OBVIOUS
<1>1. CASE Count \/ UNCHANGED vars
  BY <1>1 DEF Count, vars, Windows
<1>2. ASSUME NEW current \in 1 .. Cap, NEW velocity \in Velocities,
             Sample(current, velocity)
      PROVE  Windows'
  <2>1. current \in Int /\ velocity \in Int
    BY ControllerAssumption DEF Infinite
  <2>2. /\ Pushed(coroutines, current) \in Seq(Int) /\ Pushed(velocities, velocity) \in Seq(Int)
        /\ Len(Pushed(coroutines, current)) = Len(Pushed(velocities, velocity))
    BY <2>1, ControllerAssumption DEF Windows, Pushed
  <2> QED
    BY <1>2, <2>2 DEF Sample, Windows
<1> QED
  BY <1>1, <1>2 DEF Next

\* Every sample is an increase, up to --max, unless an infinite velocity is in
\* the window: with a rising, a flat and a falling trend alike.
EverySampleClimbs ==
  [][completed + 1 >= Interval /\ Infinite \notin ToSet(velocities')
       => recommended' = IF recommended < MaxRec THEN recommended + 1 ELSE recommended]_vars

\* How far FallingTrendLowers is from holding: for every window, interval and set
\* of velocities, `recommended--' is out of reach, and a sample raises the
\* recommendation whatever the trend - unless one in the window took no time.
THEOREM SamplesOnlyRaise == Spec => EverySampleClimbs
<1>1. Init => Windows
  BY DEF Init, Windows
<1>2. Windows /\ Windows' /\ [Next]_vars =>
        [completed + 1 >= Interval /\ Infinite \notin ToSet(velocities')
           => recommended' = IF recommended < MaxRec THEN recommended + 1 ELSE recommended]_vars
  <2> SUFFICES ASSUME Windows, Windows', Next, completed + 1 >= Interval,
                      Infinite \notin ToSet(velocities')
               PROVE  recommended' = Increased
    BY DEF Increased
  <2>1. ~Count
    BY ControllerAssumption DEF Windows, Count
  <2>2. recommended' = Fitted(coroutines', velocities')
    BY <2>1 DEF Next, Sample
  <2>3. \/ TooFlat(coroutines', velocities')
        \/ ~Falling(coroutines', velocities') /\ Rising(coroutines', velocities')
    BY FallingIsTooFlat DEF Windows
  <2>4. Fitted(coroutines', velocities')
        = IF Len(velocities') < 2 \/ TooFlat(coroutines', velocities') THEN Increased
          ELSE IF recommended < MaxRec THEN recommended + 1 ELSE recommended
    BY <2>3 DEF Fitted
  <2> QED
    BY <2>2, <2>4 DEF Increased
<1> QED
  BY <1>1, <1>2, StepWindows, PTL DEF Spec, EverySampleClimbs
=============================================================================
