------------------------- MODULE AdaptiveController -------------------------
(***************************************************************************)
(* The adaptive controller of src/src/abrade/controller.cpp: a window of   *)
(* (concurrency, velocity) samples and the recommendation it moves.        *)
(*                                                                         *)
(* Velocities are integers in a unit small enough for the code's 0.0001    *)
(* thresholds to separate zero from the rest; sums of squares are scaled   *)
(* by the window's length, which keeps them integers and keeps their sign. *)
(* Infinite stands for the velocity of a sample that took no time on the   *)
(* clock: any sum it enters is infinite and its own deviation is a NaN.    *)
(***************************************************************************)
EXTENDS Integers, Sequences, SequencesExt

CONSTANTS
  InitRec, MinRec, MaxRec, \* --init, --min, --max
  SampleSize,              \* --ssize: samples in the window
  Interval,                \* --sint: completions per sample
  Velocities               \* the velocities a sample can show

Infinite == -1

ASSUME ControllerAssumption ==
  /\ InitRec \in Nat \ {0} /\ MinRec \in Nat \ {0} /\ MaxRec \in Nat \ {0}
  /\ SampleSize \in Nat \ {0} /\ Interval \in Nat \ {0}
  /\ Velocities \subseteq Nat \cup {Infinite}

\* The pool's bound, hence the largest current_coroutines.
Cap == IF InitRec > MaxRec THEN InitRec ELSE MaxRec

VARIABLES
  coroutines, \* the concurrency of the last samples, oldest first
  velocities, \* their velocities
  completed,  \* completions since the last sample
  recommended

vars == <<coroutines, velocities, completed, recommended>>

\* boost::circular_buffer::push_back
Pushed(window, x) ==
  Append(IF Len(window) = SampleSize THEN Tail(window) ELSE window, x)

Total(window) == FoldSeq(LAMBDA x, y : x + y, 0, window)
Products(xs, ys) == [i \in DOMAIN xs |-> xs[i] * ys[i]]

\* Len(xs) times the sum of the products of the deviations from the means.
SumOfSquares(xs, ys) == Len(xs) * Total(Products(xs, ys)) - Total(xs) * Total(ys)

Init ==
  /\ coroutines = <<>> /\ velocities = <<>>
  /\ completed = 0
  /\ recommended = InitRec

\* increase_recommendation
IncreasedUnbounded == recommended + 1                               \* mutant
Increased == IF recommended < MaxRec THEN recommended + 1 ELSE recommended

\* "Insufficient variation": of the concurrency, or of the two together.  The
\* second test is not one of magnitude, it also takes every negative covariance;
\* a NaN passes both.
TooFlat(cs, vs) ==
  \/ SumOfSquares(cs, cs) <= 0
  \/ Infinite \notin ToSet(vs) /\ SumOfSquares(cs, vs) <= 0

\* beta = ss_coros / ss_covar is compared with zero; compared with a NaN,
\* both comparisons are false.
Rising(cs, vs)  == Infinite \notin ToSet(vs) /\ SumOfSquares(cs, vs) > 0
Falling(cs, vs) == Infinite \notin ToSet(vs) /\ SumOfSquares(cs, vs) < 0

\* The recommendation after a sample has been pushed into the windows.
Fitted(cs, vs) ==
  IF Len(vs) < 2 \/ TooFlat(cs, vs) THEN Increased
  ELSE IF Rising(cs, vs) /\ recommended < MaxRec THEN recommended + 1
  ELSE IF Falling(cs, vs) /\ recommended > MinRec THEN recommended - 1
  ELSE recommended

\* register_completion that does not end a sample.
Count ==
  /\ completed + 1 < Interval
  /\ completed' = completed + 1
  /\ UNCHANGED <<coroutines, velocities, recommended>>

\* register_completion that ends one, with the concurrency it is told.
Sample(current, velocity) ==
  /\ completed + 1 >= Interval
  /\ completed' = 0
  /\ coroutines' = Pushed(coroutines, current)
  /\ velocities' = Pushed(velocities, velocity)
  /\ recommended' = Fitted(coroutines', velocities')

Next == Count \/ \E current \in 1 .. Cap, velocity \in Velocities : Sample(current, velocity)

Spec == Init /\ [][Next]_vars

\* Completions keep coming.
FairSpec == Spec /\ WF_vars(Next)

-----------------------------------------------------------------------------
\* The controller does what the scraper relies on, whatever the samples are.
R == INSTANCE Recommendation
ImplementsRecommendation == R!Spec

\* --min and --max bound the recommendation, once it is between them.
WithinMinMax == MinRec <= recommended /\ recommended <= MaxRec

\* However far --init lies outside of them, the recommendation ends up there: it
\* is adjusted "between --min and --max".  (It is not: an --init above --max is
\* never corrected.)
ComesWithinMinMax == <>WithinMinMax

\* The recommendation follows the trend: if more coroutines have come with a
\* lower velocity, it goes down, and not below --min.  (It does not: what falls
\* is taken for too flat first.)
FallingTrendLowers ==
  [][completed + 1 >= Interval /\ Falling(coroutines', velocities') /\ recommended > MinRec
       => recommended' = recommended - 1]_vars
=============================================================================
