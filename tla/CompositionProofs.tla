-------------------------- MODULE CompositionProofs --------------------------
(***************************************************************************)
(* Theorems about the pool together with what it is used with, for every   *)
(* pool.  With the adaptive controller, for every window and velocity:     *)
(* each behaves as its own module says, and the pool never shrinks,        *)
(* against what is documented.  With --contents, for every set of targets  *)
(* and every body: the summary, the log and the disk agree.                *)
(***************************************************************************)
EXTENDS AdaptiveScraper, ScrapeGet, ScraperProofs, SequenceTheorems, Foundations

\* Whatever the regression says, the answer is one of three.
LEMMA OneStep ==
  ASSUME NEW cs, NEW vs
  PROVE  \/ A!Fitted(cs, vs) = recommended
         \/ recommended < MaxRec /\ A!Fitted(cs, vs) = recommended + 1
         \/ recommended > MinRec /\ A!Fitted(cs, vs) = recommended - 1
  BY DEF A!Fitted, A!Increased

\* A completion, counted or sampled, moves the recommendation by at most one.
LEMMA CompletionMoves ==
  ASSUME NEW current, NEW velocity, A!Count \/ A!Sample(current, velocity)
  PROVE  \/ recommended' = recommended
         \/ recommended < MaxRec /\ recommended' = recommended + 1
         \/ recommended > MinRec /\ recommended' = recommended - 1
<1>1. CASE A!Count
  BY <1>1 DEF A!Count
<1>2. CASE A!Sample(current, velocity)
  <2>1. recommended' = A!Fitted(coroutines', velocities')
    BY <1>2 DEF A!Sample
  <2> QED
    BY <2>1, OneStep
<1> QED
  BY <1>1, <1>2

-----------------------------------------------------------------------------
\* What the pool takes for granted of a recommendation.
Possible == recommended \in 1 .. Cap

\* A completion in the composition is one of the pool.
LEMMA CompletionCompletes ==
  ASSUME Possible, NEW c \in Coros, AdaptiveComplete(c)
  PROVE  Possible' /\ Complete(c, recommended')
<1>1. \/ recommended' = recommended
      \/ recommended < MaxRec /\ recommended' = recommended + 1
      \/ recommended > MinRec /\ recommended' = recommended - 1
  BY CompletionMoves DEF AdaptiveComplete
<1>2. recommended' \in 1 .. Cap
  BY <1>1, ConstantsAssumption DEF Possible, Cap
<1>3. Recommends(recommended')
  BY <1>1 DEF Recommends
<1> QED
  BY <1>2, <1>3 DEF AdaptiveComplete, Complete, Possible

\* No other step of the pool changes the recommendation.
LEMMA OthersRecommend ==
  ASSUME Start \/ (\E c \in Coros : pc[c] # "complete" /\ Step(c)) \/ Feed \/ CloseInput
  PROVE  UNCHANGED recommended
<1>1. CASE Start \/ Feed \/ CloseInput
  BY <1>1 DEF Start, Feed, CloseInput, pool
<1>2. ASSUME NEW c \in Coros, pc[c] # "complete", Step(c) PROVE UNCHANGED recommended
  BY <1>2 DEF Step, Take, Exhaust, Attempt, LoseTimer, Connected, Fail, Respond, FailToStore,
     Redirect, Discarded, TornDown, InTime, Record, RecordThrows, Complete, Completed, pool
<1> QED
  BY <1>1, <1>2

\* Every step of the composition is one of the pool.
LEMMA StepOfPool == Possible /\ [AdaptiveNext]_allVars => Possible' /\ [Next]_vars
<1> SUFFICES ASSUME Possible, [AdaptiveNext]_allVars PROVE Possible' /\ [Next]_vars
  OBVIOUS
<1>1. CASE UNCHANGED allVars
  BY <1>1 DEF allVars, vars, pool, Possible
<1>2. ASSUME NEW c \in Coros, AdaptiveComplete(c) PROVE Possible' /\ Next
  <2>1. Possible' /\ Complete(c, recommended')
    BY <1>2, CompletionCompletes
  <2>2. Step(c)
    BY <2>1 DEF Step, Possible
  <2> QED
    BY <2>1, <2>2 DEF Next
<1>3. CASE Start \/ (\E c \in Coros : pc[c] # "complete" /\ Step(c)) \/ Feed \/ CloseInput
  BY <1>3, OthersRecommend DEF Next, Possible
<1> QED
  BY <1>1, <1>2, <1>3 DEF AdaptiveNext

\* With --optimize the pool is a pool as Scraper describes it: every theorem
\* about Scraper holds of it.
THEOREM AdaptivePoolIsAPool == AdaptiveSpec => PoolRefined
<1>1. AdaptiveInit => Init /\ Possible
  BY ConstantsAssumption DEF AdaptiveInit, Init, Possible, Cap
<1> QED
  BY <1>1, StepOfPool, PTL DEF AdaptiveSpec, PoolRefined, Spec

\* In the pool the controller is told a size it expects, and sees nothing that
\* AdaptiveController by itself does not.
THEOREM ControllerIsItself == AdaptiveSpec => ControllerRefined
<1>1. AdaptiveInit => A!Init
  BY DEF AdaptiveInit
<1>2. Shape /\ CounterExact /\ WithinCap /\ [AdaptiveNext]_allVars => [A!Next]_(A!vars)
  <2> SUFFICES ASSUME Types, CounterExact, WithinCap, [AdaptiveNext]_allVars
               PROVE  [A!Next]_(A!vars)
    BY DEF Shape
  <2>1. CASE UNCHANGED allVars
    BY <2>1 DEF allVars, samples, vars, pool, A!vars
  <2>2. ASSUME NEW c \in Coros, AdaptiveComplete(c) PROVE A!Next
    <3>1. c \in LiveCoros
      BY <2>2 DEF AdaptiveComplete, LiveCoros, Live, OnThread
    <3>2. active # 0
      BY <3>1, LiveFinite, FS_EmptySet DEF CounterExact
    <3>3. active \in 1 .. A!Cap
      BY <3>2, LiveFinite, ConstantsAssumption DEF CounterExact, WithinCap, Cap, A!Cap
    <3> QED
      BY <2>2, <3>3 DEF AdaptiveComplete, A!Next
  <2>3. CASE /\ Start \/ (\E c \in Coros : pc[c] # "complete" /\ Step(c)) \/ Feed \/ CloseInput
             /\ UNCHANGED samples
    BY <2>3, OthersRecommend DEF samples, A!vars
  <2> QED
    BY <2>1, <2>2, <2>3 DEF AdaptiveNext
<1>3. AdaptiveSpec => Spec
  BY AdaptivePoolIsAPool DEF PoolRefined
<1> QED
  BY <1>1, <1>2, <1>3, ShapeInvariant, CapInvariant, PTL
  DEF AdaptiveSpec, ControllerRefined, A!Spec

-----------------------------------------------------------------------------
\* The regression works on two windows of the same length.
Windows == coroutines \in Seq(Int) /\ velocities \in Seq(Int)
           /\ Len(coroutines) = Len(velocities)

\* A sum of products of integers is an integer.
LEMMA SumOfSquaresType ==
  ASSUME NEW xs \in Seq(Int), NEW ys \in Seq(Int), Len(xs) = Len(ys)
  PROVE  A!SumOfSquares(xs, ys) \in Int
<1>1. A!Products(xs, ys) \in Seq(Int)
  <2>1. \A i \in 1 .. Len(xs) : xs[i] * ys[i] \in Int
    OBVIOUS
  <2>2. A!Products(xs, ys) \in [1 .. Len(xs) -> Int] /\ Len(xs) \in Nat
    BY <2>1 DEF A!Products
  <2> QED BY <2>2, SeqDef
<1>2. A!Total(xs) \in Int /\ A!Total(ys) \in Int /\ A!Total(A!Products(xs, ys)) \in Int
  <2>1. \A w \in Seq(Int) : A!Total(w) = FoldSeq(LAMBDA x, y : x + y, 0, w)
    BY Zenon DEF A!Total, A!FoldSeq, A!FoldFunction, A!FoldFunctionOnSet, A!MapThenFoldSet,
       FoldSeq, FoldFunction, FoldFunctionOnSet, MapThenFoldSet
  <2> QED BY Zenon, <1>1, <2>1, SumType
<1> HIDE DEF A!Total
<1>3. Len(xs) \in Int
  OBVIOUS
<1> QED BY <1>2, <1>3 DEF A!SumOfSquares

\* The branch that lowers the recommendation is dead: what falls is too flat.
LEMMA FittedNeverFalls ==
  ASSUME Possible, NEW cs \in Seq(Int), NEW vs \in Seq(Int), Len(cs) = Len(vs)
  PROVE  A!Fitted(cs, vs) \in {recommended, recommended + 1}
<1>1. A!Falling(cs, vs) => A!TooFlat(cs, vs)
  BY SumOfSquaresType DEF A!Falling, A!TooFlat
<1> QED BY <1>1 DEF A!Fitted, A!Increased

\* A completion keeps the windows, and leaves the pool no larger than recommended.
LEMMA CompletionWindows ==
  ASSUME Possible, active \in Int, Windows, NEW c \in Coros, AdaptiveComplete(c)
  PROVE  Windows' /\ recommended' >= recommended
<1>1. CASE A!Count
  BY <1>1 DEF A!Count, Windows, Possible
<1>2. ASSUME NEW velocity \in Velocities, A!Sample(active, velocity)
      PROVE  Windows' /\ recommended' >= recommended
  <2>1. velocity \in Int
    BY SamplesAssumption DEF A!Infinite
  <2>2. Windows'
    BY <1>2, <2>1, SamplesAssumption DEF A!Sample, A!Pushed, Windows
  <2>3. recommended' = A!Fitted(coroutines', velocities')
    BY <1>2 DEF A!Sample
  <2> QED
    BY <2>2, <2>3, FittedNeverFalls DEF Windows, Possible
<1> QED
  BY <1>1, <1>2 DEF AdaptiveComplete

\* The pool is never larger than recommended, and so no coroutine retires.
WithinRecommended == active <= recommended

\* No step makes more coroutines active than recommended, and one ends only once the
\* generator is exhausted.
LEMMA StepWithinRecommended ==
  ASSUME ~LogMayFail, Possible, active \in Nat, spawned = 0 => active = 0,
         Windows, WithinRecommended,
         [AdaptiveNext]_allVars
  PROVE  Windows' /\ WithinRecommended' /\ (active' < active => is_complete')
<1>1. CASE UNCHANGED allVars
  BY <1>1 DEF allVars, samples, vars, pool, Windows, WithinRecommended
<1>2. ASSUME NEW c \in Coros, AdaptiveComplete(c)
      PROVE  Windows' /\ WithinRecommended' /\ (active' < active => is_complete')
  <2>1. Windows' /\ recommended' >= recommended /\ Possible'
    BY <1>2, CompletionWindows, CompletionCompletes
  <2>2. ~Retires(recommended')
    BY <2>1 DEF Retires, Possible, WithinRecommended
  <2>3. active' = active
    BY <1>2, <2>2 DEF AdaptiveComplete, Completed
  <2> QED
    BY <2>1, <2>3 DEF WithinRecommended, Possible
<1>3. CASE /\ Start \/ (\E c \in Coros : pc[c] # "complete" /\ Step(c)) \/ Feed \/ CloseInput
           /\ UNCHANGED samples
  <2>1. Windows' /\ UNCHANGED recommended
    BY <1>3, OthersRecommend DEF samples, Windows
  <2>2. CASE Start \/ Feed \/ CloseInput
    BY <2>1, <2>2 DEF Start, Feed, CloseInput, pool, WithinRecommended, Possible
  <2>3. ASSUME NEW c \in Coros, pc[c] # "complete", Step(c)
        PROVE  WithinRecommended' /\ (active' < active => is_complete')
    <3>1. CASE Take(c)
      BY <2>1, <3>1 DEF Take, SpawnsChild, WithinRecommended, Possible
    <3>2. CASE Exhaust(c)
      BY <2>1, <3>2 DEF Exhaust, Ends, WithinRecommended, Possible
    <3>3. CASE UNCHANGED active
      BY <2>1, <3>3 DEF WithinRecommended
    <3>4. Take(c) \/ Exhaust(c) \/ UNCHANGED active
      BY <2>3 DEF Step, Attempt, LoseTimer, Connected, Fail, Respond, FailToStore,
         Redirect, Discarded, TornDown, InTime, Record, RecordThrows, Complete, Completed, pool
    <3> QED
      BY <3>1, <3>2, <3>3, <3>4
  <2> QED
    BY <1>3, <2>1, <2>2, <2>3
<1> QED
  BY <1>1, <1>2, <1>3 DEF AdaptiveNext

\* The pool is never made smaller: as long as the generator has candidates no
\* coroutine retires, because the recommendation never goes down.
NeverShrinks == [][active' < active => is_complete']_allVars

\* What AdaptiveController's FallingTrendLowers not holding means for the pool:
\* with --optimize and a log that can be written, no coroutine retires while the
\* generator has candidates, whatever the target's velocity does.
THEOREM PoolNeverShrinks == ~LogMayFail => (AdaptiveSpec => NeverShrinks)
<1> SUFFICES ASSUME ~LogMayFail PROVE AdaptiveSpec => NeverShrinks
  OBVIOUS
<1>1. AdaptiveInit => Possible /\ Windows /\ WithinRecommended
  BY ConstantsAssumption DEF AdaptiveInit, Init, A!Init, Possible, Cap, Windows, WithinRecommended
<1>2. Shape /\ CounterExact /\ Possible /\ Windows /\ WithinRecommended /\ [AdaptiveNext]_allVars
      => Possible' /\ Windows' /\ WithinRecommended' /\ [active' < active => is_complete']_allVars
  BY StepOfPool, StepWithinRecommended, CountIsNatural
<1>3. AdaptiveSpec => Spec
  BY AdaptivePoolIsAPool DEF PoolRefined
<1> QED
  BY <1>1, <1>2, <1>3, ShapeInvariant, PTL DEF AdaptiveSpec, NeverShrinks

-----------------------------------------------------------------------------
Unstored == {u \in Candidates : outcome[u] = "unstored"}

\* A file is empty or holds one accepted body, of a target it is named after.
OnePiece(n) ==
  \E t \in Targets, b \in Bodies, fits \in Nat, counted \in BOOLEAN :
    files[n] = <<G!Piece(t, b, fits, counted)>> /\ G!Name(t) = n /\ G!Accepts(b)

OutputTypes ==
  /\ uri \in [Coros -> Targets]
  /\ files \in [G!Names -> Seq([of : Targets, body : Bodies, bytes : Nat, counted : BOOLEAN])]
  /\ \A n \in G!Names : files[n] = <<>> \/ OnePiece(n)
  /\ filtered \in Nat /\ written \in Nat
  /\ kept \subseteq Candidates \X Targets

\* c's response is in a file, behind nothing else.
Puts(c, b, fits, counted) ==
  /\ G!Accepts(b)
  /\ files' = [files EXCEPT ![G!Name(uri[c])] = <<G!Piece(uri[c], b, fits, counted)>>]
Keeps(c) == candidate[c] \in Candidates /\ kept' = kept \cup {<<candidate[c], uri[c]>>}

\* What a step does to the output, told by what it does to the counters: it
\* leaves them, filters a body, writes one, or loses one.
Ignoring == /\ UNCHANGED <<files, kept, filtered, written>>
            /\ stats'.success = stats.success
            /\ Unstored' = Unstored
Filtering == /\ UNCHANGED <<files, kept, written>>
             /\ filtered' = filtered + 1 /\ stats'.success = stats.success + 1
             /\ Unstored' = Unstored
Writing(c) == /\ \E b \in Bodies, fits \in Nat :
                   Puts(c, b, fits, TRUE) /\ Whole(G!Piece(uri[c], b, fits, TRUE))
              /\ Keeps(c)
              /\ written' = written + 1 /\ stats'.success = stats.success + 1
              /\ UNCHANGED filtered
              /\ Unstored' = Unstored
Losing(c) == /\ UNCHANGED files \/ \E b \in Bodies, fits \in Nat : Puts(c, b, fits, FALSE)
             /\ Keeps(c)
             /\ stats'.success = stats.success + 1
             /\ UNCHANGED <<filtered, written>>
             /\ candidate[c] \notin Unstored /\ Unstored' = Unstored \cup {candidate[c]}
-----------------------------------------------------------------------------
\* The pool of this module is that of Scraper.
LEMMA StepOfThePool == [GetNext]_getVars => [Next]_vars
<1> SUFFICES ASSUME [GetNext]_getVars PROVE [Next]_vars
  OBVIOUS
<1>1. ASSUME NEW c \in Coros, GetTake(c) \/ GetOther(c) PROVE Next
  BY <1>1 DEF GetTake, GetOther, Next, Step
<1>2. ASSUME NEW c \in Coros, NEW b \in Bodies, NEW status \in G!Statuses,
             GetRespond(c, b, status) \/ GetFailToStore(c, b, status) \/ GetRedirect(c, b, status)
      PROVE  Next
  <2>1. G!CountsAsSuccess(status) \in BOOLEAN
    BY DEF G!CountsAsSuccess
  <2>2. CASE GetRespond(c, b, status)
    BY <2>1, <2>2 DEF GetRespond, Next, Step
  <2>3. CASE GetFailToStore(c, b, status) \/ GetRedirect(c, b, status)
    BY <2>3 DEF GetFailToStore, GetRedirect, Next, Step
  <2> QED
    BY <1>2, <2>2, <2>3
<1> QED
  BY <1>1, <1>2 DEF GetNext, Next, getVars

\* A scrape with --contents is a scrape.
LEMMA GetSpecIsSpec == GetSpec => Spec
<1>1. GetInit => Init
  BY DEF GetInit
<1> QED
  BY <1>1, StepOfThePool, PTL DEF GetSpec, Spec

\* Giving the candidate in hand its outcome makes it unstored, or does not.
LEMMA UnstoredSets ==
  ASSUME Types, Holding, Settled, NEW c \in Coros, pc[c] \in Waiting,
         NEW v \in {"answered", "unanswered", "unstored"},
         outcome' = [outcome EXCEPT ![candidate[c]] = v]
  PROVE  /\ candidate[c] \in Candidates /\ candidate[c] \notin Unstored
         /\ Unstored' = IF v = "unstored" THEN Unstored \cup {candidate[c]} ELSE Unstored
<1>1. candidate[c] \in Candidates /\ candidate[c] \notin Failed
  BY OutcomeSets
<1>2. /\ outcome'[candidate[c]] = v
      /\ \A u \in Candidates : u # candidate[c] => outcome'[u] = outcome[u]
  BY <1>1 DEF Types
<1>3. candidate[c] \notin Unstored
  BY <1>1 DEF Failed, Unstored
<1> QED
  BY <1>1, <1>2, <1>3 DEF Unstored

\* What reaches the disk of a body is counted in bytes.
LEMMA Sizes ==
  ASSUME NEW b \in Bodies, NEW fits \in 0 .. b.size
  PROVE  b.size \in Nat /\ StreamBuffer \in Nat /\ fits \in Nat /\ fits <= b.size
<1>1. b.size \in Nat /\ StreamBuffer \in Nat
  BY OutputAssumption
<1> QED
  BY <1>1

\* A response is counted once, as a success or not.
LEMMA ResponseCounts ==
  ASSUME Types, NEW ok \in BOOLEAN, stats' = Answered(ok)
  PROVE  stats'.success = IF ok THEN stats.success + 1 ELSE stats.success
  BY DEF Types, RunStats, Answered
\* A step of the pool that brings no response to the output ignores it.
LEMMA IdleIgnores ==
  ASSUME Types, Births, Holding, Settled, NEW c \in Coros,
         \/ GetTake(c) \/ GetOther(c)
         \/ (Start \/ Feed \/ CloseInput) /\ UNCHANGED <<uri, store>>
         \/ UNCHANGED getVars
  PROVE  Ignoring
<1>1. UNCHANGED store
  BY DEF GetTake, GetOther, getVars
<1>2. UNCHANGED <<files, kept, filtered, written>>
  BY <1>1 DEF store
<1>3. stats'.success = stats.success /\ Unstored' = Unstored
  <2>1. CASE Take(c) \/ Start \/ Feed \/ CloseInput \/ UNCHANGED vars
    BY <2>1 DEF Take, Start, Feed, CloseInput, vars, books, Unstored
  <2>2. CASE Exhaust(c) \/ LoseTimer(c) \/ Connected(c) \/ Discarded(c)
             \/ TornDown(c) \/ \E r \in 1 .. Cap : Complete(c, r)
    BY <2>2 DEF Exhaust, LoseTimer, Connected, Discarded, TornDown, Complete, Completed, books,
       Unstored
  <2>3. CASE Attempt(c)
    BY <2>3 DEF Attempt, CountAttempt, Types, RunStats, Unstored
  <2>4. CASE Record(c) \/ RecordThrows(c)
    BY <2>4 DEF Record, RecordThrows, CountError, Types, RunStats, Unstored
  <2>5. CASE Fail(c)
    <3>1. /\ pc[c] \in Waiting /\ UNCHANGED stats
          /\ outcome' = [outcome EXCEPT ![candidate[c]] = "unanswered"]
      BY <2>5 DEF Fail
    <3> QED
      BY <3>1, UnstoredSets
  <2> QED
    BY <2>1, <2>2, <2>3, <2>4, <2>5 DEF GetTake, GetOther, getVars
<1> QED
  BY <1>2, <1>3 DEF Ignoring

\* A response that ends its candidate is ignored, filtered or written.
LEMMA RespondDoes ==
  ASSUME Types, Births, Holding, Settled, NEW c \in Coros, NEW b \in Bodies,
         NEW status \in G!Statuses, GetRespond(c, b, status)
  PROVE  Ignoring \/ Filtering \/ Writing(c)
<1>1. /\ pc[c] \in Waiting
      /\ stats' = Answered(G!CountsAsSuccess(status))
      /\ outcome' = [outcome EXCEPT ![candidate[c]] = "answered"]
  BY DEF GetRespond, Respond, InTime, Waiting
<1>2. Unstored' = Unstored /\ candidate[c] \in Candidates
  BY <1>1, UnstoredSets
<1>3. stats'.success = IF G!CountsAsSuccess(status) THEN stats.success + 1 ELSE stats.success
  BY <1>1, ResponseCounts DEF G!CountsAsSuccess
<1>4. CASE G!Skip(uri[c], b, status) /\ UNCHANGED kept
  BY <1>2, <1>3, <1>4 DEF G!Skip, G!IsSuccess, G!CountsAsSuccess, Ignoring
<1>5. CASE G!Filter(uri[c], b, status) /\ UNCHANGED kept
  BY <1>2, <1>3, <1>5 DEF G!Filter, G!IsSuccess, G!CountsAsSuccess, Filtering
<1>6. ASSUME NEW fits \in 0 .. b.size, ~G!WriteThrows(b, fits),
             G!WriteOut(uri[c], b, status, fits),
             kept' = kept \cup {<<candidate[c], uri[c]>>}
      PROVE  Writing(c)
  <2>1. fits \in Nat /\ b.size \in Nat /\ StreamBuffer \in Nat /\ fits <= b.size
    BY Sizes
  <2>2. Whole(G!Piece(uri[c], b, fits, TRUE))
    BY <1>6, <2>1 DEF G!WriteThrows, Whole, G!Piece
  <2>3. Puts(c, b, fits, TRUE)
    BY <1>6 DEF G!WriteOut, G!Replaced, Puts
  <2>4. stats'.success = stats.success + 1
    BY <1>3, <1>6 DEF G!WriteOut, G!IsSuccess, G!CountsAsSuccess
  <2>5. written' = written + 1 /\ UNCHANGED filtered
    BY <1>6 DEF G!WriteOut, G!WriteReturns
  <2> QED
    BY <1>2, <1>6, <2>1, <2>2, <2>3, <2>4, <2>5 DEF Writing, Keeps
<1> QED
  BY <1>4, <1>5, <1>6 DEF GetRespond

\* A response whose action throws loses its body, if only the rest of it.
LEMMA FailureLoses ==
  ASSUME Types, Births, Holding, Settled, NEW c \in Coros, NEW b \in Bodies,
         NEW status \in G!Statuses, GetFailToStore(c, b, status)
  PROVE  Losing(c)
<1>1. /\ pc[c] \in Waiting
      /\ stats' = Answered(TRUE)
      /\ outcome' = [outcome EXCEPT ![candidate[c]] = "unstored"]
  BY DEF GetFailToStore, FailToStore, InTime, Waiting
<1>2. candidate[c] \notin Unstored /\ Unstored' = Unstored \cup {candidate[c]}
  BY <1>1, UnstoredSets
<1>3. stats'.success = stats.success + 1
  BY <1>1, ResponseCounts
<1>4. Keeps(c)
  BY <1>1, UnstoredSets DEF GetFailToStore, Keeps
<1>5. CASE G!ProcessThrows(uri[c], b, status)
  BY <1>2, <1>3, <1>4, <1>5 DEF G!ProcessThrows, Losing
<1>6. ASSUME NEW fits \in 0 .. b.size, G!WriteThrows(b, fits), G!WriteOut(uri[c], b, status, fits)
      PROVE  Losing(c)
  <2>1. fits \in Nat
    BY Sizes
  <2>2. Puts(c, b, fits, FALSE)
    BY <1>6 DEF G!WriteOut, G!Replaced, Puts
  <2>3. UNCHANGED <<filtered, written>>
    BY <1>6 DEF G!WriteOut, G!WriteFails
  <2> QED
    BY <1>2, <1>3, <1>4, <2>1, <2>2, <2>3 DEF Losing
<1> QED
  BY <1>5, <1>6 DEF GetFailToStore

\* A redirect that is followed is no success, and ignored.
LEMMA RedirectIgnores ==
  ASSUME Types, NEW c \in Coros, NEW b \in Bodies,
         NEW status \in G!Statuses, GetRedirect(c, b, status)
  PROVE  Ignoring
<1>1. stats' = Answered(FALSE) /\ UNCHANGED outcome
  BY DEF GetRedirect, Redirect
<1>2. stats'.success = stats.success
  BY <1>1, ResponseCounts
<1> QED
  BY <1>1, <1>2 DEF GetRedirect, G!Skip, Ignoring, Unstored

\* There is no fifth kind of step.
LEMMA OutputSteps ==
  ASSUME Types, Births, Holding, Settled, [GetNext]_getVars
  PROVE  Ignoring \/ Filtering \/ \E c \in Coros : Writing(c) \/ Losing(c)
<1>1. 1 \in Coros
  BY ConstantsAssumption DEF Coros
<1>2. CASE ((Start \/ Feed \/ CloseInput) /\ UNCHANGED <<uri, store>>) \/ UNCHANGED getVars
  BY <1>1, <1>2, IdleIgnores
<1>3. ASSUME NEW c \in Coros, GetTake(c) \/ GetOther(c) PROVE Ignoring
  BY <1>3, IdleIgnores
<1> QED
  BY <1>2, <1>3, RespondDoes, FailureLoses, RedirectIgnores DEF GetNext
-----------------------------------------------------------------------------
\* The URIs in hand are targets, generated or redirected to.
LEMMA StepUri ==
  ASSUME Types, Holding, uri \in [Coros -> Targets], [GetNext]_getVars
  PROVE  uri' \in [Coros -> Targets]
<1>1. CASE UNCHANGED uri
  BY <1>1
<1>2. ASSUME NEW c \in Coros, GetTake(c) PROVE uri' \in [Coros -> Targets]
  <2>1. taken + 1 \in 1 .. N
    BY <1>2, ConstantsAssumption DEF GetTake, Take, Types, Holding
  <2>2. Text[taken + 1] \in Targets
    BY <2>1, OutputAssumption
  <2> QED
    BY <1>2, <2>2 DEF GetTake
<1>3. ASSUME NEW c \in Coros, NEW b \in Bodies, NEW status \in G!Statuses, GetRedirect(c, b, status)
      PROVE  uri' \in [Coros -> Targets]
  BY <1>3 DEF GetRedirect
<1> QED
  BY <1>1, <1>2, <1>3 DEF GetNext, GetOther, GetRespond, GetFailToStore, getVars

\* Putting a body into the file of a target leaves one piece in it, and the
\* other files alone.
LEMMA PutsOnePiece ==
  ASSUME OutputTypes, NEW c \in Coros, NEW b \in Bodies, NEW fits \in Nat, NEW counted \in BOOLEAN,
         Puts(c, b, fits, counted)
  PROVE  /\ files' \in [G!Names -> Seq([of : Targets, body : Bodies, bytes : Nat, counted : BOOLEAN])]
         /\ G!Name(uri[c]) \in G!Names
         /\ files'[G!Name(uri[c])] = <<G!Piece(uri[c], b, fits, counted)>>
         /\ \A n \in G!Names : n # G!Name(uri[c]) => files'[n] = files[n]
         /\ \A n \in G!Names : files'[n] = <<>> \/ OnePiece(n)'
<1>1. uri[c] \in Targets
  BY DEF OutputTypes
<1>2. G!Name(uri[c]) \in G!Names
  BY <1>1 DEF G!Names
<1>3. G!Piece(uri[c], b, fits, counted) \in [of : Targets, body : Bodies, bytes : Nat, counted : BOOLEAN]
  BY <1>1 DEF G!Piece
<1>4. <<G!Piece(uri[c], b, fits, counted)>>
        \in Seq([of : Targets, body : Bodies, bytes : Nat, counted : BOOLEAN])
  BY <1>3
<1>5. files' \in [G!Names -> Seq([of : Targets, body : Bodies, bytes : Nat, counted : BOOLEAN])]
  BY <1>4 DEF Puts, OutputTypes
<1>6. /\ files'[G!Name(uri[c])] = <<G!Piece(uri[c], b, fits, counted)>>
      /\ \A n \in G!Names : n # G!Name(uri[c]) => files'[n] = files[n]
  BY <1>2 DEF Puts, OutputTypes
<1>7. \A n : n = G!Name(uri[c]) => OnePiece(n)'
  BY <1>1, <1>6 DEF OnePiece, Puts
<1>8. ASSUME NEW n \in G!Names PROVE files'[n] = <<>> \/ OnePiece(n)'
  <2>1. CASE n = G!Name(uri[c])
    BY <1>7, <2>1
  <2>2. CASE n # G!Name(uri[c])
    BY <1>6, <2>2 DEF OutputTypes, OnePiece
  <2> QED
    BY <2>1, <2>2
<1> QED
  BY <1>2, <1>5, <1>6, <1>8

\* The types of the output.
LEMMA StepOutputTypes ==
  ASSUME Types, Births, Holding, Settled, OutputTypes, [GetNext]_getVars
  PROVE  OutputTypes'
<1>1. uri' \in [Coros -> Targets]
  BY StepUri DEF OutputTypes
<1>2. CASE Ignoring \/ Filtering
  <2>1. UNCHANGED <<files, kept>> /\ filtered' \in Nat /\ written' \in Nat
    BY <1>2 DEF Ignoring, Filtering, OutputTypes
  <2>2. \A n \in G!Names : OnePiece(n) => OnePiece(n)'
    BY <2>1 DEF OnePiece
  <2> QED
    BY <1>1, <2>1, <2>2 DEF OutputTypes
<1>3. ASSUME NEW c \in Coros, Keeps(c) PROVE kept' \subseteq Candidates \X Targets
  BY <1>3 DEF Keeps, OutputTypes
<1>4. ASSUME NEW c \in Coros, NEW b \in Bodies, NEW fits \in Nat, NEW counted \in BOOLEAN,
             Puts(c, b, fits, counted), Keeps(c), filtered' \in Nat, written' \in Nat
      PROVE  OutputTypes'
  BY <1>1, <1>3, <1>4, PutsOnePiece DEF OutputTypes
<1>5. ASSUME NEW c \in Coros, Writing(c) PROVE OutputTypes'
  <2>1. PICK b \in Bodies, fits \in Nat : Puts(c, b, fits, TRUE)
    BY <1>5 DEF Writing
  <2>2. Keeps(c) /\ filtered' \in Nat /\ written' \in Nat
    BY <1>5 DEF Writing, OutputTypes
  <2> QED
    BY <1>4, <2>1, <2>2
<1>6. ASSUME NEW c \in Coros, Losing(c) PROVE OutputTypes'
  <2>1. CASE UNCHANGED files
    BY <1>1, <1>3, <1>6, <2>1 DEF Losing, OutputTypes, OnePiece
  <2>2. CASE \E b \in Bodies, fits \in Nat : Puts(c, b, fits, FALSE)
    BY <1>4, <1>6, <2>2 DEF Losing, OutputTypes
  <2> QED
    BY <1>6, <2>1, <2>2 DEF Losing
<1> QED
  BY <1>2, <1>5, <1>6, OutputSteps

\* The inductive invariant: Settled, of the pool, and the types of the output.
LEMMA OutputInvariant == GetSpec => [](Shape /\ Handed /\ Settled /\ OutputTypes)
<1>1. GetInit => OutputTypes
  <2> SUFFICES ASSUME GetInit PROVE OutputTypes
    OBVIOUS
  <2>1. uri \in [Coros -> Targets]
    BY OutputAssumption DEF GetInit
  <2> QED
    BY <2>1 DEF GetInit, G!Init, OutputTypes
<1>2. Shape /\ Settled /\ OutputTypes /\ [GetNext]_getVars => OutputTypes'
  BY StepOutputTypes DEF Shape
<1>3. GetSpec => [](Shape /\ Handed /\ Settled)
  BY GetSpecIsSpec, SettledInvariant, PTL
<1> QED
  BY <1>1, <1>2, <1>3, PTL DEF GetSpec

-----------------------------------------------------------------------------
\* GetAction::write_out opens its file to truncate it: whatever the pool brings
\* there, a file holds one body, and one that the filters let through.
THEOREM FilesAreBodies == GetSpec => []FileIsOneBody
<1>1. OutputTypes => FileIsOneBody
  <2> SUFFICES ASSUME OutputTypes, NEW n \in G!Names, files[n] # <<>>
               PROVE  /\ Len(files[n]) = 1
                      /\ Required \subseteq files[n][1].body.text
                      /\ Rejected \cap files[n][1].body.text = {}
    BY DEF FileIsOneBody, G!FileIsOneBody
  <2>1. PICK t \in Targets, b \in Bodies, fits \in Nat, counted \in BOOLEAN :
          files[n] = <<G!Piece(t, b, fits, counted)>> /\ G!Accepts(b)
    BY DEF OutputTypes, OnePiece
  <2>2. files[n][1].body = b /\ Len(files[n]) = 1
    BY <2>1 DEF G!Piece
  <2> QED
    BY <2>1, <2>2 DEF G!Accepts
<1> QED
  BY <1>1, OutputInvariant, PTL

\* An interval from 1 tells its length.
LEMMA SameIntervals ==
  ASSUME NEW m \in Nat, NEW n \in Nat, 1 .. m = 1 .. n
  PROVE  m = n
<1>1. Cardinality(1 .. m) = m /\ Cardinality(1 .. n) = n
  BY FS_Interval
<1> QED
  BY <1>1

\* Targets with the same file name differ in the replaced characters alone.
LEMMA SameNameLooksAlike ==
  ASSUME NEW t \in Targets, NEW u \in Targets, G!Name(t) = G!Name(u)
  PROVE  G!Lookalikes(t, u)
<1>1. t \in Seq(STRING) /\ u \in Seq(STRING)
  BY OutputAssumption
<1>2. DOMAIN G!Name(t) = DOMAIN t /\ DOMAIN G!Name(u) = DOMAIN u
  BY DEF G!Name
<1>3. Len(t) = Len(u)
  <2>1. DOMAIN t = 1 .. Len(t) /\ DOMAIN u = 1 .. Len(u) /\ Len(t) \in Nat /\ Len(u) \in Nat
    BY <1>1, LenProperties
  <2>2. 1 .. Len(t) = 1 .. Len(u)
    BY Zenon, <1>2, <2>1
  <2> QED
    BY <2>1, <2>2, SameIntervals
<1>4. ASSUME NEW i \in DOMAIN t, t[i] # u[i] PROVE {t[i], u[i]} \cap NameChars = {}
  <2>1. G!Name(t)[i] = G!Name(u)[i] /\ i \in DOMAIN u
    BY <1>2
  <2>2. /\ G!Name(t)[i] = IF t[i] \in NameChars THEN t[i] ELSE "_"
        /\ G!Name(u)[i] = IF u[i] \in NameChars THEN u[i] ELSE "_"
    BY <2>1 DEF G!Name
  <2> QED
    BY <1>4, <2>1, <2>2, OutputAssumption
<1> QED
  BY <1>3, <1>4 DEF G!Lookalikes

\* The file name keeps all but the replaced characters: a file is written again
\* only for a target that differs from its own in these.
THEOREM OnlyLookalikesReplace == GetSpec => ReplacedByLookalikes
<1> DEFINE Alike == \A n \in G!Names : files[n] # <<>> /\ files'[n] # files[n] =>
                  G!Lookalikes(files[n][1].of, files'[n][1].of)
<1>1. Shape /\ Settled /\ OutputTypes /\ [GetNext]_getVars => Alike
  <2> SUFFICES ASSUME Types, Births, Holding, Settled, OutputTypes, [GetNext]_getVars,
                      NEW n \in G!Names, files[n] # <<>>, files'[n] # files[n]
               PROVE  G!Lookalikes(files[n][1].of, files'[n][1].of)
    BY DEF Shape
  <2>1. PICK t \in Targets : files[n][1].of = t /\ G!Name(t) = n
    BY DEF OutputTypes, OnePiece, G!Piece
  <2>2. PICK c \in Coros, b \in Bodies, fits \in Nat, counted \in BOOLEAN :
          Puts(c, b, fits, counted)
    BY OutputSteps DEF Ignoring, Filtering, Writing, Losing
  <2>3. /\ files'[G!Name(uri[c])] = <<G!Piece(uri[c], b, fits, counted)>>
        /\ n = G!Name(uri[c])
    BY <2>2, PutsOnePiece
  <2>4. files'[n][1].of = uri[c] /\ uri[c] \in Targets
    BY <2>3 DEF G!Piece, OutputTypes
  <2> QED
    BY <2>1, <2>3, <2>4, SameNameLooksAlike
<1>2. Shape /\ Settled /\ OutputTypes /\ [GetNext]_getVars => [Alike]_G!vars
  BY <1>1
<1> QED
  BY <1>2, OutputInvariant, PTL DEF GetSpec, ReplacedByLookalikes, G!ReplacedByLookalikes

-----------------------------------------------------------------------------
\* SummaryAgrees of every state, with the candidates whose bodies were lost
\* instead of those of them the log names.
SumUp == stats.success = filtered + written + Cardinality(Unstored)

\* The lost bodies can be counted.
LEMMA UnstoredFinite == IsFiniteSet(Unstored) /\ Cardinality(Unstored) \in Nat
<1>1. IsFiniteSet(Candidates)
  BY FS_Interval, ConstantsAssumption DEF Candidates
<1>2. Unstored \in SUBSET Candidates
  BY DEF Unstored
<1>3. IsFiniteSet(Unstored)
  BY <1>1, <1>2, FS_Subset
<1> QED
  BY <1>3, FS_CardinalityType

\* Every step that counts a success counts what became of it.
LEMMA StepSumUp ==
  ASSUME Types, Births, Holding, Settled, OutputTypes, SumUp, [GetNext]_getVars
  PROVE  SumUp'
<1> USE DEF SumUp
<1>0. /\ Cardinality(Unstored) \in Nat /\ filtered \in Nat /\ written \in Nat
      /\ stats.success \in Nat
  BY UnstoredFinite DEF OutputTypes, Types, RunStats
<1>1. CASE Ignoring
  BY <1>1 DEF Ignoring
<1>2. CASE Filtering
  BY <1>0, <1>2 DEF Filtering
<1>3. ASSUME NEW c \in Coros, Writing(c) PROVE SumUp'
  BY <1>0, <1>3 DEF Writing
<1>4. ASSUME NEW c \in Coros, Losing(c) PROVE SumUp'
  <2>1. Cardinality(Unstored)' = Cardinality(Unstored) + 1
    BY <1>4, UnstoredFinite, FS_AddElement DEF Losing
  <2> QED
    BY <1>0, <1>4, <2>1 DEF Losing
<1> QED
  BY <1>1, <1>2, <1>3, <1>4, OutputSteps

\* When the program has returned, the log names every lost body's candidate.
LEMMA LostAreLogged ==
  ASSUME Types, LogUpToDate, Returned
  PROVE  {u \in log : outcome[u] = "unstored"} = Unstored
<1>1. Uncaught = {}
  BY DEF Returned, LiveCoros, Live, OnThread, Suspended, Uncaught
<1>2. log = Failed
  BY <1>1 DEF LogUpToDate
<1> QED
  BY <1>2 DEF Failed, Unstored

\* The log of a scrape with --contents is up to date, as any scrape's.
LEMMA LogInvariant == ~LogMayFail => (GetSpec => []LogUpToDate)
<1> SUFFICES ASSUME ~LogMayFail PROVE GetSpec => []LogUpToDate
  OBVIOUS
<1>1. Init => LogUpToDate
  BY NothingAtFirst DEF Init, LogUpToDate
<1>2. Shape /\ Handed /\ Settled /\ LogUpToDate /\ [Next]_vars => LogUpToDate'
  BY StepLog
<1>3. Spec => []LogUpToDate
  BY <1>1, <1>2, SettledInvariant, PTL DEF Spec
<1> QED
  BY <1>3, GetSpecIsSpec, PTL

\* With an error log that can be written: the 2xx responses of the summary are
\* the bodies filtered, those written, and the errors the log names for them.
THEOREM SummaryIsTrue == ~LogMayFail => (GetSpec => []SummaryAgrees)
<1> SUFFICES ASSUME ~LogMayFail PROVE GetSpec => []SummaryAgrees
  OBVIOUS
<1>1. GetInit => SumUp
  <2> SUFFICES ASSUME GetInit PROVE SumUp
    OBVIOUS
  <2>1. Unstored = {}
    BY DEF GetInit, Init, Unstored
  <2> QED
    BY <2>1, FS_EmptySet DEF GetInit, Init, G!Init, SumUp
<1>2. Shape /\ Settled /\ OutputTypes /\ SumUp /\ [GetNext]_getVars => SumUp'
  BY StepSumUp DEF Shape
<1>3. Types /\ LogUpToDate /\ SumUp => SummaryAgrees
  BY LostAreLogged DEF SumUp, SummaryAgrees
<1>4. Shape => Types
  BY DEF Shape
<1> QED
  BY <1>1, <1>2, <1>3, <1>4, OutputInvariant, LogInvariant, PTL DEF GetSpec

-----------------------------------------------------------------------------
\* NothingIsLost of every state, with the candidates whose bodies were lost
\* instead of the log.
Found(k, piece) == /\ G!Lookalikes(piece.of, k[2])
                   /\ Whole(piece) \/ \E u \in Unstored : <<u, piece.of>> \in kept

Kept(k) == k[1] \in Unstored \/ (Len(files[G!Name(k[2])]) = 1 /\ Found(k, files[G!Name(k[2])][1]))

AllKept == \A k \in kept : Kept(k)

\* What was kept stays so while its file is left alone.
LEMMA KeptStays ==
  ASSUME NEW k, Kept(k), files'[G!Name(k[2])] = files[G!Name(k[2])],
         Unstored \subseteq Unstored', kept \subseteq kept'
  PROVE  Kept(k)'
  BY DEF Kept, Found

\* The one piece of a file keeps what it is a lookalike of.
LEMMA PieceKeeps ==
  ASSUME NEW k, NEW piece, files'[G!Name(k[2])] = <<piece>>, G!Lookalikes(piece.of, k[2]),
         Whole(piece) \/ \E u \in Unstored' : <<u, piece.of>> \in kept'
  PROVE  Kept(k)'
<1>1. Found(k, piece)'
  BY DEF Found, Whole
<1>2. Len(files'[G!Name(k[2])]) = 1 /\ files'[G!Name(k[2])][1] = piece
  OBVIOUS
<1> QED
  BY <1>1, <1>2 DEF Kept

\* Putting a body into a file keeps it, and those of its lookalikes, if it is
\* whole or its candidate will be logged.
LEMMA PutKeeps ==
  ASSUME OutputTypes, OutputTypes', AllKept,
         NEW c \in Coros, NEW b \in Bodies, NEW fits \in Nat, NEW counted \in BOOLEAN,
         Puts(c, b, fits, counted), Keeps(c), Unstored \subseteq Unstored',
         Whole(G!Piece(uri[c], b, fits, counted)) \/ candidate[c] \in Unstored'
  PROVE  AllKept'
<1> SUFFICES ASSUME NEW k \in kept' PROVE Kept(k)'
  BY DEF AllKept
<1> DEFINE piece == G!Piece(uri[c], b, fits, counted)
<1>1. uri[c] \in Targets /\ k[2] \in Targets /\ G!Name(k[2]) \in G!Names
  BY DEF OutputTypes, G!Names
<1>2. CASE G!Name(k[2]) = G!Name(uri[c])
  <2>1. files'[G!Name(k[2])] = <<piece>>
    BY <1>2, PutsOnePiece
  <2>2. piece.of = uri[c]
    BY DEF G!Piece
  <2>3. G!Lookalikes(piece.of, k[2])
    BY <1>1, <1>2, <2>2, SameNameLooksAlike
  <2>4. <<candidate[c], piece.of>> \in kept'
    BY <2>2 DEF Keeps
  <2>5. Whole(piece) \/ \E u \in Unstored' : <<u, piece.of>> \in kept'
    BY <2>4
  <2> QED
    BY <2>1, <2>3, <2>5, PieceKeeps
<1>3. CASE G!Name(k[2]) # G!Name(uri[c])
  <2>1. files'[G!Name(k[2])] = files[G!Name(k[2])]
    BY <1>1, <1>3, PutsOnePiece
  <2>2. k \in kept /\ Kept(k)
    BY <1>3 DEF Keeps, AllKept
  <2> QED
    BY <2>1, <2>2, KeptStays DEF Keeps
<1> QED
  BY <1>2, <1>3

\* No step gives up a body without an error.
LEMMA StepAllKept ==
  ASSUME Types, Births, Holding, Settled, OutputTypes, OutputTypes', AllKept, [GetNext]_getVars
  PROVE  AllKept'
<1>1. CASE Ignoring \/ Filtering
  <2>1. UNCHANGED <<files, kept>> /\ Unstored' = Unstored
    BY <1>1 DEF Ignoring, Filtering
  <2> QED
    BY <2>1, KeptStays DEF AllKept
<1>2. ASSUME NEW c \in Coros, Writing(c) PROVE AllKept'
  BY <1>2, PutKeeps DEF Writing
<1>3. ASSUME NEW c \in Coros, Losing(c) PROVE AllKept'
  <2>1. candidate[c] \in Unstored' /\ Unstored \subseteq Unstored' /\ Keeps(c)
    BY <1>3 DEF Losing
  <2>2. CASE \E b \in Bodies, fits \in Nat : Puts(c, b, fits, FALSE)
    BY <2>1, <2>2, PutKeeps
  <2>3. CASE UNCHANGED files
    <3> SUFFICES ASSUME NEW k \in kept' PROVE Kept(k)'
      BY DEF AllKept
    <3>1. CASE k = <<candidate[c], uri[c]>>
      BY <2>1, <3>1 DEF Kept
    <3>2. CASE k # <<candidate[c], uri[c]>>
      BY <2>1, <2>3, <3>2, KeptStays DEF Keeps, AllKept
    <3> QED
      BY <3>1, <3>2
  <2> QED
    BY <1>3, <2>2, <2>3 DEF Losing
<1> QED
  BY <1>1, <1>2, <1>3, OutputSteps

\* With an error log that can be written: a body that was to be kept is on the
\* disk when the program returns, or its candidate is in the log, or its file
\* has gone to a lookalike.
THEOREM BodiesAreKept == ~LogMayFail => (GetSpec => []NothingIsLost)
<1> SUFFICES ASSUME ~LogMayFail PROVE GetSpec => []NothingIsLost
  OBVIOUS
<1>1. GetInit => AllKept
  BY DEF GetInit, AllKept
<1>2. /\ Shape /\ Settled /\ OutputTypes /\ AllKept /\ [GetNext]_getVars => AllKept'
  BY StepAllKept, StepOutputTypes DEF Shape
<1>3. Types /\ LogUpToDate /\ AllKept => NothingIsLost
  <2> SUFFICES ASSUME Types, LogUpToDate, AllKept, Returned, NEW k \in kept, k[1] \notin log
               PROVE  \E piece \in {files[G!Name(k[2])][i] : i \in DOMAIN files[G!Name(k[2])]} :
                        /\ G!Lookalikes(piece.of, k[2])
                        /\ Whole(piece) \/ \E u \in log : <<u, piece.of>> \in kept
    BY DEF NothingIsLost
  <2>1. Unstored \subseteq log
    BY LostAreLogged
  <2>2. Len(files[G!Name(k[2])]) = 1 /\ Found(k, files[G!Name(k[2])][1])
    BY <2>1 DEF AllKept, Kept
  <2> QED
    BY <2>1, <2>2 DEF Found
<1>4. Shape => Types
  BY DEF Shape
<1> QED
  BY <1>1, <1>2, <1>3, <1>4, OutputInvariant, LogInvariant, PTL DEF GetSpec
=============================================================================
