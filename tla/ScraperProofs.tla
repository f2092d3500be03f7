---------------------------- MODULE ScraperProofs ----------------------------
(***************************************************************************)
(* Theorems about Scraper, for every number of candidates, every range of  *)
(* recommendations, every redirect limit and every connection policy.      *)
(*                                                                         *)
(* The first part is about the size of the pool; the second about what     *)
(* becomes of a candidate: each is requested by one coroutine, to an       *)
(* observer of the candidates alone the pool is a Crawl, and the summary,  *)
(* the exit code and the error log tell what happened to them.             *)
(***************************************************************************)
EXTENDS Scraper, FiniteSetTheorems, TLAPS

\* Coroutines are born in the order of their identifiers, and every birth but
\* the first follows a candidate taken.
Births == /\ \A c \in Coros : pc[c] = "unborn" <=> c > spawned
          /\ spawned <= taken + 1
          /\ spawned = 0 => taken = 0

\* A coroutine has a candidate in hand from Take until Complete.
Holding == /\ \A c \in Coros : candidate[c] # 0 <=> pc[c] \in Live \ {"next"}
           /\ available <= N /\ taken <= available

\* While the generator may have candidates and the pool is smaller than
\* recommended, the coroutine that executes is about to take one (and then
\* finds the pool too small, and spawns).
Refilling == spawned > 0 /\ ~is_complete /\ active < recommended
               => \E c \in Coros : Executes(c) /\ pc[c] = "next"

\* The pool is empty only once the generator is.
NeverDrained == spawned > 0 /\ active = 0 => is_complete
-----------------------------------------------------------------------------
\* The conjuncts of TypeOK that do not speak of the coroutine count.
Types ==
  /\ pc \in [Coros -> Live \cup {"unborn", "gone"}]
  /\ candidate \in [Coros -> 0 .. N]
  /\ redirects \in [Coros -> 0 .. MaxRedirects]
  /\ onward \in [Coros -> {"return", "redirect", "throw"}]
  /\ taken \in 0 .. N /\ available \in 0 .. N
  /\ closed \in BOOLEAN /\ is_complete \in BOOLEAN
  /\ spawned \in 0 .. (N + 1)
  /\ recommended \in 1 .. Cap
  /\ stats \in RunStats
  /\ outcome \in [Candidates -> {"none", "answered", "unanswered", "unstored"}]
  /\ log \subseteq Candidates

\* An operation has lost its timer only while it is awaited.
Timing == untimed \subseteq {c \in Coros : pc[c] \in Waiting}

\* A timer struck to no effect, between two steps of some coroutine's operation.
Loses == \E c \in Coros : LoseTimer(c)

\* The part of the inductive invariant whose preservation needs no counting.
Shape == Types /\ Births /\ Holding

\* The program starts in Shape: no coroutine, no candidate handed out.
LEMMA InitShape == Init => Shape
<1> SUFFICES ASSUME Init PROVE Shape
  OBVIOUS
<1>1. pc \in [Coros -> Live \cup {"unborn", "gone"}]
  BY DEF Init
<1>2. /\ candidate \in [Coros -> 0 .. N]
      /\ redirects \in [Coros -> 0 .. MaxRedirects]
  BY ConstantsAssumption DEF Init
<1>3. /\ onward \in [Coros -> {"return", "redirect", "throw"}]
      /\ outcome \in [Candidates -> {"none", "answered", "unanswered", "unstored"}]
  BY DEF Init
<1>4. /\ taken \in 0 .. N /\ available \in 0 .. N
      /\ closed \in BOOLEAN /\ is_complete \in BOOLEAN
      /\ spawned \in 0 .. (N + 1)
  <2>1. available \in 0 .. N
    BY ConstantsAssumption DEF Init
  <2>2. closed \in BOOLEAN /\ is_complete \in BOOLEAN
    BY ConstantsAssumption DEF Init
  <2>3. taken \in 0 .. N /\ spawned \in 0 .. (N + 1)
    BY ConstantsAssumption DEF Init
  <2> QED BY <2>1, <2>2, <2>3
<1>5. recommended \in 1 .. Cap
  BY ConstantsAssumption DEF Init, Cap
<1>6. stats \in RunStats /\ log \subseteq Candidates
  BY DEF Init, RunStats
<1>7. Types
  BY <1>1, <1>2, <1>3, <1>4, <1>5, <1>6 DEF Types
<1>8. Births
  BY DEF Init, Births, Coros
<1>9. Holding
  BY ConstantsAssumption DEF Init, Holding, Live, OnThread, Suspended, Waiting, Closing
<1> QED
  BY <1>7, <1>8, <1>9 DEF Shape

\* The counters of RunStats stay natural numbers.
LEMMA Counters ==
  ASSUME stats \in RunStats, NEW c, NEW ok,
         CountAttempt(c) \/ CountError(c) \/ stats' = Answered(ok)
  PROVE  stats' \in RunStats
  BY DEF RunStats, CountAttempt, CountError, Answered

\* Every step of every coroutine preserves Shape; one step of the proof per
\* action.
LEMMA StepShape == Shape /\ [Next]_vars => Shape'
<1> USE ConstantsAssumption DEF Live, Suspended, Waiting, Closing, OnThread
<1> SUFFICES ASSUME Types, Births, Holding, [Next]_vars 
                PROVE  Types' /\ Births' /\ Holding'
  BY DEF Shape
<1>1. CASE Start
  <2>1. pc' \in [Coros -> Live \cup {"unborn", "gone"}]
    BY <1>1 DEF Types, Start
  <2>2. spawned' \in 0 .. (N + 1)
    BY <1>1 DEF Start
  <2>3. Types'
    BY <1>1, <2>1, <2>2 DEF Types, Start, generator, books
  <2>4. Births'
    BY <1>1, <2>3 DEF Types, Births, Coros, Start, generator, books
  <2>5. Holding'
    BY <1>1, <2>3 DEF Types, Births, Holding, Coros, Start, generator, books
  <2> QED BY <2>3, <2>4, <2>5
<1>2. ASSUME NEW c \in Coros, Take(c) PROVE Types' /\ Births' /\ Holding'
  <2>1. pc' \in [Coros -> Live \cup {"unborn", "gone"}]
    BY <1>2 DEF Types, Take
  <2>2. taken' = taken + 1 /\ taken' \in 0 .. N
    BY <1>2 DEF Types, Take, Advance
  <2>3. candidate' \in [Coros -> 0 .. N]
    BY <1>2 DEF Types, Take, Candidates
  <2>4. redirects' \in [Coros -> 0 .. MaxRedirects]
    BY <1>2 DEF Types, Take
  <2>5. spawned' \in 0 .. (N + 1)
    BY <1>2 DEF Types, Births, Take
  <2>6. Types'
    BY <1>2, <2>1, <2>2, <2>3, <2>4, <2>5 DEF Types, Take, books
  <2>7. Births'
    <3>1. CASE SpawnsChild
      <4>1. spawned' = spawned + 1
        BY <1>2, <3>1 DEF Take
      <4>2. \A d \in Coros : pc'[d] = "unborn" <=> d > spawned'
        BY <1>2, <3>1, <4>1 DEF Types, Births, Coros, Take
      <4> QED BY <2>2, <4>1, <4>2 DEF Types, Births
    <3>2. CASE ~SpawnsChild
      BY <1>2, <2>2, <3>2 DEF Types, Births, Coros, Take
    <3> QED BY <3>1, <3>2
  <2>8. Holding'
    <3> SUFFICES ASSUME NEW d \in Coros
                 PROVE  candidate'[d] # 0 <=> pc'[d] \in Live \ {"next"}
      BY <1>2, <2>2 DEF Types, Holding, Take
    <3>1. CASE d = c
      BY <1>2, <3>1 DEF Types, Take
    <3>2. CASE d # c
      BY <1>2, <3>2 DEF Types, Births, Holding, Take
    <3> QED BY <3>1, <3>2
  <2> QED BY <2>6, <2>7, <2>8
<1>3. ASSUME NEW c \in Coros, Exhaust(c) PROVE Types' /\ Births' /\ Holding'
  <2>1. pc' \in [Coros -> Live \cup {"unborn", "gone"}]
    BY <1>3 DEF Types, Exhaust, Ends
  <2>2. Types'
    BY <1>3, <2>1 DEF Types, Exhaust, books
  <2>3. Births'
    BY <1>3, <2>2 DEF Types, Births, Coros, Exhaust, Ends, books
  <2>4. Holding'
    BY <1>3, <2>2 DEF Types, Births, Holding, Coros, Exhaust, Ends, books
  <2> QED BY <2>2, <2>3, <2>4
<1>4. ASSUME NEW c \in Coros, Attempt(c) PROVE Types' /\ Births' /\ Holding'
  <2>1. pc' \in [Coros -> Live \cup {"unborn", "gone"}]
    BY <1>4 DEF Types, Attempt
  <2>2. stats' \in RunStats
    BY <1>4, Counters DEF Types, Attempt
  <2>3. Types'
    BY <1>4, <2>1, <2>2 DEF Types, Attempt, generator, pool
  <2>4. Births'
    BY <1>4, <2>3 DEF Types, Births, Coros, Attempt, generator, pool
  <2>5. Holding'
    BY <1>4, <2>3 DEF Types, Births, Holding, Coros, Attempt, generator, pool
  <2> QED BY <2>3, <2>4, <2>5
<1>5. ASSUME NEW c \in Coros, Connected(c) PROVE Types' /\ Births' /\ Holding'
  <2>1. pc' \in [Coros -> Live \cup {"unborn", "gone"}]
    BY <1>5 DEF Types, Connected, InTime
  <2>2. Types'
    BY <1>5, <2>1 DEF Types, Connected, InTime, generator, pool, books
  <2>3. Births'
    BY <1>5, <2>2 DEF Types, Births, Coros, Connected, InTime, generator, pool
  <2>4. Holding'
    BY <1>5, <2>2 DEF Types, Births, Holding, Coros, Connected, InTime, generator, pool
  <2> QED BY <2>2, <2>3, <2>4
<1>6. ASSUME NEW c \in Coros, Fail(c) PROVE Types' /\ Births' /\ Holding'
  <2>1. pc' \in [Coros -> Live \cup {"unborn", "gone"}]
    BY <1>6 DEF Types, Fail, Leave, After
  <2>2. redirects' \in [Coros -> 0 .. MaxRedirects]
    BY <1>6 DEF Types, Fail, Leave
  <2>3. onward' \in [Coros -> {"return", "redirect", "throw"}]
    BY <1>6 DEF Types, Fail, Leave
  <2>4. outcome' \in [Candidates -> {"none", "answered", "unanswered", "unstored"}]
    BY <1>6 DEF Types, Fail
  <2>5. Types'
    BY <1>6, <2>1, <2>2, <2>3, <2>4 DEF Types, Fail, generator, pool
  <2>6. Births'
    BY <1>6, <2>5 DEF Types, Births, Coros, Fail, Leave, After, generator, pool
  <2>7. Holding'
    BY <1>6, <2>5 DEF Types, Births, Holding, Coros, Fail, Leave, After, generator, pool
  <2> QED BY <2>5, <2>6, <2>7
<1>7. ASSUME NEW c \in Coros, NEW ok \in BOOLEAN, Respond(c, ok) PROVE Types' /\ Births' /\ Holding'
  <2>1. pc' \in [Coros -> Live \cup {"unborn", "gone"}]
    BY <1>7 DEF Types, Respond, InTime, Leave, After
  <2>2. redirects' \in [Coros -> 0 .. MaxRedirects]
    BY <1>7 DEF Types, Respond, InTime, Leave
  <2>3. onward' \in [Coros -> {"return", "redirect", "throw"}]
    BY <1>7 DEF Types, Respond, InTime, Leave
  <2>4. outcome' \in [Candidates -> {"none", "answered", "unanswered", "unstored"}]
    BY <1>7 DEF Types, Respond, InTime
  <2>5. stats' \in RunStats
    BY <1>7, Counters DEF Types, Respond, InTime
  <2>6. Types'
    BY <1>7, <2>1, <2>2, <2>3, <2>4, <2>5 DEF Types, Respond, InTime, generator, pool
  <2>7. Births'
    BY <1>7, <2>6 DEF Types, Births, Coros, Respond, InTime, Leave, After, generator, pool
  <2>8. Holding'
    BY <1>7, <2>6 DEF Types, Births, Holding, Coros, Respond, InTime, Leave, After, generator, pool
  <2> QED BY <2>6, <2>7, <2>8
<1>8. ASSUME NEW c \in Coros, FailToStore(c) PROVE Types' /\ Births' /\ Holding'
  <2>1. pc' \in [Coros -> Live \cup {"unborn", "gone"}]
    BY <1>8 DEF Types, FailToStore, InTime, Leave, After
  <2>2. redirects' \in [Coros -> 0 .. MaxRedirects]
    BY <1>8 DEF Types, FailToStore, InTime, Leave
  <2>3. onward' \in [Coros -> {"return", "redirect", "throw"}]
    BY <1>8 DEF Types, FailToStore, InTime, Leave
  <2>4. outcome' \in [Candidates -> {"none", "answered", "unanswered", "unstored"}]
    BY <1>8 DEF Types, FailToStore, InTime
  <2>5. stats' \in RunStats
    BY <1>8, Counters DEF Types, FailToStore, InTime
  <2>6. Types'
    BY <1>8, <2>1, <2>2, <2>3, <2>4, <2>5 DEF Types, FailToStore, InTime, generator, pool
  <2>7. Births'
    BY <1>8, <2>6 DEF Types, Births, Coros, FailToStore, InTime, Leave, After, generator, pool
  <2>8. Holding'
    BY <1>8, <2>6 DEF Types, Births, Holding, Coros, FailToStore, InTime, Leave, After, generator,
       pool
  <2> QED BY <2>6, <2>7, <2>8
<1>9. ASSUME NEW c \in Coros, Redirect(c) PROVE Types' /\ Births' /\ Holding'
  <2>1. pc' \in [Coros -> Live \cup {"unborn", "gone"}]
    BY <1>9 DEF Types, Redirect, InTime, Leave, After
  <2>2. redirects' \in [Coros -> 0 .. MaxRedirects]
    BY <1>9 DEF Types, Redirect, InTime, Leave, MayFollow
  <2>3. onward' \in [Coros -> {"return", "redirect", "throw"}]
    BY <1>9 DEF Types, Redirect, InTime, Leave
  <2>4. stats' \in RunStats
    BY <1>9, Counters DEF Types, Redirect, InTime
  <2>5. Types'
    BY <1>9, <2>1, <2>2, <2>3, <2>4 DEF Types, Redirect, InTime, generator, pool
  <2>6. Births'
    BY <1>9, <2>5 DEF Types, Births, Coros, Redirect, InTime, Leave, After, generator, pool
  <2>7. Holding'
    BY <1>9, <2>5 DEF Types, Births, Holding, Coros, Redirect, InTime, Leave, After, generator, pool
  <2> QED BY <2>5, <2>6, <2>7
<1>10. ASSUME NEW c \in Coros, Discarded(c) \/ TornDown(c) PROVE Types' /\ Births' /\ Holding'
  <2>1. pc' \in [Coros -> Live \cup {"unborn", "gone"}]
    BY <1>10 DEF Types, Discarded, TornDown, After
  <2>2. Types'
    BY <1>10, <2>1 DEF Types, Discarded, TornDown, generator, pool, books
  <2>3. Births'
    BY <1>10, <2>2 DEF Types, Births, Coros, Discarded, TornDown, After, generator, pool
  <2>4. Holding'
    <3>1. After(onward[c]) \in {"complete", "attempt", "catch"}
      BY DEF Types, After
    <3> QED
      BY <1>10, <3>1 DEF Types, Holding, Discarded, TornDown, generator, pool, books
  <2> QED BY <2>2, <2>3, <2>4
<1>11. ASSUME NEW c \in Coros, Record(c) PROVE Types' /\ Births' /\ Holding'
  <2>1. pc' \in [Coros -> Live \cup {"unborn", "gone"}]
    BY <1>11 DEF Types, Record
  <2>2. stats' \in RunStats
    BY <1>11, Counters DEF Types, Record
  <2>3. log' \subseteq Candidates
    <3>1. candidate[c] \in Candidates
      BY <1>11 DEF Types, Holding, Record, Candidates
    <3> QED BY <1>11, <3>1 DEF Types, Record, Logs
  <2>4. Types'
    BY <1>11, <2>1, <2>2, <2>3 DEF Types, Record, generator, pool
  <2>5. Births'
    BY <1>11, <2>4 DEF Types, Births, Coros, Record, generator, pool
  <2>6. Holding'
    BY <1>11, <2>4 DEF Types, Births, Holding, Coros, Record, generator, pool
  <2> QED BY <2>4, <2>5, <2>6
<1>12. ASSUME NEW c \in Coros, RecordThrows(c) PROVE Types' /\ Births' /\ Holding'
  <2>1. pc' \in [Coros -> Live \cup {"unborn", "gone"}]
    BY <1>12 DEF Types, RecordThrows, Ends
  <2>2. stats' \in RunStats
    BY <1>12, Counters DEF Types, RecordThrows
  <2>3. candidate' \in [Coros -> 0 .. N]
    BY <1>12 DEF Types, RecordThrows
  <2>4. Types'
    BY <1>12, <2>1, <2>2, <2>3 DEF Types, RecordThrows, generator
  <2>5. Births'
    BY <1>12, <2>4 DEF Types, Births, Coros, RecordThrows, Ends, generator
  <2>6. Holding'
    BY <1>12, <2>4 DEF Types, Births, Holding, Coros, RecordThrows, Ends, generator
  <2> QED BY <2>4, <2>5, <2>6
<1>13. ASSUME NEW c \in Coros, NEW r \in 1 .. Cap, Complete(c, r) PROVE Types' /\ Births' /\ Holding'
  <2>1. pc' \in [Coros -> Live \cup {"unborn", "gone"}]
    BY <1>13 DEF Types, Complete, Completed, Ends
  <2>2. candidate' \in [Coros -> 0 .. N]
    BY <1>13 DEF Types, Complete, Completed
  <2>3. Types'
    BY <1>13, <2>1, <2>2 DEF Types, Complete, Completed, generator, books
  <2>4. Births'
    BY <1>13, <2>3 DEF Types, Births, Coros, Complete, Completed, Ends, generator
  <2>5. Holding'
    <3>1. candidate' = [candidate EXCEPT ![c] = 0]
      BY <1>13 DEF Complete, Completed
    <3>2. pc' = [pc EXCEPT ![c] = "gone"] \/ pc' = [pc EXCEPT ![c] = "next"]
      BY <1>13 DEF Complete, Completed, Ends
    <3> QED
      BY <1>13, <3>1, <3>2 DEF Types, Holding, Complete, Completed, generator
  <2> QED BY <2>3, <2>4, <2>5
<1>14. CASE Feed
  <2>1. available' \in 0 .. N /\ available' = available + 1 /\ available < N
    BY <1>14 DEF Feed, Types
  <2> QED BY <1>14, <2>1 DEF Feed, pool, books, Types, Births, Holding
<1>15. CASE CloseInput \/ Loses
  BY <1>15 DEF CloseInput, Loses, LoseTimer, generator, pool, books, Types, Births, Holding
<1>16. CASE UNCHANGED vars
  BY <1>16 DEF vars, generator, pool, books, Types, Births, Holding
<1> QED
  BY <1>1, <1>2, <1>3, <1>4, <1>5, <1>6, <1>7, <1>8, <1>9, <1>10, <1>11, <1>12, <1>13,
     <1>14, <1>15, <1>16 DEF Next, Step, Loses

-----------------------------------------------------------------------------
\* There are at most N + 1 coroutines, so they can be counted.
LEMMA LiveFinite == IsFiniteSet(LiveCoros) /\ Cardinality(LiveCoros) \in 0 .. (N + 1)
<1>1. IsFiniteSet(1 .. (N + 1)) /\ Cardinality(1 .. (N + 1)) = N + 1
  BY FS_Interval, ConstantsAssumption
<1>2. LiveCoros \in SUBSET (1 .. (N + 1))
  BY DEF LiveCoros, Coros
<1>3. IsFiniteSet(LiveCoros) /\ Cardinality(LiveCoros) <= N + 1
  BY <1>1, <1>2, FS_Subset
<1>4. Cardinality(LiveCoros) \in Nat
  BY <1>3, FS_CardinalityType
<1> QED
  BY <1>3, <1>4, ConstantsAssumption

\* A coroutine that ends is no longer among the live ones, and is counted out.
LEMMA EndCounts ==
  ASSUME Types, CounterExact, NEW c \in LiveCoros, Ends(c)
  PROVE  CounterExact'
<1>1. LiveCoros' = LiveCoros \ {c}
  BY DEF Types, Ends, LiveCoros, Live, OnThread, Suspended, Waiting, Closing
<1>2. Cardinality(LiveCoros \ {c}) = Cardinality(LiveCoros) - 1
  BY LiveFinite, FS_RemoveElement
<1> QED
  BY <1>1, <1>2 DEF CounterExact, Ends

\* A step that keeps every coroutine alive or not alive keeps the count.
LEMMA SameLiveCounts ==
  ASSUME CounterExact, UNCHANGED active,
         \A c \in Coros : pc'[c] \in Live <=> pc[c] \in Live
  PROVE  CounterExact'
<1>1. LiveCoros' = LiveCoros
  BY DEF LiveCoros
<1> QED
  BY <1>1 DEF CounterExact

\* Every step changes active_coroutines and the set of coroutines together.
LEMMA StepCount == Shape /\ CounterExact /\ [Next]_vars => CounterExact'
<1> USE ConstantsAssumption DEF Live, Suspended, Waiting, Closing, OnThread
<1> SUFFICES ASSUME Types, Births, CounterExact, [Next]_vars
             PROVE  CounterExact'
  BY DEF Shape
<1>1. CASE Start
  <2>1. 1 \in Coros /\ \A d \in Coros : pc[d] = "unborn"
    BY <1>1 DEF Births, Start, Coros
  <2>2. LiveCoros' = {1}
    BY <1>1, <2>1 DEF Types, Start, LiveCoros
  <2> QED
    BY <1>1, <2>2, FS_Singleton DEF Start, CounterExact
<1>2. ASSUME NEW c \in Coros, Take(c) PROVE CounterExact'
  <2>1. CASE SpawnsChild
    <3>1. spawned + 1 \in Coros /\ spawned + 1 \notin LiveCoros
      <4>1. spawned + 1 \in Coros
        BY <1>2 DEF Types, Births, Take, Coros
      <4>2. pc[spawned + 1] = "unborn"
        BY <4>1 DEF Types, Births, Coros
      <4> QED BY <4>1, <4>2 DEF LiveCoros
    <3>2. LiveCoros' = LiveCoros \cup {spawned + 1}
      BY <1>2, <2>1, <3>1 DEF Types, Take, LiveCoros
    <3>3. Cardinality(LiveCoros') = Cardinality(LiveCoros) + 1
      BY <3>1, <3>2, LiveFinite, FS_AddElement
    <3> QED
      BY <1>2, <2>1, <3>3 DEF Take, CounterExact
  <2>2. CASE ~SpawnsChild
    BY <1>2, <2>2, SameLiveCounts DEF Types, Take
  <2> QED
    BY <2>1, <2>2
<1>3. ASSUME NEW c \in Coros, Exhaust(c) \/ RecordThrows(c) PROVE CounterExact'
  <2>1. c \in LiveCoros /\ Ends(c)
    BY <1>3 DEF Exhaust, RecordThrows, LiveCoros
  <2> QED
    BY <2>1, EndCounts
<1>4. ASSUME NEW c \in Coros, NEW r \in 1 .. Cap, Complete(c, r) PROVE CounterExact'
  <2>1. CASE Retires(r)
    BY <1>4, <2>1, EndCounts DEF Complete, Completed, LiveCoros
  <2>2. CASE ~Retires(r)
    BY <1>4, <2>2, SameLiveCounts DEF Types, Complete, Completed
  <2> QED
    BY <2>1, <2>2
<1>5. ASSUME NEW c \in Coros, Attempt(c) \/ Connected(c) \/ Record(c) PROVE CounterExact'
  BY <1>5, SameLiveCounts DEF Types, Attempt, Connected, InTime, Record, pool
<1>6. ASSUME NEW c \in Coros, NEW next \in {"return", "redirect", "throw"},
             NEW closing \in Closing, pc[c] \in Waiting, Leave(c, next, closing),
             UNCHANGED pool
      PROVE  CounterExact'
  BY <1>6, SameLiveCounts DEF Types, Leave, After, pool
<1>7. ASSUME NEW c \in Coros, Fail(c) PROVE CounterExact'
  BY <1>7, <1>6 DEF Fail
<1>8. ASSUME NEW c \in Coros, NEW ok \in BOOLEAN, Respond(c, ok) PROVE CounterExact'
  BY <1>8, <1>6 DEF Respond, InTime
<1>9. ASSUME NEW c \in Coros, FailToStore(c) \/ Redirect(c) PROVE CounterExact'
  BY <1>9, <1>6 DEF FailToStore, Redirect, InTime
<1>10. ASSUME NEW c \in Coros, Discarded(c) \/ TornDown(c) PROVE CounterExact'
  <2>1. After(onward[c]) \in Live /\ pc[c] \in Live
    BY <1>10 DEF Types, After, Discarded, TornDown
  <2> QED
    BY <1>10, <2>1, SameLiveCounts DEF Types, Discarded, TornDown, pool
<1>11. CASE Feed \/ CloseInput \/ Loses \/ UNCHANGED vars
  BY <1>11, SameLiveCounts DEF Feed, CloseInput, Loses, LoseTimer, vars, pool
<1> QED
  BY <1>1, <1>2, <1>3, <1>4, <1>5, <1>7, <1>8, <1>9, <1>10, <1>11 DEF Next, Step, Loses

\* The invariant the theorems below start from.
LEMMA ShapeInvariant == Spec => [](Shape /\ CounterExact)
<1>1. Init => CounterExact
  <2> SUFFICES ASSUME Init PROVE CounterExact
    OBVIOUS
  <2>1. LiveCoros = {}
    BY DEF Init, LiveCoros, Live, OnThread, Suspended, Waiting, Closing
  <2> QED
    BY <2>1, FS_EmptySet DEF Init, CounterExact
<1> QED
  BY <1>1, InitShape, StepShape, StepCount, PTL DEF Spec

\* An operation that has lost its timer is still awaited, until it fails.
LEMMA StepTiming == Shape /\ Timing /\ [Next]_vars => Timing'
<1> USE DEF Waiting
<1> SUFFICES ASSUME Types, Births, Timing, [Next]_vars PROVE Timing'
  BY DEF Shape
<1> DEFINE Keeps == /\ UNCHANGED untimed
                    /\ \A d \in untimed : pc'[d] = pc[d]
<1>1. ASSUME Keeps PROVE Timing'
  BY <1>1 DEF Timing
<1>2. CASE Start
  <2>1. 1 \notin untimed
    BY <1>2, ConstantsAssumption DEF Start, Births, Timing, Coros
  <2> QED
    BY <1>1, <1>2, <2>1 DEF Start, Types, Timing
<1>3. ASSUME NEW c \in Coros, Take(c) PROVE Timing'
  <2>1. c \notin untimed /\ \A d \in untimed : SpawnsChild => d # spawned + 1
    BY <1>3 DEF Take, Births, Timing, Types
  <2> QED
    BY <1>1, <1>3, <2>1 DEF Take, Types, Timing
<1>4. ASSUME NEW c \in Coros, NEW r \in 1 .. Cap,
             Exhaust(c) \/ Attempt(c) \/ Record(c) \/ RecordThrows(c) \/ Complete(c, r)
      PROVE  Timing'
  <2>1. c \notin untimed
    BY <1>4 DEF Exhaust, Attempt, Record, RecordThrows, Complete, Completed, Timing
  <2>2. UNCHANGED untimed /\ \A d \in Coros \ {c} : pc'[d] = pc[d]
    BY <1>4 DEF Exhaust, Attempt, Record, RecordThrows, Complete, Completed, Ends, Types
  <2> QED
    BY <1>1, <2>1, <2>2 DEF Timing
<1>5. ASSUME NEW c \in Coros,
             \/ Connected(c) \/ (\E ok \in BOOLEAN : Respond(c, ok))
             \/ FailToStore(c) \/ Redirect(c)
      PROVE  Timing'
  BY <1>1, <1>5 DEF Connected, Respond, FailToStore, Redirect, InTime, Leave, Timing, Types
<1>6. ASSUME NEW c \in Coros, Discarded(c) \/ TornDown(c) PROVE Timing'
  BY <1>1, <1>6 DEF Discarded, TornDown, Timing, Types
<1>7. ASSUME NEW c \in Coros, Fail(c) PROVE Timing'
  BY <1>7 DEF Fail, Leave, Timing, Types
<1>8. CASE Loses
  BY <1>8 DEF Loses, LoseTimer, Timing
<1>9. CASE Feed \/ CloseInput \/ UNCHANGED vars
  BY <1>1, <1>9 DEF Feed, CloseInput, vars
<1> QED
  <2>1. 1 \in 1 .. Cap
    BY ConstantsAssumption DEF Cap
  <2> QED
    BY <1>2, <1>3, <1>4, <1>5, <1>6, <1>7, <1>8, <1>9, <2>1 DEF Next, Step, Loses

\* The types of the variables, the bound on the pool's counter included: size_t
\* never wraps below zero.
THEOREM TypeCorrect == Spec => []TypeOK
<1>1. Init => Timing
  BY DEF Init, Timing
<1>2. Shape /\ CounterExact /\ Timing => TypeOK
  BY LiveFinite DEF Shape, Types, CounterExact, Timing, TypeOK
<1> QED
  BY <1>1, <1>2, StepTiming, ShapeInvariant, PTL DEF Spec

\* active_coroutines is the number of coroutines that exist.
THEOREM CounterIsExact == Spec => []CounterExact
  BY ShapeInvariant, PTL

\* ConcurrencyBound, of the counter.
WithinCap == active <= Cap

\* Only a spawn makes the pool larger, and only below the recommendation.
LEMMA CapInvariant == Spec => []WithinCap
<1>1. Init => WithinCap
  BY ConstantsAssumption DEF Init, Cap, WithinCap
<1>2. Shape /\ CounterExact /\ WithinCap /\ [Next]_vars => WithinCap'
  <2> SUFFICES ASSUME Types, active \in Int, active <= Cap, [Next]_vars PROVE active' <= Cap
    BY LiveFinite DEF Shape, CounterExact, WithinCap
  <2>1. CASE Start
    BY <2>1, ConstantsAssumption DEF Start, Cap
  <2>2. ASSUME NEW c \in Coros, Take(c) PROVE active' <= Cap
    BY <2>2, ConstantsAssumption DEF Take, SpawnsChild, Types, Cap
  <2>3. ASSUME NEW c \in Coros, Step(c), ~Take(c)
        PROVE  UNCHANGED active \/ active' = active - 1
    BY <2>3 DEF Step, Exhaust, Attempt, LoseTimer, Connected, Fail, Respond, FailToStore, Redirect,
       InTime, Discarded, TornDown, Record, RecordThrows, Complete, Completed, Ends, pool
  <2>4. CASE Feed \/ CloseInput \/ Loses \/ UNCHANGED vars
    BY <2>4 DEF Feed, CloseInput, Loses, LoseTimer, vars, pool
  <2>5. Cap \in Int
    BY ConstantsAssumption DEF Cap
  <2> QED
    BY <2>1, <2>2, <2>3, <2>4, <2>5 DEF Next
<1> QED
  BY <1>1, <1>2, ShapeInvariant, PTL DEF Spec

\* The pool never outgrows the largest recommendation.
THEOREM BoundedConcurrency == Spec => []ConcurrencyBound
<1>1. CounterExact /\ WithinCap => ConcurrencyBound
  BY DEF CounterExact, WithinCap, ConcurrencyBound
<1> QED
  BY <1>1, CapInvariant, ShapeInvariant, PTL

-----------------------------------------------------------------------------
\* The counter is a natural number, and zero until the first coroutine is born.
LEMMA CountIsNatural ==
  ASSUME Shape, CounterExact
  PROVE  active \in Nat /\ (spawned = 0 => active = 0)
<1>1. active \in Nat
  BY LiveFinite, ConstantsAssumption DEF CounterExact
<1>2. spawned = 0 => LiveCoros = {}
  BY DEF Shape, Births, Types, Coros, LiveCoros, Live, OnThread, Suspended, Waiting, Closing
<1> QED
  BY <1>1, <1>2, FS_EmptySet DEF CounterExact

\* With an error log that can be written, the only coroutines to end are those
\* that find the generator empty and those that find too many of them.
LEMMA StepNeverDrained ==
  ~LogMayFail /\ Shape /\ CounterExact /\ NeverDrained /\ [Next]_vars => NeverDrained'
<1> SUFFICES ASSUME ~LogMayFail, Types, active \in Nat, spawned = 0 => active = 0,
                    NeverDrained, [Next]_vars
             PROVE  NeverDrained'
  BY CountIsNatural DEF Shape
<1>1. CASE Start
  BY <1>1 DEF Start, NeverDrained
<1>2. ASSUME NEW c \in Coros, Take(c) PROVE NeverDrained'
  <2>1. spawned' >= spawned /\ active' >= active /\ UNCHANGED is_complete
    BY <1>2 DEF Take, Types
  <2>2. active > 0 \/ spawned = 0 \/ is_complete
    BY DEF NeverDrained, Types
  <2>3. ~is_complete
    BY <1>2 DEF Take
  <2>4. CASE active > 0
    BY <2>1, <2>4 DEF NeverDrained
  <2>5. CASE spawned = 0
    BY <1>2, <2>5, ConstantsAssumption DEF Take, SpawnsChild, NeverDrained, Types
  <2> QED
    BY <2>2, <2>3, <2>4, <2>5
<1>3. ASSUME NEW c \in Coros, Exhaust(c) PROVE NeverDrained'
  BY <1>3 DEF Exhaust, NeverDrained
<1>4. ASSUME NEW c \in Coros, NEW r \in 1 .. Cap, Complete(c, r) PROVE NeverDrained'
  <2>1. CASE Retires(r)
    <3>1. active' > 0
      BY <1>4, <2>1 DEF Complete, Completed, Retires, Ends
    <3> QED
      BY <3>1 DEF NeverDrained
  <2>2. CASE ~Retires(r)
    BY <1>4, <2>2 DEF Complete, Completed, NeverDrained, generator
  <2> QED
    BY <2>1, <2>2
<1>5. ASSUME NEW c \in Coros, Step(c), ~Take(c), ~Exhaust(c),
             ~(\E r \in 1 .. Cap : Complete(c, r))
      PROVE  UNCHANGED <<spawned, active, is_complete>>
  BY <1>5 DEF Step, Attempt, LoseTimer, Connected, Fail, Respond, FailToStore, Redirect,
     InTime, Discarded, TornDown, Record, RecordThrows, pool, generator
<1>6. CASE Feed \/ CloseInput \/ Loses \/ UNCHANGED vars
  BY <1>6 DEF Feed, CloseInput, Loses, LoseTimer, vars, pool, generator, NeverDrained
<1> QED
  BY <1>1, <1>2, <1>3, <1>4, <1>5, <1>6 DEF Next, NeverDrained

\* The program does not return before the generator is exhausted.
THEOREM ScrapeAlwaysCompletes == ~LogMayFail => (Spec => []ScrapeCompletes)
<1>1. Init => NeverDrained
  BY DEF Init, NeverDrained
<1> SUFFICES ASSUME ~LogMayFail PROVE Spec => []ScrapeCompletes
  OBVIOUS
<1>2. CounterExact /\ NeverDrained => ScrapeCompletes
  BY FS_EmptySet DEF CounterExact, NeverDrained, ScrapeCompletes, Returned
<1>3. Shape /\ CounterExact /\ NeverDrained /\ [Next]_vars => NeverDrained'
  BY StepNeverDrained
<1> QED
  BY <1>1, <1>2, <1>3, ShapeInvariant, PTL DEF Spec

-----------------------------------------------------------------------------
\* One coroutine executes, so the one Refilling speaks of is the one that steps.
LEMMA OneExecutes ==
  ASSUME NEW c \in Coros, NEW d \in Coros, Executes(c), Executes(d)
  PROVE  c = d
  BY DEF Executes, Coros

\* Refilling is inductive: a retirement leaves the pool as large as recommended,
\* any other shortage is left by a coroutine that goes on to the generator, and
\* a coroutine it spawns goes there first.
LEMMA StepRefilling ==
  ~LogMayFail /\ Shape /\ CounterExact /\ Refilling /\ [Next]_vars => Refilling'
<1> USE DEF Live, Suspended, Waiting, Closing, OnThread
<1> SUFFICES ASSUME ~LogMayFail, Types, Births, active \in Nat, Refilling, [Next]_vars
             PROVE  Refilling'
  BY LiveFinite, ConstantsAssumption DEF Shape, CounterExact
<1> DEFINE Taker == \E c \in Coros : Executes(c) /\ pc[c] = "next"
           Full == active >= recommended
<1>0. recommended \in Nat
  BY ConstantsAssumption DEF Types, Cap
<1>1. CASE Start
  <2>1. 1 \in Coros /\ \A d \in Coros : pc[d] = "unborn"
    BY <1>1, ConstantsAssumption DEF Births, Start, Coros
  <2>2. pc'[1] = "next" /\ \A d \in Coros : d > 1 => pc'[d] = "unborn"
    BY <1>1, <2>1 DEF Start, Types, Coros
  <2> QED
    BY <2>1, <2>2 DEF Refilling, Executes
<1>2. ASSUME NEW c \in Coros, Take(c) PROVE Refilling'
  <2>1. CASE SpawnsChild
    <3>1. spawned + 1 \in Coros
      BY <1>2, ConstantsAssumption DEF Types, Births, Take, Coros
    <3>2. \A d \in Coros : d > spawned + 1 => pc'[d] = "unborn"
      BY <1>2, <2>1, <3>1 DEF Types, Births, Take, Coros
    <3>3. pc'[spawned + 1] = "next"
      <4>1. pc[spawned + 1] = "unborn"
        BY <3>1 DEF Types, Births, Coros
      <4> QED
        BY <1>2, <2>1, <3>1, <4>1 DEF Take
    <3> QED
      BY <3>1, <3>2, <3>3 DEF Refilling, Executes
  <2>2. CASE ~SpawnsChild
    BY <1>0, <1>2, <2>2 DEF Take, SpawnsChild, Refilling, Types
  <2> QED
    BY <2>1, <2>2
<1>3. ASSUME NEW c \in Coros, Exhaust(c) PROVE Refilling'
  BY <1>3 DEF Exhaust, Refilling
<1>4. ASSUME NEW c \in Coros, NEW r \in 1 .. Cap, Complete(c, r) PROVE Refilling'
  <2>1. CASE Retires(r)
    <3>1. ~(active' < recommended')
      BY <1>4, <2>1 DEF Complete, Completed, Retires, Ends
    <3> QED
      BY <3>1 DEF Refilling
  <2>2. CASE ~Retires(r)
    <3>1. pc' = [pc EXCEPT ![c] = "next"]
      BY <1>4, <2>2 DEF Complete, Completed
    <3>2. pc'[c] = "next" /\ \A d \in Coros : d > c => pc'[d] \notin OnThread
      BY <1>4, <3>1 DEF Complete, Completed, Executes, Types, Coros
    <3> QED
      BY <3>2 DEF Refilling, Executes
  <2> QED
    BY <2>1, <2>2
<1>5. ASSUME UNCHANGED <<spawned, active, recommended, is_complete>>, ~Taker
      PROVE  Refilling'
  BY <1>5 DEF Refilling
<1>6. ASSUME NEW c \in Coros, Attempt(c) \/ Record(c) PROVE Refilling'
  <2>1. ~Taker
    BY <1>6, OneExecutes DEF Attempt, Record
  <2> QED
    BY <1>5, <1>6, <2>1 DEF Attempt, Record, pool, generator
<1>7. ASSUME LoopIdle PROVE ~Taker
  BY <1>7 DEF LoopIdle, Executes
<1>8. ASSUME NEW c \in Coros,
             \/ Connected(c) \/ Fail(c) \/ (\E ok \in BOOLEAN : Respond(c, ok))
             \/ FailToStore(c) \/ Redirect(c) \/ Discarded(c) \/ TornDown(c)
      PROVE  Refilling'
  BY <1>5, <1>7, <1>8 DEF Connected, Fail, Respond, FailToStore, Redirect, InTime, Discarded,
     TornDown, pool, generator
<1>9. CASE Feed \/ CloseInput \/ Loses \/ UNCHANGED vars
  BY <1>9 DEF Feed, CloseInput, Loses, LoseTimer, vars, pool, generator, Refilling, Executes
<1> QED
  BY <1>1, <1>2, <1>3, <1>4, <1>6, <1>8, <1>9 DEF Next, Step, Loses, RecordThrows

\* While the event loop waits and candidates remain, the pool is full.
THEOREM PoolStaysFull == ~LogMayFail => (Spec => []WorkConserving)
<1> SUFFICES ASSUME ~LogMayFail PROVE Spec => []WorkConserving
  OBVIOUS
<1>1. Init => Refilling
  BY DEF Init, Refilling
<1>2. Shape /\ CounterExact /\ Refilling => WorkConserving
  <2> SUFFICES ASSUME Types, active \in Nat, Refilling, LoopIdle, spawned > 0, ~is_complete
               PROVE  active >= recommended
    BY LiveFinite, ConstantsAssumption DEF Shape, CounterExact, WorkConserving
  <2>1. ~(active < recommended)
    BY DEF Refilling, LoopIdle, Executes
  <2>2. recommended \in Nat
    BY ConstantsAssumption DEF Types, Cap
  <2> QED
    BY <2>1, <2>2
<1>3. Shape /\ CounterExact /\ Refilling /\ [Next]_vars => Refilling'
  BY StepRefilling
<1> QED
  BY <1>1, <1>2, <1>3, ShapeInvariant, PTL DEF Spec

-----------------------------------------------------------------------------
\* The outcome of the candidate in c's hands is settled: c has left its last
\* connection for it.
Decided(c) == \/ pc[c] \in {"catch", "complete"}
              \/ pc[c] \in Closing /\ onward[c] # "redirect"

\* Candidates are handed out in order, to one coroutine each, and have an
\* outcome from the moment their last connection is left.
Handed == /\ \A c \in Coros : candidate[c] <= taken
          /\ \A c, d \in Coros : candidate[c] = candidate[d] => c = d \/ candidate[c] = 0
          /\ \A u \in Candidates : u > taken => outcome[u] = "none"
          /\ \A u \in Candidates :
               u <= taken => outcome[u] # "none" \/ \E c \in Coros : candidate[c] = u
          /\ \A c \in Coros : Decided(c) => outcome[candidate[c]] # "none"

\* A step that neither takes nor settles nor drops a candidate.
LEMMA HandedKept ==
  ASSUME Handed, UNCHANGED <<candidate, taken, outcome>>,
         \A c \in Coros : Decided(c)' => Decided(c)
  PROVE  Handed'
  BY DEF Handed

\* A step that settles the candidate in c's hands.
LEMMA HandedSettled ==
  ASSUME Types, Holding, Handed, NEW c \in Coros, pc[c] \in Waiting,
         NEW v \in {"answered", "unanswered", "unstored"},
         outcome' = [outcome EXCEPT ![candidate[c]] = v],
         UNCHANGED <<candidate, taken>>,
         \A d \in Coros \ {c} : Decided(d)' => Decided(d)
  PROVE  Handed'
<1>1. candidate[c] \in Candidates
  BY DEF Types, Holding, Live, Suspended, Waiting, OnThread, Candidates
<1>2. /\ outcome'[candidate[c]] = v
      /\ \A u \in Candidates : u # candidate[c] => outcome'[u] = outcome[u]
  BY <1>1 DEF Types
<1>3. \A d \in Coros : candidate[d] = 0 \/ candidate[d] \in Candidates
  BY ConstantsAssumption DEF Types, Candidates
<1>4. \A d \in Coros : Decided(d) => candidate[d] # 0
  BY DEF Holding, Decided, Live, Suspended, Closing, OnThread
<1>5. \A u \in Candidates : u > taken => outcome'[u] = "none"
  BY <1>1, <1>2, ConstantsAssumption DEF Handed, Types, Candidates
<1>6. \A u \in Candidates : u <= taken
        => outcome'[u] # "none" \/ \E d \in Coros : candidate[d] = u
  BY <1>1, <1>2 DEF Handed
<1>7. \A d \in Coros : Decided(d)' => outcome'[candidate[d]] # "none"
  BY <1>1, <1>2, <1>3, <1>4 DEF Handed
<1> QED
  BY <1>5, <1>6, <1>7 DEF Handed

\* A step after which c no longer holds the candidate whose outcome is settled.
LEMMA HandedDropped ==
  ASSUME Types, Holding, Handed, NEW c \in Coros, pc[c] \in {"catch", "complete"},
         candidate' = [candidate EXCEPT ![c] = 0],
         UNCHANGED <<taken, outcome>>,
         ~Decided(c)',
         \A d \in Coros \ {c} : Decided(d)' => Decided(d)
  PROVE  Handed'
<1>1. candidate'[c] = 0 /\ \A d \in Coros \ {c} : candidate'[d] = candidate[d]
  BY DEF Types
<1>2. outcome[candidate[c]] # "none"
  BY DEF Handed, Decided
<1>3. \A d \in Coros : candidate'[d] <= taken
  BY <1>1 DEF Handed, Types
<1>4. \A d, e \in Coros : candidate'[d] = candidate'[e] => d = e \/ candidate'[d] = 0
  BY <1>1 DEF Handed
<1>5. \A u \in Candidates : u <= taken
        => outcome[u] # "none" \/ \E d \in Coros : candidate'[d] = u
  BY <1>1, <1>2 DEF Handed
<1>6. \A d \in Coros : Decided(d)' => outcome[candidate'[d]] # "none"
  BY <1>1 DEF Handed
<1> QED
  BY <1>3, <1>4, <1>5, <1>6 DEF Handed

\* The next candidate goes to a coroutine that held none.
LEMMA HandedTaken ==
  ASSUME Types, Births, Holding, Handed, NEW c \in Coros, Take(c)
  PROVE  Handed'
<1> USE ConstantsAssumption
<1>1. /\ candidate[c] = 0
      /\ taken' = taken + 1 /\ taken \in 0 .. N
      /\ UNCHANGED outcome
  BY DEF Take, Advance, Holding, Types, books
<1>2. candidate'[c] = taken + 1 /\ \A d \in Coros \ {c} : candidate'[d] = candidate[d]
  BY DEF Types, Take
<1>3. \A d \in Coros : Decided(d)' => Decided(d) /\ d # c
  BY DEF Take, Types, Decided, Closing
<1>4. \A d \in Coros : candidate[d] \in 0 .. taken
  BY <1>1 DEF Types, Handed
<1>5. \A d \in Coros : candidate'[d] <= taken'
  BY <1>1, <1>2, <1>4
<1>6. \A d, e \in Coros : candidate'[d] = candidate'[e] => d = e \/ candidate'[d] = 0
  BY <1>1, <1>2, <1>4 DEF Handed
<1>7. \A u \in Candidates : u > taken' => outcome'[u] = "none"
  BY <1>1 DEF Handed, Candidates
<1>8. \A u \in Candidates : u <= taken'
        => outcome'[u] # "none" \/ \E d \in Coros : candidate'[d] = u
  <2> TAKE u \in Candidates
  <2>1. CASE u = taken + 1
    BY <1>2, <2>1
  <2>2. CASE u # taken + 1
    BY <1>1, <1>2, <2>2 DEF Handed, Candidates
  <2> QED BY <2>1, <2>2
<1>9. \A d \in Coros : Decided(d)' => outcome'[candidate'[d]] # "none"
  BY <1>1, <1>2, <1>3 DEF Handed
<1> QED
  BY <1>5, <1>6, <1>7, <1>8, <1>9 DEF Handed

\* What Leave does to the coroutine's state, whatever is next.
LEMMA LeaveLeavesOthers ==
  ASSUME Types, NEW c \in Coros, NEW next, NEW closing, Leave(c, next, closing)
  PROVE  \A d \in Coros \ {c} : Decided(d)' => Decided(d)
  BY DEF Types, Leave, Decided

\* Every step hands out, settles, drops or keeps.
LEMMA StepHanded == Shape /\ Handed /\ [Next]_vars => Handed'
<1> SUFFICES ASSUME Types, Births, Holding, Handed, [Next]_vars PROVE Handed'
  BY DEF Shape
<1>1. CASE Start
  BY <1>1, HandedKept DEF Start, Types, Decided, Closing, generator, books
<1>2. ASSUME NEW c \in Coros, Take(c) PROVE Handed'
  BY <1>2, HandedTaken
<1>3. ASSUME NEW c \in Coros, Exhaust(c) PROVE Handed'
  BY <1>3, HandedKept DEF Exhaust, Ends, Types, Decided, Closing, books
<1>4. ASSUME NEW c \in Coros, Attempt(c) \/ Connected(c) PROVE Handed'
  BY <1>4, HandedKept DEF Attempt, Connected, InTime, Types, Decided, Closing, generator, books
<1>5. ASSUME NEW c \in Coros, Fail(c) PROVE Handed'
  BY <1>5, HandedSettled, LeaveLeavesOthers DEF Fail, generator
<1>6. ASSUME NEW c \in Coros, NEW ok \in BOOLEAN, Respond(c, ok) PROVE Handed'
  BY <1>6, HandedSettled, LeaveLeavesOthers DEF Respond, InTime, Waiting, generator
<1>7. ASSUME NEW c \in Coros, FailToStore(c) PROVE Handed'
  BY <1>7, HandedSettled, LeaveLeavesOthers DEF FailToStore, InTime, Waiting, generator
<1>8. ASSUME NEW c \in Coros, Redirect(c) PROVE Handed'
  <2>1. ~Decided(c)'
    BY <1>8 DEF Redirect, InTime, Leave, After, Types, Decided, Closing
  <2> QED
    BY <1>8, <2>1, HandedKept, LeaveLeavesOthers DEF Redirect, InTime, generator
<1>9. ASSUME NEW c \in Coros, Discarded(c) \/ TornDown(c) PROVE Handed'
  <2>1. Decided(c)' => Decided(c)
    BY <1>9 DEF Discarded, TornDown, After, Types, Decided, Closing
  <2> QED
    BY <1>9, <2>1, HandedKept DEF Discarded, TornDown, Types, Decided, generator, books
<1>10. ASSUME NEW c \in Coros, Record(c) PROVE Handed'
  BY <1>10, HandedKept DEF Record, Types, Decided, Closing, generator
<1>11. ASSUME NEW c \in Coros, RecordThrows(c) PROVE Handed'
  BY <1>11, HandedDropped DEF RecordThrows, Ends, Types, Decided, Closing, generator
<1>12. ASSUME NEW c \in Coros, NEW r \in 1 .. Cap, Complete(c, r) PROVE Handed'
  BY <1>12, HandedDropped DEF Complete, Completed, Ends, Types, Decided, Closing, generator, books
<1>13. CASE Feed \/ CloseInput \/ Loses \/ UNCHANGED vars
  BY <1>13, HandedKept DEF Feed, CloseInput, Loses, LoseTimer, vars, Decided, generator, books
<1> QED
  BY <1>1, <1>2, <1>3, <1>4, <1>5, <1>6, <1>7, <1>8, <1>9, <1>10, <1>11, <1>12, <1>13
  DEF Next, Step, Loses

\* The invariant the theorems below start from.
LEMMA HandedInvariant == Spec => [](Shape /\ CounterExact /\ Handed)
<1>1. Init => Handed
  BY ConstantsAssumption
  DEF Init, Handed, Decided, Closing, Candidates
<1> QED
  BY <1>1, StepHanded, ShapeInvariant, PTL DEF Spec

\* Every candidate taken is in one coroutine's hands or has an outcome, and none
\* is touched before the generator returned it.
THEOREM CandidatesHandledOnce == Spec => []ExactlyOnce
<1>1. Shape /\ Handed => ExactlyOnce
  <2> SUFFICES ASSUME Types, Holding, Handed, NEW u \in Candidates
               PROVE  /\ \A c, d \in HeldBy(u) : c = d
                      /\ HeldBy(u) \subseteq LiveCoros
                      /\ u <= taken => HeldBy(u) # {} \/ outcome[u] # "none"
                      /\ u > taken => HeldBy(u) = {} /\ outcome[u] = "none"
    BY DEF Shape, ExactlyOnce
  <2>1. u # 0
    BY DEF Candidates
  <2>2. \A c, d \in HeldBy(u) : c = d
    BY <2>1 DEF Handed, HeldBy
  <2>3. HeldBy(u) \subseteq LiveCoros
    BY <2>1 DEF Holding, HeldBy, LiveCoros
  <2>4. u <= taken => HeldBy(u) # {} \/ outcome[u] # "none"
    BY DEF Handed, HeldBy
  <2>5. u > taken => HeldBy(u) = {} /\ outcome[u] = "none"
    BY DEF Handed, HeldBy, Types, Candidates
  <2> QED
    BY <2>2, <2>3, <2>4, <2>5
<1> QED
  BY <1>1, HandedInvariant, PTL

-----------------------------------------------------------------------------
\* A coroutine that asks the generator holds nothing, so fewer candidates than
\* coroutines are in hand.
LEMMA HeldFewer ==
  ASSUME Types, Holding, CounterExact, NEW c \in LiveCoros, pc[c] = "next"
  PROVE  IsFiniteSet(Held) /\ Cardinality(Held) < active
<1> DEFINE Others == LiveCoros \ {c}
           holder == [u \in Held |-> CHOOSE d \in Coros : candidate[d] = u]
<1>1. IsFiniteSet(Others) /\ Cardinality(Others) = active - 1 /\ active \in Nat
  BY LiveFinite, FS_RemoveElement, ConstantsAssumption DEF CounterExact
<1>2. \A u \in Held : holder[u] \in Coros /\ candidate[holder[u]] = u
  BY DEF Held, HeldBy
<1>3. \A u \in Held : holder[u] \in Others
  <2> TAKE u \in Held
  <2>1. u # 0
    BY DEF Held, Candidates
  <2>2. holder[u] \in LiveCoros /\ pc[holder[u]] # "next"
    BY <1>2, <2>1 DEF Holding, LiveCoros
  <2> QED
    BY <2>2
<1>4. holder \in Injection(Held, Others)
  <2>1. holder \in [Held -> Others]
    BY <1>3
  <2>2. \A u, v \in Held : holder[u] = holder[v] => u = v
    BY <1>2
  <2> QED
    BY <2>1, <2>2 DEF Injection, IsInjective
<1>5. IsFiniteSet(Held) /\ Cardinality(Held) <= Cardinality(Others)
  BY <1>1, <1>4, FS_Injection
<1>6. Cardinality(Held) \in Nat
  BY <1>5, FS_CardinalityType
<1> QED
  BY <1>1, <1>5, <1>6

\* Taking a candidate is beginning it.
LEMMA TakeBegins ==
  ASSUME Types, Births, Holding, Handed, CounterExact, WithinCap, NEW c \in Coros, Take(c)
  PROVE  C!Begin
<1> USE ConstantsAssumption
<1>1. /\ candidate[c] = 0 /\ taken' = taken + 1
      /\ taken \in 0 .. N /\ taken < N
  BY DEF Take, Advance, Holding, Types
<1>2. candidate'[c] = taken + 1 /\ \A d \in Coros \ {c} : candidate'[d] = candidate[d]
  BY DEF Types, Take
<1>3. c \in LiveCoros /\ pc[c] = "next"
  BY DEF Take, LiveCoros, Live, OnThread
<1>4. Cardinality(Held) < Cap
  <2>1. Cardinality(Held) \in Nat /\ Cardinality(Held) < active
    BY <1>3, HeldFewer, FS_CardinalityType
  <2>2. active \in Nat /\ Cap \in Nat
    BY LiveFinite DEF CounterExact, Cap
  <2> QED
    BY <2>1, <2>2 DEF WithinCap
<1>5. Held' = Held \cup {taken + 1}
  <2>1. \A u \in Candidates : HeldBy(u)' # {} <=> HeldBy(u) # {} \/ u = taken + 1
    BY <1>1, <1>2 DEF HeldBy, Candidates
  <2>2. taken + 1 \in Candidates
    BY <1>1 DEF Candidates
  <2> QED
    BY <2>1, <2>2 DEF Held
<1>6. C!Cardinality(Held) = Cardinality(Held)
  BY Zenon DEF C!Cardinality, Cardinality
<1> QED
  BY <1>1, <1>4, <1>5, <1>6 DEF C!Begin

\* Dropping a candidate is ending it.
LEMMA DropEnds ==
  ASSUME Types, Holding, Handed, NEW c \in Coros, pc[c] \in {"catch", "complete"},
         candidate' = [candidate EXCEPT ![c] = 0], UNCHANGED taken
  PROVE  \E u \in 1 .. N : C!End(u)
<1>1. candidate'[c] = 0 /\ \A d \in Coros \ {c} : candidate'[d] = candidate[d]
  BY DEF Types
<1>2. candidate[c] \in Candidates
  BY ConstantsAssumption DEF Types, Holding, Live, OnThread, Candidates
<1>3. candidate[c] \in Held
  BY <1>2 DEF Held, HeldBy
<1>4. Held' = Held \ {candidate[c]}
  <2>1. \A u \in Candidates : HeldBy(u)' # {} <=> HeldBy(u) # {} /\ u # candidate[c]
    <3> TAKE u \in Candidates
    <3>1. CASE u = candidate[c]
      BY <1>1, <1>2, <3>1 DEF HeldBy, Handed, Candidates
    <3>2. CASE u # candidate[c]
      BY <1>1, <3>2 DEF HeldBy, Candidates
    <3> QED BY <3>1, <3>2
  <2> QED
    BY <2>1 DEF Held
<1> QED
  BY <1>2, <1>3, <1>4 DEF C!End, Candidates

\* The pool implements Crawl: candidates are begun in order, each once, never
\* more than Cap at a time, and each ends once.
THEOREM PoolImplementsCrawl == Spec => ImplementsCrawl
<1>1. Init => C!Init
  BY DEF Init, C!Init, Held, HeldBy, Candidates
<1>2. Shape /\ CounterExact /\ Handed /\ WithinCap /\ [Next]_vars
        => [C!Next]_<<taken, Held>>
  <2> SUFFICES ASSUME Types, Births, Holding, CounterExact, Handed, WithinCap, [Next]_vars
               PROVE  [C!Next]_<<taken, Held>>
    BY DEF Shape
  <2>1. ASSUME NEW c \in Coros, Take(c) PROVE C!Next
    BY <2>1, TakeBegins DEF C!Next
  <2>2. ASSUME NEW c \in Coros, RecordThrows(c) PROVE C!Next
    BY <2>2, DropEnds DEF RecordThrows, generator, C!Next
  <2>3. ASSUME NEW c \in Coros, NEW r \in 1 .. Cap, Complete(c, r) PROVE C!Next
    BY <2>3, DropEnds DEF Complete, Completed, generator, C!Next
  <2>4. ASSUME UNCHANGED <<taken, candidate>> PROVE UNCHANGED <<taken, Held>>
    BY <2>4 DEF Held, HeldBy
  <2>5. ASSUME NEW c \in Coros, Step(c), ~Take(c), ~RecordThrows(c),
               ~(\E r \in 1 .. Cap : Complete(c, r))
        PROVE  UNCHANGED <<taken, candidate>>
    BY <2>5 DEF Step, Exhaust, Attempt, LoseTimer, Connected, Fail, Respond, FailToStore, Redirect,
       InTime, Discarded, TornDown, Record, generator
  <2>6. CASE Start \/ Feed \/ CloseInput \/ Loses \/ UNCHANGED vars
    BY <2>4, <2>6 DEF Start, Feed, CloseInput, Loses, LoseTimer, vars, generator
  <2> QED
    BY <2>1, <2>2, <2>3, <2>4, <2>5, <2>6 DEF Next
<1> QED
  BY <1>1, <1>2, HandedInvariant, CapInvariant, PTL DEF Spec, ImplementsCrawl, C!Spec

-----------------------------------------------------------------------------
\* What a coroutine does with its connection.
Phase(c) == IF pc[c] \in Suspended THEN pc[c] ELSE "idle"
Phases == [c \in Coros |-> Phase(c)]

\* A coroutine that moves alone moves its own phase.
LEMMA PhaseOfOne ==
  ASSUME Types, NEW c \in Coros, NEW to, pc' = [pc EXCEPT ![c] = to]
  PROVE  Phases' = [Phases EXCEPT ![c] = IF to \in Suspended THEN to ELSE "idle"]
  BY DEF Types, Phases, Phase

\* Steps on the thread leave every connection idle, but for Attempt.
LEMMA PhasesKept ==
  ASSUME Types, \A c \in Coros : pc'[c] = pc[c] \/ {pc[c], pc'[c]} \cap Suspended = {}
  PROVE  Phases' = Phases
  BY DEF Phases, Phase

\* A response, a failure or a redirect ends the use of a connection.
LEMMA LeavePhase ==
  ASSUME Types, NEW c \in Coros, pc[c] \in Waiting, NEW next \in {"return", "redirect", "throw"},
         NEW closing \in Closing, closing = "discard" => pc[c] = "connect",
         Leave(c, next, closing)
  PROVE  Link!GiveUp(c) \/ Link!Finish(c)
<1> USE ConstantsAssumption DEF Suspended, Waiting, Closing
<1>1. pc' = [pc EXCEPT ![c] = IF Tls THEN closing ELSE After(next)]
  BY DEF Leave
<1>2. After(next) \notin Suspended
  BY DEF After
<1>3. Phases' = [Phases EXCEPT ![c] = IF Tls THEN closing ELSE "idle"]
  BY <1>1, <1>2, PhaseOfOne
<1>4. Phases[c] = pc[c]
  BY DEF Phases, Phase
<1>5. CASE pc[c] = "connect"
  BY <1>3, <1>4, <1>5 DEF Link!GiveUp, Link!Becomes, Link!Closing, Phases, Phase
<1>6. CASE pc[c] = "exchange"
  BY <1>3, <1>4, <1>6 DEF Link!Finish, Link!Becomes, Phases, Phase
<1> QED
  BY <1>5, <1>6

\* Every step of the pool is one of Attempts, or leaves the connections alone.
LEMMA StepLink == Shape /\ [Next]_vars => [Link!Next]_<<Phases, Tls>>
<1> SUFFICES ASSUME Types, Births, [Next]_vars
             PROVE  (\E c \in Coros : \/ Link!Begin(c) \/ Link!Establish(c) \/ Link!GiveUp(c)
                                      \/ Link!Finish(c) \/ Link!Close(c))
                    \/ Phases' = Phases
  BY DEF Shape, Link!Next, Phases, Phase
<1> USE DEF Suspended, Waiting, Closing
<1>1. CASE Start
  <2>1. 1 \in Coros /\ pc[1] = "unborn"
    BY <1>1, ConstantsAssumption DEF Start, Births, Coros
  <2> QED
    BY <1>1, <2>1, PhasesKept DEF Start, Types
<1>2. ASSUME NEW c \in Coros, Take(c) PROVE Phases' = Phases
  <2>1. \A d \in Coros : SpawnsChild /\ d = spawned + 1 => pc[d] = "unborn"
    BY DEF Births, Types
  <2> QED
    BY <1>2, <2>1, PhasesKept DEF Take
<1>3. ASSUME NEW c \in Coros, Exhaust(c) \/ Record(c) \/ RecordThrows(c) PROVE Phases' = Phases
  BY <1>3, PhasesKept DEF Exhaust, Record, RecordThrows, Ends, Types
<1>4. ASSUME NEW c \in Coros, NEW r \in 1 .. Cap, Complete(c, r) PROVE Phases' = Phases
  <2>1. pc[c] = "complete" /\ \E to \in {"gone", "next"} : pc' = [pc EXCEPT ![c] = to]
    BY <1>4 DEF Complete, Completed, Ends
  <2> QED
    BY <2>1, PhasesKept DEF Types
<1>5. ASSUME NEW c \in Coros, Attempt(c) PROVE Link!Begin(c)
  <2>1. Phases' = [Phases EXCEPT ![c] = "connect"] /\ Phases[c] = "idle"
    BY <1>5, PhaseOfOne DEF Attempt, Phases, Phase
  <2> QED
    BY <2>1 DEF Link!Begin, Link!Becomes, Phases, Phase
<1>6. ASSUME NEW c \in Coros, Connected(c) PROVE Link!Establish(c)
  <2>1. Phases' = [Phases EXCEPT ![c] = "exchange"] /\ Phases[c] = "connect"
    BY <1>6, PhaseOfOne DEF Connected, InTime, Phases, Phase
  <2> QED
    BY <2>1 DEF Link!Establish, Link!Becomes, Phases, Phase
<1>7. ASSUME NEW c \in Coros, Discarded(c) \/ TornDown(c) PROVE Link!Close(c)
  <2>1. pc[c] \in Closing /\ pc' = [pc EXCEPT ![c] = After(onward[c])]
    BY <1>7 DEF Discarded, TornDown
  <2>2. After(onward[c]) \notin Suspended
    BY DEF Types, After
  <2>3. Phases' = [Phases EXCEPT ![c] = "idle"] /\ Phases[c] = pc[c]
    BY <2>1, <2>2, PhaseOfOne DEF Phases, Phase
  <2> QED
    BY <2>1, <2>3 DEF Link!Close, Link!Becomes, Phases, Phase
<1>8. ASSUME NEW c \in Coros,
             Fail(c) \/ (\E ok \in BOOLEAN : Respond(c, ok)) \/ FailToStore(c) \/ Redirect(c)
      PROVE  Link!GiveUp(c) \/ Link!Finish(c)
  BY <1>8, LeavePhase DEF Fail, Respond, FailToStore, Redirect, InTime
<1>9. CASE Feed \/ CloseInput \/ Loses \/ UNCHANGED vars
  BY <1>9 DEF Feed, CloseInput, Loses, LoseTimer, vars, Phases, Phase
<1> QED
  BY <1>1, <1>2, <1>3, <1>4, <1>5, <1>6, <1>7, <1>8, <1>9 DEF Next, Step, Loses

\* Every coroutine treats its connections as Connection provides them: one at a
\* time, torn down before it goes on, redirects and failures included.
THEOREM PoolClosesConnections == Spec => ImplementsAttempts
<1>1. Init => Link!Init
  BY ConstantsAssumption DEF Init, Link!Init, Suspended, Waiting, Closing
<1>2. Shape /\ [Next]_vars
        => [Link!Next]_<<[c \in Coros |-> IF pc[c] \in Suspended THEN pc[c] ELSE "idle"], Tls>>
  BY StepLink DEF Phases, Phase
<1> QED
  BY <1>1, <1>2, ShapeInvariant, PTL DEF Spec, ImplementsAttempts, Link!Spec

-----------------------------------------------------------------------------
\* What the program reports: the counters of RunStats, the exit code, the log.

WaitingCoros == {c \in Coros : pc[c] \in Waiting}
Unanswered == {u \in Candidates : outcome[u] = "unanswered"}

\* The two conjuncts of Accounting.
AttemptsAddUp == stats.attempted = stats.success + stats.non_success
                                   + Cardinality(WaitingCoros) + Cardinality(Unanswered)
ErrorsAddUp == stats.errors = Cardinality(Failed) - Cardinality(Uncaught)

\* What is in hand and not decided has no outcome yet, so a failure is always a
\* new one; and a coroutine that is to throw holds a candidate that has failed.
Settled == /\ \A c \in Coros : candidate[c] # 0 /\ ~Decided(c) => outcome[candidate[c]] = "none"
           /\ \A c \in Coros : pc[c] = "catch" => onward[c] = "throw"
           /\ \A c \in Uncaught : candidate[c] \in Failed

\* The log names the failures whose catch block has run.
LogUpToDate == log = Failed \ {candidate[c] : c \in Uncaught}

-----------------------------------------------------------------------------
\* All the sets that are counted are finite.
LEMMA AccountsFinite ==
  /\ IsFiniteSet(WaitingCoros) /\ Cardinality(WaitingCoros) \in Nat
  /\ IsFiniteSet(Uncaught) /\ Cardinality(Uncaught) \in Nat
  /\ IsFiniteSet(Unanswered) /\ Cardinality(Unanswered) \in Nat
  /\ IsFiniteSet(Failed) /\ Cardinality(Failed) \in Nat
<1>1. IsFiniteSet(Coros) /\ IsFiniteSet(Candidates)
  BY FS_Interval, ConstantsAssumption DEF Coros, Candidates
<1>2. /\ WaitingCoros \in SUBSET Coros /\ Uncaught \in SUBSET Coros
      /\ Unanswered \in SUBSET Candidates /\ Failed \in SUBSET Candidates
  BY DEF WaitingCoros, Uncaught, Unanswered, Failed
<1>3. IsFiniteSet(WaitingCoros) /\ IsFiniteSet(Uncaught)
  BY <1>1, <1>2, FS_Subset
<1>4. IsFiniteSet(Unanswered) /\ IsFiniteSet(Failed)
  BY <1>1, <1>2, FS_Subset
<1> QED
  BY <1>3, <1>4, FS_CardinalityType

\* Leaving a connection: the coroutine waits no more, and is to throw or not.
LEMMA LeaveMoves ==
  ASSUME Types, NEW c \in Coros, pc[c] \in Waiting, NEW closing \in Closing,
         NEW next \in {"return", "redirect", "throw"}, Leave(c, next, closing)
  PROVE  /\ WaitingCoros' = WaitingCoros \ {c} /\ c \in WaitingCoros
         /\ Uncaught' = IF next = "throw" THEN Uncaught \cup {c} ELSE Uncaught
         /\ c \notin Uncaught
         /\ pc'[c] \in Closing \/ pc'[c] = After(next)
         /\ onward'[c] = next
         /\ \A d \in Coros \ {c} : pc'[d] = pc[d] /\ onward'[d] = onward[d]
<1>1. /\ onward'[c] = next
      /\ \A d \in Coros \ {c} : onward'[d] = onward[d]
  BY DEF Types, Leave
<1>2. /\ pc'[c] = IF Tls THEN closing ELSE After(next)
      /\ \A d \in Coros \ {c} : pc'[d] = pc[d]
  BY DEF Types, Leave
<1>3. pc'[c] \in Closing \/ pc'[c] = After(next)
  BY <1>2
<1>4. pc'[c] \notin Waiting
  BY <1>3 DEF After, Waiting, Closing
<1>5. WaitingCoros' = WaitingCoros \ {c} /\ c \in WaitingCoros
  BY <1>2, <1>4 DEF WaitingCoros
<1>6. c \notin Uncaught
  BY DEF Uncaught, Waiting, Closing
<1>7. Uncaught' = IF next = "throw" THEN Uncaught \cup {c} ELSE Uncaught
  <2>1. \A d \in Coros \ {c} : d \in Uncaught' <=> d \in Uncaught
    BY <1>1, <1>2 DEF Uncaught
  <2>2. c \in Uncaught' <=> next = "throw"
    BY <1>1, <1>3 DEF Uncaught, After
  <2> QED
    BY <1>6, <2>1, <2>2 DEF Uncaught
<1> QED
  BY <1>1, <1>2, <1>3, <1>5, <1>6, <1>7

\* Giving the candidate in hand its outcome.
LEMMA OutcomeSets ==
  ASSUME Types, Holding, Settled, NEW c \in Coros, pc[c] \in Waiting,
         NEW v \in {"answered", "unanswered", "unstored"},
         outcome' = [outcome EXCEPT ![candidate[c]] = v]
  PROVE  /\ candidate[c] \in Candidates /\ candidate[c] \notin Failed
         /\ candidate[c] \notin Unanswered
         /\ Unanswered' = IF v = "unanswered" THEN Unanswered \cup {candidate[c]}
                          ELSE Unanswered
         /\ Failed' = IF v = "answered" THEN Failed ELSE Failed \cup {candidate[c]}
<1>1. candidate[c] \in Candidates
  BY DEF Types, Holding, Live, Suspended, Waiting, OnThread, Candidates
<1>2. outcome[candidate[c]] = "none"
  BY <1>1 DEF Settled, Decided, Waiting, Closing, Candidates
<1>3. /\ outcome'[candidate[c]] = v
      /\ \A u \in Candidates : u # candidate[c] => outcome'[u] = outcome[u]
  BY <1>1 DEF Types
<1>4. candidate[c] \notin Failed /\ candidate[c] \notin Unanswered
  BY <1>2 DEF Failed, Unanswered
<1>5. Unanswered' = IF v = "unanswered" THEN Unanswered \cup {candidate[c]} ELSE Unanswered
  BY <1>1, <1>3, <1>4 DEF Unanswered
<1>6. Failed' = IF v = "answered" THEN Failed ELSE Failed \cup {candidate[c]}
  BY <1>1, <1>3, <1>4 DEF Failed
<1> QED
  BY <1>1, <1>4, <1>5, <1>6

\* The catch block takes its coroutine out of those that are to throw.
LEMMA CatchMoves ==
  ASSUME Types, Settled, NEW c \in Coros, pc[c] = "catch", NEW to \in {"complete", "gone"},
         pc' = [pc EXCEPT ![c] = to], UNCHANGED onward
  PROVE  c \in Uncaught /\ Uncaught' = Uncaught \ {c} /\ WaitingCoros' = WaitingCoros
<1>1. pc'[c] = to /\ \A d \in Coros \ {c} : pc'[d] = pc[d]
  BY DEF Types
<1>2. c \in Uncaught
  BY DEF Settled, Uncaught
<1>3. Uncaught' = Uncaught \ {c}
  BY <1>1 DEF Uncaught, Closing
<1>4. WaitingCoros' = WaitingCoros
  BY <1>1 DEF WaitingCoros, Waiting
<1> QED
  BY <1>2, <1>3, <1>4

\* The steps that count nothing move no coroutine into or out of the sets.
Quiet == \/ Start \/ Feed \/ CloseInput \/ Loses \/ UNCHANGED vars
         \/ \E c \in Coros : \/ Take(c) \/ Exhaust(c) \/ Connected(c) \/ Discarded(c)
                             \/ TornDown(c) \/ \E r \in 1 .. Cap : Complete(c, r)

\* A quiet step leaves the counters, the log and the counted sets alone.
LEMMA QuietSets ==
  ASSUME Types, Births, Holding, Quiet
  PROVE  /\ UNCHANGED <<stats, outcome, log>>
         /\ WaitingCoros' = WaitingCoros /\ Uncaught' = Uncaught
         /\ \A c \in Uncaught : candidate'[c] = candidate[c]
<1> DEFINE Goal == /\ UNCHANGED <<stats, outcome, log>>
                   /\ WaitingCoros' = WaitingCoros /\ Uncaught' = Uncaught
                   /\ \A c \in Uncaught : candidate'[c] = candidate[c]
<1>0. ASSUME UNCHANGED <<onward, books>>,
             \A d \in Coros : \/ pc'[d] = pc[d] /\ candidate'[d] = candidate[d]
                              \/ /\ {pc[d], pc'[d]} \cap (Waiting \cup Closing \cup {"catch"}) = {}
                              \/ /\ {pc[d], pc'[d]} \subseteq Waiting
                              \/ /\ pc[d] \in Closing /\ pc'[d] = After(onward[d])
                                 /\ candidate'[d] = candidate[d]
      PROVE  Goal
  <2>1. \A d \in Coros : pc'[d] \in Waiting <=> pc[d] \in Waiting
    BY <1>0 DEF Waiting, Closing, After, Types
  <2>2. \A d \in Coros : d \in Uncaught' <=> d \in Uncaught
    BY <1>0 DEF Uncaught, Waiting, Closing, After, Types
  <2>3. \A d \in Uncaught : candidate'[d] = candidate[d]
    BY <1>0 DEF Uncaught, Waiting, Closing
  <2>4. WaitingCoros' = WaitingCoros
    BY <2>1 DEF WaitingCoros
  <2>5. Uncaught' = Uncaught
    BY <2>2 DEF Uncaught
  <2> QED
    BY <1>0, <2>3, <2>4, <2>5 DEF books
<1> SUFFICES Goal
  OBVIOUS
<1> HIDE DEF Goal
<1>1. CASE Start
  <2>1. 1 \in Coros /\ pc[1] = "unborn"
    BY <1>1, ConstantsAssumption DEF Start, Births, Coros
  <2> QED
    BY <1>0, <1>1, <2>1 DEF Start, Types, Waiting, Closing
<1>2. ASSUME NEW c \in Coros, Take(c) PROVE Goal
  <2>1. \A d \in Coros : SpawnsChild /\ d = spawned + 1 => pc[d] = "unborn"
    BY DEF Births, Types
  <2>2. \A d \in Coros \ {c} : candidate'[d] = candidate[d]
    BY <1>2 DEF Take, Types
  <2>3. pc[c] = "next" /\ pc'[c] = "attempt"
    BY <1>2 DEF Take
  <2>4. \A d \in Coros \ {c} : pc'[d] = pc[d] \/ (pc[d] = "unborn" /\ pc'[d] = "next")
    BY <1>2, <2>1 DEF Take
  <2> QED
    BY <1>0, <1>2, <2>2, <2>3, <2>4 DEF Take, Waiting, Closing
<1>3. ASSUME NEW c \in Coros, Exhaust(c) PROVE Goal
  BY <1>0, <1>3 DEF Exhaust, Ends, Types, Waiting, Closing, books
<1>4. ASSUME NEW c \in Coros, Connected(c) PROVE Goal
  BY <1>0, <1>4 DEF Connected, InTime, Types, Waiting
<1>5. ASSUME NEW c \in Coros, Discarded(c) \/ TornDown(c) PROVE Goal
  BY <1>0, <1>5 DEF Discarded, TornDown, Types, Closing
<1>6. ASSUME NEW c \in Coros, NEW r \in 1 .. Cap, Complete(c, r) PROVE Goal
  <2>1. pc[c] = "complete" /\ pc'[c] \in {"gone", "next"}
    BY <1>6 DEF Complete, Completed, Ends, Types
  <2>2. \A d \in Coros \ {c} : pc'[d] = pc[d] /\ candidate'[d] = candidate[d]
    BY <1>6 DEF Complete, Completed, Ends, Types
  <2>3. UNCHANGED <<onward, books>>
    BY <1>6 DEF Complete, Completed
  <2> QED
    BY <1>0, <2>1, <2>2, <2>3 DEF Waiting, Closing
<1>7. CASE Feed \/ CloseInput \/ Loses \/ UNCHANGED vars
  BY <1>0, <1>7 DEF Feed, CloseInput, Loses, LoseTimer, vars, pool, books
<1> QED
  BY <1>1, <1>2, <1>3, <1>4, <1>5, <1>6, <1>7 DEF Quiet

\* What moves the sets: the steps of an attempt and of a catch block.
Moves(c) == \/ Attempt(c) \/ Fail(c) \/ (\E ok \in BOOLEAN : Respond(c, ok))
            \/ FailToStore(c) \/ Redirect(c) \/ Record(c) \/ RecordThrows(c)

\* There is no third kind of step.
LEMMA QuietOrMoves == [Next]_vars => Quiet \/ \E c \in Coros : Moves(c)
  BY DEF Next, Step, Loses, Quiet, Moves

-----------------------------------------------------------------------------
\* Every attempt counted is in flight, answered or failed without an answer.
LEMMA StepAttempts ==
  Shape /\ Settled /\ AttemptsAddUp /\ [Next]_vars => AttemptsAddUp'
<1> SUFFICES ASSUME Types, Births, Holding, Settled, AttemptsAddUp, [Next]_vars
             PROVE  AttemptsAddUp'
  BY DEF Shape
<1> DEFINE W == Cardinality(WaitingCoros)
           U == Cardinality(Unanswered)
<1>0. /\ W \in Nat /\ U \in Nat
      /\ stats \in RunStats
  BY AccountsFinite DEF Types
<1>1. CASE Quiet
  BY <1>1, QuietSets DEF AttemptsAddUp, Unanswered
<1>2. ASSUME NEW c \in Coros, Attempt(c) PROVE AttemptsAddUp'
  <2>1. WaitingCoros' = WaitingCoros \cup {c} /\ c \notin WaitingCoros
    BY <1>2 DEF Attempt, Types, WaitingCoros, Waiting
  <2>2. Cardinality(WaitingCoros)' = W + 1
    BY <2>1, AccountsFinite, FS_AddElement
  <2>3. Unanswered' = Unanswered
    BY <1>2 DEF Attempt, Unanswered
  <2> QED
    BY <1>0, <1>2, <2>2, <2>3 DEF Attempt, CountAttempt, AttemptsAddUp, RunStats
<1>3. ASSUME NEW c \in Coros, pc[c] \in Waiting, NEW closing \in Closing,
             NEW next \in {"return", "redirect", "throw"}, Leave(c, next, closing)
      PROVE  Cardinality(WaitingCoros)' = W - 1
  <2>1. WaitingCoros' = WaitingCoros \ {c} /\ c \in WaitingCoros
    BY <1>3, LeaveMoves
  <2> QED
    BY <2>1, AccountsFinite, FS_RemoveElement
<1>4. ASSUME NEW c \in Coros, Fail(c) PROVE AttemptsAddUp'
  <2>1. Cardinality(WaitingCoros)' = W - 1
    BY <1>3, <1>4 DEF Fail, Closing
  <2>2. Unanswered' = Unanswered \cup {candidate[c]} /\ candidate[c] \notin Unanswered
    BY <1>4, OutcomeSets DEF Fail
  <2>3. Cardinality(Unanswered)' = U + 1
    BY <2>2, AccountsFinite, FS_AddElement
  <2> QED
    BY <1>0, <1>4, <2>1, <2>3 DEF Fail, AttemptsAddUp, RunStats
<1>5. ASSUME NEW c \in Coros, NEW ok \in BOOLEAN, NEW v \in {"answered", "unstored"},
             pc[c] = "exchange", stats' = Answered(ok), Cardinality(WaitingCoros)' = W - 1,
             outcome' = [outcome EXCEPT ![candidate[c]] = v] \/ UNCHANGED outcome
      PROVE  AttemptsAddUp'
  <2>1. Unanswered' = Unanswered
    <3>1. CASE outcome' = [outcome EXCEPT ![candidate[c]] = v]
      BY <1>5, <3>1, OutcomeSets DEF Waiting
    <3>2. CASE UNCHANGED outcome
      BY <3>2 DEF Unanswered
    <3> QED
      BY <1>5, <3>1, <3>2
  <2> QED
    BY <1>0, <1>5, <2>1 DEF Answered, AttemptsAddUp, RunStats
<1>6. ASSUME NEW c \in Coros, NEW ok \in BOOLEAN, Respond(c, ok) PROVE AttemptsAddUp'
  BY <1>3, <1>5, <1>6 DEF Respond, InTime, Waiting, Closing
<1>7. ASSUME NEW c \in Coros, FailToStore(c) PROVE AttemptsAddUp'
  BY <1>3, <1>5, <1>7 DEF FailToStore, InTime, Waiting, Closing
<1>8. ASSUME NEW c \in Coros, Redirect(c) PROVE AttemptsAddUp'
  BY <1>3, <1>5, <1>8 DEF Redirect, InTime, Waiting, Closing
<1>9. ASSUME NEW c \in Coros, Record(c) \/ RecordThrows(c) PROVE AttemptsAddUp'
  <2>1. WaitingCoros' = WaitingCoros
    BY <1>9, CatchMoves DEF Record, RecordThrows, Ends
  <2>2. Unanswered' = Unanswered
    BY <1>9 DEF Record, RecordThrows, Unanswered
  <2> QED
    BY <1>0, <1>9, <2>1, <2>2 DEF Record, RecordThrows, CountError, AttemptsAddUp, RunStats
<1> QED
  BY <1>1, <1>2, <1>4, <1>6, <1>7, <1>8, <1>9, QuietOrMoves DEF Moves

\* Every failure is counted as an error, by its catch block.
LEMMA StepErrors ==
  Shape /\ Settled /\ ErrorsAddUp /\ [Next]_vars => ErrorsAddUp'
<1> SUFFICES ASSUME Types, Births, Holding, Settled, ErrorsAddUp, [Next]_vars
             PROVE  ErrorsAddUp'
  BY DEF Shape
<1> DEFINE F == Cardinality(Failed)
           T == Cardinality(Uncaught)
<1>0. /\ F \in Nat /\ T \in Nat
      /\ stats \in RunStats
  BY AccountsFinite DEF Types
<1>1. CASE Quiet
  BY <1>1, QuietSets DEF ErrorsAddUp, Failed
<1>2. ASSUME NEW c \in Coros, Attempt(c) PROVE ErrorsAddUp'
  <2>1. Uncaught' = Uncaught /\ Failed' = Failed
    BY <1>2 DEF Attempt, Types, Uncaught, Closing, Failed
  <2> QED
    BY <1>0, <1>2, <2>1 DEF Attempt, CountAttempt, ErrorsAddUp, RunStats
<1>3. ASSUME NEW c \in Coros, pc[c] \in Waiting, NEW v \in {"unanswered", "unstored"},
             NEW closing \in Closing, Leave(c, "throw", closing),
             outcome' = [outcome EXCEPT ![candidate[c]] = v],
             stats'.errors = stats.errors
      PROVE  ErrorsAddUp'
  <2>1. Uncaught' = Uncaught \cup {c} /\ c \notin Uncaught
    BY <1>3, LeaveMoves
  <2>2. Failed' = Failed \cup {candidate[c]} /\ candidate[c] \notin Failed
    BY <1>3, OutcomeSets
  <2>3. Cardinality(Uncaught)' = T + 1 /\ Cardinality(Failed)' = F + 1
    BY <2>1, <2>2, AccountsFinite, FS_AddElement
  <2> QED
    BY <1>0, <1>3, <2>3 DEF ErrorsAddUp, RunStats
<1>4. ASSUME NEW ok \in BOOLEAN, stats' = Answered(ok) PROVE stats'.errors = stats.errors
  BY <1>0, <1>4 DEF Answered, RunStats
<1>5. ASSUME NEW c \in Coros, Fail(c) \/ FailToStore(c) PROVE ErrorsAddUp'
  BY <1>3, <1>4, <1>5 DEF Fail, FailToStore, InTime, Waiting, Closing
<1>6. ASSUME NEW c \in Coros, NEW ok \in BOOLEAN, Respond(c, ok) PROVE ErrorsAddUp'
  <2>1. Uncaught' = Uncaught
    BY <1>6, LeaveMoves DEF Respond, InTime, Waiting, Closing
  <2>2. Failed' = Failed
    BY <1>6, OutcomeSets DEF Respond, InTime, Waiting
  <2> QED
    BY <1>4, <1>6, <2>1, <2>2 DEF Respond, InTime, ErrorsAddUp
<1>7. ASSUME NEW c \in Coros, Redirect(c) PROVE ErrorsAddUp'
  <2>1. Uncaught' = Uncaught
    BY <1>7, LeaveMoves DEF Redirect, InTime, Waiting, Closing
  <2>2. Failed' = Failed
    BY <1>7 DEF Redirect, InTime, Failed
  <2> QED
    BY <1>4, <1>7, <2>1, <2>2 DEF Redirect, InTime, ErrorsAddUp
<1>8. ASSUME NEW c \in Coros, Record(c) \/ RecordThrows(c) PROVE ErrorsAddUp'
  <2>1. c \in Uncaught /\ Uncaught' = Uncaught \ {c}
    BY <1>8, CatchMoves DEF Record, RecordThrows, Ends
  <2>2. Cardinality(Uncaught)' = T - 1
    BY <2>1, AccountsFinite, FS_RemoveElement
  <2>3. Failed' = Failed
    BY <1>8 DEF Record, RecordThrows, Failed
  <2> QED
    BY <1>0, <1>8, <2>2, <2>3 DEF Record, RecordThrows, CountError, ErrorsAddUp, RunStats
<1> QED
  BY <1>1, <1>2, <1>5, <1>6, <1>7, <1>8, QuietOrMoves DEF Moves

-----------------------------------------------------------------------------
\* Settled, of a step that settles no candidate: nothing in hand becomes
\* undecided that was not, and nothing becomes bound to throw.
LEMMA SettledKept ==
  ASSUME Settled, UNCHANGED outcome, Uncaught' \subseteq Uncaught,
         \A c \in Uncaught' : candidate'[c] = candidate[c],
         \A c \in Coros : candidate'[c] # 0 /\ ~Decided(c)'
           => candidate'[c] = candidate[c] /\ ~Decided(c),
         \A c \in Coros : pc'[c] = "catch" => onward'[c] = "throw"
  PROVE  Settled'
<1>1. Failed' = Failed
  BY DEF Failed
<1> QED
  BY <1>1 DEF Settled

\* Settled, of a step that settles the candidate in c's hands.
LEMMA SettledSettles ==
  ASSUME Types, Holding, Handed, Settled, NEW c \in Coros, pc[c] \in Waiting,
         NEW v \in {"answered", "unanswered", "unstored"}, NEW closing \in Closing,
         NEW next \in {"return", "throw"}, next = "throw" <=> v # "answered",
         Leave(c, next, closing), outcome' = [outcome EXCEPT ![candidate[c]] = v],
         UNCHANGED candidate
  PROVE  Settled'
<1>1. /\ candidate[c] \in Candidates
      /\ Failed' = IF next = "throw" THEN Failed \cup {candidate[c]} ELSE Failed
  BY OutcomeSets
<1>2. /\ Uncaught' = IF next = "throw" THEN Uncaught \cup {c} ELSE Uncaught
      /\ pc'[c] \in Closing \/ pc'[c] = After(next)
      /\ onward'[c] = next
      /\ \A d \in Coros \ {c} : pc'[d] = pc[d] /\ onward'[d] = onward[d]
  BY LeaveMoves
<1>3. \A d \in Uncaught' : candidate'[d] \in Failed'
  BY <1>1, <1>2 DEF Settled
<1>4. \A d \in Coros : pc'[d] = "catch" => onward'[d] = "throw"
  BY <1>2 DEF Settled, After, Closing
<1>5. Decided(c)'
  BY <1>2 DEF Decided, After
<1>6. \A d \in Coros \ {c} : candidate[d] # 0 /\ ~Decided(d)' => outcome'[candidate[d]] = "none"
  <2> SUFFICES ASSUME NEW d \in Coros \ {c}, candidate[d] # 0, ~Decided(d)'
               PROVE  outcome'[candidate[d]] = "none"
    OBVIOUS
  <2>1. ~Decided(d)
    BY <1>2 DEF Decided
  <2>2. candidate[d] # candidate[c] /\ candidate[d] \in Candidates
    BY ConstantsAssumption DEF Handed, Types, Candidates
  <2> QED
    BY <1>1, <2>1, <2>2 DEF Settled, Types
<1> QED
  BY <1>3, <1>4, <1>5, <1>6 DEF Settled

\* Every step keeps or settles.
LEMMA StepSettled == Shape /\ Handed /\ Settled /\ [Next]_vars => Settled'
<1> SUFFICES ASSUME Types, Births, Holding, Handed, Settled, [Next]_vars PROVE Settled'
  BY DEF Shape
<1>0. /\ Quiet => UNCHANGED outcome /\ Uncaught' = Uncaught
      /\ Quiet => \A c \in Uncaught : candidate'[c] = candidate[c]
  BY QuietSets DEF books
<1>1. CASE Start
  <2>1. 1 \in Coros /\ candidate[1] = 0
    BY <1>1, ConstantsAssumption
    DEF Start, Births, Holding, Coros, Live, OnThread, Suspended, Waiting, Closing
  <2> QED
    BY <1>0, <1>1, <2>1, SettledKept DEF Quiet, Start, Settled, Types, Decided
<1>2. ASSUME NEW c \in Coros, Take(c) PROVE Settled'
  <2>1. Quiet
    BY <1>2 DEF Quiet
  <2>2. candidate'[c] = taken + 1 /\ outcome[taken + 1] = "none"
    BY <1>2, ConstantsAssumption DEF Take, Holding, Handed, Types, Candidates
  <2>3. \A d \in Coros \ {c} : candidate'[d] = candidate[d]
    BY <1>2 DEF Take, Types
  <2>4. \A d \in Coros : SpawnsChild /\ d = spawned + 1 => pc[d] = "unborn"
    BY DEF Births, Types
  <2>5. pc'[c] = "attempt" /\ UNCHANGED onward
    BY <1>2 DEF Take, Types
  <2>6. \A d \in Coros \ {c} : pc'[d] = pc[d] \/ (pc[d] = "unborn" /\ pc'[d] = "next")
    BY <1>2, <2>4 DEF Take
  <2>7. \A d \in Coros \ {c} : candidate'[d] # 0 /\ ~Decided(d)' => outcome'[candidate'[d]] = "none"
    <3> SUFFICES ASSUME NEW d \in Coros \ {c}, candidate'[d] # 0, ~Decided(d)'
                 PROVE  outcome'[candidate'[d]] = "none"
      OBVIOUS
    <3>1. ~Decided(d)
      BY <2>5, <2>6 DEF Decided, Closing
    <3> QED
      BY <1>0, <2>1, <2>3, <3>1 DEF Settled
  <2>8. Failed' = Failed
    BY <1>0, <2>1 DEF Failed
  <2>9. \A d \in Coros : pc'[d] = "catch" => onward'[d] = "throw"
    BY <2>5, <2>6 DEF Settled
  <2> QED
    BY <1>0, <2>1, <2>2, <2>5, <2>7, <2>8, <2>9 DEF Settled
<1>3. ASSUME NEW c \in Coros, Exhaust(c) PROVE Settled'
  <2>1. candidate[c] = 0
    BY <1>3 DEF Exhaust, Holding
  <2> QED
    BY <1>0, <1>3, <2>1, SettledKept DEF Quiet, Exhaust, Ends, Settled, Types, Decided
<1>4. ASSUME NEW c \in Coros, Attempt(c) PROVE Settled'
  <2>1. Uncaught' = Uncaught
    BY <1>4 DEF Attempt, Types, Uncaught, Closing
  <2> QED
    BY <1>4, <2>1, SettledKept DEF Attempt, Settled, Types, Decided, Closing
<1>5. ASSUME NEW c \in Coros, Connected(c) PROVE Settled'
  BY <1>0, <1>5, SettledKept DEF Quiet, Connected, InTime, Settled, Types, Decided, Closing, books
<1>6. ASSUME NEW c \in Coros, Discarded(c) \/ TornDown(c) PROVE Settled'
  <2>1. pc[c] \in Closing /\ pc'[c] = After(onward[c]) /\ UNCHANGED <<onward, candidate>>
    BY <1>6 DEF Discarded, TornDown, Types, Closing
  <2>2. \A d \in Coros \ {c} : pc'[d] = pc[d]
    BY <1>6 DEF Discarded, TornDown, Types
  <2>3. \A d \in Coros : pc'[d] = "catch" => onward'[d] = "throw"
    BY <2>1, <2>2 DEF Settled, Types, After
  <2>4. \A d \in Coros : ~Decided(d)' => ~Decided(d)
    BY <2>1, <2>2 DEF Decided, Types, After, Closing
  <2> QED
    BY <1>0, <1>6, <2>1, <2>3, <2>4, SettledKept DEF Quiet
<1>7. ASSUME NEW c \in Coros, Fail(c) PROVE Settled'
  BY <1>7, SettledSettles DEF Fail, Closing
<1>8. ASSUME NEW c \in Coros, NEW ok \in BOOLEAN, Respond(c, ok) PROVE Settled'
  BY <1>8, SettledSettles DEF Respond, InTime, Waiting, Closing
<1>9. ASSUME NEW c \in Coros, FailToStore(c) PROVE Settled'
  BY <1>9, SettledSettles DEF FailToStore, InTime, Waiting, Closing
<1>10. ASSUME NEW c \in Coros, Redirect(c) PROVE Settled'
  <2>1. /\ Uncaught' = Uncaught
        /\ pc'[c] \in Closing \/ pc'[c] = "attempt"
        /\ \A d \in Coros \ {c} : pc'[d] = pc[d] /\ onward'[d] = onward[d]
    BY <1>10, LeaveMoves DEF Redirect, InTime, Waiting, Closing, After
  <2>2. \A d \in Coros : pc'[d] = "catch" => onward'[d] = "throw"
    BY <2>1 DEF Settled, Closing
  <2>3. ~Decided(c)
    BY <1>10 DEF Redirect, InTime, Decided, Closing
  <2>4. \A d \in Coros : ~Decided(d)' => ~Decided(d)
    BY <2>1, <2>3 DEF Decided
  <2> QED
    BY <1>10, <2>1, <2>2, <2>4, SettledKept DEF Redirect, InTime
<1>11. ASSUME NEW c \in Coros, Record(c) PROVE Settled'
  <2>1. Uncaught' = Uncaught \ {c}
    BY <1>11, CatchMoves DEF Record
  <2> QED
    BY <1>11, <2>1, SettledKept DEF Record, Settled, Types, Decided
<1>12. ASSUME NEW c \in Coros, NEW to \in {"gone", "next"}, pc[c] \in {"catch", "complete"},
              candidate' = [candidate EXCEPT ![c] = 0], pc' = [pc EXCEPT ![c] = to],
              UNCHANGED <<onward, outcome>>
       PROVE  Settled'
  <2>1. /\ candidate'[c] = 0 /\ pc'[c] = to
        /\ \A d \in Coros \ {c} : candidate'[d] = candidate[d] /\ pc'[d] = pc[d]
    BY <1>12 DEF Types
  <2>2. Uncaught' = Uncaught \ {c}
    BY <1>12, <2>1 DEF Uncaught, Closing
  <2> QED
    BY <1>12, <2>1, <2>2, SettledKept DEF Settled, Decided, Uncaught
<1>13. ASSUME NEW c \in Coros, RecordThrows(c) PROVE Settled'
  BY <1>12, <1>13 DEF RecordThrows, Ends
<1>14. ASSUME NEW c \in Coros, NEW r \in 1 .. Cap, Complete(c, r) PROVE Settled'
  BY <1>12, <1>14 DEF Complete, Completed, Ends, books
<1>15. CASE Feed \/ CloseInput \/ Loses \/ UNCHANGED vars
  BY <1>15, SettledKept DEF Feed, CloseInput, Loses, LoseTimer, vars, pool, books, Settled, Decided,
     Uncaught
<1> QED
  BY <1>1, <1>2, <1>3, <1>4, <1>5, <1>6, <1>7, <1>8, <1>9, <1>10, <1>11, <1>13, <1>14, <1>15
  DEF Next, Step, Loses

\* Once it is settled how the log grows, the log is up to date.
LEMMA StepLog ==
  ~LogMayFail /\ Shape /\ Handed /\ Settled /\ LogUpToDate /\ [Next]_vars => LogUpToDate'
<1> SUFFICES ASSUME ~LogMayFail, Types, Births, Holding, Handed, Settled, LogUpToDate, [Next]_vars
             PROVE  LogUpToDate'
  BY DEF Shape
<1>1. CASE Quiet
  <2>1. Failed' = Failed /\ UNCHANGED log /\ Uncaught' = Uncaught
    BY <1>1, QuietSets DEF Failed
  <2>2. \A c \in Uncaught : candidate'[c] = candidate[c]
    BY <1>1, QuietSets
  <2> QED
    BY <2>1, <2>2 DEF LogUpToDate
<1>2. ASSUME NEW c \in Coros, Attempt(c) PROVE LogUpToDate'
  <2>1. Uncaught' = Uncaught /\ Failed' = Failed
    BY <1>2 DEF Attempt, Types, Uncaught, Closing, Failed
  <2> QED
    BY <1>2, <2>1 DEF Attempt, LogUpToDate
<1>3. ASSUME NEW c \in Coros, pc[c] \in Waiting, NEW v \in {"unanswered", "unstored"},
             NEW closing \in Closing, Leave(c, "throw", closing),
             outcome' = [outcome EXCEPT ![candidate[c]] = v], UNCHANGED <<log, candidate>>
      PROVE  LogUpToDate'
  <2>1. Uncaught' = Uncaught \cup {c} /\ c \notin Uncaught
    BY <1>3, LeaveMoves
  <2>2. Failed' = Failed \cup {candidate[c]} /\ candidate[c] \notin Failed
    BY <1>3, OutcomeSets
  <2> QED
    BY <1>3, <2>1, <2>2 DEF LogUpToDate
<1>4. ASSUME NEW c \in Coros, Fail(c) \/ FailToStore(c) PROVE LogUpToDate'
  BY <1>3, <1>4 DEF Fail, FailToStore, InTime, Waiting, Closing
<1>5. ASSUME NEW c \in Coros, (\E ok \in BOOLEAN : Respond(c, ok)) \/ Redirect(c)
      PROVE  LogUpToDate'
  <2>1. Uncaught' = Uncaught
    BY <1>5, LeaveMoves DEF Respond, Redirect, InTime, Waiting, Closing
  <2>2. Failed' = Failed
    <3>1. CASE Redirect(c)
      BY <3>1 DEF Redirect, InTime, Failed
    <3>2. ASSUME NEW ok \in BOOLEAN, Respond(c, ok) PROVE Failed' = Failed
      BY <3>2, OutcomeSets DEF Respond, InTime, Waiting
    <3> QED
      BY <1>5, <3>1, <3>2
  <2> QED
    BY <1>5, <2>1, <2>2 DEF Respond, Redirect, InTime, LogUpToDate
<1>6. ASSUME NEW c \in Coros, Record(c) PROVE LogUpToDate'
  <2>1. c \in Uncaught /\ Uncaught' = Uncaught \ {c}
    BY <1>6, CatchMoves DEF Record
  <2>2. Failed' = Failed /\ UNCHANGED candidate
    BY <1>6 DEF Record, Failed
  <2>3. log' = log \cup {candidate[c]} /\ candidate[c] \in Failed
    BY <1>6, <2>1 DEF Record, Logs, Settled
  <2>4. \A d \in Uncaught' : candidate[d] # candidate[c]
    <3>1. \A d \in Uncaught : d \in Coros
      BY DEF Uncaught
    <3>2. candidate[c] # 0
      BY <2>3 DEF Failed, Candidates
    <3> QED
      BY <2>1, <3>1, <3>2 DEF Handed
  <2> QED
    BY <2>1, <2>2, <2>3, <2>4 DEF LogUpToDate
<1> QED
  BY <1>1, <1>2, <1>4, <1>5, <1>6, QuietOrMoves DEF Moves, RecordThrows

-----------------------------------------------------------------------------
\* The invariant the theorems below start from.
LEMMA SettledInvariant == Spec => [](Shape /\ CounterExact /\ Handed /\ Settled)
<1>1. Init => Settled
  BY DEF Init, Settled, Uncaught, Closing
<1> QED
  BY <1>1, StepSettled, HandedInvariant, PTL DEF Spec

\* At the start there is nothing to count.
LEMMA NothingAtFirst == Init => WaitingCoros = {} /\ Uncaught = {} /\ Unanswered = {} /\ Failed = {}
  BY DEF Init, WaitingCoros, Waiting, Uncaught, Closing, Unanswered, Failed

\* The two sums that the counters of RunStats make up.
SummaryKept == AttemptsAddUp /\ ErrorsAddUp

\* They are kept by every step.
LEMMA SummaryInvariant == Spec => []SummaryKept
<1>1. Init => SummaryKept
  BY NothingAtFirst, FS_EmptySet DEF Init, AttemptsAddUp, ErrorsAddUp, SummaryKept
<1>2. Shape /\ Settled /\ SummaryKept /\ [Next]_vars => SummaryKept'
  BY StepAttempts, StepErrors DEF SummaryKept
<1> QED
  BY <1>1, <1>2, SettledInvariant, PTL DEF Spec

\* RunStats: at every moment the attempts are the responses recorded, the
\* attempts in flight and the candidates that failed unanswered, and the errors
\* are the failures whose catch block has run - whatever becomes of the log.
THEOREM SummaryAddsUp == Spec => []Accounting
<1>1. SummaryKept => Accounting
  BY DEF SummaryKept, AttemptsAddUp, ErrorsAddUp, Accounting, WaitingCoros, Unanswered
<1> QED
  BY <1>1, SummaryInvariant, PTL

\* The exit code tells whether a candidate failed, whatever becomes of the log:
\* an error is counted before it is logged.
THEOREM ExitCodeIsRight == Spec => []ExitCodeTells
<1>1. SummaryKept => ExitCodeTells
  <2> SUFFICES ASSUME ErrorsAddUp, Returned PROVE stats.errors # 0 <=> Failed # {}
    BY DEF SummaryKept, ExitCodeTells
  <2>1. Uncaught = {}
    BY DEF Returned, LiveCoros, Live, OnThread, Suspended, Uncaught
  <2>2. stats.errors = Cardinality(Failed)
    BY <2>1, FS_EmptySet, AccountsFinite DEF ErrorsAddUp
  <2>3. Cardinality(Failed) = 0 <=> Failed = {}
    BY AccountsFinite, FS_EmptySet
  <2> QED
    BY <2>2, <2>3
<1> QED
  BY <1>1, SummaryInvariant, PTL

\* With an error log that can be written, the exit code and the log of a run
\* that has returned tell exactly which candidates failed.
THEOREM FailuresAreReported == ~LogMayFail => (Spec => []ErrorsReported)
<1> SUFFICES ASSUME ~LogMayFail PROVE Spec => []ErrorsReported
  OBVIOUS
<1>1. Init => ErrorsAddUp /\ LogUpToDate
  BY NothingAtFirst, FS_EmptySet DEF Init, ErrorsAddUp, LogUpToDate
<1>2. Shape /\ Handed /\ Settled /\ ErrorsAddUp /\ LogUpToDate /\ [Next]_vars
        => ErrorsAddUp' /\ LogUpToDate'
  BY StepErrors, StepLog
<1>3. ErrorsAddUp /\ LogUpToDate => ErrorsReported
  <2> SUFFICES ASSUME ErrorsAddUp, LogUpToDate, Returned
               PROVE  (stats.errors # 0 <=> Failed # {}) /\ log = Failed
    BY DEF ErrorsReported
  <2>1. Uncaught = {}
    BY DEF Returned, LiveCoros, Live, OnThread, Suspended, Uncaught
  <2>2. stats.errors = Cardinality(Failed)
    BY <2>1, FS_EmptySet, AccountsFinite DEF ErrorsAddUp
  <2>3. Cardinality(Failed) = 0 <=> Failed = {}
    BY AccountsFinite, FS_EmptySet
  <2> QED
    BY <2>1, <2>2, <2>3 DEF LogUpToDate
<1> QED
  BY <1>1, <1>2, <1>3, SettledInvariant, PTL DEF Spec
=============================================================================
