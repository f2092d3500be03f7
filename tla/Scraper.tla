------------------------------- MODULE Scraper -------------------------------
(***************************************************************************)
(* The coroutine pool of src/src/abrade/scraper.hpp: who takes a candidate *)
(* from the generator, who spawns, who retires, and what happens to a      *)
(* candidate until its completion is registered.                           *)
(*                                                                         *)
(* One thread runs everything.  A coroutine keeps the thread until it      *)
(* suspends in a network operation or ends; `spawn' called by a coroutine  *)
(* dispatches the child at once, on top of its parent, and the parent goes *)
(* on when the child first suspends or ends.  Identifiers are given in     *)
(* spawn order, so of the coroutines that are on the thread's stack the    *)
(* one with the largest identifier is the one that executes.               *)
(***************************************************************************)
EXTENDS Integers, FiniteSets

CONSTANTS
  N,              \* bound: candidates the generator can produce
  InitRec,        \* --init
  MinRec, MaxRec, \* --min and --max; both equal to InitRec without --optimize
  MaxRedirects,   \* --max-redirects, 0 without --follow-redirects
  Tls,            \* the connection policy tears down with async_shutdown
  Stdin,          \* candidates come line by line from standard input
  LogMayFail      \* the error log cannot always be opened or written

ASSUME ConstantsAssumption ==
  /\ N \in Nat
  /\ InitRec \in Nat \ {0} /\ MinRec \in Nat \ {0} /\ MaxRec \in Nat \ {0}
  /\ MaxRedirects \in Nat
  /\ Tls \in BOOLEAN /\ Stdin \in BOOLEAN /\ LogMayFail \in BOOLEAN

Candidates == 1 .. N

\* Every spawn but the first follows a candidate taken, so N + 1 suffice.
Coros == 1 .. (N + 1)

\* The largest recommendation the controller can reach from InitRec.
Cap == IF InitRec > MaxRec THEN InitRec ELSE MaxRec

VARIABLES
  pc,          \* where each coroutine is
  candidate,   \* the candidate in a coroutine's hands, 0 for none
  redirects,   \* redirects_followed of the candidate in hand
  onward,      \* what follows the teardown of the current connection
  untimed,     \* coroutines whose operation goes on though its timer has struck
  taken,       \* candidates generator.next() has returned
  available,   \* candidates it can return without blocking
  closed,      \* no further candidate will become available
  is_complete, \* the generator has answered nullopt
  spawned,     \* coroutines ever spawned
  active,      \* active_coroutines
  recommended, \* controller.recommended_coroutines()
  stats,       \* RunStats
  outcome,     \* how the last attempt of each candidate ended
  log          \* candidates named in the error log

generator == <<taken, available, closed, is_complete>>
pool == <<spawned, active, recommended>>
books == <<stats, outcome, log>>
vars == <<pc, candidate, redirects, onward, untimed, generator, pool, books>>

-----------------------------------------------------------------------------
\* A coroutine on the thread's stack, suspended in a network operation, or not
\* there at all.
OnThread  == {"next", "attempt", "catch", "complete"}
Waiting   == {"connect", "exchange"}
Closing   == {"discard", "teardown"}
Suspended == Waiting \cup Closing
Live      == OnThread \cup Suspended

LiveCoros == {c \in Coros : pc[c] \in Live}

\* The event loop has the thread: no coroutine is on its stack.
LoopIdle == \A c \in Coros : pc[c] \notin OnThread

\* c executes: it is on the stack and nothing it spawned is still above it.
Executes(c) == /\ pc[c] \in OnThread
               /\ \A d \in Coros : d > c => pc[d] \notin OnThread

\* record_response
Answered(ok) == IF ok THEN [stats EXCEPT !.success = @ + 1]
                      ELSE [stats EXCEPT !.non_success = @ + 1]

Init ==
  /\ pc = [c \in Coros |-> "unborn"]
  /\ candidate = [c \in Coros |-> 0]
  /\ redirects = [c \in Coros |-> 0]
  /\ onward = [c \in Coros |-> "return"]
  /\ untimed = {}
  /\ taken = 0
  /\ available = IF Stdin THEN 0 ELSE N
  /\ closed = ~Stdin
  /\ is_complete = FALSE
  /\ spawned = 0 /\ active = 0 /\ recommended = InitRec
  /\ stats = [attempted |-> 0, success |-> 0, non_success |-> 0, errors |-> 0]
  /\ outcome = [u \in Candidates |-> "none"]
  /\ log = {}

-----------------------------------------------------------------------------
\* Scraper::run: the first coroutine is posted and ios.run() starts it.
Start ==
  /\ spawned = 0
  /\ pc' = [pc EXCEPT ![1] = "next"]
  /\ spawned' = 1
  /\ active' = 1
  /\ UNCHANGED <<candidate, redirects, onward, untimed, generator, recommended, books>>

\* Below the recommendation, so the taker spawns; `spawn' does not return
\* before the child has counted itself and reached its own generator.next().
SpawnsOneMore == active <= recommended                              \* mutant
SpawnsChild == active < recommended

\* next() moves the generator on before it returns.  (Mutant: the caller moves
\* it on after its spawn, which has run the child by then.)
AdvanceLate == taken' = IF SpawnsChild THEN taken ELSE taken + 1    \* mutant
Advance == taken' = taken + 1

\* The coroutine ends, by return or by an exception: ~LifetimeCounter.
EndsUncounted(c) == /\ pc' = [pc EXCEPT ![c] = "gone"]              \* mutant
                    /\ UNCHANGED active
Ends(c) == /\ pc' = [pc EXCEPT ![c] = "gone"]
           /\ active' = active - 1

\* generator.next() returned a candidate; the coroutine may spawn, and then
\* (once its child has left the thread) makes its first attempt.
Take(c) ==
  /\ Executes(c) /\ pc[c] = "next"
  /\ ~is_complete
  /\ taken < available
  /\ Advance
  /\ candidate' = [candidate EXCEPT ![c] = taken + 1]
  /\ redirects' = [redirects EXCEPT ![c] = 0]
  /\ pc' = [d \in Coros |-> IF d = c THEN "attempt"
                            ELSE IF SpawnsChild /\ d = spawned + 1 THEN "next"
                            ELSE pc[d]]
  /\ spawned' = IF SpawnsChild THEN spawned + 1 ELSE spawned
  /\ active' = IF SpawnsChild THEN active + 1 ELSE active
  /\ UNCHANGED <<onward, untimed, available, closed, is_complete, recommended, books>>

\* generator.next() returned nullopt: the coroutine ends.  With neither a line
\* nor the end of input, getline blocks: neither this nor Take is enabled, and
\* as c keeps the thread no other coroutine and no handler runs either.
Exhaust(c) ==
  /\ Executes(c) /\ pc[c] = "next"
  /\ is_complete \/ (closed /\ taken = available)
  /\ is_complete' = TRUE
  /\ Ends(c)
  /\ UNCHANGED <<candidate, redirects, onward, untimed, taken, available, closed, spawned,
                 recommended, books>>

\* Scraper::coroutine, the head of its loop: the attempt is counted and the
\* coroutine suspends in the first operation of connection.connect.
CountCandidate(c) ==                                                \* mutant
  stats' = [stats EXCEPT !.attempted = IF redirects[c] = 0 THEN @ + 1 ELSE @]
CountAttempt(c) == stats' = [stats EXCEPT !.attempted = @ + 1]

Attempt(c) ==
  /\ Executes(c) /\ pc[c] = "attempt"
  /\ CountAttempt(c)
  /\ pc' = [pc EXCEPT ![c] = "connect"]
  /\ UNCHANGED <<candidate, redirects, onward, untimed, generator, pool, outcome, log>>

\* A composed operation is between two of its steps, both of them waits on the
\* network, when its timer strikes: the cancel reaches neither, and the wait that
\* follows has no timer.  The flag it leaves makes a failure of whatever the
\* operation ends with, if it ends.
LoseTimer(c) ==
  /\ LoopIdle /\ pc[c] \in Waiting /\ c \notin untimed
  /\ untimed' = untimed \cup {c}
  /\ UNCHANGED <<pc, candidate, redirects, onward, generator, pool, books>>

\* The operation c waits for may still succeed.
InTime(c, stage) == LoopIdle /\ pc[c] = stage /\ c \notin untimed

\* The connection is established and the request is being written or its
\* response read.
Connected(c) ==
  /\ InTime(c, "connect")
  /\ pc' = [pc EXCEPT ![c] = "exchange"]
  /\ UNCHANGED <<candidate, redirects, onward, untimed, generator, pool, books>>

\* Where a coroutine is once the connection it leaves has been torn down.
After(next) == CASE next = "return"   -> "complete"
                 [] next = "redirect" -> "attempt"
                 [] next = "throw"    -> "catch"

\* The connection leaves its scope with `next' still to do.  A plaintext
\* policy shuts the socket down on the spot; a TLS policy suspends in
\* async_shutdown, in state `closing'.  (Mutant: a redirect drops the connection
\* without tearing it down.)
LeaveOpen(c, next, closing) ==                                      \* mutant
  /\ onward' = [onward EXCEPT ![c] = next]
  /\ pc' = [pc EXCEPT ![c] = IF Tls /\ next # "redirect" THEN closing ELSE After(next)]
  /\ redirects' = [redirects EXCEPT ![c] = IF next = "redirect" THEN @ + 1 ELSE @]
Leave(c, next, closing) ==
  /\ onward' = [onward EXCEPT ![c] = next]
  /\ pc' = [pc EXCEPT ![c] = IF Tls THEN closing ELSE After(next)]
  /\ redirects' = [redirects EXCEPT ![c] = IF next = "redirect" THEN @ + 1 ELSE @]

\* An operation of connect, make_request or execute failed or timed out, before
\* a response was recorded.  A handshake that its timer came too late for may
\* have been completed by then.
Fail(c) ==
  /\ LoopIdle /\ pc[c] \in Waiting
  /\ \E closing \in Closing :
       /\ closing = "discard" => pc[c] = "connect"
       /\ closing = "teardown" => pc[c] = "exchange" \/ (Tls /\ c \in untimed)
       /\ Leave(c, "throw", closing)
  /\ untimed' = untimed \ {c}
  /\ outcome' = [outcome EXCEPT ![candidate[c]] = "unanswered"]
  /\ UNCHANGED <<candidate, generator, pool, stats, log>>

\* execute returned no redirect target, or the last one allowed was followed.
Respond(c, ok) ==
  /\ InTime(c, "exchange")
  /\ stats' = Answered(ok)
  /\ Leave(c, "return", "teardown")
  /\ outcome' = [outcome EXCEPT ![candidate[c]] = "answered"]
  /\ UNCHANGED <<candidate, untimed, generator, pool, log>>

\* A 2xx answer was recorded and then action.process threw: the output file
\* could not be written.
FailToStore(c) ==
  /\ InTime(c, "exchange")
  /\ stats' = Answered(TRUE)
  /\ Leave(c, "throw", "teardown")
  /\ outcome' = [outcome EXCEPT ![candidate[c]] = "unstored"]
  /\ UNCHANGED <<candidate, untimed, generator, pool, log>>

\* execute returned a redirect target and it may still be followed.
MayFollowOneMore(c) == redirects[c] # MaxRedirects + 1              \* mutant
MayFollow(c) == redirects[c] # MaxRedirects

Redirect(c) ==
  /\ InTime(c, "exchange")
  /\ MayFollow(c)
  /\ stats' = Answered(FALSE)
  /\ Leave(c, "redirect", "teardown")
  /\ UNCHANGED <<candidate, untimed, generator, pool, outcome, log>>

\* async_shutdown of a stream that never finished its handshake: it fails.
Discarded(c) ==
  /\ LoopIdle /\ pc[c] = "discard"
  /\ pc' = [pc EXCEPT ![c] = After(onward[c])]
  /\ UNCHANGED <<candidate, redirects, onward, untimed, generator, pool, books>>

\* async_shutdown of an established stream: it ends when the peer answers or
\* drops the connection.  Nothing in the program bounds the wait.
TornDown(c) ==
  /\ LoopIdle /\ pc[c] = "teardown"
  /\ pc' = [pc EXCEPT ![c] = After(onward[c])]
  /\ UNCHANGED <<candidate, redirects, onward, untimed, generator, pool, books>>

\* record_error, in the catch block.  (Mutant: only transport errors count.)
CountTransportError(c) ==                                           \* mutant
  stats' = [stats EXCEPT !.errors =
              IF outcome[candidate[c]] = "unanswered" THEN @ + 1 ELSE @]
CountError(c) == stats' = [stats EXCEPT !.errors = @ + 1]

\* FileErrorLog::record.  The line is shorter than the stream's buffer, so it is
\* written by ~ofstream, and nobody hears of what goes wrong there.
Logs(c) == \/ log' = log \cup {candidate[c]}
           \/ LogMayFail /\ UNCHANGED log

\* The catch block: the error is counted, then logged.
Record(c) ==
  /\ Executes(c) /\ pc[c] = "catch"
  /\ CountError(c)
  /\ Logs(c)
  /\ pc' = [pc EXCEPT ![c] = "complete"]
  /\ UNCHANGED <<candidate, redirects, onward, untimed, generator, pool, outcome>>

\* The catch block when FileErrorLog::record throws: the exception leaves the
\* coroutine, `detached' drops it, and ~LifetimeCounter is all that remains.
RecordThrows(c) ==
  /\ LogMayFail
  /\ Executes(c) /\ pc[c] = "catch"
  /\ CountError(c)
  /\ candidate' = [candidate EXCEPT ![c] = 0]
  /\ Ends(c)
  /\ UNCHANGED <<redirects, onward, untimed, generator, spawned, recommended, outcome, log>>

\* The controller's answer to register_completion: at most one step, up only
\* below MaxRec and down only above MinRec.
Recommends(r) == \/ r = recommended
                 \/ recommended < MaxRec /\ r = recommended + 1
                 \/ recommended > MinRec /\ r = recommended - 1

\* More coroutines than recommended: this one retires.
RetiresEarly(r) == active >= r                                      \* mutant
Retires(r) == active > r

\* register_completion leaves recommendation r; then retire or ask the
\* generator again.
Completed(c, r) ==
  /\ Executes(c) /\ pc[c] = "complete"
  /\ recommended' = r
  /\ candidate' = [candidate EXCEPT ![c] = 0]
  /\ \/ Retires(r) /\ Ends(c)
     \/ ~Retires(r) /\ pc' = [pc EXCEPT ![c] = "next"] /\ UNCHANGED active
  /\ UNCHANGED <<redirects, onward, untimed, generator, spawned, books>>

Complete(c, r) == Recommends(r) /\ Completed(c, r)

\* Standard input: the upstream program writes a line, or closes the pipe.
Feed ==
  /\ ~closed
  /\ available < N
  /\ available' = available + 1
  /\ UNCHANGED <<pc, candidate, redirects, onward, untimed, taken, closed, is_complete, pool, books>>

CloseInput ==
  /\ ~closed
  /\ closed' = TRUE
  /\ UNCHANGED <<pc, candidate, redirects, onward, untimed, taken, available, is_complete, pool, books>>

Step(c) ==
  \/ Take(c) \/ Exhaust(c) \/ Attempt(c)
  \/ LoseTimer(c) \/ Connected(c) \/ Fail(c) \/ (\E ok \in BOOLEAN : Respond(c, ok))
  \/ FailToStore(c) \/ Redirect(c) \/ Discarded(c) \/ TornDown(c)
  \/ Record(c) \/ RecordThrows(c) \/ (\E r \in 1 .. Cap : Complete(c, r))

Next == Start \/ (\E c \in Coros : Step(c)) \/ Feed \/ CloseInput

Spec == Init /\ [][Next]_vars

\* io_context::run returned: the program prints its summary and exits.
Returned == spawned > 0 /\ LiveCoros = {}
-----------------------------------------------------------------------------
(***************************************************************************)
(* Fairness.  The thread runs what is ready to run.  An operation of       *)
(* connect, make_request and execute ends as long as its timer is there to *)
(* cancel it (and getaddrinfo returns), and closing a stream that was      *)
(* never secured fails at once.  Nothing is assumed of the rest: neither   *)
(* an operation that has lost its timer nor async_shutdown, which has      *)
(* none, need ever end, and the upstream program may stay silent.          *)
(***************************************************************************)
LocalStep(c) == Take(c) \/ Exhaust(c) \/ Attempt(c) \/ Record(c) \/ RecordThrows(c)
                  \/ (\E r \in 1 .. Cap : Complete(c, r))

\* (Mutant: nothing bounds the operations of connect.)
NetworkStepUnbounded(c) ==                                          \* mutant
  /\ c \notin untimed /\ pc[c] # "connect"
  /\ \/ Fail(c) \/ (\E ok \in BOOLEAN : Respond(c, ok))
     \/ FailToStore(c) \/ Redirect(c) \/ Discarded(c)

NetworkStep(c) ==
  /\ c \notin untimed
  /\ \/ Connected(c) \/ Fail(c) \/ (\E ok \in BOOLEAN : Respond(c, ok))
     \/ FailToStore(c) \/ Redirect(c) \/ Discarded(c)

Fairness == /\ WF_vars(Start)
            /\ \A c \in Coros : WF_vars(LocalStep(c)) /\ WF_vars(NetworkStep(c))

FairSpec == Spec /\ Fairness

-----------------------------------------------------------------------------
HeldBy(u) == {c \in Coros : candidate[c] = u}
Held == {u \in Candidates : HeldBy(u) # {}}
Failed == {u \in Candidates : outcome[u] \in {"unanswered", "unstored"}}

\* Failed candidates whose catch block has not run.
Uncaught == {c \in Coros : /\ pc[c] = "catch" \/ pc[c] \in Closing
                           /\ onward[c] = "throw"}

RunStats == [attempted : Nat, success : Nat, non_success : Nat, errors : Nat]

\* The types of the pool's variables.  active_coroutines, a size_t that is
\* decremented, never wraps, and no coroutine follows more than MaxRedirects hops.
TypeOK ==
  /\ pc \in [Coros -> Live \cup {"unborn", "gone"}]
  /\ candidate \in [Coros -> 0 .. N]
  /\ redirects \in [Coros -> 0 .. MaxRedirects]
  /\ onward \in [Coros -> {"return", "redirect", "throw"}]
  /\ untimed \subseteq {c \in Coros : pc[c] \in Waiting}
  /\ taken \in 0 .. N /\ available \in 0 .. N
  /\ closed \in BOOLEAN /\ is_complete \in BOOLEAN
  /\ spawned \in 0 .. (N + 1) /\ active \in 0 .. (N + 1)
  /\ recommended \in 1 .. Cap
  /\ stats \in RunStats
  /\ outcome \in [Candidates -> {"none", "answered", "unanswered", "unstored"}]
  /\ log \subseteq Candidates

\* LifetimeCounter: active_coroutines, which every spawn and every retirement
\* is decided on, is the number of coroutines that exist, whichever way each
\* of them ended.
CounterExact == active = Cardinality(LiveCoros)

\* However the recommendation moves and however spawns nest, there are never
\* more coroutines, hence simultaneous requests, than the largest recommendation
\* the controller can make.
ConcurrencyBound == Cardinality(LiveCoros) <= Cap

\* When the event loop waits for the network and the generator still has
\* candidates, the pool is as large as recommended: a decision to retire and a
\* chain of nested spawns never leave capacity unused.
WorkConserving ==
  LoopIdle /\ spawned > 0 /\ ~is_complete => active >= recommended

\* The program does not return while the generator has candidates: no order of
\* completions and retirements empties the pool first.
ScrapeCompletes == Returned => is_complete

\* A candidate is requested by one coroutine and by it alone: those taken are
\* in exactly one coroutine's hands or have an outcome, and none is touched
\* before the generator returned it.
ExactlyOnce ==
  \A u \in Candidates :
    /\ \A c, d \in HeldBy(u) : c = d
    /\ HeldBy(u) \subseteq LiveCoros
    /\ u <= taken => HeldBy(u) # {} \/ outcome[u] # "none"
    /\ u > taken => HeldBy(u) = {} /\ outcome[u] = "none"

\* RunStats: attempts are the responses recorded, the attempts in flight and
\* the candidates that failed without an answer; errors are the failures whose
\* catch block has run.
Accounting ==
  /\ stats.attempted = stats.success + stats.non_success
                       + Cardinality({c \in Coros : pc[c] \in Waiting})
                       + Cardinality({u \in Candidates : outcome[u] = "unanswered"})
  /\ stats.errors = Cardinality(Failed) - Cardinality(Uncaught)

\* main returns EXIT_FAILURE exactly if some candidate failed, and then each
\* of them is named in the error log and no other candidate is.
ErrorsReported ==
  Returned => /\ (stats.errors # 0) <=> (Failed # {})
              /\ log = Failed

\* The part of it that survives an error log that throws: the exit code.
ExitCodeTells == Returned => ((stats.errors # 0) <=> (Failed # {}))

\* Coroutines that wait where nothing in the program ends the wait.
HeldUp == untimed \cup {c \in Coros : pc[c] = "teardown"}

\* A coroutine has the thread and waits in getline for the upstream program.
Blocked == /\ ~is_complete /\ ~closed /\ taken = available
           /\ \E c \in Coros : Executes(c) /\ pc[c] = "next"

\* A wait without a timer costs the coroutine that is in it, and no more: the
\* others go on until the generator is drained, or so many are held up that the
\* recommendation allows no other.
StallsCostOneCoroutine ==
  <>[](/\ spawned > 0 /\ LiveCoros \subseteq HeldUp
       /\ is_complete \/ Cardinality(HeldUp) >= recommended)

\* Every candidate taken leaves its coroutine, whatever its siblings do, except
\* where a wait has no timer, and as long as getline does not hold the thread.
EveryCandidateEnds ==
  \A u \in Candidates : <>[](Blocked \/ (u <= taken => HeldBy(u) \subseteq HeldUp))

\* What the program does not ensure: every teardown ends.
EveryTeardownEnds ==
  \A c \in Coros : pc[c] = "teardown" ~> pc[c] # "teardown"

\* The scraper implements Crawl: to a reader who sees only which candidates
\* have been taken and which are in hand, it is a bounded, ordered, once-only
\* traversal of the generator.
C == INSTANCE Crawl WITH Limit <- Cap, begun <- taken, working <- Held
ImplementsCrawl == C!Spec

\* Each coroutine treats its connections as Connection provides them: one at a
\* time, and torn down before the next one, or the next candidate, is begun.
Link == INSTANCE Attempts WITH Owners <- Coros, tls <- Tls,
          phase <- [c \in Coros |-> IF pc[c] \in Suspended THEN pc[c] ELSE "idle"]
ImplementsAttempts == Link!Spec
=============================================================================
