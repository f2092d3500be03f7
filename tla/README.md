# Abrade in TLA+

Abrade (`src/src/`) requests a long list of candidate paths from one host and
records which of them exist. It runs a pool of stackful coroutines on a single
thread; each takes a candidate from a generator, opens a connection (directly,
over TLS, through a SOCKS5 proxy, or both), sends a HEAD or a GET, records the
outcome and takes the next. An optional controller grows and shrinks the pool.

This directory holds TLA+ models of that program, translated from its source,
the TLC runs that check them on small instances, and proofs, checked by TLAPS,
of the properties that matter most. `PROJECT.json` lists the runs, maps every
definition to the source lines it models, and lists the hazards, findings and
theorems.

    tlc -workers 2 -config MCScraperPool.cfg MCScraper     # model-check one run
    tlapm ScraperProofs.tla                                # check one proof module

Contents: [the system](#the-system) ·
[modules](#modules) · [runs](#runs-and-what-they-show) ·
[fairness](#fairness) · [proofs](#proofs) ·
[disagreements found](#where-the-code-and-its-documents-disagree) ·
[not modelled](#abstractions-and-what-is-not-modelled) · [plan](#plan)

## The system

| Component | Source | State | Operations |
| --- | --- | --- | --- |
| Scraper pool | `scraper.hpp` | `active_coroutines`; per coroutine its place, its candidate, `redirects_followed` | `run`, `spawn_coroutine`, `coroutine` |
| Controllers | `controller.cpp` | windows of samples, `completed`, `recommended` | `register_completion`, `recommended_coroutines` |
| Generators | `generator.cpp` | per range `current`, `digits`, `index`; `is_complete` | construction, `next`, `get_range_size` |
| Timeouts | `network_timeout.hpp` | per await a timer and the flags `active`, `timed_out` | `await_*_with_timeout` |
| Connections | `connection.hpp` | the socket, what was negotiated on it | `connect`, the cleanup in `~Connection` |
| Request writer | `writer.hpp` | none that changes | `make_request` |
| Queries | `query.hpp` | none of their own | `execute` |
| Actions | `action.hpp` | the output stream or directory | `process` |
| Filters | `content_filter.hpp` | none that changes | `accepts` |
| Redirect policy | `redirect_policy.hpp` | none that changes | `redirect_target` |
| Statistics | `run_stats.hpp` | counters | `record_*`, `has_errors` |
| Error log | `scraper_runtime.hpp` | a file, opened for each line | `record` |
| Options, endpoints, main | `options.cpp`, `endpoint.hpp`, `cli/main.cpp` | constant once parsed | parsing, wiring, the exit code |

How they interact:

* All handlers and coroutines run on the one thread that calls `ios.run()`. A
  coroutine keeps the thread until it awaits a network operation. `spawn`, called
  in a coroutine, runs the child at once, on top of its parent's stack.
* The generator, the controller, the statistics and `active_coroutines` are
  shared by all coroutines without locks. What protects them is that the code
  between two awaits is not interrupted - except that a spawn, and in the TLS
  policies a destructor, are places where other coroutines do run.
* Each await has a timer of its own. The timer's handler and the operation's
  completion go through the same queue; flags decide which of them counts.
* An exception ends the attempt; the `catch` in `spawn_coroutine` counts it and
  writes the error log, and the coroutine goes on with the next candidate.

What is hard here, and what would make each component correct:

* *Pool.* Growth and retirement are decided by each coroutine from a shared
  counter. It must never be larger than recommended, never be empty while
  candidates are left, never hand a candidate out twice, and a coroutine that is
  held up must not hold up the others.
* *Bookkeeping* is spread over `coroutine`, `execute`, `process` and the catch
  block: the counters, the log and the exit code have to agree on every path.
* *Timeouts.* A late timer must not cancel the next operation on the socket, a
  cancelled operation must be reported as a timeout, and every await should
  return - which those of several steps need not.
* *Connections.* No request before the tunnel and the TLS session are there, and
  nothing of the proxy's left in the stream.
* *Generator.* A mixed-radix odometer of ranges that reset, carry, wrap and
  refer to each other must emit exactly the product, and its strings, put behind
  one another, should not repeat.
* *Controller.* Whatever the measurements, infinite ones included, it must stay
  within its bounds, or the pool's properties fall with it.
* *Output.* A full disk, a killed process and colliding names must not lose
  results silently.
* *Invocation.* Options imply and exclude each other, and several constructors may
  refuse in turn: what is refused must leave nothing behind, and what is accepted
  must take effect.

`PROJECT.json` lists these under `hazards`, each at its line.

## Modules

| Module | Models | Kind |
| --- | --- | --- |
| `Crawl` | what a scrape promises: candidates in order, once, a bounded number at a time | abstract |
| `Scraper` | the pool, the life of a candidate, errors, redirects, the end of the run | component |
| `Recommendation` | what a controller promises the pool | abstract |
| `AdaptiveController` | the sample window and the regression | component |
| `AdaptiveScraper` | `Scraper` with `AdaptiveController` in the place of the promise | composition |
| `Attempts` | the life of a connection, seen from its owner | abstract |
| `Connection` | the operations of the four policies, SOCKS5, cleanup | component |
| `TimedAwait` | the timeout wrappers, their flags and the event loop's queue | component |
| `TimedConnection` | one attempt: `Connection`, each of its operations in an await of `TimedAwait` | composition |
| `UriGenerator` | ranges, odometer, cardinality | component |
| `Redirects` | the redirect policy, and RFC 3986 resolution | algorithm |
| `GetOutput` | body filters, body files and the counters about them | component |
| `ScrapeGet` | `Scraper` with `GetOutput` in the place of what a response does | composition |
| `HeadOutput` | the list of discovered candidates, over several runs | component |
| `Endpoint` | `parse_host_endpoint`, `parse_tcp_port`, the CONNECT request made of them | algorithm |
| `Program` | the options, the order in which `main` constructs a scrape, the exit code | component |
| `Foundations` | induction, least elements, sequences and folds | lemmas |
| `ScraperProofs` | the pool, its candidates, its bookkeeping | proofs |
| `ControllerProofs` | `AdaptiveController` | proofs |
| `CompositionProofs` | `AdaptiveScraper` and `ScrapeGet` | proofs |
| `AttemptProofs` | `TimedConnection` | proofs |
| `ResponseProofs` | `HeadOutput` and `Redirects` | proofs |
| `ProgramProofs` | `Program` and `Endpoint` | proofs |
| `UriGeneratorProofs` | `UriGenerator` | proofs |
| `MC*` | constants for TLC | checking |

The modules meet in the abstract ones. `Scraper` and `Connection` both implement
`Attempts`, which is what the pool knows of a connection and what the policies
provide. `AdaptiveController` implements `Recommendation`, which is all `Scraper`
assumes of a controller (its operator `Recommends`); `AdaptiveScraper` puts the
two together and checks that each still implements its own specification.
`Scraper` implements `Crawl`. `TimedAwait` justifies what `Scraper` takes from the
timeouts, that an operation with a timer ends, and shows how one loses it.
`TimedConnection` implements `Attempts` with the timers in it, so what `Scraper`
relies on holds of an attempt as it really runs; `ScrapeGet` is a `Scraper` and
puts its counters, its log and the disk into one state; and `Program` shows that
the scrapes a command line can start give these modules the constants they assume.

### Scraper

`pc[c]` is the place of coroutine `c`: on the thread (`next`, `attempt`, `catch`,
`complete`), suspended in a network operation (`connect`, `exchange`) or in a TLS
teardown (`discard`, `teardown`), `unborn` or `gone`. A step of a suspended
coroutine needs `LoopIdle`; of those on the thread only the youngest
`Executes`, which is how nested spawns are modelled without a stack. Coroutines
are numbered in spawn order, so `N + 1` identifiers suffice for `N` candidates.

| Action | Code |
| --- | --- |
| `Start` | `run`: the first `spawn_coroutine`, and `ios.run()` |
| `Take` | `generator.next()`, the comparison with the recommendation, the spawn |
| `Exhaust` | `next()` returns `nullopt` |
| `Attempt`, `Connected` | the loop of `coroutine`: `record_attempt`, `connect`, then the exchange |
| `Respond`, `FailToStore`, `Redirect` | `execute`: a response that ends the candidate, one whose action throws, one that is followed |
| `LoseTimer` | a timer strikes between two steps of a composed operation, which goes on without it |
| `Fail` | an operation that failed or timed out, or ended after its timer had struck |
| `Discarded`, `TornDown` | the TLS cleanup in `~Connection` comes back |
| `Record`, `RecordThrows` | the catch block, when the log can and when it cannot be written |
| `Complete` | `register_completion`, and the decision to retire |
| `Feed`, `CloseInput` | the program that writes to standard input |

`Take` blocks when standard input has no line: then no step of any other
coroutine is enabled either, as in the code, where `getline` holds the thread
(`Blocked`). `untimed` are the coroutines whose operation has lost its timer
(`network_timeout.hpp:78`): it may never end, and if it does it is a timeout to
the coroutine, as the flag is set. `HeldUp` adds those in a TLS teardown, which has
no timer at all.

### AdaptiveController

`Count` and `Sample` are `register_completion` before and at the end of a
sample. Sums of squares are multiplied by the window's length to stay integers;
only their signs matter. `Infinite` is the velocity of a sample that took no
measurable time, and any window that contains one makes the covariance a NaN: both
comparisons of `beta` are then false.

### TimedAwait

A script of awaits, each an operation of one or more steps, as composed
operations are. `ready` is the event loop's queue; `RunTimer`, `RunStep` and
`Resume` run its head; `Completes` and `Expires` are the network and the clock.
Cancelling reaches only a step that still waits, not one whose handler is queued.
`TimersLast` says that the platform's reactor queues sockets before timers in
one poll, which rules out some orders: the passing runs do not assume it, the
violations do, so that neither depends on it.

### Connection

`operation` walks through what `connect` awaits in each of the four policies;
`unread` counts the bytes of the proxy's answer that nobody has read. `Cleanup`
is `~Connection`, and `Complains` what `--sensitive` makes of its error code.

### TimedConnection

An attempt is a script of awaits, which `RouteOf` derives from the order of
`Connection`'s operations and `ScriptOf` from what each of them is: a lookup, a
connect to a host with two addresses, or a transfer of one or two steps. `Resumed`
joins the two modules: the verdict `TimedAwait` gives is what `Connection` goes on
with or gives up on. What is left of a long answer of the proxy's garbles the next
one (`Garbled`), which then fails. `TearDown` runs within the handler that left, under TLS as an
operation of its own, while handlers of earlier timers may still be queued.

### UriGenerator

A template is the sequence of its brace tokens, each with the literal before it.
`Construct` refuses what the constructor refuses; `next` emits the candidate and
turns the odometer, `size_t` being `0 .. SizeMax`. Characters are numbers, the
decimal digits being 0 to 9, and a candidate is a string of them: `Text` is what a
range stands at, `Spelt` how it is written (a number in decimal, an index as the
element of its domain), and `Spelling` puts literals and texts behind one another,
as `next` does. So two positions of the odometer may spell the same candidate.
`Expected` computes the n-th candidate by arithmetic, without an odometer, and is the
reference the odometer is checked against; it shares `Shown` and `Spelt` with it, which
`OnceWithLeadZero` and `TelescopingIsUnion` look at instead. `TemplatesAssumption` says
that an implicit token is never empty, as `{}` is parsed as a continuation, and that a
domain lists no character twice.

### Redirects

Locations and targets are sequences of tokens: the delimiters `:`, `/`, `?`, `#`
and words. `RedirectTarget` follows the code; `Parsed` and `Resolved` are
the grammar and the resolution of RFC 3986. A candidate need not be the target of a
URI, as the generator makes any text, and RFC 3986 says nothing of such a base: so
`FollowedAsMeant` is about targets that begin with a slash (`IsTarget`).

### GetOutput and HeadOutput

Both begin when the response has been read. `GetOutput` takes a response in one
step, since nothing awaits before `process` returns or throws and a killed scrape
promises nothing of its body files. It keeps what each file holds, and separates
bodies that fit into the stream's buffer, which `~ofstream` writes after
they were counted, from longer ones. `ProcessThrows` is a file that cannot be opened, or
a regex that gives up on a body (`content_filter.hpp:20`).

`HeadOutput` is about what a kill leaves behind, so there a response is several
steps, and `Crash` may come between any two of them:

| Step | Code | Then `stage` is |
| --- | --- | --- |
| `Respond` | `record_response` | `counted`, if it is a 2xx |
| `Insert` | `file << candidate << '\n'`, into the buffer, or a throw if the stream has failed | `inserted` or `thrown` |
| `Flush`, `FlushFails` | `file.flush()` | `over` or `thrown` |
| `Catch` | the catch block: `record_error`, `error_log.record` | `over` |

From `counted` to `over` or `thrown` the coroutine has the thread (`ThreadFree`). From
`thrown` to `Catch` it has not: the exception unwinds through `~Connection`, which
suspends in a TLS shutdown, so other responses come in between. A line names the target
a redirect led to, an entry of the error log the generated candidate, and on a full
disk `Catch` may lose the entry as well, as `~ofstream` of the log tells nobody. The
module keeps the stream's buffer, its sticky failure and the file apart; `Exit` and
`Rerun` model that the list is appended to by later runs, `DiskChanges` that the disk
fills and empties. Variables that only the properties need (`written`, `thrown`, `kept`,
`discovered`, `killed`, `muted`) are marked as history.

`ScrapeGet` substitutes the pool's state into `GetOutput`: its counters are
fields of `stats`, and the calls that threw are the candidates whose outcome is
`unstored`. `uri` is `current.uri`, which a redirect replaces, while the error log
keeps the generated one; so two candidates may meet in one file in ways neither
module shows by itself.

### Program and Endpoint

`place` is the stage `main` has reached, in the order of `Order`: the options, the
controllers, the generator, the connection with its two authorities, the output,
the scrape. `Accept` and `Refuse` are the constructor of `Options`; `Valid` lists
its conditions and `Finished` what it derives (`--tor`, `--verify`, `--screen`).
The other stages construct one part each or fail, and `status` is the exit
code. A command line is a record of what the option parser has read, numbers
being integers that `ToSize` wraps into a `size_t`, as the parser does.

An authority is a sequence of tokens, as in `Redirects`. `ParseHostEndpoint` follows
the code from delimiter to delimiter; `Documented` and `Writings` say, in the other
direction, how `endpoint.hpp` and the manual write an endpoint, and are the
reference. `ConnectRequest` has the length byte, and `RequestedBy` is what a proxy
makes of it.

## Runs and what they show

Twelve runs, listed in `PROJECT.json`. The nine that pass fire every action of
their modules between them; the three that find a violation check one statement
of a document, a comment or a test each.

| Run | Configuration | Bounds | Shows |
| --- | --- | --- | --- |
| `pool` | `MCScraperPool.cfg` | 4 candidates, recommendation 1 to 2, 1 redirect | `CounterExact`, `ConcurrencyBound`, `WorkConserving`, `ScrapeCompletes`, `ExactlyOnce`, `Accounting`, `ErrorsReported`, refinement of `Crawl`, `StallsCostOneCoroutine`; no deadlock |
| `pool_tls` | `MCScraperTls.cfg` | 3 candidates on standard input, teardowns that suspend, a log that may throw | what survives when coroutines die: refinement of `Attempts`, `ExitCodeTells`; `EveryCandidateEnds` |
| `log_failure` | `MCScraperLogFails.cfg` | 2 candidates | violation of `ScrapeCompletes` |
| `controller` | `MCAdaptiveController.cfg` | window of 3, 2 completions per sample, 4 velocities, 1 to 4 | `WithinMinMax`, refinement of `Recommendation` |
| `controller_falling` | `MCAdaptiveControllerFalling.cfg` | the same | violation of `FallingTrendLowers` |
| `adaptive_pool` | `MCAdaptiveScraper.cfg` | 4 candidates, 1 to 2 | each part keeps to its specification |
| `attempt` | `MCTimedConnection.cfg` | four policies, up to nine awaits of one or two steps, answers of 7, 10 and 22 bytes | `CancelsItsOwn`, `OnlyUntimedSucceeds`, `RequestReachesTarget`, refinement of `Attempts`, `SingleAwaitReturns` |
| `await_read` | `MCTimedAwaitRead.cfg` | one await of three steps | violation of `EveryAwaitReturns` |
| `generator` | `MCUriGenerator.cfg` | 19 templates, both flags, `size_t` of 4 bits, two decimal digits | `EmitsTheProduct`, `CardinalityIsCount`, `OnceWithLeadZero` |
| `scrape_get` | `MCScrapeGet.cfg` | pool of 2, 3 candidates, 1 redirect, 4 targets, 3 bodies | `FileIsOneBody`, `ReplacedByLookalikes`, `SummaryAgrees`, `NothingIsLost` |
| `responses` | `MCResponse.cfg` | list: 3 candidates, 1 redirected to, 3 discoveries, 2 runs; redirects: 8 beginnings, then up to 3 of 7 tokens, 5 targets | `FoundIsKeptOrReported`, `LossesFailTheRun`, `SummaryMatchesList`, `SpoiltOncePerRun`, `OnlyAppends`; `ForeignAuthorityRefused`, `FollowedAsMeant` |
| `options` | `MCProgram.cfg` | four families of command lines; every authority of up to 3 tokens, more in brackets; `size_t` of 3 bits | `HonoursOptions`, `LeavesNoTrace`, `AssumptionsMet`, `EndpointAsWritten` |

Why the bounds are enough. *Pool:* two coroutines, a third just spawned, and a
recommendation that can move both ways at every completion are the smallest pool in
which a retirement, a spawn and a completion race; four candidates let the pool
shrink and grow again. The proofs lift these bounds. *Controller:* three samples are
the smallest window in which the oldest is replaced while a trend remains. *Awaits:*
an expired timer can only reach the next await, the four policies put every kind of
await before every other kind it can precede, and a second step lets a composed
operation lose its timer and go on; answers of 7, 10 and 22 bytes are too short, as
long as what is read, and longer. *Generator:* the properties are about neighbouring
ranges and about the largest number, so products of two kinds and ranges ending at
`SizeMax` cover them; explicit ranges on either side of 10 have numbers of two
widths, and literals that are digits themselves can be mistaken for a range's.
*Redirects:* each beginning fixes one branch of the code and three further tokens
put every delimiter into every later component. *Output:* an overwritten file needs
two responses in either order of failure and success, which two coroutines bring,
and a third candidate that fails in another way; a torn line needs a run before and
a run after it, and three discoveries let one wait for its catch block while the
next fails and a third comes when there is room. *Options:* each branch of the
validation, of the wiring and of the parser looks at a few options, and each family
varies those that one group of branches looks at. Ports stand at their limits, names
on both sides of the length byte's.

Every property of a passing run has a mutant in `PROJECT.json`: a variant of
one definition, defined beside it and marked `\* mutant`, that TLC shows to break
the property.

`responses` checks the two things a HEAD response goes to, the list and the redirect
policy, neither of which looks at what the other keeps: `MCResponse` takes each through
all its states while the other is at rest.

Deadlock is checked in the runs `pool`, `log_failure`, `controller` and `controller_falling`.
`MCScraper` adds the one stutter that is legitimate there, a program that has
returned. The other models really stop: an await script that is over, a
generator that is complete, a bound on responses reached.

## Fairness

* `Scraper!Fairness`: the thread runs whatever is ready (`LocalStep`), and an
  operation that still has its timer ends (`NetworkStep`), as does the close of a stream
  that was never secured, which fails at once. The ground for the second is in
  `TimedAwait`: `SingleAwaitReturns`, checked of whole attempts, for an operation of one
  step; for a composed one, that its timer strikes while a step waits and so ends it,
  or strikes between two steps - which is `LoseTimer`, and what `await_read` shows.
* Nothing is assumed of the rest. A coroutine in `untimed` need not go on, nor one in a
  TLS teardown (`async_shutdown` has no timer), nor does the program behind standard
  input have to write or to close (`getline` has no timeout). The two liveness
  properties of the pool name these three waits: `StallsCostOneCoroutine`, that the
  others drain the generator unless so many are held up that the recommendation allows
  no more, and `EveryCandidateEnds`, that a candidate is kept by nothing else.
  `MCScraperTlsHangs.cfg` checks `EveryTeardownEnds`, and it is violated.
* Name resolution returns: `getaddrinfo` runs on a thread of its own that
  `resolver.cancel()` does not interrupt, so this is an assumption about the operating
  system, in `Scraper!Fairness` as well as in the next two.
* `TimedAwait!FairSpec`: queued handlers run, time passes, a lookup returns.
  A peer need never do anything. `TimedConnection!AttemptSpec` asks the same of an
  attempt, and that the coroutine goes on when it has the thread; it is not fair to
  a TLS teardown.

## Proofs

| Theorem | States | For every |
| --- | --- | --- |
| `ScraperProofs!TypeCorrect` | `TypeOK` | number of candidates, recommendation bounds, redirects, policy |
| `ScraperProofs!CounterIsExact` | `active_coroutines` is the number of live coroutines | the same |
| `ScraperProofs!BoundedConcurrency` | never more coroutines than the largest recommendation | the same |
| `ScraperProofs!ScrapeAlwaysCompletes` | no return while candidates are left, if the log can be written | the same |
| `ScraperProofs!PoolStaysFull` | a pool that waits is as large as recommended, if the log can be written | the same |
| `ScraperProofs!CandidatesHandledOnce` | `ExactlyOnce` | the same |
| `ScraperProofs!PoolImplementsCrawl` | `Scraper` implements `Crawl` | the same |
| `ScraperProofs!PoolClosesConnections` | `Scraper` implements `Attempts` | the same |
| `ScraperProofs!SummaryAddsUp` | `Accounting` | the same |
| `ScraperProofs!ExitCodeIsRight` | `ExitCodeTells`, whether the log can be written or not | the same |
| `ScraperProofs!FailuresAreReported` | `ErrorsReported`, if the log can be written | the same |
| `ControllerProofs!ControllerImplementsRecommendation` | `AdaptiveController` implements `Recommendation` | window, interval, set of velocities |
| `ControllerProofs!StaysWithinMinMax` | `--min` and `--max` bound the recommendation, if `--init` is within them | the same |
| `ControllerProofs!SamplesOnlyRaise` | how far `controller_falling` reaches: every sample raises the recommendation, or an infinite velocity is in the window | the same |
| `CompositionProofs!AdaptivePoolIsAPool` | `AdaptiveScraper` implements `Scraper` | the same, and the pool's constants |
| `CompositionProofs!ControllerIsItself` | `AdaptiveScraper` implements `AdaptiveController` | the same |
| `CompositionProofs!PoolNeverShrinks` | what that means for the pool: nobody retires while candidates are left, if the log can be written | the same |
| `ResponseProofs!NoDiscoveryIsLost` | `FoundIsKeptOrReported` | candidates, responses, runs |
| `ResponseProofs!LossesShow` | `LossesFailTheRun` | the same |
| `ResponseProofs!ListOnlyGrows` | `OnlyAppends` | the same |
| `ResponseProofs!OneLineSpoiltPerRun` | `SpoiltOncePerRun` | the same |
| `ResponseProofs!RedirectsStay` | `ForeignAuthorityRefused` | location and target, of any length |
| `ResponseProofs!RedirectsMeanWhatTheySay` | `FollowedAsMeant` | the same |
| `AttemptProofs!TimersCancelTheirOwn` | `CancelsItsOwn` | policy, scripts, order of handlers |
| `AttemptProofs!TimeoutsAreReported` | `OnlyUntimedSucceeds` | the same |
| `AttemptProofs!RequestsReachTheTarget` | `RequestReachesTarget` | the same |
| `AttemptProofs!AttemptsAreClosed` | `TimedConnection` implements `Attempts` | the same |
| `CompositionProofs!FilesAreBodies` | `FileIsOneBody` | pool, targets, bodies, filters |
| `CompositionProofs!OnlyLookalikesReplace` | `ReplacedByLookalikes` | the same |
| `CompositionProofs!SummaryIsTrue` | `SummaryAgrees`, if the log can be written | the same |
| `CompositionProofs!BodiesAreKept` | `NothingIsLost`, if the log can be written | the same |
| `ProgramProofs!OptionsAreHonoured` | `HonoursOptions` | command line, `size_t`, window limit |
| `ProgramProofs!RefusalsLeaveNoTrace` | `LeavesNoTrace` | the same |
| `ProgramProofs!ScrapesMeetAssumptions` | `AssumptionsMet` | the same |
| `ProgramProofs!EndpointsAreAsWritten` | `EndpointAsWritten` | the same, and every authority of any length |
| `UriGeneratorProofs!OdometerEmitsTheProduct` | `EmitsTheProduct` | template of any length, with any literals and domains, both flags, `size_t` |
| `UriGeneratorProofs!PrintedCardinality` | `CardinalityIsCount` | the same |
| `UriGeneratorProofs!NoneTwiceWithLeadZero` | `OnceWithLeadZero` | the same |

The argument for the pool. `TypeOK` and `CounterExact` are not inductive: a step
that ends a coroutine keeps the counter right only if the coroutine was live, and
one that spawns only if the new identifier is unused. `Shape` adds what is
missing: identifiers above `spawned` are unborn (`Births`), and a coroutine has a
candidate exactly from `Take` to `Complete` (`Holding`). `StepShape` and
`StepCount` go through the actions; every change of `active` is matched by one
coroutine that enters or leaves the live set (`EndCounts`, `SameLiveCounts`).
`BoundedConcurrency` needs only `WithinCap`, because a spawn is guarded by a
recommendation that is itself at most `Cap`. `ScrapeAlwaysCompletes` rests on
`NeverDrained`: the pool is empty only if `next()` has said so, because a coroutine
retires only when more than a positive recommendation are active - and the one
other exit, an exception from the log, is what the assumption `~LogMayFail`
excludes. `PoolStaysFull` is the hardest: in between, the pool may be smaller
than recommended, but then (`Refilling`) some coroutine on the thread is about to
take a candidate and spawn, so the loop is not idle.

`ExactlyOnce` needs `Handed`: what a coroutine holds was taken, two coroutines
never hold the same candidate, and a candidate that is taken is in hand or has an
outcome. The refinement of `Crawl` maps `begun` to `taken` and `working` to the
candidates in hand; that `Begin` respects its limit follows from `CounterExact`
and the injection of held candidates into live coroutines (`HeldFewer`).

The argument for the controller. Two theorems show how far the finding
`controller_falling` reaches; they state what the code does and not what it should.
The test for too little variation comes before the
comparisons of `beta` and takes every covariance that is not positive, so what falls
is too flat (`FallingIsTooFlat`) and the branch that lowers is dead. That needs the
sums to be numbers, hence `Windows` and `SumType`. For the pool (`PoolNeverShrinks`)
it means that the recommendation never goes down, and then the pool is never larger
than it (`WithinRecommended`), which is when a coroutine would retire. That is
stronger than `BoundedConcurrency`, and false of a pool whose recommendation falls.

The argument for the list: `FileExtends` shows that each step only puts pieces
behind the file, so what is in it stays (`ListOnlyGrows`, `KeptStays`). The invariant
for the rest, `ListInvariant`, has three parts. `OneAtATime`: a candidate is discovered
once in a run, and one coroutine is inside `process` at a time. `FoundIsKeptOrReported`
itself: a discovery is no longer `InHand` after a flush, which keeps it, after the catch
block, which writes its entry or finds the disk full, or after a kill. And `Handled`: a
line that is inserted is in the buffer, which is why a flush keeps it; what is through
was kept or counted, which is `LossesFailTheRun` of a run that ended by itself; and
only a kill leaves one in hand. That the two status tests, of the statistics and of
the action, are the same is `OneStatusTest`. How many lines are spoilt is not inductive:
a torn piece at the end of the file will spoil the next line, whoever writes it.
`Damage` counts it in advance, and `DamageBounded` says that a run whose stream is still
good has not used its share; a run that tears a line has a stream that has failed.

The argument for the redirects. The code cuts a location at the first "://", and
RFC 3986 where its grammar says; the lemmas `WithScheme`, `WithoutScheme` and
`WithoutAuthority` show that for the locations that are followed the two cuts agree.
`Splitting` and `SplitsAt` say that there is only one place to cut at, whatever stands
on either side. Then `AbsoluteFollowed` and `RelativeResolved` compare the paths.

The argument for the bookkeeping. `Accounting` compares counters with sizes of
sets, and a step that moves a coroutine or a candidate from one set to another
must be shown to move it from where it was. That needs `Settled`: what is in hand
and not decided has no outcome, so a failure is always a new one, and a coroutine
on its way to the catch block holds a candidate that has failed. Steps are then
either `Quiet`, moving nothing, or one of seven (`QuietOrMoves`). `LogUpToDate`,
that the log names the failures whose catch block has run, is what becomes
`ErrorsReported` when no coroutine is left; it needs `~LogMayFail`. The exit code does
not (`ExitCodeIsRight`): the error is counted before the log is written.

The argument for the adaptive pool: a completion moves the recommendation by at
most one step, whatever the regression says (`CompletionMoves`), which is what
`Scraper` allows; so the composition is a pool, `BoundedConcurrency` holds of it,
and the size the controller is told is one it expects.

The argument for an attempt. The two modules are proved apart and meet in two
lemmas: an attempt is a behaviour of `TimedAwait` (`AttemptAwaits`) and one of
`Connection` (`AttemptConnects`). For the first, `AwaitInv` says what the flags
are for: a flag is up only for the await the coroutine is in, at most one step of
an operation is queued, and verdicts are given in order. A timer that finds its
flag down cancels nothing, and one that finds it up is the current await's. For the
second, `Position` ties `greeted`, `granted` and `shaken` to the operation that is
under way, and `Unshaken` says that no stream is secured while it is still connecting,
which the refinement of `Attempts` needs to tell giving up from finishing.

The argument for the output of a scrape. `OutputSteps` tells four kinds of step
by what they do to the disk and to the counters: nothing, filtering, writing,
losing; each theorem follows from that table. `SumUp` counts every success once
because a lost body's candidate was not lost before, which is `Settled` again.
`AllKept` is `NothingIsLost` of every state, with the candidates whose outcome is
`unstored` in the place of the log; a body that replaces another one has the same
file name, hence (`SameNameLooksAlike`) differs in the replaced characters alone.

The argument for an invocation: `Stages` says of each stage of `main` what those
before it have established; three of the properties are about its last ones.
The fourth, about authorities, is about the parser alone. One half is that parsing
undoes writing (`ParsesBrackets`, `ParsesPlain`, `ParsesPort`, together
`DocumentedIsParsed`): delimiters are found where they were put, as names have none
and addresses no brackets. The other half is that what is accepted is a writing
(`ParseAccepted`), and the last that a proxy finds the port behind the name
(`RequestIsRead`), which needs the length, a sum, to fit its byte.

The argument for the generator compares turning with counting, twice over: the
digits of an implicit range turn like an odometer, and so do the ranges. `NextWord`
is the fact both need, that the next number's digits differ from a number's by the
last one that is not full and those behind it; `NothingLeft` says that a number below
the product has no carry, and `WordsDiffer` that its digits determine it. A
telescoping range is several lists of texts put behind one another, and `Offsets` says
where each begins. What `EmitsTheProduct` says is not inductive, as it is about the
last candidate: `Counted` adds that all the candidates before it are the first of the
product, and that every range stands at its digit of their number (`Position`: which
subrange, which word, and the counters of all other subranges at zero, which is what
lets `ImplicitRange::reset` do nothing). `IncrementCounts` takes the ranges from `m`
to `m + 1`; it has one lemma for a range that moves and one for a range that rolls
over. `current++` does not wrap, as a range that has a text left is below its last.
For the cardinality, a checked operation on checked numbers is the operation on the
numbers, checked (`CheckedTimes`, `CheckedPlus`): an overflow can not be lost on
the way, because no factor is 0, every range of an accepted template having a text.

That no string comes twice (`NoneTwiceWithLeadZero`) is about strings, and different
texts may run together to one. With `--leadzero` the text of an implicit range is the
whole word of its number (`TextIsWord`), different texts of a range are spelt
differently (`SpeltDiffer`, from `DecimalsDiffer` and from the domains' having no
character twice), and those of a range that is not in `VariableWidth` are all of one
length. Were two candidates one string although a part of theirs differs in length, that
part would belong to the one range of variable width (`OneVariable`) or to a continuation
of it, and no other part would make up for it (`ShorterPart`, `ShorterFlatten`). So the
lengths agree, hence the parts (`SameLengthsFlatten`), hence the texts and the positions
of the odometer (`CandidatesDiffer`), which is at each position once.

Folds and `Min`. The community modules define folds by recursive functions, whose
existence has to be proved before anything can be said of them. The library's
induction theorems take an operator and cannot be used, but its lemmas about
well-founded relations take sets; `Foundations` derives from them induction over
subsets of the natural numbers (`InductionOnNat`, `InductionUpTo`, `InductionDown`),
that least and greatest elements are what `Min` and `Max` choose, and that a fold
exists and satisfies its equation (`FoldExists`).

The assumptions of the theorems are the named `ASSUME`s of the modules, which
state the types of the constants, and what the statements themselves say.

Only model-checked: liveness and fairness (`StallsCostOneCoroutine`,
`EveryCandidateEnds`, `SingleAwaitReturns`), which are outside what the prover covers, and
`SummaryMatchesList`. Every other invariant and action property of the passing runs is
a theorem.

## Where the code and its documents disagree

Three are findings of the listed runs, and `PROJECT.json` quotes both sides:

| Run | What happens | Where |
| --- | --- | --- |
| `log_failure` | an error log that cannot be written ends coroutines, and with the last one the scrape | `scraper.hpp:67` |
| `await_read` | a timeout that strikes between two reads of one response is lost, and the next read has no timer | `network_timeout.hpp:78` |
| `controller_falling` | a falling trend raises the recommendation; the decrement is unreachable | `controller.cpp:79` |

The others have a definition in their module that says what one would expect, and a
configuration, beside the regular runs, in which TLC finds it violated. Where a document
or a comment says otherwise, it is named (paths under `src/`):

| Configuration | Definition | What happens | Where |
| --- | --- | --- | --- |
| `MCConnectionReply` | `StreamIsTargets` | a SOCKS5 answer with an IPv6 address or a long name leaves bytes in the stream (`src/abrade/connection.hpp:201`) | `connection.hpp:268` |
| `MCScrapeGetBytes` | `BytesAreOnDisk` | a body that fits the stream's buffer is counted before it is written, and its failure is lost (`src/abrade/run_stats.hpp:34`) | `action.hpp:86` |
| `MCUriGeneratorUnion` | `TelescopingIsUnion` | telescoping without `--leadzero` requests short candidates again at each longer suffix (`docs/patterns.md:97`) | `generator.cpp:146` |
| `MCAdaptiveControllerInit` | `ComesWithinMinMax` | `--init` above `--max` is recommended for ever (`docs/networking.md:105`) | `controller.cpp:30` |
| `MCProgramNegative` | `NegativeRefused` | `--init=-1` is accepted as the largest number (`src/abrade/options.cpp:91`) | `options.cpp:91` |
| `MCScraperTlsHangs` | `EveryTeardownEnds` | a TLS peer that stays silent after the response holds its coroutine for ever | `connection.hpp:158` |
| `MCTimedAwaitConnect` | `NothingAfterTimeout` | a connect that times out at the first endpoint goes on to the second, without a timer | `network_timeout.hpp:137` |
| `MCUriGeneratorWidth` | `FullWidth` | the `{hh}` example begins with a one-digit candidate (`docs/patterns.md:54`) | `generator.cpp:146` |
| `MCConnectionComplaint` | `ComplaintsAreErrors` | `--sensitive` reports clean shutdowns of the plaintext policy as errors | `connection.hpp:102` |
| `MCRedirectsScheme` | `OnlySameOriginFollowed` | `Location: mailto:x` is requested as a relative path (`docs/cli.md:88`) | `redirect_policy.hpp:76` |
| `MCRedirectsRelative` | `RelativeFollowed` | a relative redirect with a URL in its query is not followed (`docs/cli.md:91`) | `redirect_policy.hpp:76` |
| `MCHeadOutputSticky` | `AppendedWhenPossible` | after one failed write no discovery is recorded any more | `action.hpp:33` |

## Abstractions, and what is not modelled

* Time is not measured: a timer may expire whenever it is armed, and a sample has
  any velocity of a set.
* Candidates are numbers in `Scraper` and `HeadOutput`, and character or token
  sequences where their text matters. The literal behind the last token of a template
  ends every candidate alike and is left out.
* Finding the braces of a template, and reading a bound with `lexical_cast`, which
  takes a negative numeral for a large one, are left out: a token is given as what it
  was parsed to, or as malformed.
* Failures of `configure_tls_peer` are failures of the attempt like any other.
* Velocities are integers; the 0.0001 thresholds of the regression separate zero
  from the rest.
* Console output, the summary's formatting and `--verbose` are left out. So are
  options that only word the requests (user agent, headers) or name paths, the
  environment variable for the timeout, and splitting the arguments, which is
  boost.program_options.
* Numbers of options are integers that wrap; a failing allocation is a window
  longer than `MaxWindow`.
* The text of the lines on standard input is not modelled; `log_size` only words a
  line.
* What Boost.Asio and Beast do is modelled from how the code uses them. What
  suspending inside a destructor during unwinding does to the C++ run-time's record
  of caught exceptions is a question about the coroutine library and left open.
* The fixed controller's counter only decides when a line is printed.
* Tests, build, packaging and release tooling are not part of the running program.

## Plan

Done, in this order: the pool and its abstract specification; the controller and
the composition; the timeouts; the generator; the connection policies; the proofs
about pool, candidates and controller; output and redirects; the command line and
its authorities; the compositions `TimedConnection` and `ScrapeGet`; the proofs
about the bookkeeping, attempts, invocations and body files; those about redirects,
authorities, spoilt lines and the reach of the controller's finding; those about the
generator; kills between the steps of a response, waits that have lost their timer, and
candidates as strings, with their proofs.

Next:

1. A composition of `Scraper` with `UriGenerator` in the place of its counter.
2. A composition of `Scraper` with `HeadOutput`, across runs.
