------------------------------ MODULE TimedAwait ------------------------------
(***************************************************************************)
(* The timeout wrappers of src/src/abrade/network_timeout.hpp, as one      *)
(* coroutine uses them: one await after another, each with a timer and two *)
(* flags of its own that its timer's handler keeps alive, all handlers run *)
(* in turn by one event loop.                                              *)
(*                                                                         *)
(* An operation is a chain of steps, each a wait on the network: reads or  *)
(* writes of a composed operation, or the endpoints async_connect tries in *)
(* turn.  A step that has completed is a handler in the queue; cancelling  *)
(* reaches only a step that has not.                                       *)
(***************************************************************************)
EXTENDS Integers, Sequences

CONSTANTS
  Scripts,   \* what the coroutine may be about to await: sequences of
             \* [kind : Kinds, steps : Nat \ {0}]
  TimersLast \* the reactor queues what a poll finds on sockets before timers
             \* (epoll, kqueue); FALSE where the two come in any order (IOCP)

Kinds == {"resolve", "connect", "transfer"}

ASSUME ScriptAssumption ==
  /\ TimersLast \in BOOLEAN
  /\ Scripts \subseteq Seq([kind : Kinds, steps : Nat \ {0}])
  /\ \A s \in Scripts : \A i \in DOMAIN s : s[i].kind = "resolve" => s[i].steps = 1

VARIABLES
  script,    \* the awaits of this coroutine, one after another
  at,        \* the await it is suspended in; 0 before, Gone after the last
  left,      \* steps its operation may still take, the current one included
  op,        \* its current step: waiting for the network, or a queued handler
  given_up,  \* resolver.cancel() was called: the lookup's answer is dropped
  timer,     \* each await's timer
  active,    \* each await's `active' flag
  timed_out, \* each await's `timed_out' flag
  ready,     \* the event loop's queue of handlers
  verdict,   \* how each await returned to the coroutine
  hit        \* the await a timer's cancel reached, 0 for none

Awaits == DOMAIN script

\* The coroutine has left for good what it awaits with a timeout: it tears down
\* the socket, or uses another.
Gone == Len(script) + 1

vars == <<script, at, left, op, given_up, timer, active, timed_out, ready, verdict, hit>>

\* Handlers: a step's, with its error code; a timer's, likewise.
StepDone(ec) == [what |-> "step", of |-> at, ec |-> ec]
TimerDone(i, ec) == [what |-> "timer", of |-> i, ec |-> ec]

Kind == script[at].kind

Init ==
  /\ script \in Scripts
  /\ at = 0 /\ left = 0
  /\ op = "waiting" /\ given_up = FALSE
  /\ timer = [i \in Awaits |-> "unset"]
  /\ active = [i \in Awaits |-> TRUE]
  /\ timed_out = [i \in Awaits |-> FALSE]
  /\ ready = <<>>
  /\ verdict = [i \in Awaits |-> "none"]
  /\ hit = [i \in Awaits |-> 0]

-----------------------------------------------------------------------------
\* What the coroutine goes on to has its steps before it.
StepsOf(next) == IF next \in Awaits THEN script[next].steps ELSE 0

\* The first await: its timer is armed and its operation started.
Begin ==
  /\ at = 0
  /\ at' = 1 /\ left' = StepsOf(1)
  /\ timer' = [timer EXCEPT ![1] = "armed"]
  /\ UNCHANGED <<script, op, given_up, active, timed_out, ready, verdict, hit>>

\* A step waits for the network.
Outstanding == at \in Awaits /\ op = "waiting"

\* An expired timer's handler is in the queue.
ExpiryQueued == \E k \in DOMAIN ready : ready[k].what = "timer" /\ ready[k].ec = "ok"

\* The network, or the resolver's thread, completes the current step.
Completes(ec) ==
  /\ Outstanding
  /\ TimersLast /\ Kind # "resolve" => ~ExpiryQueued
  /\ op' = "queued"
  /\ ready' = Append(ready, StepDone(IF given_up THEN "aborted" ELSE ec))
  /\ UNCHANGED <<script, at, left, given_up, timer, active, timed_out, verdict, hit>>

\* A timer reaches its time.
Expires(i) ==
  /\ timer[i] = "armed"
  /\ timer' = [timer EXCEPT ![i] = "queued"]
  /\ ready' = Append(ready, TimerDone(i, "ok"))
  /\ UNCHANGED <<script, at, left, op, given_up, active, timed_out, verdict, hit>>

\* lowest_layer.cancel() aborts a socket's waiting step.
AbortsConnects == Outstanding /\ Kind = "connect"                   \* mutant
Aborts == Outstanding /\ Kind # "resolve"

\* lowest_layer.cancel() or resolver.cancel(), by the handler of timer i.  A
\* running lookup goes on, but its answer is dropped; on a step that is already
\* queued, and when nothing is awaited, neither has an effect.
Cancel(i) ==
  /\ hit' = [hit EXCEPT ![i] = at]
  /\ op' = IF Aborts THEN "queued" ELSE op
  /\ ready' = Tail(ready) \o (IF Aborts THEN <<StepDone("aborted")>> ELSE <<>>)
  /\ given_up' = (given_up \/ (Outstanding /\ Kind = "resolve"))

\* The timer's handler wins only if it did expire, and only while its own await
\* is outstanding.
WinsLate(h) == h.ec = "ok"                                          \* mutant
Wins(h) == h.ec = "ok" /\ active[h.of]

RunTimer ==
  /\ ready # <<>> /\ Head(ready).what = "timer"
  /\ LET h == Head(ready) IN
     /\ timer' = [timer EXCEPT ![h.of] = "done"]
     /\ \/ /\ Wins(h)
           /\ active' = [active EXCEPT ![h.of] = FALSE]
           /\ timed_out' = [timed_out EXCEPT ![h.of] = TRUE]
           /\ Cancel(h.of)
        \/ /\ ~Wins(h)
           /\ ready' = Tail(ready)
           /\ UNCHANGED <<op, given_up, active, timed_out, hit>>
  /\ UNCHANGED <<script, at, left, verdict>>

\* The operation does not end with this step: a composed transfer has more to
\* read or write, or async_connect has another endpoint for a failure, an
\* aborted one included.
Continues(ec) ==
  /\ left > 1
  /\ \/ Kind = "transfer" /\ ec = "ok"
     \/ Kind = "connect" /\ ec # "ok"

\* The next step is started; it may find its data there and complete at once.
RunStep ==
  /\ ready # <<>> /\ Head(ready).what = "step"
  /\ Continues(Head(ready).ec)
  /\ left' = left - 1
  /\ \/ op' = "waiting" /\ ready' = Tail(ready)
     \/ op' = "queued" /\ ready' = Append(Tail(ready), StepDone("ok"))
  /\ UNCHANGED <<script, at, given_up, timer, active, timed_out, verdict, hit>>

\* What the wrapper makes of the flags and the error code.
JudgeCodeFirst(ec) == CASE ec # "ok" -> ec                          \* mutant
                        [] ec = "ok" /\ timed_out[at] -> "timeout"
                        [] OTHER -> "ok"
Judge(ec) == CASE timed_out[at] -> "timeout"
               [] ~timed_out[at] /\ ec # "ok" -> ec
               [] OTHER -> "ok"

\* timer.cancel(): a timer that still waits completes with an error, one whose
\* handler is queued already is not recalled.
TimerCancelled == IF timer[at] = "armed" THEN <<TimerDone(at, "aborted")>> ELSE <<>>

\* The operation ends and the coroutine is resumed: it lowers its flag, cancels
\* the timer, and throws, or goes on to the next await - unless it finds fault
\* with what it has received.
Resume(next) ==
  /\ ready # <<>> /\ Head(ready).what = "step"
  /\ ~Continues(Head(ready).ec)
  /\ LET v == Judge(Head(ready).ec)
     IN  /\ next = Gone \/ (v = "ok" /\ next = at + 1)
         /\ verdict' = [verdict EXCEPT ![at] = v]
  /\ active' = [active EXCEPT ![at] = FALSE]
  /\ at' = next
  /\ timer' = [i \in Awaits |-> IF i = at /\ timer[i] = "armed" THEN "queued"
                                ELSE IF i = next THEN "armed" ELSE timer[i]]
  /\ left' = StepsOf(next)
  /\ op' = "waiting"
  /\ ready' = Tail(ready) \o TimerCancelled
  /\ given_up' = FALSE
  /\ UNCHANGED <<script, timed_out, hit>>

ResumeAny == \E next \in {at + 1, Gone} : Resume(next)

Loop == RunTimer \/ RunStep \/ ResumeAny

Next == \/ Begin
        \/ \E ec \in {"ok", "error"} : Completes(ec)
        \/ \E i \in Awaits : Expires(i)
        \/ Loop

Spec == Init /\ [][Next]_vars

\* The loop runs what is queued, time passes, and a lookup returns some day.  A
\* peer need never answer.
FairSpec == /\ Spec
            /\ WF_vars(Loop)
            /\ WF_vars(\E i \in Awaits : Expires(i))
            /\ WF_vars(at \in Awaits /\ Kind = "resolve"
                         /\ \E ec \in {"ok", "error"} : Completes(ec))

-----------------------------------------------------------------------------
\* A timer cancels the operation of its own await or nothing: an expiry that is
\* still queued when the coroutine goes on never reaches the next operation on
\* the same socket, nor a socket that is gone.
CancelsItsOwn == \A i \in Awaits : hit[i] \in {0, i}

\* An await that returned without an error was not timed out, and the awaits
\* before it succeeded; one whose timer won is reported as a timeout, whatever
\* its cancelled operation says, and never succeeds.
OnlyUntimedSucceeds ==
  \A i \in Awaits : verdict[i] # "none" =>
    /\ \A j \in 1 .. (i - 1) : verdict[j] = "ok"
    /\ verdict[i] = "timeout" <=> timed_out[i]

\* Every await returns to the coroutine, however silent the peer.
EveryAwaitReturns == at \in Awaits ~> at = Gone

\* What the wrapper does ensure: the coroutine does not stay for ever in an
\* await whose operation is one wait on the network, however silent the peer
\* and however the awaits before it raced their timers.
SingleAwaitReturns == []<>(at \in Awaits => script[at].steps > 1)

\* Once the timeout has expired, the operation starts nothing more.
NothingAfterTimeout ==
  [][(at \in Awaits /\ timed_out[at]) => left' = left \/ at' # at]_vars
=============================================================================
