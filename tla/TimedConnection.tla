--------------------------- MODULE TimedConnection ---------------------------
(***************************************************************************)
(* One attempt with its timers: Connection says what the coroutine awaits  *)
(* and what it makes of the answers, TimedAwait how each of these awaits   *)
(* ends.  All of them are on one socket, and handlers of earlier timers    *)
(* may still be queued while later operations, or the teardown, use it.    *)
(***************************************************************************)
EXTENDS TimedAwait

CONSTANT ReplySizes

VARIABLES policy, operation, unread, connected, greeted, granted, shaken, requested,
          result, closed, complaint

C == INSTANCE Connection

ASSUME ReplySizesAssumption == ReplySizes \subseteq Nat

attempt == <<policy, operation, unread, connected, greeted, granted, shaken, requested,
             result, closed, complaint>>
attemptVars == <<vars, attempt>>

\* What connect, make_request and execute await under policy p, in order.
Longest == 9
RouteOf(p) ==
  LET step[i \in 1 .. Longest] == IF i = 1 THEN "resolve" ELSE C!After(p, step[i - 1])
      last == CHOOSE i \in 1 .. Longest : step[i] = "query"
  IN  [i \in 1 .. last |-> step[i]]

\* Each of them is a lookup, a connect to a host with two addresses, or a
\* transfer; the sizes of writes fit one, answers may come in two reads.
Writes == {"write auth", "proxy connection", "make request"}
ScriptOf(p) ==
  [i \in DOMAIN RouteOf(p) |->
     LET o == RouteOf(p)[i] IN
     [kind  |-> IF o \in {"resolve", "connect"} THEN o ELSE "transfer",
      steps |-> IF o \in Writes \cup {"resolve"} THEN 1 ELSE 2]]

AttemptInit == Init /\ C!Init /\ script = ScriptOf(policy)

Start == Begin /\ C!Start

\* The operation ended with what it was to bring, and the coroutine looks at it.
Received == \/ C!Pass \/ C!Handshake \/ C!Query
            \/ \E version \in {4, 5}, method \in {0, 255} : C!ReadAuth(version, method)
            \/ \E code \in {0, 1}, size \in ReplySizes : C!ReadReply(code, size)

\* What is left of the proxy's reply has been read in place of an answer of the
\* target's, and does not parse.
Garbled == operation \in {"handshake", "query"} /\ unread # 0

\* The coroutine is resumed: an await that does not throw has its answer, and
\* every other one is the end of the attempt.
Resumed ==
  \E next \in {at + 1, Gone} :
    /\ Resume(next)
    /\ IF verdict'[at] = "ok" /\ ~Garbled THEN Received ELSE C!Fail
    /\ next = Gone <=> operation' = "cleanup"

\* ~Connection: the plaintext policies shut the socket down within the handler
\* that left; async_shutdown suspends once more, with no timer of its own.
TearDown == /\ \E ec \in C!CleanupCodes : C!Cleanup(ec)
            /\ UNCHANGED vars

OnTheThread == operation = "cleanup" /\ ~policy.tls

\* The event loop, the clock and the network.
Handled == ~OnTheThread /\ (RunTimer \/ RunStep)

Background == \/ \E ec \in {"ok", "error"} : Completes(ec)
              \/ \E i \in Awaits : Expires(i)

AttemptNext == \/ Start \/ Resumed \/ TearDown
               \/ (Handled \/ Background) /\ UNCHANGED attempt

AttemptSpec ==
  /\ AttemptInit /\ [][AttemptNext]_attemptVars
  /\ WF_attemptVars(Resumed \/ (Handled /\ UNCHANGED attempt) \/ (OnTheThread /\ TearDown))
  /\ WF_attemptVars((\E i \in Awaits : Expires(i)) /\ UNCHANGED attempt)
  /\ WF_attemptVars(/\ at \in Awaits /\ Kind = "resolve"
                    /\ \E ec \in {"ok", "error"} : Completes(ec)
                    /\ UNCHANGED attempt)

-----------------------------------------------------------------------------
\* The refinements and invariants of the two parts, of the attempt they make up.
RequestReachesTarget == C!RequestReachesTarget
ImplementsAttempts == C!ImplementsAttempts
=============================================================================
