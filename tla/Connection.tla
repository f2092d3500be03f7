----------------------------- MODULE Connection -----------------------------
(***************************************************************************)
(* One attempt over each of the four policies of                           *)
(* src/src/abrade/connection.hpp: the operations connect awaits in turn,   *)
(* the SOCKS5 negotiation, the request and its response, and the cleanup   *)
(* that ~Connection runs whichever way the attempt ends.                   *)
(*                                                                         *)
(* Here an operation succeeds or fails; TimedConnection adds what timers    *)
(* and sockets do inside one.                                              *)
(***************************************************************************)
EXTENDS Integers, Sequences

CONSTANT ReplySizes \* sizes the proxy's reply to CONNECT may have: 10 with an
                    \* IPv4 address in it, 22 with IPv6, 7 and more with a name

VARIABLES
  policy,    \* which of the four policies, and --sensitive
  operation, \* the operation the coroutine awaits
  unread,    \* bytes of the proxy's reply still in the socket
  connected, \* the socket is connected, to the proxy or to the target
  greeted,   \* the proxy accepted the greeting
  granted,   \* the proxy opened the tunnel
  shaken,    \* the TLS handshake is complete
  requested, \* the request was written
  result,    \* "none", "answered" or "failed"
  closed,    \* the error code the cleanup came back with
  complaint  \* the cleanup threw, and ~Connection printed what

progress == <<connected, greeted, granted, shaken, requested>>
ending == <<result, closed, complaint>>
vars == <<policy, operation, unread, progress, ending>>

\* shutdown_error; an end of file is a peer that just closed.
ErrorCodes == {"none", "eof", "error"}

Policies == [proxied : BOOLEAN, tls : BOOLEAN, strict : BOOLEAN]

Init ==
  /\ policy \in Policies
  /\ operation = "start"
  /\ unread = 0
  /\ connected = FALSE /\ greeted = FALSE /\ granted = FALSE /\ shaken = FALSE /\ requested = FALSE
  /\ result = "none"
  /\ closed = "none"
  /\ complaint = FALSE

\* What connect awaits, before and after the stream to the target is there.
Connecting == {"resolve", "connect", "write auth", "read auth", "proxy connection",
               "proxy read", "handshake"}
Exchanging == {"make request", "query"}

\* What follows once there is a way to the target.  (Mutant: the proxied TLS
\* policy forgets its handshake.)
SecuredDirect(p) ==                                                 \* mutant
  IF p.tls /\ ~p.proxied THEN "handshake" ELSE "make request"
Secured(p) == IF p.tls THEN "handshake" ELSE "make request"

\* The operation after the one that succeeded.
After(p, o) ==
  CASE o = "resolve"                 -> "connect"
    [] o = "connect" /\ p.proxied -> "write auth"
    [] o = "write auth"              -> "read auth"
    [] o = "read auth"               -> "proxy connection"
    [] o = "proxy connection"        -> "proxy read"
    [] o = "make request"            -> "query"
    [] o = "handshake"               -> "make request"
    [] OTHER                         -> Secured(p)

\* The stream is bound to its cleanup before anything else happens.
Start ==
  /\ operation = "start"
  /\ operation' = "resolve"
  /\ UNCHANGED <<policy, unread, progress, ending>>

\* An exception, or the end of the scope: ~Connection runs the cleanup.
Leave(with) ==
  /\ operation' = "cleanup"
  /\ result' = with

\* An operation failed or timed out; a handshake that its timer came too late for
\* may have been completed by then.
Fail ==
  /\ operation \in Connecting \cup Exchanging
  /\ Leave("failed")
  /\ shaken' \in {shaken, shaken \/ operation = "handshake"}
  /\ UNCHANGED <<policy, unread, connected, greeted, granted, requested, closed, complaint>>

\* Operations whose outcome is not looked at further.
Pass ==
  /\ operation \in {"resolve", "connect", "write auth", "proxy connection", "make request"}
  /\ operation' = After(policy, operation)
  /\ connected' = (connected \/ operation = "connect")
  /\ requested' = (operation = "make request")
  /\ UNCHANGED <<policy, unread, greeted, granted, shaken, ending>>

\* The two bytes of the proxy's answer to the greeting.
ReadAuth(version, method) ==
  /\ operation = "read auth"
  /\ IF version = 5 /\ method = 0
     THEN operation' = After(policy, operation) /\ greeted' = TRUE /\ UNCHANGED result
     ELSE Leave("failed") /\ UNCHANGED greeted
  /\ UNCHANGED <<policy, unread, connected, granted, shaken, requested, closed, complaint>>

\* Ten bytes of its answer to CONNECT are read, and the second looked at.  A
\* shorter answer leaves the read waiting: only Fail ends it.
RefusedNever(code) == FALSE                                         \* mutant
Refused(code) == code # 0

ReplyRead == 10

Filled(size) == size >= ReplyRead

ReadReply(code, size) ==
  /\ operation = "proxy read"
  /\ Filled(size)
  /\ unread' = size - ReplyRead
  /\ granted' = (code = 0)
  /\ IF Refused(code) THEN Leave("failed")
                      ELSE operation' = After(policy, operation) /\ UNCHANGED result
  /\ UNCHANGED <<policy, connected, greeted, shaken, requested, closed, complaint>>

\* Left-over bytes of the proxy are not a TLS record, nor an HTTP response.
Handshake ==
  /\ operation = "handshake"
  /\ unread = 0
  /\ shaken' = TRUE
  /\ operation' = After(policy, operation)
  /\ UNCHANGED <<policy, unread, connected, greeted, granted, requested, ending>>

Query ==
  /\ operation = "query"
  /\ unread = 0
  /\ Leave("answered")
  /\ UNCHANGED <<policy, unread, progress, closed, complaint>>

-----------------------------------------------------------------------------
\* The error codes a cleanup can come back with: shutting down a socket does not
\* meet an end of file; a stream that never shook hands cannot be closed.
CleanupCodes == CASE policy.tls /\ ~shaken -> {"error"}
                  [] policy.tls /\ shaken -> ErrorCodes
                  [] ~policy.tls /\ connected -> {"none", "error"}
                  [] OTHER -> {"error"}

\* When the cleanup throws: the plaintext policy does not ask whether there was
\* an error.
Complains(ec) == /\ policy.strict
                 /\ ec # "eof"
                 /\ policy.proxied \/ policy.tls => ec # "none"

\* The cleanup, and ~Connection's catch around it.
Cleanup(ec) ==
  /\ operation = "cleanup"
  /\ operation' = "over"
  /\ closed' = ec
  /\ complaint' = Complains(ec)
  /\ UNCHANGED <<policy, unread, progress, result>>

Next == \/ Start \/ Fail \/ Pass \/ Handshake \/ Query
        \/ \E version \in {4, 5}, method \in {0, 255} : ReadAuth(version, method)
        \/ \E code \in {0, 1}, size \in ReplySizes : ReadReply(code, size)
        \/ \E ec \in CleanupCodes : Cleanup(ec)

Spec == Init /\ [][Next]_vars

-----------------------------------------------------------------------------
\* A request is only ever written to the target: after the proxy accepted the
\* greeting and opened the tunnel, and inside TLS if TLS was asked for.
RequestReachesTarget ==
  requested => /\ policy.proxied => greeted /\ granted
               /\ policy.tls => shaken

\* What connect has left in the socket is the target's: the stream is positioned
\* behind the proxy's last byte.
StreamIsTargets == operation \in Exchanging \cup {"handshake"} => unread = 0

\* A teardown is complained about only if it went wrong.
ComplaintsAreErrors == complaint => closed # "none"

\* To the coroutine that waits for it, an attempt over any policy is a
\* connection that is established or given up, used, and torn down.
Phase == CASE operation \in Connecting -> "connect"
           [] operation \in Exchanging -> "exchange"
           [] operation = "cleanup" /\ policy.tls ->
                IF shaken THEN "teardown" ELSE "discard"
           [] OTHER -> "idle"

A == INSTANCE Attempts WITH Owners <- {"coroutine"}, tls <- policy.tls,
                            phase <- [o \in {"coroutine"} |-> Phase]
ImplementsAttempts == A!Spec
=============================================================================
