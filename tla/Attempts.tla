------------------------------ MODULE Attempts ------------------------------
(***************************************************************************)
(* The life of a connection as seen from outside: established, used,       *)
(* and torn down before its owner goes on.  A TLS connection is torn down  *)
(* by an exchange with the peer that the owner waits for; one that was     *)
(* never established is only discarded, unless it is given up too late.    *)
(***************************************************************************)
CONSTANT Owners

VARIABLES phase, \* what each owner is doing with its connection
          tls    \* the connections are TLS connections

Init == phase = [o \in Owners |-> "idle"] /\ tls \in BOOLEAN

Becomes(o, from, to) == phase[o] = from /\ phase' = [phase EXCEPT ![o] = to]

Closing == {"discard", "teardown"}

Begin(o)     == Becomes(o, "idle", "connect")
Establish(o) == Becomes(o, "connect", "exchange")
GiveUp(o)    == \E to \in IF tls THEN Closing ELSE {"idle"} : Becomes(o, "connect", to)
Finish(o)    == Becomes(o, "exchange", IF tls THEN "teardown" ELSE "idle")
Close(o)     == Becomes(o, "discard", "idle") \/ Becomes(o, "teardown", "idle")

Next == /\ \E o \in Owners : Begin(o) \/ Establish(o) \/ GiveUp(o) \/ Finish(o) \/ Close(o)
        /\ UNCHANGED tls

Spec == Init /\ [][Next]_<<phase, tls>>
=============================================================================
