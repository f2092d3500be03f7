-------------------------- MODULE MCTimedConnection --------------------------
EXTENDS TimedConnection

\* Proxies that answer CONNECT with an IPv4 address, an IPv6 one, or too little.
AllReplies == {7, 10, 22}

\* What RouteOf and ScriptOf make of the four policies.
Await(kind, steps) == [kind |-> kind, steps |-> steps]
Reached == <<Await("resolve", 1), Await("connect", 2)>>
Tunnel == <<Await("transfer", 1), Await("transfer", 2), Await("transfer", 1),
            Await("transfer", 2)>>
Secured == <<Await("transfer", 2)>>
Exchange == <<Await("transfer", 1), Await("transfer", 2)>>
PolicyScripts == { Reached \o Exchange, Reached \o Secured \o Exchange,
                   Reached \o Tunnel \o Exchange, Reached \o Tunnel \o Secured \o Exchange }
=============================================================================
