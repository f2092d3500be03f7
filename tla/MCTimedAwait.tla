----------------------------- MODULE MCTimedAwait -----------------------------
EXTENDS TimedAwait

Await(kind, steps) == [kind |-> kind, steps |-> steps]

\* The response read of a plaintext request; the connect to a host with two
\* addresses.
ReadScripts == {<<Await("transfer", 3)>>}
ConnectScripts == {<<Await("connect", 2)>>}
=============================================================================
