---------------------------- MODULE MCRedirects -----------------------------
EXTENDS Redirects

\* Everything of at most three tokens behind a beginning of each kind.
MCTokens == {"http", "host", "x", ":", "/", "?", "#"}
Endings == UNION {[1..n -> MCTokens] : n \in 0..3}
Beginnings == { <<>>, <<"x">>, <<"x", "?">>, <<"ftp", ":">>, <<"http", ":", "/", "/">>,
                <<"http", ":", "/", "/", "host">>, <<"/", "/", "host">>, <<"/", "/">> }
MCLocations == {b \o e : b \in Beginnings, e \in Endings}

\* The root, a page of a directory, queries without and with a slash, and a
\* candidate without one.
MCTargets == { <<"/">>, <<"/", "a", "/", "b">>, <<"/", "a", "?", "b">>,
               <<"/", "a", "?", "b", "/", "c">>, <<"a">> }
MCAuthority == <<"host">>
=============================================================================
