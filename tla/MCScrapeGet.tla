----------------------------- MODULE MCScrapeGet -----------------------------
EXTENDS ScrapeGet

\* "a?" and "a/", which share a file name, "a", which has another, and ".", which
\* names a directory.
MCTargets == {<<"a", "?">>, <<"a", "/">>, <<"a">>, <<".">>}
MCText == <<<<"a", "?">>, <<"a", "/">>, <<".">>>>
MCNameChars == {"a", "."}

\* A body for the buffer, one beyond it, and one that has what is rejected.
MCBodies == { [text |-> {"item"}, size |-> 1], [text |-> {"item"}, size |-> 2],
              [text |-> {"item", "gone"}, size |-> 1] }
=============================================================================
