------------------------------ MODULE MCScraper ------------------------------
(***************************************************************************)
(* Small instances of Scraper for TLC.  Nothing is cut off: the state      *)
(* space is finite because N and MaxRedirects are.                         *)
(***************************************************************************)
EXTENDS Scraper

\* A pool that has stopped for good: the program returned, the upstream program
\* never writes again, or TLS peers never close.
Stopped == Returned /\ (closed \/ available = N) /\ UNCHANGED vars

MCSpec == Init /\ [][Next \/ Stopped]_vars

\* With the fairness of FairSpec: nothing is assumed of peers.
MCFairSpec == MCSpec /\ Fairness
=============================================================================
