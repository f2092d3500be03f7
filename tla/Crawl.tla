-------------------------------- MODULE Crawl --------------------------------
(***************************************************************************)
(* What the scraper promises, whatever coroutines it uses: candidates are  *)
(* begun in the generator's order, each once, never more than Limit at a   *)
(* time, and a candidate begun is dealt with once.                         *)
(***************************************************************************)
EXTENDS Integers, FiniteSets

CONSTANTS N,    \* candidates there can be
          Limit \* candidates worked on at the same time

VARIABLES begun,  \* candidates begun so far: 1 .. begun
          working \* those of them not yet dealt with

Init == begun = 0 /\ working = {}

Begin == /\ begun < N
         /\ Cardinality(working) < Limit
         /\ begun' = begun + 1
         /\ working' = working \cup {begun + 1}

End(u) == /\ u \in working
          /\ working' = working \ {u}
          /\ UNCHANGED begun

Next == Begin \/ \E u \in 1 .. N : End(u)

Spec == Init /\ [][Next]_<<begun, working>>
=============================================================================
