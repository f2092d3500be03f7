--------------------------- MODULE AdaptiveScraper ---------------------------
(***************************************************************************)
(* The pool with --optimize: Scraper and AdaptiveController share the      *)
(* recommendation, and the controller is told the pool's real size.        *)
(***************************************************************************)
EXTENDS Scraper

CONSTANTS SampleSize, Interval, Velocities

VARIABLES coroutines, velocities, completed

samples == <<coroutines, velocities, completed>>
allVars == <<vars, samples>>

A == INSTANCE AdaptiveController

ASSUME SamplesAssumption ==
  /\ SampleSize \in Nat \ {0} /\ Interval \in Nat \ {0}
  /\ Velocities \subseteq Nat \cup {A!Infinite}

AdaptiveInit == Init /\ A!Init

\* controller.register_completion(active_coroutines), before the coroutine
\* decides whether it is one too many.
AdaptiveComplete(c) ==
  /\ pc[c] = "complete"
  /\ A!Count \/ \E velocity \in Velocities : A!Sample(active, velocity)
  /\ Completed(c, recommended')

AdaptiveNext ==
  \/ \E c \in Coros : AdaptiveComplete(c)
  \/ /\ Start \/ (\E c \in Coros : pc[c] # "complete" /\ Step(c)) \/ Feed \/ CloseInput
     /\ UNCHANGED samples

AdaptiveSpec == AdaptiveInit /\ [][AdaptiveNext]_allVars

-----------------------------------------------------------------------------
\* The composition is a pool as Scraper describes it, and the controller in it
\* sees nothing that AdaptiveController by itself does not.
PoolRefined == Spec
ControllerRefined == A!Spec
=============================================================================
