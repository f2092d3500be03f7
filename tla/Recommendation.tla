--------------------------- MODULE Recommendation ---------------------------
(***************************************************************************)
(* What a controller promises the scraper: it starts at --init, moves by   *)
(* one step at a time, up only below --max and down only above --min, and  *)
(* so never comes to recommend an empty pool.                              *)
(***************************************************************************)
EXTENDS Integers

CONSTANTS InitRec, MinRec, MaxRec

VARIABLE recommended

Init == recommended = InitRec

Raise == recommended < MaxRec /\ recommended' = recommended + 1
Lower == recommended > MinRec /\ recommended' = recommended - 1

Spec == Init /\ [][Raise \/ Lower]_recommended
=============================================================================
