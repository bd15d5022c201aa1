----------------------------- MODULE MCBarReads -----------------------------
(* LiveBars with the history of BarReads, on the instances of MCLiveBars.   *)
EXTENDS BarReads, MCLiveBars
=============================================================================
