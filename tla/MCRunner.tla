------------------------------ MODULE MCRunner ------------------------------
(***************************************************************************)
(* Instances of Runner for TLC.  The thresholds keep the order they have   *)
(* in the code (nudge, early stall, stall) and are scaled down so that all *)
(* of them fit into a run of a few calls.                                  *)
(***************************************************************************)
EXTENDS Runner
=============================================================================
