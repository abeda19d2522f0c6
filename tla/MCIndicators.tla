---------------------------- MODULE MCIndicators ----------------------------
(* The instance of Indicators for TLC.                                     *)
EXTENDS Indicators
=============================================================================
