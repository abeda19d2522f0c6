---------------------------- MODULE MCTransfers ----------------------------
(* The instance of Transfers for TLC.                                      *)
EXTENDS Transfers
=============================================================================
