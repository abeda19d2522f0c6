------------------------------ MODULE MCPeers ------------------------------
(* The instance of Peers for TLC.                                          *)
EXTENDS Peers
=============================================================================
