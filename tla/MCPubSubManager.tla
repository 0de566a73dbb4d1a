-------------------------- MODULE MCPubSubManager --------------------------
(* A small instance of PubSubManager for TLC.                              *)
EXTENDS PubSubManager
=============================================================================
