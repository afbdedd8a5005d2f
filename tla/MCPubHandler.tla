---------------------------- MODULE MCPubHandler ----------------------------
(* Instances of PubHandler for TLC. *)
EXTENDS PubHandler
=============================================================================
