------------------------------ MODULE MCTunnel ------------------------------
(* Tunnel with room for two dead sessions of a node, its reconnect and one  *)
(* connection of another node or of a peer without a node identity.         *)
EXTENDS Tunnel
============================================================================
