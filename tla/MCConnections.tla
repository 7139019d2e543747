----------------------------- MODULE MCConnections ------------------------------
(* Instances of Connections for TLC: a player with two connections.        *)
EXTENDS Connections, TLC

CONSTANTS old, new, alice

TwoOfAlice == old :> alice @@ new :> alice
================================================================================
