---- MODULE MCPubSub ----
(* Small instances of PubSub for TLC. *)
EXTENDS PubSubImplements

CONSTANTS n1, n2, s1, s2, f1, f2
=============================================================================
