-------------------------- MODULE MCPeerDiscovery --------------------------
(* Instances of PeerDiscovery for the model checker.                       *)
EXTENDS PeerDiscovery

CONSTANTS a, b, z
=============================================================================
