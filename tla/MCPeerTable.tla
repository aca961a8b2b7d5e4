---------------------------- MODULE MCPeerTable ----------------------------
(* Instances of PeerTable for TLC. *)
EXTENDS PeerTable, TLC

CONSTANTS n1, n2, n3, a1, a2, brake

Symmetry == Permutations(Node)
=============================================================================
