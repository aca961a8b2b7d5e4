---------------------------- MODULE MCNodeHealth ----------------------------
(* Instances of NodeHealth for TLC. *)
EXTENDS NodeHealth, TLC

CONSTANTS n1, n2, a1
=============================================================================
