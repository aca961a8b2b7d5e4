---------------------------- MODULE MCRedundancy ----------------------------
(* Instances of Redundancy for TLC. *)
EXTENDS Redundancy
=============================================================================
