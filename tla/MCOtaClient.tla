---------------------------- MODULE MCOtaClient ----------------------------
(* Instances of OtaClient for TLC. *)
EXTENDS OtaClient
=============================================================================
