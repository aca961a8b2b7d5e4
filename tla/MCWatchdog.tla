---------------------------- MODULE MCWatchdog -----------------------------
(* Instances of Watchdog for TLC. *)
EXTENDS Watchdog

CONSTANT r1

BothThreads == {Loop, Wdt}
BothReasons == {PeerLost, CommFailure}
=============================================================================
