---------------------------- MODULE MCMsgServer ----------------------------
(* Instances of MsgServer for TLC. *)
EXTENDS MsgServer

CONSTANTS alice, bob, critical, other

Req(src, seq, pri, served, deadline, at) ==
  [src |-> src, seq |-> seq, pri |-> pri, served |-> served, deadline |-> deadline, sent |-> at]

\* A CRITICAL request, of whose deadline the cast leaves none; one with a priority out of
\* range and a deadline, sent when the uptime fits the number on the wire for the last
\* time; one for an unknown service, sent when it does not and with a deadline the cast
\* makes shorter, which may be refused before its deadline for either reason.
Mixed ==
  {Req(alice, 1, critical, TRUE, 2, 3), Req(bob, 1, other, TRUE, 1, 3),
   Req(alice, 2, Normal, FALSE, 3, 4)}

\* The network duplicates the CRITICAL ones.
Twice == [r \in Request |-> IF r.pri = critical THEN 2 ELSE 1]

SameClock == [s \in {alice, bob} |-> 0]
=============================================================================
