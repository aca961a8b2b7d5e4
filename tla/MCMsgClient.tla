---------------------------- MODULE MCMsgClient ----------------------------
(* Instances of MsgClient for TLC: who shares which priority. *)
EXTENDS MsgClient, TLC

CONSTANTS c1, c2, q1, q2, crit, norm

\* One thread has a priority to itself and shares the other.
OneShared == (crit :> {c1}) @@ (norm :> {c1, c2})

\* Both threads send at NORMAL, as every ceell_msg_send does.
BothNormal == norm :> {c1, c2}
=============================================================================
