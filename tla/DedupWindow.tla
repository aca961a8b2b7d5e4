---------------------------- MODULE DedupWindow ----------------------------
(***************************************************************************)
(* What ceell/network/msg_redundancy.h promises of ceell_msg_dedup_check:  *)
(* a sequence number is new unless it is one of the last Size new ones.    *)
(***************************************************************************)
EXTENDS Integers, Sequences

CONSTANTS Size,     \* CEELL_MSG_DEDUP_RING_SIZE
          Message   \* sequence numbers

VARIABLE processed  \* the numbers that were new, in order

Latest(log, n) == {log[i] : i \in {j \in DOMAIN log : j > Len(log) - n}}

Init == processed = << >>

Accept(m) == m \notin Latest(processed, Size) /\ processed' = Append(processed, m)

Next == \E m \in Message : Accept(m)

Spec == Init /\ [][Next]_processed
=============================================================================
