--------------------------- MODULE MCTimingBudget ---------------------------
(* Instance of Timing and TimingBudget for TLC. *)
EXTENDS TimingBudget, TLC

CONSTANTS c1, c2, l1, l2

Alike == Permutations(Caller) \cup Permutations(Label)
=============================================================================
