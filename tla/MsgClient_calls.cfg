\* Two threads: one has a priority to itself, and they share the other.
SPECIFICATION FairSpec
CONSTANTS
  c1 = c1  c2 = c2  q1 = q1  q2 = q2  crit = crit  norm = norm
  Caller = {c1, c2}
  Priority = {crit, norm}
  Peer = {q1, q2}
  UsedBy <- OneShared
  MaxSeq = 2
INVARIANTS NeverOlder SoleOwnResponse SoleRightPeer SoleWakeup
PROPERTY EveryCallReturns
CHECK_DEADLOCK FALSE
