\* Two threads send at NORMAL.
SPECIFICATION Spec
CONSTANTS
  c1 = c1  c2 = c2  q1 = q1  q2 = q2  crit = crit  norm = norm
  Caller = {c1, c2}
  Priority = {norm}
  Peer = {q1}
  UsedBy <- BothNormal
  MaxSeq = 2
INVARIANT OwnResponse
CHECK_DEADLOCK FALSE
