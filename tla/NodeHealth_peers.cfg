\* Two nodes and a slot for each; missed 1 or 2 heartbeats is DEGRADED, 3 is
\* CRITICAL, a silence of PeerTimeout is LOST.
SPECIFICATION NodeSpec
CONSTANTS
  n1 = n1  n2 = n2  a1 = a1
  Node = {n1, n2}
  Self = self
  Service = {}
  Ip = {a1}
  MaxPeers = 2
  PeerTimeout = 5
  Interval = 1
  Null = Null
  MaxTime = 6
INVARIANTS NodeTypeOK TrackedOnce SafeWhileOnlyPeerLost
PROPERTIES NoSpuriousLost SilentIsLost
