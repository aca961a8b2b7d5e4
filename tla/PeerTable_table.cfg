SPECIFICATION FairSpec
CONSTANTS
  n1 = n1  n2 = n2  n3 = n3  a1 = a1  a2 = a2  brake = brake
  Node = {n1, n2, n3}
  Self = self
  Service = {brake}
  Ip = {a1, a2}
  MaxPeers = 2
  PeerTimeout = 1
  Null = Null
  MaxTime = 3
INVARIANTS UniqueIds SweepComplete
PROPERTIES ImplementsPeerMap SilentPeerDropped
