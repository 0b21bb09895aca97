CONSTANTS
  u1 = u1
  u2 = u2
  w1 = w1
  s1 = s1
  s2 = s2
  s3 = s3
  UdpLoop = UdpLoop
  Nil = Nil
  Udp <- UdpEndpoints
  Ws <- WsEndpoints
  Sids <- SomeSids
  MaxSessions = 1
  MaxPeers = 2
SPECIFICATION Spec
INVARIANTS TypeOK HolderIsPeer FloorExclusive OvershootBounded
PROPERTIES ArbitratesFloor
SYMMETRY Interchangeable
