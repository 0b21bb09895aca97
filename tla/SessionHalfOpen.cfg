CONSTANTS
  c1 = c1
  c2 = c2
  srv = srv
  a1 = a1
  a2 = a2
  opus = opus
  pcm = pcm
  Nil = Nil
  Server = srv
  VersionMin = 1
  Clients <- PairClients
  Addr <- PairAddr
  Preferred <- PairPreferred
  Supported <- PairSupported
  Version <- PairVersion
  MaxAttempts = 1
  Duplicating = FALSE
  Closers = {}
  Talkers = {}
  Pollers <- PairAll
SPECIFICATION FairSpec
PROPERTIES PeerLossDetected
CHECK_DEADLOCK FALSE
