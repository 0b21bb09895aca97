CONSTANTS
  c1 = c1
  c2 = c2
  srv = srv
  a1 = a1
  a2 = a2
  opus = opus
  pcm = pcm
  Nil = Nil
  Server = srv
  VersionMin = 1
  Clients <- RestartClients
  Addr <- RestartAddr
  Preferred <- RestartPreferred
  Supported <- RestartSupported
  Version <- RestartVersion
  MaxAttempts = 2
  Duplicating = TRUE
  Closers <- RestartClosers
  Talkers = {c2}
  Pollers = {}
SPECIFICATION Spec
INVARIANTS TypeOK OneAttempt SessionAgreement CloseIsFinal
CHECK_DEADLOCK FALSE
