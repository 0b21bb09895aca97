CONSTANTS
  Samples <- SomeSamples
  Flips = {1, 128}
  Totals = {0, 1, 3, 5}
  MaxFragments = 4
  Ssrcs = {1, 2}
  PttPeers = {"alice", "bob"}
  MaxPresses <- SomePresses
  MaxLost <- SomeLosses
  Width = 4
  SeqSpace = 16
  Start = 13
  MinBitrate = 8000
  Increment = 2000
  MaxBitrates = {4000, 12000}
  Requests = {9000, 20000}
  MaxFrames = 6
  MaxInFlight = 2
  MaxUpdates = 2
  Encoded = {80, 1152, 1153, 1920}
  Mtu = 1200
  SeqMod32 = 16
  FirstSeq = 11
  MaxSends = 8
  RoomTasks = {h1, h2}
  RoomCodes = {r1, r2}
  RoomSids = {7, 8}
  MaxRequests = 5
  Handles = {1, 2}
  Coroutines = {t1, t2}
  MaxCandidates = 2
  MaxEvents = 3
  MaxAttempts = 1
  STUN_SERVERS = 2
  AddrBits <- SomeBits
  Cookie <- SomeCookie
  Seen <- SomeSeen
  Local <- SomeLocal
  Layouts <- SomeLayouts
  HalfRange = 2
  FrameSamples = 2
  Given <- SomeGiven
  MaxChunk = 3
  MaxSamples = 4
SPECIFICATION Spec
INVARIANTS  DamageDetected FrameRebuilt HolderMatchesState
INVARIANTS   LossWindowExact BitrateInRange
INVARIANTS  CodeLeadsToOwner
INVARIANTS DestroyedOnce   
INVARIANTS  PlaysWhatWasCaptured
PROPERTIES LowersForCause
CHECK_DEADLOCK FALSE
