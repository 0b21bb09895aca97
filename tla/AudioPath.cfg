CONSTANTS
  Modulus = 16
  Capacity = 2
  Window = 2
  SkipTicks = 1
  Lengths = {1, 2}
  Perfect = FALSE
  Start = 14
  MaxFrames = 19
  MaxFailures = 1
  MaxLag = 4
  Nil = Nil
SPECIFICATION FairSpec
INVARIANTS TypeOK PlaysTheFrameSent NoCollision
PROPERTIES RingDrains
