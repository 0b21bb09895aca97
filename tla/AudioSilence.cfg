CONSTANTS
  Modulus = 16
  Capacity = 4
  Window = 2
  SkipTicks = 2
  Lengths = {1}
  Perfect = TRUE
  Start = 0
  MaxFrames = 4
  MaxFailures = 0
  MaxLag = 8
  Nil = Nil
SPECIFICATION Spec
INVARIANT DropsOnlyOlder
