CONSTANTS
  Modulus = 16
  Capacity = 4
  Window = 2
  SkipTicks = 2
  Lengths = {1, 2}
  Perfect = FALSE
  Start = 0
  MaxFrames = 4
  MaxFailures = 0
  MaxLag = 4
  Nil = Nil
SPECIFICATION Spec
INVARIANT RebuiltExactly
