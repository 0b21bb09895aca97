CONSTANTS
  MaxConns = 2
  Bridge = 1
SPECIFICATION FairSpec
INVARIANTS TypeOK LateAudioBounded SilentUntilPressed
PROPERTIES DeadConnectionLeft
CHECK_DEADLOCK FALSE
