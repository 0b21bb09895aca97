CONSTANTS
  Capacity = 2
  MaxSeq = 4
SPECIFICATION FairSpec
INVARIANTS TypeOK NoTornFrame 
PROPERTIES PlaysInOrder NoHeadOfLineBlocking
