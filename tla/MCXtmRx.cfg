SPECIFICATION FairSpec
CONSTANTS
  D = 1
  N = 2
  M = 1
  Weight = 2
  U32 = 4
INVARIANTS BdsKept HeaderAvailable Armed
PROPERTY CloseEnds
CHECK_DEADLOCK FALSE
