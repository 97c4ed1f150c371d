SPECIFICATION FollowSpec
CONSTANTS
  Size = 4
  SizeT = 32
  Byte <- MCByte
  Outside = Outside
  Files = {f1, f2}
  Counts <- MCCounts
  Offsets = {}
  MaxIn = 7
  MaxPos = 14
INVARIANTS ReadsTheTail
PROPERTY FollowerCatchesUp
