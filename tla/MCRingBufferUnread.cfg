SPECIFICATION Spec
CONSTANTS
  Size = 2
  SizeT = 32
  Byte <- MCByte
  Outside = Outside
  Files = {f1}
  Counts <- MCCounts
  Offsets = {}
  MaxIn = 4
  MaxPos = 4
INVARIANT ReadAtMostUnread
