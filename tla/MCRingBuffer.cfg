SPECIFICATION Spec
CONSTANTS
  Size = 2
  SizeT = 32
  Byte <- MCByte
  Outside = Outside
  Files = {f1, f2}
  Counts <- MCCounts
  Offsets <- MCOffsets
  MaxIn = 4
  MaxPos = 4
INVARIANTS StoredFits ReadsTheTail
PROPERTY KeepsTheTail
