SPECIFICATION Spec
CONSTANTS
  Files = {1, 2}
  NBlocks = 3
  NDIRECT = 1
  NENTRY = 2
  BLKSIZE = 2
  MaxSize = 5
  Lens = {3}
INVARIANTS BlocksOK ContentsOK SizeMatches
CHECK_DEADLOCK FALSE
