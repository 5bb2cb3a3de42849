CONSTANTS
  Keys = {1, 2, 3}
  MaxSeq = 6
  BlockSize = 3
  RestartInterval = 2
  FilterBase = 1
  Contents <- TheContents
  MaxAdded = 1
  MaxBroken = 2
SPECIFICATION Spec
INVARIANTS IteratorOK TableGetIsRight
PROPERTIES ErrorIsKept
CHECK_DEADLOCK FALSE
