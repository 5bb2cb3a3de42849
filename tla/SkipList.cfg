CONSTANTS
  Keys = {1, 2}
  MaxHeight = 2
  MaxEntries = 3
  MaxBatch = 2
SPECIFICATION Spec
INVARIANTS ListOK NothingSkipped GetIsRight
PROPERTIES SearchesEnd
