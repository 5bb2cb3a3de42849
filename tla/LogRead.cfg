CONSTANTS
  B = 5
  H = 2
  Sizes = {0, 2, 5}
  MaxRecords = 3
  MaxFails = 1
  MaxReadFails = 1
  MaxOpens = 2
  Offsets = {0, 4, 7}
SPECIFICATION LogSpec
INVARIANTS LogOK CutLogIsRead DamageStaysInBlock
CHECK_DEADLOCK FALSE
