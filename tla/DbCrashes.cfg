CONSTANTS
  Writers = {w1, w2}
  Readers = {r1}
  GroupLimit = 2
  L0Trigger = 1
  L0Slow = 2
  L0Stop = 2
  MaxFile = 9
  Plans <- ThePlans
SPECIFICATION Spec
INVARIANTS FilesOK ReadsItsSnapshot PromisesKept
PROPERTIES PrefixRecovered CallsReturn
CHECK_DEADLOCK FALSE
