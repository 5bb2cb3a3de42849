CONSTANTS
  Keys = {1, 2, 3}
  NumLevels = 3
  LevelLimit <- TheLimits
  MaxFileSize = 2
  GrandparentLimit = 2
  ExpandLimit = 6
  MaxNum = 8
  Plans <- Splitting
SPECIFICATION Spec
INVARIANT GetAnswers
CHECK_DEADLOCK FALSE
