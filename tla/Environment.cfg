SPECIFICATION EnvironmentSpec
CONSTANTS
  Clients = {"a1", "a2", "b1"}
  Home <- TheHome
  Plans <- ThePlans
  MaxMmaps = 1
  MaxFds = 1
  None = None
  Readers = {t1, t2, t3}
  Files = {f1, f2}
  Capacity = 1
  Names = {"current", "temp"}
  Users = {u1, u2}
  MemBlock = 2
  Lengths = {1, 3}
  Word = 16
INVARIANTS BooksBalance OneInstance ReadersKeepTables MemRefsOK MemFilesOK
PROPERTIES WorkIsDone
CHECK_DEADLOCK FALSE
