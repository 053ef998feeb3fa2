SPECIFICATION Spec
CONSTANTS
  Procs = {p1, p2}
  NHome = 2
  MAXOPBLOCKS = 3
  LOGSIZE = 6
  nlog = 6
  OpBlocks = 2
  RefMod = 8
  Pressure = 2
  MaxOps = 2
  MaxCrashes = 1
INVARIANT LoggedStaysCached
CHECK_DEADLOCK FALSE
