SPECIFICATION Spec
CONSTANTS
  Procs = {p1, p2}
  NHome = 3
  MAXOPBLOCKS = 1
  LOGSIZE = 3
  nlog = 3
  OpBlocks = 1
  RefMod = 8
  Pressure = 0
  MaxOps = 4
  MaxCrashes = 0
INVARIANT NoTooBigTransaction
CHECK_DEADLOCK FALSE
