SPECIFICATION MCSpec
CONSTANTS
  Procs = {p1, p2}
  NHome = 2
  MAXOPBLOCKS = 3
  LOGSIZE = 6
  nlog = 6
  OpBlocks = 2
  RefMod = 8
  Pressure = 1
  MaxOps = 3
  MaxCrashes = 2
  a1 = a1 a2 = a2
SYMMETRY Sym
CONSTRAINT Kept
INVARIANTS NoDuplicateEntries LoggedStaysCachedAtFirst ReservationHolds 
PROPERTY CrashAtomic
CHECK_DEADLOCK FALSE
