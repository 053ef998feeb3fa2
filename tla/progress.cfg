SPECIFICATION MCFairSpec
CONSTANTS
  Procs = {p1, p2}
  Blocks = {k1, k2, k3}
  NBUF = 2
  Vals = {0, 1}
  MaxPins = 1
  MaxGets = 4
  p3 = p3
INVARIANTS OneBufferPerBlock UsesItsOwnBlock RefcntExact ReadsLatest RingsConsistent
PROPERTIES DriverImplements EveryWaitEnds
CHECK_DEADLOCK FALSE
