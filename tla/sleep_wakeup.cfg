SPECIFICATION FairSpec
CONSTANTS
  Waiters = {w1, w2}
  Wakers = {k1, k2}
  NCPU = 2
  MaxKills = 1
INVARIANT SchedHoldsOnlyPlock
PROPERTIES SleepImplements AllServed
CHECK_DEADLOCK FALSE
