SPECIFICATION MCSpec
CONSTANTS p1 = p1 p2 = p2
  NPROC = 3 KillPids = {2} MayFail = TRUE MaxPid = 5
INVARIANTS HasLiveParent NoMissedChild LocksOrderedByAge FramesRight
PROPERTIES ReapsOnlyDead OwnMemory
CHECK_DEADLOCK FALSE
