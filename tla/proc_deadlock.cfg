SPECIFICATION Spec
CONSTANTS
  NPROC = 4
  KillPids = {}
  MayFail = FALSE
  MaxPid = 5
INVARIANT NoLockCycle
CHECK_DEADLOCK FALSE
