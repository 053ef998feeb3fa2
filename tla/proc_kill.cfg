SPECIFICATION Spec
CONSTANTS
  NPROC = 2
  KillPids = {0}
  MayFail = FALSE
  MaxPid = 3
INVARIANT KillsOnlyItsTarget
CHECK_DEADLOCK FALSE
