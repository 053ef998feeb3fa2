SPECIFICATION Spec
CONSTANTS
  c1 = c1
  s1 = s1
  s2 = s2
  Client = c1
  Accepts <- TwoAccepts
  SOCK_CB_WND = 3
  TCP_MAX_DATA = 2
  SeqSpace = 64
  Apps <- AllApps
INVARIANTS StreamKept BlocksKept AcksWhatWasSent ReturnsConnected
CHECK_DEADLOCK FALSE
