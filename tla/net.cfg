SPECIFICATION MCSpec
CONSTANTS
  p1 = p1 d1 = d1 d2 = d2 h1 = h1 h2 = h2 s1 = s1 s2 = s2 s3 = s3 k1 = k1 k2 = k2
  Fids = {0, 1, 2} NHASH = 2 Fds = {3, 4, 5}
  Starts <- MCStarts Reqs <- MCReqs Window = 2 Piped <- MCPiped MaxReqs = 3 MaxNodes = 5
INVARIANTS PacketsRight  PortsExclusive   
CONSTRAINT Agreed
SYMMETRY Symmetry
CHECK_DEADLOCK FALSE
