SPECIFICATION Spec
CONSTANTS p1 = p1 p2 = p2
  Procs = {p1, p2} NFILE = 4 NINODE = 7 NInodes = 7 Blocks = {1, 2, 3, 4, 5, 6, 7, 8, 9, 10, 11, 12, 13, 14, 15, 16, 17}
  BSIZE = 3 NDIRECT = 1 NINDIRECT = 3 MAXOPBLOCKS = 6 NOFILE = 2 NDEV = 2
  Calls <- MCCalls Trees <- MCTrees MaxCalls <- MCMaxCalls
INVARIANTS InodesRight DiskConsistent WritesRight 
