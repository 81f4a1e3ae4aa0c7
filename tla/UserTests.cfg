SPECIFICATION Spec
CONSTANTS
  NPROC = 7
  NINODE = 5
  NINODES = 12
  NFILE = 4
  NOFILE = 3
  NBLOCK = 24
  CPB = 4
  NDIRECT = 1
  MAXFILE = 4
  MAXOPS = 3
  MAXWRITE = 2
  PIPESIZE = 2
  Files <- MCFiles
  Programs <- Tests
INVARIANTS TestsPass DiskIsSound PutsInTransaction DeadlockOnlyInIput
CHECK_DEADLOCK FALSE
