SPECIFICATION Spec
CONSTANTS
  NPROC = 2
  NINODE = 4
  NINODES = 5
  NFILE = 3
  NOFILE = 2
  NBLOCK = 8
  CPB = 4
  NDIRECT = 1
  MAXFILE = 3
  MAXOPS = 2
  MAXWRITE = 2
  PIPESIZE = 2
  Files <- MCFiles
  Programs <- LinkUnlinkProgs
INVARIANT NoDeadlock
CHECK_DEADLOCK FALSE
