SPECIFICATION Spec
CONSTANTS
  NPROC = 4
  CPUs = {cpu1, cpu2}
  MaxPid = 4
  KillArgs = {0, 3}
  UserCalls = {"fork", "exit", "wait", "kill", "io", "await"}
SYMMETRY Symm
INVARIANTS ParentIsAlive WaiterIsNeeded
CHECK_DEADLOCK FALSE
