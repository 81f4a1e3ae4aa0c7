SPECIFICATION LiveSpec
CONSTANTS
  NPROC = 3
  CPUs = {cpu1, cpu2}
  MaxPid = 3
  KillArgs = {2}
  UserCalls = {"fork", "exit", "wait", "kill", "await"}
CHECK_DEADLOCK FALSE
PROPERTIES InitReaps KilledExits
