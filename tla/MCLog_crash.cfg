SPECIFICATION LiveSpec
CONSTANTS
  Procs = {p1, p2}
  Blocks = {b1, b2}
  Vals = {v0, v1}
  LOGSIZE = 6
  MAXOPBLOCKS = 3
  SIZE = 6
  OpBlocks = 1
  NoBlock = NoBlock
INVARIANT PinnedUntilInstalled
PROPERTIES CrashAtomic LogKeepsGoing
