SPECIFICATION Spec
CONSTANTS
  Procs = {p1, p2, p3}
  Blocks = {b1, b2, b3, b4, b5}
  Vals = {v0}
  LOGSIZE = 6
  MAXOPBLOCKS = 3
  SIZE = 6
  OpBlocks = 1
  NoBlock = NoBlock
SYMMETRY Symm
INVARIANTS LogHasRoom CommitIsAlone SomeoneWillWake
