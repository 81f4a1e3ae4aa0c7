SPECIFICATION Spec
CONSTANTS
  NPROC = 2
  NFRAME = 12
  NPAGE = 4
  PERTAB = 2
  KTABS = 1
  SbrkArgs <- MCSbrk
  ImageSizes = {1, 3}
  MaxCalls = 3
  MaxPipes = 1
  HeapStart = 2
  HeapEnd = 16
  NALLOC = 5
  Bytes = {1, 9, 40}
  MaxOps = 7
INVARIANTS PagesOwnedOnce MemoryIsKept HeapIsSound
CHECK_DEADLOCK FALSE
