SPECIFICATION LiveSpec
CONSTANTS
  Procs = {p1, p2}
  Blocks = {b1, b2, b3, b4}
  Vals = {v0, v1}
  Nobody = Nobody
  NBUF = 3
  Wants <- MCWants
  b1 = b1
  b2 = b2
  b3 = b3
  b4 = b4
  p1 = p1
  p2 = p2
  q1 = q1
  q2 = q2
  MaxPins = 1
  Readers = {q1, q2}
  Chars = {"a"}
  INPUT_BUF = 2
  WORD = 4
  Typed <- MCTyped
  Reads <- MCReads
INVARIANTS SleepersAreOwed ReaderIsTold
PROPERTIES LinesAreKept BlocksAreKept PanicsOnlyWhenFull RequestsFinish
CHECK_DEADLOCK FALSE
