SPECIFICATION LiveSpec
CONSTANTS
  Readers = {r1}
  Writers = {w1, w2}
  Killable = {r1, w1}
  Bytes = {b0, b1}
  PIPESIZE = 2
  WORD = 4
  Lens = {3}
  Nobody = Nobody
  Nothing = Nothing
CHECK_DEADLOCK FALSE
INVARIANTS NoUseAfterFree SleepsForCause
PROPERTIES PipeIsFifo ClosedEndReleases BytesReachReader
