SPECIFICATION MCSpec
CONSTANTS
  Pids = {c1, c2, c3, c4}
  MAX_CHILDREN = 3
  THREADS = 3
  Sizes = {2, 5, 7}
  MaxSteps = 7
  NaN = NaN
INVARIANTS SlotsConserved ZombieIsNoticed TotalIsIntegral
PROPERTY PoolKeepsGoing
