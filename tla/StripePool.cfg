SPECIFICATION PoolSpec
CONSTANTS
  Threads = {"w1", "w2", "w3"}
  Stripes = 3
  MaxRuns = 2
INVARIANTS FrameIsWhole
PROPERTIES PoolReturns
CHECK_DEADLOCK FALSE
