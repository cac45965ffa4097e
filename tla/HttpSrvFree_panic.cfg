CONSTANTS
  Reqs = {r1, r2}
  LoopOf <- MCOneLoop
  Threaded = FALSE
  Slow = {}
  MaxTries = 1
  Nil = Nil
SPECIFICATION FreeSpec
INVARIANT NeverPanics
CHECK_DEADLOCK FALSE
