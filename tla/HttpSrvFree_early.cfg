CONSTANTS
  Reqs = {r1, r2}
  LoopOf <- MCOneLoop
  Threaded = FALSE
  Slow = {}
  MaxTries = 1
  Nil = Nil
SPECIFICATION FreeSpec
INVARIANT BackWhenFinished
CHECK_DEADLOCK FALSE
