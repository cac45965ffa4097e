CONSTANTS
  Reqs = {r1, r2}
  LoopOf <- MCOneLoop
  Threaded = FALSE
  Slow = {}
  MaxTries = 1
  Nil = Nil
SPECIFICATION FairFreeSpec
INVARIANTS OrderlyNeverPanics NothingLeft
PROPERTY FreeReturns
CHECK_DEADLOCK FALSE
