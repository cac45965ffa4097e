CONSTANTS
  r1 = r1
  r2 = r2
  Reqs = {r1, r2}
  LoopOf <- MCOneLoop
  Threaded = FALSE
  Slow = {r1}
  MaxTries = 2
SPECIFICATION FairSpec
PROPERTIES EventuallyOver NodeReclaimed
CHECK_DEADLOCK FALSE
