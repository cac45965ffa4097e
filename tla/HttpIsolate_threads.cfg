CONSTANTS
  r1 = r1
  r2 = r2
  Reqs = {r1, r2}
  LoopOf <- MCPerConnection
  Threaded = TRUE
  Slow = {}
  MaxTries = 2
SPECIFICATION Spec
INVARIANTS ThreadTouchesLive ResponseAfterThread ListExact SuspendedHasResumer
PROPERTIES ImplementsExchange
CHECK_DEADLOCK FALSE
