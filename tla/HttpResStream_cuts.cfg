CONSTANTS
  SrcLen = 7
  Limits = {0, 3, 5, 9}
  Block = 3
SPECIFICATION FairSpec
INVARIANTS InOrder SentAll NoError
PROPERTY EventuallyEnds
CHECK_DEADLOCK FALSE
