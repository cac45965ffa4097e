CONSTANTS
  SrcLen = 7
  Limits = {3}
  Block = 3
SPECIFICATION Spec
INVARIANT SentWhole
CHECK_DEADLOCK FALSE
