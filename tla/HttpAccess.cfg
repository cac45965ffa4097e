CONSTANTS
  PayldLimit = 3
  UpldsLimit = 3
  MaxPiece = 2
  MaxPieces = 4
SPECIFICATION Spec
INVARIANTS OnlyGrantedIsServed ServedWithinLimits StreamsFreed UploadsFreedOnce UploadsComplete
CHECK_DEADLOCK FALSE
