CONSTANTS
  Uplds = {u1, u2}
  Paths = {a, b, d}
  Dirs = {d}
  Existing = {a}
  Old = Old
  None = None
  Overwrites = {FALSE}
  MaxCalls = 1
  IoErrors = FALSE
SPECIFICATION Spec
INVARIANT SaveExclusive
CHECK_DEADLOCK FALSE
