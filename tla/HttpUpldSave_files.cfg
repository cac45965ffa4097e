CONSTANTS
  Uplds = {u1, u2}
  Paths = {a, b, d}
  Dirs = {d}
  Existing = {a}
  Old = Old
  None = None
  Overwrites = {TRUE, FALSE}
  MaxCalls = 2
  IoErrors = TRUE
SPECIFICATION Spec
INVARIANTS UploadInOnePlace LossReported
PROPERTY OldFileKept
CHECK_DEADLOCK FALSE
