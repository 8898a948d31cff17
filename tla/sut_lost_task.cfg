CONSTANTS
  NULL = NULL
  Blank = Blank
  Task = {t1, t2}
  Request = {OPEN_OP}
  MaxCalls = 1
SPECIFICATION Spec
INVARIANT ShutdownLosesNoTask
