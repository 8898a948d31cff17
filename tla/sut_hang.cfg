CONSTANTS
  NULL = NULL
  Blank = Blank
  Task = {t1}
  Request = {OPEN_OP}
  MaxCalls = 1
SPECIFICATION FairSpec
PROPERTY ShutdownReturns
