CONSTANTS
  NULL = NULL
  Blank = Blank
  Task = {t1, t2}
  Request = {"OPEN_OP", "READ_OP", "WRITE_OP", "CLOSE_OP"}
  MaxCalls = 3
  LastDescriptor = 2
SPECIFICATION IoSpec
SYMMETRY Symmetry
INVARIANT RequestServedAsAsked
PROPERTIES
  OpenReturnsItsDescriptor
  ReadReturnsItsOutcome
