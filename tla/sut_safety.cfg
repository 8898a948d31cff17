CONSTANTS
  NULL = NULL
  Blank = Blank
  Task = {t1, t2, t3}
  Request = {OPEN_OP}
  MaxCalls = 2
SPECIFICATION FairSpec
INVARIANTS
  TypeOK
  PoppedTaskIsThePeekedOne
  CurrentPointersAgree
  TaskConservation
  RequestMatchesPlace
  StartedTaskNeverAbandoned
PROPERTIES
  AbstractTasks
  TaskFinishesWhileExecutorsRun
  QuietShutdownReturns
