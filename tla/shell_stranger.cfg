CONSTANTS
  Pid = {p1, p2, p3}
  MAX_NUM_JOBS = 2
  FG_PID_DEFAULT = none
SPECIFICATION Spec
SYMMETRY Symmetry
PROPERTY ExitSparesStrangers
