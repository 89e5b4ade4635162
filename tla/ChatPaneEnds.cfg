SPECIFICATION MCFairSpec
CONSTANTS
  None = None
  Windows = {w1}
  PathFiles = {p}
  InlineFiles = {f}
  MaxFiles = 1
  MaxSessions = 2
  MaxMessages = 3
  KeepTail = 1
  MaxRetries = 1
  MaxSteps = 3
  MaxAsks = 2
  MaxEmits = 1
PROPERTIES AsksEnd WorkRunsOut
CHECK_DEADLOCK FALSE
