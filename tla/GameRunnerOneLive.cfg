SPECIFICATION MCSpec
CONSTANTS
  Windows = {w1}
  Versions = {1}
  None = None
  MaxCalls = 2
  MaxReloads = 0
INVARIANT OneLiveProcess
CHECK_DEADLOCK FALSE
