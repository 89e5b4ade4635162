SPECIFICATION MCFairSpec
CONSTANTS
  Windows = {w1}
  Versions = {1, 2}
  None = None
  MaxCalls = 2
  MaxReloads = 1
INVARIANTS TypeOK TrackedIsNewest RefusalHasRun RunningIsShown CallsHaveOneProcess
PROPERTY CallsEnd
CHECK_DEADLOCK FALSE
