SPECIFICATION MCSpec
CONSTANTS
  Windows = {w1}
  Versions = {1, 2}
  None = None
  MaxCalls = 3
  MaxReloads = 0
PROPERTY CachedRunIsCurrent
CHECK_DEADLOCK FALSE
