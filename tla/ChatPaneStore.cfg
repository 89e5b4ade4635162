SPECIFICATION MCSpec
CONSTANTS
  None = None
  Windows = {w1, w2}
  PathFiles = {p}
  InlineFiles = {f, g}
  MaxFiles = 1
  MaxSessions = 2
  MaxMessages = 3
  KeepTail = 1
  MaxRetries = 1
  MaxSteps = 3
  MaxAsks = 2
  MaxEmits = 1
INVARIANT ConversationsAreStored
CHECK_DEADLOCK FALSE
