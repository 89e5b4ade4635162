SPECIFICATION MCSpec
CONSTANTS
  None = None
  Windows = {w1}
  PathFiles = {p}
  InlineFiles = {f, g}
  MaxFiles = 1
  MaxSessions = 2
  MaxMessages = 3
  KeepTail = 1
  MaxRetries = 1
  MaxSteps = 4
  MaxAsks = 2
  MaxEmits = 2
INVARIANT TypeOK
INVARIANT ShownIsRecorded
INVARIANT ContextIsTail
INVARIANT AskedInItsConversation
INVARIANT GuardHasRequest
INVARIANT StreamIsCurrent
INVARIANT RequestsWillEnd
INVARIANT AttachmentsAreLimited
INVARIANT RowsHaveAsks
PROPERTY ImplementsConversations
CHECK_DEADLOCK FALSE
