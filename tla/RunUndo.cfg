SPECIFICATION MCSpec
CONSTANTS
  present = present
  missing = missing
  Paths = {present, missing}
  Contents = {"bytes", "text"}
  Absent = Absent
  Decoded <- MCDecoded
  Unread = Unread
  Calls <- MCCalls
  MaxRuns = 2
  MaxSteps = 3
  MaxPaths = 2
INVARIANTS TypeOK UndoRestoresRun ChangedRunHasCard
CONSTRAINT Alive
CHECK_DEADLOCK FALSE
