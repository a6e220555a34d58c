SPECIFICATION Spec
CONSTANTS
  MaxSessions = 2
  MaxCalls = 5
  Tracks = {"asset", "file"}
  Listens = TRUE
  Cleanups = TRUE
CHECK_DEADLOCK FALSE
INVARIANT StopsCleanly
INVARIANT StartedAtLast
PROPERTY TasksFinish
