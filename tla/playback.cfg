SPECIFICATION Spec
CONSTANTS
  Item = {song, tune}
  Position = {0, 1}
  NULL = NULL
  MaxCalls = 4
  MaxFocus = 2
CHECK_DEADLOCK FALSE
INVARIANT PlaysWithFocus
INVARIANT RequestsHold
PROPERTY BufferingEnds
