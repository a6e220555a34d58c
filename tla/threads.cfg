SPECIFICATION ThreadsSpec
CONSTANTS
  Frames = 6
  Large = {1, 3}
  InputBuffers = 3
  OutputBuffers = 2
  MaxGap = 1
  NULL = NULL
INVARIANT AllHeardAtEnd
INVARIANT SharesSafely
PROPERTY ThreadsEnd
CHECK_DEADLOCK FALSE
