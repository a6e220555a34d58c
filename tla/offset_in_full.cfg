SPECIFICATION ClockSpec
CONSTANTS
  ahead = ahead
  behind = behind
  Senders = {ahead, behind}
  Skew <- Apart
  count = 2
  minerr = 0
  delay = 0
  NTP_INSANITY = 100
  Milli = 2
  Second = 8
  MaxTime = 4
  MaxSessions = 2
  MaxRuns = 3
  MaxStreams = 2
  NONE = NONE
INVARIANT OffsetInFull
CHECK_DEADLOCK FALSE
