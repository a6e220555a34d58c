SPECIFICATION Spec
CONSTANTS
  framesPerBuffer = 3
  MaxFrames = 5
  FifoFrames = 4
  accuracy = 2
  Packets = 3
  PacketFrames = 2
  Early = {4}
  Late = {6}
  Jitters = {0, 1}
  Forth = {4}
  Back = {3}
  LastDiffs = {3}
  Lossy = TRUE
  MaxBuffered = 8
  MaxClock = 20
CHECK_DEADLOCK FALSE
INVARIANT LastMarkBehind
INVARIANT KnowsPosition
PROPERTY CorrectsTime
PROPERTY KeepsPlaying
