SPECIFICATION StreamSpec
CONSTANTS
  Times <- Varying
  PlaybackStart = 100
  Streams <- AllStreams
  FirstTimestamps = {0, 26}
  SeqNumMod = 16
  TimestampMod = 32
  PROBATIONCOUNT = 2
  MAXPROBATIONPACKETS = 3
  GapLimit = 4
CHECK_DEADLOCK FALSE
INVARIANT DecoderGetsStream
INVARIANT WithinOneFrame
PROPERTY EndMarkerEndsLoop
