SPECIFICATION Spec
CONSTANTS
  NULL = NULL
  song = song
  tune = tune
  Local <- OneLocal
  Remote <- OneRemote
  Queues <- ShortQueues
  Port <- TwoPorts
  MaxCalls = 4
CHECK_DEADLOCK FALSE
INVARIANT ArtworkIsCurrent
INVARIANT CastsWhatPlays
INVARIANT StopIsDue
PROPERTY ConnectingEnds
