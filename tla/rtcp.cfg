SPECIFICATION ReportSpec
CONSTANTS
  SeqMod = 16
  LostMod = 32
  RTPPROBATION = 2
  ReportTrials <- AllTrials
  NULL = NULL
CHECK_DEADLOCK FALSE
INVARIANT LossIsReported
PROPERTY CollisionSettles
