SPECIFICATION Spec
CONSTANTS
  s1 = s1
  s2 = s2
  s3 = s3
  phone = phone
  tablet = tablet
  SSRC <- Runs
  Address <- Devices
  Home <- PhoneTwice
  Trials <- RestartOrRepeat
  MaxDeficit = 1
CHECK_DEADLOCK FALSE
INVARIANT CountMatchesSources
INVARIANT DestinationsMatchSources
PROPERTY EventuallyRight
