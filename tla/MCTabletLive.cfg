CONSTANTS
  MaxAttempts = 1
  DebugExtras = TRUE
  MaxGeneration = 3
  MaxQueue = 2
SPECIFICATION FairSpec
CHECK_DEADLOCK FALSE
PROPERTIES ReconnectingEnds LossIsNoticed
