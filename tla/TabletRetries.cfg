CONSTANTS
  MaxAttempts = 1
  DebugExtras = FALSE
  MaxGeneration = 4
  MaxQueue = 3
SPECIFICATION HSpec
CHECK_DEADLOCK FALSE
INVARIANT RetriesAreBounded
