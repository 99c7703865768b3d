CONSTANTS
  MaxAttempts = 2
  DebugExtras = FALSE
  MaxGeneration = 4
  MaxQueue = 3
SPECIFICATION Spec
CHECK_DEADLOCK FALSE
INVARIANTS TypeOK OneTransport AnswersReachTheirHost ReconnectingIsArmed LossIsReported StreamingHasVideo 
 
