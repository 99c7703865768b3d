SPECIFICATION Spec
CONSTANTS
  Cases <- MCCases
  Captures <- MCCaptures
INVARIANTS EncodedFits LanIsTheSameForBoth NoFalseAlarm ReadyStreams
CHECK_DEADLOCK FALSE
