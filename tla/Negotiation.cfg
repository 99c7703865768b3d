SPECIFICATION Spec
CONSTANTS
  UseGl = FALSE
  Others = {"ping", "not json"}
  MaxCandidates = 1
  MaxBus = 1
INVARIANTS TypeOK MixUpNeedsLateRebuild CandidatesFindTheirPeer
PROPERTY ExchangeSpec
CHECK_DEADLOCK FALSE
