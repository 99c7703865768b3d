SPECIFICATION FairSpec
CONSTANTS
  UseGl = FALSE
  Others = {}
  MaxCandidates = 0
  MaxBus = 1
PROPERTIES OfferSettles BreakdownEnds PipelinesAreReleased
CHECK_DEADLOCK FALSE
