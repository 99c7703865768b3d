SPECIFICATION FairSpec
CONSTANTS
  MaxStreams = 2
  MaxClients = 2
  MaxMessages = 3
INVARIANTS TypeOK StreamsHaveTheirMonitor SilentRefusalIsARepetition
PROPERTIES SignalEndsService ErrorEndsPreview
