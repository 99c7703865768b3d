SPECIFICATION FairSpec
CONSTANTS
  MaxStreams = 1
  MaxClients = 1
  MaxMessages = 1
PROPERTY SignalClosesSession
