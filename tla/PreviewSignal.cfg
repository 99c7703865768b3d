CONSTANT MaxMessages = 3
SPECIFICATION FairSpec
CHECK_DEADLOCK FALSE
PROPERTY SignalStopsPreview
