CONSTANTS
  Interval = 4
  MaxRtt = 3
  MaxStall = 18
  MaxStalls = 1
  Nonces = 4
SPECIFICATION Spec
CHECK_DEADLOCK FALSE
INVARIANTS TypeOK CountCoversUnanswered ResponsiveTabletIsKept LostTabletIsDropped
