SPECIFICATION Spec
CONSTANTS
  Interval = 5
  HelloTimeout = 10
  MaxBlind = 20
  ConnectTimeout = 5
  MaxOutages = 3
INVARIANTS TypeOK GivesUpOnlyWhenCutOff
