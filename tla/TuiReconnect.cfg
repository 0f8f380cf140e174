SPECIFICATION FairSpec
CONSTANTS
  MaxSends = 1
  MaxOutages = 1
  MaxForeign = 0
  MaxAsks = 1
  MaxInputs = 2
PROPERTIES
  Reconnects
CHECK_DEADLOCK FALSE
