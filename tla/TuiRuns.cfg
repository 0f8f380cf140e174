SPECIFICATION FairSpec
CONSTANTS
  MaxSends = 2
  MaxOutages = 1
  MaxForeign = 1
  MaxAsks = 2
  MaxInputs = 4
INVARIANTS
  AwaitedIsUnderWay
  ResultFindsUnlocked
PROPERTIES
  InputComesBack
  LostConnectionIsReplaced
CHECK_DEADLOCK FALSE
