SPECIFICATION FairSpec
CONSTANTS
  MaxRuns = 3
  MaxSteps = 2
  MaxCalls = 2
  MaxCompacts = 1
  AutoCompact = TRUE
  Faults = TRUE
INVARIANTS
  RequestsWellPaired
  UserMessageSeen
PROPERTIES
  ThreadGrowsByRun
  RunEnds
CHECK_DEADLOCK FALSE
