SPECIFICATION Spec
CONSTANTS
  MaxRuns = 2
  MaxSteps = 3
  MaxCalls = 1
  MaxCompacts = 0
  AutoCompact = TRUE
  Faults = FALSE
INVARIANTS
  AnswerPersisted
CHECK_DEADLOCK FALSE
