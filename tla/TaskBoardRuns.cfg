SPECIFICATION BoardSpec
CONSTANTS
  MaxTasks = 3
  IdSets = {{}, {1}, {2}, {1, 2}, {3}}
  WritesFail = TRUE
INVARIANTS
  Grounded
  NeverStuck
CHECK_DEADLOCK FALSE
