SPECIFICATION McpSpec
CONSTANTS
  Calls = {t1, t2}
  Retries = 1
  Decisions = {"auto_allow"}
  PublishRaises = FALSE
  MayCancel = TRUE
  MaxNoise = 1
SYMMETRY Sym
INVARIANTS
  NoCrossTalk
  LockOfReader
  WorkBounded
CHECK_DEADLOCK FALSE
