SPECIFICATION FairSubSpec
CONSTANTS
  outer = outer
  inner = inner
  Calls <- MCCalls
  Maker <- MCMaker
  Retries = 1
  Decisions = {"auto_allow", "allow", "auto_deny", "deny"}
  PublishRaises = TRUE
  MayCancel = TRUE
  ApprovalTimeout = TRUE
INVARIANTS
  EachAttemptReported
  ConsentBeforeWork
  NoSecondWork
  ForegroundIsNested
  OneChildPerCall
  ClientsSeeChildren
PROPERTIES
  ChildrenEnd
CHECK_DEADLOCK FALSE
