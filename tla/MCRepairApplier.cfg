SPECIFICATION Spec
CONSTANTS
  Paths <- MCPaths
  Denied <- MCDenied
  MaxPlan = 2
  MaxFaults = 2
  MaxForeign = 1
CHECK_DEADLOCK FALSE
INVARIANTS
  CompletedIsSatisfied
  FailedLeavesAtMostOne
PROPERTIES
  OnlyOwnIsRemoved
