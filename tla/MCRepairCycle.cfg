\* Programs of up to three calls; the budget is two attempts more.
CONSTANTS
  Syscalls <- MCSyscalls
  Ends <- MCEnds
  Seeds <- MCSeeds
  LinkTarget <- MCLinkTarget
  MaxCalls = 3
  MaxIterations = 5
SPECIFICATION Spec
CHECK_DEADLOCK FALSE
INVARIANTS
  EnvironmentGrowsByNeed
  RepairHeals
  BudgetSuffices
  RepairIsNoRegression
