\* Two runs of one iteration with the self test, for 64 policies and hosts.
CONSTANTS
  Requests <- MCRequests
  SelfTest = TRUE
  MaxRuns = 2
  Remotes = {"c2", "cdn"}
  Ports = {80, 41, 42}
  MinPort = 20
  MaxPort = 22
  CatchTcp = 41
  CatchUdp = 42
SPECIFICATION Spec
CHECK_DEADLOCK FALSE
INVARIANTS
  NoEgress
  EndpointPreserved
  EvidenceIsTheGuests
  CleanedAfterReady
  FailedSetupLeavesNothing
