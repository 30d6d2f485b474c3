\* Two connections, two units in each direction.
CONSTANTS
  Policies <- SmallPolicies
  MaxSend = 2
  MaxSessions = 2
SPECIFICATION FairSpec
CHECK_DEADLOCK FALSE
INVARIANTS
  RelayedIsRecordedAndBounded
  AcceptedCaptureIsComplete
PROPERTIES
  SessionEnds
