\* One pipeline; two steps may fail and two interrupts may come.
CONSTANTS
  Pipelines = {p1}
  Events <- MCEvents
  MaxEvents = 3
  Threshold = 1024
  Loopback = {"lo"}
  MaxFaults = 2
  MaxInterrupts = 2
SPECIFICATION Spec
CHECK_DEADLOCK FALSE
INVARIANTS
  ThresholdRestored
  ServicesAreAdmitted
