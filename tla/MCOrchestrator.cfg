\* One run in every mode; any two commands may fail.
CONSTANTS
  Runs = {r1}
  Modes = {"none", "emulated", "brokered_record", "replay", "brokered_fetch", "brokered_relay"}
  MaxFaults = 2
SPECIFICATION Spec
CHECK_DEADLOCK FALSE
INVARIANTS
  GuestIsContained
  EndsAsItBegan
