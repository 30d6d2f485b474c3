\* A loop and an operator work on the session at the same time.
CONSTANTS
  Procs = {p1, p2}
  NoProc = NoProc
  None = None
  MaxIterations = 2
  r1 = r1
  calm = calm
  other = other
  signal = signal
  Repairs = {r1}
  Behaviours = {calm}
  FatalBehaviours = {}
  Bundles <- RepairOnly
  GuestWrite = GuestWrite
  QemuMount = QemuMount
  Backend = "qemu"
  MaxFaults = 0
  MaxSteps = 2
SPECIFICATION LoopFairSpec
INVARIANTS
  CompletedOutcomeIsTrue
PROPERTIES
  LoopTerminates
