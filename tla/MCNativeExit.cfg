\* The native backend, no faults: a started guest records its exit.
CONSTANTS
  Procs = {p1}
  NoProc = NoProc
  None = None
  MaxIterations = 1
  r1 = r1
  calm = calm
  other = other
  signal = signal
  Repairs = {r1}
  Behaviours = {calm}
  FatalBehaviours = {}
  Bundles <- TwoBundles
  GuestWrite = GuestWrite
  QemuMount = QemuMount
  Backend = "native"
  MaxFaults = 0
SPECIFICATION Spec
INVARIANTS
  StartedGuestRecordsExit
