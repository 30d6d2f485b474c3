\* Loop invocations and single commands in turn, native backend, five attempts, every bundle.
CONSTANTS
  Procs = {p1}
  NoProc = NoProc
  None = None
  MaxIterations = 5
  r1 = r1
  calm = calm
  other = other
  signal = signal
  Repairs = {r1}
  Behaviours = {calm, other, signal}
  FatalBehaviours = {signal}
  Bundles <- AllBundles
  GuestWrite = GuestWrite
  QemuMount = QemuMount
  Backend = "native"
  MaxFaults = 1
  MaxSteps = 2
SPECIFICATION LoopSpec
INVARIANTS
  ActiveSessionCanContinue
  FailedMeansTimeoutOrCrash
  NoOrphanClaim
