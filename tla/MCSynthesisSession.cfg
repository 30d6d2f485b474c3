\* Two operators, two attempts, two faults.
CONSTANTS
  Procs = {p1, p2}
  NoProc = NoProc
  None = None
  MaxIterations = 2
  r1 = r1
  calm = calm
  other = other
  signal = signal
  Repairs = {r1}
  Behaviours = {calm}
  FatalBehaviours = {}
  Bundles <- TwoBundles
  GuestWrite = GuestWrite
  QemuMount = QemuMount
  Backend = "qemu"
  MaxFaults = 2
SYMMETRY ProcSymmetry
SPECIFICATION Spec
INVARIANTS
  TypeOK
  GuestRunsAtMostOnce
  NoGuestWritesInSnapshots
  VerifiesUnlessFaulty
  RunDirHasClaim
  EnvironmentLineage
  OneOwnerPerClaim
PROPERTIES
  GuestStartsFromSnapshot
  AppendOnlyStores
  ResetIsSafe
  ImplementsLedger
