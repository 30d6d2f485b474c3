\* Two processes, two entries with two contents each, two foreign writes.
CONSTANTS
  Procs = {p1, p2}
  Paths = {a, b}
  Contents = {c1, c2}
  Absent = Absent
  MaxWrites = 2
SPECIFICATION SnapshotSpec
INVARIANTS
  SnapshotMatchesName
  CloneIsExact
