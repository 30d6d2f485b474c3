\* Two writers at once and a reader; any of them may crash and start again.
CONSTANTS
  Writers = {w1, w2}
  Readers = {r1}
  Keys = {k1, k2}
  Values = {v1, v2}
  None = None
  MaxOps = 4
SPECIFICATION Spec
CHECK_DEADLOCK FALSE
INVARIANTS
  IndexIsBacked
  LookupNeverBroken
PROPERTIES
  ImplementsMap
