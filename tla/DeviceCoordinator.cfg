SPECIFICATION Spec
CONSTANTS
  Devices = {d1, d2}
  Agents = {a1, a2, a3}
  NoAgent = NoAgent
  Durations <- MCDurations
  Priorities = {0, 1}
  MinLease = 1
  MaxLease = 2
  Epoch = 1
  MaxTime = 5
INVARIANTS PromiseKept
PROPERTIES KeepsContract
SYMMETRY MCSymmetry
CHECK_DEADLOCK FALSE
