SPECIFICATION Spec
CONSTANTS
  Handlers = {h1, h2}
  Engine = Engine
  Profiles = {b1}
  Restores = {TRUE, FALSE}
  MaxConns = 3
  MaxFaults = 1
  MaxCrashes = 1
INVARIANTS TypeOK AckedIsDurable DisconnectedForGood StaleTargetsWereOvertaken WholeInventory
SYMMETRY MCSymmetry
CHECK_DEADLOCK FALSE
