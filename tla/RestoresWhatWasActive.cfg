SPECIFICATION Spec
CONSTANTS
  Handlers = {h1}
  Engine = Engine
  Profiles = {b1}
  Restores = {TRUE}
  MaxConns = 3
  MaxFaults = 0
  MaxCrashes = 1
PROPERTY RestoresWhatWasActive
CHECK_DEADLOCK FALSE
