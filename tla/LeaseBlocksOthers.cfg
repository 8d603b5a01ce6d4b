SPECIFICATION JointSpec
CONSTANTS
  Devices = {d1, d2}
  Agents = {a1, a2}
  NoAgent = NoAgent
  Durations <- MCDurations
  Priorities = {0}
  MinLease = 1
  MaxLease = 2
  Epoch = 4
  MaxTime = 7
  ConfIds = {k1}
  AiAccess <- MCAiAccess
  SafetyClass <- MCSafetyClass
  BlockedCap = {}
  ConfirmCap = {}
  Wired = {d1, d2}
  Cooldown = 1
  Window = 2
  MaxWrites = 2
  TTL = 1
PROPERTY LeaseBlocksOthers
CHECK_DEADLOCK FALSE
