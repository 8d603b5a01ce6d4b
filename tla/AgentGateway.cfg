SPECIFICATION Spec
CONSTANTS
  Callers = {c1, c2}
  ConfIds = {k1, k2}
  Devices <- MCDevices
  AiAccess <- MCAiAccess
  SafetyClass <- MCSafetyClass
  BlockedCap <- MCBlockedCap
  ConfirmCap <- MCConfirmCap
  Wired <- MCWired
  Cooldown = 1
  Window = 2
  MaxWrites = 2
  TTL = 1
  MaxTime = 7
SYMMETRY MCSymmetry
INVARIANTS GatedNeverWritten OvershootBounded SequentialCooldown OnlyGatedAwaitHuman
PROPERTIES AnsweredOnceInTime
CHECK_DEADLOCK FALSE
