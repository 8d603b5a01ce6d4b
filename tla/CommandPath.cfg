SPECIFICATION Spec
CONSTANTS
  Requests = {q1, q2, q3}
  Keys = {k1, k2, k3}
  NoKey = NoKey
  TTL = 1
  MaxEntries = 2
  MaxTime = 3
  MaxCrashes = 1
INVARIANTS TypeOK WriteAheadAudit OutcomeIsTrue ReplayIsRecorded AnsweredKeyNotRerun CacheBounded
SYMMETRY MCSymmetry
CHECK_DEADLOCK FALSE
