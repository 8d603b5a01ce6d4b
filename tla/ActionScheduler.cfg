SPECIFICATION FairSpec
CONSTANTS
  s1 = s1
  s2 = s2
  Ids <- MCIds
  Initiators = {"agent", "user"}
  InitiatorOf <- MCInitiatorOf
  Anyone = "anyone"
  Limits = {0, 1, 2}
  NoLimit <- MCNoLimit
  RunCap = 3
  WaitForSwallows = TRUE
INVARIANTS StatusMatchesTask RunsAsAsked
PROPERTIES CancelledAsleepNeverRuns ScheduleGetsGoing
CHECK_DEADLOCK FALSE
