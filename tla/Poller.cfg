SPECIFICATION PollerSpec
CONSTANTS
    p1 = p1
    p2 = p2
    Polled = {p1, p2}
    Conns = {"c1", "c2"}
    Interval <- MCInterval
    BatchSize = 1
    PollTimeout = 1
    Recovery = 3
    MaxErrors = 2
INVARIANTS PollerTypeOK ErrorsEarned PolledInTime
PROPERTIES SuspendedComesBack
