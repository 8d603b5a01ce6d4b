SPECIFICATION Spec
CONSTANTS
    Subscribers = {"engine", "stream", "watcher"}
    QueueSize = 2
    Points = {"p1"}
    Readers = {r1, r2}
    Clients = {"c1"}
    Wants <- MCWants
    ClientQueue = 2
    MaxReadings = 3
    WatchedFor = {"*"}
    MaxEvents = 3
    MaxFaults = 1
INVARIANTS TypeOK SettlesOnTheLast StreamAccounts
PROPERTIES KeepsBusContract EveryEventIsDispatched
CHECK_DEADLOCK FALSE
