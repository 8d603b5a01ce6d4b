SPECIFICATION Spec
CONSTANTS
    Exact = {"point.reported"}
    Globs = {"point.*"}
    Wildcard = "*"
    QueueSize = 2
    MaxEvents = 3
    MaxOutages = 2
    MaxInFlight = 3
INVARIANTS NothingVanishes ListenerHears
PROPERTIES QueueDrains
