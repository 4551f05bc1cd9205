SPECIFICATION RepoSpec
CONSTANTS
    Capacity = 3
    Producer = {p1, p2}
    MaxPush = 4
    PerSecond = 2
    Day = 2
INVARIANTS InOrder RowIsLatest
PROPERTIES ImplementsFifo SettledInTheEnd DrainedShutdown
CHECK_DEADLOCK FALSE
