SPECIFICATION ReaderSpec
CONSTANTS
    Price = {1, 2, 3}
    Request <- ReaderRequest
    InitialPrice = 1
    OneHour = 1
    NoLimit = NoLimit
    Dangling = Dangling
    MaxOrders = 3
    MaxClock = 0
INVARIANTS IteratorAlive SnapshotFaithful BestAskAgrees
