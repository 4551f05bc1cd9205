SPECIFICATION RepoSpec
CONSTANTS
    Price = {1, 2}
    Request <- DurableRequest
    InitialPrice = 1
    OneHour = 1
    NoLimit = NoLimit
    Dangling = Dangling
    MaxOrders = 3
    MaxClock = 0
    IdOrder <- LastFirst
    NoEntry = NoEntry
    MaxRing = 2
    MaxRestarts = 1
INVARIANTS NothingForgotten StoredCovers ReloadExact
PROPERTY DeletesFinished
