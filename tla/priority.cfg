SPECIFICATION Spec
CONSTANTS
    Price = {1, 2}
    Request <- RestingRequest
    InitialPrice = 1
    OneHour = 1
    NoLimit = NoLimit
    Dangling = Dangling
    MaxOrders = 4
    MaxClock = 0
INVARIANTS Uncrossed IndexSound TimePriority
PROPERTY PricePriority
