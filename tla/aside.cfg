SPECIFICATION Spec
CONSTANTS
    Price = {1, 2}
    Request <- DateRequest
    InitialPrice = 1
    OneHour = 1
    NoLimit = NoLimit
    Dangling = Dangling
    MaxOrders = 3
    MaxClock = 2
INVARIANTS StopSetAside CancelledIsOut
PROPERTY ExpirySound
