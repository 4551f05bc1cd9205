SPECIFICATION Spec
CONSTANTS
    Price = {1, 2}
    Request <- RestingRequest
    InitialPrice = 1
    OneHour = 1
    NoLimit = NoLimit
    Dangling = Dangling
    MaxOrders = 3
    MaxClock = 0
PROPERTY LimitRespected
