SPECIFICATION FairSpec
CONSTANTS
    Price = {1, 2}
    Request <- MatchRequest
    InitialPrice = 1
    OneHour = 1
    NoLimit = NoLimit
    Dangling = Dangling
    MaxOrders = 3
    MaxClock = 0
INVARIANTS NeverOverdrawn VolumeCovers Conservation AllOrNothing ReplyTruthful
PROPERTIES FairExchange RequestCompletes
