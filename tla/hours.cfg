SPECIFICATION FairSpec
CONSTANTS
    Opening = 1
    Closing = 3
    LastMinute = 4
    Hour = 1
    Forward = {3}
    Back = {8}
    StartDate <- EndOfJanuary
    StartWeekday = 2
    MaxDay = 12
INVARIANT Reopens
PROPERTIES OpensInTheEnd ShutdownCompletes
CHECK_DEADLOCK FALSE
