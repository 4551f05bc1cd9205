SPECIFICATION Spec
CONSTANTS
    Shard = {s1, s2}
    first = first
    second = second
    extra = extra
    Listed <- TwoListed
    Instrument = {first, second, extra}
    Request <- SomeRequest
    NoTask = NoTask
    MaxCloses = 1
INVARIANTS TaskRefsLive CleanShutdown
PROPERTIES ImplementsCalls AnsweredInTheEnd ShutdownEnds
CHECK_DEADLOCK FALSE
