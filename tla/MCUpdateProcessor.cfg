SPECIFICATION FairSpec
CONSTANTS
    a = a
    b = b
    c = c
    Sources = {a, b, c}
    Idle = Idle
    Codes = {1}
    Priorities <- MCPriorities
    ExclusiveMin = 2
    MinDelay = 1
    PoolSize = 1
    MaxQueue = 2
INVARIANTS TypeOK SourcesConsistent ExclusiveIsHighest
PROPERTIES OnlyRegisteredCalled ExclusiveOwnsTrack PacketsSpaced ImplementsScheduler NobodyStarves
