SPECIFICATION TpSpec
CONSTANTS
    train = train
    Estop = Estop
    Programming = Programming
    Sources = {train, Estop, Programming}
    Idle = Idle
    Codes = {1}
    Priorities = {0, 2, 3}
    ExclusiveMin = 2
    EstopPriority = 2
    ProgrammingPriority = 3
    MinDelay = 1
    PoolSize = 1
    MaxQueue = 1
    NotifyCount = 2
    NotifyMax = 3
PROPERTIES
    OffOnlyWhenCommanded
CHECK_DEADLOCK TRUE
