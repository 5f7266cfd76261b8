SPECIFICATION TpFairSpec
CONSTANTS
    train = train
    Estop = Estop
    Programming = Programming
    Sources = {train, Estop, Programming}
    Idle = Idle
    Codes = {1}
    Priorities = {0, 2, 3}
    ExclusiveMin = 2
    EstopPriority = 2
    ProgrammingPriority = 3
    MinDelay = 1
    PoolSize = 2
    MaxQueue = 1
    NotifyCount = 4
    NotifyMax = 5
INVARIANT TpInv
PROPERTIES NoTrainPacketWhileStopped OffOnlyAfterBurst PowerGoesOff
