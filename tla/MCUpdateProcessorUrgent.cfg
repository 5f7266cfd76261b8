SPECIFICATION FairSpec
CONSTANTS
    a = a
    b = b
    c = c
    Sources = {a, b}
    Idle = Idle
    Codes = {1}
    Priorities = {0}
    ExclusiveMin = 2
    MinDelay = 3
    PoolSize = 1
    MaxQueue = 2
PROPERTIES
    UpdatesTakenFirst
CHECK_DEADLOCK TRUE
