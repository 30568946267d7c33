SPECIFICATION FairSpec
CONSTANTS
    None = None
    Rows <- ThreeRows
    Line <- HookLine
    Subscriber <- HookSubscriber
    After <- AtOnce
    Mail <- NoRows
    Droppable <- NoRows
    Recallable <- NoRows
    Processes = {"a", "b"}
    Slots = {"s1", "s2", "s3"}
    ProcessOf <- TwoProcesses
    LeaseTime = 2
    MaxBackoff = 1
    KeepDelay = 1
    MaxAttempts = 2
    Horizon = 0
    Floors = {0, 2}
    MaxFaults = 1
INVARIANTS
    TypeOK
    InOrder
    OneDelivery
    OnePerSubscriber
PROPERTIES
    EveryRowEnds
