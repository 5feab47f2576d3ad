SPECIFICATION FairSpec
CONSTANTS
    Workers = {w1, w2, w3, w4, w5}
    MaxWaiters = 3
INVARIANTS
    TypeOK
    OnePermit
    QueuesMatchTasks
    NextIsWoken
PROPERTIES
    GrantOrder
    CleanupIsServed
    NormalIsServed
