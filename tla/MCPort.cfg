SPECIFICATION MCSpec
CONSTANTS
    t1 = t1
    t2 = t2
    Tasks <- TwoTasks
    PoolSize = 2
    Limit = 8
    TCBs <- TwoTCBs
    InterruptDepth = 2
    Reserved = 3
INVARIANTS
    TypeOK
    CountsUnlessOverlap
    ResumedIntact
    InterruptStackFree
