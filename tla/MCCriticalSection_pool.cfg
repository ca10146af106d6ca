SPECIFICATION Spec
CONSTANTS
    t1 = t1
    t2 = t2
    Tasks <- OneTask
    PoolSize = 2
    Limit = 8
INVARIANT FreeIsNotUsed
