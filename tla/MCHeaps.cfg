SPECIFICATION HeapsSpec
CONSTANTS
    HeapAt = 3
    HeapSize = 27
    HeapSize1 = 17
    HeapSize2 = 25
    HeapSizeS = 17
    HeapRegions <- MCRegions
    Alignment = 2
    Header = 2
    SizeLimit = 64
    t1 = t1
    t2 = t2
    Tasks <- MCTasks
    Asked = {0, 1, 2, 5, 30, 59, 60, 63}
    Counts = {2, 3, 33}
SYMMETRY TaskSymmetry
INVARIANTS
    TypeOK
    BlocksTile
    EachBlockInOnePlace
    ListInOrder
    NoAdjoiningFree
    FreeBytesExact
    Heap2WellFormed
    Heap5WellFormed
    MinimumWithinFree
PROPERTIES
    IsAllocator
    Heap1IsAllocator
    Heap2IsAllocator
    Heap5IsAllocator
