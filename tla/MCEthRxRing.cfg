SPECIFICATION Spec
CONSTANTS
    N = 3
    f1 = f1
    f2 = f2
    Frames <- MCFrames
    NoFrame = NoFrame
    PoolSize = 1
    MboxSize = 1
    AutoResume = TRUE
    NisLevel = TRUE
SYMMETRY FrameSymmetry
INVARIANTS
    TypeOK
    RingWindow
    TakeFindsFrame
    FullIsSignalled
    CopyIntactUnlessFull
PROPERTY RingIsQueue
