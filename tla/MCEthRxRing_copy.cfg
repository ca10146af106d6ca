SPECIFICATION Spec
CONSTANTS
    N = 2
    f1 = f1
    f2 = f2
    Frames <- MCFrames
    NoFrame = NoFrame
    PoolSize = 1
    MboxSize = 1
    AutoResume = TRUE
    NisLevel = TRUE
INVARIANT CopyIsTheFrame
