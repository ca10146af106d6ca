SPECIFICATION TrafficSpec
CONSTANTS
    N = 3
    f1 = f1
    f2 = f1
    Frames <- MCFrames
    NoFrame = NoFrame
    PoolSize = 2
    MboxSize = 1
    AutoResume = TRUE
    NisLevel = TRUE
INVARIANT PbufsConserved
PROPERTY FrameTaken
