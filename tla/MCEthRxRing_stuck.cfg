SPECIFICATION FairSpec
CONSTANTS
    N = 2
    f1 = f1
    f2 = f1
    Frames <- MCFrames
    NoFrame = NoFrame
    PoolSize = 1
    MboxSize = 1
    AutoResume = TRUE
    NisLevel = TRUE
PROPERTY FrameTaken
