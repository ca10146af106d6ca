SPECIFICATION Spec
CONSTANTS
    N = 2
    p1 = p1
    p2 = p2
    Packets <- MCPackets
    NoPacket = NoPacket
    SplitFetch = FALSE
INVARIANT WireIsQueued
