SPECIFICATION TrafficSpec
CONSTANTS
    N = 4
    p1 = p1
    p2 = p2
    Packets <- MCPackets
    NoPacket = NoPacket
    SplitFetch = TRUE
INVARIANTS
    TypeOK
    RingWindow
    SuspendedShowsTbus
    SuspendedLeavesOne
    DamageOnlyToOldest
PROPERTIES
    RingIsQueue
    PacketSent
