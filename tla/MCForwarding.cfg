SPECIFICATION Spec
CONSTANTS
    Window = 8
    MaxEntries = 2
    Packets <- MCPackets
    NoPacket = NoPacket
    BitmapSize = 4
    NackSize = 3
    TooOld = 3
    Start = 62
    MaxPacket = 4
    Flags <- MCFlags
    MaxTid = 1
    Capacities = {2, 4}
    QueueSize = 1
    Unnacked = 1
    Late = 1
    Reorder = 1
INVARIANTS
    TypeOK
    NumberingExact
    RetransmissionExact
    NacksMissing
    CacheRecent
    NacksScheduled
CHECK_DEADLOCK FALSE
