SPECIFICATION Spec
CONSTANTS
    Window = 1
    MaxEntries = 2
    Packets <- MCPackets
    NoPacket = NoPacket
    BitmapSize = 2
    NackSize = 2
    TooOld = 1
    Start = 0
    MaxPacket = 10
    Flags <- MCFlagsOnce
    MaxTid = 1
    Capacities = {1}
    QueueSize = 1
    Unnacked = 1
    Late = 1
    Reorder = 0
INVARIANTS
    RetransmissionExact
CHECK_DEADLOCK FALSE
