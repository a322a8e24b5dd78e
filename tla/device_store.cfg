SPECIFICATION StoreSpec
CONSTANTS
    Devices = {1, 2}
    Channels = {"v4", "v6", "v6b", "w6"}
    V6 = {"v6", "v6b", "w6"}
    HostOf <- MCHostOf
    Reach <- MCReach
    ChannelCap = 1
    MaxLogs = 2
    MaxSlots = 1
    MaxConfirmed = 3
    MaxKeys = 2
INVARIANTS
    RankingSound
    PairedKept
PROPERTIES
    HighlightKept
CHECK_DEADLOCK FALSE
