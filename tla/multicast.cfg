SPECIFICATION MulticastFairSpec
CONSTANTS
    Instances = {1, 2}
    NoInstance = 0
    Sockets = {i1, i2}
    MaxErrors = 2
    QueueCap = 1
    DiscoveryCap = 1
INVARIANTS
    SocketsSound
    StopReleases
PROPERTIES
    FailureTold
    CallsReturn
CHECK_DEADLOCK FALSE
