SPECIFICATION Spec
CONSTANTS
    Clients = {a, b}
    MaxInfo = 2
    QueueCapacity = 1
    LinkCapacity = 1
    MaxConnections = 2
    MaxRequests = 3
SYMMETRY Symmetric
INVARIANTS
    ViewSettled
    RoomSound
    GoneLeaves
CHECK_DEADLOCK FALSE
