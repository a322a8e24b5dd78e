SPECIFICATION FairSpec
CONSTANTS
    Files = {1, 2}
    MaxSends = 2
    EventCap = 1
INVARIANTS
    SendsSound
    SuccessMeansSaved
PROPERTIES
    SendEnds
CHECK_DEADLOCK FALSE
