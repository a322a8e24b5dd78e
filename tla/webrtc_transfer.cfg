SPECIFICATION FairSpec
CONSTANTS
    Files = {1, 2}
    Ghost = 0
    Size <- MCSize
    MaxTries = 2
INVARIANTS
    ChallengesHold
    InSync
    FilesArrive
PROPERTIES
    CallsReturn
CHECK_DEADLOCK FALSE
