SPECIFICATION CliFairSpec
CONSTANTS
    Preps = {r1}
    Uploads = {u1, u2, u3}
    Cancels = {c1}
    Peers = {p1}
    Files = {f1}
    Foreign = foreign
    NoSid = noSid
    Nobody = nobody
    MaxAttempts = 2
    Capacity = 1
INVARIANTS
    RetriesBounded
    CliInv
    ActiveKnown
PROPERTIES
    SummaryKnowsFiles
    SummaryPrinted
CHECK_DEADLOCK FALSE
