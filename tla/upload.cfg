SPECIFICATION FairSpec
CONSTANTS
    Preps = {r1, r2}
    Uploads = {u1}
    Cancels = {c1}
    Peers = {p1}
    Files = {f1, f2}
    Foreign = foreign
    NoSid = noSid
    Nobody = nobody
    MaxAttempts = 2
    Capacity = 1
INVARIANTS
    SlotOwned
    IInv
PROPERTIES
    ImplementsSlot
    PendingResolved
    UploadResolved
    EndReported
CHECK_DEADLOCK FALSE
