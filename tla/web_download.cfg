SPECIFICATION FairSpec
CONSTANTS
    Reqs = {r1, r2}
    Dls = {d1}
    Ips = {i1, i2}
    NoReq = noReq
    MaxPin = 1
    Capacity = 1
INVARIANTS
    IInv
PROPERTIES
    AcceptedOnlyReplaced
    ReqResolved
CHECK_DEADLOCK FALSE
