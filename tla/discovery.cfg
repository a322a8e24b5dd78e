SPECIFICATION FairSpec
CONSTANTS
    Peers = {a}
    Own = own
    Staged = {s1, s2}
    Direct = {d1}
    Ifaces = {i1}
    Hosts = {h1, h2}
    Favorites = {f1}
    Bursts = 1
    EventCap = 1
    MaxFound = 2
INVARIANTS
    ScansSound
PROPERTIES
    EscalatesOnSilence
    ScansEnd
CHECK_DEADLOCK FALSE
