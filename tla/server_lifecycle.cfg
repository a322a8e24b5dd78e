SPECIFICATION FairSpec
CONSTANTS
  Conns = {c1}
  MaxGen = 2
  MaxSessions = 1
  FilesPer = 1
  FailureLimit = 2
  MaxErrors = 2
  EventCap = 1
INVARIANTS
    ServersSound
    PromptIsLive
PROPERTIES
    RestartsSettle
CHECK_DEADLOCK FALSE
