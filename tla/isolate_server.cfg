SPECIFICATION FairSpec
CONSTANTS
  Preps = {p1}
  Uploads = {u1, u2}
  Downloads = {d1}
  KeyOf <- MCKeyOf
  ChanCap = 1
  MaxTries = 2
  MaxCancel = 1
  None = None
INVARIANTS
    WritersSound
PROPERTIES
    NobodyWaits
    
CHECK_DEADLOCK FALSE
