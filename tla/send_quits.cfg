SPECIFICATION Spec
CONSTANTS
    Files = {1}
    MaxSends = 1
    EventCap = 1
PROPERTY QuitsOnlyIdle
CHECK_DEADLOCK FALSE
