SPECIFICATION Spec
CONSTANTS
    asking = asking
    free = free
    unknown = unknown
    Request = {asking}
    Known = {asking}
    NeedsAsking = {asking}
    Forbidden = {}
    MaxTurns = 2
    MaxRetries = 0
    BlockCap = 0
    HasRetry = FALSE
    SwitchAt = {"tools"}
    MaxMessages = 1
    MaxSteers = 0
    MaxFaults = 0
    MaxSwitches = 1
INVARIANTS NothingUnapproved
CHECK_DEADLOCK FALSE
