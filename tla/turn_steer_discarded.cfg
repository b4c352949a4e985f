SPECIFICATION Spec
CONSTANTS
    asking = asking
    free = free
    unknown = unknown
    Request = {}
    Known = {}
    NeedsAsking = {}
    Forbidden = {}
    MaxTurns = 2
    MaxRetries = 0
    BlockCap = 0
    HasRetry = FALSE
    SwitchAt = {"idle"}
    MaxMessages = 1
    MaxSteers = 1
    MaxFaults = 0
    MaxSwitches = 0
PROPERTIES SteersPickedUp
CHECK_DEADLOCK FALSE
