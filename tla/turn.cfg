SPECIFICATION Spec
CONSTANTS
    asking = asking
    free = free
    unknown = unknown
    Request = {asking, free, unknown}
    Known = {asking, free}
    NeedsAsking = {asking}
    Forbidden = {unknown}
    MaxTurns = 2
    MaxRetries = 1
    BlockCap = 1
    HasRetry = TRUE
    SwitchAt = {"idle"}
    MaxMessages = 1
    MaxSteers = 1
    MaxFaults = 1
    MaxSwitches = 1
INVARIANTS NothingUnapproved ExecutedOnce BudgetHolds SteersKept
PROPERTIES CallsPromise LeavesOnlyQuestions
CHECK_DEADLOCK FALSE
