SPECIFICATION FairSpec
CONSTANTS
    client = client
    dropped = dropped
    w1 = w1
    w2 = w2
    Canceller = {client, dropped}
    Client = {client}
    MaxPauses = 2
    MaxFetches = 2
    Worker = {w1, w2}
    MaxJobs = 3
    MaxTurns = 2
    MaxCost = 3
    Price = 2
INVARIANTS NothingAfterCancel OvershootBounded
PROPERTIES CancelEndsScan
CHECK_DEADLOCK FALSE
