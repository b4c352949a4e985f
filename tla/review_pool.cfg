SPECIFICATION FairSpec
CONSTANTS
    hit = hit
    other = other
    byFinding = byFinding
    byOther = byOther
    byCand = byCand
    None = None
    Finding = {hit, other}
    Job = {byFinding, byOther}
    About <- AboutOf
    ByCandidate = {byOther}
    User = {}
    Jev = {}
    MaxWorkers = 1
    MaxPauses = 1
    MaxTriage = 0
PROPERTIES CancelEndsPool UnpausedPoolEnds
CHECK_DEADLOCK FALSE
