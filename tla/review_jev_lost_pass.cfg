SPECIFICATION Spec
CONSTANTS
    hit = hit
    other = other
    byFinding = byFinding
    byOther = byOther
    byCand = byCand
    None = None
    jev = jev
    Finding = {hit}
    Job = {byFinding}
    About <- AboutOf
    ByCandidate = {}
    User = {}
    Jev = {jev}
    MaxWorkers = 1
    MaxPauses = 0
    MaxTriage = 1
INVARIANTS EvidenceBacksReview
CHECK_DEADLOCK FALSE
