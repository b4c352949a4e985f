SPECIFICATION Spec
CONSTANTS
    hit = hit
    other = other
    byFinding = byFinding
    byOther = byOther
    byCand = byCand
    None = None
    user = user
    jev = jev
    Finding = {hit}
    Job = {byFinding, byCand}
    About <- AboutOf
    ByCandidate = {byCand}
    User = {user}
    Jev = {jev}
    MaxWorkers = 2
    MaxPauses = 0
    MaxTriage = 1
INVARIANTS TypeOK CandidateOnLedger
PROPERTIES TwoPassesDecide
CHECK_DEADLOCK FALSE
