SPECIFICATION Spec
CONSTANTS
    s1 = s1
    s2 = s2
    leak = leak
    vuln = vuln
    None = None
    user = user
    Assessment = {s1, s2}
    Finding = {leak}
    Triager = {user}
    Category <- CategoryOf
    Engines <- KeyedEngine
    Modes <- Quick
    Extras = {}
    Verdicts = {"confirmed", "dismissed"}
    Offline = FALSE
    MaxLive = 2
    MaxResumes = 1
    MaxEdits = 1
SYMMETRY ScanSymmetry
INVARIANTS NothingSwallowed HitsOnLedger
PROPERTIES TriageOverruled LedgerPromise
CHECK_DEADLOCK FALSE
