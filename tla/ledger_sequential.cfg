SPECIFICATION Spec
CONSTANTS
    s1 = s1
    s2 = s2
    s3 = s3
    leak = leak
    vuln = vuln
    None = None
    Assessment = {s1, s2, s3}
    Finding = {leak, vuln}
    Triager = {}
    Category <- CategoryOf
    Engines <- ThreeEngines
    Modes <- Quick
    Extras = {}
    Verdicts = {"open", "confirmed", "dismissed", "verified_fixed"}
    Offline = FALSE
    MaxLive = 1
    MaxResumes = 0
    MaxEdits = 2
SYMMETRY ScanSymmetry
PROPERTIES CloseOnlyGone LedgerMatchesTree
CHECK_DEADLOCK FALSE
