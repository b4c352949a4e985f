SPECIFICATION Spec
CONSTANTS
    s1 = s1
    s2 = s2
    leak = leak
    vuln = vuln
    None = None
    Assessment = {s1, s2}
    Finding = {leak}
    Triager = {}
    Category <- CategoryOf
    Engines <- SkippableEngines
    Modes <- Quick
    Extras = {}
    Verdicts = {"open", "confirmed", "dismissed", "verified_fixed"}
    Offline = FALSE
    MaxLive = 2
    MaxResumes = 0
    MaxEdits = 0
SYMMETRY ScanSymmetry
PROPERTIES CloseOnlyGone
CHECK_DEADLOCK FALSE
