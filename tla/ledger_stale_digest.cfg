SPECIFICATION Spec
CONSTANTS
    s1 = s1
    leak = leak
    vuln = vuln
    None = None
    Assessment = {s1}
    Finding = {leak}
    Triager = {}
    Category <- CategoryOf
    Engines <- SkippableEngines
    Modes <- Quick
    Extras = {}
    Verdicts = {"open", "confirmed", "dismissed", "verified_fixed"}
    Offline = FALSE
    MaxLive = 1
    MaxResumes = 1
    MaxEdits = 2
INVARIANTS NothingSwallowed
CHECK_DEADLOCK FALSE
