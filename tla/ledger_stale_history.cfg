SPECIFICATION Spec
CONSTANTS
    s1 = s1
    s2 = s2
    leak = leak
    vuln = vuln
    None = None
    user = user
    Assessment = {s1}
    Finding = {leak}
    Triager = {}
    Category <- InHistory
    Engines <- GitEngine
    Modes <- Quick
    Extras = {}
    Verdicts = {"open", "confirmed", "dismissed", "verified_fixed"}
    Offline = FALSE
    MaxLive = 2
    MaxResumes = 1
    MaxEdits = 1
INVARIANT NothingSwallowedAtAll
CHECK_DEADLOCK FALSE
