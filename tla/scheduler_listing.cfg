SPECIFICATION Spec
CONSTANTS
    j1 = j1
    j2 = j2
    r1 = r1
    r2 = r2
    c1 = c1
    c2 = c2
    t1 = t1
    t2 = t2
    t3 = t3
    t4 = t4
    daily = daily
    hourly = hourly
    garbled = garbled
    Absent = Absent
    Job = {j1}
    Caller = {c1, c2}
    Run = {r1, r2}
    Cron = {daily, garbled}
    Invalid = {garbled}
    TaskId = {t1, t2, t3}
    ListAlone = FALSE
    MaxRequests = 3
    MaxFaults = 1
    MaxCrashes = 1
CHECK_DEADLOCK FALSE
SYMMETRY SchedulerSymmetry
INVARIANT NothingLost
