SPECIFICATION FairSpec
CONSTANTS
    s1 = s1
    s2 = s2
    c1 = c1
    c2 = c2
    c3 = c3
    c4 = c4
    m1 = m1
    None = None
    Session = {s1, s2}
    Caller = {c1, c2, c3, c4}
    Wants <- OneElsewhere
    Removes <- RemoveFirst
    Remover = {m1}
    Capacity = 1
INVARIANTS TypeOK OneBuilder ReplyReachable
PROPERTIES AgentArrives
CHECK_DEADLOCK FALSE
