CONSTANTS
    c1 = c1
    p1 = p1
    p2 = p2
    p3 = p3
    Caller = {c1}
    Peer = {p1, p2, p3}
    MaxAttempts = 3
    BuffSize = 1
    PromptTimers = TRUE
SPECIFICATION Spec
SYMMETRY Peers
CONSTRAINT OneKindOfCall
INVARIANTS TypeOK  Reachable AckedByEnough  TopicsGo
PROPERTIES NothingGoesBack
CHECK_DEADLOCK FALSE
