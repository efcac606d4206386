CONSTANTS
    s1 = s1
    c1 = c1
    Stream = {s1}
    GossipChannel = {c1}
    GenericCap = 1
    SpecificCap = 1
    AppCap = 1
    OutCap = 1
    DeadCap = 1
    PresumedCap = 1
    MaxBurst = 2
    MaxEvents = 4
SPECIFICATION Spec
INVARIANTS ClosedAfterUse    
PROPERTIES EveryStepUsesUp
CHECK_DEADLOCK FALSE
