CONSTANTS
    a = a
    b = b
    c = c
    A = A
    B = B
    NoPeer = NoPeer
    Peer = {a, b}
    Org = {A, B}
    OrgOf <- OrgOfThree
    External = {}
    Updater = {a}
    Late = {}
    Configuration <- OnlyB
    MaxTime = 2
    MaxFaults = 1
    MaxConfigurations = 0
    MaxInFlight = 1
SPECIFICATION FairSpec
PROPERTIES InfosAreLearned LeavesAreLearned
CHECK_DEADLOCK FALSE
