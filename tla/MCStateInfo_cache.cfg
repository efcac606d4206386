CONSTANTS
    a = a
    b = b
    c = c
    A = A
    B = B
    NoPeer = NoPeer
    Peer = {a, b, c}
    Org = {A, B}
    OrgOf <- OrgOfThree
    External = {}
    Updater = {a}
    Late = {b}
    Configuration <- OnlyB
    MaxTime = 2
    MaxFaults = 1
    MaxConfigurations = 1
    MaxInFlight = 1
SPECIFICATION Spec
CONSTRAINT OneDisturbance
INVARIANTS HiddenStaysHome 
CHECK_DEADLOCK FALSE
