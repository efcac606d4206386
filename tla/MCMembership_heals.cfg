CONSTANTS
    a = a
    b = b
    c = c
    Peer = {a, b, c}
    Bootstrap <- MCBootstrap
    Cuts <- MCCuts
    MayCrash = {a}
    MaxFaults = 1
SPECIFICATION FairSpec
PROPERTIES  CrashedLeave
CHECK_DEADLOCK FALSE
