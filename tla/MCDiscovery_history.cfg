SPECIFICATION FairSpec
CONSTANTS
    self = self
    p = p
    Peer = {self, p}
    Self = self
    IncNums = {1, 2}
    SeqNums = {1, 2}
    Absent = Absent
INVARIANTS
    TablesAgree
    HandlerInv
    AliveMessageNeverPanics
PROPERTIES
    NoGhosts
    ImplementsView
    SilentMembersLeave
CHECK_DEADLOCK FALSE
