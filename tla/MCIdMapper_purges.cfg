CONSTANTS
    self = self
    p = p
    w1 = w1
    w2 = w2
    none = none
    NoId = none
    Id = {self, p}
    Self = self
    Learner = {w1}
    MaxStores = 2
SPECIFICATION FairSpec
INVARIANTS EveryIdentityExpires
 
CHECK_DEADLOCK FALSE
