CONSTANTS
    self = self
    o1 = o1
    o2 = o2
    f = f
    g = g
    blk = blk
    lead = lead
    info = info
    ours = ours
    own = own
    int = int
    ext = ext
    Peer = {self, o1, o2, f, g}
    Self = self
    Msg = {blk, lead, info, ours, own, int, ext}
    Kind <- MCKind
    Origin <- MCOrigin
    From <- MCFrom
    Org <- MCOrg
    External = {self, f, g}
    InChannel = {self, o1, o2, f}
    Informed = {o1, o2, f}
    PropagatePeerNum = 2
    Iterations = 2
    BurstSize = 2
    MaxAdds = 2
    MaxPurges = 1
SPECIFICATION Spec
INVARIANTS TypeOK SecretStaysHome StaysWhereItBelongs EmittedOften  AllLeave
CHECK_DEADLOCK FALSE
