CONSTANTS
    p = p
    q = q
    r = r
    h1 = h1
    h2 = h2
    Players = {p, q, r}
    Handlers = {h1, h2}
    MaxAlliances = 2
    MaxMember = 2
    MaxRequests = 4
    MaxStops = 1
    None = None
SPECIFICATION Spec
INVARIANTS TypeOK MembersKnown OneAlliance CountsMembers NotOverfull
PROPERTY LeaderKicks
SYMMETRY Symmetry
CHECK_DEADLOCK FALSE
