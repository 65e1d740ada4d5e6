CONSTANTS
    c1 = c1
    c2 = c2
    c3 = c3
    w1 = w1
    w2 = w2
    w3 = w3
    Clients = {c1, c2, c3}
    Changes = {w1, w2, w3}
    MaxExpiries = 1
    MaxLeaks = 1
    None = None
SPECIFICATION Spec
SYMMETRY MCSymmetry
INVARIANTS MutualExclusion CacheCoherent NoLostUpdate
